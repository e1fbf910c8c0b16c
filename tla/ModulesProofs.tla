---------------------------- MODULE ModulesProofs ----------------------------
(***************************************************************************)
(* The machines of ModuleParts, one at a time: the inductive invariant at  *)
(* the end of a part's module holds of its initial states and is kept by   *)
(* its every step, for any threads and any things; and so what the runs    *)
(* check of them.                                                          *)
(***************************************************************************)
EXTENDS ModuleParts, TLAPS, WellFoundedInduction, FiniteSetTheorems

\* A behaviour exercises one part.
LEMMA MachineStays == [ModulesNext]_vars => machine' = machine
  BY DEF ModulesNext, vars, Rest

-----------------------------------------------------------------------------
(* The news. *)

LEMMA NewsInitially == News!Init => News!IInv
<1> SUFFICES ASSUME News!Init PROVE News!IInv
  OBVIOUS
<1>1. News!None \in News!Versions /\ \A a \in News!Stories : News!None[a] = 0
  BY DEF News!None, News!Versions
<1>2. PICK l \in Actors : v5 = [k \in Actors |-> IF k = l THEN News!Waiting(News!None) ELSE News!Gone]
  BY DEF News!Init
<1>3. \A k \in Actors : /\ v5[k].at \in {"off", "wait"} /\ v5[k].listed = News!None /\ v5[k].fresh = {}
                        /\ v5[k].bodies = News!None /\ v5[k].alone = FALSE /\ v5[k].done = News!None
                        /\ v5[k] = News!Thread(v5[k].at, News!None, {}, News!None, FALSE, News!None)
  BY <1>2 DEF News!Waiting, News!Gone, News!Thread
<1>4. News!Cycling = {}
  BY <1>3 DEF News!Cycling
<1>5. v5 \in [Actors -> [at : {"off", "wait", "know", "read", "save"}, listed : News!Versions,
              fresh : SUBSET News!Stories, bodies : News!Versions, alone : BOOLEAN, done : News!Versions]]
  <2>1. \A k \in Actors : v5[k] \in [at : {"off", "wait", "know", "read", "save"}, listed : News!Versions,
              fresh : SUBSET News!Stories, bodies : News!Versions, alone : BOOLEAN, done : News!Versions]
    <3> SUFFICES ASSUME NEW k \in Actors
        PROVE News!Thread(v5[k].at, News!None, {}, News!None, FALSE, News!None) \in [at : {"off", "wait", "know", "read", "save"}, listed : News!Versions,
              fresh : SUBSET News!Stories, bodies : News!Versions, alone : BOOLEAN, done : News!Versions]
      BY <1>3
    <3>1. v5[k].at \in {"off", "wait", "know", "read", "save"}
      BY <1>3
    <3> QED
      BY <1>1, <3>1 DEF News!Thread
  <2> QED
    BY <1>2, <2>1
<1>6. News!NewsTypeOK
  BY <1>1, <1>3, <1>5 DEF News!NewsTypeOK, News!Init, News!Versions
<1>7. \A a \in News!Stories : v1[a] = 0 /\ v2[a].version = 0 /\ v2[a].body = 0 /\ \A k \in Actors : v5[k].done[a] = 0
  BY <1>1, <1>3 DEF News!Init
<1>8. News!NewsIsKept
  BY <1>7 DEF News!NewsIsKept, News!ListedIsStored, News!TextIsCurrent
<1>9. News!DoneIsStored
  BY <1>4, <1>7 DEF News!DoneIsStored
<1> QED
  BY <1>4, <1>6, <1>8, <1>9 DEF News!IInv, News!HandsAreTrue, News!AloneIsAhead, News!FreshIsListed

LEMMA NewsThread ==
    ASSUME NEW at \in {"off", "wait", "know", "read", "save"}, NEW listed \in News!Versions,
           NEW fresh \in SUBSET News!Stories, NEW bodies \in News!Versions, NEW alone \in BOOLEAN,
           NEW done \in News!Versions
    PROVE  /\ News!Thread(at, listed, fresh, bodies, alone, done) \in
                 [at : {"off", "wait", "know", "read", "save"}, listed : News!Versions,
                  fresh : SUBSET News!Stories, bodies : News!Versions, alone : BOOLEAN, done : News!Versions]
           /\ News!Thread(at, listed, fresh, bodies, alone, done).at = at
           /\ News!Thread(at, listed, fresh, bodies, alone, done).listed = listed
           /\ News!Thread(at, listed, fresh, bodies, alone, done).fresh = fresh
           /\ News!Thread(at, listed, fresh, bodies, alone, done).bodies = bodies
           /\ News!Thread(at, listed, fresh, bodies, alone, done).alone = alone
           /\ News!Thread(at, listed, fresh, bodies, alone, done).done = done
  BY DEF News!Thread

\* A thread at rest: off, or waiting with what it had done.
LEMMA NewsRests ==
    ASSUME News!IInv, NEW l \in Actors, NEW at \in {"off", "wait"}, NEW done \in {v5[l].done, News!None},
           at = "off" => done = News!None,
           v5' = [v5 EXCEPT ![l] = News!Thread(at, News!None, {}, News!None, FALSE, done)], UNCHANGED <<v1, v2, v6>>
    PROVE  News!IInv'
<1> DEFINE rec == News!Thread(at, News!None, {}, News!None, FALSE, done)
<1>1. News!None \in News!Versions /\ (\A a \in News!Stories : News!None[a] = 0) /\ done \in News!Versions
  BY DEF News!None, News!Versions, News!IInv, News!NewsTypeOK
<1>2. /\ rec \in [at : {"off", "wait", "know", "read", "save"}, listed : News!Versions,
                  fresh : SUBSET News!Stories, bodies : News!Versions, alone : BOOLEAN, done : News!Versions]
      /\ rec.at = at /\ rec.done = done
  <2>1. at \in {"off", "wait", "know", "read", "save"} /\ {} \in SUBSET News!Stories /\ FALSE \in BOOLEAN
    OBVIOUS
  <2> QED
    BY <1>1, <2>1 DEF News!Thread
<1> HIDE DEF rec
<1>3. v5'[l] = rec /\ \A k \in Actors \ {l} : v5'[k] = v5[k]
  BY DEF News!IInv, News!NewsTypeOK, rec
<1>4. News!NewsTypeOK'
  BY <1>2, <1>3 DEF News!IInv, News!NewsTypeOK, rec
<1>5. News!Cycling' = News!Cycling \ {l}
  BY <1>2, <1>3 DEF News!Cycling
<1>6. \A a \in News!Stories : done[a] \in {v5[l].done[a], 0} /\ v1[a] \in Nat /\ v2[a].version \in Nat
  BY <1>1 DEF News!IInv, News!NewsTypeOK, News!Versions
<1>7. News!DoneIsStored'
  <2> SUFFICES ASSUME NEW k \in Actors, NEW a \in News!Stories
      PROVE  /\ v5'[k].done[a] <= v1[a] /\ v5'[k].done[a] <= v2[a].version
             /\ \A j \in News!Cycling \ {l} : v5'[j].listed[a] > 0 => v5'[j].listed[a] >= v5'[k].done[a]
    BY <1>5 DEF News!DoneIsStored
  <2>1. \A j \in News!Cycling \ {l} : v5'[j] = v5[j] /\ v5[j].listed[a] \in Nat
    BY <1>3 DEF News!Cycling, News!IInv, News!NewsTypeOK, News!Versions
  <2>2. v5'[k].done[a] \in {v5[k].done[a], 0}
    BY <1>2, <1>3, <1>6
  <2>3. /\ v5[k].done[a] <= v1[a] /\ v5[k].done[a] <= v2[a].version
        /\ \A j \in News!Cycling : v5[j].listed[a] > 0 => v5[j].listed[a] >= v5[k].done[a]
    BY DEF News!IInv, News!DoneIsStored
  <2>4. v5[k].done[a] \in Nat
    BY DEF News!IInv, News!NewsTypeOK, News!Versions
  <2> DEFINE d == v5'[k].done[a]
             e == v5[k].done[a]
  <2>5. d \in Nat /\ d <= e
    <3>1. (d = e \/ d = 0) /\ e \in Nat
      BY <2>2, <2>4
    <3> HIDE DEF d, e
    <3> QED
      BY <3>1
  <2>6. d <= v1[a] /\ d <= v2[a].version
    <3> HIDE DEF d, e
    <3> QED
      BY <1>6, <2>3, <2>4, <2>5 DEF e
  <2>7. ASSUME NEW j \in News!Cycling \ {l}, v5'[j].listed[a] > 0 PROVE v5'[j].listed[a] >= d
    <3>1. v5[j].listed[a] \in Nat /\ v5'[j] = v5[j]
      BY <2>1
    <3>2. v5[j].listed[a] >= e
      BY <2>3, <2>7, <3>1
    <3> HIDE DEF d, e
    <3> QED
      BY <2>4, <2>5, <3>1, <3>2 DEF e
  <2> QED
    BY <2>6, <2>7
<1>8. News!ListedIsStored'
  BY <1>7, <1>4 DEF News!ListedIsStored, News!DoneIsStored, News!NewsTypeOK, News!Versions
<1>9. News!TextIsCurrent'
  BY DEF News!IInv, News!NewsIsKept, News!TextIsCurrent
<1>10. \A k \in News!Cycling' : k \in News!Cycling /\ v5'[k] = v5[k]
  BY <1>3, <1>5 DEF News!Cycling
<1>11. News!HandsAreTrue' /\ News!FreshIsListed'
  BY <1>10 DEF News!IInv, News!HandsAreTrue, News!FreshIsListed
<1>12. News!AloneIsAhead'
  BY <1>10 DEF News!IInv, News!AloneIsAhead
<1> QED
  BY <1>4, <1>7, <1>8, <1>9, <1>11, <1>12 DEF News!IInv, News!NewsIsKept

\* A thread at work goes on, with what it listed.
LEMMA NewsGoesOn ==
    ASSUME News!IInv, NEW l \in News!Cycling, NEW at \in {"read", "save"},
           NEW fresh \in SUBSET News!Stories, NEW bodies \in News!Versions,
           v5' = [v5 EXCEPT ![l] = News!Thread(at, v5[l].listed, fresh, bodies, v5[l].alone, v5[l].done)],
           UNCHANGED <<v1, v2, v6>>,
           \A a \in fresh : v5[l].listed[a] > 0,
           v5[l].alone => \A a \in News!Stories \ fresh : v2[a].version >= v5[l].listed[a],
           at = "save" => \A a \in News!Stories : bodies[a] > 0 => bodies[a] >= v5[l].listed[a]
    PROVE  News!IInv'
<1> DEFINE rec == News!Thread(at, v5[l].listed, fresh, bodies, v5[l].alone, v5[l].done)
<1>1. l \in Actors /\ v5[l].listed \in News!Versions /\ v5[l].done \in News!Versions /\ v5[l].alone \in BOOLEAN
  BY DEF News!IInv, News!NewsTypeOK, News!Cycling
<1>2. /\ rec \in [at : {"off", "wait", "know", "read", "save"}, listed : News!Versions,
                  fresh : SUBSET News!Stories, bodies : News!Versions, alone : BOOLEAN, done : News!Versions]
      /\ rec.at = at /\ rec.listed = v5[l].listed /\ rec.fresh = fresh /\ rec.bodies = bodies
      /\ rec.alone = v5[l].alone /\ rec.done = v5[l].done
  <2>1. at \in {"off", "wait", "know", "read", "save"}
    OBVIOUS
  <2> QED
    BY <1>1, <2>1 DEF News!Thread
<1> HIDE DEF rec
<1>3. v5'[l] = rec /\ \A k \in Actors \ {l} : v5'[k] = v5[k]
  BY SMTT(40), <1>1 DEF News!IInv, News!NewsTypeOK, rec
<1>4. News!NewsTypeOK'
  BY <1>2, <1>3 DEF News!IInv, News!NewsTypeOK, rec
<1>5. News!Cycling' = News!Cycling
  BY <1>2, <1>3 DEF News!Cycling
<1>6. \A k \in Actors : v5'[k].done = v5[k].done /\ v5'[k].listed = v5[k].listed /\ v5'[k].alone = v5[k].alone
                       /\ (v5'[k].at = "wait" => v5[k].at = "wait")
  BY <1>2, <1>3
<1>7. News!Cycling \subseteq Actors
  BY DEF News!Cycling
<1>8. News!DoneIsStored'
  BY <1>5, <1>6, <1>7 DEF News!IInv, News!DoneIsStored
<1>9. News!NewsIsKept'
  <2>1. News!ListedIsStored'
    BY <1>6 DEF News!IInv, News!NewsIsKept, News!ListedIsStored, News!At
  <2>2. News!TextIsCurrent'
    BY SMTT(40) DEF News!IInv, News!NewsIsKept, News!TextIsCurrent
  <2> QED
    BY <2>1, <2>2 DEF News!NewsIsKept
<1>10. News!HandsAreTrue'
  <2> SUFFICES ASSUME NEW k \in News!Cycling, NEW a \in News!Stories
      PROVE  /\ v5'[k].listed[a] <= v1[a]
             /\ v5'[k].at = "save" /\ v5'[k].bodies[a] > 0 => v5'[k].bodies[a] >= v5'[k].listed[a]
    BY <1>5 DEF News!HandsAreTrue
  <2>1. v5'[k].listed[a] <= v1[a]
    BY <1>6, <1>7 DEF News!IInv, News!HandsAreTrue
  <2>2. CASE k = l
    BY <1>2, <1>3, <2>1, <2>2
  <2>3. CASE k # l
    BY <1>3, <1>7, <2>3 DEF News!IInv, News!HandsAreTrue
  <2> QED
    BY <2>2, <2>3
<1>11. News!FreshIsListed'
  BY <1>2, <1>3, <1>5, <1>7 DEF News!IInv, News!FreshIsListed
<1>12. News!AloneIsAhead'
  <2> SUFFICES ASSUME NEW k \in News!Cycling, NEW a \in News!Stories, v5[k].alone
      PROVE  /\ \A j \in News!Cycling : v5[j].listed[a] > 0 => v5[j].listed[a] >= v5[k].listed[a]
             /\ v5'[k].at # "know" /\ a \notin v5'[k].fresh => v2[a].version >= v5[k].listed[a]
    BY <1>5, <1>6, <1>7 DEF News!AloneIsAhead
  <2>1. \A j \in News!Cycling : v5[j].listed[a] > 0 => v5[j].listed[a] >= v5[k].listed[a]
    BY DEF News!IInv, News!AloneIsAhead
  <2>2. CASE k = l
    BY <1>2, <1>3, <2>1, <2>2
  <2>3. CASE k # l
    BY <1>3, <1>7, <2>1, <2>3 DEF News!IInv, News!AloneIsAhead
  <2> QED
    BY <2>2, <2>3
<1> QED
  BY <1>4, <1>8, <1>9, <1>10, <1>11, <1>12 DEF News!IInv

LEMMA NewsKnows == ASSUME News!IInv, NEW l \in Actors, News!Knows(l) PROVE News!IInv'
<1> DEFINE listed == v5[l].listed
           fresh == {a \in News!Stories : listed[a] > 0 /\ News!Fresh(a, listed)}
<1>1. /\ v5' = [v5 EXCEPT ![l] = News!Thread("read", listed, fresh, News!None, v5[l].alone, v5[l].done)]
      /\ l \in News!Cycling /\ UNCHANGED <<v1, v2, v6>>
  BY DEF News!Knows, News!Become, News!At, News!Cycling
<1>2. News!None \in News!Versions /\ fresh \in SUBSET News!Stories /\ "read" \in {"read", "save"}
  BY DEF News!None, News!Versions
<1>3. \A a \in News!Stories \ fresh : v2[a].version >= listed[a]
  <2> SUFFICES ASSUME NEW a \in News!Stories, ~(listed[a] > 0 /\ v2[a].version # listed[a])
      PROVE  v2[a].version >= listed[a]
    BY DEF News!Fresh
  <2>1. listed[a] \in Nat /\ v2[a].version \in Nat
    BY <1>1 DEF News!IInv, News!NewsTypeOK, News!Versions
  <2> QED
    BY <2>1
<1>4. \A a \in fresh : listed[a] > 0
  OBVIOUS
<1> HIDE DEF fresh
<1> QED
  BY <1>1, <1>2, <1>3, <1>4, NewsGoesOn

LEMMA NewsReads == ASSUME News!IInv, NEW l \in Actors, News!Reads(l) PROVE News!IInv'
<1>1. PICK lost : v5' = [v5 EXCEPT ![l] = News!Thread("save", v5[l].listed, v5[l].fresh,
                            [a \in News!Stories |-> IF a \in v5[l].fresh \ lost THEN v1[a] ELSE 0],
                            v5[l].alone, v5[l].done)]
  BY DEF News!Reads, News!Become
<1> DEFINE bodies == [a \in News!Stories |-> IF a \in v5[l].fresh \ lost THEN v1[a] ELSE 0]
<1>2. l \in News!Cycling /\ v5[l].at = "read" /\ UNCHANGED <<v1, v2, v6>>
  BY DEF News!Reads, News!At, News!Cycling
<1>3. v1 \in News!Versions /\ v5[l].fresh \in SUBSET News!Stories
  BY DEF News!IInv, News!NewsTypeOK
<1>4. bodies \in News!Versions
  BY <1>3 DEF News!Versions
<1>5. \A a \in News!Stories : bodies[a] > 0 => bodies[a] >= v5[l].listed[a]
  <2> SUFFICES ASSUME NEW a \in News!Stories, bodies[a] > 0 PROVE bodies[a] >= v5[l].listed[a]
    OBVIOUS
  <2>1. bodies[a] = v1[a]
    OBVIOUS
  <2>2. v5[l].listed[a] <= v1[a] /\ v1[a] \in Nat /\ v5[l].listed[a] \in Nat
    BY <1>2 DEF News!IInv, News!HandsAreTrue, News!NewsTypeOK, News!Versions
  <2> QED
    BY <2>1, <2>2
<1>6. \A a \in v5[l].fresh : v5[l].listed[a] > 0
  BY <1>2 DEF News!IInv, News!FreshIsListed
<1>7. v5[l].alone => \A a \in News!Stories \ v5[l].fresh : v2[a].version >= v5[l].listed[a]
  BY <1>2 DEF News!IInv, News!AloneIsAhead
<1>8. v5' = [v5 EXCEPT ![l] = News!Thread("save", v5[l].listed, v5[l].fresh, bodies, v5[l].alone, v5[l].done)]
  BY <1>1
<1> HIDE DEF bodies
<1> QED
  BY <1>2, <1>3, <1>4, <1>5, <1>6, <1>7, <1>8, NewsGoesOn

LEMMA NewsLists == ASSUME News!IInv, NEW l \in Actors, News!Lists(l) PROVE News!IInv'
<1>0. PICK dead : \E alone \in BOOLEAN :
         /\ alone <=> \A k \in Actors \ {l} : v5[k].at = "off"
         /\ v5' = [v5 EXCEPT ![l] = News!Thread("know",
                      [a \in News!Stories |-> IF SourceOf[a] \in dead THEN 0 ELSE v1[a]],
                      {}, News!None, alone, v5[l].done)]
  BY Zenon DEF News!Lists, News!Become, News!At
<1>1. PICK alone \in BOOLEAN :
         /\ alone <=> \A k \in Actors \ {l} : v5[k].at = "off"
         /\ v5' = [v5 EXCEPT ![l] = News!Thread("know",
                      [a \in News!Stories |-> IF SourceOf[a] \in dead THEN 0 ELSE v1[a]],
                      {}, News!None, alone, v5[l].done)]
  BY <1>0
<1>2. v5[l].at = "wait" /\ UNCHANGED <<v1, v2, v6>>
  BY DEF News!Lists, News!At
<1> DEFINE listed == [a \in News!Stories |-> IF SourceOf[a] \in dead THEN 0 ELSE v1[a]]
           rec == News!Thread("know", listed, {}, News!None, alone, v5[l].done)
<1>3. News!None \in News!Versions /\ v1 \in News!Versions /\ v5[l].done \in News!Versions
  BY DEF News!None, News!Versions, News!IInv, News!NewsTypeOK
<1>4. listed \in News!Versions /\ \A a \in News!Stories : listed[a] = 0 \/ listed[a] = v1[a]
  BY <1>3 DEF News!Versions
<1>5. v5' = [v5 EXCEPT ![l] = rec]
  BY <1>1
<1> HIDE DEF listed
<1>6. /\ rec \in [at : {"off", "wait", "know", "read", "save"}, listed : News!Versions,
                  fresh : SUBSET News!Stories, bodies : News!Versions, alone : BOOLEAN, done : News!Versions]
      /\ rec.at = "know" /\ rec.listed = listed /\ rec.fresh = {} /\ rec.alone = alone /\ rec.done = v5[l].done
  BY <1>3, <1>4 DEF News!Thread
<1> HIDE DEF rec
<1>7. v5'[l] = rec /\ \A k \in Actors \ {l} : v5'[k] = v5[k]
  BY <1>5 DEF News!IInv, News!NewsTypeOK
<1>8. News!NewsTypeOK'
  <2>1. v5' \in [Actors -> [at : {"off", "wait", "know", "read", "save"}, listed : News!Versions,
                  fresh : SUBSET News!Stories, bodies : News!Versions, alone : BOOLEAN, done : News!Versions]]
    BY <1>5, <1>6 DEF News!IInv, News!NewsTypeOK
  <2> QED
    BY <1>2, <1>6, <1>7, <2>1 DEF News!IInv, News!NewsTypeOK
<1>9. News!Cycling' = News!Cycling \cup {l} /\ l \notin News!Cycling /\ News!Cycling \subseteq Actors
  BY <1>2, <1>6, <1>7 DEF News!Cycling
<1>10. \A k \in Actors : v5'[k].done = v5[k].done /\ (v5'[k].at = "wait" => v5[k].at = "wait")
  BY <1>6, <1>7
<1>11. \A k \in News!Cycling : v5'[k] = v5[k]
  BY <1>7, <1>9
<1>12. \A a \in News!Stories : /\ v1[a] \in Nat /\ listed[a] \in Nat
                               /\ \A k \in Actors : v5[k].listed[a] \in Nat /\ v5[k].done[a] \in Nat
  BY <1>3, <1>4 DEF News!IInv, News!NewsTypeOK, News!Versions
<1>13. News!NewsIsKept'
  <2>1. News!ListedIsStored'
    BY <1>2, <1>10 DEF News!IInv, News!NewsIsKept, News!ListedIsStored, News!At
  <2>2. News!TextIsCurrent'
    BY <1>2 DEF News!IInv, News!NewsIsKept, News!TextIsCurrent
  <2> QED
    BY <2>1, <2>2 DEF News!NewsIsKept
<1>14. News!HandsAreTrue'
  <2> SUFFICES ASSUME NEW k \in News!Cycling \cup {l}, NEW a \in News!Stories
      PROVE  /\ v5'[k].listed[a] <= v1[a]
             /\ v5'[k].at = "save" /\ v5'[k].bodies[a] > 0 => v5'[k].bodies[a] >= v5'[k].listed[a]
    BY <1>2, <1>9 DEF News!HandsAreTrue
  <2>1. CASE k = l
    BY <1>4, <1>6, <1>7, <1>12, <2>1
  <2>2. CASE k # l
    BY <1>11, <2>2 DEF News!IInv, News!HandsAreTrue
  <2> QED
    BY <2>1, <2>2
<1>15. News!DoneIsStored'
  <2> SUFFICES ASSUME NEW k \in Actors, NEW a \in News!Stories
      PROVE  /\ v5'[k].done[a] <= v1[a] /\ v5'[k].done[a] <= v2[a].version
             /\ \A j \in News!Cycling \cup {l} : v5'[j].listed[a] > 0 => v5'[j].listed[a] >= v5'[k].done[a]
    BY <1>2, <1>9 DEF News!DoneIsStored
  <2>1. /\ v5[k].done[a] <= v1[a] /\ v5[k].done[a] <= v2[a].version
        /\ \A j \in News!Cycling : v5[j].listed[a] > 0 => v5[j].listed[a] >= v5[k].done[a]
    BY DEF News!IInv, News!DoneIsStored
  <2>2. \A j \in News!Cycling : v5'[j].listed[a] > 0 => v5'[j].listed[a] >= v5'[k].done[a]
    BY <1>10, <1>11, <2>1
  <2>3. v5'[l].listed[a] > 0 => v5'[l].listed[a] >= v5'[k].done[a]
    <3>1. v5'[l].listed[a] = listed[a] /\ v5'[k].done[a] = v5[k].done[a]
      BY <1>6, <1>7, <1>10
    <3>2. listed[a] > 0 => listed[a] = v1[a]
      BY <1>4
    <3> QED
      BY <1>12, <2>1, <3>1, <3>2
  <2> QED
    BY <1>10, <2>1, <2>2, <2>3
<1>16. News!FreshIsListed'
  <2> SUFFICES ASSUME NEW k \in News!Cycling \cup {l}, NEW a \in v5'[k].fresh PROVE v5'[k].listed[a] > 0
    BY <1>9 DEF News!FreshIsListed
  <2> QED
    BY <1>6, <1>7, <1>11 DEF News!IInv, News!FreshIsListed
<1>17. News!AloneIsAhead'
  <2> SUFFICES ASSUME NEW k \in News!Cycling \cup {l}, NEW a \in News!Stories, v5'[k].alone
      PROVE  /\ \A j \in News!Cycling \cup {l} : v5'[j].listed[a] > 0 => v5'[j].listed[a] >= v5'[k].listed[a]
             /\ v5'[k].at # "know" /\ a \notin v5'[k].fresh => v2[a].version >= v5'[k].listed[a]
    BY <1>2, <1>9 DEF News!AloneIsAhead
  <2>1. CASE k = l
    <3>1. News!Cycling = {}
      BY <1>1, <1>6, <1>7, <1>9, <2>1 DEF News!Cycling
    <3>2. v5'[l].listed[a] = listed[a] /\ v5'[l].at = "know"
      BY <1>6, <1>7
    <3> QED
      BY <1>12, <2>1, <3>1, <3>2
  <2>2. CASE k # l
    <3>1. k \in News!Cycling /\ k \in Actors /\ v5'[k] = v5[k]
      BY <1>9, <1>11, <2>2
    <3>2. /\ \A j \in News!Cycling : v5[j].listed[a] > 0 => v5[j].listed[a] >= v5[k].listed[a]
          /\ v5[k].at # "know" /\ a \notin v5[k].fresh => v2[a].version >= v5[k].listed[a]
          /\ v5[k].listed[a] <= v1[a]
      BY <3>1 DEF News!IInv, News!AloneIsAhead, News!HandsAreTrue
    <3>3. \A j \in News!Cycling : v5'[j].listed[a] > 0 => v5'[j].listed[a] >= v5'[k].listed[a]
      BY <1>11, <3>1, <3>2
    <3>4. v5'[l].listed[a] > 0 => v5'[l].listed[a] >= v5'[k].listed[a]
      <4>1. v5'[l].listed[a] = listed[a]
        BY <1>6, <1>7
      <4> QED
        BY <1>4, <1>12, <3>1, <3>2, <4>1
    <3> QED
      BY <3>1, <3>2, <3>3, <3>4
  <2> QED
    BY <2>1, <2>2
<1> QED
  BY <1>8, <1>13, <1>14, <1>15, <1>16, <1>17 DEF News!IInv

LEMMA NewsSaves == ASSUME News!IInv, NEW l \in Actors, News!Saves(l) PROVE News!IInv'
<1> DEFINE listed == v5[l].listed
           fresh == v5[l].fresh
           bodies == v5[l].bodies
           done == IF v5[l].alone THEN listed ELSE News!None
           rec == News!Waiting(done)
           text(a) == IF bodies[a] > 0 THEN bodies[a] ELSE v2[a].body
<1>1. /\ v5[l].at = "save" /\ v1' = v1
      /\ v2' = [a \in News!Stories |-> IF a \in fresh
                  THEN [version |-> listed[a], body |-> IF bodies[a] > 0 THEN bodies[a] ELSE v2[a].body]
                  ELSE v2[a]]
      /\ v6' = (v6 \ fresh) \cup {a \in fresh : bodies[a] = 0}
      /\ v5' = [v5 EXCEPT ![l] = rec]
  BY DEF News!Saves, News!Become, News!At
<1>2. /\ News!None \in News!Versions /\ \A a \in News!Stories : News!None[a] = 0
      /\ v1 \in News!Versions /\ listed \in News!Versions /\ bodies \in News!Versions
      /\ fresh \in SUBSET News!Stories /\ v2 \in [News!Stories -> [version : Nat, body : Nat]]
  BY DEF News!None, News!Versions, News!IInv, News!NewsTypeOK
<1>3. done \in News!Versions
  BY <1>2
<1>4. l \in News!Cycling /\ News!Cycling \subseteq Actors
  BY <1>1 DEF News!Cycling
<1>5. \A a \in News!Stories : done[a] = 0 \/ (v5[l].alone /\ done[a] = listed[a])
  BY <1>2
<1> HIDE DEF done
<1>6. /\ rec \in [at : {"off", "wait", "know", "read", "save"}, listed : News!Versions,
                  fresh : SUBSET News!Stories, bodies : News!Versions, alone : BOOLEAN, done : News!Versions]
      /\ rec.at = "wait" /\ rec.done = done
  BY <1>2, <1>3 DEF News!Thread, News!Waiting
<1> HIDE DEF rec
<1>7. v5'[l] = rec /\ \A k \in Actors \ {l} : v5'[k] = v5[k]
  BY <1>1 DEF News!IInv, News!NewsTypeOK
<1>8. \A a \in fresh : /\ v2'[a] = [version |-> listed[a], body |-> text(a)]
                       /\ v2'[a].version = listed[a] /\ v2'[a].body = text(a)
  BY <1>1, <1>2
<1>9. \A a \in News!Stories \ fresh : v2'[a] = v2[a]
  BY <1>1
<1>10. v2' \in [News!Stories -> [version : Nat, body : Nat]]
  <2>1. \A a \in News!Stories : v2'[a] \in [version : Nat, body : Nat]
    <3> SUFFICES ASSUME NEW a \in News!Stories PROVE v2'[a] \in [version : Nat, body : Nat]
      OBVIOUS
    <3>1. v2[a] \in [version : Nat, body : Nat] /\ listed[a] \in Nat /\ bodies[a] \in Nat
      BY <1>2 DEF News!Versions
    <3>2. CASE a \in fresh
      <4>1. text(a) \in Nat
        BY <3>1
      <4>2. \A x, y \in Nat : [version |-> x, body |-> y] \in [version : Nat, body : Nat]
        OBVIOUS
      <4>3. [version |-> listed[a], body |-> text(a)] \in [version : Nat, body : Nat]
        BY <3>1, <4>1, <4>2
      <4> QED
        BY <1>8, <3>2, <4>3
    <3>3. CASE a \notin fresh
      BY <1>9, <3>1, <3>3
    <3> QED
      BY <3>2, <3>3
  <2>2. v2' = [a \in News!Stories |-> v2'[a]]
    BY <1>1
  <2> QED
    BY <2>1, <2>2
<1>11. News!NewsTypeOK'
  <2>1. v5' \in [Actors -> [at : {"off", "wait", "know", "read", "save"}, listed : News!Versions,
                  fresh : SUBSET News!Stories, bodies : News!Versions, alone : BOOLEAN, done : News!Versions]]
    BY <1>1, <1>6 DEF News!IInv, News!NewsTypeOK
  <2>2. \A k \in Actors : v5'[k].at = "off" => v5'[k].done = News!None
    BY <1>6, <1>7 DEF News!IInv, News!NewsTypeOK
  <2> QED
    BY <1>1, <1>10, <2>1, <2>2 DEF News!IInv, News!NewsTypeOK
<1>12. News!Cycling' = News!Cycling \ {l}
  BY <1>6, <1>7 DEF News!Cycling
<1>13. \A k \in News!Cycling \ {l} : v5'[k] = v5[k]
  BY <1>4, <1>7
<1>14. \A a \in News!Stories :
          /\ v1[a] \in Nat /\ listed[a] \in Nat /\ bodies[a] \in Nat /\ v2[a].version \in Nat /\ v2[a].body \in Nat
          /\ \A k \in Actors : v5[k].listed[a] \in Nat /\ v5[k].done[a] \in Nat
  BY <1>2 DEF News!IInv, News!NewsTypeOK, News!Versions
<1>15. \A a \in fresh : v2'[a].version = listed[a] /\ listed[a] > 0
  BY <1>4, <1>8 DEF News!IInv, News!FreshIsListed
<1>16. News!DoneIsStored'
  <2> SUFFICES ASSUME NEW k \in Actors, NEW a \in News!Stories
      PROVE  /\ v5'[k].done[a] <= v1[a] /\ v5'[k].done[a] <= v2'[a].version
             /\ \A j \in News!Cycling \ {l} : v5[j].listed[a] > 0 => v5[j].listed[a] >= v5'[k].done[a]
    BY <1>1, <1>12, <1>13 DEF News!DoneIsStored
  <2>1. v2'[a].version \in Nat
    BY <1>10
  <2>2. CASE k = l
    <3>1. v5'[k].done[a] = done[a]
      BY <1>6, <1>7, <2>2
    <3>2. CASE done[a] = 0
      <4>1. \A j \in News!Cycling \ {l} : v5[j].listed[a] \in Nat
        BY <1>4, <1>14
      <4> QED
        BY <1>14, <2>1, <3>1, <3>2, <4>1
    <3>3. CASE v5[l].alone /\ done[a] = listed[a]
      <4>1. /\ \A j \in News!Cycling : v5[j].listed[a] > 0 => v5[j].listed[a] >= listed[a]
            /\ a \notin fresh => v2[a].version >= listed[a]
            /\ listed[a] <= v1[a]
        BY <1>1, <1>4, <3>3 DEF News!IInv, News!AloneIsAhead, News!HandsAreTrue
      <4>2. listed[a] <= v2'[a].version
        BY <1>9, <1>14, <1>15, <4>1
      <4> QED
        BY <3>1, <3>3, <4>1, <4>2
    <3> QED
      BY <1>5, <3>2, <3>3
  <2>3. CASE k # l
    <3>1. /\ v5[k].done[a] <= v1[a] /\ v5[k].done[a] <= v2[a].version
          /\ \A j \in News!Cycling : v5[j].listed[a] > 0 => v5[j].listed[a] >= v5[k].done[a]
      BY DEF News!IInv, News!DoneIsStored
    <3>2. v5[k].done[a] <= v2'[a].version
      <4>1. CASE a \in fresh
        <5>1. listed[a] >= v5[k].done[a] /\ v2'[a].version = listed[a]
          BY <1>4, <1>15, <3>1, <4>1
        <5> QED
          BY <1>14, <5>1
      <4>2. CASE a \notin fresh
        BY <1>9, <3>1, <4>2
      <4> QED
        BY <4>1, <4>2
    <3> QED
      BY <1>7, <2>3, <3>1, <3>2
  <2> QED
    BY <2>2, <2>3
<1>17. News!ListedIsStored'
  <2>1. \A k \in Actors, a \in News!Stories : v5'[k].done[a] \in Nat /\ v2'[a].version \in Nat
    BY <1>10, <1>11 DEF News!NewsTypeOK, News!Versions
  <2> QED
    BY <1>16, <2>1 DEF News!ListedIsStored, News!DoneIsStored
<1>18. News!TextIsCurrent'
  <2> SUFFICES ASSUME NEW a \in News!Stories, v2'[a].body < v2'[a].version PROVE a \in v6'
    BY DEF News!TextIsCurrent
  <2>1. CASE a \in fresh /\ bodies[a] > 0
    <3>1. bodies[a] >= listed[a]
      BY <1>1, <1>4, <2>1 DEF News!IInv, News!HandsAreTrue
    <3>2. v2'[a].body = bodies[a] /\ v2'[a].version = listed[a]
      BY <1>8, <2>1
    <3> QED
      BY <1>14, <3>1, <3>2
  <2>2. CASE a \in fresh /\ ~(bodies[a] > 0)
    <3>1. bodies[a] = 0
      BY <1>14, <2>2
    <3> QED
      BY <1>1, <2>2, <3>1
  <2>3. CASE a \notin fresh
    <3>1. v2[a].body < v2[a].version
      BY <1>9, <2>3
    <3>2. a \in v6
      BY <3>1 DEF News!IInv, News!NewsIsKept, News!TextIsCurrent
    <3> QED
      BY <1>1, <2>3, <3>2
  <2> QED
    BY <2>1, <2>2, <2>3
<1>19. News!HandsAreTrue' /\ News!FreshIsListed'
  BY <1>1, <1>12, <1>13 DEF News!IInv, News!HandsAreTrue, News!FreshIsListed
<1>20. News!AloneIsAhead'
  <2> SUFFICES ASSUME NEW k \in News!Cycling \ {l}, NEW a \in News!Stories, v5[k].alone
      PROVE  /\ \A j \in News!Cycling \ {l} : v5[j].listed[a] > 0 => v5[j].listed[a] >= v5[k].listed[a]
             /\ v5[k].at # "know" /\ a \notin v5[k].fresh => v2'[a].version >= v5[k].listed[a]
    BY <1>12, <1>13 DEF News!AloneIsAhead
  <2>1. /\ \A j \in News!Cycling : v5[j].listed[a] > 0 => v5[j].listed[a] >= v5[k].listed[a]
        /\ v5[k].at # "know" /\ a \notin v5[k].fresh => v2[a].version >= v5[k].listed[a]
    BY DEF News!IInv, News!AloneIsAhead
  <2>2. CASE a \in fresh
    <3>1. listed[a] >= v5[k].listed[a] /\ v2'[a].version = listed[a]
      BY <1>4, <1>15, <2>1, <2>2
    <3> QED
      BY <2>1, <3>1
  <2>3. CASE a \notin fresh
    BY <1>9, <2>1, <2>3
  <2> QED
    BY <2>2, <2>3
<1> QED
  BY <1>11, <1>16, <1>17, <1>18, <1>19, <1>20 DEF News!IInv, News!NewsIsKept

LEMMA NewsInductive == News!IInv /\ [News!Next]_(News!newsVars) => News!IInv'
<1> SUFFICES ASSUME News!IInv, [News!Next]_(News!newsVars) PROVE News!IInv'
  OBVIOUS
<1>1. CASE UNCHANGED <<v1, v2, v5, v6>>
  BY <1>1 DEF News!IInv, News!NewsIsKept, News!ListedIsStored, News!TextIsCurrent, News!NewsTypeOK, News!At,
     News!HandsAreTrue, News!DoneIsStored, News!AloneIsAhead, News!FreshIsListed, News!Cycling
<1>2. CASE \E l \in Actors : News!Ends(l)
  <2>1. PICK l \in Actors : News!Ends(l)
    BY <1>2
  <2>2. v5' = [v5 EXCEPT ![l] = News!Thread("off", News!None, {}, News!None, FALSE, News!None)] /\ UNCHANGED <<v1, v2, v6>>
    BY <2>1 DEF News!Ends, News!Become, News!Gone
  <2> QED
    BY <2>2, NewsRests
<1>3. CASE \E l \in Actors : News!Fails(l)
  <2>1. PICK l \in Actors : News!Fails(l)
    BY <1>3
  <2>2. v5' = [v5 EXCEPT ![l] = News!Thread("wait", News!None, {}, News!None, FALSE, v5[l].done)] /\ UNCHANGED <<v1, v2, v6>>
    BY <2>1 DEF News!Fails, News!Become, News!Waiting
  <2> QED
    BY <2>2, NewsRests
<1>4. CASE News!Starts
  <2>1. PICK l \in Actors : News!Become(l, News!Waiting(News!None))
    BY <1>4 DEF News!Starts
  <2>2. v5' = [v5 EXCEPT ![l] = News!Thread("wait", News!None, {}, News!None, FALSE, News!None)] /\ UNCHANGED <<v1, v2, v6>>
    BY <1>4, <2>1 DEF News!Starts, News!Become, News!Waiting
  <2> QED
    BY <2>2, NewsRests
<1>5. CASE News!Stops
  BY <1>1, <1>5 DEF News!Stops
<1>6. CASE \E b \in News!Stories : News!Publishes(b)
  <2>1. PICK b \in News!Stories : News!Publishes(b)
    BY <1>6
  <2>2. v1' = [v1 EXCEPT ![b] = v1[b] + 1] /\ UNCHANGED <<v2, v5, v6>> /\ v1 \in News!Versions
    BY <2>1 DEF News!Publishes, News!IInv, News!NewsTypeOK
  <2>3. v1' \in News!Versions /\ \A a \in News!Stories : v1'[a] \in Nat /\ v1[a] \in Nat /\ v1[a] <= v1'[a]
    BY <2>2 DEF News!Versions
  <2>4. News!Cycling' = News!Cycling /\ News!Cycling \subseteq Actors
    BY <2>2 DEF News!Cycling
  <2>5. News!NewsTypeOK' /\ News!AloneIsAhead' /\ News!FreshIsListed' /\ News!NewsIsKept'
    BY <2>2, <2>3, <2>4 DEF News!IInv, News!NewsIsKept, News!ListedIsStored, News!TextIsCurrent, News!NewsTypeOK,
       News!AloneIsAhead, News!FreshIsListed, News!At
  <2>6. \A k \in Actors, a \in News!Stories : v5[k].listed[a] \in Nat /\ v5[k].done[a] \in Nat
    BY DEF News!IInv, News!NewsTypeOK, News!Versions
  <2>7. News!HandsAreTrue'
    <3> SUFFICES ASSUME NEW k \in News!Cycling, NEW a \in News!Stories
        PROVE  /\ v5[k].listed[a] <= v1'[a]
               /\ v5[k].at = "save" /\ v5[k].bodies[a] > 0 => v5[k].bodies[a] >= v5[k].listed[a]
      BY <2>2, <2>4 DEF News!HandsAreTrue
    <3>1. v5[k].listed[a] <= v1[a]
      BY DEF News!IInv, News!HandsAreTrue
    <3>2. v5[k].listed[a] <= v1'[a]
      BY <2>3, <2>4, <2>6, <3>1
    <3> QED
      BY <3>2 DEF News!IInv, News!HandsAreTrue
  <2>8. News!DoneIsStored'
    <3> SUFFICES ASSUME NEW k \in Actors, NEW a \in News!Stories
        PROVE  /\ v5[k].done[a] <= v1'[a] /\ v5[k].done[a] <= v2[a].version
               /\ \A j \in News!Cycling : v5[j].listed[a] > 0 => v5[j].listed[a] >= v5[k].done[a]
      BY <2>2, <2>4 DEF News!DoneIsStored
    <3>1. v5[k].done[a] <= v1[a]
      BY DEF News!IInv, News!DoneIsStored
    <3>2. v5[k].done[a] <= v1'[a]
      BY <2>3, <2>6, <3>1
    <3> QED
      BY <3>2 DEF News!IInv, News!DoneIsStored
  <2> QED
    BY <2>5, <2>7, <2>8 DEF News!IInv
<1>7. CASE UNCHANGED News!newsVars
  BY <1>1, <1>7 DEF News!newsVars
<1> QED
  BY <1>2, <1>3, <1>4, <1>5, <1>6, <1>7, NewsLists, NewsKnows, NewsReads, NewsSaves DEF News!Next

-----------------------------------------------------------------------------
(* The broker's sessions. *)

LEMMA SessionIdle ==
    /\ Session!Idle \in Session!Requests(0)
    /\ Session!Idle.at = "idle" /\ Session!Idle.did = 0 /\ Session!Idle.lost = FALSE /\ Session!Idle.tries = 0
  BY SessionAssumption DEF Session!Idle, Session!Requests, Session!None

LEMMA SessionRequest ==
    ASSUME NEW m \in Nat, NEW r \in Session!Requests(m)
    PROVE  /\ r.tries \in Nat /\ r.tries <= Attempts
           /\ r.at \in {"idle", "refresh", "posted", "persist", "send", "done"}
           /\ r.access \in 0..m /\ r.refresh \in 0..m /\ r.did \in Nat /\ r.via \in Things \cup {"nobody"}
<1>1. r.tries \in 0..Attempts
  BY DEF Session!Requests
<1>2. r.tries \in Nat /\ r.tries <= Attempts
  BY <1>1, SessionAssumption
<1> QED
  BY <1>2 DEF Session!Requests

LEMMA SessionGrows ==
    ASSUME NEW m \in Nat, NEW n \in Nat, m <= n
    PROVE  Session!Requests(m) \subseteq Session!Requests(n) /\ Session!Tokens(m) \subseteq Session!Tokens(n)
<1>1. 0..m \subseteq 0..n
  OBVIOUS
<1> QED
  BY <1>1 DEF Session!Requests, Session!Tokens

\* The tokens are of one row each, still: nobody has a new one, or one has.
LEMMA SessionFamily ==
    ASSUME Session!OneFamily, NEW p, Session!Holdings' \subseteq Session!Holdings \cup {p},
           \A q \in Session!Holdings' : q[1] = p[1] => q[2] = p[2],
           v7' = 0 \/ (v7' = v7 /\ v7 # p[1] /\ v7 \in v2')
    PROVE  Session!OneFamily'
  BY DEF Session!OneFamily, Session!None

LEMMA SessionFamilyKept ==
    ASSUME Session!OneFamily, Session!Holdings' \subseteq Session!Holdings,
           v7' = 0 \/ (v7' = v7 /\ v7 \in v2')
    PROVE  Session!OneFamily'
  BY DEF Session!OneFamily, Session!None

LEMMA SessionInitially == Session!Init => Session!IInv
<1> SUFFICES ASSUME Session!Init PROVE Session!IInv
  OBVIOUS
<1>1. /\ v1 = Session!NoRow /\ v2 = {} /\ v3 = 0 /\ v4 = 0 /\ v7 = 0
      /\ v5 = [a \in Things |-> Session!Unloaded] /\ v6 = [t \in Actors |-> Session!Idle]
      /\ v8 = [adrift |-> FALSE, undone |-> FALSE]
  BY DEF Session!Init, Session!None
<1>2. \A t \in Actors : v6[t] = Session!Idle /\ v6[t].at = "idle" /\ v6[t].did = 0
  BY <1>1, SessionIdle
<1>3. \A a \in Things : v5[a].id = 0 /\ v5[a] \in Session!Tokens(0)
  BY <1>1 DEF Session!Unloaded, Session!Tokens, Session!None
<1>4. /\ v1.here = FALSE /\ v1.access = 0 /\ v1.refresh = 0
      /\ v1 \in [here : BOOLEAN, id : Nat, access : Nat, refresh : Nat]
  BY <1>1 DEF Session!NoRow, Session!None
<1>5. \A t \in Actors : ~Session!UnderWay(t)
  BY <1>2 DEF Session!UnderWay
<1>6. Session!SessionsTyped
  <2>1. v6 \in [Actors -> Session!Requests(v3)]
    BY <1>1, SessionIdle
  <2>2. v5 \in [Things -> Session!Tokens(v3)]
    BY <1>1, <1>3
  <2>3. v8 \in [adrift : BOOLEAN, undone : BOOLEAN]
    BY <1>1
  <2>4. v3 \in Nat /\ {v1.access, v1.refresh, v4, v7} \cup v2 \subseteq 0..v3
    BY <1>1, <1>4
  <2> QED
    BY <1>2, <1>4, <2>1, <2>2, <2>3, <2>4 DEF Session!SessionsTyped
<1>7. Session!DidIsTold
  BY <1>2 DEF Session!DidIsTold
<1>8. Session!Holdings = {<<v1.refresh, v1.id>>}
  BY <1>3, <1>5 DEF Session!Holdings
<1>9. Session!OneFamily
  BY <1>1, <1>8 DEF Session!OneFamily, Session!None
<1>10. Session!RowCatchesUp
  BY <1>4, <1>5 DEF Session!RowCatchesUp
<1>11. Session!SessionTypeOK
  <2>1. \A t \in Actors : v6[t].tries <= Attempts
    <3>1. 0 <= Attempts
      BY SessionAssumption
    <3> QED
      BY <1>2, <3>1, SessionIdle
  <2> QED
    BY <1>2, <1>4, <1>6, <2>1 DEF Session!SessionTypeOK, Session!SessionsTyped
<1>12. Session!OrdersAreOnce /\ Session!LoginOutlives /\ Session!StaysOff
  <2>1. v8.undone = FALSE
    BY <1>1
  <2> QED
    BY <1>2, <1>4, <2>1 DEF Session!OrdersAreOnce, Session!LoginOutlives, Session!StaysOff
<1> QED
  BY <1>6, <1>7, <1>9, <1>10, <1>11, <1>12 DEF Session!IInv, Session!SessionHolds

\* What the parts of the invariant say together.
LEMMA SessionParts ==
    ASSUME Session!SessionsTyped', Session!DidIsTold', Session!OneFamily', Session!RowCatchesUp', ~v8'.undone
    PROVE  Session!IInv'
<1>1. Session!SessionTypeOK'
  <2>1. \A t \in Actors : v6'[t] \in Session!Requests(v3') /\ v3' \in Nat
    BY DEF Session!SessionsTyped
  <2>2. \A t \in Actors : v6'[t].tries <= Attempts /\ v6'[t].at \in {"idle", "refresh", "posted", "persist", "send", "done"}
    BY <2>1, SessionRequest
  <2> QED
    BY <2>2 DEF Session!SessionsTyped, Session!SessionTypeOK
<1>2. Session!OrdersAreOnce'
  BY DEF Session!OrdersAreOnce, Session!DidIsTold
<1>3. Session!LoginOutlives'
  BY DEF Session!LoginOutlives, Session!RowCatchesUp
<1> QED
  BY <1>1, <1>2, <1>3 DEF Session!IInv, Session!SessionHolds, Session!StaysOff

\* A thread's request goes on, with no new tokens in hand before or after.
LEMMA SessionQuiet ==
    ASSUME Session!IInv, NEW t \in Actors, NEW rec \in Session!Requests(v3),
           v6' = [v6 EXCEPT ![t] = rec], UNCHANGED <<v1, v2, v3, v4, v5, v7, v8>>,
           ~Session!UnderWay(t), rec.at \notin {"posted", "persist"},
           rec.at \notin {"idle", "done"} => rec.via \in Things /\ v5[rec.via].id # 0,
           ~rec.lost => rec.did = IF rec.at = "done" /\ rec.told = "done" THEN 1 ELSE 0
    PROVE  Session!IInv'
<1>1. v6 \in [Actors -> Session!Requests(v3)]
  BY DEF Session!IInv, Session!SessionsTyped
<1>2. v6'[t] = rec /\ (\A u \in Actors \ {t} : v6'[u] = v6[u]) /\ v6' \in [Actors -> Session!Requests(v3)]
  BY <1>1
<1>3. Session!SessionsTyped'
  BY <1>2 DEF Session!IInv, Session!SessionsTyped
<1>4. Session!DidIsTold'
  BY <1>2 DEF Session!IInv, Session!DidIsTold
<1>5. \A u \in Actors : /\ Session!UnderWay(u)' <=> Session!UnderWay(u)
                        /\ Session!UnderWay(u) => v6'[u] = v6[u]
  BY <1>2 DEF Session!UnderWay
<1>6. Session!Holdings' = Session!Holdings
  BY <1>5 DEF Session!Holdings
<1>7. Session!OneFamily'
  BY <1>6 DEF Session!IInv, Session!OneFamily
<1>8. Session!RowCatchesUp'
  BY <1>5 DEF Session!IInv, Session!RowCatchesUp
<1> QED
  BY <1>3, <1>4, <1>7, <1>8, SessionParts DEF Session!IInv, Session!SessionHolds, Session!StaysOff

LEMMA SessionStarts == ASSUME Session!IInv, NEW t \in Actors, NEW a \in Things, Session!Starts(t, a) PROVE Session!IInv'
<1> DEFINE stage == IF v5[a].access <= v4 THEN "refresh" ELSE "send"
           rec == [Session!Idle EXCEPT !.at = stage, !.back = "fail", !.via = a]
<1>1. /\ v6' = [v6 EXCEPT ![t] = rec] /\ UNCHANGED <<v1, v2, v3, v4, v5, v7, v8>>
      /\ ~Session!UnderWay(t) /\ v5[a].id # 0
  BY DEF Session!Starts, Session!Goes, Session!UnderWay
<1>2. stage \in {"refresh", "send"}
  OBVIOUS
<1> HIDE DEF stage
<1>3. rec \in Session!Requests(0)
  BY <1>2, SessionIdle DEF Session!Requests
<1>4. rec.at = stage /\ rec.via = a /\ rec.did = 0
  BY SessionIdle DEF Session!Requests
<1>5. rec \in Session!Requests(v3)
  <2>1. v3 \in Nat /\ 0 \in Nat /\ 0 <= v3
    BY DEF Session!IInv, Session!SessionsTyped
  <2> QED
    BY <1>3, <2>1, SessionGrows
<1> HIDE DEF rec
<1> QED
  BY <1>1, <1>2, <1>4, <1>5, SessionQuiet

LEMMA SessionGivesUp == ASSUME Session!IInv, NEW t \in Actors, Session!GivesUp(t) PROVE Session!IInv'
<1> DEFINE rec == [[v6[t] EXCEPT !.at = "done"] EXCEPT !.told = "failed"]
<1>1. /\ v6' = [v6 EXCEPT ![t] = rec] /\ UNCHANGED <<v1, v2, v3, v4, v5, v7, v8>>
      /\ ~Session!UnderWay(t) /\ v6[t].at = "send"
  BY DEF Session!GivesUp, Session!Goes, Session!UnderWay, Session!At
<1>2. v6[t] \in Session!Requests(v3) /\ (~v6[t].lost => v6[t].did = 0)
  BY <1>1 DEF Session!IInv, Session!SessionsTyped, Session!DidIsTold
<1>3. /\ rec \in Session!Requests(v3) /\ rec.at = "done" /\ rec.told = "failed"
      /\ rec.did = v6[t].did /\ rec.lost = v6[t].lost
  BY <1>2 DEF Session!Requests
<1> HIDE DEF rec
<1> QED
  BY <1>1, <1>2, <1>3, SessionQuiet

\* A refresh that failed: what becomes of the request.
LEMMA SessionFailed ==
    ASSUME Session!IInv, NEW t \in Actors, v6[t].at = "refresh"
    PROVE  /\ Session!Failed(t) \in Session!Requests(v3) /\ Session!Failed(t).at \in {"done", "send"}
           /\ Session!Failed(t).via \in Things /\ v5[Session!Failed(t).via].id # 0
           /\ ~Session!Failed(t).lost => Session!Failed(t).did = 0
           /\ Session!Failed(t).at = "done" => Session!Failed(t).told = "failed"
<1>1. /\ v6[t] \in Session!Requests(v3) /\ (~v6[t].lost => v6[t].did = 0)
      /\ v6[t].via \in Things /\ v5[v6[t].via].id # 0
  BY DEF Session!IInv, Session!SessionsTyped, Session!DidIsTold
<1>2. CASE v6[t].back = "fail"
  <2>1. Session!Failed(t) = [v6[t] EXCEPT !.at = "done", !.told = "failed"]
    BY <1>2 DEF Session!Failed
  <2> QED
    BY <1>1, <2>1 DEF Session!Requests
<1>3. CASE v6[t].back # "fail"
  <2>1. Session!Failed(t) = [v6[t] EXCEPT !.at = "send"]
    BY <1>3 DEF Session!Failed, Session!At
  <2> QED
    BY <1>1, <2>1 DEF Session!Requests
<1> QED
  BY <1>2, <1>3

LEMMA SessionSends == ASSUME Session!IInv, NEW t \in Actors, Session!Sends(t) PROVE Session!IInv'
<1> DEFINE rec == [v6[t] EXCEPT !.tries = v6[t].tries + 1, !.back = "send"]
<1>1. /\ v6[t].at = "send" /\ v6[t].tries < Attempts /\ UNCHANGED <<v1, v2, v3, v4, v5, v7, v8>>
      /\ \/ v6' = [v6 EXCEPT ![t] = [rec EXCEPT !.at = "refresh"]]
         \/ v6' = [v6 EXCEPT ![t] = [rec EXCEPT !.at = "done", !.did = rec.did + 1, !.told = "done"]]
         \/ v6' = [v6 EXCEPT ![t] = [rec EXCEPT !.at = "done", !.told = "refused"]]
         \/ v6' = [v6 EXCEPT ![t] = rec]
         \/ v6' = [v6 EXCEPT ![t] = [rec EXCEPT !.did = rec.did + 1, !.lost = TRUE]]
  BY DEF Session!Sends, Session!Goes
<1>2. /\ v6[t] \in Session!Requests(v3) /\ (~v6[t].lost => v6[t].did = 0) /\ ~Session!UnderWay(t)
      /\ v6[t].via \in Things /\ v5[v6[t].via].id # 0
  BY <1>1 DEF Session!IInv, Session!SessionsTyped, Session!DidIsTold, Session!UnderWay
<1>3. v6[t].tries + 1 \in 0..Attempts
  <2>1. v3 \in Nat
    BY DEF Session!IInv, Session!SessionsTyped
  <2> QED
    BY <1>1, <1>2, <2>1, SessionRequest, SessionAssumption
<1>4. /\ rec \in Session!Requests(v3) /\ rec.at = "send" /\ rec.via = v6[t].via
      /\ rec.did = v6[t].did /\ rec.lost = v6[t].lost
  BY <1>1, <1>2, <1>3 DEF Session!Requests
<1> HIDE DEF rec
<1> DEFINE Fits(r) ==
      /\ r \in Session!Requests(v3) /\ r.at \notin {"posted", "persist"}
      /\ r.via \in Things /\ v5[r.via].id # 0
      /\ ~r.lost => r.did = IF r.at = "done" /\ r.told = "done" THEN 1 ELSE 0
<1>5. Fits(rec) /\ Fits([rec EXCEPT !.at = "refresh"])
  BY <1>2, <1>4 DEF Session!Requests
<1>6. Fits([rec EXCEPT !.at = "done", !.did = rec.did + 1, !.told = "done"])
  <2>1. rec.did \in Nat /\ (~rec.lost => rec.did + 1 = 1)
    BY <1>2, <1>4 DEF Session!Requests
  <2> DEFINE n == rec.did + 1
  <2>2. n \in Nat /\ (~rec.lost => n = 1)
    BY <2>1
  <2> HIDE DEF n
  <2>3. Fits([rec EXCEPT !.at = "done", !.did = n, !.told = "done"])
    BY ZenonT(60), <1>2, <1>4, <2>2 DEF Session!Requests
  <2> QED
    BY <2>3 DEF n
<1>7. Fits([rec EXCEPT !.at = "done", !.told = "refused"])
  BY ZenonT(60), <1>2, <1>4 DEF Session!Requests
<1>8. Fits([rec EXCEPT !.did = rec.did + 1, !.lost = TRUE])
  <2> DEFINE n == rec.did + 1
  <2>1. n \in Nat
    BY <1>4 DEF Session!Requests
  <2> HIDE DEF n
  <2>2. Fits([rec EXCEPT !.did = n, !.lost = TRUE])
    BY <1>2, <1>4, <2>1 DEF Session!Requests
  <2> QED
    BY <2>2 DEF n
<1>9. PICK r : Fits(r) /\ v6' = [v6 EXCEPT ![t] = r]
  <2> HIDE DEF Fits
  <2> QED
    BY <1>1, <1>5, <1>6, <1>7, <1>8
<1> QED
  BY <1>1, <1>2, <1>9, SessionQuiet

LEMMA SessionHeld ==
    ASSUME Session!SessionsTyped
    PROVE  /\ \A q \in Session!Holdings : q[1] \in 0..v3
           /\ <<v1.refresh, v1.id>> \in Session!Holdings
           /\ \A a \in Things : v5[a].id # 0 => <<v5[a].refresh, v5[a].id>> \in Session!Holdings
           /\ \A t \in Actors : Session!UnderWay(t) => <<v6[t].refresh, v5[v6[t].via].id>> \in Session!Holdings
<1>1. v3 \in Nat /\ v1.refresh \in 0..v3
  BY DEF Session!SessionsTyped
<1>2. \A a \in Things : v5[a].refresh \in 0..v3
  BY DEF Session!SessionsTyped, Session!Tokens
<1>3. \A t \in Actors : v6[t].refresh \in 0..v3
  BY DEF Session!SessionsTyped, Session!Requests
<1>4. \A q \in Session!Holdings : q[1] \in 0..v3
  BY <1>1, <1>2, <1>3 DEF Session!Holdings
<1> QED
  BY <1>4 DEF Session!Holdings

\* An answer that brings new tokens, before they are anybody's but the broker's and
\* perhaps the thread's: what holds however it ends.
LEMMA SessionPosted ==
    ASSUME Session!IInv, NEW t \in Actors, v6[t].at = "refresh", NEW new \in {v5[v6[t].via].refresh, v3 + 1},
           v3' = v3 + 1, NEW old \in {{}, {v5[v6[t].via].refresh} \ {new}}, v2' = (v2 \cup {new}) \ old,
           NEW rec \in Session!Requests(v3'), v6' = [v6 EXCEPT ![t] = rec], UNCHANGED <<v1, v4, v5, v7>>,
           v8' \in [adrift : BOOLEAN, undone : BOOLEAN], v8'.undone = v8.undone,
           rec.at # "idle", ~rec.lost => rec.did = 0, rec.at = "done" => rec.told = "failed",
           rec.via \in Things, v5[rec.via].id # 0
    PROVE  /\ Session!SessionsTyped' /\ Session!DidIsTold' /\ ~v8'.undone
           /\ v6'[t] = rec /\ \A u \in Actors \ {t} : v6'[u] = v6[u]
           /\ v6[t].via \in Things /\ v5[v6[t].via].id # 0
           /\ v7 # 0 => v7 \in v2' /\ v7 # v5[v6[t].via].refresh /\ v7 # new
<1> DEFINE sent == v5[v6[t].via].refresh
<1>1. /\ v6 \in [Actors -> Session!Requests(v3)] /\ v3 \in Nat /\ v2 \subseteq 0..v3
      /\ {v1.access, v1.refresh, v4, v7} \subseteq 0..v3
      /\ v6[t].via \in Things /\ v5[v6[t].via].id # 0 /\ v5 \in [Things -> Session!Tokens(v3)]
  BY DEF Session!IInv, Session!SessionsTyped
<1>2. sent \in 0..v3
  BY <1>1 DEF Session!Tokens
<1>3. new \in 0..(v3 + 1)
  BY <1>1, <1>2
<1>4. Session!Requests(v3) \subseteq Session!Requests(v3') /\ Session!Tokens(v3) \subseteq Session!Tokens(v3')
  <2>1. v3 + 1 \in Nat /\ v3 <= v3 + 1
    BY <1>1
  <2> QED
    BY <1>1, <2>1, SessionGrows
<1>5. /\ v6' \in [Actors -> Session!Requests(v3')] /\ v5' \in [Things -> Session!Tokens(v3')]
      /\ v6'[t] = rec /\ \A u \in Actors \ {t} : v6'[u] = v6[u]
  BY <1>1, <1>4
<1>6. {v1.access, v1.refresh, v4, v7} \cup v2' \subseteq 0..v3'
  <2>1. v2' \subseteq 0..(v3 + 1)
    <3>1. 0..v3 \subseteq 0..(v3 + 1)
      BY <1>1
    <3>2. v2' \subseteq v2 \cup {new}
      OBVIOUS
    <3> QED
      BY <1>1, <1>3, <3>1, <3>2
  <2> QED
    BY <1>1, <2>1
<1>7. Session!SessionsTyped'
  BY <1>1, <1>5, <1>6 DEF Session!IInv, Session!SessionsTyped
<1>8. Session!DidIsTold'
  BY <1>5 DEF Session!IInv, Session!DidIsTold
<1>9. v7 # 0 => v7 \in v2' /\ v7 # sent /\ v7 # new
  <2> SUFFICES ASSUME v7 # 0 PROVE v7 \in v2' /\ v7 # sent /\ v7 # new
    OBVIOUS
  <2>1. <<sent, v5[v6[t].via].id>> \in Session!Holdings
    BY <1>1, SessionHeld DEF Session!IInv
  <2>2. v7 # sent /\ v7 \in v2
    BY <2>1 DEF Session!IInv, Session!OneFamily, Session!None
  <2>3. v7 # v3 + 1
    BY SMTT(40), <1>1
  <2> QED
    BY <2>2, <2>3
<1> QED
  BY <1>1, <1>5, <1>7, <1>8, <1>9 DEF Session!IInv, Session!SessionHolds, Session!StaysOff

LEMMA SessionPosts == ASSUME Session!IInv, NEW t \in Actors, Session!Posts(t) PROVE Session!IInv'
<1> DEFINE sent == v5[v6[t].via].refresh
<1>1. v6[t].at = "refresh" /\ UNCHANGED <<v1, v4, v5, v7>> /\ ~Session!UnderWay(t)
  BY DEF Session!Posts, Session!UnderWay
<1>2. /\ Session!Failed(t) \in Session!Requests(v3) /\ Session!Failed(t).at \in {"done", "send"}
      /\ Session!Failed(t).via \in Things /\ v5[Session!Failed(t).via].id # 0
      /\ ~Session!Failed(t).lost => Session!Failed(t).did = 0
      /\ Session!Failed(t).at = "done" => Session!Failed(t).told = "failed"
  BY <1>1, SessionFailed
<1>3. CASE v6' = [v6 EXCEPT ![t] = Session!Failed(t)] /\ UNCHANGED <<v2, v3, v8>>
  BY <1>1, <1>2, <1>3, SessionQuiet
<1>4. ASSUME sent \in v2, v3' = v3 + 1, NEW new \in {sent, v3 + 1}, NEW old \in {{}, {sent} \ {new}},
             v2' = (v2 \cup {new}) \ old, v6' = [v6 EXCEPT ![t] = Session!Failed(t)],
             v8' = [v8 EXCEPT !.adrift = TRUE]
      PROVE  Session!IInv'
  <2>1. Session!Failed(t) \in Session!Requests(v3')
    <3>1. v3 \in Nat /\ v3 + 1 \in Nat /\ v3 <= v3 + 1
      BY DEF Session!IInv, Session!SessionsTyped
    <3> QED
      BY <1>2, <1>4, <3>1, SessionGrows
  <2>2. v8' \in [adrift : BOOLEAN, undone : BOOLEAN] /\ v8'.undone = v8.undone /\ v8'.adrift = TRUE
    BY <1>4 DEF Session!IInv, Session!SessionsTyped
  <2>3. /\ Session!SessionsTyped' /\ Session!DidIsTold' /\ ~v8'.undone
        /\ v6'[t] = Session!Failed(t) /\ \A u \in Actors \ {t} : v6'[u] = v6[u]
        /\ v7 # 0 => v7 \in v2'
    BY ZenonT(60), <1>1, <1>2, <1>4, <2>1, <2>2, SessionPosted
  <2>4. \A u \in Actors : Session!UnderWay(u)' => Session!UnderWay(u) /\ v6'[u] = v6[u]
    BY <1>2, <2>3 DEF Session!UnderWay
  <2>5. Session!Holdings' \subseteq Session!Holdings
    BY <1>1, <2>4 DEF Session!Holdings
  <2>6. Session!OneFamily'
    BY <1>1, <2>3, <2>5, SessionFamilyKept DEF Session!IInv
  <2>7. Session!RowCatchesUp'
    BY <2>2 DEF Session!RowCatchesUp
  <2> QED
    BY <2>3, <2>6, <2>7, SessionParts
<1>5. ASSUME sent \in v2, v3' = v3 + 1, NEW new \in {sent, v3 + 1}, NEW old \in {{}, {sent} \ {new}},
             v2' = (v2 \cup {new}) \ old,
             v6' = [v6 EXCEPT ![t] = [[v6[t] EXCEPT !.at = "posted"] EXCEPT !.access = v3 + 1, !.refresh = new]],
             v8' = [v8 EXCEPT !.adrift = v8.adrift \/ \E u \in Actors \ {t} : Session!UnderWay(u)]
      PROVE  Session!IInv'
  <2> DEFINE rec == [[v6[t] EXCEPT !.at = "posted"] EXCEPT !.access = v3 + 1, !.refresh = new]
             id == v5[v6[t].via].id
  <2>1. /\ v6[t] \in Session!Requests(v3) /\ v3 \in Nat /\ v6[t].via \in Things /\ id # 0
        /\ (~v6[t].lost => v6[t].did = 0) /\ v5[v6[t].via] \in Session!Tokens(v3)
        /\ {v1.access, v1.refresh, v4, v7} \cup v2 \subseteq 0..v3
    BY <1>1 DEF Session!IInv, Session!SessionsTyped, Session!DidIsTold
  <2>2. sent \in 0..v3 /\ new \in 0..(v3 + 1) /\ v3 + 1 \in 0..(v3 + 1)
    <3>1. sent \in 0..v3
      BY <2>1 DEF Session!Tokens
    <3> QED
      BY <1>5, <2>1, <3>1
  <2>3. /\ rec \in Session!Requests(v3') /\ rec.at = "posted" /\ rec.refresh = new /\ rec.via = v6[t].via
        /\ rec.did = v6[t].did /\ rec.lost = v6[t].lost
    <3>1. v6[t] \in Session!Requests(v3 + 1)
      <4>1. v3 + 1 \in Nat /\ v3 <= v3 + 1
        BY <2>1
      <4> QED
        BY <2>1, <4>1, SessionGrows
    <3> DEFINE n == v3 + 1
    <3>2. v6[t] \in Session!Requests(n) /\ n \in 0..n /\ new \in 0..n
      BY <2>2, <3>1
    <3> HIDE DEF n
    <3>3. [[v6[t] EXCEPT !.at = "posted"] EXCEPT !.access = n, !.refresh = new] \in Session!Requests(n)
      BY <3>2 DEF Session!Requests
    <3>4. rec \in Session!Requests(v3')
      BY <1>5, <3>3 DEF n
    <3> QED
      BY <3>1, <3>4 DEF Session!Requests
  <2> HIDE DEF rec
  <2>4. /\ v8' \in [adrift : BOOLEAN, undone : BOOLEAN] /\ v8'.undone = v8.undone
        /\ v8'.adrift <=> v8.adrift \/ \E u \in Actors \ {t} : Session!UnderWay(u)
    <3>1. v8 \in [adrift : BOOLEAN, undone : BOOLEAN]
      BY DEF Session!IInv, Session!SessionsTyped
    <3> DEFINE b == v8.adrift \/ \E u \in Actors \ {t} : Session!UnderWay(u)
    <3>2. b \in BOOLEAN
      BY <3>1
    <3>3. v8' = [v8 EXCEPT !.adrift = b]
      BY <1>5
    <3> HIDE DEF b
    <3>4. v8' \in [adrift : BOOLEAN, undone : BOOLEAN] /\ v8'.undone = v8.undone /\ v8'.adrift = b
      BY <3>1, <3>2, <3>3
    <3> QED
      BY <3>4 DEF b
  <2>5. v6' = [v6 EXCEPT ![t] = rec]
    BY SMTT(40), <1>5 DEF rec
  <2>6. /\ Session!SessionsTyped' /\ Session!DidIsTold' /\ ~v8'.undone
        /\ v6'[t] = rec /\ \A u \in Actors \ {t} : v6'[u] = v6[u]
        /\ v7 # 0 => v7 \in v2' /\ v7 # sent /\ v7 # new
    <3>1. /\ rec \in Session!Requests(v3') /\ rec.at # "idle" /\ (~rec.lost => rec.did = 0)
          /\ (rec.at = "done" => rec.told = "failed") /\ rec.via \in Things /\ v5[rec.via].id # 0
      BY <2>1, <2>3
    <3>2. /\ v8' \in [adrift : BOOLEAN, undone : BOOLEAN] /\ v8'.undone = v8.undone
      BY <2>4
    <3>3. v3' = v3 + 1 /\ v2' = (v2 \cup {new}) \ old /\ v6[t].at = "refresh" /\ UNCHANGED <<v1, v4, v5, v7>>
      BY <1>1, <1>5
    <3> QED
      BY ZenonT(60), <2>5, <3>1, <3>2, <3>3, SessionPosted
  <2>7. /\ Session!UnderWay(t)' /\ (\A u \in Actors \ {t} : Session!UnderWay(u)' <=> Session!UnderWay(u))
        /\ v6'[t].refresh = new /\ v6'[t].via = v6[t].via
    BY <2>3, <2>6 DEF Session!UnderWay
  <2>8. Session!Holdings' \subseteq Session!Holdings \cup {<<new, id>>}
    BY <1>1, <2>6, <2>7 DEF Session!Holdings
  <2>9. <<sent, id>> \in Session!Holdings /\ \A q \in Session!Holdings : q[1] \in 0..v3
    BY <2>1, SessionHeld DEF Session!IInv
  <2>10. \A q \in Session!Holdings' : q[1] = new => q[2] = id
    <3> SUFFICES ASSUME NEW q \in Session!Holdings, q[1] = new PROVE q[2] = id
      BY <2>8
    <3>1. new # v3 + 1
      BY <2>1, <2>9
    <3>2. q[1] = <<sent, id>>[1]
      BY <3>1
    <3> QED
      BY <2>9, <3>2 DEF Session!IInv, Session!OneFamily
  <2>11. Session!OneFamily'
    <3> DEFINE p == <<new, id>>
    <3>1. p[1] = new /\ p[2] = id
      OBVIOUS
    <3>2. Session!Holdings' \subseteq Session!Holdings \cup {p}
      BY <2>8
    <3> HIDE DEF p
    <3> QED
      BY <1>1, <2>6, <2>10, <3>1, <3>2, SessionFamily DEF Session!IInv
  <2>12. Session!RowCatchesUp'
    <3> SUFFICES ASSUME ~v8'.adrift PROVE Session!RowCatchesUp'
      BY DEF Session!RowCatchesUp
    <3>1. ~v8.adrift /\ (\A u \in Actors \ {t} : ~Session!UnderWay(u)) /\ \A u \in Actors : ~Session!UnderWay(u)
      BY <1>1, <2>4
    <3>2. new \in v2'
      BY <1>5
    <3>3. v1.here => v1.refresh \in v2
      BY <3>1 DEF Session!IInv, Session!RowCatchesUp
    <3>4. v1.here => v1.refresh \in v2' \/ id = v1.id
      <4> SUFFICES ASSUME v1.here, v1.refresh \notin v2' PROVE id = v1.id
        OBVIOUS
      <4>1. v1.refresh = sent
        BY <1>5, <3>3
      <4>2. <<v1.refresh, v1.id>> \in Session!Holdings /\ <<v1.refresh, v1.id>>[1] = <<sent, id>>[1]
        BY <4>1, SessionHeld DEF Session!IInv
      <4>3. <<v1.refresh, v1.id>>[2] = <<sent, id>>[2]
        BY <2>9, <4>2 DEF Session!IInv, Session!OneFamily
      <4> QED
        BY <4>3
    <3> QED
      BY <1>1, <2>7, <3>1, <3>2, <3>4 DEF Session!RowCatchesUp
  <2> QED
    BY <2>6, <2>11, <2>12, SessionParts
<1>6. \/ v6' = [v6 EXCEPT ![t] = Session!Failed(t)] /\ UNCHANGED <<v2, v3, v8>>
      \/ /\ sent \in v2 /\ v3' = v3 + 1
         /\ \E new \in {sent, v3 + 1} : \E old \in {{}, {sent} \ {new}} :
              /\ v2' = (v2 \cup {new}) \ old
              /\ \/ /\ v6' = [v6 EXCEPT ![t] = [[v6[t] EXCEPT !.at = "posted"] EXCEPT !.access = v3 + 1, !.refresh = new]]
                    /\ v8' = [v8 EXCEPT !.adrift = v8.adrift \/ \E u \in Actors \ {t} : Session!UnderWay(u)]
                 \/ /\ v6' = [v6 EXCEPT ![t] = Session!Failed(t)]
                    /\ v8' = [v8 EXCEPT !.adrift = TRUE]
  BY Zenon DEF Session!Posts, Session!Goes, Session!At
<1> QED
  BY <1>3, <1>4, <1>5, <1>6

LEMMA SessionAssigns == ASSUME Session!IInv, NEW t \in Actors, Session!Assigns(t) PROVE Session!IInv'
<1> DEFINE via == v6[t].via
           s == Session!Rotated(v5[via], v6[t].access, v6[t].refresh)
           rec == [[v6[t] EXCEPT !.at = "persist"] EXCEPT !.access = s.access, !.refresh = s.refresh]
<1>1. /\ v6[t].at = "posted" /\ Session!UnderWay(t) /\ UNCHANGED <<v1, v2, v3, v4, v7, v8>>
      /\ v5' = [v5 EXCEPT ![via] = s] /\ v6' = [v6 EXCEPT ![t] = rec]
  BY DEF Session!Assigns, Session!Goes, Session!At, Session!UnderWay
<1>2. /\ v6 \in [Actors -> Session!Requests(v3)] /\ v5 \in [Things -> Session!Tokens(v3)]
      /\ via \in Things /\ v5[via].id # 0 /\ v3 \in Nat
  BY <1>1 DEF Session!IInv, Session!SessionsTyped
<1>3. v6[t].access \in 0..v3 /\ v6[t].refresh \in 0..v3
  BY <1>2, SessionRequest
<1>4. /\ s \in Session!Tokens(v3) /\ s.id = v5[via].id /\ s.access = v6[t].access /\ s.refresh = v6[t].refresh
  BY <1>2, <1>3 DEF Session!Rotated, Session!Tokens
<1> HIDE DEF s
<1>5. /\ rec \in Session!Requests(v3) /\ rec.at = "persist" /\ rec.via = via /\ rec.refresh = v6[t].refresh
      /\ rec.did = v6[t].did /\ rec.lost = v6[t].lost
  <2> DEFINE p == s.access
             q == s.refresh
  <2>1. v6[t] \in Session!Requests(v3) /\ p \in 0..v3 /\ q \in 0..v3 /\ q = v6[t].refresh
    BY <1>2, <1>3, <1>4
  <2> HIDE DEF p, q
  <2>2. /\ [[v6[t] EXCEPT !.at = "persist"] EXCEPT !.access = p, !.refresh = q] \in Session!Requests(v3)
        /\ [[v6[t] EXCEPT !.at = "persist"] EXCEPT !.access = p, !.refresh = q].refresh = q
    BY <2>1 DEF Session!Requests
  <2>3. rec \in Session!Requests(v3) /\ rec.refresh = v6[t].refresh
    BY <2>1, <2>2 DEF p, q
  <2> QED
    BY <2>1, <2>3 DEF Session!Requests
<1> HIDE DEF rec
<1>6. /\ v6'[t] = rec /\ (\A u \in Actors \ {t} : v6'[u] = v6[u]) /\ v6' \in [Actors -> Session!Requests(v3)]
      /\ v5'[via] = s /\ (\A a \in Things \ {via} : v5'[a] = v5[a]) /\ v5' \in [Things -> Session!Tokens(v3)]
  BY <1>1, <1>2, <1>4, <1>5
<1>7. \A a \in Things : v5'[a].id = v5[a].id
  BY <1>4, <1>6
<1>8. \A u \in Actors : /\ v6'[u].via = v6[u].via /\ v6'[u].refresh = v6[u].refresh
                        /\ Session!UnderWay(u)' <=> Session!UnderWay(u)
                        /\ v6'[u].at \in {"idle", "done"} <=> v6[u].at \in {"idle", "done"}
  BY <1>1, <1>5, <1>6 DEF Session!UnderWay
<1>9. Session!SessionsTyped'
  <2>1. \A u \in Actors : v6'[u].at \notin {"idle", "done"} => v6'[u].via \in Things /\ v5'[v6'[u].via].id # 0
    BY <1>7, <1>8 DEF Session!IInv, Session!SessionsTyped
  <2> QED
    BY <1>1, <1>6, <2>1 DEF Session!IInv, Session!SessionsTyped
<1>10. Session!DidIsTold'
  BY <1>1, <1>5, <1>6 DEF Session!IInv, Session!DidIsTold
<1>11. \A u \in Actors : Session!UnderWay(u) => v6[u].via \in Things
  BY SMTT(40) DEF Session!IInv, Session!SessionsTyped, Session!UnderWay
<1>12. Session!Holdings' \subseteq Session!Holdings
  <2> SUFFICES ASSUME NEW q \in Session!Holdings' PROVE q \in Session!Holdings
    OBVIOUS
  <2>1. CASE q = <<v1.refresh, v1.id>>
    BY <2>1, SessionHeld DEF Session!IInv
  <2>2. ASSUME NEW a \in Things, v5'[a].id # 0, q = <<v5'[a].refresh, v5'[a].id>> PROVE q \in Session!Holdings
    <3>1. CASE a = via
      <4>1. q = <<v6[t].refresh, v5[via].id>>
        BY <1>4, <1>6, <2>2, <3>1
      <4> QED
        BY <1>1, <4>1, SessionHeld DEF Session!IInv
    <3>2. CASE a # via
      BY <1>6, <2>2, <3>2, SessionHeld DEF Session!IInv
    <3> QED
      BY <3>1, <3>2
  <2>3. ASSUME NEW u \in Actors, Session!UnderWay(u)', q = <<v6'[u].refresh, v5'[v6'[u].via].id>>
        PROVE  q \in Session!Holdings
    <3>1. Session!UnderWay(u) /\ q = <<v6[u].refresh, v5[v6[u].via].id>>
      BY <1>7, <1>8, <1>11, <2>3
    <3> QED
      BY <3>1, SessionHeld DEF Session!IInv
  <2> QED
    BY <1>1, <2>1, <2>2, <2>3 DEF Session!Holdings
<1>13. Session!OneFamily'
  BY <1>1, <1>12, SessionFamilyKept DEF Session!IInv, Session!OneFamily, Session!None
<1>14. Session!RowCatchesUp'
  BY <1>1, <1>7, <1>8, <1>11 DEF Session!IInv, Session!RowCatchesUp
<1> QED
  BY <1>1, <1>9, <1>10, <1>13, <1>14, SessionParts DEF Session!IInv, Session!SessionHolds, Session!StaysOff

LEMMA SessionPersists == ASSUME Session!IInv, NEW t \in Actors, Session!Persists(t) PROVE Session!IInv'
<1> DEFINE rec == [v6[t] EXCEPT !.at = "send"]
           id == v5[v6[t].via].id
<1>1. /\ v6[t].at = "persist" /\ Session!UnderWay(t) /\ UNCHANGED <<v2, v3, v4, v5, v7>>
      /\ v6' = [v6 EXCEPT ![t] = rec]
      /\ \/ /\ v1' = Session!Persisted(id, v6[t].access, v6[t].refresh)
            /\ v8' = [v8 EXCEPT !.undone = v8.undone \/ (~v1.here /\ v1'.here)]
         \/ v8' = [v8 EXCEPT !.adrift = TRUE] /\ v1' = v1
  BY DEF Session!Persists, Session!Goes, Session!At, Session!UnderWay
<1>2. /\ v6 \in [Actors -> Session!Requests(v3)] /\ v3 \in Nat /\ v6[t].via \in Things /\ id # 0
      /\ v1 \in [here : BOOLEAN, id : Nat, access : Nat, refresh : Nat]
      /\ {v1.access, v1.refresh, v4, v7} \cup v2 \subseteq 0..v3
      /\ v8 \in [adrift : BOOLEAN, undone : BOOLEAN] /\ ~v8.undone
  BY <1>1 DEF Session!IInv, Session!SessionsTyped, Session!SessionHolds, Session!StaysOff
<1>3. v6[t].access \in 0..v3 /\ v6[t].refresh \in 0..v3
  BY <1>2, SessionRequest
<1>4. rec \in Session!Requests(v3) /\ rec.at = "send" /\ rec.via = v6[t].via /\ rec.did = v6[t].did /\ rec.lost = v6[t].lost
  BY <1>2 DEF Session!Requests
<1> HIDE DEF rec
<1>5. v6'[t] = rec /\ (\A u \in Actors \ {t} : v6'[u] = v6[u]) /\ v6' \in [Actors -> Session!Requests(v3)]
  BY <1>1, <1>2, <1>4
<1>6. \/ v1.here /\ v1.id = id /\ v1' = [v1 EXCEPT !.access = v6[t].access, !.refresh = v6[t].refresh]
      \/ ~(v1.here /\ v1.id = id) /\ v1' = v1
      \/ v8'.adrift /\ v1' = v1
  BY <1>1, <1>2 DEF Session!Persisted
<1>7. /\ v1' \in [here : BOOLEAN, id : Nat, access : Nat, refresh : Nat] /\ v1'.here = v1.here /\ v1'.id = v1.id
      /\ v1'.access \in 0..v3 /\ v1'.refresh \in 0..v3
      /\ v1'.refresh = v1.refresh \/ (v1.id = id /\ v1'.refresh = v6[t].refresh)
  <2> DEFINE p == v6[t].access
             q == v6[t].refresh
  <2>1. p \in 0..v3 /\ q \in 0..v3 /\ p \in Nat /\ q \in Nat /\ v1.access \in 0..v3 /\ v1.refresh \in 0..v3
    BY <1>2, <1>3
  <2>2. \/ v1.id = id /\ v1' = [v1 EXCEPT !.access = p, !.refresh = q]
        \/ v1' = v1
    BY <1>6
  <2> HIDE DEF p, q
  <2>3. CASE v1' = v1
    BY <1>2, <2>1, <2>3
  <2>4. CASE v1.id = id /\ v1' = [v1 EXCEPT !.access = p, !.refresh = q]
    BY <1>2, <2>1, <2>4 DEF q
  <2> QED
    BY <2>2, <2>3, <2>4
<1>8. v8' \in [adrift : BOOLEAN, undone : BOOLEAN] /\ ~v8'.undone /\ (v8.adrift => v8'.adrift)
  <2>1. CASE v8' = [v8 EXCEPT !.undone = v8.undone \/ (~v1.here /\ v1'.here)]
    <3>1. v8' = [v8 EXCEPT !.undone = FALSE]
      BY <1>2, <1>7, <2>1
    <3> QED
      BY <1>2, <3>1
  <2>2. CASE v8' = [v8 EXCEPT !.adrift = TRUE]
    BY <1>2, <2>2
  <2> QED
    BY <1>1, <2>1, <2>2
<1>9. Session!SessionsTyped'
  BY <1>1, <1>2, <1>4, <1>5, <1>7, <1>8 DEF Session!IInv, Session!SessionsTyped
<1>10. Session!DidIsTold'
  BY <1>1, <1>4, <1>5 DEF Session!IInv, Session!DidIsTold
<1>11. \A u \in Actors : Session!UnderWay(u)' => u # t /\ Session!UnderWay(u) /\ v6'[u] = v6[u]
  BY <1>4, <1>5 DEF Session!UnderWay
<1>12. Session!Holdings' \subseteq Session!Holdings
  <2>1. <<v1'.refresh, v1'.id>> \in Session!Holdings
    BY <1>1, <1>7, SessionHeld DEF Session!IInv
  <2> QED
    BY <1>1, <1>11, <2>1 DEF Session!Holdings
<1>13. Session!OneFamily'
  BY <1>1, <1>12, SessionFamilyKept DEF Session!IInv, Session!OneFamily, Session!None
<1>14. Session!RowCatchesUp'
  <2> SUFFICES ASSUME ~v8'.adrift PROVE Session!RowCatchesUp'
    BY DEF Session!RowCatchesUp
  <2>1. /\ \A u \in Actors : Session!UnderWay(u) => u = t
        /\ v6[t].refresh \in v2
        /\ v1.here => v1.refresh \in v2 \/ \E u \in Actors : Session!UnderWay(u) /\ v5[v6[u].via].id = v1.id
    BY <1>1, <1>8 DEF Session!IInv, Session!RowCatchesUp
  <2>2. v1'.here => v1'.refresh \in v2
    BY <1>2, <1>6, <1>7, <2>1
  <2>3. \A u \in Actors : ~Session!UnderWay(u)'
    BY <1>11, <2>1
  <2> QED
    BY <1>1, <2>2, <2>3 DEF Session!RowCatchesUp
<1> QED
  BY <1>8, <1>9, <1>10, <1>13, <1>14, SessionParts

LEMMA SessionLoads == ASSUME Session!IInv, NEW b \in Things, Session!Loads(b) PROVE Session!IInv'
<1> DEFINE s == [id |-> v1.id, access |-> v1.access, refresh |-> v1.refresh]
<1>1. v5[b].id = 0 /\ v1.here /\ v5' = [v5 EXCEPT ![b] = s] /\ UNCHANGED <<v1, v2, v3, v4, v6, v7, v8>>
  BY DEF Session!Loads
<1>2. v1.id \in Nat /\ v1.access \in 0..v3 /\ v1.refresh \in 0..v3 /\ v5 \in [Things -> Session!Tokens(v3)]
  BY DEF Session!IInv, Session!SessionsTyped
<1>3. s \in Session!Tokens(v3) /\ s.id = v1.id /\ s.refresh = v1.refresh
  BY <1>2 DEF Session!Tokens
<1> HIDE DEF s
<1>4. v5'[b] = s /\ (\A a \in Things \ {b} : v5'[a] = v5[a]) /\ v5' \in [Things -> Session!Tokens(v3)]
  BY <1>1, <1>2, <1>3
<1>5. \A u \in Actors : v6[u].at \notin {"idle", "done"} =>
        v6[u].via \in Things /\ v5[v6[u].via].id # 0 /\ v5'[v6[u].via] = v5[v6[u].via]
  BY <1>1, <1>4 DEF Session!IInv, Session!SessionsTyped
<1>6. Session!SessionsTyped' /\ Session!DidIsTold'
  BY <1>1, <1>4, <1>5 DEF Session!IInv, Session!SessionsTyped, Session!DidIsTold
<1>7. \A u \in Actors : /\ Session!UnderWay(u)' <=> Session!UnderWay(u)
                        /\ Session!UnderWay(u) => v5'[v6[u].via] = v5[v6[u].via]
  BY <1>1, <1>5 DEF Session!UnderWay
<1>8. Session!Holdings' \subseteq Session!Holdings
  <2>1. <<v1.refresh, v1.id>> \in Session!Holdings
    BY SessionHeld DEF Session!IInv
  <2> QED
    BY <1>1, <1>3, <1>4, <1>7, <2>1 DEF Session!Holdings
<1>9. Session!OneFamily'
  BY <1>1, <1>8, SessionFamilyKept DEF Session!IInv, Session!OneFamily, Session!None
<1>10. Session!RowCatchesUp'
  BY <1>1, <1>7 DEF Session!IInv, Session!RowCatchesUp
<1> QED
  BY <1>1, <1>6, <1>9, <1>10, SessionParts DEF Session!IInv, Session!SessionHolds, Session!StaysOff

LEMMA SessionLogsIn == ASSUME Session!IInv, Session!LogsIn PROVE Session!IInv'
<1>1. /\ v3' = v3 + 1 /\ v7' = v3 + 1 /\ v2' = v2 \cup {v3 + 1} /\ UNCHANGED <<v1, v4, v5, v6, v8>>
  BY DEF Session!LogsIn
<1>2. /\ v6 \in [Actors -> Session!Requests(v3)] /\ v3 \in Nat /\ v5 \in [Things -> Session!Tokens(v3)]
      /\ {v1.access, v1.refresh, v4, v7} \cup v2 \subseteq 0..v3
  BY DEF Session!IInv, Session!SessionsTyped
<1>3. Session!Requests(v3) \subseteq Session!Requests(v3') /\ Session!Tokens(v3) \subseteq Session!Tokens(v3')
  <2>1. v3 + 1 \in Nat /\ v3 <= v3 + 1
    BY <1>2
  <2> QED
    BY <1>1, <1>2, <2>1, SessionGrows
<1>4. v6' \in [Actors -> Session!Requests(v3')] /\ v5' \in [Things -> Session!Tokens(v3')]
  BY <1>1, <1>2, <1>3
<1>5. v3' \in Nat /\ {v1.access, v1.refresh, v4, v7'} \cup v2' \subseteq 0..v3'
  <2>1. 0..v3 \subseteq 0..(v3 + 1) /\ v3 + 1 \in 0..(v3 + 1)
    BY <1>2
  <2> QED
    BY <1>1, <1>2, <2>1
<1>6. Session!SessionsTyped' /\ Session!DidIsTold'
  BY <1>1, <1>4, <1>5 DEF Session!IInv, Session!SessionsTyped, Session!DidIsTold
<1>7. Session!Holdings' = Session!Holdings
  BY <1>1 DEF Session!Holdings, Session!UnderWay
<1>8. Session!OneFamily'
  <2>1. \A q \in Session!Holdings : q[1] # v3 + 1
    BY <1>2, SessionHeld DEF Session!IInv
  <2> QED
    BY <1>1, <1>7, <2>1 DEF Session!IInv, Session!OneFamily
<1>9. Session!RowCatchesUp'
  BY <1>1 DEF Session!IInv, Session!RowCatchesUp, Session!UnderWay
<1> QED
  BY <1>1, <1>6, <1>8, <1>9, SessionParts DEF Session!IInv, Session!SessionHolds, Session!StaysOff

LEMMA SessionConnects == ASSUME Session!IInv, Session!Connects PROVE Session!IInv'
<1> DEFINE id == IF v1.here THEN v1.id ELSE v1.id + 1
           adrift == v8.adrift /\ \E t \in Actors : Session!UnderWay(t)
<1>1. /\ v7 # 0 /\ v7' = 0 /\ v1' = [here |-> TRUE, id |-> id, access |-> v7, refresh |-> v7]
      /\ v8' = [v8 EXCEPT !.adrift = adrift] /\ UNCHANGED <<v2, v3, v4, v5, v6>>
  BY DEF Session!Connects, Session!None
<1>2. v1.id \in Nat /\ v7 \in 0..v3 /\ v3 \in Nat /\ v8 \in [adrift : BOOLEAN, undone : BOOLEAN] /\ ~v8.undone
  BY DEF Session!IInv, Session!SessionsTyped, Session!SessionHolds, Session!StaysOff
<1>3. id \in Nat /\ adrift \in BOOLEAN
  BY <1>2
<1> HIDE DEF id, adrift
<1>4. v8' \in [adrift : BOOLEAN, undone : BOOLEAN] /\ ~v8'.undone /\ v8'.adrift = adrift
  BY <1>1, <1>2, <1>3
<1>5. /\ v1' \in [here : BOOLEAN, id : Nat, access : Nat, refresh : Nat] /\ v1'.here /\ v1'.id = id
      /\ v1'.access = v7 /\ v1'.refresh = v7
  BY <1>1, <1>2, <1>3
<1>6. Session!SessionsTyped' /\ Session!DidIsTold'
  BY <1>1, <1>2, <1>4, <1>5 DEF Session!IInv, Session!SessionsTyped, Session!DidIsTold
<1>7. \A u \in Actors : Session!UnderWay(u)' <=> Session!UnderWay(u)
  BY <1>1 DEF Session!UnderWay
<1> DEFINE p == <<v7, id>>
<1>8. p[1] = v7 /\ p[2] = id
  OBVIOUS
<1>9. Session!Holdings' \subseteq Session!Holdings \cup {p}
  BY <1>1, <1>5, <1>7 DEF Session!Holdings
<1> HIDE DEF p
<1>10. \A q \in Session!Holdings' : q[1] = p[1] => q[2] = p[2]
  BY <1>1, <1>8, <1>9 DEF Session!IInv, Session!OneFamily, Session!None
<1>11. Session!OneFamily'
  BY <1>1, <1>9, <1>10, SessionFamily DEF Session!IInv
<1>12. Session!RowCatchesUp'
  <2> SUFFICES ASSUME ~v8'.adrift PROVE Session!RowCatchesUp'
    BY DEF Session!RowCatchesUp
  <2>1. v7 \in v2
    BY <1>1 DEF Session!IInv, Session!OneFamily, Session!None
  <2>2. ~v8.adrift \/ \A t \in Actors : ~Session!UnderWay(t)
    BY <1>4 DEF adrift
  <2>3. \A t \in Actors : Session!UnderWay(t) => v6[t].refresh \in v2 /\ \A u \in Actors : Session!UnderWay(u) => u = t
    BY <2>2 DEF Session!IInv, Session!RowCatchesUp
  <2> QED
    BY <1>1, <1>5, <1>7, <2>1, <2>3 DEF Session!RowCatchesUp
<1> QED
  BY <1>4, <1>6, <1>11, <1>12, SessionParts

LEMMA SessionCrashes == ASSUME Session!IInv, Session!Crashes PROVE Session!IInv'
<1> DEFINE adrift == v8.adrift \/ \E t \in Actors : Session!UnderWay(t)
<1>1. /\ v5' = [a \in Things |-> Session!Unloaded] /\ v6' = [t \in Actors |-> Session!Idle] /\ v7' = 0
      /\ v8' = [v8 EXCEPT !.adrift = adrift] /\ UNCHANGED <<v1, v2, v3, v4>>
  BY DEF Session!Crashes, Session!None
<1>2. /\ v3 \in Nat /\ v8 \in [adrift : BOOLEAN, undone : BOOLEAN] /\ ~v8.undone
      /\ {v1.access, v1.refresh, v4, v7} \cup v2 \subseteq 0..v3
  BY DEF Session!IInv, Session!SessionsTyped, Session!SessionHolds, Session!StaysOff
<1>3. adrift \in BOOLEAN
  BY <1>2
<1> HIDE DEF adrift
<1>4. v8' \in [adrift : BOOLEAN, undone : BOOLEAN] /\ ~v8'.undone /\ v8'.adrift = adrift
  BY <1>1, <1>2, <1>3
<1>5. \A t \in Actors : v6'[t] = Session!Idle /\ v6'[t].at = "idle" /\ v6'[t].did = 0
  BY <1>1, SessionIdle
<1>6. \A a \in Things : v5'[a].id = 0 /\ v5'[a] \in Session!Tokens(0)
  BY <1>1 DEF Session!Unloaded, Session!Tokens, Session!None
<1>7. v6' \in [Actors -> Session!Requests(v3)] /\ v5' \in [Things -> Session!Tokens(v3)]
  <2>1. Session!Requests(0) \subseteq Session!Requests(v3) /\ Session!Tokens(0) \subseteq Session!Tokens(v3)
    <3>1. 0 \in Nat /\ 0 <= v3
      BY <1>2
    <3> QED
      BY <1>2, <3>1, SessionGrows
  <2> QED
    BY <1>1, <1>5, <1>6, <2>1, SessionIdle
<1>8. Session!SessionsTyped' /\ Session!DidIsTold'
  <2>1. {v1.access, v1.refresh, v4, 0} \cup v2 \subseteq 0..v3
    BY <1>2
  <2> QED
    BY <1>1, <1>4, <1>5, <1>7, <2>1 DEF Session!IInv, Session!SessionsTyped, Session!DidIsTold
<1>9. \A t \in Actors : ~Session!UnderWay(t)'
  BY <1>5 DEF Session!UnderWay
<1>10. Session!Holdings' \subseteq Session!Holdings
  BY <1>1, <1>6, <1>9 DEF Session!Holdings
<1>11. Session!OneFamily'
  BY <1>1, <1>10, SessionFamilyKept DEF Session!IInv
<1>12. Session!RowCatchesUp'
  <2> SUFFICES ASSUME ~v8'.adrift, v1.here PROVE v1.refresh \in v2
    BY <1>1, <1>9 DEF Session!RowCatchesUp
  <2>1. ~v8.adrift /\ \A t \in Actors : ~Session!UnderWay(t)
    BY <1>4 DEF adrift
  <2> QED
    BY <2>1 DEF Session!IInv, Session!RowCatchesUp
<1> QED
  BY <1>4, <1>8, <1>11, <1>12, SessionParts

LEMMA SessionInductive == Session!IInv /\ [Session!Next]_(Session!sessionVars) => Session!IInv'
<1> SUFFICES ASSUME Session!IInv, [Session!Next]_(Session!sessionVars) PROVE Session!IInv'
  OBVIOUS
<1>1. ASSUME UNCHANGED <<v2, v3, v5, v6, v7, v8>>, v4' \in 0..v3, v1'.here => v1.here,
             v1' \in [here : BOOLEAN, id : Nat, access : Nat, refresh : Nat],
             v1'.id = v1.id /\ v1'.access = v1.access /\ v1'.refresh = v1.refresh
      PROVE  Session!IInv'
  <2>1. \A u \in Actors : Session!UnderWay(u)' <=> Session!UnderWay(u)
    BY <1>1 DEF Session!UnderWay
  <2>2. Session!SessionsTyped' /\ Session!DidIsTold'
    BY <1>1 DEF Session!IInv, Session!SessionsTyped, Session!DidIsTold
  <2>3. Session!Holdings' = Session!Holdings
    BY <1>1, <2>1 DEF Session!Holdings
  <2>4. Session!OneFamily' /\ Session!RowCatchesUp'
    BY <1>1, <2>1, <2>3 DEF Session!IInv, Session!OneFamily, Session!RowCatchesUp
  <2> QED
    BY <1>1, <2>2, <2>4, SessionParts DEF Session!IInv, Session!SessionHolds, Session!StaysOff
<1>2. /\ v1 \in [here : BOOLEAN, id : Nat, access : Nat, refresh : Nat] /\ v4 \in 0..v3 /\ v3 \in 0..v3
  BY DEF Session!IInv, Session!SessionsTyped
<1>3. CASE Session!Disconnects
  <2>1. v1' = [v1 EXCEPT !.here = FALSE] /\ UNCHANGED <<v2, v3, v4, v5, v6, v7, v8>>
    BY <1>3 DEF Session!Disconnects
  <2> QED
    BY <1>1, <1>2, <2>1
<1>4. CASE Session!Expires
  <2>1. v4' = v3 /\ UNCHANGED <<v1, v2, v3, v5, v6, v7, v8>>
    BY <1>4 DEF Session!Expires
  <2> QED
    BY <1>1, <1>2, <2>1
<1>5. CASE UNCHANGED Session!sessionVars
  BY <1>1, <1>2, <1>5 DEF Session!sessionVars
<1> QED
  BY <1>3, <1>4, <1>5, SessionLogsIn, SessionConnects, SessionCrashes, SessionLoads, SessionPosts, SessionAssigns,
     SessionPersists, SessionSends, SessionGivesUp, SessionStarts DEF Session!Next

-----------------------------------------------------------------------------
(* The economic calendar. *)

LEMMA CalendarMax ==
    ASSUME NEW a \in Int, NEW b \in Int
    PROVE  Calendar!Max({a, b}) = IF a >= b THEN a ELSE b
<1> DEFINE m == IF a >= b THEN a ELSE b
<1>1. m \in {a, b} /\ \A y \in {a, b} : m >= y
  OBVIOUS
<1>2. Calendar!Max({a, b}) \in {a, b} /\ \A y \in {a, b} : Calendar!Max({a, b}) >= y
  BY <1>1 DEF Calendar!Max
<1> QED
  BY <1>2

LEMMA CalendarMin ==
    ASSUME NEW a \in Int, NEW b \in Int
    PROVE  Calendar!Min({a, b}) = IF a <= b THEN a ELSE b
<1> DEFINE m == IF a <= b THEN a ELSE b
<1>1. m \in {a, b} /\ \A y \in {a, b} : m <= y
  OBVIOUS
<1>2. Calendar!Min({a, b}) \in {a, b} /\ \A y \in {a, b} : Calendar!Min({a, b}) <= y
  BY <1>1 DEF Calendar!Min
<1> QED
  BY <1>2

\* Numbers have a least one.
LEMMA LeastNumber ==
    ASSUME NEW S \in SUBSET Nat, NEW n \in S
    PROVE  \E m \in S : \A k \in S : m <= k
<1>1. \E x \in S : \A y \in S : ~(<<y, x>> \in OpToRel(<, Nat))
  BY NatLessThanWellFounded, WFMin
<1>2. PICK x \in S : \A y \in S : ~(<<y, x>> \in OpToRel(<, Nat))
  BY <1>1
<1>3. ASSUME NEW y \in S PROVE x <= y
  <2>1. y < x => <<y, x>> \in {ss \in Nat \X Nat : ss[1] < ss[2]}
    <3> DEFINE p == <<y, x>>
    <3>1. p \in Nat \X Nat /\ p[1] = y /\ p[2] = x
      OBVIOUS
    <3> HIDE DEF p
    <3>2. y < x => p \in {ss \in Nat \X Nat : ss[1] < ss[2]}
      BY <3>1
    <3> QED
      BY <3>2 DEF p
  <2>2. OpToRel(<, Nat) = {ss \in Nat \X Nat : ss[1] < ss[2]}
    BY DEF OpToRel
  <2>3. ~(y < x)
    BY <1>2, <2>1, <2>2
  <2> QED
    BY <2>3
<1> QED
  BY <1>3

LEMMA CalendarLeast ==
    ASSUME NEW S \in SUBSET Nat, NEW n \in S
    PROVE  Calendar!Min(S) \in S /\ Calendar!Min(S) <= n
<1>1. PICK m \in S : \A k \in S : m <= k
  BY LeastNumber
<1>2. Calendar!Min(S) \in S /\ \A k \in S : Calendar!Min(S) <= k
  BY <1>1 DEF Calendar!Min
<1> QED
  BY <1>2

LEMMA CalendarAllowed ==
    ASSUME NEW f \in Nat
    PROVE  /\ Calendar!Allowed(f) \in Nat /\ Calendar!Allowed(f) >= Interval
           /\ Calendar!Allowed(f + 1) = Calendar!Allowed(f) + Interval
  BY CalendarAssumption DEF Calendar!Allowed

LEMMA CalendarWorker ==
    ASSUME NEW at \in {"off", "idle", "save"}, NEW wake \in Nat, NEW burst \in Int, NEW got \in Calendar!Versions
    PROVE  /\ Calendar!Worker(at, wake, burst, got) \in Calendar!Workers
           /\ Calendar!Worker(at, wake, burst, got).at = at /\ Calendar!Worker(at, wake, burst, got).wake = wake
           /\ Calendar!Worker(at, wake, burst, got).burst = burst /\ Calendar!Worker(at, wake, burst, got).got = got
  BY DEF Calendar!Worker, Calendar!Workers

LEMMA CalendarInitially == Calendar!Init => Calendar!IInv
<1> SUFFICES ASSUME Calendar!Init PROVE Calendar!IInv
  OBVIOUS
<1>1. /\ v1 \in Calendars /\ v2 = 0 /\ v3 = Calendar!Nothing /\ v6 = TRUE /\ v7 = FALSE /\ v9 = 0 /\ v11 = 0 /\ v12 = 0
      /\ v4 = [e \in Calendar!Events |-> Calendar!Never] /\ v5 = [e \in Calendar!Events |-> Calendar!NoRow]
  BY DEF Calendar!Init, Calendar!Nothing
<1>2. PICK l \in Actors : v8 = [k \in Actors |-> IF k = l THEN Calendar!Idle(0, Calendar!Never) ELSE Calendar!Gone]
  BY DEF Calendar!Init
<1>3. Calendar!Nothing \in Calendar!Versions /\ \A e \in Calendar!Events : Calendar!Nothing[e] = 0
  BY DEF Calendar!Nothing, Calendar!Versions
<1>4. \A k \in Actors : /\ v8[k].at \in {"off", "idle"} /\ v8[k].wake = 0 /\ v8[k].burst = Calendar!Never
                        /\ v8[k].got = Calendar!Nothing /\ v8[k] \in Calendar!Workers
  <2> SUFFICES ASSUME NEW k \in Actors
      PROVE  /\ v8[k].at \in {"off", "idle"} /\ v8[k].wake = 0 /\ v8[k].burst = Calendar!Never
             /\ v8[k].got = Calendar!Nothing /\ v8[k] \in Calendar!Workers
    OBVIOUS
  <2>1. PICK at \in {"off", "idle"} : v8[k] = Calendar!Worker(at, 0, Calendar!Never, Calendar!Nothing)
    BY <1>2 DEF Calendar!Idle, Calendar!Gone
  <2>2. at \in {"off", "idle", "save"} /\ 0 \in Nat /\ Calendar!Never \in Int
    BY DEF Calendar!Never
  <2> QED
    BY <1>3, <2>1, <2>2, CalendarWorker
<1>5. \A e \in Calendar!Events : /\ v4[e] = -1 /\ v3[e] = 0 /\ v5[e].actual = 0 /\ v5[e].released = -1
                                 /\ v5[e] \in [there : BOOLEAN, actual : Nat, released : Calendar!Times]
  BY <1>1, <1>3 DEF Calendar!Never, Calendar!NoRow, Calendar!Times
<1>6. Calendar!FeedTyped
  <2>1. v1 \in [DOMAIN v1 -> Nat]
    BY <1>1, CalendarAssumption
  <2>2. v8 \in [Actors -> Calendar!Workers]
    BY <1>2, <1>4
  <2>3. v5 \in [Calendar!Events -> [there : BOOLEAN, actual : Nat, released : Calendar!Times]]
    BY <1>1, <1>5
  <2>4. v4 \in [Calendar!Events -> Calendar!Times] /\ v9 \in 0..v2
    BY <1>1 DEF Calendar!Times
  <2> QED
    BY <1>1, <1>3, <2>1, <2>2, <2>3, <2>4 DEF Calendar!FeedTyped, Calendar!Events
<1>7. Calendar!OnIsThere
  <2>1. v8[l].at = "idle"
    BY <1>2 DEF Calendar!Idle, Calendar!Worker
  <2> QED
    BY <1>1, <2>1 DEF Calendar!OnIsThere, Calendar!At
<1>8. Calendar!PrintedIsShown
  BY <1>4, <1>5 DEF Calendar!PrintedIsShown, Calendar!Never, Calendar!At
<1>9. Calendar!NobodyOversleeps
  BY <1>1, <1>4, CalendarAssumption DEF Calendar!NobodyOversleeps, Calendar!At, Calendar!Bursting
<1>10. Calendar!LateByFailures
  BY <1>5 DEF Calendar!LateByFailures, Calendar!Missing, Calendar!Never
<1>11. Calendar!SwiftWithout
  BY <1>1, <1>4, <1>5 DEF Calendar!SwiftWithout, Calendar!At, Calendar!Never
<1>12. Calendar!CalendarIsKept
  BY <1>5 DEF Calendar!CalendarIsKept, Calendar!CaughtInTime, Calendar!NeverForgotten, Calendar!Never
<1> QED
  BY <1>6, <1>7, <1>8, <1>9, <1>10, <1>11, <1>12 DEF Calendar!IInv

\* A number that is missing is not late yet: the parts of the invariant say it together.
LEMMA CalendarParts ==
    ASSUME Calendar!FeedTyped', Calendar!OnIsThere', Calendar!PrintedIsShown', Calendar!NobodyOversleeps',
           Calendar!LateByFailures', Calendar!SwiftWithout', Calendar!NeverForgotten'
    PROVE  Calendar!IInv'
<1>1. Calendar!CaughtInTime'
  <2> SUFFICES ASSUME NEW e \in Calendar!Events', v6', v4'[e] # Calendar!Never, v5'[e].actual = 0
      PROVE  v2' <= Calendar!Max({v4'[e], v9'}) + (IF v11' = 0 /\ v12' = 0 /\ v4'[e] < v1'[e] + BurstTail THEN 2
                                                   ELSE (v11' + 1) * Interval)
    BY DEF Calendar!CaughtInTime
  <2>1. PICK l \in Actors : v8'[l].at # "off"
    BY DEF Calendar!OnIsThere, Calendar!At
  <2>2. /\ v8'[l] \in Calendar!Workers' /\ v4'[e] \in Nat /\ v9' \in Nat /\ v2' \in Nat /\ v11' \in Nat
        /\ v1'[e] \in Nat
    <3>1. v9' \in 0..v2' /\ v2' \in Nat /\ v11' \in Nat /\ v1'[e] \in Nat /\ v4' \in [Calendar!Events' -> Calendar!Times]
      BY DEF Calendar!FeedTyped
    <3>2. v8' \in [Actors -> Calendar!Workers']
      BY DEF Calendar!FeedTyped
    <3> QED
      BY <3>1, <3>2 DEF Calendar!Times
  <2> DEFINE m == Calendar!Max({v4'[e], v9'})
             a == Calendar!Allowed(v11')
  <2>3. m \in Nat /\ v4'[e] <= m
    BY SMTT(40), <2>2, CalendarMax
  <2>4. a \in Nat /\ a = (v11' + 1) * Interval
    BY <2>2, CalendarAllowed DEF Calendar!Allowed
  <2>5. v8'[l].at \in {"idle", "save"} /\ v8'[l].wake \in Nat
    BY <2>1, <2>2 DEF Calendar!Workers
  <2> DEFINE once == IF v8'[l].burst # Calendar!Never THEN 1 ELSE 0
             more == IF v8'[l].got[e] = 0 THEN Interval ELSE 0
  <2>6. once \in Nat /\ more \in Nat
    BY CalendarAssumption
  <2>7. /\ v8'[l].at = "idle" => v8'[l].wake + once <= m + a
        /\ v8'[l].at = "save" => v2' + more <= m + a
    BY DEF Calendar!LateByFailures, Calendar!Missing, Calendar!At, Calendar!Relists, Calendar!Bursting
  <2>8. v8'[l].at = "idle" => v2' <= v8'[l].wake
    BY DEF Calendar!NobodyOversleeps, Calendar!At
  <2>9. v2' <= m + a
    <3> HIDE DEF m, a, once, more
    <3> QED
      BY <2>2, <2>3, <2>4, <2>5, <2>6, <2>7, <2>8
  <2>10. ASSUME v11' = 0, v12' = 0, v4'[e] < v1'[e] + BurstTail PROVE v2' <= m + 2
    <3>1. /\ v8'[l].at = "idle" => v8'[l].wake + once <= v4'[e] + 2
          /\ v8'[l].at = "save" => v4'[e] = v2' \/ v2' <= v4'[e] + 2
      BY <2>10 DEF Calendar!SwiftWithout, Calendar!At, Calendar!Relists, Calendar!Bursting
    <3> HIDE DEF m, a, once, more
    <3> QED
      BY <2>2, <2>3, <2>5, <2>6, <2>8, <3>1
  <2> HIDE DEF m, a
  <2> QED
    BY <2>4, <2>9, <2>10 DEF m
<1> QED
  BY <1>1 DEF Calendar!IInv, Calendar!CalendarIsKept

\* What a state says of a number that is missing, by the thread.
LEMMA CalendarLate ==
    ASSUME Calendar!IInv, NEW l \in Actors, NEW e \in Calendar!Events, Calendar!Missing(e)
    PROVE  /\ Calendar!Max({v4[e], v9}) \in Nat /\ v4[e] \in Nat /\ v9 \in Nat
           /\ v4[e] <= Calendar!Max({v4[e], v9}) /\ v9 <= Calendar!Max({v4[e], v9})
           /\ v8[l].at = "idle" => v8[l].wake + (IF v8[l].burst # Calendar!Never THEN 1 ELSE 0)
                                     <= Calendar!Max({v4[e], v9}) + Calendar!Allowed(v11)
           /\ v8[l].at = "save" => v2 + (IF v8[l].got[e] = 0 THEN Interval ELSE 0)
                                     <= Calendar!Max({v4[e], v9}) + Calendar!Allowed(v11)
<1>1. v4[e] \in Nat /\ v9 \in Nat
  BY DEF Calendar!IInv, Calendar!FeedTyped, Calendar!Times, Calendar!Missing
<1>2. /\ Calendar!Max({v4[e], v9}) \in Nat
      /\ v4[e] <= Calendar!Max({v4[e], v9}) /\ v9 <= Calendar!Max({v4[e], v9})
  BY <1>1, CalendarMax
<1> QED
  BY <1>1, <1>2 DEF Calendar!IInv, Calendar!LateByFailures, Calendar!At, Calendar!Relists, Calendar!Bursting

\* A step of one thread: what it must show of where the thread gets to.
LEMMA CalendarBecomes ==
    ASSUME Calendar!IInv, NEW l \in Actors, NEW rec \in Calendar!Workers, v8' = [v8 EXCEPT ![l] = rec],
           UNCHANGED <<v1, v2, v3, v4, v6, v7, v9, v12>>, v11' \in {v11, v11 + 1},
           v5' \in [Calendar!Events -> [there : BOOLEAN, actual : Nat, released : Calendar!Times]],
           \A e \in Calendar!Events : v5'[e].actual = 0 => v5[e].actual = 0,
           Calendar!NeverForgotten',
           rec.at = "off" => v7,
           rec.at = "save" => \A e \in Calendar!Events : rec.got[e] > 0 => v4[e] # Calendar!Never,
           rec.at = "idle" => v2 <= rec.wake /\ rec.wake <= v2 + (IF rec.burst # Calendar!Never THEN 1 ELSE Interval),
           \A e \in Calendar!Events : v6 /\ v4[e] # Calendar!Never /\ v5'[e].actual = 0 =>
              /\ rec.at = "idle" => rec.wake + (IF rec.burst # Calendar!Never THEN 1 ELSE 0)
                                      <= Calendar!Max({v4[e], v9}) + Calendar!Allowed(v11')
              /\ rec.at = "save" => v2 + (IF rec.got[e] = 0 THEN Interval ELSE 0)
                                      <= Calendar!Max({v4[e], v9}) + Calendar!Allowed(v11'),
           v11' = 0 /\ v12 = 0 => \A e \in Calendar!Events : v5'[e].actual = 0 =>
              /\ rec.at = "idle" =>
                    IF v4[e] = Calendar!Never THEN rec.wake <= v2 + 1 \/ rec.wake <= v1[e] \/ v2 >= v1[e] + BurstTail
                    ELSE v4[e] < v1[e] + BurstTail => rec.wake + (IF rec.burst # Calendar!Never THEN 1 ELSE 0) <= v4[e] + 2
              /\ rec.at = "save" /\ v4[e] # Calendar!Never =>
                    IF rec.got[e] = 0 THEN v4[e] = v2
                    ELSE v4[e] < v1[e] + BurstTail => v2 <= v4[e] + 2
    PROVE  Calendar!IInv'
<1>1. v8 \in [Actors -> Calendar!Workers] /\ v11 \in Nat /\ Calendar!Events' = Calendar!Events
  BY DEF Calendar!IInv, Calendar!FeedTyped, Calendar!Events
<1>2. v8'[l] = rec /\ (\A k \in Actors \ {l} : v8'[k] = v8[k]) /\ v8' \in [Actors -> Calendar!Workers]
  BY <1>1
<1>3. Calendar!FeedTyped'
  <2>1. v11' \in Nat /\ Calendar!Versions' = Calendar!Versions /\ Calendar!Workers' = Calendar!Workers
    BY <1>1 DEF Calendar!Versions, Calendar!Workers
  <2> QED
    BY <1>1, <1>2, <2>1 DEF Calendar!IInv, Calendar!FeedTyped
<1>4. Calendar!OnIsThere'
  <2>1. v6' => \E k \in Actors : v8'[k].at # "off"
    <3> SUFFICES ASSUME v6 PROVE \E k \in Actors : v8'[k].at # "off"
      OBVIOUS
    <3>1. rec.at # "off"
      BY DEF Calendar!IInv, Calendar!OnIsThere
    <3> QED
      BY <1>2, <3>1
  <2> QED
    BY <2>1 DEF Calendar!IInv, Calendar!OnIsThere, Calendar!At
<1>5. Calendar!PrintedIsShown'
  <2>1. \A k \in Actors, e \in Calendar!Events : v8'[k].at = "save" /\ v8'[k].got[e] > 0 => v4[e] # Calendar!Never
    BY <1>2 DEF Calendar!IInv, Calendar!PrintedIsShown, Calendar!At
  <2> QED
    BY <1>1, <2>1 DEF Calendar!IInv, Calendar!PrintedIsShown, Calendar!At
<1>6. Calendar!NobodyOversleeps'
  BY <1>2 DEF Calendar!IInv, Calendar!NobodyOversleeps, Calendar!At, Calendar!Bursting
<1>7. Calendar!LateByFailures'
  <2> SUFFICES ASSUME NEW k \in Actors, NEW e \in Calendar!Events, v6, v4[e] # Calendar!Never, v5'[e].actual = 0
      PROVE  /\ v8'[k].at = "idle" => v8'[k].wake + (IF v8'[k].burst # Calendar!Never THEN 1 ELSE 0)
                                        <= Calendar!Max({v4[e], v9}) + Calendar!Allowed(v11')
             /\ v8'[k].at = "save" => v2 + (IF v8'[k].got[e] = 0 THEN Interval ELSE 0)
                                        <= Calendar!Max({v4[e], v9}) + Calendar!Allowed(v11')
    BY <1>1 DEF Calendar!LateByFailures, Calendar!Missing, Calendar!At, Calendar!Relists, Calendar!Bursting
  <2>1. CASE k = l
    BY <1>2, <2>1
  <2>2. CASE k # l
    <3>1. Calendar!Missing(e) /\ v8'[k] = v8[k]
      BY <1>2, <2>2 DEF Calendar!Missing
    <3> DEFINE m == Calendar!Max({v4[e], v9})
               a == Calendar!Allowed(v11)
               b == Calendar!Allowed(v11')
               x == v8[k].wake + (IF v8[k].burst # Calendar!Never THEN 1 ELSE 0)
               y == v2 + (IF v8[k].got[e] = 0 THEN Interval ELSE 0)
    <3>2. /\ v8[k].at = "idle" => x <= m + a
          /\ v8[k].at = "save" => y <= m + a
          /\ m \in Nat
      BY <3>1, CalendarLate
    <3>3. a \in Nat /\ b \in Nat /\ a <= b
      BY <1>1, CalendarAllowed, CalendarAssumption
    <3>4. x \in Int /\ y \in Int
      BY <1>1, CalendarAssumption DEF Calendar!Workers, Calendar!IInv, Calendar!FeedTyped
    <3> HIDE DEF m, a, b, x, y
    <3>5. /\ v8[k].at = "idle" => x <= m + b
          /\ v8[k].at = "save" => y <= m + b
      BY <3>2, <3>3, <3>4
    <3> QED
      BY <3>1, <3>5 DEF x, y, m, b
  <2> QED
    BY <2>1, <2>2
<1>8. Calendar!SwiftWithout'
  <2> SUFFICES ASSUME NEW k \in Actors, NEW e \in Calendar!Events, v11' = 0, v12 = 0, v5'[e].actual = 0
      PROVE  /\ v8'[k].at = "idle" =>
                    IF v4[e] = Calendar!Never THEN v8'[k].wake <= v2 + 1 \/ v8'[k].wake <= v1[e] \/ v2 >= v1[e] + BurstTail
                    ELSE v4[e] < v1[e] + BurstTail =>
                           v8'[k].wake + (IF v8'[k].burst # Calendar!Never THEN 1 ELSE 0) <= v4[e] + 2
             /\ v8'[k].at = "save" /\ v4[e] # Calendar!Never =>
                    IF v8'[k].got[e] = 0 THEN v4[e] = v2
                    ELSE v4[e] < v1[e] + BurstTail => v2 <= v4[e] + 2
    BY <1>1 DEF Calendar!SwiftWithout, Calendar!At, Calendar!Relists, Calendar!Bursting
  <2>1. CASE k = l
    BY <1>2, <2>1
  <2>2. CASE k # l
    <3>1. v11 = 0 /\ v5[e].actual = 0 /\ v8'[k] = v8[k]
      BY <1>1, <1>2, <2>2
    <3> QED
      BY <3>1 DEF Calendar!IInv, Calendar!SwiftWithout, Calendar!At, Calendar!Relists, Calendar!Bursting
  <2> QED
    BY <2>1, <2>2
<1> QED
  BY <1>3, <1>4, <1>5, <1>6, <1>7, <1>8, CalendarParts

LEMMA CalendarEnds == ASSUME Calendar!IInv, NEW l \in Actors, Calendar!Ends(l) PROVE Calendar!IInv'
<1>1. /\ v8[l].at = "idle" /\ UNCHANGED <<v1, v2, v3, v4, v5, v6, v7, v9, v11, v12>>
      /\ \/ v7 /\ v8' = [v8 EXCEPT ![l] = Calendar!Gone]
         \/ /\ ~v7 /\ v8[l].burst # Calendar!Never /\ v2 >= v8[l].wake
            /\ v8' = [v8 EXCEPT ![l] = Calendar!Idle(v2 + 1, Calendar!Never)]
  BY DEF Calendar!Ends, Calendar!Goes, Calendar!At, Calendar!Become, Calendar!Bursting
<1>2. /\ Calendar!Nothing \in Calendar!Versions /\ Calendar!Never \in Int /\ v2 \in Nat /\ v8[l].wake \in Nat
      /\ v5 \in [Calendar!Events -> [there : BOOLEAN, actual : Nat, released : Calendar!Times]]
  BY DEF Calendar!Nothing, Calendar!Versions, Calendar!Never, Calendar!IInv, Calendar!FeedTyped, Calendar!Workers
<1>3. Calendar!NeverForgotten'
  BY <1>1 DEF Calendar!IInv, Calendar!CalendarIsKept, Calendar!NeverForgotten, Calendar!Events
<1>4. CASE v7 /\ v8' = [v8 EXCEPT ![l] = Calendar!Gone]
  <2>1. Calendar!Gone \in Calendar!Workers /\ Calendar!Gone.at = "off"
    BY <1>2 DEF Calendar!Gone, Calendar!Worker, Calendar!Workers
  <2> QED
    BY <1>1, <1>2, <1>3, <1>4, <2>1, CalendarBecomes
<1>5. CASE ~v7 /\ v8[l].burst # Calendar!Never /\ v2 >= v8[l].wake
           /\ v8' = [v8 EXCEPT ![l] = Calendar!Idle(v2 + 1, Calendar!Never)]
  <2> DEFINE rec == Calendar!Idle(v2 + 1, Calendar!Never)
  <2>1. rec \in Calendar!Workers /\ rec.at = "idle" /\ rec.wake = v2 + 1 /\ rec.burst = Calendar!Never
    <3>1. v2 + 1 \in Nat /\ "idle" \in {"off", "idle", "save"}
      BY <1>2
    <3> QED
      BY <1>2, <3>1, CalendarWorker DEF Calendar!Idle
  <2> HIDE DEF rec
  <2>2. v8[l].wake = v2
    BY <1>1, <1>2, <1>5 DEF Calendar!IInv, Calendar!NobodyOversleeps, Calendar!At
  <2>3. \A e \in Calendar!Events : v6 /\ v4[e] # Calendar!Never /\ v5[e].actual = 0 =>
           rec.wake <= Calendar!Max({v4[e], v9}) + Calendar!Allowed(v11)
    BY <1>1, <1>5, <2>1, <2>2, CalendarLate DEF Calendar!Missing
  <2>4. v11 = 0 /\ v12 = 0 => \A e \in Calendar!Events :
           v5[e].actual = 0 /\ v4[e] # Calendar!Never /\ v4[e] < v1[e] + BurstTail => rec.wake <= v4[e] + 2
    BY <1>1, <1>5, <2>1, <2>2 DEF Calendar!IInv, Calendar!SwiftWithout, Calendar!At, Calendar!Relists, Calendar!Bursting
  <2>5. v2 <= rec.wake /\ rec.wake <= v2 + Interval
    BY <1>2, <2>1, CalendarAssumption
  <2>6. \A e \in Calendar!Events : v6 /\ v4[e] # Calendar!Never /\ v5[e].actual = 0 =>
           rec.wake + 0 <= Calendar!Max({v4[e], v9}) + Calendar!Allowed(v11)
    BY <1>2, <2>1, <2>3
  <2>7. v11 = 0 /\ v12 = 0 => \A e \in Calendar!Events : v5[e].actual = 0 =>
           IF v4[e] = Calendar!Never THEN rec.wake <= v2 + 1 \/ rec.wake <= v1[e] \/ v2 >= v1[e] + BurstTail
           ELSE v4[e] < v1[e] + BurstTail => rec.wake + 0 <= v4[e] + 2
    BY <1>2, <2>1, <2>4
  <2>8. v8' = [v8 EXCEPT ![l] = rec]
    BY <1>5 DEF rec
  <2> QED
    BY <1>1, <1>2, <1>3, <2>1, <2>5, <2>6, <2>7, <2>8, CalendarBecomes
<1> QED
  BY <1>1, <1>4, <1>5

LEMMA CalendarFetches == ASSUME Calendar!IInv, NEW l \in Actors, Calendar!Fetches(l) PROVE Calendar!IInv'
<1>1. /\ v8[l].at = "idle" /\ ~v7 /\ v8[l].wake <= v2 /\ UNCHANGED <<v1, v2, v3, v4, v5, v6, v7, v9, v12>>
      /\ \/ v8' = [v8 EXCEPT ![l] = Calendar!Worker("save", 0, v8[l].burst, v3)] /\ v11' = v11
         \/ v8' = [v8 EXCEPT ![l] = Calendar!Worker("save", 0, v8[l].burst, Calendar!Nothing)] /\ v11' = v11 + 1
  BY DEF Calendar!Fetches, Calendar!Polls, Calendar!Goes, Calendar!At, Calendar!Become, Calendar!Fault
<1>2. /\ Calendar!Nothing \in Calendar!Versions /\ v3 \in Calendar!Versions /\ v2 \in Nat /\ v11 \in Nat
      /\ v8[l].wake \in Nat /\ v8[l].burst \in Int /\ \A e \in Calendar!Events : Calendar!Nothing[e] = 0
      /\ v5 \in [Calendar!Events -> [there : BOOLEAN, actual : Nat, released : Calendar!Times]]
  BY DEF Calendar!Nothing, Calendar!Versions, Calendar!IInv, Calendar!FeedTyped, Calendar!Workers
<1>3. Calendar!NeverForgotten'
  BY <1>1 DEF Calendar!IInv, Calendar!CalendarIsKept, Calendar!NeverForgotten, Calendar!Events
<1>4. v8[l].wake = v2
  BY <1>1, <1>2 DEF Calendar!IInv, Calendar!NobodyOversleeps, Calendar!At
<1>5. PICK got \in {v3, Calendar!Nothing} :
         /\ v8' = [v8 EXCEPT ![l] = Calendar!Worker("save", 0, v8[l].burst, got)]
         /\ IF got = v3 THEN v11' \in {v11, v11 + 1} ELSE v11' = v11 + 1
  BY <1>1
<1> DEFINE rec == Calendar!Worker("save", 0, v8[l].burst, got)
<1>6. rec \in Calendar!Workers /\ rec.at = "save" /\ rec.got = got
  <2>1. "save" \in {"off", "idle", "save"} /\ 0 \in Nat
    OBVIOUS
  <2>2. got \in Calendar!Versions /\ v8[l].burst \in Int
    BY <1>2
  <2>3. /\ Calendar!Worker("save", 0, v8[l].burst, got) \in Calendar!Workers
        /\ Calendar!Worker("save", 0, v8[l].burst, got).at = "save"
        /\ Calendar!Worker("save", 0, v8[l].burst, got).got = got
    BY ONLY <2>1, <2>2, CalendarWorker
  <2> QED
    BY ONLY <2>3 DEF rec
<1>7. v8' = [v8 EXCEPT ![l] = rec]
  BY <1>5
<1> HIDE DEF rec
<1>8. \A e \in Calendar!Events : got[e] > 0 => v4[e] # Calendar!Never
  BY <1>2 DEF Calendar!IInv, Calendar!PrintedIsShown
<1>9. \A e \in Calendar!Events : got[e] = 0 /\ v4[e] # Calendar!Never => v11' = v11 + 1
  <2> SUFFICES ASSUME NEW e \in Calendar!Events, got[e] = 0, v4[e] # Calendar!Never PROVE v11' = v11 + 1
    OBVIOUS
  <2>1. got # v3
    BY DEF Calendar!IInv, Calendar!PrintedIsShown
  <2> QED
    BY <1>5, <2>1
<1>10. \A e \in Calendar!Events : v6 /\ v4[e] # Calendar!Never /\ v5[e].actual = 0 =>
          v2 + (IF rec.got[e] = 0 THEN Interval ELSE 0) <= Calendar!Max({v4[e], v9}) + Calendar!Allowed(v11')
  <2> SUFFICES ASSUME NEW e \in Calendar!Events, v6, v4[e] # Calendar!Never, v5[e].actual = 0
      PROVE  v2 + (IF got[e] = 0 THEN Interval ELSE 0) <= Calendar!Max({v4[e], v9}) + Calendar!Allowed(v11')
    BY <1>6
  <2> DEFINE m == Calendar!Max({v4[e], v9})
             a == Calendar!Allowed(v11)
             b == Calendar!Allowed(v11')
             once == IF v8[l].burst # Calendar!Never THEN 1 ELSE 0
  <2>1. m \in Nat /\ v8[l].wake + once <= m + a
    BY <1>1, CalendarLate DEF Calendar!Missing
  <2>2. a \in Nat /\ b \in Nat /\ (v11' = v11 => b = a) /\ (v11' = v11 + 1 => b = a + Interval) /\ once \in Nat
    BY <1>1, <1>2, CalendarAllowed
  <2>3. v11' = v11 \/ v11' = v11 + 1
    BY <1>1
  <2>4. Interval \in Nat
    BY CalendarAssumption
  <2> HIDE DEF m, a, b, once
  <2>5. v2 <= m + a
    BY <1>2, <1>4, <2>1, <2>2
  <2>6. CASE got[e] = 0
    <3>1. b = a + Interval
      BY <1>9, <2>2, <2>6
    <3> QED
      BY <1>2, <2>1, <2>2, <2>4, <2>5, <2>6, <3>1 DEF m, b
  <2>7. CASE got[e] # 0
    <3>1. a <= b
      BY <2>2, <2>3, <2>4
    <3> QED
      BY <1>2, <2>1, <2>2, <2>5, <2>7, <3>1 DEF m, b
  <2> QED
    BY <2>6, <2>7
<1>11. v11' = 0 /\ v12 = 0 => \A e \in Calendar!Events : v5[e].actual = 0 /\ v4[e] # Calendar!Never =>
          IF rec.got[e] = 0 THEN v4[e] = v2 ELSE v4[e] < v1[e] + BurstTail => v2 <= v4[e] + 2
  <2> SUFFICES ASSUME v11' = 0, v12 = 0, NEW e \in Calendar!Events, v5[e].actual = 0, v4[e] # Calendar!Never
      PROVE  IF got[e] = 0 THEN v4[e] = v2 ELSE v4[e] < v1[e] + BurstTail => v2 <= v4[e] + 2
    BY <1>6
  <2>1. v11 = 0 /\ got[e] # 0
    BY <1>1, <1>2, <1>9
  <2>2. v4[e] < v1[e] + BurstTail => v8[l].wake + (IF v8[l].burst # Calendar!Never THEN 1 ELSE 0) <= v4[e] + 2
    BY <1>1, <2>1 DEF Calendar!IInv, Calendar!SwiftWithout, Calendar!At, Calendar!Relists, Calendar!Bursting
  <2>3. v4[e] \in Nat
    BY DEF Calendar!IInv, Calendar!FeedTyped, Calendar!Times
  <2> QED
    BY <1>2, <1>4, <2>1, <2>2, <2>3
<1>12. v11' \in {v11, v11 + 1} /\ UNCHANGED <<v1, v2, v3, v4, v5, v6, v7, v9, v12>>
  BY <1>1
<1>13. /\ rec.at = "off" => v7
       /\ rec.at = "idle" => v2 <= rec.wake /\ rec.wake <= v2 + (IF rec.burst # Calendar!Never THEN 1 ELSE Interval)
       /\ rec.at = "save" => \A e \in Calendar!Events : rec.got[e] > 0 => v4[e] # Calendar!Never
  BY <1>6, <1>8
<1> QED
  BY <1>2, <1>3, <1>6, <1>7, <1>10, <1>11, <1>12, <1>13, CalendarBecomes

LEMMA CalendarFetchFails == ASSUME Calendar!IInv, NEW l \in Actors, Calendar!FetchFails(l) PROVE Calendar!IInv'
<1> DEFINE wake == IF v8[l].burst # Calendar!Never THEN v2 + 1 ELSE v2 + Interval
           once == IF v8[l].burst # Calendar!Never THEN 1 ELSE 0
           rec == Calendar!Worker("idle", wake, v8[l].burst, Calendar!Nothing)
<1>1. /\ v8[l].at = "idle" /\ ~v7 /\ v8[l].wake <= v2 /\ UNCHANGED <<v1, v2, v3, v4, v5, v6, v7, v9, v12>>
      /\ v11' = v11 + 1 /\ v8' = [v8 EXCEPT ![l] = rec]
  BY DEF Calendar!FetchFails, Calendar!Polls, Calendar!Goes, Calendar!At, Calendar!Become, Calendar!Fault,
     Calendar!Bursting, Calendar!Idle
<1>2. /\ Calendar!Nothing \in Calendar!Versions /\ v2 \in Nat /\ v11 \in Nat
      /\ v8[l].wake \in Nat /\ v8[l].burst \in Int
      /\ v5 \in [Calendar!Events -> [there : BOOLEAN, actual : Nat, released : Calendar!Times]]
  BY DEF Calendar!Nothing, Calendar!Versions, Calendar!IInv, Calendar!FeedTyped, Calendar!Workers
<1>3. Calendar!NeverForgotten'
  BY <1>1 DEF Calendar!IInv, Calendar!CalendarIsKept, Calendar!NeverForgotten, Calendar!Events
<1>4. v8[l].wake = v2
  BY <1>1, <1>2 DEF Calendar!IInv, Calendar!NobodyOversleeps, Calendar!At
<1>5. wake \in Nat /\ wake >= v2 /\ wake <= v2 + Interval /\ wake + once <= v2 + Interval + once
      /\ (v8[l].burst # Calendar!Never => wake = v2 + 1) /\ once \in {0, 1} /\ Interval \in Nat
  BY <1>2, CalendarAssumption
<1> HIDE DEF wake
<1>6. /\ rec \in Calendar!Workers /\ rec.at = "idle" /\ rec.wake = wake /\ rec.burst = v8[l].burst
  <2>1. "idle" \in {"off", "idle", "save"}
    OBVIOUS
  <2> QED
    BY <1>2, <1>5, <2>1, CalendarWorker
<1> HIDE DEF rec
<1>7. \A e \in Calendar!Events : v6 /\ v4[e] # Calendar!Never /\ v5[e].actual = 0 =>
          rec.wake + (IF rec.burst # Calendar!Never THEN 1 ELSE 0) <= Calendar!Max({v4[e], v9}) + Calendar!Allowed(v11')
  <2> SUFFICES ASSUME NEW e \in Calendar!Events, v6, v4[e] # Calendar!Never, v5[e].actual = 0
      PROVE  wake + once <= Calendar!Max({v4[e], v9}) + Calendar!Allowed(v11')
    BY <1>6
  <2> DEFINE m == Calendar!Max({v4[e], v9})
             a == Calendar!Allowed(v11)
             b == Calendar!Allowed(v11')
  <2>1. m \in Nat /\ v8[l].wake + once <= m + a
    BY <1>1, CalendarLate DEF Calendar!Missing
  <2>2. a \in Nat /\ b = a + Interval
    BY <1>1, <1>2, CalendarAllowed
  <2> HIDE DEF m, a, b, once
  <2>3. v2 + once <= m + a
    BY <1>4, <2>1
  <2>4. wake + once <= m + b
    BY <1>2, <1>5, <2>1, <2>2, <2>3
  <2> QED
    BY <2>4 DEF m, b
<1>8. v11' \in {v11, v11 + 1} /\ v11' # 0 /\ UNCHANGED <<v1, v2, v3, v4, v5, v6, v7, v9, v12>>
  BY <1>1, <1>2
<1>9. /\ rec.at = "off" => v7
      /\ rec.at = "idle" => v2 <= rec.wake /\ rec.wake <= v2 + (IF rec.burst # Calendar!Never THEN 1 ELSE Interval)
  BY <1>2, <1>5, <1>6
<1> QED
  BY <1>1, <1>2, <1>3, <1>6, <1>7, <1>8, <1>9, CalendarBecomes

LEMMA CalendarSaveFails == ASSUME Calendar!IInv, NEW l \in Actors, Calendar!SaveFails(l) PROVE Calendar!IInv'
<1> DEFINE wake == v2 + Interval
           rec == Calendar!Worker("idle", wake, Calendar!Never, Calendar!Nothing)
<1>1. /\ v8[l].at = "save" /\ UNCHANGED <<v1, v2, v3, v4, v5, v6, v7, v9, v12>>
      /\ v11' = v11 + 1 /\ v8' = [v8 EXCEPT ![l] = rec]
  BY DEF Calendar!SaveFails, Calendar!At, Calendar!Become, Calendar!Fault, Calendar!Idle
<1>2. /\ Calendar!Nothing \in Calendar!Versions /\ v2 \in Nat /\ v11 \in Nat /\ Calendar!Never \in Int
      /\ v5 \in [Calendar!Events -> [there : BOOLEAN, actual : Nat, released : Calendar!Times]]
  BY DEF Calendar!Nothing, Calendar!Versions, Calendar!IInv, Calendar!FeedTyped, Calendar!Never
<1>3. Calendar!NeverForgotten'
  BY <1>1 DEF Calendar!IInv, Calendar!CalendarIsKept, Calendar!NeverForgotten, Calendar!Events
<1>4. wake \in Nat /\ wake >= v2 /\ Interval \in Nat
  BY <1>2, CalendarAssumption
<1>5. /\ rec \in Calendar!Workers /\ rec.at = "idle" /\ rec.wake = wake /\ rec.burst = Calendar!Never
  <2>1. "idle" \in {"off", "idle", "save"}
    OBVIOUS
  <2> HIDE DEF wake
  <2> QED
    BY <1>2, <1>4, <2>1, CalendarWorker
<1> HIDE DEF rec
<1>6. \A e \in Calendar!Events : v6 /\ v4[e] # Calendar!Never /\ v5[e].actual = 0 =>
          rec.wake <= Calendar!Max({v4[e], v9}) + Calendar!Allowed(v11')
  <2> SUFFICES ASSUME NEW e \in Calendar!Events, v6, v4[e] # Calendar!Never, v5[e].actual = 0
      PROVE  wake <= Calendar!Max({v4[e], v9}) + Calendar!Allowed(v11')
    BY <1>5
  <2> DEFINE m == Calendar!Max({v4[e], v9})
             a == Calendar!Allowed(v11)
             b == Calendar!Allowed(v11')
             more == IF v8[l].got[e] = 0 THEN Interval ELSE 0
  <2>1. m \in Nat /\ v2 + more <= m + a
    BY <1>1, CalendarLate DEF Calendar!Missing
  <2>2. a \in Nat /\ b = a + Interval /\ more \in Nat
    BY <1>1, <1>2, <1>4, CalendarAllowed
  <2> HIDE DEF m, a, b, more
  <2>3. wake <= m + b
    BY <1>2, <1>4, <2>1, <2>2
  <2> QED
    BY <2>3 DEF m, b
<1>7. \A e \in Calendar!Events : v6 /\ v4[e] # Calendar!Never /\ v5[e].actual = 0 =>
          rec.wake + 0 <= Calendar!Max({v4[e], v9}) + Calendar!Allowed(v11')
  BY <1>4, <1>5, <1>6
<1>8. v11' \in {v11, v11 + 1} /\ v11' # 0 /\ UNCHANGED <<v1, v2, v3, v4, v5, v6, v7, v9, v12>>
  BY <1>1, <1>2
<1>9. rec.at # "off" /\ rec.at # "save" /\ v2 <= rec.wake /\ rec.wake <= v2 + Interval
  BY <1>2, <1>4, <1>5
<1> QED
  BY <1>1, <1>2, <1>3, <1>5, <1>7, <1>8, <1>9, CalendarBecomes

\* How long a listing sleeps.
LEMMA CalendarWake ==
    ASSUME Calendar!IInv, NEW got
    PROVE  /\ Calendar!Wake(got) \in Nat /\ v2 <= Calendar!Wake(got) /\ Calendar!Wake(got) <= v2 + Interval
           /\ \A e \in Calendar!Events : v1[e] > v2 => Calendar!Wake(got) <= v2 + 1 \/ Calendar!Wake(got) <= v1[e]
<1> DEFINE ahead == {v1[e] - v2 : e \in {e \in Calendar!Events : v1[e] > v2}}
           least == Calendar!Min(ahead)
<1>1. /\ v2 \in Nat /\ (\A e \in Calendar!Events : v1[e] \in Nat)
      /\ Interval \in Nat /\ Interval >= 2 /\ BurstLead \in Nat
  BY CalendarAssumption DEF Calendar!IInv, Calendar!FeedTyped
<1>2. Calendar!Wake(got) = v2 + (IF ahead = {} THEN Interval
                                 ELSE Calendar!Min({Interval, Calendar!Max({1, least - BurstLead})}))
  BY DEF Calendar!Wake
<1>3. ahead \in SUBSET Nat
  <2>1. \A e \in Calendar!Events : v1[e] > v2 => v1[e] - v2 \in Nat
    BY <1>1
  <2> QED
    BY <2>1
<1>4. \A e \in Calendar!Events : v1[e] > v2 => v1[e] - v2 \in ahead
  OBVIOUS
<1> HIDE DEF ahead
<1>5. CASE ahead = {}
  <2>1. Calendar!Wake(got) = v2 + Interval /\ \A e \in Calendar!Events : ~(v1[e] > v2)
    BY <1>2, <1>4, <1>5
  <2> QED
    BY <1>1, <2>1
<1>6. CASE ahead # {}
  <2>1. least \in Nat /\ \A n \in ahead : least <= n
    BY <1>3, <1>6, CalendarLeast
  <2> HIDE DEF least
  <2>2. least - BurstLead \in Int /\ 1 \in Int
    BY <1>1, <2>1
  <2>3. Calendar!Max({1, least - BurstLead}) = IF 1 >= least - BurstLead THEN 1 ELSE least - BurstLead
    BY <2>2, CalendarMax
  <2> DEFINE most == Calendar!Max({1, least - BurstLead})
  <2>4. most \in Int /\ most >= 1 /\ (most <= 1 \/ most <= least)
    BY <1>1, <2>1, <2>3
  <2> HIDE DEF most
  <2>5. Calendar!Min({Interval, most}) = IF Interval <= most THEN Interval ELSE most
    BY <1>1, <2>4, CalendarMin
  <2> DEFINE wait == Calendar!Min({Interval, most})
  <2>6. wait \in Nat /\ wait <= Interval /\ (wait <= 1 \/ wait <= least)
    BY <1>1, <2>1, <2>4, <2>5
  <2>7. Calendar!Wake(got) = v2 + wait
    BY <1>2, <1>6 DEF most
  <2> HIDE DEF wait
  <2>8. ASSUME NEW e \in Calendar!Events, v1[e] > v2 PROVE v2 + wait <= v2 + 1 \/ v2 + wait <= v1[e]
    <3>1. least <= v1[e] - v2
      BY <1>4, <2>1, <2>8
    <3> QED
      BY <1>1, <2>1, <2>6, <3>1
  <2> QED
    BY <1>1, <2>6, <2>7, <2>8
<1> QED
  BY <1>5, <1>6

\* What is kept of a number.
LEMMA CalendarMerged ==
    ASSUME Calendar!IInv, NEW l \in Actors, v8[l].at = "save",
           v5' = [e \in Calendar!Events |-> Calendar!Merged(v5[e], v8[l].got[e])], UNCHANGED <<v1, v4>>
    PROVE  /\ v5' \in [Calendar!Events -> [there : BOOLEAN, actual : Nat, released : Calendar!Times]]
           /\ \A e \in Calendar!Events : v5'[e].actual = 0 => v5[e].actual = 0 /\ v8[l].got[e] = 0
           /\ Calendar!NeverForgotten'
<1>1. /\ v2 \in Nat /\ v8[l].got \in Calendar!Versions
      /\ v5 \in [Calendar!Events -> [there : BOOLEAN, actual : Nat, released : Calendar!Times]]
      /\ v4 \in [Calendar!Events -> Calendar!Times]
  BY DEF Calendar!IInv, Calendar!FeedTyped, Calendar!Workers
<1>2. ASSUME NEW e \in Calendar!Events
      PROVE  /\ v5'[e] \in [there : BOOLEAN, actual : Nat, released : Calendar!Times]
             /\ v5'[e].actual = 0 => v5[e].actual = 0 /\ v8[l].got[e] = 0
             /\ v5'[e].released # Calendar!Never => v5'[e].actual > 0 /\ v5'[e].released >= v4[e]
             /\ v5'[e].actual > 0 => v5'[e].released # Calendar!Never /\ v4[e] # Calendar!Never
  <2> DEFINE got == v8[l].got[e]
             actual == IF got > 0 THEN got ELSE v5[e].actual
             released == IF v5[e].released = Calendar!Never /\ got > 0 THEN v2 ELSE v5[e].released
  <2>1. v5'[e] = [there |-> TRUE, actual |-> actual, released |-> released]
    BY DEF Calendar!Merged
  <2>2. /\ got \in Nat /\ v5[e].actual \in Nat /\ v5[e].released \in Calendar!Times
        /\ v4[e] \in Nat \cup {Calendar!Never}
    BY <1>1 DEF Calendar!Versions, Calendar!Times
  <2>3. /\ v5[e].released # Calendar!Never => v5[e].actual > 0 /\ v5[e].released >= v4[e]
        /\ v5[e].actual > 0 => v5[e].released # Calendar!Never /\ v4[e] # Calendar!Never
        /\ got > 0 => v4[e] # Calendar!Never
        /\ v4[e] # Calendar!Never => v4[e] <= v2
    BY DEF Calendar!IInv, Calendar!CalendarIsKept, Calendar!NeverForgotten, Calendar!PrintedIsShown, Calendar!At
  <2>4. v2 # Calendar!Never
    BY <1>1 DEF Calendar!Never
  <2>5. /\ actual \in Nat /\ released \in Calendar!Times
        /\ actual = 0 => v5[e].actual = 0 /\ got = 0
        /\ released # Calendar!Never => actual > 0 /\ released >= v4[e]
        /\ actual > 0 => released # Calendar!Never /\ v4[e] # Calendar!Never
    BY <1>1, <2>2, <2>3, <2>4 DEF Calendar!Times
  <2> HIDE DEF actual, released
  <2>6. /\ v5'[e].actual = actual /\ v5'[e].released = released
        /\ v5'[e] \in [there : BOOLEAN, actual : Nat, released : Calendar!Times]
    <3>1. \A x \in Nat, y \in Calendar!Times :
             [there |-> TRUE, actual |-> x, released |-> y] \in [there : BOOLEAN, actual : Nat, released : Calendar!Times]
      OBVIOUS
    <3>2. v5'[e] \in [there : BOOLEAN, actual : Nat, released : Calendar!Times]
      BY <2>1, <2>5, <3>1
    <3> QED
      BY <2>1, <3>2
  <2> QED
    BY <2>5, <2>6
<1>3. v5' \in [Calendar!Events -> [there : BOOLEAN, actual : Nat, released : Calendar!Times]]
  <2>1. v5' = [e \in Calendar!Events |-> v5'[e]]
    OBVIOUS
  <2> QED
    BY <1>2, <2>1
<1>4. Calendar!NeverForgotten'
  BY <1>2 DEF Calendar!NeverForgotten, Calendar!Events
<1> QED
  BY <1>2, <1>3, <1>4

LEMMA CalendarSaves == ASSUME Calendar!IInv, NEW l \in Actors, Calendar!Saves(l) PROVE Calendar!IInv'
<1> DEFINE got == v8[l].got
           soon == Calendar!Imminent(got)
           starts == {v1[e] : e \in soon}
<1>1. /\ v8[l].at = "save" /\ UNCHANGED <<v1, v2, v3, v4, v6, v7, v9, v11, v12>>
      /\ v5' = [e \in Calendar!Events |-> Calendar!Merged(v5[e], got[e])]
      /\ v8' = [v8 EXCEPT ![l] =
                  IF v8[l].burst # Calendar!Never
                  THEN IF \A e \in Calendar!Events : v1[e] = v8[l].burst => got[e] > 0
                       THEN Calendar!Idle(v2 + 1, Calendar!Never)
                       ELSE Calendar!Idle(v2 + 1, v8[l].burst)
                  ELSE IF soon # {} THEN Calendar!Idle(v2, Calendar!Min(starts))
                  ELSE Calendar!Idle(Calendar!Wake(got), Calendar!Never)]
  BY DEF Calendar!Saves, Calendar!At, Calendar!Become, Calendar!Bursting
<1>2. /\ Calendar!Nothing \in Calendar!Versions /\ v2 \in Nat /\ v11 \in Nat /\ Calendar!Never \in Int
      /\ v8[l].burst \in Int /\ got \in Calendar!Versions /\ (\A e \in Calendar!Events : v1[e] \in Nat)
      /\ v4 \in [Calendar!Events -> Calendar!Times]
  BY DEF Calendar!Nothing, Calendar!Versions, Calendar!IInv, Calendar!FeedTyped, Calendar!Workers, Calendar!Never
<1>3. /\ v5' \in [Calendar!Events -> [there : BOOLEAN, actual : Nat, released : Calendar!Times]]
      /\ \A e \in Calendar!Events : v5'[e].actual = 0 => v5[e].actual = 0 /\ got[e] = 0
      /\ Calendar!NeverForgotten'
  BY <1>1, CalendarMerged
<1>4. Interval \in Nat /\ Interval >= 2 /\ BurstLead \in Nat /\ BurstTail \in Nat
  BY CalendarAssumption
<1>5. \A e \in Calendar!Events : v6 /\ v4[e] # Calendar!Never /\ v5'[e].actual = 0 =>
         /\ v2 + Interval <= Calendar!Max({v4[e], v9}) + Calendar!Allowed(v11)
         /\ Calendar!Max({v4[e], v9}) \in Nat /\ Calendar!Allowed(v11) \in Nat
  <2> SUFFICES ASSUME NEW e \in Calendar!Events, v6, v4[e] # Calendar!Never, v5'[e].actual = 0
      PROVE  /\ v2 + Interval <= Calendar!Max({v4[e], v9}) + Calendar!Allowed(v11)
             /\ Calendar!Max({v4[e], v9}) \in Nat /\ Calendar!Allowed(v11) \in Nat
    OBVIOUS
  <2>1. Calendar!Missing(e) /\ got[e] = 0
    BY <1>3 DEF Calendar!Missing
  <2>2. Calendar!Allowed(v11) \in Nat
    BY <1>2, CalendarAllowed
  <2> QED
    BY <1>1, <2>1, <2>2, CalendarLate
<1>6. v11 = 0 /\ v12 = 0 => \A e \in Calendar!Events :
         v5'[e].actual = 0 /\ v4[e] # Calendar!Never => v4[e] = v2 /\ v1[e] <= v4[e]
  BY <1>1, <1>3 DEF Calendar!IInv, Calendar!SwiftWithout, Calendar!At, Calendar!PrintedIsShown
\* Where the thread gets to: it sleeps no longer than until the next listing is due.
<1>7. ASSUME NEW wake \in Nat, NEW burst \in Int, v2 <= wake,
             wake <= v2 + (IF burst # Calendar!Never THEN 1 ELSE Interval),
             v8' = [v8 EXCEPT ![l] = Calendar!Idle(wake, burst)],
             \/ wake <= v2 + 1
             \/ /\ \A e \in Calendar!Events : got[e] = 0 /\ v4[e] # Calendar!Never => ~(v4[e] = v2 /\ v4[e] < v1[e] + BurstTail)
                /\ \A e \in Calendar!Events : got[e] = 0 => wake <= v2 + 1 \/ wake <= v1[e] \/ v2 >= v1[e] + BurstTail
      PROVE  Calendar!IInv'
  <2> DEFINE rec == Calendar!Idle(wake, burst)
             once == IF burst # Calendar!Never THEN 1 ELSE 0
  <2>1. rec \in Calendar!Workers /\ rec.at = "idle" /\ rec.wake = wake /\ rec.burst = burst
    <3>1. "idle" \in {"off", "idle", "save"}
      OBVIOUS
    <3>2. rec = Calendar!Worker("idle", wake, burst, Calendar!Nothing)
      BY DEF Calendar!Idle
    <3>3. wake \in Nat /\ burst \in Int
      BY <1>7
    <3> HIDE DEF rec
    <3>4. /\ Calendar!Worker("idle", wake, burst, Calendar!Nothing) \in Calendar!Workers
          /\ Calendar!Worker("idle", wake, burst, Calendar!Nothing).at = "idle"
          /\ Calendar!Worker("idle", wake, burst, Calendar!Nothing).wake = wake
          /\ Calendar!Worker("idle", wake, burst, Calendar!Nothing).burst = burst
      BY <1>2, <3>1, <3>3, CalendarWorker
    <3> QED
      BY <3>2, <3>4
  <2>2. v8' = [v8 EXCEPT ![l] = rec]
    BY <1>7
  <2> HIDE DEF rec
  <2>3. once \in {0, 1} /\ (once = 1 => wake <= v2 + 1) /\ (once = 0 => wake <= v2 + Interval)
    BY <1>7
  <2>4. wake + once <= v2 + Interval
    <3> HIDE DEF once
    <3> QED
      BY <1>2, <1>4, <2>3
  <2>5. \A e \in Calendar!Events : v6 /\ v4[e] # Calendar!Never /\ v5'[e].actual = 0 =>
           rec.wake + (IF rec.burst # Calendar!Never THEN 1 ELSE 0) <= Calendar!Max({v4[e], v9}) + Calendar!Allowed(v11)
    <3> SUFFICES ASSUME NEW e \in Calendar!Events, v6, v4[e] # Calendar!Never, v5'[e].actual = 0
        PROVE  wake + once <= Calendar!Max({v4[e], v9}) + Calendar!Allowed(v11)
      BY <2>1
    <3> DEFINE m == Calendar!Max({v4[e], v9})
               a == Calendar!Allowed(v11)
    <3>1. v2 + Interval <= m + a /\ m \in Nat /\ a \in Nat
      BY <1>5
    <3> HIDE DEF once, m, a
    <3>2. wake + once <= m + a
      BY <1>2, <1>4, <2>3, <2>4, <3>1
    <3> QED
      BY <3>2 DEF m, a
  <2>6. v11 = 0 /\ v12 = 0 => \A e \in Calendar!Events : v5'[e].actual = 0 =>
           IF v4[e] = Calendar!Never THEN rec.wake <= v2 + 1 \/ rec.wake <= v1[e] \/ v2 >= v1[e] + BurstTail
           ELSE v4[e] < v1[e] + BurstTail => rec.wake + (IF rec.burst # Calendar!Never THEN 1 ELSE 0) <= v4[e] + 2
    <3> SUFFICES ASSUME v11 = 0, v12 = 0, NEW e \in Calendar!Events, v5'[e].actual = 0
        PROVE  IF v4[e] = Calendar!Never THEN wake <= v2 + 1 \/ wake <= v1[e] \/ v2 >= v1[e] + BurstTail
               ELSE v4[e] < v1[e] + BurstTail => wake + once <= v4[e] + 2
      BY <2>1
    <3>1. got[e] = 0 /\ (v4[e] # Calendar!Never => v4[e] = v2)
      BY <1>3, <1>6
    <3>2. CASE v4[e] = Calendar!Never
      BY <1>7, <3>1, <3>2
    <3>3. CASE v4[e] # Calendar!Never
      <4> SUFFICES ASSUME v4[e] < v1[e] + BurstTail PROVE wake + once <= v4[e] + 2
        BY <3>3
      <4>1. wake <= v2 + 1 /\ v4[e] = v2
        BY <1>7, <3>1, <3>3
      <4> HIDE DEF once
      <4> QED
        BY <1>2, <2>3, <4>1
    <3> QED
      BY <3>2, <3>3
  <2>7. v11' \in {v11, v11 + 1} /\ v11' = v11 /\ UNCHANGED <<v1, v2, v3, v4, v6, v7, v9, v12>>
    BY <1>1
  <2>8. /\ rec.at # "off" /\ rec.at # "save" /\ v2 <= rec.wake
        /\ rec.wake <= v2 + (IF rec.burst # Calendar!Never THEN 1 ELSE Interval)
    BY <1>7, <2>1
  <2> QED
    BY <1>3, <2>1, <2>2, <2>5, <2>6, <2>7, <2>8, CalendarBecomes
<1>8. CASE v8[l].burst # Calendar!Never
  <2>1. v2 + 1 \in Nat /\ v2 <= v2 + 1 /\ v2 + 1 <= v2 + 1 /\ v2 + 1 <= v2 + Interval
    BY <1>2, <1>4
  <2>2. PICK burst \in {Calendar!Never, v8[l].burst} : v8' = [v8 EXCEPT ![l] = Calendar!Idle(v2 + 1, burst)]
    BY <1>1, <1>8
  <2> QED
    BY <1>2, <1>7, <2>1, <2>2
<1>9. CASE v8[l].burst = Calendar!Never /\ soon # {}
  <2>1. starts \in SUBSET Nat
    BY <1>2 DEF Calendar!Imminent
  <2>2. PICK e \in soon : v1[e] \in starts
    BY <1>9
  <2>3. Calendar!Min(starts) \in Nat
    BY <2>1, <2>2, CalendarLeast
  <2>4. v8' = [v8 EXCEPT ![l] = Calendar!Idle(v2, Calendar!Min(starts))]
    BY <1>1, <1>9
  <2> DEFINE burst == Calendar!Min(starts)
  <2>5. burst \in Int /\ v8' = [v8 EXCEPT ![l] = Calendar!Idle(v2, burst)]
    BY <2>3, <2>4
  <2> HIDE DEF burst
  <2>6. v2 <= v2 /\ v2 <= v2 + (IF burst # Calendar!Never THEN 1 ELSE Interval) /\ v2 <= v2 + 1
    BY <1>2, <1>4
  <2> QED
    BY <1>2, <1>7, <2>5, <2>6
<1>10. CASE v8[l].burst = Calendar!Never /\ soon = {}
  <2> DEFINE wake == Calendar!Wake(got)
  <2>1. v8' = [v8 EXCEPT ![l] = Calendar!Idle(wake, Calendar!Never)]
    BY <1>1, <1>10
  <2>2. /\ wake \in Nat /\ v2 <= wake /\ wake <= v2 + Interval
        /\ \A e \in Calendar!Events : v1[e] > v2 => wake <= v2 + 1 \/ wake <= v1[e]
    BY CalendarWake
  <2> HIDE DEF wake
  <2>3. \A e \in Calendar!Events : got[e] = 0 => v1[e] - v2 \notin (-BurstTail)..BurstLead
    BY <1>10 DEF Calendar!Imminent
  <2>4. \A e \in Calendar!Events : got[e] = 0 => v1[e] - v2 > BurstLead \/ v1[e] - v2 < -BurstTail
    BY <1>2, <1>4, <2>3
  <2>5. ASSUME NEW e \in Calendar!Events, got[e] = 0
        PROVE  /\ wake <= v2 + 1 \/ wake <= v1[e] \/ v2 >= v1[e] + BurstTail
               /\ v4[e] # Calendar!Never => ~(v4[e] = v2 /\ v4[e] < v1[e] + BurstTail)
    <3>1. v4[e] # Calendar!Never => v1[e] <= v4[e]
      BY DEF Calendar!IInv, Calendar!PrintedIsShown
    <3>2. v1[e] > v2 \/ v2 >= v1[e] + BurstTail
      BY <1>2, <1>4, <2>4, <2>5
    <3>3. v1[e] - v2 > BurstLead \/ v1[e] - v2 < -BurstTail
      BY <2>4, <2>5
    <3>4. ASSUME v4[e] # Calendar!Never, v4[e] = v2, v4[e] < v1[e] + BurstTail PROVE FALSE
      BY <1>2, <1>4, <3>1, <3>3, <3>4
    <3> QED
      BY <2>2, <3>2, <3>4
  <2> QED
    BY <1>2, <1>7, <2>1, <2>2, <2>5
<1> QED
  BY <1>8, <1>9, <1>10

LEMMA CalendarStarts == ASSUME Calendar!IInv, Calendar!Starts PROVE Calendar!IInv'
<1>1. PICK l \in Actors : /\ v8[l].at = "off"
         /\ v8' = [k \in Actors |-> IF k = l THEN Calendar!Idle(v2, Calendar!Never)
                                    ELSE IF v8[k].at = "idle" THEN Calendar!Idle(v2, v8[k].burst) ELSE v8[k]]
  BY DEF Calendar!Starts, Calendar!At
<1>2. ~v6 /\ v6' = TRUE /\ v7' = FALSE /\ v9' = v2 /\ UNCHANGED <<v1, v2, v3, v4, v5, v11, v12>>
  BY DEF Calendar!Starts
<1>3. /\ Calendar!Nothing \in Calendar!Versions /\ v2 \in Nat /\ v11 \in Nat /\ Calendar!Never \in Int
      /\ v8 \in [Actors -> Calendar!Workers] /\ v4 \in [Calendar!Events -> Calendar!Times] /\ v12 \in Nat
  BY DEF Calendar!Nothing, Calendar!Versions, Calendar!IInv, Calendar!FeedTyped, Calendar!Never
<1>4. v12 > 0 /\ Interval \in Nat /\ Interval >= 2
  BY <1>2, CalendarAssumption DEF Calendar!IInv, Calendar!OnIsThere, Calendar!FeedTyped
<1>5. ASSUME NEW k \in Actors
      PROVE  /\ v8'[k] \in Calendar!Workers /\ v8'[k].at \in {"off", "idle", "save"}
             /\ v8'[k].at = "idle" => v8'[k].wake = v2
             /\ v8'[k].at # "idle" => v8'[k] = v8[k]
  <2>1. v8[k].burst \in Int /\ "idle" \in {"off", "idle", "save"}
    BY <1>3 DEF Calendar!Workers
  <2>2. \A b \in Int : Calendar!Idle(v2, b) \in Calendar!Workers /\ Calendar!Idle(v2, b).at = "idle" /\ Calendar!Idle(v2, b).wake = v2
    BY <1>3, <2>1, CalendarWorker DEF Calendar!Idle
  <2>3. (\E b \in Int : v8'[k] = Calendar!Idle(v2, b)) \/ (v8[k].at # "idle" /\ v8'[k] = v8[k])
    BY <1>1, <1>3, <2>1
  <2> QED
    BY <1>3, <2>2, <2>3 DEF Calendar!Workers
<1>6. v8'[l].at = "idle"
  BY <1>1 DEF Calendar!Idle, Calendar!Worker
<1>7. Calendar!FeedTyped'
  <2>1. Calendar!Events' = Calendar!Events /\ Calendar!Versions' = Calendar!Versions /\ Calendar!Workers' = Calendar!Workers
    BY <1>2 DEF Calendar!Events, Calendar!Versions, Calendar!Workers
  <2>2. v8' \in [Actors -> Calendar!Workers]
    BY <1>1, <1>5
  <2>3. v9' \in 0..v2'
    BY <1>2, <1>3
  <2> QED
    BY <1>2, <2>1, <2>2, <2>3 DEF Calendar!IInv, Calendar!FeedTyped
<1>8. Calendar!OnIsThere'
  BY <1>2, <1>6 DEF Calendar!OnIsThere, Calendar!At
<1>9. Calendar!PrintedIsShown'
  BY <1>2, <1>5 DEF Calendar!IInv, Calendar!PrintedIsShown, Calendar!At, Calendar!Events
<1>10. Calendar!NobodyOversleeps'
  <2>1. v2 <= v2 /\ v2 <= v2 + 1 /\ v2 <= v2 + Interval
    BY <1>3, <1>4
  <2> QED
    BY <1>2, <1>5, <2>1 DEF Calendar!NobodyOversleeps, Calendar!At
<1>11. Calendar!LateByFailures'
  <2> SUFFICES ASSUME NEW k \in Actors, NEW e \in Calendar!Events, v4[e] # Calendar!Never
      PROVE  /\ v8'[k].at = "idle" => v2 + (IF v8'[k].burst # Calendar!Never THEN 1 ELSE 0)
                                        <= Calendar!Max({v4[e], v2}) + Calendar!Allowed(v11)
             /\ v8'[k].at = "save" => v2 + (IF v8'[k].got[e] = 0 THEN Interval ELSE 0)
                                        <= Calendar!Max({v4[e], v2}) + Calendar!Allowed(v11)
    BY <1>2, <1>5 DEF Calendar!LateByFailures, Calendar!Missing, Calendar!At, Calendar!Relists, Calendar!Bursting, Calendar!Events
  <2> DEFINE m == Calendar!Max({v4[e], v2})
             a == Calendar!Allowed(v11)
             x == IF v8'[k].burst # Calendar!Never THEN 1 ELSE 0
             y == IF v8'[k].got[e] = 0 THEN Interval ELSE 0
  <2>1. v4[e] \in Nat
    BY <1>3 DEF Calendar!Times
  <2>2. m \in Nat /\ m >= v2
    BY <1>3, <2>1, CalendarMax
  <2>3. a \in Nat /\ a >= Interval
    BY <1>3, CalendarAllowed
  <2>4. x \in Nat /\ x <= Interval /\ y \in Nat /\ y <= Interval
    BY <1>4
  <2> HIDE DEF m, a, x, y
  <2>5. v2 + x <= m + a /\ v2 + y <= m + a
    BY <1>3, <1>4, <2>2, <2>3, <2>4
  <2> QED
    BY <2>5 DEF m, a, x, y
<1>12. Calendar!SwiftWithout'
  BY <1>2, <1>4 DEF Calendar!SwiftWithout
<1>13. Calendar!NeverForgotten'
  BY <1>2 DEF Calendar!IInv, Calendar!CalendarIsKept, Calendar!NeverForgotten, Calendar!Events
<1> QED
  BY <1>7, <1>8, <1>9, <1>10, <1>11, <1>12, <1>13, CalendarParts

LEMMA CalendarStops == ASSUME Calendar!IInv, Calendar!Stops PROVE Calendar!IInv'
<1>1. v6 /\ v7' = TRUE /\ v6' = FALSE /\ v12' = v12 + 1 /\ UNCHANGED <<v1, v2, v3, v4, v5, v8, v9, v11>>
  BY DEF Calendar!Stops
<1>2. v12 \in Nat
  BY DEF Calendar!IInv, Calendar!FeedTyped
<1>3. Calendar!FeedTyped'
  <2>1. Calendar!Events' = Calendar!Events /\ Calendar!Versions' = Calendar!Versions /\ Calendar!Workers' = Calendar!Workers
    BY <1>1 DEF Calendar!Events, Calendar!Versions, Calendar!Workers
  <2> QED
    BY <1>1, <1>2, <2>1 DEF Calendar!IInv, Calendar!FeedTyped
<1>4. Calendar!OnIsThere'
  BY <1>1, <1>2 DEF Calendar!OnIsThere
<1>5. Calendar!PrintedIsShown'
  BY <1>1 DEF Calendar!IInv, Calendar!PrintedIsShown, Calendar!At, Calendar!Events
<1>6. Calendar!NobodyOversleeps'
  BY <1>1 DEF Calendar!IInv, Calendar!NobodyOversleeps, Calendar!At, Calendar!Bursting
<1>7. Calendar!LateByFailures'
  BY <1>1 DEF Calendar!LateByFailures, Calendar!Missing
<1>8. Calendar!SwiftWithout'
  BY <1>1, <1>2 DEF Calendar!SwiftWithout
<1>9. Calendar!NeverForgotten'
  BY <1>1 DEF Calendar!IInv, Calendar!CalendarIsKept, Calendar!NeverForgotten, Calendar!Events
<1> QED
  BY <1>3, <1>4, <1>5, <1>6, <1>7, <1>8, <1>9, CalendarParts

LEMMA CalendarPrints == ASSUME Calendar!IInv, NEW e \in Calendar!Events, Calendar!Prints(e) PROVE Calendar!IInv'
<1>1. /\ v2 >= v1[e] /\ UNCHANGED <<v1, v2, v5, v6, v7, v8, v9, v11, v12>>
      /\ v3' = [v3 EXCEPT ![e] = v3[e] + 1]
      /\ v4' = [v4 EXCEPT ![e] = IF v4[e] = Calendar!Never THEN v2 ELSE v4[e]]
  BY DEF Calendar!Prints
<1>2. /\ v2 \in Nat /\ v9 \in 0..v2 /\ v11 \in Nat /\ v3 \in Calendar!Versions /\ Calendar!Events' = Calendar!Events
      /\ v4 \in [Calendar!Events -> Calendar!Times] /\ v8 \in [Actors -> Calendar!Workers] /\ v1[e] \in Nat
  BY <1>1 DEF Calendar!IInv, Calendar!FeedTyped, Calendar!Events
<1>3. Calendar!Versions' = Calendar!Versions /\ Calendar!Workers' = Calendar!Workers
  BY <1>2 DEF Calendar!Versions, Calendar!Workers
<1>4. \A d \in Calendar!Events : v3[d] \in Nat
  BY <1>2 DEF Calendar!Versions
<1>5. Interval \in Nat /\ Interval >= 2 /\ v2 # Calendar!Never
  BY <1>2, CalendarAssumption DEF Calendar!Never
\* Every number but this one is as it was; this one is too, or it is just printed.
<1>6. ASSUME NEW d \in Calendar!Events
      PROVE  \/ v4'[d] = v4[d] /\ (d = e => v4[e] # Calendar!Never)
             \/ d = e /\ v4[e] = Calendar!Never /\ v4'[e] = v2
  BY <1>1, <1>2
<1>7. Calendar!FeedTyped'
  <2>1. v3' \in Calendar!Versions
    BY <1>1, <1>2, <1>4 DEF Calendar!Versions
  <2>2. v4' \in [Calendar!Events -> Calendar!Times]
    BY <1>1, <1>2 DEF Calendar!Times
  <2> QED
    BY <1>1, <1>2, <1>3, <2>1, <2>2 DEF Calendar!IInv, Calendar!FeedTyped
<1>8. Calendar!OnIsThere'
  BY <1>1 DEF Calendar!IInv, Calendar!OnIsThere, Calendar!At
<1>9. Calendar!PrintedIsShown'
  <2>1. ASSUME NEW d \in Calendar!Events
        PROVE  /\ v3'[d] > 0 <=> v4'[d] # Calendar!Never
               /\ v4'[d] # Calendar!Never => v1[d] <= v4'[d] /\ v4'[d] <= v2
               /\ v4[d] # Calendar!Never => v4'[d] # Calendar!Never
    <3>1. /\ v3[d] > 0 <=> v4[d] # Calendar!Never
          /\ v4[d] # Calendar!Never => v1[d] <= v4[d] /\ v4[d] <= v2
      BY DEF Calendar!IInv, Calendar!PrintedIsShown
    <3>2. (d = e => v3'[d] = v3[d] + 1) /\ (d # e => v3'[d] = v3[d])
      BY <1>1, <1>2 DEF Calendar!Versions
    <3> QED
      BY <1>1, <1>2, <1>4, <1>5, <1>6, <3>1, <3>2
  <2>2. \A k \in Actors, d \in Calendar!Events : v8[k].at = "save" /\ v8[k].got[d] > 0 => v4'[d] # Calendar!Never
    BY <2>1 DEF Calendar!IInv, Calendar!PrintedIsShown, Calendar!At
  <2> QED
    BY <1>1, <1>2, <2>1, <2>2 DEF Calendar!PrintedIsShown, Calendar!At
<1>10. Calendar!NobodyOversleeps'
  BY <1>1 DEF Calendar!IInv, Calendar!NobodyOversleeps, Calendar!At, Calendar!Bursting
\* In hand, a number not printed yet is not there.
<1>11. v4[e] = Calendar!Never => \A k \in Actors : v8[k].at = "save" => v8[k].got[e] = 0
  <2> SUFFICES ASSUME v4[e] = Calendar!Never, NEW k \in Actors, v8[k].at = "save" PROVE v8[k].got[e] = 0
    OBVIOUS
  <2>1. v8[k].got[e] \in Nat
    BY <1>2 DEF Calendar!Workers, Calendar!Versions
  <2>2. ~(v8[k].got[e] > 0)
    BY DEF Calendar!IInv, Calendar!PrintedIsShown, Calendar!At
  <2> QED
    BY <2>1, <2>2
<1>12. ASSUME NEW k \in Actors, v8[k].at = "idle"
       PROVE  /\ v8[k].wake \in Nat /\ v8[k].wake + (IF v8[k].burst # Calendar!Never THEN 1 ELSE 0) <= v2 + Interval
              /\ v8[k].burst # Calendar!Never => v8[k].wake <= v2 + 1
  <2>1. v8[k].wake \in Nat
    BY <1>2 DEF Calendar!Workers
  <2>2. v8[k].wake <= v2 + (IF v8[k].burst # Calendar!Never THEN 1 ELSE Interval)
    BY <1>12 DEF Calendar!IInv, Calendar!NobodyOversleeps, Calendar!At, Calendar!Bursting
  <2> QED
    BY <1>2, <1>5, <2>1, <2>2
<1>13. Calendar!LateByFailures'
  <2> SUFFICES ASSUME NEW k \in Actors, NEW d \in Calendar!Events, v6, v4'[d] # Calendar!Never, v5[d].actual = 0
      PROVE  /\ v8[k].at = "idle" => v8[k].wake + (IF v8[k].burst # Calendar!Never THEN 1 ELSE 0)
                                       <= Calendar!Max({v4'[d], v9}) + Calendar!Allowed(v11)
             /\ v8[k].at = "save" => v2 + (IF v8[k].got[d] = 0 THEN Interval ELSE 0)
                                       <= Calendar!Max({v4'[d], v9}) + Calendar!Allowed(v11)
    BY <1>1, <1>2 DEF Calendar!LateByFailures, Calendar!Missing, Calendar!At, Calendar!Relists, Calendar!Bursting
  <2>1. CASE v4'[d] = v4[d]
    <3>1. Calendar!Missing(d)
      BY <2>1 DEF Calendar!Missing
    <3> QED
      BY <2>1, <3>1, CalendarLate
  <2>2. CASE d = e /\ v4[e] = Calendar!Never /\ v4'[e] = v2
    <3> DEFINE m == Calendar!Max({v2, v9})
               a == Calendar!Allowed(v11)
               x == v8[k].wake + (IF v8[k].burst # Calendar!Never THEN 1 ELSE 0)
               y == IF v8[k].got[e] = 0 THEN Interval ELSE 0
    <3>1. m \in Nat /\ m >= v2
      BY <1>2, CalendarMax
    <3>2. a \in Nat /\ a >= Interval
      BY <1>2, CalendarAllowed
    <3>3. (v8[k].at = "idle" => x \in Nat /\ x <= v2 + Interval) /\ y \in Nat /\ y <= Interval
      BY <1>5, <1>12
    <3> HIDE DEF m, a, x, y
    <3>4. (v8[k].at = "idle" => x <= m + a) /\ v2 + y <= m + a
      BY <1>2, <1>5, <3>1, <3>2, <3>3
    <3> QED
      BY <2>2, <3>4 DEF m, a, x, y
  <2> QED
    BY <1>6, <2>1, <2>2
<1>14. Calendar!SwiftWithout'
  <2> SUFFICES ASSUME NEW k \in Actors, NEW d \in Calendar!Events, v11 = 0, v12 = 0, v5[d].actual = 0
      PROVE  /\ v8[k].at = "idle" =>
                    IF v4'[d] = Calendar!Never THEN v8[k].wake <= v2 + 1 \/ v8[k].wake <= v1[d] \/ v2 >= v1[d] + BurstTail
                    ELSE v4'[d] < v1[d] + BurstTail =>
                           v8[k].wake + (IF v8[k].burst # Calendar!Never THEN 1 ELSE 0) <= v4'[d] + 2
             /\ v8[k].at = "save" /\ v4'[d] # Calendar!Never =>
                    IF v8[k].got[d] = 0 THEN v4'[d] = v2
                    ELSE v4'[d] < v1[d] + BurstTail => v2 <= v4'[d] + 2
    BY <1>1, <1>2 DEF Calendar!SwiftWithout, Calendar!At, Calendar!Relists, Calendar!Bursting
  <2>1. CASE v4'[d] = v4[d]
    BY <2>1 DEF Calendar!IInv, Calendar!SwiftWithout, Calendar!At, Calendar!Relists, Calendar!Bursting
  <2>2. CASE d = e /\ v4[e] = Calendar!Never /\ v4'[e] = v2
    <3>1. v8[k].at = "save" => v8[k].got[e] = 0
      BY <1>11, <2>2
    <3>2. ASSUME v8[k].at = "idle", v2 < v1[e] + BurstTail
          PROVE  v8[k].wake + (IF v8[k].burst # Calendar!Never THEN 1 ELSE 0) <= v2 + 2
      <4>1. v8[k].wake <= v2 + 1 \/ v8[k].wake <= v1[e] \/ v2 >= v1[e] + BurstTail
        BY <2>2, <3>2 DEF Calendar!IInv, Calendar!SwiftWithout, Calendar!At
      <4>2. v1[e] + BurstTail \in Nat
        BY <1>2, CalendarAssumption
      <4>3. v8[k].wake <= v2 + 1 /\ v8[k].wake \in Nat
        BY <1>1, <1>2, <1>12, <3>2, <4>1, <4>2
      <4> QED
        BY <1>2, <4>3
    <3> QED
      BY <1>5, <2>2, <3>1, <3>2
  <2> QED
    BY <1>6, <2>1, <2>2
<1>15. Calendar!NeverForgotten'
  <2>1. ASSUME NEW d \in Calendar!Events
        PROVE  /\ v5[d].released # Calendar!Never => v5[d].actual > 0 /\ v5[d].released >= v4'[d]
               /\ v5[d].actual > 0 => v5[d].released # Calendar!Never /\ v4'[d] # Calendar!Never
    <3>1. /\ v5[d].released # Calendar!Never => v5[d].actual > 0 /\ v5[d].released >= v4[d]
          /\ v5[d].actual > 0 => v5[d].released # Calendar!Never /\ v4[d] # Calendar!Never
      BY DEF Calendar!IInv, Calendar!CalendarIsKept, Calendar!NeverForgotten
    <3> QED
      BY <1>6, <3>1
  <2> QED
    BY <1>1, <1>2, <2>1 DEF Calendar!NeverForgotten
<1> QED
  BY <1>7, <1>8, <1>9, <1>10, <1>13, <1>14, <1>15, CalendarParts

LEMMA CalendarTick == ASSUME Calendar!IInv, Calendar!Tick PROVE Calendar!IInv'
<1>1. v2' = v2 + 1 /\ UNCHANGED <<v1, v3, v4, v5, v6, v7, v8, v9, v12>>
  BY DEF Calendar!Tick
<1>2. /\ v2 \in Nat /\ v9 \in 0..v2 /\ v11 \in Nat /\ Calendar!Events' = Calendar!Events
      /\ v4 \in [Calendar!Events -> Calendar!Times] /\ v8 \in [Actors -> Calendar!Workers]
  BY <1>1 DEF Calendar!IInv, Calendar!FeedTyped, Calendar!Events
<1>3. Calendar!Versions' = Calendar!Versions /\ Calendar!Workers' = Calendar!Workers
  BY <1>2 DEF Calendar!Versions, Calendar!Workers
<1>4. Interval \in Nat /\ Interval >= 2
  BY CalendarAssumption
\* Who sleeps is not due; a request that is slow is a failure.
<1>5. \A k \in Actors : v8[k].at = "idle" => v2 + 1 <= v8[k].wake /\ v8[k].wake \in Nat
  <2> SUFFICES ASSUME NEW k \in Actors, v8[k].at = "idle" PROVE v2 + 1 <= v8[k].wake /\ v8[k].wake \in Nat
    OBVIOUS
  <2>1. ~(v8[k].wake <= v2)
    BY DEF Calendar!Tick, Calendar!Goes, Calendar!At
  <2>2. v8[k].wake \in Nat
    BY <1>2 DEF Calendar!Workers
  <2> QED
    BY <1>2, <2>1, <2>2
<1>6. /\ v11' \in {v11, v11 + 1}
      /\ (\E k \in Actors : v8[k].at = "save") => v11' = v11 + 1
  BY DEF Calendar!Tick, Calendar!At, Calendar!Fault
<1>7. v11' \in Nat
  BY <1>2, <1>6
<1>8. Calendar!FeedTyped'
  <2>1. v9' \in 0..v2' /\ v2' \in Nat
    BY <1>1, <1>2
  <2> QED
    BY <1>1, <1>2, <1>3, <1>7, <2>1 DEF Calendar!IInv, Calendar!FeedTyped
<1>9. Calendar!OnIsThere'
  BY <1>1 DEF Calendar!IInv, Calendar!OnIsThere, Calendar!At
<1>10. Calendar!PrintedIsShown'
  <2>1. \A e \in Calendar!Events : v4[e] # Calendar!Never => v1[e] <= v4[e] /\ v4[e] <= v2 + 1
    <3> SUFFICES ASSUME NEW e \in Calendar!Events, v4[e] # Calendar!Never PROVE v1[e] <= v4[e] /\ v4[e] <= v2 + 1
      OBVIOUS
    <3>1. v1[e] <= v4[e] /\ v4[e] <= v2 /\ v4[e] \in Nat
      BY <1>2 DEF Calendar!IInv, Calendar!PrintedIsShown, Calendar!Times
    <3> QED
      BY <1>2, <3>1
  <2> QED
    BY <1>1, <1>2, <2>1 DEF Calendar!IInv, Calendar!PrintedIsShown, Calendar!At
<1>11. Calendar!NobodyOversleeps'
  <2> SUFFICES ASSUME NEW k \in Actors, v8[k].at = "idle"
      PROVE  v2 + 1 <= v8[k].wake /\ v8[k].wake <= v2 + 1 + (IF v8[k].burst # Calendar!Never THEN 1 ELSE Interval)
    BY <1>1 DEF Calendar!NobodyOversleeps, Calendar!At, Calendar!Bursting
  <2> DEFINE x == IF v8[k].burst # Calendar!Never THEN 1 ELSE Interval
  <2>1. v8[k].wake <= v2 + x /\ x \in Nat
    BY <1>4 DEF Calendar!IInv, Calendar!NobodyOversleeps, Calendar!At, Calendar!Bursting
  <2> HIDE DEF x
  <2>2. v2 + 1 <= v8[k].wake /\ v8[k].wake <= v2 + 1 + x
    BY <1>2, <1>5, <2>1
  <2> QED
    BY <2>2 DEF x
<1>12. Calendar!LateByFailures'
  <2> SUFFICES ASSUME NEW k \in Actors, NEW e \in Calendar!Events, Calendar!Missing(e)
      PROVE  /\ v8[k].at = "idle" => v8[k].wake + (IF v8[k].burst # Calendar!Never THEN 1 ELSE 0)
                                       <= Calendar!Max({v4[e], v9}) + Calendar!Allowed(v11')
             /\ v8[k].at = "save" => v2 + 1 + (IF v8[k].got[e] = 0 THEN Interval ELSE 0)
                                       <= Calendar!Max({v4[e], v9}) + Calendar!Allowed(v11')
    BY <1>1, <1>2 DEF Calendar!LateByFailures, Calendar!Missing, Calendar!At, Calendar!Relists, Calendar!Bursting
  <2> DEFINE m == Calendar!Max({v4[e], v9})
             a == Calendar!Allowed(v11)
             b == Calendar!Allowed(v11')
             x == IF v8[k].burst # Calendar!Never THEN 1 ELSE 0
             y == IF v8[k].got[e] = 0 THEN Interval ELSE 0
  <2>1. /\ v8[k].at = "idle" => v8[k].wake + x <= m + a
        /\ v8[k].at = "save" => v2 + y <= m + a
        /\ m \in Nat
    BY CalendarLate
  <2>2. a \in Nat /\ (v11' = v11 => b = a) /\ (v11' = v11 + 1 => b = a + Interval)
    BY <1>2, CalendarAllowed
  <2>3. x \in Nat /\ y \in Nat
    BY <1>4
  <2>4. v8[k].at = "save" => v11' = v11 + 1
    BY <1>6
  <2> HIDE DEF m, a, b, x, y
  <2>5. b \in Nat /\ a <= b /\ (v8[k].at = "save" => b = a + Interval)
    BY <1>4, <1>6, <2>2, <2>4
  <2>6. /\ v8[k].at = "idle" => v8[k].wake + x <= m + b
        /\ v8[k].at = "save" => v2 + 1 + y <= m + b
    BY <1>2, <1>4, <1>5, <2>1, <2>2, <2>3, <2>5
  <2> QED
    BY <2>6 DEF m, b, x, y
<1>13. Calendar!SwiftWithout'
  <2> SUFFICES ASSUME NEW k \in Actors, NEW e \in Calendar!Events, v11' = 0, v12 = 0, v5[e].actual = 0
      PROVE  /\ v8[k].at = "idle" =>
                    IF v4[e] = Calendar!Never
                    THEN v8[k].wake <= v2 + 1 + 1 \/ v8[k].wake <= v1[e] \/ v2 + 1 >= v1[e] + BurstTail
                    ELSE v4[e] < v1[e] + BurstTail =>
                           v8[k].wake + (IF v8[k].burst # Calendar!Never THEN 1 ELSE 0) <= v4[e] + 2
             /\ v8[k].at # "save"
    BY <1>1, <1>2 DEF Calendar!SwiftWithout, Calendar!At, Calendar!Relists, Calendar!Bursting
  <2>1. v11 = 0 /\ v8[k].at # "save"
    BY <1>2, <1>6
  <2>2. v8[k].at = "idle" =>
           IF v4[e] = Calendar!Never THEN v8[k].wake <= v2 + 1 \/ v8[k].wake <= v1[e] \/ v2 >= v1[e] + BurstTail
           ELSE v4[e] < v1[e] + BurstTail =>
                  v8[k].wake + (IF v8[k].burst # Calendar!Never THEN 1 ELSE 0) <= v4[e] + 2
    BY <2>1 DEF Calendar!IInv, Calendar!SwiftWithout, Calendar!At, Calendar!Relists, Calendar!Bursting
  <2>3. v1[e] + BurstTail \in Nat
    BY CalendarAssumption DEF Calendar!IInv, Calendar!FeedTyped
  <2>4. /\ v8[k].at = "idle" /\ v8[k].wake <= v2 + 1 => v8[k].wake <= v2 + 1 + 1
        /\ v2 >= v1[e] + BurstTail => v2 + 1 >= v1[e] + BurstTail
    BY <1>2, <1>5, <2>3
  <2> QED
    BY <2>1, <2>2, <2>4
<1>14. Calendar!NeverForgotten'
  BY <1>1, <1>2 DEF Calendar!IInv, Calendar!CalendarIsKept, Calendar!NeverForgotten
<1> QED
  BY <1>8, <1>9, <1>10, <1>11, <1>12, <1>13, <1>14, CalendarParts

LEMMA CalendarInductive == Calendar!IInv /\ [Calendar!Next]_(Calendar!feedVars) => Calendar!IInv'
<1> SUFFICES ASSUME Calendar!IInv, [Calendar!Next]_(Calendar!feedVars) PROVE Calendar!IInv'
  OBVIOUS
<1>1. ASSUME NEW l \in Actors,
             \/ Calendar!Ends(l) \/ Calendar!Fetches(l) \/ Calendar!FetchFails(l) \/ Calendar!Saves(l)
             \/ Calendar!SaveFails(l)
      PROVE  Calendar!IInv'
  BY <1>1, CalendarEnds, CalendarFetches, CalendarFetchFails, CalendarSaves, CalendarSaveFails
<1>2. CASE UNCHANGED Calendar!feedVars
  BY <1>2 DEF Calendar!feedVars, Calendar!IInv, Calendar!CalendarIsKept, Calendar!CaughtInTime, Calendar!NeverForgotten,
              Calendar!FeedTyped, Calendar!OnIsThere, Calendar!PrintedIsShown, Calendar!NobodyOversleeps,
              Calendar!LateByFailures, Calendar!SwiftWithout, Calendar!Events, Calendar!At, Calendar!Bursting,
              Calendar!Missing, Calendar!Relists, Calendar!Versions, Calendar!Workers
<1> QED
  BY <1>1, <1>2, CalendarStops, CalendarStarts, CalendarPrints, CalendarTick DEF Calendar!Next

-----------------------------------------------------------------------------
(* The Telegram bot. *)

\* What is left of a batch, when the first message is taken; an exchange more, and the oldest away.
LEMMA BotTail ==
    ASSUME NEW s \in Seq(Nat), s # <<>>
    PROVE  /\ Head(s) = s[1] /\ Tail(s) \in Seq(Nat) /\ Len(Tail(s)) = Len(s) - 1 /\ Len(s) \in Nat \ {0}
           /\ \A i \in 1..(Len(s) - 1) : Tail(s)[i] = s[i + 1]
  OBVIOUS

LEMMA BotBatch ==
    ASSUME NEW n \in Nat, NEW from \in Nat
    PROVE  /\ [i \in 1..n |-> from + i] \in Seq(Nat) /\ Len([i \in 1..n |-> from + i]) = n
  OBVIOUS

LEMMA BotKept ==
    ASSUME NEW s \in Seq(Bot!Messages), NEW u \in Bot!Messages, Bot!Ordered(s), Bot!Before(s, u - 1)
    PROVE  LET all == Append(s, u)
               kept == IF Len(all) > HistoryTurns THEN Tail(all) ELSE all
           IN  kept \in Seq(Bot!Messages) /\ Bot!Ordered(kept) /\ Bot!Before(kept, u)
<1> DEFINE all == Append(s, u)
<1>1. /\ all \in Seq(Bot!Messages) /\ Len(all) = Len(s) + 1 /\ all # <<>> /\ Len(s) \in Nat
      /\ (\A i \in 1..Len(s) : all[i] = s[i]) /\ all[Len(s) + 1] = u
  OBVIOUS
<1>2. u \in Nat /\ \A m \in Bot!Messages : m \in Nat
  BY BotAssumption DEF Bot!Messages
<1> HIDE DEF all
<1>3. \A m \in Bot!Messages : m >= u /\ v16[m] = 0 => \A i \in 1..Len(s) : s[i] < m
  BY <1>2 DEF Bot!Before
<1>4. \A i \in 1..Len(all) : i \in 1..Len(s) \/ i = Len(s) + 1
  BY <1>1
<1>5. Bot!Ordered(all)
  <2> SUFFICES ASSUME NEW i \in 1..Len(all), NEW j \in 1..Len(all), i < j, v16[all[j]] = 0
               PROVE  all[i] < all[j]
    BY DEF Bot!Ordered
  <2>1. i \in 1..Len(s)
    BY <1>1
  <2>2. CASE j \in 1..Len(s)
    BY <1>1, <2>1, <2>2 DEF Bot!Ordered
  <2>3. CASE j = Len(s) + 1
    BY <1>1, <1>2, <1>3, <2>1, <2>3
  <2> QED
    BY <1>4, <2>2, <2>3
<1>6. Bot!Before(all, u)
  <2> SUFFICES ASSUME NEW m \in Bot!Messages, m > u, v16[m] = 0, NEW i \in 1..Len(all) PROVE all[i] < m
    BY DEF Bot!Before
  <2>1. CASE i \in 1..Len(s)
    BY <1>1, <1>2, <1>3, <2>1
  <2>2. CASE i = Len(s) + 1
    BY <1>1, <2>2
  <2> QED
    BY <1>4, <2>1, <2>2
<1>7. Tail(all) \in Seq(Bot!Messages) /\ Bot!Ordered(Tail(all)) /\ Bot!Before(Tail(all), u)
  <2> DEFINE t == Tail(all)
  <2>1. /\ t \in Seq(Bot!Messages) /\ Len(t) = Len(s)
        /\ \A i \in 1..Len(s) : t[i] = all[i + 1] /\ i + 1 \in 1..Len(all)
    BY <1>1
  <2> HIDE DEF t
  <2>2. ASSUME NEW i \in 1..Len(s), NEW j \in 1..Len(s), i < j, v16[t[j]] = 0 PROVE t[i] < t[j]
    <3>1. i + 1 < j + 1
      BY <1>1, <2>2
    <3> QED
      BY <1>5, <2>1, <2>2, <3>1 DEF Bot!Ordered
  <2>3. Bot!Before(t, u)
    BY <1>6, <2>1 DEF Bot!Before
  <2> QED
    BY <2>1, <2>2, <2>3 DEF t, Bot!Ordered
<1> QED
  BY <1>1, <1>5, <1>6, <1>7 DEF all

LEMMA BotOff ==
    /\ Bot!Off \in Bot!Listeners /\ Bot!Off.at = "off" /\ Bot!Off.batch = <<>> /\ Bot!Off.msg = 0
    /\ <<>> \in Seq(Bot!Messages) /\ Len(<<>>) = 0 /\ 1..0 = {}
    /\ \A at \in {"top", "poll"} :
          /\ Bot!Idle(at) \in Bot!Listeners /\ Bot!Idle(at).at = at
          /\ Bot!Idle(at).batch = <<>> /\ Bot!Idle(at).msg = 0
  BY DEF Bot!Off, Bot!Idle, Bot!Listener, Bot!Listeners

LEMMA BotListener ==
    ASSUME NEW at \in {"top", "poll", "batch"} \cup Bot!InHand, NEW batch \in Seq(Nat), NEW msg \in Nat,
           NEW seen \in Seq(Bot!Messages)
    PROVE  /\ Bot!Listener(at, batch, msg, seen) \in Bot!Listeners
           /\ Bot!Listener(at, batch, msg, seen).at = at /\ Bot!Listener(at, batch, msg, seen).batch = batch
           /\ Bot!Listener(at, batch, msg, seen).msg = msg /\ Bot!Listener(at, batch, msg, seen).seen = seen
  BY DEF Bot!Listener, Bot!Listeners

\* Nothing at all follows any message, and nothing was kept before any.
LEMMA BotNothing ==
    /\ v4 \in 0..v1 /\ v1 \in Nat => Bot!Follows(<<>>, v4)
    /\ Bot!Ordered(<<>>) /\ \A n \in Int : Bot!Before(<<>>, n)
<1>1. Len(<<>>) = 0 /\ 1..0 = {}
  BY BotOff
<1>2. \A a, b \in Int : a <= b => a + 0 <= b
  OBVIOUS
<1>3. ASSUME v4 \in 0..v1, v1 \in Nat PROVE v4 + 0 <= v1
  BY <1>3
<1> QED
  BY <1>1, <1>3 DEF Bot!Follows, Bot!Ordered, Bot!Before

\* What a step that leaves alone what is beyond a message leaves true of it.
LEMMA BotAhead ==
    ASSUME NEW n \in Int, Bot!Ahead(n), v16' = v16, v5' = v5 \/ Bot!Before(v5, n)',
           \A u \in Bot!Messages : u > n => v10'[u] = v10[u]
    PROVE  Bot!Ahead(n)'
<1>1. Bot!Messages' = Bot!Messages
  BY DEF Bot!Messages
<1>2. Bot!Before(v5, n)'
  BY <1>1 DEF Bot!Ahead, Bot!Before
<1> QED
  BY <1>1, <1>2 DEF Bot!Ahead

LEMMA BotInitially == Bot!Init => Bot!IInv
<1> SUFFICES ASSUME Bot!Init PROVE Bot!IInv
  OBVIOUS
<1>1. /\ v1 = 0 /\ v2 = 0 /\ v4 = 0 /\ v5 = <<>> /\ v9 = [l \in Actors |-> Bot!Off] /\ v11 = {} /\ v12 = {} /\ v13 = {}
      /\ v10 = [u \in Bot!Messages |-> 0] /\ v16 = [u \in Bot!Messages |-> 0]
  BY DEF Bot!Init
<1>2. Bot!BotTyped
  <2>1. v9 \in [Actors -> Bot!Listeners] /\ 1..0 = {} /\ <<>> \in Seq(Bot!Messages)
    BY <1>1, BotOff
  <2> QED
    BY <1>1, <2>1 DEF Bot!BotTyped
<1>3. Bot!Follows(<<>>, v4) /\ Bot!Ordered(v5) /\ Bot!Before(v5, v4)
  BY <1>1, BotNothing
<1>4. \A l \in Actors : Bot!InStep(v9[l])
  BY <1>1, <1>3, BotOff DEF Bot!InStep, Bot!InHand
<1>5. Bot!OneListens
  BY <1>1, BotOff DEF Bot!OneListens, Bot!Alive, Bot!At
<1>6. Bot!Ahead(v4) /\ 0 \notin v13
  BY <1>1, <1>3 DEF Bot!Ahead
<1>7. Bot!BotIsSteady
  <2>1. Bot!AnsweredOnce
    BY <1>1 DEF Bot!AnsweredOnce
  <2>2. Bot!NothingPassedOver /\ Bot!AnsweredIsKept
    BY <1>1, <1>3 DEF Bot!NothingPassedOver, Bot!AnsweredIsKept
  <2> QED
    BY <2>1, <2>2 DEF Bot!BotIsSteady
<1> QED
  BY <1>2, <1>4, <1>5, <1>6, <1>7 DEF Bot!IInv

\* What a state says of the one thread that listens, and of the others.
LEMMA BotAlone ==
    ASSUME Bot!IInv, ~v14, NEW l \in Actors, v9[l].at # "off"
    PROVE  /\ \A k \in Actors \ {l} : v9[k] = Bot!Off
           /\ v9 \in [Actors -> Bot!Listeners] /\ v9[l] \in Bot!Listeners /\ Bot!InStep(v9[l])
           /\ v1 \in Nat /\ v4 \in 0..v1 /\ v2 \in 0..v4 /\ 1..v1 \subseteq Bot!Messages
           /\ v5 \in Seq(Bot!Messages) /\ v10 \in [Bot!Messages -> Nat] /\ v16 \in [Bot!Messages -> Nat]
           /\ Bot!Ahead(v4) /\ Bot!Ordered(v5) /\ 0 \notin v13
<1>1. \A k \in Actors \ {l} : v9[k].at = "off"
  BY DEF Bot!IInv, Bot!OneListens, Bot!Alive, Bot!At
<1> QED
  BY <1>1 DEF Bot!IInv, Bot!BotTyped, Bot!InStep, Bot!BotIsSteady, Bot!AnsweredIsKept

\* A thread with no message in hand and no batch is in step with everything.
LEMMA BotIdles ==
    ASSUME v4' \in 0..v1', v1' \in Nat, NEW at \in {"top", "poll"}
    PROVE  Bot!InStep(Bot!Idle(at))' /\ Bot!InStep(Bot!Off)'
<1>1. Bot!Follows(<<>>, v4)'
  <2> DEFINE z == Len(<<>>)
  <2>1. z \in Int /\ z = 0 /\ 1..z = {}
    BY BotOff
  <2> HIDE DEF z
  <2>2. \A a, b \in Nat : a <= b => a + 0 <= b
    OBVIOUS
  <2>3. v4' \in Nat /\ v4' <= v1'
    OBVIOUS
  <2>4. v4' + z <= v1'
    BY ONLY v1' \in Nat, <2>1, <2>2, <2>3
  <2> USE DEF z
  <2> QED
    BY <2>1, <2>4 DEF Bot!Follows
<1> QED
  BY <1>1, BotOff DEF Bot!InStep, Bot!InHand, Bot!Follows

\* Where the listener gets to, the others stay.
LEMMA BotBecomes ==
    ASSUME Bot!IInv, ~v14, v14' = v14, NEW l \in Actors, v9[l].at # "off",
           NEW rec \in Bot!Listeners, v9' = [v9 EXCEPT ![l] = rec],
           v1' = v1, v2' \in 0..v4', v4' \in 0..v1, v5' \in Seq(Bot!Messages), v10' \in [Bot!Messages -> Nat],
           v16' \in [Bot!Messages -> Nat], Bot!InStep(rec)', Bot!Ahead(v4)', Bot!Ordered(v5)', 0 \notin v13',
           \A u \in Bot!Messages : v10'[u] <= 1 + v16'[u],
           \A u \in 1..v4' : u \in v11' \cup v12' \/ u = rec.msg,
           \A u \in v13' : u \in v12' \/ u = rec.msg
    PROVE  Bot!IInv'
<1>1. /\ \A k \in Actors \ {l} : v9[k] = Bot!Off
      /\ v9 \in [Actors -> Bot!Listeners] /\ v1 \in Nat /\ 1..v1 \subseteq Bot!Messages
  BY BotAlone
<1>2. v9'[l] = rec /\ \A k \in Actors \ {l} : v9'[k] = Bot!Off
  BY <1>1
<1>3. Bot!BotTyped'
  <2>1. v9' \in [Actors -> Bot!Listeners]
    BY <1>1
  <2>2. Bot!Messages' = Bot!Messages /\ Bot!Listeners' = Bot!Listeners
    BY DEF Bot!Messages, Bot!Listeners
  <2> QED
    BY <1>1, <2>1, <2>2 DEF Bot!BotTyped
<1>4. Bot!InStep(Bot!Off)'
  <2>1. v4' \in 0..v1' /\ v1' \in Nat /\ "top" \in {"top", "poll"}
    BY <1>1
  <2> QED
    BY <2>1, BotIdles
<1>5. \A k \in Actors : Bot!InStep(v9[k])'
  <2> SUFFICES ASSUME NEW k \in Actors PROVE Bot!InStep(v9[k])'
    OBVIOUS
  <2>1. CASE k = l
    BY <1>2, <2>1 DEF Bot!InStep
  <2>2. CASE k # l
    BY <1>2, <1>4, <2>2 DEF Bot!InStep
  <2> QED
    BY <2>1, <2>2
<1>6. Bot!OneListens'
  BY <1>2, BotOff DEF Bot!OneListens, Bot!Alive, Bot!At
<1>7. Bot!BotIsSteady'
  <2>1. Bot!AnsweredOnce'
    BY DEF Bot!AnsweredOnce, Bot!Messages
  <2>2. Bot!NothingPassedOver'
    BY <1>2 DEF Bot!NothingPassedOver
  <2>3. \A u \in v13' : u \in v12' \/ \E k \in Actors : v9'[k].msg = u
    BY <1>2
  <2> QED
    BY <2>1, <2>2, <2>3 DEF Bot!BotIsSteady, Bot!AnsweredIsKept
<1> QED
  BY <1>3, <1>5, <1>6, <1>7 DEF Bot!IInv

\* What a state says of the messages up to the cursor, and of the one in hand.
LEMMA BotKnown ==
    ASSUME Bot!IInv, ~v14, NEW l \in Actors, v9[l].at # "off"
    PROVE  /\ \A u \in Bot!Messages : v10[u] <= 1 + v16[u]
           /\ \A u \in 1..v4 : u \in v11 \cup v12 \/ u = v9[l].msg
           /\ \A u \in v13 : u \in v12 \/ u = v9[l].msg
<1>1. \A k \in Actors \ {l} : v9[k].msg = 0
  BY BotAlone, BotOff
<1>2. \A u \in v13 : u # 0
  BY BotAlone
<1>3. \A u \in 1..v4 : u # 0
  OBVIOUS
<1> QED
  BY <1>1, <1>2, <1>3 DEF Bot!IInv, Bot!BotIsSteady, Bot!AnsweredOnce, Bot!NothingPassedOver, Bot!AnsweredIsKept

\* A thread that goes on with a batch is, if the batch follows a message not beyond the cursor.
LEMMA BotGoesOn ==
    ASSUME Bot!IInv, ~v14, v14' = v14, NEW l \in Actors, v9[l].at # "off",
           NEW batch \in Seq(Nat), v9' = [v9 EXCEPT ![l] = Bot!Listener(IF batch = <<>> THEN "top" ELSE "batch", batch, 0, <<>>)],
           v1' = v1, v2' \in 0..v4', v4' \in 0..v1, v5' \in Seq(Bot!Messages), v10' \in [Bot!Messages -> Nat],
           v16' \in [Bot!Messages -> Nat], Bot!Ahead(v4)', Bot!Ordered(v5)', 0 \notin v13',
           NEW n \in Nat, n \in v2'..v4', Bot!Follows(batch, n)', Bot!Ahead(n)',
           \A u \in Bot!Messages : v10'[u] <= 1 + v16'[u],
           \A u \in 1..v4' : u \in v11' \cup v12',
           \A u \in v13' : u \in v12'
    PROVE  Bot!IInv'
<1> DEFINE at == IF batch = <<>> THEN "top" ELSE "batch"
           rec == Bot!Listener(at, batch, 0, <<>>)
<1>1. at \in {"top", "batch"} /\ (at = "batch" => batch # <<>>) /\ (at = "top" => batch = <<>>)
  OBVIOUS
<1> HIDE DEF at
<1>2. rec \in Bot!Listeners /\ rec.at = at /\ rec.batch = batch /\ rec.msg = 0
  <2>1. at \in {"top", "poll", "batch"} \cup Bot!InHand /\ 0 \in Nat /\ <<>> \in Seq(Bot!Messages)
    BY <1>1, BotOff
  <2> QED
    BY <2>1, BotListener DEF Bot!Listener, Bot!Listeners
<1>3. v9' = [v9 EXCEPT ![l] = rec]
  BY DEF at
<1> HIDE DEF rec
<1>4. PICK r \in Bot!Listeners : r = rec
  BY <1>2
<1>5. Bot!InStep(r)'
  <2>1. CASE at = "batch"
    BY <1>1, <1>2, <1>4, <2>1 DEF Bot!InStep, Bot!InHand
  <2>2. CASE at = "top"
    <3>1. Bot!InStep(Bot!Idle("top"))' /\ Bot!Idle("top").batch = <<>>
      <4>1. v1 \in Nat
        BY BotAlone
      <4> QED
        BY <4>1, BotIdles, BotOff
    <3>2. Bot!Follows(<<>>, v4)'
      BY <3>1, BotOff DEF Bot!InStep, Bot!Follows
    <3> QED
      BY <1>1, <1>2, <1>4, <2>2, <3>2 DEF Bot!InStep, Bot!InHand
  <2> QED
    BY <1>1, <2>1, <2>2
<1>6. v9' = [v9 EXCEPT ![l] = r] /\ r.msg = 0
  BY <1>2, <1>3, <1>4
<1> QED
  BY <1>5, <1>6, BotBecomes

LEMMA BotUntouched ==
    ASSUME Bot!IInv, UNCHANGED <<v1, v2, v4, v5, v9, v10, v11, v12, v13, v14, v16>>
    PROVE  Bot!IInv'
<1>1. Bot!Messages' = Bot!Messages
  BY DEF Bot!Messages
<1>2. Bot!BotIsSteady'
  BY <1>1 DEF Bot!IInv, Bot!BotIsSteady, Bot!AnsweredOnce, Bot!NothingPassedOver, Bot!AnsweredIsKept, Bot!Ordered
<1>3. Bot!BotTyped' /\ (0 \notin v13)'
  BY <1>1 DEF Bot!IInv, Bot!BotTyped, Bot!Listeners
<1>4. Bot!OneListens'
  BY DEF Bot!IInv, Bot!OneListens, Bot!Alive, Bot!At
<1>5. Bot!Ahead(v4)'
  BY <1>1 DEF Bot!IInv, Bot!Ahead, Bot!Before
<1>6. ASSUME NEW l \in Actors PROVE Bot!InStep(v9[l])'
  <2>1. Bot!InStep(v9[l])
    BY DEF Bot!IInv
  <2> QED
    BY <1>1, <2>1 DEF Bot!InStep, Bot!Follows, Bot!Ahead, Bot!Before, Bot!Ordered
<1> QED
  BY <1>2, <1>3, <1>4, <1>5, <1>6 DEF Bot!IInv

\* Whatever a thread was in step with it is still when only more has arrived.
LEMMA BotStillInStep ==
    ASSUME Bot!IInv, NEW t \in Bot!Listeners, Bot!InStep(t), v1' \in {v1, v1 + 1},
           UNCHANGED <<v2, v4, v5, v10, v12, v13, v16>>
    PROVE  Bot!InStep(t)'
<1>1. v1 \in Nat /\ v4 \in 0..v1 /\ v2 \in 0..v4 /\ Bot!Messages' = Bot!Messages
  BY DEF Bot!IInv, Bot!BotTyped, Bot!Messages
<1>2. ASSUME NEW n \in 0..v4, Bot!Follows(t.batch, n) PROVE Bot!Follows(t.batch, n)'
  <2>1. Len(t.batch) \in Nat
    BY DEF Bot!Listeners
  <2>2. n + Len(t.batch) <= v1
    BY <1>2 DEF Bot!Follows
  <2> DEFINE k == Len(t.batch)
  <2> HIDE DEF k
  <2>3. n + k <= v1'
    BY <1>1, <2>1, <2>2 DEF k
  <2> QED
    BY <1>2, <2>3 DEF Bot!Follows, k
<1>3. ASSUME NEW n \in Int, Bot!Ahead(n) PROVE Bot!Ahead(n)'
  BY <1>3, BotAhead
<1>4. t.at = "batch" => \E n \in v2..v4 : Bot!Follows(t.batch, n)' /\ Bot!Ahead(n)'
  <2> SUFFICES ASSUME t.at = "batch" PROVE \E n \in v2..v4 : Bot!Follows(t.batch, n)' /\ Bot!Ahead(n)'
    OBVIOUS
  <2>1. PICK n \in v2..v4 : Bot!Follows(t.batch, n) /\ Bot!Ahead(n)
    BY DEF Bot!InStep
  <2>2. n \in 0..v4 /\ n \in Int
    BY <1>1
  <2> QED
    BY <1>2, <1>3, <2>1, <2>2
<1>5. t.at # "batch" => Bot!Follows(t.batch, v4)'
  <2> SUFFICES ASSUME t.at # "batch" PROVE Bot!Follows(t.batch, v4)'
    OBVIOUS
  <2>1. PICK n \in 0..v4 : n = v4
    BY <1>1
  <2>2. Bot!Follows(t.batch, n)'
    BY <1>2, <2>1 DEF Bot!InStep
  <2> QED
    BY <2>1, <2>2 DEF Bot!Follows
<1>6. t.at \in {"answer", "reply"} => Bot!Ahead(v4 - 1)'
  <2> SUFFICES ASSUME t.at \in {"answer", "reply"} PROVE Bot!Ahead(v4 - 1)'
    OBVIOUS
  <2>1. PICK n \in Int : n = v4 - 1
    BY <1>1
  <2>2. Bot!Ahead(n)'
    BY <1>3, <2>1 DEF Bot!InStep
  <2> QED
    BY <2>1, <2>2 DEF Bot!Ahead, Bot!Before
<1> QED
  BY <1>1, <1>4, <1>5, <1>6 DEF Bot!InStep, Bot!Before, Bot!Ordered

LEMMA BotWrites == ASSUME Bot!IInv, ~v14, Bot!Writes PROVE Bot!IInv'
<1>1. v1 + 1 \in Bot!Messages /\ v1' = v1 + 1 /\ UNCHANGED <<v2, v4, v5, v9, v10, v11, v12, v13, v14, v16>>
  BY DEF Bot!Writes
<1>2. /\ v1 \in Nat /\ v4 \in 0..v1 /\ v2 \in 0..v4 /\ 1..v1 \subseteq Bot!Messages
      /\ Bot!Messages' = Bot!Messages /\ Bot!Listeners' = Bot!Listeners /\ v9 \in [Actors -> Bot!Listeners]
  BY DEF Bot!IInv, Bot!BotTyped, Bot!Messages, Bot!Listeners
<1>3. Bot!BotTyped'
  <2>1. 1..v1' \subseteq Bot!Messages
    <3>1. \A i \in 1..(v1 + 1) : i \in 1..v1 \/ i = v1 + 1
      BY <1>2
    <3> QED
      BY <1>1, <1>2, <3>1
  <2>2. v1' \in Nat /\ v4' \in 0..v1' /\ v2' \in 0..v4'
    BY <1>1, <1>2
  <2> QED
    BY <1>1, <1>2, <2>1, <2>2 DEF Bot!IInv, Bot!BotTyped
<1>4. \A l \in Actors : Bot!InStep(v9[l])'
  <2> SUFFICES ASSUME NEW l \in Actors PROVE Bot!InStep(v9[l])'
    OBVIOUS
  <2>1. PICK t \in Bot!Listeners : t = v9[l] /\ Bot!InStep(t)
    BY <1>2 DEF Bot!IInv
  <2>2. Bot!InStep(t)'
    BY <1>1, <2>1, BotStillInStep
  <2> QED
    BY <1>1, <2>1, <2>2 DEF Bot!InStep
<1> QED
  BY <1>1, <1>3, <1>4 DEF Bot!IInv, Bot!BotIsSteady, Bot!AnsweredOnce, Bot!NothingPassedOver, Bot!AnsweredIsKept,
     Bot!OneListens, Bot!Alive, Bot!At, Bot!Ahead, Bot!Before, Bot!Ordered, Bot!Messages

LEMMA BotSupervises == ASSUME Bot!IInv, ~v14, NEW l \in Actors, Bot!Supervises(l) PROVE Bot!IInv'
<1>1. /\ v9[l].at = "off" /\ v9' = [v9 EXCEPT ![l] = Bot!Idle("top")]
      /\ v14' = (v14 \/ {k \in Actors : v9[k].at # "off"} # {})
      /\ UNCHANGED <<v1, v2, v4, v5, v10, v11, v12, v13, v16>>
  BY DEF Bot!Supervises, Bot!At, Bot!Become, Bot!Alive
<1>2. v1 \in Nat /\ v4 \in 0..v1 /\ v9 \in [Actors -> Bot!Listeners] /\ Bot!Listeners' = Bot!Listeners /\ Bot!Messages' = Bot!Messages
  BY DEF Bot!IInv, Bot!BotTyped, Bot!Listeners, Bot!Messages
<1>3. v4' \in 0..v1' /\ v1' \in Nat
  BY <1>1, <1>2
<1>4. Bot!InStep(Bot!Idle("top"))'
  BY <1>3, BotIdles
<1>5. \A k \in Actors : v9'[k] = v9[k] \/ (k = l /\ v9'[k] = Bot!Idle("top"))
  BY <1>1, <1>2
<1>6. Bot!BotTyped'
  <2>1. v9' \in [Actors -> Bot!Listeners]
    BY <1>1, <1>2, BotOff
  <2> QED
    BY <1>1, <1>2, <2>1 DEF Bot!IInv, Bot!BotTyped
<1>7. \A k \in Actors : Bot!InStep(v9[k])'
  <2> SUFFICES ASSUME NEW k \in Actors PROVE Bot!InStep(v9[k])'
    OBVIOUS
  <2>1. CASE v9'[k] = v9[k]
    <3>1. PICK t \in Bot!Listeners : t = v9[k] /\ Bot!InStep(t)
      BY <1>2 DEF Bot!IInv
    <3>2. Bot!InStep(t)'
      BY <1>1, <3>1, BotStillInStep
    <3> QED
      BY <2>1, <3>1, <3>2 DEF Bot!InStep
  <2>2. CASE v9'[k] = Bot!Idle("top")
    BY <1>4, <2>2 DEF Bot!InStep
  <2> QED
    BY <1>5, <2>1, <2>2
<1>8. Bot!OneListens'
  <2>1. CASE \E k \in Actors : v9[k].at # "off"
    BY <1>1, <2>1 DEF Bot!OneListens
  <2>2. CASE ~\E k \in Actors : v9[k].at # "off"
    BY <1>5, <2>2 DEF Bot!OneListens, Bot!Alive, Bot!At
  <2> QED
    BY <2>1, <2>2
<1>9. \A k \in Actors : v9[k].msg # 0 => v9'[k].msg = v9[k].msg
  <2>1. v9[l].msg = 0
    BY <1>1, BotOff DEF Bot!IInv, Bot!InStep
  <2> QED
    BY <1>5, <2>1
<1>10. Bot!Ahead(v4)' /\ 0 \notin v13'
  BY <1>1 DEF Bot!IInv, Bot!Ahead, Bot!Before, Bot!Messages
<1>11. Bot!BotIsSteady'
  <2>1. Bot!AnsweredOnce' /\ Bot!Ordered(v5)'
    BY <1>1 DEF Bot!IInv, Bot!BotIsSteady, Bot!AnsweredOnce, Bot!AnsweredIsKept, Bot!Messages, Bot!Ordered
  <2>2. \A u \in 1..v4 : u # 0
    BY <1>2
  <2>3. \A u \in 1..v4 : (\E k \in Actors : v9[k].msg = u) => \E k \in Actors : v9'[k].msg = u
    BY <1>9, <2>2
  <2>4. Bot!NothingPassedOver'
    BY <1>1, <2>3 DEF Bot!IInv, Bot!BotIsSteady, Bot!NothingPassedOver
  <2>5. \A u \in v13 : u # 0
    BY DEF Bot!IInv
  <2>6. \A u \in v13 : u \in v12 \/ \E k \in Actors : v9'[k].msg = u
    BY <1>9, <2>5 DEF Bot!IInv, Bot!BotIsSteady, Bot!AnsweredIsKept
  <2> QED
    BY <1>1, <2>1, <2>4, <2>6 DEF Bot!BotIsSteady, Bot!AnsweredIsKept
<1> QED
  BY <1>6, <1>7, <1>8, <1>10, <1>11 DEF Bot!IInv

LEMMA BotCrashes == ASSUME Bot!IInv, ~v14, Bot!Crashes PROVE Bot!IInv'
<1>1. /\ v12' = v12 \cup {v9[l].msg : l \in {k \in Actors : v9[k].msg # 0}}
      /\ v9' = [l \in Actors |-> Bot!Off] /\ UNCHANGED <<v1, v2, v4, v5, v10, v11, v13, v14, v16>>
  BY DEF Bot!Crashes
<1>2. v1 \in Nat /\ v4 \in 0..v1 /\ v9 \in [Actors -> Bot!Listeners] /\ Bot!Listeners' = Bot!Listeners /\ Bot!Messages' = Bot!Messages
  BY DEF Bot!IInv, Bot!BotTyped, Bot!Listeners, Bot!Messages
<1>3. v4' \in 0..v1' /\ v1' \in Nat
  BY <1>1, <1>2
<1>4. Bot!InStep(Bot!Off)'
  <2>1. "top" \in {"top", "poll"}
    OBVIOUS
  <2> QED
    BY <1>3, <2>1, BotIdles
<1>5. Bot!BotTyped'
  <2>1. v9' \in [Actors -> Bot!Listeners]
    BY <1>1, BotOff
  <2> QED
    BY <1>1, <1>2, <2>1 DEF Bot!IInv, Bot!BotTyped
<1>6. \A k \in Actors : Bot!InStep(v9[k])'
  BY <1>1, <1>4 DEF Bot!InStep
<1>7. Bot!OneListens'
  BY <1>1, BotOff DEF Bot!OneListens, Bot!Alive, Bot!At
<1>8. Bot!Ahead(v4)' /\ 0 \notin v13'
  BY <1>1 DEF Bot!IInv, Bot!Ahead, Bot!Before, Bot!Messages
<1>9. \A u : u # 0 /\ (\E k \in Actors : v9[k].msg = u) => u \in v12'
  BY <1>1
<1>10. Bot!BotIsSteady'
  <2>1. Bot!AnsweredOnce' /\ Bot!Ordered(v5)'
    BY <1>1 DEF Bot!IInv, Bot!BotIsSteady, Bot!AnsweredOnce, Bot!AnsweredIsKept, Bot!Messages, Bot!Ordered
  <2>2. v12 \subseteq v12'
    BY <1>1
  <2>3. \A u \in 1..v4 : u # 0
    BY <1>2
  <2>4. Bot!NothingPassedOver'
    BY <1>1, <1>9, <2>2, <2>3 DEF Bot!IInv, Bot!BotIsSteady, Bot!NothingPassedOver
  <2>5. \A u \in v13 : u \in v12'
    BY <1>9, <2>2 DEF Bot!IInv, Bot!BotIsSteady, Bot!AnsweredIsKept
  <2> QED
    BY <1>1, <2>1, <2>4, <2>5 DEF Bot!BotIsSteady, Bot!AnsweredIsKept
<1> QED
  BY <1>5, <1>6, <1>7, <1>8, <1>10 DEF Bot!IInv

\* A listener with nothing in hand that goes idle.
LEMMA BotGoesIdle ==
    ASSUME Bot!IInv, ~v14, NEW l \in Actors, v9[l].at \in {"top", "poll", "batch"},
           v9' \in {[v9 EXCEPT ![l] = Bot!Off], [v9 EXCEPT ![l] = Bot!Idle("top")], [v9 EXCEPT ![l] = Bot!Idle("poll")]},
           UNCHANGED <<v1, v2, v4, v5, v10, v11, v12, v13, v14, v16>>
    PROVE  Bot!IInv'
<1>1. /\ v1 \in Nat /\ v4 \in 0..v1 /\ v2 \in 0..v4 /\ v9[l].msg = 0 /\ v5 \in Seq(Bot!Messages)
      /\ v10 \in [Bot!Messages -> Nat] /\ v16 \in [Bot!Messages -> Nat] /\ Bot!Ahead(v4) /\ Bot!Ordered(v5) /\ 0 \notin v13
  BY BotAlone DEF Bot!InStep, Bot!InHand
<1>2. v4' \in 0..v1' /\ v1' \in Nat
  BY <1>1
<1>3. Bot!InStep(Bot!Off)' /\ Bot!InStep(Bot!Idle("top"))' /\ Bot!InStep(Bot!Idle("poll"))'
  BY <1>2, BotIdles
<1>4. PICK rec \in Bot!Listeners : v9' = [v9 EXCEPT ![l] = rec] /\ Bot!InStep(rec)' /\ rec.msg = 0
  BY <1>3, BotOff
<1>5. Bot!Ahead(v4)' /\ Bot!Ordered(v5)' /\ 0 \notin v13'
  BY <1>1 DEF Bot!Ahead, Bot!Before, Bot!Ordered, Bot!Messages
<1>6. /\ \A u \in Bot!Messages : v10'[u] <= 1 + v16'[u]
      /\ \A u \in 1..v4' : u \in v11' \cup v12' \/ u = rec.msg
      /\ \A u \in v13' : u \in v12' \/ u = rec.msg
  BY <1>1, <1>4, BotKnown
<1>7. /\ v9[l].at # "off" /\ v14' = v14 /\ v1' = v1 /\ v2' \in 0..v4' /\ v4' \in 0..v1 /\ v5' \in Seq(Bot!Messages)
      /\ v10' \in [Bot!Messages -> Nat] /\ v16' \in [Bot!Messages -> Nat]
  BY <1>1
<1> QED
  BY <1>4, <1>5, <1>6, <1>7, BotBecomes

LEMMA BotLoops == ASSUME Bot!IInv, ~v14, NEW l \in Actors, Bot!Loops(l) \/ Bot!Dies(l) PROVE Bot!IInv'
<1>1. /\ v9[l].at = "top" /\ UNCHANGED <<v1, v2, v4, v5, v10, v11, v12, v13, v14, v16>>
      /\ v9' = [v9 EXCEPT ![l] = Bot!Off] \/ v9' = [v9 EXCEPT ![l] = Bot!Idle("poll")]
  BY DEF Bot!Loops, Bot!Dies, Bot!At, Bot!Become
<1> QED
  BY <1>1, BotGoesIdle

LEMMA BotPollFails == ASSUME Bot!IInv, ~v14, NEW l \in Actors, Bot!PollFails(l) PROVE Bot!IInv'
<1>1. /\ v9[l].at \in {"poll", "batch"} /\ UNCHANGED <<v1, v2, v4, v5, v10, v11, v12, v13, v14, v16>>
      /\ v9' = [v9 EXCEPT ![l] = Bot!Idle("top")]
  BY DEF Bot!PollFails, Bot!At, Bot!Become
<1> QED
  BY <1>1, BotGoesIdle

\* What Telegram delivers beyond a message follows it.
LEMMA BotBeyond ==
    ASSUME NEW n \in Nat, v1 \in Nat, n <= v1, v1' = v1
    PROVE  Bot!Beyond(n) \in Seq(Nat) /\ Bot!Follows(Bot!Beyond(n), n)'
<1> DEFINE k == v1 - n
<1>1. k \in Nat /\ n + k = v1
  OBVIOUS
<1>2. Bot!Beyond(n) = [i \in 1..k |-> n + i]
  BY DEF Bot!Beyond
<1> DEFINE b == Bot!Beyond(n)
<1> HIDE DEF k, b
<1>3. b \in Seq(Nat) /\ Len(b) = k /\ \A i \in 1..k : b[i] = n + i
  BY <1>1, <1>2, BotBatch DEF b
<1>4. Bot!Beyond(n)' = b
  BY DEF Bot!Beyond, b
<1>5. Bot!Follows(b, n)
  BY <1>1, <1>3 DEF Bot!Follows
<1> QED
  BY <1>3, <1>4, <1>5 DEF Bot!Follows, b

\* A poll from a message that nothing beyond was answered too often.
LEMMA BotPollsFrom ==
    ASSUME Bot!IInv, ~v14, NEW l \in Actors, v9[l].at = "poll", NEW n \in Nat, n \in v2'..v4, v2' \in 0..v4,
           v9' = [v9 EXCEPT ![l] = Bot!Listener(IF Bot!Beyond(n) = <<>> THEN "top" ELSE "batch", Bot!Beyond(n), 0, <<>>)],
           UNCHANGED <<v1, v4, v5, v10, v11, v12, v13, v14>>, v16' \in [Bot!Messages -> Nat],
           \A u \in Bot!Messages : v16'[u] >= v16[u], Bot!Ahead(n)'
    PROVE  Bot!IInv'
<1>1. /\ v1 \in Nat /\ v4 \in 0..v1 /\ v2 \in 0..v4 /\ v5 \in Seq(Bot!Messages) /\ v10 \in [Bot!Messages -> Nat]
      /\ v16 \in [Bot!Messages -> Nat] /\ Bot!Ordered(v5) /\ 0 \notin v13 /\ v9[l].msg = 0
  BY BotAlone DEF Bot!InStep, Bot!InHand
<1>2. n <= v1 /\ v4 \in Nat /\ n <= v4 /\ \A u \in Bot!Messages : u \in Nat
  BY <1>1, BotAssumption DEF Bot!Messages
<1>3. Bot!Beyond(n) \in Seq(Nat) /\ Bot!Follows(Bot!Beyond(n), n)'
  BY <1>1, <1>2, BotBeyond
<1> DEFINE b == Bot!Beyond(n)
<1>4. PICK batch \in Seq(Nat) : batch = b
  BY <1>3
<1>5. Bot!Follows(batch, n)'
  <2>1. Bot!Beyond(n)' = Bot!Beyond(n)
    BY DEF Bot!Beyond
  <2> QED
    BY <1>3, <1>4, <2>1 DEF Bot!Follows
<1>6. Bot!Ahead(v4)'
  <2>1. Bot!Messages' = Bot!Messages
    BY DEF Bot!Messages
  <2>2. \A u \in Bot!Messages : u > v4' => u > n
    BY <1>2
  <2> QED
    BY <2>1, <2>2 DEF Bot!Ahead, Bot!Before
<1>7. Bot!Ordered(v5)'
  <2>1. \A u \in Bot!Messages : v16'[u] = 0 => v16[u] = 0
    BY <1>1
  <2>2. \A i \in 1..Len(v5) : v5[i] \in Bot!Messages
    BY <1>1
  <2>3. ASSUME NEW i \in 1..Len(v5), NEW j \in 1..Len(v5), i < j, v16'[v5[j]] = 0
        PROVE  v5[i] < v5[j]
    <3>1. v16[v5[j]] = 0
      BY <2>1, <2>2, <2>3
    <3> QED
      BY <1>1, <2>3, <3>1 DEF Bot!Ordered
  <2> QED
    BY <2>3 DEF Bot!Ordered
<1>8. /\ \A u \in Bot!Messages : v10'[u] <= 1 + v16'[u]
      /\ \A u \in 1..v4' : u \in v11' \cup v12'
      /\ \A u \in v13' : u \in v12'
  <2>1. v9[l].at # "off"
    OBVIOUS
  <2>2. /\ \A u \in Bot!Messages : v10[u] <= 1 + v16[u]
        /\ \A u \in 1..v4 : u \in v11 \cup v12 \/ u = 0
        /\ \A u \in v13 : u \in v12 \/ u = 0
    BY <1>1, <2>1, BotKnown
  <2>3. \A u \in 1..v4 : u # 0
    BY <1>1
  <2>4. \A u \in Bot!Messages : v10[u] <= 1 + v16'[u]
    <3> SUFFICES ASSUME NEW u \in Bot!Messages PROVE v10[u] <= 1 + v16'[u]
      OBVIOUS
    <3>1. v10[u] \in Nat /\ v16[u] \in Nat /\ v16'[u] \in Nat /\ v16'[u] >= v16[u] /\ v10[u] <= 1 + v16[u]
      BY <1>1, <2>2
    <3> QED
      BY <3>1
  <2> QED
    BY <1>1, <2>2, <2>3, <2>4
<1>9. /\ v9[l].at # "off" /\ v14' = v14 /\ v1' = v1 /\ v2' \in 0..v4' /\ v4' \in 0..v1 /\ v5' \in Seq(Bot!Messages)
      /\ v10' \in [Bot!Messages -> Nat] /\ n \in v2'..v4' /\ 0 \notin v13'
  BY <1>1
<1>10. v9' = [v9 EXCEPT ![l] = Bot!Listener(IF batch = <<>> THEN "top" ELSE "batch", batch, 0, <<>>)]
  BY <1>4
<1> QED
  BY <1>5, <1>6, <1>7, <1>8, <1>9, <1>10, BotGoesOn

LEMMA BotPolls == ASSUME Bot!IInv, ~v14, NEW l \in Actors, Bot!Polls(l) PROVE Bot!IInv'
<1>1. v9[l].at = "poll"
  BY DEF Bot!Polls, Bot!At
<1>2. v4 \in Nat /\ v2 \in 0..v4 /\ Bot!Ahead(v4) /\ v16 \in [Bot!Messages -> Nat]
  BY <1>1, BotAlone
<1>3. PICK n \in Nat : n = v4
  BY <1>2
<1>4. (IF v4 > v2 THEN v4 ELSE v2) = n
  BY <1>2, <1>3
<1>5. /\ v2' = n /\ UNCHANGED <<v1, v4, v5, v10, v11, v12, v13, v14, v16>>
      /\ v9' = [v9 EXCEPT ![l] = Bot!Listener(IF Bot!Beyond(n) = <<>> THEN "top" ELSE "batch", Bot!Beyond(n), 0, <<>>)]
  BY <1>4 DEF Bot!Polls, Bot!GoesOn, Bot!Become
<1>6. n \in v2'..v4 /\ v2' \in 0..v4 /\ Bot!Ahead(n) /\ \A u \in Bot!Messages : v16'[u] >= v16[u]
  BY <1>2, <1>3, <1>5
<1>7. Bot!Ahead(n)'
  BY <1>5, <1>6, BotAhead
<1> QED
  BY <1>1, <1>2, <1>5, <1>6, <1>7, BotPollsFrom

LEMMA BotPollsBlind == ASSUME Bot!IInv, ~v14, NEW l \in Actors, Bot!PollsBlind(l) PROVE Bot!IInv'
<1>1. v9[l].at = "poll"
  BY DEF Bot!PollsBlind, Bot!At
<1>2. /\ v4 \in Nat /\ v2 \in 0..v4 /\ Bot!Ahead(v4) /\ v16 \in [Bot!Messages -> Nat] /\ v10 \in [Bot!Messages -> Nat]
  BY <1>1, BotAlone
<1>3. PICK n \in Nat : n = v2
  BY <1>2
<1>4. /\ v2' = n /\ UNCHANGED <<v1, v4, v5, v10, v11, v12, v13, v14>>
      /\ v16' = [u \in Bot!Messages |-> IF u \in (n + 1)..v4 THEN v16[u] + 1 ELSE v16[u]]
      /\ v9' = [v9 EXCEPT ![l] = Bot!Listener(IF Bot!Beyond(n) = <<>> THEN "top" ELSE "batch", Bot!Beyond(n), 0, <<>>)]
  BY <1>3 DEF Bot!PollsBlind, Bot!GoesOn, Bot!Become
<1>5. n \in v2'..v4 /\ v2' \in 0..v4 /\ v16' \in [Bot!Messages -> Nat] /\ \A u \in Bot!Messages : v16'[u] >= v16[u]
  <2>1. n \in v2'..v4 /\ v2' \in 0..v4
    BY <1>2, <1>3, <1>4
  <2>2. \A u \in Bot!Messages : v16[u] \in Nat
    BY <1>2
  <2> QED
    BY <1>4, <2>1, <2>2
<1>6. \A u \in Bot!Messages : v10[u] <= 1 + v16[u] /\ v10[u] \in Nat /\ v16[u] \in Nat /\ u \in Nat
  BY <1>1, <1>2, BotKnown, BotAssumption DEF Bot!Messages
<1>7. ASSUME NEW u \in Bot!Messages, u > n
      PROVE  v10[u] <= v16'[u] /\ (v16'[u] = 0 => \A i \in 1..Len(v5) : v5[i] < u)
  <2>1. CASE u \in (n + 1)..v4
    <3>1. v16'[u] = v16[u] + 1
      BY <1>4, <2>1
    <3> QED
      BY <1>6, <3>1
  <2>2. CASE u \notin (n + 1)..v4
    <3>1. u > v4
      BY <1>2, <1>6, <1>7, <2>2
    <3>2. v16'[u] = v16[u]
      BY <1>4, <2>2
    <3> QED
      BY <1>2, <3>1, <3>2 DEF Bot!Ahead, Bot!Before
  <2> QED
    BY <2>1, <2>2
<1>8. Bot!Ahead(n)'
  BY <1>4, <1>7 DEF Bot!Ahead, Bot!Before, Bot!Messages
<1> QED
  BY <1>1, <1>4, <1>5, <1>8, BotPollsFrom

LEMMA BotTakes == ASSUME Bot!IInv, ~v14, NEW l \in Actors, Bot!Takes(l) PROVE Bot!IInv'
<1> DEFINE b == v9[l].batch
           u == Head(b)
           rest == Tail(b)
<1>1. /\ v9[l].at = "batch" /\ v4' = u /\ UNCHANGED <<v1, v2, v5, v10, v12, v13, v14, v16>>
      /\ \/ v11' = v11 \cup {u} /\ v9' = [v9 EXCEPT ![l] = Bot!Listener(IF rest = <<>> THEN "top" ELSE "batch", rest, 0, <<>>)]
         \/ v11' = v11 /\ v9' = [v9 EXCEPT ![l] = Bot!Listener("answer", rest, u, <<>>)]
  BY DEF Bot!Takes, Bot!At, Bot!Become, Bot!GoesOn, Bot!Remembered
<1>2. /\ v1 \in Nat /\ v4 \in 0..v1 /\ v2 \in 0..v4 /\ v5 \in Seq(Bot!Messages) /\ v10 \in [Bot!Messages -> Nat]
      /\ v16 \in [Bot!Messages -> Nat] /\ Bot!Ordered(v5) /\ 0 \notin v13
      /\ v9[l].msg = 0 /\ b \in Seq(Nat) /\ b # <<>> /\ 1..v1 \subseteq Bot!Messages
      /\ \E n \in v2..v4 : Bot!Follows(b, n) /\ Bot!Ahead(n)
  <2>1. v9[l] \in Bot!Listeners /\ Bot!InStep(v9[l])
    BY <1>1, BotAlone
  <2> QED
    BY <1>1, <2>1, BotAlone DEF Bot!InStep, Bot!InHand, Bot!Listeners
<1>3. PICK n \in v2..v4 : Bot!Follows(b, n) /\ Bot!Ahead(n)
  BY <1>2
<1>4. /\ u = b[1] /\ rest \in Seq(Nat) /\ Len(rest) = Len(b) - 1 /\ Len(b) \in Nat \ {0}
      /\ \A i \in 1..(Len(b) - 1) : rest[i] = b[i + 1]
  BY <1>2, BotTail
<1>5. n \in Nat /\ n + Len(b) <= v1 /\ \A i \in 1..Len(b) : b[i] = n + i
  BY <1>2, <1>3 DEF Bot!Follows
<1> DEFINE k == Len(b)
<1>6. k \in Nat \ {0} /\ n + k <= v1 /\ Len(rest) = k - 1
  BY <1>4, <1>5
<1>7. u = n + 1 /\ \A i \in 1..(k - 1) : rest[i] = n + 1 + i
  <2>1. \A i \in 1..k : b[i] = n + i
    BY <1>5
  <2>2. \A i \in 1..(k - 1) : rest[i] = b[i + 1]
    BY <1>4
  <2>3. u = b[1]
    BY <1>4
  <2> HIDE DEF b, k, u, rest
  <2>4. 1 \in 1..k
    BY <1>6
  <2>5. ASSUME NEW i \in 1..(k - 1) PROVE rest[i] = n + 1 + i
    <3>1. i + 1 \in 1..k
      BY <1>6
    <3>2. rest[i] = n + (i + 1)
      BY <2>1, <2>2, <3>1
    <3> QED
      BY <1>5, <3>2
  <2> QED
    BY <2>1, <2>3, <2>4, <2>5
<1> HIDE DEF b, k, u, rest
<1>8. v4' = n + 1 /\ v4' \in 1..v1 /\ u \in Nat /\ u \in Bot!Messages
  BY <1>1, <1>2, <1>5, <1>6, <1>7
<1>9. PICK c \in Nat, s \in Seq(Nat) : c = n + 1 /\ c = v4' /\ v4' - 1 = n /\ s = rest
  <2>1. n + 1 \in Nat /\ (n + 1) - 1 = n
    BY <1>5
  <2> QED
    BY <1>4, <1>8, <2>1
<1>10. Bot!Follows(s, c)'
  <2>1. c + Len(s) <= v1
    BY <1>2, <1>5, <1>6, <1>9
  <2>2. \A i \in 1..Len(s) : s[i] = c + i
    BY <1>6, <1>7, <1>9
  <2> QED
    BY <1>1, <2>1, <2>2 DEF Bot!Follows
<1>11. Bot!Ahead(n)'
  BY <1>1, <1>3, <1>5, BotAhead
<1>12. Bot!Ahead(c)' /\ Bot!Ahead(v4)' /\ Bot!Ahead(v4 - 1)'
  <2>1. \A m \in Bot!Messages : m \in Nat /\ (m > c => m > n)
    BY <1>5, <1>9, BotAssumption DEF Bot!Messages
  <2>2. Bot!Messages' = Bot!Messages
    BY DEF Bot!Messages
  <2>3. Bot!Ahead(c)'
    BY <1>11, <2>1, <2>2 DEF Bot!Ahead, Bot!Before
  <2> QED
    BY <1>9, <1>11, <2>3 DEF Bot!Ahead, Bot!Before
<1>13. /\ v9[l].at # "off" /\ v14' = v14 /\ v1' = v1 /\ v2' \in 0..v4' /\ v4' \in 0..v1 /\ v5' \in Seq(Bot!Messages)
       /\ v10' \in [Bot!Messages -> Nat] /\ v16' \in [Bot!Messages -> Nat] /\ 0 \notin v13' /\ v4' > v2'
       /\ Bot!Ordered(v5)'
  <2>1. v2' \in 0..v4' /\ v4' \in 0..v1 /\ v4' > v2'
    BY <1>1, <1>2, <1>5, <1>8
  <2> QED
    BY <1>1, <1>2, <2>1 DEF Bot!Ordered
<1>14. /\ \A m \in Bot!Messages : v10'[m] <= 1 + v16'[m]
       /\ \A m \in 1..v4 : m \in v11 \cup v12
       /\ \A m \in v13 : m \in v12
  <2>1. \A m \in 1..v4 : m # 0
    BY <1>2
  <2> QED
    BY <1>1, <1>2, <1>13, <2>1, BotKnown
<1>15. \A m \in 1..v4' : m \in 1..v4 \/ m = u
  <2>1. n \in v2..v4 /\ v4 \in Nat /\ v2 \in Nat
    BY <1>2
  <2> QED
    BY <1>5, <1>7, <1>8, <2>1
<1>16. CASE v11' = v11 \cup {u} /\ v9' = [v9 EXCEPT ![l] = Bot!Listener(IF rest = <<>> THEN "top" ELSE "batch", rest, 0, <<>>)]
  <2>1. \A m \in 1..v4' : m \in v11' \cup v12'
    BY <1>1, <1>14, <1>15, <1>16
  <2>2. \A m \in v13' : m \in v12'
    BY <1>1, <1>14
  <2>3. c \in v2'..v4'
    BY <1>9, <1>13
  <2>4. v9' = [v9 EXCEPT ![l] = Bot!Listener(IF s = <<>> THEN "top" ELSE "batch", s, 0, <<>>)]
    BY <1>9, <1>16
  <2> QED
    BY <1>9, <1>10, <1>12, <1>13, <1>14, <2>1, <2>2, <2>3, <2>4, BotGoesOn
<1>17. CASE v11' = v11 /\ v9' = [v9 EXCEPT ![l] = Bot!Listener("answer", rest, u, <<>>)]
  <2>1. "answer" \in {"top", "poll", "batch"} \cup Bot!InHand /\ <<>> \in Seq(Bot!Messages)
    BY BotOff DEF Bot!InHand
  <2> DEFINE rec == Bot!Listener("answer", rest, u, <<>>)
  <2>2. rec \in Bot!Listeners /\ rec.at = "answer" /\ rec.batch = rest /\ rec.msg = u
    BY <1>4, <1>8, <2>1, BotListener DEF Bot!Listener, Bot!Listeners
  <2>3. v9' = [v9 EXCEPT ![l] = rec]
    BY <1>17
  <2> HIDE DEF rec
  <2>4. PICK r \in Bot!Listeners : r = rec
    BY <2>2
  <2>5. Bot!Follows(s, v4)' /\ (v4' \in v13' => v4' \in v12')
    BY <1>1, <1>9, <1>10, <1>14 DEF Bot!Follows
  <2>6. Bot!InStep(r)'
    BY <1>1, <1>9, <1>12, <1>13, <2>2, <2>4, <2>5 DEF Bot!InStep, Bot!InHand
  <2>7. v9' = [v9 EXCEPT ![l] = r] /\ r.msg = u
    BY <2>2, <2>3, <2>4
  <2>8. \A m \in 1..v4' : m \in v11' \cup v12' \/ m = r.msg
    BY <1>1, <1>14, <1>15, <1>17, <2>7
  <2>9. \A m \in v13' : m \in v12' \/ m = r.msg
    BY <1>1, <1>14
  <2> QED
    BY <1>12, <1>13, <1>14, <2>6, <2>7, <2>8, <2>9, BotBecomes
<1> QED
  BY <1>1, <1>16, <1>17

\* What a state says of a listener with a message in hand.
LEMMA BotHolds ==
    ASSUME Bot!IInv, ~v14, NEW l \in Actors, v9[l].at \in Bot!InHand
    PROVE  /\ v9[l].at # "off" /\ v9[l].msg = v4 /\ v4 \in 1..v1 /\ v1 \in Nat /\ v2 \in 0..v4 /\ v4 \in Bot!Messages
           /\ v5 \in Seq(Bot!Messages) /\ v10 \in [Bot!Messages -> Nat] /\ v16 \in [Bot!Messages -> Nat]
           /\ Bot!Ahead(v4) /\ Bot!Ordered(v5) /\ 0 \notin v13 /\ v4 > v2
           /\ v9[l] \in Bot!Listeners /\ v9[l].batch \in Seq(Nat) /\ v9[l].seen \in Seq(Bot!Messages)
           /\ Bot!Follows(v9[l].batch, v4) /\ Bot!InStep(v9[l])
<1>1. v9[l].at # "off" /\ v9[l].at # "batch"
  BY DEF Bot!InHand
<1>2. /\ v9[l] \in Bot!Listeners /\ Bot!InStep(v9[l]) /\ v1 \in Nat /\ v4 \in 0..v1 /\ v2 \in 0..v4
      /\ 1..v1 \subseteq Bot!Messages /\ v5 \in Seq(Bot!Messages) /\ v10 \in [Bot!Messages -> Nat]
      /\ v16 \in [Bot!Messages -> Nat] /\ Bot!Ahead(v4) /\ Bot!Ordered(v5) /\ 0 \notin v13
  BY <1>1, BotAlone
<1>3. v9[l].msg = v4 /\ v4 > v2 /\ Bot!Follows(v9[l].batch, v4)
  BY <1>1, <1>2 DEF Bot!InStep
<1>4. v4 \in 1..v1 /\ v4 \in Bot!Messages
  BY <1>2, <1>3
<1> QED
  BY <1>1, <1>2, <1>3, <1>4 DEF Bot!Listeners

\* The message in hand has a reply to spare while it has not had one.
LEMMA BotSpare ==
    ASSUME Bot!IInv, ~v14, NEW l \in Actors, v9[l].at \in {"answer", "reply"}
    PROVE  v10[v4] <= v16[v4]
<1>1. v9[l].at \in Bot!InHand
  BY DEF Bot!InHand
<1>2. v4 \in Nat /\ v4 \in Bot!Messages /\ Bot!Ahead(v4 - 1)
  BY <1>1, BotHolds DEF Bot!InStep
<1>3. v4 > v4 - 1
  BY <1>2
<1> QED
  BY <1>2, <1>3 DEF Bot!Ahead

\* The message in hand is dealt with.
LEMMA BotDeals ==
    ASSUME Bot!IInv, ~v14, NEW l \in Actors, v9[l].at \in Bot!InHand,
           v9' = [v9 EXCEPT ![l] = Bot!Listener(IF v9[l].batch = <<>> THEN "top" ELSE "batch", v9[l].batch, 0, <<>>)],
           v11' = v11 \cup {v9[l].msg}, UNCHANGED <<v1, v2, v4, v14, v16>>, v12 \subseteq v12', v13' \subseteq v13,
           \/ v10' = v10
           \/ v9[l].at = "answer" /\ v10' = [v10 EXCEPT ![v9[l].msg] = v10[v9[l].msg] + 1],
           v5' = v5 \/ v5' = <<>>,
           v9[l].msg \in v13' => v9[l].msg \in v12'
    PROVE  Bot!IInv'
<1>1. /\ v9[l].at # "off" /\ v9[l].msg = v4 /\ v4 \in 1..v1 /\ v1 \in Nat /\ v2 \in 0..v4 /\ v4 \in Bot!Messages
      /\ v5 \in Seq(Bot!Messages) /\ v10 \in [Bot!Messages -> Nat] /\ v16 \in [Bot!Messages -> Nat]
      /\ Bot!Ahead(v4) /\ Bot!Ordered(v5) /\ 0 \notin v13
      /\ v9[l].batch \in Seq(Nat) /\ Bot!Follows(v9[l].batch, v4)
  BY BotHolds
<1>2. PICK n \in Nat : n = v4
  BY <1>1
<1>3. PICK batch \in Seq(Nat) : batch = v9[l].batch
  BY <1>1
<1>4. \A u \in Bot!Messages : v10[u] <= 1 + v16[u]
  BY <1>1, BotKnown
<1>5. /\ v10' \in [Bot!Messages -> Nat]
      /\ \A u \in Bot!Messages : u # v4 => v10'[u] = v10[u]
      /\ v10'[v4] <= 1 + v16[v4]
  <2>1. CASE v10' = v10
    BY <1>1, <1>4, <2>1
  <2>2. CASE v9[l].at = "answer" /\ v10' = [v10 EXCEPT ![v9[l].msg] = v10[v9[l].msg] + 1]
    <3>1. v10[v4] <= v16[v4] /\ v10[v4] \in Nat /\ v16[v4] \in Nat
      BY <1>1, <2>2, BotSpare
    <3>2. v10' = [v10 EXCEPT ![v4] = v10[v4] + 1]
      BY <1>1, <2>2
    <3> QED
      BY <1>1, <3>1, <3>2
  <2> QED
    BY <2>1, <2>2
<1>6. Bot!Ahead(n)'
  <2>1. \A u \in Bot!Messages : u > n => v10'[u] = v10[u]
    BY <1>2, <1>5
  <2>2. v5' = <<>> => Bot!Before(v5, n)'
    BY BotOff DEF Bot!Before
  <2>3. Bot!Ahead(n)
    BY <1>1, <1>2
  <2> QED
    BY <2>1, <2>2, <2>3, BotAhead
<1>7. Bot!Ahead(v4)'
  BY <1>2, <1>6 DEF Bot!Ahead, Bot!Before
<1>8. Bot!Ordered(v5)' /\ v5' \in Seq(Bot!Messages)
  BY <1>1, BotOff DEF Bot!Ordered
<1>9. Bot!Follows(batch, n)'
  BY <1>1, <1>2, <1>3 DEF Bot!Follows
<1>10. /\ \A u \in Bot!Messages : v10'[u] <= 1 + v16'[u]
       /\ \A u \in 1..v4' : u \in v11' \cup v12'
       /\ \A u \in v13' : u \in v12'
  <2>1. \A u \in v13 : u \in v12 \/ u = v4
    BY <1>1, BotKnown
  <2>2. \A u \in 1..v4 : u \in v11 \cup v12 \/ u = v4
    BY <1>1, BotKnown
  <2>3. \A u \in Bot!Messages : v10'[u] <= 1 + v16[u]
    BY <1>1, <1>4, <1>5
  <2> QED
    BY <1>1, <2>1, <2>2, <2>3
<1>11. v14' = v14 /\ v1' = v1 /\ v2' \in 0..v4' /\ v4' \in 0..v1 /\ n \in v2'..v4' /\ v16' \in [Bot!Messages -> Nat] /\ 0 \notin v13'
  BY <1>1, <1>2
<1>12. v9' = [v9 EXCEPT ![l] = Bot!Listener(IF batch = <<>> THEN "top" ELSE "batch", batch, 0, <<>>)]
  BY <1>3
<1> QED
  BY <1>1, <1>5, <1>6, <1>7, <1>8, <1>9, <1>10, <1>11, <1>12, BotGoesOn

LEMMA BotResets == ASSUME Bot!IInv, ~v14, NEW l \in Actors, Bot!Resets(l) \/ Bot!Declines(l) PROVE Bot!IInv'
<1>1. /\ v9[l].at = "answer" /\ v5' \in {v5, <<>>} /\ v11' = v11 \cup {v9[l].msg} /\ UNCHANGED <<v1, v2, v4, v12, v13, v14, v16>>
      /\ v10' = [v10 EXCEPT ![v9[l].msg] = v10[v9[l].msg] + 1]
      /\ v9' = [v9 EXCEPT ![l] = Bot!Listener(IF v9[l].batch = <<>> THEN "top" ELSE "batch", v9[l].batch, 0, <<>>)]
  BY DEF Bot!Resets, Bot!Declines, Bot!At, Bot!Deals, Bot!GoesOn, Bot!Become, Bot!Replied
<1>2. v9[l].at \in Bot!InHand
  BY <1>1 DEF Bot!InHand
<1>3. v9[l].msg \in v13 => v9[l].msg \in v12
  BY <1>1, <1>2, BotHolds DEF Bot!InStep
<1>4. v12 \subseteq v12' /\ v13' \subseteq v13 /\ (v5' = v5 \/ v5' = <<>>) /\ (v9[l].msg \in v13' => v9[l].msg \in v12')
  BY <1>1, <1>3
<1> QED
  BY <1>1, <1>2, <1>4, BotDeals

LEMMA BotReplyFails == ASSUME Bot!IInv, ~v14, NEW l \in Actors, Bot!ReplyFails(l) PROVE Bot!IInv'
<1>1. /\ v9[l].at = "reply" /\ v11' = v11 \cup {v9[l].msg} /\ UNCHANGED <<v1, v2, v4, v5, v10, v12, v13, v14, v16>>
      /\ v9' = [v9 EXCEPT ![l] = Bot!Listener(IF v9[l].batch = <<>> THEN "top" ELSE "batch", v9[l].batch, 0, <<>>)]
  BY DEF Bot!ReplyFails, Bot!At, Bot!Deals, Bot!GoesOn, Bot!Become
<1>2. v9[l].at \in Bot!InHand
  BY <1>1 DEF Bot!InHand
<1>3. v9[l].msg \in v13 => v9[l].msg \in v12
  BY <1>1, <1>2, BotHolds DEF Bot!InStep
<1>4. v12 \subseteq v12' /\ v13' \subseteq v13 /\ (v9[l].msg \in v13' => v9[l].msg \in v12')
  BY <1>1, <1>3
<1> QED
  BY <1>1, <1>2, <1>4, BotDeals

LEMMA BotCharges == ASSUME Bot!IInv, ~v14, NEW l \in Actors, Bot!Charges(l) PROVE Bot!IInv'
<1>1. /\ v9[l].at = "charge" /\ v11' = v11 \cup {v9[l].msg} /\ UNCHANGED <<v1, v2, v4, v5, v10, v12, v14, v16>>
      /\ v13' = v13 \ {v9[l].msg}
      /\ v9' = [v9 EXCEPT ![l] = Bot!Listener(IF v9[l].batch = <<>> THEN "top" ELSE "batch", v9[l].batch, 0, <<>>)]
  BY DEF Bot!Charges, Bot!At, Bot!Deals, Bot!GoesOn, Bot!Become
<1>2. v9[l].at \in Bot!InHand
  BY <1>1 DEF Bot!InHand
<1>3. v12 \subseteq v12' /\ v13' \subseteq v13 /\ v9[l].msg \notin v13'
  BY <1>1
<1> QED
  BY <1>1, <1>2, <1>3, BotDeals

LEMMA BotCutShort == ASSUME Bot!IInv, ~v14, NEW l \in Actors, Bot!CutShort(l) PROVE Bot!IInv'
<1>1. /\ v9[l].at \in {"save", "charge"} /\ v11' = v11 \cup {v9[l].msg} /\ UNCHANGED <<v1, v2, v4, v5, v10, v13, v14, v16>>
      /\ v12' = v12 \cup {v9[l].msg}
      /\ v9' = [v9 EXCEPT ![l] = Bot!Listener(IF v9[l].batch = <<>> THEN "top" ELSE "batch", v9[l].batch, 0, <<>>)]
  BY DEF Bot!CutShort, Bot!At, Bot!Deals, Bot!GoesOn, Bot!Become
<1>2. v9[l].at \in Bot!InHand
  BY <1>1 DEF Bot!InHand
<1>3. v12 \subseteq v12' /\ v13' \subseteq v13 /\ v9[l].msg \in v12'
  BY <1>1
<1> QED
  BY <1>1, <1>2, <1>3, BotDeals

\* The listener gets to the next stage of its answer.
LEMMA BotServes ==
    ASSUME Bot!IInv, ~v14, NEW l \in Actors, v9[l].at \in Bot!InHand,
           NEW stage \in {"reply", "save", "charge"}, NEW seen \in Seq(Bot!Messages),
           v9' = [v9 EXCEPT ![l] = Bot!Listener(stage, v9[l].batch, v9[l].msg, seen)],
           UNCHANGED <<v1, v2, v4, v11, v12, v14, v16>>,
           NEW kept \in Seq(Bot!Messages), v5' = kept, Bot!Ordered(kept), kept = v5 \/ Bot!Before(kept, v4),
           v13' = v13 \/ v13' = v13 \cup {v4},
           v10' = v10 \/ (v9[l].at = "reply" /\ v10' = [v10 EXCEPT ![v4] = v10[v4] + 1]),
           stage = "reply" => v9[l].at = "answer" /\ v13' = v13 /\ v5' = v5,
           stage \in {"reply", "save"} => Bot!Ordered(seen) /\ Bot!Before(seen, v4 - 1)
    PROVE  Bot!IInv'
<1>1. /\ v9[l].at # "off" /\ v9[l].msg = v4 /\ v4 \in 1..v1 /\ v1 \in Nat /\ v2 \in 0..v4 /\ v4 \in Bot!Messages
      /\ v5 \in Seq(Bot!Messages) /\ v10 \in [Bot!Messages -> Nat] /\ v16 \in [Bot!Messages -> Nat]
      /\ Bot!Ahead(v4) /\ Bot!Ordered(v5) /\ 0 \notin v13 /\ v4 > v2
      /\ v9[l].batch \in Seq(Nat) /\ Bot!Follows(v9[l].batch, v4) /\ Bot!InStep(v9[l])
  BY BotHolds
<1> DEFINE rec == Bot!Listener(stage, v9[l].batch, v9[l].msg, seen)
<1>2. rec \in Bot!Listeners /\ rec.at = stage /\ rec.batch = v9[l].batch /\ rec.msg = v4 /\ rec.seen = seen
  <2>1. stage \in {"top", "poll", "batch"} \cup Bot!InHand /\ v9[l].msg \in Nat
    BY <1>1 DEF Bot!InHand
  <2>2. rec \in Bot!Listeners /\ rec.at = stage /\ rec.batch = v9[l].batch /\ rec.msg = v9[l].msg /\ rec.seen = seen
    BY <1>1, <2>1, BotListener DEF Bot!Listener, Bot!Listeners
  <2> QED
    BY <1>1, <2>2
<1>3. v9' = [v9 EXCEPT ![l] = rec]
  OBVIOUS
<1> HIDE DEF rec
<1>4. PICK r \in Bot!Listeners : r = rec
  BY <1>2
<1>5. r.at = stage /\ r.batch = v9[l].batch /\ r.msg = v4 /\ r.seen = seen /\ v9' = [v9 EXCEPT ![l] = r]
  BY <1>2, <1>3, <1>4
<1>6. \A u \in Bot!Messages : v10[u] <= 1 + v16[u]
  BY <1>1, BotKnown
<1>7. /\ v10' \in [Bot!Messages -> Nat]
      /\ \A u \in Bot!Messages : u # v4 => v10'[u] = v10[u]
      /\ v10'[v4] <= 1 + v16[v4]
  <2>1. CASE v10' = v10
    BY <1>1, <1>6, <2>1
  <2>2. CASE v9[l].at = "reply" /\ v10' = [v10 EXCEPT ![v4] = v10[v4] + 1]
    <3>1. v10[v4] <= v16[v4] /\ v10[v4] \in Nat /\ v16[v4] \in Nat
      BY <1>1, <2>2, BotSpare
    <3> QED
      BY <1>1, <2>2, <3>1
  <2> QED
    BY <2>1, <2>2
<1>8. PICK n \in Nat : n = v4
  BY <1>1
<1>9. Bot!Ahead(n)'
  <2>1. \A u \in Bot!Messages : u > n => v10'[u] = v10[u]
    BY <1>7, <1>8
  <2>2. v5' = v5 \/ Bot!Before(v5, n)'
    BY <1>8 DEF Bot!Before, Bot!Messages
  <2>3. Bot!Ahead(n)
    BY <1>1, <1>8
  <2> QED
    BY <2>1, <2>2, <2>3, BotAhead
<1>10. Bot!Ahead(v4)' /\ Bot!Ordered(v5)'
  BY <1>8, <1>9 DEF Bot!Ahead, Bot!Before, Bot!Ordered
<1>11. stage = "reply" => Bot!Ahead(v4 - 1)' /\ (v4' \in v13' => v4' \in v12')
  <2> SUFFICES ASSUME stage = "reply" PROVE Bot!Ahead(v4 - 1)' /\ (v4' \in v13' => v4' \in v12')
    OBVIOUS
  <2>1. v9[l].at = "answer" /\ v13' = v13 /\ v5' = v5 /\ v10' = v10
    OBVIOUS
  <2>2. Bot!Ahead(v4 - 1) /\ (v4 \in v13 => v4 \in v12)
    BY <1>1, <2>1 DEF Bot!InStep
  <2> QED
    BY <2>1, <2>2 DEF Bot!Ahead, Bot!Before, Bot!Messages
<1>12. Bot!InStep(r)'
  <2>1. stage # "off" /\ stage # "batch" /\ stage # "answer" /\ stage \in Bot!InHand
    BY DEF Bot!InHand
  <2>2. Bot!Follows(r.batch, v4)'
    BY <1>1, <1>5 DEF Bot!Follows
  <2>3. stage \in {"reply", "save"} => Bot!Ordered(r.seen)' /\ Bot!Before(r.seen, v4 - 1)'
    BY <1>5 DEF Bot!Ordered, Bot!Before, Bot!Messages
  <2> QED
    BY <1>1, <1>5, <1>11, <2>1, <2>2, <2>3 DEF Bot!InStep
<1>13. /\ \A u \in Bot!Messages : v10'[u] <= 1 + v16'[u]
       /\ \A u \in 1..v4' : u \in v11' \cup v12' \/ u = r.msg
       /\ \A u \in v13' : u \in v12' \/ u = r.msg
  <2>1. \A u \in v13 : u \in v12 \/ u = v4
    BY <1>1, BotKnown
  <2>2. \A u \in 1..v4 : u \in v11 \cup v12 \/ u = v4
    BY <1>1, BotKnown
  <2>3. \A u \in Bot!Messages : v10'[u] <= 1 + v16[u]
    BY <1>6, <1>7
  <2> QED
    BY <1>5, <2>1, <2>2, <2>3
<1>14. v14' = v14 /\ v1' = v1 /\ v2' \in 0..v4' /\ v4' \in 0..v1 /\ v16' \in [Bot!Messages -> Nat] /\ 0 \notin v13'
  BY <1>1
<1> QED
  BY <1>1, <1>5, <1>7, <1>10, <1>12, <1>13, <1>14, BotBecomes

LEMMA BotRuns == ASSUME Bot!IInv, ~v14, NEW l \in Actors, Bot!Runs(l) PROVE Bot!IInv'
<1>1. PICK seen \in {v5, <<>>} :
      /\ v9[l].at = "answer" /\ UNCHANGED <<v1, v2, v4, v5, v10, v11, v12, v13, v14, v16>>
      /\ v9' = [v9 EXCEPT ![l] = Bot!Listener("reply", v9[l].batch, v9[l].msg, seen)]
  BY DEF Bot!Runs, Bot!At, Bot!Serves, Bot!Become
<1>2. v9[l].at \in Bot!InHand
  BY <1>1 DEF Bot!InHand
<1>3. v5 \in Seq(Bot!Messages) /\ Bot!Ordered(v5) /\ Bot!Before(v5, v4 - 1) /\ v4 - 1 \in Int
  BY <1>1, <1>2, BotHolds DEF Bot!InStep, Bot!Ahead
<1>4. seen \in Seq(Bot!Messages) /\ Bot!Ordered(seen) /\ Bot!Before(seen, v4 - 1)
  BY <1>1, <1>3, BotNothing, BotOff
<1>5. v5' = v5 /\ v13' = v13 /\ v10' = v10 /\ "reply" \in {"reply", "save", "charge"}
  BY <1>1
<1> QED
  BY <1>1, <1>2, <1>3, <1>4, <1>5, BotServes

LEMMA BotReplies == ASSUME Bot!IInv, ~v14, NEW l \in Actors, Bot!Replies(l) PROVE Bot!IInv'
<1>1. /\ v9[l].at = "reply" /\ UNCHANGED <<v1, v2, v4, v5, v11, v12, v14, v16>>
      /\ v10' = [v10 EXCEPT ![v9[l].msg] = v10[v9[l].msg] + 1] /\ v13' = v13 \cup {v9[l].msg}
      /\ v9' = [v9 EXCEPT ![l] = Bot!Listener("save", v9[l].batch, v9[l].msg, v9[l].seen)]
  BY DEF Bot!Replies, Bot!At, Bot!Serves, Bot!Become, Bot!Replied
<1>2. v9[l].at \in Bot!InHand
  BY <1>1 DEF Bot!InHand
<1>3. /\ v9[l].msg = v4 /\ v5 \in Seq(Bot!Messages) /\ Bot!Ordered(v5)
      /\ v9[l].seen \in Seq(Bot!Messages) /\ Bot!Ordered(v9[l].seen) /\ Bot!Before(v9[l].seen, v4 - 1)
  BY <1>1, <1>2, BotHolds DEF Bot!InStep
<1>4. v5' = v5 /\ v13' = v13 \cup {v4} /\ v10' = [v10 EXCEPT ![v4] = v10[v4] + 1] /\ "save" \in {"reply", "save", "charge"}
      /\ "save" # "reply"
  BY <1>1, <1>3
<1> QED
  BY <1>1, <1>2, <1>3, <1>4, BotServes

LEMMA BotSaves == ASSUME Bot!IInv, ~v14, NEW l \in Actors, Bot!Saves(l) PROVE Bot!IInv'
<1> DEFINE all == Append(v9[l].seen, v9[l].msg)
           kept == IF Len(all) > HistoryTurns THEN Tail(all) ELSE all
<1>1. /\ v9[l].at = "save" /\ UNCHANGED <<v1, v2, v4, v10, v11, v12, v13, v14, v16>> /\ v5' = kept
      /\ v9' = [v9 EXCEPT ![l] = Bot!Listener("charge", v9[l].batch, v9[l].msg, <<>>)]
  BY DEF Bot!Saves, Bot!At, Bot!Serves, Bot!Become
<1>2. v9[l].at \in Bot!InHand
  BY <1>1 DEF Bot!InHand
<1>3. /\ v9[l].msg = v4 /\ v4 \in Bot!Messages
      /\ v9[l].seen \in Seq(Bot!Messages) /\ Bot!Ordered(v9[l].seen) /\ Bot!Before(v9[l].seen, v4 - 1)
  BY <1>1, <1>2, BotHolds DEF Bot!InStep
<1>4. kept \in Seq(Bot!Messages) /\ Bot!Ordered(kept) /\ Bot!Before(kept, v4)
  BY <1>3, BotKept
<1> HIDE DEF kept
<1>5. "charge" \in {"reply", "save", "charge"} /\ "charge" \notin {"reply", "save"} /\ <<>> \in Seq(Bot!Messages)
      /\ v13' = v13 /\ v10' = v10
  BY <1>1, BotOff
<1> QED
  BY <1>1, <1>2, <1>4, <1>5, BotServes

LEMMA BotInductive == Bot!IInv /\ [Bot!Next]_(Bot!botVars) => Bot!IInv'
<1> SUFFICES ASSUME Bot!IInv, [Bot!Next]_(Bot!botVars) PROVE Bot!IInv'
  OBVIOUS
<1>1. CASE UNCHANGED Bot!botVars
  BY <1>1, BotUntouched DEF Bot!botVars
<1>2. CASE Bot!Next
  <2>1. ~v14
    BY <1>2 DEF Bot!Next
  <2>2. ASSUME NEW l \in Actors,
               \/ Bot!Supervises(l) \/ Bot!Loops(l) \/ Bot!Dies(l) \/ Bot!Polls(l) \/ Bot!PollsBlind(l)
               \/ Bot!PollFails(l) \/ Bot!Takes(l) \/ Bot!Resets(l) \/ Bot!Declines(l) \/ Bot!Runs(l)
               \/ Bot!Replies(l) \/ Bot!ReplyFails(l) \/ Bot!Saves(l) \/ Bot!Charges(l) \/ Bot!CutShort(l)
        PROVE  Bot!IInv'
    BY <2>1, <2>2, BotSupervises, BotLoops, BotPolls, BotPollsBlind, BotPollFails, BotTakes, BotResets, BotRuns,
       BotReplies, BotReplyFails, BotSaves, BotCharges, BotCutShort
  <2>3. CASE Bot!SupervisorEnds \/ Bot!Stops \/ Bot!Starts \/ Bot!Connects
    <3>1. UNCHANGED <<v1, v2, v4, v5, v9, v10, v11, v12, v13, v14, v16>>
      BY <2>3 DEF Bot!SupervisorEnds, Bot!Stops, Bot!Starts, Bot!Connects
    <3> QED
      BY <3>1, BotUntouched
  <2> QED
    BY <1>2, <2>1, <2>2, <2>3, BotWrites, BotCrashes DEF Bot!Next
<1> QED
  BY <1>1, <1>2

-----------------------------------------------------------------------------
(* The lifecycle of the modules. *)

\* The installable modules.  What is known of the requests, and what a step does to one.
LifeAts == {"idle", "copy", "copying", "load", "record", "note", "look", "wake", "unload", "stop", "delete"}
LifeReqs == [mod : Mods \cup {"none"}, aside : BOOLEAN, todo : Seq(SUBSET Mods),
             res : {"none", "loaded", "unmet", "failed"}, at : LifeAts]
LifeFits(r) ==
    /\ IF r.at \in {"idle", "wake"} THEN r.mod = "none" ELSE r.mod \in Mods
    /\ r.at \in {"wake", "stop"} => r.todo # <<>>
LifeRequests == v6 \in [Actors -> LifeReqs] /\ \A p \in Actors : LifeFits(v6[p])
LifeStages ==
    /\ v1 \in [Mods -> Modules!Dirs] /\ v2 \in [Mods -> Modules!Dirs]
    /\ v3 \in [Mods -> {"none", "on", "off"}] /\ v5 \in [Mods -> BOOLEAN] /\ v8 \in Nat /\ v10 \subseteq Mods
LifeFollowed == \A m \in Mods : Modules!Followed(m)
LifeCovered == \A m \in Mods \ v11 : Modules!Covered(m)

LEMMA LifeParts == Modules!IInv <=> LifeRequests /\ LifeStages /\ LifeFollowed /\ LifeCovered
  BY DEF Modules!IInv, Modules!LifecycleTypeOK, LifeRequests, LifeFits, LifeStages, LifeFollowed, LifeCovered,
         LifeReqs, LifeAts

\* Only request p moves, and how.
LifeMoves(p, m, where) ==
    /\ \A q \in Actors \ {p} : v6'[q] = v6[q]
    /\ v6'[p].mod = m /\ v6'[p].at = where

LEMMA LifeGoes ==
    ASSUME LifeRequests, NEW p \in Actors, NEW r \in LifeReqs, LifeFits(r), v6' = [v6 EXCEPT ![p] = r]
    PROVE  LifeRequests' /\ LifeMoves(p, r.mod, r.at)
<1>1. v6' \in [Actors -> LifeReqs] /\ v6'[p] = r /\ \A q \in Actors \ {p} : v6'[q] = v6[q]
  BY DEF LifeRequests
<1> QED
  BY <1>1 DEF LifeRequests, LifeMoves, LifeFits

LEMMA LifeStill == Modules!Still \in LifeReqs /\ Modules!Still.mod = "none" /\ Modules!Still.at = "idle" /\ LifeFits(Modules!Still)
  BY DEF Modules!Still, Modules!Request, LifeReqs, LifeAts, LifeFits

LEMMA LifeGoto ==
    ASSUME LifeRequests, NEW p \in Actors, NEW where \in LifeAts \ {"wake", "stop"}, Modules!Goto(p, where), v6[p].mod \in Mods
    PROVE  /\ LifeRequests'
           /\ where = "idle" => LifeMoves(p, "none", "idle")
           /\ where # "idle" => LifeMoves(p, v6[p].mod, where)
<1> DEFINE moved == IF where = "idle" THEN Modules!Still ELSE [v6[p] EXCEPT !.at = where]
<1>1. v6' = [v6 EXCEPT ![p] = moved]
  BY DEF Modules!Goto
<1>2. v6[p] \in LifeReqs
  BY DEF LifeRequests
<1>3. /\ moved \in LifeReqs /\ moved.at = where /\ LifeFits(moved)
      /\ where = "idle" => moved.mod = "none"
      /\ where # "idle" => moved.mod = v6[p].mod
  <2>1. CASE where = "idle"
    BY <2>1, LifeStill
  <2>2. CASE where # "idle"
    BY <1>2, <2>2 DEF LifeReqs, LifeFits
  <2> QED
    BY <2>1, <2>2
<1> HIDE DEF moved
<1>4. PICK r \in LifeReqs : r = moved
  BY <1>3
<1> QED
  BY <1>1, <1>3, <1>4, LifeGoes

\* A call ends, and its caller's loop goes on.
LEMMA LifeReturns ==
    ASSUME LifeRequests, NEW p \in Actors, Modules!Returns(p)
    PROVE  LifeRequests' /\ (LifeMoves(p, "none", "idle") \/ LifeMoves(p, "none", "wake"))
<1>1. v6[p].todo \in Seq(SUBSET Mods)
  BY DEF LifeRequests, LifeReqs
<1>2. CASE v6[p].todo = <<>>
  <2>1. v6' = [v6 EXCEPT ![p] = Modules!Still]
    BY <1>2 DEF Modules!Returns
  <2> QED
    BY <2>1, LifeStill, LifeGoes
<1>3. CASE v6[p].todo # <<>>
  <2>1. PICK r : r = Modules!Request("none", "wake", FALSE, v6[p].todo)
    OBVIOUS
  <2>2. r \in LifeReqs /\ r.mod = "none" /\ r.at = "wake" /\ r.todo = v6[p].todo
    BY <1>1, <2>1 DEF Modules!Request, LifeReqs, LifeAts
  <2>3. v6' = [v6 EXCEPT ![p] = r]
    BY <1>3, <2>1 DEF Modules!Returns
  <2>4. LifeFits(r)
    BY <1>3, <2>2 DEF LifeFits
  <2> QED
    BY <2>2, <2>3, <2>4, LifeGoes
<1> QED
  BY <1>2, <1>3

LEMMA LifeOutcome ==
    ASSUME LifeRequests, NEW p \in Actors, NEW res \in {"loaded", "unmet", "failed"}, Modules!Outcome(p, res), v6[p].mod \in Mods
    PROVE  LifeRequests' /\ LifeMoves(p, v6[p].mod, "record")
<1>1. v6[p] \in LifeReqs
  BY DEF LifeRequests
<1>2. PICK r : r = [v6[p] EXCEPT !.at = "record", !.res = res]
  OBVIOUS
<1>3. r \in LifeReqs /\ r.mod = v6[p].mod /\ r.at = "record"
  BY <1>1, <1>2 DEF LifeReqs, LifeAts
<1>4. v6' = [v6 EXCEPT ![p] = r]
  BY <1>2 DEF Modules!Outcome
<1>5. LifeFits(r)
  BY <1>3 DEF LifeFits
<1> QED
  BY <1>3, <1>4, <1>5, LifeGoes

LEMMA LifeBegin ==
    ASSUME LifeRequests, NEW p \in Actors, NEW m \in Mods, NEW where \in LifeAts \ {"idle", "wake", "stop"}, Modules!Begin(p, m, where)
    PROVE  LifeRequests' /\ LifeMoves(p, m, where) /\ v6[p].at = "idle"
<1> DEFINE aside == where = "copy" /\ v1[m] # "none"
<1>0. aside \in BOOLEAN /\ <<>> \in Seq(SUBSET Mods)
  OBVIOUS
<1>1. PICK r : r = Modules!Request(m, where, aside, <<>>)
  OBVIOUS
<1>2. v6' = [v6 EXCEPT ![p] = r] /\ v6[p].at = "idle"
  BY <1>1 DEF Modules!Begin, Modules!At
<1> HIDE DEF aside
<1>3. r \in LifeReqs /\ r.at = where /\ r.mod = m
  BY <1>0, <1>1 DEF Modules!Request, LifeReqs
<1>4. LifeFits(r)
  BY <1>3 DEF LifeFits
<1> QED
  BY <1>2, <1>3, <1>4, LifeGoes

\* A step of a request that replaces nothing before it or after it covers what it did.
LEMMA LifeCoverStays ==
    ASSUME LifeRequests, LifeCovered, NEW p \in Actors, NEW m, NEW where, LifeMoves(p, m, where),
           v6[p].at \notin {"copy", "copying"}, where \notin {"copy", "copying"},
           v1' = v1, v2' = v2, v8' = v8, v10' = v10, v11' = v11
    PROVE  LifeCovered'
<1> SUFFICES ASSUME NEW n \in Mods \ v11, Modules!Covered(n) PROVE Modules!Covered(n)'
  BY DEF LifeCovered
<1>1. ASSUME NEW q \in Actors
      PROVE  /\ v6'[q].mod = n /\ v6'[q].at = "copy" <=> v6[q].mod = n /\ v6[q].at = "copy"
             /\ v6'[q].mod = n /\ v6'[q].at = "copying" <=> v6[q].mod = n /\ v6[q].at = "copying"
  BY DEF LifeMoves
<1>2. ASSUME NEW q \in Actors PROVE Modules!Replaces(q, n)' <=> Modules!Replaces(q, n)
  BY <1>1 DEF Modules!Replaces
<1>3. Modules!Replacing(n)' <=> Modules!Replacing(n)
  BY <1>2 DEF Modules!Replacing
<1> QED
  BY <1>1, <1>2, <1>3 DEF Modules!Covered

LEMMA LifeInitially == Modules!Init => Modules!IInv
<1> SUFFICES ASSUME Modules!Init PROVE LifeRequests /\ LifeStages /\ LifeFollowed /\ LifeCovered
  BY LifeParts
<1> USE DEF Modules!Init
<1>1. LifeRequests
  BY LifeStill DEF LifeRequests
<1>2. LifeStages
  BY DEF LifeStages, Modules!Dirs
<1>3. LifeFollowed
  BY DEF LifeFollowed, Modules!Followed
<1>4. LifeCovered
  BY LifeStill DEF LifeCovered, Modules!Covered, Modules!Replaces, Modules!Replacing
<1> QED
  BY <1>1, <1>2, <1>3, <1>4

\* Switching: the row is written, the registry follows.
LEMMA LifeSwitch ==
    ASSUME Modules!IInv, NEW p \in Actors, NEW m \in Mods, NEW on \in BOOLEAN, Modules!Switch(p, m, on)
    PROVE  Modules!IInv'
<1> DEFINE where == IF on THEN "load" ELSE "unload"
           to == IF on THEN "on" ELSE "off"
<1>1. /\ Modules!Begin(p, m, where) /\ v3' = [v3 EXCEPT ![m] = to]
      /\ v1' = v1 /\ v2' = v2 /\ v5' = v5 /\ v8' = v8 /\ v10' = v10 /\ v11' = v11
  BY DEF Modules!Switch
<1>2. /\ where \in LifeAts \ {"idle", "wake", "stop", "copy", "copying"} /\ to \in {"on", "off"}
      /\ to = "off" => where = "unload"
  BY DEF LifeAts
<1> HIDE DEF where, to
<1>3. LifeRequests' /\ LifeMoves(p, m, where) /\ v6[p].at = "idle"
  BY <1>1, <1>2, LifeParts, LifeBegin
<1>4. LifeStages'
  BY <1>1, <1>2, LifeParts DEF LifeStages
<1>5. LifeFollowed'
  BY <1>1, <1>2, <1>3, LifeParts DEF LifeFollowed, Modules!Followed, LifeMoves, LifeStages
<1>6. LifeCovered'
  BY <1>1, <1>2, <1>3, LifeParts, LifeCoverStays
<1> QED
  BY <1>3, <1>4, <1>5, <1>6, LifeParts, PTL

LEMMA LifeRemove ==
    ASSUME Modules!IInv, NEW p \in Actors, NEW m \in Mods, Modules!Remove(p, m)
    PROVE  Modules!IInv'
<1>1. /\ Modules!Begin(p, m, "delete") /\ v5' = [v5 EXCEPT ![m] = FALSE]
      /\ v1' = v1 /\ v2' = v2 /\ v3' = v3 /\ v8' = v8 /\ v10' = v10 /\ v11' = v11
  BY DEF Modules!Remove
<1>2. LifeRequests' /\ LifeMoves(p, m, "delete") /\ v6[p].at = "idle"
  BY <1>1, LifeParts, LifeBegin DEF LifeAts
<1>3. LifeStages'
  BY <1>1, LifeParts DEF LifeStages
<1>4. LifeFollowed'
  BY <1>1, <1>2, LifeParts DEF LifeFollowed, Modules!Followed, LifeMoves, LifeStages
<1>5. LifeCovered'
  BY <1>1, <1>2, LifeParts, LifeCoverStays
<1> QED
  BY <1>2, <1>3, <1>4, <1>5, LifeParts, PTL

LEMMA LifeFollows ==
    ASSUME LifeFollowed, NEW p \in Actors, NEW into, NEW where, LifeMoves(p, into, where),
           v6[p].at \notin {"unload", "stop", "record"}, v5' = v5,
           \A n \in Mods : v3'[n] = "off" => v3[n] = "off"
    PROVE  LifeFollowed'
  BY DEF LifeFollowed, Modules!Followed, LifeMoves

LEMMA LifeLoad ==
    ASSUME Modules!IInv, NEW p \in Actors, Modules!Load(p)
    PROVE  Modules!IInv'
<1>0. PICK m \in Mods : v6[p].mod = m
  BY LifeParts DEF Modules!Load, Modules!At, LifeRequests, LifeFits
<1>1. /\ v6[p].at = "load"
      /\ v1' = v1 /\ v2' = v2 /\ v3' = v3 /\ v8' = v8 /\ v10' = v10 /\ v11' = v11
      /\ \/ Modules!Returns(p) /\ v5' = v5
         \/ Modules!Outcome(p, "unmet") /\ v5' = v5
         \/ Modules!Outcome(p, "loaded") /\ v5' = [v5 EXCEPT ![m] = TRUE]
         \/ Modules!Outcome(p, "failed") /\ v5' = [v5 EXCEPT ![m] = FALSE]
  BY <1>0 DEF Modules!Load, Modules!At
<1>2. /\ LifeRequests'
      /\ \/ v5' = v5 /\ (LifeMoves(p, "none", "idle") \/ LifeMoves(p, "none", "wake"))
         \/ LifeMoves(p, m, "record") /\ \A n \in Mods \ {m} : v5'[n] = v5[n]
  BY <1>0, <1>1, LifeParts, LifeReturns, LifeOutcome DEF LifeStages
<1>3. LifeStages'
  BY <1>1, LifeParts DEF LifeStages
<1>4. LifeFollowed'
  <2>1. CASE v5' = v5 /\ (LifeMoves(p, "none", "idle") \/ LifeMoves(p, "none", "wake"))
    BY <1>1, <2>1, LifeParts, LifeFollows
  <2>2. CASE LifeMoves(p, m, "record") /\ \A n \in Mods \ {m} : v5'[n] = v5[n]
    BY <1>1, <2>2, LifeParts DEF LifeFollowed, Modules!Followed, LifeMoves
  <2> QED
    BY <1>2, <2>1, <2>2
<1>5. LifeCovered'
  BY <1>1, <1>2, LifeParts, LifeCoverStays
<1> QED
  BY <1>2, <1>3, <1>4, <1>5, LifeParts, PTL

LEMMA LifeRecord ==
    ASSUME Modules!IInv, NEW p \in Actors, Modules!RecordLoad(p)
    PROVE  Modules!IInv'
<1>0. PICK m \in Mods : v6[p].mod = m
  BY LifeParts DEF Modules!RecordLoad, Modules!At, LifeRequests, LifeFits
<1>1. /\ v6[p].at = "record" /\ Modules!Goto(p, "note") /\ v3' = [v3 EXCEPT ![m] = "on"]
      /\ v1' = v1 /\ v2' = v2 /\ v5' = v5 /\ v8' = v8 /\ v10' = v10 /\ v11' = v11
  BY <1>0 DEF Modules!RecordLoad, Modules!At, Modules!Recorded
<1>2. LifeRequests' /\ LifeMoves(p, m, "note")
  BY <1>0, <1>1, LifeParts, LifeGoto DEF LifeAts
<1>3. LifeStages'
  BY <1>1, LifeParts DEF LifeStages
<1>4. LifeFollowed'
  <2>1. v3'[m] = "on" /\ \A n \in Mods \ {m} : v3'[n] = v3[n]
    BY <1>1, LifeParts DEF LifeStages
  <2> QED
    BY <1>0, <1>1, <1>2, <2>1, LifeParts DEF LifeFollowed, Modules!Followed, LifeMoves
<1>5. LifeCovered'
  BY <1>1, <1>2, LifeParts, LifeCoverStays
<1> QED
  BY <1>2, <1>3, <1>4, <1>5, LifeParts, PTL

\* The steps that touch nothing but the request and the table of what loaded.
LEMMA LifeRests ==
    ASSUME Modules!IInv, NEW p \in Actors, NEW into, NEW where, LifeRequests', LifeMoves(p, into, where),
           v6[p].at \in {"note", "look", "wake"}, where \notin {"copy", "copying"},
           UNCHANGED <<v1, v2, v3, v5, v8, v10, v11>>
    PROVE  Modules!IInv'
<1>1. LifeStages'
  BY LifeParts DEF LifeStages
<1>2. LifeFollowed'
  BY LifeParts, LifeFollows
<1>3. LifeCovered'
  BY LifeParts, LifeCoverStays
<1> QED
  BY <1>1, <1>2, <1>3, LifeParts, PTL

LEMMA LifeNotes ==
    ASSUME Modules!IInv, NEW p \in Actors, Modules!Notes(p)
    PROVE  Modules!IInv'
<1>1. v6[p].at = "note" /\ v6[p].mod \in Mods /\ UNCHANGED <<v1, v2, v3, v5, v8, v10, v11>>
  BY LifeParts DEF Modules!Notes, Modules!At, LifeRequests, LifeFits
<1>2. CASE Modules!Goto(p, "look")
  <2>1. LifeRequests' /\ LifeMoves(p, v6[p].mod, "look")
    BY <1>1, <1>2, LifeParts, LifeGoto DEF LifeAts
  <2>2. PICK m : m = v6[p].mod
    OBVIOUS
  <2> QED
    BY <1>1, <2>1, <2>2, LifeRests
<1>3. CASE Modules!Returns(p)
  <2>1. LifeRequests' /\ (LifeMoves(p, "none", "idle") \/ LifeMoves(p, "none", "wake"))
    BY <1>3, LifeParts, LifeReturns
  <2> QED
    BY <1>1, <2>1, LifeRests
<1> QED
  BY <1>2, <1>3 DEF Modules!Notes

LEMMA LifeLooks ==
    ASSUME Modules!IInv, NEW p \in Actors, Modules!Looks(p)
    PROVE  Modules!IInv'
<1>1. v6[p].at = "look" /\ v6[p].todo \in Seq(SUBSET Mods) /\ UNCHANGED <<v1, v2, v3, v5, v8, v10, v11>>
  BY LifeParts DEF Modules!Looks, Modules!At, LifeRequests, LifeReqs
<1> DEFINE also == Modules!Enabled \cap Modules!Dependents(v6[p].mod)
<1>2. also \in SUBSET Mods
  BY DEF Modules!Enabled
<1>3. PICK r : r = Modules!Request("none", "wake", FALSE, <<also>> \o v6[p].todo)
  OBVIOUS
<1>4. v6' = [v6 EXCEPT ![p] = r]
  BY <1>3 DEF Modules!Looks
<1> HIDE DEF also
<1>5. <<also>> \o v6[p].todo \in Seq(SUBSET Mods) /\ <<also>> \o v6[p].todo # <<>>
  BY <1>1, <1>2
<1>6. r \in LifeReqs /\ r.mod = "none" /\ r.at = "wake" /\ LifeFits(r)
  BY <1>3, <1>5 DEF Modules!Request, LifeReqs, LifeAts, LifeFits
<1> QED
  BY <1>1, <1>4, <1>6, LifeParts, LifeGoes, LifeRests

LEMMA LifeWakes ==
    ASSUME Modules!IInv, NEW p \in Actors, Modules!Wakes(p)
    PROVE  Modules!IInv'
<1> DEFINE todo == v6[p].todo
<1>1. v6[p].at = "wake" /\ todo \in Seq(SUBSET Mods) /\ todo # <<>> /\ UNCHANGED <<v1, v2, v3, v5, v8, v10, v11>>
  BY LifeParts DEF Modules!Wakes, Modules!At, LifeRequests, LifeReqs, LifeFits
<1>2. Head(todo) \in SUBSET Mods /\ Tail(todo) \in Seq(SUBSET Mods)
  BY <1>1
<1>3. ASSUME NEW d \in Head(todo), NEW r,
             v6' = [v6 EXCEPT ![p] = r],
             r = Modules!Request("none", "wake", FALSE, <<Head(todo) \ {d}>> \o Tail(todo))
             \/ r = Modules!Request(d, "load", FALSE, <<Head(todo) \ {d}>> \o Tail(todo))
      PROVE  Modules!IInv'
  <2> DEFINE rest == <<Head(todo) \ {d}>> \o Tail(todo)
  <2>1. rest \in Seq(SUBSET Mods) /\ rest # <<>> /\ d \in Mods
    BY <1>2
  <2> HIDE DEF rest, todo
  <2>2. r = Modules!Request("none", "wake", FALSE, rest) \/ r = Modules!Request(d, "load", FALSE, rest)
    BY <1>3 DEF rest
  <2>3. r \in LifeReqs /\ r.at \in {"wake", "load"} /\ LifeFits(r)
    <3>1. CASE r = Modules!Request("none", "wake", FALSE, rest)
      BY <2>1, <3>1 DEF Modules!Request, LifeReqs, LifeAts, LifeFits
    <3>2. CASE r = Modules!Request(d, "load", FALSE, rest)
      <4>1. d \in Mods /\ d # "none"
        BY <2>1, LifecycleAssumption
      <4> QED
        BY <2>1, <3>2, <4>1 DEF Modules!Request, LifeReqs, LifeAts, LifeFits
    <3> QED
      BY <2>2, <3>1, <3>2
  <2> QED
    BY <1>1, <1>3, <2>3, LifeParts, LifeGoes, LifeRests
<1>4. ASSUME NEW r,
             v6' = [v6 EXCEPT ![p] = r],
             r = IF Tail(todo) = <<>> THEN Modules!Still ELSE Modules!Request("none", "wake", FALSE, Tail(todo))
      PROVE  Modules!IInv'
  <2>1. r \in LifeReqs /\ r.at \in {"wake", "idle"} /\ LifeFits(r)
    <3>1. CASE Tail(todo) = <<>>
      BY <1>4, <3>1, LifeStill
    <3>2. CASE Tail(todo) # <<>>
      <4>1. r = Modules!Request("none", "wake", FALSE, Tail(todo))
        BY <1>4, <3>2
      <4> HIDE DEF todo
      <4> QED
        BY <1>2, <3>2, <4>1 DEF Modules!Request, LifeReqs, LifeAts, LifeFits
    <3> QED
      BY <3>1, <3>2
  <2> QED
    BY <1>1, <1>4, <2>1, LifeParts, LifeGoes, LifeRests
<1> QED
  <2>1. CASE \E d \in Head(todo) :
               v6' = [v6 EXCEPT ![p] = IF v4[d] = "loaded" THEN Modules!Request("none", "wake", FALSE, <<Head(todo) \ {d}>> \o Tail(todo))
                                       ELSE Modules!Request(d, "load", FALSE, <<Head(todo) \ {d}>> \o Tail(todo))]
    BY <1>3, <2>1
  <2>2. CASE v6' = [v6 EXCEPT ![p] = IF Tail(todo) = <<>> THEN Modules!Still ELSE Modules!Request("none", "wake", FALSE, Tail(todo))]
    BY <1>4, <2>2
  <2> QED
    BY <2>1, <2>2 DEF Modules!Wakes

LEMMA LifeUnload ==
    ASSUME Modules!IInv, NEW p \in Actors, Modules!Unload(p)
    PROVE  Modules!IInv'
<1>0. PICK m \in Mods : v6[p].mod = m
  BY LifeParts DEF Modules!Unload, Modules!At, LifeRequests, LifeFits
<1> DEFINE also == {d \in Modules!Dependents(m) : v4[d] = "loaded"}
<1>1. v6[p].at = "unload" /\ UNCHANGED <<v1, v2, v3, v5, v8, v10, v11>>
  BY DEF Modules!Unload, Modules!At
<1>2. PICK r : r = Modules!Request(m, "stop", FALSE, <<also>>)
  OBVIOUS
<1>3. v6' = [v6 EXCEPT ![p] = r]
  BY <1>0, <1>2 DEF Modules!Unload
<1>4. also \in SUBSET Mods
  BY DEF Modules!Dependents
<1> HIDE DEF also
<1>5. r \in LifeReqs /\ r.mod = m /\ r.at = "stop" /\ LifeFits(r)
  <2>1. <<also>> \in Seq(SUBSET Mods) /\ <<also>> # <<>>
    BY <1>4
  <2> QED
    BY <1>2, <2>1 DEF Modules!Request, LifeReqs, LifeAts, LifeFits
<1>6. LifeRequests' /\ LifeMoves(p, m, "stop")
  BY <1>3, <1>5, LifeParts, LifeGoes
<1>7. LifeStages'
  BY <1>1, LifeParts DEF LifeStages
<1>8. LifeFollowed'
  BY <1>0, <1>1, <1>6, LifeParts DEF LifeFollowed, Modules!Followed, LifeMoves
<1>9. LifeCovered'
  BY <1>1, <1>6, LifeParts, LifeCoverStays
<1> QED
  BY <1>6, <1>7, <1>8, <1>9, LifeParts, PTL

LEMMA LifeStops ==
    ASSUME Modules!IInv, NEW p \in Actors, Modules!StopOne(p)
    PROVE  Modules!IInv'
<1>0. PICK m \in Mods : v6[p].mod = m
  BY LifeParts DEF Modules!StopOne, Modules!At, LifeRequests, LifeFits
<1> DEFINE also == Head(v6[p].todo)
<1>1. v6[p].at = "stop" /\ also \in SUBSET Mods /\ UNCHANGED <<v1, v2, v3, v8, v10, v11>>
  <2>1. v6[p].at = "stop" /\ v6[p].todo \in Seq(SUBSET Mods) /\ v6[p].todo # <<>> /\ UNCHANGED <<v1, v2, v3, v8, v10, v11>>
    BY LifeParts DEF Modules!StopOne, Modules!At, LifeRequests, LifeReqs, LifeFits
  <2> QED
    BY <2>1
<1>2. \/ /\ \E d \in also : v5' = [v5 EXCEPT ![d] = FALSE]
         /\ LifeRequests' /\ LifeMoves(p, m, "stop")
      \/ /\ v5' = [v5 EXCEPT ![m] = FALSE]
         /\ LifeRequests' /\ LifeMoves(p, "none", "idle")
  <2>1. ASSUME NEW d \in also, Modules!Forgotten(d),
               v6' = [v6 EXCEPT ![p] = Modules!Request(m, "stop", FALSE, <<also \ {d}>>)]
        PROVE  v5' = [v5 EXCEPT ![d] = FALSE] /\ LifeRequests' /\ LifeMoves(p, m, "stop")
    <3>1. PICK r : r = Modules!Request(m, "stop", FALSE, <<also \ {d}>>)
      OBVIOUS
    <3>2. <<also \ {d}>> \in Seq(SUBSET Mods) /\ <<also \ {d}>> # <<>>
      BY <1>1
    <3>3. r \in LifeReqs /\ r.mod = m /\ r.at = "stop" /\ LifeFits(r)
      BY <3>1, <3>2 DEF Modules!Request, LifeReqs, LifeAts, LifeFits
    <3> QED
      BY <2>1, <3>1, <3>3, LifeParts, LifeGoes DEF Modules!Forgotten
  <2>2. ASSUME Modules!Forgotten(m), Modules!Goto(p, "idle")
        PROVE  v5' = [v5 EXCEPT ![m] = FALSE] /\ LifeRequests' /\ LifeMoves(p, "none", "idle")
    BY <1>0, <2>2, LifeParts, LifeGoto DEF Modules!Forgotten, LifeAts
  <2> QED
    BY <1>0, <2>1, <2>2 DEF Modules!StopOne
<1> HIDE DEF also
<1>3. LifeRequests' /\ LifeStages'
  BY <1>1, <1>2, LifeParts DEF LifeStages
<1>4. LifeFollowed'
  <2>1. \A n \in Mods : v5'[n] => v5[n]
    BY <1>1, <1>2, LifeParts DEF LifeStages
  <2>2. LifeMoves(p, m, "stop") \/ (LifeMoves(p, "none", "idle") /\ ~v5'[m])
    BY <1>2, LifeParts DEF LifeStages
  <2> QED
    BY <1>0, <1>1, <2>1, <2>2, LifeParts DEF LifeFollowed, Modules!Followed, LifeMoves
<1>5. LifeCovered'
  BY <1>1, <1>2, LifeParts, LifeCoverStays
<1> QED
  BY <1>3, <1>4, <1>5, LifeParts, PTL

\* What a request did to the module it names, it did to that one only.
LEMMA LifeOthers ==
    ASSUME LifeRequests, LifeStages, LifeCovered, NEW p \in Actors, NEW m, NEW into, NEW where,
           v6[p].at = "idle" \/ v6[p].mod = m, LifeMoves(p, into, where), into \in {m, "none"},
           NEW n \in Mods, n # m, n \notin v11,
           v1'[n] = v1[n], v2'[n] = v2[n], n \in v10' <=> n \in v10, v8' \in Nat, v8' >= v8
    PROVE  Modules!Covered(n)'
<1>0. Modules!Covered(n) /\ v8 \in Nat /\ n # "none"
  BY LifecycleAssumption DEF LifeCovered, LifeStages
<1>1. ASSUME NEW q \in Actors
      PROVE  /\ v6'[q].mod = n /\ v6'[q].at = "copy" <=> v6[q].mod = n /\ v6[q].at = "copy"
             /\ v6'[q].mod = n /\ v6'[q].at = "copying" <=> v6[q].mod = n /\ v6[q].at = "copying"
  BY <1>0 DEF LifeMoves
<1>2. ASSUME NEW q \in Actors PROVE Modules!Replaces(q, n)' <=> Modules!Replaces(q, n)
  BY <1>1 DEF Modules!Replaces
<1>3. Modules!Replacing(n)' <=> Modules!Replacing(n)
  BY <1>2 DEF Modules!Replacing
<1>4. /\ v8' = 0 => v8 = 0
      /\ v8' <= 1 => v8 <= 1
  BY <1>0
<1> QED
  BY <1>0, <1>1, <1>2, <1>3, <1>4 DEF Modules!Covered

LEMMA LifeInstall ==
    ASSUME Modules!IInv, NEW p \in Actors, NEW m \in Mods, NEW force \in BOOLEAN, Modules!Install(p, m, force)
    PROVE  Modules!IInv'
<1> DEFINE aside == IF v1[m] = "none" THEN v2 ELSE [v2 EXCEPT ![m] = v1[m]]
<1>1. /\ Modules!Begin(p, m, "copy") /\ v1' = [v1 EXCEPT ![m] = "none"] /\ v2' = aside
      /\ v11' = IF Modules!Replacing(m) THEN v11 \cup {m} ELSE v11
      /\ v3' = v3 /\ v5' = v5 /\ v8' = v8 /\ v10' = v10
  BY DEF Modules!Install
<1>2. LifeRequests /\ LifeStages /\ LifeFollowed /\ LifeCovered
  BY LifeParts
<1>3. aside \in [Mods -> Modules!Dirs] /\ aside[m] = (IF v1[m] = "none" THEN v2[m] ELSE v1[m])
      /\ \A n \in Mods \ {m} : aside[n] = v2[n]
  BY <1>2 DEF LifeStages
<1> HIDE DEF aside
<1>4. LifeRequests' /\ LifeMoves(p, m, "copy") /\ v6[p].at = "idle"
  BY <1>1, <1>2, LifeBegin DEF LifeAts
<1>5. LifeStages'
  BY <1>1, <1>2, <1>3 DEF LifeStages, Modules!Dirs
<1>6. LifeFollowed'
  BY <1>1, <1>2, <1>4, LifeFollows
<1>7. ASSUME NEW n \in Mods, n \notin v11', n # m PROVE Modules!Covered(n)'
  <2>1. /\ v1'[n] = v1[n] /\ v2'[n] = v2[n] /\ n \notin v11
        /\ v8' \in Nat /\ v8' >= v8 /\ (n \in v10' <=> n \in v10)
    BY <1>1, <1>2, <1>3, <1>7 DEF LifeStages
  <2> QED
    BY <1>2, <1>4, <1>7, <2>1, LifeOthers
<1>8. ASSUME m \notin v11' PROVE Modules!Covered(m)'
  <2>1. ~Modules!Replacing(m) /\ Modules!Covered(m)
    BY <1>1, <1>2, <1>8 DEF LifeCovered
  <2>2. \A q \in Actors : Modules!Replaces(q, m)' <=> q = p
    BY <1>4, <2>1 DEF Modules!Replaces, Modules!Replacing, LifeMoves
  <2>3. Modules!Replacing(m)'
    BY <2>2 DEF Modules!Replacing
  <2>4. \A q \in Actors : v6'[q].mod = m => v6'[q].at # "copying"
    BY <1>4, <2>1 DEF Modules!Replaces, Modules!Replacing, LifeMoves
  <2>5. v1'[m] = "none" /\ v2'[m] = (IF v1[m] = "none" THEN v2[m] ELSE v1[m])
    BY <1>1, <1>2, <1>3 DEF LifeStages
  <2>6. v1[m] \in {"none", "whole", "part"}
    BY <1>2 DEF LifeStages, Modules!Dirs
  <2>7. v8 = 0 => v1[m] # "part" /\ v2[m] # "part" /\ (m \in v10 => v1[m] = "whole" \/ v2[m] = "whole")
    BY <1>2, <2>1 DEF Modules!Covered
  <2> QED
    BY <1>1, <2>2, <2>3, <2>4, <2>5, <2>6, <2>7 DEF Modules!Covered
<1>9. LifeCovered'
  BY <1>7, <1>8 DEF LifeCovered
<1> QED
  BY <1>4, <1>5, <1>6, <1>9, LifeParts, PTL

LEMMA LifeCopyStarts ==
    ASSUME Modules!IInv, NEW p \in Actors, Modules!CopyStarts(p)
    PROVE  Modules!IInv'
<1>0. PICK m \in Mods : v6[p].mod = m
  BY LifeParts DEF Modules!CopyStarts, Modules!At, LifeRequests, LifeFits
<1>1. /\ v6[p].at = "copy" /\ m \in Mods /\ Modules!Goto(p, "copying")
      /\ v1[m] = "none" /\ v1' = [v1 EXCEPT ![m] = "part"]
      /\ v2' = v2 /\ v3' = v3 /\ v5' = v5 /\ v8' = v8 /\ v10' = v10 /\ v11' = v11
  BY <1>0 DEF Modules!CopyStarts, Modules!At
<1>2. LifeRequests /\ LifeStages /\ LifeFollowed /\ LifeCovered
  BY LifeParts
<1>4. LifeRequests' /\ LifeMoves(p, m, "copying")
  BY <1>1, <1>2, <1>0, LifeGoto DEF LifeAts
<1>5. LifeStages'
  BY <1>1, <1>2 DEF LifeStages, Modules!Dirs
<1>6. LifeFollowed'
  BY <1>1, <1>2, <1>4, LifeFollows
<1>7. ASSUME NEW n \in Mods, n \notin v11', n # m PROVE Modules!Covered(n)'
  <2>1. /\ v1'[n] = v1[n] /\ v2'[n] = v2[n] /\ n \notin v11
        /\ v8' \in Nat /\ v8' >= v8 /\ (n \in v10' <=> n \in v10)
    BY <1>1, <1>2, <1>7 DEF LifeStages
  <2> QED
    BY <1>0, <1>2, <1>4, <1>7, <2>1, LifeOthers
<1>8. ASSUME m \notin v11' PROVE Modules!Covered(m)'
  <2>1. Modules!Covered(m) /\ Modules!Replaces(p, m)
    BY <1>1, <1>2, <1>0, <1>8 DEF LifeCovered, Modules!Replaces
  <2>2. \A q \in Actors : Modules!Replaces(q, m) <=> q = p
    BY <2>1 DEF Modules!Covered
  <2>3. \A q \in Actors : Modules!Replaces(q, m)' <=> q = p
    BY <1>4, <2>2 DEF Modules!Replaces, LifeMoves
  <2>4. Modules!Replacing(m) /\ Modules!Replacing(m)'
    BY <2>2, <2>3 DEF Modules!Replacing
  <2>5. \A q \in Actors : v6'[q].mod = m => v6'[q].at # "copy"
    BY <1>4, <2>3 DEF Modules!Replaces, LifeMoves
  <2>6. v1'[m] = "part"
    BY <1>1, <1>2 DEF LifeStages
  <2> QED
    BY <1>1, <2>1, <2>3, <2>4, <2>5, <2>6 DEF Modules!Covered
<1>9. LifeCovered'
  BY <1>7, <1>8 DEF LifeCovered
<1> QED
  BY <1>4, <1>5, <1>6, <1>9, LifeParts, PTL

LEMMA LifeCopyEnds ==
    ASSUME Modules!IInv, NEW p \in Actors, Modules!CopyEnds(p)
    PROVE  Modules!IInv'
<1>0. PICK m \in Mods : v6[p].mod = m
  BY LifeParts DEF Modules!CopyEnds, Modules!At, LifeRequests, LifeFits
<1> DEFINE left == IF v6[p].aside THEN [v2 EXCEPT ![m] = "none"] ELSE v2
<1>1. /\ v6[p].at = "copying" /\ m \in Mods /\ Modules!Goto(p, "load")
      /\ v1' = [v1 EXCEPT ![m] = "whole"] /\ v2' = left /\ v10' = v10 \cup {m}
      /\ v3' = v3 /\ v5' = v5 /\ v8' = v8 /\ v11' = v11
  BY <1>0 DEF Modules!CopyEnds, Modules!At
<1>2. LifeRequests /\ LifeStages /\ LifeFollowed /\ LifeCovered
  BY LifeParts
<1>4. /\ left \in [Mods -> Modules!Dirs] /\ left[m] \in {"none", v2[m]}
      /\ \A n \in Mods \ {m} : left[n] = v2[n]
  BY <1>1, <1>2 DEF LifeStages, Modules!Dirs
<1> HIDE DEF left
<1>5. LifeRequests' /\ LifeMoves(p, m, "load")
  BY <1>1, <1>2, <1>0, LifeGoto DEF LifeAts
<1>6. LifeStages'
  BY <1>1, <1>2, <1>4 DEF LifeStages, Modules!Dirs
<1>7. LifeFollowed'
  BY <1>1, <1>2, <1>5, LifeFollows
<1>8. ASSUME NEW n \in Mods, n \notin v11', n # m PROVE Modules!Covered(n)'
  <2>1. /\ v1'[n] = v1[n] /\ v2'[n] = v2[n] /\ n \notin v11
        /\ v8' \in Nat /\ v8' >= v8 /\ (n \in v10' <=> n \in v10)
    BY <1>1, <1>2, <1>4, <1>8 DEF LifeStages
  <2> QED
    BY <1>0, <1>2, <1>5, <1>8, <2>1, LifeOthers
<1>9. ASSUME m \notin v11' PROVE Modules!Covered(m)'
  <2>1. Modules!Covered(m) /\ Modules!Replaces(p, m)
    BY <1>1, <1>2, <1>0, <1>9 DEF LifeCovered, Modules!Replaces
  <2>2. \A q \in Actors : Modules!Replaces(q, m) <=> q = p
    BY <2>1 DEF Modules!Covered
  <2>3. \A q \in Actors : ~Modules!Replaces(q, m)'
    BY <1>5, <2>2 DEF Modules!Replaces, LifeMoves
  <2>4. ~Modules!Replacing(m)'
    BY <2>3 DEF Modules!Replacing
  <2>5. \A q \in Actors : v6'[q].mod = m => v6'[q].at # "copy" /\ v6'[q].at # "copying"
    BY <2>3 DEF Modules!Replaces
  <2>6. v1'[m] = "whole" /\ (v8 = 0 => v2'[m] # "part")
    BY <1>1, <1>2, <1>4, <2>1 DEF LifeStages, Modules!Covered
  <2> QED
    BY <1>1, <2>3, <2>4, <2>5, <2>6 DEF Modules!Covered
<1>10. LifeCovered'
  BY <1>8, <1>9 DEF LifeCovered
<1> QED
  BY <1>5, <1>6, <1>7, <1>10, LifeParts, PTL

LEMMA LifeCopyFails ==
    ASSUME Modules!IInv, NEW p \in Actors, Modules!CopyFails(p)
    PROVE  Modules!IInv'
<1>0. PICK m \in Mods : v6[p].mod = m
  BY LifeParts DEF Modules!CopyFails, Modules!At, LifeRequests, LifeFits
<1>1. /\ v6[p].at \in {"copy", "copying"} /\ m \in Mods /\ Modules!Goto(p, "idle")
      /\ v3' = v3 /\ v5' = v5 /\ v10' = v10 /\ v11' = v11
      /\ \/ v6[p].at = "copying" /\ v8' = v8 + 1
         \/ v6[p].at = "copy" /\ v1[m] # "none" /\ v8' = v8
         \/ v6[p].at = "copying" /\ v1[m] # "part" /\ v8' = v8
      /\ \/ v1' = [v1 EXCEPT ![m] = v2[m]] /\ v2' = [v2 EXCEPT ![m] = "none"]
         \/ v1' = v1 /\ v2' = v2
  BY <1>0 DEF Modules!CopyFails, Modules!At
<1>2. LifeRequests /\ LifeStages /\ LifeFollowed /\ LifeCovered
  BY LifeParts
<1>4. LifeRequests' /\ LifeMoves(p, "none", "idle")
  BY <1>1, <1>2, <1>0, LifeGoto DEF LifeAts
<1>5. LifeStages' /\ v8' >= v8
  <2>1. v8 \in Nat /\ v2[m] \in Modules!Dirs
    BY <1>1, <1>2 DEF LifeStages
  <2>2. v8' \in Nat /\ v8' >= v8
    BY <1>1, <2>1
  <2>3. v1' \in [Mods -> Modules!Dirs] /\ v2' \in [Mods -> Modules!Dirs]
    BY <1>1, <1>2, <2>1 DEF LifeStages, Modules!Dirs
  <2> QED
    BY <1>1, <1>2, <2>2, <2>3 DEF LifeStages
<1>6. LifeFollowed'
  BY <1>1, <1>2, <1>4, LifeFollows
<1>7. ASSUME NEW n \in Mods, n \notin v11', n # m PROVE Modules!Covered(n)'
  <2>1. v1'[n] = v1[n] /\ v2'[n] = v2[n]
    BY <1>1, <1>2, <1>7 DEF LifeStages
  <2> QED
    BY <1>1, <1>2, <1>0, <1>4, <1>5, <1>7, <2>1, LifeOthers DEF LifeStages
<1>8. ASSUME m \notin v11' PROVE Modules!Covered(m)'
  <2>1. Modules!Covered(m) /\ Modules!Replaces(p, m) /\ m # "none"
    BY <1>1, <1>2, <1>0, <1>8, LifecycleAssumption DEF LifeCovered, Modules!Replaces
  <2>2. \A q \in Actors : Modules!Replaces(q, m) <=> q = p
    BY <2>1 DEF Modules!Covered
  <2>3. \A q \in Actors : ~Modules!Replaces(q, m)'
    BY <1>4, <2>1, <2>2 DEF Modules!Replaces, LifeMoves
  <2>4. ~Modules!Replacing(m)' /\ Modules!Replacing(m)
    BY <2>1, <2>3 DEF Modules!Replacing
  <2>5. \A q \in Actors : v6'[q].mod = m => v6'[q].at # "copy" /\ v6'[q].at # "copying"
    BY <2>3 DEF Modules!Replaces
  <2>6. /\ v6[p].at = "copy" => v1[m] = "none"
        /\ v6[p].at = "copying" => v1[m] = "part" \/ (v1[m] = "none" /\ m \notin v10)
        /\ v8 = 0 => v2[m] # "part"
        /\ m \in v10 /\ v8 = 0 => v2[m] = "whole"
    BY <1>0, <2>1, <2>4 DEF Modules!Covered
  <2>7. \/ v1'[m] = v2[m] /\ v2'[m] = "none"
        \/ v1'[m] = v1[m] /\ v2'[m] = v2[m]
    BY <1>1, <1>2 DEF LifeStages
  <2>8. v8 \in Nat
    BY <1>2 DEF LifeStages
  <2>9. CASE v8' = v8 + 1
    <3>1. v8' # 0 /\ (v8' <= 1 => v8 = 0)
      BY <2>8, <2>9
    <3>2. m \in v10' /\ v8' <= 1 => v1'[m] = "whole" \/ v2'[m] = "whole"
      BY <1>1, <2>6, <2>7, <3>1
    <3> QED
      BY <2>3, <2>4, <2>5, <3>1, <3>2 DEF Modules!Covered
  <2>10. CASE v8' = v8 /\ v1[m] = "none" /\ m \notin v10
    BY <1>1, <2>3, <2>4, <2>5, <2>6, <2>7, <2>10 DEF Modules!Covered
  <2> QED
    BY <1>1, <2>6, <2>9, <2>10
<1>9. LifeCovered'
  BY <1>7, <1>8 DEF LifeCovered
<1> QED
  BY <1>4, <1>5, <1>6, <1>9, LifeParts, PTL

LEMMA LifeDelete ==
    ASSUME Modules!IInv, NEW p \in Actors, Modules!Delete(p)
    PROVE  Modules!IInv'
<1>0. PICK m \in Mods : v6[p].mod = m
  BY LifeParts DEF Modules!Delete, Modules!At, LifeRequests, LifeFits
<1>1. /\ v6[p].at = "delete" /\ Modules!Goto(p, "idle")
      /\ v1' = [v1 EXCEPT ![m] = "none"] /\ v3' = [v3 EXCEPT ![m] = "none"] /\ v10' = v10 \ {m}
      /\ v2' = v2 /\ v5' = v5 /\ v8' = v8 /\ v11' = v11
  BY <1>0 DEF Modules!Delete, Modules!At
<1>2. LifeRequests /\ LifeStages /\ LifeFollowed /\ LifeCovered
  BY LifeParts
<1>3. LifeRequests' /\ LifeMoves(p, "none", "idle")
  BY <1>0, <1>1, <1>2, LifeGoto DEF LifeAts
<1>4. LifeStages'
  BY <1>1, <1>2 DEF LifeStages, Modules!Dirs
<1>5. \A n \in Mods : v3'[n] = "off" => v3[n] = "off"
  BY <1>1, <1>2 DEF LifeStages
<1>6. LifeFollowed'
  BY <1>1, <1>2, <1>3, <1>5, LifeFollows
<1>7. ASSUME NEW n \in Mods, n \notin v11', n # m PROVE Modules!Covered(n)'
  <2>1. /\ v1'[n] = v1[n] /\ v2'[n] = v2[n] /\ n \notin v11
        /\ v8' \in Nat /\ v8' >= v8 /\ (n \in v10' <=> n \in v10)
    BY <1>1, <1>2, <1>7 DEF LifeStages
  <2> QED
    BY <1>0, <1>2, <1>3, <1>7, <2>1, LifeOthers
<1>8. ASSUME m \notin v11' PROVE Modules!Covered(m)'
  <2>1. Modules!Covered(m) /\ m # "none"
    BY <1>1, <1>2, <1>8, LifecycleAssumption DEF LifeCovered
  <2>2. ASSUME NEW q \in Actors PROVE Modules!Replaces(q, m)' <=> Modules!Replaces(q, m)
    BY <1>1, <1>3, <2>1 DEF Modules!Replaces, LifeMoves
  <2>3. v1'[m] = "none" /\ m \notin v10'
    BY <1>1, <1>2 DEF LifeStages
  <2> QED
    BY <1>1, <2>1, <2>2, <2>3 DEF Modules!Covered
<1>9. LifeCovered'
  BY <1>7, <1>8 DEF LifeCovered
<1> QED
  BY <1>3, <1>4, <1>6, <1>9, LifeParts, PTL

\* A crash ends every request; what was being replaced is set aside whole if it is the first.
LEMMA LifeCrash == ASSUME Modules!IInv, Modules!Crash PROVE Modules!IInv'
<1>1. /\ v8' = v8 + 1 /\ v6' = [p \in Actors |-> Modules!Still] /\ v5' = [m \in Mods |-> FALSE]
      /\ v1' = v1 /\ v2' = v2 /\ v3' = v3 /\ v10' = v10 /\ v11' = v11
  BY DEF Modules!Crash
<1>2. LifeRequests /\ LifeStages /\ LifeFollowed /\ LifeCovered
  BY LifeParts
<1>3. LifeRequests'
  BY <1>1, LifeStill DEF LifeRequests
<1>4. LifeStages' /\ v8 \in Nat
  BY <1>1, <1>2 DEF LifeStages
<1>5. LifeFollowed'
  BY <1>1 DEF LifeFollowed, Modules!Followed
<1>6. ASSUME NEW n \in Mods, n \notin v11' PROVE Modules!Covered(n)'
  <2>1. Modules!Covered(n)
    BY <1>1, <1>2, <1>6 DEF LifeCovered
  <2>2. \A q \in Actors : ~Modules!Replaces(q, n)' /\ v6'[q].at = "idle"
    BY <1>1, LifeStill DEF Modules!Replaces
  <2>3. ~Modules!Replacing(n)'
    BY <2>2 DEF Modules!Replacing
  <2>4. v8' # 0 /\ (v8' <= 1 => v8 = 0)
    BY <1>1, <1>4
  <2>5. n \in v10' /\ v8' <= 1 => v1'[n] = "whole" \/ v2'[n] = "whole"
    BY <1>1, <2>1, <2>4 DEF Modules!Covered
  <2> QED
    BY <2>2, <2>3, <2>4, <2>5 DEF Modules!Covered
<1>7. LifeCovered'
  BY <1>6 DEF LifeCovered
<1> QED
  BY <1>3, <1>4, <1>5, <1>7, LifeParts, PTL

\* What a start loads is among what may load: the function that gives the first,
\* second, ... n-th wave of a start exists, wave by wave.
LifeWave(s, w) == {m \in s : Requires[m] \subseteq w}
LifeWaves(s, n, f) == f = [k \in 0..n |-> IF k = 0 THEN {} ELSE LifeWave(s, f[k - 1])]

LEMMA LifeWavesExist == ASSUME NEW s PROVE \A n \in Nat : \E f : LifeWaves(s, n, f)
<1> DEFINE P(n) == \E f : LifeWaves(s, n, f)
           bad == {n \in Nat : ~P(n)}
<1>1. P(0)
  <2>1. LifeWaves(s, 0, [k \in 0..0 |-> {}])
    BY DEF LifeWaves
  <2> QED
    BY <2>1
<1>2. ASSUME NEW n \in Nat, P(n) PROVE P(n + 1)
  <2>1. PICK f : LifeWaves(s, n, f)
    BY <1>2
  <2> DEFINE g == [k \in 0..(n + 1) |-> IF k = 0 THEN {} ELSE LifeWave(s, f[k - 1])]
  <2>2. ASSUME NEW k \in 0..n PROVE g[k] = f[k]
    <3>1. f[k] = IF k = 0 THEN {} ELSE LifeWave(s, f[k - 1])
      BY <2>1 DEF LifeWaves
    <3>2. k \in 0..(n + 1)
      OBVIOUS
    <3> QED
      BY <3>1, <3>2
  <2>3. ASSUME NEW k \in 0..(n + 1) PROVE g[k] = IF k = 0 THEN {} ELSE LifeWave(s, g[k - 1])
    <3>1. k # 0 => k - 1 \in 0..n
      OBVIOUS
    <3> QED
      BY <2>2, <3>1
  <2>4. g = [k \in 0..(n + 1) |-> g[k]]
    OBVIOUS
  <2> HIDE DEF g
  <2>5. LifeWaves(s, n + 1, g)
    BY <2>3, <2>4 DEF LifeWaves
  <2> QED
    BY <2>5
<1> HIDE DEF P
<1>3. \A n \in Nat : P(n)
  <2> SUFFICES ASSUME NEW n \in bad PROVE FALSE
    OBVIOUS
  <2>1. PICK m \in bad : \A k \in bad : m <= k
    BY LeastNumber
  <2>2. m # 0 /\ m \in Nat
    BY <1>1
  <2>3. P(m - 1)
    BY <2>1, <2>2
  <2> QED
    BY <1>2, <2>1, <2>2, <2>3
<1> QED
  BY <1>3 DEF P

LEMMA LifeBootable == ASSUME NEW s PROVE Modules!Bootable(s) \subseteq s
<1> DEFINE n == Modules!Cardinality(Mods)
           waves == CHOOSE f : f = [k \in 0..n |-> IF k = 0 THEN {}
                                                   ELSE {m \in s : Requires[m] \subseteq f[k - 1]}]
<1>1. n \in Nat
  <2>1. Modules!Cardinality(Mods) = Cardinality(Mods)
    BY DEF Modules!Cardinality, Cardinality
  <2> QED
    BY <2>1, LifecycleAssumption, FS_CardinalityType
<1>2. LifeWaves(s, n, waves)
  <2>1. \E f : LifeWaves(s, n, f)
    BY <1>1, LifeWavesExist
  <2> QED
    BY <2>1 DEF LifeWaves, LifeWave
<1>3. Modules!Bootable(s) = waves[n]
  BY DEF Modules!Bootable
<1> HIDE DEF waves, n
<1>4. waves[n] = IF n = 0 THEN {} ELSE LifeWave(s, waves[n - 1])
  BY SMTT(40), <1>1, <1>2 DEF LifeWaves
<1> QED
  BY <1>3, <1>4 DEF LifeWave

LEMMA LifeBoot == ASSUME Modules!IInv, Modules!Boot PROVE Modules!IInv'
<1> DEFINE found == {m \in Mods : Modules!OnDisk(m) /\ v3[m] # "off"}
<1>1. /\ v3' = [m \in Mods |-> IF m \in found THEN "on" ELSE v3[m]]
      /\ v1' = v1 /\ v2' = v2 /\ v6' = v6 /\ v8' = v8 /\ v10' = v10 /\ v11' = v11
      /\ \E ok \in SUBSET found : v5' = [m \in Mods |-> m \in Modules!Bootable(ok)]
  BY DEF Modules!Boot
<1>2. PICK ok \in SUBSET found : v5' = [m \in Mods |-> m \in Modules!Bootable(ok)]
  BY <1>1
<1>3. \A m \in Mods : v5'[m] => v3'[m] = "on"
  BY <1>1, <1>2, LifeBootable
<1>4. LifeRequests /\ LifeStages /\ LifeFollowed /\ LifeCovered
  BY LifeParts
<1>5. LifeRequests'
  BY <1>1, <1>4 DEF LifeRequests
<1>6. LifeStages'
  BY <1>1, <1>2, <1>4 DEF LifeStages
<1>7. LifeFollowed'
  BY <1>3 DEF LifeFollowed, Modules!Followed
<1>8. LifeCovered'
  BY <1>1, <1>4 DEF LifeCovered, Modules!Covered, Modules!Replaces, Modules!Replacing
<1> QED
  BY <1>5, <1>6, <1>7, <1>8, LifeParts, PTL

LEMMA LifeInductive == Modules!IInv /\ (Modules!Next \/ UNCHANGED Modules!mvars) => Modules!IInv'
<1> SUFFICES ASSUME Modules!IInv, Modules!Next \/ UNCHANGED Modules!mvars PROVE Modules!IInv'
  OBVIOUS
<1>1. CASE UNCHANGED Modules!mvars
  <2>1. v1' = v1 /\ v2' = v2 /\ v3' = v3 /\ v5' = v5 /\ v6' = v6 /\ v8' = v8 /\ v10' = v10 /\ v11' = v11
    BY <1>1 DEF Modules!mvars
  <2>2. LifeRequests' /\ LifeStages'
    BY <2>1, LifeParts DEF LifeRequests, LifeStages
  <2>3. LifeFollowed'
    BY <2>1, LifeParts DEF LifeFollowed, Modules!Followed
  <2>4. LifeCovered'
    BY <2>1, LifeParts DEF LifeCovered, Modules!Covered, Modules!Replaces, Modules!Replacing
  <2> QED
    BY <2>2, <2>3, <2>4, LifeParts, PTL
<1>2. ASSUME NEW p \in Actors, NEW m \in Mods,
             \/ \E b \in BOOLEAN : Modules!Install(p, m, b) \/ Modules!Switch(p, m, b)
             \/ Modules!Remove(p, m)
      PROVE  Modules!IInv'
  BY <1>2, LifeInstall, LifeSwitch, LifeRemove
<1>3. ASSUME NEW p \in Actors,
             \/ Modules!CopyStarts(p) \/ Modules!CopyEnds(p) \/ Modules!CopyFails(p)
             \/ Modules!Load(p) \/ Modules!RecordLoad(p) \/ Modules!Notes(p) \/ Modules!Looks(p) \/ Modules!Wakes(p)
             \/ Modules!Unload(p) \/ Modules!StopOne(p) \/ Modules!Delete(p)
      PROVE  Modules!IInv'
  BY <1>3, LifeCopyStarts, LifeCopyEnds, LifeCopyFails, LifeLoad, LifeRecord, LifeNotes, LifeLooks,
     LifeWakes, LifeUnload, LifeStops, LifeDelete
<1> QED
  BY <1>1, <1>2, <1>3, LifeCrash, LifeBoot DEF Modules!Next

LEMMA LifeHolds == Modules!IInv => Modules!OffMeansOff /\ Modules!NoHole
<1> SUFFICES ASSUME Modules!IInv PROVE Modules!OffMeansOff /\ Modules!NoHole
  OBVIOUS
<1>1. Modules!OffMeansOff
  BY LifeParts DEF Modules!OffMeansOff, Modules!Quiet, LifeFollowed, Modules!Followed
<1>2. Modules!NoHole
  <2> SUFFICES ASSUME NEW m \in v10, ~(v8 > 1), m \notin v11, ~(v8 = 1 /\ Modules!Replacing(m)), m \in Mods
               PROVE  v1[m] = "whole" \/ v2[m] = "whole"
    BY LifeParts DEF Modules!NoHole, LifeStages
  <2>1. Modules!Covered(m) /\ v8 \in Nat
    BY LifeParts DEF LifeCovered, LifeStages
  <2> QED
    BY <2>1 DEF Modules!Covered
<1> QED
  BY <1>1, <1>2

-----------------------------------------------------------------------------
(* The store they come from. *)

\* The store.  What is known of the requests and the start, of the claims, of the listing
\* that is shown, and of what is to be replaced.
StorePast ==
    [given : SUBSET FreeModules, again : SUBSET FreeModules, unrecorded : SUBSET FreeModules, overlapped : SUBSET Actors,
     refused : BOOLEAN, crossed : BOOLEAN, back : BOOLEAN, beaten : SUBSET (Actors \X Store!Catalogue)]
StoreSeeds == Store!SeedingHolds /\ Store!SeededOnce
StoreClaims == Store!ClaimsProve /\ Store!ClaimsKnow
StoreShown ==
    /\ Store!ShownAsOwned
    /\ \A p \in Actors : v8[p].at = "answer" /\ ~v9.crossed => v8[p].keyed = v3
StoreGrows == Store!UpdatesAdvance /\ Store!NothingGoesBack

LEMMA StoreParts ==
    Store!IInv <=> Store!StoreTypeOK /\ StoreSeeds /\ StoreClaims /\ StoreShown /\ StoreGrows
  BY DEF Store!IInv, Store!StoreIsHonest, StoreSeeds, StoreClaims, StoreShown, StoreGrows

\* Only request p moves, and it becomes r.
StoreStep(p, r) ==
    v8' \in [Actors -> Store!Requests] /\ v8'[p] = r /\ \A q \in Actors \ {p} : v8'[q] = v8[q]

LEMMA StoreGoes ==
    ASSUME Store!StoreTypeOK, NEW p \in Actors, NEW r \in Store!Requests, Store!Goes(p, r)
    PROVE  StoreStep(p, r)
  BY DEF Store!StoreTypeOK, Store!Goes, StoreStep

\* When one request moves, all of them stay well formed.
LEMMA StoreRequestsTyped ==
    ASSUME Store!StoreTypeOK, NEW p \in Actors, NEW r, StoreStep(p, r),
           r.at # "idle" => r.kind # "none", r.at \in {"answer", "work", "unpack"} => r.looks # <<>>
    PROVE  /\ v8' \in [Actors -> Store!Requests]
           /\ \A q \in Actors : /\ v8'[q].at # "idle" => v8'[q].kind # "none"
                                /\ v8'[q].at \in {"answer", "work", "unpack"} => v8'[q].looks # <<>>
<1>1. \A q \in Actors : /\ v8[q].at # "idle" => v8[q].kind # "none"
                        /\ v8[q].at \in {"answer", "work", "unpack"} => v8[q].looks # <<>>
  BY DEF Store!StoreTypeOK
<1> QED
  BY <1>1 DEF StoreStep

LEMMA StoreIdle == Store!Idle \in Store!Requests
  BY DEF Store!Idle, Store!Requests, Store!Nobody

LEMMA StoreListing ==
    ASSUME Store!StoreTypeOK, NEW keyed \in BOOLEAN
    PROVE  Store!Listing(keyed) \in Store!Rows
<1>1. Store!Owned(keyed) \in SUBSET Store!Catalogue
  BY DEF Store!Owned, Store!Catalogue
<1>2. v7.build \in [Store!Catalogue -> Nat] /\ v7.lapsed \in BOOLEAN
  BY DEF Store!StoreTypeOK
<1> QED
  BY <1>1, <1>2 DEF Store!Listing, Store!Rows

\* What a request that has begun leaves alone: the start it came after, and, where it is
\* no claim, the claims of the others.
LEMMA StoreSeedsStay ==
    ASSUME StoreSeeds, v6.at = "up", v6' = v6, v2' = v2, v9'.given = v9.given,
           v9'.again = v9.again, v9'.unrecorded = v9.unrecorded
    PROVE  StoreSeeds'
  BY DEF StoreSeeds, Store!SeedingHolds, Store!SeededOnce

LEMMA StoreUp ==
    ASSUME StoreSeeds, NEW p \in Actors, v8[p].at # "idle"
    PROVE  v6.at = "up" /\ v6.added = {}
  BY DEF StoreSeeds, Store!SeedingHolds

LEMMA StoreClaimsStay ==
    ASSUME StoreClaims, NEW p \in Actors, NEW r, StoreStep(p, r), v5' = v5,
           v9'.overlapped = v9.overlapped, v9'.refused = v9.refused,
           v8[p].at \notin {"prove", "collect"}, r.at \notin {"prove", "collect"},
           v5 \in Actors \cup {"nobody"}
    PROVE  StoreClaims'
<1>1. \A q \in Actors : v8'[q].at = v8[q].at \/ (v8[q].at \notin {"prove", "collect"} /\ v8'[q].at \notin {"prove", "collect"})
  BY DEF StoreStep
<1>2. \A q \in Actors : (Store!Claiming(q)' <=> Store!Claiming(q)) /\ (v8'[q].at = "prove" <=> v8[q].at = "prove")
  BY <1>1 DEF Store!Claiming
<1>3. Store!ClaimsProve'
  BY <1>2 DEF StoreClaims, Store!ClaimsProve, Store!Nobody
<1>4. Store!ClaimsKnow'
  BY <1>2 DEF StoreClaims, Store!ClaimsKnow
<1> QED
  BY <1>3, <1>4 DEF StoreClaims

LEMMA StoreShownStays ==
    ASSUME StoreShown, NEW p \in Actors, NEW r, StoreStep(p, r), v3' = v3, v4' = v4,
           v9'.crossed = v9.crossed, r.at = "answer" => r.keyed = v3
    PROVE  StoreShown'
<1>1. \A q \in Actors : v8'[q].at = "answer" /\ ~v9.crossed => v8'[q].keyed = v3
  BY DEF StoreShown, StoreStep
<1> QED
  BY <1>1 DEF StoreShown, Store!ShownAsOwned

\* What a request has to do, and what it unpacks.
StoreTodo(p, m) ==
    v8[p].at \in {"work", "unpack"} /\ Store!Forced(p) /\ m \in v8[p].todo => v1[m] <= v7.build[m]
StoreZip(p, m) ==
    v8[p].at = "unpack" /\ v8[p].mod = m =>
        /\ v8[p].zip <= v7.build[m]
        /\ Store!Forced(p) /\ <<p, m>> \notin v9.beaten => v1[m] <= v8[p].zip

StoreListed == \A m \in Store!Catalogue : v4.rows.build[m] <= v7.build[m]
StoreTodos == \A p \in Actors, m \in Store!Catalogue : StoreTodo(p, m) /\ StoreZip(p, m)

LEMMA StoreGrowParts == StoreGrows <=> ~v9.back /\ StoreListed /\ StoreTodos
  BY DEF StoreGrows, Store!UpdatesAdvance, Store!NothingGoesBack, Store!Newest, StoreListed, StoreTodos,
         StoreTodo, StoreZip

LEMMA StoreGrowsStay ==
    ASSUME StoreGrows, NEW p \in Actors, NEW r, StoreStep(p, r), v1' = v1, v7' = v7,
           v4'.rows.build = v4.rows.build, v9'.beaten = v9.beaten, v9'.back = v9.back,
           \A m \in Store!Catalogue : (StoreTodo(p, m) /\ StoreZip(p, m))'
    PROVE  StoreGrows'
<1>1. ASSUME NEW q \in Actors \ {p}, NEW m \in Store!Catalogue PROVE (StoreTodo(q, m) /\ StoreZip(q, m))'
  <2>1. v8'[q] = v8[q]
    BY DEF StoreStep
  <2>2. StoreTodo(q, m) /\ StoreZip(q, m)
    BY StoreGrowParts DEF StoreTodos
  <2> QED
    BY <2>1, <2>2 DEF StoreTodo, StoreZip, Store!Forced
<1>2. StoreTodos'
  BY <1>1 DEF StoreTodos
<1>3. (~v9.back)' /\ StoreListed'
  BY StoreGrowParts DEF StoreListed
<1> QED
  BY <1>2, <1>3, StoreGrowParts, PTL

LEMMA StoreInitially == Store!Init => Store!IInv
<1> SUFFICES ASSUME Store!Init
             PROVE  Store!StoreTypeOK /\ StoreSeeds /\ StoreClaims /\ StoreShown /\ StoreGrows
  BY StoreParts
<1>1. v8 = [p \in Actors |-> Store!Idle] /\ \A p \in Actors : v8[p] = Store!Idle
  BY DEF Store!Init
<1>2. \A p \in Actors : v8[p] \in Store!Requests /\ v8[p].at = "idle"
  BY <1>1, StoreIdle DEF Store!Idle
<1>3. v1 \in [Store!Catalogue -> Nat]
  BY StoreAssumption DEF Store!Init, Store!Catalogue
<1>4. v4 \in [full : BOOLEAN, fresh : BOOLEAN, rows : Store!Rows]
  BY DEF Store!Init, Store!Cold, Store!NoRows, Store!Rows
<1>5. v9 \in StorePast
  BY DEF Store!Init, StorePast
<1>6. v7 \in [build : [Store!Catalogue -> Nat], sold : {"no", "id", "host"}, lapsed : BOOLEAN]
  BY DEF Store!Init
<1>7. v6 \in [at : {"down", "seed", "up"}, todo : SUBSET FreeModules, added : SUBSET FreeModules]
  BY DEF Store!Init
<1>8. Store!StoreTypeOK
  <2>1. v2 \subseteq FreeModules /\ v3 \in BOOLEAN /\ v5 \in Actors \cup {Store!Nobody}
    BY DEF Store!Init
  <2>2. v8 \in [Actors -> Store!Requests]
    BY <1>1, <1>2
  <2>3. \A p \in Actors : v8[p].at = "idle"
    BY <1>2
  <2> QED
    BY <1>3, <1>4, <1>5, <1>6, <1>7, <2>1, <2>2, <2>3 DEF Store!StoreTypeOK, StorePast
<1>9. StoreSeeds
  BY <1>2 DEF Store!Init, StoreSeeds, Store!SeedingHolds, Store!SeededOnce
<1>10. StoreClaims
  BY <1>2 DEF Store!Init, StoreClaims, Store!ClaimsProve, Store!ClaimsKnow, Store!Claiming
<1>11. StoreShown
  BY <1>2 DEF Store!Init, StoreShown, Store!ShownAsOwned, Store!Cold
<1>12. StoreGrows
  <2>1. ~v9.back /\ StoreListed
    BY DEF Store!Init, Store!Cold, Store!NoRows, StoreListed
  <2>2. StoreTodos
    BY <1>2 DEF StoreTodos, StoreTodo, StoreZip
  <2> QED
    BY <2>1, <2>2, StoreGrowParts
<1> QED
  BY <1>8, <1>9, <1>10, <1>11, <1>12

\* A start: what it looks up, takes and records.
LEMMA StoreSeedLooks == ASSUME Store!IInv, Store!SeedLooks PROVE Store!IInv'
<1> SUFFICES Store!StoreTypeOK' /\ StoreSeeds' /\ StoreClaims' /\ StoreShown' /\ StoreGrows'
  BY StoreParts, PTL
<1>1. Store!StoreTypeOK /\ StoreSeeds /\ StoreClaims /\ StoreShown /\ StoreGrows
  BY StoreParts
<1>2. /\ v6.at = "down" /\ UNCHANGED <<v1, v2, v3, v5, v7, v8, v9>>
      /\ \/ v4' = Store!Kept(Store!Listing(v3)) /\ v6' = [at |-> "seed", todo |-> FreeModules \ v2, added |-> {}]
         \/ v4' = v4 /\ v6' = [v6 EXCEPT !.at = "up"]
  BY DEF Store!SeedLooks
<1>3. /\ v6' \in [at : {"down", "seed", "up"}, todo : SUBSET FreeModules, added : SUBSET FreeModules]
      /\ v6'.at # "down" /\ v6'.added = {}
      /\ v6'.todo \cap v2 = {}
  <2>1. v6.todo \subseteq FreeModules /\ v6.added = {} /\ v6.todo \cap v2 = {}
    BY <1>1, <1>2 DEF Store!StoreTypeOK, StoreSeeds, Store!SeedingHolds
  <2>2. CASE v6' = [v6 EXCEPT !.at = "up"]
    BY <1>1, <2>1, <2>2 DEF Store!StoreTypeOK
  <2>3. CASE v6' = [at |-> "seed", todo |-> FreeModules \ v2, added |-> {}]
    BY <2>3
  <2> QED
    BY <1>2, <2>2, <2>3
<1>4. /\ v4' \in [full : BOOLEAN, fresh : BOOLEAN, rows : Store!Rows]
      /\ v4' = v4 \/ (v4'.rows.keyed = v3 /\ v4'.rows.build = v7.build)
  <2>1. v3 \in BOOLEAN
    BY <1>1 DEF Store!StoreTypeOK
  <2>2. Store!Kept(Store!Listing(v3)) \in [full : BOOLEAN, fresh : BOOLEAN, rows : Store!Rows]
    BY <1>1, <2>1, StoreListing DEF Store!Kept
  <2>3. Store!Kept(Store!Listing(v3)).rows.keyed = v3 /\ Store!Kept(Store!Listing(v3)).rows.build = v7.build
    BY DEF Store!Kept, Store!Listing
  <2> QED
    BY <1>1, <1>2, <2>2, <2>3 DEF Store!StoreTypeOK
<1>5. Store!StoreTypeOK'
  BY <1>1, <1>2, <1>3, <1>4 DEF Store!StoreTypeOK
<1>6. StoreSeeds'
  BY <1>1, <1>2, <1>3 DEF StoreSeeds, Store!SeedingHolds, Store!SeededOnce
<1>7. StoreClaims'
  BY <1>1, <1>2 DEF StoreClaims, Store!ClaimsProve, Store!ClaimsKnow, Store!Claiming
<1>8. StoreShown'
  BY <1>1, <1>2, <1>4 DEF StoreShown, Store!ShownAsOwned
<1>9. StoreGrows'
  <2>1. \A p \in Actors : v8'[p].at = "idle"
    BY <1>1, <1>2 DEF StoreSeeds, Store!SeedingHolds
  <2>2. StoreTodos'
    BY <2>1 DEF StoreTodos, StoreTodo, StoreZip
  <2>3. (~v9.back)' /\ StoreListed'
    <3>1. v7.build \in [Store!Catalogue -> Nat]
      BY <1>1 DEF Store!StoreTypeOK
    <3> QED
      BY <1>1, <1>2, <1>4, <3>1, StoreGrowParts DEF StoreListed
  <2> QED
    BY <2>2, <2>3, StoreGrowParts, PTL
<1> QED
  BY <1>5, <1>6, <1>7, <1>8, <1>9

\* What an arrangement of installed versions must be while nothing is under way.
LEMMA StoreGrowsIdle ==
    ASSUME StoreGrows, \A p \in Actors : v8'[p].at = "idle", v9'.back = v9.back, v7'.build = v7.build,
           v4'.rows.build = v4.rows.build
    PROVE  StoreGrows'
<1>1. StoreTodos'
  BY DEF StoreTodos, StoreTodo, StoreZip
<1>2. (~v9.back)' /\ StoreListed'
  BY StoreGrowParts DEF StoreListed
<1> QED
  BY <1>1, <1>2, StoreGrowParts, PTL

LEMMA StoreSeedTakes ==
    ASSUME Store!IInv, NEW m \in Store!Catalogue, Store!SeedTakes(m)
    PROVE  Store!IInv'
<1> SUFFICES Store!StoreTypeOK' /\ StoreSeeds' /\ StoreClaims' /\ StoreShown' /\ StoreGrows'
  BY StoreParts, PTL
<1>1. Store!StoreTypeOK /\ StoreSeeds /\ StoreClaims /\ StoreShown /\ StoreGrows
  BY StoreParts
<1>2. v6.at = "seed" /\ m \in v6.todo /\ UNCHANGED <<v2, v3, v4, v5, v7, v8>>
  BY DEF Store!SeedTakes
<1>3. /\ v6'.at = "seed" /\ v6'.todo = v6.todo \ {m}
      /\ v6' \in [at : {"down", "seed", "up"}, todo : SUBSET FreeModules, added : SUBSET FreeModules]
      /\ v9'.given = v9.given \/ (v9'.given = v9.given \cup {m} /\ v6'.added = v6.added \cup {m})
      /\ v6'.added \in {v6.added, v6.added \cup {m}}
      /\ v9'.again = v9.again \/ (m \in v9.given /\ v9'.again = v9.again \cup {m})
      /\ v9' \in StorePast
      /\ v9'.unrecorded = v9.unrecorded /\ v9'.overlapped = v9.overlapped /\ v9'.refused = v9.refused
      /\ v9'.crossed = v9.crossed /\ v9'.back = v9.back
  <2>1. m \in FreeModules
    BY <1>1, <1>2 DEF Store!StoreTypeOK
  <2>2. CASE v6' = [v6 EXCEPT !.todo = @ \ {m}, !.added = @ \cup {m}] /\ v9' = v9
    BY <1>1, <1>2, <2>1, <2>2 DEF Store!StoreTypeOK, StorePast
  <2>3. CASE v6' = [v6 EXCEPT !.todo = @ \ {m}] /\ v9' = v9
    BY <1>1, <1>2, <2>1, <2>3 DEF Store!StoreTypeOK, StorePast
  <2>4. CASE /\ v6' = [v6 EXCEPT !.todo = @ \ {m}, !.added = @ \cup {m}]
             /\ v9' = [v9 EXCEPT !.given = @ \cup {m}, !.again = IF m \in v9.given THEN @ \cup {m} ELSE @]
    <3>1. CASE m \in v9.given
      <4>1. v9' = [v9 EXCEPT !.given = @ \cup {m}, !.again = @ \cup {m}]
        BY <2>4, <3>1
      <4>2. /\ v6'.at = "seed" /\ v6'.todo = v6.todo \ {m} /\ v6'.added = v6.added \cup {m}
            /\ v6' \in [at : {"down", "seed", "up"}, todo : SUBSET FreeModules, added : SUBSET FreeModules]
        BY <1>1, <1>2, <2>1, <2>4 DEF Store!StoreTypeOK
      <4>3. /\ v9'.given = v9.given \cup {m} /\ m \in v9.given /\ v9'.again = v9.again \cup {m}
            /\ v9' \in StorePast /\ v9'.unrecorded = v9.unrecorded /\ v9'.overlapped = v9.overlapped
            /\ v9'.refused = v9.refused /\ v9'.crossed = v9.crossed /\ v9'.back = v9.back
        BY <1>1, <2>1, <3>1, <4>1 DEF Store!StoreTypeOK, StorePast
      <4> QED
        BY <4>2, <4>3
    <3>2. CASE m \notin v9.given
      <4>1. v9' = [v9 EXCEPT !.given = @ \cup {m}]
        BY <1>1, <2>4, <3>2 DEF Store!StoreTypeOK
      <4>2. /\ v6'.at = "seed" /\ v6'.todo = v6.todo \ {m} /\ v6'.added = v6.added \cup {m}
            /\ v6' \in [at : {"down", "seed", "up"}, todo : SUBSET FreeModules, added : SUBSET FreeModules]
        BY <1>1, <1>2, <2>1, <2>4 DEF Store!StoreTypeOK
      <4>3. /\ v9'.given = v9.given \cup {m} /\ v9'.again = v9.again
            /\ v9' \in StorePast /\ v9'.unrecorded = v9.unrecorded /\ v9'.overlapped = v9.overlapped
            /\ v9'.refused = v9.refused /\ v9'.crossed = v9.crossed /\ v9'.back = v9.back
        BY <1>1, <2>1, <4>1 DEF Store!StoreTypeOK, StorePast
      <4> QED
        BY <4>2, <4>3
    <3> QED
      BY <3>1, <3>2
  <2> QED
    BY <2>2, <2>3, <2>4 DEF Store!SeedTakes
<1>4. v1' \in [Store!Catalogue -> Nat]
  <2>1. Store!Newest(m) \in Nat
    BY <1>1 DEF Store!StoreTypeOK, Store!Newest
  <2> DEFINE n == Store!Newest(m)
  <2>2. v1' = v1 \/ v1' = [v1 EXCEPT ![m] = n]
    BY DEF Store!SeedTakes
  <2> HIDE DEF n
  <2> QED
    BY <1>1, <2>1, <2>2 DEF Store!StoreTypeOK, n
<1>5. Store!StoreTypeOK'
  BY <1>1, <1>2, <1>3, <1>4 DEF Store!StoreTypeOK, StorePast
<1>6. StoreSeeds'
  <2>1. m \notin v2 \cup v6.added
    BY <1>1, <1>2 DEF StoreSeeds, Store!SeedingHolds
  <2>2. v9'.given \subseteq v2' \cup v6'.added \cup v9'.unrecorded
    BY <1>1, <1>2, <1>3 DEF StoreSeeds, Store!SeedingHolds
  <2>3. v9'.again \subseteq v9'.unrecorded
    BY <1>1, <1>3, <2>1 DEF StoreSeeds, Store!SeedingHolds, Store!SeededOnce
  <2>4. v6'.todo \cap (v2' \cup v6'.added) = {}
    BY <1>1, <1>2, <1>3 DEF StoreSeeds, Store!SeedingHolds
  <2>5. \A p \in Actors : v8'[p].at = "idle"
    BY <1>1, <1>2 DEF StoreSeeds, Store!SeedingHolds
  <2> QED
    BY <1>3, <2>2, <2>3, <2>4, <2>5 DEF StoreSeeds, Store!SeedingHolds, Store!SeededOnce
<1>7. StoreClaims'
  BY <1>1, <1>2, <1>3 DEF StoreClaims, Store!ClaimsProve, Store!ClaimsKnow, Store!Claiming
<1>8. StoreShown'
  BY <1>1, <1>2, <1>3 DEF StoreShown, Store!ShownAsOwned
<1>9. StoreGrows'
  <2>1. \A p \in Actors : v8'[p].at = "idle"
    BY <1>1, <1>2 DEF StoreSeeds, Store!SeedingHolds
  <2> QED
    BY <1>1, <1>2, <1>3, <2>1, StoreGrowsIdle
<1> QED
  BY <1>5, <1>6, <1>7, <1>8, <1>9

LEMMA StoreSeedMarks == ASSUME Store!IInv, Store!SeedMarks PROVE Store!IInv'
<1> SUFFICES Store!StoreTypeOK' /\ StoreSeeds' /\ StoreClaims' /\ StoreShown' /\ StoreGrows'
  BY StoreParts, PTL
<1>1. Store!StoreTypeOK /\ StoreSeeds /\ StoreClaims /\ StoreShown /\ StoreGrows
  BY StoreParts
<1>2. /\ v6.at = "seed" /\ v6.todo = {} /\ UNCHANGED <<v1, v3, v4, v5, v7, v8, v9>>
      /\ v6' = [v6 EXCEPT !.at = "up", !.added = {}]
      /\ v2' = v2 \cup v6.added
  BY DEF Store!SeedMarks, Store!Recorded
<1>3. /\ v6' \in [at : {"down", "seed", "up"}, todo : SUBSET FreeModules, added : SUBSET FreeModules]
      /\ v6'.at = "up" /\ v6'.todo = {} /\ v6'.added = {}
  BY <1>1, <1>2 DEF Store!StoreTypeOK
<1>4. v6.added \subseteq FreeModules
  BY <1>1 DEF Store!StoreTypeOK
<1>5. Store!StoreTypeOK'
  BY <1>1, <1>2, <1>3, <1>4 DEF Store!StoreTypeOK
<1>6. StoreSeeds'
  BY <1>1, <1>2, <1>3 DEF StoreSeeds, Store!SeedingHolds, Store!SeededOnce
<1>7. StoreClaims'
  BY <1>1, <1>2 DEF StoreClaims, Store!ClaimsProve, Store!ClaimsKnow, Store!Claiming
<1>8. StoreShown'
  BY <1>1, <1>2 DEF StoreShown, Store!ShownAsOwned
<1>9. StoreGrows'
  <2>1. \A p \in Actors : v8'[p].at = "idle"
    BY <1>1, <1>2 DEF StoreSeeds, Store!SeedingHolds
  <2> QED
    BY <1>1, <1>2, <2>1, StoreGrowsIdle
<1> QED
  BY <1>5, <1>6, <1>7, <1>8, <1>9

\* The process starts again, by a crash or by itself; what it added and did not record it
\* may give again.
LEMMA StoreRestart ==
    ASSUME Store!IInv, Store!Restart(v6.added), UNCHANGED <<v1, v2, v3, v7>>
    PROVE  Store!IInv'
<1> SUFFICES Store!StoreTypeOK' /\ StoreSeeds' /\ StoreClaims' /\ StoreShown' /\ StoreGrows'
  BY StoreParts, PTL
<1>1. Store!StoreTypeOK /\ StoreSeeds /\ StoreClaims /\ StoreShown /\ StoreGrows
  BY StoreParts
<1>2. /\ v6' = [at |-> "down", todo |-> {}, added |-> {}] /\ v4' = Store!Cold /\ v5' = Store!Nobody
      /\ v8' = [p \in Actors |-> Store!Idle]
      /\ v9' = [v9 EXCEPT !.unrecorded = @ \cup v6.added, !.overlapped = {}, !.crossed = FALSE]
  BY DEF Store!Restart
<1>3. v8' \in [Actors -> Store!Requests] /\ \A p \in Actors : v8'[p].at = "idle"
  <2>1. \A p \in Actors : v8'[p] = Store!Idle
    BY <1>2
  <2> QED
    BY <1>2, <2>1, StoreIdle DEF Store!Idle
<1>4. v6.added \subseteq FreeModules
  BY <1>1 DEF Store!StoreTypeOK
<1>5. /\ v9' \in StorePast /\ v9'.given = v9.given /\ v9'.again = v9.again
      /\ v9'.unrecorded = v9.unrecorded \cup v6.added /\ v9'.refused = v9.refused
      /\ v9'.back = v9.back
  BY <1>1, <1>2, <1>4 DEF Store!StoreTypeOK, StorePast
<1>6. /\ v4' \in [full : BOOLEAN, fresh : BOOLEAN, rows : Store!Rows] /\ ~v4'.full
      /\ \A m \in Store!Catalogue : v4'.rows.build[m] = 0
  BY <1>2 DEF Store!Cold, Store!NoRows, Store!Rows
<1>7. Store!StoreTypeOK'
  BY <1>1, <1>2, <1>3, <1>5, <1>6 DEF Store!StoreTypeOK, StorePast
<1>8. StoreSeeds'
  BY <1>1, <1>2, <1>3, <1>5 DEF StoreSeeds, Store!SeedingHolds, Store!SeededOnce
<1>9. StoreClaims'
  BY <1>1, <1>2, <1>3, <1>5 DEF StoreClaims, Store!ClaimsProve, Store!ClaimsKnow, Store!Claiming
<1>10. StoreShown'
  BY <1>3, <1>6 DEF StoreShown, Store!ShownAsOwned
<1>11. StoreGrows'
  <2>1. StoreTodos'
    BY <1>3 DEF StoreTodos, StoreTodo, StoreZip
  <2>2. StoreListed'
    <3>1. v7.build \in [Store!Catalogue -> Nat]
      BY <1>1 DEF Store!StoreTypeOK
    <3> QED
      BY <1>6, <3>1 DEF StoreListed
  <2>3. (~v9.back)'
    BY <1>1, <1>5, StoreGrowParts
  <2> QED
    BY <2>1, <2>2, <2>3, StoreGrowParts, PTL
<1> QED
  BY <1>7, <1>8, <1>9, <1>10, <1>11

LEMMA StoreCrash == ASSUME Store!IInv, Store!Crash PROVE Store!IInv'
  BY StoreRestart DEF Store!Crash

LEMMA StoreApplies == ASSUME Store!IInv, NEW p \in Actors, Store!Applies(p) PROVE Store!IInv'
<1>1. v6.added = {}
  BY StoreParts, StoreUp DEF Store!Applies
<1> QED
  BY <1>1, StoreRestart DEF Store!Applies

\* A step of a request that is neither a claim nor an install.
LEMMA StoreBegins ==
    ASSUME Store!IInv, NEW p \in Actors, NEW kind \in {"visit", "collect", "update"},
           Store!Begins(p, kind)
    PROVE  Store!IInv'
<1> SUFFICES Store!StoreTypeOK' /\ StoreSeeds' /\ StoreClaims' /\ StoreShown' /\ StoreGrows'
  BY StoreParts, PTL
<1>1. Store!StoreTypeOK /\ StoreSeeds /\ StoreClaims /\ StoreShown /\ StoreGrows
  BY StoreParts
<1> DEFINE r == [Store!Idle EXCEPT !.at = "claim", !.kind = kind, !.names = Store!NamesOf(kind)]
<1>2. /\ v6.at = "up" /\ v8[p].at = "idle" /\ Store!Goes(p, r)
      /\ UNCHANGED <<v1, v2, v3, v4, v5, v6, v7, v9>>
  BY DEF Store!Begins, Store!Up
<1>3. r \in Store!Requests /\ r.at = "claim" /\ r.kind # "none"
  <2>1. Store!NamesOf(kind) \in Seq({"id", "host"})
    <3>1. CASE kind = "visit"
      BY <3>1 DEF Store!NamesOf
    <3>2. CASE kind # "visit"
      BY <3>2 DEF Store!NamesOf
    <3> QED
      BY <3>1, <3>2
  <2> DEFINE names == Store!NamesOf(kind)
  <2> HIDE DEF names
  <2>2. names \in Seq({"id", "host"})
    BY <2>1 DEF names
  <2>3. r = [Store!Idle EXCEPT !.at = "claim", !.kind = kind, !.names = names]
    BY DEF names
  <2> QED
    BY <2>2, <2>3, StoreIdle DEF Store!Requests
<1> HIDE DEF r
<1>4. StoreStep(p, r)
  BY <1>1, <1>2, <1>3, StoreGoes
<1>5. Store!StoreTypeOK'
  <2>1. /\ v8' \in [Actors -> Store!Requests]
        /\ \A q \in Actors : /\ v8'[q].at # "idle" => v8'[q].kind # "none"
                             /\ v8'[q].at \in {"answer", "work", "unpack"} => v8'[q].looks # <<>>
    BY <1>1, <1>3, <1>4, StoreRequestsTyped
  <2> QED
    BY <1>1, <1>2, <2>1 DEF Store!StoreTypeOK
<1>6. StoreSeeds'
  BY <1>1, <1>2, StoreSeedsStay
<1>7. StoreClaims'
  BY <1>1, <1>2, <1>3, <1>4, StoreClaimsStay DEF Store!StoreTypeOK, Store!Nobody
<1>8. StoreShown'
  BY <1>1, <1>2, <1>3, <1>4, StoreShownStays
<1>9. StoreGrows'
  <2>1. \A m \in Store!Catalogue : (StoreTodo(p, m) /\ StoreZip(p, m))'
    BY <1>3, <1>4 DEF StoreStep, StoreTodo, StoreZip
  <2> QED
    BY <1>1, <1>2, <1>4, <2>1, StoreGrowsStay
<1> QED
  BY <1>5, <1>6, <1>7, <1>8, <1>9

\* Where a claim that applied, or did not, leaves its request.
LEMMA StoreGoesOn ==
    ASSUME Store!StoreTypeOK, NEW p \in Actors, v8[p].at # "idle", NEW applied \in BOOLEAN
    PROVE  /\ Store!After(p, applied) \in Store!Requests /\ Store!After(p, applied).at = "look"
           /\ Store!After(p, applied).kind # "none"
           /\ Store!Unapplied(p) \in Store!Requests /\ Store!Unapplied(p).at \in {"claim", "look"}
           /\ Store!Unapplied(p).kind # "none"
<1>1. v8[p] \in Store!Requests /\ v8[p].kind # "none"
  BY DEF Store!StoreTypeOK
<1>2. ASSUME NEW b \in BOOLEAN
      PROVE  /\ Store!After(p, b) \in Store!Requests /\ Store!After(p, b).at = "look"
             /\ Store!After(p, b).kind # "none"
  <2> DEFINE looks == Store!LooksOf(v8[p].kind, b)
  <2>1. looks \in Seq({"owned", "newer", "page"})
    <3>1. v8[p].kind \in {"visit", "collect", "update"}
      BY <1>1 DEF Store!Requests, Store!StoreTypeOK
    <3>2. looks \in {<<"owned", "page">>, <<"owned">>, <<>>, <<"owned", "owned", "newer">>, <<"owned", "newer">>}
      BY <3>1 DEF Store!LooksOf
    <3>3. /\ <<"owned", "page">> \in Seq({"owned", "newer", "page"})
          /\ <<"owned">> \in Seq({"owned", "newer", "page"})
          /\ <<>> \in Seq({"owned", "newer", "page"})
          /\ <<"owned", "owned", "newer">> \in Seq({"owned", "newer", "page"})
          /\ <<"owned", "newer">> \in Seq({"owned", "newer", "page"})
      OBVIOUS
    <3> HIDE DEF looks
    <3> QED
      BY <3>2, <3>3
  <2>2. Store!After(p, b) = [v8[p] EXCEPT !.at = "look", !.looks = looks]
    BY DEF Store!After
  <2> HIDE DEF looks
  <2> QED
    BY <1>1, <2>1, <2>2 DEF Store!Requests
<1>3. /\ Store!Unapplied(p) \in Store!Requests /\ Store!Unapplied(p).at \in {"claim", "look"}
      /\ Store!Unapplied(p).kind # "none"
  <2>1. CASE Len(v8[p].names) = 2
    <3> DEFINE names == Tail(v8[p].names)
    <3>1. v8[p].names \in Seq({"id", "host"})
      BY <1>1 DEF Store!Requests
    <3>2. names \in Seq({"id", "host"})
      BY SMTT(40), <2>1, <3>1
    <3>3. Store!Unapplied(p) = [v8[p] EXCEPT !.at = "claim", !.names = names]
      BY <1>1, <2>1 DEF Store!Unapplied, Store!Requests
    <3> HIDE DEF names
    <3> QED
      BY <1>1, <3>2, <3>3 DEF Store!Requests
  <2>2. CASE Len(v8[p].names) # 2
    BY <1>2, <2>2 DEF Store!Unapplied
  <2> QED
    BY <2>1, <2>2
<1> QED
  BY <1>2, <1>3

\* A claim sets out.  Whoever else is at one is told of it.
LEMMA StoreClaimStarts ==
    ASSUME Store!IInv, NEW p \in Actors, Store!ClaimStarts(p)
    PROVE  Store!IInv'
<1> SUFFICES Store!StoreTypeOK' /\ StoreSeeds' /\ StoreClaims' /\ StoreShown' /\ StoreGrows'
  BY StoreParts, PTL
<1>1. Store!StoreTypeOK /\ StoreSeeds /\ StoreClaims /\ StoreShown /\ StoreGrows
  BY StoreParts
<1> DEFINE others == {q \in Actors \ {p} : Store!Claiming(q)}
           told == (v9.overlapped \ {p}) \cup (IF others = {} THEN {} ELSE others \cup {p})
<1>2. v8[p].at = "claim" /\ v6.at = "up"
  BY <1>1, StoreUp DEF Store!ClaimStarts
<1>3. /\ v9' = [v9 EXCEPT !.overlapped = told] /\ UNCHANGED <<v1, v2, v3, v4, v6, v7>>
  BY DEF Store!ClaimStarts
<1>4. told \subseteq Actors
  BY <1>1 DEF Store!StoreTypeOK
<1>5. /\ v9' \in StorePast /\ v9'.overlapped = told /\ v9'.given = v9.given /\ v9'.again = v9.again
      /\ v9'.unrecorded = v9.unrecorded /\ v9'.refused = v9.refused /\ v9'.crossed = v9.crossed
      /\ v9'.back = v9.back /\ v9'.beaten = v9.beaten
  <2> HIDE DEF told
  <2> QED
    BY <1>1, <1>3, <1>4 DEF Store!StoreTypeOK, StorePast
<1>6. PICK r \in Store!Requests :
        /\ StoreStep(p, r) /\ r.kind # "none"
        /\ \/ r.at = "prove" /\ v5' = p
           \/ r.at \in {"claim", "look"} /\ v5' = "nobody"
  <2>1. CASE v5' = p /\ Store!Goes(p, Store!At(p, "prove"))
    <3>1. Store!At(p, "prove") \in Store!Requests /\ Store!At(p, "prove").at = "prove"
          /\ Store!At(p, "prove").kind # "none"
      <4>1. v8[p] \in Store!Requests /\ v8[p].kind # "none"
        BY <1>1, <1>2 DEF Store!StoreTypeOK
      <4> QED
        BY <4>1 DEF Store!At, Store!Requests
    <3>2. StoreStep(p, Store!At(p, "prove"))
      BY <1>1, <2>1, <3>1, StoreGoes
    <3> QED
      BY <2>1, <3>1, <3>2
  <2>2. CASE v5' = Store!Blanked(p) /\ Store!Goes(p, Store!Unapplied(p))
    <3>1. /\ Store!Unapplied(p) \in Store!Requests /\ Store!Unapplied(p).at \in {"claim", "look"}
          /\ Store!Unapplied(p).kind # "none"
      BY <1>1, <1>2, StoreGoesOn
    <3>2. StoreStep(p, Store!Unapplied(p))
      BY <1>1, <2>2, <3>1, StoreGoes
    <3> QED
      BY <2>2, <3>1, <3>2 DEF Store!Blanked, Store!Nobody
  <2> QED
    BY <2>1, <2>2 DEF Store!ClaimStarts
<1>7. Store!StoreTypeOK'
  <2> HIDE DEF told, others
  <2>1. /\ v8' \in [Actors -> Store!Requests]
        /\ \A q \in Actors :
              /\ v8'[q].at # "idle" => v8'[q].kind # "none"
              /\ v8'[q].at \in {"answer", "work", "unpack"} => v8'[q].looks # <<>>
    <3>1. \A q \in Actors :
              /\ v8[q].at # "idle" => v8[q].kind # "none"
              /\ v8[q].at \in {"answer", "work", "unpack"} => v8[q].looks # <<>>
      BY <1>1 DEF Store!StoreTypeOK
    <3> QED
      BY <1>6, <3>1 DEF StoreStep
  <2>2. v5' \in Actors \cup {Store!Nobody}
    BY <1>6 DEF Store!Nobody
  <2>3. v9' \in StorePast
    BY <1>5
  <2>4. /\ v1' \in [Store!Catalogue -> Nat] /\ v2' \subseteq FreeModules /\ v3' \in BOOLEAN
        /\ v4' \in [full : BOOLEAN, fresh : BOOLEAN, rows : Store!Rows]
        /\ v6' \in [at : {"down", "seed", "up"}, todo : SUBSET FreeModules, added : SUBSET FreeModules]
        /\ v7' \in [build : [Store!Catalogue -> Nat], sold : {"no", "id", "host"}, lapsed : BOOLEAN]
    BY <1>1, <1>3 DEF Store!StoreTypeOK
  <2> QED
    BY <2>1, <2>2, <2>3, <2>4 DEF Store!StoreTypeOK, StorePast
<1>8. StoreSeeds'
  BY <1>1, <1>2, <1>3, <1>5, StoreSeedsStay
<1>9. StoreClaims'
  <2>1. \A q \in Actors \ {p} : v8'[q] = v8[q] /\ (Store!Claiming(q)' <=> Store!Claiming(q))
    BY <1>6 DEF StoreStep, Store!Claiming
  <2>2. Store!Claiming(p)' => v5' = p
    BY <1>6 DEF StoreStep, Store!Claiming
  <2>3. v5' # "nobody" => v5' = p /\ Store!Claiming(p)'
    BY <1>6 DEF StoreStep, Store!Claiming
  <2>4. \A q \in others : q \in told /\ p \in told
    OBVIOUS
  <2>5. \A q \in v9.overlapped : q # p => q \in told
    OBVIOUS
  <2>6. \A q \in Actors \ {p} : Store!Claiming(q) <=> q \in others
    OBVIOUS
  <2>7. ~v9.refused /\ \A q, q2 \in Actors : q # q2 /\ Store!Claiming(q) /\ Store!Claiming(q2) => q \in v9.overlapped
    BY <1>1 DEF StoreClaims, Store!ClaimsKnow, Store!ClaimsProve
  <2> HIDE DEF told, others
  <2>8. Store!ClaimsProve'
    BY <1>5, <2>3, <2>7 DEF Store!ClaimsProve, Store!Nobody
  <2>9. \A q \in Actors : v8'[q].at = "prove" => Store!Claiming(q)'
    BY DEF Store!Claiming
  <2>10. \A q \in Actors : v8'[q].at = "prove" /\ q \notin told => v5' = q
    BY <2>1, <2>2, <2>4, <2>6, <2>9
  <2>11. \A q, q2 \in Actors : q # q2 /\ Store!Claiming(q)' /\ Store!Claiming(q2)' => q \in told
    BY <2>1, <2>4, <2>5, <2>6, <2>7
  <2> QED
    BY <1>5, <2>8, <2>10, <2>11 DEF StoreClaims, Store!ClaimsKnow
<1>10. StoreShown'
  BY <1>1, <1>3, <1>5, <1>6, StoreShownStays
<1>11. StoreGrows'
  <2>1. \A m \in Store!Catalogue : (StoreTodo(p, m) /\ StoreZip(p, m))'
    BY <1>6 DEF StoreStep, StoreTodo, StoreZip
  <2> QED
    BY <1>1, <1>3, <1>5, <1>6, <2>1, StoreGrowsStay
<1> QED
  BY <1>7, <1>8, <1>9, <1>10, <1>11

\* The seller looks for the challenge, which is there unless another claim came between.
LEMMA StoreClaimIsChecked ==
    ASSUME Store!IInv, NEW p \in Actors, Store!ClaimIsChecked(p)
    PROVE  Store!IInv'
<1> SUFFICES Store!StoreTypeOK' /\ StoreSeeds' /\ StoreClaims' /\ StoreShown' /\ StoreGrows'
  BY StoreParts, PTL
<1>1. Store!StoreTypeOK /\ StoreSeeds /\ StoreClaims /\ StoreShown /\ StoreGrows
  BY StoreParts
<1>2. v8[p].at = "prove" /\ v6.at = "up" /\ UNCHANGED <<v1, v2, v3, v4, v5, v6, v7>>
  BY <1>1, StoreUp DEF Store!ClaimIsChecked
<1>3. p \notin v9.overlapped => Store!Proved(p)
  BY <1>1, <1>2 DEF StoreClaims, Store!ClaimsKnow, Store!Proved
<1>4. v9' = v9
  <2>1. CASE v9' = [v9 EXCEPT !.refused = @ \/ (~Store!Proved(p) /\ p \notin v9.overlapped)]
    <3>1. v9.refused = FALSE /\ v9 \in StorePast
      BY <1>1 DEF StoreClaims, Store!ClaimsProve, Store!StoreTypeOK, StorePast
    <3>2. v9' = [v9 EXCEPT !.refused = FALSE]
      BY <1>3, <2>1, <3>1
    <3> QED
      BY <3>1, <3>2 DEF StorePast
  <2> QED
    BY <2>1 DEF Store!ClaimIsChecked
<1>5. PICK proved \in BOOLEAN, keyed \in BOOLEAN :
         Store!Goes(p, [v8[p] EXCEPT !.at = "collect", !.proved = proved, !.keyed = keyed])
  BY DEF Store!ClaimIsChecked, Store!Proved, Store!Handed
<1> DEFINE r == [v8[p] EXCEPT !.at = "collect", !.proved = proved, !.keyed = keyed]
<1>6. r \in Store!Requests /\ r.at = "collect" /\ r.kind # "none"
  <2>1. v8[p] \in Store!Requests /\ v8[p].kind # "none"
    BY <1>1, <1>2 DEF Store!StoreTypeOK
  <2> QED
    BY <2>1 DEF Store!Requests
<1> HIDE DEF r
<1>7. StoreStep(p, r)
  BY <1>1, <1>5, <1>6, StoreGoes DEF r
<1>8. Store!StoreTypeOK'
  <2>1. \A q \in Actors :
          /\ v8'[q].at # "idle" => v8'[q].kind # "none"
          /\ v8'[q].at \in {"answer", "work", "unpack"} => v8'[q].looks # <<>>
    BY SMTT(40), <1>1, <1>6, <1>7 DEF Store!StoreTypeOK, StoreStep
  <2>2. v8' \in [Actors -> Store!Requests]
    BY <1>7 DEF StoreStep
  <2> QED
    BY <1>1, <1>2, <1>4, <2>1, <2>2 DEF Store!StoreTypeOK
<1>9. StoreSeeds'
  BY <1>1, <1>2, <1>4, StoreSeedsStay
<1>10. StoreClaims'
  <2>1. \A q \in Actors : Store!Claiming(q)' <=> Store!Claiming(q)
    BY <1>2, <1>6, <1>7 DEF StoreStep, Store!Claiming
  <2>2. \A q \in Actors : v8'[q].at = "prove" => v8[q].at = "prove"
    BY <1>6, <1>7 DEF StoreStep
  <2>3. Store!ClaimsProve'
    BY <1>1, <1>2, <1>4, <2>1 DEF StoreClaims, Store!ClaimsProve, Store!StoreTypeOK, Store!Nobody
  <2>4. Store!ClaimsKnow'
    BY <1>1, <1>2, <1>4, <2>1, <2>2 DEF StoreClaims, Store!ClaimsKnow
  <2> QED
    BY <2>3, <2>4 DEF StoreClaims
<1>11. StoreShown'
  BY <1>1, <1>2, <1>4, <1>6, <1>7, StoreShownStays
<1>12. StoreGrows'
  <2>1. \A m \in Store!Catalogue : (StoreTodo(p, m) /\ StoreZip(p, m))'
    BY <1>6, <1>7 DEF StoreStep, StoreTodo, StoreZip
  <2> QED
    BY <1>1, <1>2, <1>4, <1>7, <2>1, StoreGrowsStay
<1> QED
  BY <1>8, <1>9, <1>10, <1>11, <1>12

\* A key that is stored is the key of the next listing; one on its way was asked for without.
LEMMA StoreStored ==
    ASSUME Store!StoreTypeOK, StoreGrows, Store!Stored
    PROVE  /\ v3' = TRUE /\ v4' = Store!Cold
           /\ v4' \in [full : BOOLEAN, fresh : BOOLEAN, rows : Store!Rows] /\ ~v4'.full
           /\ \A m \in Store!Catalogue : v4'.rows.build[m] = 0
           /\ v9' \in StorePast /\ (v9'.crossed <=> \E q \in Actors : v8[q].at = "answer")
           /\ v9'.given = v9.given /\ v9'.again = v9.again /\ v9'.unrecorded = v9.unrecorded
           /\ v9'.overlapped = v9.overlapped /\ v9'.refused = v9.refused
           /\ v9'.back = v9.back /\ v9'.beaten = v9.beaten
<1> DEFINE crossed == \E q \in Actors : v8[q].at = "answer"
<1>1. v3' = TRUE /\ v4' = Store!Cold /\ v9' = [v9 EXCEPT !.crossed = crossed]
  BY DEF Store!Stored, Store!Emptied
<1>2. crossed \in BOOLEAN
  OBVIOUS
<1>3. /\ Store!Cold \in [full : BOOLEAN, fresh : BOOLEAN, rows : Store!Rows] /\ ~Store!Cold.full
      /\ \A m \in Store!Catalogue : Store!Cold.rows.build[m] = 0
  BY DEF Store!Cold, Store!NoRows, Store!Rows
<1>4. /\ v9' \in StorePast /\ v9'.crossed = crossed
      /\ v9'.given = v9.given /\ v9'.again = v9.again /\ v9'.unrecorded = v9.unrecorded
      /\ v9'.overlapped = v9.overlapped /\ v9'.refused = v9.refused
      /\ v9'.back = v9.back /\ v9'.beaten = v9.beaten
  <2> HIDE DEF crossed
  <2> QED
    BY <1>1, <1>2 DEF Store!StoreTypeOK, StorePast
<1> QED
  BY <1>1, <1>3, <1>4

LEMMA StoreClaimCollects ==
    ASSUME Store!IInv, NEW p \in Actors, Store!ClaimCollects(p)
    PROVE  Store!IInv'
<1> SUFFICES Store!StoreTypeOK' /\ StoreSeeds' /\ StoreClaims' /\ StoreShown' /\ StoreGrows'
  BY StoreParts, PTL
<1>1. Store!StoreTypeOK /\ StoreSeeds /\ StoreClaims /\ StoreShown /\ StoreGrows
  BY StoreParts
<1>2. v8[p].at = "collect" /\ v6.at = "up" /\ v5' = "nobody" /\ UNCHANGED <<v1, v2, v6, v7>>
  BY <1>1, StoreUp DEF Store!ClaimCollects, Store!Blanked, Store!Nobody
<1>3. PICK r \in Store!Requests :
        /\ StoreStep(p, r) /\ r.kind # "none" /\ r.at \in {"claim", "look"}
        /\ Store!Stored \/ UNCHANGED <<v3, v4, v9>>
  <2>1. /\ Store!After(p, TRUE) \in Store!Requests /\ Store!After(p, TRUE).at = "look"
        /\ Store!After(p, TRUE).kind # "none"
        /\ Store!Unapplied(p) \in Store!Requests /\ Store!Unapplied(p).at \in {"claim", "look"}
        /\ Store!Unapplied(p).kind # "none"
    BY <1>1, <1>2, StoreGoesOn
  <2>2. CASE Store!Goes(p, Store!After(p, TRUE)) /\ Store!Stored
    BY <1>1, <2>1, <2>2, StoreGoes
  <2>3. CASE Store!Goes(p, Store!Unapplied(p)) /\ UNCHANGED <<v3, v4, v9>>
    BY <1>1, <2>1, <2>3, StoreGoes
  <2> QED
    BY <2>2, <2>3 DEF Store!ClaimCollects
<1>4. /\ v3' \in BOOLEAN /\ v4' \in [full : BOOLEAN, fresh : BOOLEAN, rows : Store!Rows]
      /\ v9' \in StorePast /\ v9'.given = v9.given /\ v9'.again = v9.again
      /\ v9'.unrecorded = v9.unrecorded /\ v9'.overlapped = v9.overlapped
      /\ v9'.refused = v9.refused /\ v9'.back = v9.back /\ v9'.beaten = v9.beaten
      /\ \/ v4' = v4 /\ v3' = v3 /\ v9' = v9
         \/ /\ ~v4'.full /\ \A m \in Store!Catalogue : v4'.rows.build[m] = 0
            /\ v9'.crossed <=> \E q \in Actors : v8[q].at = "answer"
  <2>1. CASE Store!Stored
    BY <1>1, <2>1, StoreStored
  <2>2. CASE UNCHANGED <<v3, v4, v9>>
    BY <1>1, <2>2 DEF Store!StoreTypeOK, StorePast
  <2> QED
    BY <1>3, <2>1, <2>2
<1>5. Store!StoreTypeOK'
  <2>1. /\ v8' \in [Actors -> Store!Requests]
        /\ \A q \in Actors : /\ v8'[q].at # "idle" => v8'[q].kind # "none"
                             /\ v8'[q].at \in {"answer", "work", "unpack"} => v8'[q].looks # <<>>
    BY <1>1, <1>2, <1>3, StoreRequestsTyped
  <2> QED
    BY <1>1, <1>2, <1>3, <1>4, <2>1 DEF Store!StoreTypeOK, StorePast, Store!Nobody
<1>6. StoreSeeds'
  BY <1>1, <1>2, <1>4, StoreSeedsStay
<1>7. StoreClaims'
  <2>1. \A q \in Actors : v8'[q].at = "prove" => q # p /\ Store!Claiming(q) /\ Store!Claiming(p)
    BY <1>2, <1>3 DEF StoreStep, Store!Claiming
  <2>2. \A q \in Actors : Store!Claiming(q)' => Store!Claiming(q)
    BY <1>3 DEF StoreStep, Store!Claiming
  <2>3. Store!ClaimsProve'
    BY <1>1, <1>2, <1>4 DEF StoreClaims, Store!ClaimsProve, Store!Nobody
  <2>4. Store!ClaimsKnow'
    BY <1>1, <1>4, <2>1, <2>2 DEF StoreClaims, Store!ClaimsKnow
  <2> QED
    BY <2>3, <2>4 DEF StoreClaims
<1>8. StoreShown'
  <2>1. \A q \in Actors : v8'[q].at = "answer" => v8[q].at = "answer" /\ v8'[q].keyed = v8[q].keyed
    BY <1>3 DEF StoreStep
  <2> QED
    BY <1>1, <1>4, <2>1 DEF StoreShown, Store!ShownAsOwned
<1>9. StoreGrows'
  <2>1. StoreTodos'
    <3>1. \A m \in Store!Catalogue : (StoreTodo(p, m) /\ StoreZip(p, m))'
      BY <1>3 DEF StoreStep, StoreTodo, StoreZip
    <3>2. ASSUME NEW q \in Actors \ {p}, NEW m \in Store!Catalogue PROVE (StoreTodo(q, m) /\ StoreZip(q, m))'
      <4>1. StoreTodo(q, m) /\ StoreZip(q, m) /\ v8'[q] = v8[q]
        BY <1>1, <1>3, StoreGrowParts DEF StoreTodos, StoreStep
      <4> QED
        BY <1>2, <1>4, <4>1 DEF StoreTodo, StoreZip, Store!Forced
    <3> QED
      BY <3>1, <3>2 DEF StoreTodos
  <2>2. StoreListed'
    <3>1. v7.build \in [Store!Catalogue -> Nat]
      BY <1>1 DEF Store!StoreTypeOK
    <3> QED
      BY <1>1, <1>2, <1>4, <3>1, StoreGrowParts DEF StoreListed
  <2>3. (~v9.back)'
    BY <1>1, <1>4, StoreGrowParts
  <2> QED
    BY <2>1, <2>2, <2>3, StoreGrowParts, PTL
<1> QED
  BY <1>5, <1>6, <1>7, <1>8, <1>9

LEMMA StoreEnters == ASSUME Store!IInv, Store!Enters PROVE Store!IInv'
<1> SUFFICES Store!StoreTypeOK' /\ StoreSeeds' /\ StoreClaims' /\ StoreShown' /\ StoreGrows'
  BY StoreParts, PTL
<1>1. Store!StoreTypeOK /\ StoreSeeds /\ StoreClaims /\ StoreShown /\ StoreGrows
  BY StoreParts
<1>2. v6.at = "up" /\ Store!Stored /\ UNCHANGED <<v1, v2, v5, v6, v7, v8>>
  BY DEF Store!Enters, Store!Up
<1>3. /\ v3' = TRUE
      /\ v4' \in [full : BOOLEAN, fresh : BOOLEAN, rows : Store!Rows] /\ ~v4'.full
      /\ \A m \in Store!Catalogue : v4'.rows.build[m] = 0
      /\ v9' \in StorePast /\ (v9'.crossed <=> \E q \in Actors : v8[q].at = "answer")
      /\ v9'.given = v9.given /\ v9'.again = v9.again /\ v9'.unrecorded = v9.unrecorded
      /\ v9'.overlapped = v9.overlapped /\ v9'.refused = v9.refused
      /\ v9'.back = v9.back /\ v9'.beaten = v9.beaten
  BY <1>1, <1>2, StoreStored
<1>4. Store!StoreTypeOK'
  BY <1>1, <1>2, <1>3 DEF Store!StoreTypeOK, StorePast
<1>5. StoreSeeds'
  BY <1>1, <1>2, <1>3, StoreSeedsStay
<1>6. StoreClaims'
  BY <1>1, <1>2, <1>3 DEF StoreClaims, Store!ClaimsProve, Store!ClaimsKnow, Store!Claiming
<1>7. StoreShown'
  BY <1>2, <1>3 DEF StoreShown, Store!ShownAsOwned
<1>8. StoreGrows'
  <2>1. StoreTodos'
    BY <1>1, <1>2, <1>3, StoreGrowParts DEF StoreTodos, StoreTodo, StoreZip, Store!Forced
  <2>2. StoreListed'
    <3>1. v7.build \in [Store!Catalogue -> Nat]
      BY <1>1 DEF Store!StoreTypeOK
    <3> QED
      BY <1>2, <1>3, <3>1 DEF StoreListed
  <2>3. (~v9.back)'
    BY <1>1, <1>3, StoreGrowParts
  <2> QED
    BY <2>1, <2>2, <2>3, StoreGrowParts, PTL
<1> QED
  BY <1>4, <1>5, <1>6, <1>7, <1>8

LEMMA StoreLooks ==
    ASSUME Store!IInv, NEW p \in Actors, Store!Looks(p)
    PROVE  Store!IInv'
<1> SUFFICES Store!StoreTypeOK' /\ StoreSeeds' /\ StoreClaims' /\ StoreShown' /\ StoreGrows'
  BY StoreParts, PTL
<1>1. Store!StoreTypeOK /\ StoreSeeds /\ StoreClaims /\ StoreShown /\ StoreGrows
  BY StoreParts
<1>2. v8[p].at = "look" /\ v6.at = "up" /\ UNCHANGED <<v1, v2, v3, v4, v5, v6, v7, v9>>
  BY <1>1, StoreUp DEF Store!Looks
<1>3. PICK r \in Store!Requests :
        /\ StoreStep(p, r)
        /\ \/ r.at = "idle"
           \/ r.at = "answer" /\ r.kind # "none" /\ r.looks # <<>> /\ r.keyed = v3
  <2>1. CASE Store!Goes(p, Store!Idle)
    <3>1. Store!Idle.at = "idle"
      BY DEF Store!Idle
    <3> QED
      BY <1>1, <2>1, <3>1, StoreGoes, StoreIdle
  <2>2. CASE /\ Store!Goes(p, [v8[p] EXCEPT !.at = "answer", !.keyed = v3])
             /\ v8[p].looks # <<>>
    <3> DEFINE r == [v8[p] EXCEPT !.at = "answer", !.keyed = v3]
    <3>1. v8[p] \in Store!Requests /\ v8[p].kind # "none" /\ v3 \in BOOLEAN
      BY <1>1, <1>2 DEF Store!StoreTypeOK
    <3>2. r \in Store!Requests /\ r.at = "answer" /\ r.kind # "none" /\ r.looks # <<>> /\ r.keyed = v3
      BY <2>2, <3>1 DEF Store!Requests
    <3> HIDE DEF r
    <3>3. StoreStep(p, r)
      BY <1>1, <2>2, <3>2, StoreGoes DEF r
    <3> QED
      BY <3>2, <3>3
  <2> QED
    BY <2>1, <2>2 DEF Store!Looks
<1>4. Store!StoreTypeOK'
  <2>1. \A q \in Actors :
          /\ v8'[q].at # "idle" => v8'[q].kind # "none"
          /\ v8'[q].at \in {"answer", "work", "unpack"} => v8'[q].looks # <<>>
    BY <1>1, <1>3, StoreRequestsTyped
  <2>2. v8' \in [Actors -> Store!Requests]
    BY <1>3 DEF StoreStep
  <2> QED
    BY <1>1, <1>2, <2>1, <2>2 DEF Store!StoreTypeOK
<1>5. StoreSeeds'
  BY <1>1, <1>2, StoreSeedsStay
<1>6. StoreClaims'
  BY <1>1, <1>2, <1>3, StoreClaimsStay DEF Store!StoreTypeOK, Store!Nobody
<1>7. StoreShown'
  BY <1>1, <1>2, <1>3, StoreShownStays
<1>8. StoreGrows'
  <2>1. \A m \in Store!Catalogue : (StoreTodo(p, m) /\ StoreZip(p, m))'
    BY <1>3 DEF StoreStep, StoreTodo, StoreZip
  <2> QED
    BY <1>1, <1>2, <1>3, <2>1, StoreGrowsStay
<1> QED
  BY <1>4, <1>5, <1>6, <1>7, <1>8

\* What a request wants of rows that are not ahead of the seller it can have.
LEMMA StoreReads ==
    ASSUME Store!StoreTypeOK, NEW p \in Actors, v8[p].at = "answer", NEW rows \in Store!Rows,
           Store!Reads(p, rows), \A m \in Store!Catalogue : rows.build[m] <= v7.build[m]
    PROVE  \E r \in Store!Requests :
             /\ StoreStep(p, r) /\ r.at = "work" /\ r.kind # "none" /\ r.looks # <<>>
             /\ \A m \in r.todo : Head(r.looks) = "newer" => v1[m] <= v7.build[m]
<1> DEFINE todo == Store!Wanted(rows, Head(v8[p].looks))
           r == [v8[p] EXCEPT !.at = "work", !.todo = todo]
<1>1. v8[p] \in Store!Requests /\ v8[p].kind # "none" /\ v8[p].looks # <<>>
  BY DEF Store!StoreTypeOK
<1>2. Head(v8[p].looks) \in {"owned", "newer", "page"}
  BY <1>1 DEF Store!Requests
<1>3. todo \subseteq Store!Catalogue
  BY <1>2 DEF Store!Wanted, Store!Rows
<1>4. ASSUME NEW m \in todo, Head(v8[p].looks) = "newer" PROVE v1[m] <= v7.build[m]
  <2>1. m \in Store!Catalogue /\ rows.build[m] > v1[m]
    BY <1>4 DEF Store!Wanted, Store!Newer
  <2>2. v1[m] \in Nat /\ rows.build[m] \in Nat /\ v7.build[m] \in Nat
    BY <2>1 DEF Store!StoreTypeOK, Store!Rows
  <2>3. rows.build[m] <= v7.build[m]
    BY <2>1
  <2> QED
    BY <2>1, <2>2, <2>3
<1>5. Store!Goes(p, r)
  BY DEF Store!Reads
<1> HIDE DEF todo
<1>6. /\ r \in Store!Requests /\ r.at = "work" /\ r.kind # "none" /\ r.looks = v8[p].looks
      /\ r.todo = todo
  BY <1>1, <1>3 DEF Store!Requests
<1> HIDE DEF r
<1>7. StoreStep(p, r)
  BY <1>5, <1>6, StoreGoes
<1> QED
  BY <1>1, <1>4, <1>6, <1>7

LEMMA StoreAnswered ==
    ASSUME Store!IInv, NEW p \in Actors, Store!Answered(p)
    PROVE  Store!IInv'
<1> SUFFICES Store!StoreTypeOK' /\ StoreSeeds' /\ StoreClaims' /\ StoreShown' /\ StoreGrows'
  BY StoreParts, PTL
<1>1. Store!StoreTypeOK /\ StoreSeeds /\ StoreClaims /\ StoreShown /\ StoreGrows
  BY StoreParts
<1>2. v8[p].at = "answer" /\ v6.at = "up" /\ UNCHANGED <<v1, v2, v3, v5, v6, v7, v9>>
  BY <1>1, StoreUp DEF Store!Answered
<1> DEFINE listing == Store!Listing(v8[p].keyed)
<1>3. v8[p].keyed \in BOOLEAN /\ v7.build \in [Store!Catalogue -> Nat]
  BY <1>1 DEF Store!StoreTypeOK, Store!Requests
<1>4. listing \in Store!Rows /\ listing.build = v7.build /\ listing.keyed = v8[p].keyed
  <2>1. listing \in Store!Rows
    BY <1>1, <1>3, StoreListing
  <2> QED
    BY <2>1 DEF Store!Listing
<1>5. PICK rows \in Store!Rows :
        /\ Store!Reads(p, rows)
        /\ \A m \in Store!Catalogue : rows.build[m] <= v7.build[m]
        /\ v4' \in [full : BOOLEAN, fresh : BOOLEAN, rows : Store!Rows] /\ v4'.rows = rows
        /\ rows.keyed = v8[p].keyed \/ (rows = v4.rows /\ v4'.full = v4.full)
  <2>1. CASE v4' = Store!Kept(listing) /\ Store!Reads(p, listing)
    <3> HIDE DEF listing
    <3>1. v4' \in [full : BOOLEAN, fresh : BOOLEAN, rows : Store!Rows] /\ v4'.rows = listing
      BY <1>4, <2>1 DEF Store!Kept
    <3>2. \A m \in Store!Catalogue : listing.build[m] <= v7.build[m]
      BY <1>3, <1>4
    <3> QED
      BY <1>4, <2>1, <3>1, <3>2
  <2>2. CASE v4' = [v4 EXCEPT !.fresh = v4.full] /\ Store!Reads(p, v4.rows)
    <3>1. /\ v4' \in [full : BOOLEAN, fresh : BOOLEAN, rows : Store!Rows] /\ v4'.rows = v4.rows
          /\ v4'.full = v4.full /\ v4.rows \in Store!Rows
      BY <1>1, <2>2 DEF Store!StoreTypeOK
    <3>2. \A m \in Store!Catalogue : v4.rows.build[m] <= v7.build[m]
      BY <1>1, StoreGrowParts DEF StoreListed
    <3> QED
      BY <2>2, <3>1, <3>2
  <2> QED
    BY <2>1, <2>2 DEF Store!Answered
<1> HIDE DEF listing
<1>6. PICK r \in Store!Requests :
        /\ StoreStep(p, r) /\ r.at = "work" /\ r.kind # "none" /\ r.looks # <<>>
        /\ \A m \in r.todo : Head(r.looks) = "newer" => v1[m] <= v7.build[m]
  BY <1>1, <1>2, <1>5, StoreReads
<1>7. Store!StoreTypeOK'
  <2>1. \A q \in Actors :
          /\ v8'[q].at # "idle" => v8'[q].kind # "none"
          /\ v8'[q].at \in {"answer", "work", "unpack"} => v8'[q].looks # <<>>
    BY <1>1, <1>6, StoreRequestsTyped
  <2>2. v8' \in [Actors -> Store!Requests]
    BY <1>6 DEF StoreStep
  <2> QED
    BY <1>1, <1>2, <1>5, <2>1, <2>2 DEF Store!StoreTypeOK
<1>8. StoreSeeds'
  BY <1>1, <1>2, StoreSeedsStay
<1>9. StoreClaims'
  BY <1>1, <1>2, <1>6, StoreClaimsStay DEF Store!StoreTypeOK, Store!Nobody
<1>10. StoreShown'
  <2>1. \A q \in Actors : v8'[q].at = "answer" => v8'[q] = v8[q]
    BY <1>6 DEF StoreStep
  <2>2. ~v9.crossed => v8[p].keyed = v3
    BY <1>1, <1>2 DEF StoreShown
  <2>3. v4'.full /\ ~v9.crossed => v4'.rows.keyed = v3
    BY <1>1, <1>5, <2>2 DEF StoreShown, Store!ShownAsOwned
  <2> QED
    BY <1>1, <1>2, <2>1, <2>3 DEF StoreShown, Store!ShownAsOwned
<1>11. StoreGrows'
  <2>1. \A m \in Store!Catalogue : (StoreTodo(p, m) /\ StoreZip(p, m))'
    BY <1>2, <1>6 DEF StoreStep, StoreTodo, StoreZip, Store!Forced
  <2>2. StoreTodos'
    <3>1. ASSUME NEW q \in Actors \ {p}, NEW m \in Store!Catalogue PROVE (StoreTodo(q, m) /\ StoreZip(q, m))'
      <4>1. StoreTodo(q, m) /\ StoreZip(q, m) /\ v8'[q] = v8[q]
        BY <1>1, <1>6, StoreGrowParts DEF StoreTodos, StoreStep
      <4> QED
        BY <1>2, <4>1 DEF StoreTodo, StoreZip, Store!Forced
    <3> QED
      BY <2>1, <3>1 DEF StoreTodos
  <2>3. (~v9.back)' /\ StoreListed'
    BY <1>1, <1>2, <1>5, StoreGrowParts DEF StoreListed
  <2> QED
    BY <2>2, <2>3, StoreGrowParts, PTL
<1> QED
  BY <1>7, <1>8, <1>9, <1>10, <1>11

LEMMA StoreDownloads ==
    ASSUME Store!IInv, NEW p \in Actors, NEW m \in Store!Catalogue, Store!Downloads(p, m)
    PROVE  Store!IInv'
<1> SUFFICES Store!StoreTypeOK' /\ StoreSeeds' /\ StoreClaims' /\ StoreShown' /\ StoreGrows'
  BY StoreParts, PTL
<1>1. Store!StoreTypeOK /\ StoreSeeds /\ StoreClaims /\ StoreShown /\ StoreGrows
  BY StoreParts
<1>2. /\ v8[p].at = "work" /\ m \in v8[p].todo /\ v6.at = "up"
      /\ UNCHANGED <<v1, v2, v3, v4, v5, v6, v7, v9>>
  BY <1>1, StoreUp DEF Store!Downloads
<1>3. v8[p] \in Store!Requests /\ v8[p].kind # "none" /\ v8[p].looks # <<>>
  BY <1>1, <1>2 DEF Store!StoreTypeOK
<1>4. PICK r \in Store!Requests :
        /\ StoreStep(p, r) /\ r.kind # "none" /\ r.looks = v8[p].looks /\ r.todo \subseteq v8[p].todo
        /\ r.at = "work" \/ (r.at = "unpack" /\ r.mod = m /\ r.zip = v7.build[m])
  <2>1. CASE Store!Goes(p, [v8[p] EXCEPT !.at = "unpack", !.todo = @ \ {m}, !.mod = m, !.zip = Store!Newest(m)])
    <3> DEFINE n == Store!Newest(m)
               r == [v8[p] EXCEPT !.at = "unpack", !.todo = @ \ {m}, !.mod = m, !.zip = n]
    <3>1. n \in Nat /\ n = v7.build[m]
      BY <1>1 DEF Store!StoreTypeOK, Store!Newest
    <3>2. Store!Goes(p, r)
      BY <2>1
    <3> HIDE DEF n
    <3>3. /\ r \in Store!Requests /\ r.at = "unpack" /\ r.mod = m /\ r.zip = n /\ r.kind # "none"
          /\ r.looks = v8[p].looks /\ r.todo \subseteq v8[p].todo
      BY <1>3, <3>1 DEF Store!Requests
    <3> HIDE DEF r
    <3> QED
      BY <1>1, <3>1, <3>2, <3>3, StoreGoes
  <2>2. CASE Store!Goes(p, [v8[p] EXCEPT !.todo = @ \ {m}])
    <3> DEFINE r == [v8[p] EXCEPT !.todo = @ \ {m}]
    <3>1. /\ r \in Store!Requests /\ r.at = "work" /\ r.kind # "none"
          /\ r.looks = v8[p].looks /\ r.todo \subseteq v8[p].todo
      BY <1>2, <1>3 DEF Store!Requests
    <3>2. Store!Goes(p, r)
      BY <2>2
    <3> HIDE DEF r
    <3> QED
      BY <1>1, <3>1, <3>2, StoreGoes
  <2> QED
    BY <2>1, <2>2 DEF Store!Downloads
<1>5. Store!StoreTypeOK'
  <2>1. \A q \in Actors :
          /\ v8'[q].at # "idle" => v8'[q].kind # "none"
          /\ v8'[q].at \in {"answer", "work", "unpack"} => v8'[q].looks # <<>>
    BY <1>1, <1>3, <1>4, StoreRequestsTyped
  <2>2. v8' \in [Actors -> Store!Requests]
    BY <1>4 DEF StoreStep
  <2> QED
    BY <1>1, <1>2, <2>1, <2>2 DEF Store!StoreTypeOK
<1>6. StoreSeeds'
  BY <1>1, <1>2, StoreSeedsStay
<1>7. StoreClaims'
  BY <1>1, <1>2, <1>4, StoreClaimsStay DEF Store!StoreTypeOK, Store!Nobody
<1>8. StoreShown'
  BY <1>1, <1>2, <1>4, StoreShownStays
<1>9. StoreGrows'
  <2>1. ASSUME NEW n \in Store!Catalogue PROVE (StoreTodo(p, n) /\ StoreZip(p, n))'
    <3>1. StoreTodo(p, n) /\ StoreTodo(p, m)
      BY <1>1, StoreGrowParts DEF StoreTodos
    <3>2. v7.build[m] \in Nat
      BY <1>1 DEF Store!StoreTypeOK
    <3>3. StoreTodo(p, n)'
      BY <1>2, <1>4, <3>1 DEF StoreStep, StoreTodo, Store!Forced
    <3>4. StoreZip(p, n)'
      BY <1>2, <1>4, <3>1, <3>2 DEF StoreStep, StoreTodo, StoreZip, Store!Forced
    <3> QED
      BY <3>3, <3>4
  <2> QED
    BY <1>1, <1>2, <1>4, <2>1, StoreGrowsStay
<1> QED
  BY <1>5, <1>6, <1>7, <1>8, <1>9

LEMMA StoreEnds ==
    ASSUME Store!IInv, NEW p \in Actors, Store!Ends(p)
    PROVE  Store!IInv'
<1> SUFFICES Store!StoreTypeOK' /\ StoreSeeds' /\ StoreClaims' /\ StoreShown' /\ StoreGrows'
  BY StoreParts, PTL
<1>1. Store!StoreTypeOK /\ StoreSeeds /\ StoreClaims /\ StoreShown /\ StoreGrows
  BY StoreParts
<1>2. v8[p].at = "work" /\ v6.at = "up" /\ UNCHANGED <<v1, v2, v3, v4, v5, v6, v7, v9>>
  BY <1>1, StoreUp DEF Store!Ends
<1> DEFINE rest == Tail(v8[p].looks)
           r == [v8[p] EXCEPT !.at = "look", !.looks = rest]
<1>3. v8[p] \in Store!Requests /\ v8[p].kind # "none" /\ v8[p].looks # <<>>
  BY <1>1, <1>2 DEF Store!StoreTypeOK
<1>4. rest \in Seq({"owned", "newer", "page"})
  BY <1>3 DEF Store!Requests
<1>5. Store!Goes(p, r)
  <2>1. r = [Store!At(p, "look") EXCEPT !.looks = Tail(@)]
    BY <1>3 DEF Store!At, Store!Requests
  <2> QED
    BY <2>1 DEF Store!Ends
<1> HIDE DEF rest
<1>6. r \in Store!Requests /\ r.at = "look" /\ r.kind # "none"
  BY <1>3, <1>4 DEF Store!Requests
<1> HIDE DEF r
<1>7. StoreStep(p, r)
  BY <1>1, <1>5, <1>6, StoreGoes
<1>8. Store!StoreTypeOK'
  <2>1. \A q \in Actors :
          /\ v8'[q].at # "idle" => v8'[q].kind # "none"
          /\ v8'[q].at \in {"answer", "work", "unpack"} => v8'[q].looks # <<>>
    BY <1>1, <1>6, <1>7, StoreRequestsTyped
  <2>2. v8' \in [Actors -> Store!Requests]
    BY <1>7 DEF StoreStep
  <2> QED
    BY <1>1, <1>2, <2>1, <2>2 DEF Store!StoreTypeOK
<1>9. StoreSeeds'
  BY <1>1, <1>2, StoreSeedsStay
<1>10. StoreClaims'
  BY <1>1, <1>2, <1>6, <1>7, StoreClaimsStay DEF Store!StoreTypeOK, Store!Nobody
<1>11. StoreShown'
  BY <1>1, <1>2, <1>6, <1>7, StoreShownStays
<1>12. StoreGrows'
  <2>1. \A m \in Store!Catalogue : (StoreTodo(p, m) /\ StoreZip(p, m))'
    BY <1>6, <1>7 DEF StoreStep, StoreTodo, StoreZip
  <2> QED
    BY <1>1, <1>2, <1>7, <2>1, StoreGrowsStay
<1> QED
  BY <1>8, <1>9, <1>10, <1>11, <1>12

\* A module that is put in place is no newer than the seller's, and whoever else unpacks it
\* is known to be beaten to it.
StorePuts(p) ==
    /\ \A q \in Actors \ {p} : v8'[q] = v8[q]
    /\ p \in Actors => /\ v8[p].at = "unpack" /\ v8'[p].at = "work"
                       /\ v8'[p].looks = v8[p].looks /\ v8'[p].todo = v8[p].todo

LEMMA StoreGrowsOver ==
    ASSUME Store!StoreTypeOK, StoreGrows, NEW p, NEW m \in Store!Catalogue, NEW n \in Nat,
           v1' = [v1 EXCEPT ![m] = n], n <= v7.build[m], v4' = v4, v7' = v7, v9'.back = v9.back,
           v9'.beaten = Store!Beaten(p, m), StorePuts(p)
    PROVE  StoreGrows'
<1>1. ~v9.back /\ StoreListed /\ StoreTodos
  BY StoreGrowParts
<1>2. \A k \in Store!Catalogue : v1'[k] = IF k = m THEN n ELSE v1[k]
  BY DEF Store!StoreTypeOK
<1>3. ASSUME NEW q \in Actors, NEW k \in Store!Catalogue PROVE StoreTodo(q, k)'
  <2>1. StoreTodo(q, k)
    BY <1>1 DEF StoreTodos
  <2>2. v8'[q] = v8[q] \/ (v8'[q].looks = v8[q].looks /\ v8'[q].todo = v8[q].todo /\ v8[q].at = "unpack")
    BY DEF StorePuts
  <2> QED
    BY <1>2, <2>1, <2>2 DEF StoreTodo, Store!Forced
<1>4. ASSUME NEW q \in Actors, NEW k \in Store!Catalogue PROVE StoreZip(q, k)'
  <2>1. CASE q = p
    BY <2>1 DEF StoreZip, StorePuts
  <2>2. CASE q # p /\ ~(v8[q].at = "unpack" /\ v8[q].mod = k)
    BY <2>2 DEF StoreZip, StorePuts
  <2>3. CASE q # p /\ v8[q].at = "unpack" /\ v8[q].mod = k
    <3>1. StoreZip(q, k) /\ v8'[q] = v8[q]
      BY <1>1, <2>3 DEF StoreTodos, StorePuts
    <3>2. CASE k = m
      <4>1. <<q, m>> \in v9'.beaten
        BY <2>3, <3>2 DEF Store!Beaten
      <4> QED
        BY <3>1, <3>2, <4>1 DEF StoreZip
    <3>3. CASE k # m
      <4>1. v1'[k] = v1[k]
        BY <1>2, <3>3
      <4>2. <<q, k>> \in v9'.beaten <=> <<q, k>> \in v9.beaten
        BY <3>3 DEF Store!Beaten
      <4> QED
        BY <3>1, <4>1, <4>2 DEF StoreZip, Store!Forced
    <3> QED
      BY <3>2, <3>3
  <2> QED
    BY <2>1, <2>2, <2>3
<1>5. StoreTodos'
  BY <1>3, <1>4 DEF StoreTodos
<1>6. (~v9.back)' /\ StoreListed'
  BY <1>1 DEF StoreListed
<1> QED
  BY <1>5, <1>6, StoreGrowParts, PTL

LEMMA StoreBeaten ==
    ASSUME Store!StoreTypeOK, NEW p, NEW m \in Store!Catalogue
    PROVE  Store!Beaten(p, m) \subseteq Actors \X Store!Catalogue
  BY DEF Store!Beaten, Store!StoreTypeOK

LEMMA StoreInstalls ==
    ASSUME Store!IInv, NEW p \in Actors, NEW m \in Store!Catalogue, Store!Installs(p, m)
    PROVE  Store!IInv'
<1> SUFFICES Store!StoreTypeOK' /\ StoreSeeds' /\ StoreClaims' /\ StoreShown' /\ StoreGrows'
  BY StoreParts, PTL
<1>1. Store!StoreTypeOK /\ StoreSeeds /\ StoreClaims /\ StoreShown /\ StoreGrows
  BY StoreParts
<1>2. /\ v8[p].at = "unpack" /\ v8[p].mod = m /\ v6.at = "up"
      /\ UNCHANGED <<v2, v3, v4, v5, v6, v7>>
  BY <1>1, StoreUp DEF Store!Installs
<1>3. v8[p] \in Store!Requests /\ v8[p].kind # "none" /\ v8[p].looks # <<>>
  BY <1>1, <1>2 DEF Store!StoreTypeOK
<1> DEFINE Waits(r) ==
      /\ r \in Store!Requests /\ r.at = "work" /\ r.kind # "none"
      /\ r.looks = v8[p].looks /\ r.todo = v8[p].todo
<1>4. PICK r \in Store!Requests :
        /\ Waits(r) /\ StoreStep(p, r)
        /\ \/ /\ Store!Forced(p) \/ v1[m] = 0
              /\ v1' = [v1 EXCEPT ![m] = v8[p].zip]
              /\ v9' = [v9 EXCEPT !.beaten = Store!Beaten(p, m),
                            !.back = @ \/ (v8[p].zip < v1[m] /\ <<p, m>> \notin v9.beaten)]
           \/ UNCHANGED <<v1, v9>>
  <2> DEFINE r1 == [Store!At(p, "work") EXCEPT !.mod = Store!Nobody, !.zip = 0, !.took = @ \/ Store!Forced(p)]
             r2 == [Store!At(p, "work") EXCEPT !.mod = Store!Nobody, !.zip = 0]
             at == Store!At(p, "work")
  <2>1. at \in Store!Requests /\ at.at = "work" /\ at.kind # "none" /\ at.looks = v8[p].looks /\ at.todo = v8[p].todo
    BY <1>3 DEF Store!At, Store!Requests
  <2>2. Waits(r1)
    <3> DEFINE took == at.took \/ Store!Forced(p)
    <3>1. r1 = [at EXCEPT !.mod = Store!Nobody, !.zip = 0, !.took = took]
      OBVIOUS
    <3>2. took \in BOOLEAN
      OBVIOUS
    <3> HIDE DEF r1, at, took
    <3> QED
      BY <2>1, <3>1, <3>2 DEF Store!Requests
  <2>3. Waits(r2)
    <3> HIDE DEF at
    <3>1. r2 = [at EXCEPT !.mod = Store!Nobody, !.zip = 0]
      BY DEF at
    <3> HIDE DEF r2
    <3> QED
      BY <2>1, <3>1 DEF Store!Requests
  <2> HIDE DEF at
  <2>4. CASE /\ Store!Forced(p) \/ v1[m] = 0
             /\ v1' = [v1 EXCEPT ![m] = v8[p].zip]
             /\ v9' = [v9 EXCEPT !.beaten = Store!Beaten(p, m),
                           !.back = @ \/ (v8[p].zip < v1[m] /\ <<p, m>> \notin v9.beaten)]
             /\ Store!Goes(p, r1)
    <3> HIDE DEF r1
    <3> QED
      BY <1>1, <2>2, <2>4, StoreGoes
  <2>5. CASE Store!Goes(p, r2) /\ UNCHANGED <<v1, v9>>
    <3> HIDE DEF r2
    <3> QED
      BY <1>1, <2>3, <2>5, StoreGoes
  <2> QED
    BY <2>4, <2>5 DEF Store!Installs
<1>5. v8[p].zip \in Nat /\ v8[p].zip <= v7.build[m] /\ v1[m] \in Nat
  BY <1>1, <1>2, <1>3, StoreGrowParts DEF Store!StoreTypeOK, Store!Requests, StoreTodos, StoreZip
<1>6. \/ /\ v1' = [v1 EXCEPT ![m] = v8[p].zip] /\ v9'.beaten = Store!Beaten(p, m)
         /\ v9' \in StorePast /\ v9'.given = v9.given /\ v9'.again = v9.again
         /\ v9'.unrecorded = v9.unrecorded /\ v9'.overlapped = v9.overlapped
         /\ v9'.refused = v9.refused /\ v9'.crossed = v9.crossed /\ v9'.back = v9.back
      \/ UNCHANGED <<v1, v9>>
  <2>1. CASE /\ Store!Forced(p) \/ v1[m] = 0
             /\ v1' = [v1 EXCEPT ![m] = v8[p].zip]
             /\ v9' = [v9 EXCEPT !.beaten = Store!Beaten(p, m),
                           !.back = @ \/ (v8[p].zip < v1[m] /\ <<p, m>> \notin v9.beaten)]
    <3>1. ~(v8[p].zip < v1[m] /\ <<p, m>> \notin v9.beaten)
      BY <1>1, <1>2, <1>5, <2>1, StoreGrowParts DEF StoreTodos, StoreZip
    <3>2. v9 \in StorePast /\ v9.back = FALSE
      BY <1>1, StoreGrowParts DEF Store!StoreTypeOK, StorePast
    <3> DEFINE beaten == Store!Beaten(p, m)
    <3>3. v9' = [v9 EXCEPT !.beaten = beaten, !.back = FALSE]
      BY <2>1, <3>1, <3>2
    <3>4. beaten \in SUBSET (Actors \X Store!Catalogue)
      BY <1>1, StoreBeaten
    <3>5. beaten = Store!Beaten(p, m)
      OBVIOUS
    <3> HIDE DEF beaten
    <3>6. /\ v9'.beaten = beaten
          /\ v9' \in StorePast /\ v9'.given = v9.given /\ v9'.again = v9.again
          /\ v9'.unrecorded = v9.unrecorded /\ v9'.overlapped = v9.overlapped
          /\ v9'.refused = v9.refused /\ v9'.crossed = v9.crossed /\ v9'.back = v9.back
      BY <3>2, <3>3, <3>4 DEF StorePast
    <3> QED
      BY <2>1, <3>5, <3>6
  <2> QED
    BY <1>4, <2>1
<1> HIDE DEF Waits
<1>7. Store!StoreTypeOK'
  <2>1. \A q \in Actors :
          /\ v8'[q].at # "idle" => v8'[q].kind # "none"
          /\ v8'[q].at \in {"answer", "work", "unpack"} => v8'[q].looks # <<>>
    BY <1>1, <1>3, <1>4, StoreRequestsTyped DEF Waits
  <2>2. v8' \in [Actors -> Store!Requests]
    BY <1>4 DEF StoreStep
  <2>3. v1' \in [Store!Catalogue -> Nat]
    BY <1>1, <1>5, <1>6 DEF Store!StoreTypeOK
  <2>4. v9' \in StorePast
    BY <1>1, <1>6 DEF Store!StoreTypeOK, StorePast
  <2> QED
    BY <1>1, <1>2, <2>1, <2>2, <2>3, <2>4 DEF Store!StoreTypeOK, StorePast
<1>8. StoreSeeds'
  BY <1>1, <1>2, <1>6, StoreSeedsStay
<1>9. StoreClaims'
  <2>1. v8[p].at \notin {"prove", "collect"} /\ r.at \notin {"prove", "collect"}
    BY <1>2, <1>4 DEF Waits
  <2> QED
    BY <1>1, <1>2, <1>4, <1>6, <2>1, StoreClaimsStay DEF Store!StoreTypeOK, Store!Nobody
<1>10. StoreShown'
  <2>1. r.at # "answer" /\ v9'.crossed = v9.crossed
    BY <1>4, <1>6 DEF Waits
  <2> QED
    BY <1>1, <1>2, <1>4, <2>1, StoreShownStays
<1>11. StoreGrows'
  <2>1. /\ v8'[p].at = "work" /\ v8'[p].looks = v8[p].looks /\ v8'[p].todo = v8[p].todo
        /\ \A q \in Actors \ {p} : v8'[q] = v8[q]
    BY <1>4 DEF StoreStep, Waits
  <2>2. CASE v1' = [v1 EXCEPT ![m] = v8[p].zip] /\ v9'.beaten = Store!Beaten(p, m) /\ v9'.back = v9.back
    <3> DEFINE n == v8[p].zip
    <3>1. n \in Nat /\ n <= v7.build[m] /\ v1' = [v1 EXCEPT ![m] = n]
      BY <1>5, <2>2
    <3>2. StorePuts(p)
      BY <1>2, <2>1 DEF StorePuts
    <3> HIDE DEF n
    <3> QED
      BY <1>1, <1>2, <2>2, <3>1, <3>2, StoreGrowsOver
  <2>3. CASE UNCHANGED <<v1, v9>>
    <3>1. ASSUME NEW k \in Store!Catalogue PROVE (StoreTodo(p, k) /\ StoreZip(p, k))'
      <4>1. StoreTodo(p, k)
        BY <1>1, StoreGrowParts DEF StoreTodos
      <4> QED
        BY <1>2, <2>1, <2>3, <4>1 DEF StoreTodo, StoreZip, Store!Forced
    <3> QED
      BY <1>1, <1>2, <1>4, <2>3, <3>1, StoreGrowsStay
  <2> QED
    BY <1>6, <2>2, <2>3
<1> QED
  BY <1>7, <1>8, <1>9, <1>10, <1>11

LEMMA StoreTakesBack ==
    ASSUME Store!IInv, NEW m \in Store!Catalogue, Store!TakesBack(m)
    PROVE  Store!IInv'
<1> SUFFICES Store!StoreTypeOK' /\ StoreSeeds' /\ StoreClaims' /\ StoreShown' /\ StoreGrows'
  BY StoreParts, PTL
<1>1. Store!StoreTypeOK /\ StoreSeeds /\ StoreClaims /\ StoreShown /\ StoreGrows
  BY StoreParts
<1> DEFINE n == v7.build[m]
           beaten == Store!Beaten("nobody", m)
<1>2. /\ v6.at = "up" /\ v1' = [v1 EXCEPT ![m] = n] /\ v9' = [v9 EXCEPT !.beaten = beaten]
      /\ UNCHANGED <<v2, v3, v4, v5, v6, v7, v8>>
  BY DEF Store!TakesBack, Store!Up, Store!Newest, Store!Nobody
<1>3. n \in Nat /\ n = v7.build[m]
  BY <1>1 DEF Store!StoreTypeOK
<1>4. beaten \in SUBSET (Actors \X Store!Catalogue) /\ beaten = Store!Beaten("nobody", m)
  BY <1>1, StoreBeaten
<1> HIDE DEF n, beaten
<1>5. /\ v9'.beaten = beaten
      /\ v9' \in StorePast /\ v9'.given = v9.given /\ v9'.again = v9.again
      /\ v9'.unrecorded = v9.unrecorded /\ v9'.overlapped = v9.overlapped
      /\ v9'.refused = v9.refused /\ v9'.crossed = v9.crossed /\ v9'.back = v9.back
  BY <1>1, <1>2, <1>4 DEF Store!StoreTypeOK, StorePast
<1>6. Store!StoreTypeOK'
  <2>1. v1' \in [Store!Catalogue -> Nat]
    BY <1>1, <1>2, <1>3 DEF Store!StoreTypeOK
  <2> QED
    BY <1>1, <1>2, <1>5, <2>1 DEF Store!StoreTypeOK, StorePast
<1>7. StoreSeeds'
  BY <1>1, <1>2, <1>5, StoreSeedsStay
<1>8. StoreClaims'
  BY <1>1, <1>2, <1>5 DEF StoreClaims, Store!ClaimsProve, Store!ClaimsKnow, Store!Claiming
<1>9. StoreShown'
  BY <1>1, <1>2, <1>5 DEF StoreShown, Store!ShownAsOwned
<1>10. StoreGrows'
  <2>1. "nobody" \notin Actors
    BY PlatformAssumption
  <2>2. StorePuts("nobody")
    BY <1>2, <2>1 DEF StorePuts
  <2>3. /\ n <= v7.build[m] /\ v4' = v4 /\ v7' = v7 /\ v9'.back = v9.back
        /\ v9'.beaten = Store!Beaten("nobody", m)
    BY <1>2, <1>3, <1>4, <1>5
  <2> QED
    BY <1>1, <1>2, <1>3, <2>2, <2>3, StoreGrowsOver
<1> QED
  BY <1>6, <1>7, <1>8, <1>9, <1>10

\* The owner, the seller and time leave the requests alone.
LEMMA StoreOutside ==
    ASSUME Store!StoreTypeOK, StoreSeeds, StoreClaims, StoreShown, UNCHANGED <<v2, v3, v5, v6, v8, v9>>,
           v4'.full = v4.full, v4'.rows = v4.rows
    PROVE  StoreSeeds' /\ StoreClaims' /\ StoreShown'
<1>1. StoreSeeds'
  BY DEF StoreSeeds, Store!SeedingHolds, Store!SeededOnce
<1>2. StoreClaims'
  BY DEF StoreClaims, Store!ClaimsProve, Store!ClaimsKnow, Store!Claiming
<1>3. StoreShown'
  BY DEF StoreShown, Store!ShownAsOwned
<1> QED
  BY <1>1, <1>2, <1>3

\* A module that goes, and a build that comes, only widen what may be taken.
LEMMA StoreWider ==
    ASSUME Store!StoreTypeOK, StoreGrows, v1' \in [Store!Catalogue -> Nat], v7'.build \in [Store!Catalogue -> Nat],
           \A m \in Store!Catalogue : v1'[m] <= v1[m] /\ v7.build[m] <= v7'.build[m],
           v4'.rows = v4.rows, v8' = v8, v9' = v9
    PROVE  StoreGrows'
<1>1. ~v9.back /\ StoreListed /\ StoreTodos
  BY StoreGrowParts
<1>2. ASSUME NEW p \in Actors, NEW m \in Store!Catalogue PROVE (StoreTodo(p, m) /\ StoreZip(p, m))'
  <2>1. StoreTodo(p, m) /\ StoreZip(p, m)
    BY <1>1 DEF StoreTodos
  <2>2. /\ v1[m] \in Nat /\ v1'[m] \in Nat /\ v7.build[m] \in Nat /\ v7'.build[m] \in Nat
        /\ v8[p].zip \in Nat
    BY DEF Store!StoreTypeOK, Store!Requests
  <2>3. StoreTodo(p, m)'
    BY <2>1, <2>2 DEF StoreTodo, Store!Forced
  <2>4. StoreZip(p, m)'
    BY <2>1, <2>2 DEF StoreZip, Store!Forced
  <2> QED
    BY <2>3, <2>4
<1>3. StoreTodos'
  BY <1>2 DEF StoreTodos
<1>4. StoreListed'
  <2>1. v4.rows.build \in [Store!Catalogue -> Nat] /\ v7.build \in [Store!Catalogue -> Nat]
    BY DEF Store!StoreTypeOK, Store!Rows
  <2> QED
    BY <1>1, <2>1 DEF StoreListed
<1>5. (~v9.back)'
  BY <1>1
<1> QED
  BY <1>3, <1>4, <1>5, StoreGrowParts, PTL

LEMMA StoreRemoves ==
    ASSUME Store!IInv, NEW m \in Store!Catalogue, Store!Removes(m)
    PROVE  Store!IInv'
<1>1. Store!StoreTypeOK /\ StoreSeeds /\ StoreClaims /\ StoreShown /\ StoreGrows
  BY StoreParts
<1>2. v1' = [v1 EXCEPT ![m] = 0] /\ UNCHANGED <<v2, v3, v4, v5, v6, v7, v8, v9>>
  BY DEF Store!Removes
<1>3. v1' \in [Store!Catalogue -> Nat] /\ \A k \in Store!Catalogue : v1'[k] <= v1[k]
  BY <1>1, <1>2 DEF Store!StoreTypeOK
<1>4. Store!StoreTypeOK'
  BY <1>1, <1>2, <1>3 DEF Store!StoreTypeOK
<1>5. StoreSeeds' /\ StoreClaims' /\ StoreShown'
  BY <1>1, <1>2, StoreOutside
<1>6. StoreGrows'
  <2>1. v7.build \in [Store!Catalogue -> Nat]
    BY <1>1 DEF Store!StoreTypeOK
  <2> QED
    BY <1>1, <1>2, <1>3, <2>1, StoreWider
<1> QED
  BY <1>4, <1>5, <1>6, StoreParts, PTL

\* What the seller publishes, sells and lets lapse.
LEMMA StoreSeller ==
    ASSUME Store!IInv, UNCHANGED <<v1, v2, v3, v4, v5, v6, v8, v9>>,
           v7' \in [build : [Store!Catalogue -> Nat], sold : {"no", "id", "host"}, lapsed : BOOLEAN],
           \A m \in Store!Catalogue : v7.build[m] <= v7'.build[m]
    PROVE  Store!IInv'
<1>1. Store!StoreTypeOK /\ StoreSeeds /\ StoreClaims /\ StoreShown /\ StoreGrows
  BY StoreParts
<1>2. Store!StoreTypeOK'
  BY <1>1 DEF Store!StoreTypeOK
<1>3. StoreSeeds' /\ StoreClaims' /\ StoreShown'
  BY <1>1, StoreOutside
<1>4. StoreGrows'
  <2>1. v1' \in [Store!Catalogue -> Nat] /\ \A m \in Store!Catalogue : v1'[m] <= v1[m]
    BY <1>1 DEF Store!StoreTypeOK
  <2> QED
    BY <1>1, <2>1, StoreWider
<1> QED
  BY <1>2, <1>3, <1>4, StoreParts, PTL

LEMMA StorePublishes == ASSUME Store!IInv, NEW m \in Store!Catalogue, Store!Publishes(m) PROVE Store!IInv'
<1>1. v7 \in [build : [Store!Catalogue -> Nat], sold : {"no", "id", "host"}, lapsed : BOOLEAN]
  BY StoreParts DEF Store!StoreTypeOK
<1> DEFINE n == v7.build[m] + 1
<1>2. n \in Nat /\ v7.build[m] <= n
  BY <1>1
<1>3. v7' = [v7 EXCEPT !.build[m] = n]
  BY DEF Store!Publishes
<1> HIDE DEF n
<1>4. /\ v7' \in [build : [Store!Catalogue -> Nat], sold : {"no", "id", "host"}, lapsed : BOOLEAN]
      /\ \A k \in Store!Catalogue : v7.build[k] <= v7'.build[k]
  <2> DEFINE b == [v7.build EXCEPT ![m] = n]
  <2>1. b \in [Store!Catalogue -> Nat] /\ \A k \in Store!Catalogue : v7.build[k] <= b[k]
    BY <1>1, <1>2
  <2>2. v7' = [v7 EXCEPT !.build = b]
    BY <1>3
  <2> HIDE DEF b
  <2> QED
    BY <1>1, <2>1, <2>2
<1> QED
  BY <1>4, StoreSeller DEF Store!Publishes

LEMMA StoreSells == ASSUME Store!IInv, NEW to \in {"id", "host"}, Store!Sells(to) PROVE Store!IInv'
<1>1. v7 \in [build : [Store!Catalogue -> Nat], sold : {"no", "id", "host"}, lapsed : BOOLEAN]
  BY StoreParts DEF Store!StoreTypeOK
<1>2. v7' = [v7 EXCEPT !.sold = to]
  BY DEF Store!Sells
<1>3. /\ v7' \in [build : [Store!Catalogue -> Nat], sold : {"no", "id", "host"}, lapsed : BOOLEAN]
      /\ \A k \in Store!Catalogue : v7.build[k] <= v7'.build[k]
  BY <1>1, <1>2
<1> QED
  BY <1>3, StoreSeller DEF Store!Sells

LEMMA StoreLapses == ASSUME Store!IInv, Store!Lapses PROVE Store!IInv'
<1>1. v7 \in [build : [Store!Catalogue -> Nat], sold : {"no", "id", "host"}, lapsed : BOOLEAN]
  BY StoreParts DEF Store!StoreTypeOK
<1>2. v7' = [v7 EXCEPT !.lapsed = TRUE]
  BY DEF Store!Lapses
<1>3. /\ v7' \in [build : [Store!Catalogue -> Nat], sold : {"no", "id", "host"}, lapsed : BOOLEAN]
      /\ \A k \in Store!Catalogue : v7.build[k] <= v7'.build[k]
  <2>1. v7' \in [build : [Store!Catalogue -> Nat], sold : {"no", "id", "host"}, lapsed : BOOLEAN]
    BY <1>1, <1>2
  <2>2. v7'.build = v7.build /\ v7.build \in [Store!Catalogue -> Nat]
    BY <1>1, <1>2
  <2> QED
    BY <2>1, <2>2
<1> QED
  BY <1>3, StoreSeller DEF Store!Lapses

LEMMA StoreAges == ASSUME Store!IInv, Store!Ages PROVE Store!IInv'
<1>1. Store!StoreTypeOK /\ StoreSeeds /\ StoreClaims /\ StoreShown /\ StoreGrows
  BY StoreParts
<1>2. v4' = [v4 EXCEPT !.fresh = FALSE] /\ UNCHANGED <<v1, v2, v3, v5, v6, v7, v8, v9>>
  BY DEF Store!Ages
<1>3. /\ v4' \in [full : BOOLEAN, fresh : BOOLEAN, rows : Store!Rows]
      /\ v4'.full = v4.full /\ v4'.rows = v4.rows
  BY <1>1, <1>2 DEF Store!StoreTypeOK
<1>4. Store!StoreTypeOK'
  BY <1>1, <1>2, <1>3 DEF Store!StoreTypeOK
<1>5. StoreSeeds' /\ StoreClaims' /\ StoreShown'
  BY <1>1, <1>2, <1>3, StoreOutside
<1>6. StoreGrows'
  <2>1. /\ v1 \in [Store!Catalogue -> Nat] /\ v7.build \in [Store!Catalogue -> Nat]
        /\ \A m \in Store!Catalogue : v1[m] <= v1[m] /\ v7.build[m] <= v7.build[m]
    BY <1>1 DEF Store!StoreTypeOK
  <2> QED
    BY <1>1, <1>2, <1>3, <2>1, StoreWider
<1> QED
  BY <1>4, <1>5, <1>6, StoreParts, PTL

LEMMA StoreStutter == ASSUME Store!IInv, UNCHANGED Store!storeVars PROVE Store!IInv'
<1>1. UNCHANGED <<v1, v2, v3, v4, v5, v6, v7, v8, v9>>
  BY DEF Store!storeVars
<1>2. /\ v7 \in [build : [Store!Catalogue -> Nat], sold : {"no", "id", "host"}, lapsed : BOOLEAN]
      /\ \A m \in Store!Catalogue : v7.build[m] <= v7.build[m]
  BY StoreParts DEF Store!StoreTypeOK
<1> QED
  BY <1>1, <1>2, StoreSeller

LEMMA StoreInductive == Store!IInv /\ (Store!Next \/ UNCHANGED Store!storeVars) => Store!IInv'
<1> SUFFICES ASSUME Store!IInv, Store!Next PROVE Store!IInv'
  BY StoreStutter
<1>1. CASE Store!SeedLooks \/ Store!SeedMarks \/ Store!Crash \/ Store!Enters \/ Store!Lapses \/ Store!Ages
  BY <1>1, StoreSeedLooks, StoreSeedMarks, StoreCrash, StoreEnters, StoreLapses, StoreAges
<1>2. ASSUME NEW to \in {"id", "host"}, Store!Sells(to) PROVE Store!IInv'
  BY <1>2, StoreSells
<1>3. ASSUME NEW m \in Store!Catalogue,
             Store!SeedTakes(m) \/ Store!Removes(m) \/ Store!TakesBack(m) \/ Store!Publishes(m)
      PROVE  Store!IInv'
  BY <1>3, StoreSeedTakes, StoreRemoves, StoreTakesBack, StorePublishes
<1>4. ASSUME NEW p \in Actors,
             \/ \E kind \in {"visit", "collect", "update"} : Store!Begins(p, kind)
             \/ Store!ClaimStarts(p) \/ Store!ClaimIsChecked(p) \/ Store!ClaimCollects(p)
             \/ Store!Looks(p) \/ Store!Answered(p) \/ Store!Ends(p) \/ Store!Applies(p)
             \/ \E m \in Store!Catalogue : Store!Downloads(p, m) \/ Store!Installs(p, m)
      PROVE  Store!IInv'
  BY <1>4, StoreBegins, StoreClaimStarts, StoreClaimIsChecked, StoreClaimCollects, StoreLooks,
     StoreAnswered, StoreEnds, StoreApplies, StoreDownloads, StoreInstalls
<1> QED
  BY <1>1, <1>2, <1>3, <1>4 DEF Store!Next

-----------------------------------------------------------------------------
(* What they contribute. *)

\* What the modules contribute.  A module remembers what it registered, the lists hold what
\* is remembered, once for each load, and of names and paths those nobody shares are their
\* module's.
OffersOf == DOMAIN Offers
GiftKinds == {"named", "note", "conn", "worker", "router"}
GiftLists ==
    /\ v3 = Contributions!Held("conn") /\ v4 = Contributions!Held("worker")
    /\ v5 = Contributions!Held("router") /\ v6 \subseteq IF v8 THEN v5 ELSE {}
GiftNotes == Contributions!Range(v2) \ {Contributions!Blank} = Contributions!Held("note")
GiftNames ==
    \A m \in OffersOf : \A item \in Contributions!Range(Offers[m]) : item.kind = "named" =>
        \/ Contributions!Shared(m, "named", item.key)
        \/ v1[item.key] = m <=> item.key \in Contributions!Given(m, "named")
GiftPaths == v8 => \A e \in v5 \ v6 : Contributions!Shared(e.module, "router", e.key)
GiftRunning == \A w \in v10 \ v4 : Contributions!Unstoppable(w)
GiftWhole ==
    /\ Contributions!RegistryTypeOK /\ Contributions!Remembered
    /\ GiftLists /\ GiftNotes /\ GiftNames /\ GiftPaths /\ GiftRunning

LEMMA GiftOffers ==
    ASSUME NEW m \in OffersOf
    PROVE  /\ Offers[m] \in Seq([kind : GiftKinds, key : STRING, stops : BOOLEAN]) /\ m # "gone"
           /\ DOMAIN Offers[m] = 1..Len(Offers[m]) /\ Len(Offers[m]) \in Nat
           /\ \A i \in 1..Len(Offers[m]) :
                 /\ Offers[m][i] \in [kind : GiftKinds, key : STRING, stops : BOOLEAN]
                 /\ Offers[m][i] \in Contributions!Range(Offers[m])
                 /\ Offers[m][i].key \in Contributions!Names
           /\ \A item \in Contributions!Range(Offers[m]) :
                 \E i \in 1..Len(Offers[m]) : item = Offers[m][i]
<1>1. Offers[m] \in Seq([kind : GiftKinds, key : STRING, stops : BOOLEAN]) /\ m # "gone"
  BY RegistryAssumption DEF OffersOf, GiftKinds
<1>2. DOMAIN Offers[m] = 1..Len(Offers[m]) /\ Len(Offers[m]) \in Nat
  BY <1>1
<1>3. ASSUME NEW i \in 1..Len(Offers[m])
      PROVE  /\ Offers[m][i] \in [kind : GiftKinds, key : STRING, stops : BOOLEAN]
             /\ Offers[m][i] \in Contributions!Range(Offers[m])
             /\ Offers[m][i].key \in Contributions!Names
  <2>1. Offers[m][i] \in Contributions!Range(Offers[m])
    BY <1>2 DEF Contributions!Range
  <2>2. Offers[m][i] \in [kind : GiftKinds, key : STRING, stops : BOOLEAN]
    <3> DEFINE gifts == [kind : GiftKinds, key : STRING, stops : BOOLEAN]
    <3>1. Offers[m] \in Seq(gifts)
      BY <1>1
    <3> HIDE DEF gifts
    <3>2. Offers[m][i] \in gifts
      BY <1>2, <3>1
    <3> QED
      BY <3>2 DEF gifts
  <2>3. Contributions!Range(Offers[m]) \subseteq UNION {Contributions!Range(Offers[n]) : n \in OffersOf}
    OBVIOUS
  <2> QED
    BY <2>1, <2>2, <2>3 DEF Contributions!Names, Contributions!Modules, OffersOf
<1>4. \A item \in Contributions!Range(Offers[m]) : \E i \in 1..Len(Offers[m]) : item = Offers[m][i]
  BY <1>2 DEF Contributions!Range
<1> QED
  BY <1>1, <1>2, <1>3, <1>4

\* What a module registers has a name, and "gone" is no module.
LEMMA GiftKeys ==
    ASSUME NEW n \in OffersOf, NEW item \in Contributions!Range(Offers[n])
    PROVE  item.key \in Contributions!Names /\ n # "gone"
<1>1. PICK i \in 1..Len(Offers[n]) : item = Offers[n][i]
  BY GiftOffers
<1>2. Offers[n][i].key \in Contributions!Names /\ n # "gone"
  BY GiftOffers
<1> QED
  BY <1>1, <1>2

LEMMA GiftHeld ==
    ASSUME NEW kind
    PROVE  \A e : e \in Contributions!Held(kind) <=>
               \E m \in OffersOf : \E i \in DOMAIN Offers[m] : \E c \in 0..v13[m] :
                  /\ Offers[m][i].kind = kind /\ Contributions!Registered(m, i, c)
                  /\ e = [module |-> m, key |-> Offers[m][i].key, copy |-> c]
  BY DEF Contributions!Held, Contributions!Modules, OffersOf

\* An entry in a list is a module's, and one of the keys it gave.
LEMMA GiftOwner ==
    ASSUME Contributions!RegistryTypeOK, NEW kind, NEW e \in Contributions!Held(kind)
    PROVE  /\ e.module \in OffersOf /\ e \in Contributions!Owned
           /\ e.key \in Contributions!Given(e.module, kind)
           /\ \E i \in DOMAIN Offers[e.module] : Offers[e.module][i].kind = kind /\ Offers[e.module][i].key = e.key
<1>0. PICK m \in OffersOf : \E i \in DOMAIN Offers[m] : \E c \in 0..v13[m] :
         /\ Offers[m][i].kind = kind /\ Contributions!Registered(m, i, c)
         /\ e = [module |-> m, key |-> Offers[m][i].key, copy |-> c]
  BY GiftHeld
<1>1. PICK i \in DOMAIN Offers[m], c \in 0..v13[m] :
         /\ Offers[m][i].kind = kind /\ Contributions!Registered(m, i, c)
         /\ e = [module |-> m, key |-> Offers[m][i].key, copy |-> c]
  BY <1>0
<1>2. v13[m] \in Nat /\ c \in Nat
  BY <1>1 DEF Contributions!RegistryTypeOK, Contributions!Modules, OffersOf
<1>3. Contributions!Registered(m, i, 0)
  BY <1>1, <1>2 DEF Contributions!Registered
<1>4. Offers[m][i].key \in Contributions!Names
  BY GiftOffers
<1>5. e \in Contributions!Owned
  BY <1>1, <1>2, <1>4 DEF Contributions!Owned, Contributions!Modules, OffersOf
<1>6. Offers[m][i].key \in Contributions!Given(m, kind)
  BY <1>1, <1>3 DEF Contributions!Given
<1>7. e.module = m /\ e.key = Offers[m][i].key
  BY <1>1
<1> QED
  BY <1>1, <1>5, <1>6, <1>7

\* What a module gave is among what it offers.
LEMMA GiftGiven ==
    ASSUME NEW m, NEW kind, NEW key \in Contributions!Given(m, kind)
    PROVE  \E i \in DOMAIN Offers[m] : Offers[m][i].kind = kind /\ Offers[m][i].key = key
  BY DEF Contributions!Given

LEMMA GiftParts == Contributions!IInv <=> GiftWhole
<1>1. v8 \in BOOLEAN => (Contributions!Open = IF v8 THEN v6 ELSE v5)
  BY DEF Contributions!Open
<1>2. ASSUME Contributions!IInv PROVE GiftWhole
  <2>1. /\ Contributions!RegistryTypeOK /\ Contributions!Remembered /\ Contributions!TakenExactly
        /\ v5 = Contributions!Held("router") /\ (~v8 => v6 = {}) /\ v8 \in BOOLEAN
    BY <1>2 DEF Contributions!IInv, Contributions!RegistryHolds, Contributions!RegistryTypeOK
  <2>2. GiftLists /\ GiftPaths
    BY <1>1, <2>1 DEF Contributions!TakenExactly, GiftLists, GiftPaths
  <2>3. GiftNotes /\ GiftNames /\ GiftRunning
    BY <2>1 DEF Contributions!TakenExactly, GiftNotes, GiftNames, GiftRunning, Contributions!Modules, OffersOf
  <2> QED
    BY <2>1, <2>2, <2>3 DEF GiftWhole
<1>3. ASSUME GiftWhole PROVE Contributions!IInv
  <2>1. /\ Contributions!RegistryTypeOK /\ Contributions!Remembered /\ v8 \in BOOLEAN
        /\ GiftLists /\ GiftNotes /\ GiftNames /\ GiftPaths /\ GiftRunning
    BY <1>3 DEF GiftWhole, Contributions!RegistryTypeOK
  <2>2. /\ Contributions!Open \subseteq Contributions!Held("router")
        /\ \A e \in Contributions!Held("router") \ Contributions!Open : Contributions!Shared(e.module, "router", e.key)
    BY <1>1, <2>1 DEF GiftLists, GiftPaths
  <2>3. Contributions!TakenExactly
    BY <2>1, <2>2 DEF Contributions!TakenExactly, GiftLists, GiftNotes, GiftNames, GiftRunning,
                      Contributions!Modules, OffersOf
  <2>4. ~v8 => v6 = {}
    BY <2>1 DEF GiftLists
  <2> QED
    BY <2>1, <2>3, <2>4 DEF Contributions!IInv, Contributions!RegistryHolds, GiftLists
<1> QED
  BY <1>2, <1>3

LEMMA GiftInitially == Contributions!Init => Contributions!IInv
<1> SUFFICES ASSUME Contributions!Init PROVE GiftWhole
  BY GiftParts
<1>1. \A m \in OffersOf : /\ v11[m] = 0 /\ v13[m] = 0 /\ DOMAIN Offers[m] = 1..Len(Offers[m])
                          /\ Len(Offers[m]) \in Nat
  BY GiftOffers DEF Contributions!Init, Contributions!Modules, OffersOf
<1>2. \A m \in OffersOf : \A i \in DOMAIN Offers[m] : \A c \in 0..v13[m] : ~Contributions!Registered(m, i, c)
  BY <1>1 DEF Contributions!Registered
<1>3. \A kind : \A m \in OffersOf : Contributions!Given(m, kind) = {}
  <2>1. \A m \in OffersOf : 0 \in 0..v13[m]
    BY <1>1
  <2> QED
    BY <1>2, <2>1 DEF Contributions!Given
<1>4. \A kind : Contributions!Held(kind) = {}
  BY <1>2, GiftHeld
<1>5. Contributions!RegistryTypeOK
  <2>1. \A m \in OffersOf : 0 <= Len(Offers[m])
    BY <1>1
  <2>2. v7 = [m \in Contributions!Modules |-> [kind \in Contributions!Kinds |-> v7[m][kind]]]
    BY DEF Contributions!Init
  <2>3. v1 \in [Contributions!Names -> Contributions!Modules \cup {Contributions!Gone}]
    BY DEF Contributions!Init
  <2>4. /\ v2 \in Seq(Contributions!Owned \cup {Contributions!Blank})
        /\ v3 \cup v4 \cup v5 \cup v6 \cup v10 \subseteq Contributions!Owned
        /\ v8 \in BOOLEAN /\ v9 \in BOOLEAN /\ v12 \in Nat
    <3>1. v2 = << >> /\ v3 = {} /\ v4 = {} /\ v5 = {} /\ v6 = {} /\ v10 = {}
      BY DEF Contributions!Init
    <3>2. v2 \in Seq(Contributions!Owned \cup {Contributions!Blank})
      BY <3>1
    <3>3. v8 \in BOOLEAN /\ v9 \in BOOLEAN /\ v12 \in Nat
      BY DEF Contributions!Init
    <3> QED
      BY <3>1, <3>2, <3>3
  <2>5. /\ v11 \in [Contributions!Modules -> Nat] /\ v13 \in [Contributions!Modules -> Nat]
        /\ \A m \in Contributions!Modules : v11[m] <= Len(Offers[m])
    BY <1>1, <2>1 DEF Contributions!Init, Contributions!Modules, OffersOf
  <2> QED
    BY <2>2, <2>3, <2>4, <2>5 DEF Contributions!RegistryTypeOK
<1>6. Contributions!Remembered
  BY <1>3 DEF Contributions!Init, Contributions!Remembered, Contributions!Modules, Contributions!Kinds, OffersOf
<1>7. GiftLists
  BY <1>4 DEF Contributions!Init, GiftLists
<1>8. GiftNames
  <2>1. ASSUME NEW m \in OffersOf, NEW item \in Contributions!Range(Offers[m]) PROVE v1[item.key] # m
    BY GiftKeys DEF Contributions!Init, Contributions!Gone
  <2> QED
    BY <1>3, <2>1 DEF GiftNames
<1>9. GiftNotes
  <2>1. Contributions!Range(v2) = {}
    BY DEF Contributions!Init, Contributions!Range
  <2> QED
    BY <1>4, <2>1 DEF GiftNotes
<1>10. GiftPaths /\ GiftRunning
  BY DEF Contributions!Init, GiftPaths, GiftRunning
<1> QED
  BY <1>5, <1>6, <1>7, <1>8, <1>9, <1>10 DEF GiftWhole

\* A module registers the next of its contributions: what it gave grows by it, and what it
\* remembers by its key.
GiftOf(m) == Offers[m][v11[m] + 1]
GiftAdds(m, kind) ==
    /\ \A k : \A n \in OffersOf : Contributions!Given(n, k)' =
          IF n = m /\ k = kind THEN Contributions!Given(m, kind) \cup {GiftOf(m).key} ELSE Contributions!Given(n, k)
    /\ \A k : Contributions!Held(k)' =
          IF k = kind THEN Contributions!Held(kind) \cup {Contributions!Mine(m, GiftOf(m))} ELSE Contributions!Held(k)

GiftDone(m, kind, key) ==
    /\ GiftOf(m) \in Contributions!Range(Offers[m]) /\ GiftOf(m).kind = kind
    /\ GiftOf(m).key \in Contributions!Names /\ Contributions!Item(m) = GiftOf(m)
    /\ Contributions!Mine(m, GiftOf(m)) \in Contributions!Owned
    /\ GiftAdds(m, kind)
    /\ v7' = [n \in Contributions!Modules |-> [k \in Contributions!Kinds |-> v7'[n][k]]]
    /\ \A n \in OffersOf, k \in GiftKinds :
          v7'[n][k] = IF n = m /\ k = kind THEN v7[m][kind] \cup {key} ELSE v7[n][k]
    /\ v12' \in Nat /\ v13' = v13
    /\ v11' \in [OffersOf -> Nat] /\ \A n \in OffersOf : v11'[n] <= Len(Offers[n])

LEMMA GiftDue ==
    ASSUME Contributions!RegistryTypeOK, NEW m \in OffersOf, NEW kind \in GiftKinds, NEW key,
           Contributions!Due(m, kind), Contributions!Owns(m, kind, key)
    PROVE  GiftDone(m, kind, key)
<1>1. /\ v11[m] \in Nat /\ v11[m] + 1 \in 1..Len(Offers[m]) /\ Contributions!Item(m) = GiftOf(m)
      /\ v11[m] + 1 \in DOMAIN Offers[m]
  BY GiftOffers DEF Contributions!RegistryTypeOK, Contributions!Due, Contributions!Item, GiftOf,
                    Contributions!Modules, OffersOf
<1>2. /\ GiftOf(m) \in Contributions!Range(Offers[m]) /\ GiftOf(m).kind = kind
      /\ GiftOf(m).key \in Contributions!Names
  BY <1>1, GiftOffers DEF Contributions!Due, GiftOf
<1>3. /\ v11' \in [OffersOf -> Nat] /\ \A n \in OffersOf : v11'[n] = IF n = m THEN v11[m] + 1 ELSE v11[n]
      /\ \A n \in OffersOf : v11'[n] <= Len(Offers[n])
  <2> DEFINE next == v11[m] + 1
  <2>1. next \in Nat /\ next <= Len(Offers[m]) /\ v11' = [v11 EXCEPT ![m] = next]
    BY <1>1 DEF Contributions!Owns
  <2> HIDE DEF next
  <2>2. /\ v11' \in [OffersOf -> Nat] /\ \A n \in OffersOf : v11'[n] = IF n = m THEN next ELSE v11[n]
        /\ \A n \in OffersOf : v11'[n] <= Len(Offers[n])
    BY <2>1 DEF Contributions!RegistryTypeOK, Contributions!Modules, OffersOf
  <2> QED
    BY <2>2 DEF next
<1>4. /\ v13' = v13 /\ \A n \in OffersOf : v13[n] \in Nat
      /\ \A n \in OffersOf : v11[n] \in Nat /\ \A i \in DOMAIN Offers[n] : i \in Nat
  BY GiftOffers DEF Contributions!Owns, Contributions!RegistryTypeOK, Contributions!Modules, OffersOf
<1>5. ASSUME NEW n \in OffersOf, NEW i \in DOMAIN Offers[n], NEW c \in 0..v13[n]
      PROVE  Contributions!Registered(n, i, c)' <=>
                Contributions!Registered(n, i, c) \/ (n = m /\ i = v11[m] + 1 /\ c = v13[m])
  <2>1. c \in Nat /\ i \in Nat /\ v11'[n] = (IF n = m THEN v11[m] + 1 ELSE v11[n]) /\ v13'[n] = v13[n]
    BY <1>3, <1>4
  <2>2. v11[n] \in Nat /\ v13[n] \in Nat
    BY <1>4
  <2> QED
    BY <2>1, <2>2 DEF Contributions!Registered
<1>6. ASSUME NEW n \in OffersOf, NEW k
      PROVE  Contributions!Given(n, k)' =
          IF n = m /\ k = kind THEN Contributions!Given(m, kind) \cup {GiftOf(m).key} ELSE Contributions!Given(n, k)
  <2>1. \A i \in DOMAIN Offers[n] : Contributions!Registered(n, i, 0)' =>
            Contributions!Registered(n, i, 0) \/ (n = m /\ i = v11[m] + 1)
    BY <1>4, <1>5
  <2>2. \A i \in DOMAIN Offers[n] : Contributions!Registered(n, i, 0) => Contributions!Registered(n, i, 0)'
    BY <1>4, <1>5
  <2>0. PICK next \in DOMAIN Offers[m] : next = v11[m] + 1
    BY <1>1
  <2>3. Contributions!Registered(m, next, 0)'
    <3>1. v13'[m] \in Nat /\ v11'[m] = next /\ next \in Nat
      BY <1>1, <1>3, <1>4, <2>0
    <3> QED
      BY <3>1 DEF Contributions!Registered
  <2>4. \A x : x \in Contributions!Given(n, k)' <=>
            \E i \in DOMAIN Offers[n] : Offers[n][i].kind = k /\ Contributions!Registered(n, i, 0)' /\ x = Offers[n][i].key
    BY DEF Contributions!Given
  <2>5. \A x : x \in Contributions!Given(n, k) <=>
            \E i \in DOMAIN Offers[n] : Offers[n][i].kind = k /\ Contributions!Registered(n, i, 0) /\ x = Offers[n][i].key
    BY DEF Contributions!Given
  <2>6. CASE n = m /\ k = kind
    <3>1. \A i \in DOMAIN Offers[m] :
             Contributions!Registered(m, i, 0)' <=> Contributions!Registered(m, i, 0) \/ i = next
      BY <2>0, <2>1, <2>2, <2>3, <2>6
    <3>2. Offers[m][next].kind = kind /\ Offers[m][next].key = GiftOf(m).key
      BY <1>2, <2>0 DEF GiftOf
    <3> HIDE DEF GiftOf
    <3>3. \A x : x \in Contributions!Given(n, k)' <=> x \in Contributions!Given(n, k) \/ x = GiftOf(m).key
      BY <2>0, <2>4, <2>5, <2>6, <3>1, <3>2
    <3> QED
      BY <2>6, <3>3
  <2>7. CASE ~(n = m /\ k = kind)
    <3>1. n = m => Offers[m][next].kind # k
      BY <1>2, <2>0, <2>7 DEF GiftOf
    <3>2. \A i \in DOMAIN Offers[n] : Offers[n][i].kind = k =>
             (Contributions!Registered(n, i, 0)' <=> Contributions!Registered(n, i, 0))
      BY <2>0, <2>1, <2>2, <3>1
    <3>3. \A x : x \in Contributions!Given(n, k)' <=> x \in Contributions!Given(n, k)
      BY <2>4, <2>5, <3>2
    <3> QED
      BY <2>7, <3>3
  <2> QED
    BY <2>6, <2>7
<1>7. ASSUME NEW k
      PROVE  Contributions!Held(k)' =
          IF k = kind THEN Contributions!Held(kind) \cup {Contributions!Mine(m, GiftOf(m))} ELSE Contributions!Held(k)
  <2>1. \A e : e \in Contributions!Held(k)' <=>
            \E n \in OffersOf : \E i \in DOMAIN Offers[n] : \E c \in 0..v13[n] :
               /\ Offers[n][i].kind = k /\ Contributions!Registered(n, i, c)'
               /\ e = [module |-> n, key |-> Offers[n][i].key, copy |-> c]
    BY <1>4 DEF Contributions!Held, Contributions!Modules, OffersOf
  <2>2. v13[m] \in 0..v13[m]
    BY <1>4
  <2>3. Contributions!Mine(m, GiftOf(m)) = [module |-> m, key |-> Offers[m][v11[m] + 1].key, copy |-> v13[m]]
    BY DEF Contributions!Mine, GiftOf
  <2>4. ASSUME NEW e
        PROVE  e \in Contributions!Held(k)' <=>
                  e \in Contributions!Held(k) \/ (k = kind /\ e = Contributions!Mine(m, GiftOf(m)))
    <3>1. CASE e \in Contributions!Held(k)
      BY <1>5, <2>1, <3>1, GiftHeld
    <3>2. CASE e \notin Contributions!Held(k)
      <4>1. ASSUME e \in Contributions!Held(k)'
            PROVE  k = kind /\ e = Contributions!Mine(m, GiftOf(m))
        <5>0. PICK n \in OffersOf : \E i \in DOMAIN Offers[n] : \E c \in 0..v13[n] :
                 /\ Offers[n][i].kind = k /\ Contributions!Registered(n, i, c)'
                 /\ e = [module |-> n, key |-> Offers[n][i].key, copy |-> c]
          BY <2>1, <4>1
        <5>1. PICK i \in DOMAIN Offers[n], c \in 0..v13[n] :
                 /\ Offers[n][i].kind = k /\ Contributions!Registered(n, i, c)'
                 /\ e = [module |-> n, key |-> Offers[n][i].key, copy |-> c]
          BY <5>0
        <5>2. ~Contributions!Registered(n, i, c)
          BY <3>2, <5>1, GiftHeld
        <5>3. n = m /\ i = v11[m] + 1 /\ c = v13[m]
          BY <1>5, <5>1, <5>2
        <5> QED
          BY <1>2, <2>3, <5>1, <5>3 DEF GiftOf
      <4>2. ASSUME k = kind, e = Contributions!Mine(m, GiftOf(m))
            PROVE  e \in Contributions!Held(k)'
        <5>0. PICK i \in DOMAIN Offers[m], c \in 0..v13[m] : i = v11[m] + 1 /\ c = v13[m]
          BY <1>1, <2>2
        <5>1. Contributions!Registered(m, i, c)'
          BY <1>5, <5>0
        <5>2. Offers[m][i].kind = k
          BY <1>2, <4>2, <5>0 DEF GiftOf
        <5>3. e = [module |-> m, key |-> Offers[m][i].key, copy |-> c]
          BY <2>3, <4>2, <5>0
        <5> QED
          BY <2>1, <5>1, <5>2, <5>3
      <4> QED
        BY <3>2, <4>1, <4>2
    <3> QED
      BY <3>1, <3>2
  <2> QED
    BY <2>4
<1>8. GiftAdds(m, kind)
  BY <1>6, <1>7 DEF GiftAdds
<1>9. /\ v7' = [n \in Contributions!Modules |-> [k \in Contributions!Kinds |-> v7'[n][k]]]
      /\ \A n \in OffersOf, k \in GiftKinds :
            v7'[n][k] = IF n = m /\ k = kind THEN v7[m][kind] \cup {key} ELSE v7[n][k]
  <2>1. /\ v7 = [n \in OffersOf |-> [k \in GiftKinds |-> v7[n][k]]]
        /\ v7' = [v7 EXCEPT ![m][kind] = @ \cup {key}]
    BY DEF Contributions!RegistryTypeOK, Contributions!Owns, Contributions!Modules, OffersOf,
           Contributions!Kinds, GiftKinds
  <2> DEFINE keys == v7[m][kind] \cup {key}
             row == [v7[m] EXCEPT ![kind] = keys]
  <2>2. v7' = [v7 EXCEPT ![m] = row]
    BY <2>1
  <2> HIDE DEF keys
  <2>3. row = [k \in GiftKinds |-> IF k = kind THEN keys ELSE v7[m][k]]
    BY <2>1
  <2> HIDE DEF row
  <2>4. v7' = [n \in OffersOf |-> [k \in GiftKinds |-> IF n = m THEN row[k] ELSE v7[n][k]]]
    BY <2>1, <2>2, <2>3
  <2>5. v7' = [n \in OffersOf |-> [k \in GiftKinds |-> v7'[n][k]]]
    BY <2>4
  <2>6. \A n \in OffersOf, k \in GiftKinds : v7'[n][k] = IF n = m /\ k = kind THEN keys ELSE v7[n][k]
    BY <2>3, <2>4
  <2> QED
    BY <2>5, <2>6 DEF keys, OffersOf, GiftKinds, Contributions!Modules, Contributions!Kinds
<1>10. v12' \in Nat /\ v13' = v13
  BY DEF Contributions!Owns, Contributions!RegistryTypeOK
<1>11. Contributions!Mine(m, GiftOf(m)) \in Contributions!Owned
  BY <1>2, <1>4 DEF Contributions!Mine, Contributions!Owned, Contributions!Modules, OffersOf
<1> QED
  BY <1>1, <1>2, <1>3, <1>8, <1>9, <1>10, <1>11 DEF GiftDone

\* What a registration of one kind leaves as it was for the others.
LEMMA GiftNamesStay ==
    ASSUME GiftNames, NEW m \in OffersOf, NEW kind, GiftAdds(m, kind), kind # "named", v1' = v1
    PROVE  GiftNames'
<1>1. \A n \in OffersOf : Contributions!Given(n, "named")' = Contributions!Given(n, "named")
  BY DEF GiftAdds
<1>2. \A n, k, key : Contributions!Shared(n, k, key)' <=> Contributions!Shared(n, k, key)
  BY DEF Contributions!Shared
<1> QED
  BY <1>1, <1>2 DEF GiftNames

LEMMA GiftPathsStay ==
    ASSUME GiftPaths, v5' = v5, v6' = v6, v8' = v8
    PROVE  GiftPaths'
<1>1. \A n, k, key : Contributions!Shared(n, k, key)' <=> Contributions!Shared(n, k, key)
  BY DEF Contributions!Shared
<1> QED
  BY <1>1 DEF GiftPaths

LEMMA GiftNotesStay ==
    ASSUME GiftNotes, v2' = v2, Contributions!Held("note")' = Contributions!Held("note")
    PROVE  GiftNotes'
<1>1. Contributions!Range(v2)' = Contributions!Range(v2) /\ Contributions!Blank' = Contributions!Blank
  BY DEF Contributions!Range, Contributions!Blank
<1> QED
  BY <1>1 DEF GiftNotes

LEMMA GiftRunningStays ==
    ASSUME GiftRunning, v4 \subseteq v4', v10' \subseteq v10 \cup v4'
    PROVE  GiftRunning'
<1>1. \A w : Contributions!Unstoppable(w)' <=> Contributions!Unstoppable(w)
  BY DEF Contributions!Unstoppable
<1> QED
  BY <1>1 DEF GiftRunning

\* A key of any kind but a note's is remembered as it was given.
LEMMA GiftRemembers ==
    ASSUME Contributions!RegistryTypeOK, Contributions!Remembered, NEW m \in OffersOf,
           NEW kind \in GiftKinds \ {"note"}, GiftAdds(m, kind), v2' = v2,
           \A n \in OffersOf, k \in GiftKinds :
              v7'[n][k] = IF n = m /\ k = kind THEN v7[m][kind] \cup {GiftOf(m).key} ELSE v7[n][k]
    PROVE  Contributions!Remembered'
<1> SUFFICES ASSUME NEW n \in OffersOf
             PROVE  /\ \A k \in GiftKinds \ {"note"} : v7'[n][k] = Contributions!Given(n, k)'
                    /\ v7'[n]["note"] = {i \in DOMAIN v2' : v2'[i].module = n}
  BY DEF Contributions!Remembered, Contributions!Modules, OffersOf, Contributions!Kinds, GiftKinds
<1>1. \A j \in OffersOf :
         /\ \A k \in GiftKinds \ {"note"} : v7[j][k] = Contributions!Given(j, k)
         /\ v7[j]["note"] = {i \in DOMAIN v2 : v2[i].module = j}
  BY DEF Contributions!Remembered, Contributions!Modules, OffersOf, Contributions!Kinds, GiftKinds
<1>2. "note" \in GiftKinds /\ kind # "note"
  BY DEF GiftKinds
<1>3. ASSUME NEW k \in GiftKinds \ {"note"} PROVE v7'[n][k] = Contributions!Given(n, k)'
  <2>1. v7[n][k] = Contributions!Given(n, k)
    BY <1>1
  <2>2. CASE n = m /\ k = kind
    BY <2>1, <2>2 DEF GiftAdds
  <2>3. CASE ~(n = m /\ k = kind)
    BY <2>1, <2>3 DEF GiftAdds
  <2> QED
    BY <2>2, <2>3
<1>4. v7'[n]["note"] = v7[n]["note"]
  BY <1>2
<1> QED
  BY <1>1, <1>3, <1>4

LEMMA GiftName ==
    ASSUME Contributions!IInv, NEW m \in OffersOf, Contributions!RegistersName(m)
    PROVE  Contributions!IInv'
<1>1. /\ Contributions!RegistryTypeOK /\ Contributions!Remembered
      /\ GiftLists /\ GiftNotes /\ GiftNames /\ GiftPaths /\ GiftRunning
  BY GiftParts DEF GiftWhole
<1> DEFINE item == GiftOf(m)
           key == item.key
<1>2. /\ item \in Contributions!Range(Offers[m]) /\ item.kind = "named" /\ key \in Contributions!Names
      /\ GiftAdds(m, "named") /\ Contributions!Item(m) = item
      /\ v7' = [n \in Contributions!Modules |-> [k \in Contributions!Kinds |-> v7'[n][k]]]
      /\ \A n \in OffersOf, k \in GiftKinds :
            v7'[n][k] = IF n = m /\ k = "named" THEN v7[m]["named"] \cup {key} ELSE v7[n][k]
      /\ v12' \in Nat /\ v13' = v13 /\ v11' \in [OffersOf -> Nat] /\ \A n \in OffersOf : v11'[n] <= Len(Offers[n])
  <2>1. /\ Contributions!Due(m, "named")
        /\ Contributions!Owns(m, "named", Contributions!Item(m).key)
        /\ Contributions!Item(m) = item
    BY DEF Contributions!RegistersName, Contributions!Item, GiftOf
  <2>2. "named" \in GiftKinds
    BY DEF GiftKinds
  <2>3. GiftDone(m, "named", key)
    BY <1>1, <2>1, <2>2, GiftDue
  <2> QED
    BY <2>3 DEF GiftDone
<1> HIDE DEF item, key
<1>3. v1' = [v1 EXCEPT ![key] = m] /\ UNCHANGED <<v2, v3, v4, v5, v6, v8, v9, v10>>
  BY <1>2 DEF Contributions!RegistersName, key
<1>4. v1' \in [Contributions!Names -> Contributions!Modules \cup {Contributions!Gone}]
  BY <1>1, <1>3 DEF Contributions!RegistryTypeOK, Contributions!Modules, OffersOf
<1>5. Contributions!RegistryTypeOK'
  BY <1>1, <1>2, <1>3, <1>4 DEF Contributions!RegistryTypeOK, Contributions!Modules, OffersOf
<1>6. Contributions!Remembered'
  <2>1. "named" \in GiftKinds \ {"note"}
    BY DEF GiftKinds
  <2> QED
    BY <1>1, <1>2, <1>3, <2>1, GiftRemembers DEF key, item
<1>7. GiftLists' /\ GiftNotes'
  <2>1. \A k \in {"conn", "worker", "router", "note"} : Contributions!Held(k)' = Contributions!Held(k)
    BY <1>2 DEF GiftAdds
  <2> QED
    BY <1>1, <1>3, <2>1, GiftNotesStay DEF GiftLists
<1>8. GiftNames'
  <2> SUFFICES ASSUME NEW n \in OffersOf, NEW it \in Contributions!Range(Offers[n]), it.kind = "named",
                      ~Contributions!Shared(n, "named", it.key)
               PROVE  v1'[it.key] = n <=> it.key \in Contributions!Given(n, "named")'
    BY DEF GiftNames, Contributions!Shared
  <2>1. v1[it.key] = n <=> it.key \in Contributions!Given(n, "named")
    BY <1>1 DEF GiftNames
  <2>2. it.key \in Contributions!Names
    BY GiftKeys
  <2>3. CASE n = m
    <3>1. Contributions!Given(m, "named")' = Contributions!Given(m, "named") \cup {key}
      BY <1>2 DEF GiftAdds, key, item
    <3>2. v1'[it.key] = IF it.key = key THEN m ELSE v1[it.key]
      BY <1>1, <1>3, <2>2 DEF Contributions!RegistryTypeOK
    <3> QED
      BY <2>1, <2>3, <3>1, <3>2
  <2>4. CASE n # m
    <3>1. it.key # key
      <4>1. PICK j \in 1..Len(Offers[m]) : item = Offers[m][j]
        BY <1>2, GiftOffers
      <4>2. j \in DOMAIN Offers[m]
        BY GiftOffers
      <4> QED
        BY <1>2, <2>4, <4>1, <4>2 DEF Contributions!Shared, Contributions!Modules, OffersOf, key
    <3>2. Contributions!Given(n, "named")' = Contributions!Given(n, "named")
      BY <1>2, <2>4 DEF GiftAdds
    <3>3. v1'[it.key] = v1[it.key]
      BY <1>1, <1>3, <2>2, <3>1 DEF Contributions!RegistryTypeOK
    <3> QED
      BY <2>1, <3>2, <3>3
  <2> QED
    BY <2>3, <2>4
<1>9. GiftPaths' /\ GiftRunning'
  BY <1>1, <1>3, GiftPathsStay, GiftRunningStays
<1>10. GiftWhole'
  BY <1>5, <1>6, <1>7, <1>8, <1>9 DEF GiftWhole
<1> QED
  BY <1>10, GiftParts, PTL

LEMMA GiftNote ==
    ASSUME Contributions!IInv, NEW m \in OffersOf, Contributions!RegistersNote(m)
    PROVE  Contributions!IInv'
<1>1. /\ Contributions!RegistryTypeOK /\ Contributions!Remembered
      /\ GiftLists /\ GiftNotes /\ GiftNames /\ GiftPaths /\ GiftRunning
  BY GiftParts DEF GiftWhole
<1> DEFINE item == GiftOf(m)
           place == Len(v2) + 1
           text == Contributions!Mine(m, item)
<1>2. /\ item \in Contributions!Range(Offers[m]) /\ item.key \in Contributions!Names
      /\ GiftAdds(m, "note") /\ Contributions!Item(m) = item /\ text \in Contributions!Owned
      /\ v7' = [n \in Contributions!Modules |-> [k \in Contributions!Kinds |-> v7'[n][k]]]
      /\ \A n \in OffersOf, k \in GiftKinds :
            v7'[n][k] = IF n = m /\ k = "note" THEN v7[m]["note"] \cup {place} ELSE v7[n][k]
      /\ v12' \in Nat /\ v13' = v13 /\ v11' \in [OffersOf -> Nat] /\ \A n \in OffersOf : v11'[n] <= Len(Offers[n])
  <2>1. /\ Contributions!Due(m, "note")
        /\ Contributions!Owns(m, "note", place)
    BY DEF Contributions!RegistersNote
  <2>2. "note" \in GiftKinds
    BY DEF GiftKinds
  <2>3. GiftDone(m, "note", place)
    BY <1>1, <2>1, <2>2, GiftDue
  <2> QED
    BY <2>3 DEF GiftDone
<1>3. v2' = Append(v2, text) /\ UNCHANGED <<v1, v3, v4, v5, v6, v8, v9, v10>>
  BY <1>2 DEF Contributions!RegistersNote
<1>4. /\ text.module = m /\ text # Contributions!Blank
      /\ Contributions!Held("note")' = Contributions!Held("note") \cup {text}
  <2>1. text.module = m /\ m # "gone" /\ Contributions!Blank.module = "gone"
    BY GiftOffers DEF Contributions!Mine, Contributions!Blank, Contributions!Gone
  <2>2. Contributions!Held("note")' = Contributions!Held("note") \cup {text}
    BY <1>2 DEF GiftAdds
  <2> QED
    BY <2>1, <2>2
<1> HIDE DEF text, item
<1>5. /\ v2' \in Seq(Contributions!Owned \cup {Contributions!Blank}) /\ place \notin DOMAIN v2
      /\ DOMAIN v2' = DOMAIN v2 \cup {place} /\ v2'[place] = text
      /\ \A i \in DOMAIN v2 : v2'[i] = v2[i]
  <2> DEFINE texts == Contributions!Owned \cup {Contributions!Blank}
  <2>1. v2 \in Seq(texts) /\ text \in texts
    BY <1>1, <1>2 DEF Contributions!RegistryTypeOK
  <2> HIDE DEF texts
  <2>2. /\ v2' \in Seq(texts) /\ Len(v2') = Len(v2) + 1 /\ Len(v2) \in Nat
        /\ \A i \in 1..Len(v2) : v2'[i] = v2[i]
        /\ v2'[Len(v2) + 1] = text
        /\ DOMAIN v2 = 1..Len(v2) /\ DOMAIN v2' = 1..Len(v2')
    BY <1>3, <2>1
  <2> QED
    BY <2>2 DEF texts
<1>6. Contributions!RegistryTypeOK'
  BY <1>1, <1>2, <1>3, <1>5 DEF Contributions!RegistryTypeOK, Contributions!Modules, OffersOf
<1>7. Contributions!Remembered'
  <2> SUFFICES ASSUME NEW n \in OffersOf
               PROVE  /\ \A k \in GiftKinds \ {"note"} : v7'[n][k] = Contributions!Given(n, k)'
                      /\ v7'[n]["note"] = {i \in DOMAIN v2' : v2'[i].module = n}
    BY DEF Contributions!Remembered, Contributions!Modules, OffersOf, Contributions!Kinds, GiftKinds
  <2>1. /\ \A k \in GiftKinds \ {"note"} : v7[n][k] = Contributions!Given(n, k)
        /\ v7[n]["note"] = {i \in DOMAIN v2 : v2[i].module = n}
    BY <1>1 DEF Contributions!Remembered, Contributions!Modules, OffersOf, Contributions!Kinds, GiftKinds
  <2>2. "note" \in GiftKinds
    BY DEF GiftKinds
  <2>3. \A k \in GiftKinds \ {"note"} : v7'[n][k] = Contributions!Given(n, k)'
    BY <1>2, <2>1 DEF GiftAdds
  <2> HIDE DEF place
  <2>4. CASE n = m
    <3>1. v7'[n]["note"] = v7[n]["note"] \cup {place}
      BY <1>2, <2>2, <2>4
    <3>2. v7'[n]["note"] = {i \in DOMAIN v2' : v2'[i].module = n}
      BY <1>4, <1>5, <2>1, <2>4, <3>1
    <3> QED
      BY <2>3, <3>2
  <2>5. CASE n # m
    <3>1. v7'[n]["note"] = v7[n]["note"]
      BY <1>2, <2>2, <2>5
    <3>2. v7'[n]["note"] = {i \in DOMAIN v2' : v2'[i].module = n}
      BY <1>4, <1>5, <2>1, <2>5, <3>1
    <3> QED
      BY <2>3, <3>2
  <2> QED
    BY <2>4, <2>5
<1>8. GiftLists'
  <2>1. \A k \in {"conn", "worker", "router"} : Contributions!Held(k)' = Contributions!Held(k)
    BY <1>2 DEF GiftAdds
  <2> QED
    BY <1>1, <1>3, <2>1 DEF GiftLists
<1>9. GiftNotes'
  <2> HIDE DEF place
  <2>1. \A x : x \in Contributions!Range(v2)' <=> x \in Contributions!Range(v2) \/ x = text
    BY <1>5 DEF Contributions!Range
  <2>2. Contributions!Blank' = Contributions!Blank
    BY DEF Contributions!Blank
  <2> QED
    BY <1>1, <1>4, <2>1, <2>2 DEF GiftNotes
<1>10. GiftNames' /\ GiftPaths' /\ GiftRunning'
  BY <1>1, <1>2, <1>3, GiftNamesStay, GiftPathsStay, GiftRunningStays
<1>11. GiftWhole'
  BY <1>6, <1>7, <1>8, <1>9, <1>10 DEF GiftWhole
<1> QED
  BY <1>11, GiftParts, PTL

LEMMA GiftConnection ==
    ASSUME Contributions!IInv, NEW m \in OffersOf, Contributions!RegistersConnection(m)
    PROVE  Contributions!IInv'
<1>1. /\ Contributions!RegistryTypeOK /\ Contributions!Remembered
      /\ GiftLists /\ GiftNotes /\ GiftNames /\ GiftPaths /\ GiftRunning
  BY GiftParts DEF GiftWhole
<1> DEFINE one == Contributions!Mine(m, GiftOf(m))
<1>2. /\ GiftAdds(m, "conn") /\ Contributions!Item(m) = GiftOf(m) /\ one \in Contributions!Owned
      /\ v7' = [n \in Contributions!Modules |-> [k \in Contributions!Kinds |-> v7'[n][k]]]
      /\ \A n \in OffersOf, k \in GiftKinds :
            v7'[n][k] = IF n = m /\ k = "conn" THEN v7[m]["conn"] \cup {GiftOf(m).key} ELSE v7[n][k]
      /\ v12' \in Nat /\ v13' = v13 /\ v11' \in [OffersOf -> Nat] /\ \A n \in OffersOf : v11'[n] <= Len(Offers[n])
  <2>1. /\ Contributions!Due(m, "conn")
        /\ Contributions!Owns(m, "conn", Contributions!Item(m).key)
        /\ Contributions!Item(m) = GiftOf(m)
    BY DEF Contributions!RegistersConnection, Contributions!Item, GiftOf
  <2>2. "conn" \in GiftKinds
    BY DEF GiftKinds
  <2>3. GiftDone(m, "conn", GiftOf(m).key)
    BY <1>1, <2>1, <2>2, GiftDue
  <2> QED
    BY <2>3 DEF GiftDone
<1>3. v3' = v3 \cup {one} /\ UNCHANGED <<v1, v2, v4, v5, v6, v8, v9, v10>>
  BY <1>2 DEF Contributions!RegistersConnection
<1>4. Contributions!Held("conn")' = Contributions!Held("conn") \cup {one}
  BY <1>2 DEF GiftAdds
<1>5. Contributions!RegistryTypeOK'
  <2> HIDE DEF one
  <2> QED
    BY <1>1, <1>2, <1>3 DEF Contributions!RegistryTypeOK, Contributions!Modules, OffersOf
<1>6. Contributions!Remembered'
  <2>1. "conn" \in GiftKinds \ {"note"}
    BY DEF GiftKinds
  <2> QED
    BY <1>1, <1>2, <1>3, <2>1, GiftRemembers
<1>7. GiftLists' /\ GiftNotes'
  <2>1. \A k \in {"worker", "router", "note"} : Contributions!Held(k)' = Contributions!Held(k)
    BY <1>2 DEF GiftAdds
  <2> HIDE DEF one
  <2> QED
    BY <1>1, <1>3, <1>4, <2>1, GiftNotesStay DEF GiftLists
<1>8. GiftNames' /\ GiftPaths' /\ GiftRunning'
  BY <1>1, <1>2, <1>3, GiftNamesStay, GiftPathsStay, GiftRunningStays
<1>9. GiftWhole'
  BY <1>5, <1>6, <1>7, <1>8 DEF GiftWhole
<1> QED
  BY <1>9, GiftParts, PTL

LEMMA GiftWorker ==
    ASSUME Contributions!IInv, NEW m \in OffersOf, Contributions!RegistersWorker(m)
    PROVE  Contributions!IInv'
<1>1. /\ Contributions!RegistryTypeOK /\ Contributions!Remembered
      /\ GiftLists /\ GiftNotes /\ GiftNames /\ GiftPaths /\ GiftRunning
  BY GiftParts DEF GiftWhole
<1> DEFINE one == Contributions!Mine(m, GiftOf(m))
<1>2. /\ GiftAdds(m, "worker") /\ Contributions!Item(m) = GiftOf(m) /\ one \in Contributions!Owned
      /\ v7' = [n \in Contributions!Modules |-> [k \in Contributions!Kinds |-> v7'[n][k]]]
      /\ \A n \in OffersOf, k \in GiftKinds :
            v7'[n][k] = IF n = m /\ k = "worker" THEN v7[m]["worker"] \cup {GiftOf(m).key} ELSE v7[n][k]
      /\ v12' \in Nat /\ v13' = v13 /\ v11' \in [OffersOf -> Nat] /\ \A n \in OffersOf : v11'[n] <= Len(Offers[n])
  <2>1. /\ Contributions!Due(m, "worker")
        /\ Contributions!Owns(m, "worker", Contributions!Item(m).key)
        /\ Contributions!Item(m) = GiftOf(m)
    BY DEF Contributions!RegistersWorker, Contributions!Item, GiftOf
  <2>2. "worker" \in GiftKinds
    BY DEF GiftKinds
  <2>3. GiftDone(m, "worker", GiftOf(m).key)
    BY <1>1, <2>1, <2>2, GiftDue
  <2> QED
    BY <2>3 DEF GiftDone
<1>3. /\ v4' = v4 \cup {one} /\ v10' \in {v10, v10 \cup {one}}
      /\ UNCHANGED <<v1, v2, v3, v5, v6, v8, v9>>
  BY <1>2 DEF Contributions!RegistersWorker
<1>4. Contributions!Held("worker")' = Contributions!Held("worker") \cup {one}
  BY <1>2 DEF GiftAdds
<1>5. Contributions!RegistryTypeOK'
  <2> HIDE DEF one
  <2> QED
    BY <1>1, <1>2, <1>3 DEF Contributions!RegistryTypeOK, Contributions!Modules, OffersOf
<1>6. Contributions!Remembered'
  <2>1. "worker" \in GiftKinds \ {"note"}
    BY DEF GiftKinds
  <2> QED
    BY <1>1, <1>2, <1>3, <2>1, GiftRemembers
<1>7. GiftLists' /\ GiftNotes'
  <2>1. \A k \in {"conn", "router", "note"} : Contributions!Held(k)' = Contributions!Held(k)
    BY <1>2 DEF GiftAdds
  <2> HIDE DEF one
  <2> QED
    BY <1>1, <1>3, <1>4, <2>1, GiftNotesStay DEF GiftLists
<1>8. GiftNames' /\ GiftPaths'
  BY <1>1, <1>2, <1>3, GiftNamesStay, GiftPathsStay
<1>9. GiftRunning'
  <2> HIDE DEF one
  <2> QED
    BY <1>1, <1>3, GiftRunningStays
<1>10. GiftWhole'
  BY <1>5, <1>6, <1>7, <1>8, <1>9 DEF GiftWhole
<1> QED
  BY <1>10, GiftParts, PTL

LEMMA GiftRoutes ==
    ASSUME Contributions!IInv, NEW m \in OffersOf, Contributions!RegistersRoutes(m)
    PROVE  Contributions!IInv'
<1>1. /\ Contributions!RegistryTypeOK /\ Contributions!Remembered
      /\ GiftLists /\ GiftNotes /\ GiftNames /\ GiftPaths /\ GiftRunning
  BY GiftParts DEF GiftWhole
<1> DEFINE one == Contributions!Mine(m, GiftOf(m))
<1>2. /\ GiftAdds(m, "router") /\ Contributions!Item(m) = GiftOf(m) /\ one \in Contributions!Owned
      /\ v7' = [n \in Contributions!Modules |-> [k \in Contributions!Kinds |-> v7'[n][k]]]
      /\ \A n \in OffersOf, k \in GiftKinds :
            v7'[n][k] = IF n = m /\ k = "router" THEN v7[m]["router"] \cup {GiftOf(m).key} ELSE v7[n][k]
      /\ v12' \in Nat /\ v13' = v13 /\ v11' \in [OffersOf -> Nat] /\ \A n \in OffersOf : v11'[n] <= Len(Offers[n])
  <2>1. /\ Contributions!Due(m, "router")
        /\ Contributions!Owns(m, "router", Contributions!Item(m).key)
        /\ Contributions!Item(m) = GiftOf(m)
    BY DEF Contributions!RegistersRoutes, Contributions!Item, GiftOf
  <2>2. "router" \in GiftKinds
    BY DEF GiftKinds
  <2>3. GiftDone(m, "router", GiftOf(m).key)
    BY <1>1, <2>1, <2>2, GiftDue
  <2> QED
    BY <2>3 DEF GiftDone
<1>3. /\ v5' = v5 \cup {one} /\ v6' = IF v8 THEN v6 \cup {one} ELSE v6
      /\ UNCHANGED <<v1, v2, v3, v4, v8, v9, v10>>
  BY <1>2 DEF Contributions!RegistersRoutes
<1>4. Contributions!Held("router")' = Contributions!Held("router") \cup {one}
  BY <1>2 DEF GiftAdds
<1>5. Contributions!RegistryTypeOK'
  <2> HIDE DEF one
  <2> QED
    BY <1>1, <1>2, <1>3 DEF Contributions!RegistryTypeOK, Contributions!Modules, OffersOf
<1>6. Contributions!Remembered'
  <2>1. "router" \in GiftKinds \ {"note"}
    BY DEF GiftKinds
  <2> QED
    BY <1>1, <1>2, <1>3, <2>1, GiftRemembers
<1>7. GiftLists' /\ GiftNotes'
  <2>1. \A k \in {"conn", "worker", "note"} : Contributions!Held(k)' = Contributions!Held(k)
    BY <1>2 DEF GiftAdds
  <2> HIDE DEF one
  <2> QED
    BY <1>1, <1>3, <1>4, <2>1, GiftNotesStay DEF GiftLists
<1>8. GiftNames' /\ GiftRunning'
  BY <1>1, <1>2, <1>3, GiftNamesStay, GiftRunningStays
<1>9. GiftPaths'
  <2>1. \A n, k, key : Contributions!Shared(n, k, key)' <=> Contributions!Shared(n, k, key)
    BY DEF Contributions!Shared
  <2> HIDE DEF one
  <2>2. v8 => v5' \ v6' \subseteq v5 \ v6
    BY <1>3
  <2>3. v8' = v8
    BY <1>3
  <2> QED
    BY <1>1, <2>1, <2>2, <2>3 DEF GiftPaths
<1>10. GiftWhole'
  BY <1>5, <1>6, <1>7, <1>8, <1>9 DEF GiftWhole
<1> QED
  BY <1>10, GiftParts, PTL

\* What rests on the contributions that stay.
LEMMA GiftGivenStays ==
    ASSUME v11' = v11, v13' = v13
    PROVE  /\ \A n, kind : Contributions!Given(n, kind)' = Contributions!Given(n, kind)
           /\ \A kind : Contributions!Held(kind)' = Contributions!Held(kind)
<1>1. \A n, i, c : Contributions!Registered(n, i, c)' <=> Contributions!Registered(n, i, c)
  BY DEF Contributions!Registered
<1>2. \A n, kind : Contributions!Given(n, kind)' = Contributions!Given(n, kind)
  BY <1>1 DEF Contributions!Given
<1>3. \A kind : Contributions!Held(kind)' = Contributions!Held(kind)
  BY <1>1 DEF Contributions!Held
<1> QED
  BY <1>2, <1>3

LEMMA GiftStillRemembered ==
    ASSUME Contributions!Remembered, UNCHANGED <<v2, v7>>,
           \A m \in OffersOf, kind \in GiftKinds : Contributions!Given(m, kind)' = Contributions!Given(m, kind)
    PROVE  Contributions!Remembered'
<1> SUFFICES ASSUME NEW m \in OffersOf
             PROVE  /\ \A k \in GiftKinds \ {"note"} : v7'[m][k] = Contributions!Given(m, k)'
                    /\ v7'[m]["note"] = {i \in DOMAIN v2' : v2'[i].module = m}
  BY DEF Contributions!Remembered, Contributions!Modules, OffersOf, Contributions!Kinds, GiftKinds
<1>1. /\ \A k \in GiftKinds \ {"note"} : v7[m][k] = Contributions!Given(m, k)
      /\ v7[m]["note"] = {i \in DOMAIN v2 : v2[i].module = m}
  BY DEF Contributions!Remembered, Contributions!Modules, OffersOf, Contributions!Kinds, GiftKinds
<1> QED
  BY <1>1

LEMMA GiftStays ==
    ASSUME GiftLists, GiftNotes, GiftNames,
           \A m \in OffersOf, kind \in GiftKinds : Contributions!Given(m, kind)' = Contributions!Given(m, kind),
           \A kind \in GiftKinds : Contributions!Held(kind)' = Contributions!Held(kind),
           UNCHANGED <<v1, v2, v3, v4, v5>>
    PROVE  /\ v6' \subseteq (IF v8' THEN v5' ELSE {}) => GiftLists'
           /\ GiftNotes' /\ GiftNames'
<1>1. \A kind \in {"named", "conn", "worker", "router", "note"} : kind \in GiftKinds
  BY DEF GiftKinds
<1>2. v6' \subseteq (IF v8' THEN v5' ELSE {}) => GiftLists'
  BY <1>1 DEF GiftLists
<1>3. GiftNotes'
  BY <1>1, GiftNotesStay
<1>4. \A n, k, key : Contributions!Shared(n, k, key)' <=> Contributions!Shared(n, k, key)
  BY DEF Contributions!Shared
<1>5. GiftNames'
  BY <1>1, <1>4 DEF GiftNames
<1> QED
  BY <1>2, <1>3, <1>5

\* A load over a load: what the first registered is now of the first.
LEMMA GiftReloads ==
    ASSUME Contributions!IInv, NEW m \in OffersOf, Contributions!Reloads(m)
    PROVE  Contributions!IInv'
<1>1. /\ Contributions!RegistryTypeOK /\ Contributions!Remembered
      /\ GiftLists /\ GiftNotes /\ GiftNames /\ GiftPaths /\ GiftRunning
  BY GiftParts DEF GiftWhole
<1>2. /\ v11[m] = Len(Offers[m]) /\ v11' = [v11 EXCEPT ![m] = 0] /\ v13' = [v13 EXCEPT ![m] = v13[m] + 1]
      /\ v11 \in [OffersOf -> Nat] /\ v13 \in [OffersOf -> Nat]
      /\ UNCHANGED <<v1, v2, v3, v4, v5, v6, v7, v8, v9, v10, v12>>
  BY <1>1 DEF Contributions!Reloads, Contributions!RegistryTypeOK, Contributions!Modules, OffersOf
<1>3. /\ v11' \in [OffersOf -> Nat] /\ v13' \in [OffersOf -> Nat]
      /\ \A n \in OffersOf : v11'[n] = (IF n = m THEN 0 ELSE v11[n])
      /\ \A n \in OffersOf : v13'[n] = (IF n = m THEN v13[m] + 1 ELSE v13[n])
  BY <1>2
<1>4. ASSUME NEW n \in OffersOf, NEW i \in DOMAIN Offers[n], NEW c \in Nat
      PROVE  /\ Contributions!Registered(n, i, c)' <=> Contributions!Registered(n, i, c)
             /\ Contributions!Registered(n, i, c) => c <= v13[n]
  <2>1. i \in Nat /\ i >= 1 /\ i <= Len(Offers[n]) /\ Len(Offers[n]) \in Nat
    BY GiftOffers
  <2>2. v11[n] \in Nat /\ v13[n] \in Nat
    BY <1>2
  <2>3. CASE n = m
    <3>1. v11'[n] = 0 /\ v13'[n] = v13[n] + 1 /\ v11[n] = Len(Offers[n])
      BY <1>2, <1>3, <2>3
    <3> QED
      BY <2>1, <2>2, <3>1 DEF Contributions!Registered
  <2>4. CASE n # m
    <3>1. v11'[n] = v11[n] /\ v13'[n] = v13[n]
      BY <1>3, <2>4
    <3> QED
      BY <2>1, <2>2, <3>1 DEF Contributions!Registered
  <2> QED
    BY <2>3, <2>4
<1>5. \A n \in OffersOf, kind \in GiftKinds : Contributions!Given(n, kind)' = Contributions!Given(n, kind)
  <2>1. \A n \in OffersOf : \A i \in DOMAIN Offers[n] :
           Contributions!Registered(n, i, 0)' <=> Contributions!Registered(n, i, 0)
    BY <1>4
  <2> QED
    BY <2>1 DEF Contributions!Given
<1>6. ASSUME NEW kind \in GiftKinds
      PROVE  Contributions!Held(kind)' = Contributions!Held(kind)
  <2>1. \A e : e \in Contributions!Held(kind)' <=>
            \E n \in OffersOf : \E i \in DOMAIN Offers[n] : \E c \in 0..v13'[n] :
               /\ Offers[n][i].kind = kind /\ Contributions!Registered(n, i, c)'
               /\ e = [module |-> n, key |-> Offers[n][i].key, copy |-> c]
    BY DEF Contributions!Held, Contributions!Modules, OffersOf
  <2>2. \A n \in OffersOf : v13[n] \in Nat /\ v13'[n] \in Nat /\ v13[n] <= v13'[n]
    BY <1>2, <1>3
  <2>3. ASSUME NEW n \in OffersOf, NEW i \in DOMAIN Offers[n], NEW c
        PROVE  c \in 0..v13'[n] /\ Contributions!Registered(n, i, c)' <=>
                  c \in 0..v13[n] /\ Contributions!Registered(n, i, c)
    <3>1. c \in 0..v13[n] => c \in Nat /\ c \in 0..v13'[n]
      BY <2>2
    <3>2. c \in 0..v13'[n] => c \in Nat /\ (c <= v13[n] => c \in 0..v13[n])
      BY <2>2
    <3> QED
      BY <1>4, <3>1, <3>2
  <2>4. \A e : e \in Contributions!Held(kind)' <=> e \in Contributions!Held(kind)
    BY <2>1, <2>3, GiftHeld
  <2> QED
    BY <2>4
<1>7. Contributions!RegistryTypeOK'
  <2>1. \A n \in OffersOf : v11'[n] <= Len(Offers[n])
    <3>1. \A n \in OffersOf : v11[n] <= Len(Offers[n]) /\ Len(Offers[n]) \in Nat
      BY <1>1, GiftOffers DEF Contributions!RegistryTypeOK, Contributions!Modules, OffersOf
    <3> QED
      BY <1>3, <3>1
  <2> QED
    BY <1>1, <1>2, <1>3, <2>1 DEF Contributions!RegistryTypeOK, Contributions!Modules, OffersOf
<1>8. Contributions!Remembered'
  BY <1>1, <1>2, <1>5, GiftStillRemembered
<1>9. GiftLists' /\ GiftNotes' /\ GiftNames'
  <2>1. v6' \subseteq IF v8' THEN v5' ELSE {}
    BY <1>1, <1>2 DEF GiftLists
  <2> QED
    BY <1>1, <1>2, <1>5, <1>6, <2>1, GiftStays
<1>10. GiftPaths' /\ GiftRunning'
  BY <1>1, <1>2, GiftPathsStay, GiftRunningStays
<1>11. GiftWhole'
  BY <1>7, <1>8, <1>9, <1>10 DEF GiftWhole
<1> QED
  BY <1>11, GiftParts, PTL

\* bind_app and start_workers.
LEMMA GiftBinds ==
    ASSUME Contributions!IInv, Contributions!Binds
    PROVE  Contributions!IInv'
<1>1. /\ Contributions!RegistryTypeOK /\ Contributions!Remembered
      /\ GiftLists /\ GiftNotes /\ GiftNames /\ GiftPaths /\ GiftRunning
  BY GiftParts DEF GiftWhole
<1>2. /\ ~v8 /\ v8' = TRUE /\ v6' = v6 \cup v5
      /\ UNCHANGED <<v1, v2, v3, v4, v5, v7, v9, v10, v11, v12, v13>>
  BY DEF Contributions!Binds
<1>3. Contributions!RegistryTypeOK'
  BY <1>1, <1>2 DEF Contributions!RegistryTypeOK
<1>4. Contributions!Remembered'
  BY <1>1, <1>2, GiftGivenStays, GiftStillRemembered
<1>5. GiftLists' /\ GiftNotes' /\ GiftNames'
  <2>1. v6' \subseteq IF v8' THEN v5' ELSE {}
    BY <1>1, <1>2 DEF GiftLists
  <2> QED
    BY <1>1, <1>2, <2>1, GiftGivenStays, GiftStays
<1>6. GiftPaths'
  BY <1>2 DEF GiftPaths
<1>7. GiftRunning'
  BY <1>1, <1>2, GiftRunningStays
<1>8. GiftWhole'
  BY <1>3, <1>4, <1>5, <1>6, <1>7 DEF GiftWhole
<1> QED
  BY <1>8, GiftParts, PTL

LEMMA GiftBegins ==
    ASSUME Contributions!IInv, Contributions!Begins
    PROVE  Contributions!IInv'
<1>1. /\ Contributions!RegistryTypeOK /\ Contributions!Remembered
      /\ GiftLists /\ GiftNotes /\ GiftNames /\ GiftPaths /\ GiftRunning
  BY GiftParts DEF GiftWhole
<1>2. /\ v9' = TRUE /\ v10' \subseteq v10 \cup v4
      /\ UNCHANGED <<v1, v2, v3, v4, v5, v6, v7, v8, v11, v12, v13>>
  BY DEF Contributions!Begins
<1>3. Contributions!RegistryTypeOK'
  BY <1>1, <1>2 DEF Contributions!RegistryTypeOK
<1>4. Contributions!Remembered'
  BY <1>1, <1>2, GiftGivenStays, GiftStillRemembered
<1>5. GiftLists' /\ GiftNotes' /\ GiftNames'
  <2>1. v6' \subseteq IF v8' THEN v5' ELSE {}
    BY <1>1, <1>2 DEF GiftLists
  <2> QED
    BY <1>1, <1>2, <2>1, GiftGivenStays, GiftStays
<1>6. GiftPaths' /\ GiftRunning'
  BY <1>1, <1>2, GiftPathsStay, GiftRunningStays
<1>7. GiftWhole'
  BY <1>3, <1>4, <1>5, <1>6 DEF GiftWhole
<1> QED
  BY <1>7, GiftParts, PTL

\* forget: what the others gave is as it was, and of the module's own nothing is left that
\* could be taken or stopped, however often it was loaded.
LEMMA GiftForgets ==
    ASSUME Contributions!IInv, NEW m \in OffersOf, Contributions!Forgets(m)
    PROVE  Contributions!IInv'
<1>1. /\ Contributions!RegistryTypeOK /\ Contributions!Remembered
      /\ GiftLists /\ GiftNotes /\ GiftNames /\ GiftPaths /\ GiftRunning
  BY GiftParts DEF GiftWhole
<1>2. /\ v11 \in [OffersOf -> Nat] /\ v11' = [v11 EXCEPT ![m] = 0]
      /\ v13 \in [OffersOf -> Nat] /\ v13' = [v13 EXCEPT ![m] = 0]
      /\ v7' = [v7 EXCEPT ![m] = [kind \in GiftKinds |-> {}]]
      /\ v7 = [n \in OffersOf |-> [kind \in GiftKinds |-> v7[n][kind]]]
      /\ UNCHANGED <<v8, v9, v12>>
  BY <1>1 DEF Contributions!RegistryTypeOK, Contributions!Forgets, Contributions!Modules, OffersOf,
              Contributions!Kinds, GiftKinds
<1>3. /\ \A n \in OffersOf : v11'[n] = IF n = m THEN 0 ELSE v11[n]
      /\ \A n \in OffersOf : v13'[n] = IF n = m THEN 0 ELSE v13[n]
      /\ v11' \in [OffersOf -> Nat] /\ v13' \in [OffersOf -> Nat]
      /\ \A n \in OffersOf, kind \in GiftKinds : v7'[n][kind] = IF n = m THEN {} ELSE v7[n][kind]
      /\ v7' = [n \in OffersOf |-> [kind \in GiftKinds |-> v7'[n][kind]]]
  BY <1>2
<1>4. /\ \A i \in DOMAIN Offers[m] : \A c \in 0..v13'[m] : ~Contributions!Registered(m, i, c)'
      /\ \A n \in OffersOf \ {m} : \A i, c : Contributions!Registered(n, i, c)' <=> Contributions!Registered(n, i, c)
  <2>1. v11'[m] = 0 /\ v13'[m] = 0
    BY <1>3
  <2>2. \A i \in DOMAIN Offers[m] : i \in Nat /\ i >= 1
    BY GiftOffers
  <2>3. \A i \in DOMAIN Offers[m] : \A c \in 0..v13'[m] : ~Contributions!Registered(m, i, c)'
    BY <2>1, <2>2 DEF Contributions!Registered
  <2>4. \A n \in OffersOf \ {m} : v11'[n] = v11[n] /\ v13'[n] = v13[n]
    BY <1>3
  <2> QED
    BY <2>3, <2>4 DEF Contributions!Registered
<1>5. \A kind : \A n \in OffersOf :
         Contributions!Given(n, kind)' = IF n = m THEN {} ELSE Contributions!Given(n, kind)
  <2>1. 0 \in 0..v13'[m]
    BY <1>3
  <2>2. \A kind : Contributions!Given(m, kind)' = {}
    BY <1>4, <2>1 DEF Contributions!Given
  <2>3. \A kind : \A n \in OffersOf \ {m} : Contributions!Given(n, kind)' = Contributions!Given(n, kind)
    BY <1>4 DEF Contributions!Given
  <2> QED
    BY <2>2, <2>3
<1>6. ASSUME NEW kind
      PROVE  Contributions!Held(kind)' = {e \in Contributions!Held(kind) : e.module # m}
  <2>1. \A e : e \in Contributions!Held(kind)' <=>
            \E n \in OffersOf : \E i \in DOMAIN Offers[n] : \E c \in 0..v13'[n] :
               /\ Offers[n][i].kind = kind /\ Contributions!Registered(n, i, c)'
               /\ e = [module |-> n, key |-> Offers[n][i].key, copy |-> c]
    BY DEF Contributions!Held, Contributions!Modules, OffersOf
  <2>2. \A n \in OffersOf \ {m} : v13'[n] = v13[n]
    BY <1>3
  <2>3. \A e : e \in Contributions!Held(kind)' <=>
            \E n \in OffersOf \ {m} : \E i \in DOMAIN Offers[n] : \E c \in 0..v13[n] :
               /\ Offers[n][i].kind = kind /\ Contributions!Registered(n, i, c)
               /\ e = [module |-> n, key |-> Offers[n][i].key, copy |-> c]
    BY <1>4, <2>1, <2>2
  <2>4. \A n, k, c : [module |-> n, key |-> k, copy |-> c].module = n
    OBVIOUS
  <2>5. \A e : e \in Contributions!Held(kind)' <=> e \in Contributions!Held(kind) /\ e.module # m
    BY <2>3, <2>4, GiftHeld
  <2> QED
    BY <2>5
<1>7. /\ \A kind \in GiftKinds \ {"note"} : v7[m][kind] = Contributions!Given(m, kind)
      /\ v7[m]["note"] = {i \in DOMAIN v2 : v2[i].module = m}
  BY <1>1 DEF Contributions!Remembered, Contributions!Modules, OffersOf, Contributions!Kinds, GiftKinds
<1>8. /\ {"named", "conn", "worker", "router"} \subseteq GiftKinds \ {"note"} /\ "note" \in GiftKinds
  BY DEF GiftKinds
<1>9. ASSUME NEW kind, NEW e \in Contributions!Held(kind), e.module = m
      PROVE  e.key \in Contributions!Given(m, kind)
  BY <1>1, <1>9, GiftOwner
<1>10. /\ v3' = {e \in v3 : e.module # m} /\ v4' = {e \in v4 : e.module # m}
       /\ v5' = {e \in v5 : e.module # m}
  <2>1. v3' = {e \in v3 : ~(e.module = m /\ e.key \in Contributions!Given(m, "conn"))}
    BY <1>7, <1>8 DEF Contributions!Forgets, Contributions!Unlisted
  <2>2. v4' = {e \in v4 : ~(e.module = m /\ e.key \in Contributions!Given(m, "worker"))}
    BY <1>7, <1>8 DEF Contributions!Forgets, Contributions!Unlisted
  <2>3. v5' = {e \in v5 : ~(e.module = m /\ e.key \in Contributions!Given(m, "router"))}
    BY <1>7, <1>8 DEF Contributions!Forgets, Contributions!Unlisted
  <2>4. v3 = Contributions!Held("conn") /\ v4 = Contributions!Held("worker") /\ v5 = Contributions!Held("router")
    BY <1>1 DEF GiftLists
  <2> QED
    BY <1>9, <2>1, <2>2, <2>3, <2>4
<1>11. v6' = IF v8 THEN {e \in v6 : e.key \notin Contributions!Given(m, "router")} ELSE v6
  BY <1>7, <1>8 DEF Contributions!Forgets, Contributions!Unmounted
<1>12. GiftLists'
  <2>1. /\ v3 = Contributions!Held("conn") /\ v4 = Contributions!Held("worker")
        /\ v5 = Contributions!Held("router") /\ v6 \subseteq IF v8 THEN v5 ELSE {}
    BY <1>1 DEF GiftLists
  <2>2. v6' \subseteq IF v8' THEN v5' ELSE {}
    <3>1. CASE v8
      <4>1. ASSUME NEW e \in v6' PROVE e \in v5'
        <5>1. e \in v5 /\ e.key \notin Contributions!Given(m, "router")
          BY <1>11, <2>1, <3>1, <4>1
        <5> QED
          BY <1>9, <1>10, <2>1, <5>1
      <4> QED
        BY <1>2, <3>1, <4>1
    <3>2. CASE ~v8
      BY <1>2, <1>11, <2>1, <3>2
    <3> QED
      BY <3>1, <3>2
  <2> QED
    BY <1>6, <1>10, <2>1, <2>2 DEF GiftLists
<1>13. /\ v1 \in [Contributions!Names -> Contributions!Modules \cup {Contributions!Gone}]
       /\ v1' = [k \in Contributions!Names |-> IF k \in Contributions!Given(m, "named") THEN "gone" ELSE v1[k]]
  BY <1>1, <1>7, <1>8 DEF Contributions!RegistryTypeOK, Contributions!Forgets, Contributions!Gone
<1>14. /\ v2 \in Seq(Contributions!Owned \cup {Contributions!Blank})
       /\ v2' = [i \in DOMAIN v2 |-> IF v2[i].module = m THEN Contributions!Blank ELSE v2[i]]
  <2>1. v2' = [i \in DOMAIN v2 |-> IF i \in v7[m]["note"] THEN Contributions!Blank ELSE v2[i]]
    BY DEF Contributions!Forgets, Contributions!Blanked
  <2> QED
    BY <1>1, <1>7, <2>1 DEF Contributions!RegistryTypeOK
<1>15. v2' \in Seq(Contributions!Owned \cup {Contributions!Blank}) /\ DOMAIN v2' = DOMAIN v2
  <2> DEFINE texts == Contributions!Owned \cup {Contributions!Blank}
  <2>1. Contributions!Blank \in texts /\ v2 \in Seq(texts)
    BY <1>14
  <2> HIDE DEF texts
  <2>2. DOMAIN v2 = 1..Len(v2) /\ Len(v2) \in Nat /\ v2 \in [1..Len(v2) -> texts]
    BY <2>1
  <2>3. v2' \in [1..Len(v2) -> texts]
    BY <1>14, <2>1, <2>2
  <2>4. v2' \in Seq(texts) /\ DOMAIN v2' = DOMAIN v2
    BY <2>2, <2>3
  <2> QED
    BY <2>4 DEF texts
<1>16. Contributions!RegistryTypeOK'
  <2>1. v10' \subseteq v10
    BY DEF Contributions!Forgets
  <2>2. v3' \cup v4' \cup v5' \cup v6' \cup v10' \subseteq v3 \cup v4 \cup v5 \cup v6 \cup v10
    BY <1>10, <1>11, <2>1
  <2>3. v1' \in [Contributions!Names -> Contributions!Modules \cup {Contributions!Gone}]
    BY <1>13 DEF Contributions!Gone
  <2>4. /\ v11' \in [Contributions!Modules -> Nat] /\ v13' \in [Contributions!Modules -> Nat]
        /\ \A n \in Contributions!Modules : v11'[n] <= Len(Offers[n])
    <3>1. \A n \in OffersOf : v11[n] <= Len(Offers[n]) /\ Len(Offers[n]) \in Nat
      BY <1>1, GiftOffers DEF Contributions!RegistryTypeOK, Contributions!Modules, OffersOf
    <3>2. \A n \in OffersOf : v11'[n] <= Len(Offers[n])
      <4> TAKE n \in OffersOf
      <4>1. v11[n] <= Len(Offers[n]) /\ Len(Offers[n]) \in Nat /\ v11'[n] = IF n = m THEN 0 ELSE v11[n]
        BY <1>3, <3>1
      <4> QED
        BY <4>1
    <3> QED
      BY <1>3, <3>2 DEF Contributions!Modules, OffersOf
  <2>5. v7' = [n \in Contributions!Modules |-> [kind \in Contributions!Kinds |-> v7'[n][kind]]]
    BY <1>3 DEF Contributions!Modules, OffersOf, Contributions!Kinds, GiftKinds
  <2> QED
    BY <1>1, <1>2, <1>15, <2>2, <2>3, <2>4, <2>5 DEF Contributions!RegistryTypeOK
<1>17. Contributions!Remembered'
  <2> SUFFICES ASSUME NEW n \in OffersOf
               PROVE  /\ \A k \in GiftKinds \ {"note"} : v7'[n][k] = Contributions!Given(n, k)'
                      /\ v7'[n]["note"] = {i \in DOMAIN v2' : v2'[i].module = n}
    BY DEF Contributions!Remembered, Contributions!Modules, OffersOf, Contributions!Kinds, GiftKinds
  <2>1. /\ \A k \in GiftKinds \ {"note"} : v7[n][k] = Contributions!Given(n, k)
        /\ v7[n]["note"] = {i \in DOMAIN v2 : v2[i].module = n}
    BY <1>1 DEF Contributions!Remembered, Contributions!Modules, OffersOf, Contributions!Kinds, GiftKinds
  <2>2. Contributions!Blank.module = "gone" /\ n # "gone"
    BY GiftOffers DEF Contributions!Blank, Contributions!Gone
  <2>3. \A k \in GiftKinds \ {"note"} : v7'[n][k] = Contributions!Given(n, k)'
    <3> TAKE k \in GiftKinds \ {"note"}
    <3>1. v7'[n][k] = IF n = m THEN {} ELSE v7[n][k]
      BY <1>3
    <3>2. Contributions!Given(n, k)' = IF n = m THEN {} ELSE Contributions!Given(n, k)
      BY <1>5
    <3> QED
      BY <2>1, <3>1, <3>2
  <2>4. CASE n = m
    <3>1. v7'[n]["note"] = {}
      BY <1>3, <1>8, <2>4
    <3>2. \A i \in DOMAIN v2' : v2'[i].module # n
      BY <1>14, <1>15, <2>2, <2>4
    <3> QED
      BY <2>3, <3>1, <3>2
  <2>5. CASE n # m
    <3>1. v7'[n]["note"] = v7[n]["note"]
      BY <1>3, <1>8, <2>5
    <3>2. \A i \in DOMAIN v2 : v2'[i].module = n <=> v2[i].module = n
      BY <1>14, <2>2, <2>5
    <3>3. v7'[n]["note"] = {i \in DOMAIN v2' : v2'[i].module = n}
      BY <1>15, <2>1, <3>1, <3>2
    <3> QED
      BY <2>3, <3>3
  <2> QED
    BY <2>4, <2>5
<1>18. ASSUME NEW kind, NEW n \in OffersOf, n # m, NEW key \in Contributions!Given(m, kind)
       PROVE  Contributions!Shared(n, kind, key)
  BY <1>18, GiftGiven DEF Contributions!Shared, Contributions!Modules, OffersOf
<1>19. \A n, k, key : Contributions!Shared(n, k, key)' <=> Contributions!Shared(n, k, key)
  BY DEF Contributions!Shared
<1>20. GiftNames'
  <2> SUFFICES ASSUME NEW n \in OffersOf, NEW it \in Contributions!Range(Offers[n]), it.kind = "named",
                      ~Contributions!Shared(n, "named", it.key)
               PROVE  v1'[it.key] = n <=> it.key \in Contributions!Given(n, "named")'
    BY <1>19 DEF GiftNames
  <2>1. v1[it.key] = n <=> it.key \in Contributions!Given(n, "named")
    BY <1>1 DEF GiftNames
  <2>2. it.key \in Contributions!Names /\ n # "gone"
    BY GiftKeys
  <2>3. v1'[it.key] = IF it.key \in Contributions!Given(m, "named") THEN "gone" ELSE v1[it.key]
    BY <1>13, <2>2
  <2>4. CASE n = m
    BY <1>5, <2>1, <2>2, <2>3, <2>4
  <2>5. CASE n # m
    <3>1. it.key \notin Contributions!Given(m, "named")
      BY <1>18, <2>5
    <3> QED
      BY <1>5, <2>1, <2>3, <2>5, <3>1
  <2> QED
    BY <2>4, <2>5
<1>21. GiftPaths'
  <2> SUFFICES ASSUME v8, NEW e \in v5', e \notin v6'
               PROVE  Contributions!Shared(e.module, "router", e.key)
    BY <1>2, <1>19 DEF GiftPaths
  <2>1. e \in v5 /\ e.module # m /\ e.module \in OffersOf
    BY <1>1, <1>10, GiftOwner DEF GiftLists
  <2>2. CASE e \notin v6
    BY <1>1, <2>1, <2>2 DEF GiftPaths
  <2>3. CASE e \in v6
    BY <1>11, <1>18, <2>1, <2>3
  <2> QED
    BY <2>2, <2>3
<1>22. GiftRunning'
  <2>1. \A w : Contributions!Unstoppable(w)' <=> Contributions!Unstoppable(w)
    BY DEF Contributions!Unstoppable
  <2>2. v10' = v10 \ Contributions!Stoppable(m)
    BY DEF Contributions!Forgets
  <2>3. ASSUME NEW e \in v4, e.module = m, e \notin Contributions!Stoppable(m)
        PROVE  Contributions!Unstoppable(e)
    <3>1. PICK i \in DOMAIN Offers[m] : Offers[m][i].kind = "worker" /\ Offers[m][i].key = e.key
      BY <1>1, <2>3, GiftOwner DEF GiftLists
    <3>2. Offers[m][i] \in Contributions!Range(Offers[m])
      BY GiftOffers
    <3>3. ~Offers[m][i].stops
      BY <2>3, <3>1 DEF Contributions!Stoppable
    <3> QED
      BY <2>3, <3>1, <3>2, <3>3 DEF Contributions!Unstoppable
  <2>4. ASSUME NEW e \in v10', e \notin v4'
        PROVE  Contributions!Unstoppable(e)
    <3>1. e \in v10 /\ e \notin Contributions!Stoppable(m)
      BY <2>2, <2>4
    <3>2. CASE e \in v4
      BY <1>10, <2>3, <2>4, <3>1, <3>2
    <3>3. CASE e \notin v4
      BY <1>1, <3>1, <3>3 DEF GiftRunning
    <3> QED
      BY <3>2, <3>3
  <2> QED
    BY <2>1, <2>4 DEF GiftRunning
<1>23. GiftNotes'
  <2>1. Contributions!Held("note")' = {e \in Contributions!Held("note") : e.module # m}
    BY <1>6
  <2>2. Contributions!Blank' = Contributions!Blank /\ Contributions!Blank.module = "gone" /\ m # "gone"
    BY GiftOffers DEF Contributions!Blank, Contributions!Gone
  <2>3. \A x : x \in Contributions!Range(v2) <=> \E i \in DOMAIN v2 : x = v2[i]
    BY DEF Contributions!Range
  <2>4. \A x : x \in Contributions!Range(v2)' <=> \E i \in DOMAIN v2 : x = v2'[i]
    BY <1>15 DEF Contributions!Range
  <2>5. \A i \in DOMAIN v2 : v2'[i] = IF v2[i].module = m THEN Contributions!Blank ELSE v2[i]
    BY <1>14
  <2>6. ASSUME NEW x
        PROVE  x \in Contributions!Range(v2)' /\ x # Contributions!Blank <=>
                  x \in Contributions!Range(v2) /\ x # Contributions!Blank /\ x.module # m
    BY <2>2, <2>3, <2>4, <2>5
  <2> QED
    BY <1>1, <2>1, <2>2, <2>6 DEF GiftNotes
<1>24. GiftWhole'
  BY <1>12, <1>16, <1>17, <1>20, <1>21, <1>22, <1>23 DEF GiftWhole
<1> QED
  BY <1>24, GiftParts, PTL

LEMMA GiftInductive ==
    Contributions!IInv /\ (Contributions!Next \/ UNCHANGED Contributions!registryVars) => Contributions!IInv'
<1> SUFFICES ASSUME Contributions!IInv, Contributions!Next \/ UNCHANGED Contributions!registryVars
             PROVE  Contributions!IInv'
  OBVIOUS
<1>1. CASE Contributions!Binds
  BY <1>1, GiftBinds
<1>2. CASE Contributions!Begins
  BY <1>2, GiftBegins
<1>3. ASSUME NEW m \in OffersOf,
             \/ Contributions!RegistersName(m) \/ Contributions!RegistersNote(m)
             \/ Contributions!RegistersConnection(m) \/ Contributions!RegistersWorker(m)
             \/ Contributions!RegistersRoutes(m) \/ Contributions!Reloads(m) \/ Contributions!Forgets(m)
      PROVE  Contributions!IInv'
  BY <1>3, GiftName, GiftNote, GiftConnection, GiftWorker, GiftRoutes, GiftReloads, GiftForgets
<1>4. CASE UNCHANGED Contributions!registryVars
  <2>1. /\ Contributions!RegistryTypeOK /\ Contributions!Remembered
        /\ GiftLists /\ GiftNotes /\ GiftNames /\ GiftPaths /\ GiftRunning
    BY GiftParts DEF GiftWhole
  <2>2. UNCHANGED <<v1, v2, v3, v4, v5, v6, v7, v8, v9, v10, v11, v12, v13>>
    BY <1>4 DEF Contributions!registryVars
  <2>3. Contributions!RegistryTypeOK'
    BY <2>1, <2>2 DEF Contributions!RegistryTypeOK
  <2>4. Contributions!Remembered'
    BY <2>1, <2>2, GiftGivenStays, GiftStillRemembered
  <2>5. GiftLists' /\ GiftNotes' /\ GiftNames'
    <3>1. v6' \subseteq IF v8' THEN v5' ELSE {}
      BY <2>1, <2>2 DEF GiftLists
    <3> QED
      BY <2>1, <2>2, <3>1, GiftGivenStays, GiftStays
  <2>6. GiftPaths' /\ GiftRunning'
    BY <2>1, <2>2, GiftPathsStay, GiftRunningStays
  <2>7. GiftWhole'
    BY <2>3, <2>4, <2>5, <2>6 DEF GiftWhole
  <2> QED
    BY <2>7, GiftParts, PTL
<1> QED
  BY <1>1, <1>2, <1>3, <1>4 DEF Contributions!Next, Contributions!Modules, OffersOf

-----------------------------------------------------------------------------
(* The daily builds. *)

\* A day has its hours, and the next hour is of the same day or the next.
LEMMA DaysOfHours ==
    ASSUME NEW n \in Nat
    PROVE  /\ Builds!DayOf(n) \in Nat
           /\ Builds!DayOf(n) * Hours <= n /\ n < (Builds!DayOf(n) + 1) * Hours
           /\ Builds!DayOf(n) * Hours \in Nat /\ (Builds!DayOf(n) + 1) * Hours = Builds!DayOf(n) * Hours + Hours
  BY BuildAssumption DEF Builds!DayOf

LEMMA Products ==
    ASSUME NEW d \in Nat, NEW e \in Nat, d < e
    PROVE  /\ d * Hours \in Nat /\ e * Hours \in Nat
           /\ (d + 1) * Hours = d * Hours + Hours
           /\ (d + 1) * Hours <= e * Hours
<1>1. Hours \in Nat \ {0}
  BY BuildAssumption
<1>2. PICK k \in Nat : e = d + 1 + k
  <2>1. e - (d + 1) \in Nat /\ e = d + 1 + (e - (d + 1))
    OBVIOUS
  <2> QED
    BY <2>1
<1>3. e * Hours = (d + 1) * Hours + k * Hours
  BY <1>1, <1>2
<1>4. k * Hours \in Nat /\ d * Hours \in Nat
  BY <1>1, <1>2
<1>5. (d + 1) * Hours = d * Hours + Hours
  BY <1>1
<1> QED
  BY <1>1, <1>3, <1>4, <1>5

LEMMA BeforeTheDay ==
    ASSUME NEW n \in Nat, NEW d \in Nat
    PROVE  n < d * Hours <=> Builds!DayOf(n) < d
<1> DEFINE q == Builds!DayOf(n)
<1>1. q \in Nat /\ q * Hours <= n /\ n < (q + 1) * Hours /\ q * Hours \in Nat /\ (q + 1) * Hours = q * Hours + Hours
  BY DaysOfHours
<1>2. Hours \in Nat \ {0}
  BY BuildAssumption
<1> HIDE DEF q
<1>3. CASE q < d
  <2>1. (q + 1) * Hours <= d * Hours /\ d * Hours \in Nat
    BY <1>1, <1>3, Products
  <2> QED
    BY <1>1, <1>2, <1>3, <2>1 DEF q
<1>4. CASE d < q
  <2>1. d * Hours \in Nat /\ (d + 1) * Hours = d * Hours + Hours /\ (d + 1) * Hours <= q * Hours
    BY <1>1, <1>4, Products
  <2> QED
    BY <1>1, <1>2, <1>4, <2>1 DEF q
<1>5. CASE d = q
  BY <1>1, <1>5 DEF q
<1> QED
  BY <1>1, <1>3, <1>4, <1>5

LEMMA DaysGoUp ==
    ASSUME NEW m \in Nat, NEW n \in Nat, m <= n
    PROVE  Builds!DayOf(m) <= Builds!DayOf(n)
<1> DEFINE d == Builds!DayOf(n) + 1
<1>1. d \in Nat /\ Builds!DayOf(n) < d /\ Builds!DayOf(m) \in Nat /\ Builds!DayOf(n) \in Nat
  BY DaysOfHours
<1>2. d * Hours \in Nat
  BY <1>1, BuildAssumption
<1> HIDE DEF d
<1>3. n < d * Hours
  BY <1>1, BeforeTheDay
<1>4. m < d * Hours
  BY <1>2, <1>3
<1>5. Builds!DayOf(m) < d
  BY <1>1, <1>4, BeforeTheDay
<1> QED
  BY <1>1, <1>5 DEF d

LEMMA DaysGoOn ==
    ASSUME NEW n \in Nat
    PROVE  Builds!DayOf(n + 1) <= Builds!DayOf(n) + 1
<1> DEFINE q == Builds!DayOf(n)
<1>1. q \in Nat /\ Builds!DayOf(n + 1) \in Nat /\ n < (q + 1) * Hours
      /\ (q + 1) * Hours = q * Hours + Hours /\ q * Hours \in Nat
  BY DaysOfHours
<1>2. Hours \in Nat \ {0}
  BY BuildAssumption
<1>3. (q + 2) * Hours = q * Hours + Hours + Hours
  BY <1>1, <1>2
<1> HIDE DEF q
<1>4. n + 1 < (q + 2) * Hours /\ n + 1 \in Nat /\ q + 2 \in Nat
  BY <1>1, <1>2, <1>3
<1>5. Builds!DayOf(n + 1) < q + 2
  BY <1>4, BeforeTheDay
<1> QED
  BY <1>1, <1>5 DEF q

\* A scan hour lies in its day.
LEMMA ScanInItsDay ==
    ASSUME NEW d \in Nat, NEW h \in ScanHours, NEW n \in Nat
    PROVE  /\ d * Hours + h \in Nat
           /\ d < Builds!DayOf(n) => d * Hours + h < n
           /\ d * Hours + h <= n => d <= Builds!DayOf(n)
           /\ d * Hours + h = n => d = Builds!DayOf(n)
           /\ d * Hours + h < n + Hours => d <= Builds!DayOf(n) + 1
<1> DEFINE q == Builds!DayOf(n) at == d * Hours
<1>1. Hours \in Nat \ {0} /\ h \in Nat /\ h < Hours
  BY BuildAssumption
<1>2. at \in Nat /\ (d + 1) * Hours = at + Hours /\ q \in Nat
  <2>1. q \in Nat
    BY DaysOfHours
  <2>2. d * Hours \in Nat /\ (d + 1) * Hours = d * Hours + Hours
    BY <1>1
  <2> QED
    BY <2>1, <2>2
<1>3. n < at <=> q < d
  BY BeforeTheDay
<1>4. n < (d + 1) * Hours <=> q < d + 1
  BY BeforeTheDay
<1>5. ASSUME q + 1 < d PROVE n + Hours < at
  <2>1. n < (q + 1) * Hours /\ (q + 1) * Hours \in Nat
    <3>1. n < (q + 1) * Hours /\ (q + 1) * Hours = q * Hours + Hours /\ q * Hours \in Nat
      BY DaysOfHours
    <3> HIDE DEF q
    <3> QED
      BY <1>1, <3>1
  <2>2. q + 1 \in Nat
    BY <1>2
  <2> HIDE DEF q, at
  <2>3. (q + 1) * Hours + Hours <= d * Hours
    BY <1>5, <2>2, Products
  <2> QED
    BY <1>1, <1>2, <2>1, <2>3 DEF at
<1> HIDE DEF q, at
<1>6. n < at + Hours <=> q < d + 1
  BY <1>2, <1>4
<1> QED
  <2>1. at + h \in Nat
    BY <1>1, <1>2
  <2>2. d < q => at + h < n
    BY <1>1, <1>2, <1>6
  <2>3. at + h <= n => d <= q
    BY <1>1, <1>2, <1>3
  <2>4. at + h = n => d = q
    BY <1>1, <1>2, <1>3, <1>6
  <2>5. at + h < n + Hours => d <= q + 1
    BY <1>1, <1>2, <1>5
  <2> QED
    BY <2>1, <2>2, <2>3, <2>4, <2>5 DEF q, at

\* Nothing of the lists is undone.
LEMMA ListsAreKept ==
    ASSUME Builds!IInv, UNCHANGED <<v1, v2, v3, v4, v9, v16>>,
           v7' \in [Builds!Builders -> {"idle", "due", "building"} \cup Builds!Results],
           v8' \in [Builds!Builders -> Builds!Slots],
           v5' = v5 \/ \E n \in Builds!Slots, r \in Builds!Results : v5' = [v5 EXCEPT ![n] = r],
           UNCHANGED <<v10, v11, v12, v13, v14, v17>>
    PROVE  Builds!IInv'
<1>1. v5' \in [Builds!Slots -> {"none"} \cup Builds!Results]
      /\ \A n \in Builds!Slots : v5[n] # "none" => v5'[n] # "none"
  BY DEF Builds!IInv, Builds!BuildTypeOK, Builds!Results
<1>2. Builds!BuildTypeOK'
  BY <1>1 DEF Builds!IInv, Builds!BuildTypeOK, Builds!Results, Builds!Builders, Builds!Slots
<1>3. Builds!SlotsAreBuilt' /\ Builds!LookedAtIsBuilt'
  BY <1>1 DEF Builds!IInv, Builds!BuildTypeOK, Builds!NothingIsSkipped, Builds!SlotsAreBuilt, Builds!LookedAtIsBuilt,
              Builds!Up, Builds!Slots
<1>4. Builds!DaysAreScanned' /\ Builds!FaultsAreNoted' /\ Builds!SleepIsSound'
  BY DEF Builds!IInv, Builds!NothingIsSkipped, Builds!DaysAreScanned, Builds!FaultsAreNoted, Builds!SleepIsSound,
         Builds!Up, Builds!DayOf
<1> QED
  BY <1>2, <1>3, <1>4 DEF Builds!IInv, Builds!NothingIsSkipped

LEMMA ListSteps ==
    ASSUME Builds!IInv, NEW b \in Builds!Builders,
           \/ Builds!AdminAsks \/ Builds!Starts(b) \/ Builds!Builds(b) \/ Builds!Saves(b) \/ Builds!NothingTrades(b)
    PROVE  Builds!IInv'
<1> USE DEF Builds!watchVars, Builds!scanVars, Builds!Builders
<1>1. /\ v7 \in [Builds!Builders -> {"idle", "due", "building"} \cup Builds!Results]
      /\ v8 \in [Builds!Builders -> Builds!Slots] /\ v1 \in Builds!Slots
  BY DEF Builds!IInv, Builds!BuildTypeOK
<1>2. CASE Builds!AdminAsks
  BY <1>1, <1>2, ListsAreKept DEF Builds!AdminAsks
<1>3. CASE Builds!Starts(b)
  BY <1>1, <1>3, ListsAreKept DEF Builds!Starts
<1>4. CASE Builds!Builds(b)
  BY <1>1, <1>4, ListsAreKept DEF Builds!Builds, Builds!Results
<1>5. CASE Builds!Saves(b)
  <2>1. v7[b] \in Builds!Results /\ v8[b] \in Builds!Slots /\ v5' = [v5 EXCEPT ![v8[b]] = v7[b]]
    BY <1>1, <1>5 DEF Builds!Saves
  <2> QED
    BY <1>1, <1>5, <2>1, ListsAreKept DEF Builds!Saves
<1>6. CASE Builds!NothingTrades(b)
  <2>1. "ok" \in Builds!Results /\ v8[b] \in Builds!Slots /\ v5' = [v5 EXCEPT ![v8[b]] = "ok"]
    BY <1>1, <1>6 DEF Builds!NothingTrades, Builds!Results
  <2> QED
    BY <1>1, <1>6, <2>1, ListsAreKept DEF Builds!NothingTrades
<1> QED
  BY <1>2, <1>3, <1>4, <1>5, <1>6

LEMMA LoopLooked == ASSUME Builds!IInv, Builds!LoopLooks PROVE Builds!IInv'
<1> USE DEF Builds!watchVars, Builds!scanVars
<1>1. UNCHANGED <<v1, v2, v3, v4, v5, v6, v10, v11, v12, v13, v14, v16, v17>>
  BY DEF Builds!LoopLooks
<1>2. Builds!BuildTypeOK'
  BY <1>1 DEF Builds!LoopLooks, Builds!IInv, Builds!BuildTypeOK, Builds!Builders, Builds!Results, Builds!Slots
<1>3. Builds!NothingIsSkipped' /\ Builds!FaultsAreNoted' /\ Builds!SleepIsSound'
  BY <1>1 DEF Builds!IInv, Builds!NothingIsSkipped, Builds!SlotsAreBuilt, Builds!DaysAreScanned, Builds!FaultsAreNoted,
              Builds!SleepIsSound, Builds!Up, Builds!DayOf
<1>4. v9' => ~(v1 % Hours \in v4 /\ v5[v1] = "none")
  BY DEF Builds!LoopLooks, Builds!Unbuilt
<1>5. Builds!LookedAtIsBuilt'
  BY <1>1, <1>4 DEF Builds!LookedAtIsBuilt
<1> QED
  BY <1>2, <1>3, <1>5 DEF Builds!IInv

LEMMA Rescheduled == ASSUME Builds!IInv, NEW h, Builds!Reschedules(h) PROVE Builds!IInv'
<1> USE DEF Builds!scanVars
<1>1. UNCHANGED <<v1, v2, v3, v5, v6, v7, v8, v9, v10, v11, v12, v13, v14, v17>> /\ v16' = 0..v1
  BY DEF Builds!Reschedules
<1>2. v1 \in Nat
  BY DEF Builds!IInv, Builds!BuildTypeOK, Builds!Slots
<1>3. Builds!BuildTypeOK'
  BY <1>1 DEF Builds!IInv, Builds!BuildTypeOK, Builds!Builders, Builds!Results, Builds!Slots
<1>4. Builds!DaysAreScanned' /\ Builds!SleepIsSound'
  BY <1>1 DEF Builds!IInv, Builds!NothingIsSkipped, Builds!DaysAreScanned, Builds!SleepIsSound, Builds!Up, Builds!DayOf
<1>5. Builds!SlotsAreBuilt' /\ Builds!LookedAtIsBuilt'
  BY <1>1, <1>2 DEF Builds!SlotsAreBuilt, Builds!LookedAtIsBuilt, Builds!Slots
<1>6. Builds!FaultsAreNoted'
  BY <1>1, <1>2 DEF Builds!IInv, Builds!FaultsAreNoted, Builds!DayOf
<1> QED
  BY <1>3, <1>4, <1>5, <1>6 DEF Builds!IInv, Builds!NothingIsSkipped

\* The next run is within a day, and later than this day's and every earlier one's but
\* the next.
LEMMA NextRuns ==
    ASSUME NEW n \in Nat, v10 \in ScanHours
    PROVE  /\ Builds!NextRun(n) \in Nat /\ n < Builds!NextRun(n) /\ Builds!NextRun(n) <= n + Hours
           /\ \A d \in Nat : d * Hours + v10 < Builds!NextRun(n) => d <= Builds!DayOf(n)
<1> DEFINE q == Builds!DayOf(n) t == q * Hours + v10
<1>1. Hours \in Nat \ {0} /\ v10 \in Nat /\ v10 < Hours
  BY BuildAssumption
<1>2. q \in Nat /\ q * Hours \in Nat /\ q * Hours <= n /\ n < (q + 1) * Hours /\ (q + 1) * Hours = q * Hours + Hours
  BY DaysOfHours
<1>3. t \in Nat /\ t + Hours \in Nat
  BY <1>1, <1>2
<1>4. ASSUME NEW d \in Nat, q < d PROVE q * Hours + Hours <= d * Hours /\ d * Hours \in Nat
  BY <1>2, <1>4, Products
<1>5. Builds!NextRun(n) = IF t <= n THEN t + Hours ELSE t
  BY DEF Builds!NextRun
<1> HIDE DEF t
<1>6. Builds!NextRun(n) \in Nat /\ Builds!NextRun(n) <= t + Hours
  BY <1>1, <1>3, <1>5
<1>7. n < Builds!NextRun(n) /\ Builds!NextRun(n) <= n + Hours
  BY <1>1, <1>2, <1>3, <1>5 DEF t
<1>8. ASSUME NEW d \in Nat, d * Hours + v10 < Builds!NextRun(n), q < d PROVE FALSE
  <2>1. q * Hours + Hours <= d * Hours /\ d * Hours \in Nat
    BY <1>4, <1>8
  <2>2. d * Hours + v10 < q * Hours + v10 + Hours
    BY <1>1, <1>2, <1>3, <1>6, <1>8, <2>1 DEF t
  <2> HIDE DEF q
  <2> QED
    BY <1>1, <1>2, <2>1, <2>2
<1> QED
  BY <1>2, <1>6, <1>7, <1>8

\* The scan of the day done, the loop sleeps to the next.
LEMMA ScanSleeps ==
    ASSUME Builds!IInv, Builds!Up("scan"), v13' = "asleep", v14' = Builds!NextRun(v1),
           UNCHANGED <<v1, v2, v3, v4, v5, v6, v7, v8, v9, v10, v11, v16, v17>>,
           v12' \in [DOMAIN v12 -> {"none"} \cup Builds!Results],
           \A d \in DOMAIN v12 : v12[d] # "none" => v12'[d] # "none",
           ~v11 \/ v12'[Builds!DayOf(v1)] # "none"
    PROVE  Builds!IInv'
<1>1. v1 \in Nat /\ v10 \in ScanHours /\ DOMAIN v12 \subseteq Nat
  BY DEF Builds!IInv, Builds!BuildTypeOK, Builds!Slots
<1>2. /\ Builds!NextRun(v1) \in Nat /\ v1 <= Builds!NextRun(v1) /\ Builds!NextRun(v1) <= v1 + Hours
      /\ \A d \in Nat : d * Hours + v10 < Builds!NextRun(v1) => d <= Builds!DayOf(v1)
  BY <1>1, NextRuns
<1>3. Builds!BuildTypeOK'
  BY <1>2 DEF Builds!IInv, Builds!BuildTypeOK, Builds!Builders, Builds!Results, Builds!Slots
<1>4. Builds!SlotsAreBuilt' /\ Builds!LookedAtIsBuilt' /\ Builds!FaultsAreNoted'
  BY DEF Builds!IInv, Builds!NothingIsSkipped, Builds!SlotsAreBuilt, Builds!LookedAtIsBuilt, Builds!FaultsAreNoted,
         Builds!Up, Builds!DayOf
<1>5. DOMAIN v12' = DOMAIN v12
  OBVIOUS
<1>6. Builds!DaysAreScanned'
  BY <1>5 DEF Builds!IInv, Builds!NothingIsSkipped, Builds!DaysAreScanned
<1>7. ASSUME NEW d \in DOMAIN v12, v11, d \notin v17, d * Hours + v10 < Builds!NextRun(v1)
      PROVE  v12'[d] # "none"
  <2>1. d \in Nat /\ d <= Builds!DayOf(v1) /\ Builds!DayOf(v1) \in Nat
    BY <1>1, <1>2, <1>7, DaysOfHours
  <2>2. CASE d = Builds!DayOf(v1)
    BY <1>7, <2>2
  <2>3. CASE d < Builds!DayOf(v1)
    <3>1. d * Hours + v10 < v1
      BY <1>1, <2>1, <2>3, ScanInItsDay
    <3>2. v12[d] # "none"
      BY <1>7, <3>1 DEF Builds!IInv, Builds!NothingIsSkipped, Builds!DaysAreScanned, Builds!Up
    <3> QED
      BY <3>2
  <2> QED
    BY <2>1, <2>2, <2>3
<1>8. Builds!SleepIsSound'
  BY <1>2, <1>5, <1>7 DEF Builds!SleepIsSound
<1> QED
  BY <1>3, <1>4, <1>6, <1>8 DEF Builds!IInv, Builds!NothingIsSkipped

\* Now lies in a day of the table.
LEMMA Today == ASSUME Builds!BuildTypeOK PROVE Builds!DayOf(v1) \in DOMAIN v12 /\ DOMAIN v12 = 0..Builds!DayOf(LastHour)
<1>1. v1 \in Nat /\ LastHour \in Nat /\ v1 <= LastHour
  BY BuildAssumption DEF Builds!BuildTypeOK, Builds!Slots
<1>2. Builds!DayOf(v1) \in Nat /\ Builds!DayOf(LastHour) \in Nat /\ Builds!DayOf(v1) <= Builds!DayOf(LastHour)
  BY <1>1, DaysOfHours, DaysGoUp
<1> QED
  BY <1>2 DEF Builds!BuildTypeOK

LEMMA ScanSteps ==
    ASSUME Builds!IInv, Builds!CatchesUp \/ Builds!Wakes \/ Builds!Scans
    PROVE  Builds!IInv'
<1> USE DEF Builds!watchVars
<1>1. /\ UNCHANGED <<v1, v2, v3, v4, v5, v6, v7, v8, v9, v10, v11, v16, v17>> /\ Builds!Up("scan")
      /\ v11 \in BOOLEAN /\ v12 \in [DOMAIN v12 -> {"none"} \cup Builds!Results]
  BY DEF Builds!CatchesUp, Builds!Wakes, Builds!Scans, Builds!IInv, Builds!BuildTypeOK
<1>2. CASE v13' = "scanning" /\ UNCHANGED <<v12, v14>>
  <2>1. Builds!BuildTypeOK'
    BY <1>1, <1>2 DEF Builds!IInv, Builds!BuildTypeOK, Builds!Builders, Builds!Results, Builds!Slots
  <2>2. Builds!NothingIsSkipped' /\ Builds!LookedAtIsBuilt' /\ Builds!FaultsAreNoted' /\ Builds!SleepIsSound'
    BY <1>1, <1>2 DEF Builds!IInv, Builds!NothingIsSkipped, Builds!SlotsAreBuilt, Builds!LookedAtIsBuilt,
        Builds!FaultsAreNoted, Builds!DaysAreScanned, Builds!SleepIsSound, Builds!Up, Builds!DayOf
  <2> QED
    BY <2>1, <2>2 DEF Builds!IInv
<1>3. CASE v13' = "asleep" /\ v14' = Builds!NextRun(v1) /\ UNCHANGED v12 /\ (~v11 \/ v12[Builds!DayOf(v1)] # "none")
  BY <1>1, <1>3, ScanSleeps
<1>4. CASE Builds!Scans
  <2>1. PICK r \in Builds!Results : v12' = [v12 EXCEPT ![Builds!DayOf(v1)] = r]
    BY <1>4 DEF Builds!Scans
  <2>2. r # "none" /\ Builds!DayOf(v1) \in DOMAIN v12
    BY <2>1, Today DEF Builds!Results, Builds!IInv
  <2>3. v12' \in [DOMAIN v12 -> {"none"} \cup Builds!Results]
    BY <1>1, <2>1
  <2>4. v12'[Builds!DayOf(v1)] # "none" /\ \A d \in DOMAIN v12 : v12[d] # "none" => v12'[d] # "none"
    BY <2>1, <2>2
  <2> QED
    BY <1>1, <1>4, <2>3, <2>4, ScanSleeps DEF Builds!Scans
<1> QED
  BY <1>1, <1>2, <1>3, <1>4 DEF Builds!CatchesUp, Builds!Wakes

\* The settings: the days up to tomorrow are not steady, and the sleep ends by then.
LEMMA ScanReset == ASSUME Builds!IInv, NEW h \in ScanHours, NEW e \in BOOLEAN, Builds!Resets(h, e) PROVE Builds!IInv'
<1> USE DEF Builds!watchVars
<1> DEFINE q == Builds!DayOf(v1)
<1>1. /\ UNCHANGED <<v1, v2, v3, v4, v5, v6, v7, v8, v9, v12, v13, v14, v16>>
      /\ v10' = h /\ v11' = e /\ v17' = 0..(q + 1) /\ Builds!Up("scan")
  BY DEF Builds!Resets
<1>2. v1 \in Nat /\ DOMAIN v12 \subseteq Nat /\ q \in Nat /\ v14 \in Nat
  BY DaysOfHours DEF Builds!IInv, Builds!BuildTypeOK, Builds!Slots
<1>3. Builds!BuildTypeOK'
  BY <1>1 DEF Builds!IInv, Builds!BuildTypeOK, Builds!Builders, Builds!Results, Builds!Slots
<1>4. Builds!SlotsAreBuilt' /\ Builds!LookedAtIsBuilt'
  BY <1>1 DEF Builds!IInv, Builds!NothingIsSkipped, Builds!SlotsAreBuilt, Builds!LookedAtIsBuilt, Builds!Up
<1>5. Builds!FaultsAreNoted'
  BY <1>1, <1>2 DEF Builds!IInv, Builds!FaultsAreNoted, Builds!DayOf, Builds!Up
<1>6. ASSUME NEW d \in DOMAIN v12, d \notin 0..(q + 1)
      PROVE  d \in Nat /\ d * Hours + h \in Nat /\ ~(d * Hours + h < v1 + Hours) /\ ~(d * Hours + h < v1)
  <2>1. d \in Nat /\ ~(d <= q + 1)
    BY <1>2, <1>6
  <2>2. d * Hours + h \in Nat /\ (d * Hours + h < v1 + Hours => d <= q + 1)
    BY <1>2, <2>1, ScanInItsDay
  <2>3. Hours \in Nat
    BY BuildAssumption
  <2> QED
    BY <1>2, <2>1, <2>2, <2>3
<1>7. Builds!DaysAreScanned'
  BY <1>1, <1>6 DEF Builds!DaysAreScanned
<1>8. Builds!SleepIsSound'
  <2>1. SUFFICES ASSUME v13 = "asleep"
        PROVE  /\ v1 <= v14 /\ v14 <= v1 + Hours
               /\ \A d \in DOMAIN v12 : d \notin 0..(q + 1) => ~(d * Hours + h < v14)
    BY <1>1 DEF Builds!SleepIsSound, Builds!Up
  <2>2. v1 <= v14 /\ v14 <= v1 + Hours
    BY <1>1, <2>1 DEF Builds!IInv, Builds!SleepIsSound
  <2>3. Hours \in Nat
    BY BuildAssumption
  <2> HIDE DEF q
  <2>4. ASSUME NEW d \in DOMAIN v12, d \notin 0..(q + 1), d * Hours + h < v14 PROVE FALSE
    <3>1. d * Hours + h \in Nat /\ ~(d * Hours + h < v1 + Hours)
      BY <1>6, <2>4
    <3> QED
      BY <1>2, <2>2, <2>3, <2>4, <3>1
  <2> QED
    BY <2>2, <2>4
<1> QED
  BY <1>3, <1>4, <1>5, <1>7, <1>8 DEF Builds!IInv, Builds!NothingIsSkipped

LEMMA BuildStops == ASSUME Builds!IInv, Builds!Stops \/ Builds!Boots PROVE Builds!IInv'
<1> USE DEF Builds!watchVars, Builds!scanVars
<1>1. /\ UNCHANGED <<v1, v3, v4, v5, v8, v10, v11, v12, v14>> /\ v2' \in BOOLEAN
      /\ \/ ~v2' /\ v16' = v16 \cup {v1} /\ v17' = v17 \cup {Builds!DayOf(v1)}
            /\ UNCHANGED <<v6, v7, v9, v13>>
         \/ /\ v2' /\ v7' = [b \in Builds!Builders |-> "idle"] /\ v9' = FALSE /\ v13' = "booting"
            /\ UNCHANGED <<v16, v17>>
  BY DEF Builds!Stops, Builds!Boots
<1>2. Builds!BuildTypeOK'
  BY <1>1 DEF Builds!IInv, Builds!BuildTypeOK, Builds!Builders, Builds!Results, Builds!Slots
<1>3. v1 \in Nat /\ Builds!DayOf(v1) \in Nat
  BY DaysOfHours DEF Builds!IInv, Builds!BuildTypeOK, Builds!Slots
<1>4. Builds!FaultsAreNoted'
  <2> DEFINE q == Builds!DayOf(v1)
  <2>1. q' = q
    BY <1>1 DEF Builds!DayOf
  <2>2. v16 \subseteq 0..v1 /\ v17 \subseteq 0..(q + 1) /\ q \in Nat
    BY <1>3 DEF Builds!IInv, Builds!FaultsAreNoted
  <2> HIDE DEF q
  <2>3. q \in 0..(q + 1) /\ v1 \in 0..v1
    BY <1>3, <2>2
  <2>4. v16' \subseteq 0..v1 /\ v17' \subseteq 0..(q + 1) /\ (~v2' => v1 \in v16' /\ q \in v17')
    BY <1>1, <2>2, <2>3 DEF q
  <2> QED
    BY <1>1, <2>1, <2>4 DEF Builds!FaultsAreNoted, q
<1>5. Builds!SlotsAreBuilt' /\ Builds!DaysAreScanned'
  BY <1>1 DEF Builds!IInv, Builds!NothingIsSkipped, Builds!SlotsAreBuilt, Builds!DaysAreScanned
<1>6. Builds!LookedAtIsBuilt' /\ Builds!SleepIsSound'
  BY <1>1 DEF Builds!LookedAtIsBuilt, Builds!SleepIsSound, Builds!Up
<1> QED
  BY <1>2, <1>4, <1>5, <1>6 DEF Builds!IInv, Builds!NothingIsSkipped

LEMMA BuildHours == ASSUME Builds!IInv, Builds!HourPasses PROVE Builds!IInv'
<1> USE DEF Builds!watchVars, Builds!scanVars
<1> DEFINE q == Builds!DayOf(v1) r == Builds!DayOf(v1 + 1)
<1>1. /\ v1 < LastHour /\ v1' = v1 + 1 /\ v9' = FALSE
      /\ UNCHANGED <<v2, v3, v4, v5, v6, v7, v8, v10, v11, v12, v13, v14>>
      /\ v16' = (IF v2 THEN v16 ELSE v16 \cup {v1 + 1}) /\ v17' = (IF v2 THEN v17 ELSE v17 \cup {r})
      /\ Builds!Up("list") => v9
      /\ Builds!Up("scan") => v13 = "asleep" /\ v1 < v14
  BY DEF Builds!HourPasses
<1>2. /\ v1 \in Nat /\ v1 + 1 \in Builds!Slots /\ q \in Nat /\ r \in Nat /\ q <= r /\ r <= q + 1
      /\ v2 \in BOOLEAN /\ v10 \in ScanHours /\ DOMAIN v12 \subseteq Nat
  <2>1. /\ v1 \in Nat /\ v1 + 1 \in Builds!Slots /\ v2 \in BOOLEAN /\ v10 \in ScanHours /\ DOMAIN v12 \subseteq Nat
    BY <1>1, BuildAssumption DEF Builds!IInv, Builds!BuildTypeOK, Builds!Slots
  <2>2. v1 + 1 \in Nat /\ v1 <= v1 + 1
    BY <2>1
  <2> QED
    BY <2>1, <2>2, DaysOfHours, DaysGoUp, DaysGoOn
<1>3. Builds!BuildTypeOK'
  BY <1>1, <1>2 DEF Builds!IInv, Builds!BuildTypeOK, Builds!Builders, Builds!Results
<1>4. Builds!FaultsAreNoted'
  <2>1. Builds!DayOf(v1') = r
    BY <1>1
  <2>2. v16 \subseteq 0..v1 /\ v17 \subseteq 0..(q + 1)
    BY DEF Builds!IInv, Builds!FaultsAreNoted
  <2> HIDE DEF q, r
  <2>3. v16' \subseteq 0..(v1 + 1) /\ v17' \subseteq 0..(r + 1)
    BY <1>1, <1>2, <2>2
  <2>4. ~v2 => v1 + 1 \in v16' /\ r \in v17'
    BY <1>1
  <2>5. Builds!DayOf(v1)' = r
    BY <2>1 DEF Builds!DayOf
  <2> QED
    BY <1>1, <2>3, <2>4, <2>5 DEF Builds!FaultsAreNoted
<1>5. Builds!SlotsAreBuilt'
  <2> SUFFICES ASSUME NEW n \in Builds!Slots, n < v1 + 1, n % Hours \in v4, n \notin v16', v3 = "list"
               PROVE  v5[n] # "none"
    BY <1>1 DEF Builds!SlotsAreBuilt
  <2>1. n \in Nat /\ n \notin v16 /\ (n < v1 \/ n = v1)
    BY <1>1, <1>2 DEF Builds!Slots
  <2>2. CASE n < v1
    BY <2>1, <2>2 DEF Builds!IInv, Builds!NothingIsSkipped, Builds!SlotsAreBuilt
  <2>3. CASE n = v1
    BY <1>1, <2>1, <2>3 DEF Builds!IInv, Builds!FaultsAreNoted, Builds!LookedAtIsBuilt, Builds!Up
  <2> QED
    BY <2>1, <2>2, <2>3
<1>6. Builds!LookedAtIsBuilt'
  BY <1>1 DEF Builds!LookedAtIsBuilt
<1>7. Builds!DaysAreScanned'
  <2> SUFFICES ASSUME NEW d \in DOMAIN v12, v11, d \notin v17', v3 = "scan", d * Hours + v10 < v1 + 1
               PROVE  v12[d] # "none"
    BY <1>1 DEF Builds!DaysAreScanned
  <2>1. d \in Nat /\ d \notin v17
    BY <1>1, <1>2
  <2>2. d * Hours + v10 \in Nat /\ (d * Hours + v10 = v1 => d = q)
    BY <1>2, <2>1, ScanInItsDay
  <2>3. CASE d * Hours + v10 < v1
    BY <2>1, <2>3 DEF Builds!IInv, Builds!NothingIsSkipped, Builds!DaysAreScanned
  <2>4. CASE d * Hours + v10 = v1
    <3>1. v2
      BY <2>1, <2>2, <2>4 DEF Builds!IInv, Builds!FaultsAreNoted
    <3>2. v13 = "asleep" /\ v1 < v14 /\ Builds!Up("scan")
      BY <1>1, <3>1 DEF Builds!Up
    <3> QED
      BY <2>1, <2>4, <3>2 DEF Builds!IInv, Builds!SleepIsSound
  <2> QED
    BY <1>2, <2>2, <2>3, <2>4
<1>8. Builds!SleepIsSound'
  <2>1. SUFFICES ASSUME v2, v3 = "scan"
        PROVE  /\ v1 + 1 <= v14 /\ v14 <= v1 + 1 + Hours
               /\ \A d \in DOMAIN v12 : v11 /\ d \notin v17 /\ d * Hours + v10 < v14 => v12[d] # "none"
    BY <1>1 DEF Builds!SleepIsSound, Builds!Up
  <2>2. v1 < v14 /\ v14 <= v1 + Hours /\ v14 \in Nat
        /\ \A d \in DOMAIN v12 : v11 /\ d \notin v17 /\ d * Hours + v10 < v14 => v12[d] # "none"
    BY <1>1, <2>1 DEF Builds!IInv, Builds!SleepIsSound, Builds!Up, Builds!BuildTypeOK
  <2>3. Hours \in Nat
    BY BuildAssumption
  <2>4. v1 + 1 <= v14 /\ v14 <= v1 + 1 + Hours
    BY <1>2, <2>2, <2>3
  <2> QED
    BY <2>2, <2>4
<1> QED
  BY <1>3, <1>4, <1>5, <1>6, <1>7, <1>8 DEF Builds!IInv, Builds!NothingIsSkipped

LEMMA BuildInitially == Builds!Init => Builds!IInv
<1> SUFFICES ASSUME Builds!Init PROVE Builds!IInv
  OBVIOUS
<1> USE DEF Builds!Init
<1>1. Builds!DayOf(0) \in Nat /\ Builds!DayOf(0) * Hours <= 0 /\ Builds!DayOf(LastHour) \in Nat /\ LastHour \in Nat
  BY BuildAssumption, DaysOfHours
<1>2. Builds!DayOf(0) = 0
  <2>1. ~(0 < Builds!DayOf(0))
    <3>1. SUFFICES ASSUME 0 < Builds!DayOf(0) PROVE FALSE
      OBVIOUS
    <3>2. (0 + 1) * Hours <= Builds!DayOf(0) * Hours /\ Builds!DayOf(0) * Hours \in Nat
      BY <1>1, <3>1, Products
    <3> QED
      BY <1>1, <3>2, BuildAssumption
  <2> QED
    BY <1>1, <2>1
<1>3. Builds!BuildTypeOK
  <2>1. v1 \in Builds!Slots /\ v8 \in [Builds!Builders -> Builds!Slots]
    <3>1. 0 \in Builds!Slots
      BY <1>1 DEF Builds!Slots
    <3> QED
      BY <3>1
  <2>2. v5 \in [Builds!Slots -> {"none"} \cup Builds!Results] /\ v7 \in [Builds!Builders -> {"idle", "due", "building"} \cup Builds!Results]
    OBVIOUS
  <2>3. v12 \in [0..Builds!DayOf(LastHour) -> {"none"} \cup Builds!Results]
    OBVIOUS
  <2> QED
    BY <2>1, <2>2, <2>3 DEF Builds!BuildTypeOK
<1>4. Builds!SlotsAreBuilt
  BY <1>1 DEF Builds!SlotsAreBuilt, Builds!Slots
<1>5. Builds!DaysAreScanned
  <2>1. ASSUME NEW d \in 0..Builds!DayOf(LastHour) PROVE d * Hours + v10 \in Nat
    <3>1. d \in Nat /\ v10 \in ScanHours
      BY <1>1
    <3> QED
      BY <3>1, ScanInItsDay
  <2>2. \A d \in DOMAIN v12 : ~(d * Hours + v10 < v1)
    BY <2>1
  <2> QED
    BY <2>2 DEF Builds!DaysAreScanned
<1>6. Builds!FaultsAreNoted
  BY <1>2 DEF Builds!FaultsAreNoted
<1>7. Builds!LookedAtIsBuilt /\ Builds!SleepIsSound
  BY DEF Builds!LookedAtIsBuilt, Builds!SleepIsSound, Builds!Up
<1> QED
  BY <1>3, <1>4, <1>5, <1>6, <1>7 DEF Builds!IInv, Builds!NothingIsSkipped

LEMMA BuildInductive == Builds!IInv /\ (Builds!Next \/ UNCHANGED Builds!bvars) => Builds!IInv'
<1> SUFFICES ASSUME Builds!IInv, Builds!Next \/ UNCHANGED Builds!bvars PROVE Builds!IInv'
  OBVIOUS
<1>1. CASE UNCHANGED Builds!bvars
  <2> USE <1>1 DEF Builds!bvars
  <2>1. Builds!BuildTypeOK'
    BY DEF Builds!IInv, Builds!BuildTypeOK
  <2>2. Builds!NothingIsSkipped' /\ Builds!FaultsAreNoted' /\ Builds!LookedAtIsBuilt' /\ Builds!SleepIsSound'
    BY DEF Builds!IInv, Builds!NothingIsSkipped, Builds!SlotsAreBuilt, Builds!DaysAreScanned, Builds!FaultsAreNoted,
           Builds!LookedAtIsBuilt, Builds!SleepIsSound, Builds!Up, Builds!DayOf
  <2> QED
    BY <2>1, <2>2 DEF Builds!IInv
<1>2. CASE Builds!Next
  BY <1>2, LoopLooked, ListSteps, Rescheduled, ScanSteps, ScanReset, BuildStops, BuildHours
     DEF Builds!Next, Builds!Builders
<1> QED
  BY <1>1, <1>2

-----------------------------------------------------------------------------
(* The theorems. *)

\* The installed modules keep up with what comes in from outside: the bot answers a message
\* once, and once more for each poll that could not read the cursor, charges for its answers
\* and loses none behind another; what a feed shows is kept, soon and for good; a login
\* outlives its tokens, and an order is placed once unless its answer was lost.  For any
\* messages, sources, calendars and logins, any number of threads and of failures
\* (modules/telegram/backend/module.py:419-620, modules/economic-calendar/backend/econ.py:82-118
\* and 370-504, modules/news/backend/news.py:105-266 and 460-492,
\* modules/tradelocker/backend/tradelocker/api.py:152-231).
THEOREM InstalledPartsKeepUp == ModulesSpec => []InstalledKeepUp
<1> DEFINE Holds ==
      /\ machine = "bot" => Bot!IInv
      /\ machine = "calendar" => Calendar!IInv
      /\ machine = "news" => News!IInv
      /\ machine = "session" => Session!IInv
<1>1. ModulesInit => Holds
  BY BotInitially, CalendarInitially, NewsInitially, SessionInitially DEF ModulesInit
<1>2. Holds /\ [ModulesNext]_vars => Holds'
  <2> SUFFICES ASSUME Holds, [ModulesNext]_vars PROVE Holds'
    OBVIOUS
  <2>1. machine' = machine
    BY MachineStays
  <2>2. machine = "bot" => Bot!Next \/ UNCHANGED Bot!botVars
    BY DEF ModulesNext, vars, Bot!botVars
  <2>3. machine = "calendar" => Calendar!Next \/ UNCHANGED Calendar!feedVars
    BY DEF ModulesNext, vars, Calendar!feedVars
  <2>4. machine = "news" => News!Next \/ UNCHANGED News!newsVars
    BY DEF ModulesNext, vars, News!newsVars
  <2>5. machine = "session" => Session!Next \/ UNCHANGED Session!sessionVars
    BY DEF ModulesNext, vars, Session!sessionVars
  <2>6. machine = "bot" => Bot!IInv'
    BY <2>2, BotInductive
  <2>7. machine = "calendar" => Calendar!IInv'
    BY <2>3, CalendarInductive
  <2>8. machine = "news" => News!IInv'
    BY <2>4, NewsInductive
  <2>9. machine = "session" => Session!IInv'
    BY <2>5, SessionInductive
  <2> QED
    BY <2>1, <2>6, <2>7, <2>8, <2>9
<1>3. Holds => InstalledKeepUp
  BY DEF InstalledKeepUp, Bot!IInv, Calendar!IInv, News!IInv, Session!IInv
<1> QED
  BY <1>1, <1>2, <1>3, PTL DEF ModulesSpec

\* No scheduled hour goes by without its watch list and no day without its scan, while the
\* server is up and its settings are left alone, for any length of the day, any schedule
\* and scan hour and any number of restarts (watchlist.py:828-841 and 487-490,
\* daily_scan.py:526-566).
THEOREM BuildsAreNotSkipped == ModulesSpec => []NothingIsSkipped
<1> DEFINE Holds == machine = "builds" => Builds!IInv
<1>1. ModulesInit => Holds
  BY BuildInitially DEF ModulesInit
<1>2. Holds /\ [ModulesNext]_vars => Holds'
  <2> SUFFICES ASSUME Holds, [ModulesNext]_vars, machine' = "builds" PROVE Builds!IInv'
    OBVIOUS
  <2>1. machine = "builds" /\ Builds!IInv
    BY MachineStays
  <2>2. Builds!Next \/ UNCHANGED Builds!bvars
    BY <2>1 DEF ModulesNext, vars, Builds!bvars
  <2> QED
    BY <2>1, <2>2, BuildInductive
<1>3. Holds => NothingIsSkipped
  BY DEF NothingIsSkipped, Builds!IInv
<1> QED
  BY <1>1, <1>2, <1>3, PTL DEF ModulesSpec

\* A module whose row is off does not serve once the requests at it are over, and one that
\* is installed is whole on disk until a second fault; the store shows and gives what is
\* owned, claims prove who asked and no update goes back; and what a module contributed, by
\* loads over one another too, is taken away again exactly; for every number of modules,
\* requests and contributions, however starts, installs, copies, loads, the starts of
\* dependents and failures overlap (modules.py:171-252 and 306-417, module_installer.py:147-241, catalog.py:71-285 and
\* 359-519, auto_update.py:127-206, store_api.py:133-202, registry.py:46-153 and 454-497).
THEOREM ModulesStayWhole == ModulesSpec => []ModulesHold
<1> DEFINE Holds == /\ machine = "modules" => Modules!IInv
                    /\ machine = "store" => Store!IInv
                    /\ machine = "registry" => Contributions!IInv
<1>1. ModulesInit => Holds
  BY LifeInitially, StoreInitially, GiftInitially DEF ModulesInit
<1>2. Holds /\ [ModulesNext]_vars => Holds'
  <2> SUFFICES ASSUME Holds, [ModulesNext]_vars PROVE Holds'
    OBVIOUS
  <2>1. machine' = machine
    BY MachineStays
  <2>2. machine = "modules" => Modules!Next \/ UNCHANGED Modules!mvars
    BY DEF ModulesNext, vars, Modules!mvars
  <2>3. machine = "store" => Store!Next \/ UNCHANGED Store!storeVars
    BY DEF ModulesNext, vars, Store!storeVars
  <2>4. machine = "registry" => Contributions!Next \/ UNCHANGED Contributions!registryVars
    BY DEF ModulesNext, vars, Contributions!registryVars
  <2>5. machine = "modules" => Modules!IInv'
    BY <2>2, LifeInductive
  <2>6. machine = "store" => Store!IInv'
    BY <2>3, StoreInductive
  <2>7. machine = "registry" => Contributions!IInv'
    BY <2>4, GiftInductive
  <2> QED
    BY <2>1, <2>5, <2>6, <2>7
<1>3. Holds => ModulesHold
  BY LifeHolds DEF ModulesHold, Store!IInv, Contributions!IInv
<1> QED
  BY <1>1, <1>2, <1>3, PTL DEF ModulesSpec
==============================================================================
