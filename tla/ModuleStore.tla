----------------------------- MODULE ModuleStore -----------------------------
(***************************************************************************)
(* The buying side of the module store, on a self-hosted instance: what it *)
(* knows of the seller's catalogue, the free modules it is given at a      *)
(* start, the purchases it claims, and the updates it takes by itself      *)
(* (backend/catalog.py, auto_update.py, modules_api.py).                   *)
(*                                                                         *)
(* The seller (store_api.py, another machine) lists builds, delivers what  *)
(* a key covers, and hands a key to the host that publishes the challenge  *)
(* of its claim; how licences come to be is Licences'.  A request may fail *)
(* to reach it at any call.                                                *)
(***************************************************************************)
EXTENDS Naturals, Sequences

CONSTANTS
    FreeModules, PaidModules,   \* modules at no price, modules the licence opens
    Procs,          \* page visits and loops at once
    Starts          \* what may be installed by hand before, and what a behaviour may have
                    \* of: crashes, removals, builds, visits, collects, rounds, sales

VARIABLES
    dir,            \* module -> installed version, 0: none
    seeded,         \* admin_settings.seeded_modules
    key,            \* admin_settings.store_licence_enc is set
    cache,          \* _cache
    challenge,      \* _challenge: the claim it proves, or Nobody
    boot,           \* install_free, before the app serves
    seller,         \* builds offered, what a purchase is bound to, whether it lapsed
    proc,           \* visit or loop -> where it is
    past,           \* histories
    left            \* what is left of the bounds

storeVars == <<dir, seeded, key, cache, challenge, boot, seller, proc, past, left>>

Catalogue == FreeModules \cup PaidModules
Nobody == "nobody"
NoRows == [keyed |-> FALSE, build |-> [m \in Catalogue |-> 0], owned |-> {}, lapsed |-> FALSE]
Cold == [full |-> FALSE, fresh |-> FALSE, rows |-> NoRows]
Idle == [at |-> "idle", kind |-> "none", names |-> <<>>, proved |-> FALSE, keyed |-> FALSE,
         looks |-> <<>>, took |-> FALSE, todo |-> {}, mod |-> Nobody, zip |-> 0]

\* The names a request claims by: the instance's id and, from the page, the host.
NamesOf(kind) == IF kind = "visit" THEN <<"id", "host">> ELSE <<"id">>

\* How it goes on once it has claimed, or could not: what it looks for, in order.
LooksOf(kind, applied) ==
    CASE kind = "visit" -> <<"owned", "page">>
      [] kind = "collect" -> IF applied THEN <<"owned">> ELSE <<>>
      [] kind = "update" -> IF applied THEN <<"owned", "owned", "newer">> ELSE <<"owned", "newer">>

Newest(m) == seller.build[m]
Owned(keyed) == FreeModules \cup (IF keyed /\ seller.sold # "no" THEN PaidModules ELSE {})

\* store_download: a build of what the key opens.  Whether the year is up is not asked.
Served(m) == m \in Owned(key) /\ Newest(m) > 0

Listing(keyed) ==
    [keyed |-> keyed, build |-> seller.build, owned |-> Owned(keyed), lapsed |-> keyed /\ seller.lapsed]

Goes(p, rec) == proc' = [proc EXCEPT ![p] = rec]
At(p, stage) == [proc[p] EXCEPT !.at = stage]
Spend(what) == left[what] > 0 /\ left' = [left EXCEPT ![what] = @ - 1]
Up == boot.at = "up"

------------------------------------------------------------------------------
(* install_free: at a start, before anything is loaded. *)

\* What remote() keeps of an answer: a failure keeps the rows there are.
Kept(rows) == [full |-> TRUE, fresh |-> TRUE, rows |-> rows]

\* The catalogue, and the free modules of it not recorded yet.
SeedLooks ==
    /\ boot.at = "down"
    /\ \/ /\ cache' = Kept(Listing(key))
          /\ boot' = [at |-> "seed", todo |-> FreeModules \ seeded, added |-> {}]
       \/ /\ boot' = [boot EXCEPT !.at = "up"] /\ UNCHANGED cache
    /\ UNCHANGED <<dir, seeded, key, challenge, seller, proc, past, left>>

\* One module: present already, without a build, installed, or failed.
SeedTakes(m) ==
    /\ boot.at = "seed" /\ m \in boot.todo
    /\ \/ /\ dir[m] > 0
          /\ boot' = [boot EXCEPT !.todo = @ \ {m}, !.added = @ \cup {m}]
          /\ UNCHANGED <<dir, past>>
       \/ /\ dir[m] = 0 /\ Newest(m) > 0
          /\ dir' = [dir EXCEPT ![m] = Newest(m)]
          /\ boot' = [boot EXCEPT !.todo = @ \ {m}, !.added = @ \cup {m}]
          /\ past' = [past EXCEPT !.given = @ \cup {m},
                                  !.again = IF m \in past.given THEN @ \cup {m} ELSE @]
       \/ /\ dir[m] = 0
          /\ boot' = [boot EXCEPT !.todo = @ \ {m}]
          /\ UNCHANGED <<dir, past>>
    /\ UNCHANGED <<seeded, key, cache, challenge, seller, proc, left>>

\* Mutant of Recorded: what this start added is the record.
RecordedAlone(added) == added

\* _mark_seeded.
Recorded(added) == seeded \cup added

SeedMarks ==
    /\ boot.at = "seed" /\ boot.todo = {}
    /\ boot' = [boot EXCEPT !.at = "up", !.added = {}]
    /\ seeded' = IF boot.added = {} THEN seeded ELSE Recorded(boot.added)
    /\ UNCHANGED <<dir, key, cache, challenge, seller, proc, past, left>>

\* The process dies; what it held in memory goes with it.
Restart(unrecorded) ==
    /\ boot' = [at |-> "down", todo |-> {}, added |-> {}]
    /\ proc' = [p \in Procs |-> Idle]
    /\ cache' = Cold /\ challenge' = Nobody
    /\ past' = [past EXCEPT !.unrecorded = @ \cup unrecorded, !.overlapped = {}, !.crossed = FALSE]
Crash ==
    /\ Spend("crash")
    /\ Restart(boot.added)
    /\ UNCHANGED <<dir, seeded, key, seller>>

------------------------------------------------------------------------------
(* claim: a name is proved by publishing the challenge the seller issued.   *)

Claiming(p) == proc[p].at \in {"prove", "collect"}

Begins(p, kind) ==
    /\ Up /\ proc[p].at = "idle"
    /\ Spend(kind)
    /\ Goes(p, [Idle EXCEPT !.at = "claim", !.kind = kind, !.names = NamesOf(kind)])
    /\ UNCHANGED <<dir, seeded, key, cache, challenge, boot, seller, past>>

\* What a claim is followed by: one that did not apply, by the next name.
After(p, applied) ==
    [proc[p] EXCEPT !.at = "look", !.looks = LooksOf(proc[p].kind, applied)]
Unapplied(p) ==
    IF Len(proc[p].names) = 2 THEN [proc[p] EXCEPT !.at = "claim", !.names = Tail(@)] ELSE After(p, FALSE)

\* Mutant of Blanked: the proof is only blanked when it was accepted.
BlankedIfProved(p) == IF proc[p].proved THEN Nobody ELSE challenge

\* The proof is spent either way - whosever it is by now.
Blanked(p) == Nobody

\* store_claim_start: only a host gets a challenge.  For an id presenting it is the
\* proof, but an instance that is given no challenge gives up: no claim by it applies.
Issued(p) == Head(proc[p].names) = "host"

\* The call may also fail, or the host be one the seller cannot reach.
ClaimStarts(p) ==
    /\ proc[p].at = "claim"
    /\ \/ Issued(p) /\ challenge' = p /\ Goes(p, At(p, "prove"))
       \/ challenge' = Blanked(p) /\ Goes(p, Unapplied(p))
    /\ past' = [past EXCEPT !.overlapped =
                  (@ \ {p}) \cup (LET others == {q \in Procs \ {p} : Claiming(q)}
                                IN  IF others = {} THEN {} ELSE others \cup {p})]
    /\ UNCHANGED <<dir, seeded, key, cache, boot, seller, left>>

\* store_claim_finish: the seller reads here the challenge it issued, and then hands
\* out the key of the licence bound to the name, if there is one.
Proved(p) == challenge = p
Handed(p) == Proved(p) /\ seller.sold = Head(proc[p].names)

ClaimIsChecked(p) ==
    /\ proc[p].at = "prove"
    /\ \/ Goes(p, [proc[p] EXCEPT !.at = "collect", !.proved = Proved(p), !.keyed = Handed(p)])
          /\ past' = [past EXCEPT !.refused = @ \/ (~Proved(p) /\ p \notin past.overlapped)]
       \/ Goes(p, [proc[p] EXCEPT !.at = "collect", !.proved = FALSE, !.keyed = FALSE]) /\ UNCHANGED past
    /\ UNCHANGED <<dir, seeded, key, cache, challenge, boot, seller, left>>

\* Mutant of Emptied: a new key leaves the catalogue as it was fetched.
EmptiedNever == cache

\* set_licence_key: the entitlements just changed.
Emptied == Cold

Stored ==
    /\ key' = TRUE
    /\ cache' = Emptied
    /\ past' = [past EXCEPT !.crossed = \E q \in Procs : proc[q].at = "answer"]

\* A key that is new is stored and the catalogue forgotten.
ClaimCollects(p) ==
    /\ proc[p].at = "collect"
    /\ challenge' = Blanked(p)
    /\ IF proc[p].keyed /\ ~key
       THEN Stored /\ Goes(p, After(p, TRUE))
       ELSE /\ Goes(p, Unapplied(p))
            /\ UNCHANGED <<key, cache, past>>
    /\ UNCHANGED <<dir, seeded, boot, seller, left>>

\* set_licence: the key that came by mail, entered by hand.
Enters ==
    /\ Up /\ ~key /\ seller.sold # "no"
    /\ Stored
    /\ UNCHANGED <<dir, seeded, challenge, boot, seller, proc, left>>

------------------------------------------------------------------------------
(* remote and view, install_owned and run_once. *)

\* The next look.  The key is read, then the seller asked - but for the page, if
\* what there is is not old.
Looks(p) ==
    /\ proc[p].at = "look"
    /\ IF proc[p].looks \in {<<>>} \cup (IF cache.full /\ cache.fresh THEN {<<"page">>} ELSE {})
       THEN Goes(p, Idle)
       ELSE Goes(p, [proc[p] EXCEPT !.at = "answer", !.keyed = key])
    /\ UNCHANGED <<dir, seeded, key, cache, challenge, boot, seller, past, left>>

\* Mutant of Newer: any other version is offered.
NewerIfOther(theirs, mine) == theirs # mine /\ theirs > 0

\* versions.newer: strictly.
Newer(theirs, mine) == theirs > mine

\* _update_gate: of what is offered, the free, and the owned while the year is not up.
MayUpdate(rows, m) == m \in FreeModules \/ (m \in rows.owned /\ ~rows.lapsed)

\* install_owned takes what is owned, deliverable and absent; run_once then what is newer.
Wanted(rows, look) ==
    CASE look = "owned" -> {m \in rows.owned : dir[m] = 0 /\ rows.build[m] > 0}
      [] look = "newer" -> {m \in Catalogue : dir[m] > 0 /\ Newer(rows.build[m], dir[m]) /\ MayUpdate(rows, m)}
      [] look = "page" -> {}

Reads(p, rows) == Goes(p, [proc[p] EXCEPT !.at = "work", !.todo = Wanted(rows, Head(proc[p].looks))])

\* A failure keeps what was fetched before, for another five minutes; with nothing
\* fetched the next caller asks again.
Answered(p) ==
    /\ proc[p].at = "answer"
    /\ \/ cache' = Kept(Listing(proc[p].keyed)) /\ Reads(p, Listing(proc[p].keyed))
       \/ cache' = [cache EXCEPT !.fresh = cache.full] /\ Reads(p, cache.rows)
    /\ UNCHANGED <<dir, seeded, key, challenge, boot, seller, past, left>>

\* download: what the key stored by now opens, whatever the listing said.
Downloads(p, m) ==
    /\ proc[p].at = "work" /\ m \in proc[p].todo
    /\ \/ /\ Served(m)
          /\ Goes(p, [proc[p] EXCEPT !.at = "unpack", !.todo = @ \ {m}, !.mod = m, !.zip = Newest(m)])
       \/ Goes(p, [proc[p] EXCEPT !.todo = @ \ {m}])
    /\ UNCHANGED <<dir, seeded, key, cache, challenge, boot, seller, past, left>>

Forced(p) == Head(proc[p].looks) = "newer"

\* Whoever else is unpacking the module is beaten to it.
Beaten(p, m) ==
    (past.beaten \ {<<p, m>>}) \cup
    {<<q, m>> : q \in {q \in Procs \ {p} : proc[q].at = "unpack" /\ proc[q].mod = m}}

\* install: a module that is there is only replaced by an update.
Installs(p, m) ==
    /\ proc[p].at = "unpack" /\ proc[p].mod = m
    /\ \/ /\ Forced(p) \/ dir[m] = 0
          /\ dir' = [dir EXCEPT ![m] = proc[p].zip]
          /\ past' = [past EXCEPT !.beaten = Beaten(p, m),
                         !.back = @ \/ (proc[p].zip < dir[m] /\ <<p, m>> \notin past.beaten)]
          /\ Goes(p, [At(p, "work") EXCEPT !.mod = Nobody, !.zip = 0, !.took = @ \/ Forced(p)])
       \/ /\ ~Forced(p) /\ dir[m] > 0
          /\ Goes(p, [At(p, "work") EXCEPT !.mod = Nobody, !.zip = 0])
          /\ UNCHANGED <<dir, past>>
    /\ UNCHANGED <<seeded, key, cache, challenge, boot, seller, left>>

\* A look is done with.
Ends(p) ==
    /\ proc[p].at = "work" /\ proc[p].todo = {}
    /\ Goes(p, [At(p, "look") EXCEPT !.looks = Tail(@)])
    /\ UNCHANGED <<dir, seeded, key, cache, challenge, boot, seller, past, left>>

\* apply_when_idle: a round that took something restarts the app between requests.
Applies(p) ==
    /\ proc[p].at = "look" /\ proc[p].looks = <<>> /\ proc[p].took
    /\ \A q \in Procs : proc[q].kind # "visit"
    /\ Restart({})
    /\ UNCHANGED <<dir, seeded, key, seller, left>>

------------------------------------------------------------------------------
(* The owner, the seller and time. *)

Removes(m) ==
    /\ Up /\ dir[m] > 0 /\ Spend("removal")
    /\ dir' = [dir EXCEPT ![m] = 0]
    /\ UNCHANGED <<seeded, key, cache, challenge, boot, seller, proc, past>>

\* install_remote, by hand.
TakesBack(m) ==
    /\ Up /\ dir[m] = 0 /\ Served(m)
    /\ dir' = [dir EXCEPT ![m] = Newest(m)]
    /\ past' = [past EXCEPT !.beaten = Beaten(Nobody, m)]
    /\ UNCHANGED <<seeded, key, cache, challenge, boot, seller, proc, left>>

Publishes(m) ==
    /\ Spend("build")
    /\ seller' = [seller EXCEPT !.build[m] = @ + 1]
    /\ UNCHANGED <<dir, seeded, key, cache, challenge, boot, proc, past>>
\* Licences bought before there were ids are bound to a host.
Sells(to) ==
    /\ seller.sold = "no" /\ left.sale > 0
    /\ seller' = [seller EXCEPT !.sold = to]
    /\ UNCHANGED <<dir, seeded, key, cache, challenge, boot, proc, past, left>>
Lapses ==
    /\ seller.sold # "no" /\ ~seller.lapsed /\ left.sale > 1
    /\ seller' = [seller EXCEPT !.lapsed = TRUE]
    /\ UNCHANGED <<dir, seeded, key, cache, challenge, boot, proc, past, left>>

\* CACHE_TTL_S goes by.
Ages ==
    /\ cache.fresh /\ cache' = [cache EXCEPT !.fresh = FALSE]
    /\ UNCHANGED <<dir, seeded, key, challenge, boot, seller, proc, past, left>>

Init ==
    /\ \E s \in Starts : dir = s.dir /\ left = s.left
    /\ seeded = {} /\ key = FALSE /\ cache = Cold /\ challenge = Nobody
    /\ boot = [at |-> "down", todo |-> {}, added |-> {}]
    /\ seller = [build |-> [m \in Catalogue |-> 1], sold |-> "no", lapsed |-> FALSE]
    /\ proc = [p \in Procs |-> Idle]
    /\ past = [given |-> {}, again |-> {}, unrecorded |-> {}, overlapped |-> {}, refused |-> FALSE,
               crossed |-> FALSE, back |-> FALSE, beaten |-> {}]

Next ==
    \/ SeedLooks \/ SeedMarks \/ Crash \/ Enters \/ Lapses \/ Ages
    \/ \E to \in {"id", "host"} : Sells(to)
    \/ \E m \in Catalogue : SeedTakes(m) \/ Removes(m) \/ TakesBack(m) \/ Publishes(m)
    \/ \E p \in Procs :
        \/ \E kind \in {"visit", "collect", "update"} : Begins(p, kind)
        \/ ClaimStarts(p) \/ ClaimIsChecked(p) \/ ClaimCollects(p)
        \/ Looks(p) \/ Answered(p) \/ Ends(p) \/ Applies(p)
        \/ \E m \in Catalogue : Downloads(p, m) \/ Installs(p, m)

Spec == Init /\ [][Next]_storeVars

------------------------------------------------------------------------------
Rows == [keyed : BOOLEAN, build : [Catalogue -> Nat], owned : SUBSET Catalogue, lapsed : BOOLEAN]
Requests ==
    [at : {"idle", "claim", "prove", "collect", "look", "answer", "work", "unpack"},
     kind : {"none", "visit", "collect", "update"}, names : Seq({"id", "host"}), proved : BOOLEAN,
     keyed : BOOLEAN, looks : Seq({"owned", "newer", "page"}), took : BOOLEAN,
     todo : SUBSET Catalogue, mod : Catalogue \cup {Nobody}, zip : Nat]

StoreTypeOK ==
    /\ dir \in [Catalogue -> Nat] /\ seeded \subseteq FreeModules /\ key \in BOOLEAN
    /\ cache \in [full : BOOLEAN, fresh : BOOLEAN, rows : Rows]
    /\ challenge \in Procs \cup {Nobody}
    /\ boot \in [at : {"down", "seed", "up"}, todo : SUBSET FreeModules, added : SUBSET FreeModules]
    /\ seller \in [build : [Catalogue -> Nat], sold : {"no", "id", "host"}, lapsed : BOOLEAN]
    /\ proc \in [Procs -> Requests]
    /\ \A p \in Procs :
        /\ proc[p].at # "idle" => proc[p].kind # "none"
        /\ proc[p].at \in {"answer", "work", "unpack"} => proc[p].looks # <<>>
    /\ past \in [given : SUBSET FreeModules, again : SUBSET FreeModules, unrecorded : SUBSET FreeModules,
                 overlapped : SUBSET Procs, refused : BOOLEAN, crossed : BOOLEAN, back : BOOLEAN,
                 beaten : SUBSET (Procs \X Catalogue)]

\* "Seeded ONCE each" (catalog.py:90): a start gives a free module again only if the
\* start that gave it before ended without recording it.
SeededOnce == past.again \subseteq past.unrecorded

\* "There is no standing secret here" (catalog.py:191): what is published belongs to a
\* claim under way, and the seller finds a claim's own challenge there, unless another
\* claim of this instance - the loop's, by the id - published or blanked it meanwhile.
ClaimsProve == (challenge # Nobody => Claiming(challenge)) /\ ~past.refused

\* The catalogue shown is one fetched with the key there is (catalog.py:79), unless it
\* was on its way while the key was stored.
ShownAsOwned == cache.full /\ ~past.crossed => cache.rows.keyed = key

\* No update takes a module back to an older version (catalog.py:374-376), unless two
\* installs of it overlapped.
NothingGoesBack == ~past.back

StoreIsHonest == StoreTypeOK /\ SeededOnce /\ ClaimsProve /\ ShownAsOwned /\ NothingGoesBack

\* The same and what it rests on, inductive.  What a start gave it records or
\* leaves unrecorded, and it runs alone; claims under way at once know of each
\* other, and one by itself has its challenge published; a listing asked for
\* went out with the key there is; what is to be replaced is no newer than what
\* the seller has, nor, unless somebody got there first, than what was fetched.
SeedingHolds ==
    /\ boot.at # "seed" => boot.added = {}
    /\ boot.at # "up" => \A p \in Procs : proc[p].at = "idle"
    /\ boot.todo \cap (seeded \cup boot.added) = {}
    /\ past.given \subseteq seeded \cup boot.added \cup past.unrecorded

ClaimsKnow ==
    /\ \A p \in Procs : proc[p].at = "prove" /\ p \notin past.overlapped => challenge = p
    /\ \A p, q \in Procs : p # q /\ Claiming(p) /\ Claiming(q) => p \in past.overlapped

UpdatesAdvance ==
    /\ \A m \in Catalogue : cache.rows.build[m] <= Newest(m)
    /\ \A p \in Procs, m \in Catalogue :
        /\ proc[p].at \in {"work", "unpack"} /\ Forced(p) /\ m \in proc[p].todo => dir[m] <= Newest(m)
        /\ proc[p].at = "unpack" /\ proc[p].mod = m =>
              /\ proc[p].zip <= Newest(m)
              /\ Forced(p) /\ <<p, m>> \notin past.beaten => dir[m] <= proc[p].zip

IInv ==
    /\ StoreIsHonest /\ SeedingHolds /\ ClaimsKnow /\ UpdatesAdvance
    /\ \A p \in Procs : proc[p].at = "answer" /\ ~past.crossed => proc[p].keyed = key
==============================================================================
