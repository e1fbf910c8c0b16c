----------------------------- MODULE ModelKeys -----------------------------
(***************************************************************************)
(* Whose key a model call goes out on, which models are offered, and what  *)
(* the call is charged at (backend/ai_keys.py, connections.py,             *)
(* billing.charge_cost, analysis_agent._model_for).                        *)
(*                                                                         *)
(* One user's keys and one run.  A key is known by where it is kept: the   *)
(* connection's number, or a negative one for the columns, Legacy for the  *)
(* user's old one and House for the operator's.  What a run is charged at  *)
(* is a percentage of its cost.                                            *)
(***************************************************************************)
EXTENDS Integers, FiniteSetsExt, Functions

CONSTANTS
    Providers,
    Columned,      \* providers with a column on ai_settings and admin_settings
    ModelsOf,      \* provider -> the models it may list
    Connections,   \* 1 .. n, in order of creation
    TierModels,    \* what the branded tier may be pointed at, as <<provider, model>>
    DefaultTier,   \* its built-in mapping
    Markups,
    Selections,       \* lists of models a user may pick, each model -> its place in the list
    Bounds         \* records of: edits, runs, listings

VARIABLES
    edition,
    conns,         \* connection -> NoConn or its row
    columns,       \* [legacy, house]: the providers whose column holds a key
    tier,          \* what the tier is pointed at
    policy,        \* admin_settings' byok_enabled and byok_markup_pct
    cache,         \* _byok_cache: NoPolicy once its ten seconds are over
    picks,         \* selected_models
    listing,       \* list_models between its answer and its write
    run,           \* a run, from resolving its key to being charged
    wanted,        \* history: the user's last choice of models
    gone,          \* history: models a listing has shown to be retired
    left           \* what is left of the member of Bounds this behaviour keeps within

keyVars == <<edition, conns, columns, tier, policy, cache, picks, listing, run, wanted, gone, left>>

None == "none"
NoKey == 0
House == -1
Legacy == -2
NoConn == [kind |-> None, on |-> FALSE]
NoPolicy == [on |-> FALSE, pct |-> -1]
Tier == <<"tier", "">>
NoRun == [at |-> "idle", alias |-> Tier, provider |-> None, model |-> None, key |-> NoKey,
          allowed |-> FALSE, node |-> NoKey, pct |-> -1, markup |-> -1, flipped |-> FALSE]
NoListing == [provider |-> None, keep |-> <<>>, late |-> FALSE]

ByOwnKeys == edition = "community"     \* edition.byok

-----------------------------------------------------------------------------
(* The keys. *)

\* connections.secret: the oldest connection of the kind that is switched on.
Secret(p) ==
    LET on == {c \in Connections : conns[c].kind = p /\ conns[c].on}
    IN  IF on = {} THEN NoKey ELSE Min(on)

Either(a, b) == IF a # NoKey THEN a ELSE b

OwnKey(p) == Secret(p)
UserKey(p) == Either(Secret(p), IF p \in columns.legacy THEN Legacy ELSE NoKey)
AdminKey(p) == IF p \in columns.house THEN House ELSE NoKey

\* byok_policy.
Policy == IF cache # NoPolicy THEN cache ELSE policy

MayBringOwn == ByOwnKeys \/ Policy.on

\* key_for: on a metered edition the user's own connection, where the operator
\* allows it, before the operator's key.
KeyFor(p) ==
    IF ByOwnKeys THEN UserKey(p)
    ELSE Either(IF Policy.on THEN OwnKey(p) ELSE NoKey, AdminKey(p))

\* Mutant of OnOwnKey: a key in the old column counts as the user's own.
OnOwnKeyLegacy(p) == ByOwnKeys \/ (Policy.on /\ UserKey(p) # NoKey)

\* on_own_key.
OnOwnKey(p) == ByOwnKeys \/ (Policy.on /\ OwnKey(p) # NoKey)

\* charge_cost's factor, in per cent.
Factor(p) == IF OnOwnKey(p) THEN Policy.pct ELSE 100

-----------------------------------------------------------------------------
(* Which model a call runs on.  An alias is the tier's name or            *)
(* <<provider, model>>, the picker's "provider:model"; a bare model name,   *)
(* which only a community box looks for among the picks, is left out.       *)

Pair(p, m) == <<p, m>>
Pairs == UNION {{Pair(p, m) : m \in ModelsOf[p]} : p \in Providers}

Call(pair, key) == [provider |-> pair[1], model |-> pair[2], key |-> key]
NoCall == Call(Pair(None, None), NoKey)

Picked == DOMAIN picks

\* The first of the list.
First == CHOOSE pair \in Picked : \A other \in Picked : picks[pair] <= picks[other]

\* resolve.
Resolve(alias) ==
    IF ~ByOwnKeys
    THEN IF alias \in Pairs THEN Call(alias, Either(OwnKey(alias[1]), KeyFor(alias[1])))
         ELSE Call(tier, KeyFor(tier[1]))
    ELSE IF alias \in Pairs THEN Call(alias, UserKey(alias[1]))
    ELSE IF Picked = {} THEN NoCall
    ELSE Call(First, UserKey(First[1]))

\* _model_for: a node's preference, where a key for it can be found, before
\* the call of the run.
ModelFor(call, pref) ==
    LET own == IF pref \in Pairs THEN Call(pref, KeyFor(pref[1])) ELSE Resolve(pref)
    IN  IF own.key # NoKey THEN own
        ELSE IF pref \in Pairs /\ pref[1] = call.provider /\ call.key # NoKey
             THEN Call(pref, call.key)
        ELSE call

-----------------------------------------------------------------------------
(* What the picker offers. *)

\* _own_models: the picks whose provider there is a key for.
OwnModels ==
    {pair \in Picked : (IF ByOwnKeys THEN UserKey(pair[1]) ELSE OwnKey(pair[1])) # NoKey}

\* config's available entries.  The tier goes by the key of the provider it has
\* by default, whatever it is pointed at.
Offered ==
    (IF MayBringOwn THEN OwnModels ELSE {})
    \cup (IF ~ByOwnKeys /\ AdminKey(DefaultTier[1]) # NoKey THEN {Tier} ELSE {})

-----------------------------------------------------------------------------
(* Edits.  Each reaches a run that is under way, too. *)

Edit ==
    /\ left.edits > 0
    /\ left' = [left EXCEPT !.edits = @ - 1]
    /\ UNCHANGED edition

\* A change of what its key is priced by flips a run.
Flips ==
    \E p \in {run.provider} :
        run' = [run EXCEPT !.flipped = @ \/ (run.at = "running" /\ OnOwnKey(p)' # OnOwnKey(p))]

\* create, update (a blank secret keeps the key), delete.
Connect(c, row) ==
    /\ Edit
    /\ row # conns[c] /\ (conns[c] # NoConn => row.kind \in {conns[c].kind, None})
    /\ conns[c] = NoConn => row.on /\ \A d \in Connections : d > c => conns[d] = NoConn
    /\ conns' = [conns EXCEPT ![c] = row]
    /\ UNCHANGED <<columns, tier, policy, cache, picks, listing, wanted, gone>>
    /\ Flips

\* set_user_key and the operator's own keys.
SetColumn(which, p) ==
    /\ Edit
    /\ which = "legacy" => MayBringOwn
    /\ columns' = [columns EXCEPT ![which] = IF p \in @ THEN @ \ {p} ELSE @ \cup {p}]
    /\ UNCHANGED <<conns, tier, policy, cache, picks, listing, run, wanted, gone>>

\* save_tiers.
PointTier(pair) ==
    /\ Edit
    /\ tier # pair /\ tier' = pair
    /\ UNCHANGED <<conns, columns, policy, cache, picks, listing, run, wanted, gone>>

\* save_byok_policy: a field not given is what the cache says it is.  A reader
\* that asked before the commit may cache what it was told after it.
SavePolicy(field, v) ==
    /\ Edit
    /\ policy' = [Policy EXCEPT ![field] = v]
    /\ cache' \in {policy, policy'}
    /\ UNCHANGED <<conns, columns, tier, picks, listing, wanted, gone>>
    /\ Flips

CacheAges ==
    /\ cache # NoPolicy /\ cache' = NoPolicy
    /\ UNCHANGED <<edition, conns, columns, tier, policy, picks, listing, wanted, gone, left>>
    /\ Flips

\* set_selected.
Select(list) ==
    /\ Edit /\ MayBringOwn
    /\ picks' = list
    /\ wanted' = DOMAIN list /\ gone' = {}
    /\ listing' = IF listing = NoListing THEN listing ELSE [listing EXCEPT !.late = TRUE]
    /\ UNCHANGED <<conns, columns, tier, policy, cache, run>>

-----------------------------------------------------------------------------
(* list_models. *)

\* Mutant of Kept: what is not in the answer is pruned, though it was no answer.
KeptAlways(p, live) == Restrict(picks, {pair \in Picked : pair[1] # p \/ pair[2] \in live})

\* The picks a listing leaves: only an answer that lists something prunes.
Kept(p, live) ==
    IF live = {} THEN picks
    ELSE Restrict(picks, {pair \in Picked : pair[1] # p \/ pair[2] \in live})

\* The provider has answered, with nothing where it refused the key or could
\* not be reached, and the picks are read.
Lists(p, live) ==
    /\ MayBringOwn /\ listing = NoListing
    /\ left.listings > 0 /\ left' = [left EXCEPT !.listings = @ - 1]
    /\ Either(UserKey(p), KeyFor(p)) # NoKey
    /\ listing' = IF Kept(p, live) = picks THEN NoListing
                  ELSE [NoListing EXCEPT !.provider = p, !.keep = Kept(p, live)]
    /\ gone' = IF live = {} THEN gone ELSE gone \cup ({p} \X (ModelsOf[p] \ live))
    /\ UNCHANGED <<edition, conns, columns, tier, policy, cache, picks, run, wanted>>

\* set_selected writes what that reading left, over a choice made since then.
Prunes ==
    /\ listing # NoListing
    /\ picks' = listing.keep
    /\ listing' = NoListing
    /\ wanted' = IF listing.late THEN wanted \cap Picked' ELSE wanted
    /\ UNCHANGED <<edition, conns, columns, tier, policy, cache, run, gone, left>>

-----------------------------------------------------------------------------
(* A run. *)

Aliases == {Tier} \cup Pairs
NothingElse == UNCHANGED <<edition, conns, columns, tier, policy, cache, picks, listing, wanted, gone, left>>

Begins(alias) ==
    LET call == Resolve(alias) IN
    /\ run.at = "idle" /\ call.key # NoKey /\ left.runs > 0
    /\ run' = [NoRun EXCEPT !.at = "running", !.alias = alias, !.provider = call.provider,
                            !.model = call.model, !.key = call.key, !.allowed = Policy.on]
    /\ NothingElse

\* A node that prefers a model of its own calls it.
NodeCalls(pref) ==
    LET call == ModelFor(run, pref) IN
    /\ run.at = "running" /\ run.node = NoKey /\ call.provider = run.provider
    /\ run' = [run EXCEPT !.node = call.key]
    /\ NothingElse

\* charge_cost, with the provider the run began with; nothing is metered on a
\* community box.
Charged ==
    /\ run.at = "running"
    /\ run' = [run EXCEPT !.at = "charged", !.markup = Policy.pct,
                          !.pct = IF ByOwnKeys THEN 0 ELSE Factor(run.provider)]
    /\ NothingElse

-----------------------------------------------------------------------------
Init ==
    /\ edition \in {"cloud", "community"}
    /\ \E first \in [kind : Providers, on : {TRUE}] \cup {NoConn} :
          conns = [c \in Connections |-> IF c = 1 THEN first ELSE NoConn]
    /\ columns \in [legacy : SUBSET Columned, house : SUBSET Columned]
    /\ tier = DefaultTier
    /\ policy = [on |-> TRUE, pct |-> 40] /\ cache = NoPolicy
    /\ picks \in Selections /\ wanted = Picked
    /\ listing = NoListing /\ run = NoRun /\ gone = {} /\ left \in Bounds

Next ==
    \/ \E c \in Connections : \/ \E p \in Providers, on \in BOOLEAN : Connect(c, [kind |-> p, on |-> on])
                              \/ Connect(c, NoConn)
    \/ \E p \in Columned, which \in {"legacy", "house"} : SetColumn(which, p)
    \/ \E pair \in TierModels : PointTier(pair)
    \/ \E on \in BOOLEAN : SavePolicy("on", on)
    \/ \E pct \in Markups : SavePolicy("pct", pct)
    \/ CacheAges
    \/ \E list \in Selections : Select(list)
    \/ \E p \in Providers : \E live \in SUBSET ModelsOf[p] : Lists(p, live)
    \/ Prunes
    \/ \E alias \in Aliases : Begins(alias) \/ NodeCalls(alias)
    \/ Charged

Spec == Init /\ [][Next]_keyVars

-----------------------------------------------------------------------------
(* Properties. *)

Own(key) == key \in Connections

\* "The answer must be the same for the caller who runs the request and the
\* caller who prices it" (ai_keys.py:212-214): on a metered edition a run is
\* charged the markup exactly when it went out on a key the user connected, and
\* a node's call of the same provider went out on such a key, too.  Excepted: a
\* connection, the policy or its cached copy changed the answer while the run
\* was under way; and, with the policy off, a model named with its provider,
\* which resolve still runs on the user's key and which is charged in full.
PricedAsRun ==
    run.at = "charged" /\ ~ByOwnKeys /\ ~run.flipped =>
        /\ run.allowed => /\ run.pct = (IF Own(run.key) THEN run.markup ELSE 100)
                          /\ run.node # NoKey => (Own(run.node) <=> Own(run.key))
        /\ ~run.allowed => run.pct = 100 /\ (Own(run.key) => run.alias \in Pairs)

\* "Selecting a model you cannot run is not a choice, it is a trap"
\* (ai_keys.py:385-391): what the picker offers resolves to a key, in either
\* edition and whatever was connected, switched off or picked before - the tier
\* only while it is pointed at a provider whose key the operator holds, as
\* config looks at the default's key.
OfferedCanRun ==
    \A alias \in Offered :
        Resolve(alias).key # NoKey \/ (alias = Tier /\ AdminKey(tier[1]) = NoKey)

\* "A transient failure must never look like 'the provider dropped everything'"
\* (ai_keys.py:321-326): what the user picked stays picked until the user picks
\* again or the provider lists its models without it, except for a choice made
\* between a listing's reading of the picks and its writing them back.
PicksAreKept == wanted \subseteq Picked \cup gone

\* All three.
KeysAreTrue == PricedAsRun /\ OfferedCanRun /\ PicksAreKept

\* The same and what it rests on, inductive: while a run goes on and nothing has
\* flipped it, its key and its price agree; a node's key is the user's own exactly
\* where the run's is; what a listing is about to write holds what the user wants.
KeysTyped ==
    /\ conns \in [Connections -> [kind : Providers \cup {None}, on : BOOLEAN]]
    /\ run.flipped \in BOOLEAN /\ listing.late \in BOOLEAN
    /\ Picked \subseteq Pairs /\ DOMAIN listing.keep \subseteq Pairs

PricedWhileRunning ==
    run.at = "running" /\ ~ByOwnKeys /\ ~run.flipped =>
        /\ run.allowed => (Own(run.key) <=> OnOwnKey(run.provider))
        /\ ~run.allowed => ~OnOwnKey(run.provider) /\ (Own(run.key) => run.alias \in Pairs)
        /\ run.allowed /\ run.node # NoKey => (Own(run.node) <=> Own(run.key))

ListingKeeps ==
    listing # NoListing /\ ~listing.late => wanted \subseteq DOMAIN listing.keep \cup gone

IInv == KeysTyped /\ KeysAreTrue /\ PricedWhileRunning /\ ListingKeeps

=============================================================================
