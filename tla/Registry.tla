------------------------------- MODULE Registry -------------------------------
(***************************************************************************)
(* What the modules have contributed to the running app, and how a         *)
(* module's contributions are taken away again (backend/registry.py).      *)
(*                                                                         *)
(* Offers[m] is what module m registers, in order: its load may stop       *)
(* anywhere, it may be switched off and on again, and it may be loaded     *)
(* again over itself: a forced install, an update, switching on what is on *)
(* (modules.py:199 and 315) register anew without a forget.  The           *)
(* dictionaries of tools, nodes, guides, settings, providers and asset     *)
(* directories behave alike and are one function here, "named"; the lists  *)
(* hold an entry once for each load, and their order is left out.          *)
(***************************************************************************)
EXTENDS Naturals, Sequences, Functions

CONSTANTS
    Offers,      \* module -> contributions: [kind, key, stops]
    MaxLoads     \* bound: loads of all modules together

VARIABLES
    named,       \* _tools, _nodes, _guides, _settings, _providers, _assets: key -> module
    notes,       \* _notes: a module's text, or Blank
    conns,       \* _conn_types: whose, and its kind
    workers,     \* _workers: whose, and its name
    routers,     \* _routers: whose, and its path
    served,      \* _app.router.routes: path and whose it is
    by,          \* _by_module: module -> kind -> keys it registered
    bound,       \* bind_app has run
    started,     \* _started_workers
    running,     \* workers' threads
    pos,         \* module -> how many of its contributions its load registered
    loads,
    copy         \* module -> the loads before that since it was last forgotten

registryVars == <<named, notes, conns, workers, routers, served, by, bound, started, running, pos, loads, copy>>

Modules == DOMAIN Offers
Kinds == {"named", "note", "conn", "worker", "router"}
Gone == "gone"
Blank == [module |-> Gone, key |-> Gone, copy |-> 0]
Item(m) == Offers[m][pos[m] + 1]
Names == {o.key : o \in UNION {Range(Offers[m]) : m \in Modules}}
Mine(m, item) == [module |-> m, key |-> item.key, copy |-> copy[m]]

------------------------------------------------------------------------------
(* Registering. *)

\* _own, after whatever was registered.
Owns(m, kind, key) ==
    /\ by' = [by EXCEPT ![m][kind] = @ \cup {key}]
    /\ pos' = [pos EXCEPT ![m] = @ + 1]
    /\ loads' = IF pos[m] = 0 THEN loads + 1 ELSE loads
    /\ copy' = copy

\* The next contribution of module m is due.
Due(m, kind) ==
    /\ pos[m] < Len(Offers[m]) /\ Item(m).kind = kind
    /\ pos[m] = 0 => loads < MaxLoads

\* tool, node, guide, setting, provider, assets.
RegistersName(m) ==
    /\ Due(m, "named")
    /\ named' = [named EXCEPT ![Item(m).key] = m]
    /\ Owns(m, "named", Item(m).key)
    /\ UNCHANGED <<notes, conns, workers, routers, served, bound, started, running>>

\* system_note: its key is its place.
RegistersNote(m) ==
    /\ Due(m, "note")
    /\ notes' = Append(notes, Mine(m, Item(m)))
    /\ Owns(m, "note", Len(notes) + 1)
    /\ UNCHANGED <<named, conns, workers, routers, served, bound, started, running>>

RegistersConnection(m) ==
    /\ Due(m, "conn")
    /\ conns' = conns \cup {Mine(m, Item(m))}
    /\ Owns(m, "conn", Item(m).key)
    /\ UNCHANGED <<named, notes, workers, routers, served, bound, started, running>>

\* worker: started at once after boot; it may fail to start, and is kept.
RegistersWorker(m) ==
    /\ Due(m, "worker")
    /\ workers' = workers \cup {Mine(m, Item(m))}
    /\ running' \in {running} \cup IF started THEN {running \cup {Mine(m, Item(m))}} ELSE {}
    /\ Owns(m, "worker", Item(m).key)
    /\ UNCHANGED <<named, notes, conns, routers, served, bound, started>>

RegistersRoutes(m) ==
    /\ Due(m, "router")
    /\ routers' = routers \cup {Mine(m, Item(m))}
    /\ served' = IF bound THEN served \cup {Mine(m, Item(m))} ELSE served
    /\ Owns(m, "router", Item(m).key)
    /\ UNCHANGED <<named, notes, conns, workers, bound, started, running>>

\* A module that is loaded is loaded again.
Reloads(m) ==
    /\ pos[m] = Len(Offers[m]) /\ pos[m] > 0 /\ loads < MaxLoads
    /\ pos' = [pos EXCEPT ![m] = 0] /\ copy' = [copy EXCEPT ![m] = @ + 1]
    /\ UNCHANGED <<named, notes, conns, workers, routers, served, by, bound, started, running, loads>>

\* bind_app and start_workers, once each.
Binds ==
    /\ ~bound /\ bound' = TRUE
    /\ served' = served \cup routers
    /\ UNCHANGED <<named, notes, conns, workers, routers, by, started, running, pos, loads, copy>>
Begins ==
    /\ ~started /\ started' = TRUE
    /\ running' \in {running \cup s : s \in SUBSET workers}
    /\ UNCHANGED <<named, notes, conns, workers, routers, served, by, bound, pos, loads, copy>>

------------------------------------------------------------------------------
(* forget. *)

\* Mutant of Blanked: a note is taken out of the list.
BlankedOut(m) ==
    LET places == by[m]["note"] \cap DOMAIN notes
    IN  IF places = {} THEN notes
        ELSE LET place == CHOOSE i \in places : TRUE
             IN  [i \in 1..(Len(notes) - 1) |-> notes[IF i < place THEN i ELSE i + 1]]

\* The notes at the places the module remembers.
Blanked(m) == [i \in DOMAIN notes |-> IF i \in by[m]["note"] THEN Blank ELSE notes[i]]

\* Mutant of Unlisted: by name alone.
UnlistedByName(list, m, kind) == {e \in list : e.key \notin by[m][kind]}

Unlisted(list, m, kind) == {e \in list : ~(e.module = m /\ e.key \in by[m][kind])}

\* _unmount goes by path.
Unmounted(m) == IF bound THEN {e \in served : e.key \notin by[m]["router"]} ELSE served

\* Some workers have no stop, or one that raises.
Stoppable(m) ==
    {w \in workers : w.module = m /\ \E i \in DOMAIN Offers[m] :
        Offers[m][i].kind = "worker" /\ Offers[m][i].key = w.key /\ Offers[m][i].stops}

Forgets(m) ==
    /\ pos[m] + copy[m] > 0
    /\ named' = [k \in DOMAIN named |-> IF k \in by[m]["named"] THEN Gone ELSE named[k]]
    /\ notes' = Blanked(m)
    /\ conns' = Unlisted(conns, m, "conn")
    /\ workers' = Unlisted(workers, m, "worker")
    /\ running' = running \ Stoppable(m)
    /\ served' = Unmounted(m)
    /\ routers' = Unlisted(routers, m, "router")
    /\ by' = [by EXCEPT ![m] = [kind \in Kinds |-> {}]]
    /\ pos' = [pos EXCEPT ![m] = 0] /\ copy' = [copy EXCEPT ![m] = 0]
    /\ UNCHANGED <<bound, started, loads>>

Init ==
    /\ named = [k \in Names |-> Gone] /\ notes = <<>> /\ conns = {} /\ workers = {}
    /\ routers = {} /\ served = {} /\ by = [m \in Modules |-> [kind \in Kinds |-> {}]] /\ bound = FALSE
    /\ started = FALSE /\ running = {} /\ pos = [m \in Modules |-> 0] /\ loads = 0
    /\ copy = [m \in Modules |-> 0]

Next ==
    \/ Binds \/ Begins
    \/ \E m \in Modules :
        \/ RegistersName(m) \/ RegistersNote(m) \/ RegistersConnection(m)
        \/ RegistersWorker(m) \/ RegistersRoutes(m) \/ Reloads(m) \/ Forgets(m)

Spec == Init /\ [][Next]_registryVars

------------------------------------------------------------------------------
Owned == [module : Modules, key : Names, copy : Nat]

RegistryTypeOK ==
    /\ named \in [Names -> Modules \cup {Gone}]
    /\ notes \in Seq(Owned \cup {Blank})
    /\ conns \cup workers \cup routers \cup served \cup running \subseteq Owned
    /\ by = [m \in Modules |-> [kind \in Kinds |-> by[m][kind]]]
    /\ bound \in BOOLEAN /\ started \in BOOLEAN /\ loads \in Nat
    /\ pos \in [Modules -> Nat] /\ \A m \in Modules : pos[m] <= Len(Offers[m])
    /\ copy \in [Modules -> Nat]

\* Load c of module m, counted from its last forget, has come to the i-th contribution.
Registered(m, i, c) == c < copy[m] \/ (c = copy[m] /\ i <= pos[m])

\* What module m has registered of a kind, and not withdrawn: the keys, and, of all the
\* modules, an entry for each load.
Given(m, kind) == {Offers[m][i].key : i \in {i \in DOMAIN Offers[m] : Offers[m][i].kind = kind /\ Registered(m, i, 0)}}
Held(kind) ==
    UNION {UNION {{[module |-> m, key |-> Offers[m][i].key, copy |-> c] :
        i \in {i \in DOMAIN Offers[m] : Offers[m][i].kind = kind /\ Registered(m, i, c)}} :
            c \in 0..copy[m]} : m \in Modules}

\* Another module gives the same name, or serves the same path.
Shared(m, kind, key) ==
    \E n \in Modules \ {m} : \E j \in DOMAIN Offers[n] : Offers[n][j].kind = kind /\ Offers[n][j].key = key

\* A worker there is no stopping.
Unstoppable(w) == \E o \in Range(Offers[w.module]) : o.kind = "worker" /\ o.key = w.key /\ ~o.stops

\* What answers a path: the app's routes, or before it is bound the routers to come.
Open == IF bound THEN served ELSE routers

\* "What a module contributed, so it can be taken away again exactly" (registry.py:80):
\* in whatever order modules load, load again, fail and go, the app has what each has
\* registered and not withdrawn, once for each load, no more, no less, but for names and
\* paths two modules share; and a worker runs on without its module only if there was no
\* stopping it.
TakenExactly ==
    /\ conns = Held("conn") /\ workers = Held("worker") /\ Range(notes) \ {Blank} = Held("note")
    /\ Open \subseteq Held("router")
    /\ \A e \in Held("router") \ Open : Shared(e.module, "router", e.key)
    /\ \A m \in Modules : \A item \in Range(Offers[m]) : item.kind = "named" =>
        Shared(m, "named", item.key) \/ (named[item.key] = m <=> item.key \in Given(m, "named"))
    /\ \A w \in running \ workers : Unstoppable(w)

RegistryHolds == RegistryTypeOK /\ TakenExactly

\* The same and what it rests on, inductive: a module remembers what it registered, and of
\* its notes the places; what is served is a router's that is there, once the app is bound.
Remembered ==
    \A m \in Modules :
        /\ \A kind \in Kinds \ {"note"} : by[m][kind] = Given(m, kind)
        /\ by[m]["note"] = {i \in DOMAIN notes : notes[i].module = m}

IInv ==
    /\ RegistryHolds /\ Remembered
    /\ routers = Held("router") /\ (~bound => served = {})
==============================================================================
