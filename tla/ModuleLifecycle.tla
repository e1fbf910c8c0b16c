-------------------------- MODULE ModuleLifecycle --------------------------
(***************************************************************************)
(* Installable modules on one instance: their directories, their rows, the *)
(* process-wide table of what loaded, and the registry of what each one    *)
(* contributes (backend/module_installer.py, modules.py, registry.py and   *)
(* the handlers of modules_api.py).                                        *)
(*                                                                         *)
(* Handlers run on threads of one process; each of Procs is one request.   *)
(* A crash ends them all and empties `loaded' and `serving'; Boot is       *)
(* load_all.  A directory is "none", "whole" or "part" of a copy.          *)
(***************************************************************************)
EXTENDS Naturals, FiniteSets, Sequences

CONSTANTS
    Mods,
    Requires,    \* Requires[m]: the modules m's manifest requires
    Procs,
    Bounds       \* [reqs, faults, total]: requests at once, crashes and failed copies, requests in all

VARIABLES
    dir,         \* module -> its directory
    backup,      \* module -> its ".replacing" directory, which discover lists too
    row,         \* module -> "none", "on", "off": the row and its enabled flag
    loaded,      \* module -> modules._loaded: "none", "loaded", "unmet", "failed"
    serving,     \* module -> whether the registry holds its contributions
    req,         \* request -> the module it is at, how far it is, and what it is yet to look at
    up,          \* the process is running
    faults,
    asked,       \* requests so far
    kept,        \* history: installed in full and not removed since
    clash,       \* history: replaced by two requests at once
    bound        \* the member of Bounds this behaviour keeps within

mvars == <<dir, backup, row, loaded, serving, req, up, faults, asked, kept, clash, bound>>

\* What one call of apply_live has yet to start or stop lies on those of its callers' calls.
Request(mod, at, aside, todo) == [mod |-> mod, at |-> at, aside |-> aside, res |-> "none", todo |-> todo]
Still == Request("none", "idle", FALSE, <<>>)
Dirs == {"none", "whole", "part"}

\* discover: any directory with a manifest, the set-aside one included.
OnDisk(m) == dir[m] # "none" \/ backup[m] # "none"
Dependents(m) == {d \in Mods : OnDisk(d) /\ m \in Requires[d]}
Enabled == {m \in Mods : row[m] = "on"}

\* check_requires against the enabled rows, for apply_live.
Met(m) == Requires[m] \subseteq Enabled \ {m}

At(p, where) == up /\ req[p].at = where
Goto(p, where) == req' = [req EXCEPT ![p] = IF where = "idle" THEN Still
                                           ELSE [@ EXCEPT !.at = where]]
Begin(p, m, where) ==
    /\ At(p, "idle")
    /\ Cardinality({q \in Procs : req[q].at # "idle"}) < bound.reqs
    /\ asked < bound.total /\ asked' = asked + 1
    /\ req' = [req EXCEPT ![p] = Request(m, where, where = "copy" /\ dir[m] # "none", <<>>)]

-----------------------------------------------------------------------------
(* Install: the old directory moves aside and goes when the new one is there. *)

Replaces(p, m) == req[p].mod = m /\ req[p].at \in {"copy", "copying"}
Replacing(m) == \E p \in Procs : Replaces(p, m)

Install(p, m, force) ==
    /\ force \/ (dir[m] = "none" /\ \A r \in Requires[m] : OnDisk(r))
    /\ Begin(p, m, "copy")
    /\ backup' = IF dir[m] = "none" THEN backup ELSE [backup EXCEPT ![m] = dir[m]]
    /\ dir' = [dir EXCEPT ![m] = "none"]
    /\ clash' = IF Replacing(m) THEN clash \cup {m} ELSE clash
    /\ UNCHANGED <<row, loaded, serving, up, faults, kept, bound>>

\* shutil.copytree makes the directory and fills it; a crash can leave it part done.
CopyStarts(p) == LET m == req[p].mod IN
    /\ At(p, "copy") /\ dir[m] = "none"
    /\ dir' = [dir EXCEPT ![m] = "part"]
    /\ Goto(p, "copying")
    /\ UNCHANGED <<backup, row, loaded, serving, up, faults, kept, clash, bound, asked>>

CopyEnds(p) == LET m == req[p].mod IN
    /\ At(p, "copying") /\ dir[m] = "part"
    /\ dir' = [dir EXCEPT ![m] = "whole"]
    /\ backup' = IF req[p].aside THEN [backup EXCEPT ![m] = "none"] ELSE backup
    /\ kept' = kept \cup {m}
    /\ Goto(p, "load")
    /\ UNCHANGED <<row, loaded, serving, up, faults, clash, bound, asked>>

\* Mutant of CopyFails: what was set aside is not put back.
CopyFailsBadly(p) == LET m == req[p].mod IN
    /\ At(p, "copying") /\ faults < bound.faults
    /\ faults' = faults + 1
    /\ backup' = [backup EXCEPT ![m] = "none"]
    /\ Goto(p, "idle")
    /\ UNCHANGED <<dir, row, loaded, serving, up, kept, clash, bound, asked>>

\* The copy raises: on its own, or because somebody else's is in the way.
CopyFails(p) == LET m == req[p].mod IN
    /\ \/ At(p, "copying") /\ faults < bound.faults /\ faults' = faults + 1
       \/ At(p, "copy") /\ dir[m] # "none" /\ UNCHANGED faults
       \/ At(p, "copying") /\ dir[m] # "part" /\ UNCHANGED faults
    /\ IF req[p].aside
       THEN /\ dir' = [dir EXCEPT ![m] = backup[m]]
            /\ backup' = [backup EXCEPT ![m] = "none"]
       ELSE UNCHANGED <<dir, backup>>
    /\ Goto(p, "idle")
    /\ UNCHANGED <<row, loaded, serving, up, kept, clash, bound, asked>>

-----------------------------------------------------------------------------
(* set_enabled: the row first, then the running process. *)

Switch(p, m, on) ==
    /\ row[m] # "none"
    /\ Begin(p, m, IF on THEN "load" ELSE "unload")
    /\ row' = [row EXCEPT ![m] = IF on THEN "on" ELSE "off"]
    /\ UNCHANGED <<dir, backup, loaded, serving, up, faults, kept, clash, bound>>

\* Mutant of Recorded: a success is recorded without touching the flag.
RecordedAsIs(m) == row

\* record(..., enabled=True), which every outcome of load_one ends in.
Recorded(m) == [row EXCEPT ![m] = "on"]

\* The end of an apply_live: of the request, or of one call in its caller's loop.
Returns(p) == req' = [req EXCEPT ![p] = IF @.todo = <<>> THEN Still
                                        ELSE Request("none", "wake", FALSE, @.todo)]

\* How load_one went, on to the record.
Outcome(p, res) == req' = [req EXCEPT ![p] = [@ EXCEPT !.at = "record", !.res = res]]

\* apply_live(m, True) up to the registry: nothing on disk, a requirement not
\* enabled, or the module's entry points run and register.
Load(p) == LET m == req[p].mod IN
    /\ At(p, "load")
    /\ \/ ~OnDisk(m) /\ Returns(p) /\ UNCHANGED serving
       \/ OnDisk(m) /\ ~Met(m) /\ Outcome(p, "unmet") /\ UNCHANGED serving
       \/ /\ Met(m) /\ "whole" \in {dir[m], backup[m]}
          /\ serving' = [serving EXCEPT ![m] = TRUE]
          /\ Outcome(p, "loaded")
       \/ /\ OnDisk(m) /\ Met(m)                  \* load_one caught an exception
          /\ serving' = [serving EXCEPT ![m] = FALSE]
          /\ Outcome(p, "failed")
    /\ UNCHANGED <<dir, backup, row, loaded, up, faults, kept, clash, bound, asked>>

RecordLoad(p) ==
    /\ At(p, "record")
    /\ row' = Recorded(req[p].mod)
    /\ Goto(p, "note")
    /\ UNCHANGED <<dir, backup, loaded, serving, up, faults, kept, clash, bound, asked>>

\* _loaded[m] = res; without success that is all.
Notes(p) ==
    /\ At(p, "note")
    /\ loaded' = [loaded EXCEPT ![req[p].mod] = req[p].res]
    /\ IF req[p].res = "loaded" THEN Goto(p, "look") ELSE Returns(p)
    /\ UNCHANGED <<dir, backup, row, serving, up, faults, kept, clash, bound, asked>>

\* enabled_now, which the loop over the dependents goes by to its end.
Looks(p) ==
    /\ At(p, "look")
    /\ req' = [req EXCEPT ![p] = Request("none", "wake", FALSE,
                                        <<Enabled \cap Dependents(@.mod)>> \o @.todo)]
    /\ UNCHANGED <<dir, backup, row, loaded, serving, up, faults, kept, clash, bound, asked>>

\* The loop: a dependent that has not loaded is started by a call of its own, with
\* the rest left for later; one call's loop done, its caller's goes on.
Wakes(p) == LET todo == req[p].todo IN
    /\ At(p, "wake")
    /\ \/ \E d \in Head(todo) : LET rest == <<Head(todo) \ {d}>> \o Tail(todo) IN
            req' = [req EXCEPT ![p] = IF loaded[d] = "loaded" THEN Request("none", "wake", FALSE, rest)
                                      ELSE Request(d, "load", FALSE, rest)]
       \/ /\ Head(todo) = {}
          /\ req' = [req EXCEPT ![p] = IF Tail(todo) = <<>> THEN Still
                                       ELSE Request("none", "wake", FALSE, Tail(todo))]
    /\ UNCHANGED <<dir, backup, row, loaded, serving, up, faults, kept, clash, bound, asked>>

\* forget, and _loaded.pop.
Forgotten(d) ==
    /\ serving' = [serving EXCEPT ![d] = FALSE]
    /\ loaded' = [loaded EXCEPT ![d] = "none"]

\* apply_live(m, False): what depends on m directly and is loaded by now, one by
\* one, then m.
Unload(p) ==
    /\ At(p, "unload")
    /\ req' = [req EXCEPT ![p] = Request(@.mod, "stop", FALSE,
                                        <<{d \in Dependents(@.mod) : loaded[d] = "loaded"}>>)]
    /\ UNCHANGED <<dir, backup, row, loaded, serving, up, faults, kept, clash, bound, asked>>

StopOne(p) == LET also == Head(req[p].todo) IN
    /\ At(p, "stop")
    /\ \/ \E d \in also :
            /\ Forgotten(d)
            /\ req' = [req EXCEPT ![p] = Request(@.mod, "stop", FALSE, <<also \ {d}>>)]
       \/ also = {} /\ Forgotten(req[p].mod) /\ Goto(p, "idle")
    /\ UNCHANGED <<dir, backup, row, up, faults, kept, clash, bound, asked>>

-----------------------------------------------------------------------------
(* Remove: unregister, then delete the directory and the row. *)

Remove(p, m) ==
    /\ dir[m] # "none" /\ Dependents(m) \ {m} = {}
    /\ Begin(p, m, "delete")
    /\ serving' = [serving EXCEPT ![m] = FALSE]
    /\ UNCHANGED <<dir, backup, row, loaded, up, faults, kept, clash, bound>>

Delete(p) == LET m == req[p].mod IN
    /\ At(p, "delete")
    /\ dir' = [dir EXCEPT ![m] = "none"]
    /\ row' = [row EXCEPT ![m] = "none"]
    /\ kept' = kept \ {m}
    /\ Goto(p, "idle")
    /\ UNCHANGED <<backup, loaded, serving, up, faults, clash, bound, asked>>

-----------------------------------------------------------------------------
Crash ==
    /\ up /\ faults < bound.faults
    /\ up' = FALSE /\ faults' = faults + 1
    /\ req' = [p \in Procs |-> Still]
    /\ loaded' = [m \in Mods |-> "none"]
    /\ serving' = [m \in Mods |-> FALSE]
    /\ UNCHANGED <<dir, backup, row, kept, clash, bound, asked>>

\* load_all: in dependency order, what is not switched off and whose
\* requirements have loaded; any may fail.  A module is loaded from whichever
\* directory carries it.
Bootable(ok) ==
    LET run[n \in 0..Cardinality(Mods)] ==
            IF n = 0 THEN {}
            ELSE {m \in ok : Requires[m] \subseteq run[n - 1]}
    IN  run[Cardinality(Mods)]

Boot ==
    LET found == {m \in Mods : OnDisk(m) /\ row[m] # "off"}
    IN  /\ ~up /\ up' = TRUE
        /\ \E ok \in SUBSET {m \in found : dir[m] = "whole" \/ backup[m] = "whole"} :
             LET runs == Bootable(ok) IN
             /\ loaded' = [m \in Mods |->
                    IF m \in runs THEN "loaded"
                    ELSE IF m \notin found THEN "none"
                    ELSE IF Requires[m] \subseteq runs THEN "failed" ELSE "unmet"]
             /\ serving' = [m \in Mods |-> m \in runs]
        /\ row' = [m \in Mods |-> IF m \in found THEN "on" ELSE row[m]]
        /\ UNCHANGED <<dir, backup, req, faults, kept, clash, bound, asked>>

-----------------------------------------------------------------------------
Init ==
    /\ dir = [m \in Mods |-> "none"]
    /\ backup = [m \in Mods |-> "none"]
    /\ row = [m \in Mods |-> "none"]
    /\ loaded = [m \in Mods |-> "none"]
    /\ serving = [m \in Mods |-> FALSE]
    /\ req = [p \in Procs |-> Still]
    /\ up = TRUE /\ faults = 0 /\ kept = {} /\ clash = {} /\ bound \in Bounds /\ asked = 0

Next ==
    \/ \E p \in Procs, m \in Mods :
        \/ \E b \in BOOLEAN : Install(p, m, b) \/ Switch(p, m, b)
        \/ Remove(p, m)
    \/ \E p \in Procs :
        \/ CopyStarts(p) \/ CopyEnds(p) \/ CopyFails(p)
        \/ Load(p) \/ RecordLoad(p) \/ Notes(p) \/ Looks(p) \/ Wakes(p)
        \/ Unload(p) \/ StopOne(p) \/ Delete(p)
    \/ Crash \/ Boot

Spec == Init /\ [][Next]_mvars

-----------------------------------------------------------------------------
(* Properties. *)

Quiet(m) == \A p \in Procs : req[p].mod # m

\* A module that is switched off does not serve, however enabling, disabling,
\* installing and their dependents' starts interleave, once the requests that
\* are at it are over (modules.py:171-187: the row is written first, and
\* load_one ends by writing it again).  It is the row that is claimed: a start that
\* listed a dependent as enabled before it was switched off (modules.py:224)
\* starts it all the same, and writes it enabled again.
OffMeansOff == \A m \in Mods : row[m] = "off" /\ Quiet(m) => ~serving[m]

\* "A failed install does not leave a hole" (module_installer.py:178-193): an
\* installed module stays on disk in full, under its own name or set aside,
\* after any one crash or failed copy at any point of a replacement.  A second
\* can lose it, as the next install first deletes what the crash left set aside
\* (line 183), and so can two replacements at once.
NoHole ==
    \A m \in kept : \/ dir[m] = "whole" \/ backup[m] = "whole"
                    \/ faults > 1 \/ m \in clash
                    \/ faults = 1 /\ Replacing(m)

\* Both, and what they rest on, inductive.  What serves though it is switched
\* off has a request that will see to it.
Followed(m) ==
    row[m] = "off" /\ serving[m] => \E p \in Procs : req[p].mod = m /\ req[p].at \in {"unload", "stop", "record"}

\* A module one request at a time replaces: its copy starts from nothing and is
\* there in part unless the module was removed meanwhile.  Before the first
\* fault a part of a copy has somebody copying, and an installed module that is
\* being replaced is set aside whole; until the second, one that is not is
\* whole somewhere.
Covered(m) ==
    /\ \A p, q \in Procs : Replaces(p, m) /\ Replaces(q, m) => p = q
    /\ \A p \in Procs : req[p].mod = m =>
          /\ req[p].at = "copy" => dir[m] = "none"
          /\ req[p].at = "copying" => dir[m] = "part" \/ (dir[m] = "none" /\ m \notin kept)
    /\ faults = 0 => backup[m] # "part" /\ (dir[m] = "part" => Replacing(m))
    /\ m \in kept /\ faults = 0 /\ Replacing(m) => backup[m] = "whole"
    /\ m \in kept /\ faults <= 1 /\ ~Replacing(m) => dir[m] = "whole" \/ backup[m] = "whole"

LifecycleTypeOK ==
    /\ dir \in [Mods -> Dirs] /\ backup \in [Mods -> Dirs]
    /\ row \in [Mods -> {"none", "on", "off"}] /\ serving \in [Mods -> BOOLEAN]
    /\ req \in [Procs -> [mod : Mods \cup {"none"}, aside : BOOLEAN, todo : Seq(SUBSET Mods),
                         res : {"none", "loaded", "unmet", "failed"},
                         at : {"idle", "copy", "copying", "load", "record", "note", "look", "wake",
                               "unload", "stop", "delete"}]]
    /\ \A p \in Procs :
        /\ IF req[p].at \in {"idle", "wake"} THEN req[p].mod = "none" ELSE req[p].mod \in Mods
        /\ req[p].at \in {"wake", "stop"} => req[p].todo # <<>>
    /\ faults \in Nat /\ kept \subseteq Mods

IInv ==
    /\ LifecycleTypeOK
    /\ \A m \in Mods : Followed(m) /\ (m \notin clash => Covered(m))
=============================================================================
