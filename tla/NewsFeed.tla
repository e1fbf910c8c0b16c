------------------------------- MODULE NewsFeed -------------------------------
(***************************************************************************)
(* The worker of the news module (modules/news/backend/news.py): list both *)
(* sources, read the pages of the stories that are new or revised, store   *)
(* them, wait.                                                             *)
(*                                                                         *)
(* The sources are external: a story appears and is revised, a listing     *)
(* comes back empty or fails, a page cannot be read.  A version of a story *)
(* stands for the moment its source says it was published.                 *)
(***************************************************************************)
EXTENDS Naturals, FiniteSets

CONSTANTS
    Loops,       \* worker threads there may be at once
    SourceOf,    \* story -> its source
    Bounds       \* bounds: records of versions, faults and switches

VARIABLES
    shown,       \* story -> the version its source shows, 0 before it appears
    rows,        \* story -> [version, body]: news_articles, 0 for none
    started,     \* _started
    stop,        \* _stop
    loop,        \* thread -> where it is, and what it has in hand
    unread,      \* history: stories stored without the page of that version
    left         \* what is left of the member of Bounds of this behaviour

newsVars == <<shown, rows, started, stop, loop, unread, left>>

Stories == DOMAIN SourceOf
Sources == {SourceOf[a] : a \in Stories}
None == [a \in Stories |-> 0]

\* listed, bodies: what the cycle at hand listed and read; done: what the last
\* clean one that ran alone had listed.
Thread(at, listed, fresh, bodies, alone, done) ==
    [at |-> at, listed |-> listed, fresh |-> fresh, bodies |-> bodies, alone |-> alone, done |-> done]
Waiting(done) == Thread("wait", None, {}, None, FALSE, done)
Gone == Thread("off", None, {}, None, FALSE, None)

At(l, s) == loop[l].at = s
Become(l, rec) == loop' = [loop EXCEPT ![l] = rec]
Spends(what) == left[what] > 0 /\ left' = [left EXCEPT ![what] = left[what] - 1]

-------------------------------------------------------------------------------
(* fetch_once. *)

Ends(l) ==
    /\ At(l, "wait") /\ stop
    /\ Become(l, Gone)
    /\ UNCHANGED <<shown, rows, started, stop, unread, left>>

\* Both listings; one that is empty or fails leaves the other's.
Lists(l) ==
    /\ At(l, "wait") /\ ~stop
    /\ \E dead \in {{}} \cup {{s} : s \in Sources} :
        /\ IF dead = {} THEN UNCHANGED left ELSE Spends("faults")
        /\ \E alone \in BOOLEAN :
              /\ alone <=> \A k \in Loops \ {l} : At(k, "off")
              /\ Become(l, Thread("know", [a \in Stories |-> IF SourceOf[a] \in dead THEN 0 ELSE shown[a]],
                                  {}, None, alone, loop[l].done))
    /\ UNCHANGED <<shown, rows, started, stop, unread>>

\* Mutant of Fresh: a story that is known is not read again.
FreshByKey(a, listed) == rows[a].version = 0

\* Never stored, or revised by its source.
Fresh(a, listed) == rows[a].version # listed[a]

\* _known.
Knows(l) == LET listed == loop[l].listed IN
    /\ At(l, "know")
    /\ Become(l, Thread("read", listed, {a \in Stories : listed[a] > 0 /\ Fresh(a, listed)}, None,
                        loop[l].alone, loop[l].done))
    /\ UNCHANGED <<shown, rows, started, stop, unread, left>>

\* _fill_content, of pages that show the story as it is by now; one that cannot
\* be read is no reason to leave the story out.
Reads(l) ==
    /\ At(l, "read")
    /\ \E lost \in {{}} \cup {{a} : a \in loop[l].fresh} :
        /\ IF lost = {} THEN UNCHANGED left ELSE Spends("faults")
        /\ Become(l, Thread("save", loop[l].listed, loop[l].fresh,
                            [a \in Stories |-> IF a \in loop[l].fresh \ lost THEN shown[a] ELSE 0],
                            loop[l].alone, loop[l].done))
    /\ UNCHANGED <<shown, rows, started, stop, unread>>

\* save: one transaction; a body is never overwritten with none.
Saves(l) ==
    LET fresh == loop[l].fresh
        bodies == loop[l].bodies
    IN  /\ At(l, "save")
        /\ rows' = [a \in Stories |->
                      IF a \in fresh
                      THEN [version |-> loop[l].listed[a],
                            body |-> IF bodies[a] > 0 THEN bodies[a] ELSE rows[a].body]
                      ELSE rows[a]]
        /\ unread' = (unread \ fresh) \cup {a \in fresh : bodies[a] = 0}
        /\ Become(l, Waiting(IF loop[l].alone THEN loop[l].listed ELSE None))
        /\ UNCHANGED <<shown, started, stop, left>>

\* The table could not be read or written: nothing of the cycle is kept.
Fails(l) ==
    /\ At(l, "know") \/ At(l, "save")
    /\ Spends("faults")
    /\ Become(l, Waiting(loop[l].done))
    /\ UNCHANGED <<shown, rows, started, stop, unread>>

-------------------------------------------------------------------------------
(* The module's switch, and the sources. *)

Stops ==
    /\ started /\ Spends("switches")
    /\ stop' = TRUE /\ started' = FALSE
    /\ UNCHANGED <<shown, rows, loop, unread>>

\* start_fetcher, while the old thread may be in the middle of a cycle.
Starts ==
    /\ ~started
    /\ started' = TRUE /\ stop' = FALSE
    /\ \E l \in Loops : At(l, "off") /\ Become(l, Waiting(None))
    /\ UNCHANGED <<shown, rows, unread, left>>

Publishes(a) ==
    /\ shown[a] < left.versions
    /\ shown' = [shown EXCEPT ![a] = shown[a] + 1]
    /\ UNCHANGED <<rows, started, stop, loop, unread, left>>

-------------------------------------------------------------------------------
Init ==
    /\ shown = None
    /\ rows = [a \in Stories |-> [version |-> 0, body |-> 0]]
    /\ started = TRUE /\ stop = FALSE
    /\ loop \in {[k \in Loops |-> IF k = l THEN Waiting(None) ELSE Gone] : l \in Loops}
    /\ unread = {}
    /\ left \in Bounds

Next ==
    \/ \E l \in Loops : Ends(l) \/ Lists(l) \/ Knows(l) \/ Reads(l) \/ Saves(l) \/ Fails(l)
    \/ Stops \/ Starts \/ \E a \in Stories : Publishes(a)

Spec == Init /\ [][Next]_newsVars

-------------------------------------------------------------------------------
(* Properties. *)

\* What a cycle listed is stored by its end, at that version or a later one,
\* though the other source was dead, pages could not be read or earlier cycles
\* failed.  (A cycle that began beside another loop, after a quick restart, may
\* save what is older than the other's.)
ListedIsStored ==
    \A l \in Loops, a \in Stories : At(l, "wait") => rows[a].version >= loop[l].done[a]

\* A story's text is not older than its version, unless its page could not be
\* read when it was new; it is then never read again until the next revision.
TextIsCurrent ==
    \A a \in Stories : rows[a].body < rows[a].version => a \in unread

\* Both.
NewsIsKept == ListedIsStored /\ TextIsCurrent

-------------------------------------------------------------------------------
(* Why it holds: the inductive invariant. *)

Versions == [Stories -> Nat]
Cycling == {l \in Loops : loop[l].at \in {"know", "read", "save"}}

NewsTypeOK ==
    /\ shown \in Versions
    /\ rows \in [Stories -> [version : Nat, body : Nat]]
    /\ loop \in [Loops -> [at : {"off", "wait", "know", "read", "save"}, listed : Versions,
                           fresh : SUBSET Stories, bodies : Versions, alone : BOOLEAN, done : Versions]]
    /\ \A l \in Loops : loop[l].at = "off" => loop[l].done = None

\* What a thread has in hand its source has shown; what it reads is no older.
HandsAreTrue ==
    \A l \in Cycling, a \in Stories :
        /\ loop[l].listed[a] <= shown[a]
        /\ loop[l].at = "save" /\ loop[l].bodies[a] > 0 => loop[l].bodies[a] >= loop[l].listed[a]

\* What was listed alone is stored, and nobody at work listed earlier.
DoneIsStored ==
    \A l \in Loops, a \in Stories :
        /\ loop[l].done[a] <= shown[a] /\ loop[l].done[a] <= rows[a].version
        /\ \A k \in Cycling : loop[k].listed[a] > 0 => loop[k].listed[a] >= loop[l].done[a]

\* A cycle that began alone: who lists beside it lists later, and what it has no
\* need to read is stored.
AloneIsAhead ==
    \A l \in Cycling, a \in Stories : loop[l].alone =>
        /\ \A k \in Cycling : loop[k].listed[a] > 0 => loop[k].listed[a] >= loop[l].listed[a]
        /\ loop[l].at # "know" /\ a \notin loop[l].fresh => rows[a].version >= loop[l].listed[a]

FreshIsListed ==
    \A l \in Cycling : \A a \in loop[l].fresh : loop[l].listed[a] > 0

IInv == NewsIsKept /\ NewsTypeOK /\ HandsAreTrue /\ DoneIsStored /\ AloneIsAhead /\ FreshIsListed
===============================================================================
