----------------------------- MODULE LiveStreams -----------------------------
(***************************************************************************)
(* The live positions and the live ticks of a page (main.py:2664-2790,     *)
(* live_stream and stream_ticks of the adapters): a socket, a handler on   *)
(* the event loop that waits for the browser to leave, and a thread that   *)
(* polls the broker until its stop event is set.                           *)
(*                                                                         *)
(* One user and one account: _LIVE_STREAMS has one key, and names the      *)
(* connection whose poller is the account's.  Two awaits apart, what the   *)
(* handler does is one step; a poll is cut at its call to the broker.      *)
(***************************************************************************)
EXTENDS Integers

CONSTANTS
    Conns,
    Refresh,      \* refresh_s and TICK_POLL_MS
    Pause,        \* the wait after a rate limit
    Patience,     \* failed polls in a row that are shown
    Bounds        \* bounds: connections, ticks

VARIABLES
    sock,         \* connection -> "none", "open", or "left" by the browser
    feed,         \* connection -> "positions" or "ticks"
    live,         \* _LIVE_STREAMS, of the one key
    stop,         \* connections whose stop event is set
    poll,         \* connection -> its thread: where it is, failures counted, until when it waits
    page,         \* connection -> what its page shows
    now,
    row,          \* history: polls that failed in a row, a rate limit apart
    left          \* of the bounds, what is left

streamVars == <<sock, feed, live, stop, poll, page, now, row, left>>

None == "none"
NoPoll == [at |-> "ended", fails |-> 0, until |-> 0]
Alive(c) == poll[c].at # "ended"

TypeOK ==
    /\ sock \in [Conns -> {"none", "open", "left"}] /\ feed \in [Conns -> {"positions", "ticks"}]
    /\ live \in Conns \cup {None} /\ stop \subseteq Conns
    /\ poll \in [Conns -> [at : {"starts", "checks", "calls", "waits", "ended"},
                          fails : 0..Patience, until : Nat]]
    /\ page \in [Conns -> {"nothing", "snapshot", "error"}]
    /\ now \in Nat /\ row \in [Conns -> 0..Patience]

Spends(what) == left[what] > 0 /\ left' = [left EXCEPT ![what] = @ - 1]
Shows(c, what) == page' = [page EXCEPT ![c] = IF sock[c] = "open" THEN what ELSE @]

------------------------------------------------------------------------------
(* The handlers. *)

Opened(c, kind) ==
    /\ sock[c] = "none" /\ ~Alive(c) /\ Spends("open")
    /\ sock' = [sock EXCEPT ![c] = "open"] /\ feed' = [feed EXCEPT ![c] = kind]
    /\ poll' = [poll EXCEPT ![c] = [NoPoll EXCEPT !.at = "starts"]]
    /\ page' = [page EXCEPT ![c] = "nothing"] /\ row' = [row EXCEPT ![c] = 0]
    /\ UNCHANGED now

\* ws_positions: the account has one poller, and a new connection stops the one before it.
Opens(c) ==
    /\ Opened(c, "positions")
    /\ live' = c /\ stop' = (stop \ {c}) \cup ({live} \cap Conns)

\* ws_ticks, of a symbol the user's accounts have: every chart has a poller of its own.
OpensTicks(c) ==
    /\ Opened(c, "ticks")
    /\ live' = live /\ stop' = stop \ {c}

Leaves(c) ==
    /\ sock[c] = "open" /\ sock' = [sock EXCEPT ![c] = "left"]
    /\ UNCHANGED <<feed, live, stop, poll, page, now, row, left>>

\* Mutant of Given: whoever leaves takes the account's entry along.
GivenUp(c) == IF feed[c] = "positions" THEN None ELSE live

\* The entry goes with the connection it names, and with no other.
Given(c) == IF live = c THEN None ELSE live

\* receive_text raises: the poller is told to stop.
Notices(c) ==
    /\ sock[c] = "left" /\ sock' = [sock EXCEPT ![c] = "none"]
    /\ stop' = stop \cup {c} /\ live' = Given(c)
    /\ page' = [page EXCEPT ![c] = "nothing"]
    /\ UNCHANGED <<feed, poll, now, row, left>>

------------------------------------------------------------------------------
(* The threads. *)

\* The session is bound and the adapter asked for; a user without one is told.
Starts(c, ok) ==
    /\ poll[c].at = "starts"
    /\ poll' = [poll EXCEPT ![c].at = IF ok THEN "checks" ELSE "ended"]
    /\ IF ok THEN UNCHANGED page ELSE Shows(c, "error")
    /\ UNCHANGED <<sock, feed, live, stop, now, row, left>>

Checks(c) ==
    /\ poll[c].at = "checks"
    /\ poll' = [poll EXCEPT ![c].at = IF c \in stop THEN "ended" ELSE "calls"]
    /\ UNCHANGED <<sock, feed, live, stop, page, now, row, left>>

Waits(c, fails, long) == [at |-> "waits", fails |-> fails, until |-> now + long]

\* Mutant of Served: an answer does not clear the count.
ServedKeeping(c) == Waits(c, poll[c].fails, Refresh)

Served(c) == Waits(c, 0, Refresh)

\* An answer: it is pushed, whether or not the stop was set meanwhile.
Hears(c) ==
    /\ poll[c].at = "calls"
    /\ poll' = [poll EXCEPT ![c] = Served(c)] /\ row' = [row EXCEPT ![c] = 0]
    /\ Shows(c, "snapshot")
    /\ UNCHANGED <<sock, feed, live, stop, now, left>>

\* A poll that failed; a tick is just left out.
Missed(c) ==
    /\ poll[c].at = "calls"
    /\ row' = [row EXCEPT ![c] = IF @ < Patience THEN @ + 1 ELSE @]
    /\ UNCHANGED <<sock, feed, live, stop, now, left>>

MissesTick(c) ==
    /\ feed[c] = "ticks" /\ Missed(c)
    /\ poll' = [poll EXCEPT ![c] = Waits(c, 0, Refresh)] /\ UNCHANGED page

\* Of positions a lone failed poll is not shown, and the wait grows with the failures.
Misses(c) ==
    /\ feed[c] = "positions" /\ Missed(c)
    /\ \E f \in {IF poll[c].fails < Patience THEN poll[c].fails + 1 ELSE Patience} :
          /\ poll' = [poll EXCEPT ![c] = Waits(c, f, Refresh * f)]
          /\ IF f >= Patience THEN Shows(c, "error") ELSE UNCHANGED page

\* A rate limit: no failure, and a long wait.
Limited(c) ==
    /\ poll[c].at = "calls" /\ feed[c] = "positions"
    /\ poll' = [poll EXCEPT ![c] = Waits(c, @.fails, Pause)]
    /\ UNCHANGED <<sock, feed, live, stop, page, now, row, left>>

\* The wait ends by itself or with the stop.
Wakes(c) ==
    /\ poll[c].at = "waits" /\ (c \in stop \/ now >= poll[c].until)
    /\ poll' = [poll EXCEPT ![c].at = "checks", ![c].until = 0]
    /\ UNCHANGED <<sock, feed, live, stop, page, now, row, left>>

Ticks ==
    /\ Spends("tick") /\ now' = now + 1
    /\ UNCHANGED <<sock, feed, live, stop, poll, page, row>>

Init ==
    /\ sock = [c \in Conns |-> "none"] /\ feed = [c \in Conns |-> "positions"]
    /\ live = None /\ stop = {} /\ poll = [c \in Conns |-> NoPoll]
    /\ page = [c \in Conns |-> "nothing"] /\ now = 0 /\ row = [c \in Conns |-> 0]
    /\ left \in Bounds

Next ==
    \/ \E c \in Conns :
        \/ Opens(c) \/ OpensTicks(c) \/ Leaves(c) \/ Notices(c)
        \/ \E ok \in BOOLEAN : Starts(c, ok)
        \/ Checks(c) \/ Hears(c) \/ Misses(c) \/ MissesTick(c) \/ Limited(c) \/ Wakes(c)
    \/ Ticks

------------------------------------------------------------------------------
(* Properties. *)

\* "One poller per (user, account)", so the request rate is never doubled
\* (main.py:2684-2691): of the positions' pollers one at most has not been told to
\* stop, and it is the newest connection's, whatever order tabs open and leave in.
OnePoller ==
    \A c \in Conns : Alive(c) /\ c \notin stop /\ feed[c] = "positions" => live = c

\* A poller that nobody stops has a page to poll for; the newest connection has its
\* poller for as long as it is open, or was told that there is none.  (An older tab
\* is left with the last snapshot it got.)
PollersHavePages ==
    \A c \in Conns :
        /\ Alive(c) /\ c \notin stop => sock[c] # "none"
        /\ sock[c] = "open" /\ live = c => c \notin stop /\ (Alive(c) \/ page[c] = "error")

\* "A lone failed poll does NOT flash a connection error" (broker_base.py:1014-1018):
\* an open page that shows one missed Patience polls in a row, or never had a poller.
ErrorsLast ==
    \A c \in Conns : sock[c] = "open" /\ page[c] = "error" => row[c] = Patience \/ ~Alive(c)

StreamsHold == TypeOK /\ OnePoller /\ PollersHavePages /\ ErrorsLast

------------------------------------------------------------------------------
(* Why it holds: the inductive invariant. *)

\* The entry names a connection whose browser was not seen to leave.
EntryIsOpen == live # None => sock[live] # "none"

\* What is counted never exceeds what failed in a row; a thread that has not begun has
\* shown nothing.
CountsAreTrue ==
    \A c \in Conns :
        /\ poll[c].fails <= row[c]
        /\ poll[c].at = "starts" => page[c] = "nothing"

IInv == StreamsHold /\ EntryIsOpen /\ CountsAreTrue
==============================================================================
