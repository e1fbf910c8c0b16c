---------------------------- MODULE TradingDesk ----------------------------
(***************************************************************************)
(* One user's trading accounts: what the connected brokers own, which of   *)
(* it the user lets the app touch, the active one, and the requests that   *)
(* bind to it (backend/brokers.py, user_session.py, trading_api.trader,    *)
(* the account handlers of main.py, modules/tradelocker/backend/module.py). *)
(*                                                                         *)
(* Every read and every write is a transaction of its own, so each request *)
(* is at a stage between two of them.                                      *)
(***************************************************************************)
EXTENDS FiniteSets

CONSTANTS
    BrokerOf,     \* account -> its broker
    Handlers      \* requests at once

VARIABLES
    owned,        \* accounts of the connected logins
    picks,        \* broker -> Unasked or the accounts made available
    active,       \* exness_settings.active_account
    desk,         \* handler -> its stage
    stale,        \* history: handlers whose reading a later choice overtook
    raced,        \* history: a handler wrote upon such a reading
    used          \* exness_settings.active_broker

deskVars == <<owned, picks, active, desk, stale, raced, used>>

Accounts == DOMAIN BrokerOf
Brokers == {BrokerOf[a] : a \in Accounts}
Of(b) == {a \in Accounts : BrokerOf[a] = b}
None == "none"
Unasked == {"unasked"}
Request(stage, broker, acct, set) ==
    [stage |-> stage, broker |-> broker, acct |-> acct, set |-> set, fresh |-> FALSE]
NoRequest == Request("idle", None, None, {})

\* available: not having been asked is having chosen all; an empty choice is none.
IsAvailable(a) == LET p == picks[BrokerOf[a]] IN p = Unasked \/ a \in p

IsAt(h, stage) == desk[h].stage = stage
Moves(h, rec) == desk' = [desk EXCEPT ![h] = rec]
Ends(h) == Moves(h, NoRequest) /\ stale' = stale \ {h}

\* An active account written by h, upon a reading that may be stale; whoever is
\* about to replace the account of another broker is overtaken.
Writes(h, a, b) ==
    /\ active' = a /\ used' = b /\ raced' = (h \in stale)
    /\ Moves(h, NoRequest)
    /\ stale' = (stale \cup {g \in Handlers : IsAt(g, "replace") /\ desk[g].broker # b}) \ {h}

-----------------------------------------------------------------------------
(* The choice of an account. *)

\* set_active_account_unified up to its write.
Chooses(h, a) ==
    /\ IsAt(h, "idle") /\ a \in owned /\ IsAvailable(a)
    /\ Moves(h, Request("activate", BrokerOf[a], a, {}))
    /\ UNCHANGED <<owned, picks, active, used, stale, raced>>

Activates(h) ==
    /\ IsAt(h, "activate")
    /\ Writes(h, desk[h].acct, desk[h].broker)
    /\ UNCHANGED <<owned, picks>>

\* set_available's first transaction: whoever read the broker's choice is overtaken.
Picks(h, b, s) ==
    /\ IsAt(h, "idle")
    /\ picks' = [picks EXCEPT ![b] = s]
    /\ stale' = stale \cup {g \in Handlers : desk[g].broker = b /\ ~IsAt(g, "connected")}
    /\ desk' = [g \in Handlers |->
                  IF g = h THEN Request("drop", b, None, s)
                  ELSE [desk[g] EXCEPT !.fresh = FALSE]]
    /\ UNCHANGED <<owned, active, used, raced>>

\* Mutant of DropsFrom: what is still the active account is left alone.
DropsNothing(a, h) == FALSE

\* _drop_active_if_unavailable's early returns ...
DropsFrom(a, h) == a # None /\ used = desk[h].broker /\ a \notin desk[h].set

\* ... upon its SELECT,
Drops(h) ==
    /\ IsAt(h, "drop")
    /\ IF DropsFrom(active, h)
       THEN Moves(h, [desk[h] EXCEPT !.stage = "replace"]) /\ UNCHANGED stale
       ELSE Ends(h)
    /\ UNCHANGED <<owned, picks, active, used, raced>>

\* and its UPDATE: the first of the picks, if there are any, under whatever
\* broker is in use by now.
Replaces(h) == LET s == desk[h].set IN
    /\ IsAt(h, "replace")
    /\ \E a \in (IF s = {} THEN {None} ELSE s) : Writes(h, a, used)
    /\ UNCHANGED <<owned, picks>>

-----------------------------------------------------------------------------
(* Connecting and disconnecting. *)

\* The login's rows are committed; ensure_active_account comes next.
Connects(h, b) ==
    /\ IsAt(h, "idle")
    /\ owned' = owned \cup Of(b)
    /\ Moves(h, Request("connected", b, None, {}))
    /\ UNCHANGED <<picks, active, used, stale, raced>>

\* It reads the choice, and stops if it leaves nothing,
Considers(h) == LET may == {a \in Of(desk[h].broker) : IsAvailable(a)} IN
    /\ IsAt(h, "connected")
    /\ IF may = {} THEN Ends(h)
       ELSE Moves(h, Request("ensure", desk[h].broker, None, may)) /\ UNCHANGED stale
    /\ UNCHANGED <<owned, picks, active, used, raced>>

\* reads the active account, which stays if the broker in use owns it, and picks
\* the first.
Decides(h) ==
    /\ IsAt(h, "ensure")
    /\ IF active \in owned /\ BrokerOf[active] = used THEN Ends(h)
       ELSE /\ \E a \in desk[h].set :
                 Moves(h, Request("activate", desk[h].broker, a, {}))
            /\ UNCHANGED stale
    /\ UNCHANGED <<owned, picks, active, used, raced>>

\* disconnect: one transaction; no adapter is dropped.
Disconnects(b) ==
    /\ owned' = owned \ Of(b)
    /\ active' = IF used = b THEN None ELSE active
    /\ raced' = (raced /\ active' # None)
    /\ UNCHANGED <<picks, desk, stale, used>>

-----------------------------------------------------------------------------
(* A request that trades. *)

Owes(h) == IsAt(h, "drop") \/ IsAt(h, "replace")
DropPending(a) == a # None /\ \E h \in Handlers : Owes(h) /\ desk[h].broker = BrokerOf[a]

\* user_session.bind.
Binds(h) ==
    /\ IsAt(h, "idle")
    /\ Moves(h, [stage |-> "bound", broker |-> None, acct |-> active, set |-> {},
                 fresh |-> ~raced /\ ~DropPending(active)])
    /\ UNCHANGED <<owned, picks, active, used, stale, raced>>

\* trader(account): on what it is bound to, or what it names; either way it
\* changes nothing here, and is done.
Acts(h) ==
    /\ IsAt(h, "bound")
    /\ Ends(h)
    /\ UNCHANGED <<owned, picks, active, used, raced>>

\* The process starts again.
Restarts ==
    /\ desk' = [h \in Handlers |-> NoRequest] /\ stale' = {}
    /\ raced' = (raced \/ DropPending(active))
    /\ UNCHANGED <<owned, picks, active, used>>

-----------------------------------------------------------------------------
Init ==
    /\ owned = {} /\ picks = [b \in Brokers |-> Unasked] /\ active = None /\ used = None
    /\ desk = [h \in Handlers |-> NoRequest]
    /\ stale = {} /\ raced = FALSE

Next ==
    \/ \E h \in Handlers :
        \/ \E a \in Accounts : Chooses(h, a)
        \/ Activates(h) \/ Drops(h) \/ Replaces(h) \/ Considers(h) \/ Decides(h) \/ Binds(h) \/ Acts(h)
        \/ \E b \in Brokers : Connects(h, b) \/ \E s \in SUBSET Of(b) : Picks(h, b, s)
    \/ \E b \in Brokers : Disconnects(b)
    \/ Restarts

Spec == Init /\ [][Next]_deskVars

-----------------------------------------------------------------------------
(* Properties. *)

\* "Taking away the account the app is acting on has to move it, or the next
\* call trades somewhere the user just said no to" (brokers.py:189-192): the
\* active account is one the user made available, of the broker in use, and so
\* is the account of any request bound since the last choice, over choices,
\* connections and disconnections in any order.  Excepted: while the move is
\* still to be written, and after a handler that read the choice, or the broker
\* in use, before it changed, or the end of the process, came between the
\* statements.  That it is connected is not said: what is picked is not looked
\* up, and a disconnection may fall between an account's check and its choice.
ActiveInReach ==
    /\ active # None /\ ~raced => BrokerOf[active] = used /\ (~DropPending(active) => IsAvailable(active))
    /\ \A h \in Handlers :
           IsAt(h, "bound") /\ desk[h].fresh /\ desk[h].acct # None => IsAvailable(desk[h].acct)

-----------------------------------------------------------------------------
(* Why it holds: the inductive invariant. *)

DeskTypeOK ==
    /\ active \in Accounts \cup {None} /\ used \in Brokers \cup {None}
    /\ picks \in [Brokers -> SUBSET (Accounts \cup Unasked)]
    /\ desk \in [Handlers -> [stage : {"idle", "activate", "drop", "replace", "connected", "ensure", "bound"},
                             broker : Brokers \cup {None}, acct : Accounts \cup {None},
                             set : SUBSET Accounts, fresh : BOOLEAN]]

\* A reading is of what a handler is about to write, and an idle one has none.
ReadingsAreTrue ==
    \A h \in Handlers :
        /\ IsAt(h, "idle") => h \notin stale /\ desk[h].broker = None
        /\ IsAt(h, "activate") => desk[h].acct # None /\ BrokerOf[desk[h].acct] = desk[h].broker
        /\ IsAt(h, "ensure") \/ Owes(h) => \A a \in desk[h].set : BrokerOf[a] = desk[h].broker
        /\ h \notin stale =>
              /\ IsAt(h, "activate") => IsAvailable(desk[h].acct)
              /\ IsAt(h, "ensure") => \A a \in desk[h].set : IsAvailable(a)
              /\ Owes(h) => picks[desk[h].broker] = desk[h].set
              /\ IsAt(h, "replace") => used = desk[h].broker

\* It takes a move that is still to be written, upon the last choice, for the active
\* account to be out of reach.
OnlyMovesAreOwed ==
    active # None /\ ~raced /\ ~IsAvailable(active) =>
        \E h \in Handlers \ stale : Owes(h) /\ desk[h].broker = BrokerOf[active]

IInv == DeskTypeOK /\ ReadingsAreTrue /\ OnlyMovesAreOwed /\ ActiveInReach
=============================================================================
