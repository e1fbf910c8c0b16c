---------------------------- MODULE BrokerSession ----------------------------
(***************************************************************************)
(* A login at the TradeLocker broker: the tokens in the database, the      *)
(* copies of them in the adapters of its accounts, and the orders threads  *)
(* place through those adapters                                            *)
(* (modules/tradelocker/backend/tradelocker/api.py, trader.py, module.py). *)
(*                                                                         *)
(* Tokens are numbers in the order of issue.  The broker is external: it   *)
(* may hand out a new refresh token with an access token, may then refuse  *)
(* the old one, and may carry an order out without its answer arriving.    *)
(***************************************************************************)
EXTENDS Naturals

CONSTANTS
    Traders,     \* adapters, one for each account of the login
    Threads,
    Attempts,    \* range(5) in request
    Bounds       \* orders, expiries, logins, faults

VARIABLES
    row,         \* tradelocker_user_sessions, the login's row
    valid,       \* refresh tokens the broker takes
    minted,      \* the last token issued
    dead,        \* access tokens up to this one have expired
    mem,         \* adapter -> its TLSession
    call,        \* thread -> its request
    login,       \* a connect under way
    past,        \* histories
    left         \* what is left of the bounds

sessionVars == <<row, valid, minted, dead, mem, call, login, past, left>>

None == 0
NoRow == [here |-> FALSE, id |-> 1, access |-> None, refresh |-> None]
Unloaded == [id |-> 0, access |-> None, refresh |-> None]
Idle == [at |-> "idle", via |-> "nobody", tries |-> 0, back |-> "send", access |-> None,
         refresh |-> None, did |-> 0, lost |-> FALSE, told |-> "nothing"]

Goes(t, rec) == call' = [call EXCEPT ![t] = rec]
At(t, stage) == [call[t] EXCEPT !.at = stage]
Spend(what) == left[what] > 0 /\ left' = [left EXCEPT ![what] = @ - 1]

\* New tokens that are not in the row yet.
UnderWay(t) == call[t].at \in {"posted", "persist"}

------------------------------------------------------------------------------
(* TLSession. *)

\* A cached adapter is asked for; one that is not there loads the row.
Loads(a) ==
    /\ mem[a].id = 0 /\ row.here
    /\ mem' = [mem EXCEPT ![a] = [id |-> row.id, access |-> row.access, refresh |-> row.refresh]]
    /\ UNCHANGED <<row, valid, minted, dead, call, login, past, left>>

\* request, here a POST of an order: refresh first what is about to expire.
Starts(t, a) ==
    /\ call[t].at \in {"idle", "done"} /\ mem[a].id # 0 /\ Spend("order")
    /\ Goes(t, [Idle EXCEPT !.at = IF mem[a].access <= dead THEN "refresh" ELSE "send", !.back = "fail",
                    !.via = a])
    /\ UNCHANGED <<row, valid, minted, dead, mem, login, past>>

\* A refresh that fails ends the request before its first attempt and is let go
\* after a refused one.
Failed(t) ==
    IF call[t].back = "fail" THEN [call[t] EXCEPT !.at = "done", !.told = "failed"]
    ELSE At(t, "send")

\* The refresh token is posted; what the broker does with it and what arrives.
Posts(t) ==
    /\ call[t].at = "refresh"
    /\ LET sent == mem[call[t].via].refresh IN
       \/ /\ sent \notin valid
          /\ Goes(t, Failed(t)) /\ UNCHANGED <<valid, minted, past, left>>
       \/ /\ Spend("fault")
          /\ Goes(t, Failed(t)) /\ UNCHANGED <<valid, minted, past>>
       \/ /\ sent \in valid
          /\ minted' = minted + 1
          /\ \E new \in {sent, minted + 1} :
                /\ \E old \in {{}, {sent} \ {new}} : valid' = (valid \cup {new}) \ old
                /\ \/ /\ Goes(t, [At(t, "posted") EXCEPT !.access = minted + 1, !.refresh = new])
                      /\ past' = [past EXCEPT !.adrift = @ \/ \E u \in Threads \ {t} : UnderWay(u)]
                      /\ UNCHANGED left
                   \/ /\ Spend("fault")
                      /\ Goes(t, Failed(t))
                      /\ past' = [past EXCEPT !.adrift = TRUE]
    /\ UNCHANGED <<row, dead, mem, login>>

\* Mutant of Rotated: the refresh token sent along is overlooked.
RotatedAccess(session, access, refresh) == [session EXCEPT !.access = access]

Rotated(session, access, refresh) == [session EXCEPT !.access = access, !.refresh = refresh]

\* The answer becomes the adapter's session, and what on_rotate is given.
Assigns(t) ==
    /\ call[t].at = "posted"
    /\ \E s \in {Rotated(mem[call[t].via], call[t].access, call[t].refresh)} :
          /\ mem' = [mem EXCEPT ![call[t].via] = s]
          /\ Goes(t, [At(t, "persist") EXCEPT !.access = s.access, !.refresh = s.refresh])
    /\ UNCHANGED <<row, valid, minted, dead, login, past, left>>

\* Mutant of Persisted: an upsert.
PersistedAnyhow(id, access, refresh) == [here |-> TRUE, id |-> row.id, access |-> access, refresh |-> refresh]

\* _persist_tokens: UPDATE ... WHERE id.
Persisted(id, access, refresh) ==
    IF row.here /\ row.id = id THEN [row EXCEPT !.access = access, !.refresh = refresh] ELSE row

\* A write that fails is let go.
Persists(t) ==
    /\ call[t].at = "persist"
    /\ Goes(t, At(t, "send"))
    /\ \/ /\ row' = Persisted(mem[call[t].via].id, call[t].access, call[t].refresh)
          /\ past' = [past EXCEPT !.undone = @ \/ (~row.here /\ row'.here)]
          /\ UNCHANGED left
       \/ Spend("fault") /\ past' = [past EXCEPT !.adrift = TRUE] /\ UNCHANGED row
    /\ UNCHANGED <<valid, minted, dead, mem, login>>

\* One attempt.  A refused token is refreshed, and only what may pass is tried again.
Sends(t) ==
    /\ call[t].at = "send" /\ call[t].tries < Attempts
    /\ \E rec \in {[call[t] EXCEPT !.tries = @ + 1, !.back = "send"]} :
        \/ /\ mem[rec.via].access <= dead
           /\ Goes(t, [rec EXCEPT !.at = "refresh"]) /\ UNCHANGED left
        \/ /\ mem[rec.via].access > dead
           /\ \/ Goes(t, [rec EXCEPT !.at = "done", !.did = @ + 1, !.told = "done"]) /\ UNCHANGED left
              \/ Goes(t, [rec EXCEPT !.at = "done", !.told = "refused"]) /\ UNCHANGED left
              \/ Goes(t, rec) /\ Spend("fault")
              \/ Goes(t, [rec EXCEPT !.did = @ + 1, !.lost = TRUE]) /\ Spend("fault")
    /\ UNCHANGED <<row, valid, minted, dead, mem, login, past>>

\* The last answer or exception stands for the request.
GivesUp(t) ==
    /\ call[t].at = "send" /\ call[t].tries = Attempts
    /\ Goes(t, [At(t, "done") EXCEPT !.told = "failed"])
    /\ UNCHANGED <<row, valid, minted, dead, mem, login, past, left>>

------------------------------------------------------------------------------
(* The user, the broker and the process. *)

\* connect: new tokens, then the row, which keeps its id if it is there.
LogsIn ==
    /\ login = None /\ Spend("login")
    /\ minted' = minted + 1 /\ login' = minted + 1 /\ valid' = valid \cup {minted + 1}
    /\ UNCHANGED <<row, dead, mem, call, past>>
Connects ==
    /\ login # None /\ login' = None
    /\ row' = [here |-> TRUE, id |-> IF row.here THEN row.id ELSE row.id + 1, access |-> login, refresh |-> login]
    /\ past' = [past EXCEPT !.adrift = @ /\ \E t \in Threads : UnderWay(t)]
    /\ UNCHANGED <<valid, minted, dead, mem, call, left>>

Disconnects ==
    /\ row.here /\ row' = [row EXCEPT !.here = FALSE]
    /\ UNCHANGED <<valid, minted, dead, mem, call, login, past, left>>

Expires ==
    /\ dead < minted /\ Spend("expiry") /\ dead' = minted
    /\ UNCHANGED <<row, valid, minted, mem, call, login, past>>

Crashes ==
    /\ Spend("fault")
    /\ mem' = [a \in Traders |-> Unloaded] /\ call' = [t \in Threads |-> Idle] /\ login' = None
    /\ past' = [past EXCEPT !.adrift = @ \/ \E t \in Threads : UnderWay(t)]
    /\ UNCHANGED <<row, valid, minted, dead>>

Init ==
    /\ row = NoRow /\ valid = {} /\ minted = 0 /\ dead = 0 /\ login = None
    /\ mem = [a \in Traders |-> Unloaded] /\ call = [t \in Threads |-> Idle]
    /\ past = [adrift |-> FALSE, undone |-> FALSE] /\ left \in Bounds

Next ==
    \/ LogsIn \/ Connects \/ Disconnects \/ Expires \/ Crashes
    \/ \E a \in Traders : Loads(a)
    \/ \E t \in Threads :
        \/ Posts(t) \/ Assigns(t) \/ Persists(t) \/ Sends(t) \/ GivesUp(t)
        \/ \E a \in Traders : Starts(t, a)

Spec == Init /\ [][Next]_sessionVars

------------------------------------------------------------------------------
SessionTypeOK ==
    /\ row.here \in BOOLEAN /\ {row.access, row.refresh, dead, login} \cup valid \subseteq 0..minted
    /\ \A t \in Threads :
        /\ call[t].at \in {"idle", "refresh", "posted", "persist", "send", "done"}
        /\ call[t].tries <= Attempts

\* An order is carried out once and reported so (api.py:186-218), unless the broker
\* carried it out and the answer never came: then it is placed again.
OrdersAreOnce ==
    \A t \in Threads : call[t].at = "done" /\ ~call[t].lost => call[t].did = IF call[t].told = "done" THEN 1 ELSE 0

\* The login outlives its tokens (trader.py:128-138): the refresh token in the row is
\* one the broker takes, once what is under way is written, unless an answer or a
\* write was lost, the process died over one, or two refreshes overlapped.
LoginOutlives ==
    row.here /\ ~past.adrift /\ (\A t \in Threads : ~UnderWay(t)) => row.refresh \in valid

\* A login the user took off does not come back by itself (module.py:210-231).
StaysOff == ~past.undone

SessionHolds == SessionTypeOK /\ OrdersAreOnce /\ LoginOutlives /\ StaysOff

------------------------------------------------------------------------------
(* Why it holds: the inductive invariant. *)

Tokens(m) == [id : Nat, access : 0..m, refresh : 0..m]
Requests(m) ==
    [at : {"idle", "refresh", "posted", "persist", "send", "done"}, via : Traders \cup {"nobody"},
     tries : 0..Attempts, back : {"send", "fail"}, access : 0..m, refresh : 0..m, did : Nat,
     lost : BOOLEAN, told : {"nothing", "done", "refused", "failed"}]

SessionsTyped ==
    /\ minted \in Nat /\ {row.access, row.refresh, dead, login} \cup valid \subseteq 0..minted
    /\ row \in [here : BOOLEAN, id : Nat, access : Nat, refresh : Nat]
    /\ mem \in [Traders -> Tokens(minted)]
    /\ past \in [adrift : BOOLEAN, undone : BOOLEAN]
    /\ call \in [Threads -> Requests(minted)]
    /\ \A t \in Threads : call[t].at \notin {"idle", "done"} => call[t].via \in Traders /\ mem[call[t].via].id # 0

\* What was done of a request whose answers all arrived.
DidIsTold ==
    \A t \in Threads : ~call[t].lost =>
        call[t].did = IF call[t].at = "done" /\ call[t].told = "done" THEN 1 ELSE 0

\* Who holds a refresh token, with the row each believes it belongs to.
Holdings ==
    {<<row.refresh, row.id>>}
    \cup {<<mem[a].refresh, mem[a].id>> : a \in {a \in Traders : mem[a].id # 0}}
    \cup {<<call[t].refresh, mem[call[t].via].id>> : t \in {t \in Threads : UnderWay(t)}}

\* A token is of one row, and nobody holds that of a login under way.
OneFamily ==
    /\ \A p, q \in Holdings : p[1] = q[1] => p[2] = q[2]
    /\ login # None => login \in valid /\ \A p \in Holdings : p[1] # login

\* While nothing went adrift one thread at most has new tokens, and either the row's
\* still passes or that thread is about to write the row.
RowCatchesUp == ~past.adrift =>
    /\ \A t \in Threads : UnderWay(t) => call[t].refresh \in valid /\ \A u \in Threads : UnderWay(u) => u = t
    /\ row.here => \/ row.refresh \in valid
                   \/ \E t \in Threads : UnderWay(t) /\ mem[call[t].via].id = row.id

IInv == SessionHolds /\ SessionsTyped /\ DidIsTold /\ OneFamily /\ RowCatchesUp
==============================================================================
