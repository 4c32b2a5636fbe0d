---------------------------- MODULE OfflineQueue ----------------------------
(***************************************************************************)
(* Orders taken at a POS without network.  POSPage puts them in IndexedDB  *)
(* (posDb.offlineOrders), which all tabs of the browser share, and replays *)
(* them through the API client of LoginSessions.                           *)
(*                                                                         *)
(* queryClient.ts leaves the network mode of mutations at TanStack Query's *)
(* default: without network a mutation waits, in the memory of its tab,    *)
(* and runs when the network is back, before React draws the page again.   *)
(* So mutationFn still sees isOnline = false, and puts the order in        *)
(* IndexedDB only then.                                                    *)
(***************************************************************************)
EXTENDS LoginSessions

CONSTANTS
    Entries,    \* slots for queued orders
    MaxCopies   \* the counts of orders and excuses saturate here

ASSUME EntriesAssumption == Entries \subseteq Nat
ASSUME MaxCopiesAssumption == MaxCopies \in Nat \ {0}

VARIABLES
    online,     \* navigator.onLine
    due,        \* tabs whose effect on isOnline has not run yet
    held,       \* the orders whose mutation waits, in each tab
    entry,      \* orders: absent, taken, or in offlineOrders as queued or synced
    placed,     \* orders the server created for each entry
    excuses,    \* answers lost and claims rolled back, for each entry
    sync        \* what each run of syncOfflineOrders holds

queueVars == <<online, due, held, entry, placed, excuses, sync>>
vars == <<sessionVars, calls, queueVars>>

\* What a run does outside its call in flight.  A call without an entry is one of
\* another page.
SyncStep == {"none", "claim", "loop", "send"}
Sync == [at : SyncStep, tab : Tabs \cup {None}, batch : SUBSET Entries,
         entry : Entries \cup {None}]
NoSync == [at |-> "none", tab |-> None, batch |-> {}, entry |-> None]

Free(r) == First(r, {q \in Calls : Idle(q) /\ sync[q].at = "none"})
Unsynced == {e \in Entries : entry[e] = "queued"}
Plus(n) == IF n < MaxCopies THEN n + 1 ELSE n
Waiting == UNION {held[t] : t \in Tabs}
Signed(t) == tab[t].open /\ tab[t].store.session # None
Running(r) == sync[r].at # "none" /\ tab[sync[r].tab].open

GoSync(r, new) == sync' = [sync EXCEPT ![r] = new]

\* The loop goes on with what is left of the batch, or ends.
Loop(r, batch) == GoSync(r, IF batch = {} THEN NoSync
                            ELSE [sync[r] EXCEPT !.at = "loop", !.entry = None,
                                                 !.batch = batch])

-----------------------------------------------------------------------------
(* The network, and the tabs that listen to it                             *)

\* The POS page exists while somebody is signed in.
\* Waiting mutations go on first (in tabs that are visible) and add their orders to
\* offlineOrders; one whose add fails reports it and is taken back.
GoOnline ==
    /\ ~online
    /\ online' = TRUE
    /\ due' = {t \in Tabs : Signed(t)}
    /\ \E lost \in SUBSET Waiting :
          /\ lost # {} => "abort" \in calls
          /\ entry' = [e \in Entries |-> IF e \in lost THEN "absent"
                                       ELSE IF e \in Waiting THEN "queued" ELSE entry[e]]
    /\ held' = [t \in Tabs |-> {}]
    /\ UNCHANGED <<sessionVars, calls, placed, excuses, sync>>

GoOffline ==
    /\ online
    /\ online' = FALSE
    /\ UNCHANGED <<sessionVars, calls, due, held, entry, placed, excuses, sync>>

\* The page is mounted: after a reload, or after signing in.
Mount(t) == due' = IF online /\ tab'[t].store.session # None THEN due \cup {t} ELSE due

\* There is no service worker: the page comes from the network.
Load(t) ==
    /\ online
    /\ OpenTab(t)
    /\ Mount(t)
    /\ UNCHANGED <<calls, online, held, entry, placed, excuses, sync>>

\* The orders a closed tab held are gone.
Leave(t) ==
    /\ CloseTab(t)
    /\ due' = due \ {t}
    /\ held' = [held EXCEPT ![t] = {}]
    /\ UNCHANGED <<calls, online, entry, placed, excuses, sync>>

SignIn(t, s) ==
    /\ online
    /\ Login(t, s) \/ Register(t, s)
    /\ Mount(t)
    /\ UNCHANGED <<calls, online, held, entry, placed, excuses, sync>>

\* What ends a login, and the clock.
LoginEnds ==
    /\ \/ \E t \in Tabs : Logout(t) \/ AccessExpires(t)
       \/ \E S \in SUBSET Sessions : Revoke(S)
       \/ \E s \in Sessions : SessionExpires(s)
    /\ UNCHANGED <<calls, queueVars>>

-----------------------------------------------------------------------------
(* POSPage                                                                 *)

\* placeOrderMutation and quickOrderMutation without network: each waits once, its
\* button is disabled until it is done.
TakeOrder(t, e) ==
    /\ ~online /\ Signed(t)
    /\ First(e, {f \in Entries : entry[f] = "absent"})
    /\ "secondOrder" \in calls \/ \A f \in Entries : entry[f] = "absent"
    /\ Cardinality(held[t]) < 2
    /\ entry' = [entry EXCEPT ![e] = "taken"]
    /\ held' = [held EXCEPT ![t] = @ \cup {e}]
    /\ UNCHANGED <<sessionVars, calls, online, due, placed, excuses, sync>>

\* placeOrderMutation reads the cart and the table when it goes on, and choosing
\* another table empties the cart: the order that waits is lost.
PickTable(t, e) ==
    /\ "wander" \in calls
    /\ e \in held[t]
    /\ held' = [held EXCEPT ![t] = @ \ {e}]
    /\ UNCHANGED <<sessionVars, calls, online, due, entry, placed, excuses, sync>>

\* The effect: count the entries, and call syncOfflineOrders if there are any.
Effect(r, t) ==
    /\ Free(r)
    /\ online /\ t \in due
    /\ due' = due \ {t}
    /\ IF Unsynced = {} THEN UNCHANGED sync
                        ELSE GoSync(r, [NoSync EXCEPT !.at = "claim", !.tab = t])
    /\ UNCHANGED <<sessionVars, calls, online, held, entry, placed, excuses>>

\* Mutant: entries are not marked when they are read.
MarkedLater(S) == entry

\* The entries that a sync takes are marked synced.
Marked(S) == [e \in Entries |-> IF e \in S THEN "synced" ELSE entry[e]]

\* One transaction reads the entries that are not synced and marks them.
Claim(r) ==
    /\ Running(r) /\ sync[r].at = "claim"
    /\ entry' = Marked(Unsynced)
    /\ Loop(r, Unsynced)
    /\ UNCHANGED <<sessionVars, calls, online, due, held, placed, excuses>>

\* The transaction is rolled back: the list was read, and is sent all the same.
ClaimAborted(r) ==
    /\ "abort" \in calls
    /\ Running(r) /\ sync[r].at = "claim"
    /\ excuses' = [e \in Entries |-> IF e \in Unsynced THEN Plus(excuses[e]) ELSE excuses[e]]
    /\ Loop(r, Unsynced)
    /\ UNCHANGED <<sessionVars, calls, online, due, held, entry, placed>>

\* The next entry of the loop: posApi.createOrder.
SendEntry(r, e) ==
    /\ Running(r) /\ sync[r].at = "loop"
    /\ e \in sync[r].batch
    /\ Send(r, sync[r].tab)
    /\ GoSync(r, [sync[r] EXCEPT !.at = "send", !.entry = e])
    /\ UNCHANGED <<session, tab, disk, calls, online, due, held, entry, placed, excuses>>

\* A page of the tab that has nothing to do with orders calls the API.
Browse(r, t) ==
    /\ "browse" \in calls
    /\ Free(r) /\ Signed(t)
    /\ Send(r, t)
    /\ GoSync(r, [NoSync EXCEPT !.at = "send", !.tab = t])
    /\ UNCHANGED <<session, tab, disk, calls, online, due, held, entry, placed, excuses>>

\* OrdersService.createOrder at the other end.
CreateOrder(r) == placed' = IF sync[r].entry = None THEN placed
                            ELSE [placed EXCEPT ![sync[r].entry] = Plus(@)]

Served(r) ==
    /\ online
    /\ Running(r)
    /\ Answer(r)
    /\ CreateOrder(r)
    /\ Loop(r, sync[r].batch \ {sync[r].entry})
    /\ UNCHANGED <<calls, online, due, held, entry, excuses>>

ServedUnheard(r) ==
    /\ AnswerLost(r)
    /\ CreateOrder(r)
    /\ excuses' = IF sync[r].entry = None THEN excuses
                  ELSE [excuses EXCEPT ![sync[r].entry] = Plus(@)]
    /\ UNCHANGED <<calls, online, due, held, entry, sync>>

\* Without network a call fails at once.
NoNetwork(r) ==
    /\ ~online
    /\ \/ req[r].at = "sent" /\ Go(r, "failed")
       \/ req[r].at \in {"refresh", "granted"} /\ Go(r, "refused")
    /\ UNCHANGED <<session, tab, disk, calls, queueVars>>

Carried(r) ==
    /\ Transport(r)
    /\ UNCHANGED <<calls, queueVars>>

\* Mutant: the entry gets a state of its own.
RevertedAsFailed(e) == [entry EXCEPT ![e] = "failed"]

\* The entry is put back for the next reconnect.
Reverted(e) == [entry EXCEPT ![e] = "queued"]

\* A call failed: its entry is reverted, where an error is swallowed.
Revert(r) ==
    LET e == sync[r].entry
    IN  /\ Running(r) /\ req[r].at = "failed"
        /\ \/ e = None /\ UNCHANGED entry
           \/ e # None /\ entry' = Reverted(e)
           \/ e # None /\ "abort" \in calls /\ UNCHANGED entry
        /\ Forget(r)
        /\ Loop(r, sync[r].batch \ {e})
        /\ UNCHANGED <<session, tab, disk, calls, online, due, held, placed, excuses>>

\* A closed tab takes its syncs with it.
Vanish(r) ==
    /\ sync[r].at # "none" /\ ~tab[sync[r].tab].open
    /\ Abandon(r) \/ (Idle(r) /\ UNCHANGED sessionVars)
    /\ GoSync(r, NoSync)
    /\ UNCHANGED <<calls, online, due, held, entry, placed, excuses>>

-----------------------------------------------------------------------------
Init ==
    /\ SessionsInit
    /\ online \in BOOLEAN
    /\ due = {}
    /\ held = [t \in Tabs |-> {}]
    /\ entry = [e \in Entries |-> "absent"]
    /\ placed = [e \in Entries |-> 0]
    /\ excuses = [e \in Entries |-> 0]
    /\ sync = [r \in Calls |-> NoSync]

\* Steps a run has to take once it is there.
Proceed(r) ==
    \/ Claim(r)
    \/ \E e \in Entries : SendEntry(r, e)
    \/ Served(r) \/ NoNetwork(r) \/ Carried(r)
    \/ Revert(r)

Next ==
    \/ GoOnline \/ GoOffline \/ LoginEnds
    \/ \E t \in Tabs : Load(t) \/ Leave(t)
    \/ \E t \in Tabs, s \in Sessions : SignIn(t, s)
    \/ \E t \in Tabs, e \in Entries : TakeOrder(t, e) \/ PickTable(t, e)
    \/ \E r \in Calls, t \in Tabs : Effect(r, t) \/ Browse(r, t)
    \/ \E r \in Calls : \/ Proceed(r) \/ ClaimAborted(r)
                        \/ ServedUnheard(r) \/ Vanish(r)

Spec == Init /\ [][Next]_vars

\* Promises settle (calls time out) and the event loop runs what follows.
Fairness == \A r \in Calls : WF_vars(Proceed(r))

FairSpec == Spec /\ Fairness

-----------------------------------------------------------------------------
(* Properties                                                              *)

TypeOK ==
    /\ SessionsTypeOK
    /\ online \in BOOLEAN
    /\ due \in SUBSET Tabs
    /\ held \in [Tabs -> SUBSET Entries]
    /\ entry \in [Entries -> {"absent", "taken", "queued", "synced"}]
    /\ placed \in [Entries -> 0..MaxCopies]
    /\ excuses \in [Entries -> 0..MaxCopies]
    /\ sync \in [Calls -> Sync]

\* An order queued without network is placed once, except for what the client
\* cannot know: each further copy answers for an answer that never arrived, or
\* for a claim that IndexedDB rolled back.  Two tabs that come online together,
\* effects that fire twice, retries behind a token refresh and tabs that close
\* in the middle make no copy.
CopiesExcused == \A e \in Entries : placed[e] <= 1 + excuses[e]

\* An order marked synced is placed, or goes back to the queue, whatever happens
\* to the network and the login on the way: no sync waits for ever behind a
\* token refresh.  A tab that closes, or a revert that fails, loses the order.
ClaimsResolve ==
    \A e \in Entries :
        calls \cap {"close", "abort"} = {} /\ entry[e] = "synced" /\ placed[e] = 0
            ~> placed[e] > 0 \/ entry[e] = "queued"

\* What the dashboard promises with "auto-refresh on 401" and a refresh token good
\* for seven days: while the network is up and the session lives, a refresh of
\* one of its tabs is not refused.  The second refresh of a tab is; the first
\* leaves it without an access token, so that one expiry is enough.
LiveSessionRefreshes ==
    [][\A r \in Calls :
          /\ calls \cap {"logout", "lose", "register"} = {}
          /\ online /\ req[r].at = "refresh"
          /\ session[req[r].session].state = "live"
          => req'[r].at # "refused"]_vars
=============================================================================
