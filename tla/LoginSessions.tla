--------------------------- MODULE LoginSessions ---------------------------
(***************************************************************************)
(* The login of one user of the dashboard in several browser tabs, and the *)
(* calls its tabs make: AuthService keeps a user_sessions row per login    *)
(* and replaces its refresh token at every refresh; the axios client of a  *)
(* tab answers a 401 with one refresh, behind which the tab's other calls  *)
(* wait.                                                                   *)
(*                                                                         *)
(* A call is in one place at a time: on its way, at the server, or in the  *)
(* client's interceptor.  What a call does at the server is left to the    *)
(* module that makes it (Answer, AnswerLost).                              *)
(***************************************************************************)
EXTENDS Naturals, FiniteSets

CONSTANTS
    Sessions,   \* slots for rows of user_sessions
    Tabs,       \* tabs of the browser
    Calls,      \* calls that can be in flight at the same time
    Mixes,      \* sets of events; a behaviour sees those of one of them
    None        \* "no value"

AllEvents == {"login", "register", "logout", "revoke", "expire", "tokenExpires",
              "close", "lose", "browse", "abort", "wander", "secondTab",
              "secondOrder"}

ASSUME MixesAssumption == Mixes \subseteq SUBSET AllEvents
\* Tabs and calls are numbered, and taken in that order.
ASSUME SlotsAssumption == Tabs \subseteq Nat /\ Calls \subseteq Nat /\ IsFiniteSet(Calls)
ASSUME NoneAssumption == None \notin Sessions \cup Tabs

VARIABLES
    session,   \* the rows: state, and how often the refresh token was replaced
    tab,       \* each tab: open, its copy of the auth store, isRefreshing
    disk,      \* the auth store in localStorage
    calls,     \* the events of this behaviour
    req        \* the calls in flight

sessionVars == <<session, tab, disk, req>>

-----------------------------------------------------------------------------
\* Slot x is the first of those in S.
First(x, S) == x \in S /\ \A y \in S : x <= y

\* `key' counts the replacements of a row's refresh token: the token of
\* generation k is good as long as key = k.
MaxKey == Cardinality(Calls) + 1
SessionRow == [state : {"none", "live", "expired", "ended"}, key : 0..MaxKey]

\* accessToken ("none" also stands for one the server never issued), and
\* refreshToken as the row and generation it stands for.
Access == {"none", "valid", "expired"}
Store == [access : Access, session : Sessions \cup {None}, key : 0..MaxKey]
LoggedOut == [access |-> "none", session |-> None, key |-> 0]

Tab == [open : BOOLEAN, store : Store, refreshing : BOOLEAN]

\* A call is on its way (sent), waiting in failedQueue, or leading a refresh
\* (refresh, refreshWrite at the server, granted or refused on the way back); it
\* ends with an answer or as failed.
Step == {"idle", "sent", "waiting", "refresh", "refreshWrite", "granted",
         "refused", "failed"}
Call == [at : Step, tab : Tabs \cup {None}, access : Access, retry : BOOLEAN,
         session : Sessions \cup {None}, key : 0..MaxKey]
NoCall == [at |-> "idle", tab |-> None, access |-> "none", retry |-> FALSE,
           session |-> None, key |-> 0]

Idle(r) == req[r].at = "idle"
Of(r) == tab[req[r].tab]
Go(r, at) == req' = [req EXCEPT ![r].at = at]
Forget(r) == req' = [req EXCEPT ![r] = NoCall]

\* The row that a refresh token is good for.
Current(s, k) == s # None /\ session[s].state \in {"live", "expired"}
                          /\ session[s].key = k

SetTab(t, new) == tab' = [tab EXCEPT ![t] = new]

-----------------------------------------------------------------------------
(* Tabs                                                                    *)

\* A page is loaded: the store comes from localStorage, and the access token
\* may have expired since.
OpenTab(t) ==
    /\ First(t, {u \in Tabs : ~tab[u].open})
    /\ "secondTab" \in calls \/ \A u \in Tabs : ~tab[u].open
    /\ \A r \in Calls : req[r].tab # t
    /\ \E a \in Access :
          /\ a = disk.access \/ (disk.access = "valid" /\ a = "expired"
                                                       /\ "tokenExpires" \in calls)
          /\ SetTab(t, [open |-> TRUE, store |-> [disk EXCEPT !.access = a],
                        refreshing |-> FALSE])
    /\ UNCHANGED <<session, disk, req>>

CloseTab(t) ==
    /\ "close" \in calls
    /\ tab[t].open
    /\ SetTab(t, [open |-> FALSE, store |-> LoggedOut, refreshing |-> FALSE])
    /\ UNCHANGED <<session, disk, req>>

\* What a closed tab had in flight is forgotten (the server may have done it).
Abandon(r) ==
    /\ ~Idle(r) /\ ~Of(r).open
    /\ req[r].at # "refreshWrite"
    /\ Forget(r)
    /\ UNCHANGED <<session, tab, disk>>

\* A store is set in a tab and persisted.
Persist(t, store, refreshing) ==
    /\ SetTab(t, [open |-> TRUE, store |-> store, refreshing |-> refreshing])
    /\ disk' = store

\* Password, PIN, phone code or second factor: a row and its first tokens.
Login(t, s) ==
    /\ "login" \in calls
    /\ tab[t].open /\ tab[t].store.session = None
    /\ session[s].state = "none"
    /\ session' = [session EXCEPT ![s].state = "live"]
    /\ Persist(t, [access |-> "valid", session |-> s, key |-> 0], tab[t].refreshing)
    /\ UNCHANGED req

\* Registration hands out a refresh token and creates no row for it.
Register(t, s) ==
    /\ "register" \in calls
    /\ tab[t].open /\ tab[t].store.session = None
    /\ session[s].state = "none"
    /\ session' = [session EXCEPT ![s].state = "ended"]
    /\ Persist(t, [access |-> "valid", session |-> s, key |-> 0], tab[t].refreshing)
    /\ UNCHANGED req

\* The sidebar: POST /auth/logout deletes the row by its token, which needs an
\* access token; after a 401 the refresh replaces the token of the row, and the
\* retry is denied (Granted).  Whatever comes back, the store is cleared.
Logout(t) ==
    LET s == tab[t].store.session
        k == tab[t].store.key
    IN  /\ "logout" \in calls
        /\ tab[t].open /\ s # None
        /\ \/ Current(s, k) /\ tab[t].store.access = "valid"
              /\ session' = [session EXCEPT ![s].state = "ended"]
           \/ Current(s, k) /\ tab[t].store.access = "expired"
              /\ session[s].key < MaxKey
              /\ session' = [session EXCEPT ![s].key = @ + 1]
           \/ (Current(s, k) => "lose" \in calls) /\ UNCHANGED session
        /\ Persist(t, LoggedOut, tab[t].refreshing)
        /\ UNCHANGED req

\* Staff revoke one session, or all but one; a password reset revokes all.
Revoke(S) ==
    /\ "revoke" \in calls
    /\ S # {} /\ \A s \in S : session[s].state = "live"
    /\ session' = [s \in Sessions |-> IF s \in S THEN [session[s] EXCEPT !.state = "ended"]
                                                 ELSE session[s]]
    /\ UNCHANGED <<tab, disk, req>>

\* Seven days pass.
SessionExpires(s) ==
    /\ "expire" \in calls
    /\ session[s].state = "live"
    /\ session' = [session EXCEPT ![s].state = "expired"]
    /\ UNCHANGED <<tab, disk, req>>

\* Fifteen minutes pass: the access token of a tab, also where a call on its way
\* or localStorage carries it.
AccessExpires(t) ==
    LET Aged(c) == IF c.access = "valid" THEN [c EXCEPT !.access = "expired"] ELSE c
    IN  /\ "tokenExpires" \in calls
        /\ tab[t].open /\ tab[t].store.access = "valid"
        /\ SetTab(t, [tab[t] EXCEPT !.store = Aged(@)])
        /\ disk' = IF disk = tab[t].store THEN Aged(disk) ELSE disk
        /\ req' = [r \in Calls |-> IF req[r].tab = t THEN Aged(req[r]) ELSE req[r]]
        /\ UNCHANGED session

-----------------------------------------------------------------------------
(* A call                                                                  *)

\* The request interceptor attaches the tab's access token.
Sent(r, t, access, retry) ==
    req' = [req EXCEPT ![r] = [NoCall EXCEPT !.at = "sent", !.tab = t,
                                             !.access = access, !.retry = retry]]

Send(r, t) == Sent(r, t, tab[t].store.access, FALSE)

\* The handler runs and the answer arrives ...
Answer(r) ==
    /\ req[r].at = "sent" /\ req[r].access = "valid"
    /\ Forget(r)
    /\ UNCHANGED <<session, tab, disk>>

\* ... or it is lost, or later than the timeout of 15 seconds.
AnswerLost(r) ==
    /\ "lose" \in calls
    /\ req[r].at = "sent" /\ req[r].access = "valid"
    /\ Go(r, "failed")
    /\ UNCHANGED <<session, tab, disk>>

\* The request does not reach the server.
Unreachable(r) ==
    /\ "lose" \in calls
    /\ req[r].at = "sent"
    /\ Go(r, "failed")
    /\ UNCHANGED <<session, tab, disk>>

\* The guard refuses the access token and the 401 reaches the interceptor ...
Denied(r) == req[r].at = "sent" /\ req[r].access # "valid" /\ Of(r).open

\* ... which gives up on a call that was retried, or that has no refresh token;
GiveUp(r) ==
    /\ Denied(r)
    /\ \/ req[r].retry /\ UNCHANGED <<tab, disk>>
       \/ ~req[r].retry /\ Of(r).store.session = None
          /\ Persist(req[r].tab, LoggedOut, Of(r).refreshing)
    /\ Go(r, "failed")
    /\ UNCHANGED session

\* A refresh of the tab is under way.
Queues(r) == Of(r).refreshing

\* ... queues the call up behind it ...
QueueUp(r) ==
    /\ Denied(r)
    /\ ~req[r].retry /\ Of(r).store.session # None
    /\ Queues(r)
    /\ Go(r, "waiting")
    /\ UNCHANGED <<session, tab, disk>>

\* ... or lets it lead one.
Lead(r) ==
    LET store == Of(r).store
    IN  /\ Denied(r)
        /\ ~req[r].retry /\ store.session # None
        /\ ~Queues(r)
        /\ SetTab(req[r].tab, [Of(r) EXCEPT !.refreshing = TRUE])
        /\ req' = [req EXCEPT ![r] = [@ EXCEPT !.at = "refresh", !.retry = TRUE,
                                      !.session = store.session, !.key = store.key]]
        /\ UNCHANGED <<session, disk>>

-----------------------------------------------------------------------------
(* AuthService.refresh                                                     *)

RefreshRead(r) ==
    LET s == req[r].session
        k == req[r].key
    IN  /\ req[r].at = "refresh"
        /\ IF Current(s, k) /\ session[s].state = "live"
           THEN Go(r, "refreshWrite") /\ UNCHANGED session
           ELSE /\ Go(r, "refused")
                /\ session' = IF Current(s, k)
                              THEN [session EXCEPT ![s].state = "ended"]
                              ELSE session
        /\ UNCHANGED <<tab, disk>>

\* The update names the row by its id and throws when the row is gone.
RefreshWrite(r) ==
    LET s == req[r].session
    IN  /\ req[r].at = "refreshWrite"
        /\ IF session[s].state \in {"live", "expired"} /\ session[s].key < MaxKey
           THEN /\ session' = [session EXCEPT ![s] = [state |-> "live", key |-> @.key + 1]]
                /\ Go(r, "granted")
           ELSE Go(r, "refused") /\ UNCHANGED session
        /\ UNCHANGED <<tab, disk>>

\* The refresh, or its answer, is lost.
RefreshLost(r) ==
    /\ "lose" \in calls
    /\ req[r].at \in {"refresh", "granted"}
    /\ Go(r, "refused")
    /\ UNCHANGED <<session, tab, disk>>

\* Mutant: a refused refresh leaves the queue as it is.
ReleaseOnSuccess(t, at) == IF at = "sent" THEN {r \in Calls : req[r].tab = t
                                                  /\ req[r].at = "waiting"} ELSE {}

\* processQueue: the calls of the tab that wait.
Release(t, at) == {r \in Calls : req[r].tab = t /\ req[r].at = "waiting"}

\* The answer arrives.  The server wraps every answer as {success, data, ...} and
\* the interceptor reads accessToken from the wrapping: undefined is stored, the
\* old refresh token stays, and every call goes again with 'Bearer undefined'.
\* Those that waited do not carry the retry mark.
Granted(r) ==
    LET t == req[r].tab
        store == [Of(r).store EXCEPT !.access = "none"]
    IN  /\ req[r].at = "granted" /\ Of(r).open
        /\ Persist(t, store, FALSE)
        /\ req' = [q \in Calls |->
                     IF q = r \/ q \in Release(t, "sent")
                     THEN [NoCall EXCEPT !.at = "sent", !.tab = t, !.retry = (q = r)]
                     ELSE req[q]]
        /\ UNCHANGED session

\* The refresh was refused: every call fails and the tab logs out.
Refused(r) ==
    LET t == req[r].tab
    IN  /\ req[r].at = "refused" /\ Of(r).open
        /\ Persist(t, LoggedOut, FALSE)
        /\ req' = [q \in Calls |-> IF q = r \/ q \in Release(t, "failed")
                                   THEN [req[q] EXCEPT !.at = "failed"] ELSE req[q]]
        /\ UNCHANGED session

-----------------------------------------------------------------------------
\* What the server, the network and the interceptor do with a call; the answer
\* of a handler is not among them.
Transport(r) ==
    \/ Unreachable(r)
    \/ GiveUp(r) \/ QueueUp(r) \/ Lead(r)
    \/ RefreshRead(r) \/ RefreshWrite(r) \/ RefreshLost(r)
    \/ Granted(r) \/ Refused(r)

SessionsInit ==
    /\ session = [s \in Sessions |-> [state |-> "none", key |-> 0]]
    /\ tab = [t \in Tabs |-> [open |-> FALSE, store |-> LoggedOut, refreshing |-> FALSE]]
    /\ disk = LoggedOut
    /\ calls \in Mixes
    /\ req = [r \in Calls |-> NoCall]

SessionsTypeOK ==
    /\ session \in [Sessions -> SessionRow]
    /\ tab \in [Tabs -> Tab]
    /\ disk \in Store
    /\ calls \in Mixes
    /\ req \in [Calls -> Call]
=============================================================================
