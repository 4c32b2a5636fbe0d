------------------------- MODULE OfflineQueueProofs -------------------------
(***************************************************************************)
(* Proofs about OfflineQueue, for any number of tabs, calls and orders and *)
(* any failures of network, browser and login.                             *)
(*                                                                         *)
(* CopiesExcused is not inductive: an order is placed by a call that was   *)
(* sent before.  CopiesInv counts what can still become an order: the      *)
(* entry while it is not marked synced, and every run that has it in hand. *)
(***************************************************************************)
EXTENDS OfflineQueue, TLAPS, FiniteSetTheorems

-----------------------------------------------------------------------------
(* Types                                                                   *)

\* A call has a tab, and a refresh a row.
CallSound(q) ==
    /\ q.at # "idle" => q.tab \in Tabs
    /\ q.at \in {"refresh", "refreshWrite"} => q.session \in Sessions

CallsSound == \A r \in Calls : CallSound(req[r])

LoginInv == SessionsTypeOK /\ CallsSound

LEMMA MaxKeyType == MaxKey \in Nat \ {0}
BY SlotsAssumption, FS_CardinalityType DEF MaxKey

\* One call goes to a step that needs no row.
LEMMA GoTypes ==
    ASSUME LoginInv, NEW r \in Calls, NEW at \in Step, Go(r, at), ~Idle(r),
           at \in {"refresh", "refreshWrite"} => req[r].session \in Sessions
    PROVE  req' \in [Calls -> Call] /\ CallsSound'
<1>1. \A p \in Calls : req[p] \in Call /\ CallSound(req[p])
  BY DEF LoginInv, SessionsTypeOK, CallsSound
<1>2. [req[r] EXCEPT !.at = at] \in Call /\ CallSound([req[r] EXCEPT !.at = at])
  BY <1>1 DEF Call, CallSound, Idle
<1>3. req' = [req EXCEPT ![r] = [req[r] EXCEPT !.at = at]]
  BY DEF Go
<1> QED  BY <1>1, <1>2, <1>3 DEF LoginInv, SessionsTypeOK, CallsSound, CallSound

LEMMA ForgetTypes ==
    ASSUME LoginInv, NEW r \in Calls, Forget(r)
    PROVE  req' \in [Calls -> Call] /\ CallsSound'
<1>1. NoCall \in Call /\ CallSound(NoCall)
  BY MaxKeyType DEF NoCall, Call, CallSound, Step, Access
<1> QED  BY <1>1 DEF LoginInv, SessionsTypeOK, CallsSound, CallSound, Forget

LEMMA SentTypes ==
    ASSUME LoginInv, NEW r \in Calls, NEW t \in Tabs, NEW access \in Access,
           NEW retry \in BOOLEAN, Sent(r, t, access, retry)
    PROVE  req' \in [Calls -> Call] /\ CallsSound'
<1> DEFINE new(c) == [c EXCEPT !.at = "sent", !.tab = t, !.access = access, !.retry = retry]
<1>1. NoCall \in Call
  BY MaxKeyType DEF NoCall, Call, Step, Access
<1>2. ASSUME NEW c \in Call PROVE new(c) \in Call /\ CallSound(new(c))
  BY DEF Call, CallSound, Step
<1>3. new(NoCall) \in Call /\ CallSound(new(NoCall))
  BY <1>1, <1>2
<1>4. req' = [req EXCEPT ![r] = new(NoCall)]
  BY DEF Sent
<1> HIDE DEF new
<1> QED  BY <1>3, <1>4 DEF LoginInv, SessionsTypeOK, CallsSound, CallSound

LEMMA LoggedOutType == LoggedOut \in Store
BY MaxKeyType DEF LoggedOut, Store, Access

LEMMA PersistTypes ==
    ASSUME LoginInv, NEW t \in Tabs, NEW store \in Store, NEW b \in BOOLEAN, Persist(t, store, b)
    PROVE  tab' \in [Tabs -> Tab] /\ disk' \in Store
BY DEF LoginInv, SessionsTypeOK, Persist, SetTab, Tab

LEMMA TabEvents ==
    ASSUME LoginInv, UNCHANGED calls,
           \/ \E t \in Tabs : OpenTab(t) \/ CloseTab(t) \/ Logout(t) \/ AccessExpires(t)
           \/ \E t \in Tabs, s \in Sessions : Login(t, s) \/ Register(t, s)
           \/ \E S \in SUBSET Sessions : Revoke(S)
           \/ \E s \in Sessions : SessionExpires(s)
    PROVE  LoginInv'
<1>0. /\ session \in [Sessions -> SessionRow] /\ tab \in [Tabs -> Tab] /\ disk \in Store
      /\ calls' \in Mixes /\ req \in [Calls -> Call]
  BY DEF LoginInv, SessionsTypeOK
<1>a. ASSUME UNCHANGED req, session' \in [Sessions -> SessionRow], tab' \in [Tabs -> Tab],
             disk' \in Store
      PROVE  LoginInv'
  BY <1>0, <1>a DEF LoginInv, SessionsTypeOK, CallsSound, CallSound
<1>1. ASSUME NEW t \in Tabs, OpenTab(t) PROVE LoginInv'
  <2>1. \A a \in Access : [disk EXCEPT !.access = a] \in Store
    BY <1>0 DEF Store
  <2> QED  BY <1>0, <1>1, <1>a, <2>1 DEF OpenTab, SetTab, Tab
<1>2. ASSUME NEW t \in Tabs, CloseTab(t) PROVE LoginInv'
  BY <1>0, <1>2, <1>a, LoggedOutType DEF CloseTab, SetTab, Tab
<1>3. ASSUME NEW t \in Tabs, Logout(t) PROVE LoginInv'
  <2>1. tab' \in [Tabs -> Tab] /\ disk' \in Store
    BY <1>0, <1>3, LoggedOutType, PersistTypes DEF Logout, Tab
  <2>2. session' \in [Sessions -> SessionRow]
    <3> DEFINE s == tab[t].store.session
               ended == [session[s] EXCEPT !.state = "ended"]
               next == [session[s] EXCEPT !.key = @ + 1]
    <3>1. s \in Sessions
      BY <1>0, <1>3 DEF Logout, Tab, Store
    <3>2. ended \in SessionRow /\ (session[s].key < MaxKey => next \in SessionRow)
      BY <1>0, <3>1, MaxKeyType DEF SessionRow
    <3>3. \/ UNCHANGED session
          \/ session' = [session EXCEPT ![s] = ended]
          \/ session[s].key < MaxKey /\ session' = [session EXCEPT ![s] = next]
      BY <1>3 DEF Logout
    <3> HIDE DEF s, ended, next
    <3> QED  BY <1>0, <3>1, <3>2, <3>3
  <2> QED  BY <1>3, <2>1, <2>2, <1>a DEF Logout
<1>4. ASSUME NEW t \in Tabs, AccessExpires(t) PROVE LoginInv'
  <2> DEFINE Aged(c) == IF c.access = "valid" THEN [c EXCEPT !.access = "expired"] ELSE c
  <2>1. \A c \in Store : Aged(c) \in Store
    BY DEF Store, Access
  <2>2. \A c \in Call : Aged(c) \in Call /\ (CallSound(c) => CallSound(Aged(c)))
    BY DEF Call, CallSound, Access
  <2>3. /\ tab' = [tab EXCEPT ![t] = [tab[t] EXCEPT !.store = Aged(tab[t].store)]]
        /\ disk' \in {disk, Aged(disk)}
        /\ req' = [r \in Calls |-> IF req[r].tab = t THEN Aged(req[r]) ELSE req[r]]
        /\ UNCHANGED session
    BY <1>0, <1>4 DEF AccessExpires, SetTab, Tab
  <2> HIDE DEF Aged
  <2>4. tab' \in [Tabs -> Tab] /\ disk' \in Store
    BY <1>0, <2>1, <2>3 DEF Tab
  <2>5. req' \in [Calls -> Call] /\ CallsSound'
    BY <1>0, <2>2, <2>3 DEF LoginInv, CallsSound
  <2> QED  BY <1>0, <2>3, <2>4, <2>5 DEF LoginInv, SessionsTypeOK
<1>5. ASSUME NEW t \in Tabs, NEW s \in Sessions, Login(t, s) \/ Register(t, s) PROVE LoginInv'
  <2>1. [access |-> "valid", session |-> s, key |-> 0] \in Store
    BY MaxKeyType DEF Store, Access
  <2>2. tab' \in [Tabs -> Tab] /\ disk' \in Store
    BY <1>0, <1>5, <2>1, PersistTypes DEF Login, Register, Tab
  <2>3. session' \in [Sessions -> SessionRow] /\ UNCHANGED req
    BY <1>0, <1>5 DEF Login, Register, SessionRow
  <2> QED  BY <2>2, <2>3, <1>a
<1>6. ASSUME NEW S \in SUBSET Sessions, Revoke(S) PROVE LoginInv'
  BY <1>0, <1>6, <1>a DEF Revoke, SessionRow
<1>7. ASSUME NEW s \in Sessions, SessionExpires(s) PROVE LoginInv'
  BY <1>0, <1>7, <1>a DEF SessionExpires, SessionRow
<1> QED  BY <1>1, <1>2, <1>3, <1>4, <1>5, <1>6, <1>7

LEMMA CallEvents ==
    ASSUME LoginInv, UNCHANGED calls, NEW r \in Calls,
           Transport(r) \/ Answer(r) \/ AnswerLost(r) \/ Abandon(r)
    PROVE  LoginInv'
<1> DEFINE t == req[r].tab
<1>0. /\ session \in [Sessions -> SessionRow] /\ tab \in [Tabs -> Tab] /\ disk \in Store
      /\ calls' \in Mixes /\ req \in [Calls -> Call] /\ CallsSound /\ CallSound(req[r])
  BY DEF LoginInv, SessionsTypeOK, CallsSound
<1>a. ASSUME session' \in [Sessions -> SessionRow], tab' \in [Tabs -> Tab], disk' \in Store,
             req' \in [Calls -> Call] /\ CallsSound'
      PROVE  LoginInv'
  BY <1>0, <1>a DEF LoginInv, SessionsTypeOK
<1>b. ASSUME UNCHANGED <<session, tab, disk>>, Forget(r)
      PROVE  LoginInv'
  BY <1>0, <1>b, <1>a, ForgetTypes
<1>c. ASSUME NEW at \in {"failed", "waiting", "refused"}, Go(r, at), ~Idle(r)
      PROVE  req' \in [Calls -> Call] /\ CallsSound'
  BY <1>c, GoTypes DEF Step
<1>d. ~Idle(r) => t \in Tabs
  BY <1>0 DEF CallSound, Idle
<1>1. CASE Answer(r)
  BY <1>1, <1>b DEF Answer
<1>2. CASE Abandon(r)
  BY <1>2, <1>b DEF Abandon
<1>3. CASE AnswerLost(r) \/ Unreachable(r)
  BY <1>0, <1>3, <1>a, <1>c DEF AnswerLost, Unreachable, Idle
<1>4. CASE GiveUp(r)
  <2>1. ~Idle(r) /\ Go(r, "failed") /\ UNCHANGED session
    BY <1>4 DEF GiveUp, Denied, Idle
  <2>2. tab' \in [Tabs -> Tab] /\ disk' \in Store
    <3>1. CASE UNCHANGED <<tab, disk>>
      BY <1>0, <3>1
    <3>2. CASE Persist(t, LoggedOut, Of(r).refreshing)
      <4>1. Of(r).refreshing \in BOOLEAN
        BY <1>0, <1>d, <2>1 DEF Of, Tab
      <4> QED  BY <1>d, <2>1, <3>2, <4>1, LoggedOutType, PersistTypes
    <3> QED  BY <1>4, <3>1, <3>2 DEF GiveUp
  <2> QED  BY <1>0, <1>a, <1>c, <2>1, <2>2
<1>5. CASE QueueUp(r)
  BY <1>0, <1>5, <1>a, <1>c DEF QueueUp, Denied, Idle
<1>6. CASE Lead(r)
  <2> DEFINE new == [req[r] EXCEPT !.at = "refresh", !.retry = TRUE,
                                   !.session = Of(r).store.session, !.key = Of(r).store.key]
             led == [Of(r) EXCEPT !.refreshing = TRUE]
  <2>1. t \in Tabs
    BY <1>6, <1>d DEF Lead, Denied, Idle
  <2>2. Of(r) \in Tab
    BY <1>0, <2>1 DEF Of
  <2>3. Of(r).store \in Store /\ Of(r).store.session \in Sessions
    BY <1>6, <2>2 DEF Lead, Tab, Store
  <2>4. led \in Tab
    BY <2>2 DEF Tab
  <2>5. new \in Call /\ CallSound(new)
    BY <1>0, <2>1, <2>3 DEF Call, CallSound, Step, Store
  <2>6. /\ tab' = [tab EXCEPT ![t] = led] /\ req' = [req EXCEPT ![r] = new]
        /\ UNCHANGED <<session, disk>>
    BY <1>6 DEF Lead, SetTab
  <2> HIDE DEF new, led, t
  <2>7. tab' \in [Tabs -> Tab]
    BY <1>0, <2>1, <2>4, <2>6
  <2>8. req' \in [Calls -> Call] /\ CallsSound'
    BY <1>0, <2>5, <2>6 DEF CallsSound
  <2> QED  BY <1>0, <1>a, <2>6, <2>7, <2>8
<1>7. CASE RefreshRead(r)
  <2>1. ~Idle(r) /\ req[r].session \in Sessions
    BY <1>0, <1>7 DEF RefreshRead, Idle, CallSound
  <2>2. UNCHANGED <<tab, disk>> /\ (Go(r, "refreshWrite") \/ Go(r, "refused"))
    BY <1>7 DEF RefreshRead
  <2>3. req' \in [Calls -> Call] /\ CallsSound'
    BY <2>1, <2>2, GoTypes DEF Step
  <2>4. session' \in [Sessions -> SessionRow]
    <3> DEFINE ended == [session[req[r].session] EXCEPT !.state = "ended"]
    <3>1. ended \in SessionRow
      BY <1>0, <2>1 DEF SessionRow
    <3>2. UNCHANGED session \/ session' = [session EXCEPT ![req[r].session] = ended]
      BY <1>7 DEF RefreshRead
    <3> HIDE DEF ended
    <3> QED  BY <1>0, <3>1, <3>2
  <2> QED  BY <1>0, <1>a, <2>2, <2>3, <2>4
<1>8. CASE RefreshWrite(r)
  <2> DEFINE s == req[r].session
             new == [state |-> "live", key |-> session[s].key + 1]
  <2>1. ~Idle(r) /\ s \in Sessions
    BY <1>0, <1>8 DEF RefreshWrite, Idle, CallSound
  <2>2. /\ UNCHANGED <<tab, disk>>
        /\ \/ /\ session[s].key < MaxKey
              /\ session' = [session EXCEPT ![s] = new] /\ Go(r, "granted")
           \/ UNCHANGED session /\ Go(r, "refused")
    BY <1>8 DEF RefreshWrite
  <2>3. req' \in [Calls -> Call] /\ CallsSound'
    BY <2>1, <2>2, GoTypes DEF Step
  <2>4. session[s].key < MaxKey => new \in SessionRow
    BY <1>0, <2>1, MaxKeyType DEF SessionRow
  <2> HIDE DEF s, new
  <2> QED  BY <1>0, <1>a, <2>2, <2>3, <2>4
<1>9. CASE RefreshLost(r)
  BY <1>0, <1>9, <1>a, <1>c DEF RefreshLost, Idle
<1>10. CASE Granted(r)
  <2> DEFINE store == [Of(r).store EXCEPT !.access = "none"]
             new(q) == [NoCall EXCEPT !.at = "sent", !.tab = t, !.retry = (q = r)]
  <2>1. t \in Tabs
    BY <1>10, <1>d DEF Granted, Idle
  <2>2. store \in Store
    BY <1>0, <2>1 DEF Of, Tab, Store, Access
  <2>3. Persist(t, store, FALSE) /\ UNCHANGED session
    BY <1>10 DEF Granted
  <2>4. tab' \in [Tabs -> Tab] /\ disk' \in Store
    BY <2>1, <2>2, <2>3, PersistTypes
  <2>5. ASSUME NEW c \in Call, NEW b \in BOOLEAN
        PROVE  LET n == [c EXCEPT !.at = "sent", !.tab = t, !.retry = b]
               IN  n \in Call /\ CallSound(n)
    BY <2>1 DEF Call, CallSound, Step, Access
  <2>6. NoCall \in Call
    BY MaxKeyType DEF NoCall, Call, Step, Access
  <2>7. \A q \in Calls : new(q) \in Call /\ CallSound(new(q))
    BY <2>5, <2>6
  <2>8. req' = [q \in Calls |-> IF q = r \/ q \in Release(t, "sent") THEN new(q) ELSE req[q]]
    BY <1>10 DEF Granted
  <2> HIDE DEF new, store
  <2>9. req' \in [Calls -> Call] /\ CallsSound'
    BY <1>0, <2>7, <2>8 DEF CallsSound
  <2> QED  BY <1>0, <1>a, <2>3, <2>4, <2>9
<1>11. CASE Refused(r)
  <2>1. t \in Tabs
    BY <1>11, <1>d DEF Refused, Idle
  <2>2. Persist(t, LoggedOut, FALSE) /\ UNCHANGED session
    BY <1>11 DEF Refused
  <2>3. tab' \in [Tabs -> Tab] /\ disk' \in Store
    BY <2>1, <2>2, LoggedOutType, PersistTypes
  <2>4. \A q \in Calls : q = r \/ q \in Release(t, "failed") => req[q].tab \in Tabs
    BY <1>0, <2>1 DEF Release, CallsSound, CallSound
  <2>5. \A q \in Calls : req[q].tab \in Tabs => /\ [req[q] EXCEPT !.at = "failed"] \in Call
                                               /\ CallSound([req[q] EXCEPT !.at = "failed"])
    BY <1>0 DEF Call, CallSound, Step
  <2>6. req' = [q \in Calls |-> IF q = r \/ q \in Release(t, "failed")
                                THEN [req[q] EXCEPT !.at = "failed"] ELSE req[q]]
    BY <1>11 DEF Refused
  <2>7. req' \in [Calls -> Call] /\ CallsSound'
    BY <1>0, <2>4, <2>5, <2>6 DEF CallsSound
  <2> QED  BY <1>0, <1>a, <2>2, <2>3, <2>7
<1> QED
  BY <1>1, <1>2, <1>3, <1>4, <1>5, <1>6, <1>7, <1>8, <1>9, <1>10, <1>11 DEF Transport

-----------------------------------------------------------------------------
(* The queue                                                               *)

QueueTypes ==
    /\ online \in BOOLEAN
    /\ due \in SUBSET Tabs
    /\ held \in [Tabs -> SUBSET Entries]
    /\ entry \in [Entries -> {"absent", "taken", "queued", "synced"}]
    /\ placed \in [Entries -> 0..MaxCopies]
    /\ excuses \in [Entries -> 0..MaxCopies]
    /\ sync \in [Calls -> Sync]

\* A run is in a tab, reads its batch once, and sends only from it.
RunSound(y) ==
    /\ y.at # "none" => y.tab \in Tabs
    /\ y.at \in {"none", "claim"} => y.batch = {}
    /\ y.entry # None => y.entry \in y.batch

RunsSound == \A r \in Calls : RunSound(sync[r])

\* Orders that wait are not in offlineOrders yet; those in a batch are.
EntriesSound ==
    /\ \A t \in Tabs : \A e \in held[t] : entry[e] = "taken"
    /\ \A r \in Calls : \A e \in sync[r].batch : entry[e] \in {"queued", "synced"}

QueueInv == QueueTypes /\ RunsSound /\ EntriesSound

LEMMA NoSyncType == NoSync \in Sync /\ RunSound(NoSync)
BY DEF NoSync, Sync, SyncStep, RunSound

\* What Loop makes of a run.
LEMMA LoopRun ==
    ASSUME QueueInv, NEW r \in Calls, Running(r), NEW b \in SUBSET Entries, Loop(r, b)
    PROVE  \E new \in Sync : GoSync(r, new) /\ RunSound(new) /\ new.batch = b
<1> DEFINE left == [sync[r] EXCEPT !.at = "loop", !.entry = None, !.batch = b]
<1>1. sync[r] \in Sync /\ sync[r].tab \in Tabs
  BY DEF QueueInv, QueueTypes, RunsSound, RunSound, Running
<1>2. left \in Sync /\ RunSound(left) /\ left.batch = b
  BY <1>1 DEF Sync, SyncStep, RunSound
<1>3. CASE b = {}
  <2>1. GoSync(r, NoSync) /\ NoSync.batch = b
    BY <1>3 DEF Loop, NoSync
  <2> QED  BY <2>1, NoSyncType
<1>4. CASE b # {}
  <2>1. GoSync(r, left)
    BY <1>4 DEF Loop
  <2> HIDE DEF left
  <2> QED  BY <1>2, <2>1
<1> QED  BY <1>3, <1>4

\* One run goes on; nothing else of the queue changes but counts and states that
\* orders in a batch may take.
LEMMA RunStep ==
    ASSUME QueueInv, NEW r \in Calls, NEW new \in Sync, GoSync(r, new), RunSound(new),
           UNCHANGED <<online, held>>, due' \in SUBSET Tabs,
           placed' \in [Entries -> 0..MaxCopies], excuses' \in [Entries -> 0..MaxCopies],
           entry' \in [Entries -> {"absent", "taken", "queued", "synced"}],
           \A e \in Entries : \/ entry'[e] = entry[e]
                             \/ {entry[e], entry'[e]} \subseteq {"queued", "synced"},
           \A e \in new.batch : entry[e] \in {"queued", "synced"}
    PROVE  QueueInv'
<1>0. /\ held \in [Tabs -> SUBSET Entries] /\ sync \in [Calls -> Sync] /\ online \in BOOLEAN
      /\ RunsSound /\ EntriesSound /\ \A q \in Calls : sync[q].batch \subseteq Entries
  BY DEF QueueInv, QueueTypes, Sync
<1>1. sync' = [sync EXCEPT ![r] = new]
  BY DEF GoSync
<1>2. QueueTypes'
  BY <1>0, <1>1 DEF QueueTypes
<1>3. RunsSound'
  BY <1>0, <1>1 DEF RunsSound, RunSound
<1>4. ASSUME NEW t \in Tabs, NEW e \in held[t] PROVE entry'[e] = "taken"
  <2>1. e \in Entries /\ entry[e] = "taken"
    BY <1>0 DEF EntriesSound
  <2> QED  BY <2>1
<1>5. ASSUME NEW q \in Calls, NEW e \in sync'[q].batch PROVE entry'[e] \in {"queued", "synced"}
  <2>1. e \in Entries /\ entry[e] \in {"queued", "synced"}
    <3>1. CASE q = r
      BY <1>0, <1>1, <1>5, <3>1 DEF Sync
    <3>2. CASE q # r
      BY <1>0, <1>1, <1>5, <3>2 DEF EntriesSound
    <3> QED  BY <3>1, <3>2
  <2> QED  BY <2>1
<1> QED  BY <1>2, <1>3, <1>4, <1>5 DEF QueueInv, EntriesSound

\* The tabs, the network and the orders that wait.
LEMMA OutsideStep ==
    ASSUME QueueInv, online' \in BOOLEAN, due' \in SUBSET Tabs,
           held' \in [Tabs -> SUBSET Entries], \A t \in Tabs : held'[t] \subseteq held[t],
           UNCHANGED <<entry, placed, excuses, sync>>
    PROVE  QueueInv'
<1>1. QueueTypes'
  BY DEF QueueInv, QueueTypes
<1>2. RunsSound'
  BY DEF QueueInv, RunsSound, RunSound
<1>3. EntriesSound'
  BY DEF QueueInv, EntriesSound
<1> QED  BY <1>1, <1>2, <1>3 DEF QueueInv

LEMMA PlusType == \A n \in 0..MaxCopies : Plus(n) \in 0..MaxCopies /\ Plus(n) <= n + 1
BY MaxCopiesAssumption DEF Plus

\* The run r of an action that sends from its batch or drops from it.
LEMMA RunHeld ==
    ASSUME QueueInv, NEW r \in Calls
    PROVE  /\ sync[r] \in Sync /\ RunSound(sync[r])
           /\ sync[r].batch \subseteq Entries
           /\ \A e \in sync[r].batch : entry[e] \in {"queued", "synced"}
BY DEF QueueInv, QueueTypes, RunsSound, EntriesSound, Sync

LEMMA QueueStep == QueueInv /\ Next => QueueInv'
<1> SUFFICES ASSUME QueueInv, Next PROVE QueueInv'
  OBVIOUS
<1>0. /\ online \in BOOLEAN /\ due \in SUBSET Tabs /\ held \in [Tabs -> SUBSET Entries]
      /\ entry \in [Entries -> {"absent", "taken", "queued", "synced"}]
      /\ placed \in [Entries -> 0..MaxCopies] /\ excuses \in [Entries -> 0..MaxCopies]
      /\ sync \in [Calls -> Sync]
  BY DEF QueueInv, QueueTypes
<1>a. ASSUME NEW t \in Tabs, Mount(t) PROVE due' \in SUBSET Tabs
  BY <1>0, <1>a DEF Mount
<1>1. CASE GoOnline
  <2>1. PICK lost \in SUBSET Waiting :
            entry' = [e \in Entries |-> IF e \in lost THEN "absent"
                                       ELSE IF e \in Waiting THEN "queued" ELSE entry[e]]
    BY <1>1 DEF GoOnline
  <2>2. /\ online' = TRUE /\ due' \in SUBSET Tabs /\ held' = [t \in Tabs |-> {}]
        /\ UNCHANGED <<placed, excuses, sync>>
    BY <1>1 DEF GoOnline
  <2>3. QueueTypes'
    BY <1>0, <2>1, <2>2 DEF QueueTypes
  <2>4. RunsSound'
    BY <2>2 DEF QueueInv, RunsSound, RunSound
  <2>5. ASSUME NEW r \in Calls, NEW e \in sync'[r].batch PROVE entry'[e] \in {"queued", "synced"}
    <3>1. e \in Entries /\ entry[e] \in {"queued", "synced"}
      BY <2>2, <2>5, RunHeld
    <3>2. e \notin Waiting
      BY <1>0, <3>1 DEF Waiting, QueueInv, EntriesSound
    <3> QED  BY <2>1, <3>1, <3>2
  <2> QED  BY <2>2, <2>3, <2>4, <2>5 DEF QueueInv, EntriesSound
<1>2. CASE GoOffline \/ LoginEnds
  BY <1>0, <1>2, OutsideStep DEF GoOffline, LoginEnds, queueVars
<1>3. ASSUME NEW t \in Tabs, Load(t) \/ Leave(t) PROVE QueueInv'
  <2>1. CASE Load(t)
    BY <1>0, <1>a, <2>1, OutsideStep DEF Load
  <2>2. CASE Leave(t)
    BY <1>0, <2>2, OutsideStep DEF Leave
  <2> QED  BY <1>3, <2>1, <2>2
<1>4. ASSUME NEW t \in Tabs, NEW s \in Sessions, SignIn(t, s) PROVE QueueInv'
  BY <1>0, <1>a, <1>4, OutsideStep DEF SignIn
<1>5. ASSUME NEW t \in Tabs, NEW e \in Entries, TakeOrder(t, e) PROVE QueueInv'
  <2>1. /\ entry[e] = "absent" /\ entry' = [entry EXCEPT ![e] = "taken"]
        /\ held' = [held EXCEPT ![t] = held[t] \cup {e}]
        /\ UNCHANGED <<online, due, placed, excuses, sync>>
    BY <1>5 DEF TakeOrder, First
  <2>2. QueueTypes'
    BY <1>0, <2>1 DEF QueueTypes
  <2>3. RunsSound'
    BY <2>1 DEF QueueInv, RunsSound, RunSound
  <2>4. \A u \in Tabs : \A f \in held'[u] : entry'[f] = "taken"
    BY <1>0, <2>1 DEF QueueInv, EntriesSound
  <2>5. ASSUME NEW r \in Calls, NEW f \in sync'[r].batch PROVE entry'[f] \in {"queued", "synced"}
    <3>1. f \in Entries /\ entry[f] \in {"queued", "synced"}
      BY <2>1, <2>5, RunHeld
    <3> QED  BY <1>0, <2>1, <3>1
  <2> QED  BY <2>2, <2>3, <2>4, <2>5 DEF QueueInv, EntriesSound
<1>6. ASSUME NEW t \in Tabs, NEW e \in Entries, PickTable(t, e) PROVE QueueInv'
  BY <1>0, <1>6, OutsideStep DEF PickTable
<1>7. ASSUME NEW r \in Calls, NEW t \in Tabs, Effect(r, t) PROVE QueueInv'
  <2> DEFINE new == [NoSync EXCEPT !.at = "claim", !.tab = t]
  <2>1. new \in Sync /\ RunSound(new) /\ new.batch = {}
    BY DEF NoSync, Sync, SyncStep, RunSound
  <2>2. /\ UNCHANGED <<online, held, entry, placed, excuses>> /\ due' \in SUBSET Tabs
        /\ UNCHANGED sync \/ GoSync(r, new)
    BY <1>0, <1>7 DEF Effect
  <2> HIDE DEF new
  <2>3. CASE UNCHANGED sync
    BY <1>0, <2>2, <2>3, OutsideStep
  <2>4. CASE GoSync(r, new)
    BY <1>0, <2>1, <2>2, <2>4, RunStep
  <2> QED  BY <2>2, <2>3, <2>4
<1>8. ASSUME NEW r \in Calls, NEW t \in Tabs, Browse(r, t) PROVE QueueInv'
  <2> DEFINE new == [NoSync EXCEPT !.at = "send", !.tab = t]
  <2>1. new \in Sync /\ RunSound(new) /\ new.batch = {}
    BY DEF NoSync, Sync, SyncStep, RunSound
  <2>2. UNCHANGED <<online, due, held, entry, placed, excuses>> /\ GoSync(r, new)
    BY <1>8 DEF Browse
  <2> HIDE DEF new
  <2> QED  BY <1>0, <2>1, <2>2, RunStep
<1>9. ASSUME NEW r \in Calls, Claim(r) \/ ClaimAborted(r) PROVE QueueInv'
  <2>1. Unsynced \in SUBSET Entries /\ \A e \in Unsynced : entry[e] = "queued"
    BY DEF Unsynced
  <2>2. Running(r) /\ Loop(r, Unsynced) /\ UNCHANGED <<online, due, held, placed>>
    BY <1>9 DEF Claim, ClaimAborted
  <2>3. /\ \A e \in Entries : \/ entry'[e] = entry[e]
                               \/ {entry[e], entry'[e]} \subseteq {"queued", "synced"}
        /\ entry' \in [Entries -> {"absent", "taken", "queued", "synced"}]
    BY <1>0, <1>9, <2>1 DEF Claim, ClaimAborted, Marked
  <2>4. excuses' \in [Entries -> 0..MaxCopies]
    BY <1>0, <1>9, PlusType DEF Claim, ClaimAborted
  <2>5. PICK new \in Sync : GoSync(r, new) /\ RunSound(new) /\ new.batch = Unsynced
    BY <2>1, <2>2, LoopRun
  <2> QED  BY <1>0, <2>1, <2>2, <2>3, <2>4, <2>5, RunStep
<1>10. ASSUME NEW r \in Calls, NEW e \in Entries, SendEntry(r, e) PROVE QueueInv'
  <2> DEFINE new == [sync[r] EXCEPT !.at = "send", !.entry = e]
  <2>1. new \in Sync /\ RunSound(new) /\ new.batch = sync[r].batch
    BY <1>10, RunHeld DEF SendEntry, Running, Sync, SyncStep, RunSound
  <2>2. UNCHANGED <<online, due, held, entry, placed, excuses>> /\ GoSync(r, new)
    BY <1>10 DEF SendEntry
  <2> HIDE DEF new
  <2> QED  BY <1>0, <2>1, <2>2, RunHeld, RunStep
<1>11. ASSUME NEW r \in Calls, Served(r) PROVE QueueInv'
  <2> DEFINE left == sync[r].batch \ {sync[r].entry}
  <2>1. /\ Running(r) /\ Loop(r, left) /\ CreateOrder(r)
        /\ UNCHANGED <<online, due, held, entry, excuses>>
    BY <1>11 DEF Served
  <2>2. left \in SUBSET Entries /\ \A e \in left : entry[e] \in {"queued", "synced"}
    BY RunHeld
  <2> HIDE DEF left
  <2>3. placed' \in [Entries -> 0..MaxCopies]
    BY <1>0, <2>1, PlusType DEF CreateOrder
  <2>4. PICK new \in Sync : GoSync(r, new) /\ RunSound(new) /\ new.batch = left
    BY <2>1, <2>2, LoopRun
  <2> QED  BY <1>0, <2>1, <2>2, <2>3, <2>4, RunStep
<1>12. ASSUME NEW r \in Calls, ServedUnheard(r) PROVE QueueInv'
  <2>1. /\ UNCHANGED <<online, due, held, entry, sync>>
        /\ placed' \in [Entries -> 0..MaxCopies] /\ excuses' \in [Entries -> 0..MaxCopies]
    BY <1>0, <1>12, PlusType DEF ServedUnheard, CreateOrder
  <2>2. QueueTypes'
    BY <1>0, <2>1 DEF QueueTypes
  <2> QED  BY <2>1, <2>2 DEF QueueInv, RunsSound, RunSound, EntriesSound
<1>13. ASSUME NEW r \in Calls, NoNetwork(r) \/ Carried(r) PROVE QueueInv'
  BY <1>0, <1>13, OutsideStep DEF NoNetwork, Carried, queueVars
<1>14. ASSUME NEW r \in Calls, Revert(r) PROVE QueueInv'
  <2> DEFINE e == sync[r].entry
             left == sync[r].batch \ {e}
  <2>1. /\ Running(r) /\ Loop(r, left) /\ UNCHANGED <<online, due, held, placed, excuses>>
        /\ UNCHANGED entry \/ (e # None /\ entry' = [entry EXCEPT ![e] = "queued"])
    BY <1>14 DEF Revert, Reverted
  <2>2. /\ left \in SUBSET Entries /\ \A f \in left : entry[f] \in {"queued", "synced"}
        /\ e # None => e \in Entries /\ entry[e] \in {"queued", "synced"}
    BY RunHeld DEF RunSound
  <2> HIDE DEF e, left
  <2>3. /\ \A f \in Entries : \/ entry'[f] = entry[f]
                               \/ {entry[f], entry'[f]} \subseteq {"queued", "synced"}
        /\ entry' \in [Entries -> {"absent", "taken", "queued", "synced"}]
    BY <1>0, <2>1, <2>2
  <2>4. PICK new \in Sync : GoSync(r, new) /\ RunSound(new) /\ new.batch = left
    BY <2>1, <2>2, LoopRun DEF left
  <2> QED  BY <1>0, <2>1, <2>2, <2>3, <2>4, RunStep
<1>15. ASSUME NEW r \in Calls, Vanish(r) PROVE QueueInv'
  <2>1. UNCHANGED <<online, due, held, entry, placed, excuses>> /\ GoSync(r, NoSync)
    BY <1>15 DEF Vanish
  <2>2. NoSync.batch = {}
    BY DEF NoSync
  <2> QED  BY <1>0, <2>1, <2>2, NoSyncType, RunStep
<1> QED
  BY <1>1, <1>2, <1>3, <1>4, <1>5, <1>6, <1>7, <1>8, <1>9, <1>10, <1>11, <1>12, <1>13, <1>14,
     <1>15 DEF Next, Proceed

LEMMA LoginStep == LoginInv /\ QueueInv /\ Next => LoginInv'
<1> SUFFICES ASSUME LoginInv, QueueInv, Next PROVE LoginInv'
  OBVIOUS
<1>0. /\ session \in [Sessions -> SessionRow] /\ tab \in [Tabs -> Tab] /\ disk \in Store
      /\ calls \in Mixes /\ req \in [Calls -> Call]
  BY DEF LoginInv, SessionsTypeOK
<1>1. UNCHANGED calls
  BY DEF Next, GoOnline, GoOffline, LoginEnds, Load, Leave, SignIn, TakeOrder, PickTable, Effect,
         Browse, Proceed, Claim, SendEntry, Served, NoNetwork, Carried, Revert, ClaimAborted,
         ServedUnheard, Vanish
<1>a. ASSUME UNCHANGED sessionVars PROVE LoginInv'
  BY <1>0, <1>1, <1>a DEF LoginInv, SessionsTypeOK, CallsSound, CallSound, sessionVars
<1>b. ASSUME UNCHANGED <<session, tab, disk>>, req' \in [Calls -> Call] /\ CallsSound'
      PROVE  LoginInv'
  BY <1>0, <1>1, <1>b DEF LoginInv, SessionsTypeOK
<1>c. ASSUME NEW r \in Calls, NEW t \in Tabs, Send(r, t) PROVE req' \in [Calls -> Call] /\ CallsSound'
  <2>1. tab[t].store.access \in Access
    BY <1>0 DEF Tab, Store
  <2> QED  BY <1>c, <2>1, SentTypes DEF Send
<1>2. CASE GoOnline \/ GoOffline
  BY <1>2, <1>a DEF GoOnline, GoOffline
<1>3. CASE LoginEnds
  BY <1>1, <1>3, TabEvents DEF LoginEnds
<1>4. ASSUME NEW t \in Tabs, Load(t) \/ Leave(t) PROVE LoginInv'
  BY <1>1, <1>4, TabEvents DEF Load, Leave
<1>5. ASSUME NEW t \in Tabs, NEW s \in Sessions, SignIn(t, s) PROVE LoginInv'
  BY <1>1, <1>5, TabEvents DEF SignIn
<1>6. ASSUME NEW t \in Tabs, NEW e \in Entries, TakeOrder(t, e) \/ PickTable(t, e) PROVE LoginInv'
  BY <1>6, <1>a DEF TakeOrder, PickTable
<1>7. ASSUME NEW r \in Calls, NEW t \in Tabs, Effect(r, t) \/ Browse(r, t) PROVE LoginInv'
  <2>1. CASE Effect(r, t)
    BY <2>1, <1>a DEF Effect
  <2>2. CASE Browse(r, t)
    BY <2>2, <1>b, <1>c DEF Browse
  <2> QED  BY <1>7, <2>1, <2>2
<1>8. ASSUME NEW r \in Calls, Claim(r) \/ ClaimAborted(r) PROVE LoginInv'
  BY <1>8, <1>a DEF Claim, ClaimAborted
<1>9. ASSUME NEW r \in Calls, NEW e \in Entries, SendEntry(r, e) PROVE LoginInv'
  <2>1. sync[r].tab \in Tabs
    BY <1>9, RunHeld DEF SendEntry, Running, RunSound
  <2> QED  BY <1>9, <1>b, <1>c, <2>1 DEF SendEntry
<1>10. ASSUME NEW r \in Calls, Served(r) \/ ServedUnheard(r) \/ Carried(r) PROVE LoginInv'
  BY <1>1, <1>10, CallEvents DEF Served, ServedUnheard, Carried
<1>11. ASSUME NEW r \in Calls, NoNetwork(r) PROVE LoginInv'
  <2>1. /\ UNCHANGED <<session, tab, disk>> /\ ~Idle(r)
        /\ Go(r, "failed") \/ Go(r, "refused")
    BY <1>11 DEF NoNetwork, Idle
  <2> QED  BY <1>b, <2>1, GoTypes DEF Step
<1>12. ASSUME NEW r \in Calls, Revert(r) PROVE LoginInv'
  BY <1>12, <1>b, ForgetTypes DEF Revert
<1>13. ASSUME NEW r \in Calls, Vanish(r) PROVE LoginInv'
  BY <1>1, <1>13, <1>a, CallEvents DEF Vanish
<1> QED
  BY <1>2, <1>3, <1>4, <1>5, <1>6, <1>7, <1>8, <1>9, <1>10, <1>11, <1>12, <1>13 DEF Next, Proceed

LEMMA InitTypes == Init => LoginInv /\ QueueInv
<1> SUFFICES ASSUME Init PROVE LoginInv /\ QueueInv
  OBVIOUS
<1>1. [state |-> "none", key |-> 0] \in SessionRow /\ NoCall \in Call /\ CallSound(NoCall)
  BY MaxKeyType DEF SessionRow, NoCall, Call, CallSound, Step, Access
<1>2. LoginInv
  BY <1>1, LoggedOutType DEF Init, SessionsInit, LoginInv, SessionsTypeOK, CallsSound, Tab
<1>3. QueueTypes /\ RunsSound
  BY NoSyncType, MaxCopiesAssumption DEF Init, QueueTypes, RunsSound
<1>4. EntriesSound
  BY DEF Init, EntriesSound, NoSync
<1> QED  BY <1>2, <1>3, <1>4 DEF QueueInv

TypeInv == LoginInv /\ QueueInv

LEMMA Typing == Spec => []TypeInv
<1>1. Init => TypeInv
  BY InitTypes DEF TypeInv
<1>2. TypeInv /\ [Next]_vars => TypeInv'
  <2>1. TypeInv /\ UNCHANGED vars => TypeInv'
    BY DEF TypeInv, LoginInv, QueueInv, SessionsTypeOK, CallsSound, CallSound, QueueTypes, RunsSound,
           RunSound, EntriesSound, vars, sessionVars, queueVars
  <2> QED  BY <2>1, LoginStep, QueueStep DEF TypeInv
<1> QED  BY <1>1, <1>2, PTL DEF Spec

\* TypeOK: sessions, tabs, calls in flight and queue stay well-formed for any
\* number of them, whatever is lost, closed, revoked or rolled back (LoginSessions
\* and OfflineQueue).
THEOREM TypeCorrect == Spec => []TypeOK
<1>1. TypeInv => TypeOK
  BY DEF TypeInv, LoginInv, QueueInv, QueueTypes, TypeOK
<1> QED  BY <1>1, Typing, PTL

-----------------------------------------------------------------------------
(* Copies of an order                                                      *)

\* The runs that have order e in hand, and whether the next one may take it.
Hands(e) == {r \in Calls : e \in sync[r].batch}
Unsent(e) == IF entry[e] = "synced" THEN 0 ELSE 1

\* What is placed and what may still be placed is excused, as long as the count
\* of excuses has not reached its bound.
Counted(e) == excuses[e] < MaxCopies =>
                 placed[e] + Cardinality(Hands(e)) + Unsent(e) <= 1 + excuses[e]

CopiesInv == \A e \in Entries : Counted(e)

LEMMA HandsType == \A e \in Entries : IsFiniteSet(Hands(e)) /\ Cardinality(Hands(e)) \in Nat
<1> TAKE e \in Entries
<1>1. Hands(e) \in SUBSET Calls
  BY DEF Hands
<1> QED  BY <1>1, SlotsAssumption, FS_Subset, FS_CardinalityType

\* The hands on an order after one run went on.
LEMMA HandsStep ==
    ASSUME sync \in [Calls -> Sync], NEW r \in Calls, NEW new \in Sync, GoSync(r, new),
           NEW e \in Entries
    PROVE  Cardinality(Hands(e))' = Cardinality(Hands(e))
                                      + (IF e \in new.batch THEN 1 ELSE 0)
                                      - (IF e \in sync[r].batch THEN 1 ELSE 0)
<1>1. sync' = [sync EXCEPT ![r] = new]
  BY DEF GoSync
<1>2. CASE e \in new.batch <=> e \in sync[r].batch
  <2>1. Hands(e)' = Hands(e)
    BY <1>1, <1>2 DEF Hands
  <2> QED  BY <1>2, <2>1, HandsType
<1>3. CASE e \in new.batch /\ e \notin sync[r].batch
  <2>1. Hands(e)' = Hands(e) \cup {r} /\ r \notin Hands(e)
    BY <1>1, <1>3 DEF Hands
  <2>2. Cardinality(Hands(e) \cup {r}) = Cardinality(Hands(e)) + 1
    BY <2>1, HandsType, FS_AddElement
  <2> QED  BY <1>3, <2>1, <2>2, HandsType
<1>4. CASE e \notin new.batch /\ e \in sync[r].batch
  <2>1. Hands(e)' = Hands(e) \ {r} /\ r \in Hands(e)
    BY <1>1, <1>4 DEF Hands
  <2>2. Cardinality(Hands(e) \ {r}) = Cardinality(Hands(e)) - 1
    BY <2>1, HandsType, FS_RemoveElement
  <2> QED  BY <1>4, <2>1, <2>2, HandsType
<1> QED  BY <1>2, <1>3, <1>4

\* A step that leaves the copies of e and the hands on it as they are.
LEMMA SameCount ==
    ASSUME QueueInv, NEW e \in Entries, Counted(e), Hands(e)' = Hands(e),
           placed'[e] = placed[e], excuses'[e] = excuses[e],
           entry[e] = "synced" => entry'[e] = "synced"
    PROVE  Counted(e)'
<1>1. Unsent(e)' <= Unsent(e) /\ Unsent(e) \in Nat /\ Unsent(e)' \in Nat
  BY DEF Unsent
<1>2. Cardinality(Hands(e)) \in Nat /\ placed[e] \in Nat /\ excuses[e] \in Nat
  BY HandsType, MaxCopiesAssumption DEF QueueInv, QueueTypes
<1> QED  BY <1>1, <1>2, MaxCopiesAssumption DEF Counted

LEMMA CountStep == QueueInv /\ CopiesInv /\ Next => CopiesInv'
<1> SUFFICES ASSUME QueueInv, CopiesInv, Next, NEW e \in Entries PROVE Counted(e)'
  BY DEF CopiesInv
<1>0. /\ Counted(e) /\ entry \in [Entries -> {"absent", "taken", "queued", "synced"}]
      /\ placed \in [Entries -> 0..MaxCopies] /\ excuses \in [Entries -> 0..MaxCopies]
      /\ placed[e] \in Nat /\ excuses[e] \in Nat /\ MaxCopies \in Nat
      /\ sync \in [Calls -> Sync] /\ Cardinality(Hands(e)) \in Nat /\ Cardinality(Hands(e))' \in Nat
  <2>1. Cardinality(Hands(e))' \in Nat
    <3>1. Hands(e)' \in SUBSET Calls
      BY DEF Hands
    <3> QED  BY <3>1, SlotsAssumption, FS_Subset, FS_CardinalityType
  <2> QED  BY <2>1, HandsType, MaxCopiesAssumption DEF QueueInv, QueueTypes, CopiesInv
<1>a. ASSUME UNCHANGED <<entry, placed, excuses, sync>> PROVE Counted(e)'
  BY <1>0, <1>a DEF Counted, Hands, Unsent
\* A run whose hand on e is as before.
<1>b. ASSUME NEW r \in Calls, NEW new \in Sync, GoSync(r, new), UNCHANGED <<placed, excuses>>,
             entry[e] = "synced" => entry'[e] = "synced",
             e \in new.batch <=> e \in sync[r].batch
      PROVE  Counted(e)'
  <2>1. Hands(e)' = Hands(e)
    BY <1>0, <1>b DEF GoSync, Hands
  <2> QED  BY <1>0, <1>b, <2>1, SameCount
<1>1. CASE GoOnline
  <2>1. entry[e] = "synced" => entry'[e] = "synced"
    <3>1. entry[e] = "synced" => e \notin Waiting
      BY DEF Waiting, QueueInv, EntriesSound
    <3> QED  BY <1>1, <3>1 DEF GoOnline
  <2>2. UNCHANGED <<placed, excuses, sync>>
    BY <1>1 DEF GoOnline
  <2> QED  BY <1>0, <2>1, <2>2, SameCount DEF Hands
<1>2. CASE GoOffline \/ LoginEnds
  BY <1>2, <1>a DEF GoOffline, LoginEnds, queueVars
<1>3. ASSUME NEW t \in Tabs, Load(t) \/ Leave(t) PROVE Counted(e)'
  BY <1>3, <1>a DEF Load, Leave
<1>4. ASSUME NEW t \in Tabs, NEW s \in Sessions, SignIn(t, s) PROVE Counted(e)'
  BY <1>4, <1>a DEF SignIn
<1>5. ASSUME NEW t \in Tabs, NEW f \in Entries, TakeOrder(t, f) PROVE Counted(e)'
  <2>1. entry[f] = "absent" /\ entry' = [entry EXCEPT ![f] = "taken"]
        /\ UNCHANGED <<placed, excuses, sync>>
    BY <1>5 DEF TakeOrder, First
  <2>2. entry[e] = "synced" => entry'[e] = "synced"
    BY <1>0, <2>1
  <2> QED  BY <1>0, <2>1, <2>2, SameCount DEF Hands
<1>6. ASSUME NEW t \in Tabs, NEW f \in Entries, PickTable(t, f) PROVE Counted(e)'
  BY <1>6, <1>a DEF PickTable
<1>7. ASSUME NEW r \in Calls, NEW t \in Tabs, Effect(r, t) \/ Browse(r, t) PROVE Counted(e)'
  <2> DEFINE new(at) == [NoSync EXCEPT !.at = at, !.tab = t]
  <2>1. sync[r].batch = {}
    BY <1>7, RunHeld DEF Effect, Browse, Free, First, RunSound
  <2>2. \A at \in {"claim", "send"} : new(at) \in Sync /\ new(at).batch = {}
    BY DEF NoSync, Sync, SyncStep
  <2>3. /\ UNCHANGED <<entry, placed, excuses>>
        /\ UNCHANGED sync \/ \E at \in {"claim", "send"} : GoSync(r, new(at))
    BY <1>7 DEF Effect, Browse
  <2> HIDE DEF new
  <2> QED  BY <1>a, <1>b, <2>1, <2>2, <2>3
<1>8. ASSUME NEW r \in Calls, Claim(r) \/ ClaimAborted(r) PROVE Counted(e)'
  <2>1. sync[r].batch = {} /\ Running(r) /\ Loop(r, Unsynced) /\ UNCHANGED placed
    BY <1>8, RunHeld DEF Claim, ClaimAborted, RunSound
  <2>2. PICK new \in Sync : GoSync(r, new) /\ new.batch = Unsynced
    BY <2>1, LoopRun DEF Unsynced
  <2>3. CASE e \notin Unsynced
    <3>1. entry'[e] = entry[e] /\ excuses'[e] = excuses[e]
      BY <1>0, <1>8, <2>3 DEF Claim, ClaimAborted, Marked
    <3>2. Hands(e)' = Hands(e)
      BY <1>0, <2>1, <2>2, <2>3 DEF GoSync, Hands
    <3> QED  BY <1>0, <2>1, <3>1, <3>2, SameCount
  <2>4. CASE e \in Unsynced
    <3>1. Cardinality(Hands(e))' = Cardinality(Hands(e)) + 1
      BY <1>0, <2>1, <2>2, <2>4, HandsStep
    <3>2. Unsent(e) = 1
      BY <2>4 DEF Unsynced, Unsent
    <3>3. CASE Claim(r)
      <4>1. Unsent(e)' = 0 /\ UNCHANGED <<placed, excuses>>
        BY <2>4, <3>3 DEF Claim, Marked, Unsent
      <4> QED  BY <1>0, <3>1, <3>2, <4>1 DEF Counted
    <3>4. CASE ClaimAborted(r)
      <4>1. Unsent(e)' = Unsent(e) /\ UNCHANGED placed /\ excuses'[e] = Plus(excuses[e])
        BY <2>4, <3>4 DEF ClaimAborted, Unsent
      <4> QED  BY <1>0, <3>1, <3>2, <4>1 DEF Counted, Plus
    <3> QED  BY <1>8, <3>3, <3>4
  <2> QED  BY <2>3, <2>4
<1>9. ASSUME NEW r \in Calls, NEW f \in Entries, SendEntry(r, f) PROVE Counted(e)'
  <2> DEFINE new == [sync[r] EXCEPT !.at = "send", !.entry = f]
  <2>1. new \in Sync /\ new.batch = sync[r].batch
    BY RunHeld DEF Sync, SyncStep
  <2>2. UNCHANGED <<entry, placed, excuses>> /\ GoSync(r, new)
    BY <1>9 DEF SendEntry
  <2> HIDE DEF new
  <2> QED  BY <1>b, <2>1, <2>2
<1>10. ASSUME NEW r \in Calls, Served(r) PROVE Counted(e)'
  <2> DEFINE f == sync[r].entry
  <2>1. /\ Running(r) /\ Loop(r, sync[r].batch \ {f}) /\ CreateOrder(r)
        /\ UNCHANGED <<entry, excuses>>
    BY <1>10 DEF Served
  <2>2. PICK new \in Sync : GoSync(r, new) /\ new.batch = sync[r].batch \ {f}
    BY <2>1, LoopRun, RunHeld
  <2>3. CASE e # f \/ f = None
    <3>1. placed'[e] = placed[e]
      BY <1>0, <2>1, <2>3 DEF CreateOrder
    <3>2. Cardinality(Hands(e))' <= Cardinality(Hands(e))
      BY <1>0, <2>2, HandsStep
    <3> QED  BY <1>0, <2>1, <3>1, <3>2 DEF Counted, Unsent
  <2>4. CASE e = f /\ f # None
    <3>1. placed'[e] = Plus(placed[e])
      BY <1>0, <2>1, <2>4 DEF CreateOrder
    <3>2. Cardinality(Hands(e))' = Cardinality(Hands(e)) - 1
      BY <1>0, <2>2, <2>4, HandsStep, RunHeld DEF RunSound
    <3> QED  BY <1>0, <2>1, <3>1, <3>2, PlusType DEF Counted, Unsent
  <2> QED  BY <2>3, <2>4
<1>11. ASSUME NEW r \in Calls, ServedUnheard(r) PROVE Counted(e)'
  <2> DEFINE f == sync[r].entry
  <2>1. UNCHANGED <<entry, sync>> /\ CreateOrder(r)
    BY <1>11 DEF ServedUnheard
  <2>2. CASE e # f \/ f = None
    <3>1. placed'[e] = placed[e] /\ excuses'[e] = excuses[e]
      BY <1>0, <1>11, <2>2 DEF ServedUnheard, CreateOrder
    <3> QED  BY <1>0, <2>1, <3>1, SameCount DEF Hands
  <2>3. CASE e = f /\ f # None
    <3>1. placed'[e] = Plus(placed[e]) /\ excuses'[e] = Plus(excuses[e])
      BY <1>0, <1>11, <2>3 DEF ServedUnheard, CreateOrder
    <3>2. Hands(e)' = Hands(e) /\ Unsent(e)' = Unsent(e) /\ Unsent(e) \in Nat
      BY <2>1 DEF Hands, Unsent
    <3> QED  BY <1>0, <3>1, <3>2 DEF Counted, Plus
  <2> QED  BY <2>2, <2>3
<1>12. ASSUME NEW r \in Calls, NoNetwork(r) \/ Carried(r) PROVE Counted(e)'
  BY <1>12, <1>a DEF NoNetwork, Carried, queueVars
<1>13. ASSUME NEW r \in Calls, Revert(r) PROVE Counted(e)'
  <2> DEFINE f == sync[r].entry
  <2>1. /\ Running(r) /\ Loop(r, sync[r].batch \ {f}) /\ UNCHANGED <<placed, excuses>>
        /\ UNCHANGED entry \/ (f # None /\ entry' = [entry EXCEPT ![f] = "queued"])
    BY <1>13 DEF Revert, Reverted
  <2>2. PICK new \in Sync : GoSync(r, new) /\ new.batch = sync[r].batch \ {f}
    BY <2>1, LoopRun, RunHeld
  <2>3. CASE e # f \/ UNCHANGED entry
    <3>1. Unsent(e)' = Unsent(e) /\ Unsent(e) \in Nat
      BY <1>0, <2>1, <2>3 DEF Unsent
    <3>2. Cardinality(Hands(e))' <= Cardinality(Hands(e))
      BY <1>0, <2>2, HandsStep
    <3> QED  BY <1>0, <2>1, <3>1, <3>2 DEF Counted
  <2>4. CASE e = f /\ f # None
    <3>1. Unsent(e)' <= Unsent(e) + 1 /\ Unsent(e) \in Nat /\ Unsent(e)' \in Nat
      BY DEF Unsent
    <3>2. Cardinality(Hands(e))' = Cardinality(Hands(e)) - 1
      BY <1>0, <2>2, <2>4, HandsStep, RunHeld DEF RunSound
    <3> QED  BY <1>0, <2>1, <3>1, <3>2 DEF Counted
  <2> QED  BY <2>1, <2>3, <2>4
<1>14. ASSUME NEW r \in Calls, Vanish(r) PROVE Counted(e)'
  <2>1. UNCHANGED <<entry, placed, excuses>> /\ GoSync(r, NoSync)
    BY <1>14 DEF Vanish
  <2>2. Cardinality(Hands(e))' <= Cardinality(Hands(e))
    BY <1>0, <2>1, HandsStep, NoSyncType DEF NoSync
  <2> QED  BY <1>0, <2>1, <2>2 DEF Counted, Unsent
<1> QED
  BY <1>1, <1>2, <1>3, <1>4, <1>5, <1>6, <1>7, <1>8, <1>9, <1>10, <1>11, <1>12, <1>13, <1>14
     DEF Next, Proceed

\* CopiesExcused: for any number of tabs, calls and queued orders, and whatever
\* fails, an order is placed once and each further copy answers for a lost answer
\* or a claim that IndexedDB rolled back (syncOfflineOrders of POSPage).
THEOREM CopiesAreExcused == Spec => []CopiesExcused
<1>1. Init => CopiesInv
  <2> SUFFICES ASSUME Init, NEW e \in Entries PROVE Counted(e)
    BY DEF CopiesInv
  <2>1. Hands(e) = {} /\ placed[e] = 0 /\ excuses[e] = 0 /\ Unsent(e) = 1
    BY DEF Init, Hands, NoSync, Unsent
  <2>2. Cardinality({}) = 0
    BY FS_EmptySet
  <2> QED  BY <2>1, <2>2 DEF Counted
<1>2. QueueInv /\ CopiesInv /\ [Next]_vars => CopiesInv'
  <2>1. CopiesInv /\ UNCHANGED vars => CopiesInv'
    BY DEF CopiesInv, Counted, Hands, Unsent, vars, queueVars
  <2> QED  BY <2>1, CountStep
<1>3. QueueInv /\ CopiesInv => CopiesExcused
  <2> SUFFICES ASSUME QueueInv, NEW e \in Entries, Counted(e) PROVE placed[e] <= 1 + excuses[e]
    BY DEF CopiesInv, CopiesExcused
  <2>1. placed[e] \in 0..MaxCopies /\ excuses[e] \in 0..MaxCopies /\ Unsent(e) \in Nat
        /\ Cardinality(Hands(e)) \in Nat
    BY HandsType DEF QueueInv, QueueTypes, Unsent
  <2> QED  BY <2>1, MaxCopiesAssumption DEF Counted
<1>4. TypeInv => QueueInv
  BY DEF TypeInv
<1> QED  BY <1>1, <1>2, <1>3, <1>4, Typing, PTL DEF Spec
=============================================================================
