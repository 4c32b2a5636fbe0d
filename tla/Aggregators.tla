---------------------------- MODULE Aggregators ----------------------------
(***************************************************************************)
(* Orders from a delivery platform (AggregatorsService).  The platform     *)
(* sends an order until it is answered; staff accept or reject it, which   *)
(* the platform is told by a call nobody waits for.                        *)
(***************************************************************************)
EXTENDS Requests

CONSTANTS
    External,     \* orders of the platform, by externalOrderId
    Imports       \* slots for the orders made of them

ASSUME ExternalAssumption == None \notin External

VARIABLES
    autoAccept,   \* of the connection
    import,       \* orders: which external one, and the status this service set
    platform,     \* each external order there: answered, and what it was told
    pushes        \* calls to the platform on their way

platformVars == <<autoAccept, import, platform, pushes>>

-----------------------------------------------------------------------------
ImportStatus == {"PENDING", "ACCEPTED", "CANCELLED"}
Answer == {"ACCEPTED", "REJECTED"}

ImportsOf(x) == {s \in Imports : import[s].ext = x}
NewImport(s) == Takes(s, ImportsOf(None))

Answered(x) == platform' = [platform EXCEPT ![x].answered = TRUE]

-----------------------------------------------------------------------------
(* The webhook                                                             *)

\* Mutant: every webhook is new.
NeverDuplicate(x) == FALSE

Duplicate(x) == ImportsOf(x) # {}

\* receiveWebhookOrder reads the connection and looks for the order.  The
\* platform repeats what was not answered, and may repeat more.
WebhookRead(r, x) ==
    /\ Free(r, "webhook")
    /\ ~platform[x].answered \/ "repeat" \in calls
    /\ IF Duplicate(x)
       THEN Answered(x) /\ UNCHANGED req
       ELSE /\ Begin(r, "import", x, IF autoAccept THEN "ACCEPTED" ELSE "PENDING", None)
            /\ UNCHANGED platform
    /\ UNCHANGED <<calls, autoAccept, import, pushes>>

\* externalOrderId is not unique in the table.
ImportOrder(r, s) ==
    /\ At(r, "import")
    /\ NewImport(s)
    /\ import' = [import EXCEPT ![s] = [ext |-> req[r].on, status |-> req[r].arg]]
    /\ Then(r, "answer")
    /\ UNCHANGED <<calls, autoAccept, platform, pushes>>

\* The connection is updated, and the webhook answered.
AnswerWebhook(r) ==
    /\ At(r, "answer")
    /\ Answered(req[r].on)
    /\ Done(r)
    /\ UNCHANGED <<calls, autoAccept, import, pushes>>

\* updateConnection
SetAutoAccept ==
    /\ "connection" \in calls
    /\ autoAccept' = ~autoAccept
    /\ UNCHANGED <<calls, req, import, platform, pushes>>

-----------------------------------------------------------------------------
(* Staff                                                                   *)

\* acceptAggregatorOrder and rejectAggregatorOrder.
DecideRead(r, s, answer) ==
    /\ Free(r, "decide")
    /\ import[s].ext # None /\ import[s].status = "PENDING"
    /\ Begin(r, "decide", s, answer, None)
    /\ UNCHANGED <<calls, platformVars>>

\* Order and history in a transaction; then the push, unless the process stops.
DecideWrite(r) ==
    LET s == req[r].on
    IN  /\ At(r, "decide")
        /\ import' = [import EXCEPT ![s].status =
                         IF req[r].arg = "ACCEPTED" THEN "ACCEPTED" ELSE "CANCELLED"]
        /\ \/ pushes' = pushes \cup {[ext |-> import[s].ext, answer |-> req[r].arg]}
           \/ "fail" \in calls /\ UNCHANGED pushes
        /\ Done(r)
        /\ UNCHANGED <<calls, autoAccept, platform>>

\* pushStatusToAggregator: pushes arrive in any order, or fail and are logged.
PushEnds(p) ==
    /\ p \in pushes
    /\ \/ platform' = [platform EXCEPT ![p.ext].told = p.answer]
       \/ "fail" \in calls /\ UNCHANGED platform
    /\ pushes' = pushes \ {p}
    /\ UNCHANGED <<calls, req, autoAccept, import>>

-----------------------------------------------------------------------------
PlatformInit ==
    /\ autoAccept = FALSE
    /\ import = [s \in Imports |-> [ext |-> None, status |-> "PENDING"]]
    /\ platform = [x \in External |-> [answered |-> FALSE, told |-> None]]
    /\ pushes = {}

PlatformTypeOK ==
    /\ autoAccept \in BOOLEAN
    /\ import \in [Imports -> [ext : External \cup {None}, status : ImportStatus]]
    /\ platform \in [External -> [answered : BOOLEAN, told : Answer \cup {None}]]
    /\ pushes \in SUBSET [ext : External, answer : Answer]

PlatformNext(r) ==
    \/ \E x \in External : WebhookRead(r, x)
    \/ \E s \in Imports :
          ImportOrder(r, s) \/ \E answer \in Answer : DecideRead(r, s, answer)
    \/ AnswerWebhook(r) \/ DecideWrite(r)

PlatformMoves ==
    SetAutoAccept \/ \E p \in [ext : External, answer : Answer] : PushEnds(p)

\* The platform and the restaurant agree on an order: one that was answered is in
\* the kitchen's list, and once however often the webhook is repeated, after a
\* crash too; and what the platform was told is what staff decided.  The last two
\* take one handler at a time: webhooks that overtake each other make two orders,
\* and one member of staff may accept what another rejects.
PlatformAgrees ==
    \A x \in External :
        /\ platform[x].answered => ImportsOf(x) # {}
        /\ "alone" \in calls =>
              /\ Cardinality(ImportsOf(x)) <= 1
              /\ \A s \in ImportsOf(x) : platform[x].told # None =>
                    (import[s].status = "ACCEPTED") = (platform[x].told = "ACCEPTED")
=============================================================================
