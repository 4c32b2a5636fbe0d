-------------------------------- MODULE Staff --------------------------------
(***************************************************************************)
(* Shifts and time entries of the staff (HrService and HrCronService).      *)
(***************************************************************************)
EXTENDS Tenants

CONSTANTS
    Shifts,      \* slots for shifts; Worker says whose
    Worker,
    Entries      \* slots for time entries

ASSUME WorkerAssumption == Worker \in [Shifts -> Users]

VARIABLES
    day,         \* each shift: still to come, on, on since the day before, or
                 \* over since the day before
    shift,       \* their status
    entry        \* time entries: whose, for which shift, begun when it was on, open

staffVars == <<day, shift, entry>>

-----------------------------------------------------------------------------
ShiftStatus == {"SCHEDULED", "IN_PROGRESS", "COMPLETED", "MISSED", "CANCELLED"}

ASSUME ShiftAssumption == None \notin ShiftStatus

NoEntry == [user |-> None, shift |-> None, inTime |-> {}, open |-> FALSE]

OpenEntries(u) == {e \in Entries : entry[e].user = u /\ entry[e].open}
NewEntry(e) ==
    Takes(e, {f \in Entries : /\ entry[f].user = None
                              /\ \A r \in Handling : At(r, "clockIn") => req[r].seen # f})

\* Time passes: a shift begins, and ends, after midnight if it is a night shift.
Later(s) ==
    /\ "time" \in calls
    /\ \E d \in {"on", "night", "over"} :
          /\ CASE day[s] = "ahead" -> d = "on"
               [] day[s] = "on"    -> d = "over" \/ (d = "night" /\ "night" \in calls)
               [] day[s] = "night" -> d = "over"
               [] OTHER            -> FALSE
          /\ day' = [day EXCEPT ![s] = d]
    /\ UNCHANGED <<calls, req, tenantVars, shift, entry>>

Running(u) == {s \in Shifts : Worker[s] = u /\ day[s] \in {"on", "night"}}

-----------------------------------------------------------------------------
\* createShift, and updateShift or deleteShift, of a manager.
CreateShift(s) ==
    /\ "schedule" \in calls
    /\ shift[s] = None
    /\ shift' = [shift EXCEPT ![s] = "SCHEDULED"]
    /\ UNCHANGED <<calls, req, tenantVars, day, entry>>

UpdateShift(s, status) ==
    /\ "updateShift" \in calls
    /\ shift[s] # None
    /\ shift' = [shift EXCEPT ![s] = status]
    /\ UNCHANGED <<calls, req, tenantVars, day, entry>>

ClockInRead(r, u, s, e) ==
    /\ Free(r, "clockIn")
    /\ Passes(u)
    /\ OpenEntries(u) = {}
    /\ NewEntry(e)
    /\ Begin(r, "clockIn", u, s, e)
    /\ UNCHANGED <<calls, tenantVars, staffVars>>

\* The shift in the request may be anybody's; the entry counts for those of the
\* user that are on.
ClockInWrite(r) ==
    LET u == req[r].on
    IN  /\ At(r, "clockIn")
        /\ entry' = [entry EXCEPT ![req[r].seen] =
                       [user |-> u, shift |-> req[r].arg, inTime |-> Running(u),
                        open |-> TRUE]]
        /\ IF req[r].arg = None THEN Done(r)
           ELSE Begin(r, "linkShift", req[r].arg, "IN_PROGRESS", None)
        /\ UNCHANGED <<calls, tenantVars, day, shift>>

\* The last statement of clockIn and clockOut; its errors are swallowed.
LinkShift(r) ==
    LET s == req[r].on
    IN  /\ At(r, "linkShift")
        /\ shift' = IF shift[s] = None THEN shift ELSE [shift EXCEPT ![s] = req[r].arg]
        /\ Done(r)
        /\ UNCHANGED <<calls, tenantVars, day, entry>>

\* The open entry of the user, the latest if there are several.
ClockOutRead(r, u, e) ==
    /\ Free(r, "clockOut")
    /\ Passes(u)
    /\ e \in OpenEntries(u)
    /\ Begin(r, "clockOut", None, None, e)
    /\ UNCHANGED <<calls, tenantVars, staffVars>>

ClockOutWrite(r) ==
    LET e == req[r].seen
    IN  /\ At(r, "clockOut")
        /\ entry' = [entry EXCEPT ![e].open = FALSE]
        /\ IF entry[e].shift = None THEN Done(r)
           ELSE Begin(r, "linkShift", entry[e].shift, "COMPLETED", None)
        /\ UNCHANGED <<calls, tenantVars, day, shift>>

\* addManualTimeEntry, of a manager: closed, begun at any time, linked to no
\* effect.
AddManualEntry(u, e, inTime) ==
    /\ "manualEntry" \in calls
    /\ NewEntry(e)
    /\ inTime \subseteq {s \in Shifts : Worker[s] = u}
    /\ entry' = [entry EXCEPT ![e] = [NoEntry EXCEPT !.user = u, !.inTime = inTime]]
    /\ UNCHANGED <<calls, req, tenantVars, day, shift>>

-----------------------------------------------------------------------------
\* markMissedShifts at midnight: the shifts that began yesterday and are still
\* SCHEDULED, over or not, ...
MissedRead(r) ==
    /\ Free(r, "missed")
    /\ Begin(r, "missed", None, None,
             {s \in Shifts : shift[s] = "SCHEDULED" /\ day[s] \in {"night", "over"}})
    /\ UNCHANGED <<calls, tenantVars, staffVars>>

\* Mutant: only entries that are closed count.
WorkedIfClosed(s) == \E e \in Entries : s \in entry[e].inTime /\ ~entry[e].open

\* An entry of the user begins while the shift is on.
Worked(s) == \E e \in Entries : s \in entry[e].inTime

\* ... one after the other: is there an entry?
MissedCheck(r, s) ==
    /\ At(r, "missed")
    /\ s \in req[r].seen
    /\ Begin(r, IF Worked(s) THEN "missed" ELSE "markMissed", s, None, req[r].seen \ {s})
    /\ UNCHANGED <<calls, tenantVars, staffVars>>

MissedWrite(r) ==
    LET s == req[r].on
    IN  /\ At(r, "markMissed")
        /\ shift' = IF shift[s] = None THEN shift ELSE [shift EXCEPT ![s] = "MISSED"]
        /\ Then(r, "missed")
        /\ UNCHANGED <<calls, tenantVars, day, entry>>

MissedEnd(r) ==
    /\ At(r, "missed") /\ req[r].seen = {}
    /\ Done(r)
    /\ UNCHANGED <<calls, tenantVars, staffVars>>

-----------------------------------------------------------------------------
StaffInit ==
    /\ day = [s \in Shifts |-> "ahead"]
    /\ shift = [s \in Shifts |-> None]
    /\ entry = [e \in Entries |-> NoEntry]

StaffTypeOK ==
    /\ day \in [Shifts -> {"ahead", "on", "night", "over"}]
    /\ shift \in [Shifts -> ShiftStatus \cup {None}]
    /\ entry \in [Entries -> [user : Users \cup {None}, shift : Shifts \cup {None},
                              inTime : SUBSET Shifts, open : BOOLEAN]]
StaffNext(r) ==
    \/ \E u \in Users, s \in Shifts \cup {None}, e \in Entries : ClockInRead(r, u, s, e)
    \/ \E u \in Users, e \in Entries : ClockOutRead(r, u, e)
    \/ ClockInWrite(r) \/ ClockOutWrite(r) \/ LinkShift(r)
    \/ MissedRead(r) \/ MissedWrite(r) \/ MissedEnd(r)
    \/ \E s \in Shifts : MissedCheck(r, s)

ManagersAct ==
    \/ \E s \in Shifts :
          CreateShift(s) \/ \E status \in ShiftStatus \cup {None} : UpdateShift(s, status)
    \/ \E u \in Users, e \in Entries, inTime \in SUBSET Shifts : AddManualEntry(u, e, inTime)

\* Nobody who clocked in while a shift of theirs was on is marked as having missed
\* it, even when the entry names another shift or none, or the statement that
\* links it to the shift fails; unless a manager edits shifts or entries by hand,
\* or the shift goes on after midnight: the job does not wait for its end.
WorkedIsNotMissed ==
    calls \cap {"updateShift", "manualEntry", "night"} = {} =>
        \A s \in Shifts, e \in Entries : s \in entry[e].inTime => shift[s] # "MISSED"
=============================================================================
