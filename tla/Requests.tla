------------------------------ MODULE Requests ------------------------------
(***************************************************************************)
(* How a handler of the backend runs, for the modules of Business: it      *)
(* reads in one step, keeps what it has seen, and writes in later steps;   *)
(* between two of its steps other handlers run, or it fails.               *)
(***************************************************************************)
EXTENDS Naturals, FiniteSets

CONSTANTS
    Handling,   \* handlers that can be in flight at the same time
    Mixes,      \* sets of events; a behaviour sees those of one of them
    None        \* "no value"

VARIABLES
    calls,      \* the events of this behaviour
    req         \* the handlers in flight

\* "alone": one handler at a time.  "fail": a statement may fail, or the process
\* may stop, between two steps of a handler.
Modes == {"alone", "fail"}

\* at: the step that comes next; on: the row it is about; arg: what the caller
\* asked for; seen: what was read.
Quiet == [at |-> "idle", on |-> None, arg |-> None, seen |-> None]

Idle(r) == req[r].at = "idle"
At(r, step) == req[r].at = step

\* Slots are interchangeable: x is the one of S that is taken next.
Takes(x, S) == x \in S /\ x = CHOOSE y \in S : TRUE

\* Handler h may begin.
Free(r, h) ==
    /\ h \in calls
    /\ Takes(r, {q \in Handling : Idle(q)})
    /\ "alone" \in calls => \A q \in Handling : Idle(q)

Go(r, new) == req' = [req EXCEPT ![r] = new]
Begin(r, step, on, arg, seen) ==
    Go(r, [at |-> step, on |-> on, arg |-> arg, seen |-> seen])
Sees(r, step, seen) == Begin(r, step, req[r].on, req[r].arg, seen)
Then(r, step) == Sees(r, step, req[r].seen)
Done(r) == Go(r, Quiet)

\* A statement fails: the handler ends where it is.
Fails(r) ==
    /\ "fail" \in calls
    /\ ~Idle(r)
    /\ Done(r)

RequestsInit ==
    /\ calls \in Mixes
    /\ req = [r \in Handling |-> Quiet]
=============================================================================
