------------------------------ MODULE Seating ------------------------------
(***************************************************************************)
(* What the floor of a restaurant promises, however it is kept in rows of  *)
(* sessions and tables: a party sits down once, at a table where nobody    *)
(* sits, moves to a table where nobody sits, and does not come back after  *)
(* it has left.                                                            *)
(***************************************************************************)
CONSTANTS
    Tables,
    Parties,
    None        \* not a table

VARIABLES
    seat,       \* the table of each party, None for one that is not seated
    left        \* the parties that were seated and have left

seating == <<seat, left>>

Init ==
    /\ seat = [p \in Parties |-> None]
    /\ left = {}

Empty(t) == \A p \in Parties : seat[p] # t

Sit(p, t) ==
    /\ seat[p] = None /\ p \notin left
    /\ Empty(t)
    /\ seat' = [seat EXCEPT ![p] = t]
    /\ UNCHANGED left

Move(p, t) ==
    /\ seat[p] # None
    /\ Empty(t)
    /\ seat' = [seat EXCEPT ![p] = t]
    /\ UNCHANGED left

Leave(p) ==
    /\ seat[p] # None
    /\ seat' = [seat EXCEPT ![p] = None]
    /\ left' = left \cup {p}

Next ==
    \/ \E p \in Parties, t \in Tables : Sit(p, t) \/ Move(p, t)
    \/ \E p \in Parties : Leave(p)

Spec == Init /\ [][Next]_seating
=============================================================================
