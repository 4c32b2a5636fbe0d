------------------------------- MODULE Stamps -------------------------------
(***************************************************************************)
(* A stamp card of the restaurant (CrmService): staff stamp it for the     *)
(* customers of Loyalty, and redeem the reward of one that is complete.    *)
(***************************************************************************)
EXTENDS Loyalty

CONSTANTS
    Required,     \* stampsRequired of the card
    MaxStamps     \* staff stop stamping here

ASSUME StampsAssumption == Required \in Nat \ {0} /\ MaxStamps \in Nat

VARIABLES
    card,         \* each customer's row of stamp_progresses
    given,        \* stamps that were given to each customer
    rewards       \* rewards that were handed out

stampVars == <<card, given, rewards>>

-----------------------------------------------------------------------------
NoCard == [exists |-> FALSE, stamps |-> 0, completed |-> FALSE, redeemed |-> FALSE]

\* The upsert: only a row it creates is completed at once.
Stamped(k, n) ==
    [k EXCEPT !.exists = TRUE, !.stamps = @ + n,
              !.completed = @ \/ (~k.exists /\ n >= Required)]

\* addStamp: the upsert, and completedAt in a statement of its own if it is due.
AddStamp(r, c, n) ==
    LET new == Stamped(card[c], n)
    IN  /\ Free(r, "stamp")
        /\ account[c].known
        /\ n \in 1..Required /\ given[c] + n <= MaxStamps
        /\ card' = [card EXCEPT ![c] = new]
        /\ given' = [given EXCEPT ![c] = @ + n]
        /\ IF new.stamps >= Required /\ ~new.completed
           THEN Begin(r, "completeCard", c, None, None)
           ELSE UNCHANGED req
        /\ UNCHANGED <<calls, rewards>>

CompleteCard(r) ==
    /\ At(r, "completeCard")
    /\ card' = [card EXCEPT ![req[r].on].completed = TRUE]
    /\ Done(r)
    /\ UNCHANGED <<calls, given, rewards>>

Redeemable(k) == k.exists /\ k.completed /\ ~k.redeemed

\* redeemStamp
RewardRead(r, c) ==
    /\ Free(r, "reward")
    /\ Redeemable(card[c])
    /\ Begin(r, "reward", c, None, None)
    /\ UNCHANGED <<calls, stampVars>>

\* Mutant: the stamps stay on the card.
RedeemedOnly(k) == [k EXCEPT !.redeemed = TRUE, !.completed = FALSE]

Redeemed(k) == [k EXCEPT !.redeemed = TRUE, !.stamps = 0, !.completed = FALSE]

RewardWrite(r) ==
    LET c == req[r].on
    IN  /\ At(r, "reward")
        /\ card' = [card EXCEPT ![c] = Redeemed(@)]
        /\ rewards' = [rewards EXCEPT ![c] = @ + 1]
        /\ Done(r)
        /\ UNCHANGED <<calls, given>>

-----------------------------------------------------------------------------
StampsInit ==
    /\ card = [c \in Customers |-> NoCard]
    /\ given = [c \in Customers |-> 0]
    /\ rewards = [c \in Customers |-> 0]

StampsTypeOK ==
    /\ card \in [Customers -> [exists : BOOLEAN, stamps : Nat, completed : BOOLEAN,
                               redeemed : BOOLEAN]]
    /\ given \in [Customers -> Nat]
    /\ rewards \in [Customers -> Nat]

StampsNext(r) ==
    \/ \E c \in Customers : \/ RewardRead(r, c)
                            \/ \E n \in 1..Required : AddStamp(r, c, n)
    \/ CompleteCard(r) \/ RewardWrite(r)

\* Stamps pay for one thing only: those on the card and those the rewards took
\* were all given, whichever statement fails and whatever comes between the
\* stamp that fills the card and the statement that completes it (one handler at
\* a time: two that redeem at once hand out two rewards).
RewardsEarned ==
    "alone" \in calls => \A c \in Customers :
        Required * rewards[c] + card[c].stamps <= given[c]

\* "Reward already redeemed for this cycle": a card that is complete is not
\* redeemed yet.  It is, from the second cycle on: redeeming sets redeemedAt, and
\* nothing resets it.
CompletedIsRedeemable ==
    \A c \in Customers : card[c].completed => Redeemable(card[c])
=============================================================================
