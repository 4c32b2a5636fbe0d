------------------------------- MODULE Loyalty -------------------------------
(***************************************************************************)
(* The loyalty account of a customer (CustomersService at the till,        *)
(* OnlineLoyaltyService for the web shop).  An account carries its points, *)
(* its totals and its tier; each change is written together with a row of  *)
(* loyalty_transactions, as absolute values computed from an earlier read. *)
(***************************************************************************)
EXTENDS Requests

CONSTANTS
    Customers,
    Manual,       \* points that staff credit or redeem at once
    SilverAt,     \* totalEarned of the tier above the lowest
    MaxPoints     \* staff stop crediting here

ASSUME PointsAssumption ==
    Manual \subseteq Nat /\ SilverAt \in Nat \ {0} /\ MaxPoints \in Nat

VARIABLES
    account,      \* known: there is a customer; exists: with an account
    rows          \* the loyalty_transactions of a customer: points of its EARN
                  \* rows and of its REDEEM rows

loyaltyVars == <<account, rows>>

-----------------------------------------------------------------------------
NoAccount == [known |-> FALSE, exists |-> FALSE, points |-> 0, earned |-> 0,
              redeemed |-> 0, tier |-> "BRONZE"]

Tier(earned) == IF earned >= SilverAt THEN "SILVER" ELSE "BRONZE"

\* createCustomer and the registration of the web shop: the customer, and in
\* another statement the account.
CreateCustomer(r, c) ==
    /\ Free(r, "customer")
    /\ ~account[c].known
    /\ account' = [account EXCEPT ![c].known = TRUE]
    /\ Begin(r, "createAccount", c, None, None)
    /\ UNCHANGED <<calls, rows>>

CreateAccount(r) ==
    /\ At(r, "createAccount")
    /\ account' = [account EXCEPT ![req[r].on].exists = TRUE]
    /\ Done(r)
    /\ UNCHANGED <<calls, rows>>

-----------------------------------------------------------------------------
(* Earning                                                                 *)

\* Mutant: the tier counts the points, not what was earned.
CreditedByBalance(seen, n) ==
    [seen EXCEPT !.points = @ + n, !.earned = @ + n, !.tier = Tier(seen.points + n)]

\* The account with n points more, computed from the account that was read.
Credited(seen, n) ==
    [seen EXCEPT !.points = @ + n, !.earned = @ + n, !.tier = Tier(seen.earned + n)]

\* The account and a row of n points, in a transaction.
Credit(c, seen, n) ==
    LET new == Credited(seen, n)
    IN  /\ account' = [account EXCEPT ![c].points = new.points,
                                      ![c].earned = new.earned, ![c].tier = new.tier]
        /\ rows' = [rows EXCEPT ![c].earn = @ + n]

\* earnPoints: staff credit points.
EarnRead(r, c, n) ==
    /\ Free(r, "earn")
    /\ account[c].exists
    /\ n \in Manual /\ account[c].earned + n <= MaxPoints
    /\ Begin(r, "earn", c, n, account[c])
    /\ UNCHANGED <<calls, loyaltyVars>>

\* The points of order total n, for autoEarnForOnlineOrder: errors are logged.
AutoEarnRead(r) ==
    LET c == req[r].on
    IN  /\ At(r, "autoEarn")
        /\ IF account[c].exists /\ req[r].arg > 0
           THEN Sees(r, "earn", account[c])
           ELSE Done(r)
        /\ UNCHANGED <<calls, loyaltyVars>>

EarnWrite(r) ==
    /\ At(r, "earn")
    /\ Credit(req[r].on, req[r].seen, req[r].arg)
    /\ Done(r)
    /\ UNCHANGED calls

-----------------------------------------------------------------------------
(* Redeeming                                                               *)

\* Mutant: the total is not kept.
DebitedPointsOnly(seen, n) == [seen EXCEPT !.points = @ - n]

Debited(seen, n) == [seen EXCEPT !.points = @ - n, !.redeemed = @ + n]

\* Redeeming leaves what was earned, and the tier.
Debit(c, seen, n) ==
    LET new == Debited(seen, n)
    IN  /\ account' = [account EXCEPT ![c].points = new.points,
                                      ![c].redeemed = new.redeemed]
        /\ rows' = [rows EXCEPT ![c].redeem = @ + n]

\* Mutant: any account will do.
SufficesIfAny(a, n) == a.exists

Suffices(a, n) == a.exists /\ a.points >= n

\* redeemPoints: staff redeem points.
RedeemRead(r, c, n) ==
    /\ Free(r, "redeem")
    /\ n \in Manual /\ Suffices(account[c], n)
    /\ Begin(r, "redeem", c, n, account[c])
    /\ UNCHANGED <<calls, loyaltyVars>>

RedeemWrite(r) ==
    /\ At(r, "redeem")
    /\ Debit(req[r].on, req[r].seen, req[r].arg)
    /\ Done(r)
    /\ UNCHANGED calls

-----------------------------------------------------------------------------
LoyaltyInit ==
    /\ account = [c \in Customers |-> NoAccount]
    /\ rows = [c \in Customers |-> [earn |-> 0, redeem |-> 0]]

LoyaltyTypeOK ==
    /\ account \in [Customers -> [known : BOOLEAN, exists : BOOLEAN, points : Nat,
                                  earned : Nat, redeemed : Nat,
                                  tier : {"BRONZE", "SILVER"}]]
    /\ rows \in [Customers -> [earn : Nat, redeem : Nat]]

LoyaltyNext(r) ==
    \/ \E c \in Customers : \/ CreateCustomer(r, c)
                            \/ \E n \in Manual : EarnRead(r, c, n) \/ RedeemRead(r, c, n)
    \/ CreateAccount(r) \/ AutoEarnRead(r) \/ EarnWrite(r) \/ RedeemWrite(r)

\* While handlers come one after the other, the account is what its rows say;
\* whatever fails between two statements.
PointsExplained ==
    "alone" \in calls =>
        \A c \in Customers :
            LET a == account[c]
            IN  /\ a.points = rows[c].earn - rows[c].redeem
                /\ a.earned = rows[c].earn
                /\ a.redeemed = rows[c].redeem

\* However the writes race, an account is never credited with more than was
\* earned, so that a tier is never given for points nobody earned.  (What the
\* customer can spend may go wrong both ways.)
TierEarned ==
    \A c \in Customers :
        /\ account[c].earned <= rows[c].earn
        /\ account[c].redeemed <= rows[c].redeem
        /\ account[c].tier = Tier(account[c].earned)
=============================================================================
