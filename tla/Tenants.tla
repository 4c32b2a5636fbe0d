------------------------------- MODULE Tenants -------------------------------
(***************************************************************************)
(* A tenant of the platform: its users and the copies of them that Redis   *)
(* keeps for the guard of every request (AuthService, UsersService,        *)
(* SuperAdminService), and its subscription (BillingService and its crons).*)
(***************************************************************************)
EXTENDS Requests

CONSTANT Users      \* its users; super-admins are not among them

VARIABLES
    tenant,         \* isActive, terminatedAt, plan, trialEndsAt
    user,           \* isActive of the users
    cached,         \* the keys user:<id> in Redis
    sub             \* the row of tenant_subscriptions, and whether it was ever paid

accountVars == <<user, cached>>
tenantVars == <<tenant, accountVars, sub>>

-----------------------------------------------------------------------------
Plans == {"STARTER", "PRO"}
SubStatus == {"TRIAL", "ACTIVE", "PAST_DUE", "PAUSED", "CANCELLED"}

\* trialEndsAt: absent, ahead (where the subscription that it started ends, or
\* later), or past.
Trial == {"none", "running", "extended", "over"}

\* over: currentPeriodEnd is past.  paid: there is an invoice, and it is PAID.
NoSub == [exists |-> FALSE, status |-> "TRIAL", plan |-> "STARTER", over |-> FALSE,
          cancel |-> FALSE, paid |-> FALSE]

-----------------------------------------------------------------------------
(* The guard, and its cache                                                *)

\* JwtStrategy: the key user:<id> answers for 15 minutes, the table otherwise.
Passes(u) == cached[u] \/ user[u]

\* Mutant: the copy is kept until somebody deletes it.
Stays(u) == FALSE

Ages(u) == cached[u]

\* revokeAllSessions and a password reset delete the key too, at any time.
CacheExpires(u) ==
    /\ Ages(u)
    /\ cached' = [cached EXCEPT ![u] = FALSE]
    /\ UNCHANGED <<calls, req, tenant, user, sub>>

\* validateUserById without a copy; login, whose password check takes its time.
ValidateRead(r, u) ==
    /\ Free(r, "request")
    /\ user[u]
    /\ ~cached[u] \/ "login" \in calls
    /\ Begin(r, "cacheUser", u, None, None)
    /\ UNCHANGED <<calls, tenantVars>>

CacheUser(r) ==
    /\ At(r, "cacheUser")
    /\ cached' = [cached EXCEPT ![req[r].on] = TRUE]
    /\ Done(r)
    /\ UNCHANGED <<calls, tenant, user, sub>>

\* updateStaff, deactivateStaff and toggleDriver, called by a user of the tenant:
\* the copy in Redis stays.
StaffRead(r, u, active) ==
    /\ Free(r, "staff")
    /\ \E v \in Users : Passes(v)
    /\ Begin(r, "staff", u, active, None)
    /\ UNCHANGED <<calls, tenantVars>>

StaffWrite(r) ==
    /\ At(r, "staff")
    /\ user' = [user EXCEPT ![req[r].on] = req[r].arg]
    /\ Done(r)
    /\ UNCHANGED <<calls, tenant, cached, sub>>

-----------------------------------------------------------------------------
(* SuperAdminService                                                       *)

LockRead(r, how) ==
    /\ Free(r, how)
    /\ \/ how = "suspend" /\ tenant.active
       \/ how = "terminate" /\ ~tenant.terminated
    /\ Begin(r, "lock", None, how, None)
    /\ UNCHANGED <<calls, tenantVars>>

\* suspendTenant, terminateTenant: tenant and users in a transaction, ...
LockWrite(r) ==
    /\ At(r, "lock")
    /\ tenant' = [tenant EXCEPT !.active = FALSE,
                                !.terminated = @ \/ req[r].arg = "terminate"]
    /\ user' = [u \in Users |-> FALSE]
    /\ Then(r, "flushKeys")
    /\ UNCHANGED <<calls, cached, sub>>

\* ... then flushPattern: the keys, and their deletion.
FlushKeys(r) ==
    /\ At(r, "flushKeys")
    /\ Sees(r, "flush", {u \in Users : cached[u]})
    /\ UNCHANGED <<calls, tenantVars>>

Flush(r) ==
    /\ At(r, "flush")
    /\ cached' = [u \in Users |-> cached[u] /\ u \notin req[r].seen]
    /\ Done(r)
    /\ UNCHANGED <<calls, tenant, user, sub>>

\* activateTenant, of a terminated tenant too.
ActivateRead(r) ==
    /\ Free(r, "activate")
    /\ ~tenant.active
    /\ Begin(r, "activate", None, None, None)
    /\ UNCHANGED <<calls, tenantVars>>

ActivateWrite(r) ==
    /\ At(r, "activate")
    /\ tenant' = [tenant EXCEPT !.active = TRUE]
    /\ user' = [u \in Users |-> TRUE]
    /\ Done(r)
    /\ UNCHANGED <<calls, cached, sub>>

\* unlockUser, whatever the state of the tenant.
UnlockRead(r, u) ==
    /\ Free(r, "unlock")
    /\ ~user[u]
    /\ Begin(r, "unlock", u, None, None)
    /\ UNCHANGED <<calls, tenantVars>>

UnlockWrite(r) ==
    /\ At(r, "unlock")
    /\ user' = [user EXCEPT ![req[r].on] = TRUE]
    /\ Sees(r, "flush", {req[r].on})
    /\ UNCHANGED <<calls, tenant, cached, sub>>

\* extendTrial and updatePlan write the tenant, and leave the subscription.
SetTenant(r) ==
    /\ At(r, "setTenant")
    /\ tenant' = [tenant EXCEPT ![req[r].on] = req[r].arg]
    /\ Done(r)
    /\ UNCHANGED <<calls, accountVars, sub>>

ExtendTrial(r) ==
    /\ Free(r, "extendTrial")
    /\ Begin(r, "setTenant", "trial", "extended", None)
    /\ UNCHANGED <<calls, tenantVars>>

UpdatePlan(r, plan) ==
    /\ Free(r, "updatePlan")
    /\ Begin(r, "setTenant", "plan", plan, None)
    /\ UNCHANGED <<calls, tenantVars>>

-----------------------------------------------------------------------------
(* BillingService                                                          *)

\* ensureSubscription comes first in every method; the others are modelled from
\* there on.
EnsureRead(r) ==
    /\ Free(r, "billing")
    /\ ~sub.exists
    /\ Begin(r, "createSub", None, None, tenant)
    /\ UNCHANGED <<calls, tenantVars>>

\* The row is unique for the tenant: another one's create wins.
EnsureWrite(r) ==
    LET seen == req[r].seen
        trial == seen.trial \in {"running", "extended"} \/ seen.plan = "STARTER"
    IN  /\ At(r, "createSub")
        /\ sub' = IF sub.exists THEN sub
                  ELSE [NoSub EXCEPT !.exists = TRUE, !.plan = seen.plan,
                                     !.status = IF trial THEN "TRIAL" ELSE "ACTIVE",
                                     !.over = seen.trial = "over"]
        /\ Done(r)
        /\ UNCHANGED <<calls, tenant, accountVars>>

\* Guards of the methods that an owner calls.
Allowed(method) ==
    CASE method = "cancel" -> sub.status # "CANCELLED"
      [] method = "pause"  -> sub.status \in {"ACTIVE", "PAST_DUE"}
      [] method = "resume" -> sub.status = "PAUSED"
      [] OTHER             -> TRUE

\* Mutant: taking a cancellation back activates the subscription.
AfterActivating(method, plan) ==
    CASE method = "upgrade"    -> [sub EXCEPT !.plan = plan, !.status = "ACTIVE",
                                              !.over = FALSE, !.cancel = FALSE, !.paid = TRUE]
      [] method = "cancel"     -> [sub EXCEPT !.cancel = TRUE]
      [] method = "reactivate" -> [sub EXCEPT !.cancel = FALSE, !.status = "ACTIVE"]
      [] method = "pause"      -> [sub EXCEPT !.status = "PAUSED"]
      [] method = "resume"     -> [sub EXCEPT !.status = "ACTIVE", !.over = FALSE]

\* The subscription after a method: each names the columns it writes.
After(method, plan) ==
    CASE method = "upgrade"    -> [sub EXCEPT !.plan = plan, !.status = "ACTIVE",
                                              !.over = FALSE, !.cancel = FALSE, !.paid = TRUE]
      [] method = "cancel"     -> [sub EXCEPT !.cancel = TRUE]
      [] method = "reactivate" -> [sub EXCEPT !.cancel = FALSE]
      [] method = "pause"      -> [sub EXCEPT !.status = "PAUSED"]
      [] method = "resume"     -> [sub EXCEPT !.status = "ACTIVE", !.over = FALSE]

Methods == {"upgrade", "cancel", "reactivate", "pause", "resume"}

BillingRead(r, method, plan) ==
    /\ Free(r, method)
    /\ sub.exists /\ Allowed(method)
    /\ Begin(r, "subscription", method, plan, None)
    /\ UNCHANGED <<calls, tenantVars>>

\* An upgrade writes subscription, tenant and a paid invoice in a transaction.
BillingWrite(r) ==
    /\ At(r, "subscription")
    /\ sub' = After(req[r].on, req[r].arg)
    /\ tenant' = IF req[r].on = "upgrade" THEN [tenant EXCEPT !.plan = req[r].arg] ELSE tenant
    /\ Done(r)
    /\ UNCHANGED <<calls, accountVars>>

\* Every hour: trials that are over become PAST_DUE, by their id; then those that
\* were to end do.
CronRead(r) ==
    /\ Free(r, "cron")
    /\ Begin(r, IF sub.exists /\ sub.status = "TRIAL" /\ sub.over THEN "expireTrial"
                                                                  ELSE "cancelDue",
             None, None, None)
    /\ UNCHANGED <<calls, tenantVars>>

ExpireTrial(r) ==
    /\ At(r, "expireTrial")
    /\ sub' = [sub EXCEPT !.status = "PAST_DUE"]
    /\ Then(r, "cancelDue")
    /\ UNCHANGED <<calls, tenant, accountVars>>

\* Mutant: paused subscriptions are passed over.
DueUnlessPaused == sub.exists /\ sub.cancel /\ sub.over /\ sub.status # "PAUSED"

Due == sub.exists /\ sub.cancel /\ sub.over

CancelDue(r) ==
    /\ At(r, "cancelDue")
    /\ sub' = IF Due THEN [sub EXCEPT !.status = "CANCELLED"] ELSE sub
    /\ Done(r)
    /\ UNCHANGED <<calls, tenant, accountVars>>

\* Time passes: the period ends, and with it the trial that it was created from;
\* an extended trial ends later.
PeriodEnds ==
    /\ "time" \in calls
    /\ sub.exists /\ ~sub.over
    /\ sub' = [sub EXCEPT !.over = TRUE]
    /\ tenant' = IF tenant.trial = "running" THEN [tenant EXCEPT !.trial = "over"] ELSE tenant
    /\ UNCHANGED <<calls, req, accountVars>>

TrialEnds ==
    /\ "time" \in calls
    /\ tenant.trial = "extended" \/ (tenant.trial = "running" /\ ~sub.exists)
    /\ tenant' = [tenant EXCEPT !.trial = "over"]
    /\ UNCHANGED <<calls, req, accountVars, sub>>

-----------------------------------------------------------------------------
\* A tenant registered (STARTER, 14 days of trial) or set up by a super-admin.
TenantsInit ==
    /\ tenant \in [active : {TRUE}, terminated : {FALSE}, plan : Plans,
                   trial : {"none", "running"}]
    /\ "billing" \notin calls => tenant.plan = "STARTER" /\ tenant.trial = "none"
    /\ user = [u \in Users |-> TRUE]
    /\ cached = [u \in Users |-> FALSE]
    /\ sub = NoSub

TenantsTypeOK ==
    /\ tenant \in [active : BOOLEAN, terminated : BOOLEAN, plan : Plans, trial : Trial]
    /\ user \in [Users -> BOOLEAN]
    /\ cached \in [Users -> BOOLEAN]
    /\ sub \in [exists : BOOLEAN, status : SubStatus, plan : Plans, over : BOOLEAN,
                cancel : BOOLEAN, paid : BOOLEAN]

\* The steps that follow once a handler has begun.
TenantsGoOn(r) ==
    \/ CacheUser(r) \/ StaffWrite(r)
    \/ LockWrite(r) \/ FlushKeys(r) \/ Flush(r) \/ ActivateWrite(r) \/ UnlockWrite(r)
    \/ SetTenant(r) \/ EnsureWrite(r) \/ BillingWrite(r) \/ ExpireTrial(r) \/ CancelDue(r)

TenantsNext(r) ==
    \/ \E u \in Users : ValidateRead(r, u) \/ UnlockRead(r, u)
    \/ \E u \in Users, active \in BOOLEAN : StaffRead(r, u, active)
    \/ \E how \in {"suspend", "terminate"} : LockRead(r, how)
    \/ ActivateRead(r) \/ ExtendTrial(r) \/ EnsureRead(r) \/ CronRead(r)
    \/ \E plan \in Plans : UpdatePlan(r, plan)
    \/ \E method \in Methods, plan \in Plans : BillingRead(r, method, plan)
    \/ TenantsGoOn(r)

TimePasses == PeriodEnds \/ TrialEnds \/ \E u \in Users : CacheExpires(u)

-----------------------------------------------------------------------------
\* What the suspension is for: nobody of a suspended tenant passes the guard for
\* ever, even when a login or another request caches a user behind the flush, or
\* the flush itself fails.  A super-admin who unlocks a user lets that one in, and
\* staff who still pass may let in others.
SuspensionTakesHold ==
    calls \cap {"unlock", "staff"} = {} /\ ~tenant.active
        ~> tenant.active \/ \A u \in Users : ~Passes(u)

\* A subscription that was to end at the end of its period does, whatever its
\* status, unless it is renewed or the cancellation is taken back.
CancellationTakesHold ==
    "fail" \notin calls /\ sub.cancel /\ sub.over
        ~> sub.status = "CANCELLED" \/ ~(sub.cancel /\ sub.over)

\* A trial does not become a subscription that nobody pays for: what is ACTIVE was
\* paid, or began on a paid plan.  (With a pause on the way it does.)
ActiveIsPaid ==
    "pause" \notin calls /\ sub.exists /\ sub.status = "ACTIVE"
        => sub.paid \/ sub.plan # "STARTER"
=============================================================================
