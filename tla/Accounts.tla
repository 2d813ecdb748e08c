------------------------------ MODULE Accounts ------------------------------
(***************************************************************************)
(* Accounts: who signs in as whom, suspension, deletion by the owner and   *)
(* permanent deletion by an administrator.  A transaction is one step      *)
(* where its row locks make it one; a read outside the lock it needs is a  *)
(* step of its own.  Photos, KYC and the online switch are ListenerDesk's, *)
(* uploaded files are Erasure's.                                           *)
(***************************************************************************)
EXTENDS Integers, FiniteSets

CONSTANTS
    Account,     \* rows of users
    Identity,    \* phone numbers and email addresses
    Request      \* API requests in flight

ASSUME IdentityAssumption == Identity # {}

VARIABLES
    acctStatus,  \* users.status; "none" when there is no row
    holds,       \* users.phone and users.email; a tombstone holds none
    canWithdraw, \* listener_profiles: KYC approved and a UPI id
    openPayout,  \* a payout of the account is requested or approved
    erased,      \* history: deleted by an administrator, and still so
    doing,       \* where a request stands
    about        \* the account or identity it is about

acctVars == <<acctStatus, holds, canWithdraw, openPayout, erased, doing, about>>

Step == {"idle", "registering", "leaving", "withdrawing", "funded",
         "suspending", "erasing", "locked"}

AcctTypeOK ==
    /\ acctStatus \in [Account -> {"none", "active", "suspended", "deleted"}]
    /\ holds \in [Account -> SUBSET Identity]
    /\ canWithdraw \in [Account -> BOOLEAN] /\ openPayout \in [Account -> BOOLEAN]
    /\ erased \in [Account -> BOOLEAN]
    /\ doing \in [Request -> Step] /\ about \in [Request -> Account \cup Identity]
    /\ \A r \in Request :
         /\ doing[r] = "registering" => about[r] \in Identity
         /\ doing[r] \notin {"idle", "registering"} => about[r] \in Account

AcctInit ==
    /\ acctStatus = [a \in Account |-> "none"]
    /\ holds = [a \in Account |-> {}]
    /\ canWithdraw = [a \in Account |-> FALSE]
    /\ openPayout = [a \in Account |-> FALSE]
    /\ erased = [a \in Account |-> FALSE]
    /\ doing = [r \in Request |-> "idle"]
    /\ about \in [Request -> {CHOOSE i \in Identity : TRUE}]

Taken(i) == \E a \in Account : i \in holds[a]
\* Row locks held across steps: the erasure's on users, the withdrawal's on
\* listener_profiles.
UserLocked(a) == \E r \in Request : doing[r] = "locked" /\ about[r] = a
ProfileLocked(a) == \E r \in Request : doing[r] = "funded" /\ about[r] = a

Begin(r, step, x) ==
    /\ doing[r] = "idle"
    /\ doing' = [doing EXCEPT ![r] = step] /\ about' = [about EXCEPT ![r] = x]
At(r, step) == doing[r] = step
Done(r) == doing' = [doing EXCEPT ![r] = "idle"] /\ UNCHANGED about

-----------------------------------------------------------------------------
(* Accounts come to be *)

\* SELECT by phone or email found no account; with one, it is signed in to.
LookUp(r, i) ==
    /\ ~Taken(i) /\ Begin(r, "registering", i)
    /\ UNCHANGED <<acctStatus, holds, canWithdraw, openPayout, erased>>

\* A slip worth ruling out: no UNIQUE on phone and email.
RegisteredTwice(r, a) ==
    /\ At(r, "registering")
    /\ acctStatus[a] = "none"
    /\ acctStatus' = [acctStatus EXCEPT ![a] = "active"]
    /\ holds' = [holds EXCEPT ![a] = {about[r]}]
    /\ Done(r) /\ UNCHANGED <<canWithdraw, openPayout, erased>>
\* INSERT: UNIQUE (phone), UNIQUE (email).
Registered(r, a) ==
    /\ At(r, "registering") /\ ~Taken(about[r])
    /\ acctStatus[a] = "none"
    /\ acctStatus' = [acctStatus EXCEPT ![a] = "active"]
    /\ holds' = [holds EXCEPT ![a] = {about[r]}]
    /\ Done(r) /\ UNCHANGED <<canWithdraw, openPayout, erased>>

\* POST /admin/users, and /admin/listeners for a number nobody has: an
\* administrator registers a phone number, which its owner signs in to later.
AdminRegisters(a, i) ==
    /\ acctStatus[a] = "none" /\ ~Taken(i)
    /\ acctStatus' = [acctStatus EXCEPT ![a] = "active"]
    /\ holds' = [holds EXCEPT ![a] = {i}]
    /\ UNCHANGED <<canWithdraw, openPayout, erased, doing, about>>

\* An administrator edits phone and email; one of them must remain.
IdentityEdited(a, ids) ==
    /\ acctStatus[a] \in {"active", "suspended"} /\ ~UserLocked(a)
    /\ ids # {} /\ ids # holds[a]
    /\ \A i \in ids : ~Taken(i) \/ i \in holds[a]
    /\ holds' = [holds EXCEPT ![a] = ids]
    /\ UNCHANGED <<acctStatus, canWithdraw, openPayout, erased, doing, about>>

-----------------------------------------------------------------------------
(* Requests of the account's owner: authenticate, then the handler *)

Authenticated(r, a, step) ==
    /\ acctStatus[a] = "active" /\ Begin(r, step, a)
    /\ UNCHANGED <<acctStatus, holds, canWithdraw, openPayout, erased>>

\* DELETE /users/me.
SelfDeleted(r) ==
    LET a == about[r] IN
    /\ At(r, "leaving") /\ ~UserLocked(a) /\ ~ProfileLocked(a)
    /\ acctStatus' = [acctStatus EXCEPT ![a] = "deleted"]
    /\ holds' = [holds EXCEPT ![a] = {}]
    /\ canWithdraw' = [canWithdraw EXCEPT ![a] = FALSE]
    /\ Done(r) /\ UNCHANGED <<openPayout, erased>>

\* KYC is approved with a UPI id on file.
WithdrawalAllowed(a) ==
    /\ acctStatus[a] = "active" /\ ~canWithdraw[a] /\ ~ProfileLocked(a)
    /\ canWithdraw' = [canWithdraw EXCEPT ![a] = TRUE]
    /\ UNCHANGED <<acctStatus, holds, openPayout, erased, doing, about>>

\* POST /payouts: the profile row is locked and read.
FundsLocked(r) ==
    /\ At(r, "withdrawing") /\ ~ProfileLocked(about[r])
    /\ canWithdraw[about[r]] /\ ~openPayout[about[r]]
    /\ doing' = [doing EXCEPT ![r] = "funded"]
    /\ UNCHANGED <<acctStatus, holds, canWithdraw, openPayout, erased, about>>

\* INSERT INTO payouts and COMMIT; the foreign key waits for the users row.
PayoutInserted(r) ==
    /\ At(r, "funded") /\ ~UserLocked(about[r])
    /\ openPayout' = [openPayout EXCEPT ![about[r]] = TRUE]
    /\ Done(r) /\ UNCHANGED <<acctStatus, holds, canWithdraw, erased>>

\* The payout is paid or rejected (module Payouts).
PayoutClosed(a) ==
    /\ openPayout[a]
    /\ openPayout' = [openPayout EXCEPT ![a] = FALSE]
    /\ UNCHANGED <<acctStatus, holds, canWithdraw, erased, doing, about>>

-----------------------------------------------------------------------------
(* Moderation *)

\* POST /admin/users/:id/status, under FOR UPDATE.
StatusSet(a, status) ==
    /\ acctStatus[a] \in {"active", "suspended"} \ {status} /\ ~UserLocked(a)
    /\ acctStatus' = [acctStatus EXCEPT ![a] = status]
    /\ UNCHANGED <<holds, canWithdraw, openPayout, erased, doing, about>>

\* POST /admin/reports/:id with suspend: FOR UPDATE OF r locks the report,
\* not the account whose status is read.
ReportRead(r, a) ==
    /\ acctStatus[a] = "active" /\ Begin(r, "suspending", a)
    /\ UNCHANGED <<acctStatus, holds, canWithdraw, openPayout, erased>>

ReportSuspends(r) ==
    LET a == about[r] IN
    /\ At(r, "suspending") /\ ~UserLocked(a)
    /\ acctStatus' = [acctStatus EXCEPT ![a] = "suspended"]
    /\ erased' = [erased EXCEPT ![a] = FALSE]
    /\ Done(r) /\ UNCHANGED <<holds, canWithdraw, openPayout>>

-----------------------------------------------------------------------------
(* DELETE /admin/users/:id *)

\* deletionBlockers, before anything is locked.
ErasureChecked(r, a) ==
    /\ acctStatus[a] # "none" /\ ~openPayout[a] /\ Begin(r, "erasing", a)
    /\ UNCHANGED <<acctStatus, holds, canWithdraw, openPayout, erased>>

\* A slip worth ruling out: the blockers are not read again under the lock.
ErasureTrusting(r) ==
    /\ At(r, "erasing") /\ ~UserLocked(about[r])
    /\ doing' = [doing EXCEPT ![r] = "locked"]
    /\ UNCHANGED <<acctStatus, holds, canWithdraw, openPayout, erased, about>>
\* FOR UPDATE, and deletionBlockers again.
ErasureLocked(r) ==
    /\ At(r, "erasing") /\ ~UserLocked(about[r])
    /\ ~openPayout[about[r]]
    /\ doing' = [doing EXCEPT ![r] = "locked"]
    /\ UNCHANGED <<acctStatus, holds, canWithdraw, openPayout, erased, about>>

\* The tombstone; clearing the profile waits for its row.
Erased(r) ==
    LET a == about[r] IN
    /\ At(r, "locked") /\ ~ProfileLocked(a)
    /\ acctStatus' = [acctStatus EXCEPT ![a] = "deleted"]
    /\ holds' = [holds EXCEPT ![a] = {}]
    /\ canWithdraw' = [canWithdraw EXCEPT ![a] = FALSE]
    /\ erased' = [erased EXCEPT ![a] = TRUE]
    /\ Done(r) /\ UNCHANGED openPayout

\* A request is refused, its transaction rolls back (a UNIQUE violation, a
\* deadlock between "funded" and "locked", a storage failure), or it dies.
RequestEnds(r) ==
    /\ doing[r] # "idle" /\ Done(r)
    /\ UNCHANGED <<acctStatus, holds, canWithdraw, openPayout, erased>>

AcctNext ==
    \/ \E r \in Request :
         \/ \E i \in Identity : LookUp(r, i)
         \/ \E a \in Account :
              \/ Registered(r, a) \/ ReportRead(r, a) \/ ErasureChecked(r, a)
              \/ \E step \in {"leaving", "withdrawing"} : Authenticated(r, a, step)
         \/ SelfDeleted(r) \/ FundsLocked(r) \/ PayoutInserted(r)
         \/ ReportSuspends(r) \/ ErasureLocked(r) \/ Erased(r) \/ RequestEnds(r)
    \/ \E a \in Account :
         \/ \E i \in Identity : AdminRegisters(a, i)
         \/ \E ids \in SUBSET Identity : IdentityEdited(a, ids)
         \/ WithdrawalAllowed(a) \/ PayoutClosed(a)
         \/ \E status \in {"active", "suspended"} : StatusSet(a, status)

AcctSpec == AcctInit /\ [][AcctNext]_acctVars

-----------------------------------------------------------------------------
(* Properties *)

\* An identity signs in to one account, whatever lookups, registrations,
\* edits and deletions of it interleave.
OneAccountPerIdentity ==
    \A a, b \in Account : a # b => holds[a] \cap holds[b] = {}

\* An account that was permanently deleted has no withdrawal left to settle:
\* a request that passed every check before the deletion does not outlive it.
ErasedOwesNothing == \A a \in Account : erased[a] => ~openPayout[a]
=============================================================================
