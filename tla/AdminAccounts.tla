---------------------------- MODULE AdminAccounts ----------------------------
(***************************************************************************)
(* The accounts of the admin console (admin.auth.js): the bootstrap of the *)
(* first, sub admins, and changes of email, each a check that locks        *)
(* nothing and a write that comes later.  Passwords are left out: that a   *)
(* comparison succeeds or fails is a choice.  Nothing deletes an account   *)
(* or changes its role.                                                    *)
(***************************************************************************)
EXTENDS Integers, FiniteSets

CONSTANTS
    Admin,         \* ids of admin_accounts
    Email,         \* normalised: trimmed and in lower case
    AdminRequest,  \* requests in flight
    NoAdmin        \* no row, and no request

VARIABLES
    adminRow,      \* [Admin -> its row, or NoAdmin]
    adminDoing,    \* [AdminRequest -> where it stands, or NoAdmin]
    form           \* what the sign-in page shows

adminVars == <<adminRow, adminDoing, form>>

Role == {"super_admin", "sub_admin"}
AdminRow == [email : Email, role : Role]
\* "by" is the admin whose email changes; the other two add a row.
AdminWork == [act : {"bootstrap", "add", "change"}, email : Email, by : Admin \cup {NoAdmin}]

AdminInit ==
    /\ adminRow = [a \in Admin |-> NoAdmin]
    /\ adminDoing = [q \in AdminRequest |-> NoAdmin]
    /\ form = "checking"

HasAdmin == \E a \in Admin : adminRow[a] # NoAdmin
HasEmail(a, e) == adminRow[a] # NoAdmin /\ adminRow[a].email = e
EmailTaken(e) == \E a \in Admin : HasEmail(a, e)

AdminBegins(q, act, e, by) ==
    /\ adminDoing[q] = NoAdmin
    /\ adminDoing' = [adminDoing EXCEPT ![q] = [act |-> act, email |-> e, by |-> by]]
    /\ UNCHANGED <<adminRow, form>>
AdminDone(q) == adminDoing' = [adminDoing EXCEPT ![q] = NoAdmin]

\* checkAdminStatus: the form for a first admin only where there is none.
PageLoaded == /\ form # "none" /\ form' = "checking" /\ UNCHANGED <<adminRow, adminDoing>>
FormShown == /\ form = "checking"
             /\ form' \in {"login", IF HasAdmin THEN "login" ELSE "bootstrap"}
             /\ UNCHANGED <<adminRow, adminDoing>>

\* POST /bootstrap: SELECT count(*), in a transaction that locks nothing.
NoneCounted(q, e) ==
    /\ form = "bootstrap" /\ ~HasAdmin /\ AdminBegins(q, "bootstrap", e, NoAdmin)

\* POST /sub-admins: the caller is a super admin and nobody has the email.
SubAdminChecked(q, a, e) ==
    /\ adminRow[a] # NoAdmin /\ adminRow[a].role = "super_admin"
    /\ ~EmailTaken(e) /\ AdminBegins(q, "add", e, NoAdmin)

\* POST /change-email: the password is right, and no other admin has the email.
EmailChecked(q, a, e) ==
    /\ adminRow[a] # NoAdmin /\ \A b \in Admin \ {a} : ~HasEmail(b, e)
    /\ AdminBegins(q, "change", e, a)

AdminInserted(q, act, a, role) ==
    LET r == adminDoing[q] IN
    /\ r # NoAdmin /\ r.act = act /\ ~EmailTaken(r.email) /\ adminRow[a] = NoAdmin
    /\ adminRow' = [adminRow EXCEPT ![a] = [email |-> r.email, role |-> role]]
    /\ AdminDone(q)

\* INSERT, and the answer signs the page in.
FirstInserted(q, a) == AdminInserted(q, "bootstrap", a, "super_admin") /\ form' = "none"
\* INSERT.
SubAdminInserted(q, a) == AdminInserted(q, "add", a, "sub_admin") /\ UNCHANGED form

\* A slip worth ruling out: the check before is all there is.
EmailReplacedBlindly(q) ==
    LET r == adminDoing[q] IN
    /\ r # NoAdmin /\ r.act = "change"
    /\ adminRow' = [adminRow EXCEPT ![r.by].email = r.email]
    /\ AdminDone(q) /\ UNCHANGED form
\* UPDATE, under UNIQUE (email).
EmailReplaced(q) ==
    LET r == adminDoing[q] IN
    /\ r # NoAdmin /\ r.act = "change"
    /\ \A b \in Admin \ {r.by} : ~HasEmail(b, r.email)
    /\ adminRow' = [adminRow EXCEPT ![r.by].email = r.email]
    /\ AdminDone(q) /\ UNCHANGED form

\* POST /login: the row of the email, and its token.
AdminSignsIn == form = "login" /\ HasAdmin /\ form' = "none" /\ UNCHANGED <<adminRow, adminDoing>>
\* signOut.
AdminSignsOut == form = "none" /\ form' = "login" /\ UNCHANGED <<adminRow, adminDoing>>

\* A refusal, a UNIQUE violation or the instance stopping.
AdminRequestEnds(q) ==
    /\ adminDoing[q] # NoAdmin /\ AdminDone(q) /\ UNCHANGED <<adminRow, form>>

AdminNext ==
    \/ PageLoaded \/ FormShown \/ AdminSignsIn \/ AdminSignsOut
    \/ \E q \in AdminRequest :
         \/ \E e \in Email :
              \/ NoneCounted(q, e)
              \/ \E a \in Admin : SubAdminChecked(q, a, e) \/ EmailChecked(q, a, e)
         \/ \E a \in Admin : FirstInserted(q, a) \/ SubAdminInserted(q, a)
         \/ EmailReplaced(q) \/ AdminRequestEnds(q)

AdminSpec == AdminInit /\ [][AdminNext]_adminVars

AdminTypeOK ==
    /\ adminRow \in [Admin -> AdminRow \cup {NoAdmin}]
    /\ adminDoing \in [AdminRequest -> AdminWork \cup {NoAdmin}]
    /\ form \in {"checking", "bootstrap", "login", "none"}

\* An email signs in to one admin, whatever bootstraps, additions and changes
\* that all found it free are under way.
OneAdminPerEmail ==
    \A a, b \in Admin : \A e \in Email : HasEmail(a, e) /\ HasEmail(b, e) => a = b
=============================================================================
