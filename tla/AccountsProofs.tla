---------------------------- MODULE AccountsProofs ----------------------------
(***************************************************************************)
(* Who gets in, for every set of accounts, identities, admins, emails and  *)
(* requests in flight, and every limit of attempts: an identity has one    *)
(* account, an erased account is owed nothing, an email signs in to one    *)
(* admin, and a code survives few wrong guesses.                           *)
(***************************************************************************)
EXTENDS Accounts, SignIn, AdminAccounts, FiniteSetTheorems, TLAPS

\* What is erased has no way left to a withdrawal.
ErasedIsOver ==
    \A a \in Account : erased[a] =>
        acctStatus[a] = "deleted" /\ ~canWithdraw[a] /\ ~openPayout[a]
\* An erasure holds its lock over an account without an open payout ...
LockedOwesNothing ==
    \A r \in Request : doing[r] = "locked" => ~openPayout[about[r]]
\* ... and a withdrawal its lock over a profile that may still withdraw.
FundedMayWithdraw ==
    \A r \in Request : doing[r] = "funded" => canWithdraw[about[r]]

AcctInv == ErasedIsOver /\ LockedOwesNothing /\ FundedMayWithdraw

-----------------------------------------------------------------------------
(* Types *)

LEMMA BeginType ==
    ASSUME AcctTypeOK, NEW r \in Request, NEW step \in Step, NEW x,
           step = "registering" => x \in Identity,
           step \notin {"idle", "registering"} => x \in Account,
           step # "idle", Begin(r, step, x),
           UNCHANGED <<acctStatus, holds, canWithdraw, openPayout, erased>>
    PROVE  AcctTypeOK'
<1>1. x \in Account \cup Identity
  OBVIOUS
<1>2. about' \in [Request -> Account \cup Identity] /\ doing' \in [Request -> Step]
  BY <1>1 DEF AcctTypeOK, Begin
<1>3. \A q \in Request : /\ doing'[q] = IF q = r THEN step ELSE doing[q]
                         /\ about'[q] = IF q = r THEN x ELSE about[q]
  BY DEF AcctTypeOK, Begin
<1> QED
  BY <1>2, <1>3 DEF AcctTypeOK

LEMMA DoneType ==
    ASSUME AcctTypeOK, NEW r \in Request, Done(r)
    PROVE  /\ doing' \in [Request -> Step]
           /\ about' \in [Request -> Account \cup Identity]
           /\ \A q \in Request :
                /\ doing'[q] = "registering" => about'[q] \in Identity
                /\ doing'[q] \notin {"idle", "registering"} => about'[q] \in Account
BY DEF AcctTypeOK, Done, Step

LEMMA AcctTypeStep == AcctTypeOK /\ [AcctNext]_acctVars => AcctTypeOK'
<1> SUFFICES ASSUME AcctTypeOK, [AcctNext]_acctVars PROVE AcctTypeOK'
  OBVIOUS
<1>1. ASSUME NEW r \in Request, NEW i \in Identity, LookUp(r, i) PROVE AcctTypeOK'
  BY <1>1, BeginType DEF LookUp, Step
<1>2. ASSUME NEW r \in Request, NEW a \in Account, Registered(r, a) PROVE AcctTypeOK'
  BY <1>2, DoneType DEF Registered, At, AcctTypeOK
<1>3. ASSUME NEW r \in Request, NEW a \in Account, ReportRead(r, a) PROVE AcctTypeOK'
  BY <1>3, BeginType DEF ReportRead, Step
<1>4. ASSUME NEW r \in Request, NEW a \in Account, ErasureChecked(r, a) PROVE AcctTypeOK'
  BY <1>4, BeginType DEF ErasureChecked, Step
<1>5. ASSUME NEW r \in Request, NEW a \in Account, NEW step \in {"leaving", "withdrawing"},
             Authenticated(r, a, step)
      PROVE AcctTypeOK'
  BY <1>5, BeginType DEF Authenticated, Step
<1>6. ASSUME NEW r \in Request, SelfDeleted(r) PROVE AcctTypeOK'
  BY <1>6, DoneType DEF SelfDeleted, At, AcctTypeOK
<1>7. ASSUME NEW r \in Request, FundsLocked(r) PROVE AcctTypeOK'
  BY <1>7 DEF FundsLocked, At, AcctTypeOK, Step
<1>8. ASSUME NEW r \in Request, PayoutInserted(r) PROVE AcctTypeOK'
  BY <1>8, DoneType DEF PayoutInserted, At, AcctTypeOK
<1>9. ASSUME NEW r \in Request, ReportSuspends(r) PROVE AcctTypeOK'
  BY <1>9, DoneType DEF ReportSuspends, At, AcctTypeOK
<1>10. ASSUME NEW r \in Request, ErasureLocked(r) PROVE AcctTypeOK'
  BY <1>10 DEF ErasureLocked, At, AcctTypeOK, Step
<1>11. ASSUME NEW r \in Request, Erased(r) PROVE AcctTypeOK'
  BY <1>11, DoneType DEF Erased, At, AcctTypeOK
<1>12. ASSUME NEW r \in Request, RequestEnds(r) PROVE AcctTypeOK'
  BY <1>12, DoneType DEF RequestEnds, AcctTypeOK
<1>13. ASSUME NEW a \in Account, NEW ids \in SUBSET Identity, IdentityEdited(a, ids)
       PROVE AcctTypeOK'
  BY <1>13 DEF IdentityEdited, AcctTypeOK
<1>14. ASSUME NEW a \in Account, WithdrawalAllowed(a) \/ PayoutClosed(a) PROVE AcctTypeOK'
  BY <1>14 DEF WithdrawalAllowed, PayoutClosed, AcctTypeOK
<1>15. ASSUME NEW a \in Account, NEW status \in {"active", "suspended"}, StatusSet(a, status)
       PROVE AcctTypeOK'
  BY <1>15 DEF StatusSet, AcctTypeOK
<1>16. ASSUME NEW a \in Account, NEW i \in Identity, AdminRegisters(a, i) PROVE AcctTypeOK'
  BY <1>16 DEF AdminRegisters, AcctTypeOK
<1>17. CASE UNCHANGED acctVars
  BY <1>17 DEF acctVars, AcctTypeOK
<1> QED
  BY <1>1, <1>2, <1>3, <1>4, <1>5, <1>6, <1>7, <1>8, <1>9, <1>10, <1>11, <1>12, <1>13,
     <1>14, <1>15, <1>16, <1>17 DEF AcctNext

LEMMA AcctTypeStart == AcctInit => AcctTypeOK
BY IdentityAssumption DEF AcctInit, AcctTypeOK, Step

\* A request that is about an identity is looking one up; every other request
\* is about an account, whatever it was about before.
THEOREM AccountsTypeCorrect == AcctSpec => []AcctTypeOK
<1> QED
  BY AcctTypeStart, AcctTypeStep, PTL DEF AcctSpec

-----------------------------------------------------------------------------
(* One account per identity *)

LEMMA OneAccountStep ==
    AcctTypeOK /\ OneAccountPerIdentity /\ [AcctNext]_acctVars => OneAccountPerIdentity'
<1> SUFFICES ASSUME AcctTypeOK, OneAccountPerIdentity, [AcctNext]_acctVars
             PROVE  OneAccountPerIdentity'
  OBVIOUS
<1>1. CASE UNCHANGED holds
  BY <1>1 DEF OneAccountPerIdentity
<1>2. ASSUME NEW r \in Request, NEW a \in Account, Registered(r, a)
      PROVE  OneAccountPerIdentity'
  BY <1>2 DEF Registered, Taken, AcctTypeOK, OneAccountPerIdentity
<1>3. ASSUME NEW a \in Account, NEW ids \in SUBSET Identity, IdentityEdited(a, ids)
      PROVE  OneAccountPerIdentity'
  <2>1. \A b \in Account : holds'[b] = IF b = a THEN ids ELSE holds[b]
    BY <1>3 DEF IdentityEdited, AcctTypeOK
  <2>2. \A b \in Account \ {a} : ids \cap holds[b] = {}
    BY <1>3 DEF IdentityEdited, Taken, OneAccountPerIdentity
  <2> QED
    BY <2>1, <2>2 DEF OneAccountPerIdentity
<1>4. ASSUME NEW a \in Account, NEW i \in Identity, AdminRegisters(a, i)
      PROVE  OneAccountPerIdentity'
  BY <1>4 DEF AdminRegisters, Taken, AcctTypeOK, OneAccountPerIdentity
<1>5. ASSUME NEW r \in Request, SelfDeleted(r) \/ Erased(r)
      PROVE  OneAccountPerIdentity'
  <2>1. \A b \in Account : holds'[b] = IF b = about[r] THEN {} ELSE holds[b]
    BY <1>5 DEF SelfDeleted, Erased, AcctTypeOK
  <2> QED
    BY <2>1 DEF OneAccountPerIdentity
<1> QED
  BY <1>1, <1>2, <1>3, <1>4, <1>5
  DEF AcctNext, acctVars, LookUp, ReportRead, ErasureChecked, Authenticated, FundsLocked,
      PayoutInserted, ReportSuspends, ErasureLocked, RequestEnds, WithdrawalAllowed,
      PayoutClosed, StatusSet

LEMMA OneAccountStart == AcctInit => OneAccountPerIdentity
BY DEF AcctInit, OneAccountPerIdentity

\* However many lookups found nothing before the first registration, and
\* whatever is edited or deleted in between, no identity has two accounts.
THEOREM IdentitiesAreSingle == AcctSpec => []OneAccountPerIdentity
<1> QED
  BY OneAccountStart, OneAccountStep, AccountsTypeCorrect, PTL DEF AcctSpec

-----------------------------------------------------------------------------
(* An erased account owes nothing *)

\* Requests that neither hold a lock nor come to hold one leave the invariant
\* to the rows, and the rows leave it to the requests.
LEMMA BeginInv ==
    ASSUME AcctTypeOK, AcctInv, NEW r \in Request, NEW step, NEW x,
           step \notin {"locked", "funded"}, Begin(r, step, x),
           UNCHANGED <<acctStatus, canWithdraw, openPayout, erased>>
    PROVE  AcctInv'
<1>1. \A q \in Request : /\ doing'[q] = IF q = r THEN step ELSE doing[q]
                         /\ about'[q] = IF q = r THEN x ELSE about[q]
  BY DEF AcctTypeOK, Begin
<1> QED
  BY <1>1 DEF AcctInv, ErasedIsOver, LockedOwesNothing, FundedMayWithdraw

LEMMA DoneRequests ==
    ASSUME AcctTypeOK, NEW r \in Request, Done(r)
    PROVE  \A q \in Request : /\ doing'[q] = IF q = r THEN "idle" ELSE doing[q]
                              /\ about'[q] = about[q]
BY DEF AcctTypeOK, Done

LEMMA ErasureStep == AcctTypeOK /\ AcctInv /\ [AcctNext]_acctVars => AcctInv'
<1> SUFFICES ASSUME AcctTypeOK, AcctInv, [AcctNext]_acctVars PROVE AcctInv'
  OBVIOUS
<1> USE DEF AcctInv, ErasedIsOver, LockedOwesNothing, FundedMayWithdraw
<1>1. ASSUME NEW r \in Request, NEW i \in Identity, LookUp(r, i) PROVE AcctInv'
  BY <1>1, BeginInv DEF LookUp
<1>2. ASSUME NEW r \in Request, NEW a \in Account, Registered(r, a) PROVE AcctInv'
  BY <1>2, DoneRequests DEF Registered, AcctTypeOK
<1>3. ASSUME NEW r \in Request, NEW a \in Account,
             ReportRead(r, a) \/ ErasureChecked(r, a)
      PROVE  AcctInv'
  BY <1>3, BeginInv DEF ReportRead, ErasureChecked
<1>4. ASSUME NEW r \in Request, NEW a \in Account, NEW step \in {"leaving", "withdrawing"},
             Authenticated(r, a, step)
      PROVE AcctInv'
  BY <1>4, BeginInv DEF Authenticated
<1>5. ASSUME NEW r \in Request, SelfDeleted(r) PROVE AcctInv'
  BY <1>5, DoneRequests DEF SelfDeleted, At, AcctTypeOK, ProfileLocked
<1>6. ASSUME NEW r \in Request, FundsLocked(r) PROVE AcctInv'
  BY <1>6 DEF FundsLocked, At, AcctTypeOK
<1>7. ASSUME NEW r \in Request, PayoutInserted(r) PROVE AcctInv'
  BY <1>7, DoneRequests DEF PayoutInserted, At, AcctTypeOK, UserLocked
<1>8. ASSUME NEW r \in Request, ReportSuspends(r) PROVE AcctInv'
  BY <1>8, DoneRequests DEF ReportSuspends, At, AcctTypeOK
<1>9. ASSUME NEW r \in Request, ErasureLocked(r) PROVE AcctInv'
  BY <1>9 DEF ErasureLocked, At, AcctTypeOK
<1>10. ASSUME NEW r \in Request, Erased(r) PROVE AcctInv'
  BY <1>10, DoneRequests DEF Erased, At, AcctTypeOK, ProfileLocked
<1>11. ASSUME NEW r \in Request, RequestEnds(r) PROVE AcctInv'
  BY <1>11, DoneRequests DEF RequestEnds
<1>12. ASSUME NEW a \in Account, NEW ids \in SUBSET Identity, IdentityEdited(a, ids)
       PROVE AcctInv'
  BY <1>12 DEF IdentityEdited
<1>13. ASSUME NEW a \in Account, WithdrawalAllowed(a) PROVE AcctInv'
  BY <1>13 DEF WithdrawalAllowed, AcctTypeOK
<1>14. ASSUME NEW a \in Account, PayoutClosed(a) PROVE AcctInv'
  BY <1>14 DEF PayoutClosed, AcctTypeOK
<1>15. ASSUME NEW a \in Account, NEW status \in {"active", "suspended"}, StatusSet(a, status)
       PROVE AcctInv'
  BY <1>15 DEF StatusSet, AcctTypeOK
<1>16. ASSUME NEW a \in Account, NEW i \in Identity, AdminRegisters(a, i) PROVE AcctInv'
  BY <1>16 DEF AdminRegisters, AcctTypeOK
<1>17. CASE UNCHANGED acctVars
  BY <1>17 DEF acctVars
<1> QED
  BY <1>1, <1>2, <1>3, <1>4, <1>5, <1>6, <1>7, <1>8, <1>9, <1>10, <1>11, <1>12, <1>13,
     <1>14, <1>15, <1>16, <1>17 DEF AcctNext

LEMMA ErasureStart == AcctInit => AcctInv
BY DEF AcctInit, AcctInv, ErasedIsOver, LockedOwesNothing, FundedMayWithdraw

\* For any number of withdrawals, erasures and reports that overlap.  The
\* erasure and the withdrawal lock different rows, so neither excludes the
\* other until one of them waits for a row the other holds; that an erasure's
\* lock and a withdrawal's lock each carry what was read under them is what
\* AcctInv adds.
THEOREM ErasureIsFinal == AcctSpec => []ErasedOwesNothing
<1>1. AcctInv => ErasedOwesNothing
  BY DEF AcctInv, ErasedIsOver, ErasedOwesNothing
<1> QED
  BY ErasureStart, <1>1, ErasureStep, AccountsTypeCorrect, PTL DEF AcctSpec

-----------------------------------------------------------------------------
(* One-time codes.  A comparison with a code was counted before in a window of
   the attempts counter, and a code meets at most three of them: one that was
   open when it was stored, of which at least one attempt was used, one that
   opens before the counter is reset, and one after that. *)

Counted == {v \in VerifyCall : checking[v] = "counted"}
Capped == IF attempts > MaxAttempts THEN MaxAttempts ELSE attempts
\* Attempts counted since the code in force was stored, at most.
Spent ==
    IF attempts > 0 /\ attemptsBorn < otp THEN Capped - 1
    ELSE IF sender = "stored" THEN MaxAttempts - 1 + Capped
    ELSE 2 * MaxAttempts - 1 + Capped

CodesInOrder ==
    /\ otp \in {NoCode, issued} /\ attemptsBorn <= issued
    /\ \A n \in Code : n > issued => misses[n] = 0
GuessesWereCounted ==
    otp # NoCode => misses[otp] + Cardinality(Counted) <= Cardinality(VerifyCall) + Spent

CodeIInv == CodeTypeOK /\ CodesInOrder /\ GuessesWereCounted /\ GuessesBounded

LEMMA LimitsAreNaturals ==
    /\ MaxAttempts \in Nat /\ MaxAttempts >= 1 /\ MaxSends \in Nat /\ MaxSends >= 1
    /\ MaxCodes \in Nat
BY CodeLimitsAssumption

LEMMA CodeTypeStep == CodeTypeOK /\ CodesInOrder /\ [CodeNext]_codeVars => CodeTypeOK'
<1> SUFFICES ASSUME CodeTypeOK, CodesInOrder, [CodeNext]_codeVars PROVE CodeTypeOK'
  OBVIOUS
<1> USE LimitsAreNaturals
<1>1. CASE UNCHANGED codeVars
  BY <1>1 DEF codeVars, CodeTypeOK
<1>2. CASE SendBegins
  BY <1>2 DEF SendBegins, CodeTypeOK
<1>3. CASE SendCounted
  BY <1>3 DEF SendCounted, Saturated, CodeTypeOK
<1>4. CASE CodeStored
  BY <1>4 DEF CodeStored, CodeTypeOK, Code
<1>5. CASE AttemptsReset
  BY <1>5 DEF AttemptsReset, CodeTypeOK
<1>6. CASE Delivered \/ DeliveryFailed \/ SenderDies
  BY <1>6 DEF Delivered, DeliveryFailed, SenderDies, CodeTypeOK
<1>7. ASSUME NEW v \in VerifyCall, NEW g \in (1 .. issued) \cup {NoCode}, AttemptCounted(v, g)
      PROVE  CodeTypeOK'
  <2>1. g \in Code \cup {NoCode}
    BY DEF CodeTypeOK, Code
  <2> QED
    BY <1>7, <2>1 DEF AttemptCounted, Saturated, CodeTypeOK
<1>8. ASSUME NEW v \in VerifyCall,
             CodeDropped(v) \/ CodeMatches(v) \/ CodeExpired(v) \/ CodeUsed(v) \/ VerifierDies(v)
      PROVE  CodeTypeOK'
  BY <1>8 DEF CodeDropped, CodeMatches, CodeExpired, CodeUsed, VerifierDies, CodeTypeOK
<1>9. ASSUME NEW v \in VerifyCall, CodeMissed(v) PROVE CodeTypeOK'
  BY <1>9 DEF CodeMissed, CodeTypeOK
<1>10. CASE OtpExpires \/ CooldownExpires \/ SendsExpire
  <2>1. CASE OtpExpires
    BY <2>1 DEF OtpExpires, CodeTypeOK
  <2>2. CASE CooldownExpires
    BY <2>2 DEF CooldownExpires, CodeTypeOK
  <2>3. CASE SendsExpire
    BY <2>3 DEF SendsExpire, CodeTypeOK
  <2> QED
    BY <1>10, <2>1, <2>2, <2>3
<1>11. CASE AttemptsExpire
  BY <1>11 DEF AttemptsExpire, CodeTypeOK
<1> QED
  BY <1>1, <1>2, <1>3, <1>4, <1>5, <1>6, <1>7, <1>8, <1>9, <1>10, <1>11 DEF CodeNext

LEMMA CodesInOrderStep ==
    CodeTypeOK /\ CodesInOrder /\ [CodeNext]_codeVars => CodesInOrder'
<1> SUFFICES ASSUME CodeTypeOK, CodesInOrder, [CodeNext]_codeVars PROVE CodesInOrder'
  OBVIOUS
<1> USE LimitsAreNaturals
<1>1. CASE UNCHANGED codeVars
  BY <1>1 DEF codeVars, CodesInOrder
<1>2. CASE SendBegins \/ SendCounted \/ AttemptsReset \/ Delivered \/ DeliveryFailed \/ SenderDies
  BY <1>2 DEF SendBegins, SendCounted, AttemptsReset, Delivered, DeliveryFailed, SenderDies,
              CodesInOrder
<1>3. CASE CodeStored
  BY <1>3 DEF CodeStored, CodeTypeOK, CodesInOrder, Code
<1>4. ASSUME NEW v \in VerifyCall, NEW g \in (1 .. issued) \cup {NoCode}, AttemptCounted(v, g)
      PROVE  CodesInOrder'
  BY <1>4 DEF AttemptCounted, CodeTypeOK, CodesInOrder
<1>5. ASSUME NEW v \in VerifyCall,
             CodeDropped(v) \/ CodeMatches(v) \/ CodeExpired(v) \/ CodeUsed(v) \/ VerifierDies(v)
      PROVE  CodesInOrder'
  BY <1>5 DEF CodeDropped, CodeMatches, CodeExpired, CodeUsed, VerifierDies, CodesInOrder
<1>6. ASSUME NEW v \in VerifyCall, CodeMissed(v) PROVE CodesInOrder'
  BY <1>6 DEF CodeMissed, CodeTypeOK, CodesInOrder, Code, NoCode
<1>7. CASE OtpExpires \/ AttemptsExpire \/ CooldownExpires \/ SendsExpire
  BY <1>7 DEF OtpExpires, AttemptsExpire, CooldownExpires, SendsExpire, CodesInOrder
<1> QED
  BY <1>1, <1>2, <1>3, <1>4, <1>5, <1>6, <1>7 DEF CodeNext

LEMMA CountedIsFinite ==
    /\ IsFiniteSet(Counted) /\ Cardinality(Counted) \in Nat /\ Cardinality(VerifyCall) \in Nat
    /\ Cardinality(Counted) <= Cardinality(VerifyCall)
BY VerifyCallAssumption, FS_Subset, FS_CardinalityType DEF Counted

\* A window never gives more than its limit.
LEMMA SpentIsBounded ==
    ASSUME CodeTypeOK
    PROVE  /\ Capped \in 0 .. MaxAttempts
           /\ Spent \in Int /\ Spent >= 0 /\ Spent <= 3 * MaxAttempts - 1
BY LimitsAreNaturals DEF CodeTypeOK, Capped, Spent

LEMMA BoundFollows ==
    ASSUME CodeTypeOK, GuessesWereCounted, NEW n \in Code, n = otp
    PROVE  misses[n] <= 3 * MaxAttempts - 1 + Cardinality(VerifyCall)
<1>1. otp # NoCode /\ misses[otp] \in Nat
  BY DEF CodeTypeOK, Code, NoCode
<1> QED
  BY <1>1, SpentIsBounded, CountedIsFinite, LimitsAreNaturals DEF GuessesWereCounted

\* Nobody is counted, nothing is missed: what is spent does not shrink.
LEMMA NothingCounted ==
    ASSUME CodeIInv, CodeTypeOK', misses' = misses, Counted' \subseteq Counted,
           otp' = NoCode \/ (otp' = otp /\ Spent' >= Spent)
    PROVE  (GuessesWereCounted /\ GuessesBounded)'
<1>1. GuessesBounded'
  BY DEF CodeIInv, GuessesBounded
<1>2. ASSUME otp' # NoCode PROVE GuessesWereCounted'
  <2>1. Cardinality(Counted') <= Cardinality(Counted) /\ Cardinality(Counted') \in Nat
    BY CountedIsFinite, FS_Subset, FS_CardinalityType
  <2>2. otp \in Code /\ otp # NoCode /\ otp' = otp /\ misses[otp] \in Nat
    BY <1>2 DEF CodeIInv, CodeTypeOK
  <2>3. Spent \in Int /\ Spent' \in Int
    <3>1. Spent \in Int
      BY SpentIsBounded DEF CodeIInv
    <3>2. Spent' \in Int
      BY LimitsAreNaturals DEF CodeTypeOK, Spent, Capped
    <3> QED
      BY <3>1, <3>2
  <2>4. misses[otp] + Cardinality(Counted) <= Cardinality(VerifyCall) + Spent
    BY <2>2 DEF CodeIInv, GuessesWereCounted
  <2>5. misses'[otp'] + Cardinality(Counted') <= Cardinality(VerifyCall) + Spent'
    BY <1>2, <2>1, <2>2, <2>3, <2>4, CountedIsFinite
  <2> QED
    BY <2>5 DEF GuessesWereCounted
<1>3. GuessesWereCounted'
  BY <1>2 DEF GuessesWereCounted
<1> QED
  BY <1>1, <1>3

LEMMA AttemptCountedStep ==
    ASSUME CodeIInv, CodeTypeOK', NEW v \in VerifyCall, NEW g, AttemptCounted(v, g)
    PROVE  (GuessesWereCounted /\ GuessesBounded)'
<1> USE LimitsAreNaturals
<1>1. CodeTypeOK /\ CodesInOrder
  BY DEF CodeIInv
<1>2. /\ checking[v] = "idle" /\ attempts' = Saturated(attempts, MaxAttempts)
      /\ attemptsBorn' = IF attempts = 0 THEN issued ELSE attemptsBorn
      /\ checking' = [checking EXCEPT ![v] = IF attempts < MaxAttempts THEN "counted" ELSE "over"]
      /\ UNCHANGED <<otp, sender, issued, misses>>
  BY DEF AttemptCounted
<1>3. CASE attempts < MaxAttempts /\ otp # NoCode
  <2>1. Counted' = Counted \cup {v} /\ v \notin Counted
    BY <1>1, <1>2, <1>3 DEF Counted, CodeTypeOK
  <2>2. Cardinality(Counted') = Cardinality(Counted) + 1
    BY <2>1, CountedIsFinite, FS_AddElement
  <2>3. otp = issued /\ otp \in Code
    BY <1>1, <1>3 DEF CodesInOrder, CodeTypeOK
  <2>4. Spent' = Spent + 1
    BY <1>1, <1>2, <1>3, <2>3 DEF Spent, Capped, CodeTypeOK, Saturated, Code
  <2>5. misses[otp] \in Nat /\ Spent \in Int
    BY <1>1, <2>3, SpentIsBounded DEF CodeTypeOK
  <2>6. misses[otp] + Cardinality(Counted) <= Cardinality(VerifyCall) + Spent
    BY <1>3 DEF CodeIInv, GuessesWereCounted
  <2>7. misses'[otp'] + Cardinality(Counted') <= Cardinality(VerifyCall) + Spent'
    BY <1>2, <2>2, <2>4, <2>5, <2>6, CountedIsFinite
  <2> QED
    BY <1>2, <2>7 DEF GuessesWereCounted, CodeIInv, GuessesBounded
<1>4. CASE attempts >= MaxAttempts
  <2>1. Counted' = Counted
    BY <1>1, <1>2, <1>4 DEF Counted, CodeTypeOK
  <2>2. Spent' = Spent
    BY <1>1, <1>2, <1>4 DEF Spent, Capped, CodeTypeOK, Saturated
  <2>3. Spent \in Int
    BY <1>1, SpentIsBounded
  <2>4. misses' = misses /\ otp' = otp /\ Spent' >= Spent /\ Counted' \subseteq Counted
    BY <1>2, <2>1, <2>2, <2>3
  <2> QED
    BY <2>4, NothingCounted
<1>5. CASE otp = NoCode
  BY <1>2, <1>5 DEF GuessesWereCounted, CodeIInv, GuessesBounded
<1> QED
  BY <1>1, <1>3, <1>4, <1>5 DEF CodeTypeOK

LEMMA CodeMissedStep ==
    ASSUME CodeIInv, CodeTypeOK', NEW v \in VerifyCall, CodeMissed(v)
    PROVE  (GuessesWereCounted /\ GuessesBounded)'
<1>1. CodeTypeOK /\ CodesInOrder
  BY DEF CodeIInv
<1>2. /\ checking[v] = "counted" /\ otp # NoCode
      /\ misses' = [misses EXCEPT ![otp] = @ + 1]
      /\ checking' = [checking EXCEPT ![v] = "idle"]
      /\ UNCHANGED <<otp, attempts, attemptsBorn, sender>>
  BY DEF CodeMissed
<1>3. otp \in Code /\ misses[otp] \in Nat
  BY <1>1, <1>2 DEF CodeTypeOK
<1>4. Counted' = Counted \ {v} /\ v \in Counted
  BY <1>1, <1>2 DEF Counted, CodeTypeOK
<1>5. Cardinality(Counted') = Cardinality(Counted) - 1
  BY <1>4, CountedIsFinite, FS_RemoveElement
<1>6. Spent' = Spent /\ Spent \in Int
  BY <1>1, <1>2, SpentIsBounded DEF Spent, Capped
<1>7. misses'[otp] = misses[otp] + 1 /\ \A n \in Code \ {otp} : misses'[n] = misses[n]
  BY <1>1, <1>2, <1>3 DEF CodeTypeOK
<1>8. misses[otp] + Cardinality(Counted) <= Cardinality(VerifyCall) + Spent
  BY <1>2 DEF CodeIInv, GuessesWereCounted
<1>9. misses'[otp'] + Cardinality(Counted') <= Cardinality(VerifyCall) + Spent'
  BY <1>2, <1>3, <1>5, <1>6, <1>7, <1>8, CountedIsFinite
<1>10. GuessesWereCounted'
  BY <1>9 DEF GuessesWereCounted
<1>11. misses'[otp] <= 3 * MaxAttempts - 1 + Cardinality(VerifyCall)
  <2>1. misses'[otp] + Cardinality(Counted') <= Cardinality(VerifyCall) + Spent
    BY <1>2, <1>6, <1>9
  <2>2. Spent <= 3 * MaxAttempts - 1 /\ Cardinality(Counted') >= 0
    BY <1>1, <1>4, <1>5, SpentIsBounded, CountedIsFinite, FS_RemoveElement, FS_CardinalityType
  <2>3. misses'[otp] \in Nat /\ Cardinality(Counted') \in Int
    BY <1>3, <1>5, <1>7, CountedIsFinite
  <2> QED
    BY <1>6, <2>1, <2>2, <2>3, CountedIsFinite, LimitsAreNaturals
<1>12. GuessesBounded'
  BY <1>7, <1>11 DEF CodeIInv, GuessesBounded
<1> QED
  BY <1>10, <1>12

\* A new code meets what is left of the window that is open, and the requests
\* that were counted.
LEMMA CodeStoredStep ==
    ASSUME CodeIInv, CodeTypeOK', CodeStored
    PROVE  (GuessesWereCounted /\ GuessesBounded)'
<1> USE LimitsAreNaturals
<1>1. CodeTypeOK /\ CodesInOrder
  BY DEF CodeIInv
<1>2. /\ otp' = issued + 1 /\ sender' = "stored"
      /\ UNCHANGED <<attempts, attemptsBorn, checking, misses>>
  BY DEF CodeStored
<1>3. issued + 1 \in Code /\ misses[issued + 1] = 0
  BY <1>1 DEF CodeStored, CodesInOrder, CodeTypeOK, Code
<1>4. Spent' \in Int /\ Spent' >= 0
  BY <1>1, <1>2 DEF Spent, Capped, CodeTypeOK, CodesInOrder
<1>5. Counted' = Counted
  BY <1>2 DEF Counted
<1>6. misses'[otp'] + Cardinality(Counted') <= Cardinality(VerifyCall) + Spent'
  BY <1>2, <1>3, <1>4, <1>5, CountedIsFinite
<1> QED
  BY <1>2, <1>6 DEF GuessesWereCounted, CodeIInv, GuessesBounded

LEMMA CodeStep == CodeIInv /\ [CodeNext]_codeVars => CodeIInv'
<1> SUFFICES ASSUME CodeIInv, [CodeNext]_codeVars, CodeTypeOK', CodesInOrder'
             PROVE  (GuessesWereCounted /\ GuessesBounded)'
  BY CodeTypeStep, CodesInOrderStep DEF CodeIInv
<1> USE LimitsAreNaturals
<1> DEFINE Goal == (GuessesWereCounted /\ GuessesBounded)'
<1>0. CodeTypeOK /\ CodesInOrder /\ Spent \in Int
  BY SpentIsBounded DEF CodeIInv
<1>1. ASSUME UNCHANGED <<otp, attempts, attemptsBorn, checking, misses>>,
             sender' = sender \/ (sender = "stored" /\ sender' = "idle")
                              \/ (sender # "stored" /\ sender' # "stored")
      PROVE  Goal
  <2>1. Spent' >= Spent
    BY <1>0, <1>1 DEF Spent, Capped, CodeTypeOK
  <2>2. Counted' = Counted
    BY <1>1 DEF Counted
  <2> QED
    BY <1>1, <2>1, <2>2, NothingCounted
<1>2. CASE UNCHANGED codeVars
  BY <1>1, <1>2 DEF codeVars
<1>3. CASE SendBegins \/ SendCounted \/ Delivered \/ SenderDies
           \/ CooldownExpires \/ SendsExpire
  BY <1>1, <1>3 DEF SendBegins, SendCounted, Delivered, SenderDies, CooldownExpires, SendsExpire
<1>4. CASE CodeStored
  BY <1>4, CodeStoredStep
<1>5. CASE AttemptsReset
  <2>1. Spent' >= Spent
    BY <1>0, <1>5 DEF AttemptsReset, Spent, Capped, CodeTypeOK
  <2> QED
    BY <1>5, <2>1, NothingCounted DEF AttemptsReset, Counted
<1>6. CASE DeliveryFailed \/ OtpExpires
  BY <1>6, NothingCounted DEF DeliveryFailed, OtpExpires, Counted
<1>7. ASSUME NEW v \in VerifyCall, NEW g, AttemptCounted(v, g) PROVE Goal
  BY <1>7, AttemptCountedStep
<1>8. ASSUME NEW v \in VerifyCall, CodeDropped(v) \/ CodeExpired(v) \/ CodeUsed(v) PROVE Goal
  <2>1. Counted' \subseteq Counted
    BY <1>0, <1>8 DEF CodeDropped, CodeExpired, CodeUsed, Counted, CodeTypeOK
  <2> QED
    BY <1>8, <2>1, NothingCounted DEF CodeDropped, CodeExpired, CodeUsed
<1>9. ASSUME NEW v \in VerifyCall, CodeMatches(v) \/ VerifierDies(v) PROVE Goal
  <2>1. Counted' \subseteq Counted
    BY <1>0, <1>9 DEF CodeMatches, VerifierDies, Counted, CodeTypeOK
  <2>2. Spent' = Spent /\ Spent' >= Spent
    BY <1>0, <1>9 DEF CodeMatches, VerifierDies, Spent, Capped
  <2> QED
    BY <1>9, <2>1, <2>2, NothingCounted DEF CodeMatches, VerifierDies
<1>10. ASSUME NEW v \in VerifyCall, CodeMissed(v) PROVE Goal
  BY <1>10, CodeMissedStep
<1>11. CASE AttemptsExpire
  <2>1. CASE otp = NoCode
    BY <1>11, <2>1, NothingCounted DEF AttemptsExpire, Counted
  <2>2. CASE otp > attemptsBorn
    <3>1. Spent' >= Spent
      BY <1>0, <1>11, <2>2 DEF AttemptsExpire, Spent, Capped, CodeTypeOK, Code
    <3> QED
      BY <1>11, <3>1, NothingCounted DEF AttemptsExpire, Counted
  <2> QED
    BY <1>11, <2>1, <2>2 DEF AttemptsExpire
<1> QED
  BY <1>2, <1>3, <1>4, <1>5, <1>6, <1>7, <1>8, <1>9, <1>10, <1>11 DEF CodeNext

LEMMA CodeStart == CodeInit => CodeIInv
<1> SUFFICES ASSUME CodeInit PROVE CodeIInv
  OBVIOUS
<1>1. CodeTypeOK
  <2>1. 0 \in 0 .. MaxAttempts + 1 /\ 0 \in 0 .. MaxSends + 1 /\ 0 \in 0 .. MaxCodes
    BY LimitsAreNaturals
  <2>2. /\ checking \in [VerifyCall -> {"idle", "over", "counted", "matched"}]
        /\ guess \in [VerifyCall -> Code \cup {NoCode}] /\ misses \in [Code -> Nat]
    BY DEF CodeInit
  <2> QED
    BY <2>1, <2>2 DEF CodeInit, CodeTypeOK
<1>2. CodesInOrder
  BY DEF CodeInit, CodesInOrder
<1>3. GuessesWereCounted
  BY DEF CodeInit, GuessesWereCounted
<1>4. ASSUME NEW n \in Code PROVE misses[n] <= 3 * MaxAttempts - 1 + Cardinality(VerifyCall)
  <2>1. misses[n] = 0
    BY DEF CodeInit
  <2> QED
    BY <2>1, LimitsAreNaturals, CountedIsFinite
<1> QED
  BY <1>1, <1>2, <1>3, <1>4 DEF CodeIInv, GuessesBounded

\* A code survives few wrong guesses: verifyCode of auth.service.js counts a
\* request before it compares, and only sendCode, a success and the expiry of
\* its key give the counter back.
THEOREM GuessesAreFew == CodeSpec => []GuessesBounded
<1>1. CodeIInv /\ [CodeNext]_codeVars => CodeIInv'
  BY CodeStep
<1>2. CodeIInv => GuessesBounded
  BY DEF CodeIInv
<1> QED
  BY CodeStart, <1>1, <1>2, PTL DEF CodeSpec

-----------------------------------------------------------------------------
(* The accounts of the admin console.  Whatever was found free before, UNIQUE
   (email) is what an insertion and a change meet at the row. *)

\* A change of email is of an admin with a row: rows stay.
ChangersHaveRows ==
    \A q \in AdminRequest :
        adminDoing[q] # NoAdmin /\ adminDoing[q].act = "change" =>
            adminDoing[q].by \in Admin /\ adminRow[adminDoing[q].by] \in AdminRow

AdminIInv == AdminTypeOK /\ ChangersHaveRows /\ OneAdminPerEmail

LEMMA AdminBeginsStep ==
    ASSUME AdminIInv, NEW q \in AdminRequest, NEW act \in {"bootstrap", "add", "change"},
           NEW e \in Email, NEW by \in Admin \cup {NoAdmin}, AdminBegins(q, act, e, by),
           act = "change" => by \in Admin /\ adminRow[by] \in AdminRow
    PROVE  AdminIInv'
<1>1. [act |-> act, email |-> e, by |-> by] \in AdminWork
  BY DEF AdminWork
<1>2. AdminTypeOK'
  BY <1>1 DEF AdminBegins, AdminIInv, AdminTypeOK
<1>3. ChangersHaveRows'
  BY <1>1 DEF AdminBegins, AdminIInv, AdminTypeOK, ChangersHaveRows
<1>4. OneAdminPerEmail'
  BY DEF AdminBegins, AdminIInv, OneAdminPerEmail, HasEmail
<1> QED
  BY <1>2, <1>3, <1>4 DEF AdminIInv

LEMMA AdminInsertedStep ==
    ASSUME AdminIInv, NEW q \in AdminRequest, NEW act \in {"bootstrap", "add"}, NEW a \in Admin,
           NEW role \in Role, AdminInserted(q, act, a, role),
           form' \in {"checking", "bootstrap", "login", "none"}
    PROVE  AdminIInv'
<1> DEFINE r == adminDoing[q]
<1>1. r \in AdminWork /\ ~EmailTaken(r.email) /\ adminRow[a] = NoAdmin
  BY DEF AdminInserted, AdminIInv, AdminTypeOK
<1>2. r.email \in Email
  BY <1>1 DEF AdminWork
<1>3. /\ adminRow' = [adminRow EXCEPT ![a] = [email |-> r.email, role |-> role]]
      /\ adminDoing' = [adminDoing EXCEPT ![q] = NoAdmin]
  BY DEF AdminInserted, AdminDone
<1>4. [email |-> r.email, role |-> role] \in AdminRow
  BY <1>2 DEF AdminRow
<1> HIDE DEF r
<1>5. AdminTypeOK'
  BY <1>3, <1>4 DEF AdminIInv, AdminTypeOK
<1>6. ChangersHaveRows'
  BY <1>3, <1>4 DEF AdminIInv, AdminTypeOK, ChangersHaveRows
<1>7. \A b \in Admin : \A e \in Email :
         HasEmail(b, e)' => IF b = a THEN e = r.email ELSE HasEmail(b, e)
  BY <1>3 DEF AdminIInv, AdminTypeOK, HasEmail
<1>8. \A b \in Admin : ~HasEmail(b, r.email)
  BY <1>1 DEF EmailTaken
<1>9. OneAdminPerEmail'
  <2> SUFFICES ASSUME NEW b \in Admin, NEW c \in Admin, NEW e \in Email,
                      HasEmail(b, e)', HasEmail(c, e)'
               PROVE  b = c
    BY DEF OneAdminPerEmail
  <2> QED
    BY <1>7, <1>8 DEF AdminIInv, OneAdminPerEmail
<1> QED
  BY <1>5, <1>6, <1>9 DEF AdminIInv

LEMMA EmailReplacedStep ==
    ASSUME AdminIInv, NEW q \in AdminRequest, EmailReplaced(q)
    PROVE  AdminIInv'
<1> DEFINE r == adminDoing[q]
<1>1. /\ r \in AdminWork /\ r # NoAdmin /\ r.act = "change"
      /\ \A b \in Admin \ {r.by} : ~HasEmail(b, r.email)
  BY DEF EmailReplaced, AdminIInv, AdminTypeOK
<1>2. r.by \in Admin /\ adminRow[r.by] \in AdminRow /\ r.email \in Email
  BY <1>1 DEF AdminWork, AdminIInv, ChangersHaveRows
<1>3. /\ adminRow' = [adminRow EXCEPT ![r.by].email = r.email]
      /\ adminDoing' = [adminDoing EXCEPT ![q] = NoAdmin] /\ form' = form
  BY DEF EmailReplaced, AdminDone
<1> HIDE DEF r
<1>4. /\ adminRow'[r.by] \in AdminRow /\ adminRow'[r.by].email = r.email
      /\ \A b \in Admin \ {r.by} : adminRow'[b] = adminRow[b]
  BY <1>2, <1>3 DEF AdminIInv, AdminTypeOK, AdminRow
<1>5. AdminTypeOK'
  BY <1>2, <1>3, <1>4 DEF AdminIInv, AdminTypeOK
<1>6. ChangersHaveRows'
  BY <1>2, <1>3, <1>4 DEF AdminIInv, AdminTypeOK, ChangersHaveRows
<1>7. \A b \in Admin : \A e \in Email :
         HasEmail(b, e)' => IF b = r.by THEN e = r.email ELSE HasEmail(b, e)
  BY <1>4 DEF HasEmail
<1>8. OneAdminPerEmail'
  <2> SUFFICES ASSUME NEW b \in Admin, NEW c \in Admin, NEW e \in Email,
                      HasEmail(b, e)', HasEmail(c, e)'
               PROVE  b = c
    BY DEF OneAdminPerEmail
  <2> QED
    BY <1>1, <1>7 DEF AdminIInv, OneAdminPerEmail
<1> QED
  BY <1>5, <1>6, <1>8 DEF AdminIInv

LEMMA AdminStep == AdminIInv /\ [AdminNext]_adminVars => AdminIInv'
<1> SUFFICES ASSUME AdminIInv, [AdminNext]_adminVars PROVE AdminIInv'
  OBVIOUS
<1>1. ASSUME UNCHANGED <<adminRow, adminDoing>>, form' \in {"checking", "bootstrap", "login", "none"}
      PROVE  AdminIInv'
  BY <1>1 DEF AdminIInv, AdminTypeOK, ChangersHaveRows, OneAdminPerEmail, HasEmail
<1>2. CASE UNCHANGED adminVars
  BY <1>1, <1>2 DEF adminVars, AdminIInv, AdminTypeOK
<1>3. CASE PageLoaded \/ FormShown \/ AdminSignsIn \/ AdminSignsOut
  BY <1>1, <1>3 DEF PageLoaded, FormShown, AdminSignsIn, AdminSignsOut
<1>4. ASSUME NEW q \in AdminRequest, NEW e \in Email, NoneCounted(q, e) PROVE AdminIInv'
  BY <1>4, AdminBeginsStep DEF NoneCounted
<1>5. ASSUME NEW q \in AdminRequest, NEW e \in Email, NEW a \in Admin, SubAdminChecked(q, a, e)
      PROVE  AdminIInv'
  BY <1>5, AdminBeginsStep DEF SubAdminChecked
<1>6. ASSUME NEW q \in AdminRequest, NEW e \in Email, NEW a \in Admin, EmailChecked(q, a, e)
      PROVE  AdminIInv'
  <2>1. adminRow[a] \in AdminRow
    BY <1>6 DEF EmailChecked, AdminIInv, AdminTypeOK
  <2> QED
    BY <1>6, <2>1, AdminBeginsStep DEF EmailChecked
<1>7. ASSUME NEW q \in AdminRequest, NEW a \in Admin, FirstInserted(q, a) PROVE AdminIInv'
  BY <1>7, AdminInsertedStep DEF FirstInserted, Role
<1>8. ASSUME NEW q \in AdminRequest, NEW a \in Admin, SubAdminInserted(q, a) PROVE AdminIInv'
  BY <1>8, AdminInsertedStep DEF SubAdminInserted, Role, AdminIInv, AdminTypeOK
<1>9. ASSUME NEW q \in AdminRequest, EmailReplaced(q) PROVE AdminIInv'
  BY <1>9, EmailReplacedStep
<1>10. ASSUME NEW q \in AdminRequest, AdminRequestEnds(q) PROVE AdminIInv'
  BY <1>10 DEF AdminRequestEnds, AdminDone, AdminIInv, AdminTypeOK, ChangersHaveRows,
               OneAdminPerEmail, HasEmail
<1> QED
  BY <1>2, <1>3, <1>4, <1>5, <1>6, <1>7, <1>8, <1>9, <1>10 DEF AdminNext

LEMMA AdminStart == AdminInit => AdminIInv
BY DEF AdminInit, AdminIInv, AdminTypeOK, ChangersHaveRows, OneAdminPerEmail, HasEmail

\* An email signs in to one admin: admin.auth.js checks, and later writes under
\* UNIQUE (email), whatever requests that all found it free are under way.
THEOREM EmailsAreSingle == AdminSpec => []OneAdminPerEmail
<1>1. AdminIInv /\ [AdminNext]_adminVars => AdminIInv'
  BY AdminStep
<1>2. AdminIInv => OneAdminPerEmail
  BY DEF AdminIInv
<1> QED
  BY AdminStart, <1>1, <1>2, PTL DEF AdminSpec
=============================================================================
