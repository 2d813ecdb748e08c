----------------------------- MODULE Purchases -----------------------------
(***************************************************************************)
(* Coins bought with money: Google Play purchases, verified by a request   *)
(* that reads the purchases table, asks Google and then writes, and gateway *)
(* top-ups, credited by a webhook that may be delivered any number of times. *)
(***************************************************************************)
EXTENDS Integers, FiniteSets

CONSTANTS
    Buyer,          \* accounts
    VerifyRequest,  \* requests in flight to POST /purchases/google/verify
    PlayToken,      \* Google Play purchase tokens
    TopupOrder,     \* payment references of the gateway
    PackCoins,      \* packTotalCoins of the pack that is bought
    NoPurchase,     \* "no row"
    NoVerify        \* an idle request

ASSUME PackAssumption == PackCoins \in Nat \ {0}

PurchaseRow == [status : {"verified", "invalid"}, user : Buyer]
VerifyJob == [token : PlayToken, user : Buyer]

ASSUME NoPurchaseAssumption ==
    NoPurchase \notin PurchaseRow \cup Buyer /\ NoVerify \notin VerifyJob

VARIABLES
    playState,    \* what Google says of a token
    purchaseRow,  \* the row of purchases with the token's hash (UNIQUE)
    topupRow,     \* the user of the reference's 'topup' row in coin_ledger
    boughtCoins,  \* the part of wallets.coin_balance that was bought
    verifyAt,     \* where a request stands
    verifyJob     \* the token and the user of a request

purchaseVars == <<playState, purchaseRow, topupRow, boughtCoins, verifyAt,
                  verifyJob>>

PurchaseTypeOK ==
    /\ playState \in
         [PlayToken -> {"pending", "purchased", "cancelled", "consumed"}]
    /\ purchaseRow \in [PlayToken -> PurchaseRow \cup {NoPurchase}]
    /\ topupRow \in [TopupOrder -> Buyer \cup {NoPurchase}]
    /\ boughtCoins \in [Buyer -> Nat]
    /\ verifyAt \in [VerifyRequest ->
         {"idle", "asking", "valid", "invalid", "recorded", "credited",
          "duplicate", "refused"}]
    /\ verifyJob \in [VerifyRequest -> VerifyJob \cup {NoVerify}]

PurchaseInit ==
    /\ playState \in [PlayToken -> {"pending", "purchased", "cancelled"}]
    /\ purchaseRow = [t \in PlayToken |-> NoPurchase]
    /\ topupRow = [o \in TopupOrder |-> NoPurchase]
    /\ boughtCoins = [u \in Buyer |-> 0]
    /\ verifyAt = [r \in VerifyRequest |-> "idle"]
    /\ verifyJob = [r \in VerifyRequest |-> NoVerify]

-----------------------------------------------------------------------------
(* Google and the gateway *)

\* A pending payment completes or is cancelled; a purchase is consumed.
PlayMoves(t) ==
    /\ \/ /\ playState[t] = "pending"
          /\ \E s \in {"purchased", "cancelled"} :
               playState' = [playState EXCEPT ![t] = s]
       \/ /\ playState[t] = "purchased"
          /\ playState' = [playState EXCEPT ![t] = "consumed"]
    /\ UNCHANGED <<purchaseRow, topupRow, boughtCoins, verifyAt, verifyJob>>

\* The balance and the ledger row of walletService.credit, one transaction with
\* whatever called it.
CreditBought(u) == boughtCoins' = [boughtCoins EXCEPT ![u] = @ + PackCoins]

CreditBeforeUnique(o, u) ==
    /\ CreditBought(u)
    /\ topupRow' = [topupRow EXCEPT ![o] = u]
    /\ UNCHANGED <<playState, purchaseRow, verifyAt, verifyJob>>
\* The webhook of a payment, delivered again at will: the unique index on the
\* reference rolls the second credit back, and the duplicate is answered 200.
ApplyTopup(o, u) ==
    /\ topupRow[o] = NoPurchase
    /\ CreditBought(u)
    /\ topupRow' = [topupRow EXCEPT ![o] = u]
    /\ UNCHANGED <<playState, purchaseRow, verifyAt, verifyJob>>

-----------------------------------------------------------------------------
(* verifyAndCredit *)

\* Idempotency check #1: the first outcome of a token stands.
VerifyStart(r, t, u) ==
    /\ verifyAt[r] = "idle"
    /\ verifyJob' = [verifyJob EXCEPT ![r] = [token |-> t, user |-> u]]
    /\ verifyAt' = [verifyAt EXCEPT
                      ![r] = IF purchaseRow[t] = NoPurchase THEN "asking" ELSE "recorded"]
    /\ UNCHANGED <<playState, purchaseRow, topupRow, boughtCoins>>

\* The answer of products.get; valid is purchased and not yet consumed.
VerifyAnswered(r) ==
    /\ verifyAt[r] = "asking"
    /\ verifyAt' = [verifyAt EXCEPT
         ![r] = IF playState[verifyJob[r].token] = "purchased" THEN "valid" ELSE "invalid"]
    /\ UNCHANGED <<playState, purchaseRow, topupRow, boughtCoins, verifyJob>>

OverwriteInvalid(r) ==
    LET t == verifyJob[r].token IN
    /\ verifyAt[r] = "invalid"
    /\ purchaseRow' = [purchaseRow EXCEPT
                         ![t] = [status |-> "invalid", user |-> verifyJob[r].user]]
    /\ verifyAt' = [verifyAt EXCEPT ![r] = "refused"]
    /\ UNCHANGED <<playState, topupRow, boughtCoins, verifyJob>>
\* INSERT ... 'invalid' ON CONFLICT DO NOTHING.
RecordInvalid(r) ==
    LET t == verifyJob[r].token IN
    /\ verifyAt[r] = "invalid"
    /\ purchaseRow' = [purchaseRow EXCEPT
         ![t] = IF @ = NoPurchase
                THEN [status |-> "invalid", user |-> verifyJob[r].user] ELSE @]
    /\ verifyAt' = [verifyAt EXCEPT ![r] = "refused"]
    /\ UNCHANGED <<playState, topupRow, boughtCoins, verifyJob>>

\* Check #2: the row and the credit commit together, or UNIQUE refuses both.
CreditPurchase(r) ==
    LET t == verifyJob[r].token
        u == verifyJob[r].user IN
    /\ verifyAt[r] = "valid"
    /\ purchaseRow[t] = NoPurchase
    /\ purchaseRow' = [purchaseRow EXCEPT ![t] = [status |-> "verified", user |-> u]]
    /\ CreditBought(u)
    /\ verifyAt' = [verifyAt EXCEPT ![r] = "credited"]
    /\ UNCHANGED <<playState, topupRow, verifyJob>>

LostTheRace(r) ==
    /\ verifyAt[r] = "valid"
    /\ purchaseRow[verifyJob[r].token] # NoPurchase
    /\ verifyAt' = [verifyAt EXCEPT ![r] = "duplicate"]
    /\ UNCHANGED <<playState, purchaseRow, topupRow, boughtCoins, verifyJob>>

\* The request is answered and forgotten, or it fails or dies on the way.
VerifyOver(r) ==
    /\ verifyAt[r] # "idle"
    /\ verifyAt' = [verifyAt EXCEPT ![r] = "idle"]
    /\ verifyJob' = [verifyJob EXCEPT ![r] = NoVerify]
    /\ UNCHANGED <<playState, purchaseRow, topupRow, boughtCoins>>

PurchaseNext ==
    \/ \E t \in PlayToken : PlayMoves(t)
    \/ \E o \in TopupOrder : \E u \in Buyer : ApplyTopup(o, u)
    \/ \E r \in VerifyRequest :
         \/ \E t \in PlayToken : \E u \in Buyer : VerifyStart(r, t, u)
         \/ VerifyAnswered(r) \/ RecordInvalid(r) \/ CreditPurchase(r)
         \/ LostTheRace(r) \/ VerifyOver(r)

PurchaseSpec == PurchaseInit /\ [][PurchaseNext]_purchaseVars

-----------------------------------------------------------------------------
(* Properties *)

\* The first outcome of a token stands (purchases.service.js:35-36): a late
\* answer of a slower request changes neither a credit nor a refusal.
FirstOutcomeStands ==
    [][\A t \in PlayToken :
         purchaseRow[t] # NoPurchase => purchaseRow'[t] = purchaseRow[t]]_purchaseVars

\* Each payment credits its coins once: what a wallet bought is one pack per
\* verified token and per settled order, whatever is retried, raced or
\* redelivered (007_purchases.sql, wallet.service.js:157-160).
VerifiedBy(u) == {t \in PlayToken : purchaseRow[t] = [status |-> "verified", user |-> u]}
SettledBy(u) == {o \in TopupOrder : topupRow[o] = u}
PaymentsCreditedOnce ==
    \A u \in Buyer : boughtCoins[u] =
        PackCoins * (Cardinality(VerifiedBy(u)) + Cardinality(SettledBy(u)))
=============================================================================
