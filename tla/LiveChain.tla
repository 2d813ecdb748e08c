----------------------------- MODULE LiveChain -----------------------------
(***************************************************************************)
(* The chain of Moco Live syncs: a listing notes in Redis that someone is  *)
(* browsing and makes sure a message of moco-live is under way; each       *)
(* message syncs (module Live) and publishes the next, keyed by 30-second  *)
(* window, only while that note has not expired.                           *)
(***************************************************************************)
EXTENDS Integers, FiniteSets

CONSTANTS
    Browser,          \* GET /live/models requests
    ChainSlot,        \* messages of moco-live that may be outstanding at once
    ChainDeliveries   \* deliveries before a failure is acknowledged; 2 in the code

ASSUME ChainAssumption == ChainDeliveries \in Nat \ {0}

VARIABLES
    demand,      \* live:demand stands
    promised,    \* history: a listing that noted it has had its ensureLiveSync return
    listing,     \* where a listing stands
    keyUsed,     \* idempotency keys published: of this window and of the next
    chain,       \* the messages
    broken       \* history: a message was given up, or Redis hid the demand from one

chainVars == <<demand, promised, listing, keyUsed, chain, broken>>

Window == {0, 1}                  \* this one, the next
NoLink == [at |-> "none"]
Link == [at : {"waiting"}, wait : Window, left : 1 .. ChainDeliveries]
        \cup [at : {"syncing", "wanted", "ended"}, left : 1 .. ChainDeliveries]
        \cup [at : {"aimed"}, bucket : Window, left : 1 .. ChainDeliveries]
Away == [at |-> "away"]
Listing == [at : {"noted"}, told : BOOLEAN]
           \cup [at : {"aimed"}, told : BOOLEAN, bucket : Window]

ChainTypeOK ==
    /\ demand \in BOOLEAN /\ promised \in BOOLEAN /\ broken \in BOOLEAN
    /\ listing \in [Browser -> Listing \cup {Away}]
    /\ keyUsed \in [Window -> BOOLEAN]
    /\ chain \in [ChainSlot -> Link \cup {NoLink}]

ChainInit ==
    /\ demand = FALSE /\ promised = FALSE /\ broken = FALSE
    /\ listing = [b \in Browser |-> Away] /\ keyUsed = [k \in Window |-> FALSE]
    /\ chain = [s \in ChainSlot |-> NoLink]

UnderWay == {s \in ChainSlot : chain[s].at # "none"}
BrowserAt(b, at) == listing[b].at = at
LinkAt(s, at) == chain[s].at = at

\* enqueue() with a delay of one window: a key already published makes no
\* message.
PublishOnce(bucket, msgs) ==
    IF keyUsed[bucket] THEN chain' = msgs /\ UNCHANGED keyUsed
    ELSE /\ keyUsed' = [keyUsed EXCEPT ![bucket] = TRUE]
         /\ \E s \in ChainSlot : msgs[s] = NoLink
         /\ chain' = [msgs EXCEPT ![CHOOSE s \in ChainSlot : msgs[s] = NoLink] =
                [at |-> "waiting", wait |-> 1, left |-> ChainDeliveries]]

-----------------------------------------------------------------------------
(* GET /live/models *)

\* noteDemand: SET live:demand; the listing goes on when Redis fails.
Noted(b) ==
    /\ BrowserAt(b, "away")
    /\ \E told \in BOOLEAN :
         /\ demand' = (demand \/ told)
         /\ listing' = [listing EXCEPT ![b] = [at |-> "noted", told |-> told]]
    /\ UNCHANGED <<promised, keyUsed, chain, broken>>

\* ensureLiveSync: the window 30 seconds from now.
ChainAimed(b) ==
    /\ BrowserAt(b, "noted")
    /\ listing' = [listing EXCEPT ![b] = [at |-> "aimed", told |-> @.told, bucket |-> 1]]
    /\ UNCHANGED <<demand, promised, keyUsed, chain, broken>>

ChainEnsured(b) ==
    /\ BrowserAt(b, "aimed") /\ PublishOnce(listing[b].bucket, chain)
    /\ listing' = [listing EXCEPT ![b] = Away]
    /\ promised' = (promised \/ listing[b].told) /\ UNCHANGED <<demand, broken>>

\* The queue fails, which the listing survives, or the instance stops.
ListingEnds(b) ==
    /\ ~BrowserAt(b, "away") /\ listing' = [listing EXCEPT ![b] = Away]
    /\ UNCHANGED <<demand, promised, keyUsed, chain, broken>>

-----------------------------------------------------------------------------
(* handleLive, task 'sync' *)

SyncDelivered(s) ==
    /\ LinkAt(s, "waiting") /\ chain[s].wait = 0
    /\ chain' = [chain EXCEPT ![s] = [at |-> "syncing", left |-> @.left]]
    /\ UNCHANGED <<demand, promised, listing, keyUsed, broken>>

\* sync() returns, whatever the provider said, and hasDemand answers; it
\* answers no when Redis fails.
DemandLooked(s) ==
    /\ LinkAt(s, "syncing")
    /\ \E seen \in {demand, FALSE} :
         /\ chain' = [chain EXCEPT ![s].at = IF seen THEN "wanted" ELSE "ended"]
         /\ broken' = (broken \/ seen # demand)
    /\ UNCHANGED <<demand, promised, listing, keyUsed>>

\* A slip worth ruling out: the window the message itself was for.
LinkAimedAtOnce(s) ==
    /\ LinkAt(s, "wanted")
    /\ chain' = [chain EXCEPT ![s] = [at |-> "aimed", bucket |-> 0, left |-> @.left]]
    /\ UNCHANGED <<demand, promised, listing, keyUsed, broken>>
\* Date.now() + 30 s.
LinkAimed(s) ==
    /\ LinkAt(s, "wanted")
    /\ chain' = [chain EXCEPT ![s] = [at |-> "aimed", bucket |-> 1, left |-> @.left]]
    /\ UNCHANGED <<demand, promised, listing, keyUsed, broken>>
LinkPublished(s) ==
    /\ LinkAt(s, "aimed")
    /\ PublishOnce(chain[s].bucket,
                   [chain EXCEPT ![s] = [at |-> "ended", left |-> @.left]])
    /\ UNCHANGED <<demand, promised, listing, broken>>
LinkAcked(s) == /\ LinkAt(s, "ended") /\ chain' = [chain EXCEPT ![s] = NoLink]
                /\ UNCHANGED <<demand, promised, listing, keyUsed, broken>>

\* A statement or the send fails, or the acknowledgement is lost: delivered
\* again in 10 seconds, once.
LinkFails(s) ==
    /\ chain[s].at \notin {"none", "waiting"}
    /\ IF chain[s].left = 1
       THEN chain' = [chain EXCEPT ![s] = NoLink] /\ broken' = TRUE
       ELSE /\ chain' = [chain EXCEPT ![s] = [at |-> "waiting", wait |-> 0, left |-> @.left - 1]]
            /\ UNCHANGED broken
    /\ UNCHANGED <<demand, promised, listing, keyUsed>>

-----------------------------------------------------------------------------
(* Time *)

\* 10 minutes after the last note; a listing does not last that long.
DemandExpires == /\ demand /\ demand' = FALSE /\ promised' = FALSE
                 /\ \A b \in Browser : listing[b].at \in {"noted", "aimed"} => ~listing[b].told
                 /\ UNCHANGED <<listing, keyUsed, chain, broken>>

\* 30 seconds are over.  Bounds: nothing is published more than one window
\* after its key was computed, and every key of the new one finds a slot.
WindowPasses ==
    /\ Cardinality(UnderWay) + (IF keyUsed[1] THEN 1 ELSE 2) <= Cardinality(ChainSlot)
    /\ \A b \in Browser : BrowserAt(b, "aimed") => listing[b].bucket # 0
    /\ \A s \in ChainSlot : LinkAt(s, "aimed") => chain[s].bucket # 0
    /\ keyUsed' = [k \in Window |-> k = 0 /\ keyUsed[1]]
    /\ listing' = [b \in Browser |->
           IF BrowserAt(b, "aimed") THEN [listing[b] EXCEPT !.bucket = 0] ELSE listing[b]]
    /\ chain' = [s \in ChainSlot |->
           CASE LinkAt(s, "waiting") -> [chain[s] EXCEPT !.wait = 0]
             [] LinkAt(s, "aimed") -> [chain[s] EXCEPT !.bucket = 0]
             [] OTHER -> chain[s]]
    /\ UNCHANGED <<demand, promised, broken>>

ChainNext ==
    \/ \E b \in Browser : \/ Noted(b) \/ ChainAimed(b)
                          \/ ChainEnsured(b) \/ ListingEnds(b)
    \/ \E s \in ChainSlot : \/ SyncDelivered(s) \/ DemandLooked(s) \/ LinkAimed(s)
                            \/ LinkPublished(s) \/ LinkAcked(s) \/ LinkFails(s)
    \/ DemandExpires \/ WindowPasses

ChainSpec == ChainInit /\ [][ChainNext]_chainVars

-----------------------------------------------------------------------------
(* Properties *)

\* live.worker.js: the syncs go on while someone browsed in the last 10
\* minutes.  A listing whose publication a key swallowed relies on a message
\* that has still to look for the demand the listing noted first.
DemandIsChained ==
    demand /\ promised /\ ~broken =>
        \E s \in ChainSlot : chain[s].at \notin {"none", "ended"}
=============================================================================
