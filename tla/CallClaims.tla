----------------------------- MODULE CallClaims -----------------------------
(***************************************************************************)
(* What comments and documents of the repository say of paid calls and the *)
(* code does not do.  Each property is refuted by a run of its own.        *)
(***************************************************************************)
EXTENDS MCCallBilling

Answered(c) == status[c] \in {"active", "ended"}

\* A listener marked busy is in a live call: nothing that ends a call leaves
\* them "permanently marked busy" (billing.engine.js:276-277).  POST
\* /safety/block ends the call and does not free the listener.
BusyListenerInLiveCall ==
    \A l \in Listener : busy[l] =>
        \E c \in Call : Live(c) /\ party[c].listener = l

\* Handlers are idempotent, so a redelivered tick of a minute that is already
\* paid changes nothing (jobs/index.js:12-14).  settleTick debits before it
\* inserts the tick row, so a caller who can pay no second time is cut off.
PaidMinuteNeverForceEnds ==
    \A w \in Worker :
        at[w] = "force" => job[w].minute \notin ticks[job[w].call]

\* A tick that finds the lock held may skip its minute because the holder does
\* the same work (billing.engine.js:135-136): when a minute is billed, every
\* earlier one whose message is gone from the queue has been billed too.
NoMinutePassedOver ==
    \A c \in Call : \A m \in ticks[c] : acked[c] \cap (1 .. m) \subseteq ticks[c]

\* The free seconds are for the first call only (constants.js:49), and are
\* burned on answering so that they cannot be farmed (calls.service.js:169).
TrialOnOneCall ==
    \A c, d \in Call :
        /\ Answered(c) /\ party[c].free
        /\ Answered(d) /\ party[d].free
        /\ party[c].caller = party[d].caller
        => c = d

\* "Neither party can reach the other afterwards" (safety.routes.js:65-67): no
\* call is live between a pair with a block.
BlockedPairApart ==
    \A c \in Call : Live(c) => ~Blocked(party[c].caller, party[c].listener)
=============================================================================
