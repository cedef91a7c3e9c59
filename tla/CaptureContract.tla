--------------------------- MODULE CaptureContract ---------------------------
(***************************************************************************)
(* What the capture queue promises its caller, with no timer, no drain and *)
(* no retry: accepted events are numbered in call order; each is pending   *)
(* until it is delivered or lost, in batches that take the oldest pending  *)
(* events first; the only event lost out of turn is the one evicted by a   *)
(* newer one when at least MaxQueue are pending.                           *)
(***************************************************************************)
EXTENDS Integers, FiniteSets

CONSTANTS MaxQueue, BatchSize

VARIABLES accepted, pending, delivered, lost, open

vars == <<accepted, pending, delivered, lost, open>>

Init ==
    /\ accepted = 0 /\ open = TRUE
    /\ pending = {} /\ delivered = {} /\ lost = {}

(* A nonempty batch of at most BatchSize events, none younger than any left. *)
Oldest(S) ==
    /\ S # {} /\ S \subseteq pending /\ Cardinality(S) <= BatchSize
    /\ \A e \in S, f \in pending \ S : e < f

Accept ==
    /\ open
    /\ accepted' = accepted + 1
    /\ \/ pending' = pending \cup {accepted'} /\ lost' = lost
       \/ \E e \in pending :
            /\ Cardinality(pending) >= MaxQueue
            /\ pending' = (pending \ {e}) \cup {accepted'}
            /\ lost' = lost \cup {e}
    /\ UNCHANGED <<delivered, open>>

Deliver(S) ==
    /\ Oldest(S)
    /\ pending' = pending \ S
    /\ delivered' = delivered \cup S
    /\ UNCHANGED <<accepted, lost, open>>

GiveUp(S) ==
    /\ Oldest(S)
    /\ pending' = pending \ S
    /\ lost' = lost \cup S
    /\ UNCHANGED <<accepted, delivered, open>>

Shut ==
    /\ open' = FALSE
    /\ UNCHANGED <<accepted, pending, delivered, lost>>

Next ==
    \/ Accept \/ Shut
    \/ \E S \in SUBSET pending : Deliver(S) \/ GiveUp(S)

Spec == Init /\ [][Next]_vars
=============================================================================
