------------------------ MODULE AdvertisementLedger ------------------------
(***************************************************************************)
(* What the gateway promises about the advertisements the scanner hands    *)
(* it, whatever buffers and threads sit in between: each one is held by    *)
(* the gateway from the moment it is heard until it is either posted to    *)
(* Signal K or dropped, it leaves once, and the three public counters      *)
(* advertisements_received(), _posted() and _dropped() account for it.     *)
(*                                                                         *)
(* An advertisement is named by its position in the order of reception.    *)
(***************************************************************************)
EXTENDS Naturals, FiniteSets

CONSTANT MaxReceived  \* bound on the number of advertisements heard

VARIABLES received,   \* value of adv_received_count_
          posted,     \* value of adv_posted_count_
          dropped,    \* value of adv_dropped_count_
          held        \* the advertisements not yet posted or dropped

ledgerVars == <<received, posted, dropped, held>>

LedgerInit ==
    /\ received = 0
    /\ posted = 0
    /\ dropped = 0
    /\ held = {}

Hear ==
    /\ received < MaxReceived
    /\ received' = received + 1
    /\ held' = held \cup {received'}
    /\ UNCHANGED <<posted, dropped>>

\* The server accepted a batch made of the advertisements in S.
Deliver(S) ==
    /\ held' = held \ S
    /\ posted' = posted + Cardinality(S)
    /\ UNCHANGED <<received, dropped>>

\* The gateway gives up on the advertisements in S.
Discard(S) ==
    /\ held' = held \ S
    /\ dropped' = dropped + Cardinality(S)
    /\ UNCHANGED <<received, posted>>

LedgerNext ==
    \/ Hear
    \/ \E S \in SUBSET held : Deliver(S) \/ Discard(S)

LedgerSpec == LedgerInit /\ [][LedgerNext]_ledgerVars
=============================================================================
