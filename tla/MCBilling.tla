----------------------------- MODULE MCBilling -----------------------------
(* Small histories for Billing: one user, who may check out under two Paddle *)
(* customers, and two webhook requests at a time.                            *)
EXTENDS Billing, TLC

CONSTANTS u1, c1, c2, s1, s2

Event(type, status, cancel, c) ==
    [type |-> type, customer |-> c, user |-> u1, status |-> status, scheduledCancel |-> cancel]

\* Upgrade, cancellation at the end of the period, the end of the period, a checkout
\* as another customer, and a new subscription of the first customer.
MCHistory == <<
    Event("subscription.created", "active", FALSE, c1),
    Event("subscription.canceled", "canceled", TRUE, c1),
    Event("subscription.updated", "canceled", FALSE, c1),
    Event("subscription.created", "active", FALSE, c2),
    Event("subscription.created", "trialing", FALSE, c1)>>

\* Liveness: an upgrade and its receipt.
LiveHistory == <<
    Event("subscription.created", "active", FALSE, c1),
    Event("transaction.completed", "active", FALSE, c1)>>

MCUsers == {u1}
MCCustomers == {c1, c2}
MCSlots == {s1, s2}

SlotSymmetry == Permutations(MCSlots)
=============================================================================
