------------------------- MODULE IdempotentLedger --------------------------
(***************************************************************************)
(* What create_or_get promises: one ledger of idempotency keys per agency. *)
(* A new key is written once, at the end of its agency's ledger, where its *)
(* position is its sequence number; nothing is ever removed or renumbered, *)
(* and a key that is in some ledger is never written again.                *)
(***************************************************************************)
EXTENDS Naturals, Sequences

CONSTANTS Keys, Agencies

VARIABLE ledger

Recorded(k) == \E a \in Agencies : \E n \in DOMAIN ledger[a] : ledger[a][n] = k

Init == ledger = [a \in Agencies |-> <<>>]

Create(k, a) ==
    /\ ~Recorded(k)
    /\ ledger' = [ledger EXCEPT ![a] = Append(@, k)]

Next == \E k \in Keys, a \in Agencies : Create(k, a)

Spec == Init /\ [][Next]_ledger

=============================================================================
