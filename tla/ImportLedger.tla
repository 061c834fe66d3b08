----------------------------- MODULE ImportLedger -----------------------------
(***************************************************************************)
(* What committing an import promises: each record of a file (a claim) is  *)
(* bound to one transaction for good, and a batch binds all of its claims  *)
(* or none.  A claim that is bound already must be bound under the same    *)
(* plan to the same economics.                                             *)
(***************************************************************************)
CONSTANTS
    Batches,       \* the batches that may be committed: sequences of items
    Ids            \* transaction ids

VARIABLE bound     \* bindings [claim, plan, economics, id]

Items(batch) == {batch[i] : i \in DOMAIN batch}

Conflicting(item, binding) ==
    /\ binding.claim = item.claim
    /\ binding.plan # item.plan \/ binding.economics # item.economics

\* The items are bound to fresh ids, except those bound before.
Bind(batch) ==
    /\ \A item \in Items(batch), b \in bound : ~Conflicting(item, b)
    /\ \E id \in [{item \in Items(batch) : \A b \in bound : b.claim # item.claim} -> Ids] :
          /\ \A i, j \in DOMAIN id : id[i] = id[j] => i = j
          /\ \A i \in DOMAIN id, b \in bound : id[i] # b.id
          /\ bound' = bound \cup
                {[claim |-> i.claim, plan |-> i.plan,
                  economics |-> i.economics, id |-> id[i]] : i \in DOMAIN id}

Init == bound = {}

Next == \E batch \in Batches : Bind(batch)

Spec == Init /\ [][Next]_bound
=============================================================================
