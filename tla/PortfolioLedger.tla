--------------------------- MODULE PortfolioLedger ---------------------------
(***************************************************************************)
(* What the ledger of one portfolio promises: transactions are only ever   *)
(* appended, and PortfolioLedger.append decides each one against what is   *)
(* already recorded.                                                       *)
(*                                                                         *)
(* A transaction is a record                                               *)
(*    [id, account, bucket, event, external, reverses, recorded]           *)
(* whose event holds its economics (event.type is the transaction type),   *)
(* whose external identity is the normalised pair of source and reference, *)
(* and whose absent fields are None.                                       *)
(***************************************************************************)
CONSTANTS
    Submissions,   \* the transactions a caller may submit
    Times,         \* the values recorded_at takes
    None           \* an absent optional field

VARIABLE ledger    \* the recorded transactions

IsReversal(t) == t.event.type = "REVERSAL"

\* t as it is recorded at the time of the system clock.
Stamped(t, time) ==
    [id |-> t.id, account |-> t.account, bucket |-> t.bucket, event |-> t.event,
     external |-> t.external, reverses |-> t.reverses, recorded |-> time]

\* The economic fingerprint leaves out the physical id and the recording time.
Fingerprint(t) == <<t.account, t.bucket, t.event, t.external, t.reverses>>

SameExternal(t, u) ==
    /\ t.external # None
    /\ t.external = u.external
    /\ t.account = u.account

WithId(L, i) == {u \in L : u.id = i}

WithExternal(L, t) == {u \in L : SameExternal(t, u)}

ReversalsOf(L, i) == {u \in L : IsReversal(u) /\ u.reverses = i}

\* The answer to a submission that was recorded before as u.
Compared(t, u) ==
    IF Fingerprint(u) = Fingerprint(t)
    THEN [status |-> "IDEMPOTENT_DUPLICATE", id |-> u.id]
    ELSE [status |-> "CONFLICT", id |-> t.id]

\* A reversal names a recorded transaction of its account that is neither a
\* reversal nor reversed.
TargetFits(L, t) ==
    \E u \in WithId(L, t.reverses) : u.account = t.account /\ ~IsReversal(u)

Reversible(L, t) == TargetFits(L, t) /\ ReversalsOf(L, t.reverses) = {}

Answer(L, t) ==
    CASE WithId(L, t.id) # {} ->
             Compared(t, CHOOSE u \in WithId(L, t.id) : TRUE)
      [] WithId(L, t.id) = {} /\ WithExternal(L, t) # {} ->
             Compared(t, CHOOSE u \in WithExternal(L, t) : TRUE)
      [] OTHER ->
             [status |-> IF IsReversal(t) /\ ~Reversible(L, t)
                         THEN "INVALID" ELSE "APPENDED",
              id |-> t.id]

Append(t) ==
    /\ Answer(ledger, t).status = "APPENDED"
    /\ ledger' = ledger \cup {t}

Init == ledger = {}

Next == \E t \in Submissions, time \in Times : Append(Stamped(t, time))

Spec == Init /\ [][Next]_ledger
=============================================================================
