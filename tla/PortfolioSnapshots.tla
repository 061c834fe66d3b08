-------------------------- MODULE PortfolioSnapshots --------------------------
(***************************************************************************)
(* PortfolioAccountingQueryService against concurrent writers.  A snapshot *)
(* fixes its cutoff, lists the table page by page with an offset, and      *)
(* projects what it listed; the history-coverage proof then compares the   *)
(* projection with the rows the database holds under a table lock.         *)
(*                                                                         *)
(* A writer is what PortfolioRepository.append_transaction is to a reader: *)
(* it reads the clock when the call begins and commits the row, stamped    *)
(* with that time, some time later or never.                               *)
(*                                                                         *)
(* Transactions are those of PortfolioLedger; an event is a record         *)
(*    [type, instrument, quantity, price,                                  *)
(*     currency, amount, toCurrency, toAmount].                            *)
(* The accounting view selects what was known at a cutoff and resolves     *)
(* reversals; the positions and the cash add up what is active; each of    *)
(* the three refuses a history it cannot account for.                      *)
(***************************************************************************)
EXTENDS Integers, FiniteSets, SequencesExt

CONSTANTS
    Submissions,   \* transactions that may be submitted; ids are numbers
    PageSize,      \* PAGE_SIZE of list_transactions
    MaxTime,       \* bound on the clock
    MaxAppends,    \* bound on rows and calls together
    None

-----------------------------------------------------------------------------

Reverses(R, t) == R.event.type = "REVERSAL" /\ R.reverses = t.id

\* The rows of a list recorded at or before the cutoff.
KnownIn(L, cutoff) == {t \in L : t.recorded <= cutoff}

\* A list that names an id or an external identity twice.
HasDuplicates(list) ==
    \E i, j \in DOMAIN list :
        /\ i # j
        /\ \/ list[i].id = list[j].id
           \/ /\ list[i].external # None
              /\ list[i].external = list[j].external
              /\ list[i].account = list[j].account

\* A reversal the known history cannot resolve.
Unresolved(K, R) ==
    /\ R.event.type = "REVERSAL"
    /\ \/ ~\E t \in K : Reverses(R, t) /\ t.account = R.account
                        /\ t.event.type # "REVERSAL"
       \/ \E S \in K \ {R} : S.event.type = "REVERSAL" /\ S.reverses = R.reverses

\* mutant: a reversed transaction stays active
ActiveWithReversed(K) == {t \in K : t.event.type # "REVERSAL"}

ActiveIn(K) ==
    {t \in K : t.event.type # "REVERSAL" /\ ~\E R \in K : Reverses(R, t)}

QuantityChange(t) ==
    CASE t.event.type = "BUY" -> t.event.quantity
      [] t.event.type = "SELL" -> -t.event.quantity
      [] OTHER -> 0

PositionKeys(A) ==
    {<<t.account, t.event.instrument>> :
        t \in {u \in A : u.event.type \in {"BUY", "SELL"}}}

\* (account, instrument) -> net quantity; a closed position stays as 0.
Positions(A) ==
    [k \in PositionKeys(A) |->
        MapThenSumSet(QuantityChange,
                      {t \in A : <<t.account, t.event.instrument>> = k})]

Credits == {"CASH_DEPOSIT", "DIVIDEND", "INTEREST"}

\* What t adds to the cash held in a currency.
CashChange(t, currency) ==
    LET e == t.event
        own == CASE e.type = "BUY" -> -(e.quantity * e.price)
                 [] e.type = "SELL" -> e.quantity * e.price
                 [] e.type \in Credits -> e.amount
                 [] OTHER -> -e.amount
    IN  (IF e.currency = currency THEN own ELSE 0)
          + (IF e.toCurrency = currency THEN e.toAmount ELSE 0)

CashKeys(A) ==
    UNION {{t.account} \X ({t.event.currency, t.event.toCurrency} \ {None}) : t \in A}

\* (account, currency) -> net balance.
Cash(A) ==
    [k \in CashKeys(A) |->
        MapThenSumSet(LAMBDA t : CashChange(t, k[2]),
                      {t \in A : t.account = k[1]})]

Negative(f) == \E k \in DOMAIN f : f[k] < 0

-----------------------------------------------------------------------------

\* PortfolioAccountingSnapshot of a listed history, or the error that refuses it.
Snapshot(list, cutoff) ==
    LET K == KnownIn({list[i] : i \in DOMAIN list}, cutoff)
        A == ActiveIn(K)
        error == CASE HasDuplicates(list) -> "DUPLICATE"
                   [] ~HasDuplicates(list) /\ (\E R \in K : Unresolved(K, R)) ->
                          "UNRESOLVED_REVERSAL"
                   [] OTHER ->
                          CASE Negative(Positions(A)) -> "SHORT_POSITION"
                            [] ~Negative(Positions(A)) /\ Negative(Cash(A)) -> "OVERDRAFT"
                            [] OTHER -> "NONE"
    IN  [error |-> error, known |-> K, active |-> A,
         positions |-> IF error = "NONE" THEN Positions(A) ELSE <<>>,
         cash |-> IF error = "NONE" THEN Cash(A) ELSE <<>>]

-----------------------------------------------------------------------------

VARIABLES
    rows,          \* committed transactions
    inFlight,      \* stamped transactions whose calls have not ended
    now,           \* the clock
    stage,         \* of the query: idle, listing, projected, verified, mismatch
    cutoff,        \* its knowledge cutoff
    list,          \* the rows it has read so far
    snapshot,      \* its result
    seen           \* the writers and the time when the table was last read (history)

vars == <<rows, inFlight, now, stage, cutoff, list, snapshot, seen>>

query == <<stage, cutoff, list, snapshot, seen>>

Ledger == INSTANCE PortfolioLedger WITH Times <- 0 .. MaxTime, ledger <- rows

NoSnapshot == Snapshot(<<>>, 0)

-----------------------------------------------------------------------------

Tick ==
    /\ now < MaxTime
    /\ now' = now + 1
    /\ UNCHANGED <<rows, inFlight, query>>

BeginAppend(t) ==
    /\ Cardinality(rows \cup inFlight) < MaxAppends
    /\ t.id \notin {u.id : u \in rows \cup inFlight}
    /\ inFlight' = inFlight \cup {Ledger!Stamped(t, now)}
    /\ UNCHANGED <<rows, now, query>>

CommitAppend(t) ==
    /\ Ledger!Append(t)
    /\ inFlight' = inFlight \ {t}
    /\ UNCHANGED <<now, query>>

\* The call is refused, or fails before its insert.
AbandonAppend(t) ==
    /\ inFlight' = inFlight \ {t}
    /\ UNCHANGED <<rows, now, query>>

-----------------------------------------------------------------------------

\* get_current_snapshot takes the clock's time, get_snapshot_as_of any time.
\* Queries keep nothing from one another, so one of them is followed.
StartQuery(time) ==
    /\ stage = "idle"
    /\ stage' = "listing"
    /\ cutoff' = time
    /\ UNCHANGED <<rows, inFlight, now, list, snapshot, seen>>

Earlier(t, u) ==
    t.recorded < u.recorded \/ (t.recorded = u.recorded /\ t.id < u.id)

\* The table in the order the pages are read in.
Ordered(R) ==
    CHOOSE s \in [1 .. Cardinality(R) -> R] :
        \A i, j \in DOMAIN s : i < j => Earlier(s[i], s[j])

Page(R, offset) == SubSeq(Ordered(R), offset + 1, Min({offset + PageSize, Cardinality(R)}))

ObservedNow == [writers |-> inFlight, time |-> now]

ReadPage ==
    /\ stage = "listing"
    /\ LET page == Page(rows, Len(list)) IN
         /\ list' = list \o page
         /\ IF page # <<>> THEN UNCHANGED <<stage, snapshot, seen>>
            ELSE /\ stage' = "projected"
                 /\ snapshot' = Snapshot(list, cutoff)
                 /\ seen' = ObservedNow
    /\ UNCHANGED <<rows, inFlight, now, cutoff>>

\* The manifest of rows up to the cutoff equals the projection's known rows.
Covered == KnownIn(rows, cutoff) = snapshot.known

\* verify_projection_history: one locked read of the table; a cutoff later than
\* the observation is refused.
VerifyCoverage ==
    /\ stage = "projected"
    /\ snapshot.error \in {"NONE", "SHORT_POSITION", "OVERDRAFT"}
    /\ cutoff <= now
    /\ stage' = IF Covered THEN "verified" ELSE "mismatch"
    /\ seen' = ObservedNow
    /\ UNCHANGED <<rows, inFlight, now, cutoff, list, snapshot>>

-----------------------------------------------------------------------------

Init ==
    /\ rows = {} /\ inFlight = {} /\ now = 0
    /\ stage = "idle" /\ cutoff = 0 /\ list = <<>>
    /\ seen = ObservedNow
    /\ snapshot = NoSnapshot

Next ==
    \/ Tick
    \/ \E t \in Submissions : BeginAppend(t)
    \/ \E t \in inFlight : CommitAppend(t) \/ AbandonAppend(t)
    \/ \E time \in 0 .. now : StartQuery(time)
    \/ ReadPage
    \/ VerifyCoverage

Spec == Init /\ [][Next]_vars

-----------------------------------------------------------------------------

\* Every variable keeps its type, and the snapshot is that of the query.
TypeOK ==
    /\ \A t \in rows \cup inFlight : t.recorded \in 0 .. now
    /\ stage \in {"idle", "listing", "projected", "verified", "mismatch"}
    /\ stage \in {"idle", "listing"} => snapshot = NoSnapshot
    /\ seen.time \in 0 .. now
    /\ cutoff \in 0 .. now
    /\ \A i \in DOMAIN list : list[i] \in rows

\* Paging by offset over a table that grows may read a row twice, never lose one:
\* a snapshot that is not refused holds every row up to the cutoff, except those
\* whose calls had not committed when the table was last read.  After the
\* coverage proof that moment is the proof.
MissesOnlyUncommitted ==
    stage \in {"projected", "verified"} /\ snapshot.error # "DUPLICATE" =>
        \A t \in rows \ snapshot.known :
            \/ t.recorded > cutoff
            \/ t \in seen.writers
            \/ t.recorded >= seen.time

\* A history is refused as corrupt only when a page repeated a row, or when a
\* reversal was stamped before the transaction it reverses was and the cutoff
\* falls between the two.
CorruptionHasCause ==
    /\ snapshot.error = "DUPLICATE" => Len(list) > Cardinality(ToSet(list))
    /\ snapshot.error = "UNRESOLVED_REVERSAL" =>
           \E R, t \in rows : Reverses(R, t) /\ R.recorded <= cutoff /\ cutoff < t.recorded

\* A reversal undoes its target: with both or with neither the accounts agree.
ReversalUndoes ==
    \A R, t \in rows : Reverses(R, t) =>
        LET with == ActiveIn(rows)
            without == ActiveIn(rows \ {R, t})
        IN  Positions(with) = Positions(without) /\ Cash(with) = Cash(without)

-----------------------------------------------------------------------------
(***************************************************************************)
(* What the proofs assume of the constants: bounds are numbers, a page is  *)
(* not empty, and ids are numbers, for pages need an order.                *)
(***************************************************************************)
SnapshotConstants ==
    /\ PageSize \in Nat \ {0} /\ MaxTime \in Nat
    /\ \A t \in Submissions : t.id \in Nat

-----------------------------------------------------------------------------
(* The inductive invariant.                                                *)

(* What the ledger's append keeps of the rows: their identities, and that  *)
(* a reversal has a target of its own.                                     *)
LedgerOK ==
    /\ IsFiniteSet(rows)
    /\ \A t \in rows \cup inFlight : t.id \in Nat /\ t.recorded \in 0 .. now
    /\ \A t, u \in rows \cup inFlight : t.id = u.id => t = u
    /\ \A t, u \in rows : Ledger!SameExternal(t, u) => t = u
    /\ \A R \in rows : Ledger!IsReversal(R) => Ledger!TargetFits(rows, R)
    /\ \A R, S \in rows :
          Ledger!IsReversal(R) /\ Ledger!IsReversal(S) /\ R.reverses = S.reverses => R = S

(* A query lists rows, and what it has made of them is final.              *)
QueryOK ==
    /\ stage \in {"idle", "listing", "projected", "verified", "mismatch"}
    /\ cutoff \in 0 .. now /\ seen.time \in 0 .. now /\ list \in Seq(rows)
    /\ snapshot = IF stage \in {"idle", "listing"} THEN NoSnapshot ELSE Snapshot(list, cutoff)

(* Who is still to commit was seen writing, or began after that.           *)
WritersSeen == \A t \in inFlight : t \in seen.writers \/ t.recorded >= seen.time

TargetStampedLater ==
    snapshot.error = "UNRESOLVED_REVERSAL" =>
        \E R, t \in rows : Reverses(R, t) /\ R.recorded <= cutoff /\ cutoff < t.recorded

Inv ==
    /\ now \in 0 .. MaxTime /\ LedgerOK /\ QueryOK
    /\ WritersSeen /\ MissesOnlyUncommitted /\ TargetStampedLater

=============================================================================
