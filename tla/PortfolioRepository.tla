------------------------- MODULE PortfolioRepository -------------------------
(***************************************************************************)
(* PortfolioRepository.append_transaction: every call is a sequence of     *)
(* separate requests to the database (the parent rows, the preflight       *)
(* lookups, the insert, and the lookups that explain a refused insert),    *)
(* between which other calls run.  A request may fail, and the answer of   *)
(* an insert that was committed may be lost; the caller may then submit    *)
(* the same transaction again.                                             *)
(*                                                                         *)
(* Rows are never updated or deleted, so looking an identity up and then   *)
(* reading the row it names is one step.                                   *)
(***************************************************************************)
EXTENDS Naturals, FiniteSets

CONSTANTS
    Clients,       \* concurrent callers
    Submissions,   \* the transactions they may submit
    Accounts,      \* account ids, recorded or not
    Buckets,       \* cash buckets: records [account, currency]
    ForeignIds,    \* ids of transactions recorded in other portfolios
    MaxCalls,      \* bound on the calls made
    None

VARIABLES
    rows,          \* portfolio_transactions of the portfolio
    parents,       \* the accounts and buckets recorded so far
    pc,            \* client -> the request it is about to make
    tx,            \* client -> the transaction of its call
    answer,        \* client -> the result of its last call
    possible,      \* client -> answers the ledger would have given (history)
    calls          \* calls made: the system clock advances with each

vars == <<rows, parents, pc, tx, answer, possible, calls>>

Times == 1 .. MaxCalls

Ledger == INSTANCE PortfolioLedger WITH ledger <- rows

\* The rows the table may hold.
Recorded == {Ledger!Stamped(t, n) : t \in Submissions, n \in Times}

ASSUME RepositoryAssumption == MaxCalls \in Nat /\ None \notin Recorded

Idle == {"idle", "done"}

Requests == {"account", "bucket", "id", "external", "target", "reversed",
             "insert", "explainId", "explainExternal", "explainReversed"}

Result(status, id) == [status |-> status, id |-> id]

NoAnswer == Result("NONE", None)

Finish(c, result) ==
    /\ pc' = [pc EXCEPT ![c] = "done"]
    /\ answer' = [answer EXCEPT ![c] = result]
    /\ UNCHANGED <<rows, parents, tx, possible, calls>>

Proceed(c, request) ==
    /\ pc' = [pc EXCEPT ![c] = request]
    /\ UNCHANGED <<rows, parents, tx, answer, possible, calls>>

-----------------------------------------------------------------------------

\* The bucket of a transaction belongs to its account, or to the whole
\* portfolio, and holds its currency.
BucketFits(t) ==
    /\ t.bucket.account \in {None, t.account}
    /\ t.bucket.currency = t.event.currency

Invalid(c) == Result("INVALID", tx[c].id)

\* Answers the call could be given at a moment: the parents come first.
Verdict(L, P, t) ==
    IF \/ t.account \notin P
       \/ t.bucket # None /\ (t.bucket \notin P \/ ~BucketFits(t))
    THEN Result("INVALID", t.id)
    ELSE Ledger!Answer(L, t)

\* possible once the database holds L and P.
Observed(L, P) ==
    [c \in Clients |-> IF pc[c] \in Idle THEN possible[c]
                       ELSE possible[c] \cup {Verdict(L, P, tx[c])}]

\* create_portfolio_account and create_cash_bucket.
CreateParent(p) ==
    /\ p \in (Accounts \cup Buckets) \ parents
    /\ p \in Buckets /\ p.account # None => p.account \in parents
    /\ parents' = parents \cup {p}
    /\ possible' = Observed(rows, parents')
    /\ UNCHANGED <<rows, pc, tx, answer, calls>>

\* The clock is read first; the portfolio itself exists.
Submit(c, t) ==
    /\ pc[c] \in Idle
    /\ calls < MaxCalls
    /\ calls' = calls + 1
    /\ tx' = [tx EXCEPT ![c] = Ledger!Stamped(t, calls + 1)]
    /\ pc' = [pc EXCEPT ![c] = "account"]
    /\ answer' = [answer EXCEPT ![c] = NoAnswer]
    /\ possible' = [possible EXCEPT ![c] = {Verdict(rows, parents, t)}]
    /\ UNCHANGED <<rows, parents>>

CheckAccount(c) ==
    /\ pc[c] = "account"
    /\ IF tx[c].account \notin parents THEN Finish(c, Invalid(c))
       ELSE Proceed(c, IF tx[c].bucket = None THEN "id" ELSE "bucket")

CheckBucket(c) ==
    /\ pc[c] = "bucket"
    /\ IF tx[c].bucket \in parents /\ BucketFits(tx[c]) THEN Proceed(c, "id")
       ELSE Finish(c, Invalid(c))

\* Answer the call from the rows found, or go on.
Identify(c, found, next) ==
    IF found # {}
    THEN Finish(c, Ledger!Compared(tx[c], CHOOSE u \in found : TRUE))
    ELSE Proceed(c, next)

CheckId(c) ==
    /\ pc[c] = "id"
    /\ Identify(c, Ledger!WithId(rows, tx[c].id), "external")

CheckExternal(c) ==
    /\ pc[c] = "external"
    /\ Identify(c, Ledger!WithExternal(rows, tx[c]),
                IF Ledger!IsReversal(tx[c]) THEN "target" ELSE "insert")

CheckTarget(c) ==
    /\ pc[c] = "target"
    /\ IF Ledger!TargetFits(rows, tx[c]) THEN Proceed(c, "reversed")
       ELSE Finish(c, Invalid(c))

CheckReversed(c) ==
    /\ pc[c] = "reversed"
    /\ IF Ledger!ReversalsOf(rows, tx[c].reverses) = {} THEN Proceed(c, "insert")
       ELSE Finish(c, Invalid(c))

-----------------------------------------------------------------------------

\* mutant: the trigger refuses a target that was reversed, before the index does
TriggerRefusesTwice(t) ==
    /\ Ledger!IsReversal(t) => Ledger!Reversible(rows, t)
    /\ t.bucket # None => t.bucket \in parents /\ BucketFits(t)

\* The trigger validate_portfolio_transaction_integrity lets t in.
TriggerAccepts(t) ==
    /\ Ledger!IsReversal(t) => Ledger!TargetFits(rows, t)
    /\ t.bucket # None => t.bucket \in parents /\ BucketFits(t)

\* mutant: without the unique index of reversals
IsUniqueById(t) ==
    /\ t.id \notin ForeignIds
    /\ Ledger!WithId(rows, t.id) = {}
    /\ Ledger!WithExternal(rows, t) = {}

\* The primary key and the two partial unique indexes let t in.
IsUnique(t) ==
    /\ t.id \notin ForeignIds
    /\ Ledger!WithId(rows, t.id) = {}
    /\ Ledger!WithExternal(rows, t) = {}
    /\ Ledger!IsReversal(t) => Ledger!ReversalsOf(rows, t.reverses) = {}

\* The insert is committed; its answer, or that of the read-back, may be lost.
Insert(c) ==
    /\ pc[c] = "insert"
    /\ TriggerAccepts(tx[c])
    /\ IsUnique(tx[c])
    /\ rows' = rows \cup {tx[c]}
    /\ \E status \in {"APPENDED", "FAILED"} :
           answer' = [answer EXCEPT ![c] = Result(status, tx[c].id)]
    /\ pc' = [pc EXCEPT ![c] = "done"]
    /\ possible' = Observed(rows', parents)
    /\ UNCHANGED <<parents, tx, calls>>

\* The trigger runs before the indexes are checked; its exception is raised
\* to the caller, a 23505 is resolved.
InsertRefused(c) ==
    /\ pc[c] = "insert"
    /\ ~(TriggerAccepts(tx[c]) /\ IsUnique(tx[c]))
    /\ IF TriggerAccepts(tx[c]) THEN Proceed(c, "explainId")
       ELSE Finish(c, Result("REJECTED", tx[c].id))

\* _resolve_23505_race
ExplainById(c) ==
    /\ pc[c] = "explainId"
    /\ Identify(c, Ledger!WithId(rows, tx[c].id), "explainExternal")

ExplainByExternal(c) ==
    /\ pc[c] = "explainExternal"
    /\ Identify(c, Ledger!WithExternal(rows, tx[c]), "explainReversed")

ExplainByReversal(c) ==
    /\ pc[c] = "explainReversed"
    /\ IF Ledger!IsReversal(tx[c]) /\ Ledger!ReversalsOf(rows, tx[c].reverses) # {}
       THEN Finish(c, Invalid(c))
       ELSE Finish(c, Result("UNEXPLAINED", tx[c].id))

\* A request fails on the way: the call raises.
RequestFails(c) ==
    /\ pc[c] \in Requests
    /\ Finish(c, Result("FAILED", tx[c].id))

-----------------------------------------------------------------------------

Init ==
    /\ rows = {}
    /\ parents = {}
    /\ pc = [c \in Clients |-> "idle"]
    /\ tx = [c \in Clients |-> None]
    /\ answer = [c \in Clients |-> NoAnswer]
    /\ possible = [c \in Clients |-> {}]
    /\ calls = 0

Next ==
    \/ \E p \in Accounts \cup Buckets : CreateParent(p)
    \/ \E c \in Clients :
          \/ \E t \in Submissions : Submit(c, t)
          \/ CheckAccount(c) \/ CheckBucket(c) \/ CheckId(c) \/ CheckExternal(c)
          \/ CheckTarget(c) \/ CheckReversed(c)
          \/ Insert(c) \/ InsertRefused(c)
          \/ ExplainById(c) \/ ExplainByExternal(c) \/ ExplainByReversal(c)
          \/ RequestFails(c)

Spec == Init /\ [][Next]_vars

-----------------------------------------------------------------------------
\* Every variable keeps its type.
TypeOK ==
    /\ rows \subseteq Recorded
    /\ parents \subseteq Accounts \cup Buckets
    /\ pc \in [Clients -> Idle \cup Requests]
    /\ \A c \in Clients :
          /\ pc[c] = "idle" <=> tx[c] = None
          /\ pc[c] \in Requests => answer[c] = NoAnswer
          /\ \A t \in {tx[c]} \ {None} : Ledger!Stamped(t, 0) \in
                {Ledger!Stamped(u, 0) : u \in Submissions}
    /\ calls \in 0 .. MaxCalls

\* The table is a ledger: whatever the interleaving, a committed insert is one
\* that PortfolioLedger.append would have appended to the rows committed before.
ImplementsLedger == Ledger!Spec

\* The id and the external identity of a transaction name two recorded rows.
TwoIdentities(t) ==
    \E u \in Ledger!WithId(rows, t.id), w \in Ledger!WithExternal(rows, t) : u # w

\* A reversal finds its target reversed after its own identity was recorded,
\* which its preflight has looked up before.
LosesToItsIdentity(t) ==
    /\ Ledger!IsReversal(t) /\ Ledger!ReversalsOf(rows, t.reverses) # {}
    /\ Ledger!WithId(rows, t.id) \cup Ledger!WithExternal(rows, t) # {}

\* The answer to a call is one that the ledger gives at some moment of the call,
\* although its preflight and the resolution of a 23505 read the table at
\* different moments.  Two races escape it: a reversal whose identity is recorded
\* between that lookup and the lookup of its target's reversal is INVALID, against
\* ReplayIsDuplicate below, and a transaction with two identities that were
\* recorded one after the other may see only the second.
AnswersAreLinearizable ==
    \A c \in Clients :
        answer[c].status \in {"APPENDED", "IDEMPOTENT_DUPLICATE", "CONFLICT", "INVALID"} =>
            \/ answer[c] \in possible[c]
            \/ answer[c].status = "INVALID" /\ LosesToItsIdentity(tx[c])
            \/ TwoIdentities(tx[c])

\* An insert is refused only by what its preflight could not see: a race that
\* the lookups after it explain, or an id taken in another portfolio.
RefusalsAreExplained ==
    \A c \in Clients :
        /\ answer[c].status # "REJECTED"
        /\ answer[c].status = "UNEXPLAINED" => tx[c].id \in ForeignIds

\* What a caller is told is explained by the table of a moment of its call, or
\* by a race that the two properties name.
AnswersAreExplained == AnswersAreLinearizable /\ RefusalsAreExplained

\* "Replay of the same external reversal event resolves as `IDEMPOTENT_DUPLICATE`"
\* (docs/PORTFOLIO_LEDGER_DOMAIN.md:72): a reversal whose event is recorded by the
\* time it is answered is not called invalid.
ReplayIsDuplicate ==
    \A c \in Clients :
        answer[c].status = "INVALID" /\ Ledger!IsReversal(tx[c]) =>
            \A p \in possible[c] : p.status # "IDEMPOTENT_DUPLICATE"

=============================================================================
