---------------------------- MODULE MCPortfolio -----------------------------
(* The portfolio, from the bytes of a broker's file to the snapshots read  *)
(* back; a behaviour follows one of seven parts:                           *)
(*   "csv"          the bytes of a file become records (CsvRecords);       *)
(*   "shapes"       a row is taken to draft, model and table               *)
(*                  (the rules of ImportPipeline);                         *)
(*   "files"        whole files are executed and retried (ImportPipeline); *)
(*   "imports"      batches of claims are committed (ImportCommit);        *)
(*   "ledger"       transactions are appended (PortfolioRepository);       *)
(*   "snapshots"    the table is read as of a cutoff (PortfolioSnapshots); *)
(*   "attributions" fees and taxes are allocated (FeeTaxAttribution).      *)
(* Two neighbours meet in an abstract specification: PortfolioLedger under *)
(* the writer and the reader of the table, ImportLedger under the files    *)
(* and the commits.                                                        *)
EXTENDS PortfolioRepository, SequencesExt, TLC

CONSTANTS
  c1, c2, acct,
  Files, Candidates, NoRef, TransactionIds,   \* of ImportPipeline
  Entries, PageSize, MaxTime, MaxAppends      \* of PortfolioSnapshots

VARIABLES
  part, row,
  content, at, start, style, lines, outcome,            \* of CsvRecords
  bound, revision, executions, last,                    \* of ImportPipeline
  transactions, bindings, importPc, batch, next, uncommitted, importStatus,
  importResult, importCall, importCalls,                \* of ImportCommit
  committed, inFlight, now, stage, cutoff, list, snapshot, seen, \* of PortfolioSnapshots
  clock, booked, reversed, events, workPc, command, stamp, active, want,
  held, open, workAnswer, answers, workCalls            \* of FeeTaxAttribution

csvVars == <<content, at, start, style, lines, outcome>>
fileVars == <<bound, revision, executions, last>>
importVars == <<transactions, bindings, importPc, batch, next, uncommitted,
                importStatus, importResult, importCall, importCalls>>
snapshotVars == <<committed, inFlight, now, stage, cutoff, list, snapshot, seen>>
workVars == <<clock, booked, reversed, events, workPc, command, stamp, active,
              want, held, open, workAnswer, answers, workCalls>>
portfolioVars == <<part, row, csvVars, fileVars, importVars, vars, snapshotVars, workVars>>

ClientSymmetry == Permutations({c1, c2})

-----------------------------------------------------------------------------
(* A broker's file: every sequence of a few bytes.                         *)

Contents == BoundedSeq({"LF", "CR", "QUOTE", "COMMA", "TEXT"}, 6) \ {<<>>}

Csv == INSTANCE CsvRecords WITH MaxRecord <- 5, MaxRecords <- 2, MaxColumns <- 2

-----------------------------------------------------------------------------
(* Files with purchases, a dividend, a deposit and rows that are rejected, *)
(* and three resolvers: one knows both instruments, a later one takes one  *)
(* of them for another, and a third finds two candidates for it.           *)

Line(type, present, ref) ==
  [ type |-> type, present |-> present, bad |-> {}, distinct |-> TRUE,
    lexical |-> FALSE, ref |-> ref ]

TradeFields == {"quantity", "unit_price", "trade_currency", "instrument"}
CashFields == {"cash_amount", "cash_currency"}
Buys(ref) == Line("buy", TradeFields, ref)
Deposits == Line("cash_deposit", CashFields, "none")
Dividend(ref) == Line("dividend", CashFields \cup {"instrument"}, ref)
Unreadable == [Deposits EXCEPT !.lexical = TRUE]
Unpriced == Line("buy", TradeFields \ {"unit_price"}, "acme")

File(name, header, records) == [name |-> name, header |-> header, rows |-> records]

BrokerFiles ==
  {File("plain", "canonical", <<Deposits, Buys("acme")>>),
   File("mixed", "canonical", <<Unpriced, Dividend("other"), Unreadable>>),
   File("cash", "canonical", <<Deposits>>),
   File("rejected", "canonical", <<Unreadable>>),
   File("empty", "canonical", <<>>),
   File("bare", "other", <<>>),
   File("foreign", "other", <<Deposits>>)}

Resolvers ==
  <<[acme |-> {"A"}, other |-> {"O"}, none |-> {}],
    [acme |-> {"B"}, other |-> {}, none |-> {}],
    [acme |-> {"A", "B"}, other |-> {"O"}, none |-> {}]>>

Pipeline == INSTANCE ImportPipeline WITH calls <- executions

(* Every row that is nearly right: one family of fields, short of one of   *)
(* them or with one of another family, and the optional ones.              *)
Families == {Pipeline!Trade, Pipeline!Cash, Pipeline!Fx, {}}
Optional == {"instrument", "bucket", "reverses"}
AtMostOne == {{}} \cup {{f} : f \in Pipeline!Fields}

NearlyRight ==
  {(family \ less) \cup more \cup some :
     family \in Families, less \in AtMostOne, more \in AtMostOne, some \in SUBSET Optional}

SomeRow ==
  \E type \in Pipeline!Types, present \in NearlyRight, distinct \in BOOLEAN :
    \E bad \in {{}} \cup {{f} : f \in Pipeline!Amounts \cap present} :
      row = [type |-> type, present |-> present, bad |-> bad, distinct |-> distinct]

-----------------------------------------------------------------------------
(* Files with two records, imported by clients that may take a record for  *)
(* another plan or for other economics.                                    *)

Item(claim, account, plan, economics) ==
  [claim |-> claim, account |-> account, plan |-> plan, economics |-> economics]

Commits == INSTANCE ImportCommit WITH
  Clients <- {c1, c2}, Accounts <- {"known"}, MaxCalls <- 3,
  Batches <-
    {{}, {Item(1, "known", 1, 1), Item(2, "known", 1, 1)},
     {Item(2, "known", 2, 1), Item(3, "known", 1, 1)},
     {Item(1, "known", 1, 2), Item(2, "known", 1, 1)},
     {Item(1, "known", 1, 1), Item(2, "unknown", 1, 1)}},
  pc <- importPc, rows <- uncommitted, status <- importStatus,
  result <- importResult, call <- importCall, calls <- importCalls

-----------------------------------------------------------------------------
(* A deposit, another event under its external identity, its id for        *)
(* another event; the reversal of the deposit, its replay under a new id,  *)
(* a second reversal and the reversal of a reversal; an id of another      *)
(* portfolio.                                                              *)

Bucket == [name |-> "b", account |-> acct, currency |-> "usd"]
Paid(n) == [type |-> "CASH_DEPOSIT", currency |-> "usd", amount |-> n]
Reversed == [type |-> "REVERSAL", currency |-> None, amount |-> None]

Submission(id, bucket, event, external, reverses) ==
  [ id |-> id, account |-> acct, bucket |-> bucket, event |-> event,
    external |-> external, reverses |-> reverses, recorded |-> 0 ]

TheBuckets == {Bucket}

TheSubmissions ==
    {Submission("t1", None, Paid(1), "e1", None),
     Submission("t3", Bucket, Paid(2), "e1", None),
     Submission("t1", None, Paid(2), None, None),
     Submission("r1", None, Reversed, "e2", "t1"),
     Submission("r2", None, Reversed, "e2", "t1"),
     Submission("r3", None, Reversed, None, "t1"),
     Submission("r3", None, Reversed, None, "r1"),
     Submission("f1", None, Paid(1), None, None)}

-----------------------------------------------------------------------------
(* A sale, the exchange of its proceeds, the purchase they pay for and the *)
(* reversal of the purchase, read page by page: only together do they      *)
(* leave neither a short position nor an overdraft.                        *)

Event(type, quantity, price, currency, amount, toCurrency, toAmount) ==
  [ type |-> type, instrument |-> IF type \in {"BUY", "SELL"} THEN "acme" ELSE None,
    quantity |-> quantity, price |-> price, currency |-> currency,
    amount |-> amount, toCurrency |-> toCurrency, toAmount |-> toAmount ]

Stored(id, event, reverses) ==
  [ id |-> id, account |-> acct, bucket |-> None, event |-> event,
    external |-> None, reverses |-> reverses, recorded |-> 0 ]

TheEntries ==
    {Stored(1, Event("SELL", 1, 3, "usd", 0, None, 0), None),
     Stored(2, Event("FX_CONVERSION", 0, 0, "usd", 2, "eur", 3), None),
     Stored(3, Event("BUY", 2, 1, "eur", 0, None, 0), None),
     Stored(4, Event("REVERSAL", 0, 0, None, 0, None, 0), 3)}

Snapshots == INSTANCE PortfolioSnapshots WITH Submissions <- Entries, rows <- committed

-----------------------------------------------------------------------------
(* A fee of 2, two purchases of its account, one recorded during the run,  *)
(* and one of another account.  Two allocations do not fit together, one   *)
(* id is used for two, one allocation is reversed twice.                   *)

Allocation(id, target, amount) ==
  [id |-> id, kind |-> "allocate", charge |-> "fee", target |-> target, amount |-> amount]

Withdraw(id, allocation) == [id |-> id, kind |-> "reverse", reverses |-> allocation]

Undo(transaction) == [id |-> "undo", kind |-> "undo", tx |-> transaction]

Work == INSTANCE FeeTaxAttribution WITH
  Workers <- {c1, c2}, Charges <- {"fee"}, Targets <- {"buy", "next", "other"},
  Cash <- [fee |-> 2], AccountOf <- [fee |-> 1, buy |-> 1, next |-> 1, other |-> 2],
  Booked <- {"fee", "buy", "other"}, MaxTime <- 2, Never <- 3, MaxCalls <- 3,
  Commands <-
    {Allocation("a", "buy", 2), Allocation("b", "next", 1), Allocation("a", "other", 1),
     Withdraw("r", "a"), Withdraw("s", "a"), Undo("fee"), Undo("buy")},
  pc <- workPc, seen <- active, result <- workAnswer, calls <- workCalls

-----------------------------------------------------------------------------
(* What the proofs assume of the constants of the parts.                   *)
ASSUME CommitAssumption == Commits!CommitConstants
ASSUME PipelineAssumption == Pipeline!PipelineConstants
ASSUME SnapshotAssumption == Snapshots!SnapshotConstants
ASSUME AttributionAssumption == Work!AttributionConstants

PortfolioInit ==
  /\ part \in {"csv", "shapes", "files", "imports", "ledger", "snapshots", "attributions"}
  /\ IF part = "shapes" THEN SomeRow ELSE row = None
  /\ part # "csv" => content = <<"TEXT">>
  /\ part # "files" => revision = 1
  /\ Csv!Init /\ Pipeline!Init /\ Commits!Init /\ Init
  /\ Snapshots!Init /\ Work!Init

PortfolioNext ==
  \/ /\ part = "csv" /\ Csv!Next
     /\ UNCHANGED <<part, row, fileVars, importVars, vars, snapshotVars, workVars>>
  \/ /\ part = "files" /\ Pipeline!Next
     /\ UNCHANGED <<part, row, csvVars, importVars, vars, snapshotVars, workVars>>
  \/ /\ part = "imports" /\ Commits!Next
     /\ UNCHANGED <<part, row, csvVars, fileVars, vars, snapshotVars, workVars>>
  \/ /\ part = "ledger" /\ Next
     /\ UNCHANGED <<part, row, csvVars, fileVars, importVars, snapshotVars, workVars>>
  \/ /\ part = "snapshots" /\ Snapshots!Next
     /\ UNCHANGED <<part, row, csvVars, fileVars, importVars, vars, workVars>>
  \/ /\ part = "attributions" /\ Work!Next
     /\ UNCHANGED <<part, row, csvVars, fileVars, importVars, vars, snapshotVars>>

PortfolioSpec == PortfolioInit /\ [][PortfolioNext]_portfolioVars

-----------------------------------------------------------------------------
(* The lines and cells of an accepted file are its bytes and its fields,   *)
(* whatever newlines and quotes it holds: no amount is read from another   *)
(* column or another record (import_csv.py).                               *)
RecordsAreTheFile ==
  part = "csv" => Csv!TypeOK /\ Csv!LinesAreTheFile /\ Csv!CellsAreFields

(* What a transaction of each type carries is written three times: in the  *)
(* import draft, in the model and in migration 011.  A row assessed ready  *)
(* is never refused later, which would fail its whole batch, and every row *)
(* the table may hold can be read back, or no later reading would succeed. *)
RowRulesAgree ==
  /\ Pipeline!DraftAccepts(row) => Pipeline!ModelAccepts(row)
  /\ Pipeline!ModelAccepts(row) <=> Pipeline!DatabaseAccepts(row)

(* A file is booked as a whole or not at all, only with sound rows, as its *)
(* preview said; a conflict is only reported where another plan holds its  *)
(* claims, and no stage refuses what the stage before it made.             *)
FilesAreAllOrNothing ==
  /\ part = "shapes" => RowRulesAgree
  /\ part = "files" =>
       /\ Pipeline!TypeOK /\ Pipeline!FilesAreAllOrNothing /\ Pipeline!BookedRowsAreSound
       /\ Pipeline!ConflictHasCause /\ Pipeline!PreviewAgrees /\ Pipeline!StagesFitTogether

(* What an importer is told is what the tables of some moment of its call  *)
(* would have answered, and no transaction is left without its binding     *)
(* (repository.py:844-885, migration 017).                                 *)
AnswersMatchTables ==
  /\ part = "imports" =>
       Commits!TypeOK /\ Commits!EveryTransactionIsBound /\ Commits!AnswersMatchTables
  /\ part = "ledger" => TypeOK

(* A snapshot misses only what was not committed when it was read, is only *)
(* refused for a cause, and a reversal undoes exactly its target           *)
(* (projection.py).                                                        *)
SnapshotsAreTrue ==
  part = "snapshots" =>
    /\ Snapshots!TypeOK /\ Snapshots!MissesOnlyUncommitted /\ Snapshots!CorruptionHasCause
    /\ Snapshots!ReversalUndoes

(* At no cutoff is more of a fee allocated than it was, or allocated to    *)
(* what was not active; the history can always be read, and an answer      *)
(* names events that are stored.                                           *)
NeverOverAllocatedAtAnyCutoff ==
  part = "attributions" =>
    /\ Work!TypeOK /\ Work!NeverOverAllocatedAtAnyCutoff /\ Work!AllocatedWhileActive
    /\ Work!HistoryNeverRaises /\ Work!ViewFailureHasCause /\ Work!AnswersAreStored

(* No cycle of sessions that wait for each other's rows: PostgreSQL never  *)
(* has to abort one of them.                                               *)
NoWaitCycle ==
  /\ part = "imports" => Commits!NoWaitCycle
  /\ part = "attributions" => Work!NoWaitCycle

Moves(name, tables) == part = name /\ tables' # tables

(* Batches and whole files bind their claims at once or not at all, as     *)
(* both need of each other, and what was allocated as of a past cutoff     *)
(* never changes.                                                          *)
TablesImplementLedgers ==
  /\ Commits!Imports!Init /\ Pipeline!Ledger!Init
  /\ [][Moves("imports", <<transactions, bindings>>) => Commits!Imports!Next]_<<transactions, bindings>>
  /\ [][Moves("files", bound) => Pipeline!Ledger!Next]_bound
  /\ [][part = "attributions" => Work!SnapshotIsStable]_events
=============================================================================
