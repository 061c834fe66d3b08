---------------------------- MODULE ImportPipeline ----------------------------
(***************************************************************************)
(* The import of one account's files: the rows of a file are assessed,     *)
(* drafted, resolved to instruments, planned and committed as one batch.   *)
(* Every stage checks the one before it and carries its hash, so a plan is *)
(* identified by everything it was made from; a hash is what it hashes.    *)
(*                                                                         *)
(* The owner previews and executes files in any order, again and again,    *)
(* while the resolver that knows the instruments is replaced; an answer    *)
(* may be lost.  Committing is the atomic ImportLedger (see ImportCommit). *)
(***************************************************************************)
EXTENDS Naturals, Sequences, FiniteSets

CONSTANTS
    Files,         \* [name, header, rows]; a row is [type, present, bad, distinct, lexical, ref]
    Candidates,    \* revision -> reference -> the instruments known by it
    NoRef,         \* no instrument reference
    TransactionIds, \* bound: the ids of transactions
    MaxCalls       \* bound on the executions

VARIABLES
    bound,         \* the bindings of ImportLedger
    revision,      \* the resolver's revision
    calls,
    last           \* the last execution [file, revision, status, ids]

vars == <<bound, revision, calls, last>>

Revisions == DOMAIN Candidates

-----------------------------------------------------------------------------

\* Which fields a transaction of each type carries, in the three places that
\* decide it on their own: the import draft, the domain model and the table.  A
\* row is its type, the fields it carries, those among them that are not
\* positive, and whether its two currencies differ.

Trade == {"quantity", "unit_price", "trade_currency"}
Cash == {"cash_amount", "cash_currency"}
Fx == {"from_currency", "from_amount", "to_currency", "to_amount"}
Amounts == {"quantity", "unit_price", "cash_amount", "from_amount", "to_amount"}

Trades == {"buy", "sell"}
Flows == {"cash_deposit", "cash_withdrawal"}
Incomes == {"dividend", "interest", "fee", "tax_withholding"}
Types == Trades \cup Flows \cup Incomes \cup {"fx_conversion", "reversal"}

\* mutant: the two currencies are not compared.
DraftTakesOneCurrency(row) ==
    /\ row.type # "reversal" /\ row.bad = {}
    /\ CASE row.type \in Trades -> Trade \cup {"instrument"} = row.present
         [] row.type \in Flows -> Cash = row.present
         [] row.type \in Incomes -> Cash \subseteq row.present /\ row.present \subseteq Cash \cup {"instrument"}
         [] row.type = "fx_conversion" -> Fx = row.present

\* A draft has no cash bucket and reverses nothing.
DraftAccepts(row) ==
    /\ row.type # "reversal" /\ row.bad = {}
    /\ CASE row.type \in Trades -> Trade \cup {"instrument"} = row.present
         [] row.type \in Flows -> Cash = row.present
         [] row.type \in Incomes -> Cash \subseteq row.present /\ row.present \subseteq Cash \cup {"instrument"}
         [] row.type = "fx_conversion" -> Fx = row.present /\ row.distinct

\* The model looks at the sign of the amounts its type requires only; a trade
\* or a flow may name a cash bucket.
ModelAccepts(row) ==
    CASE row.type \in Trades ->
            /\ Trade \cup {"instrument"} \subseteq row.present
            /\ row.present \cap (Cash \cup Fx \cup {"reverses"}) = {}
            /\ row.bad \cap Trade = {}
      [] row.type \in Flows ->
            /\ Cash \subseteq row.present
            /\ row.present \cap (Trade \cup Fx \cup {"instrument", "reverses"}) = {}
            /\ row.bad \cap Cash = {}
      [] row.type \in Incomes ->
            /\ Cash \subseteq row.present
            /\ row.present \cap (Trade \cup Fx \cup {"reverses"}) = {}
            /\ row.bad \cap Cash = {}
      [] row.type = "fx_conversion" ->
            /\ Fx \subseteq row.present /\ row.distinct
            /\ row.present \cap (Trade \cup Cash \cup {"instrument", "bucket", "reverses"}) = {}
            /\ row.bad \cap Fx = {}
      [] row.type = "reversal" ->
            /\ "reverses" \in row.present
            /\ row.present \cap (Trade \cup Cash \cup Fx \cup {"instrument", "bucket"}) = {}

\* chk_tx_field_families: one alternative for each family of types.
DatabaseAccepts(row) ==
    \/ /\ row.type \in Trades /\ row.present \ {"bucket"} = Trade \cup {"instrument"} /\ row.bad = {}
    \/ /\ row.type \in Flows /\ row.present \ {"bucket"} = Cash /\ row.bad = {}
    \/ /\ row.type \in Incomes /\ row.present \ {"bucket", "instrument"} = Cash /\ row.bad = {}
    \/ /\ row.type = "fx_conversion" /\ row.present = Fx /\ row.distinct /\ row.bad = {}
    \/ row.type = "reversal" /\ row.present = {"reverses"}

-----------------------------------------------------------------------------

\* A record's claim is its file's content and its place in it.
Claim(f, i) == <<f.name, i>>

\* Rows are numbered from one, all of them.
Ordinals(f) == DOMAIN f.rows

\* The parsed record of every row has the canonical keys; a file without rows
\* is not looked at.
Canonical(f) == f.rows = <<>> \/ f.header = "canonical"

\* The text of every field says what its column asks for.
Legible(row) == ~ row.lexical

\* First the text of every field, then the fields against the type.
Assessment(row) == IF Legible(row) /\ DraftAccepts(row) THEN "ready" ELSE "rejected"

Ready(f) == {i \in Ordinals(f) : Assessment(f.rows[i]) = "ready"}

Rejected(f) == Ordinals(f) \ Ready(f)

\* What the hash of each stage stands for, from the parsed rows of the whole
\* file to the assessments and the draft of one row.
Parsed(f, i) == <<Claim(f, i), f.rows[i]>>

ParsedManifest(f) == [i \in Ordinals(f) |-> Parsed(f, i)]

AssessmentManifest(f) ==
    <<ParsedManifest(f), [i \in Ordinals(f) |-> Assessment(f.rows[i])]>>

Draft(f, i) == <<AssessmentManifest(f), i, f.rows[i]>>

\* One draft for every ready row.
Drafts(f) == [i \in Ready(f) |-> f.rows[i]]

\* mutant: the first of several candidates is taken.
ResolutionTakesOne(row, rev) ==
    LET known == Candidates[rev][row.ref]
        found == IF known = {} THEN "unresolved" ELSE "resolved" IN
    IF row.ref = NoRef
    THEN [status |-> "not_required", revision |-> 0, candidates |-> {}]
    ELSE [status |-> found, revision |-> rev, candidates |-> known]

Resolution(row, rev) ==
    LET known == Candidates[rev][row.ref]
        found == IF known = {} THEN "unresolved"
                 ELSE IF Cardinality(known) = 1 THEN "resolved" ELSE "ambiguous" IN
    IF row.ref = NoRef
    THEN [status |-> "not_required", revision |-> 0, candidates |-> {}]
    ELSE [status |-> found, revision |-> rev, candidates |-> known]

\* What the record of a resolution insists on, for the row it is made for.
Admissible(row, res) ==
    LET unnamed == {"cash_deposit", "cash_withdrawal", "fx_conversion"} IN
    CASE res.status = "not_required" ->
            row.ref = NoRef /\ row.type \notin {"buy", "sell"} /\ res.revision = 0 /\ res.candidates = {}
      [] res.status = "resolved" ->
            row.ref # NoRef /\ row.type \notin unnamed /\ res.revision # 0 /\ Cardinality(res.candidates) = 1
      [] res.status = "unresolved" ->
            row.ref # NoRef /\ row.type \notin unnamed /\ res.revision # 0 /\ res.candidates = {}
      [] res.status = "ambiguous" ->
            row.ref # NoRef /\ row.type \notin unnamed /\ res.revision # 0 /\ Cardinality(res.candidates) >= 2

Resolutions(f, rev) == [i \in Ready(f) |-> Resolution(f.rows[i], rev)]

Blocked(f, rev) == {i \in Ready(f) : Resolutions(f, rev)[i].status \in {"unresolved", "ambiguous"}}

FullyResolved(f, rev) == Blocked(f, rev) = {}

\* The plan and the economics of a row under its resolution.
Item(f, rev, i) ==
    LET res == Resolution(f.rows[i], rev) IN
    [claim |-> Claim(f, i),
     plan |-> [file |-> f.name, draft |-> Draft(f, i), resolution |-> res],
     economics |-> <<f.rows[i], res.candidates>>]

InFileOrder(f) ==
    CHOOSE s \in [1 .. Cardinality(Ready(f)) -> Ready(f)] :
        \A i, j \in DOMAIN s : i < j => s[i] < s[j]

\* A plan and a binding for every draft, in the order of the file.
Plans(f, rev) == [k \in DOMAIN InFileOrder(f) |-> Item(f, rev, InFileOrder(f)[k])]

Readable == {f \in Files : Canonical(f)}

Ledger == INSTANCE ImportLedger WITH
    Batches <- {Plans(p[1], p[2]) :
        p \in {q \in Readable \X Revisions : FullyResolved(q[1], q[2]) /\ Ready(q[1]) # {}}},
    Ids <- TransactionIds

-----------------------------------------------------------------------------

PreviewStatus(f, rev) ==
    CASE ~ Canonical(f) \/ (f.rows = <<>> /\ f.header # "canonical") -> "file_invalid"
      [] Canonical(f) /\ f.rows = <<>> /\ f.header = "canonical" -> "empty_valid"
      [] Canonical(f) /\ f.rows # <<>> /\ Rejected(f) # {} -> "has_rejected_records"
      [] Canonical(f) /\ f.rows # <<>> /\ Rejected(f) = {} ->
            IF Blocked(f, rev) # {} THEN "needs_resolution_review" ELSE "structurally_previewable"

Stops(f, rev) == ~ FullyResolved(f, rev)

\* The ids bound to the rows of the batch after the commit.
BoundIds(f, rev) ==
    LET batch == Plans(f, rev) IN
    [k \in DOMAIN batch |-> (CHOOSE b \in bound' : b.claim = batch[k].claim).id]

Record(f, status, ids) ==
    last' = [file |-> f, revision |-> revision, status |-> status, ids |-> ids]

Execute(f) ==
    LET batch == Plans(f, revision)
        old == {b \in bound : \E item \in Ledger!Items(batch) : item.claim = b.claim} IN
    /\ calls < MaxCalls /\ calls' = calls + 1
    /\ UNCHANGED revision
    /\ \/ ~ Canonical(f) /\ Record(f, "error", <<>>) /\ UNCHANGED bound
       \/ Canonical(f) /\ Stops(f, revision)
             /\ Record(f, "resolution_blocked", <<>>) /\ UNCHANGED bound
       \/ Canonical(f) /\ ~ Stops(f, revision) /\ batch = <<>>
             /\ Record(f, "noop", <<>>) /\ UNCHANGED bound
       \/ /\ Canonical(f) /\ ~ Stops(f, revision) /\ batch # <<>>
          /\ \E item \in Ledger!Items(batch), b \in bound : Ledger!Conflicting(item, b)
          /\ Record(f, "conflict", <<>>) /\ UNCHANGED bound
       \/ /\ Canonical(f) /\ ~ Stops(f, revision) /\ batch # <<>>
          /\ Ledger!Bind(batch)
          /\ \/ Record(f, IF Cardinality(old) = Len(batch) THEN "idempotent_duplicate" ELSE "appended",
                       BoundIds(f, revision))
             \/ Record(f, "lost", <<>>)

\* Another resolver is connected.
Replace ==
    /\ revision' \in Revisions \ {revision}
    /\ UNCHANGED <<bound, calls, last>>

Init ==
    /\ bound = {} /\ calls = 0
    /\ revision \in Revisions
    /\ last = [file |-> [name |-> "none", header |-> "canonical", rows |-> <<>>],
               revision |-> revision, status |-> "none", ids |-> <<>>]

Next == Replace \/ \E f \in Files : Execute(f)

Spec == Init /\ [][Next]_vars

-----------------------------------------------------------------------------

\* The answers name rows of the file, one id for each row committed.
TypeOK ==
    /\ revision \in Revisions /\ calls \in 0 .. MaxCalls
    /\ last.status \in {"none", "error", "resolution_blocked", "noop", "conflict",
                        "appended", "idempotent_duplicate", "lost"}
    /\ last.status \in {"appended", "idempotent_duplicate"} =>
          Len(last.ids) = Cardinality(Ready(last.file))

Booked(f) == {i \in Ordinals(f) : \E b \in bound : b.claim = Claim(f, i)}

\* After any number of executions, retries, lost answers and resolvers, the
\* ready rows of a file are all in the ledger or none is, and never another
\* row of it (sentinax_csv_import_execution.py:332).
FilesAreAllOrNothing == \A f \in Files : Booked(f) \in {{}, Ready(f)}

\* What is in the ledger is a transaction the model and the table accept, of
\* one known instrument when it names one.
BookedRowsAreSound ==
    \A f \in Files : \A i \in Booked(f) :
        LET row == f.rows[i]
            b == CHOOSE b \in bound : b.claim = Claim(f, i) IN
        /\ ~ row.lexical
        /\ ModelAccepts(row) /\ DatabaseAccepts(row)
        /\ row.ref # NoRef => Cardinality(b.economics[2]) = 1

\* A conflict means that the file is in the ledger by another resolver, and a
\* duplicate that it is there already: a retry never books a file again.
ConflictHasCause ==
    last.status = "conflict" =>
        \E b \in bound :
            /\ b.plan.file = last.file.name
            /\ b.plan.resolution.revision \notin {0, last.revision}

\* Preview and execution agree, although each decides on its own: a file that
\* is previewable is not blocked, one that is blocked is not previewable, and
\* a file in error is invalid.
PreviewAgrees ==
    LET status == PreviewStatus(last.file, last.revision) IN
    /\ last.status = "error" => status = "file_invalid"
    /\ last.status = "resolution_blocked" =>
          status \in {"needs_resolution_review", "has_rejected_records"}
    /\ last.status = "noop" =>
          status \in {"empty_valid", "has_rejected_records", "file_invalid"}
    /\ last.status \in {"appended", "idempotent_duplicate", "conflict", "lost"} =>
          status \in {"structurally_previewable", "has_rejected_records"}
    /\ status = "structurally_previewable" =>
          last.status \in {"appended", "idempotent_duplicate", "conflict", "lost"}

\* No stage raises on what the stage before it made.
StagesFitTogether ==
    \A f \in Readable : \A i \in Ready(f) :
        Admissible(Drafts(f)[i], Resolutions(f, revision)[i])

-----------------------------------------------------------------------------
(***************************************************************************)
(* What the proofs assume of the constants: files of one content are one   *)
(* file; its rows are what a parser can make, with an instrument reference *)
(* where the field is present; revisions count from one, and each knows    *)
(* finitely many candidates.                                               *)
(***************************************************************************)
Fields == Trade \cup Cash \cup Fx \cup {"instrument", "bucket", "reverses"}

RowOK(row) ==
    /\ row.type \in Types /\ row.distinct \in BOOLEAN
    /\ row.present \subseteq Fields /\ row.bad \subseteq row.present \cap Amounts

FileOK(f) ==
    /\ f.rows \in Seq({f.rows[i] : i \in DOMAIN f.rows})
    /\ \A i \in DOMAIN f.rows :
          /\ RowOK(f.rows[i]) /\ f.rows[i].lexical \in BOOLEAN
          /\ "instrument" \in f.rows[i].present <=> f.rows[i].ref # NoRef

PipelineConstants ==
    /\ MaxCalls \in Nat /\ Revisions \subseteq Nat \ {0}
    /\ \A f, g \in Files : f.name = g.name => f = g
    /\ \A f \in Files : FileOK(f)
    /\ \A rev \in Revisions, f \in Files : \A i \in DOMAIN f.rows :
          IsFiniteSet(Candidates[rev][f.rows[i].ref])

-----------------------------------------------------------------------------
(* The inductive invariant.                                                *)

(* The binding was made by a fully resolved execution of a file.           *)
BoundBy(b, f, rev, i) ==
    /\ i \in Ready(f) /\ FullyResolved(f, rev)
    /\ b.claim = Claim(f, i)
    /\ b.plan = Item(f, rev, i).plan /\ b.economics = Item(f, rev, i).economics

BindingsInv ==
    /\ \A b \in bound : \E f \in Readable, rev \in Revisions :
          \E i \in Ready(f) : BoundBy(b, f, rev, i)
    /\ \A b, d \in bound : b.claim = d.claim => b = d
    /\ \A f \in Files : Booked(f) \in {{}, Ready(f)}

(* Why the last execution ended as it did.                                 *)
Committed == {"appended", "idempotent_duplicate", "lost", "conflict"}

LastInv ==
    LET f == last.file rev == last.revision IN
    /\ last.status = "none" => f.rows = <<>> /\ f.header = "canonical"
    /\ last.status # "none" => f \in Files /\ rev \in Revisions
    /\ last.status \in {"none", "error", "resolution_blocked", "noop"} \cup Committed
    /\ last.status = "error" => ~ Canonical(f)
    /\ last.status = "resolution_blocked" => Canonical(f) /\ Stops(f, rev)
    /\ last.status = "noop" => Canonical(f) /\ ~ Stops(f, rev) /\ Ready(f) = {}
    /\ last.status \in Committed => Canonical(f) /\ ~ Stops(f, rev) /\ Ready(f) # {}
    /\ last.status \in {"appended", "idempotent_duplicate"} =>
          Len(last.ids) = Cardinality(Ready(f))

Inv ==
    /\ revision \in Revisions /\ calls \in 0 .. MaxCalls
    /\ BindingsInv /\ LastInv /\ ConflictHasCause

============================================================================
