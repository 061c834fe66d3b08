----------------------------- MODULE ImportCommit -----------------------------
(***************************************************************************)
(* commit_import_binding_batch and the RPC behind it: one database         *)
(* transaction that, item by item, inserts the transaction row and its     *)
(* claim binding.  Concurrent transactions meet at the primary key of the  *)
(* bindings: an insert waits for an uncommitted row of the same claim, and *)
(* fails with unique_violation once that row is committed.                 *)
(*                                                                         *)
(* commit_import_binding_intent is the batch of one item: both RPCs share  *)
(* the function that commits an item.                                      *)
(***************************************************************************)
EXTENDS Naturals, Sequences, FiniteSets, SequencesExt, FiniteSetTheorems, WellFoundedInduction, TLAPS

CONSTANTS
    Clients,       \* concurrent importers
    Batches,       \* sets of items [claim, account, plan, economics]; claims are ordinals
    Accounts,      \* the accounts of the portfolio
    MaxCalls       \* bound on the calls made

VARIABLES
    transactions,  \* committed rows [id, economics] of imported transactions
    bindings,      \* committed rows [claim, plan, id]
    pc,            \* client -> idle, running, done
    batch,         \* client -> the items in commit order
    next,          \* client -> index of the item being committed
    rows,          \* client -> uncommitted [transactions, bindings]
    status,        \* client -> item statuses so far
    result,        \* client -> the answer of its last call
    call,          \* client -> number of its call
    calls          \* calls made

vars == <<transactions, bindings, pc, batch, next, rows, status, result, call, calls>>

Nothing == [transactions |-> {}, bindings |-> {}]

\* build_import_ledger_binding_batch sorts the intents by record ordinal.
InOrder(items) ==
    CHOOSE s \in [1 .. Cardinality(items) -> items] :
        \A i, j \in DOMAIN s : i < j => s[i].claim < s[j].claim

Ids == (1 .. MaxCalls) \X (1 .. Cardinality(UNION Batches))

\* Every call gives every item a fresh uuid.
FreshId(c) == <<call[c], next[c]>>

\* The bindings with the economics of their transactions.
Joined(ts, bs) ==
    {[claim |-> b.claim, plan |-> b.plan, id |-> b.id,
      economics |-> (CHOOSE t \in ts : t.id = b.id).economics] : b \in bs}

Table == Joined(transactions, bindings)

Imports == INSTANCE ImportLedger WITH
    Batches <- {InOrder(items) : items \in Batches}, bound <- Table

Answer(answer, ids, ordinal) == [status |-> answer, ids |-> ids, ordinal |-> ordinal]

NoAnswer == Answer("NONE", <<>>, 0)

-----------------------------------------------------------------------------

End(c, answer) ==
    /\ pc' = [pc EXCEPT ![c] = "done"]
    /\ result' = [result EXCEPT ![c] = answer]
    /\ rows' = [rows EXCEPT ![c] = Nothing]
    /\ UNCHANGED <<batch, next, status, call, calls>>

RollBack(c, answer) ==
    /\ End(c, answer)
    /\ UNCHANGED <<transactions, bindings>>

MissingTargets(items) == {i \in DOMAIN items : items[i].account \notin Accounts}

\* The preflight, then the RPC: it fails on the first item whose account is
\* missing before anything is written; no item is nothing to do.
Submit(c, items) ==
    LET missing == MissingTargets(InOrder(items)) IN
    /\ pc[c] # "running"
    /\ calls < MaxCalls
    /\ calls' = calls + 1
    /\ batch' = [batch EXCEPT ![c] = InOrder(items)]
    /\ next' = [next EXCEPT ![c] = 1]
    /\ status' = [status EXCEPT ![c] = <<>>]
    /\ call' = [call EXCEPT ![c] = calls + 1]
    /\ IF items = {} \/ missing # {}
       THEN /\ pc' = [pc EXCEPT ![c] = "done"]
            /\ result' = [result EXCEPT ![c] =
                  IF items = {} THEN Answer("NOOP", <<>>, 0)
                  ELSE Answer("INVALID", <<>>, InOrder(items)[Min(missing)].claim)]
       ELSE /\ pc' = [pc EXCEPT ![c] = "running"]
            /\ result' = [result EXCEPT ![c] = NoAnswer]
    /\ UNCHANGED <<transactions, bindings, rows>>

-----------------------------------------------------------------------------

\* mutant: the items are taken in the order of their content.
ItemInContentOrder(c) ==
    SetToSortSeq(Range(batch[c]), LAMBDA i, j :
        i.economics > j.economics \/ (i.economics = j.economics /\ i.claim > j.claim))[next[c]]

Item(c) == batch[c][next[c]]

Working(c) == pc[c] = "running" /\ next[c] <= Len(batch[c])

\* The claim is inserted by a transaction that has not ended.
Holds(k, claim) == \E b \in rows[k].bindings : b.claim = claim

Waits(c, k) == c # k /\ Working(c) /\ Holds(k, Item(c).claim)

Free(c) == Working(c) /\ \A k \in Clients : ~Waits(c, k)

Bindings(claim) == {b \in bindings : b.claim = claim}

Advance(c, newRows, itemStatus) ==
    /\ rows' = [rows EXCEPT ![c] = newRows]
    /\ status' = [status EXCEPT ![c] = Append(@, itemStatus)]
    /\ next' = [next EXCEPT ![c] = @ + 1]
    /\ UNCHANGED <<transactions, bindings, pc, batch, result, call, calls>>

\* Both inserts succeed.
AppendItem(c) ==
    /\ Free(c)
    /\ Bindings(Item(c).claim) = {}
    /\ Advance(c,
         [transactions |-> rows[c].transactions \cup
              {[id |-> FreshId(c), economics |-> Item(c).economics]},
          bindings |-> rows[c].bindings \cup
              {[claim |-> Item(c).claim, plan |-> Item(c).plan, id |-> FreshId(c)]}],
         [status |-> "appended", id |-> FreshId(c)])

\* mutant: the transaction row is inserted outside of the item's block.
AfterViolationKeepsRow(c) ==
    [rows[c] EXCEPT !.transactions = @ \cup
        {[id |-> FreshId(c), economics |-> Item(c).economics]}]

\* What the rollback of the item's own block leaves of its transaction row.
AfterViolation(c) == rows[c]

\* mutant: only the economics are compared.
MatchesAnyPlan(binding, item) ==
    \E t \in transactions : t.id = binding.id /\ t.economics = item.economics

Matches(binding, item) ==
    /\ binding.plan = item.plan
    /\ \E t \in transactions : t.id = binding.id /\ t.economics = item.economics

\* unique_violation on the claim, which is bound to the same plan and economics.
DuplicateItem(c) ==
    /\ Free(c)
    /\ \E b \in Bindings(Item(c).claim) :
          /\ Matches(b, Item(c))
          /\ Advance(c, AfterViolation(c),
                     [status |-> "idempotent_duplicate", id |-> b.id])

\* unique_violation on a claim bound otherwise: P13R1 undoes the whole batch.
ConflictItem(c) ==
    /\ Free(c)
    /\ \E b \in Bindings(Item(c).claim) :
          /\ ~Matches(b, Item(c))
          /\ RollBack(c, Answer("CONFLICT", <<b.id>>, Item(c).claim))

BatchStatus(c) ==
    IF \E i \in DOMAIN status[c] : status[c][i].status = "appended"
    THEN "APPENDED" ELSE "IDEMPOTENT_DUPLICATE"

\* The transaction commits; the answer, or the read-back of a row, may be lost.
Commit(c) ==
    /\ pc[c] = "running" /\ next[c] > Len(batch[c])
    /\ transactions' = transactions \cup rows[c].transactions
    /\ bindings' = bindings \cup rows[c].bindings
    /\ \/ End(c, Answer(BatchStatus(c), [i \in DOMAIN status[c] |-> status[c][i].id], 0))
       \/ End(c, Answer("FAILED", <<>>, 0))

\* The connection or the server process dies before the commit.
Abort(c) ==
    /\ pc[c] = "running"
    /\ RollBack(c, Answer("FAILED", <<>>, 0))

-----------------------------------------------------------------------------

Init ==
    /\ transactions = {} /\ bindings = {}
    /\ pc = [c \in Clients |-> "idle"]
    /\ batch = [c \in Clients |-> <<>>]
    /\ next = [c \in Clients |-> 1]
    /\ rows = [c \in Clients |-> Nothing]
    /\ status = [c \in Clients |-> <<>>]
    /\ result = [c \in Clients |-> NoAnswer]
    /\ call = [c \in Clients |-> 0]
    /\ calls = 0

Step(c) == AppendItem(c) \/ DuplicateItem(c) \/ ConflictItem(c) \/ Commit(c)

Next ==
    \E c \in Clients :
        \/ \E items \in Batches : Submit(c, items)
        \/ Step(c)
        \/ Abort(c)

Spec == Init /\ [][Next]_vars

\* PostgreSQL goes on with every transaction that does not wait for a lock.
FairSpec == Spec /\ \A c \in Clients : WF_vars(Step(c))

-----------------------------------------------------------------------------

\* Every variable keeps its type; item statuses follow the items committed.
TypeOK ==
    /\ \A t \in transactions : t.id \in Ids
    /\ pc \in [Clients -> {"idle", "running", "done"}]
    /\ \A c \in Clients :
          /\ pc[c] = "running" => Len(status[c]) + 1 = next[c]
          /\ pc[c] # "running" => rows[c] = Nothing
          /\ next[c] \in 1 .. Len(batch[c]) + 1

\* Committed batches are atomic and serializable: the tables change only as if
\* each batch had been bound at once to the tables of its commit.
ImplementsImports == Imports!Spec

\* No import leaves a transaction without its binding, a binding without its
\* transaction, or a claim bound twice, not even when an item is a duplicate or
\* the batch is undone.
EveryTransactionIsBound ==
    /\ {t.id : t \in transactions} = {b.id : b \in bindings}
    /\ \A b, d \in bindings : (b.claim = d.claim \/ b.id = d.id) => b = d

\* What the caller is told, it finds in the tables: a success names for every
\* item the transaction its claim is bound to, with the item's economics (the
\* read-back never fails); a conflict names the claim and left nothing of the
\* batch behind.
AnswersMatchTables ==
    \A c \in Clients :
        /\ result[c].status \in {"APPENDED", "IDEMPOTENT_DUPLICATE"} =>
              /\ Len(result[c].ids) = Len(batch[c])
              /\ \A i \in DOMAIN batch[c] : \E b \in Table :
                    /\ b.claim = batch[c][i].claim /\ b.id = result[c].ids[i]
                    /\ b.plan = batch[c][i].plan
                    /\ b.economics = batch[c][i].economics
        /\ result[c].status \in {"CONFLICT", "INVALID"} =>
              \A t \in transactions : t.id[1] # call[c]

\* Batches take their claims in one order, so they never wait for each other in
\* a circle and PostgreSQL never has to abort one of them.
NoWaitCycle ==
    \A S \in (SUBSET Clients) \ {{}} : \E c \in S : \A k \in S : ~Waits(c, k)

\* Every batch is answered, if no two of them wait for each other.
EveryBatchIsAnswered ==
    \A c \in Clients : pc[c] = "running" ~> pc[c] = "done"

-----------------------------------------------------------------------------
(***************************************************************************)
(* Proofs.  What is assumed of the constants: batches are of finitely many *)
(* items, whose claims are record ordinals, each once in a batch.          *)
(***************************************************************************)
CommitConstants ==
    /\ MaxCalls \in Nat /\ IsFiniteSet(UNION Batches)
    /\ \A item \in UNION Batches : item.claim \in Nat
    /\ \A items \in Batches : \A i, j \in items : i.claim = j.claim => i = j

Ordered == {InOrder(items) : items \in Batches}

-----------------------------------------------------------------------------
(* The inductive invariant.                                                *)

ItemStatuses == [status : {"appended", "idempotent_duplicate"}, id : Ids]

Shape ==
    /\ calls \in 0 .. MaxCalls
    /\ pc \in [Clients -> {"idle", "running", "done"}]
    /\ batch \in [Clients -> Ordered \cup {<<>>}]
    /\ next \in [Clients -> Nat \ {0}]
    /\ status \in [Clients -> Seq(ItemStatuses)]
    /\ call \in [Clients -> 0 .. MaxCalls]
    /\ DOMAIN rows = Clients /\ DOMAIN result = Clients

(* The rows ts and bs of the two tables belong to each other, and were     *)
(* made by calls up to the last one.                                       *)
Bound(ts, bs) ==
    /\ {t.id : t \in ts} = {b.id : b \in bs}
    /\ \A t, u \in ts : t.id = u.id => t = u
    /\ \A b, d \in bs : (b.claim = d.claim \/ b.id = d.id) => b = d

Made(ts, last) == \A t \in ts : t.id \in Ids /\ t.id[1] <= last

(* What a running client has inserted and not committed: one row in each   *)
(* table for every item it answered as appended.                           *)
Appended(c) == {i \in DOMAIN status[c] : status[c][i].status = "appended"}

Id(c, i) == <<call[c], i>>

Rows(c) ==
    [transactions |-> {[id |-> Id(c, i), economics |-> batch[c][i].economics] : i \in Appended(c)},
     bindings |-> {[claim |-> batch[c][i].claim, plan |-> batch[c][i].plan, id |-> Id(c, i)] :
                      i \in Appended(c)}]

(* Why an item has its status: nobody has bound the claim of one that is   *)
(* appended, and the claim of a duplicate is bound to the same.            *)
ItemIsAppended(c, i) ==
    /\ status[c][i] = [status |-> "appended", id |-> Id(c, i)]
    /\ Bindings(batch[c][i].claim) = {}

ItemIsDuplicate(c, i) ==
    /\ status[c][i].status = "idempotent_duplicate"
    /\ \E b \in Bindings(batch[c][i].claim) :
          b.id = status[c][i].id /\ Matches(b, batch[c][i])

Progress(c) ==
    /\ next[c] <= Len(batch[c]) + 1
    /\ pc[c] # "idle" => call[c] \in 1 .. calls /\ batch[c] \in Ordered
    /\ pc[c] \in {"idle", "running"} => result[c] = NoAnswer
    /\ rows[c] = IF pc[c] = "running" THEN Rows(c) ELSE Nothing
    /\ pc[c] = "running" =>
          /\ Len(status[c]) + 1 = next[c]
          /\ \A i \in DOMAIN status[c] : ItemIsAppended(c, i) \/ ItemIsDuplicate(c, i)

(* A call that has not succeeded has left nothing behind.                  *)
LeftNothing(c) ==
    pc[c] = "running" \/ result[c].status \in {"CONFLICT", "INVALID"} =>
        \A t \in transactions : t.id[1] # call[c]

(* What a successful call was told.                                        *)
Told(c, ids) ==
    /\ Len(ids) = Len(batch[c])
    /\ \A i \in DOMAIN batch[c] : \E b \in Table :
          /\ b.claim = batch[c][i].claim /\ b.id = ids[i]
          /\ b.plan = batch[c][i].plan /\ b.economics = batch[c][i].economics

Success == {"APPENDED", "IDEMPOTENT_DUPLICATE"}

ClientInv(c) ==
    /\ Progress(c)
    /\ LeftNothing(c)
    /\ result[c].status \in Success => Told(c, result[c].ids)

(* Calls have numbers of their own, and no two running clients hold one    *)
(* claim.                                                                  *)
Apart(c, k) ==
    /\ pc[c] # "idle" /\ pc[k] # "idle" => call[c] # call[k]
    /\ pc[c] = "running" /\ pc[k] = "running" =>
          \A i \in Appended(c), j \in Appended(k) : batch[c][i].claim # batch[k][j].claim

Inv ==
    /\ Shape
    /\ Bound(transactions, bindings) /\ Made(transactions, calls)
    /\ \A c \in Clients : ClientInv(c)
    /\ \A c, k \in Clients : c # k => Apart(c, k)

-----------------------------------------------------------------------------
(* Every step keeps the invariant.                                         *)

(* A finite set under a strict total order can be listed in that order.    *)
Lists(f, S, less) ==
    /\ f \in [1 .. Cardinality(S) -> S]
    /\ \A i, j \in 1 .. Cardinality(S) : i < j => <<f[i], f[j]>> \in less
    /\ \A x \in S : \E i \in 1 .. Cardinality(S) : f[i] = x

LEMMA SortedListExists ==
  ASSUME NEW S, IsFiniteSet(S), NEW less \in SUBSET (S \X S),
         \A x \in S : <<x, x>> \notin less,
         \A x, y, z \in S : <<x, y>> \in less /\ <<y, z>> \in less => <<x, z>> \in less,
         \A x, y \in S : x # y => <<x, y>> \in less \/ <<y, x>> \in less
  PROVE  \E f : Lists(f, S, less)
<1> DEFINE n == Cardinality(S)
           Below(x) == {y \in S : <<y, x>> \in less}
           rank == [x \in S |-> Cardinality(Below(x)) + 1]
<1>1. n \in Nat
  BY FS_CardinalityType
<1>2. ASSUME NEW x \in S, NEW y \in S, <<x, y>> \in less PROVE rank[x] < rank[y]
  <2>1. IsFiniteSet(Below(x)) /\ IsFiniteSet(Below(y))
    BY FS_Subset
  <2>2. Below(x) \subseteq Below(y) /\ x \in Below(y) /\ x \notin Below(x)
    BY <1>2
  <2>3. /\ Cardinality(Below(x)) <= Cardinality(Below(y))
        /\ Cardinality(Below(y)) # Cardinality(Below(x))
    BY <2>1, <2>2, FS_Subset
  <2>4. Cardinality(Below(x)) \in Nat /\ Cardinality(Below(y)) \in Nat
    BY <2>1, FS_CardinalityType
  <2> HIDE DEF Below
  <2>. QED
    BY <2>3, <2>4
<1>3. ASSUME NEW x \in S PROVE rank[x] \in 1 .. n
  <2>1. IsFiniteSet(Below(x)) /\ Below(x) \subseteq S /\ x \notin Below(x)
    BY FS_Subset
  <2>2. Cardinality(Below(x)) <= n /\ n # Cardinality(Below(x))
    BY <2>1, FS_Subset
  <2>3. Cardinality(Below(x)) \in Nat
    BY <2>1, FS_CardinalityType
  <2> HIDE DEF Below, n
  <2>. QED
    BY <1>1, <2>2, <2>3
<1>4. \A x, y \in S : rank[x] = rank[y] => x = y
  <2>1. SUFFICES ASSUME NEW x \in S, NEW y \in S, rank[x] = rank[y], x # y PROVE FALSE
    OBVIOUS
  <2>2. rank[x] \in Nat /\ rank[y] \in Nat
    BY <1>1, <1>3
  <2>3. rank[x] < rank[y] \/ rank[y] < rank[x]
    BY <2>1, <1>2
  <2> HIDE DEF rank
  <2>. QED
    BY <2>1, <2>2, <2>3
<1>5. rank \in Injection(S, 1 .. n)
  BY <1>3, <1>4 DEF Injection, IsInjective
<1>6. IsFiniteSet(1 .. n) /\ Cardinality(1 .. n) = n
  BY <1>1, FS_Interval
<1>7. \A i \in 1 .. n : \E x \in S : rank[x] = i
  <2> DEFINE T == 1 .. n
  <2>1. Cardinality(S) = Cardinality(T) /\ rank \in Injection(S, T) /\ IsFiniteSet(T)
    BY <1>5, <1>6
  <2> HIDE DEF T, rank, n
  <2>2. rank \in Surjection(S, T)
    BY <2>1, FS_Injection
  <2>. QED
    BY <2>2 DEF Surjection, T
<1> DEFINE f == [i \in 1 .. n |-> CHOOSE x \in S : rank[x] = i]
<1>8. \A i \in 1 .. n : f[i] \in S /\ rank[f[i]] = i
  BY <1>7
<1>9. f \in [1 .. n -> S]
  BY <1>8
<1>10. ASSUME NEW i \in 1 .. n, NEW j \in 1 .. n, i < j PROVE <<f[i], f[j]>> \in less
  <2>1. f[i] \in S /\ f[j] \in S /\ rank[f[i]] = i /\ rank[f[j]] = j
    BY <1>8
  <2>2. i \in Nat /\ j \in Nat
    BY <1>1
  <2> HIDE DEF f, rank
  <2>3. f[i] # f[j]
    BY <2>1, <2>2, <1>10
  <2>4. CASE <<f[j], f[i]>> \in less
    BY <2>1, <2>2, <2>4, <1>2, <1>10
  <2>. QED
    BY <2>1, <2>3, <2>4
<1>11. ASSUME NEW x \in S PROVE \E i \in 1 .. n : f[i] = x
  <2>1. rank[x] \in 1 .. n /\ f[rank[x]] \in S /\ rank[f[rank[x]]] = rank[x]
    BY <1>3, <1>8
  <2> HIDE DEF f, rank
  <2>. QED
    BY <2>1, <1>4
<1> HIDE DEF f, n
<1>. QED
  BY <1>9, <1>10, <1>11 DEF n, Lists
(* The lists of the batches are what they should be.                       *)
LEMMA ItemsAreFinite == ASSUME CommitConstants PROVE Cardinality(UNION Batches) \in Nat
  BY FS_CardinalityType DEF CommitConstants

LEMMA InOrderLists ==
  ASSUME CommitConstants, NEW items \in Batches
  PROVE  /\ InOrder(items) \in [1 .. Cardinality(items) -> items]
         /\ Cardinality(items) \in Nat /\ Cardinality(items) <= Cardinality(UNION Batches)
         /\ \A i, j \in DOMAIN InOrder(items) :
              i < j => InOrder(items)[i].claim < InOrder(items)[j].claim
<1>1. /\ items \subseteq UNION Batches /\ IsFiniteSet(UNION Batches)
      /\ \A i \in items : i.claim \in Nat
      /\ \A i, j \in items : i.claim = j.claim => i = j
  BY DEF CommitConstants
<1>2. IsFiniteSet(items) /\ Cardinality(items) <= Cardinality(UNION Batches)
  BY <1>1, FS_Subset
<1>3. Cardinality(items) \in Nat
  BY <1>2, FS_CardinalityType
<1>4. PICK less : less = {p \in items \X items : p[1].claim < p[2].claim}
  OBVIOUS
<1>5. \A x, y \in items : <<x, y>> \in less <=> x.claim < y.claim
  BY <1>4
<1>6. PICK f \in [1 .. Cardinality(items) -> items] :
        \A i, j \in 1 .. Cardinality(items) : i < j => <<f[i], f[j]>> \in less
  <2>1. less \in SUBSET (items \X items)
    BY <1>4
  <2>2. \A x \in items : <<x, x>> \notin less
    BY <1>1, <1>5
  <2>3. \A x, y, z \in items : <<x, y>> \in less /\ <<y, z>> \in less => <<x, z>> \in less
    BY <1>1, <1>5
  <2>4. \A x, y \in items : x # y => <<x, y>> \in less \/ <<y, x>> \in less
    BY <1>1, <1>5
  <2>. QED
    BY <1>2, <2>1, <2>2, <2>3, <2>4, SortedListExists DEF Lists
<1>7. \A i, j \in DOMAIN f : i < j => f[i].claim < f[j].claim
  BY <1>5, <1>6
<1>. QED
  BY <1>2, <1>3, <1>7 DEF InOrder

LEMMA ClaimsAreBounded ==
  ASSUME CommitConstants
  PROVE  \E limit \in Nat : \A item \in UNION Batches : item.claim <= limit
<1>1. PICK S : S = {item.claim : item \in UNION Batches}
  OBVIOUS
<1>2. IsFiniteSet(S) /\ S \subseteq Nat
  <2>1. PICK g : g = [item \in UNION Batches |-> item.claim]
    OBVIOUS
  <2>2. g \in Surjection(UNION Batches, S)
    BY <1>1, <2>1 DEF Surjection
  <2>3. IsFiniteSet(S)
    BY <2>2, FS_Surjection DEF CommitConstants
  <2>. QED
    BY <1>1, <2>3 DEF CommitConstants
<1>3. PICK less : less = {p \in S \X S : p[1] < p[2]}
  OBVIOUS
<1>4. \A x, y \in S : <<x, y>> \in less <=> x < y
  BY <1>3
<1>5. PICK f \in [1 .. Cardinality(S) -> S] :
        /\ \A i, j \in 1 .. Cardinality(S) : i < j => <<f[i], f[j]>> \in less
        /\ \A x \in S : \E i \in 1 .. Cardinality(S) : f[i] = x
  <2>1. less \in SUBSET (S \X S)
    BY <1>3
  <2>2. \A x \in S : <<x, x>> \notin less
    BY <1>2, <1>4
  <2>3. \A x, y, z \in S : <<x, y>> \in less /\ <<y, z>> \in less => <<x, z>> \in less
    BY <1>2, <1>4
  <2>4. \A x, y \in S : x # y => <<x, y>> \in less \/ <<y, x>> \in less
    BY <1>2, <1>4
  <2>5. PICK f : Lists(f, S, less)
    BY <1>2, <2>1, <2>2, <2>3, <2>4, SortedListExists
  <2>. QED
    BY <2>5 DEF Lists
<1>6. Cardinality(S) \in Nat
  BY <1>2, FS_CardinalityType
<1>7. CASE S = {}
  BY <1>1, <1>7
<1>8. CASE S # {}
  <2>1. Cardinality(S) >= 1
    BY <1>5, <1>6, <1>8
  <2>2. f[Cardinality(S)] \in S
    BY <1>6, <2>1
  <2>3. \A x \in S : x <= f[Cardinality(S)]
    <3>1. SUFFICES ASSUME NEW i \in 1 .. Cardinality(S)
                   PROVE  f[i] <= f[Cardinality(S)]
      BY <1>5
    <3>2. CASE i = Cardinality(S)
      <4>1. f[i] \in Nat
        BY <1>2, <1>5
      <4>. QED
        BY <3>2, <4>1
    <3>3. CASE i # Cardinality(S)
      <4>1. i < Cardinality(S) /\ Cardinality(S) \in 1 .. Cardinality(S)
        BY <1>6, <2>1, <3>3
      <4>2. <<f[i], f[Cardinality(S)]>> \in less
        BY <1>5, <4>1
      <4>3. f[i] \in S /\ f[i] \in Nat /\ f[Cardinality(S)] \in Nat
        BY <1>2, <1>5, <2>2
      <4>4. f[i] < f[Cardinality(S)]
        BY <1>4, <2>2, <4>2, <4>3
      <4>. QED
        BY <4>3, <4>4
    <3>. QED
      BY <3>2, <3>3
  <2>. QED
    BY <1>1, <1>2, <2>2, <2>3
<1>. QED
  BY <1>7, <1>8

LEMMA OrderedFacts ==
  ASSUME CommitConstants, NEW b \in Ordered
  PROVE  /\ b \in Seq(UNION Batches) /\ Len(b) \in Nat /\ DOMAIN b = 1 .. Len(b)
         /\ Len(b) <= Cardinality(UNION Batches)
         /\ \A i \in DOMAIN b : b[i].claim \in Nat
         /\ \A i, j \in DOMAIN b : i < j => b[i].claim < b[j].claim
<1>1. PICK items \in Batches : b = InOrder(items)
  BY DEF Ordered
<1>2. /\ b \in [1 .. Cardinality(items) -> items] /\ Cardinality(items) \in Nat
      /\ Cardinality(items) <= Cardinality(UNION Batches)
      /\ \A i, j \in DOMAIN b : i < j => b[i].claim < b[j].claim
  BY <1>1, InOrderLists
<1>3. b \in Seq(items)
  BY <1>2
<1>4. Len(b) = Cardinality(items) /\ \A i \in DOMAIN b : b[i] \in UNION Batches
  BY <1>2, <1>3
<1>5. b \in Seq(UNION Batches)
  BY <1>3, <1>4
<1>. QED
  BY <1>2, <1>3, <1>4, <1>5 DEF CommitConstants

(* A step of one client leaves the others as they are.                     *)
Same(k) ==
    /\ pc'[k] = pc[k] /\ batch'[k] = batch[k] /\ next'[k] = next[k]
    /\ rows'[k] = rows[k] /\ status'[k] = status[k] /\ result'[k] = result[k]
    /\ call'[k] = call[k]

LEMMA OthersSame ==
  ASSUME Shape, NEW c \in Clients, NEW k \in Clients, c # k,
         (\E items \in Batches : Submit(c, items)) \/ Step(c) \/ Abort(c)
  PROVE  Same(k)
<1>1. CASE \E items \in Batches : Submit(c, items)
  BY <1>1 DEF Same, Submit, Shape
<1>2. CASE AppendItem(c) \/ DuplicateItem(c)
  BY <1>2 DEF Same, AppendItem, DuplicateItem, Advance, Shape
<1>3. CASE ConflictItem(c) \/ Commit(c) \/ Abort(c)
  BY <1>3 DEF Same, ConflictItem, Commit, Abort, RollBack, End, Shape
<1>. QED
  BY <1>1, <1>2, <1>3 DEF Step

LEMMA SameAppended ==
  ASSUME NEW k \in Clients, Same(k)
  PROVE  Appended(k)' = Appended(k) /\ Rows(k)' = Rows(k)
  BY DEF Same, Appended, Rows, Id

LEMMA SameProgress ==
  ASSUME Shape, NEW k \in Clients, Same(k), Progress(k),
         calls' \in Nat, calls <= calls', UNCHANGED <<transactions, bindings>>
  PROVE  Progress(k)'
<1>1. Rows(k)' = Rows(k)
  BY SameAppended
<1>2. ASSUME NEW i \in DOMAIN status[k], ItemIsAppended(k, i)
      PROVE  ItemIsAppended(k, i)'
  BY <1>2 DEF ItemIsAppended, Bindings, Id, Same
<1>3. ASSUME NEW i \in DOMAIN status[k], ItemIsDuplicate(k, i)
      PROVE  ItemIsDuplicate(k, i)'
  BY <1>3 DEF ItemIsDuplicate, Bindings, Matches, Same
<1>4. DOMAIN status'[k] = DOMAIN status[k]
  BY DEF Same
<1>5. pc'[k] # "idle" => call'[k] \in 1 .. calls' /\ batch'[k] \in Ordered
  BY DEF Same, Progress, Shape
<1>. QED
  BY <1>1, <1>2, <1>3, <1>4, <1>5 DEF Progress, Same

LEMMA SameClient ==
  ASSUME Shape, NEW k \in Clients, Same(k), ClientInv(k),
         calls' \in Nat, calls <= calls', UNCHANGED <<transactions, bindings>>
  PROVE  ClientInv(k)'
<1>1. Progress(k)'
  BY SameProgress DEF ClientInv
<1>2. LeftNothing(k)'
  BY DEF ClientInv, LeftNothing, Same
<1>3. result'[k].status \in Success => Told(k, result[k].ids)'
  BY DEF ClientInv, Told, Table, Same
<1>. QED
  BY <1>1, <1>2, <1>3 DEF ClientInv, Same

LEMMA SameApart ==
  ASSUME NEW c \in Clients, NEW k \in Clients, Same(c), Same(k), Apart(c, k)
  PROVE  Apart(c, k)'
  BY SameAppended DEF Apart, Same

(* A step that leaves the tables alone keeps the invariant if the client   *)
(* that takes it keeps its own.                                            *)
LEMMA QuietStep ==
  ASSUME Inv, Shape', calls <= calls', UNCHANGED <<transactions, bindings>>,
         NEW c \in Clients, ClientInv(c)',
         \A k \in Clients : k # c => Same(k) /\ Apart(c, k)' /\ Apart(k, c)'
  PROVE  Inv'
<1>1. calls \in Nat /\ calls' \in Nat
  BY DEF Inv, Shape
<1>2. \A k \in Clients : ClientInv(k)'
  BY <1>1, SameClient DEF Inv
<1>3. ASSUME NEW k \in Clients, NEW m \in Clients, k # m
      PROVE  Apart(k, m)'
  BY <1>3, SameApart DEF Inv
<1>4. Made(transactions, calls)'
  <2>1. \A t \in transactions : t.id \in Ids /\ t.id[1] <= calls
    BY DEF Inv, Made
  <2>2. \A t \in transactions : t.id[1] \in Int
    BY <2>1 DEF Ids
  <2>. QED
    BY <1>1, <2>1, <2>2 DEF Made
<1>5. Bound(transactions, bindings)'
  BY DEF Inv, Bound
<1>. QED
  BY <1>2, <1>3, <1>4, <1>5 DEF Inv

LEMMA SubmitStep ==
  ASSUME CommitConstants, Inv, NEW c \in Clients, NEW items \in Batches, Submit(c, items)
  PROVE  Inv'
<1>. Shape /\ ClientInv(c)
  BY DEF Inv
<1>1. InOrder(items) \in Ordered /\ calls \in Nat /\ calls' = calls + 1
  BY DEF Ordered, Submit, Shape
<1>2. Len(InOrder(items)) \in Nat
  BY <1>1, OrderedFacts
<1>3. Shape'
  <2>1. calls' \in 0 .. MaxCalls
    BY DEF Submit, Shape, CommitConstants
  <2>2. pc' \in [Clients -> {"idle", "running", "done"}]
    BY DEF Submit, Shape
  <2>4. batch' \in [Clients -> Ordered \cup {<<>>}] /\ next' \in [Clients -> Nat \ {0}]
    BY <1>1 DEF Submit, Shape
  <2>3. /\ status' \in [Clients -> Seq(ItemStatuses)]
        /\ call' \in [Clients -> 0 .. MaxCalls]
        /\ DOMAIN rows' = Clients /\ DOMAIN result' = Clients
    BY <1>1, <2>1 DEF Submit, Shape
  <2>. QED
    BY <2>1, <2>2, <2>3, <2>4 DEF Shape, ItemStatuses, Ids
<1>4. /\ batch'[c] = InOrder(items) /\ next'[c] = 1 /\ status'[c] = <<>>
      /\ call'[c] = calls + 1 /\ rows'[c] = Nothing /\ pc'[c] \in {"running", "done"}
      /\ result'[c].status \in {"NONE", "NOOP", "INVALID"}
      /\ pc'[c] = "running" => result'[c] = NoAnswer
  BY DEF Submit, Shape, ClientInv, Progress, NoAnswer, Answer
<1>5. Appended(c)' = {} /\ Rows(c)' = Nothing
  <2>1. Appended(c)' = {}
    BY <1>4 DEF Appended
  <2>. QED
    BY <2>1 DEF Rows, Nothing
<1>6. Progress(c)'
  BY <1>1, <1>2, <1>4, <1>5 DEF Progress
<1>7. LeftNothing(c)'
  BY <1>1, <1>4 DEF LeftNothing, Submit, Inv, Made, Ids
<1>8. ClientInv(c)'
  BY <1>4, <1>6, <1>7 DEF ClientInv, Success
<1>9. ASSUME NEW k \in Clients, k # c
      PROVE  Same(k) /\ Apart(c, k)' /\ Apart(k, c)'
  <2>1. Same(k)
    BY <1>9, OthersSame
  <2>2. pc'[k] # "idle" => call'[k] \in 1 .. calls
    BY <2>1 DEF Same, Inv, ClientInv, Progress
  <2>. QED
    BY <1>1, <1>4, <1>5, <2>1, <2>2 DEF Apart
<1>. QED
  BY <1>1, <1>3, <1>8, <1>9, QuietStep DEF Submit

(* One more item has its status.                                           *)
LEMMA AdvanceStep ==
  ASSUME CommitConstants, Inv, NEW c \in Clients, Working(c),
         NEW newRows, NEW s \in ItemStatuses, Advance(c, newRows, s),
         \/ /\ s = [status |-> "appended", id |-> FreshId(c)]
            /\ Bindings(Item(c).claim) = {}
         \/ /\ s.status = "idempotent_duplicate"
            /\ \E b \in Bindings(Item(c).claim) : b.id = s.id /\ Matches(b, Item(c)),
         newRows = Rows(c)',
         \A k \in Clients : k # c => Apart(c, k)' /\ Apart(k, c)'
  PROVE  Inv'
<1>. Shape /\ ClientInv(c) /\ Progress(c)
  BY DEF Inv, ClientInv
<1>1. /\ pc[c] = "running" /\ batch[c] \in Ordered /\ Len(status[c]) + 1 = next[c]
      /\ next[c] \in Nat \ {0} /\ status[c] \in Seq(ItemStatuses)
  BY DEF Working, Progress, Shape
<1>2. /\ status'[c] = Append(status[c], s) /\ next'[c] = next[c] + 1 /\ rows'[c] = newRows
      /\ UNCHANGED <<transactions, bindings, pc, batch, result, call, calls>>
  BY DEF Advance, Shape
<1>3. /\ status'[c] \in Seq(ItemStatuses) /\ Len(status'[c]) = next[c]
      /\ DOMAIN status'[c] = DOMAIN status[c] \cup {next[c]}
      /\ status'[c][next[c]] = s /\ next[c] \notin DOMAIN status[c]
      /\ \A i \in DOMAIN status[c] : status'[c][i] = status[c][i]
  BY <1>1, <1>2
<1>4. Shape'
  <2>1. next' \in [Clients -> Nat \ {0}]
    BY <1>1 DEF Advance, Shape
  <2>2. status' \in [Clients -> Seq(ItemStatuses)]
    BY <1>2, <1>3 DEF Advance, Shape
  <2>. QED
    BY <2>1, <2>2 DEF Advance, Shape, ItemStatuses, Ids
<1>5. ASSUME NEW i \in DOMAIN status'[c]
      PROVE  (ItemIsAppended(c, i) \/ ItemIsDuplicate(c, i))'
  <2>1. CASE i \in DOMAIN status[c]
    <3>1. ItemIsAppended(c, i) \/ ItemIsDuplicate(c, i)
      BY <1>1, <2>1 DEF Progress
    <3>. QED
      BY <1>2, <1>3, <2>1, <3>1 DEF ItemIsAppended, ItemIsDuplicate, Bindings, Matches, Id
  <2>2. CASE i = next[c]
    BY <1>2, <1>3, <2>2
    DEF ItemIsAppended, ItemIsDuplicate, Bindings, Matches, Id, FreshId, Item
  <2>. QED
    BY <1>3, <2>1, <2>2
<1>6. Progress(c)'
  <2>1. next'[c] <= Len(batch'[c]) + 1
    BY <1>1, <1>2, OrderedFacts DEF Working
  <2>2. Len(status'[c]) + 1 = next'[c]
    BY <1>1, <1>2, <1>3
  <2>3. rows'[c] = Rows(c)'
    BY <1>2
  <2>4. call'[c] \in 1 .. calls' /\ batch'[c] \in Ordered /\ pc'[c] = "running"
        /\ result'[c] = NoAnswer
    BY <1>1, <1>2 DEF Progress
  <2>. QED
    BY <1>5, <2>1, <2>2, <2>3, <2>4 DEF Progress
<1>7. LeftNothing(c)' /\ result'[c].status \notin Success
  BY <1>1, <1>2 DEF LeftNothing, ClientInv, Progress, NoAnswer, Answer, Success
<1>8. ClientInv(c)'
  BY <1>6, <1>7 DEF ClientInv
<1>9. \A k \in Clients : k # c => Same(k)
  BY DEF Advance, Same, Shape
<1>. QED
  BY <1>2, <1>4, <1>8, <1>9, QuietStep DEF Shape

LEMMA AppendItemStep ==
  ASSUME CommitConstants, Inv, NEW c \in Clients, AppendItem(c)
  PROVE  Inv'
<1>. Shape /\ ClientInv(c) /\ Progress(c)
  BY DEF Inv, ClientInv
<1>1. /\ pc[c] = "running" /\ next[c] <= Len(batch[c]) /\ batch[c] \in Ordered
      /\ Len(status[c]) + 1 = next[c] /\ next[c] \in Nat \ {0}
      /\ status[c] \in Seq(ItemStatuses) /\ call[c] \in 1 .. MaxCalls
  BY DEF AppendItem, Free, Working, Progress, Shape
<1>2. PICK s : s = [status |-> "appended", id |-> FreshId(c)]
  OBVIOUS
<1>3. s \in ItemStatuses
  <2>1. next[c] \in 1 .. Cardinality(UNION Batches)
    <3>1. Len(batch[c]) \in Nat /\ Len(batch[c]) <= Cardinality(UNION Batches)
      BY <1>1, OrderedFacts
    <3>2. Cardinality(UNION Batches) \in Nat
      BY ItemsAreFinite
    <3>. QED
      BY <1>1, <3>1, <3>2
  <2>. QED
    BY <1>1, <1>2, <2>1 DEF ItemStatuses, Ids, FreshId
<1>4. PICK newRows :
        newRows = [transactions |-> rows[c].transactions \cup
                     {[id |-> FreshId(c), economics |-> Item(c).economics]},
                   bindings |-> rows[c].bindings \cup
                     {[claim |-> Item(c).claim, plan |-> Item(c).plan, id |-> FreshId(c)]}]
  OBVIOUS
<1>5. Advance(c, newRows, s)
  BY <1>2, <1>4 DEF AppendItem
<1>6. /\ UNCHANGED <<batch, call, pc>> /\ status'[c] = Append(status[c], s)
      /\ \A k \in Clients : k # c => Same(k)
  BY <1>5 DEF Advance, Shape, Same
<1>7. Appended(c)' = Appended(c) \cup {next[c]}
  <2>1. /\ DOMAIN status'[c] = DOMAIN status[c] \cup {next[c]}
        /\ status'[c][next[c]] = s
        /\ \A i \in DOMAIN status[c] : status'[c][i] = status[c][i]
    BY <1>1, <1>6
  <2>. QED
    BY <1>2, <2>1 DEF Appended
<1>8. newRows = Rows(c)'
  <2>1. rows[c] = Rows(c)
    BY <1>1 DEF Progress
  <2>2. rows[c].transactions
          = {[id |-> Id(c, i), economics |-> batch[c][i].economics] : i \in Appended(c)}
    BY <2>1 DEF Rows
  <2>3. rows[c].bindings
          = {[claim |-> batch[c][i].claim, plan |-> batch[c][i].plan, id |-> Id(c, i)] :
                i \in Appended(c)}
    BY <2>1 DEF Rows
  <2>4. newRows.transactions
          = {[id |-> Id(c, i), economics |-> batch[c][i].economics] :
                i \in Appended(c) \cup {next[c]}}
    BY <1>4, <2>2 DEF Id, FreshId, Item
  <2>5. newRows.bindings
          = {[claim |-> batch[c][i].claim, plan |-> batch[c][i].plan, id |-> Id(c, i)] :
                i \in Appended(c) \cup {next[c]}}
    BY <1>4, <2>3 DEF Id, FreshId, Item
  <2>6. newRows = [transactions |-> newRows.transactions, bindings |-> newRows.bindings]
    BY <1>4
  <2>. QED
    BY <1>6, <1>7, <2>4, <2>5, <2>6 DEF Rows, Id
<1>9. ASSUME NEW k \in Clients, k # c
      PROVE  Apart(c, k)' /\ Apart(k, c)'
  <2>1. Apart(c, k) /\ Apart(k, c) /\ Same(k) /\ Appended(k)' = Appended(k)
    BY <1>6, <1>9, SameAppended DEF Inv
  <2>2. ASSUME pc[k] = "running", NEW j \in Appended(k)
        PROVE  batch[k][j].claim # Item(c).claim
    <3>1. ~ Holds(k, Item(c).claim)
      BY <1>9 DEF AppendItem, Free, Waits
    <3>2. rows[k] = Rows(k)
      BY <2>2 DEF Inv, ClientInv, Progress
    <3>3. [claim |-> batch[k][j].claim, plan |-> batch[k][j].plan, id |-> Id(k, j)]
            \in rows[k].bindings
      BY <2>2, <3>2 DEF Rows
    <3>. QED
      BY <3>1, <3>3 DEF Holds
  <2>. QED
    BY <1>6, <1>7, <2>1, <2>2 DEF Apart, Same, Item
<1>10. Working(c) /\ Bindings(Item(c).claim) = {}
  BY DEF AppendItem, Free
<1>. QED
  BY <1>2, <1>3, <1>5, <1>8, <1>9, <1>10, AdvanceStep

LEMMA DuplicateItemStep ==
  ASSUME CommitConstants, Inv, NEW c \in Clients, DuplicateItem(c)
  PROVE  Inv'
<1>. Shape /\ ClientInv(c) /\ Progress(c)
  BY DEF Inv, ClientInv
<1>1. PICK b \in Bindings(Item(c).claim) :
        /\ Matches(b, Item(c))
        /\ Advance(c, AfterViolation(c), [status |-> "idempotent_duplicate", id |-> b.id])
  BY DEF DuplicateItem
<1>2. PICK s : s = [status |-> "idempotent_duplicate", id |-> b.id]
  OBVIOUS
<1>3. s \in ItemStatuses
  <2>1. b.id \in {t.id : t \in transactions}
    BY DEF Inv, Bound, Bindings
  <2>2. b.id \in Ids
    BY <2>1 DEF Inv, Made
  <2>. QED
    BY <1>2, <2>2 DEF ItemStatuses
<1>4. PICK newRows : newRows = rows[c]
  OBVIOUS
<1>5. Advance(c, newRows, s)
  BY <1>1, <1>2, <1>4 DEF AfterViolation
<1>6. /\ UNCHANGED <<batch, call, pc>> /\ status'[c] = Append(status[c], s)
      /\ status[c] \in Seq(ItemStatuses) /\ pc[c] = "running"
      /\ \A k \in Clients : k # c => Same(k)
  BY <1>5 DEF Advance, Shape, Same, DuplicateItem, Free, Working
<1>7. Appended(c)' = Appended(c)
  <2>1. PICK n : n = Len(status[c]) + 1
    OBVIOUS
  <2>2. /\ DOMAIN status'[c] = DOMAIN status[c] \cup {n} /\ n \notin DOMAIN status[c]
        /\ status'[c][n] = s
        /\ \A i \in DOMAIN status[c] : status'[c][i] = status[c][i]
    BY <1>6, <2>1
  <2>. QED
    BY <1>2, <2>2 DEF Appended
<1>8. newRows = Rows(c)'
  <2>1. rows[c] = Rows(c)
    BY <1>6 DEF Progress
  <2>. QED
    BY <1>4, <1>6, <1>7, <2>1 DEF Rows, Id
<1>9. ASSUME NEW k \in Clients, k # c
      PROVE  Apart(c, k)' /\ Apart(k, c)'
  <2>1. Apart(c, k) /\ Apart(k, c) /\ Same(k) /\ Appended(k)' = Appended(k)
    BY <1>6, <1>9, SameAppended DEF Inv
  <2>. QED
    BY <1>6, <1>7, <2>1 DEF Apart, Same
<1>10. Working(c)
  BY DEF DuplicateItem, Free
<1>. QED
  BY <1>1, <1>2, <1>3, <1>5, <1>8, <1>9, <1>10, AdvanceStep

LEMMA RollBackStep ==
  ASSUME CommitConstants, Inv, NEW c \in Clients, pc[c] = "running",
         NEW answer, RollBack(c, answer), answer.status \in {"CONFLICT", "FAILED"}
  PROVE  Inv'
<1>. Shape /\ ClientInv(c) /\ Progress(c)
  BY DEF Inv, ClientInv
<1>1. /\ pc'[c] = "done" /\ result'[c] = answer /\ rows'[c] = Nothing
      /\ UNCHANGED <<transactions, bindings, batch, next, status, call, calls>>
      /\ \A k \in Clients : k # c => Same(k)
  BY DEF RollBack, End, Shape, Same
<1>2. Shape'
  BY DEF RollBack, End, Shape, ItemStatuses, Ids
<1>3. Progress(c)'
  BY <1>1 DEF Progress
<1>4. LeftNothing(c)'
  BY <1>1 DEF LeftNothing, ClientInv
<1>5. ClientInv(c)'
  BY <1>1, <1>3, <1>4 DEF ClientInv, Success
<1>6. ASSUME NEW k \in Clients, k # c
      PROVE  Apart(c, k)' /\ Apart(k, c)'
  <2>1. Apart(c, k) /\ Apart(k, c) /\ Same(k)
    BY <1>1, <1>6 DEF Inv
  <2>. QED
    BY <1>1, <2>1 DEF Apart, Same
<1>. QED
  BY <1>1, <1>2, <1>5, <1>6, QuietStep DEF Shape

LEMMA UndoStep ==
  ASSUME CommitConstants, Inv, NEW c \in Clients, ConflictItem(c) \/ Abort(c)
  PROVE  Inv'
<1>1. CASE ConflictItem(c)
  <2>1. PICK b \in bindings : RollBack(c, Answer("CONFLICT", <<b.id>>, Item(c).claim))
    BY <1>1 DEF ConflictItem, Bindings
  <2>2. PICK answer : answer = Answer("CONFLICT", <<b.id>>, Item(c).claim)
    OBVIOUS
  <2>3. answer.status = "CONFLICT"
    BY <2>2 DEF Answer
  <2>4. pc[c] = "running"
    BY <1>1 DEF ConflictItem, Free, Working
  <2>. QED
    BY <2>1, <2>2, <2>3, <2>4, RollBackStep
<1>2. CASE Abort(c)
  <2>1. PICK answer : answer = Answer("FAILED", <<>>, 0)
    OBVIOUS
  <2>2. answer.status = "FAILED"
    BY <2>1 DEF Answer
  <2>. QED
    BY <1>2, <2>1, <2>2, RollBackStep DEF Abort
<1>. QED
  BY <1>1, <1>2

-----------------------------------------------------------------------------
(* The commit.                                                             *)

LEMMA JoinedRow ==
  ASSUME NEW ts, NEW bs, Bound(ts, bs), NEW row
  PROVE  row \in Joined(ts, bs) <=>
           \E b \in bs, t \in ts :
             /\ t.id = b.id
             /\ row = [claim |-> b.claim, plan |-> b.plan, id |-> b.id, economics |-> t.economics]
<1>1. ASSUME NEW b \in bs
      PROVE  \E t \in ts : t.id = b.id /\ \A u \in ts : u.id = b.id => u = t
  BY DEF Bound
<1>2. ASSUME NEW b \in bs, NEW t \in ts, t.id = b.id
      PROVE  (CHOOSE u \in ts : u.id = b.id) = t
  BY <1>1, <1>2
<1>3. ASSUME row \in Joined(ts, bs)
      PROVE  \E b \in bs, t \in ts :
               /\ t.id = b.id
               /\ row = [claim |-> b.claim, plan |-> b.plan, id |-> b.id,
                         economics |-> t.economics]
  <2>1. PICK b \in bs :
          row = [claim |-> b.claim, plan |-> b.plan, id |-> b.id,
                 economics |-> (CHOOSE t \in ts : t.id = b.id).economics]
    BY <1>3 DEF Joined
  <2>2. PICK t \in ts : t.id = b.id
    BY <1>1
  <2>3. (CHOOSE u \in ts : u.id = b.id) = t
    BY <1>2, <2>2
  <2>. QED
    BY <2>1, <2>2, <2>3
<1>4. ASSUME NEW b \in bs, NEW t \in ts, t.id = b.id,
             row = [claim |-> b.claim, plan |-> b.plan, id |-> b.id, economics |-> t.economics]
      PROVE  row \in Joined(ts, bs)
  <2>1. (CHOOSE u \in ts : u.id = b.id) = t
    BY <1>2, <1>4
  <2>. QED
    BY <1>4, <2>1 DEF Joined
<1>. QED
  BY <1>3, <1>4

(* What was in the joined table stays in it when both tables grow.         *)
LEMMA JoinedGrows ==
  ASSUME NEW ts, NEW bs, Bound(ts, bs), NEW us, NEW ds, Bound(us, ds),
         ts \subseteq us, bs \subseteq ds
  PROVE  Joined(ts, bs) \subseteq Joined(us, ds)
<1>1. SUFFICES ASSUME NEW row \in Joined(ts, bs)
               PROVE  row \in Joined(us, ds)
  OBVIOUS
<1>2. PICK b \in bs, t \in ts :
        /\ t.id = b.id
        /\ row = [claim |-> b.claim, plan |-> b.plan, id |-> b.id, economics |-> t.economics]
  BY JoinedRow
<1>. QED
  BY <1>2, JoinedRow

(* A running client is about to add what the tables do not have.           *)
LEMMA CommitRows ==
  ASSUME CommitConstants, Inv, NEW c \in Clients, Commit(c)
  PROVE  /\ transactions' = transactions \cup Rows(c).transactions
         /\ bindings' = bindings \cup Rows(c).bindings
         /\ Bound(transactions, bindings)' /\ Made(transactions, calls)'
<1>. Shape /\ Progress(c)
  BY DEF Inv, ClientInv
<1>1. /\ pc[c] = "running" /\ rows[c] = Rows(c) /\ calls' = calls
      /\ call[c] \in 1 .. calls /\ batch[c] \in Ordered
  BY DEF Commit, End, Progress
<1>2. /\ transactions' = transactions \cup Rows(c).transactions
      /\ bindings' = bindings \cup Rows(c).bindings
  BY <1>1 DEF Commit
<1>3. /\ \A t \in Rows(c).transactions : \E i \in Appended(c) :
            t = [id |-> Id(c, i), economics |-> batch[c][i].economics]
      /\ \A i \in Appended(c) :
            [id |-> Id(c, i), economics |-> batch[c][i].economics] \in Rows(c).transactions
      /\ \A b \in Rows(c).bindings : \E i \in Appended(c) :
            b = [claim |-> batch[c][i].claim, plan |-> batch[c][i].plan, id |-> Id(c, i)]
      /\ \A i \in Appended(c) :
            [claim |-> batch[c][i].claim, plan |-> batch[c][i].plan, id |-> Id(c, i)]
              \in Rows(c).bindings
  BY DEF Rows
<1>4. Appended(c) \subseteq DOMAIN batch[c] /\ Appended(c) \subseteq 1 .. Cardinality(UNION Batches)
  <2>1. DOMAIN status[c] = 1 .. Len(status[c]) /\ Len(status[c]) \in Nat
    BY DEF Shape
  <2>2. Len(status[c]) <= Len(batch[c])
    BY <1>1, <2>1, OrderedFacts DEF Progress, Shape
  <2>3. Cardinality(UNION Batches) \in Nat
    BY ItemsAreFinite
  <2>4. /\ Len(batch[c]) \in Nat /\ DOMAIN batch[c] = 1 .. Len(batch[c])
        /\ Len(batch[c]) <= Cardinality(UNION Batches)
    BY <1>1, OrderedFacts
  <2>. QED
    BY <2>1, <2>2, <2>3, <2>4 DEF Appended
<1>5. \A i, j \in Appended(c) : batch[c][i].claim = batch[c][j].claim => i = j
  <2>1. \A i, j \in DOMAIN batch[c] : i < j => batch[c][i].claim < batch[c][j].claim
    BY <1>1, OrderedFacts
  <2>2. \A i \in DOMAIN batch[c] : i \in Int /\ batch[c][i].claim \in Nat
    BY <1>1, OrderedFacts
  <2>. QED
    BY <1>4, <2>1, <2>2
<1>6. \A i, j \in Appended(c) : Id(c, i) = Id(c, j) => i = j
  BY DEF Id
<1>7. \A i \in Appended(c), t \in transactions : t.id # Id(c, i)
  BY <1>1 DEF Inv, ClientInv, LeftNothing, Id
<1>8. \A i \in Appended(c), b \in bindings :
        b.id # Id(c, i) /\ b.claim # batch[c][i].claim
  <2>1. ASSUME NEW i \in Appended(c), NEW b \in bindings
        PROVE  b.id # Id(c, i)
    BY <1>7 DEF Inv, Bound
  <2>2. ASSUME NEW i \in Appended(c), NEW b \in bindings
        PROVE  b.claim # batch[c][i].claim
    <3>1. i \in DOMAIN status[c] /\ status[c][i].status = "appended"
      BY DEF Appended
    <3>2. ItemIsAppended(c, i)
      BY <1>1, <3>1 DEF Progress, ItemIsDuplicate
    <3>. QED
      BY <3>2 DEF ItemIsAppended, Bindings
  <2>. QED
    BY <2>1, <2>2
<1>9. {t.id : t \in transactions'} = {b.id : b \in bindings'}
  <2>1. {t.id : t \in Rows(c).transactions} = {Id(c, i) : i \in Appended(c)}
    <3>1. \A t \in Rows(c).transactions : \E i \in Appended(c) : t.id = Id(c, i)
      BY <1>3
    <3>2. \A i \in Appended(c) : \E t \in Rows(c).transactions : t.id = Id(c, i)
      BY <1>3
    <3>. QED
      BY <3>1, <3>2
  <2>2. {b.id : b \in Rows(c).bindings} = {Id(c, i) : i \in Appended(c)}
    <3>1. \A b \in Rows(c).bindings : \E i \in Appended(c) : b.id = Id(c, i)
      BY <1>3
    <3>2. \A i \in Appended(c) : \E b \in Rows(c).bindings : b.id = Id(c, i)
      BY <1>3
    <3>. QED
      BY <3>1, <3>2
  <2>3. {t.id : t \in transactions} = {b.id : b \in bindings}
    BY DEF Inv, Bound
  <2>4. {t.id : t \in transactions'} = {t.id : t \in transactions} \cup {t.id : t \in Rows(c).transactions}
    BY <1>2
  <2>5. {b.id : b \in bindings'} = {b.id : b \in bindings} \cup {b.id : b \in Rows(c).bindings}
    BY <1>2
  <2>. QED
    BY <2>1, <2>2, <2>3, <2>4, <2>5
<1>10. \A t, u \in transactions' : t.id = u.id => t = u
  BY <1>2, <1>3, <1>6, <1>7 DEF Inv, Bound
<1>11. \A b, d \in bindings' : (b.claim = d.claim \/ b.id = d.id) => b = d
  BY <1>2, <1>3, <1>5, <1>6, <1>8 DEF Inv, Bound
<1>12. Made(transactions, calls)'
  <2>1. calls \in 0 .. MaxCalls /\ MaxCalls \in Nat
    BY DEF Shape, CommitConstants
  <2>2. ASSUME NEW i \in Appended(c)
        PROVE  Id(c, i) \in Ids /\ Id(c, i)[1] <= calls
    <3>1. call[c] \in 1 .. MaxCalls /\ call[c] <= calls
      BY <1>1, <2>1
    <3>2. i \in 1 .. Cardinality(UNION Batches)
      BY <1>4
    <3>. QED
      BY <3>1, <3>2 DEF Id, Ids
  <2>3. \A t \in Rows(c).transactions : t.id \in Ids /\ t.id[1] <= calls
    BY <1>3, <2>2
  <2>4. \A t \in transactions : t.id \in Ids /\ t.id[1] <= calls
    BY DEF Inv, Made
  <2>5. Ids' = Ids
    BY DEF Ids
  <2>. QED
    BY <1>1, <1>2, <2>3, <2>4, <2>5 DEF Made
<1>. QED
  BY <1>2, <1>9, <1>10, <1>11, <1>12 DEF Bound

(* Every item of the batch is in the tables of the commit, under the id    *)
(* its status names.                                                       *)
LEMMA CommittedItem ==
  ASSUME CommitConstants, Inv, NEW c \in Clients, Commit(c), NEW i \in DOMAIN status[c]
  PROVE  \E b \in Table' :
           /\ b.claim = batch[c][i].claim /\ b.id = status[c][i].id
           /\ b.plan = batch[c][i].plan /\ b.economics = batch[c][i].economics
<1>1. /\ transactions' = transactions \cup Rows(c).transactions
      /\ bindings' = bindings \cup Rows(c).bindings
      /\ Bound(transactions', bindings')
  BY CommitRows DEF Bound
<1>2. Table' = Joined(transactions', bindings')
  BY DEF Table, Joined
<1>3. ItemIsAppended(c, i) \/ ItemIsDuplicate(c, i)
  BY DEF Commit, Inv, ClientInv, Progress
<1>4. \E b \in bindings', t \in transactions' :
        /\ t.id = b.id /\ b.claim = batch[c][i].claim /\ b.id = status[c][i].id
        /\ b.plan = batch[c][i].plan /\ t.economics = batch[c][i].economics
  <2>1. CASE ItemIsAppended(c, i)
    <3>1. i \in Appended(c) /\ status[c][i].id = Id(c, i)
      BY <2>1 DEF Appended, ItemIsAppended
    <3>2. [id |-> Id(c, i), economics |-> batch[c][i].economics] \in transactions'
      BY <1>1, <3>1 DEF Rows
    <3>3. [claim |-> batch[c][i].claim, plan |-> batch[c][i].plan, id |-> Id(c, i)] \in bindings'
      BY <1>1, <3>1 DEF Rows
    <3>. QED
      BY <3>1, <3>2, <3>3
  <2>2. CASE ItemIsDuplicate(c, i)
    BY <1>1, <2>2 DEF ItemIsDuplicate, Bindings, Matches
  <2>. QED
    BY <1>3, <2>1, <2>2
<1>5. PICK b \in bindings', t \in transactions' :
        /\ t.id = b.id /\ b.claim = batch[c][i].claim /\ b.id = status[c][i].id
        /\ b.plan = batch[c][i].plan /\ t.economics = batch[c][i].economics
  BY <1>4
<1>6. PICK row : row = [claim |-> b.claim, plan |-> b.plan, id |-> b.id, economics |-> t.economics]
  OBVIOUS
<1>7. row \in Table'
  BY <1>1, <1>2, <1>5, <1>6, JoinedRow
<1>. QED
  BY <1>5, <1>6, <1>7

LEMMA TableGrows ==
  ASSUME CommitConstants, Inv, NEW c \in Clients, Commit(c)
  PROVE  Table \subseteq Table'
<1>1. Bound(transactions', bindings')
  BY CommitRows DEF Bound
<1>2. Bound(transactions, bindings)
  BY DEF Inv
<1>3. transactions \subseteq transactions' /\ bindings \subseteq bindings'
  BY CommitRows
<1>4. Joined(transactions, bindings) \subseteq Joined(transactions', bindings')
  BY <1>1, <1>2, <1>3, JoinedGrows
<1>. QED
  BY <1>4 DEF Table, Joined

LEMMA CommitStep ==
  ASSUME CommitConstants, Inv, NEW c \in Clients, Commit(c)
  PROVE  Inv'
<1>. Shape /\ ClientInv(c) /\ Progress(c)
  BY DEF Inv, ClientInv
<1>1. /\ pc[c] = "running" /\ pc'[c] = "done" /\ rows'[c] = Nothing
      /\ UNCHANGED <<batch, next, status, call, calls>>
      /\ result'[c] \in {Answer(BatchStatus(c), [i \in DOMAIN status[c] |-> status[c][i].id], 0),
                         Answer("FAILED", <<>>, 0)}
      /\ \A k \in Clients : k # c => Same(k)
  BY DEF Commit, End, Shape, Same
<1>2. Shape'
  BY DEF Commit, End, Shape, ItemStatuses, Ids
<1>3. /\ transactions' = transactions \cup Rows(c).transactions
      /\ bindings' = bindings \cup Rows(c).bindings
  BY CommitRows
<1>4. Progress(c)'
  BY <1>1 DEF Progress
<1>5. LeftNothing(c)'
  <2>1. result'[c].status \in {"APPENDED", "IDEMPOTENT_DUPLICATE", "FAILED"}
    BY <1>1 DEF Answer, BatchStatus
  <2>. QED
    BY <1>1, <2>1 DEF LeftNothing
<1>6. result'[c].status \in Success => Told(c, result[c].ids)'
  <2>1. SUFFICES ASSUME result'[c].status \in Success
                 PROVE  Told(c, result[c].ids)'
    OBVIOUS
  <2>2. result'[c].ids = [i \in DOMAIN status[c] |-> status[c][i].id]
    BY <1>1, <2>1 DEF Answer, Success
  <2>3. /\ batch[c] \in Ordered /\ Len(status[c]) + 1 = next[c] /\ next[c] <= Len(batch[c]) + 1
        /\ next[c] > Len(batch[c]) /\ DOMAIN status[c] = 1 .. Len(status[c])
        /\ Len(status[c]) \in Nat /\ next[c] \in Nat
    BY <1>1 DEF Commit, Progress, Shape
  <2>4. /\ DOMAIN batch[c] = 1 .. Len(batch[c]) /\ Len(batch[c]) \in Nat
    BY <2>3, OrderedFacts
  <2>5. DOMAIN status[c] = DOMAIN batch[c] /\ Len(status[c]) = Len(batch[c])
    BY <2>3, <2>4
  <2>6. Len(result'[c].ids) = Len(batch[c])
    BY <2>2, <2>3, <2>5
  <2>7. \A i \in DOMAIN batch[c] : result'[c].ids[i] = status[c][i].id
    BY <2>2, <2>5
  <2>8. \A i \in DOMAIN batch[c] : \E b \in Table' :
          /\ b.claim = batch[c][i].claim /\ b.id = status[c][i].id
          /\ b.plan = batch[c][i].plan /\ b.economics = batch[c][i].economics
    BY <2>5, CommittedItem
  <2>. QED
    BY <1>1, <2>6, <2>7, <2>8 DEF Told
<1>7. ASSUME NEW k \in Clients, k # c
      PROVE  ClientInv(k)'
  <2>1. Same(k) /\ ClientInv(k) /\ Apart(c, k) /\ Appended(k)' = Appended(k) /\ Rows(k)' = Rows(k)
    BY <1>1, <1>7, SameAppended DEF Inv
  <2>2. \A t \in Rows(c).transactions : t.id[1] = call[c]
    BY DEF Rows, Id
  <2>3. \A b \in Rows(c).bindings : \E i \in Appended(c) : b.claim = batch[c][i].claim
    BY DEF Rows
  <2>4. ASSUME pc[k] = "running", NEW i \in DOMAIN status[k]
        PROVE  (ItemIsAppended(k, i) \/ ItemIsDuplicate(k, i))'
    <3>1. ItemIsAppended(k, i) \/ ItemIsDuplicate(k, i)
      BY <2>1, <2>4 DEF ClientInv, Progress
    <3>2. CASE ItemIsAppended(k, i)
      <4>1. i \in Appended(k)
        BY <3>2 DEF Appended, ItemIsAppended
      <4>2. \A b \in Rows(c).bindings : b.claim # batch[k][i].claim
        BY <1>1, <2>1, <2>3, <2>4, <4>1 DEF Apart
      <4>. QED
        BY <1>1, <1>3, <2>1, <3>2, <4>2 DEF ItemIsAppended, Bindings, Same, Id
    <3>3. CASE ItemIsDuplicate(k, i)
      BY <1>1, <1>3, <2>1, <3>3 DEF ItemIsDuplicate, Bindings, Matches, Same
    <3>. QED
      BY <3>1, <3>2, <3>3
  <2>5. Progress(k)'
    <3>1. pc'[k] # "idle" => call'[k] \in 1 .. calls' /\ batch'[k] \in Ordered
      BY <1>1, <2>1 DEF Same, ClientInv, Progress
    <3>. QED
      BY <2>1, <2>4, <3>1 DEF Progress, ClientInv, Same
  <2>6. LeftNothing(k)'
    <3>1. pc[k] = "running" \/ result[k].status \in {"CONFLICT", "INVALID"} => call[k] # call[c]
      BY <1>1, <2>1 DEF ClientInv, Progress, Apart, NoAnswer, Answer
    <3>. QED
      BY <1>3, <2>1, <2>2, <3>1 DEF LeftNothing, ClientInv, Same
  <2>7. result'[k].status \in Success => Told(k, result[k].ids)'
    BY <2>1, TableGrows DEF ClientInv, Told, Same
  <2>. QED
    BY <2>5, <2>6, <2>7 DEF ClientInv
<1>8. ASSUME NEW k \in Clients, NEW m \in Clients, k # m
      PROVE  Apart(k, m)'
  <2>1. Apart(k, m)
    BY <1>8 DEF Inv
  <2>2. \A n \in Clients : n # c => Same(n) /\ Appended(n)' = Appended(n)
    BY <1>1, SameAppended
  <2>. QED
    BY <1>1, <1>8, <2>1, <2>2 DEF Apart, Same
<1>9. ClientInv(c)'
  BY <1>4, <1>5, <1>6 DEF ClientInv
<1>10. Bound(transactions, bindings)' /\ Made(transactions, calls)'
  BY CommitRows
<1>. QED
  BY <1>2, <1>7, <1>8, <1>9, <1>10 DEF Inv

-----------------------------------------------------------------------------
LEMMA InvInit == ASSUME CommitConstants, Init PROVE Inv
<1>1. Shape
  BY DEF Init, Shape, CommitConstants
<1>2. Bound(transactions, bindings) /\ Made(transactions, calls)
  BY DEF Init, Bound, Made
<1>3. ASSUME NEW c \in Clients
      PROVE  ClientInv(c)
  <2>1. Progress(c)
    BY DEF Init, Progress
  <2>2. LeftNothing(c) /\ result[c].status \notin Success
    BY DEF Init, LeftNothing, NoAnswer, Answer, Success
  <2>. QED
    BY <2>1, <2>2 DEF ClientInv
<1>4. \A c, k \in Clients : Apart(c, k)
  BY DEF Init, Apart
<1>. QED
  BY <1>1, <1>2, <1>3, <1>4 DEF Inv

LEMMA InvStep == ASSUME CommitConstants, Inv, [Next]_vars PROVE Inv'
<1>1. CASE Next
  <2>1. PICK c \in Clients :
          \/ \E items \in Batches : Submit(c, items)
          \/ Step(c)
          \/ Abort(c)
    BY <1>1 DEF Next
  <2>. QED
    BY <2>1, SubmitStep, AppendItemStep, DuplicateItemStep, UndoStep, CommitStep DEF Step
<1>2. CASE UNCHANGED vars
  <2>1. \A c \in Clients : Same(c)
    BY <1>2 DEF vars, Same
  <2>2. Shape'
    BY <1>2 DEF vars, Inv, Shape, ItemStatuses, Ids
  <2>3. calls' \in Nat /\ calls <= calls' /\ UNCHANGED <<transactions, bindings>>
    BY <1>2, <2>2 DEF vars, Shape
  <2>4. \A c \in Clients : ClientInv(c)'
    BY <2>1, <2>3, SameClient DEF Inv
  <2>5. \A c, k \in Clients : c # k => Apart(c, k)'
    BY <2>1, SameApart DEF Inv
  <2>6. Bound(transactions, bindings)' /\ Made(transactions, calls)'
    BY <1>2 DEF vars, Inv, Bound, Made, Ids
  <2>. QED
    BY <2>2, <2>4, <2>5, <2>6 DEF Inv
<1>. QED
  BY <1>1, <1>2

(* What the invariant says of the properties.                              *)
LEMMA InvTypeOK == ASSUME CommitConstants, Inv PROVE TypeOK
<1>1. \A t \in transactions : t.id \in Ids
  BY DEF Inv, Made
<1>2. pc \in [Clients -> {"idle", "running", "done"}]
  BY DEF Inv, Shape
<1>3. ASSUME NEW c \in Clients
      PROVE  /\ pc[c] = "running" => Len(status[c]) + 1 = next[c]
             /\ pc[c] # "running" => rows[c] = Nothing
             /\ next[c] \in 1 .. Len(batch[c]) + 1
  <2>1. Progress(c) /\ next[c] \in Nat \ {0}
    BY DEF Inv, ClientInv, Shape
  <2>2. Len(batch[c]) \in Nat
    <3>1. CASE batch[c] \in Ordered
      BY <3>1, OrderedFacts
    <3>2. CASE batch[c] = <<>>
      BY <3>2
    <3>. QED
      BY <3>1, <3>2 DEF Inv, Shape
  <2>. QED
    BY <2>1, <2>2 DEF Progress
<1>. QED
  BY <1>1, <1>2, <1>3 DEF TypeOK

LEMMA InvAnswers ==
  ASSUME CommitConstants, Inv PROVE EveryTransactionIsBound /\ AnswersMatchTables
<1>1. EveryTransactionIsBound
  BY DEF Inv, Bound, EveryTransactionIsBound
<1>2. ASSUME NEW c \in Clients
      PROVE  ClientInv(c)
  BY DEF Inv
<1>3. AnswersMatchTables
  BY <1>2 DEF AnswersMatchTables, ClientInv, Told, LeftNothing, Success
<1>. QED
  BY <1>1, <1>3

-----------------------------------------------------------------------------
(* No circle of waits: a client waits for a claim beyond all it holds, so  *)
(* of those in a circle one waits for the last claim, and the one it waits *)
(* for would wait for a later one.                                         *)

LEMMA LeastNatural ==
  ASSUME NEW T, T \subseteq Nat, T # {}
  PROVE  \E x \in T : \A y \in T : x <= y
<1>1. PICK R : R = {ss \in Nat \X Nat : ss[1] < ss[2]}
  OBVIOUS
<1>2. IsWellFoundedOn(R, Nat)
  BY <1>1, NatLessThanWellFounded, Zenon DEF OpToRel
<1>3. PICK x \in T : \A y \in T : ~ (<<y, x>> \in R)
  BY <1>2, WFMin
<1>4. \A y \in T : y < x => <<y, x>> \in R
  BY <1>1
<1>5. \A y \in T : ~ (y < x)
  BY <1>3, <1>4
<1>6. \A y \in T : x <= y
  BY <1>5
<1>. QED
  BY <1>6

LEMMA WaitsForLater ==
  ASSUME CommitConstants, Inv, NEW c \in Clients, NEW k \in Clients, Waits(c, k), Working(k)
  PROVE  Item(c).claim < Item(k).claim
<1>. Shape /\ Progress(k)
  BY DEF Inv, ClientInv
<1>1. PICK b \in rows[k].bindings : b.claim = Item(c).claim
  BY DEF Waits, Holds
<1>2. rows[k] = Rows(k) /\ Len(status[k]) + 1 = next[k] /\ batch[k] \in Ordered
  BY DEF Progress, Working
<1>3. PICK i \in Appended(k) : b.claim = batch[k][i].claim
  BY <1>1, <1>2 DEF Rows
<1>4. i \in DOMAIN status[k] /\ status[k] \in Seq(ItemStatuses)
  BY <1>3 DEF Appended, Shape
<1>5. i < next[k] /\ i \in Nat \ {0}
  BY <1>2, <1>4
<1>6. i \in DOMAIN batch[k] /\ next[k] \in DOMAIN batch[k]
  BY <1>2, <1>5, OrderedFacts DEF Working, Shape
<1>. QED
  BY <1>1, <1>2, <1>3, <1>5, <1>6, OrderedFacts DEF Item

LEMMA InvNoWaitCycle == ASSUME CommitConstants, Inv PROVE NoWaitCycle
<1>1. SUFFICES ASSUME NEW S \in (SUBSET Clients) \ {{}}, \A c \in S : \E k \in S : Waits(c, k)
               PROVE  FALSE
  BY DEF NoWaitCycle
<1>2. PICK limit \in Nat : \A item \in UNION Batches : item.claim <= limit
  BY ClaimsAreBounded
<1>4. ASSUME NEW c \in S
      PROVE  Working(c) /\ Item(c).claim \in Nat /\ Item(c).claim <= limit
  <2>1. Working(c)
    BY <1>1, <1>4 DEF Waits
  <2>2. batch[c] \in Ordered /\ next[c] \in Nat \ {0}
    BY <2>1, <1>4 DEF Working, Inv, ClientInv, Progress, Shape
  <2>3. Item(c) \in UNION Batches
    BY <2>1, <2>2, OrderedFacts DEF Working, Item
  <2>. QED
    BY <1>2, <2>1, <2>3 DEF CommitConstants
<1>5. PICK T : T = {limit - Item(c).claim : c \in S}
  OBVIOUS
<1>6. T \subseteq Nat /\ T # {}
  <2>1. \A c \in S : limit - Item(c).claim \in Nat
    BY <1>4
  <2>2. T \subseteq Nat
    BY <1>5, <2>1
  <2>3. PICK c \in S : TRUE
    OBVIOUS
  <2>4. limit - Item(c).claim \in T
    BY <1>5
  <2>. QED
    BY <2>2, <2>4
<1>7. PICK x \in T : \A y \in T : x <= y
  BY <1>6, LeastNatural
<1>8. PICK c \in S : x = limit - Item(c).claim
  BY <1>5
<1>9. PICK k \in S : Waits(c, k)
  BY <1>1
<1>10. Item(c).claim < Item(k).claim
  BY <1>4, <1>9, WaitsForLater
<1>11. limit - Item(k).claim \in T
  BY <1>5
<1>12. x <= limit - Item(k).claim
  BY <1>7, <1>11
<1>. QED
  BY <1>4, <1>8, <1>10, <1>12

-----------------------------------------------------------------------------
(* A commit binds its batch at once; nothing else moves the tables.        *)

LEMMA NoConflict ==
  ASSUME CommitConstants, Inv, NEW c \in Clients, Commit(c),
         NEW i \in DOMAIN status[c], NEW row \in Table, row.claim = batch[c][i].claim
  PROVE  /\ ItemIsDuplicate(c, i)
         /\ row.plan = batch[c][i].plan /\ row.economics = batch[c][i].economics
<1>. Bound(transactions, bindings)
  BY DEF Inv
<1>1. PICK b \in bindings, t \in transactions :
        /\ t.id = b.id
        /\ row = [claim |-> b.claim, plan |-> b.plan, id |-> b.id, economics |-> t.economics]
  BY JoinedRow DEF Table
<1>2. b \in Bindings(batch[c][i].claim)
  BY <1>1 DEF Bindings
<1>3. ItemIsDuplicate(c, i)
  BY <1>2 DEF Commit, Inv, ClientInv, Progress, ItemIsAppended
<1>4. PICK d \in Bindings(batch[c][i].claim) : Matches(d, batch[c][i])
  BY <1>3 DEF ItemIsDuplicate
<1>5. d = b
  BY <1>2, <1>4 DEF Bindings, Bound
<1>. QED
  BY <1>1, <1>3, <1>4, <1>5 DEF Matches, Bound

(* The items bound by the commit are those its client appended.            *)
LEMMA NewItems ==
  ASSUME CommitConstants, Inv, NEW c \in Clients, Commit(c), NEW i \in DOMAIN status[c]
  PROVE  i \in Appended(c) <=> \A row \in Table : row.claim # batch[c][i].claim
<1>. Bound(transactions, bindings)
  BY DEF Inv
<1>1. ASSUME i \in Appended(c), NEW row \in Table
      PROVE  row.claim # batch[c][i].claim
  BY <1>1, NoConflict DEF ItemIsDuplicate, Appended
<1>2. ASSUME i \notin Appended(c)
      PROVE  \E row \in Table : row.claim = batch[c][i].claim
  <2>1. ItemIsDuplicate(c, i)
    <3>1. ItemIsAppended(c, i) \/ ItemIsDuplicate(c, i)
      BY DEF Commit, Inv, ClientInv, Progress
    <3>. QED
      BY <1>2, <3>1 DEF ItemIsAppended, Appended
  <2>2. PICK b \in bindings : b.claim = batch[c][i].claim
    BY <2>1 DEF ItemIsDuplicate, Bindings
  <2>3. PICK t \in transactions : t.id = b.id
    BY DEF Bound
  <2>4. PICK row : row = [claim |-> b.claim, plan |-> b.plan, id |-> b.id,
                          economics |-> t.economics]
    OBVIOUS
  <2>5. row \in Table
    BY <2>3, <2>4, JoinedRow DEF Table
  <2>. QED
    BY <2>2, <2>4, <2>5
<1>. QED
  BY <1>1, <1>2

LEMMA TableAfterCommit ==
  ASSUME CommitConstants, Inv, NEW c \in Clients, Commit(c)
  PROVE  Table' = Table \cup
           {[claim |-> batch[c][i].claim, plan |-> batch[c][i].plan,
             economics |-> batch[c][i].economics, id |-> Id(c, i)] : i \in Appended(c)}
<1>1. PICK Bs : Bs = {[claim |-> batch[c][i].claim, plan |-> batch[c][i].plan,
                       economics |-> batch[c][i].economics, id |-> Id(c, i)] : i \in Appended(c)}
  OBVIOUS
<1>2. /\ Bound(transactions, bindings) /\ Bound(transactions', bindings')
      /\ transactions' = transactions \cup Rows(c).transactions
      /\ bindings' = bindings \cup Rows(c).bindings
  BY CommitRows DEF Inv, Bound
<1>3. Table' = Joined(transactions', bindings') /\ Table \subseteq Table'
  BY TableGrows DEF Table, Joined
<1>4. ASSUME NEW i \in Appended(c)
      PROVE  [claim |-> batch[c][i].claim, plan |-> batch[c][i].plan,
              economics |-> batch[c][i].economics, id |-> Id(c, i)] \in Table'
  <2>1. [claim |-> batch[c][i].claim, plan |-> batch[c][i].plan, id |-> Id(c, i)] \in bindings'
    BY <1>2, <1>4 DEF Rows
  <2>2. [id |-> Id(c, i), economics |-> batch[c][i].economics] \in transactions'
    BY <1>2, <1>4 DEF Rows
  <2>. QED
    BY <1>2, <1>3, <2>1, <2>2, JoinedRow
<1>5. ASSUME NEW row \in Table', row \notin Table
      PROVE  row \in Bs
  <2>1. PICK b \in bindings', t \in transactions' :
          /\ t.id = b.id
          /\ row = [claim |-> b.claim, plan |-> b.plan, id |-> b.id, economics |-> t.economics]
    BY <1>2, <1>3, JoinedRow
  <2>2. b \notin bindings
    <3>1. SUFFICES ASSUME b \in bindings
                   PROVE  FALSE
      OBVIOUS
    <3>2. PICK u \in transactions : u.id = b.id
      BY <1>2, <3>1 DEF Bound
    <3>3. u = t
      BY <1>2, <2>1, <3>2 DEF Bound
    <3>4. row \in Table
      BY <1>2, <2>1, <3>1, <3>2, <3>3, JoinedRow DEF Table
    <3>. QED
      BY <1>5, <3>4
  <2>3. PICK i \in Appended(c) :
          b = [claim |-> batch[c][i].claim, plan |-> batch[c][i].plan, id |-> Id(c, i)]
    BY <1>2, <2>2 DEF Rows
  <2>4. [id |-> Id(c, i), economics |-> batch[c][i].economics] \in transactions'
    BY <1>2, <2>3 DEF Rows
  <2>5. t = [id |-> Id(c, i), economics |-> batch[c][i].economics]
    BY <1>2, <2>1, <2>3, <2>4 DEF Bound
  <2>. QED
    BY <1>1, <2>1, <2>3, <2>5
<1>. QED
  BY <1>1, <1>3, <1>4, <1>5

LEMMA CommitBinds ==
  ASSUME CommitConstants, Inv, NEW c \in Clients, Commit(c)
  PROVE  Imports!Next
<1>1. PICK b : b = batch[c]
  OBVIOUS
<1>2. /\ b \in Ordered /\ pc[c] = "running" /\ DOMAIN status[c] = DOMAIN b
      /\ Appended(c) \subseteq DOMAIN b
  <2>1. /\ batch[c] \in Ordered /\ Len(status[c]) + 1 = next[c] /\ next[c] <= Len(batch[c]) + 1
        /\ next[c] > Len(batch[c]) /\ DOMAIN status[c] = 1 .. Len(status[c])
        /\ Len(status[c]) \in Nat /\ next[c] \in Nat
    BY DEF Commit, Progress, Shape, Inv, ClientInv
  <2>2. /\ DOMAIN batch[c] = 1 .. Len(batch[c]) /\ Len(batch[c]) \in Nat
    BY <2>1, OrderedFacts
  <2>. QED
    BY <1>1, <2>1, <2>2 DEF Appended, Commit
<1>3. \A i, j \in DOMAIN b : b[i] = b[j] => i = j
  <2>1. \A i, j \in DOMAIN b : i < j => b[i].claim < b[j].claim
    BY <1>2, OrderedFacts
  <2>2. \A i \in DOMAIN b : i \in Int /\ b[i].claim \in Nat
    BY <1>2, OrderedFacts
  <2>. QED
    BY <2>1, <2>2
<1>4. \A item \in Imports!Items(b), row \in Table : ~ Imports!Conflicting(item, row)
  BY <1>1, <1>2, NoConflict DEF Imports!Items, Imports!Conflicting
<1>5. PICK D : D = {item \in Imports!Items(b) : \A row \in Table : row.claim # item.claim}
  OBVIOUS
<1>6. D = {b[i] : i \in Appended(c)}
  <2>1. \A i \in DOMAIN b : b[i] \in D <=> i \in Appended(c)
    BY <1>1, <1>2, <1>5, NewItems DEF Imports!Items
  <2>2. \A item \in D : \E i \in DOMAIN b : item = b[i]
    BY <1>5 DEF Imports!Items
  <2>. QED
    BY <1>2, <2>1, <2>2
<1>7. PICK id : id = [item \in D |-> Id(c, CHOOSE i \in Appended(c) : b[i] = item)]
  OBVIOUS
<1>8. \A i \in Appended(c) : b[i] \in D /\ id[b[i]] = Id(c, i)
  <2>1. ASSUME NEW i \in Appended(c)
        PROVE  (CHOOSE j \in Appended(c) : b[j] = b[i]) = i
    BY <1>2, <1>3
  <2>. QED
    BY <1>6, <1>7, <2>1
<1>9. /\ transactions' = transactions \cup Rows(c).transactions
      /\ bindings' = bindings \cup Rows(c).bindings /\ Made(transactions, calls)'
  BY CommitRows
<1>10. \A i \in Appended(c) : Id(c, i) \in Ids
  <2>1. ASSUME NEW i \in Appended(c)
        PROVE  [id |-> Id(c, i), economics |-> batch[c][i].economics] \in transactions'
    BY <1>9 DEF Rows
  <2>2. Ids' = Ids
    BY DEF Ids
  <2>. QED
    BY <1>9, <2>1, <2>2 DEF Made
<1>11. id \in [D -> Ids]
  BY <1>6, <1>7, <1>8, <1>10
<1>12. \A i, j \in DOMAIN id : id[i] = id[j] => i = j
  BY <1>6, <1>7, <1>8 DEF Id
<1>13. \A item \in DOMAIN id, row \in Table : id[item] # row.id
  <2>1. ASSUME NEW i \in Appended(c), NEW row \in Table
        PROVE  row.id # Id(c, i)
    <3>1. PICK d \in bindings, t \in transactions : t.id = d.id /\ row.id = d.id
      BY JoinedRow DEF Table, Inv
    <3>2. t.id[1] # call[c]
      BY <1>2 DEF Inv, ClientInv, LeftNothing
    <3>. QED
      BY <3>1, <3>2 DEF Id
  <2>. QED
    BY <1>6, <1>7, <1>8, <2>1
<1>14. Table' = Table \cup {[claim |-> i.claim, plan |-> i.plan, economics |-> i.economics,
                            id |-> id[i]] : i \in DOMAIN id}
  <2>1. {[claim |-> i.claim, plan |-> i.plan, economics |-> i.economics, id |-> id[i]] :
           i \in DOMAIN id}
        = {[claim |-> b[i].claim, plan |-> b[i].plan, economics |-> b[i].economics,
            id |-> Id(c, i)] : i \in Appended(c)}
    BY <1>6, <1>7, <1>8
  <2>. QED
    BY <1>1, <2>1, TableAfterCommit
<1>15. Imports!Bind(b)
  BY <1>4, <1>5, <1>11, <1>12, <1>13, <1>14 DEF Imports!Bind
<1>. QED
  BY <1>2, <1>15 DEF Imports!Next, Ordered

LEMMA StepBinds ==
  ASSUME CommitConstants, Inv, [Next]_vars
  PROVE  [Imports!Next]_<<transactions, bindings>>
<1>1. CASE \E c \in Clients : Commit(c)
  BY <1>1, CommitBinds
<1>2. CASE UNCHANGED <<transactions, bindings>>
  BY <1>2
<1>3. (\E c \in Clients : Commit(c)) \/ UNCHANGED <<transactions, bindings>>
  BY DEF Next, vars, Submit, Step, AppendItem, DuplicateItem, ConflictItem, Abort, Advance, RollBack
<1>. QED
  BY <1>1, <1>2, <1>3

-----------------------------------------------------------------------------
LEMMA InvAlways ==
  ASSUME CommitConstants PROVE Spec => []Inv
<1>1. Init => Inv
  BY InvInit
<1>2. Inv /\ [Next]_vars => Inv'
  BY InvStep
<1>. QED
  BY <1>1, <1>2, PTL DEF Spec

(* A committed batch, however its transaction interleaved with others,     *)
(* waited, was retried or died, is bound at once to the tables of its      *)
(* commit (migration 017).                                                 *)
THEOREM CommitsImplementImports ==
  ASSUME CommitConstants PROVE Spec => ImplementsImports
<1>1. Init => Imports!Init
  BY DEF Init, Imports!Init, Table, Joined
<1>2. Inv /\ [Next]_vars => [Imports!Next]_Table
  BY StepBinds DEF Table
<1>. QED
  BY <1>1, <1>2, InvAlways, PTL DEF Spec, ImplementsImports, Imports!Spec

(* No import leaves a transaction without a binding, a binding without a   *)
(* transaction or a claim bound twice, and what a caller was told is what  *)
(* the tables say (repository.py:844-885).                                 *)
THEOREM TablesMatchAnswers ==
  ASSUME CommitConstants
  PROVE  Spec => [](TypeOK /\ EveryTransactionIsBound /\ AnswersMatchTables)
<1>1. Inv => TypeOK /\ EveryTransactionIsBound /\ AnswersMatchTables
  BY InvTypeOK, InvAnswers
<1>. QED
  BY <1>1, InvAlways, PTL

(* Importers wait for each other's claims, but never in a circle.          *)
THEOREM ImportersNeverDeadlock ==
  ASSUME CommitConstants PROVE Spec => []NoWaitCycle
<1>1. Inv => NoWaitCycle
  BY InvNoWaitCycle
<1>. QED
  BY <1>1, InvAlways, PTL
=============================================================================
