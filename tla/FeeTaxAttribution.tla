-------------------------- MODULE FeeTaxAttribution ---------------------------
(***************************************************************************)
(* The commands that allocate a fee or a withheld tax to a transaction and *)
(* that reverse an allocation, with the reversals of the ledger they race. *)
(*                                                                         *)
(* A worker looks its command up, stamps it, reads the ledger and then the *)
(* events, checks the semantic view, and inserts one row.  The row's       *)
(* trigger locks the charge and then the target, one statement each, and   *)
(* decides on what is committed by then.  The worker may stop waiting      *)
(* while its database session goes on.                                     *)
(***************************************************************************)
EXTENDS Naturals, Sequences, FiniteSets, FiniteSetsExt, FiniteSetTheorems, FunctionTheorems,
        WellFoundedInduction, TLAPS

CONSTANTS
    Workers,
    Charges,       \* fees and withheld taxes
    Targets,       \* economic transactions
    Cash,          \* charge -> its cash amount
    AccountOf,     \* transaction -> its account
    Never,         \* the time of what did not happen
    Booked,        \* the transactions recorded before the run
    Commands,      \* [id, kind] with [charge, target, amount], [reverses] or [tx]
    MaxTime,       \* bound on the clock
    MaxCalls       \* bound on the calls made

-----------------------------------------------------------------------------

\* What the events and the ledger say at a cutoff.  A transaction is active
\* from the instant it was recorded until the instant its reversal was; Never
\* lies after every cutoff.
Transactions == Charges \cup Targets

Allocations(events) == {e \in events : e.kind = "allocation"}

Reversals(events) == {e \in events : e.kind = "reversal"}

Included(events, cutoff) == {e \in events : e.recorded <= cutoff}

\* The history view raises on a reversal that does not refer to an earlier
\* allocation of its account, and on a second reversal of one allocation.
WellFormed(events) ==
    \A r \in Reversals(events) :
        /\ \E a \in Allocations(events) :
              a.id = r.reverses /\ a.account = r.account /\ a.recorded <= r.recorded
        /\ \A s \in Reversals(events) : s.reverses = r.reverses => s = r

ActiveAllocations(events) ==
    {a \in Allocations(events) : \A r \in Reversals(events) : r.reverses # a.id}

Total(allocations) == MapThenSumSet(LAMBDA a : a.amount, allocations)

Active(booked, reversed, cutoff) ==
    {t \in Transactions : booked[t] <= cutoff /\ cutoff < reversed[t]}

\* The attribution set: one intent for a pair, within the charge, between
\* active transactions of one account.
ValidSet(intents, active) ==
    /\ \A a, b \in intents :
          a.charge = b.charge /\ a.target = b.target => a.id = b.id
    /\ \A a \in intents :
          /\ a.charge \in Charges \cap active
          /\ a.target \in Targets \cap active
          /\ AccountOf[a.charge] = AccountOf[a.target]
          /\ a.amount <= Cash[a.charge]
          /\ Total({b \in intents : b.charge = a.charge}) <= Cash[a.charge]

\* Every active allocation carries the account of its charge and target.
Binds(events, active) ==
    LET allocations == ActiveAllocations(events) IN
    /\ WellFormed(events)
    /\ ValidSet(allocations, active)
    /\ \A a \in allocations : a.account = AccountOf[a.charge]

-----------------------------------------------------------------------------

VARIABLES
    clock,
    booked,        \* transaction -> when it was recorded
    reversed,      \* transaction -> when its ledger reversal was recorded
    events,        \* the committed attribution events
    pc,            \* worker -> idle, ledger, history, sent, recover
    command,       \* worker -> its command
    stamp,         \* worker -> the clock read for it
    seen,          \* worker -> the transactions active in the ledger it read
    want,          \* worker -> the rows its session has still to lock
    held,          \* worker -> the rows its session has locked
    open,          \* the workers whose session is open
    result,        \* worker -> the answer of its last call
    answers,       \* worker -> the events answered by its last call
    calls

ledger == <<booked, reversed>>
session == <<want, held, open>>
vars == <<clock, ledger, events, pc, command, stamp, seen, session, result,
          answers, calls>>

Nobody == [id |-> "none", kind |-> "none"]

-----------------------------------------------------------------------------

\* The stored event is the one the command asks for, whatever its time.
Matches(e, c) ==
    IF c.kind = "allocate"
    THEN e.kind = "allocation" /\ <<e.charge, e.target, e.amount>> = <<c.charge, c.target, c.amount>>
    ELSE e.kind = "reversal" /\ e.reverses = c.reverses

Stored(id) == {e \in events : e.id = id}

Answer(w, kind, found) ==
    /\ pc' = [pc EXCEPT ![w] = "idle"]
    /\ result' = [result EXCEPT ![w] = kind]
    /\ answers' = [answers EXCEPT ![w] = found]

\* The answer to a command whose event is stored.
AnswerStored(w, c) ==
    IF \A e \in Stored(c.id) : Matches(e, c)
    THEN Answer(w, "OK", Stored(c.id))
    ELSE Answer(w, "CONFLICT", {})

Wait(w) ==
    /\ result' = [result EXCEPT ![w] = "NONE"]
    /\ answers' = [answers EXCEPT ![w] = {}]

\* The lookup by command id comes before the clock is read.  A ledger
\* reversal goes to the database at once.
Start(w, c) ==
    /\ pc[w] = "idle" /\ w \notin open /\ calls < MaxCalls
    /\ calls' = calls + 1
    /\ command' = [command EXCEPT ![w] = c]
    /\ stamp' = [stamp EXCEPT ![w] = clock]
    /\ IF c.kind = "undo"
       THEN /\ pc' = [pc EXCEPT ![w] = "sent"]
            /\ open' = open \cup {w}
            /\ want' = [want EXCEPT ![w] = <<c.tx>>]
            /\ Wait(w)
       ELSE /\ IF Stored(c.id) # {} THEN AnswerStored(w, c)
               ELSE pc' = [pc EXCEPT ![w] = "ledger"] /\ Wait(w)
            /\ UNCHANGED <<open, want>>
    /\ UNCHANGED <<clock, ledger, events, seen, held>>

ReadLedger(w) ==
    /\ pc[w] = "ledger"
    /\ seen' = [seen EXCEPT ![w] = Active(booked, reversed, stamp[w])]
    /\ pc' = [pc EXCEPT ![w] = "history"]
    /\ UNCHANGED <<clock, ledger, events, command, stamp, session, result, answers, calls>>

Allocation(c, t) ==
    [id |-> c.id, kind |-> "allocation", charge |-> c.charge, target |-> c.target,
     amount |-> c.amount, account |-> AccountOf[c.charge], recorded |-> t]

Target(c) == CHOOSE e \in events : e.id = c.reverses

Reversal(c, t) ==
    [id |-> c.id, kind |-> "reversal", reverses |-> c.reverses,
     account |-> Target(c).account, recorded |-> t]

\* The command is admitted by the view it read: the candidate fits beside the
\* active allocations, or the allocation to reverse is active.
Admitted(c, t, active) ==
    LET allocations == ActiveAllocations(Included(events, t)) IN
    IF c.kind = "allocate"
    THEN ValidSet(allocations \cup {Allocation(c, t)}, active)
    ELSE \E a \in allocations : a.id = c.reverses

AlreadyReversed(id) == \E r \in Reversals(events) : r.reverses = id

\* The charge, then the target.
Locks(c) ==
    IF c.kind = "allocate" THEN <<c.charge, c.target>>
    ELSE <<Target(c).charge, Target(c).target>>

\* What the query service finds as of a worker's stamp cannot be bound.
BindingFails(w) == ~ Binds(Included(events, stamp[w]), seen[w])

\* The events as of the stamp, the binding to the ledger read before, and the
\* request to insert; the trigger looks for a second reversal before it locks.
ReadHistory(w) ==
    LET c == command[w]
        fails == BindingFails(w)
        admitted == ~ fails /\ Admitted(c, stamp[w], seen[w])
        late == admitted /\ c.kind = "reverse" /\ AlreadyReversed(c.reverses) IN
    /\ pc[w] = "history"
    /\ IF admitted
       THEN /\ pc' = [pc EXCEPT ![w] = IF late THEN "recover" ELSE "sent"]
            /\ open' = IF late THEN open ELSE open \cup {w}
            /\ want' = [want EXCEPT ![w] = IF late THEN <<>> ELSE Locks(c)]
            /\ UNCHANGED <<result, answers>>
       ELSE /\ Answer(w, IF fails THEN "VIEW" ELSE "REFUSED", {})
            /\ UNCHANGED <<open, want>>
    /\ UNCHANGED <<clock, ledger, events, command, stamp, seen, held, calls>>

-----------------------------------------------------------------------------

Free(tx) == \A w \in Workers : tx \notin held[w]

LockRow(w) ==
    /\ w \in open /\ want[w] # <<>> /\ Free(Head(want[w]))
    /\ held' = [held EXCEPT ![w] = @ \cup {Head(want[w])}]
    /\ want' = [want EXCEPT ![w] = Tail(@)]
    /\ UNCHANGED <<clock, ledger, events, pc, command, stamp, seen, open, result, answers, calls>>

\* The events about a charge, with the reversals of its allocations.
Evidence(allocations) ==
    allocations \cup {r \in Reversals(events) : \E a \in allocations : a.id = r.reverses}

OfCharge(tx) == Evidence({a \in Allocations(events) : a.charge = tx})

Related(tx) == Evidence({a \in Allocations(events) : tx \in {a.charge, a.target}})

\* mutant: only the transaction's place in the ledger is looked at.
NotBeforeLedger(t, tx) == t >= booked[tx]

\* The knowledge of a charge only grows.
NotBefore(t, tx) == t >= booked[tx] /\ \A e \in OfCharge(tx) : t >= e.recorded

\* Within the charge with every allocation that is active by now, and the only
\* one of its pair.
Fits(c, t) ==
    LET current == {a \in ActiveAllocations(events) : a.charge = c.charge} IN
    /\ c.amount + Total(current) <= Cash[c.charge]
    /\ \A a \in current : a.target # c.target

NotReversed(c, t) == reversed[c.charge] > t /\ reversed[c.target] > t

AcceptsAllocation(c, t) ==
    /\ booked[c.charge] # Never /\ booked[c.target] # Never
    /\ NotReversed(c, t)
    /\ Fits(c, t)
    /\ t >= booked[c.target] /\ NotBefore(t, c.charge)

\* The unique index stops the second of two reversals.
AcceptsReversal(c, t) ==
    ~ AlreadyReversed(c.reverses) /\ t >= Target(c).recorded /\ NotBefore(t, Target(c).charge)

\* A ledger reversal is later than every event about its transaction.
AcceptsUndo(c, t) ==
    reversed[c.tx] = Never /\ t >= booked[c.tx] /\ \A e \in Related(c.tx) : t > e.recorded

Insert(c, t) ==
    CASE c.kind = "allocate" /\ AcceptsAllocation(c, t) /\ Stored(c.id) = {} ->
            events' = events \cup {Allocation(c, t)} /\ UNCHANGED ledger
      [] c.kind = "reverse" /\ AcceptsReversal(c, t) /\ Stored(c.id) = {} ->
            events' = events \cup {Reversal(c, t)} /\ UNCHANGED ledger
      [] c.kind = "undo" /\ AcceptsUndo(c, t) ->
            reversed' = [reversed EXCEPT ![c.tx] = t] /\ UNCHANGED <<events, booked>>
      [] OTHER -> UNCHANGED <<events, ledger>>

\* mutant: a failed session keeps its locks.
CloseKeepsLocks(w) ==
    open' = open \ {w} /\ UNCHANGED <<want, held>>

Close(w) ==
    open' = open \ {w} /\ held' = [held EXCEPT ![w] = {}] /\ UNCHANGED want

\* The checks under the locks, the row, the end of the session.  A worker that
\* still waits reads the row back, or reads after the error.
Finish(w) ==
    /\ w \in open /\ want[w] = <<>>
    /\ Insert(command[w], stamp[w])
    /\ Close(w)
    /\ IF pc[w] # "sent" THEN UNCHANGED <<pc, result, answers>>
       ELSE IF command[w].kind = "undo" THEN Answer(w, "DONE", {})
       ELSE pc' = [pc EXCEPT ![w] = "recover"] /\ UNCHANGED <<result, answers>>
    /\ UNCHANGED <<clock, command, stamp, seen, calls>>

\* The worker's call fails while its session goes on.
GiveUp(w) ==
    /\ pc[w] = "sent"
    /\ IF command[w].kind = "undo" THEN Answer(w, "ERROR", {})
       ELSE pc' = [pc EXCEPT ![w] = "recover"] /\ UNCHANGED <<result, answers>>
    /\ UNCHANGED <<clock, ledger, events, command, stamp, seen, session, calls>>

\* The event is looked up once more: the stored one is the answer.
Recover(w) ==
    /\ pc[w] = "recover"
    /\ IF Stored(command[w].id) = {} THEN Answer(w, "ERROR", {}) ELSE AnswerStored(w, command[w])
    /\ UNCHANGED <<clock, ledger, events, command, stamp, seen, session, calls>>

\* Another request records a transaction.
Book(tx) ==
    /\ booked[tx] = Never
    /\ booked' = [booked EXCEPT ![tx] = clock]
    /\ UNCHANGED <<clock, reversed, events, pc, command, stamp, seen, session, result, answers, calls>>

Tick ==
    /\ clock < MaxTime
    /\ clock' = clock + 1
    /\ UNCHANGED <<ledger, events, pc, command, stamp, seen, session, result, answers, calls>>

Init ==
    /\ clock = 1
    /\ booked = [t \in Charges \cup Targets |-> IF t \in Booked THEN 0 ELSE Never]
    /\ reversed = [t \in Charges \cup Targets |-> Never]
    /\ events = {} /\ open = {} /\ calls = 0
    /\ pc = [w \in Workers |-> "idle"]
    /\ command = [w \in Workers |-> Nobody]
    /\ stamp = [w \in Workers |-> 0]
    /\ seen = [w \in Workers |-> {}]
    /\ want = [w \in Workers |-> <<>>]
    /\ held = [w \in Workers |-> {}]
    /\ result = [w \in Workers |-> "NONE"]
    /\ answers = [w \in Workers |-> {}]

Work(w) ==
    ReadLedger(w) \/ ReadHistory(w) \/ LockRow(w) \/ Finish(w) \/ Recover(w)

Next ==
    \/ Tick
    \/ \E tx \in Charges \cup Targets : Book(tx)
    \/ \E w \in Workers : Work(w) \/ GiveUp(w) \/ \E c \in Commands : Start(w, c)

Spec == Init /\ [][Next]_vars

FairSpec == Spec /\ \A w \in Workers : WF_vars(Work(w))

-----------------------------------------------------------------------------

\* The state of every worker and session.  A session holds locks or wants
\* them only while it is open, and a recovering worker has a command with an
\* event.
TypeOK ==
    /\ clock \in 1 .. MaxTime /\ calls \in 0 .. MaxCalls
    /\ booked \in [Charges \cup Targets -> 0 .. Never]
    /\ reversed \in [Charges \cup Targets -> 0 .. Never]
    /\ open \subseteq Workers
    /\ \A w \in Workers :
          /\ pc[w] \in {"idle", "ledger", "history", "sent", "recover"}
          /\ command[w] \in Commands \cup {Nobody}
          /\ stamp[w] \in 0 .. clock
          /\ w \notin open => held[w] = {} /\ want[w] = <<>>
          /\ held[w] \subseteq Charges \cup Targets

\* At no cutoff, past ones included, are more of a charge's amounts allocated
\* than the charge, nor is a pair allocated twice, whatever the order in which
\* the rows were committed (021:186, 021:208, 021:241).
NeverOverAllocatedAtAnyCutoff ==
    \A cutoff \in 0 .. MaxTime :
        LET active == ActiveAllocations(Included(events, cutoff)) IN
        /\ \A tx \in Charges : Total({a \in active : a.charge = tx}) <= Cash[tx]
        /\ \A a, b \in active : <<a.charge, a.target>> = <<b.charge, b.target>> => a = b

\* Every allocation was recorded while its charge and its target were active,
\* also when the ledger reversal was stamped first and committed later, or the
\* other way round (021:24 and 021:125).
AllocatedWhileActive ==
    \A a \in Allocations(events) : \A tx \in {a.charge, a.target} :
        booked[tx] <= a.recorded /\ a.recorded < reversed[tx]

\* The history of the events never raises: at every cutoff each reversal is
\* the only one of an allocation it comes after.
HistoryNeverRaises ==
    \A cutoff \in 0 .. MaxTime : WellFormed(Included(events, cutoff))

\* The semantic view raises only for an active allocation whose charge or
\* target left the ledger, or entered it at the very instant of the cutoff
\* between the two reads of the query.
ViewFailureHasCause ==
    \A w \in Workers : result[w] = "VIEW" =>
        \E a \in Allocations(events) : \E tx \in {a.charge, a.target} :
            /\ a.recorded <= stamp[w]
            /\ reversed[tx] <= stamp[w] \/ booked[tx] = stamp[w]

\* Whatever was answered, after retries, lost answers and races of one command,
\* is the event the table holds (fee_tax_attribution_command.py:363).
AnswersAreStored == \A w \in Workers : answers[w] \subseteq events

\* The session waits for a row that the other one has locked.
WaitsFor(v, w) == v \in open /\ want[v] # <<>> /\ Head(want[v]) \in held[w]

\* No sessions wait for each other's rows in a circle.
NoWaitCycle ==
    \A S \in (SUBSET Workers) \ {{}} : \E v \in S : \A w \in S : ~ WaitsFor(v, w)

\* No step changes what the events and the ledger say at a cutoff earlier
\* than everything recorded of a charge.
SnapshotIsStable ==
    \A tx \in Charges : \A e \in OfCharge(tx) : \A cutoff \in 0 .. e.recorded - 1 :
        {a \in ActiveAllocations(Included(events', cutoff)) : a.charge = tx}
        = {a \in ActiveAllocations(Included(events, cutoff)) : a.charge = tx}

\* Every call ends, although sessions wait for each other's rows.
EveryCallEnds == \A w \in Workers : (pc[w] # "idle" \/ w \in open) ~> (pc[w] = "idle" /\ w \notin open)

-----------------------------------------------------------------------------
(***************************************************************************)
(* Proofs.  What is assumed of the constants: fees and taxes are no        *)
(* economic transactions, there are finitely many commands, they are about *)
(* transactions, and times that happen lie before Never.                   *)
(***************************************************************************)
AttributionConstants ==
    /\ MaxTime \in Nat \ {0} /\ Never \in Nat /\ MaxTime < Never /\ MaxCalls \in Nat
    /\ Charges \cap Targets = {}
    /\ Cash \in [Charges -> Nat]
    /\ IsFiniteSet(Commands)
    /\ \A c \in Commands :
          /\ c.kind \in {"allocate", "reverse", "undo"}
          /\ c.kind = "allocate" =>
                c.charge \in Charges /\ c.target \in Targets /\ c.amount \in Nat
          /\ c.kind = "undo" => c.tx \in Transactions

-----------------------------------------------------------------------------
(* Total is a sum.  The library folds a set by a recursive function, taking *)
(* one element after the other; there is such a function for every finite   *)
(* set, functions for two sets agree on their common subsets, and the order *)
(* the elements are taken in makes no difference.                           *)

LEMMA LeastNatural ==
  ASSUME NEW T, T \subseteq Nat, T # {}
  PROVE  \E x \in T : \A y \in T : x <= y
<1>1. PICK R : R = {ss \in Nat \X Nat : ss[1] < ss[2]}
  OBVIOUS
<1>2. IsWellFoundedOn(R, Nat)
  BY <1>1, NatLessThanWellFounded, Zenon DEF OpToRel
<1>3. PICK x \in T : \A y \in T : ~ (<<y, x>> \in R)
  BY <1>2, WFMin
<1>4. \A y \in T : y < x => <<y, x>> \in R
  BY <1>1
<1>5. \A y \in T : ~ (y < x)
  BY <1>3, <1>4
<1>6. \A y \in T : x <= y
  BY <1>5
<1>. QED
  BY <1>6

First(S) == CHOOSE x \in S : TRUE

(* The running sums of the subsets of S, as the fold of Total takes them.  *)
SumOf(g, T) == IF T = {} THEN 0 ELSE First(T).amount + g[T \ {First(T)}]

Sums(g, S) == g = [T \in SUBSET S |-> SumOf(g, T)]

Summable(S) == IsFiniteSet(S) /\ \A a \in S : a.amount \in Nat

LEMMA FirstFacts ==
  ASSUME NEW S, IsFiniteSet(S), S # {}
  PROVE  /\ First(S) \in S /\ Cardinality(S \ {First(S)}) \in Nat /\ Cardinality(S) \in Nat
         /\ Cardinality(S \ {First(S)}) < Cardinality(S)
<1>1. First(S) \in S
  BY DEF First
<1>2. Cardinality(S \ {First(S)}) = Cardinality(S) - 1 /\ IsFiniteSet(S \ {First(S)})
  BY <1>1, FS_RemoveElement
<1>. QED
  BY <1>1, <1>2, FS_CardinalityType

LEMMA SumsExist ==
  ASSUME NEW S, Summable(S)
  PROVE  \E g \in [SUBSET S -> Nat] : Sums(g, S)
<1> DEFINE Upto(n) ==
      \E g \in [SUBSET S -> Nat] : \A T \in SUBSET S : Cardinality(T) <= n => g[T] = SumOf(g, T)
<1>1. \A T \in SUBSET S : IsFiniteSet(T) /\ Cardinality(T) \in Nat /\ Cardinality(T) <= Cardinality(S)
  BY FS_Subset, FS_CardinalityType DEF Summable
<1>2. Upto(0)
  <2>1. PICK g : g = [T \in SUBSET S |-> 0]
    OBVIOUS
  <2>2. \A T \in SUBSET S : Cardinality(T) <= 0 => T = {}
    BY <1>1, FS_EmptySet
  <2>. QED
    BY <2>1, <2>2 DEF SumOf
<1>3. ASSUME NEW n \in Nat, Upto(n) PROVE Upto(n + 1)
  <2>1. PICK g \in [SUBSET S -> Nat] :
          \A T \in SUBSET S : Cardinality(T) <= n => g[T] = SumOf(g, T)
    BY <1>3
  <2>2. PICK h : h = [T \in SUBSET S |-> SumOf(g, T)]
    OBVIOUS
  <2>3. ASSUME NEW T \in SUBSET S
        PROVE  /\ SumOf(g, T) \in Nat
               /\ Cardinality(T) <= n + 1 => h[T] = SumOf(h, T)
    <3>1. CASE T = {}
      BY <2>2, <3>1 DEF SumOf
    <3>2. CASE T # {}
      <4>1. PICK x : x = First(T)
        OBVIOUS
      <4>2. /\ x \in T /\ Cardinality(T \ {x}) \in Nat /\ Cardinality(T) \in Nat
            /\ Cardinality(T \ {x}) < Cardinality(T)
        BY <1>1, <3>2, <4>1, FirstFacts
      <4>3. T \ {x} \in SUBSET S /\ g[T \ {x}] \in Nat /\ x.amount \in Nat
        BY <2>1, <4>2 DEF Summable
      <4>4. SumOf(g, T) = x.amount + g[T \ {x}] /\ SumOf(h, T) = x.amount + h[T \ {x}]
        BY <3>2, <4>1 DEF SumOf
      <4>5. Cardinality(T) <= n + 1 => Cardinality(T \ {x}) <= n
        BY <4>2
      <4>6. Cardinality(T) <= n + 1 => g[T \ {x}] = SumOf(g, T \ {x})
        BY <2>1, <4>3, <4>5
      <4>7. h[T \ {x}] = SumOf(g, T \ {x}) /\ h[T] = SumOf(g, T)
        BY <2>2, <4>3
      <4>. QED
        BY <4>3, <4>4, <4>6, <4>7
    <3>. QED
      BY <3>1, <3>2
  <2>4. h \in [SUBSET S -> Nat]
    BY <2>2, <2>3
  <2>. QED
    BY <2>3, <2>4
<1>4. \A n \in Nat : Upto(n)
  <2> HIDE DEF Upto
  <2>1. SUFFICES ASSUME NEW n \in Nat, ~ Upto(n) PROVE FALSE
    OBVIOUS
  <2>2. PICK m \in {k \in Nat : ~ Upto(k)} : \A k \in {j \in Nat : ~ Upto(j)} : m <= k
    BY <2>1, LeastNatural
  <2>3. m # 0
    BY <1>2, <2>2
  <2>4. m - 1 \in Nat /\ Upto(m - 1) /\ (m - 1) + 1 = m
    BY <2>2, <2>3
  <2>. QED
    BY <1>3, <2>2, <2>4
<1>5. Upto(Cardinality(S))
  BY <1>1, <1>4
<1>6. PICK g \in [SUBSET S -> Nat] : \A T \in SUBSET S : g[T] = SumOf(g, T)
  BY <1>1, <1>5
<1>7. g = [T \in SUBSET S |-> SumOf(g, T)]
  BY <1>6
<1>. QED
  BY <1>7 DEF Sums

LEMMA SumsAgree ==
  ASSUME NEW U, Summable(U), NEW S \in SUBSET U, NEW g, NEW h, Sums(g, U), Sums(h, S)
  PROVE  \A T \in SUBSET S : g[T] = h[T]
<1>1. SUFFICES ASSUME NEW X \in SUBSET S, g[X] # h[X] PROVE FALSE
  OBVIOUS
<1>2. \A T \in SUBSET S : IsFiniteSet(T) /\ Cardinality(T) \in Nat
  BY FS_Subset, FS_CardinalityType DEF Summable
<1>3. PICK N : N = {Cardinality(T) : T \in {V \in SUBSET S : g[V] # h[V]}}
  OBVIOUS
<1>4. N \subseteq Nat /\ N # {}
  BY <1>1, <1>2, <1>3
<1>5. PICK n \in N : \A k \in N : n <= k
  BY <1>4, LeastNatural
<1>6. PICK T \in SUBSET S : n = Cardinality(T) /\ g[T] # h[T]
  BY <1>3, <1>5
<1>7. g[T] = SumOf(g, T) /\ h[T] = SumOf(h, T)
  <2>1. T \in SUBSET U
    OBVIOUS
  <2>2. g = [V \in SUBSET U |-> SumOf(g, V)] /\ h = [V \in SUBSET S |-> SumOf(h, V)]
    BY DEF Sums
  <2> HIDE DEF SumOf
  <2>. QED
    BY <2>1, <2>2
<1>8. T # {}
  BY <1>6, <1>7 DEF SumOf
<1>9. PICK x : x = First(T)
  OBVIOUS
<1>10. g[T \ {x}] # h[T \ {x}]
  BY <1>6, <1>7, <1>8, <1>9 DEF SumOf
<1>11. /\ Cardinality(T \ {x}) \in Nat /\ Cardinality(T) \in Nat
       /\ Cardinality(T \ {x}) < Cardinality(T)
  BY <1>2, <1>8, <1>9, FirstFacts
<1>12. T \ {x} \in SUBSET S
  OBVIOUS
<1>13. Cardinality(T \ {x}) \in N
  BY <1>3, <1>10, <1>12
<1>. QED
  BY <1>5, <1>6, <1>11, <1>13

LEMMA TotalIsSum ==
  ASSUME NEW U, Summable(U), NEW g \in [SUBSET U -> Nat], Sums(g, U)
  PROVE  \A S \in SUBSET U : Total(S) = g[S]
<1>1. SUFFICES ASSUME NEW S \in SUBSET U PROVE Total(S) = g[S]
  OBVIOUS
<1>2. Summable(S)
  BY FS_Subset DEF Summable
<1>3. PICK h : h = CHOOSE f : Sums(f, S)
  OBVIOUS
<1>4. Sums(h, S)
  BY <1>2, <1>3, SumsExist
<1>5. Total(S) = h[S]
  BY <1>3 DEF Total, MapThenSumSet, MapThenFoldSet, Sums, SumOf, First
<1>. QED
  BY <1>4, <1>5, SumsAgree

LEMMA TotalStep ==
  ASSUME NEW S, Summable(S)
  PROVE  /\ Total(S) \in Nat /\ Total({}) = 0
         /\ S # {} => Total(S) = First(S).amount + Total(S \ {First(S)})
<1>1. PICK g \in [SUBSET S -> Nat] : Sums(g, S)
  BY SumsExist
<1>2. \A T \in SUBSET S : Total(T) = g[T] /\ g[T] = SumOf(g, T)
  <2>1. \A T \in SUBSET S : g[T] = SumOf(g, T)
    BY <1>1 DEF Sums
  <2>. QED
    BY <1>1, <2>1, TotalIsSum
<1>3. Total(S) \in Nat /\ Total({}) = 0
  BY <1>2 DEF SumOf
<1>4. CASE S # {}
  <2>1. PICK x : x = First(S)
    OBVIOUS
  <2>2. Total(S) = SumOf(g, S) /\ Total(S \ {x}) = g[S \ {x}]
    BY <1>2
  <2>. QED
    BY <1>3, <1>4, <2>1, <2>2 DEF SumOf
<1>. QED
  BY <1>3, <1>4

(* The sum does not depend on the order the elements are taken in.         *)
LEMMA TotalOfUnion ==
  ASSUME NEW U, Summable(U), NEW S \in SUBSET U, NEW b \in U \ S
  PROVE  Total(S \cup {b}) = b.amount + Total(S)
<1> DEFINE Wrong(T) == \E a \in U \ T : Total(T \cup {a}) # a.amount + Total(T)
<1>1. SUFFICES ASSUME Wrong(S) PROVE FALSE
  OBVIOUS
<1>2. \A T \in SUBSET U : Summable(T) /\ Cardinality(T) \in Nat
  BY FS_Subset, FS_CardinalityType DEF Summable
<1>3. PICK N : N = {Cardinality(T) : T \in {V \in SUBSET U : Wrong(V)}}
  OBVIOUS
<1>4. N \subseteq Nat /\ N # {}
  <2> HIDE DEF Wrong
  <2>. QED
    BY <1>1, <1>2, <1>3
<1>5. PICK n \in N : \A k \in N : n <= k
  BY <1>4, LeastNatural
<1>6. PICK T \in SUBSET U : n = Cardinality(T) /\ Wrong(T)
  <2> HIDE DEF Wrong
  <2>. QED
    BY <1>3, <1>5
<1>7. PICK a \in U \ T : Total(T \cup {a}) # a.amount + Total(T)
  BY <1>6
<1>8. PICK A : A = T \cup {a}
  OBVIOUS
<1>9. PICK x : x = First(A)
  OBVIOUS
<1>10. A \in SUBSET U /\ Summable(A) /\ x \in A
  BY <1>2, <1>7, <1>8, <1>9 DEF First
<1>11. Total(A) = x.amount + Total(A \ {x})
  BY <1>8, <1>9, <1>10, TotalStep
<1>12. x \in T
  <2>1. SUFFICES ASSUME x = a PROVE FALSE
    BY <1>8, <1>10
  <2>2. A \ {x} = T
    BY <1>7, <1>8, <2>1
  <2>. QED
    BY <1>7, <1>8, <1>11, <2>1, <2>2
<1>13. PICK V : V = T \ {x}
  OBVIOUS
<1>14. /\ V \in SUBSET U /\ x \in U \ V /\ a \in U \ V
       /\ T = V \cup {x} /\ A \ {x} = V \cup {a}
  BY <1>7, <1>8, <1>12, <1>13
<1>15. ~ Wrong(V)
  <2>1. Cardinality(V) \in Nat /\ Cardinality(V) < Cardinality(T)
    <3>1. IsFiniteSet(T) /\ Cardinality(T) \in Nat
      BY <1>2 DEF Summable
    <3>2. Cardinality(V) = Cardinality(T) - 1 /\ Cardinality(V) \in Nat
      BY <1>2, <1>12, <1>13, <1>14, <3>1, FS_RemoveElement
    <3>. QED
      BY <3>1, <3>2
  <2> HIDE DEF Wrong
  <2>. QED
    BY <1>2, <1>3, <1>5, <1>6, <1>14, <2>1
<1>16. Total(T) = x.amount + Total(V) /\ Total(A \ {x}) = a.amount + Total(V)
  BY <1>14, <1>15
<1>17. Total(V) \in Nat /\ x.amount \in Nat /\ a.amount \in Nat
  BY <1>2, <1>14, TotalStep DEF Summable
<1>. QED
  BY <1>7, <1>8, <1>11, <1>16, <1>17

LEMMA TotalGrows ==
  ASSUME NEW S, Summable(S), NEW P \in SUBSET S
  PROVE  Total(P) <= Total(S)
<1> DEFINE Wrong(T) == \E Q \in SUBSET T : ~ (Total(Q) <= Total(T))
<1>1. SUFFICES ASSUME Wrong(S) PROVE FALSE
  OBVIOUS
<1>2. \A T \in SUBSET S : Summable(T) /\ Cardinality(T) \in Nat
  BY FS_Subset, FS_CardinalityType DEF Summable
<1>3. PICK N : N = {Cardinality(T) : T \in {V \in SUBSET S : Wrong(V)}}
  OBVIOUS
<1>4. N \subseteq Nat /\ N # {}
  <2> HIDE DEF Wrong
  <2>. QED
    BY <1>1, <1>2, <1>3
<1>5. PICK n \in N : \A k \in N : n <= k
  BY <1>4, LeastNatural
<1>6. PICK T \in SUBSET S : n = Cardinality(T) /\ Wrong(T)
  <2> HIDE DEF Wrong
  <2>. QED
    BY <1>3, <1>5
<1>7. PICK Q \in SUBSET T : ~ (Total(Q) <= Total(T))
  BY <1>6
<1>8. PICK a \in T : a \notin Q
  <2>1. Total(T) \in Nat
    BY <1>2, TotalStep
  <2>. QED
    BY <1>7, <2>1
<1>9. PICK V : V = T \ {a}
  OBVIOUS
<1>10. V \in SUBSET S /\ Q \in SUBSET V /\ T = V \cup {a} /\ a \in S \ V
  BY <1>7, <1>8, <1>9
<1>11. ~ Wrong(V)
  <2>1. Cardinality(V) \in Nat /\ Cardinality(V) < Cardinality(T)
    <3>1. IsFiniteSet(T) /\ Cardinality(T) \in Nat
      BY <1>2 DEF Summable
    <3>2. Cardinality(V) = Cardinality(T) - 1 /\ Cardinality(V) \in Nat
      BY <1>2, <1>8, <1>9, <1>10, <3>1, FS_RemoveElement
    <3>. QED
      BY <3>1, <3>2
  <2> HIDE DEF Wrong
  <2>. QED
    BY <1>2, <1>3, <1>5, <1>6, <1>10, <2>1
<1>12. Total(T) = a.amount + Total(V) /\ Total(Q) <= Total(V)
  BY <1>10, <1>11, TotalOfUnion
<1>13. Total(V) \in Nat /\ Total(Q) \in Nat /\ a.amount \in Nat
  <2>1. Q \in SUBSET S
    OBVIOUS
  <2>. QED
    BY <1>2, <1>10, <2>1, TotalStep DEF Summable
<1>. QED
  BY <1>7, <1>12, <1>13

AllAllocations ==
    {Allocation(c, t) : c \in {d \in Commands : d.kind = "allocate"}, t \in 0 .. MaxTime}

LEMMA AllocationsAreSummable ==
  ASSUME AttributionConstants
  PROVE  Summable(AllAllocations)
<1>1. PICK C : C = {d \in Commands : d.kind = "allocate"}
  OBVIOUS
<1>2. IsFiniteSet(C) /\ IsFiniteSet(0 .. MaxTime)
  <2>1. C \in SUBSET Commands /\ IsFiniteSet(Commands) /\ MaxTime \in Nat
    BY <1>1 DEF AttributionConstants
  <2>2. IsFiniteSet(C)
    BY <2>1, FS_Subset
  <2>3. IsFiniteSet(0 .. MaxTime)
    BY <2>1, FS_Interval
  <2>. QED
    BY <2>2, <2>3
<1>3. IsFiniteSet(C \X (0 .. MaxTime))
  BY <1>2, FS_Product
<1>4. PICK f : f = [p \in C \X (0 .. MaxTime) |-> Allocation(p[1], p[2])]
  OBVIOUS
<1>5. f \in Surjection(C \X (0 .. MaxTime), AllAllocations)
  <2>1. \A c \in C, t \in 0 .. MaxTime : f[<<c, t>>] = Allocation(c, t) /\ f[<<c, t>>] \in AllAllocations
    BY <1>1, <1>4 DEF AllAllocations
  <2>2. \A p \in C \X (0 .. MaxTime) : f[p] \in AllAllocations
    BY <2>1
  <2>3. \A a \in AllAllocations : \E p \in C \X (0 .. MaxTime) : f[p] = a
    <3>1. \A a \in AllAllocations : \E c \in C, t \in 0 .. MaxTime : a = Allocation(c, t)
      BY <1>1 DEF AllAllocations
    <3>2. ASSUME NEW a \in AllAllocations
          PROVE  \E p \in C \X (0 .. MaxTime) : f[p] = a
      <4>1. PICK c \in C, t \in 0 .. MaxTime : a = Allocation(c, t)
        BY <3>1
      <4>2. <<c, t>> \in C \X (0 .. MaxTime) /\ f[<<c, t>>] = a
        BY <2>1, <4>1
      <4>. QED
        BY <4>2
    <3>. QED
      BY <3>2
  <2>. QED
    BY <1>4, <2>2, <2>3 DEF Surjection
<1>6. IsFiniteSet(AllAllocations)
  BY <1>3, <1>5, FS_Surjection
<1>7. \A a \in AllAllocations : a.amount \in Nat
  BY DEF AllAllocations, Allocation, AttributionConstants
<1>. QED
  BY <1>6, <1>7 DEF Summable

LEMMA SumLaws ==
  ASSUME AttributionConstants
  PROVE  /\ Total({}) = 0
         /\ \A A \in SUBSET AllAllocations :
              /\ \A a \in AllAllocations \ A : Total(A \cup {a}) = a.amount + Total(A)
              /\ Total(A) \in Nat /\ \A B \in SUBSET A : Total(B) <= Total(A)
<1>1. \A A \in SUBSET AllAllocations : Summable(A)
  BY AllocationsAreSummable, FS_Subset DEF Summable
<1>2. ASSUME NEW A \in SUBSET AllAllocations
      PROVE  /\ Total({}) = 0 /\ Total(A) \in Nat
             /\ \A B \in SUBSET A : Total(B) <= Total(A)
             /\ \A a \in AllAllocations \ A : Total(A \cup {a}) = a.amount + Total(A)
  BY <1>1, AllocationsAreSummable, TotalStep, TotalGrows, TotalOfUnion
<1>. QED
  BY <1>2

-----------------------------------------------------------------------------
(* The inductive invariant.                                                *)

Shape ==
    /\ clock \in 1 .. MaxTime /\ calls \in 0 .. MaxCalls
    /\ booked \in [Transactions -> 0 .. Never]
    /\ reversed \in [Transactions -> 0 .. Never]
    /\ open \subseteq Workers
    /\ pc \in [Workers -> {"idle", "ledger", "history", "sent", "recover"}]
    /\ command \in [Workers -> Commands \cup {Nobody}]
    /\ stamp \in [Workers -> 0 .. MaxTime]
    /\ want \in [Workers -> Seq(Transactions)]
    /\ held \in [Workers -> SUBSET Transactions]
    /\ DOMAIN seen = Workers /\ DOMAIN result = Workers /\ DOMAIN answers = Workers

(* The transaction was active when the allocation was recorded.            *)
ActiveAt(tx, t) == booked[tx] <= t /\ t < reversed[tx]

(* The ledger's times lie in the past; a reversal is stamped before it.    *)
LedgerInv ==
    \A tx \in Transactions :
        /\ booked[tx] = Never \/ booked[tx] <= clock
        /\ reversed[tx] = Never \/ reversed[tx] <= clock

AllocationOK(a) ==
    /\ a \in AllAllocations /\ a.recorded \in 0 .. clock
    /\ AccountOf[a.charge] = AccountOf[a.target] /\ a.account = AccountOf[a.charge]
    /\ ActiveAt(a.charge, a.recorded) /\ ActiveAt(a.target, a.recorded)

ReversalOK(r) ==
    /\ r.recorded \in 0 .. clock
    /\ \E a \in Allocations(events) :
          a.id = r.reverses /\ a.account = r.account /\ a.recorded <= r.recorded

EventsInv ==
    /\ \A e \in events : e.kind \in {"allocation", "reversal"}
    /\ \A a \in Allocations(events) : AllocationOK(a)
    /\ \A r \in Reversals(events) : ReversalOK(r)
    /\ \A d, e \in events : d.id = e.id => d = e
    /\ \A r, s \in Reversals(events) : s.reverses = r.reverses => s = r

(* What is active of a charge at a cutoff fits.                            *)
ActiveOf(tx, known, cutoff) ==
    {a \in ActiveAllocations(Included(known, cutoff)) : a.charge = tx}

FitsAt(tx, known, cutoff) ==
    /\ Total(ActiveOf(tx, known, cutoff)) <= Cash[tx]
    /\ \A a, b \in ActiveOf(tx, known, cutoff) : a.target = b.target => a = b

(* A session's command can be carried out, and it locks the charge before  *)
(* the target, or one row.                                                 *)
Feasible(c) ==
    /\ c \in Commands
    /\ c.kind = "allocate" => AccountOf[c.charge] = AccountOf[c.target]
    /\ c.kind = "reverse" => \E a \in Allocations(events) : a.id = c.reverses

Locking(w) ==
    \/ \E ch \in Charges, tg \in Targets :
          \/ want[w] = <<ch, tg>> /\ held[w] = {}
          \/ want[w] = <<tg>> /\ held[w] = {ch}
          \/ want[w] = <<>> /\ held[w] = {ch, tg}
    \/ \E tx \in Transactions :
          \/ want[w] = <<tx>> /\ held[w] = {}
          \/ want[w] = <<>> /\ held[w] = {tx}

(* What a worker does not see was reversed by its stamp, or booked at or   *)
(* after it.                                                               *)
SeenOK(w) ==
    \A tx \in Transactions :
        tx \in seen[w] \/ reversed[tx] <= stamp[w] \/ booked[tx] >= stamp[w]

ViewCause(w) ==
    \E a \in Allocations(events) : \E tx \in {a.charge, a.target} :
        /\ a.recorded <= stamp[w]
        /\ reversed[tx] <= stamp[w] \/ booked[tx] = stamp[w]

WorkerInv(w) ==
    /\ stamp[w] <= clock
    /\ w \notin open => held[w] = {} /\ want[w] = <<>>
    /\ w \in open => Feasible(command[w]) /\ Locking(w)
    /\ pc[w] \in {"ledger", "history"} =>
          /\ w \notin open /\ command[w] \in Commands /\ command[w].kind # "undo"
          /\ result[w] = "NONE"
    /\ pc[w] = "history" => SeenOK(w)
    /\ result[w] = "VIEW" => ViewCause(w)
    /\ answers[w] \subseteq events

Inv ==
    /\ Shape /\ LedgerInv /\ EventsInv
    /\ \A tx \in Charges, cutoff \in 0 .. MaxTime : FitsAt(tx, events, cutoff)
    /\ \A w \in Workers : WorkerInv(w)

-----------------------------------------------------------------------------
(* What every step leaves in place.                                        *)

Same(w) ==
    /\ pc'[w] = pc[w] /\ command'[w] = command[w] /\ stamp'[w] = stamp[w]
    /\ seen'[w] = seen[w] /\ want'[w] = want[w] /\ held'[w] = held[w]
    /\ (w \in open' <=> w \in open) /\ result'[w] = result[w] /\ answers'[w] = answers[w]

(* A transaction is booked once, now, and reversed once.                   *)
LedgerGrows ==
    \A tx \in Transactions :
        /\ booked'[tx] = booked[tx] \/ (booked[tx] = Never /\ booked'[tx] = clock)
        /\ reversed'[tx] = reversed[tx] \/ reversed[tx] = Never

LEMMA AllocationTypes ==
  ASSUME AttributionConstants, NEW a \in AllAllocations
  PROVE  /\ a.charge \in Charges /\ a.target \in Targets /\ a.kind = "allocation"
         /\ a.amount \in Nat /\ a.recorded \in 0 .. MaxTime
         /\ a.charge \in Transactions /\ a.target \in Transactions
<1>1. PICK c \in Commands, t \in 0 .. MaxTime : c.kind = "allocate" /\ a = Allocation(c, t)
  BY DEF AllAllocations
<1>2. c.charge \in Charges /\ c.target \in Targets /\ c.amount \in Nat
  BY <1>1 DEF AttributionConstants
<1>. QED
  BY <1>1, <1>2 DEF Allocation, Transactions

LEMMA TimeTypes ==
  ASSUME AttributionConstants, Shape
  PROVE  /\ clock \in Nat /\ clock <= MaxTime /\ MaxTime \in Nat /\ Never \in Nat /\ MaxTime < Never
         /\ \A w \in Workers : stamp[w] \in Nat /\ stamp[w] < Never
         /\ \A tx \in Transactions : booked[tx] \in Nat /\ reversed[tx] \in Nat
<1>1. MaxTime \in Nat /\ Never \in Nat /\ MaxTime < Never
  BY DEF AttributionConstants
<1>. QED
  BY <1>1 DEF Shape

LEMMA CauseKept ==
  ASSUME AttributionConstants, Inv, NEW w \in Workers, ViewCause(w), LedgerGrows,
         events \subseteq events', stamp'[w] = stamp[w]
  PROVE  ViewCause(w)'
<1>1. PICK a \in Allocations(events) : \E tx \in {a.charge, a.target} :
        a.recorded <= stamp[w] /\ (reversed[tx] <= stamp[w] \/ booked[tx] = stamp[w])
  BY DEF ViewCause
<1>2. PICK tx \in {a.charge, a.target} :
        a.recorded <= stamp[w] /\ (reversed[tx] <= stamp[w] \/ booked[tx] = stamp[w])
  BY <1>1
<1>3. tx \in Transactions
  BY <1>2, AllocationTypes DEF Inv, EventsInv, AllocationOK
<1>4. stamp[w] \in 0 .. MaxTime /\ stamp[w] # Never /\ ~ (Never <= stamp[w])
  BY DEF Inv, Shape, AttributionConstants
<1>5. reversed'[tx] <= stamp[w] \/ booked'[tx] = stamp[w]
  BY <1>2, <1>3, <1>4 DEF LedgerGrows
<1>6. a \in Allocations(events')
  BY DEF Allocations
<1>. QED
  BY <1>2, <1>5, <1>6 DEF ViewCause, Allocations

LEMMA WorkerKept ==
  ASSUME AttributionConstants, Inv, NEW w \in Workers, Same(w), LedgerGrows,
         events \subseteq events', clock' \in Nat, clock <= clock'
  PROVE  WorkerInv(w)'
<1>. WorkerInv(w) /\ Shape
  BY DEF Inv
<1>1. stamp[w] \in 0 .. MaxTime /\ stamp[w] <= clock /\ clock \in Nat /\ MaxTime \in Nat
  BY DEF WorkerInv, Shape, AttributionConstants
<1>2. stamp'[w] <= clock'
  BY <1>1 DEF Same
<1>3. Allocations(events) \subseteq Allocations(events')
  BY DEF Allocations
<1>4. w \in open' => Feasible(command[w])' /\ Locking(w)'
  BY <1>3 DEF Same, WorkerInv, Feasible, Locking, Allocations
<1>5. pc'[w] = "history" => SeenOK(w)'
  <2>1. SUFFICES ASSUME pc[w] = "history", NEW tx \in Transactions, tx \notin seen[w]
                 PROVE  reversed'[tx] <= stamp[w] \/ booked'[tx] >= stamp[w]
    BY DEF SeenOK, Same
  <2>2. reversed[tx] <= stamp[w] \/ booked[tx] >= stamp[w]
    BY <2>1 DEF WorkerInv, SeenOK
  <2>3. ~ (Never <= stamp[w])
    BY <1>1 DEF AttributionConstants
  <2>. QED
    BY <1>1, <2>1, <2>2, <2>3 DEF LedgerGrows
<1>6. result'[w] = "VIEW" => ViewCause(w)'
  BY CauseKept DEF Same, WorkerInv
<1>. QED
  BY <1>2, <1>4, <1>5, <1>6 DEF WorkerInv, Same

LEMMA FitsKept ==
  ASSUME UNCHANGED events, NEW tx, NEW cutoff, FitsAt(tx, events, cutoff)
  PROVE  FitsAt(tx, events, cutoff)'
  BY DEF FitsAt, ActiveOf, ActiveAllocations, Included, Allocations, Reversals

LEMMA EventsKept ==
  ASSUME EventsInv, UNCHANGED events, clock \in Nat, clock' \in Nat, clock <= clock',
         \A a \in Allocations(events) :
           ActiveAt(a.charge, a.recorded)' /\ ActiveAt(a.target, a.recorded)'
  PROVE  EventsInv'
<1>1. ASSUME NEW a \in Allocations(events)
      PROVE  AllocationOK(a)'
  BY <1>1 DEF EventsInv, AllocationOK, AllAllocations, Allocation
<1>2. ASSUME NEW r \in Reversals(events)
      PROVE  ReversalOK(r)'
  <2>1. ReversalOK(r)
    BY DEF EventsInv
  <2>2. r.recorded \in 0 .. clock'
    BY <2>1 DEF ReversalOK
  <2>. QED
    BY <2>1, <2>2 DEF ReversalOK, Allocations
<1>. QED
  BY <1>1, <1>2 DEF EventsInv, Allocations, Reversals

(* A step that neither records an event nor touches the ledger.            *)
LEMMA QuietStep ==
  ASSUME AttributionConstants, Inv, Shape', UNCHANGED <<clock, booked, reversed, events>>,
         NEW w \in Workers, WorkerInv(w)', \A v \in Workers : v # w => Same(v)
  PROVE  Inv'
<1>1. LedgerGrows /\ clock' \in Nat /\ clock <= clock' /\ clock \in Nat
  <2>1. clock \in Nat
    BY TimeTypes DEF Inv
  <2>3. clock' = clock /\ booked' = booked /\ reversed' = reversed
    OBVIOUS
  <2>2. LedgerGrows
    BY <2>3 DEF LedgerGrows
  <2>. QED
    BY <2>1, <2>2, <2>3
<1>2. \A v \in Workers : WorkerInv(v)'
  BY <1>1, WorkerKept
<1>3. LedgerInv'
  BY DEF LedgerInv, Inv
<1>4. EventsInv'
  BY <1>1, EventsKept DEF Inv, EventsInv, AllocationOK, ActiveAt
<1>5. \A tx \in Charges, cutoff \in 0 .. MaxTime : FitsAt(tx, events, cutoff)'
  BY FitsKept DEF Inv
<1>. QED
  BY <1>2, <1>3, <1>4, <1>5 DEF Inv

-----------------------------------------------------------------------------
(* The steps that neither record an event nor touch the ledger.            *)

LEMMA StartStep ==
  ASSUME AttributionConstants, Inv, NEW w \in Workers, NEW c \in Commands, Start(w, c)
  PROVE  Inv'
<1>. Shape /\ WorkerInv(w)
  BY DEF Inv
<1>1. /\ w \notin open /\ command'[w] = c /\ stamp'[w] = clock /\ held'[w] = {} /\ want[w] = <<>>
      /\ UNCHANGED <<clock, booked, reversed, events, seen, held>>
      /\ \A v \in Workers : v # w => Same(v)
  BY DEF Start, AnswerStored, Answer, Wait, ledger, Same, Shape, WorkerInv
<1>2. Shape'
  <2>1. calls' \in 0 .. MaxCalls
    BY DEF Start, Shape, AttributionConstants
  <2>2. command' \in [Workers -> Commands \cup {Nobody}] /\ stamp' \in [Workers -> 0 .. MaxTime]
    BY TimeTypes DEF Start, Shape
  <2>3. pc' \in [Workers -> {"idle", "ledger", "history", "sent", "recover"}]
    BY DEF Start, AnswerStored, Answer, Shape
  <2>4. want' \in [Workers -> Seq(Transactions)] /\ open' \subseteq Workers
    <3>1. c.kind = "undo" => <<c.tx>> \in Seq(Transactions)
      BY DEF AttributionConstants
    <3>. QED
      BY <3>1 DEF Start, Shape
  <2>5. DOMAIN result' = Workers /\ DOMAIN answers' = Workers
    BY DEF Start, AnswerStored, Answer, Wait, Shape
  <2>. QED
    BY <1>1, <2>1, <2>2, <2>3, <2>4, <2>5 DEF Shape
<1>3. WorkerInv(w)'
  <2>1. CASE c.kind = "undo"
    <3>1. /\ pc'[w] = "sent" /\ w \in open' /\ want'[w] = <<c.tx>> /\ answers'[w] = {}
          /\ result'[w] = "NONE" /\ c.tx \in Transactions
      BY <2>1 DEF Start, Wait, Shape, AttributionConstants
    <3>2. Feasible(command[w])' /\ Locking(w)'
      BY <1>1, <2>1, <3>1 DEF Feasible, Locking
    <3>. QED
      BY <1>1, <3>1, <3>2, TimeTypes DEF WorkerInv
  <2>2. CASE c.kind # "undo" /\ Stored(c.id) # {}
    <3>1. /\ pc'[w] = "idle" /\ w \notin open' /\ want'[w] = <<>> /\ answers'[w] \subseteq events
          /\ result'[w] \in {"OK", "CONFLICT"}
      BY <1>1, <2>2 DEF Start, AnswerStored, Answer, Shape, Stored
    <3>. QED
      BY <1>1, <3>1, TimeTypes DEF WorkerInv
  <2>3. CASE c.kind # "undo" /\ Stored(c.id) = {}
    <3>1. /\ pc'[w] = "ledger" /\ w \notin open' /\ want'[w] = <<>> /\ answers'[w] = {}
          /\ result'[w] = "NONE"
      BY <1>1, <2>3 DEF Start, Wait, Shape
    <3>. QED
      BY <1>1, <2>3, <3>1, TimeTypes DEF WorkerInv
  <2>. QED
    BY <2>1, <2>2, <2>3
<1>. QED
  BY <1>1, <1>2, <1>3, QuietStep

LEMMA ReadLedgerStep ==
  ASSUME AttributionConstants, Inv, NEW w \in Workers, ReadLedger(w)
  PROVE  Inv'
<1>. Shape /\ WorkerInv(w)
  BY DEF Inv
<1>1. /\ pc[w] = "ledger" /\ pc'[w] = "history"
      /\ seen'[w] = Active(booked, reversed, stamp[w])
      /\ UNCHANGED <<clock, booked, reversed, events, command, stamp, want, held, open, result,
                     answers, calls>>
      /\ \A v \in Workers : v # w => Same(v)
  BY DEF ReadLedger, ledger, session, Same, Shape
<1>2. Shape'
  BY <1>1 DEF ReadLedger, Shape
<1>3. SeenOK(w)'
  BY <1>1, TimeTypes DEF SeenOK, Active
<1>4. WorkerInv(w)'
  BY <1>1, <1>3 DEF WorkerInv
<1>. QED
  BY <1>1, <1>2, <1>4, QuietStep

LEMMA LockRowStep ==
  ASSUME AttributionConstants, Inv, NEW w \in Workers, LockRow(w)
  PROVE  Inv'
<1>. Shape /\ WorkerInv(w)
  BY DEF Inv
<1>1. /\ w \in open /\ want[w] # <<>> /\ want[w] \in Seq(Transactions)
      /\ held'[w] = held[w] \cup {Head(want[w])} /\ want'[w] = Tail(want[w])
      /\ UNCHANGED <<clock, booked, reversed, events, pc, command, stamp, seen, open, result,
                     answers, calls>>
      /\ \A v \in Workers : v # w => Same(v)
  BY DEF LockRow, ledger, Same, Shape
<1>2. Shape'
  BY <1>1 DEF LockRow, Shape
<1>3. Locking(w)'
  <2>1. Locking(w)
    BY <1>1 DEF WorkerInv
  <2>2. ASSUME NEW x, NEW y
        PROVE  /\ Head(<<x, y>>) = x /\ Tail(<<x, y>>) = <<y>>
               /\ Head(<<x>>) = x /\ Tail(<<x>>) = <<>>
    OBVIOUS
  <2>4. CASE \E ch \in Charges, tg \in Targets :
                \/ want[w] = <<ch, tg>> /\ held[w] = {}
                \/ want[w] = <<tg>> /\ held[w] = {ch}
    <3>1. PICK ch \in Charges, tg \in Targets :
            \/ want[w] = <<ch, tg>> /\ held[w] = {}
            \/ want[w] = <<tg>> /\ held[w] = {ch}
      BY <2>4
    <3>2. CASE want[w] = <<ch, tg>> /\ held[w] = {}
      <4>1. want'[w] = <<tg>> /\ held'[w] = {ch}
        BY <1>1, <2>2, <3>2
      <4>. QED
        BY <4>1 DEF Locking
    <3>3. CASE want[w] = <<tg>> /\ held[w] = {ch}
      <4>1. want'[w] = <<>> /\ held'[w] = {ch, tg}
        BY <1>1, <2>2, <3>3
      <4>. QED
        BY <4>1 DEF Locking
    <3>. QED
      BY <3>1, <3>2, <3>3
  <2>5. CASE \E tx \in Transactions : want[w] = <<tx>> /\ held[w] = {}
    BY <1>1, <2>2, <2>5 DEF Locking
  <2>. QED
    BY <1>1, <2>1, <2>4, <2>5 DEF Locking
<1>4. Feasible(command[w])'
  BY <1>1 DEF WorkerInv, Feasible, Allocations
<1>5. result'[w] = "VIEW" => ViewCause(w)'
  BY <1>1 DEF WorkerInv, ViewCause, Allocations
<1>6. WorkerInv(w)'
  BY <1>1, <1>3, <1>4, <1>5 DEF WorkerInv
<1>. QED
  BY <1>1, <1>2, <1>6, QuietStep

LEMMA GiveUpStep ==
  ASSUME AttributionConstants, Inv, NEW w \in Workers, GiveUp(w) \/ Recover(w)
  PROVE  Inv'
<1>. Shape /\ WorkerInv(w)
  BY DEF Inv
<1>1. /\ pc'[w] \in {"idle", "recover"}
      /\ UNCHANGED <<clock, booked, reversed, events, command, stamp, seen, want, held, open, calls>>
      /\ \A v \in Workers : v # w => Same(v)
  BY DEF GiveUp, Recover, Answer, AnswerStored, ledger, session, Same, Shape
<1>2. Shape'
  <2>1. pc' \in [Workers -> {"idle", "ledger", "history", "sent", "recover"}]
    BY DEF GiveUp, Recover, Answer, AnswerStored, Shape
  <2>2. DOMAIN result' = Workers /\ DOMAIN answers' = Workers
    BY DEF GiveUp, Recover, Answer, AnswerStored, Shape
  <2>. QED
    BY <1>1, <2>1, <2>2 DEF Shape
<1>3. /\ result'[w] \in {result[w], "ERROR", "OK", "CONFLICT"}
      /\ answers'[w] \subseteq events
  BY DEF GiveUp, Recover, Answer, AnswerStored, Stored, Shape, WorkerInv
<1>4. w \in open' => Feasible(command[w])' /\ Locking(w)'
  BY <1>1 DEF WorkerInv, Feasible, Locking, Allocations
<1>5. result'[w] = "VIEW" => ViewCause(w)'
  BY <1>1, <1>3 DEF WorkerInv, ViewCause, Allocations
<1>6. WorkerInv(w)'
  BY <1>1, <1>3, <1>4, <1>5 DEF WorkerInv
<1>. QED
  BY <1>1, <1>2, <1>6, QuietStep

-----------------------------------------------------------------------------
(* The view a worker reads.                                                *)

LEMMA ActiveOfTypes ==
  ASSUME Inv, NEW tx, NEW cutoff
  PROVE  ActiveOf(tx, events, cutoff) \subseteq AllAllocations
  BY DEF ActiveOf, ActiveAllocations, Included, Allocations, Inv, EventsInv, AllocationOK

LEMMA HistoryOK ==
  ASSUME AttributionConstants, Inv, NEW cutoff \in Int
  PROVE  WellFormed(Included(events, cutoff))
<1>1. ASSUME NEW r \in Reversals(Included(events, cutoff))
      PROVE  /\ \E a \in Allocations(Included(events, cutoff)) :
                   a.id = r.reverses /\ a.account = r.account /\ a.recorded <= r.recorded
             /\ \A s \in Reversals(Included(events, cutoff)) : s.reverses = r.reverses => s = r
  <2>1. r \in Reversals(events) /\ r.recorded <= cutoff
    BY DEF Reversals, Included
  <2>2. r.recorded \in Nat
    BY <2>1 DEF Inv, EventsInv, ReversalOK
  <2>3. PICK a \in Allocations(events) :
          a.id = r.reverses /\ a.account = r.account /\ a.recorded <= r.recorded
    BY <2>1 DEF Inv, EventsInv, ReversalOK
  <2>4. a.recorded \in Nat
    BY <2>3 DEF Inv, EventsInv, AllocationOK
  <2>5. a.recorded <= cutoff
    BY <2>1, <2>2, <2>3, <2>4
  <2>6. a \in Allocations(Included(events, cutoff))
    BY <2>5 DEF Allocations, Included
  <2>7. \A s \in Reversals(Included(events, cutoff)) : s \in Reversals(events)
    BY DEF Reversals, Included
  <2>. QED
    BY <2>1, <2>3, <2>6, <2>7 DEF Inv, EventsInv
<1>. QED
  BY <1>1 DEF WellFormed

LEMMA SingleFits ==
  ASSUME AttributionConstants, Inv, NEW tx \in Charges, NEW cutoff \in 0 .. MaxTime,
         NEW a \in ActiveOf(tx, events, cutoff)
  PROVE  a.amount <= Cash[tx]
<1>1. PICK A : A = ActiveOf(tx, events, cutoff)
  OBVIOUS
<1>2. A \in SUBSET AllAllocations /\ a \in A /\ a \in AllAllocations
  BY <1>1, ActiveOfTypes
<1>3. Total({} \cup {a}) = a.amount + Total({}) /\ Total({}) \in Nat
  <2>1. {} \in SUBSET AllAllocations /\ a \in AllAllocations \ {}
    BY <1>2
  <2>. QED
    BY <2>1, SumLaws
<1>4. Total({a}) <= Total(A) /\ Total(A) \in Nat /\ Total({a}) \in Nat
  <2>1. {a} \in SUBSET A /\ {a} \in SUBSET AllAllocations
    BY <1>2
  <2>. QED
    BY <1>2, <2>1, SumLaws
<1>5. {} \cup {a} = {a}
  OBVIOUS
<1>6. Total({a}) = a.amount + Total({})
  BY <1>3, <1>5
<1>7. Total(A) <= Cash[tx] /\ Cash[tx] \in Nat
  BY <1>1 DEF Inv, FitsAt, AttributionConstants
<1>8. a.amount \in Nat
  BY <1>2, AllocationTypes
<1>. QED
  BY <1>3, <1>4, <1>6, <1>7, <1>8

LEMMA ViewFails ==
  ASSUME AttributionConstants, Inv, NEW w \in Workers, pc[w] = "history", BindingFails(w)
  PROVE  ViewCause(w)
<1>. Shape /\ WorkerInv(w) /\ SeenOK(w)
  BY DEF Inv, WorkerInv
<1>1. PICK cutoff \in 0 .. MaxTime : cutoff = stamp[w]
  BY DEF Shape
<1>2. SUFFICES ASSUME ~ ViewCause(w)
               PROVE  Binds(Included(events, cutoff), seen[w])
  BY <1>1 DEF BindingFails
<1>3. PICK active : active = ActiveAllocations(Included(events, cutoff))
  OBVIOUS
<1>4. ASSUME NEW a \in active
      PROVE  /\ a \in Allocations(events) /\ AllocationOK(a) /\ a.recorded <= cutoff
             /\ a.charge \in Charges /\ a.target \in Targets
             /\ a \in ActiveOf(a.charge, events, cutoff)
  <2>1. a \in Allocations(events) /\ a.recorded <= cutoff /\ a \in ActiveOf(a.charge, events, cutoff)
    BY <1>3 DEF ActiveAllocations, Allocations, Included, ActiveOf
  <2>2. AllocationOK(a)
    BY <2>1 DEF Inv, EventsInv
  <2>. QED
    BY <2>1, <2>2, AllocationTypes DEF AllocationOK
<1>5. ASSUME NEW a \in active, NEW tx \in {a.charge, a.target}
      PROVE  tx \in seen[w]
  <2>1. tx \in Transactions /\ ActiveAt(tx, a.recorded)
    BY <1>4, <1>5 DEF AllocationOK, Transactions
  <2>2. ~ (reversed[tx] <= cutoff) /\ booked[tx] # cutoff
    BY <1>1, <1>2, <1>4, <1>5 DEF ViewCause
  <2>3. booked[tx] \in Nat /\ a.recorded \in Nat /\ cutoff \in Nat
    BY <1>4, <2>1, TimeTypes DEF AllocationOK
  <2>4. ~ (booked[tx] >= cutoff)
    BY <1>4, <2>1, <2>2, <2>3 DEF ActiveAt
  <2>. QED
    BY <1>1, <2>1, <2>2, <2>4 DEF SeenOK
<1>6. ValidSet(active, seen[w])
  <2>1. ASSUME NEW a \in active, NEW b \in active, a.charge = b.charge, a.target = b.target
        PROVE  a.id = b.id
    <3>1. b \in ActiveOf(a.charge, events, cutoff)
      BY <1>4, <2>1
    <3>2. FitsAt(a.charge, events, cutoff)
      BY <1>4 DEF Inv
    <3>3. a = b
      BY <1>4, <2>1, <3>1, <3>2 DEF FitsAt
    <3>. QED
      BY <3>3
  <2>2. ASSUME NEW a \in active
        PROVE  /\ a.charge \in Charges \cap seen[w] /\ a.target \in Targets \cap seen[w]
               /\ AccountOf[a.charge] = AccountOf[a.target]
               /\ a.amount <= Cash[a.charge]
               /\ Total({b \in active : b.charge = a.charge}) <= Cash[a.charge]
    <3>1. a.amount <= Cash[a.charge]
      BY <1>4, SingleFits
    <3>2. FitsAt(a.charge, events, cutoff)
      BY <1>4 DEF Inv
    <3>3. {b \in active : b.charge = a.charge} = ActiveOf(a.charge, events, cutoff)
      BY <1>3 DEF ActiveOf
    <3>. QED
      BY <1>4, <1>5, <3>1, <3>2, <3>3 DEF FitsAt, AllocationOK
  <2>. QED
    BY <2>1, <2>2 DEF ValidSet
<1>7. WellFormed(Included(events, cutoff))
  BY HistoryOK
<1>8. \A a \in active : a.account = AccountOf[a.charge]
  BY <1>4 DEF AllocationOK
<1>. QED
  BY <1>3, <1>6, <1>7, <1>8 DEF Binds

(* The allocation that a reversal names.                                   *)
LEMMA TargetOf ==
  ASSUME Inv, NEW c, c.kind = "reverse", Feasible(c)
  PROVE  Target(c) \in Allocations(events) /\ Target(c).id = c.reverses
<1>1. PICK a \in Allocations(events) : a.id = c.reverses
  BY DEF Feasible
<1>2. a \in events
  BY DEF Allocations
<1>3. \A e \in events : e.id = c.reverses => e = a
  BY <1>1, <1>2 DEF Inv, EventsInv
<1>4. Target(c) = a
  BY <1>1, <1>2, <1>3 DEF Target
<1>. QED
  BY <1>1, <1>4

LEMMA AdmittedFeasible ==
  ASSUME AttributionConstants, Inv, NEW c \in Commands, c.kind # "undo", NEW t, NEW active,
         Admitted(c, t, active)
  PROVE  Feasible(c)
<1>1. CASE c.kind = "allocate"
  <2>1. ValidSet(ActiveAllocations(Included(events, t)) \cup {Allocation(c, t)}, active)
    BY <1>1 DEF Admitted
  <2>2. PICK n : n = Allocation(c, t)
    OBVIOUS
  <2>3. AccountOf[n.charge] = AccountOf[n.target]
    BY <2>1, <2>2 DEF ValidSet
  <2>. QED
    BY <1>1, <2>2, <2>3 DEF Feasible, Allocation
<1>2. CASE c.kind = "reverse"
  BY <1>2 DEF Admitted, ActiveAllocations, Allocations, Included, Feasible
<1>. QED
  BY <1>1, <1>2 DEF AttributionConstants

LEMMA ReadHistoryStep ==
  ASSUME AttributionConstants, Inv, NEW w \in Workers, ReadHistory(w)
  PROVE  Inv'
<1>. Shape /\ WorkerInv(w)
  BY DEF Inv
<1>1. /\ pc[w] = "history" /\ w \notin open /\ held[w] = {} /\ want[w] = <<>>
      /\ command[w] \in Commands /\ command[w].kind # "undo" /\ result[w] = "NONE"
      /\ UNCHANGED <<clock, booked, reversed, events, command, stamp, seen, held, calls>>
      /\ \A v \in Workers : v # w => Same(v)
  BY DEF ReadHistory, Answer, ledger, WorkerInv, Same, Shape
<1>2. PICK c : c = command[w]
  OBVIOUS
<1>3. \/ /\ BindingFails(w) \/ ~ Admitted(c, stamp[w], seen[w])
         /\ Answer(w, IF BindingFails(w) THEN "VIEW" ELSE "REFUSED", {})
         /\ UNCHANGED <<open, want>>
      \/ /\ pc' = [pc EXCEPT ![w] = "recover"] /\ want' = [want EXCEPT ![w] = <<>>]
         /\ UNCHANGED <<open, result, answers>>
      \/ /\ ~ BindingFails(w) /\ Admitted(c, stamp[w], seen[w])
         /\ pc' = [pc EXCEPT ![w] = "sent"] /\ want' = [want EXCEPT ![w] = Locks(c)]
         /\ open' = open \cup {w}
         /\ UNCHANGED <<result, answers>>
  BY <1>2 DEF ReadHistory
<1>4. CASE /\ Answer(w, IF BindingFails(w) THEN "VIEW" ELSE "REFUSED", {})
           /\ UNCHANGED <<open, want>>
  <2>1. Shape'
    BY <1>1, <1>4 DEF Answer, Shape
  <2>2. /\ pc'[w] = "idle" /\ answers'[w] = {} /\ w \notin open'
        /\ result'[w] = IF BindingFails(w) THEN "VIEW" ELSE "REFUSED"
    BY <1>1, <1>4 DEF Answer, Shape
  <2>3. result'[w] = "VIEW" => ViewCause(w)'
    BY <1>1, <2>2, ViewFails DEF ViewCause, Allocations
  <2>4. WorkerInv(w)'
    BY <1>1, <1>4, <2>2, <2>3 DEF WorkerInv
  <2>. QED
    BY <1>1, <2>1, <2>4, QuietStep
<1>5. CASE /\ pc' = [pc EXCEPT ![w] = "recover"] /\ want' = [want EXCEPT ![w] = <<>>]
           /\ UNCHANGED <<open, result, answers>>
  <2>1. Shape'
    BY <1>1, <1>5 DEF Shape
  <2>2. WorkerInv(w)'
    BY <1>1, <1>5 DEF WorkerInv, Shape
  <2>. QED
    BY <1>1, <2>1, <2>2, QuietStep
<1>6. CASE /\ Admitted(c, stamp[w], seen[w])
           /\ pc' = [pc EXCEPT ![w] = "sent"] /\ want' = [want EXCEPT ![w] = Locks(c)]
           /\ open' = open \cup {w}
           /\ UNCHANGED <<result, answers>>
  <2>1. Feasible(c) /\ c \in Commands
    BY <1>1, <1>2, <1>6, AdmittedFeasible
  <2>2. PICK ch \in Charges, tg \in Targets : Locks(c) = <<ch, tg>>
    <3>1. CASE c.kind = "allocate"
      BY <2>1, <3>1 DEF Locks, AttributionConstants
    <3>2. CASE c.kind = "reverse"
      <4>1. Target(c) \in AllAllocations
        BY <2>1, <3>2, TargetOf DEF Inv, EventsInv, AllocationOK
      <4>. QED
        BY <3>2, <4>1, AllocationTypes DEF Locks
    <3>. QED
      BY <1>1, <1>2, <3>1, <3>2 DEF AttributionConstants
  <2>3. Locks(c) \in Seq(Transactions)
    BY <2>2 DEF Transactions
  <2>4. Shape'
    BY <1>1, <1>6, <2>3 DEF Shape
  <2>5. want'[w] = <<ch, tg>> /\ held'[w] = {} /\ pc'[w] = "sent" /\ w \in open'
    BY <1>1, <1>6, <2>2 DEF Shape
  <2>6. Feasible(command[w])' /\ Locking(w)'
    BY <1>1, <1>2, <2>1, <2>5 DEF Feasible, Locking, Allocations
  <2>7. WorkerInv(w)'
    BY <1>1, <1>6, <2>5, <2>6 DEF WorkerInv
  <2>. QED
    BY <1>1, <2>4, <2>7, QuietStep
<1>. QED
  BY <1>3, <1>4, <1>5, <1>6

-----------------------------------------------------------------------------
(* The insert.                                                             *)

(* Another event that is about another charge, or not known at the cutoff, *)
(* does not change what is active of a charge.                             *)
LEMMA OthersActive ==
  ASSUME Inv, NEW tx, NEW cutoff, NEW n, n \notin events,
         \/ ~ (n.recorded <= cutoff)
         \/ n.kind = "allocation" /\ n.charge # tx
         \/ /\ n.kind = "reversal"
            /\ \A a \in Allocations(events) : a.id = n.reverses => a.charge # tx
  PROVE  ActiveOf(tx, events \cup {n}, cutoff) = ActiveOf(tx, events, cutoff)
<1>1. CASE ~ (n.recorded <= cutoff)
  <2>1. Included(events \cup {n}, cutoff) = Included(events, cutoff)
    BY <1>1 DEF Included
  <2>. QED
    BY <2>1 DEF ActiveOf
<1>2. CASE n.kind = "allocation" /\ n.charge # tx
  BY <1>2 DEF ActiveOf, ActiveAllocations, Included, Allocations, Reversals
<1>3. CASE /\ n.kind = "reversal"
           /\ \A a \in Allocations(events) : a.id = n.reverses => a.charge # tx
  BY <1>3 DEF ActiveOf, ActiveAllocations, Included, Allocations, Reversals
<1>. QED
  BY <1>1, <1>2, <1>3

(* From the last event about a charge on, the cutoff makes no difference.  *)
LEMMA CurrentActive ==
  ASSUME AttributionConstants, Inv, NEW tx \in Charges, NEW cutoff \in Int,
         \A e \in OfCharge(tx) : e.recorded <= cutoff
  PROVE  ActiveOf(tx, events, cutoff) = {a \in ActiveAllocations(events) : a.charge = tx}
<1>1. ASSUME NEW a \in Allocations(events), a.charge = tx
      PROVE  a \in OfCharge(tx) /\ \A r \in Reversals(events) : r.reverses = a.id => r \in OfCharge(tx)
  BY <1>1 DEF OfCharge, Evidence, Allocations, Reversals
<1>2. ASSUME NEW a \in Allocations(events), a.charge = tx
      PROVE  a \in ActiveAllocations(Included(events, cutoff)) <=> a \in ActiveAllocations(events)
  BY <1>1, <1>2 DEF ActiveAllocations, Included, Allocations, Reversals
<1>3. ActiveAllocations(Included(events, cutoff)) \subseteq Allocations(events)
  BY DEF ActiveAllocations, Included, Allocations
<1>4. ActiveAllocations(events) \subseteq Allocations(events)
  BY DEF ActiveAllocations
<1>. QED
  BY <1>2, <1>3, <1>4 DEF ActiveOf

(* What an insert leaves true for every worker and every cutoff.           *)
Inserted ==
    /\ LedgerInv' /\ EventsInv' /\ LedgerGrows /\ events \subseteq events'
    /\ booked' \in [Transactions -> 0 .. Never] /\ reversed' \in [Transactions -> 0 .. Never]
    /\ \A tx \in Charges, cutoff \in 0 .. MaxTime : FitsAt(tx, events', cutoff)

LEMMA LedgerSame ==
  ASSUME Inv, UNCHANGED <<clock, booked, reversed>>
  PROVE  /\ LedgerInv' /\ LedgerGrows
         /\ booked' \in [Transactions -> 0 .. Never] /\ reversed' \in [Transactions -> 0 .. Never]
<1>1. clock' = clock /\ booked' = booked /\ reversed' = reversed
  OBVIOUS
<1>. QED
  BY <1>1 DEF Inv, Shape, LedgerInv, LedgerGrows

LEMMA InsertAllocation ==
  ASSUME AttributionConstants, Inv, NEW c, Feasible(c), c.kind = "allocate",
         NEW t \in 0 .. MaxTime, t <= clock,
         AcceptsAllocation(c, t), Stored(c.id) = {},
         events' = events \cup {Allocation(c, t)}, UNCHANGED <<clock, booked, reversed>>
  PROVE  Inserted
<1>. Shape /\ EventsInv
  BY DEF Inv
<1>1. PICK n : n = Allocation(c, t)
  OBVIOUS
<1>2. /\ n.id = c.id /\ n.kind = "allocation" /\ n.charge = c.charge /\ n.target = c.target
      /\ n.amount = c.amount /\ n.account = AccountOf[c.charge] /\ n.recorded = t
  BY <1>1 DEF Allocation
<1>3. /\ c \in Commands /\ n \in AllAllocations /\ n \notin events /\ events' = events \cup {n}
      /\ c.charge \in Charges /\ c.target \in Targets
      /\ c.charge \in Transactions /\ c.target \in Transactions
  BY <1>1, <1>2 DEF Feasible, AllAllocations, AttributionConstants, Stored, Transactions
<1>4. Allocations(events') = Allocations(events) \cup {n} /\ Reversals(events') = Reversals(events)
  BY <1>2, <1>3 DEF Allocations, Reversals
<1>5. \A e \in OfCharge(c.charge) : t >= e.recorded
  BY DEF AcceptsAllocation, NotBefore
<1>6. ActiveAt(c.charge, t) /\ ActiveAt(c.target, t)
  <2>1. /\ booked[c.charge] \in Nat /\ booked[c.target] \in Nat
        /\ reversed[c.charge] \in Nat /\ reversed[c.target] \in Nat
    BY <1>3, TimeTypes
  <2>. QED
    BY <2>1 DEF AcceptsAllocation, NotReversed, NotBefore, ActiveAt
<1>7. EventsInv'
  <2>1. ASSUME NEW a \in Allocations(events')
        PROVE  AllocationOK(a)'
    <3>1. CASE a \in Allocations(events)
      BY <3>1 DEF EventsInv, AllocationOK, ActiveAt, AllAllocations, Allocation
    <3>2. CASE a = n
      <4>1. n.recorded \in 0 .. clock' /\ AllAllocations' = AllAllocations
        BY <1>2, TimeTypes DEF AllAllocations, Allocation
      <4>2. AccountOf[c.charge] = AccountOf[c.target]
        BY DEF Feasible
      <4>. QED
        BY <1>2, <1>3, <1>6, <3>2, <4>1, <4>2 DEF AllocationOK, ActiveAt
    <3>. QED
      BY <1>4, <3>1, <3>2
  <2>2. ASSUME NEW r \in Reversals(events')
        PROVE  ReversalOK(r)'
    BY <1>4 DEF EventsInv, ReversalOK
  <2>3. \A d, e \in events' : d.id = e.id => d = e
    BY <1>2, <1>3 DEF EventsInv, Stored
  <2>4. \A e \in events' : e.kind \in {"allocation", "reversal"}
    BY <1>2, <1>3 DEF EventsInv
  <2>. QED
    BY <1>4, <2>1, <2>2, <2>3, <2>4 DEF EventsInv
<1>8. ASSUME NEW tx \in Charges, NEW cutoff \in 0 .. MaxTime
      PROVE  FitsAt(tx, events', cutoff)
  <2>1. FitsAt(tx, events, cutoff)
    BY DEF Inv
  <2>2. CASE ~ (t <= cutoff) \/ tx # c.charge
    <3>1. ActiveOf(tx, events', cutoff) = ActiveOf(tx, events, cutoff)
      BY <1>2, <1>3, <2>2, OthersActive
    <3>. QED
      BY <2>1, <3>1 DEF FitsAt
  <2>3. CASE t <= cutoff /\ tx = c.charge
    <3>1. PICK A : A = {a \in ActiveAllocations(events) : a.charge = tx}
      OBVIOUS
    <3>2. \A e \in OfCharge(tx) : e.recorded <= cutoff
      <4>1. ASSUME NEW e \in OfCharge(tx)
            PROVE  e.recorded \in Nat
        BY DEF OfCharge, Evidence, Allocations, Reversals, EventsInv, AllocationOK, ReversalOK
      <4>. QED
        BY <1>5, <2>3, <4>1
    <3>3. ActiveOf(tx, events, cutoff) = A
      BY <3>1, <3>2, CurrentActive
    <3>4. \A r \in Reversals(events) : r.reverses # n.id
      BY <1>2 DEF EventsInv, ReversalOK, Stored, Allocations
    <3>5. ActiveOf(tx, events', cutoff) = A \cup {n}
      <4>1. Included(events', cutoff) = Included(events, cutoff) \cup {n}
        BY <1>2, <1>3, <2>3 DEF Included
      <4>2. /\ Allocations(Included(events', cutoff)) = Allocations(Included(events, cutoff)) \cup {n}
            /\ Reversals(Included(events', cutoff)) = Reversals(Included(events, cutoff))
        BY <1>2, <4>1 DEF Allocations, Reversals
      <4>3. \A r \in Reversals(Included(events, cutoff)) : r.reverses # n.id
        BY <3>4 DEF Reversals, Included
      <4>4. ActiveAllocations(Included(events', cutoff))
              = ActiveAllocations(Included(events, cutoff)) \cup {n}
        BY <4>2, <4>3 DEF ActiveAllocations
      <4>. QED
        BY <1>2, <2>3, <3>3, <4>4 DEF ActiveOf
    <3>6. n \in AllAllocations \ A /\ A \in SUBSET AllAllocations
      BY <1>3, <3>3, ActiveOfTypes, <3>1 DEF ActiveAllocations, Allocations
    <3>7. Total(A \cup {n}) = n.amount + Total(A) /\ Total(A) \in Nat
      BY <3>6, SumLaws
    <3>8. c.amount + Total(A) <= Cash[c.charge] /\ \A a \in A : a.target # c.target
      BY <2>3, <3>1 DEF AcceptsAllocation, Fits
    <3>9. Total(A \cup {n}) <= Cash[tx]
      BY <1>2, <2>3, <3>7, <3>8
    <3>10. \A a, b \in A \cup {n} : a.target = b.target => a = b
      BY <1>2, <2>1, <3>3, <3>8 DEF FitsAt
    <3>. QED
      BY <3>5, <3>9, <3>10 DEF FitsAt
  <2>. QED
    BY <2>2, <2>3
<1>. QED
  BY <1>3, <1>7, <1>8, LedgerSame DEF Inserted

LEMMA InsertReversal ==
  ASSUME AttributionConstants, Inv, NEW c, Feasible(c), c.kind = "reverse",
         NEW t \in 0 .. MaxTime, t <= clock,
         AcceptsReversal(c, t), Stored(c.id) = {},
         events' = events \cup {Reversal(c, t)}, UNCHANGED <<clock, booked, reversed>>
  PROVE  Inserted
<1>. Shape /\ EventsInv
  BY DEF Inv
<1>1. PICK n : n = Reversal(c, t)
  OBVIOUS
<1>2. PICK a : a = Target(c)
  OBVIOUS
<1>3. a \in Allocations(events) /\ a.id = c.reverses /\ AllocationOK(a)
  BY <1>2, TargetOf DEF EventsInv
<1>4. /\ n.id = c.id /\ n.kind = "reversal" /\ n.reverses = c.reverses
      /\ n.account = a.account /\ n.recorded = t
  BY <1>1, <1>2 DEF Reversal
<1>5. n \notin events /\ events' = events \cup {n}
  BY <1>1, <1>4 DEF Stored
<1>6. Allocations(events') = Allocations(events) /\ Reversals(events') = Reversals(events) \cup {n}
  BY <1>4, <1>5 DEF Allocations, Reversals
<1>7. EventsInv'
  <2>1. ASSUME NEW d \in Allocations(events')
        PROVE  AllocationOK(d)'
    BY <1>6 DEF EventsInv, AllocationOK, ActiveAt, AllAllocations, Allocation
  <2>2. ASSUME NEW r \in Reversals(events')
        PROVE  ReversalOK(r)'
    <3>1. CASE r \in Reversals(events)
      BY <1>6, <3>1 DEF EventsInv, ReversalOK
    <3>2. CASE r = n
      <4>1. a.recorded <= t
        BY <1>2, <1>3 DEF AcceptsReversal, AllocationOK
      <4>2. t \in 0 .. clock'
        BY TimeTypes
      <4>. QED
        BY <1>3, <1>4, <1>6, <3>2, <4>1, <4>2 DEF ReversalOK
    <3>. QED
      BY <1>6, <3>1, <3>2
  <2>3. \A d, e \in events' : d.id = e.id => d = e
    BY <1>4, <1>5 DEF EventsInv, Stored
  <2>4. \A e \in events' : e.kind \in {"allocation", "reversal"}
    BY <1>4, <1>5 DEF EventsInv
  <2>5. \A r, s \in Reversals(events') : s.reverses = r.reverses => s = r
    <3>1. \A r \in Reversals(events) : r.reverses # n.reverses
      BY <1>4 DEF AcceptsReversal, AlreadyReversed
    <3>. QED
      BY <1>6, <3>1 DEF EventsInv
  <2>. QED
    BY <2>1, <2>2, <2>3, <2>4, <2>5 DEF EventsInv
<1>8. ASSUME NEW tx \in Charges, NEW cutoff \in 0 .. MaxTime
      PROVE  FitsAt(tx, events', cutoff)
  <2>1. FitsAt(tx, events, cutoff)
    BY DEF Inv
  <2>2. ActiveOf(tx, events', cutoff) \subseteq ActiveOf(tx, events, cutoff)
    BY <1>4, <1>5 DEF ActiveOf, ActiveAllocations, Included, Allocations, Reversals
  <2>3. ActiveOf(tx, events, cutoff) \in SUBSET AllAllocations
    BY ActiveOfTypes
  <2>4. /\ Total(ActiveOf(tx, events', cutoff)) <= Total(ActiveOf(tx, events, cutoff))
        /\ Total(ActiveOf(tx, events', cutoff)) \in Nat /\ Total(ActiveOf(tx, events, cutoff)) \in Nat
    <3>1. ActiveOf(tx, events', cutoff) \in SUBSET AllAllocations
      BY <2>2, <2>3
    <3>. QED
      BY <2>2, <2>3, <3>1, SumLaws
  <2>5. Cash[tx] \in Nat
    BY DEF AttributionConstants
  <2>. QED
    BY <2>1, <2>2, <2>4, <2>5 DEF FitsAt
<1>. QED
  BY <1>5, <1>7, <1>8, LedgerSame DEF Inserted

LEMMA InsertUndo ==
  ASSUME AttributionConstants, Inv, NEW c, Feasible(c), c.kind = "undo",
         NEW t \in 0 .. MaxTime, t <= clock, AcceptsUndo(c, t),
         reversed' = [reversed EXCEPT ![c.tx] = t], UNCHANGED <<clock, booked, events>>
  PROVE  Inserted
<1>. Shape /\ EventsInv
  BY DEF Inv
<1>1. c.tx \in Transactions /\ t \in 0 .. Never
  BY DEF Feasible, AttributionConstants
<1>2. LedgerInv' /\ LedgerGrows /\ reversed' \in [Transactions -> 0 .. Never]
  BY <1>1 DEF Inv, Shape, LedgerInv, LedgerGrows, AcceptsUndo
<1>3. ASSUME NEW a \in Allocations(events), NEW tx \in {a.charge, a.target}
      PROVE  ActiveAt(tx, a.recorded)'
  <2>1. ActiveAt(tx, a.recorded) /\ tx \in Transactions
    BY <1>3, AllocationTypes DEF EventsInv, AllocationOK
  <2>2. CASE tx = c.tx
    <3>1. a \in Related(c.tx)
      BY <1>3, <2>2 DEF Related, Evidence
    <3>2. a.recorded \in Nat /\ a.recorded < t
      BY <3>1 DEF AcceptsUndo, EventsInv, AllocationOK
    <3>. QED
      BY <2>1, <2>2, <3>2 DEF ActiveAt, Shape
  <2>3. CASE tx # c.tx
    BY <2>1, <2>3 DEF ActiveAt, Shape
  <2>. QED
    BY <2>2, <2>3
<1>4. clock \in Nat
  BY TimeTypes
<1>5. EventsInv'
  BY <1>3, <1>4, EventsKept
<1>. QED
  BY <1>2, <1>5 DEF Inserted, Inv, Shape

LEMMA InsertStep ==
  ASSUME AttributionConstants, Inv, NEW c, Feasible(c), NEW t \in 0 .. MaxTime, t <= clock,
         Insert(c, t), UNCHANGED clock
  PROVE  Inserted
<1>1. c.kind \in {"allocate", "reverse", "undo"}
  BY DEF Feasible, AttributionConstants
<1>2. \/ /\ c.kind = "allocate" /\ AcceptsAllocation(c, t) /\ Stored(c.id) = {}
         /\ events' = events \cup {Allocation(c, t)} /\ UNCHANGED <<booked, reversed>>
      \/ /\ c.kind = "reverse" /\ AcceptsReversal(c, t) /\ Stored(c.id) = {}
         /\ events' = events \cup {Reversal(c, t)} /\ UNCHANGED <<booked, reversed>>
      \/ /\ c.kind = "undo" /\ AcceptsUndo(c, t)
         /\ reversed' = [reversed EXCEPT ![c.tx] = t] /\ UNCHANGED <<events, booked>>
      \/ UNCHANGED <<events, booked, reversed>>
  BY <1>1 DEF Insert, ledger
<1>3. CASE UNCHANGED <<events, booked, reversed>>
  <2>1. clock \in Nat
    BY TimeTypes DEF Inv
  <2>2. EventsInv'
    BY <1>3, <2>1, EventsKept DEF Inv, EventsInv, AllocationOK, ActiveAt
  <2>3. \A tx \in Charges, cutoff \in 0 .. MaxTime : FitsAt(tx, events', cutoff)
    BY <1>3 DEF Inv
  <2>. QED
    BY <1>3, <2>2, <2>3, LedgerSame DEF Inserted
<1>. QED
  BY <1>2, <1>3, InsertAllocation, InsertReversal, InsertUndo

LEMMA FinishStep ==
  ASSUME AttributionConstants, Inv, NEW w \in Workers, Finish(w)
  PROVE  Inv'
<1>. Shape /\ WorkerInv(w)
  BY DEF Inv
<1>1. /\ w \in open /\ open' = open \ {w} /\ held'[w] = {} /\ want[w] = <<>>
      /\ pc'[w] \in {pc[w], "idle", "recover"}
      /\ result'[w] \in {result[w], "DONE"} /\ answers'[w] \in {answers[w], {}}
      /\ UNCHANGED <<clock, command, stamp, seen, want, calls>>
      /\ \A v \in Workers : v # w => Same(v)
  BY DEF Finish, Close, Answer, Same, Shape
<1>2. /\ Feasible(command[w]) /\ pc[w] \notin {"ledger", "history"}
      /\ stamp[w] \in 0 .. MaxTime /\ stamp[w] <= clock /\ clock' = clock
  BY <1>1 DEF WorkerInv, Shape
<1>3. PICK c : c = command[w]
  OBVIOUS
<1>4. PICK t \in 0 .. MaxTime : t = stamp[w]
  BY <1>2
<1>5. Inserted
  BY <1>2, <1>3, <1>4, InsertStep DEF Finish
<1>6. Shape'
  <2>1. pc' \in [Workers -> {"idle", "ledger", "history", "sent", "recover"}]
    BY DEF Finish, Answer, Shape
  <2>2. DOMAIN result' = Workers /\ DOMAIN answers' = Workers
    BY DEF Finish, Answer, Shape
  <2>3. held' \in [Workers -> SUBSET Transactions] /\ open' \subseteq Workers
    BY DEF Finish, Close, Shape
  <2>. QED
    BY <1>1, <1>5, <2>1, <2>2, <2>3 DEF Shape, Inserted
<1>7. WorkerInv(w)'
  <2>1. w \notin open' /\ pc'[w] \notin {"ledger", "history"}
    BY <1>1, <1>2
  <2>2. result'[w] = "VIEW" => ViewCause(w)'
    BY <1>1, <1>5, CauseKept DEF WorkerInv, Inserted
  <2>3. answers'[w] \subseteq events'
    BY <1>1, <1>5 DEF WorkerInv, Inserted
  <2>4. stamp'[w] <= clock'
    BY <1>1, <1>2
  <2>. QED
    BY <1>1, <2>1, <2>2, <2>3, <2>4 DEF WorkerInv
<1>8. ASSUME NEW v \in Workers, v # w
      PROVE  WorkerInv(v)'
  BY <1>1, <1>2, <1>5, <1>8, WorkerKept, TimeTypes DEF Inserted
<1>9. \A tx \in Charges, cutoff \in 0 .. MaxTime : FitsAt(tx, events, cutoff)'
  BY <1>5 DEF Inserted, FitsAt, ActiveOf, ActiveAllocations, Included, Allocations, Reversals
<1>. QED
  BY <1>5, <1>6, <1>7, <1>8, <1>9 DEF Inv, Inserted

-----------------------------------------------------------------------------
(* The other requests and the clock.                                       *)

LEMMA TimeStep ==
  ASSUME AttributionConstants, Inv, UNCHANGED events, Shape', LedgerInv', LedgerGrows,
         clock <= clock', \A w \in Workers : Same(w),
         \A a \in Allocations(events) :
           ActiveAt(a.charge, a.recorded)' /\ ActiveAt(a.target, a.recorded)'
  PROVE  Inv'
<1>1. clock \in Nat /\ clock' \in Nat
  BY TimeTypes DEF Inv, Shape, AttributionConstants
<1>2. EventsInv'
  BY <1>1, EventsKept DEF Inv
<1>3. \A w \in Workers : WorkerInv(w)'
  BY <1>1, WorkerKept
<1>4. \A tx \in Charges, cutoff \in 0 .. MaxTime : FitsAt(tx, events, cutoff)'
  BY FitsKept DEF Inv
<1>. QED
  BY <1>2, <1>3, <1>4 DEF Inv

LEMMA BookStep ==
  ASSUME AttributionConstants, Inv, NEW tx \in Transactions, Book(tx)
  PROVE  Inv'
<1>. Shape
  BY DEF Inv
<1>1. /\ booked[tx] = Never /\ booked' = [booked EXCEPT ![tx] = clock]
      /\ UNCHANGED <<clock, reversed, events>>
  BY DEF Book
<1>2. clock \in 0 .. Never /\ clock <= clock'
  BY <1>1, TimeTypes
<1>3. Shape'
  BY <1>1, <1>2 DEF Book, session, Shape
<1>4. LedgerInv' /\ LedgerGrows
  BY <1>1, <1>2 DEF Inv, Shape, LedgerInv, LedgerGrows
<1>5. ASSUME NEW a \in Allocations(events), NEW x \in {a.charge, a.target}
      PROVE  ActiveAt(x, a.recorded)'
  <2>1. ActiveAt(x, a.recorded) /\ x \in Transactions /\ a.recorded \in Nat /\ a.recorded <= clock
    BY <1>5, AllocationTypes DEF Inv, EventsInv, AllocationOK
  <2>2. x # tx
    BY <1>1, <2>1, TimeTypes DEF ActiveAt
  <2>. QED
    BY <1>1, <2>1, <2>2 DEF ActiveAt, Shape
<1>6. \A w \in Workers : Same(w)
  BY DEF Book, session, Same
<1>. QED
  BY <1>1, <1>2, <1>3, <1>4, <1>5, <1>6, TimeStep

LEMMA TickStep ==
  ASSUME AttributionConstants, Inv, Tick \/ UNCHANGED vars
  PROVE  Inv'
<1>. Shape
  BY DEF Inv
<1>1. UNCHANGED <<booked, reversed, events>> /\ clock <= clock' /\ clock' \in 1 .. MaxTime
  BY TimeTypes DEF Tick, vars, ledger, Shape
<1>2. booked' = booked /\ reversed' = reversed
  BY <1>1
<1>3. Shape'
  BY <1>1 DEF Tick, vars, ledger, session, Shape
<1>4. LedgerInv' /\ LedgerGrows
  <2>1. LedgerGrows
    BY <1>2 DEF LedgerGrows
  <2>2. ASSUME NEW tx \in Transactions
        PROVE  /\ booked[tx] = Never \/ booked[tx] <= clock'
               /\ reversed[tx] = Never \/ reversed[tx] <= clock'
    BY <1>1, TimeTypes DEF Inv, LedgerInv
  <2>. QED
    BY <1>2, <2>1, <2>2 DEF LedgerInv
<1>5. \A w \in Workers : Same(w)
  BY DEF Tick, vars, session, Same
<1>6. \A a \in Allocations(events) :
        ActiveAt(a.charge, a.recorded)' /\ ActiveAt(a.target, a.recorded)'
  BY <1>2 DEF Inv, EventsInv, AllocationOK, ActiveAt
<1>. QED
  BY <1>1, <1>3, <1>4, <1>5, <1>6, TimeStep

-----------------------------------------------------------------------------
LEMMA InvInit == ASSUME AttributionConstants, Init PROVE Inv
<1>1. Shape
  BY DEF Init, Shape, Transactions, AttributionConstants
<1>2. LedgerInv
  BY DEF Init, LedgerInv, Transactions
<1>3. EventsInv
  BY DEF Init, EventsInv, Allocations, Reversals
<1>4. ASSUME NEW tx \in Charges, NEW cutoff \in 0 .. MaxTime
      PROVE  FitsAt(tx, events, cutoff)
  <2>1. ActiveOf(tx, events, cutoff) = {}
    BY DEF Init, ActiveOf, ActiveAllocations, Included, Allocations
  <2>2. Total({}) <= Cash[tx]
    BY SumLaws DEF AttributionConstants
  <2>. QED
    BY <2>1, <2>2 DEF FitsAt
<1>5. ASSUME NEW w \in Workers
      PROVE  WorkerInv(w)
  BY <1>5 DEF Init, WorkerInv
<1>. QED
  BY <1>1, <1>2, <1>3, <1>4, <1>5 DEF Inv

LEMMA InvStep == ASSUME AttributionConstants, Inv, [Next]_vars PROVE Inv'
<1>1. CASE Tick \/ UNCHANGED vars
  BY <1>1, TickStep
<1>2. CASE \E tx \in Charges \cup Targets : Book(tx)
  BY <1>2, BookStep DEF Transactions
<1>3. CASE \E w \in Workers : Work(w) \/ GiveUp(w) \/ \E c \in Commands : Start(w, c)
  BY <1>3, ReadLedgerStep, ReadHistoryStep, LockRowStep, FinishStep, GiveUpStep, StartStep DEF Work
<1>. QED
  BY <1>1, <1>2, <1>3 DEF Next

-----------------------------------------------------------------------------
(* What the invariant says of the properties.                              *)

LEMMA InvTypeOK == ASSUME AttributionConstants, Inv PROVE TypeOK
<1>1. \A w \in Workers : stamp[w] \in 0 .. clock
  BY TimeTypes DEF Inv, WorkerInv
<1>. QED
  BY <1>1 DEF Inv, Shape, WorkerInv, TypeOK, Transactions

LEMMA InvFits == ASSUME AttributionConstants, Inv PROVE NeverOverAllocatedAtAnyCutoff
<1>1. SUFFICES ASSUME NEW cutoff \in 0 .. MaxTime, NEW active,
                      active = ActiveAllocations(Included(events, cutoff))
               PROVE  /\ \A tx \in Charges : Total({a \in active : a.charge = tx}) <= Cash[tx]
                      /\ \A a, b \in active :
                            <<a.charge, a.target>> = <<b.charge, b.target>> => a = b
  BY DEF NeverOverAllocatedAtAnyCutoff
<1>2. \A tx \in Charges : ActiveOf(tx, events, cutoff) = {a \in active : a.charge = tx}
  BY <1>1 DEF ActiveOf
<1>3. \A tx \in Charges : FitsAt(tx, events, cutoff)
  BY DEF Inv
<1>4. \A a \in active : a.charge \in Charges
  BY <1>1, AllocationTypes
  DEF ActiveAllocations, Included, Allocations, Inv, EventsInv, AllocationOK
<1>. QED
  BY <1>2, <1>3, <1>4 DEF FitsAt

LEMMA InvHistory ==
  ASSUME AttributionConstants, Inv
  PROVE  AllocatedWhileActive /\ HistoryNeverRaises /\ ViewFailureHasCause /\ AnswersAreStored
<1>1. AllocatedWhileActive
  BY DEF AllocatedWhileActive, Inv, EventsInv, AllocationOK, ActiveAt
<1>2. HistoryNeverRaises
  BY HistoryOK DEF HistoryNeverRaises
<1>3. ViewFailureHasCause
  BY DEF ViewFailureHasCause, Inv, WorkerInv, ViewCause
<1>4. AnswersAreStored
  BY DEF AnswersAreStored, Inv, WorkerInv
<1>. QED
  BY <1>1, <1>2, <1>3, <1>4

(* A session that waits for a row another one has locked waits for a       *)
(* target, for a charge is locked first or alone: the other has both its   *)
(* rows, or its one row, unless it waits itself for a target, whose holder *)
(* has both.                                                               *)
LEMMA InvNoWaitCycle == ASSUME AttributionConstants, Inv PROVE NoWaitCycle
<1>1. SUFFICES ASSUME NEW S \in (SUBSET Workers) \ {{}},
                      \A v \in S : \E w \in S : WaitsFor(v, w)
               PROVE  FALSE
  BY DEF NoWaitCycle
<1>2. ASSUME NEW x, NEW y
      PROVE  Head(<<x, y>>) = x /\ Head(<<x>>) = x /\ <<x>> # <<>> /\ <<x, y>> # <<>>
  OBVIOUS
<1>3. ASSUME NEW v \in S, NEW w \in S, WaitsFor(v, w)
      PROVE  /\ want[v] # <<>> /\ Head(want[v]) \in held[w] /\ Locking(w) /\ Locking(v)
             /\ want[w] # <<>> /\ w \in open
  BY <1>1, <1>3 DEF WaitsFor, Inv, WorkerInv
<1>4. ASSUME NEW w \in S, Locking(w), want[w] # <<>>, held[w] # {}
      PROVE  Head(want[w]) \in Targets /\ held[w] \subseteq Charges
  BY <1>2, <1>4 DEF Locking
<1>5. PICK u \in S : TRUE
  BY <1>1
<1>6. PICK v \in S : WaitsFor(u, v)
  BY <1>1
<1>7. PICK w \in S : WaitsFor(v, w)
  BY <1>1
<1>8. PICK z \in S : WaitsFor(w, z)
  BY <1>1
<1>9. held[v] # {} /\ want[v] # <<>> /\ Locking(v)
  BY <1>3, <1>6
<1>10. Head(want[v]) \in Targets
  BY <1>4, <1>9
<1>11. held[w] # {} /\ want[w] # <<>> /\ Locking(w) /\ Head(want[v]) \in held[w]
  BY <1>3, <1>7
<1>12. held[w] \subseteq Charges
  BY <1>4, <1>11
<1>. QED
  BY <1>10, <1>11, <1>12 DEF AttributionConstants

(* An event is recorded after all that is known of its charge, so it       *)
(* changes nothing as of an earlier cutoff.                                *)
LEMMA StepIsStable ==
  ASSUME AttributionConstants, Inv, [Next]_vars PROVE SnapshotIsStable
<1>. Shape /\ EventsInv
  BY DEF Inv
<1>1. SUFFICES ASSUME NEW tx \in Charges, NEW e \in OfCharge(tx), NEW cutoff \in 0 .. e.recorded - 1
               PROVE  ActiveOf(tx, events', cutoff) = ActiveOf(tx, events, cutoff)
  BY DEF SnapshotIsStable, ActiveOf
<1>2. e.recorded \in Nat /\ cutoff < e.recorded /\ cutoff \in Nat
  BY DEF OfCharge, Evidence, Allocations, Reversals, EventsInv, AllocationOK, ReversalOK
<1>3. CASE UNCHANGED events
  BY <1>3
<1>4. CASE \E w \in Workers : Finish(w)
  <2>1. PICK w \in Workers : Finish(w)
    BY <1>4
  <2>2. PICK c : c = command[w]
    OBVIOUS
  <2>3. PICK t \in 0 .. MaxTime : t = stamp[w]
    BY DEF Shape
  <2>4. Feasible(c) /\ Insert(c, t)
    BY <2>1, <2>2, <2>3 DEF Finish, Inv, WorkerInv
  <2>5. c.kind \in {"allocate", "reverse", "undo"}
    BY <2>4 DEF Feasible, AttributionConstants
  <2>6. CASE /\ c.kind = "allocate" /\ AcceptsAllocation(c, t) /\ Stored(c.id) = {}
             /\ events' = events \cup {Allocation(c, t)}
    <3>1. PICK n : n = Allocation(c, t)
      OBVIOUS
    <3>2. n.id = c.id /\ n.kind = "allocation" /\ n.charge = c.charge /\ n.recorded = t
      BY <3>1 DEF Allocation
    <3>3. n \notin events
      BY <2>6, <3>2 DEF Stored
    <3>4. n.charge = tx => ~ (n.recorded <= cutoff)
      BY <1>2, <2>6, <3>2 DEF AcceptsAllocation, NotBefore
    <3>. QED
      BY <2>6, <3>1, <3>2, <3>3, <3>4, OthersActive
  <2>7. CASE /\ c.kind = "reverse" /\ AcceptsReversal(c, t) /\ Stored(c.id) = {}
             /\ events' = events \cup {Reversal(c, t)}
    <3>1. PICK n : n = Reversal(c, t)
      OBVIOUS
    <3>2. n.id = c.id /\ n.kind = "reversal" /\ n.reverses = c.reverses /\ n.recorded = t
      BY <3>1 DEF Reversal
    <3>3. n \notin events
      BY <2>7, <3>2 DEF Stored
    <3>4. \A a \in Allocations(events) : a.id = n.reverses => a = Target(c)
      BY <2>4, <2>7, <3>2, TargetOf DEF EventsInv, Allocations
    <3>5. Target(c).charge = tx => ~ (n.recorded <= cutoff)
      BY <1>2, <2>7, <3>2 DEF AcceptsReversal, NotBefore
    <3>. QED
      BY <2>7, <3>1, <3>2, <3>3, <3>4, <3>5, OthersActive
  <2>. QED
    BY <1>3, <2>4, <2>5, <2>6, <2>7 DEF Insert
<1>5. (\E w \in Workers : Finish(w)) \/ UNCHANGED events
  BY DEF Next, vars, Tick, Book, Work, ReadLedger, ReadHistory, LockRow, Recover, GiveUp, Start
<1>. QED
  BY <1>3, <1>4, <1>5

-----------------------------------------------------------------------------
LEMMA InvAlways ==
  ASSUME AttributionConstants PROVE Spec => []Inv
<1>1. Init => Inv
  BY InvInit
<1>2. Inv /\ [Next]_vars => Inv'
  BY InvStep
<1>. QED
  BY <1>1, <1>2, PTL DEF Spec

(* At no cutoff, past ones included, is more of a fee allocated than it    *)
(* was, or allocated twice to one transaction or to one that was not       *)
(* active, in whatever order workers, lost answers and ledger reversals    *)
(* meet (migration 021).                                                   *)
THEOREM NeverOverAllocated ==
  ASSUME AttributionConstants
  PROVE  Spec => [](TypeOK /\ NeverOverAllocatedAtAnyCutoff /\ AllocatedWhileActive)
<1>1. Inv => TypeOK /\ NeverOverAllocatedAtAnyCutoff /\ AllocatedWhileActive
  BY InvTypeOK, InvFits, InvHistory
<1>. QED
  BY <1>1, InvAlways, PTL

(* Sessions that lock a fee and then its target never wait in a circle.    *)
THEOREM SessionsNeverDeadlock ==
  ASSUME AttributionConstants PROVE Spec => []NoWaitCycle
<1>1. Inv => NoWaitCycle
  BY InvNoWaitCycle
<1>. QED
  BY <1>1, InvAlways, PTL

(* What was allocated as of a past cutoff never changes, and the history   *)
(* can be read as of every cutoff.                                         *)
THEOREM PastNeverChanges ==
  ASSUME AttributionConstants
  PROVE  Spec => []HistoryNeverRaises /\ [][SnapshotIsStable]_events
<1>1. Inv => HistoryNeverRaises
  BY InvHistory
<1>2. Inv /\ [Next]_vars => [SnapshotIsStable]_events
  BY StepIsStable
<1>. QED
  BY <1>1, <1>2, InvAlways, PTL DEF Spec
=============================================================================
