---------------------------- MODULE RiskEvidence ----------------------------
(* Risk evidence of the private engine: a fact about an owner's cash, goal *)
(* or planned contribution is written as canonical bytes, referred to by   *)
(* its SHA-256 digest and the instant it became available, bound to a      *)
(* cutoff and a risk axis, matched with bytes somebody supplies, and       *)
(* decoded again (risk_evidence_*.py).                                     *)
(* A digest is modelled by the content it is the digest of.  A written     *)
(* scalar is [of, form]: the value it stands for and how it is written;    *)
(* an amount is [neg, digits, exponent], the Decimal's own triple.         *)
EXTENDS Integers, FiniteSets, TLC

CONSTANTS
  Ids,          \* identities of portfolios, accounts, goals, buckets
  Decimals(_),  \* amounts a writer of a kind may hold, as Decimal triples
  Cutoffs,      \* the instants, 1 .. the last
  MaxContent,   \* _MAX_CANONICAL_CONTENT_BYTES, of the model's lengths
  Overhead,     \* length of an envelope without its amount
  Variants(_, _),  \* texts other writers of a kind use for a type of field
  MaxEvidence,  \* bound on the references of a behaviour
  None, Refused, Missing

VARIABLES
  clock,
  evidence,     \* the availability references: [digest, at]
  author,       \* the fact its own writer encoded, or None, per reference
  binding,      \* the kind binding a reader holds, or None
  answer        \* what the last read returned

vars == <<clock, evidence, author, binding, answer>>

Kinds == {"cash_balance", "investment_goal", "planned_contribution"}
Axes == {"capacity", "tolerance"}

AxisOf(kind) == "capacity"

-----------------------------------------------------------------------------
(* Amounts.                                                                *)

Power[n \in 0 .. 6] == IF n = 0 THEN 1 ELSE 10 * Power[n - 1]
DigitCount(n) == CHOOSE k \in 1 .. 7 : n < 10 * Power[k - 1] /\ (k > 1 => n >= Power[k - 1])

\* The value as units over 10^6: the model's exponents are within -6 .. 6.
SameAmount(a, b) ==
  LET Micro(d) == IF d.exponent >= 0 THEN <<d.digits * Power[d.exponent], 0>>
                                     ELSE <<d.digits, -d.exponent>>
      x == Micro(a)
      y == Micro(b)
  IN  /\ x[1] * Power[y[2]] = y[1] * Power[x[2]]
      /\ a.neg = b.neg \/ a.digits = 0

\* format(value, "f"): a sign, an integer, and as many decimals as "scale".
Formatted(d) ==
  IF d.exponent >= 0 THEN [neg |-> d.neg, units |-> d.digits * Power[d.exponent], scale |-> 0]
                     ELSE [neg |-> d.neg, units |-> d.digits, scale |-> -d.exponent]

Texts == [neg : BOOLEAN, units : Nat, scale : Nat]
TextLength[t \in Texts] ==
  LET whole == DigitCount(t.units \div Power[t.scale])
  IN  (IF t.neg THEN 1 ELSE 0) + whole + (IF t.scale > 0 THEN 1 + t.scale ELSE 0)

\* _fixed_point_length_upper_bound, from the digits and the exponent alone.
LengthBound(d) ==
  LET count == DigitCount(d.digits)
  IN  CASE d.exponent >= 0 /\ d.digits = 0 -> 2
        [] d.exponent >= 0 /\ d.digits # 0 -> 1 + count + d.exponent
        [] d.exponent < 0 /\ count + d.exponent > 0 -> 1 + count + 1
        [] OTHER -> 3 - d.exponent

\* The shortest writing of the same amount; "-0" is "0".
Canonical[d \in [neg : BOOLEAN, digits : Nat, exponent : Int]] ==
  LET t == Formatted(d)
      cut == CHOOSE k \in 0 .. t.scale :
               /\ t.units % Power[k] = 0
               /\ k < t.scale => t.units % Power[k + 1] # 0
      u == t.units \div Power[cut]
  IN  [neg |-> t.neg /\ u # 0, units |-> u, scale |-> t.scale - cut]

\* The regular expression of a canonical non-negative amount.
CanonicalAmount(w) ==
  /\ w.form = "plain"
  /\ ~w.of.neg
  /\ w.of.scale > 0 => w.of.units % 10 # 0

-----------------------------------------------------------------------------
(* The three schemas.                                                      *)

CashFields ==
  [portfolio_id |-> "id", account_id |-> "id", currency |-> "code",
   balance |-> "amount", mode |-> "code", as_of_recorded_at |-> "optional instant"]
GoalFields ==
  [portfolio_id |-> "id", mode |-> "code", goal_id |-> "id",
   target_amount |-> "amount", target_currency |-> "code",
   target_date |-> "optional date", priority |-> "code", status |-> "code",
   archived_at |-> "optional instant"]
ContributionFields ==
  [portfolio_id |-> "id", mode |-> "code", contribution_id |-> "id",
   goal_id |-> "optional id", cash_bucket_id |-> "optional id",
   expected_date |-> "date", amount |-> "amount", currency |-> "code",
   status |-> "code"]

Fields(kind) ==
  CASE kind = "cash_balance" -> CashFields
    [] kind = "investment_goal" -> GoalFields
    [] kind = "planned_contribution" -> ContributionFields

Positive(d) == ~d.neg /\ d.digits > 0
CashLegal(values) == ~values.balance.neg \/ values.balance.digits = 0
GoalLegal(values) == Positive(values.target_amount)
ContributionLegal(values) == Positive(values.amount)

Legal(f) ==
  CASE f.kind = "cash_balance" -> CashLegal(f.values)
    [] f.kind = "investment_goal" -> GoalLegal(f.values)
    [] f.kind = "planned_contribution" -> ContributionLegal(f.values)

AmountField(kind) == CHOOSE x \in DOMAIN Fields(kind) : Fields(kind)[x] = "amount"

Optional(type) == type \in {"optional id", "optional date", "optional instant"}

\* How a value is written: an instant in UTC, an identity in lower case.
Written(type, v) ==
  CASE Optional(type) /\ v = None -> [of |-> None, form |-> "null"]
    [] type = "amount" -> [of |-> Canonical[v], form |-> "plain"]
    [] type = "optional instant" /\ v # None -> [of |-> v.at, form |-> "plain"]
    [] OTHER -> [of |-> v, form |-> "plain"]

Envelope(f) ==
  [kind |-> f.kind, shape |-> "canonical",
   payload |-> [x \in DOMAIN Fields(f.kind) |-> Written(Fields(f.kind)[x], f.values[x])]]

ContentLength(content) ==
  LET w == content.payload[AmountField(content.kind)]
  IN  Overhead + TextLength[w.of] + (IF w.form = "plain" THEN 0 ELSE 1)

\* encode_*_risk_fact: refused when the amount or the bytes are too long.
Encoded(f) ==
  LET content == Envelope(f)
  IN  IF LengthBound(f.values[AmountField(f.kind)]) > MaxContent
         \/ ContentLength(content) > MaxContent
      THEN Refused ELSE content

EncodeCash(f) == Encoded(f)
EncodeGoal(f) == Encoded(f)
EncodeContribution(f) == Encoded(f)

Encode(f) ==
  CASE f.kind = "cash_balance" -> EncodeCash(f)
    [] f.kind = "investment_goal" -> EncodeGoal(f)
    [] f.kind = "planned_contribution" -> EncodeContribution(f)

\* What UUID(), the enumerations, the regular expressions and fromisoformat
\* accept: more ways of writing a value than the one Written chooses.
Readable(type, w) ==
  CASE w.form = "null" -> Optional(type)
    [] type \in {"id", "optional id"} -> w.form \in {"plain", "upper"}
    [] type = "amount" -> CanonicalAmount(w)
    [] type = "optional instant" -> w.form \in {"plain", "offset"}
    [] OTHER -> w.form = "plain"

ValueOf(type, w) ==
  CASE w.form = "null" -> None
    [] type = "amount" ->
         [neg |-> w.of.neg, digits |-> w.of.units, exponent |-> -w.of.scale]
    [] type = "optional instant" /\ w.form # "null" -> [at |-> w.of, given |-> w.form]
    [] OTHER -> w.of

Built(content) ==
  [kind |-> content.kind,
   values |-> [x \in DOMAIN Fields(content.kind) |->
                 ValueOf(Fields(content.kind)[x], content.payload[x])]]

\* decode_*_risk_fact: JSON, envelope, payload and facts are checked, then the
\* fact is written again and must give the very bytes that were read.
Decoded(kind, content) ==
  IF /\ ContentLength(content) <= MaxContent
     /\ content.shape # "broken" /\ content.kind = kind
     /\ \A x \in DOMAIN Fields(kind) : Readable(Fields(kind)[x], content.payload[x])
     /\ \A fact \in {Built(content)} : Legal(fact) /\ Encode(fact) = content
  THEN Built(content) ELSE Refused

DecodeCash(content) == Decoded("cash_balance", content)
DecodeGoal(content) == Decoded("investment_goal", content)
DecodeContribution(content) == Decoded("planned_contribution", content)

Decode(kind, content) ==
  CASE kind = "cash_balance" -> DecodeCash(content)
    [] kind = "investment_goal" -> DecodeGoal(content)
    [] kind = "planned_contribution" -> DecodeContribution(content)

-----------------------------------------------------------------------------
(* From a reference to a fact.                                             *)

\* resolve_risk_evidence_reference: missing, or known by the cutoff.
Reference(context, ref) ==
  IF ref = None THEN [status |-> Missing, context |-> context]
  ELSE IF ref.at <= context.cutoff
       THEN [status |-> "reference", context |-> context, ref |-> ref]
       ELSE [status |-> Refused]

\* RiskEvidenceContentMatch: the digest of the bytes is the one recorded.
Matches(resolution, content) == content = resolution.ref.digest

\* resolve_risk_evidence_content: bytes exactly when there is a reference.
Matched(resolution, content) ==
  CASE resolution.status = Missing /\ content = None -> resolution
    [] resolution.status = "reference" /\ content # None /\ Matches(resolution, content)
         -> [resolution EXCEPT !.status = "matched"]
    [] OTHER -> [status |-> Refused]

\* RiskEvidenceKindBinding: a kind is bound on its own axis only.
KindBound(kind, resolution) ==
  IF resolution.status = Refused THEN [status |-> Refused]
  ELSE IF AxisOf(kind) = resolution.context.axis
       THEN resolution @@ [kind |-> kind]
       ELSE [status |-> Refused]

\* Decoded*RiskEvidence: the fact that comes out is written once more and
\* matched with the digest of the reference.
FactOf(kind, b, content) ==
  LET fact == Decode(kind, content)
      again(f) == f # Refused /\ \A bytes \in {Encode(f)} : bytes # Refused /\ Matches(b, bytes)
  IN  IF \A f \in {fact} : again(f) THEN fact ELSE Refused

\* resolve_*_risk_evidence.
ReadAs(kind, b, content) ==
  CASE b.kind # kind -> Refused
    [] b.kind = kind /\ b.status = Missing ->
         IF content = None THEN Missing ELSE Refused
    [] b.kind = kind /\ b.status = "matched" ->
         IF content = None THEN Refused ELSE FactOf(kind, b, content)

-----------------------------------------------------------------------------
(* Facts and bytes that exist.                                             *)

Codes == {"code"}
Dates == {"date"}
ValuesOf(kind, type) ==
  CASE type = "id" -> Ids
    [] type = "optional id" -> Ids \cup {None}
    [] type = "amount" -> Decimals(kind)
    [] type = "code" -> Codes
    [] type = "date" -> Dates
    [] type = "optional date" -> Dates \cup {None}
    [] type = "optional instant" ->
         {None} \cup [at : {1}, given : {"plain", "offset"}]

DefaultOf(type) ==
  CASE type \in {"id", "optional id"} -> CHOOSE i \in Ids : TRUE
    [] type = "amount" -> [neg |-> FALSE, digits |-> 1, exponent |-> 0]
    [] type = "code" -> "code"
    [] type \in {"date", "optional date"} -> "date"
    [] type = "optional instant" -> [at |-> 1, given |-> "plain"]

\* One field of every type a kind has: the one that is varied.
Varied(kind) ==
  {CHOOSE x \in DOMAIN Fields(kind) : Fields(kind)[x] = type :
     type \in {Fields(kind)[y] : y \in DOMAIN Fields(kind)}}

\* A default fact of a kind, or one that differs from it in one field.
Facts ==
  UNION {LET default == [x \in DOMAIN Fields(k) |-> DefaultOf(Fields(k)[x])]
         IN  {f \in {[kind |-> k, values |-> [default EXCEPT ![x] = v]] :
                       <<x, v>> \in UNION {{x} \X ValuesOf(k, Fields(k)[x]) : x \in Varied(k)}} :
                Legal(f)} : k \in Kinds}

\* Bytes some other program wrote: another text of one field, or a key that
\* is missing, repeated or too many.
Foreign ==
  UNION {LET default == Envelope([kind |-> k, values |-> [x \in DOMAIN Fields(k) |-> DefaultOf(Fields(k)[x])]])
         IN  {[default EXCEPT !.shape = "broken"], [default EXCEPT !.shape = "spaced"]} \cup
             {[default EXCEPT !.payload[x] = w] :
                <<x, w>> \in UNION {{x} \X Variants(k, Fields(k)[x]) : x \in Varied(k)}} :
           k \in Kinds}

SameFact(f, g) ==
  /\ f.kind = g.kind
  /\ \A x \in DOMAIN Fields(f.kind) :
       LET type == Fields(f.kind)[x]
           a == f.values[x]
           b == g.values[x]
       IN  CASE type = "amount" -> SameAmount(a, b)
             [] type = "optional instant" ->
                  (a = None) = (b = None) /\ (a # None /\ b # None => a.at = b.at)
             [] OTHER -> a = b

-----------------------------------------------------------------------------
NoAnswer == [what |-> None]

Init ==
  /\ clock = 1
  /\ evidence = {}
  /\ author = <<>>
  /\ binding = None
  /\ answer = NoAnswer

Tick ==
  /\ clock + 1 \in Cutoffs
  /\ clock' = clock + 1
  /\ UNCHANGED <<evidence, author, binding, answer>>

Published(content, f) ==
  LET ref == [digest |-> content, at |-> clock]
  IN  /\ ref \notin evidence
      /\ evidence' = evidence \cup {ref}
      /\ author' = author @@ (ref :> f)
      /\ UNCHANGED <<clock, binding, answer>>

\* The owner's own fact becomes evidence, if it can be encoded.
Record ==
  /\ Cardinality(evidence) < MaxEvidence
  /\ \E f \in Facts : \E content \in {Encode(f)} \ {Refused} : Published(content, f)

\* So do bytes another program wrote.
Receive ==
  /\ Cardinality(evidence) < MaxEvidence
  /\ \E content \in Foreign : Published(content, None)

Supplied == {None} \cup {e.digest : e \in evidence}

\* A reader binds a kind at a cutoff to a reference, or to none.
Bind ==
  /\ binding = None
  /\ \E kind \in Kinds, axis \in Axes, cutoff \in 1 .. clock,
        ref \in evidence \cup {None}, content \in Supplied :
       \E b \in {KindBound(kind, Matched(Reference([axis |-> axis, cutoff |-> cutoff], ref), content))} :
         b.status # Refused /\ binding' = b
  /\ answer' = NoAnswer
  /\ UNCHANGED <<clock, evidence, author>>

\* And reads it as a kind, with bytes supplied once more.
Read(kind) ==
  /\ binding # None
  /\ \E content \in Supplied :
       \E result \in {ReadAs(kind, binding, content)} :
         answer' = IF result \in {Refused, Missing} THEN [what |-> result]
                   ELSE [what |-> result, from |-> binding, by |-> kind]
  /\ binding' = None
  /\ UNCHANGED <<clock, evidence, author>>

ReadCash == Read("cash_balance")
ReadGoal == Read("investment_goal")
ReadContribution == Read("planned_contribution")

Next == Tick \/ Record \/ Receive \/ Bind \/ ReadCash \/ ReadGoal \/ ReadContribution

Spec == Init /\ [][Next]_vars

-----------------------------------------------------------------------------
TypeOK ==
  /\ clock \in Cutoffs
  /\ \A e \in evidence : e.at <= clock
  /\ DOMAIN author = evidence
  /\ binding # None =>
       /\ binding.status \in {Missing, "matched"} /\ binding.kind \in Kinds
       /\ binding.status = "matched" => binding.ref.at <= binding.context.cutoff

HasFact == answer.what \notin {None, Refused, Missing}

\* A fact that is read was available at the cutoff it is read for, on its own
\* axis, and is the one its writer recorded under that reference, whatever
\* bytes were supplied at either of the two steps (risk_evidence_cash_-
\* resolution.py:66 writes and matches it again, pit_binding.py:44 the cutoff).
DecodedIsRecorded ==
  HasFact =>
    LET b == answer.from
    IN  /\ b.ref \in evidence /\ b.ref.at <= b.context.cutoff
        /\ b.context.axis = AxisOf(answer.by)
        /\ answer.what.kind = answer.by
        /\ author[b.ref] # None => SameFact(author[b.ref], answer.what)

\* Whatever its writer could encode can be read back, at every cutoff from
\* the instant it was available: no fact is written in a way the strict
\* reader refuses (risk_evidence_cash_schema.py:127, :221).
RecordedIsReadable ==
  \A e \in evidence :
    LET f == author[e]
    IN  f # None =>
          \A b \in {KindBound(f.kind, Matched(Reference([axis |-> AxisOf(f.kind), cutoff |-> clock], e), e.digest))} :
            /\ b.status = "matched"
            /\ \A g \in {ReadAs(f.kind, b, e.digest)} : g # Refused /\ SameFact(f, g)

\* One fact has one digest: two references whose bytes are read as the same
\* fact carry the same digest, so evidence can be compared by its digest
\* ("unique canonical envelope bytes", risk_evidence_cash_schema.py:139).
OneFactOneDigest ==
  \A d, e \in evidence :
    \A k \in Kinds :
      \A f \in {Decode(k, d.digest)} \ {Refused}, g \in {Decode(k, e.digest)} \ {Refused} :
        SameFact(f, g) => d.digest = e.digest

\* The length that is computed without formatting is never less than the
\* length of the formatted amount (risk_evidence_cash_schema.py:110).
AmountsAreBounded ==
  \A e \in evidence :
    author[e] # None =>
      LET d == author[e].values[AmountField(author[e].kind)]
      IN  TextLength[Formatted(d)] <= LengthBound(d)

=============================================================================
