--------------------------- MODULE PortfolioProofs ---------------------------
(***************************************************************************)
(* Proofs about the portfolio: any number of callers of the repository and *)
(* any interleaving of their requests, any files and resolvers; then all   *)
(* parts together, with what ImportCommit and FeeTaxAttribution prove of   *)
(* theirs.                                                                 *)
(***************************************************************************)
EXTENDS MCPortfolio, FiniteSetTheorems, FunctionTheorems, SequenceTheorems, TLAPS

-----------------------------------------------------------------------------
(* PortfolioRepository: the inductive invariant.                           *)

(* What the requests a call has made left true: nothing that was found     *)
(* goes away, for rows and parents are only added.                         *)
ParentsFound(c) ==
  /\ pc[c] # "account" => tx[c].account \in parents
  /\ pc[c] = "bucket" => tx[c].bucket # None
  /\ pc[c] \notin {"account", "bucket"} /\ tx[c].bucket # None
       => tx[c].bucket \in parents /\ BucketFits(tx[c])

TargetReversed(t) == Ledger!IsReversal(t) /\ Ledger!ReversalsOf(rows, t.reverses) # {}

RequestsMade(c) ==
  /\ pc[c] \in {"target", "reversed"} => Ledger!IsReversal(tx[c])
  /\ pc[c] \in {"reversed", "insert"} /\ Ledger!IsReversal(tx[c])
       => Ledger!TargetFits(rows, tx[c])
  /\ pc[c] = "explainId" => ~IsUnique(tx[c])
  /\ pc[c] = "explainExternal" =>
       \/ tx[c].id \in ForeignIds \/ Ledger!WithExternal(rows, tx[c]) # {}
       \/ TargetReversed(tx[c])
  /\ pc[c] = "explainReversed" => tx[c].id \in ForeignIds \/ TargetReversed(tx[c])

(* The lookups of the identities found nothing at a moment of the call,    *)
(* whose rows L the table has since outgrown.                              *)
UnknownOnce(c) ==
  pc[c] \in {"external", "target"} =>
    \E L \in SUBSET rows :
      /\ Ledger!WithId(L, tx[c].id) = {}
      /\ pc[c] = "target" => Ledger!WithExternal(L, tx[c]) = {}
      /\ Ledger!Answer(L, tx[c]) \in possible[c]

CallOK(c) ==
  pc[c] \in Requests =>
    /\ tx[c] \in Recorded
    /\ Verdict(rows, parents, tx[c]) \in possible[c]
    /\ ParentsFound(c) /\ RequestsMade(c) /\ UnknownOnce(c)

AnswerOK(c) ==
  /\ answer[c].status \in {"APPENDED", "IDEMPOTENT_DUPLICATE", "CONFLICT", "INVALID"} =>
       \/ answer[c] \in possible[c]
       \/ answer[c].status = "INVALID" /\ LosesToItsIdentity(tx[c])
       \/ TwoIdentities(tx[c])
  /\ answer[c].status # "REJECTED"
  /\ answer[c].status = "UNEXPLAINED" => tx[c].id \in ForeignIds

ClientInv(c) == CallOK(c) /\ AnswerOK(c)

PerClient == DOMAIN tx = Clients /\ DOMAIN answer = Clients /\ DOMAIN possible = Clients

RepositoryInv == TypeOK /\ PerClient /\ \A c \in Clients : ClientInv(c)

-----------------------------------------------------------------------------
(* The ledger's operators.                                                 *)

(* What a lookup finds in fewer rows it finds in more.                     *)
LEMMA LookupsGrow ==
  ASSUME NEW L, NEW M, L \subseteq M, NEW t
  PROVE  /\ Ledger!WithId(L, t.id) \subseteq Ledger!WithId(M, t.id)
         /\ Ledger!WithExternal(L, t) \subseteq Ledger!WithExternal(M, t)
         /\ Ledger!ReversalsOf(L, t.reverses) \subseteq Ledger!ReversalsOf(M, t.reverses)
         /\ Ledger!TargetFits(L, t) => Ledger!TargetFits(M, t)
  BY DEF Ledger!WithId, Ledger!WithExternal, Ledger!ReversalsOf, Ledger!TargetFits

(* The answers of the ledger, case by case.                                *)
LEMMA LedgerAnswers ==
  ASSUME NEW L, NEW t
  PROVE  /\ Ledger!WithId(L, t.id) # {} =>
              Ledger!Answer(L, t) = Ledger!Compared(t, CHOOSE u \in Ledger!WithId(L, t.id) : TRUE)
         /\ Ledger!WithId(L, t.id) = {} /\ Ledger!WithExternal(L, t) # {} =>
              Ledger!Answer(L, t) = Ledger!Compared(t, CHOOSE u \in Ledger!WithExternal(L, t) : TRUE)
         /\ Ledger!WithId(L, t.id) = {} /\ Ledger!WithExternal(L, t) = {} =>
              Ledger!Answer(L, t) =
                Result(IF Ledger!IsReversal(t) /\ ~Ledger!Reversible(L, t)
                       THEN "INVALID" ELSE "APPENDED", t.id)
  BY DEF Ledger!Answer, Result

(* A comparison is a duplicate or a conflict.                              *)
LEMMA ComparedStatus ==
  ASSUME NEW t, NEW u
  PROVE  Ledger!Compared(t, u).status \in {"IDEMPOTENT_DUPLICATE", "CONFLICT"}
  BY DEF Ledger!Compared

(* The time a transaction is recorded at is in none of the answers.        *)
LEMMA VerdictIgnoresTime ==
  ASSUME NEW L, NEW P, NEW t, NEW n
  PROVE  Verdict(L, P, Ledger!Stamped(t, n)) = Verdict(L, P, t)
<1> DEFINE s == Ledger!Stamped(t, n)
<1>1. /\ s.id = t.id /\ s.account = t.account /\ s.bucket = t.bucket /\ s.event = t.event
      /\ s.external = t.external /\ s.reverses = t.reverses
  BY DEF Ledger!Stamped
<1> HIDE DEF s
<1>2. /\ Ledger!WithId(L, s.id) = Ledger!WithId(L, t.id)
      /\ Ledger!WithExternal(L, s) = Ledger!WithExternal(L, t)
      /\ \A u : Ledger!Compared(s, u) = Ledger!Compared(t, u)
  BY <1>1 DEF Ledger!WithExternal, Ledger!SameExternal, Ledger!Compared, Ledger!Fingerprint
<1>3. Ledger!IsReversal(s) <=> Ledger!IsReversal(t)
  BY <1>1 DEF Ledger!IsReversal
<1>4. Ledger!Reversible(L, s) <=> Ledger!Reversible(L, t)
  BY <1>1 DEF Ledger!Reversible, Ledger!TargetFits
<1>5. Ledger!Answer(L, s) = Ledger!Answer(L, t)
  BY <1>1, <1>2, <1>3, <1>4 DEF Ledger!Answer
<1>6. BucketFits(s) <=> BucketFits(t)
  BY <1>1 DEF BucketFits
<1>7. QED
  BY <1>1, <1>5, <1>6 DEF Verdict, s

-----------------------------------------------------------------------------
(* What a step leaves of the calls it does not belong to.                  *)

(* Rows and parents are only added, and what is answered at the new moment *)
(* is possible for every call that runs.                                   *)
Grows ==
  /\ rows \subseteq rows' /\ parents \subseteq parents'
  /\ possible' = Observed(rows', parents')

Untouched(c) == pc'[c] = pc[c] /\ tx'[c] = tx[c] /\ answer'[c] = answer[c]

LEMMA AnswerKept ==
  ASSUME NEW c \in Clients, AnswerOK(c), rows \subseteq rows', Untouched(c),
         possible[c] \subseteq possible'[c]
  PROVE  AnswerOK(c)'
<1>1. LosesToItsIdentity(tx[c]) => LosesToItsIdentity(tx[c])'
  BY LookupsGrow DEF LosesToItsIdentity, Untouched
<1>2. TwoIdentities(tx[c]) => TwoIdentities(tx[c])'
  BY LookupsGrow DEF TwoIdentities, Untouched
<1>3. QED
  BY <1>1, <1>2 DEF AnswerOK, Untouched

LEMMA OthersKept ==
  ASSUME NEW c \in Clients, ClientInv(c), UNCHANGED <<rows, parents>>, Untouched(c),
         possible'[c] = possible[c]
  PROVE  ClientInv(c)'
  BY DEF ClientInv, CallOK, AnswerOK, ParentsFound, RequestsMade, UnknownOnce,
     Untouched, TargetReversed, IsUnique, LosesToItsIdentity, TwoIdentities

LEMMA GrowthKeeps ==
  ASSUME NEW c \in Clients, ClientInv(c), Grows, Untouched(c)
  PROVE  ClientInv(c)'
<1>1. possible[c] \subseteq possible'[c]
  BY DEF Grows, Observed
<1>2. AnswerOK(c)'
  BY <1>1, AnswerKept DEF ClientInv, Grows
<1>3. CallOK(c)'
  <2> SUFFICES ASSUME pc[c] \in Requests
               PROVE  CallOK(c)'
    BY DEF CallOK, Untouched
  <2>1. tx'[c] = tx[c] /\ tx[c] \in Recorded /\ ParentsFound(c) /\ RequestsMade(c) /\ UnknownOnce(c)
    BY DEF ClientInv, CallOK, Untouched
  <2>2. Verdict(rows', parents', tx[c]) \in possible'[c]
    BY DEF Grows, Observed, Idle, Requests
  <2>3. ParentsFound(c)'
    BY <2>1 DEF ParentsFound, Untouched, Grows
  <2>4. RequestsMade(c)'
    BY <2>1, LookupsGrow DEF RequestsMade, Untouched, Grows, IsUnique, TargetReversed
  <2>5. UnknownOnce(c)'
    BY <2>1, <1>1 DEF UnknownOnce, Untouched, Grows
  <2>6. QED
    BY <2>1, <2>2, <2>3, <2>4, <2>5 DEF CallOK
<1>4. QED
  BY <1>2, <1>3 DEF ClientInv

-----------------------------------------------------------------------------
(* Steps of one call.                                                      *)

LEMMA OneClient ==
  ASSUME RepositoryInv, NEW c \in Clients, UNCHANGED <<rows, parents, possible>>, TypeOK',
         ClientInv(c)', PerClient',
         \A d \in Clients \ {c} : Untouched(d)
  PROVE  RepositoryInv'
<1>1. ASSUME NEW d \in Clients \ {c} PROVE ClientInv(d)'
  BY OthersKept DEF RepositoryInv
<1>2. QED
  BY <1>1 DEF RepositoryInv

(* A call ends with an answer that is explained.                           *)
LEMMA FinishStep ==
  ASSUME RepositoryInv, NEW c \in Clients, pc[c] \in Requests, NEW result, Finish(c, result),
         AnswerOK(c)'
  PROVE  RepositoryInv'
<1>1. /\ pc' = [pc EXCEPT ![c] = "done"] /\ answer' = [answer EXCEPT ![c] = result]
      /\ UNCHANGED <<rows, parents, tx, possible, calls>>
  BY DEF Finish
<1>2. TypeOK' /\ PerClient'
  BY <1>1 DEF RepositoryInv, TypeOK, PerClient, Idle, Requests
<1>3. pc'[c] \notin Requests
  BY <1>1 DEF RepositoryInv, TypeOK, Requests
<1>4. ClientInv(c)'
  BY <1>3 DEF ClientInv, CallOK
<1>5. \A d \in Clients \ {c} : Untouched(d)
  BY <1>1 DEF RepositoryInv, TypeOK, PerClient, Untouched
<1>6. QED
  BY <1>1, <1>2, <1>4, <1>5, OneClient

(* A call goes on to its next request.                                     *)
LEMMA ProceedStep ==
  ASSUME RepositoryInv, NEW c \in Clients, pc[c] \in Requests, NEW request \in Requests,
         Proceed(c, request),
         ParentsFound(c)', RequestsMade(c)', UnknownOnce(c)'
  PROVE  RepositoryInv'
<1>1. pc' = [pc EXCEPT ![c] = request] /\ UNCHANGED <<rows, parents, tx, answer, possible, calls>>
  BY DEF Proceed
<1>2. TypeOK' /\ PerClient'
  BY <1>1 DEF RepositoryInv, TypeOK, PerClient, Idle, Requests
<1>3. tx[c] \in Recorded /\ Verdict(rows, parents, tx[c]) \in possible[c] /\ AnswerOK(c)
  BY DEF RepositoryInv, ClientInv, CallOK
<1>4. CallOK(c)'
  BY <1>1, <1>3 DEF CallOK
<1>5. AnswerOK(c)'
  BY <1>1, <1>3 DEF AnswerOK, LosesToItsIdentity, TwoIdentities
<1>6. \A d \in Clients \ {c} : Untouched(d)
  BY <1>1 DEF RepositoryInv, TypeOK, PerClient, Untouched
<1>7. QED
  BY <1>1, <1>2, <1>4, <1>5, <1>6, OneClient DEF ClientInv

(* What a finished call was answered.                                      *)
LEMMA Answered ==
  ASSUME RepositoryInv, NEW c \in Clients, NEW result, Finish(c, result),
         \/ result \in possible[c]
         \/ result.status = "INVALID" /\ LosesToItsIdentity(tx[c])
         \/ TwoIdentities(tx[c]),
         result.status \in {"IDEMPOTENT_DUPLICATE", "CONFLICT", "INVALID"}
  PROVE  AnswerOK(c)'
<1>1. /\ answer'[c] = result /\ UNCHANGED <<rows, tx, possible>>
  BY DEF Finish, RepositoryInv, PerClient
<1>2. QED
  BY <1>1 DEF AnswerOK, LosesToItsIdentity, TwoIdentities

-----------------------------------------------------------------------------
(* The requests, one by one.                                               *)

(* Once the parents are found the ledger decides.                          *)
LEMMA LedgerDecides ==
  ASSUME RepositoryInv, NEW c \in Clients, pc[c] \in Requests \ {"account", "bucket"}
  PROVE  Ledger!Answer(rows, tx[c]) \in possible[c]
<1>1. ParentsFound(c) /\ Verdict(rows, parents, tx[c]) \in possible[c]
  BY DEF RepositoryInv, ClientInv, CallOK
<1>2. Verdict(rows, parents, tx[c]) = Ledger!Answer(rows, tx[c])
  BY <1>1 DEF ParentsFound, Verdict, Requests
<1>3. QED
  BY <1>1, <1>2

LEMMA CheckAccountStep ==
  ASSUME RepositoryInv, NEW c \in Clients, CheckAccount(c)
  PROVE  RepositoryInv'
<1>1. pc[c] = "account" /\ pc[c] \in Requests /\ Verdict(rows, parents, tx[c]) \in possible[c]
  BY DEF CheckAccount, Requests, RepositoryInv, ClientInv, CallOK
<1>2. CASE tx[c].account \notin parents
  <2>1. Finish(c, Invalid(c)) /\ Invalid(c) \in possible[c]
    BY <1>1, <1>2 DEF CheckAccount, Verdict, Invalid
  <2>2. AnswerOK(c)'
    BY <2>1, Answered DEF Invalid, Result
  <2>3. QED
    BY <1>1, <2>1, <2>2, FinishStep
<1>3. CASE tx[c].account \in parents
  <2> DEFINE request == IF tx[c].bucket = None THEN "id" ELSE "bucket"
  <2>1. Proceed(c, request) /\ request \in Requests
    BY <1>3 DEF CheckAccount, Requests
  <2>2. pc'[c] = request /\ UNCHANGED <<parents, tx>>
    BY <2>1 DEF Proceed, RepositoryInv, TypeOK
  <2>3. ParentsFound(c)' /\ RequestsMade(c)' /\ UnknownOnce(c)'
    BY <1>3, <2>2 DEF ParentsFound, RequestsMade, UnknownOnce
  <2>4. QED
    BY <1>1, <2>1, <2>3, ProceedStep
<1>4. QED
  BY <1>2, <1>3

LEMMA CheckBucketStep ==
  ASSUME RepositoryInv, NEW c \in Clients, CheckBucket(c)
  PROVE  RepositoryInv'
<1>1. /\ pc[c] = "bucket" /\ pc[c] \in Requests /\ ParentsFound(c)
      /\ Verdict(rows, parents, tx[c]) \in possible[c]
  BY DEF CheckBucket, Requests, RepositoryInv, ClientInv, CallOK
<1>2. CASE ~(tx[c].bucket \in parents /\ BucketFits(tx[c]))
  <2>1. Finish(c, Invalid(c)) /\ Invalid(c) \in possible[c]
    BY <1>1, <1>2 DEF CheckBucket, Verdict, Invalid, ParentsFound
  <2>2. AnswerOK(c)'
    BY <2>1, Answered DEF Invalid, Result
  <2>3. QED
    BY <1>1, <2>1, <2>2, FinishStep
<1>3. CASE tx[c].bucket \in parents /\ BucketFits(tx[c])
  <2>1. Proceed(c, "id") /\ "id" \in Requests
    BY <1>3 DEF CheckBucket, Requests
  <2>2. pc'[c] = "id" /\ UNCHANGED <<parents, tx>>
    BY <2>1 DEF Proceed, RepositoryInv, TypeOK
  <2>3. ParentsFound(c)' /\ RequestsMade(c)' /\ UnknownOnce(c)'
    BY <1>1, <1>3, <2>2 DEF ParentsFound, RequestsMade, UnknownOnce, BucketFits
  <2>4. QED
    BY <1>1, <2>1, <2>3, ProceedStep
<1>4. QED
  BY <1>2, <1>3

(* A lookup of the id that finds a row: the ledger compares with that row. *)
LEMMA FoundById ==
  ASSUME RepositoryInv, NEW c \in Clients, pc[c] \in Requests \ {"account", "bucket"},
         NEW following, Identify(c, Ledger!WithId(rows, tx[c].id), following),
         Ledger!WithId(rows, tx[c].id) # {}
  PROVE  RepositoryInv'
<1> DEFINE result == Ledger!Compared(tx[c], CHOOSE u \in Ledger!WithId(rows, tx[c].id) : TRUE)
<1>1. result \in possible[c]
  BY LedgerAnswers, LedgerDecides
<1>2. Finish(c, result)
  BY DEF Identify
<1>3. result.status \in {"IDEMPOTENT_DUPLICATE", "CONFLICT"}
  BY ComparedStatus
<1> HIDE DEF result
<1>4. AnswerOK(c)'
  BY <1>1, <1>2, <1>3, Answered
<1>5. QED
  BY <1>2, <1>4, FinishStep

(* A lookup of the external identity that finds a row: the ledger compares *)
(* with it too, unless the id names another one.                           *)
LEMMA FoundByExternal ==
  ASSUME RepositoryInv, NEW c \in Clients, pc[c] \in Requests \ {"account", "bucket"},
         NEW following, Identify(c, Ledger!WithExternal(rows, tx[c]), following),
         Ledger!WithExternal(rows, tx[c]) # {}
  PROVE  RepositoryInv'
<1> DEFINE w == CHOOSE u \in Ledger!WithExternal(rows, tx[c]) : TRUE
           result == Ledger!Compared(tx[c], w)
<1>1. w \in Ledger!WithExternal(rows, tx[c])
  OBVIOUS
<1>2. result \in possible[c] \/ TwoIdentities(tx[c])
  <2>1. CASE Ledger!WithId(rows, tx[c].id) = {}
    BY <2>1, LedgerAnswers, LedgerDecides
  <2>2. CASE \E u \in Ledger!WithId(rows, tx[c].id) : u # w
    BY <1>1, <2>2 DEF TwoIdentities
  <2>3. CASE Ledger!WithId(rows, tx[c].id) = {w}
    <3> HIDE DEF w
    <3>1. (CHOOSE u \in Ledger!WithId(rows, tx[c].id) : TRUE) = w
      BY <2>3
    <3>2. QED
      BY <2>3, <3>1, LedgerAnswers, LedgerDecides
  <2>4. QED
    BY <2>1, <2>2, <2>3
<1>3. Finish(c, result)
  BY DEF Identify
<1>4. result.status \in {"IDEMPOTENT_DUPLICATE", "CONFLICT"}
  BY ComparedStatus
<1> HIDE DEF result
<1>5. AnswerOK(c)'
  BY <1>2, <1>3, <1>4, Answered
<1>6. QED
  BY <1>3, <1>5, FinishStep

LEMMA CheckIdStep ==
  ASSUME RepositoryInv, NEW c \in Clients, CheckId(c)
  PROVE  RepositoryInv'
<1>1. /\ pc[c] = "id" /\ pc[c] \in Requests \ {"account", "bucket"} /\ ParentsFound(c)
      /\ Identify(c, Ledger!WithId(rows, tx[c].id), "external")
  BY DEF CheckId, Requests, RepositoryInv, ClientInv, CallOK
<1>2. CASE Ledger!WithId(rows, tx[c].id) # {}
  BY <1>1, <1>2, FoundById
<1>3. CASE Ledger!WithId(rows, tx[c].id) = {}
  <2>1. Proceed(c, "external") /\ "external" \in Requests
    BY <1>1, <1>3 DEF Identify, Requests
  <2>2. pc'[c] = "external" /\ UNCHANGED <<rows, parents, tx, possible>>
    BY <2>1 DEF Proceed, RepositoryInv, TypeOK
  <2>3. Ledger!Answer(rows, tx[c]) \in possible[c]
    BY <1>1, LedgerDecides
  <2>4. UnknownOnce(c)'
    BY <1>3, <2>2, <2>3 DEF UnknownOnce
  <2>5. ParentsFound(c)' /\ RequestsMade(c)'
    BY <1>1, <2>2 DEF ParentsFound, RequestsMade
  <2>6. QED
    BY <1>1, <2>1, <2>4, <2>5, ProceedStep
<1>4. QED
  BY <1>2, <1>3

LEMMA CheckExternalStep ==
  ASSUME RepositoryInv, NEW c \in Clients, CheckExternal(c)
  PROVE  RepositoryInv'
<1> DEFINE request == IF Ledger!IsReversal(tx[c]) THEN "target" ELSE "insert"
<1>1. /\ pc[c] = "external" /\ pc[c] \in Requests \ {"account", "bucket"}
      /\ ParentsFound(c) /\ UnknownOnce(c)
      /\ Identify(c, Ledger!WithExternal(rows, tx[c]), request)
  BY DEF CheckExternal, Requests, RepositoryInv, ClientInv, CallOK
<1>2. CASE Ledger!WithExternal(rows, tx[c]) # {}
  BY <1>1, <1>2, FoundByExternal
<1>3. CASE Ledger!WithExternal(rows, tx[c]) = {}
  <2>1. Proceed(c, request) /\ request \in Requests
    BY <1>1, <1>3 DEF Identify, Requests
  <2>2. pc'[c] = request /\ UNCHANGED <<rows, parents, tx, possible>>
    BY <2>1 DEF Proceed, RepositoryInv, TypeOK
  <2>3. \A L \in SUBSET rows : Ledger!WithExternal(L, tx[c]) = {}
    BY <1>3, LookupsGrow
  <2>4. UnknownOnce(c)'
    BY <1>1, <2>2, <2>3 DEF UnknownOnce
  <2>5. ParentsFound(c)' /\ RequestsMade(c)'
    BY <1>1, <2>2 DEF ParentsFound, RequestsMade
  <2>6. QED
    BY <1>1, <2>1, <2>4, <2>5, ProceedStep
<1>4. QED
  BY <1>2, <1>3

(* A target that does not fit now did not fit when the identities of the   *)
(* reversal were last unknown.                                             *)
LEMMA CheckTargetStep ==
  ASSUME RepositoryInv, NEW c \in Clients, CheckTarget(c)
  PROVE  RepositoryInv'
<1>1. /\ pc[c] = "target" /\ pc[c] \in Requests /\ ParentsFound(c)
      /\ UnknownOnce(c) /\ Ledger!IsReversal(tx[c])
  BY DEF CheckTarget, Requests, RepositoryInv, ClientInv, CallOK, RequestsMade
<1>2. CASE ~Ledger!TargetFits(rows, tx[c])
  <2>1. PICK L \in SUBSET rows :
          /\ Ledger!WithId(L, tx[c].id) = {} /\ Ledger!WithExternal(L, tx[c]) = {}
          /\ Ledger!Answer(L, tx[c]) \in possible[c]
    BY <1>1 DEF UnknownOnce
  <2>2. ~Ledger!Reversible(L, tx[c])
    BY <1>2, LookupsGrow DEF Ledger!Reversible
  <2>3. Ledger!Answer(L, tx[c]) = Invalid(c)
    BY <1>1, <2>1, <2>2, LedgerAnswers DEF Invalid
  <2>4. Finish(c, Invalid(c))
    BY <1>2 DEF CheckTarget
  <2>5. AnswerOK(c)'
    BY <2>1, <2>3, <2>4, Answered DEF Invalid, Result
  <2>6. QED
    BY <1>1, <2>4, <2>5, FinishStep
<1>3. CASE Ledger!TargetFits(rows, tx[c])
  <2>1. Proceed(c, "reversed") /\ "reversed" \in Requests
    BY <1>3 DEF CheckTarget, Requests
  <2>2. pc'[c] = "reversed" /\ UNCHANGED <<rows, parents, tx>>
    BY <2>1 DEF Proceed, RepositoryInv, TypeOK
  <2>3. ParentsFound(c)' /\ RequestsMade(c)' /\ UnknownOnce(c)'
    BY <1>1, <1>3, <2>2 DEF ParentsFound, RequestsMade, UnknownOnce
  <2>4. QED
    BY <1>1, <2>1, <2>3, ProceedStep
<1>4. QED
  BY <1>2, <1>3

(* INVALID for a reversed target: either the ledger says so now, or the    *)
(* identity of the reversal is recorded by now.                            *)
LEMMA ReversedIsInvalid ==
  ASSUME RepositoryInv, NEW c \in Clients, pc[c] \in Requests \ {"account", "bucket"},
         TargetReversed(tx[c]), Finish(c, Invalid(c))
  PROVE  RepositoryInv'
<1>1. Invalid(c) \in possible[c] \/ LosesToItsIdentity(tx[c])
  <2>1. CASE Ledger!WithId(rows, tx[c].id) \cup Ledger!WithExternal(rows, tx[c]) # {}
    BY <2>1 DEF TargetReversed, LosesToItsIdentity
  <2>2. CASE /\ Ledger!WithId(rows, tx[c].id) = {}
             /\ Ledger!WithExternal(rows, tx[c]) = {}
    <3>1. Ledger!Answer(rows, tx[c]) = Invalid(c)
      BY <2>2, LedgerAnswers DEF TargetReversed, Ledger!Reversible, Invalid
    <3>2. QED
      BY <3>1, LedgerDecides
  <2>3. QED
    BY <2>1, <2>2
<1>2. Invalid(c).status = "INVALID"
  BY DEF Invalid, Result
<1>3. AnswerOK(c)'
  BY <1>1, <1>2, Answered
<1>4. QED
  BY <1>3, FinishStep

LEMMA CheckReversedStep ==
  ASSUME RepositoryInv, NEW c \in Clients, CheckReversed(c)
  PROVE  RepositoryInv'
<1>1. /\ pc[c] = "reversed" /\ pc[c] \in Requests \ {"account", "bucket"}
      /\ ParentsFound(c) /\ RequestsMade(c)
  BY DEF CheckReversed, Requests, RepositoryInv, ClientInv, CallOK
<1>2. CASE Ledger!ReversalsOf(rows, tx[c].reverses) # {}
  BY <1>1, <1>2, ReversedIsInvalid DEF CheckReversed, TargetReversed, RequestsMade
<1>3. CASE Ledger!ReversalsOf(rows, tx[c].reverses) = {}
  <2>1. Proceed(c, "insert") /\ "insert" \in Requests
    BY <1>3 DEF CheckReversed, Requests
  <2>2. pc'[c] = "insert" /\ UNCHANGED <<rows, parents, tx>>
    BY <2>1 DEF Proceed, RepositoryInv, TypeOK
  <2>3. ParentsFound(c)' /\ RequestsMade(c)' /\ UnknownOnce(c)'
    BY <1>1, <2>2 DEF ParentsFound, RequestsMade, UnknownOnce
  <2>4. QED
    BY <1>1, <2>1, <2>3, ProceedStep
<1>4. QED
  BY <1>2, <1>3

(* The trigger never refuses what the preflight passed.                    *)
LEMMA InsertRefusedStep ==
  ASSUME RepositoryInv, NEW c \in Clients, InsertRefused(c)
  PROVE  RepositoryInv'
<1>1. /\ pc[c] = "insert" /\ pc[c] \in Requests /\ ParentsFound(c) /\ RequestsMade(c)
  BY DEF InsertRefused, Requests, RepositoryInv, ClientInv, CallOK
<1>2. TriggerAccepts(tx[c])
  BY <1>1 DEF TriggerAccepts, ParentsFound, RequestsMade
<1>3. Proceed(c, "explainId") /\ "explainId" \in Requests /\ ~IsUnique(tx[c])
  BY <1>2 DEF InsertRefused, Requests
<1>4. pc'[c] = "explainId" /\ UNCHANGED <<rows, parents, tx>>
  BY <1>3 DEF Proceed, RepositoryInv, TypeOK
<1>5. ParentsFound(c)' /\ UnknownOnce(c)'
  BY <1>1, <1>4 DEF ParentsFound, UnknownOnce
<1>6. RequestsMade(c)'
  BY <1>3, <1>4 DEF RequestsMade, IsUnique
<1>7. QED
  BY <1>1, <1>3, <1>5, <1>6, ProceedStep

LEMMA ExplainByIdStep ==
  ASSUME RepositoryInv, NEW c \in Clients, ExplainById(c)
  PROVE  RepositoryInv'
<1>1. /\ pc[c] = "explainId" /\ pc[c] \in Requests \ {"account", "bucket"}
      /\ ParentsFound(c) /\ RequestsMade(c)
      /\ Identify(c, Ledger!WithId(rows, tx[c].id), "explainExternal")
  BY DEF ExplainById, Requests, RepositoryInv, ClientInv, CallOK
<1>2. CASE Ledger!WithId(rows, tx[c].id) # {}
  BY <1>1, <1>2, FoundById
<1>3. CASE Ledger!WithId(rows, tx[c].id) = {}
  <2>1. Proceed(c, "explainExternal") /\ "explainExternal" \in Requests
    BY <1>1, <1>3 DEF Identify, Requests
  <2>2. pc'[c] = "explainExternal" /\ UNCHANGED <<rows, parents, tx>>
    BY <2>1 DEF Proceed, RepositoryInv, TypeOK
  <2>3. ~IsUnique(tx[c])
    BY <1>1 DEF RequestsMade
  <2>4. RequestsMade(c)'
    BY <1>3, <2>2, <2>3 DEF RequestsMade, IsUnique, TargetReversed
  <2>5. ParentsFound(c)' /\ UnknownOnce(c)'
    BY <1>1, <2>2 DEF ParentsFound, UnknownOnce
  <2>6. QED
    BY <1>1, <2>1, <2>4, <2>5, ProceedStep
<1>4. QED
  BY <1>2, <1>3

LEMMA ExplainByExternalStep ==
  ASSUME RepositoryInv, NEW c \in Clients, ExplainByExternal(c)
  PROVE  RepositoryInv'
<1>1. /\ pc[c] = "explainExternal" /\ pc[c] \in Requests \ {"account", "bucket"}
      /\ ParentsFound(c) /\ RequestsMade(c)
      /\ Identify(c, Ledger!WithExternal(rows, tx[c]), "explainReversed")
  BY DEF ExplainByExternal, Requests, RepositoryInv, ClientInv, CallOK
<1>2. CASE Ledger!WithExternal(rows, tx[c]) # {}
  BY <1>1, <1>2, FoundByExternal
<1>3. CASE Ledger!WithExternal(rows, tx[c]) = {}
  <2>1. Proceed(c, "explainReversed") /\ "explainReversed" \in Requests
    BY <1>1, <1>3 DEF Identify, Requests
  <2>2. pc'[c] = "explainReversed" /\ UNCHANGED <<rows, parents, tx>>
    BY <2>1 DEF Proceed, RepositoryInv, TypeOK
  <2>3. RequestsMade(c)'
    BY <1>1, <1>3, <2>2 DEF RequestsMade, TargetReversed
  <2>4. ParentsFound(c)' /\ UnknownOnce(c)'
    BY <1>1, <2>2 DEF ParentsFound, UnknownOnce
  <2>5. QED
    BY <1>1, <2>1, <2>3, <2>4, ProceedStep
<1>4. QED
  BY <1>2, <1>3

(* Only an id taken in another portfolio leaves a refusal unexplained.     *)
LEMMA ExplainByReversalStep ==
  ASSUME RepositoryInv, NEW c \in Clients, ExplainByReversal(c)
  PROVE  RepositoryInv'
<1>1. /\ pc[c] = "explainReversed" /\ pc[c] \in Requests \ {"account", "bucket"}
      /\ RequestsMade(c)
  BY DEF ExplainByReversal, Requests, RepositoryInv, ClientInv, CallOK
<1>2. CASE TargetReversed(tx[c])
  BY <1>1, <1>2, ReversedIsInvalid DEF ExplainByReversal, TargetReversed
<1>3. CASE ~TargetReversed(tx[c])
  <2> DEFINE result == Result("UNEXPLAINED", tx[c].id)
  <2>1. Finish(c, result) /\ tx[c].id \in ForeignIds
    BY <1>1, <1>3 DEF ExplainByReversal, TargetReversed, RequestsMade
  <2>2. answer'[c] = result /\ tx'[c] = tx[c]
    BY <2>1 DEF Finish, RepositoryInv, PerClient
  <2>3. AnswerOK(c)'
    BY <2>1, <2>2 DEF AnswerOK, Result
  <2>4. QED
    BY <1>1, <2>1, <2>3, FinishStep
<1>4. QED
  BY <1>2, <1>3

LEMMA RequestFailsStep ==
  ASSUME RepositoryInv, NEW c \in Clients, RequestFails(c)
  PROVE  RepositoryInv'
<1>1. Finish(c, Result("FAILED", tx[c].id)) /\ pc[c] \in Requests
  BY DEF RequestFails
<1>2. answer'[c] = Result("FAILED", tx[c].id)
  BY <1>1 DEF Finish, RepositoryInv, PerClient
<1>3. AnswerOK(c)'
  BY <1>2 DEF AnswerOK, Result
<1>4. QED
  BY <1>1, <1>3, FinishStep

-----------------------------------------------------------------------------
(* Steps that change the table or begin a call.                            *)

(* What is inserted is what the ledger would append to the rows so far.    *)
LEMMA InsertAppends ==
  ASSUME RepositoryInv, NEW c \in Clients, Insert(c)
  PROVE  /\ Ledger!Answer(rows, tx[c]) = Result("APPENDED", tx[c].id)
         /\ Ledger!Answer(rows, tx[c]) \in possible[c]
         /\ tx[c] \in Recorded
<1>1. pc[c] \in Requests \ {"account", "bucket"} /\ tx[c] \in Recorded
  BY DEF Insert, Requests, RepositoryInv, ClientInv, CallOK
<1>2. /\ Ledger!WithId(rows, tx[c].id) = {} /\ Ledger!WithExternal(rows, tx[c]) = {}
      /\ Ledger!IsReversal(tx[c]) => Ledger!Reversible(rows, tx[c])
  BY DEF Insert, IsUnique, TriggerAccepts, Ledger!Reversible
<1>3. QED
  BY <1>1, <1>2, LedgerAnswers, LedgerDecides

LEMMA InsertStep ==
  ASSUME RepositoryInv, NEW c \in Clients, Insert(c)
  PROVE  RepositoryInv'
<1>1. PICK status \in {"APPENDED", "FAILED"} :
          answer' = [answer EXCEPT ![c] = Result(status, tx[c].id)]
  BY DEF Insert
<1>2. /\ rows' = rows \cup {tx[c]} /\ pc' = [pc EXCEPT ![c] = "done"]
      /\ possible' = Observed(rows', parents) /\ UNCHANGED <<parents, tx, calls>>
  BY DEF Insert
<1>3. pc[c] = "insert"
  BY DEF Insert
<1>4. Grows
  BY <1>2 DEF Grows
<1>5. TypeOK'
  BY <1>1, <1>2, <1>3, InsertAppends DEF RepositoryInv, TypeOK, PerClient, Idle, Requests
<1>6. PerClient'
  BY <1>1, <1>2 DEF RepositoryInv, PerClient, Observed
<1>7. ASSUME NEW d \in Clients \ {c} PROVE ClientInv(d)'
  <2>1. Untouched(d)
    BY <1>1, <1>2 DEF RepositoryInv, TypeOK, PerClient, Untouched
  <2>2. QED
    BY <1>4, <2>1, GrowthKeeps DEF RepositoryInv
<1>8. ClientInv(c)'
  <2>1. pc'[c] \notin Requests /\ answer'[c] = Result(status, tx[c].id)
    BY <1>1, <1>2 DEF RepositoryInv, TypeOK, PerClient, Requests
  <2>2. possible[c] \subseteq possible'[c]
    BY <1>2 DEF Observed
  <2>3. status = "APPENDED" => answer'[c] \in possible'[c]
    BY <2>1, <2>2, InsertAppends
  <2>4. answer'[c].status = status
    BY <2>1 DEF Result
  <2>5. AnswerOK(c)'
    BY <2>3, <2>4 DEF AnswerOK
  <2>6. QED
    BY <2>1, <2>5 DEF ClientInv, CallOK
<1>9. QED
  BY <1>5, <1>6, <1>7, <1>8 DEF RepositoryInv

LEMMA CreateParentStep ==
  ASSUME RepositoryInv, NEW p \in Accounts \cup Buckets, CreateParent(p)
  PROVE  RepositoryInv'
<1>1. /\ parents' = parents \cup {p} /\ possible' = Observed(rows, parents')
      /\ UNCHANGED <<rows, pc, tx, answer, calls>>
  BY DEF CreateParent
<1>2. TypeOK' /\ PerClient'
  BY <1>1 DEF RepositoryInv, TypeOK, PerClient, Observed
<1>3. Grows
  BY <1>1 DEF Grows
<1>4. ASSUME NEW c \in Clients PROVE ClientInv(c)'
  BY <1>1, <1>3, GrowthKeeps DEF RepositoryInv, Untouched
<1>5. QED
  BY <1>2, <1>4 DEF RepositoryInv

LEMMA SubmitStep ==
  ASSUME RepositoryInv, NEW c \in Clients, NEW t \in Submissions, Submit(c, t)
  PROVE  RepositoryInv'
<1> DEFINE s == Ledger!Stamped(t, calls + 1)
<1>1. /\ calls' = calls + 1 /\ calls < MaxCalls
      /\ tx' = [tx EXCEPT ![c] = s] /\ pc' = [pc EXCEPT ![c] = "account"]
      /\ answer' = [answer EXCEPT ![c] = NoAnswer]
      /\ possible' = [possible EXCEPT ![c] = {Verdict(rows, parents, t)}]
      /\ UNCHANGED <<rows, parents>>
  BY DEF Submit
<1>2. s \in Recorded /\ calls' \in 0 .. MaxCalls
  BY <1>1, RepositoryAssumption DEF Recorded, Times, RepositoryInv, TypeOK
<1>3. s # None
  BY <1>2, RepositoryAssumption
<1>4. Ledger!Stamped(s, 0) = Ledger!Stamped(t, 0)
  BY DEF Ledger!Stamped
<1>5. Verdict(rows, parents, s) = Verdict(rows, parents, t)
  BY VerdictIgnoresTime
<1> HIDE DEF s
<1>6. /\ pc'[c] = "account" /\ tx'[c] = s /\ answer'[c] = NoAnswer
      /\ possible'[c] = {Verdict(rows, parents, s)}
  BY <1>1, <1>5 DEF RepositoryInv, TypeOK, PerClient
<1>7. PerClient'
  BY <1>1 DEF RepositoryInv, PerClient
<1>8. ASSUME NEW d \in Clients \ {c}
      PROVE  Untouched(d) /\ possible'[d] = possible[d]
  BY <1>1 DEF RepositoryInv, TypeOK, PerClient, Untouched
<1>9. TypeOK'
  <2>1. pc' \in [Clients -> Idle \cup Requests]
    BY <1>1 DEF RepositoryInv, TypeOK, Requests
  <2>2. ASSUME NEW d \in Clients
        PROVE  /\ pc'[d] = "idle" <=> tx'[d] = None
               /\ pc'[d] \in Requests => answer'[d] = NoAnswer
               /\ \A u \in {tx'[d]} \ {None} : Ledger!Stamped(u, 0) \in
                     {Ledger!Stamped(w, 0) : w \in Submissions}
    BY <1>3, <1>4, <1>6, <1>8 DEF RepositoryInv, TypeOK, Untouched
  <2>3. QED
    BY <1>1, <1>2, <2>1, <2>2 DEF RepositoryInv, TypeOK
<1>10. ClientInv(c)'
  <2>1. CallOK(c)'
    BY <1>1, <1>2, <1>6 DEF CallOK, ParentsFound, RequestsMade, UnknownOnce
  <2>2. AnswerOK(c)'
    BY <1>6 DEF AnswerOK, NoAnswer, Result
  <2>3. QED
    BY <2>1, <2>2 DEF ClientInv
<1>11. ASSUME NEW d \in Clients \ {c} PROVE ClientInv(d)'
  BY <1>1, <1>8, OthersKept DEF RepositoryInv
<1>12. QED
  BY <1>7, <1>9, <1>10, <1>11 DEF RepositoryInv

-----------------------------------------------------------------------------
(* The invariant of every behaviour.                                       *)

LEMMA RepositoryInvInit == Init => RepositoryInv
<1> SUFFICES ASSUME Init PROVE RepositoryInv
  OBVIOUS
<1>1. TypeOK /\ PerClient
  BY RepositoryAssumption DEF Init, TypeOK, PerClient, Idle, Requests
<1>2. ASSUME NEW c \in Clients PROVE ClientInv(c)
  BY DEF Init, ClientInv, CallOK, AnswerOK, NoAnswer, Result, Requests
<1>3. QED
  BY <1>1, <1>2 DEF RepositoryInv

LEMMA RepositoryInvStep == RepositoryInv /\ [Next]_vars => RepositoryInv'
<1> SUFFICES ASSUME RepositoryInv, [Next]_vars PROVE RepositoryInv'
  OBVIOUS
<1>1. ASSUME NEW p \in Accounts \cup Buckets, CreateParent(p) PROVE RepositoryInv'
  BY <1>1, CreateParentStep
<1>2. ASSUME NEW c \in Clients, NEW t \in Submissions, Submit(c, t) PROVE RepositoryInv'
  BY <1>2, SubmitStep
<1>3. ASSUME NEW c \in Clients, CheckAccount(c) \/ CheckBucket(c) \/ CheckId(c)
                                \/ CheckExternal(c) \/ CheckTarget(c) \/ CheckReversed(c)
      PROVE  RepositoryInv'
  BY <1>3, CheckAccountStep, CheckBucketStep, CheckIdStep, CheckExternalStep,
     CheckTargetStep, CheckReversedStep
<1>4. ASSUME NEW c \in Clients, Insert(c) \/ InsertRefused(c) \/ RequestFails(c)
      PROVE  RepositoryInv'
  BY <1>4, InsertStep, InsertRefusedStep, RequestFailsStep
<1>5. ASSUME NEW c \in Clients,
             ExplainById(c) \/ ExplainByExternal(c) \/ ExplainByReversal(c)
      PROVE  RepositoryInv'
  BY <1>5, ExplainByIdStep, ExplainByExternalStep, ExplainByReversalStep
<1>6. ASSUME UNCHANGED vars PROVE RepositoryInv'
  <2>1. TypeOK' /\ PerClient'
    BY <1>6 DEF vars, RepositoryInv, TypeOK, PerClient
  <2>2. ASSUME NEW c \in Clients PROVE ClientInv(c)'
    BY <1>6, OthersKept DEF vars, RepositoryInv, Untouched
  <2>3. QED
    BY <2>1, <2>2 DEF RepositoryInv
<1>7. QED
  BY <1>1, <1>2, <1>3, <1>4, <1>5, <1>6 DEF Next

LEMMA RepositoryInvAlways == Spec => []RepositoryInv
  BY RepositoryInvInit, RepositoryInvStep, PTL DEF Spec

(* Every variable of the repository keeps its type.                        *)
THEOREM RepositoryTypeCorrect == Spec => []TypeOK
<1>1. RepositoryInv => TypeOK
  BY DEF RepositoryInv
<1>2. QED
  BY <1>1, RepositoryInvAlways, PTL

(* However the requests of concurrent calls interleave, what a caller is   *)
(* told is an answer the ledger gives at a moment of the call, or is one   *)
(* of the two races that AnswersAreLinearizable names; no insert is        *)
(* rejected, and none is left unexplained but for an id of another         *)
(* portfolio.                                                              *)
THEOREM AnswersAlwaysExplained == Spec => []AnswersAreExplained
<1>1. RepositoryInv => AnswersAreExplained
  BY DEF RepositoryInv, ClientInv, AnswerOK, AnswersAreExplained, AnswersAreLinearizable,
     RefusalsAreExplained
<1>2. QED
  BY <1>1, RepositoryInvAlways, PTL

(* The table is a ledger: every committed insert is an append that         *)
(* PortfolioLedger.append would have made to the rows committed before.    *)
THEOREM RepositoryImplementsLedger == Spec => ImplementsLedger
<1>1. Init => Ledger!Init
  BY DEF Init, Ledger!Init
<1>2. RepositoryInv /\ [Next]_vars => [Ledger!Next]_rows
  <2> SUFFICES ASSUME RepositoryInv, [Next]_vars PROVE [Ledger!Next]_rows
    OBVIOUS
  <2>1. ASSUME NEW c \in Clients, Insert(c) PROVE Ledger!Next
    <3>1. PICK t \in Submissions, n \in Times : tx[c] = Ledger!Stamped(t, n)
      BY <2>1, InsertAppends DEF Recorded
    <3>2. Ledger!Answer(rows, tx[c]) = Result("APPENDED", tx[c].id)
      BY <2>1, InsertAppends
    <3>3. Ledger!Answer(rows, tx[c]).status = "APPENDED"
      BY <3>2 DEF Result
    <3>4. Ledger!Append(tx[c])
      BY <2>1, <3>3 DEF Insert, Ledger!Append
    <3>5. QED
      BY <3>1, <3>4 DEF Ledger!Next
  <2>2. CASE ~\E c \in Clients : Insert(c)
    <3>1. rows' = rows
      BY <2>2 DEF Next, vars, CreateParent, Submit, CheckAccount, CheckBucket, CheckId,
         CheckExternal, CheckTarget, CheckReversed, InsertRefused, ExplainById,
         ExplainByExternal, ExplainByReversal, RequestFails, Identify, Finish, Proceed
    <3>2. QED
      BY <3>1
  <2>3. QED
    BY <2>1, <2>2
<1>3. QED
  BY <1>1, <1>2, RepositoryInvAlways, PTL DEF Spec, ImplementsLedger, Ledger!Spec

-----------------------------------------------------------------------------
(* ImportPipeline: the three rules of a row, and what a resolution and a   *)
(* batch of items are.  Its invariant is stated beside it.                 *)

LEMMA RulesAgree ==
  ASSUME NEW line, Pipeline!RowOK(line)
  PROVE  /\ Pipeline!DraftAccepts(line) => Pipeline!ModelAccepts(line)
         /\ Pipeline!ModelAccepts(line) <=> Pipeline!DatabaseAccepts(line)
<1>. USE DEF Pipeline!RowOK, Pipeline!DraftAccepts, Pipeline!ModelAccepts,
             Pipeline!DatabaseAccepts, Pipeline!Types, Pipeline!Trades, Pipeline!Flows,
             Pipeline!Incomes, Pipeline!Fields, Pipeline!Trade, Pipeline!Cash, Pipeline!Fx,
             Pipeline!Amounts
<1>1. CASE line.type \in Pipeline!Trades
  BY <1>1
<1>2. CASE line.type \in Pipeline!Flows
  BY <1>2
<1>3. CASE line.type \in Pipeline!Incomes
  BY <1>3
<1>4. CASE line.type = "fx_conversion"
  BY <1>4
<1>5. CASE line.type = "reversal"
  BY <1>5
<1>. QED
  BY <1>1, <1>2, <1>3, <1>4, <1>5

LEMMA ReadyRow ==
  ASSUME Pipeline!PipelineConstants, NEW f \in Files, NEW i \in Pipeline!Ready(f)
  PROVE  /\ i \in DOMAIN f.rows /\ ~ f.rows[i].lexical
         /\ Pipeline!DraftAccepts(f.rows[i])
         /\ Pipeline!ModelAccepts(f.rows[i]) /\ Pipeline!DatabaseAccepts(f.rows[i])
<1>1. i \in DOMAIN f.rows /\ Pipeline!Assessment(f.rows[i]) = "ready"
  BY DEF Pipeline!Ready, Pipeline!Ordinals
<1>2. Pipeline!Legible(f.rows[i]) /\ Pipeline!DraftAccepts(f.rows[i])
  BY <1>1 DEF Pipeline!Assessment
<1>3. Pipeline!RowOK(f.rows[i])
  BY <1>1 DEF Pipeline!PipelineConstants, Pipeline!FileOK
<1>. QED
  BY <1>1, <1>2, <1>3, RulesAgree DEF Pipeline!Legible

(* What a resolution is, by what is known of its row's reference.          *)
LEMMA ResolutionCases ==
  ASSUME NEW line, NEW rev
  PROVE  LET res == Pipeline!Resolution(line, rev)
             known == Candidates[rev][line.ref] IN
         /\ line.ref = NoRef =>
               res = [status |-> "not_required", revision |-> 0, candidates |-> {}]
         /\ line.ref # NoRef => res.revision = rev /\ res.candidates = known
         /\ line.ref # NoRef /\ known = {} => res.status = "unresolved"
         /\ line.ref # NoRef /\ known # {} /\ Pipeline!Cardinality(known) = 1 =>
               res.status = "resolved"
         /\ line.ref # NoRef /\ known # {} /\ Pipeline!Cardinality(known) # 1 =>
               res.status = "ambiguous"
  BY DEF Pipeline!Resolution

LEMMA ResolvedRow ==
  ASSUME NEW f, NEW rev, NEW i \in Pipeline!Ready(f), Pipeline!FullyResolved(f, rev),
         f.rows[i].ref # NoRef
  PROVE  Pipeline!Cardinality(Pipeline!Resolution(f.rows[i], rev).candidates) = 1
<1>1. Pipeline!Resolution(f.rows[i], rev).status \notin {"unresolved", "ambiguous"}
  BY DEF Pipeline!FullyResolved, Pipeline!Blocked, Pipeline!Resolutions
<1>. QED
  BY <1>1, ResolutionCases

(* The library's facts about finite sets, for the sets of the parts.       *)
LEMMA PipelineSets ==
  /\ \A S : Pipeline!Cardinality(S) = Cardinality(S)
  /\ \A S : Pipeline!IsFiniteSet(S) <=> IsFiniteSet(S)
  BY DEF Pipeline!Cardinality, Cardinality, Pipeline!IsFiniteSet, IsFiniteSet

LEMMA CommitSets ==
  /\ \A S : Commits!Cardinality(S) = Cardinality(S)
  /\ \A S : Commits!IsFiniteSet(S) <=> IsFiniteSet(S)
  BY DEF Commits!Cardinality, Cardinality, Commits!IsFiniteSet, IsFiniteSet

LEMMA SortedListExists ==
  ASSUME NEW S, IsFiniteSet(S), NEW less \in SUBSET (S \X S),
         \A x \in S : <<x, x>> \notin less,
         \A x, y, z \in S : <<x, y>> \in less /\ <<y, z>> \in less => <<x, z>> \in less,
         \A x, y \in S : x # y => <<x, y>> \in less \/ <<y, x>> \in less
  PROVE  \E f : Commits!Lists(f, S, less)
<1>1. Commits!IsFiniteSet(S)
  BY CommitSets
<1>. QED
  BY <1>1, Commits!SortedListExists

(* The ready rows of a file, in its order, each once.                      *)
LEMMA InFileOrderLists ==
  ASSUME Pipeline!PipelineConstants, NEW f \in Files
  PROVE  /\ Cardinality(Pipeline!Ready(f)) \in Nat
         /\ Pipeline!InFileOrder(f) \in [1 .. Cardinality(Pipeline!Ready(f)) -> Pipeline!Ready(f)]
         /\ \A i \in Pipeline!Ready(f) :
              \E k \in 1 .. Cardinality(Pipeline!Ready(f)) : Pipeline!InFileOrder(f)[k] = i
<1>1. PICK S : S = Pipeline!Ready(f)
  OBVIOUS
<1>2. IsFiniteSet(S) /\ S \subseteq Nat
  <2>1. f.rows \in Seq({f.rows[i] : i \in DOMAIN f.rows})
    BY DEF Pipeline!PipelineConstants, Pipeline!FileOK
  <2>2. PICK records, cells : records = f.rows /\ records \in Seq(cells)
    BY <2>1
  <2>3. DOMAIN records = 1 .. Len(records) /\ Len(records) \in Nat
    BY <2>2
  <2>4. S \subseteq 1 .. Len(records) /\ IsFiniteSet(1 .. Len(records))
    BY <1>1, <2>2, <2>3, FS_Interval DEF Pipeline!Ready, Pipeline!Ordinals
  <2>5. IsFiniteSet(S)
    BY <2>4, FS_Subset
  <2>. QED
    BY <2>3, <2>4, <2>5
<1>3. PICK less : less = {p \in S \X S : p[1] < p[2]}
  OBVIOUS
<1>4. \A x, y \in S : <<x, y>> \in less <=> x < y
  BY <1>3
<1>5. PICK g \in [1 .. Cardinality(S) -> S] :
        \A i, j \in 1 .. Cardinality(S) : i < j => <<g[i], g[j]>> \in less
  <2>1. less \in SUBSET (S \X S)
    BY <1>3
  <2>2. \A x \in S : <<x, x>> \notin less
    BY <1>2, <1>4
  <2>3. \A x, y, z \in S : <<x, y>> \in less /\ <<y, z>> \in less => <<x, z>> \in less
    BY <1>2, <1>4
  <2>4. \A x, y \in S : x # y => <<x, y>> \in less \/ <<y, x>> \in less
    BY <1>2, <1>4
  <2>. QED
    BY <1>2, <2>1, <2>2, <2>3, <2>4, SortedListExists, CommitSets DEF Commits!Lists
<1>6. /\ Cardinality(S) \in Nat /\ IsFiniteSet(1 .. Cardinality(S))
      /\ Cardinality(1 .. Cardinality(S)) = Cardinality(S)
  BY <1>2, FS_CardinalityType, FS_Interval
<1>7. PICK h : h = Pipeline!InFileOrder(f)
  OBVIOUS
<1>8. /\ h \in [1 .. Cardinality(S) -> S]
      /\ \A i, j \in DOMAIN h : i < j => h[i] < h[j]
  <2>1. \A i, j \in DOMAIN g : i < j => g[i] < g[j]
    BY <1>4, <1>5
  <2>2. h = CHOOSE s \in [1 .. Cardinality(S) -> S] :
               \A i, j \in DOMAIN s : i < j => s[i] < s[j]
    BY <1>1, <1>7, PipelineSets DEF Pipeline!InFileOrder
  <2>. QED
    BY <2>1, <2>2
<1>9. \A i, j \in 1 .. Cardinality(S) : h[i] = h[j] => i = j
  <2>1. ASSUME NEW i \in 1 .. Cardinality(S), NEW j \in 1 .. Cardinality(S), i < j
        PROVE  h[i] # h[j]
    <3>1. h[i] < h[j] /\ h[i] \in Nat /\ h[j] \in Nat
      BY <1>2, <1>8, <2>1
    <3>. QED
      BY <3>1
  <2>. QED
    BY <1>6, <2>1
<1>10. h \in Injection(1 .. Cardinality(S), S)
  BY <1>8, <1>9 DEF Injection, IsInjective
<1>11. h \in Surjection(1 .. Cardinality(S), S)
  BY <1>2, <1>6, <1>10, FS_Injection
<1>. QED
  BY <1>1, <1>6, <1>7, <1>8, <1>11 DEF Surjection

(* A batch has an item for each ready row.                                 *)
LEMMA PlansFacts ==
  ASSUME Pipeline!PipelineConstants, NEW f \in Files, NEW rev
  PROVE  /\ Len(Pipeline!Plans(f, rev)) = Pipeline!Cardinality(Pipeline!Ready(f))
         /\ Pipeline!Plans(f, rev) = <<>> <=> Pipeline!Ready(f) = {}
         /\ Pipeline!Ledger!Items(Pipeline!Plans(f, rev))
              = {Pipeline!Item(f, rev, i) : i \in Pipeline!Ready(f)}
         /\ DOMAIN Pipeline!Plans(f, rev) = 1 .. Pipeline!Cardinality(Pipeline!Ready(f))
         /\ Pipeline!Cardinality(Pipeline!Ready(f)) \in Nat
<1>1. /\ Pipeline!InFileOrder(f) \in Seq(Pipeline!Ready(f))
      /\ Len(Pipeline!InFileOrder(f)) = Pipeline!Cardinality(Pipeline!Ready(f))
      /\ \A i \in Pipeline!Ready(f) :
            \E k \in DOMAIN Pipeline!InFileOrder(f) : Pipeline!InFileOrder(f)[k] = i
  BY InFileOrderLists, PipelineSets
<1>2. PICK order : order = Pipeline!InFileOrder(f)
  OBVIOUS
<1>3. Pipeline!Plans(f, rev) = [k \in 1 .. Len(order) |-> Pipeline!Item(f, rev, order[k])]
  BY <1>1, <1>2 DEF Pipeline!Plans
<1>4. /\ Pipeline!Plans(f, rev) \in Seq({Pipeline!Item(f, rev, i) : i \in Pipeline!Ready(f)})
      /\ Len(Pipeline!Plans(f, rev)) = Len(order)
  BY <1>1, <1>2, <1>3
<1>5. Pipeline!Plans(f, rev) = <<>> <=> Pipeline!Ready(f) = {}
  BY <1>1, <1>2, <1>4
<1>6. Pipeline!Ledger!Items(Pipeline!Plans(f, rev))
        = {Pipeline!Item(f, rev, i) : i \in Pipeline!Ready(f)}
  BY <1>1, <1>2, <1>3 DEF Pipeline!Ledger!Items
<1>. QED
  BY <1>1, <1>2, <1>4, <1>5, <1>6

LEMMA SameClaim ==
  ASSUME Pipeline!PipelineConstants, NEW f \in Files, NEW g \in Files, NEW i, NEW j,
         Pipeline!Claim(f, i) = Pipeline!Claim(g, j)
  PROVE  f = g /\ i = j
  BY DEF Pipeline!Claim, Pipeline!PipelineConstants

-----------------------------------------------------------------------------
(* Every step keeps the invariant.                                         *)

(* A binding holds a file's row as the execution resolved it.              *)
LEMMA BoundRow ==
  ASSUME Pipeline!PipelineConstants, Pipeline!BindingsInv, NEW b \in bound, NEW f \in Files, NEW i,
         b.claim = Pipeline!Claim(f, i)
  PROVE  f \in Pipeline!Readable /\ \E rev \in Pipeline!Revisions : Pipeline!BoundBy(b, f, rev, i)
<1>1. PICK g \in Pipeline!Readable, rev \in Pipeline!Revisions :
        \E j \in Pipeline!Ready(g) : Pipeline!BoundBy(b, g, rev, j)
  BY DEF Pipeline!BindingsInv
<1>2. PICK j \in Pipeline!Ready(g) : Pipeline!BoundBy(b, g, rev, j)
  BY <1>1
<1>3. Pipeline!Claim(g, j) = Pipeline!Claim(f, i) /\ g \in Files
  BY <1>2 DEF Pipeline!BoundBy, Pipeline!Readable
<1>4. g = f /\ j = i
  BY <1>3, SameClaim
<1>. QED
  BY <1>2, <1>4

LEMMA BindStep ==
  ASSUME Pipeline!PipelineConstants, Pipeline!BindingsInv,
         NEW f \in Pipeline!Readable, revision \in Pipeline!Revisions,
         Pipeline!FullyResolved(f, revision), Pipeline!Ledger!Bind(Pipeline!Plans(f, revision))
  PROVE  Pipeline!BindingsInv'
<1>. DEFINE Made(i) == Pipeline!Item(f, revision, i)
            items == {Made(i) : i \in Pipeline!Ready(f)}
<1>0. f \in Files
  BY DEF Pipeline!Readable
<1>1. PICK fresh, id :
        /\ fresh = {item \in items : \A b \in bound : b.claim # item.claim}
        /\ id \in [fresh -> TransactionIds]
        /\ bound' = bound \cup
             {[claim |-> i.claim, plan |-> i.plan, economics |-> i.economics, id |-> id[i]] :
                i \in fresh}
  <2>1. Pipeline!Ledger!Items(Pipeline!Plans(f, revision)) = items
    BY <1>0, PlansFacts
  <2>2. PICK made : made = Pipeline!Ledger!Items(Pipeline!Plans(f, revision))
    OBVIOUS
  <2>3. PICK fresh : fresh = {item \in made : \A b \in bound : b.claim # item.claim}
    OBVIOUS
  <2>4. \E id \in [fresh -> TransactionIds] :
          bound' = bound \cup
             {[claim |-> i.claim, plan |-> i.plan, economics |-> i.economics, id |-> id[i]] :
                i \in DOMAIN id}
    BY <2>2, <2>3 DEF Pipeline!Ledger!Bind
  <2>. QED
    BY <2>1, <2>2, <2>3, <2>4
<1>2. \A b \in bound' : b \in bound \/ \E i \in Pipeline!Ready(f) :
         /\ Made(i) \in fresh
         /\ b = [claim |-> Made(i).claim, plan |-> Made(i).plan,
                 economics |-> Made(i).economics, id |-> id[Made(i)]]
  BY <1>1
<1>3. \A i : Made(i).claim = Pipeline!Claim(f, i)
  BY DEF Pipeline!Item
<1>4. \A b \in bound' : \E g \in Pipeline!Readable, rev \in Pipeline!Revisions :
         \E i \in Pipeline!Ready(g) : Pipeline!BoundBy(b, g, rev, i)
  <2>1. ASSUME NEW b \in bound', b \notin bound
        PROVE  \E i \in Pipeline!Ready(f) : Pipeline!BoundBy(b, f, revision, i)
    BY <1>2, <1>3, <2>1 DEF Pipeline!BoundBy
  <2>. QED
    BY <2>1 DEF Pipeline!BindingsInv
<1>5. \A b, d \in bound' : b.claim = d.claim => b = d
  <2>1. SUFFICES ASSUME NEW b \in bound', NEW d \in bound', b.claim = d.claim PROVE b = d
    OBVIOUS
  <2>2. CASE b \in bound /\ d \in bound
    BY <2>1, <2>2 DEF Pipeline!BindingsInv
  <2>3. CASE b \notin bound /\ d \notin bound
    <3>1. PICK i \in Pipeline!Ready(f) :
            b = [claim |-> Made(i).claim, plan |-> Made(i).plan,
                 economics |-> Made(i).economics, id |-> id[Made(i)]]
      BY <1>2, <2>3
    <3>2. PICK j \in Pipeline!Ready(f) :
            d = [claim |-> Made(j).claim, plan |-> Made(j).plan,
                 economics |-> Made(j).economics, id |-> id[Made(j)]]
      BY <1>2, <2>3
    <3>3. i = j
      BY <1>0, <1>3, <2>1, <3>1, <3>2, SameClaim
    <3>. QED
      BY <3>1, <3>2, <3>3
  <2>4. ASSUME NEW x \in bound, NEW y \in bound', y \notin bound PROVE x.claim # y.claim
    BY <1>1, <1>2, <2>4
  <2>. QED
    BY <2>1, <2>2, <2>3, <2>4
<1>6. ASSUME NEW g \in Files PROVE Pipeline!Booked(g)' \in {{}, Pipeline!Ready(g)}
  <2>1. CASE g = f
    <3>1. ASSUME NEW i \in Pipeline!Ready(f) PROVE \E b \in bound' : b.claim = Pipeline!Claim(f, i)
      <4>0. PICK item : item = Made(i) /\ item.claim = Pipeline!Claim(f, i)
        BY <1>3
      <4>1. CASE item \in fresh
        <5>1. [claim |-> item.claim, plan |-> item.plan, economics |-> item.economics,
               id |-> id[item]] \in bound'
          BY <1>1, <4>1
        <5>. QED
          BY <4>0, <5>1
      <4>2. CASE item \notin fresh
        BY <1>1, <4>0, <4>2
      <4>. QED
        BY <4>1, <4>2
    <3>2. ASSUME NEW i, NEW b \in bound', b.claim = Pipeline!Claim(f, i)
          PROVE  i \in Pipeline!Ready(f)
      <4>1. CASE b \in bound
        BY <1>0, <3>2, <4>1, BoundRow DEF Pipeline!BoundBy
      <4>2. CASE b \notin bound
        BY <1>0, <1>2, <1>3, <3>2, <4>2, SameClaim
      <4>. QED
        BY <4>1, <4>2
    <3>3. Pipeline!Ready(f) \subseteq Pipeline!Ordinals(f)
      BY DEF Pipeline!Ready
    <3>. QED
      BY <2>1, <3>1, <3>2, <3>3 DEF Pipeline!Booked
  <2>2. CASE g # f
    <3>1. ASSUME NEW i PROVE (\E b \in bound' : b.claim = Pipeline!Claim(g, i))
                              <=> (\E b \in bound : b.claim = Pipeline!Claim(g, i))
      BY <1>0, <1>1, <1>2, <1>3, <2>2, SameClaim
    <3>2. Pipeline!Booked(g)' = Pipeline!Booked(g)
      BY <3>1 DEF Pipeline!Booked
    <3>. QED
      BY <3>2 DEF Pipeline!BindingsInv
  <2>. QED
    BY <2>1, <2>2
<1>. QED
  BY <1>4, <1>5, <1>6 DEF Pipeline!BindingsInv

(* Two executions that bind a row differently had different resolvers.     *)
LEMMA ConflictStep ==
  ASSUME Pipeline!PipelineConstants, Pipeline!BindingsInv,
         NEW f \in Files, revision \in Pipeline!Revisions,
         NEW item \in Pipeline!Ledger!Items(Pipeline!Plans(f, revision)), NEW b \in bound,
         Pipeline!Ledger!Conflicting(item, b)
  PROVE  b.plan.file = f.name /\ b.plan.resolution.revision \notin {0, revision}
<1>1. PICK i \in Pipeline!Ready(f) : item = Pipeline!Item(f, revision, i)
  BY PlansFacts
<1>2. b.claim = Pipeline!Claim(f, i)
  BY <1>1 DEF Pipeline!Ledger!Conflicting, Pipeline!Item
<1>3. PICK rev \in Pipeline!Revisions : Pipeline!BoundBy(b, f, rev, i)
  BY <1>2, BoundRow
<1>4. /\ b.plan = [file |-> f.name, draft |-> Pipeline!Draft(f, i),
                    resolution |-> Pipeline!Resolution(f.rows[i], rev)]
      /\ b.economics = <<f.rows[i], Pipeline!Resolution(f.rows[i], rev).candidates>>
  BY <1>3 DEF Pipeline!BoundBy, Pipeline!Item
<1>5. Pipeline!Resolution(f.rows[i], rev) # Pipeline!Resolution(f.rows[i], revision)
  BY <1>1, <1>4 DEF Pipeline!Ledger!Conflicting, Pipeline!Item
<1>6. f.rows[i].ref # NoRef
  <2>1. SUFFICES ASSUME f.rows[i].ref = NoRef
                 PROVE  Pipeline!Resolution(f.rows[i], rev)
                          = Pipeline!Resolution(f.rows[i], revision)
    BY <1>5
  <2>. QED
    BY <2>1 DEF Pipeline!Resolution
<1>7. Pipeline!Resolution(f.rows[i], rev).revision = rev
  BY <1>6, ResolutionCases
<1>8. rev # revision /\ rev # 0
  BY <1>5 DEF Pipeline!PipelineConstants
<1>. QED
  BY <1>4, <1>7, <1>8

LEMMA ExecuteStep ==
  ASSUME Pipeline!PipelineConstants, Pipeline!Inv, NEW f \in Files, Pipeline!Execute(f)
  PROVE  Pipeline!Inv'
<1>. DEFINE planned == Pipeline!Plans(f, revision)
<1>1. executions' \in 0 .. MaxCalls /\ revision' = revision /\ revision \in Pipeline!Revisions
  BY DEF Pipeline!Execute, Pipeline!Inv, Pipeline!PipelineConstants
<1>2. /\ Len(planned) = Pipeline!Cardinality(Pipeline!Ready(f))
      /\ planned = <<>> <=> Pipeline!Ready(f) = {}
  BY PlansFacts
<1>3. Pipeline!BindingsInv /\ Pipeline!LastInv
  BY DEF Pipeline!Inv
<1>4. CASE /\ Pipeline!Canonical(f) /\ ~ Pipeline!Stops(f, revision) /\ planned # <<>>
           /\ Pipeline!Ledger!Bind(planned)
           /\ \/ \E old : Pipeline!Record(f,
                             IF old = Len(planned) THEN "idempotent_duplicate" ELSE "appended",
                             Pipeline!BoundIds(f, revision))
              \/ Pipeline!Record(f, "lost", <<>>)
  <2>1. Pipeline!BindingsInv'
    BY <1>1, <1>3, <1>4, BindStep DEF Pipeline!Stops, Pipeline!Readable
  <2>2. Len(Pipeline!BoundIds(f, revision)) = Pipeline!Cardinality(Pipeline!Ready(f))
    <3>1. PICK b : /\ b = planned /\ DOMAIN b = 1 .. Pipeline!Cardinality(Pipeline!Ready(f))
                   /\ Pipeline!Cardinality(Pipeline!Ready(f)) \in Nat
      BY PlansFacts
    <3>2. PICK ids : ids = Pipeline!BoundIds(f, revision)
      OBVIOUS
    <3>3. PICK id \in [DOMAIN b -> {ids[k] : k \in DOMAIN b}] : ids = id
      BY <3>1, <3>2 DEF Pipeline!BoundIds
    <3>. QED
      BY <3>1, <3>2, <3>3
  <2>3. Pipeline!LastInv'
    BY <1>1, <1>2, <1>4, <2>2 DEF Pipeline!LastInv, Pipeline!Record, Pipeline!Committed
  <2>4. Pipeline!ConflictHasCause'
    BY <1>4 DEF Pipeline!ConflictHasCause, Pipeline!Record
  <2>. QED
    BY <1>1, <2>1, <2>3, <2>4 DEF Pipeline!Inv
<1>5. CASE /\ Pipeline!Canonical(f) /\ ~ Pipeline!Stops(f, revision) /\ planned # <<>>
           /\ \E item \in Pipeline!Ledger!Items(planned), b \in bound :
                 Pipeline!Ledger!Conflicting(item, b)
           /\ Pipeline!Record(f, "conflict", <<>>) /\ UNCHANGED bound
  <2>1. Pipeline!LastInv'
    BY <1>1, <1>2, <1>5 DEF Pipeline!LastInv, Pipeline!Record, Pipeline!Committed
  <2>2. Pipeline!ConflictHasCause'
    BY <1>1, <1>3, <1>5, ConflictStep DEF Pipeline!ConflictHasCause, Pipeline!Record
  <2>3. Pipeline!BindingsInv'
    BY <1>3, <1>5 DEF Pipeline!BindingsInv, Pipeline!Booked
  <2>. QED
    BY <1>1, <2>1, <2>2, <2>3 DEF Pipeline!Inv
<1>6. ASSUME NEW told, Pipeline!Record(f, told, <<>>), UNCHANGED bound,
             \/ told = "error" /\ ~ Pipeline!Canonical(f)
             \/ told = "resolution_blocked" /\ Pipeline!Canonical(f) /\ Pipeline!Stops(f, revision)
             \/ /\ told = "noop" /\ Pipeline!Canonical(f) /\ ~ Pipeline!Stops(f, revision)
                /\ planned = <<>>
      PROVE  Pipeline!Inv'
  <2>1. Pipeline!LastInv'
    BY <1>1, <1>2, <1>6 DEF Pipeline!LastInv, Pipeline!Record, Pipeline!Committed
  <2>2. Pipeline!ConflictHasCause'
    BY <1>6 DEF Pipeline!ConflictHasCause, Pipeline!Record
  <2>3. Pipeline!BindingsInv'
    BY <1>3, <1>6 DEF Pipeline!BindingsInv, Pipeline!Booked
  <2>. QED
    BY <1>1, <2>1, <2>2, <2>3 DEF Pipeline!Inv
<1>. QED
  BY <1>4, <1>5, <1>6 DEF Pipeline!Execute

LEMMA PipelineInvInit ==
  ASSUME Pipeline!PipelineConstants, Pipeline!Init
  PROVE  Pipeline!Inv
<1>1. Pipeline!BindingsInv
  BY DEF Pipeline!Init, Pipeline!BindingsInv, Pipeline!Booked
<1>2. Pipeline!LastInv /\ Pipeline!ConflictHasCause
  BY DEF Pipeline!Init, Pipeline!LastInv, Pipeline!ConflictHasCause, Pipeline!Committed
<1>. QED
  BY <1>1, <1>2 DEF Pipeline!Init, Pipeline!Inv, Pipeline!PipelineConstants

LEMMA PipelineInvStep ==
  ASSUME Pipeline!PipelineConstants, Pipeline!Inv, [Pipeline!Next]_(Pipeline!vars)
  PROVE  Pipeline!Inv'
<1>1. CASE Pipeline!Replace \/ UNCHANGED Pipeline!vars
  <2>1. UNCHANGED <<bound, last, executions>> /\ revision' \in Pipeline!Revisions
    BY <1>1 DEF Pipeline!Replace, Pipeline!vars, Pipeline!Inv
  <2>2. Pipeline!BindingsInv' /\ Pipeline!LastInv' /\ Pipeline!ConflictHasCause'
    BY <2>1 DEF Pipeline!Inv, Pipeline!BindingsInv, Pipeline!Booked, Pipeline!LastInv,
       Pipeline!ConflictHasCause
  <2>. QED
    BY <2>1, <2>2 DEF Pipeline!Inv
<1>2. ASSUME NEW f \in Files, Pipeline!Execute(f) PROVE Pipeline!Inv'
  BY <1>2, ExecuteStep
<1>. QED
  BY <1>1, <1>2 DEF Pipeline!Next

-----------------------------------------------------------------------------
(* What the invariant says.                                                *)

LEMMA PipelineInvTypeOK ==
  ASSUME Pipeline!PipelineConstants, Pipeline!Inv
  PROVE  Pipeline!TypeOK
  BY DEF Pipeline!Inv, Pipeline!LastInv, Pipeline!TypeOK, Pipeline!Committed

LEMMA PipelineInvFiles ==
  ASSUME Pipeline!PipelineConstants, Pipeline!Inv
  PROVE  Pipeline!FilesAreAllOrNothing
  BY DEF Pipeline!Inv, Pipeline!BindingsInv, Pipeline!FilesAreAllOrNothing

LEMMA PipelineInvSound ==
  ASSUME Pipeline!PipelineConstants, Pipeline!Inv
  PROVE  Pipeline!BookedRowsAreSound
<1>1. SUFFICES ASSUME NEW f \in Files, NEW i \in Pipeline!Booked(f)
               PROVE  LET b == CHOOSE b \in bound : b.claim = Pipeline!Claim(f, i) IN
                      /\ ~ f.rows[i].lexical
                      /\ Pipeline!ModelAccepts(f.rows[i]) /\ Pipeline!DatabaseAccepts(f.rows[i])
                      /\ f.rows[i].ref # NoRef => Pipeline!Cardinality(b.economics[2]) = 1
  BY DEF Pipeline!BookedRowsAreSound
<1>2. PICK b : b = CHOOSE d \in bound : d.claim = Pipeline!Claim(f, i)
  OBVIOUS
<1>3. b \in bound /\ b.claim = Pipeline!Claim(f, i)
  BY <1>1, <1>2 DEF Pipeline!Booked
<1>4. PICK rev \in Pipeline!Revisions : Pipeline!BoundBy(b, f, rev, i)
  BY <1>1, <1>3, BoundRow DEF Pipeline!Inv
<1>5. i \in Pipeline!Ready(f) /\ b.economics[2] = Pipeline!Resolution(f.rows[i], rev).candidates
      /\ Pipeline!FullyResolved(f, rev)
  BY <1>4 DEF Pipeline!BoundBy, Pipeline!Item
<1>. QED
  BY <1>2, <1>5, ReadyRow, ResolvedRow

LEMMA PipelineInvPreview ==
  ASSUME Pipeline!PipelineConstants, Pipeline!Inv
  PROVE  Pipeline!PreviewAgrees
<1>. DEFINE f == last.file
            rev == last.revision
<1>1. Pipeline!LastInv
  BY DEF Pipeline!Inv
<1>2. /\ Pipeline!Ready(f) \subseteq DOMAIN f.rows
      /\ Pipeline!Rejected(f) = DOMAIN f.rows \ Pipeline!Ready(f)
      /\ Pipeline!Blocked(f, rev) \subseteq Pipeline!Ready(f)
  BY DEF Pipeline!Ready, Pipeline!Rejected, Pipeline!Ordinals, Pipeline!Blocked
<1>3. f.rows = <<>> <=> DOMAIN f.rows = {}
  <2>1. CASE last.status = "none"
    BY <1>1, <2>1 DEF Pipeline!LastInv
  <2>2. CASE last.status # "none"
    <3>1. f \in Files
      BY <1>1, <2>2 DEF Pipeline!LastInv
    <3>2. f.rows \in Seq({f.rows[i] : i \in DOMAIN f.rows})
      BY <3>1 DEF Pipeline!PipelineConstants, Pipeline!FileOK
    <3>3. PICK records, cells : records = f.rows /\ records \in Seq(cells)
      BY <3>2
    <3>4. records = <<>> <=> DOMAIN records = {}
      <4>1. ASSUME DOMAIN records = {} PROVE records = <<>>
        <5>1. DOMAIN records = 1 .. Len(records) /\ Len(records) \in Nat
          BY <3>3
        <5>2. Len(records) = 0
          BY <4>1, <5>1
        <5>. QED
          BY <3>3, <5>2
      <4>. QED
        BY <4>1
    <3>. QED
      BY <3>3, <3>4
  <2>. QED
    BY <2>1, <2>2
<1>4. Pipeline!Stops(f, rev) <=> Pipeline!Blocked(f, rev) # {}
  BY DEF Pipeline!Stops, Pipeline!FullyResolved
<1>. QED
  BY <1>1, <1>2, <1>3, <1>4 DEF Pipeline!PreviewAgrees, Pipeline!PreviewStatus,
     Pipeline!LastInv, Pipeline!Committed, Pipeline!Canonical

LEMMA PipelineInvStages ==
  ASSUME Pipeline!PipelineConstants, Pipeline!Inv
  PROVE  Pipeline!StagesFitTogether
<1>1. SUFFICES ASSUME NEW f \in Pipeline!Readable, NEW i \in Pipeline!Ready(f)
               PROVE  Pipeline!Admissible(f.rows[i], Pipeline!Resolution(f.rows[i], revision))
  BY DEF Pipeline!StagesFitTogether, Pipeline!Drafts, Pipeline!Resolutions
<1>2. PICK line, known : line = f.rows[i] /\ known = Candidates[revision][line.ref]
  OBVIOUS
<1>3. f \in Files /\ revision \in Pipeline!Revisions /\ revision # 0 /\ i \in DOMAIN f.rows
      /\ Pipeline!DraftAccepts(line) /\ ("instrument" \in line.present <=> line.ref # NoRef)
  BY <1>1, <1>2, ReadyRow DEF Pipeline!Readable, Pipeline!Inv, Pipeline!PipelineConstants,
     Pipeline!FileOK
<1>4. ASSUME line.type \in {"cash_deposit", "cash_withdrawal", "fx_conversion"}
      PROVE  line.ref = NoRef
  <2>1. line.present \in {Pipeline!Cash, Pipeline!Fx}
    BY <1>3, <1>4 DEF Pipeline!DraftAccepts, Pipeline!Trades, Pipeline!Flows, Pipeline!Incomes
  <2>. QED
    BY <1>3, <2>1 DEF Pipeline!Cash, Pipeline!Fx
<1>5. ASSUME line.type \in {"buy", "sell"} PROVE line.ref # NoRef
  <2>1. line.present = Pipeline!Trade \cup {"instrument"}
    BY <1>3, <1>5 DEF Pipeline!DraftAccepts, Pipeline!Trades, Pipeline!Flows, Pipeline!Incomes
  <2>. QED
    BY <1>3, <2>1
<1>6. Pipeline!Cardinality(known) \in Nat /\ (Pipeline!Cardinality(known) = 0 => known = {})
  <2>1. IsFiniteSet(known)
    BY <1>2, <1>3, PipelineSets DEF Pipeline!PipelineConstants
  <2>. QED
    BY <2>1, FS_CardinalityType, FS_EmptySet, PipelineSets
<1>7. CASE line.ref = NoRef
  <2>1. Pipeline!Resolution(line, revision)
          = [status |-> "not_required", revision |-> 0, candidates |-> {}]
    BY <1>7, ResolutionCases
  <2>. QED
    BY <1>2, <1>5, <1>7, <2>1 DEF Pipeline!Admissible
<1>8. CASE line.ref # NoRef
  <2>1. PICK res : res = Pipeline!Resolution(line, revision)
    OBVIOUS
  <2>2. /\ res.revision = revision /\ res.candidates = known
        /\ \/ res.status = "unresolved" /\ known = {}
           \/ res.status = "resolved" /\ Pipeline!Cardinality(known) = 1
           \/ res.status = "ambiguous" /\ Pipeline!Cardinality(known) >= 2
    BY <1>2, <1>6, <1>8, <2>1 DEF Pipeline!Resolution
  <2>3. Pipeline!Admissible(line, res)
    BY <1>3, <1>4, <1>8, <2>2 DEF Pipeline!Admissible
  <2>. QED
    BY <1>2, <2>1, <2>3
<1>. QED
  BY <1>7, <1>8

(* An execution books its batch as one step of the ledger, or nothing.     *)
LEMMA ExecutionBinds ==
  ASSUME Pipeline!PipelineConstants, Pipeline!Inv, [Pipeline!Next]_(Pipeline!vars)
  PROVE  [Pipeline!Ledger!Next]_bound
<1>1. SUFFICES ASSUME bound' # bound PROVE Pipeline!Ledger!Next
  OBVIOUS
<1>2. PICK f \in Files : Pipeline!Execute(f)
  BY <1>1 DEF Pipeline!Next, Pipeline!Replace, Pipeline!vars
<1>3. /\ Pipeline!Canonical(f) /\ ~ Pipeline!Stops(f, revision)
      /\ Pipeline!Plans(f, revision) # <<>>
      /\ Pipeline!Ledger!Bind(Pipeline!Plans(f, revision))
  BY <1>1, <1>2 DEF Pipeline!Execute
<1>4. /\ <<f, revision>> \in Pipeline!Readable \X Pipeline!Revisions
      /\ Pipeline!FullyResolved(f, revision)
      /\ Pipeline!Ready(f) # {}
  BY <1>3, PlansFacts DEF Pipeline!Readable, Pipeline!Stops, Pipeline!Inv
<1>. QED
  BY <1>3, <1>4 DEF Pipeline!Ledger!Next

-----------------------------------------------------------------------------
(* PortfolioSnapshots: a query that reads page by page while others write. *)

LEMMA SnapshotSets ==
  /\ \A S : Snapshots!Cardinality(S) = Cardinality(S)
  /\ \A S : Snapshots!IsFiniteSet(S) <=> IsFiniteSet(S)
  BY DEF Snapshots!Cardinality, Cardinality, Snapshots!IsFiniteSet, IsFiniteSet

(* The table can be ordered, for ids tell rows of one time apart.          *)
LEMMA OrderedLists ==
  ASSUME Snapshots!LedgerOK, now \in Nat
  PROVE  /\ Cardinality(committed) \in Nat
         /\ Snapshots!Ordered(committed) \in [1 .. Cardinality(committed) -> committed]
<1>1. /\ IsFiniteSet(committed)
      /\ \A t \in committed : t.id \in Nat /\ t.recorded \in Nat
      /\ \A t, u \in committed : t.id = u.id => t = u
  BY SnapshotSets DEF Snapshots!LedgerOK
<1>2. PICK less : less = {p \in committed \X committed : Snapshots!Earlier(p[1], p[2])}
  OBVIOUS
<1>3. \A t, u \in committed : <<t, u>> \in less <=> Snapshots!Earlier(t, u)
  BY <1>2
<1>4. PICK f : Commits!Lists(f, committed, less)
  <2>1. less \in SUBSET (committed \X committed)
    BY <1>2
  <2>2. \A t \in committed : <<t, t>> \notin less
    BY <1>1, <1>3 DEF Snapshots!Earlier
  <2>3. \A t, u, v \in committed : <<t, u>> \in less /\ <<u, v>> \in less => <<t, v>> \in less
    BY <1>1, <1>3 DEF Snapshots!Earlier
  <2>4. \A t, u \in committed : t # u => <<t, u>> \in less \/ <<u, t>> \in less
    BY <1>1, <1>3 DEF Snapshots!Earlier
  <2>. QED
    BY <1>1, <2>1, <2>2, <2>3, <2>4, SortedListExists
<1>5. /\ f \in [1 .. Cardinality(committed) -> committed]
      /\ \A i, j \in 1 .. Cardinality(committed) : i < j => <<f[i], f[j]>> \in less
  BY <1>4, CommitSets DEF Commits!Lists
<1>6. \A i, j \in DOMAIN f : i < j => Snapshots!Earlier(f[i], f[j])
  BY <1>3, <1>5
<1>7. Snapshots!Ordered(committed)
        = CHOOSE s \in [1 .. Cardinality(committed) -> committed] :
            \A i, j \in DOMAIN s : i < j => Snapshots!Earlier(s[i], s[j])
  BY SnapshotSets DEF Snapshots!Ordered
<1>8. Snapshots!Ordered(committed) \in [1 .. Cardinality(committed) -> committed]
  BY <1>5, <1>6, <1>7
<1>. QED
  BY <1>1, <1>8, FS_CardinalityType

(* A page holds rows, and none is left when it is empty.                   *)
LEMMA PageFacts ==
  ASSUME Snapshots!SnapshotConstants, Snapshots!LedgerOK, now \in Nat, NEW offset \in Nat
  PROVE  /\ Snapshots!Page(committed, offset) \in Seq(committed)
         /\ Snapshots!Page(committed, offset) = <<>> => Cardinality(committed) <= offset
<1>1. PICK n, s : n = Cardinality(committed) /\ s = Snapshots!Ordered(committed)
  OBVIOUS
<1>2. n \in Nat /\ s \in Seq(committed) /\ Len(s) = n
  BY <1>1, OrderedLists
<1>3. PICK m : m = Snapshots!Min({offset + PageSize, Snapshots!Cardinality(committed)})
  OBVIOUS
<1>4. PageSize \in Nat /\ PageSize # 0
  BY DEF Snapshots!SnapshotConstants
<1>5. m \in {offset + PageSize, n} /\ m <= offset + PageSize /\ m <= n
  <2>1. m = CHOOSE x \in {offset + PageSize, n} : \A y \in {offset + PageSize, n} : x <= y
    BY <1>1, <1>3, SnapshotSets DEF Snapshots!Min
  <2>2. \E x \in {offset + PageSize, n} : \A y \in {offset + PageSize, n} : x <= y
    BY <1>2, <1>4
  <2>. QED
    BY <2>1, <2>2
<1>6. Snapshots!Page(committed, offset) = SubSeq(s, offset + 1, m)
  BY <1>1, <1>3 DEF Snapshots!Page
<1>7. CASE offset + 1 <= m
  <2>1. SubSeq(s, offset + 1, m) = [i \in 1 .. (m - offset) |-> s[i + offset]]
    BY <1>2, <1>4, <1>5, <1>7
  <2>2. \A i \in 1 .. (m - offset) : s[i + offset] \in committed
    BY <1>2, <1>4, <1>5, <1>7
  <2>3. SubSeq(s, offset + 1, m) \in Seq(committed) /\ Len(SubSeq(s, offset + 1, m)) = m - offset
    BY <1>2, <1>4, <1>5, <1>7, <2>1, <2>2
  <2>. QED
    BY <1>2, <1>4, <1>5, <1>6, <1>7, <2>3
<1>8. CASE ~ (offset + 1 <= m)
  <2>1. n <= offset
    BY <1>2, <1>4, <1>5, <1>8
  <2>2. SubSeq(s, offset + 1, m) = <<>>
    BY <1>2, <1>4, <1>5, <1>8, SubSeqEmpty
  <2>3. Snapshots!Page(committed, offset) = <<>>
    BY <1>6, <2>2
  <2>4. <<>> \in Seq(committed)
    OBVIOUS
  <2>. QED
    BY <1>1, <2>1, <2>3, <2>4, Zenon
<1>. QED
  BY <1>7, <1>8

(* What a snapshot is, and why it is refused.                              *)
LEMMA SnapshotFacts ==
  ASSUME NEW rs, NEW time
  PROVE  LET s == Snapshots!Snapshot(rs, time) IN
         /\ s.known = Snapshots!KnownIn({rs[i] : i \in DOMAIN rs}, time)
         /\ s.error = "DUPLICATE" <=> Snapshots!HasDuplicates(rs)
         /\ s.error = "UNRESOLVED_REVERSAL" => \E R \in s.known : Snapshots!Unresolved(s.known, R)
<1>1. PICK s : s = Snapshots!Snapshot(rs, time)
  OBVIOUS
<1>2. PICK K : K = Snapshots!KnownIn({rs[i] : i \in DOMAIN rs}, time)
  OBVIOUS
<1>3. s.known = K
  BY <1>1, <1>2 DEF Snapshots!Snapshot
<1>4. PICK trouble \in {"SHORT_POSITION", "OVERDRAFT", "NONE"} :
        s.error = CASE Snapshots!HasDuplicates(rs) -> "DUPLICATE"
                    [] ~Snapshots!HasDuplicates(rs) /\ (\E R \in K : Snapshots!Unresolved(K, R)) ->
                         "UNRESOLVED_REVERSAL"
                    [] OTHER -> trouble
  BY <1>1, <1>2 DEF Snapshots!Snapshot
<1>5. CASE Snapshots!HasDuplicates(rs)
  BY <1>1, <1>2, <1>3, <1>4, <1>5
<1>6. CASE ~Snapshots!HasDuplicates(rs) /\ (\E R \in K : Snapshots!Unresolved(K, R))
  BY <1>1, <1>2, <1>3, <1>4, <1>6
<1>7. CASE ~Snapshots!HasDuplicates(rs) /\ ~(\E R \in K : Snapshots!Unresolved(K, R))
  BY <1>1, <1>2, <1>3, <1>4, <1>7
<1>. QED
  BY <1>5, <1>6, <1>7

LEMMA NothingListed ==
  /\ Snapshots!NoSnapshot.error = "NONE" /\ Snapshots!NoSnapshot.known = {}
<1>1. {<<>>[i] : i \in DOMAIN <<>>} = {}
  OBVIOUS
<1>2. Snapshots!NoSnapshot.known = {}
  BY <1>1, SnapshotFacts DEF Snapshots!NoSnapshot, Snapshots!KnownIn
<1>3. ~ Snapshots!HasDuplicates(<<>>)
  BY DEF Snapshots!HasDuplicates
<1>4. Snapshots!PositionKeys({}) = {} /\ Snapshots!CashKeys({}) = {}
  BY DEF Snapshots!PositionKeys, Snapshots!CashKeys
<1>5. ~ Snapshots!Negative(Snapshots!Positions({})) /\ ~ Snapshots!Negative(Snapshots!Cash({}))
  BY <1>4 DEF Snapshots!Negative, Snapshots!Positions, Snapshots!Cash
<1>6. Snapshots!KnownIn({<<>>[i] : i \in DOMAIN <<>>}, 0) = {} /\ Snapshots!ActiveIn({}) = {}
  BY <1>1 DEF Snapshots!KnownIn, Snapshots!ActiveIn
<1>. QED
  BY <1>2, <1>3, <1>5, <1>6 DEF Snapshots!NoSnapshot, Snapshots!Snapshot

(* A listing without duplicates that is as long as the table is the table. *)
LEMMA ListIsComplete ==
  ASSUME Snapshots!LedgerOK, list \in Seq(committed),
         ~ Snapshots!HasDuplicates(list), Cardinality(committed) <= Len(list)
  PROVE  {list[i] : i \in DOMAIN list} = committed
<1>1. PICK n : n = Len(list)
  OBVIOUS
<1>2. n \in Nat /\ DOMAIN list = 1 .. n /\ list \in [1 .. n -> committed]
  BY <1>1
<1>3. IsFiniteSet(committed) /\ Cardinality(committed) \in Nat /\ Cardinality(committed) <= n
  BY <1>1, SnapshotSets, FS_CardinalityType DEF Snapshots!LedgerOK
<1>4. \A i, j \in 1 .. n : list[i] = list[j] => i = j
  BY <1>2 DEF Snapshots!HasDuplicates
<1>5. list \in Injection(1 .. n, committed)
  BY <1>2, <1>4 DEF Injection, IsInjective
<1>6. IsFiniteSet(1 .. n) /\ Cardinality(1 .. n) = n
  BY <1>2, FS_Interval
<1>7. Cardinality(1 .. n) <= Cardinality(committed)
  BY <1>3, <1>5, FS_Injection
<1>8. Cardinality(1 .. n) = Cardinality(committed)
  BY <1>2, <1>3, <1>6, <1>7
<1>9. list \in Surjection(1 .. n, committed)
  BY <1>3, <1>5, <1>8, FS_Injection
<1>. QED
  BY <1>2, <1>9 DEF Surjection

(* A duplicate is a row that was read twice.                               *)
LEMMA DuplicatesAreRepeats ==
  ASSUME Snapshots!LedgerOK, list \in Seq(committed), Snapshots!HasDuplicates(list)
  PROVE  Len(list) > Snapshots!Cardinality(Snapshots!ToSet(list))
<1>1. PICK n : n = Len(list)
  OBVIOUS
<1>2. n \in Nat /\ DOMAIN list = 1 .. n /\ list \in [1 .. n -> committed]
  BY <1>1
<1>3. PICK S : S = {list[i] : i \in 1 .. n}
  OBVIOUS
<1>4. list \in Surjection(1 .. n, S)
  BY <1>2, <1>3 DEF Surjection
<1>5. PICK i \in 1 .. n, j \in 1 .. n :
        /\ i # j
        /\ \/ list[i].id = list[j].id
           \/ Snapshots!Ledger!SameExternal(list[i], list[j])
  BY <1>2 DEF Snapshots!HasDuplicates, Snapshots!Ledger!SameExternal
<1>6. list[i] \in committed /\ list[j] \in committed
  BY <1>2
<1>7. list[i] = list[j]
  BY <1>5, <1>6 DEF Snapshots!LedgerOK
<1>8. list \notin Injection(1 .. n, S)
  BY <1>5, <1>7 DEF Injection, IsInjective
<1>9. IsFiniteSet(1 .. n) /\ Cardinality(1 .. n) = n
  BY <1>2, FS_Interval
<1>10. /\ IsFiniteSet(S) /\ Cardinality(S) <= Cardinality(1 .. n)
       /\ Cardinality(S) # Cardinality(1 .. n)
  BY <1>4, <1>8, <1>9, FS_Surjection
<1>11. Cardinality(S) \in Nat
  BY <1>10, FS_CardinalityType
<1>12. Snapshots!ToSet(list) = S
  BY <1>2, <1>3 DEF Snapshots!ToSet
<1>. QED
  BY <1>1, <1>2, <1>9, <1>10, <1>11, <1>12, SnapshotSets

(* What a query that is not refused as corrupt has missed, at the moment   *)
(* it read the last page.                                                  *)
LEMMA ProjectionIsOfTable ==
  ASSUME Snapshots!LedgerOK, list \in Seq(committed), Cardinality(committed) <= Len(list),
         NEW s, s = Snapshots!Snapshot(list, cutoff)
  PROVE  /\ s.error # "DUPLICATE" => s.known = Snapshots!KnownIn(committed, cutoff)
         /\ s.error = "UNRESOLVED_REVERSAL" =>
              \E R, t \in committed :
                Snapshots!Reverses(R, t) /\ R.recorded <= cutoff /\ ~ (t.recorded <= cutoff)
<1>1. s.error # "DUPLICATE" => s.known = Snapshots!KnownIn(committed, cutoff)
  <2>1. SUFFICES ASSUME s.error # "DUPLICATE"
                 PROVE  s.known = Snapshots!KnownIn(committed, cutoff)
    OBVIOUS
  <2>2. ~ Snapshots!HasDuplicates(list)
    BY <2>1, SnapshotFacts
  <2>3. {list[i] : i \in DOMAIN list} = committed
    BY <2>2, ListIsComplete
  <2>. QED
    BY <2>3, SnapshotFacts
<1>2. ASSUME s.error = "UNRESOLVED_REVERSAL"
      PROVE  \E R, t \in committed :
                Snapshots!Reverses(R, t) /\ R.recorded <= cutoff /\ ~ (t.recorded <= cutoff)
  <2>1. s.known = Snapshots!KnownIn(committed, cutoff)
    BY <1>1, <1>2
  <2>2. PICK R \in s.known : Snapshots!Unresolved(s.known, R)
    BY <1>2, SnapshotFacts
  <2>3. /\ R \in committed /\ R.recorded <= cutoff
        /\ R.event.type = "REVERSAL"
    BY <2>1, <2>2 DEF Snapshots!KnownIn, Snapshots!Unresolved
  <2>4. PICK t \in committed : t.id = R.reverses /\ t.account = R.account
                             /\ t.event.type # "REVERSAL"
    BY <2>3 DEF Snapshots!LedgerOK, Snapshots!Ledger!IsReversal, Snapshots!Ledger!TargetFits,
       Snapshots!Ledger!WithId
  <2>5. ~ \E S \in s.known \ {R} : S.event.type = "REVERSAL" /\ S.reverses = R.reverses
    BY <2>1, <2>3 DEF Snapshots!LedgerOK, Snapshots!Ledger!IsReversal, Snapshots!KnownIn
  <2>6. t \notin s.known
    BY <2>2, <2>3, <2>4, <2>5 DEF Snapshots!Unresolved, Snapshots!Reverses
  <2>7. ~ (t.recorded <= cutoff)
    BY <2>1, <2>4, <2>6 DEF Snapshots!KnownIn
  <2>. QED
    BY <2>3, <2>4, <2>7 DEF Snapshots!Reverses
<1>. QED
  BY <1>1, <1>2

-----------------------------------------------------------------------------
(* Every step keeps the invariant.                                         *)

LEMMA SnapshotsInit == ASSUME Snapshots!SnapshotConstants, Snapshots!Init PROVE Snapshots!Inv
<1>1. /\ committed = {} /\ inFlight = {} /\ now = 0 /\ stage = "idle" /\ cutoff = 0 /\ list = <<>>
      /\ seen = [writers |-> {}, time |-> 0] /\ snapshot = Snapshots!NoSnapshot
  BY DEF Snapshots!Init, Snapshots!ObservedNow
<1>2. Snapshots!LedgerOK
  BY <1>1, SnapshotSets, FS_EmptySet DEF Snapshots!LedgerOK
<1>3. Snapshots!QueryOK
  BY <1>1 DEF Snapshots!QueryOK
<1>4. Snapshots!TargetStampedLater
  BY <1>1, NothingListed DEF Snapshots!TargetStampedLater
<1>. QED
  BY <1>1, <1>2, <1>3, <1>4 DEF Snapshots!Inv, Snapshots!WritersSeen,
     Snapshots!MissesOnlyUncommitted, Snapshots!SnapshotConstants

(* The table has grown by a row at most; what a query missed it may have   *)
(* been committing.                                                        *)
LEMMA QueryStands ==
  ASSUME Snapshots!Inv, now' \in Nat, now <= now', Snapshots!LedgerOK',
         UNCHANGED <<stage, cutoff, list, snapshot, seen>>,
         NEW added \in SUBSET inFlight, committed' = committed \cup added
  PROVE  /\ Snapshots!QueryOK' /\ Snapshots!MissesOnlyUncommitted'
         /\ Snapshots!TargetStampedLater'
<1>. now \in Nat /\ Snapshots!QueryOK /\ Snapshots!WritersSeen
  BY DEF Snapshots!Inv
<1>1. list \in Seq(committed')
  BY DEF Snapshots!QueryOK
<1>2. cutoff' \in 0 .. now' /\ seen'.time \in 0 .. now'
  BY DEF Snapshots!QueryOK
<1>3. Snapshots!QueryOK'
  BY <1>1, <1>2 DEF Snapshots!QueryOK, Snapshots!NoSnapshot
<1>4. Snapshots!MissesOnlyUncommitted'
  BY DEF Snapshots!Inv, Snapshots!MissesOnlyUncommitted, Snapshots!WritersSeen
<1>5. Snapshots!TargetStampedLater'
  BY DEF Snapshots!Inv, Snapshots!TargetStampedLater
<1>. QED
  BY <1>3, <1>4, <1>5

LEMMA TickStep == ASSUME Snapshots!SnapshotConstants, Snapshots!Inv, Snapshots!Tick
                  PROVE  Snapshots!Inv'
<1>1. /\ now \in Nat /\ now' = now + 1 /\ now' \in 0 .. MaxTime
      /\ UNCHANGED <<committed, inFlight, stage, cutoff, list, snapshot, seen>>
  BY DEF Snapshots!Tick, Snapshots!Inv, Snapshots!query, Snapshots!SnapshotConstants
<1>2. Snapshots!LedgerOK'
  BY <1>1 DEF Snapshots!Inv, Snapshots!LedgerOK
<1>3. Snapshots!QueryOK' /\ Snapshots!MissesOnlyUncommitted' /\ Snapshots!TargetStampedLater'
  <2>1. {} \in SUBSET inFlight /\ committed' = committed \cup {} /\ now' \in Nat /\ now <= now'
    BY <1>1
  <2>. QED
    BY <1>1, <1>2, <2>1, QueryStands
<1>4. Snapshots!WritersSeen'
  BY <1>1 DEF Snapshots!Inv, Snapshots!WritersSeen
<1>. QED
  BY <1>1, <1>2, <1>3, <1>4 DEF Snapshots!Inv

LEMMA BeginStep ==
  ASSUME Snapshots!SnapshotConstants, Snapshots!Inv, NEW t \in Entries, Snapshots!BeginAppend(t)
  PROVE  Snapshots!Inv'
<1>1. PICK u : u = Snapshots!Ledger!Stamped(t, now)
  OBVIOUS
<1>2. u.id = t.id /\ u.id \in Nat /\ u.recorded = now /\ now \in Nat
  BY <1>1 DEF Snapshots!Ledger!Stamped, Snapshots!SnapshotConstants, Snapshots!Inv
<1>3. /\ inFlight' = inFlight \cup {u}
      /\ UNCHANGED <<committed, now, stage, cutoff, list, snapshot, seen>>
      /\ \A v \in committed \cup inFlight : v.id # u.id
  BY <1>1, <1>2 DEF Snapshots!BeginAppend, Snapshots!query
<1>4. Snapshots!LedgerOK'
  BY <1>2, <1>3 DEF Snapshots!Inv, Snapshots!LedgerOK
<1>5. Snapshots!QueryOK' /\ Snapshots!MissesOnlyUncommitted' /\ Snapshots!TargetStampedLater'
  <2>1. {} \in SUBSET inFlight /\ committed' = committed \cup {} /\ now' \in Nat /\ now <= now'
    BY <1>2, <1>3
  <2>. QED
    BY <1>3, <1>4, <2>1, QueryStands
<1>6. Snapshots!WritersSeen'
  <2>1. seen.time \in 0 .. now
    BY DEF Snapshots!Inv, Snapshots!QueryOK
  <2>. QED
    BY <1>2, <1>3, <2>1 DEF Snapshots!Inv, Snapshots!WritersSeen
<1>. QED
  BY <1>3, <1>4, <1>5, <1>6 DEF Snapshots!Inv

LEMMA CommitStep ==
  ASSUME Snapshots!SnapshotConstants, Snapshots!Inv, NEW t \in inFlight, Snapshots!CommitAppend(t)
  PROVE  Snapshots!Inv'
<1>1. /\ committed' = committed \cup {t} /\ inFlight' = inFlight \ {t}
      /\ UNCHANGED <<now, stage, cutoff, list, snapshot, seen>> /\ now \in Nat
  BY DEF Snapshots!CommitAppend, Snapshots!Ledger!Append, Snapshots!query, Snapshots!Inv
<1>2. Snapshots!Ledger!Answer(committed, t).status = "APPENDED"
  BY DEF Snapshots!CommitAppend, Snapshots!Ledger!Append
<1>3. /\ Snapshots!Ledger!WithId(committed, t.id) = {}
      /\ Snapshots!Ledger!WithExternal(committed, t) = {}
      /\ Snapshots!Ledger!IsReversal(t) => Snapshots!Ledger!Reversible(committed, t)
  <2>1. \A u : Snapshots!Ledger!Compared(t, u).status # "APPENDED"
    BY DEF Snapshots!Ledger!Compared
  <2>2. Snapshots!Ledger!WithId(committed, t.id) = {}
    BY <1>2, <2>1 DEF Snapshots!Ledger!Answer
  <2>3. Snapshots!Ledger!WithExternal(committed, t) = {}
    BY <1>2, <2>1, <2>2 DEF Snapshots!Ledger!Answer
  <2>. QED
    BY <1>2, <2>2, <2>3 DEF Snapshots!Ledger!Answer
<1>4. Snapshots!LedgerOK'
  <2>1. Snapshots!IsFiniteSet(committed')
    BY <1>1, SnapshotSets, FS_AddElement DEF Snapshots!Inv, Snapshots!LedgerOK
  <2>2. /\ \A u \in (committed \cup inFlight)' : u.id \in Nat /\ u.recorded \in 0 .. now'
        /\ \A u, v \in (committed \cup inFlight)' : u.id = v.id => u = v
    BY <1>1 DEF Snapshots!Inv, Snapshots!LedgerOK
  <2>3. \A u, v \in committed' : Snapshots!Ledger!SameExternal(u, v) => u = v
    BY <1>1, <1>3 DEF Snapshots!Inv, Snapshots!LedgerOK, Snapshots!Ledger!SameExternal,
       Snapshots!Ledger!WithExternal
  <2>4. \A R \in committed' : Snapshots!Ledger!IsReversal(R) =>
                               Snapshots!Ledger!TargetFits(committed', R)
    BY <1>1, <1>3 DEF Snapshots!Inv, Snapshots!LedgerOK, Snapshots!Ledger!TargetFits,
       Snapshots!Ledger!WithId, Snapshots!Ledger!Reversible
  <2>5. \A R, S \in committed' :
          Snapshots!Ledger!IsReversal(R) /\ Snapshots!Ledger!IsReversal(S)
            /\ R.reverses = S.reverses => R = S
    BY <1>1, <1>3 DEF Snapshots!Inv, Snapshots!LedgerOK, Snapshots!Ledger!Reversible,
       Snapshots!Ledger!ReversalsOf
  <2>. QED
    BY <2>1, <2>2, <2>3, <2>4, <2>5 DEF Snapshots!LedgerOK, Snapshots!Ledger!SameExternal,
       Snapshots!Ledger!IsReversal, Snapshots!Ledger!TargetFits, Snapshots!Ledger!WithId
<1>5. Snapshots!QueryOK' /\ Snapshots!MissesOnlyUncommitted' /\ Snapshots!TargetStampedLater'
  <2>1. {t} \in SUBSET inFlight /\ now' \in Nat /\ now <= now'
    BY <1>1
  <2>. QED
    BY <1>1, <1>4, <2>1, QueryStands
<1>6. Snapshots!WritersSeen'
  BY <1>1 DEF Snapshots!Inv, Snapshots!WritersSeen
<1>. QED
  BY <1>1, <1>4, <1>5, <1>6 DEF Snapshots!Inv

LEMMA AbandonStep ==
  ASSUME Snapshots!SnapshotConstants, Snapshots!Inv, NEW t \in inFlight, Snapshots!AbandonAppend(t)
  PROVE  Snapshots!Inv'
<1>1. /\ inFlight' = inFlight \ {t} /\ now \in Nat
      /\ UNCHANGED <<committed, now, stage, cutoff, list, snapshot, seen>>
  BY DEF Snapshots!AbandonAppend, Snapshots!query, Snapshots!Inv
<1>2. Snapshots!LedgerOK'
  BY <1>1 DEF Snapshots!Inv, Snapshots!LedgerOK
<1>3. Snapshots!QueryOK' /\ Snapshots!MissesOnlyUncommitted' /\ Snapshots!TargetStampedLater'
  <2>1. {} \in SUBSET inFlight /\ committed' = committed \cup {} /\ now' \in Nat /\ now <= now'
    BY <1>1
  <2>. QED
    BY <1>1, <1>2, <2>1, QueryStands
<1>4. Snapshots!WritersSeen'
  BY <1>1 DEF Snapshots!Inv, Snapshots!WritersSeen
<1>. QED
  BY <1>1, <1>2, <1>3, <1>4 DEF Snapshots!Inv

LEMMA StartStep ==
  ASSUME Snapshots!SnapshotConstants, Snapshots!Inv, NEW time \in 0 .. now,
         Snapshots!StartQuery(time)
  PROVE  Snapshots!Inv'
<1>1. /\ stage = "idle" /\ stage' = "listing" /\ cutoff' = time /\ now \in Nat
      /\ UNCHANGED <<committed, inFlight, now, list, snapshot, seen>>
  BY DEF Snapshots!StartQuery, Snapshots!Inv
<1>2. snapshot' = Snapshots!NoSnapshot
  BY <1>1 DEF Snapshots!Inv, Snapshots!QueryOK
<1>3. Snapshots!LedgerOK'
  BY <1>1 DEF Snapshots!Inv, Snapshots!LedgerOK
<1>4. Snapshots!QueryOK'
  BY <1>1, <1>2 DEF Snapshots!Inv, Snapshots!QueryOK, Snapshots!NoSnapshot
<1>5. Snapshots!WritersSeen' /\ Snapshots!MissesOnlyUncommitted'
  BY <1>1 DEF Snapshots!Inv, Snapshots!WritersSeen, Snapshots!MissesOnlyUncommitted
<1>6. Snapshots!TargetStampedLater'
  BY <1>2, NothingListed DEF Snapshots!TargetStampedLater
<1>. QED
  BY <1>1, <1>3, <1>4, <1>5, <1>6 DEF Snapshots!Inv

LEMMA ReadStep ==
  ASSUME Snapshots!SnapshotConstants, Snapshots!Inv, Snapshots!ReadPage
  PROVE  Snapshots!Inv'
<1>. Snapshots!LedgerOK /\ Snapshots!QueryOK /\ Snapshots!WritersSeen /\ now \in Nat
  BY DEF Snapshots!Inv
<1>1. PICK page : page = Snapshots!Page(committed, Len(list))
  OBVIOUS
<1>2. /\ stage = "listing" /\ list' = list \o page
      /\ UNCHANGED <<committed, inFlight, now, cutoff>>
      /\ IF page # <<>> THEN UNCHANGED <<stage, snapshot, seen>>
         ELSE /\ stage' = "projected" /\ snapshot' = Snapshots!Snapshot(list, cutoff)
              /\ seen' = [writers |-> inFlight, time |-> now]
  BY <1>1 DEF Snapshots!ReadPage, Snapshots!ObservedNow
<1>3. list \in Seq(committed) /\ Len(list) \in Nat
  BY DEF Snapshots!QueryOK
<1>4. page \in Seq(committed) /\ (page = <<>> => Cardinality(committed) <= Len(list))
  BY <1>1, <1>3, PageFacts
<1>5. list' \in Seq(committed)
  BY <1>2, <1>3, <1>4
<1>6. Snapshots!LedgerOK'
  BY <1>2 DEF Snapshots!LedgerOK
<1>7. CASE page # <<>>
  <2>1. UNCHANGED <<stage, snapshot, seen>>
    BY <1>2, <1>7
  <2>2. Snapshots!QueryOK'
    BY <1>2, <1>5, <2>1 DEF Snapshots!QueryOK, Snapshots!NoSnapshot
  <2>3. Snapshots!WritersSeen' /\ Snapshots!MissesOnlyUncommitted' /\ Snapshots!TargetStampedLater'
    BY <1>2, <2>1 DEF Snapshots!Inv, Snapshots!WritersSeen, Snapshots!MissesOnlyUncommitted,
       Snapshots!TargetStampedLater
  <2>. QED
    BY <1>2, <1>6, <2>2, <2>3 DEF Snapshots!Inv
<1>8. CASE page = <<>>
  <2>1. /\ stage' = "projected" /\ snapshot' = Snapshots!Snapshot(list, cutoff)
        /\ seen' = [writers |-> inFlight, time |-> now] /\ list' = list
    BY <1>2, <1>3, <1>8
  <2>2. Snapshots!QueryOK'
    BY <1>2, <1>5, <2>1 DEF Snapshots!QueryOK, Snapshots!NoSnapshot
  <2>3. Snapshots!WritersSeen'
    BY <1>2, <2>1 DEF Snapshots!WritersSeen
  <2>4. /\ snapshot'.error # "DUPLICATE" => snapshot'.known = Snapshots!KnownIn(committed, cutoff)
        /\ snapshot'.error = "UNRESOLVED_REVERSAL" =>
             \E R, t \in committed :
               Snapshots!Reverses(R, t) /\ R.recorded <= cutoff /\ ~ (t.recorded <= cutoff)
    BY <1>3, <1>4, <1>8, <2>1, ProjectionIsOfTable
  <2>5. cutoff \in Nat /\ \A t \in committed : t.recorded \in Nat
    BY DEF Snapshots!QueryOK, Snapshots!LedgerOK
  <2>6. Snapshots!MissesOnlyUncommitted'
    <3>1. SUFFICES ASSUME snapshot'.error # "DUPLICATE", NEW t \in committed,
                          t \notin snapshot'.known
                   PROVE  t.recorded > cutoff
      BY <1>2 DEF Snapshots!MissesOnlyUncommitted
    <3>2. ~ (t.recorded <= cutoff)
      BY <2>4, <3>1 DEF Snapshots!KnownIn
    <3>. QED
      BY <2>5, <3>1, <3>2
  <2>7. Snapshots!TargetStampedLater'
    <3>1. SUFFICES ASSUME snapshot'.error = "UNRESOLVED_REVERSAL"
                   PROVE  \E R, t \in committed : Snapshots!Reverses(R, t)
                            /\ R.recorded <= cutoff /\ cutoff < t.recorded
      BY <1>2 DEF Snapshots!TargetStampedLater
    <3>2. PICK R \in committed, t \in committed :
            Snapshots!Reverses(R, t) /\ R.recorded <= cutoff /\ ~ (t.recorded <= cutoff)
      BY <2>4, <3>1
    <3>3. cutoff < t.recorded
      BY <2>5, <3>2
    <3>. QED
      BY <3>2, <3>3
  <2>. QED
    BY <1>2, <1>6, <2>2, <2>3, <2>6, <2>7 DEF Snapshots!Inv
<1>. QED
  BY <1>7, <1>8

LEMMA VerifyStep ==
  ASSUME Snapshots!SnapshotConstants, Snapshots!Inv, Snapshots!VerifyCoverage
  PROVE  Snapshots!Inv'
<1>. Snapshots!LedgerOK /\ Snapshots!QueryOK /\ now \in Nat
  BY DEF Snapshots!Inv
<1>1. /\ stage = "projected" /\ stage' \in {"verified", "mismatch"}
      /\ stage' = "verified" => Snapshots!KnownIn(committed, cutoff) = snapshot.known
      /\ seen' = [writers |-> inFlight, time |-> now]
      /\ UNCHANGED <<committed, inFlight, now, cutoff, list, snapshot>>
  BY DEF Snapshots!VerifyCoverage, Snapshots!ObservedNow, Snapshots!Covered
<1>2. Snapshots!LedgerOK'
  BY <1>1 DEF Snapshots!LedgerOK
<1>3. Snapshots!QueryOK'
  BY <1>1 DEF Snapshots!QueryOK, Snapshots!NoSnapshot
<1>4. Snapshots!WritersSeen' /\ Snapshots!TargetStampedLater'
  BY <1>1 DEF Snapshots!Inv, Snapshots!WritersSeen, Snapshots!TargetStampedLater
<1>5. Snapshots!MissesOnlyUncommitted'
  <2>1. SUFFICES ASSUME stage' = "verified", NEW t \in committed, t \notin snapshot.known
                 PROVE  t.recorded > cutoff
    BY <1>1 DEF Snapshots!MissesOnlyUncommitted
  <2>2. t.recorded \in Nat /\ cutoff \in Nat
    BY DEF Snapshots!LedgerOK, Snapshots!QueryOK
  <2>. QED
    BY <1>1, <2>1, <2>2 DEF Snapshots!KnownIn
<1>. QED
  BY <1>1, <1>2, <1>3, <1>4, <1>5 DEF Snapshots!Inv

LEMMA SnapshotsStep ==
  ASSUME Snapshots!SnapshotConstants, Snapshots!Inv, [Snapshots!Next]_(Snapshots!vars)
  PROVE  Snapshots!Inv'
<1>1. CASE Snapshots!Next
  BY <1>1, TickStep, BeginStep, CommitStep, AbandonStep, StartStep, ReadStep, VerifyStep
     DEF Snapshots!Next
<1>2. CASE UNCHANGED Snapshots!vars
  <2>1. UNCHANGED <<committed, inFlight, now, stage, cutoff, list, snapshot, seen>>
    BY <1>2 DEF Snapshots!vars
  <2>. QED
    BY <2>1 DEF Snapshots!Inv, Snapshots!LedgerOK, Snapshots!QueryOK, Snapshots!WritersSeen,
       Snapshots!MissesOnlyUncommitted, Snapshots!TargetStampedLater, Snapshots!NoSnapshot
<1>. QED
  BY <1>1, <1>2

-----------------------------------------------------------------------------
(* What the invariant says of the properties.                              *)

LEMMA ReversedIsUndone == ASSUME Snapshots!LedgerOK PROVE Snapshots!ReversalUndoes
<1>1. SUFFICES ASSUME NEW R \in committed, NEW t \in committed, Snapshots!Reverses(R, t)
               PROVE  Snapshots!ActiveIn(committed) = Snapshots!ActiveIn(committed \ {R, t})
  BY DEF Snapshots!ReversalUndoes
<1>2. R.event.type = "REVERSAL" /\ R.reverses = t.id
  BY <1>1 DEF Snapshots!Reverses
<1>3. t.event.type # "REVERSAL"
  BY <1>1, <1>2 DEF Snapshots!LedgerOK, Snapshots!Ledger!IsReversal,
     Snapshots!Ledger!TargetFits, Snapshots!Ledger!WithId
<1>4. \A u \in committed : u.id = t.id => u = t
  BY DEF Snapshots!LedgerOK
<1>. QED
  BY <1>2, <1>3, <1>4 DEF Snapshots!ActiveIn, Snapshots!Reverses

LEMMA SnapshotsInvTrue ==
  ASSUME Snapshots!Inv
  PROVE  /\ Snapshots!TypeOK /\ Snapshots!MissesOnlyUncommitted
         /\ Snapshots!CorruptionHasCause /\ Snapshots!ReversalUndoes
<1>. Snapshots!LedgerOK /\ Snapshots!QueryOK
  BY DEF Snapshots!Inv
<1>1. Snapshots!TypeOK
  <2>1. \A i \in DOMAIN list : list[i] \in committed
    BY DEF Snapshots!QueryOK
  <2>. QED
    BY <2>1 DEF Snapshots!TypeOK, Snapshots!LedgerOK, Snapshots!QueryOK
<1>2. snapshot.error = "DUPLICATE" => Snapshots!HasDuplicates(list)
  BY NothingListed, SnapshotFacts DEF Snapshots!QueryOK
<1>3. Snapshots!CorruptionHasCause
  BY <1>2, DuplicatesAreRepeats DEF Snapshots!CorruptionHasCause, Snapshots!Inv,
     Snapshots!TargetStampedLater, Snapshots!QueryOK
<1>. QED
  BY <1>1, <1>3, ReversedIsUndone DEF Snapshots!Inv

-----------------------------------------------------------------------------
(* All parts: each keeps its invariant, whichever of them a behaviour      *)
(* follows, for the others then stand still.                               *)

PortfolioInv ==
  /\ Commits!Inv /\ Pipeline!Inv /\ Work!Inv /\ Snapshots!Inv /\ RepositoryInv
  /\ part = "shapes" => Pipeline!RowOK(row)

(* A step of the portfolio is a step of one part and no step of the others. *)
LEMMA StepOfEachPart ==
  ASSUME [PortfolioNext]_portfolioVars
  PROVE  /\ [Commits!Next]_(Commits!vars) /\ [Pipeline!Next]_(Pipeline!vars)
         /\ [Work!Next]_(Work!vars) /\ [Snapshots!Next]_(Snapshots!vars)
         /\ [Next]_vars /\ UNCHANGED <<part, row>>
  BY DEF PortfolioNext, portfolioVars, csvVars, fileVars, importVars, snapshotVars,
     workVars, vars, Commits!vars, Pipeline!vars, Work!vars, Work!ledger, Work!session,
     Snapshots!vars

LEMMA ShapesAreRows == ASSUME SomeRow PROVE Pipeline!RowOK(row)
<1>1. ASSUME NEW present \in NearlyRight PROVE present \subseteq Pipeline!Fields
  <2>1. PICK family \in Families, less \in AtMostOne, more \in AtMostOne,
             some \in SUBSET Optional :
          present = (family \ less) \cup more \cup some
    BY <1>1 DEF NearlyRight
  <2>2. /\ family \subseteq Pipeline!Fields /\ more \subseteq Pipeline!Fields
        /\ some \subseteq Pipeline!Fields
    BY <2>1 DEF Families, Optional, AtMostOne, Pipeline!Fields
  <2>. QED
    BY <2>1, <2>2
<1>2. PICK type \in Pipeline!Types, present \in NearlyRight, distinct \in BOOLEAN :
        \E bad \in {{}} \cup {{f} : f \in Pipeline!Amounts \cap present} :
          row = [type |-> type, present |-> present, bad |-> bad, distinct |-> distinct]
  BY DEF SomeRow
<1>. QED
  BY <1>1, <1>2 DEF Pipeline!RowOK

LEMMA PortfolioInvAlways == PortfolioSpec => []PortfolioInv
<1>1. PortfolioInit => PortfolioInv
  <2>. SUFFICES ASSUME PortfolioInit PROVE PortfolioInv
    OBVIOUS
  <2>1. Commits!Inv
    BY CommitAssumption, Commits!InvInit DEF PortfolioInit
  <2>2. Pipeline!Inv
    BY PipelineAssumption, PipelineInvInit DEF PortfolioInit
  <2>3. Work!Inv
    BY AttributionAssumption, Work!InvInit DEF PortfolioInit
  <2>4. RepositoryInv
    BY RepositoryInvInit DEF PortfolioInit
  <2>5. part = "shapes" => Pipeline!RowOK(row)
    BY ShapesAreRows DEF PortfolioInit
  <2>6. Snapshots!Inv
    BY SnapshotAssumption, SnapshotsInit DEF PortfolioInit
  <2>. QED
    BY <2>1, <2>2, <2>3, <2>4, <2>5, <2>6 DEF PortfolioInv
<1>2. PortfolioInv /\ [PortfolioNext]_portfolioVars => PortfolioInv'
  <2>. SUFFICES ASSUME PortfolioInv, [PortfolioNext]_portfolioVars PROVE PortfolioInv'
    OBVIOUS
  <2>1. Commits!Inv'
    BY CommitAssumption, Commits!InvStep, StepOfEachPart DEF PortfolioInv
  <2>2. Pipeline!Inv'
    BY PipelineAssumption, PipelineInvStep, StepOfEachPart DEF PortfolioInv
  <2>3. Work!Inv'
    BY AttributionAssumption, Work!InvStep, StepOfEachPart DEF PortfolioInv
  <2>4. RepositoryInv'
    BY RepositoryInvStep, StepOfEachPart DEF PortfolioInv
  <2>5. (part = "shapes" => Pipeline!RowOK(row))'
    BY StepOfEachPart DEF PortfolioInv, Pipeline!RowOK
  <2>6. Snapshots!Inv'
    BY SnapshotAssumption, SnapshotsStep, StepOfEachPart DEF PortfolioInv
  <2>. QED
    BY <2>1, <2>2, <2>3, <2>4, <2>5, <2>6 DEF PortfolioInv
<1>. QED
  BY <1>1, <1>2, PTL DEF PortfolioSpec

(* A file is booked as a whole or not at all, with sound rows only, through *)
(* any retries, lost answers and replaced resolvers; a conflict names the  *)
(* other resolver; preview and execution agree, and so do the three places *)
(* that say what a transaction carries (sentinax_csv_import_execution.py). *)
THEOREM FilesAreBookedWhole == PortfolioSpec => []FilesAreAllOrNothing
<1>1. PortfolioInv => FilesAreAllOrNothing
  <2>. SUFFICES ASSUME PortfolioInv PROVE FilesAreAllOrNothing
    OBVIOUS
  <2>1. part = "shapes" => RowRulesAgree
    BY RulesAgree DEF PortfolioInv, RowRulesAgree
  <2>2. Pipeline!Inv /\ Pipeline!ConflictHasCause
    BY DEF PortfolioInv, Pipeline!Inv
  <2>. QED
    BY <2>1, <2>2, PipelineAssumption, PipelineInvTypeOK, PipelineInvFiles, PipelineInvSound,
       PipelineInvPreview, PipelineInvStages DEF FilesAreAllOrNothing
<1>. QED
  BY <1>1, PortfolioInvAlways, PTL

(* What an importer is told, and a caller of the ledger, is what the       *)
(* tables say; no transaction is without its binding.                      *)
THEOREM AnswersAlwaysMatchTables == PortfolioSpec => []AnswersMatchTables
<1>1. PortfolioInv => AnswersMatchTables
  BY CommitAssumption, Commits!InvTypeOK, Commits!InvAnswers
     DEF PortfolioInv, AnswersMatchTables, RepositoryInv
<1>. QED
  BY <1>1, PortfolioInvAlways, PTL

(* Sessions wait for each other's rows, of claims, fees and transactions,  *)
(* but never in a circle.                                                  *)
THEOREM NobodyWaitsInACircle == PortfolioSpec => []NoWaitCycle
<1>1. PortfolioInv => NoWaitCycle
  BY CommitAssumption, AttributionAssumption, Commits!InvNoWaitCycle, Work!InvNoWaitCycle
     DEF PortfolioInv, NoWaitCycle
<1>. QED
  BY <1>1, PortfolioInvAlways, PTL

(* A snapshot that is not refused misses only what was being committed     *)
(* when the table was last read, however its pages raced the writers; it   *)
(* is refused as corrupt for a cause, and a reversal undoes its target     *)
(* (repository.py:622-665, projection.py).                                 *)
THEOREM SnapshotsAreAlwaysTrue == PortfolioSpec => []SnapshotsAreTrue
<1>1. PortfolioInv => SnapshotsAreTrue
  BY SnapshotsInvTrue DEF PortfolioInv, SnapshotsAreTrue
<1>. QED
  BY <1>1, PortfolioInvAlways, PTL

(* At no cutoff is more of a fee allocated than it was, nor to what was    *)
(* not active; every view can be read or fails for a cause, and an answer  *)
(* names stored events (migration 021).                                    *)
THEOREM FeesNeverOverAllocated == PortfolioSpec => []NeverOverAllocatedAtAnyCutoff
<1>1. PortfolioInv => NeverOverAllocatedAtAnyCutoff
  BY AttributionAssumption, Work!InvTypeOK, Work!InvFits, Work!InvHistory
     DEF PortfolioInv, NeverOverAllocatedAtAnyCutoff
<1>. QED
  BY <1>1, PortfolioInvAlways, PTL

(* Batches and whole files bind their claims in one step of ImportLedger,  *)
(* and the past of the attributions never changes.                         *)
THEOREM TablesFollowLedgers == PortfolioSpec => TablesImplementLedgers
<1>1. PortfolioInit => Commits!Imports!Init /\ Pipeline!Ledger!Init
  BY DEF PortfolioInit, Commits!Init, Pipeline!Init, Commits!Imports!Init,
     Pipeline!Ledger!Init, Commits!Table, Commits!Joined
<1>2. PortfolioInv /\ [PortfolioNext]_portfolioVars =>
        /\ [Moves("imports", <<transactions, bindings>>) => Commits!Imports!Next]_<<transactions, bindings>>
        /\ [Moves("files", bound) => Pipeline!Ledger!Next]_bound
        /\ [part = "attributions" => Work!SnapshotIsStable]_events
  <2>. SUFFICES ASSUME PortfolioInv, [PortfolioNext]_portfolioVars
                PROVE  /\ [Commits!Imports!Next]_<<transactions, bindings>>
                       /\ [Pipeline!Ledger!Next]_bound
                       /\ Work!SnapshotIsStable
    BY DEF Moves
  <2>1. [Commits!Imports!Next]_<<transactions, bindings>>
    BY CommitAssumption, Commits!StepBinds, StepOfEachPart DEF PortfolioInv
  <2>2. [Pipeline!Ledger!Next]_bound
    BY PipelineAssumption, ExecutionBinds, StepOfEachPart DEF PortfolioInv
  <2>3. Work!SnapshotIsStable
    BY AttributionAssumption, Work!StepIsStable, StepOfEachPart DEF PortfolioInv
  <2>. QED
    BY <2>1, <2>2, <2>3
<1>. QED
  BY <1>1, <1>2, PortfolioInvAlways, PTL DEF PortfolioSpec, TablesImplementLedgers
=============================================================================
