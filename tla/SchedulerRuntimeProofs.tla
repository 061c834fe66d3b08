------------------------ MODULE SchedulerRuntimeProofs ------------------------
(***************************************************************************)
(* Proofs about the runtime and its operators over the store               *)
(* (SchedulerRuntime): any number of workers, operators, runs and          *)
(* abandoned requests, any clocks, any interleaving.  The store's own are  *)
(* in SchedulerRunStore; the last part is about the composition the model  *)
(* checker runs.                                                           *)
(***************************************************************************)
EXTENDS MCScheduler, FiniteSetTheorems, NaturalsInduction, WellFoundedInduction, TLAPS

(* The comparisons of instants are transparent in the proofs below.        *)
USE DEF NotBeforeReached, LeaseCovers, LeaseOver, TakenOver

-----------------------------------------------------------------------------
(* The store seen from the clients.                                        *)

(* A predicted command is one of the RPC's argument tuples.                *)
LEMMA CommandIsSql == Domain!Command \subseteq SqlCommand
  BY DEF Domain!Command, Domain!LeaseCommand, Domain!FinishCommand, SqlCommand,
     Domain!Kinds, Domain!LeaseKinds, Domain!Opt

(* Executing a request is a step of the store, or changes nothing.         *)
LEMMA ExecuteIsStoreStep ==
  ASSUME NEW k \in Call, Execute(k)
  PROVE  [Next]_vars
<1>1. k.admission \in Admissions /\ Run(k) \in Runs
  BY StoreAssumption DEF Call, Run, Domain!ConstantsOK
<1>2. CASE k.command = NULL
  BY <1>1, <1>2 DEF Execute, Next
<1>3. CASE k.command # NULL
  <2>1. k.command \in SqlCommand
    BY <1>3, CommandIsSql DEF Call, Domain!Opt
  <2>2. ApplyTransition(Run(k), k.command)
    BY <1>3 DEF Execute
  <2>3. CASE Applies(Run(k), k.command)
    BY <1>1, <2>1, <2>2, <2>3 DEF Next
  <2>4. CASE ~Applies(Run(k), k.command)
    BY <2>2, <2>4 DEF ApplyTransition
  <2>5. QED
    BY <2>3, <2>4
<1>4. QED
  BY <1>2, <1>3

(* A run keeps its admission, and never becomes READY again.               *)
LEMMA StoreStepKeeps ==
  ASSUME TypeOK, [Next]_vars, NEW r \in Runs, runs[r] # NULL
  PROVE  /\ runs'[r] # NULL /\ runs'[r].admission = runs[r].admission
         /\ runs[r].life.state # "ready" => runs'[r].life.state # "ready"
<1>1. CASE UNCHANGED vars
  BY <1>1 DEF vars
<1>2. ASSUME NEW a \in Admissions, InitializeRun(a) PROVE runs'[r] = runs[r]
  BY <1>2 DEF InitializeRun, vars, TypeOK, Domain!TypeOK
<1>3. ASSUME NEW q \in Runs, NEW c \in SqlCommand, Applies(q, c), ApplyTransition(q, c)
      PROVE  /\ runs'[r] # NULL /\ runs'[r].admission = runs[r].admission
             /\ runs[r].life.state # "ready" => runs'[r].life.state # "ready"
  <2> DEFINE u == Updated(runs[q].life, c)
  <2>1. /\ runs[q] \in Domain!Run /\ u \in Domain!Lifecycle
        /\ Domain!Relation(c.kind, NotBefore[q], runs[q].life, u)
        /\ runs' = [runs EXCEPT ![q].life = u]
    BY <1>3, AppliedStep
  <2> HIDE DEF u
  <2>2. u.state # "ready"
    BY <2>1 DEF Domain!Relation
  <2>3. [runs[q] EXCEPT !.life = u] \in Domain!Run
    BY <2>1 DEF Domain!Run
  <2>4. runs'[r] = IF r = q THEN [runs[q] EXCEPT !.life = u] ELSE runs[r]
    BY <2>1 DEF TypeOK, Domain!TypeOK
  <2>5. QED
    BY <2>1, <2>2, <2>3, <2>4, StoreAssumption DEF Domain!ConstantsOK, Domain!Run
<1>4. QED
  BY <1>1, <1>2, <1>3 DEF Next

-----------------------------------------------------------------------------
(* Type correctness of the clients.                                        *)

(* What a client's program counter says of what it holds and waits for.    *)
ClientInv ==
  \A c \in Clients :
    /\ pc[c] \in {"holding", "claimed", "worked"} => held[c] \in Domain!Run
    /\ pc[c] = "waiting" => call[c] \in Call
    /\ pc[c] = "waiting" /\ call[c].command # NULL
         => held[c] \in Domain!Run /\ call[c].admission = held[c].admission

RtInv == RtTypeOK /\ ClientInv

LEMMA LifeInRun ==
  ASSUME TypeOK, NEW r \in Runs, runs[r] # NULL
  PROVE  /\ runs[r] \in Domain!Run /\ RunOf[runs[r].admission] = r
         /\ runs[r].life \in Domain!Lifecycle /\ Domain!Shape(runs[r].life)
  BY DEF TypeOK, Domain!TypeOK, Domain!Opt, Domain!Run

LEMMA AnswerType ==
  ASSUME NEW life \in Domain!Lifecycle,
         NEW status \in {"initialized", "idempotent_duplicate", "conflict", "applied",
                         "not_found", "version_conflict", "transition_conflict"}
  PROVE  Answer(status, life) \in Replies
  BY DEF Answer, Replies, Domain!Lifecycle, Domain!Opt

LEMMA ReplyType ==
  ASSUME TypeOK, NEW k \in Call
  PROVE  Reply(k) \in Replies
<1>1. k.admission \in Admissions /\ Run(k) \in Runs /\ Run(k) = RunOf[k.admission]
  BY StoreAssumption DEF Call, Run, Domain!ConstantsOK
<1>2. CASE k.command = NULL
  <2>1. Reply(k) = InitializeAnswer(k.admission)
    BY <1>2 DEF Reply
  <2>2. CASE runs[Run(k)] = NULL
    BY <1>1, <2>1, <2>2, ReadyLifeOK, AnswerType DEF InitializeAnswer
  <2>3. CASE runs[Run(k)] # NULL
    BY <1>1, <2>1, <2>3, LifeInRun, AnswerType DEF InitializeAnswer
  <2>4. QED
    BY <2>2, <2>3
<1>3. CASE k.command # NULL
  <2> DEFINE r == Run(k)
             c == k.command
             s == runs[r].life
  <2>1. Reply(k) = ApplyAnswer(r, c) /\ c \in SqlCommand
    BY <1>3, CommandIsSql DEF Reply, Call, Domain!Opt
  <2> HIDE DEF c
  <2>2. CASE runs[r] = NULL
    BY <2>1, <2>2 DEF ApplyAnswer, NotFound, Replies, Domain!Opt
  <2>3. CASE runs[r] # NULL /\ Applies(r, c)
    <3>1. s \in Domain!Lifecycle /\ Domain!Shape(s) /\ NotBefore[r] \in Instants
      BY <1>1, <2>3, LifeInRun, StoreAssumption DEF Domain!ConstantsOK
    <3>2. Updated(s, c) \in Domain!Lifecycle
      BY <3>1, <2>1, <2>3, GuardFacts DEF Applies
    <3>3. Reply(k) = Answer("applied", Updated(s, c))
      BY <2>1, <2>3 DEF ApplyAnswer, Applies
    <3>4. QED
      BY <3>2, <3>3, AnswerType
  <2>4. CASE runs[r] # NULL /\ ~Applies(r, c)
    <3>1. s \in Domain!Lifecycle
      BY <1>1, <2>4, LifeInRun
    <3>2. Reply(k) \in {Answer("version_conflict", s), Answer("transition_conflict", s)}
      BY <2>1, <2>4 DEF ApplyAnswer
    <3>3. QED
      BY <3>1, <3>2, AnswerType
  <2>5. QED
    BY <2>2, <2>3, <2>4
<1>4. QED
  BY <1>2, <1>3

LEMMA RtInitInv == RtInit => RtInv
<1> SUFFICES ASSUME RtInit PROVE RtInv
  OBVIOUS
<1>1. TypeOK
  BY StoreInit DEF RtInit
<1>2. QED
  BY <1>1 DEF RtInit, RtInv, RtTypeOK, ClientInv, PCs, Domain!Opt

(* A step of a client that leaves the tables alone.                        *)
LEMMA SendStep ==
  ASSUME RtInv, NEW c \in Clients, NEW a \in Admissions,
         NEW command \in Domain!Opt(Domain!Command), Send(c, a, command),
         command # NULL => held[c] \in Domain!Run /\ a = held[c].admission,
         UNCHANGED <<runs, history, held, outcome, orphans, dispatches, acknowledged>>
  PROVE  RtInv'
<1>1. [admission |-> a, command |-> command] \in Call
  BY DEF Call
<1>2. /\ pc' \in [Clients -> PCs]
      /\ call' \in [Clients -> Domain!Opt(Call)]
      /\ answer' \in [Clients -> Domain!Opt(Replies)]
  BY <1>1 DEF RtInv, RtTypeOK, Send, Goto, PCs, Domain!Opt
<1>3. TypeOK'
  BY DEF RtInv, RtTypeOK, TypeOK, Domain!TypeOK
<1>4. RtTypeOK'
  BY <1>2, <1>3 DEF RtInv, RtTypeOK
<1>5. ClientInv'
  BY <1>1 DEF RtInv, RtTypeOK, ClientInv, Send, Goto
<1>6. QED
  BY <1>4, <1>5 DEF RtInv

LEMMA ResetTypes ==
  ASSUME RtInv, NEW c \in Clients, Reset(c)
  PROVE  /\ pc' \in [Clients -> PCs] /\ held' \in [Clients -> Domain!Opt(Domain!Run)]
         /\ call' \in [Clients -> Domain!Opt(Call)] /\ answer' \in [Clients -> Domain!Opt(Replies)]
         /\ outcome' \in [Clients -> Domain!Opt({"succeeded", "failed"})]
         /\ ClientInv'
  BY DEF RtInv, RtTypeOK, ClientInv, Reset, Forget, Goto, PCs, Domain!Opt

(* The action in which the tables change hands over to the store's proof.  *)
LEMMA RtStoreStep ==
  ASSUME RtInv, RtNext
  PROVE  [Next]_vars
<1>1. ASSUME NEW c \in Clients, Serve(c) PROVE [Next]_vars
  BY <1>1, ExecuteIsStoreStep DEF RtInv, ClientInv, Serve
<1>2. ASSUME NEW k \in orphans, ServeOrphan(k) PROVE [Next]_vars
  BY <1>2, ExecuteIsStoreStep DEF RtInv, RtTypeOK, ServeOrphan
<1>3. QED
  BY <1>1, <1>2 DEF RtNext, Busy, vars, CallInitialize, GetRun, CallTransition, ReturnInitialize,
     ReturnTransition, Dispatch, Return, Raise

(* The snapshot a client keeps after an applied transition is a durable    *)
(* history row, hence well typed.                                          *)
LEMMA ReconciledType ==
  ASSUME TypeOK, NEW r, NEW before, NEW command, Reconciles(r, before, command)
  PROVE  Domain!After(before, command) \in Domain!Lifecycle
  BY DEF Reconciles, RowsOf, TypeOK, HistoryRow

LEMMA RtStepInv ==
  ASSUME RtInv, RtNext
  PROVE  RtInv'
<1> USE DEF RtInv
<1>0. TypeOK'
  BY RtStoreStep, StoreTypeStep DEF RtTypeOK
<1>1. ASSUME NEW c \in Clients, NEW a \in Admissions, CallInitialize(c, a) PROVE RtInv'
  BY <1>1, SendStep DEF CallInitialize, Domain!Opt
<1>2. ASSUME NEW c \in Clients, NEW r \in Runs, GetRun(c, r) PROVE RtInv'
  <2>1. runs[r] \in Domain!Run
    BY <1>2, LifeInRun DEF GetRun, RtTypeOK
  <2>2. QED
    BY <1>0, <1>2, <2>1 DEF GetRun, Goto, RtTypeOK, ClientInv, PCs, Domain!Opt
<1>3. ASSUME NEW c \in Clients, NEW command \in Domain!Command, CallTransition(c, command)
      PROVE  RtInv'
  <2>1. held[c] \in Domain!Run
    BY <1>3 DEF CallTransition, WorkerSends, ClientInv
  <2>2. held[c].admission \in Admissions
    BY <2>1 DEF Domain!Run
  <2>3. QED
    BY <1>3, <2>1, <2>2, SendStep DEF CallTransition, Domain!Opt
<1>4. ASSUME NEW c \in Clients, ReturnInitialize(c) PROVE RtInv'
  <2>1. CASE Reset(c)
    <3>1. acknowledged' \in SUBSET Admissions
      BY <1>4 DEF ReturnInitialize, RtTypeOK, ClientInv, Call
    <3>2. QED
      BY <1>0, <1>4, <2>1, <3>1, ResetTypes DEF ReturnInitialize, RtTypeOK
  <2>2. CASE Goto(c, "inconsistent") /\ UNCHANGED <<held, call, answer, outcome, acknowledged>>
    BY <1>0, <1>4, <2>2 DEF ReturnInitialize, RtTypeOK, ClientInv, Goto, PCs
  <2>3. QED
    BY <1>4, <2>1, <2>2 DEF ReturnInitialize
<1>5. ASSUME NEW c \in Clients, ReturnTransition(c) PROVE RtInv'
  <2> DEFINE command == call[c].command
             after == Domain!After(held[c].life, command)
  <2>1. held[c] \in Domain!Run /\ command # NULL
    BY <1>5 DEF ReturnTransition, ClientInv
  <2>2. UNCHANGED <<runs, history, outcome, orphans, dispatches, acknowledged>>
    BY <1>5 DEF ReturnTransition
  <2> DEFINE to == AfterApplied(c, command)
             refused == /\ Goto(c, "returned") \/ Goto(c, "inconsistent")
                        /\ UNCHANGED held
             adopted == /\ Reconciles(Run(call[c]), held[c].life, command)
                        /\ Goto(c, to)
                        /\ held' = [held EXCEPT ![c].life = after]
  <2>3. (refused \/ adopted) /\ (Forget(c) \/ UNCHANGED <<call, answer>>)
    BY <1>5 DEF ReturnTransition
  <2>4. pc'[c] \in {"claimed", "holding"} \/ UNCHANGED <<call, answer>>
    BY <1>5 DEF ReturnTransition
  <2>5. to \in {"claimed", "holding", "returned"}
    BY DEF AfterApplied
  <2>6. /\ call' \in [Clients -> Domain!Opt(Call)] /\ answer' \in [Clients -> Domain!Opt(Replies)]
        /\ \A d \in Clients : d # c => call'[d] = call[d]
    BY <2>3 DEF RtTypeOK, Forget, Domain!Opt
  <2> HIDE DEF to
  <2>7. CASE refused
    <3>1. /\ pc' \in [Clients -> PCs] /\ pc'[c] \in {"returned", "inconsistent"}
          /\ \A d \in Clients : d # c => pc'[d] = pc[d]
      BY <2>7 DEF RtTypeOK, Goto, PCs
    <3>2. ClientInv'
      BY <2>6, <2>7, <3>1 DEF ClientInv
    <3>3. held' = held
      BY <2>7
    <3> HIDE DEF refused, adopted, after, command
    <3>4. RtTypeOK'
      BY <1>0, <2>2, <2>6, <3>1, <3>3 DEF RtTypeOK
    <3>5. QED
      BY <3>2, <3>4
  <2>8. CASE adopted
    <3>1. after \in Domain!Lifecycle
      BY <2>8, ReconciledType DEF RtTypeOK
    <3> HIDE DEF after, command
    <3>2. [held[c] EXCEPT !.life = after] \in Domain!Run
      BY <2>1, <3>1 DEF Domain!Run
    <3>3. held' \in [Clients -> Domain!Opt(Domain!Run)] /\ held'[c] \in Domain!Run
          /\ \A d \in Clients : d # c => held'[d] = held[d]
      BY <2>8, <3>2 DEF RtTypeOK, Domain!Opt
    <3>4. /\ pc' \in [Clients -> PCs] /\ pc'[c] = to
          /\ \A d \in Clients : d # c => pc'[d] = pc[d]
      BY <2>5, <2>8 DEF RtTypeOK, Goto, PCs
    <3>5. ClientInv'
      BY <2>5, <2>6, <3>3, <3>4 DEF ClientInv
    <3>6. QED
      BY <1>0, <2>2, <2>6, <3>3, <3>4, <3>5 DEF RtTypeOK
  <2>9. QED
    BY <2>3, <2>7, <2>8
<1>6. ASSUME NEW c \in Clients, Dispatch(c) PROVE RtInv'
  <2>1. RunOf[held[c].admission] \in Runs
    BY <1>6, StoreAssumption DEF Dispatch, ClientInv, Domain!Run, Domain!ConstantsOK
  <2>2. dispatches' \in [Runs -> Nat]
    BY <1>6, <2>1 DEF Dispatch, RtTypeOK
  <2>3. QED
    BY <1>0, <1>6, <2>2 DEF Dispatch, Outcomes, Goto, RtTypeOK, ClientInv, PCs, Domain!Opt
<1>7. ASSUME NEW c \in Clients, Return(c) PROVE RtInv'
  BY <1>0, <1>7, ResetTypes DEF Return, RtTypeOK
<1>8. ASSUME NEW c \in Clients, Raise(c) PROVE RtInv'
  <2>1. orphans' \in SUBSET Call
    BY <1>8 DEF Raise, RtTypeOK, ClientInv
  <2>2. QED
    BY <1>0, <1>8, <2>1, ResetTypes DEF Raise, RtTypeOK
<1>9. ASSUME NEW c \in Clients, Serve(c) PROVE RtInv'
  <2>1. Reply(call[c]) \in Replies
    BY <1>9, ReplyType DEF Serve, RtTypeOK, ClientInv
  <2>2. QED
    BY <1>0, <1>9, <2>1 DEF Serve, RtTypeOK, ClientInv, Domain!Opt
<1>10. ASSUME NEW k \in orphans, ServeOrphan(k) PROVE RtInv'
  BY <1>0, <1>10 DEF ServeOrphan, RtTypeOK, ClientInv
<1>11. QED
  BY <1>1, <1>2, <1>3, <1>4, <1>5, <1>6, <1>7, <1>8, <1>9, <1>10 DEF RtNext, Busy

LEMMA RtStutterInv ==
  ASSUME RtInv, UNCHANGED rtVars
  PROVE  RtInv'
  BY DEF rtVars, RtInv, RtTypeOK, TypeOK, Domain!TypeOK, ClientInv

LEMMA RuntimeInvariant == RtSpec => []RtInv
<1>1. RtInv /\ [RtNext]_rtVars => RtInv'
  BY RtStepInv, RtStutterInv
<1>2. QED
  BY <1>1, RtInitInv, PTL DEF RtSpec

(* Type correctness of the tables and of every client, in flight requests  *)
(* included.                                                               *)
THEOREM RuntimeTypeCorrect == RtSpec => []RtTypeOK
<1>1. RtInv => RtTypeOK
  BY DEF RtInv
<1>2. QED
  BY <1>1, RuntimeInvariant, PTL

(* The clients, crashes and abandoned requests included, take the store    *)
(* only through steps of its RPCs, so all that is proved of the store      *)
(* holds under them.                                                       *)
THEOREM RuntimeImplementsStore == RtSpec => ImplementsStore
<1>1. RtInit => Init
  BY DEF RtInit
<1>2. RtInv /\ [RtNext]_rtVars => [Next]_vars
  <2> SUFFICES ASSUME RtInv, [RtNext]_rtVars PROVE [Next]_vars
    OBVIOUS
  <2>1. CASE UNCHANGED rtVars
    BY <2>1 DEF rtVars, vars
  <2>2. QED
    BY <2>1, RtStoreStep
<1>3. QED
  BY <1>1, <1>2, RuntimeInvariant, PTL DEF RtSpec, Spec, ImplementsStore

-----------------------------------------------------------------------------
(* At most one dispatch.  A worker whose claim was applied holds a token   *)
(* for its run until it dispatches or stops.                               *)

Token(c, r) ==
  \/ pc[c] = "claimed" /\ RunOf[held[c].admission] = r
  \/ /\ pc[c] = "waiting" /\ c \in Workers
     /\ call[c].command # NULL /\ call[c].command.kind = "claim"
     /\ answer[c] # NULL /\ answer[c].status = "applied" /\ Run(call[c]) = r

(* Tokens exist only for runs that left READY, exclude each other, and     *)
(* exclude an earlier dispatch.                                            *)
TokenInv ==
  \A r \in Runs :
    /\ dispatches[r] <= 1
    /\ dispatches[r] = 1 => runs[r] # NULL /\ runs[r].life.state # "ready"
    /\ \A c \in Clients : Token(c, r) =>
         /\ runs[r] # NULL /\ runs[r].life.state # "ready"
         /\ dispatches[r] = 0
         /\ \A d \in Clients : Token(d, r) => d = c

(* A step that creates no token and dispatches nothing keeps TokenInv.     *)
LEMMA NoNewToken ==
  ASSUME RtInv, TokenInv, [Next]_vars, dispatches' = dispatches,
         \A c \in Clients, r \in Runs : Token(c, r)' => Token(c, r)
  PROVE  TokenInv'
<1> SUFFICES ASSUME NEW r \in Runs
             PROVE  (/\ dispatches[r] <= 1
                     /\ dispatches[r] = 1 => runs[r] # NULL /\ runs[r].life.state # "ready"
                     /\ \A c \in Clients : Token(c, r) =>
                          /\ runs[r] # NULL /\ runs[r].life.state # "ready"
                          /\ dispatches[r] = 0
                          /\ \A d \in Clients : Token(d, r) => d = c)'
  BY DEF TokenInv
<1>1. runs[r] # NULL /\ runs[r].life.state # "ready"
        => runs'[r] # NULL /\ runs'[r].life.state # "ready"
  BY StoreStepKeeps DEF RtInv, RtTypeOK
<1>2. /\ dispatches[r] <= 1
      /\ dispatches[r] = 1 => runs[r] # NULL /\ runs[r].life.state # "ready"
      /\ \A c \in Clients : Token(c, r) =>
           /\ runs[r] # NULL /\ runs[r].life.state # "ready" /\ dispatches[r] = 0
           /\ \A d \in Clients : Token(d, r) => d = c
  BY DEF TokenInv
<1>3. QED
  BY <1>1, <1>2

(* A claim is applied only to a READY run, which it takes out of READY.    *)
LEMMA ClaimApplied ==
  ASSUME TypeOK, NEW k \in Call, k.command # NULL, k.command.kind = "claim",
         Execute(k), Reply(k).status = "applied"
  PROVE  LET r == Run(k) IN
         /\ r \in Runs /\ runs[r] # NULL /\ runs[r].life.state = "ready"
         /\ runs'[r] # NULL /\ runs'[r].life.state # "ready"
<1> DEFINE r == Run(k)
           c == k.command
           u == Updated(runs[r].life, c)
<1>1. r \in Runs /\ c \in SqlCommand
  BY StoreAssumption, CommandIsSql DEF Call, Run, Domain!ConstantsOK, Domain!Opt
<1>2. Applies(r, c)
  BY DEF Reply, ApplyAnswer, Answer, NotFound, Applies
<1>3. runs[r] # NULL /\ runs[r].life.state = "ready"
  BY <1>2 DEF Applies, GuardOk
<1>4. ApplyTransition(r, c)
  BY DEF Execute
<1>5. /\ runs[r] \in Domain!Run /\ u \in Domain!Lifecycle
      /\ Domain!Relation(c.kind, NotBefore[r], runs[r].life, u)
      /\ runs' = [runs EXCEPT ![r].life = u]
  BY <1>1, <1>2, <1>4, AppliedStep
<1> HIDE DEF u
<1>6. u.state # "ready"
  BY <1>5 DEF Domain!Relation
<1>7. [runs[r] EXCEPT !.life = u] \in Domain!Run
  BY <1>5 DEF Domain!Run
<1>8. runs'[r] = [runs[r] EXCEPT !.life = u]
  BY <1>1, <1>5 DEF TypeOK, Domain!TypeOK
<1>9. QED
  BY <1>1, <1>3, <1>5, <1>6, <1>7, <1>8, StoreAssumption DEF Domain!ConstantsOK, Domain!Run

LEMMA TokenStep ==
  ASSUME RtInv, TokenInv, RtNext
  PROVE  TokenInv'
<1>0. [Next]_vars
  BY RtStoreStep
<1>1. ASSUME NEW c \in Clients, NEW a \in Admissions, CallInitialize(c, a) PROVE TokenInv'
  <2>1. \A d \in Clients, r \in Runs : Token(d, r)' => Token(d, r)
    BY <1>1 DEF CallInitialize, Send, Goto, Token, Run, RtInv, RtTypeOK
  <2>2. QED
    BY <1>0, <1>1, <2>1, NoNewToken DEF CallInitialize
<1>2. ASSUME NEW c \in Clients, NEW q \in Runs, GetRun(c, q) PROVE TokenInv'
  <2>1. \A d \in Clients, r \in Runs : Token(d, r)' => Token(d, r)
    BY <1>2 DEF GetRun, Goto, Token, Run, RtInv, RtTypeOK
  <2>2. QED
    BY <1>0, <1>2, <2>1, NoNewToken DEF GetRun
<1>3. ASSUME NEW c \in Clients, NEW command \in Domain!Command, CallTransition(c, command)
      PROVE  TokenInv'
  <2>1. \A d \in Clients, r \in Runs : Token(d, r)' => Token(d, r)
    BY <1>3 DEF CallTransition, Send, Goto, Token, Run, RtInv, RtTypeOK
  <2>2. QED
    BY <1>0, <1>3, <2>1, NoNewToken DEF CallTransition
<1>4. ASSUME NEW c \in Clients, ReturnInitialize(c) PROVE TokenInv'
  <2>1. \A d \in Clients, r \in Runs : Token(d, r)' => Token(d, r)
    BY <1>4 DEF ReturnInitialize, Reset, Forget, Goto, Token, Run, RtInv, RtTypeOK
  <2>2. QED
    BY <1>0, <1>4, <2>1, NoNewToken DEF ReturnInitialize
<1>5. ASSUME NEW c \in Clients, ReturnTransition(c) PROVE TokenInv'
  <2> DEFINE command == call[c].command
             after == Domain!After(held[c].life, command)
  <2>1. \A d \in Clients, r \in Runs : d # c => (Token(d, r)' <=> Token(d, r))
    BY <1>5 DEF ReturnTransition, Forget, Goto, Token, Run, RtInv, RtTypeOK
  <2>2. ASSUME NEW r \in Runs, Token(c, r)' PROVE Token(c, r)
    <3>1. pc'[c] # "waiting"
      BY <1>5 DEF ReturnTransition, AfterApplied, Goto, RtInv, RtTypeOK
    <3>2. pc'[c] = "claimed" /\ RunOf[held'[c].admission] = r
      BY <2>2, <3>1 DEF Token
    <3>3. /\ c \in Workers /\ command # NULL /\ command.kind = "claim"
          /\ pc[c] = "waiting" /\ answer[c] # NULL /\ answer[c].status = "applied"
          /\ held' = [held EXCEPT ![c].life = after]
      BY <1>5, <3>2 DEF ReturnTransition, AfterApplied, Applied, Goto, RtInv, RtTypeOK
    <3>4. held[c] \in Domain!Run /\ call[c].admission = held[c].admission
      BY <3>3 DEF RtInv, ClientInv
    <3>5. held'[c].admission = held[c].admission
      BY <3>3, <3>4 DEF RtInv, RtTypeOK, Domain!Run
    <3>6. QED
      BY <3>2, <3>3, <3>4, <3>5 DEF Token, Run
  <2>3. QED
    BY <1>0, <1>5, <2>1, <2>2, NoNewToken DEF ReturnTransition
<1>6. ASSUME NEW c \in Clients, Dispatch(c) PROVE TokenInv'
  <2> DEFINE q == RunOf[held[c].admission]
  <2>1. q \in Runs /\ Token(c, q)
    BY <1>6, StoreAssumption
       DEF Dispatch, RtInv, ClientInv, Domain!Run, Domain!ConstantsOK, Token
  <2>2. /\ runs[q] # NULL /\ runs[q].life.state # "ready" /\ dispatches[q] = 0
        /\ \A d \in Clients : Token(d, q) => d = c
    BY <2>1 DEF TokenInv
  <2>3. \A r \in Runs : ~Token(c, r)'
    BY <1>6 DEF Dispatch, Goto, Token, RtInv, RtTypeOK
  <2>4. \A d \in Clients, r \in Runs : d # c => (Token(d, r)' <=> Token(d, r))
    BY <1>6 DEF Dispatch, Goto, Token, Run, RtInv, RtTypeOK
  <2>5. \A r \in Runs : dispatches'[r] = IF r = q THEN 1 ELSE dispatches[r]
    BY <1>6, <2>1, <2>2 DEF Dispatch, RtInv, RtTypeOK
  <2>6. runs' = runs
    BY <1>6 DEF Dispatch
  <2> HIDE DEF q
  <2>7. QED
    BY <2>1, <2>2, <2>3, <2>4, <2>5, <2>6 DEF TokenInv
<1>7. ASSUME NEW c \in Clients, Return(c) PROVE TokenInv'
  <2>1. \A d \in Clients, r \in Runs : Token(d, r)' => Token(d, r)
    BY <1>7 DEF Return, Reset, Forget, Goto, Token, Run, RtInv, RtTypeOK
  <2>2. QED
    BY <1>0, <1>7, <2>1, NoNewToken DEF Return
<1>8. ASSUME NEW c \in Clients, Raise(c) PROVE TokenInv'
  <2>1. \A d \in Clients, r \in Runs : Token(d, r)' => Token(d, r)
    BY <1>8 DEF Raise, Reset, Forget, Goto, Token, Run, RtInv, RtTypeOK
  <2>2. QED
    BY <1>0, <1>8, <2>1, NoNewToken DEF Raise
<1>9. ASSUME NEW c \in Clients, Serve(c) PROVE TokenInv'
  <2> DEFINE k == call[c]
  <2>1. k \in Call /\ Execute(k) /\ answer' = [answer EXCEPT ![c] = Reply(k)] /\ ~(pc[c] = "claimed")
    BY <1>9 DEF Serve, RtInv, ClientInv
  <2>2. \A d \in Clients, r \in Runs : d # c => (Token(d, r)' <=> Token(d, r))
    BY <1>9 DEF Serve, Token, Run, RtInv, RtTypeOK
  <2>3. dispatches' = dispatches
    BY <1>9 DEF Serve
  <2>4. CASE \A r \in Runs : ~Token(c, r)'
    BY <1>0, <2>2, <2>3, <2>4, NoNewToken
  <2>5. ASSUME NEW q \in Runs, Token(c, q)' PROVE TokenInv'
    <3>1. /\ k.command # NULL /\ k.command.kind = "claim" /\ Run(k) = q
          /\ Reply(k).status = "applied"
      BY <1>9, <2>1, <2>5 DEF Serve, Token, Run, RtInv, RtTypeOK
    <3>2. /\ runs[q] # NULL /\ runs[q].life.state = "ready"
          /\ runs'[q] # NULL /\ runs'[q].life.state # "ready"
      BY <2>1, <3>1, ClaimApplied DEF RtInv, RtTypeOK
    <3>3. dispatches[q] = 0 /\ \A d \in Clients : ~Token(d, q)
      BY <3>2 DEF TokenInv, RtInv, RtTypeOK
    <3>4. \A r \in Runs : r # q => ~Token(c, r)'
      BY <1>9, <2>5 DEF Serve, Token, Run
    <3>5. \A r \in Runs : runs[r] # NULL /\ runs[r].life.state # "ready"
                             => runs'[r] # NULL /\ runs'[r].life.state # "ready"
      BY <1>0, StoreStepKeeps DEF RtInv, RtTypeOK
    <3>6. QED
      BY <2>2, <2>3, <3>2, <3>3, <3>4, <3>5 DEF TokenInv
  <2>6. QED
    BY <2>4, <2>5
<1>10. ASSUME NEW k \in orphans, ServeOrphan(k) PROVE TokenInv'
  <2>1. \A d \in Clients, r \in Runs : Token(d, r)' => Token(d, r)
    BY <1>10 DEF ServeOrphan, Token, Run
  <2>2. QED
    BY <1>0, <1>10, <2>1, NoNewToken DEF ServeOrphan
<1>11. QED
  BY <1>1, <1>2, <1>3, <1>4, <1>5, <1>6, <1>7, <1>8, <1>9, <1>10 DEF RtNext, Busy

LEMMA TokenInvariant == RtSpec => []TokenInv
<1>1. RtInit => TokenInv
  BY DEF RtInit, TokenInv, Token
<1>2. RtInv /\ TokenInv /\ [RtNext]_rtVars => TokenInv'
  <2>1. ASSUME TokenInv, UNCHANGED rtVars PROVE TokenInv'
    BY <2>1 DEF rtVars, TokenInv, Token, Run
  <2>2. QED
    BY <2>1, TokenStep
<1>3. QED
  BY <1>1, <1>2, RuntimeInvariant, PTL DEF RtSpec

(* The work of a run is dispatched at most once, whatever the number of    *)
(* workers and operators, their clocks, lost answers and late requests.    *)
THEOREM DispatchedAtMostOnce == RtSpec => []AtMostOneDispatch
<1>1. TokenInv => AtMostOneDispatch
  BY DEF TokenInv, AtMostOneDispatch
<1>2. QED
  BY <1>1, TokenInvariant, PTL

-----------------------------------------------------------------------------
(* The store and its readers agree.                                        *)

(* Every call the domain accepts passes the SQL guard: the converse of the *)
(* guard lemmas of the store.                                              *)
LEMMA AcceptedPassesGuard ==
  ASSUME NEW s \in Domain!Lifecycle, Domain!Shape(s), NEW nb \in Instants,
         NEW c \in Domain!Command, Domain!Accepts(nb, s, c)
  PROVE  VersionMatches(s, c) /\ GuardOk(nb, s, c)
<1> DEFINE u == Domain!After(s, c)
<1>1. Domain!Preconditions(s, c) /\ Domain!Shape(u) /\ Domain!Relation(c.kind, nb, s, u)
  BY DEF Domain!Accepts
<1>2. VersionMatches(s, c)
  BY <1>1 DEF Domain!Preconditions, VersionMatches
<1>3. c.claim_key # NULL /\ c.transition_at # NULL
  BY StoreAssumption DEF Domain!Command, Domain!LeaseCommand, Domain!FinishCommand,
     Domain!ConstantsOK
<1>4. CASE c.kind \in {"claim", "take_over_expired_claim"}
  <2>1. c \in Domain!LeaseCommand
    BY <1>4 DEF Domain!Command, Domain!FinishCommand
  <2>2. c.lease_expires_at # NULL /\ c.failure_code = NULL
    BY <2>1, StoreAssumption DEF Domain!LeaseCommand, Domain!ConstantsOK
  <2>3. /\ u.state = "claimed" /\ u.claimed_at = c.transition_at
        /\ u.lease_expires_at = c.lease_expires_at
    BY <1>4 DEF Domain!After, Domain!Claimed
  <2>4. c.transition_at < c.lease_expires_at
    BY <1>1, <2>3 DEF Domain!Shape, Domain!HasClaim, Domain!Terminal
  <2>5. CASE c.kind = "claim"
    BY <1>1, <1>2, <1>3, <2>2, <2>3, <2>4, <2>5 DEF GuardOk, Domain!Preconditions, Domain!Relation
  <2>6. CASE c.kind = "take_over_expired_claim"
    <3>1. c.transition_at \in Int /\ c.lease_expires_at \in Int
      BY <2>1, StoreAssumption DEF Domain!LeaseCommand, Domain!ConstantsOK
    <3>2. c.lease_expires_at > c.transition_at
      BY <2>4, <3>1
    <3>3. QED
      BY <1>1, <1>2, <1>3, <2>2, <2>6, <3>2 DEF GuardOk, Domain!Preconditions
  <2>7. QED
    BY <1>4, <2>5, <2>6
<1>5. CASE c.kind = "renew_claim"
  <2>1. c.lease_expires_at # NULL /\ c.failure_code = NULL
    BY <1>5, StoreAssumption
       DEF Domain!Command, Domain!LeaseCommand, Domain!FinishCommand, Domain!ConstantsOK
  <2>2. QED
    BY <1>1, <1>2, <1>3, <1>5, <2>1 DEF GuardOk, Domain!Preconditions, Domain!LeaseActive
<1>6. CASE c.kind \in {"succeed", "fail"}
  <2>1. c.lease_expires_at = NULL /\ (c.kind = "fail" <=> c.failure_code # NULL)
    BY <1>6, StoreAssumption
       DEF Domain!Command, Domain!LeaseCommand, Domain!FinishCommand, Domain!LeaseKinds,
           Domain!ConstantsOK
  <2>2. QED
    BY <1>1, <1>2, <1>3, <1>6, <2>1 DEF GuardOk, Domain!Preconditions, Domain!LeaseActive
<1>7. QED
  BY <1>2, <1>4, <1>5, <1>6 DEF Domain!Command, Domain!LeaseCommand, Domain!FinishCommand,
     Domain!LeaseKinds

(* The row an applied transition inserts is one the reader takes.          *)
LEMMA AppliedRowReadable ==
  ASSUME TypeOK, NEW r \in Runs, NEW c \in SqlCommand,
         Applies(r, c), ApplyTransition(r, c)
  PROVE  TransitionHydrates(AppliedRow(r, c))
<1> DEFINE s == runs[r].life
           u == Updated(s, c)
           row == AppliedRow(r, c)
<1>1. /\ s \in Domain!Lifecycle /\ Domain!Shape(s)
      /\ u \in Domain!Lifecycle /\ Domain!Shape(u)
      /\ Domain!Accepts(NotBefore[r], s, c) /\ c \in Domain!Command
      /\ u = Domain!After(s, c)
      /\ Domain!Relation(c.kind, NotBefore[r], s, u)
      /\ c.expected_version = s.state_version
      /\ u.state_version = s.state_version + 1
      /\ row.after = u
  BY AppliedStep
<1>2. /\ row.kind = c.kind /\ row.before_version = s.state_version
      /\ row.transition_at = c.transition_at
  BY <1>1 DEF AppliedRow
<1>3. GuardOk(NotBefore[r], s, c)
  BY DEF Applies
<1> HIDE DEF row, u
<1>4. u.state = AfterState[c.kind] /\ c.kind # "initialize"
  BY <1>1, <1>3 DEF AfterState, Domain!Relation, Domain!Command, Domain!LeaseCommand,
     Domain!FinishCommand, Domain!LeaseKinds
<1>5. s.state_version \in Nat /\ s.state_version # NULL /\ c.transition_at # NULL
  BY <1>1, <1>3, StoreAssumption DEF GuardOk, Domain!Lifecycle, Domain!ConstantsOK
<1>6. IF c.kind = "claim" THEN s.state_version = 1 ELSE s.state_version >= 2
  BY <1>1, <1>3 DEF GuardOk, Domain!Shape, Domain!Terminal
<1>7. DatedBySnapshot(row)
  <2>1. CASE c.kind \in {"claim", "take_over_expired_claim"}
    BY <1>1, <1>2, <2>1 DEF DatedBySnapshot, Domain!After, Domain!Claimed
  <2>2. CASE c.kind = "renew_claim"
    <3>1. /\ u.claimed_at = s.claimed_at /\ u.lease_expires_at = c.lease_expires_at
          /\ s.claimed_at <= c.transition_at /\ c.transition_at < s.lease_expires_at
          /\ c.lease_expires_at > s.lease_expires_at /\ s.state = "claimed"
      BY <1>1, <1>3, <2>2 DEF GuardOk, Domain!After, Domain!Renewed, Domain!Lifecycle
    <3>2. c.transition_at \in Int /\ c.lease_expires_at \in Int /\ s.lease_expires_at \in Int
      BY <1>1, <2>2, <3>1, ClaimedShape, StoreAssumption
         DEF Domain!Command, Domain!LeaseCommand, Domain!FinishCommand, Domain!ConstantsOK
    <3>3. \A i, j, k \in Int : i < j /\ k > j => i < k
      OBVIOUS
    <3>4. c.transition_at < c.lease_expires_at
      BY <3>1, <3>2, <3>3
    <3>5. QED
      BY <1>1, <1>2, <2>2, <3>1, <3>4 DEF DatedBySnapshot
  <2>3. CASE c.kind \in {"succeed", "fail"}
    BY <1>1, <1>2, <2>3 DEF DatedBySnapshot, Domain!After, Domain!Finished, Domain!Lifecycle
  <2>4. QED
    BY <1>1, <2>1, <2>2, <2>3 DEF Domain!Command, Domain!LeaseCommand,
       Domain!FinishCommand, Domain!LeaseKinds
<1>8. TransitionRowOk(row)
  BY <1>1, <1>2, <1>4, <1>5, <1>6, <1>7 DEF TransitionRowOk
<1>9. QED
  BY <1>1, <1>8 DEF TransitionHydrates, row

(* Every row of both tables can be read back.                              *)
RowsReadable == \A h \in history : TransitionHydrates(h)

(* The first row of a run is its initialization.                           *)
LEMMA FirstRow ==
  ASSUME HistoryInv, RowsReadable, NEW r \in Runs, runs[r] # NULL
  PROVE  \E h \in RowsOf(r) :
           /\ h.kind = "initialize" /\ h.after = Domain!ReadyLife
           /\ h.before_version = NULL /\ h.transition_at = NULL
<1>1. runs[r].life.state_version \in Nat /\ runs[r].life.state_version >= 1
  BY LifeInRun, VersionPositive DEF HistoryInv
<1>2. 1 \in 1 .. runs[r].life.state_version
  BY <1>1
<1>3. PICK h \in RowsOf(r) : h.after.state_version = 1
  BY <1>2 DEF HistoryInv, HistoryMatchesRun
<1>4. h \in history /\ h \in HistoryRow /\ TransitionRowOk(h)
  BY DEF RowsOf, RowsReadable, TransitionHydrates, HistoryInv, TypeOK
<1>5. h.kind = "initialize"
  <2>1. CASE h.kind # "initialize"
    <3>1. /\ h.before_version \in Nat /\ h.before_version >= 1
          /\ h.after.state_version = h.before_version + 1
      BY <1>4, <2>1 DEF TransitionRowOk, HistoryRow
    <3>2. QED
      BY <3>1, <1>3
  <2>2. QED
    BY <2>1
<1>6. QED
  BY <1>4, <1>5 DEF TransitionRowOk, HistoryInv, HistoryReplays

(* What a client holds is a version of its run that the history keeps.     *)
Persisted(k) ==
  LET r == RunOf[k.admission] IN
  /\ runs[r] # NULL /\ runs[r].admission = k.admission
  /\ \E h \in RowsOf(r) : h.after = k.life

HoldsRun(c) ==
  \/ pc[c] \in {"holding", "claimed", "worked"}
  \/ pc[c] = "waiting" /\ call[c].command # NULL

(* What an answer says is so, and stays so while it is on its way.         *)
InitializeTold(k, ans) ==
  ans.status # "conflict" =>
    /\ runs[Run(k)] # NULL /\ runs[Run(k)].admission = k.admission
    /\ ans.status = "initialized" => ans.state_version = 1

TransitionTold(k, before, ans) ==
  LET after == Domain!After(before, k.command) IN
  \/ /\ ans.status = "applied"
     /\ ans.state = after.state /\ ans.state_version = after.state_version
     /\ Reconciles(Run(k), before, k.command)
  \/ ans.status = "version_conflict" /\ ans.state_version # k.command.expected_version

(* The inductive invariant, client by client: prediction, guard, history   *)
(* and reader agree.                                                       *)
AgreeClient(c) ==
  /\ pc[c] # "inconsistent"
  /\ HoldsRun(c) => Persisted(held[c])
  /\ pc[c] = "waiting" /\ call[c].command # NULL => Predicts(c, call[c].command)
  /\ pc[c] = "waiting" /\ answer[c] # NULL =>
       IF call[c].command = NULL THEN InitializeTold(call[c], answer[c])
       ELSE TransitionTold(call[c], held[c].life, answer[c])
  /\ answer[c] # NULL /\ pc[c] # "waiting" =>
       pc[c] = "returned" /\ answer[c].status \in {"applied", "version_conflict"}

AgreeInv == RtInv /\ HistoryInv /\ RowsReadable /\ \A c \in Clients : AgreeClient(c)

(* The store loses nothing a client relies on.                             *)
LEMMA HistoryGrows ==
  ASSUME HistoryInv, [Next]_vars
  PROVE  HistoryInv' /\ history \subseteq history'
<1>1. CASE UNCHANGED vars
  BY <1>1 DEF HistoryInv, TypeOK, Domain!TypeOK, HistoryMatchesRun, HistoryReplays,
     LeasesDisjoint, RowsOf, vars
<1>2. ASSUME NEW a \in Admissions, InitializeRun(a) PROVE HistoryInv' /\ history \subseteq history'
  BY <1>2, InitializeTypeOK, InitializeHistory DEF HistoryInv, InitializeRun, vars
<1>3. ASSUME NEW r \in Runs, NEW c \in SqlCommand, Applies(r, c), ApplyTransition(r, c)
      PROVE  HistoryInv' /\ history \subseteq history'
  BY <1>3, ApplyTypeOK, ApplyHistory DEF HistoryInv, ApplyTransition, vars
<1>4. QED
  BY <1>1, <1>2, <1>3 DEF Next

LEMMA RowsStayReadable ==
  ASSUME TypeOK, RowsReadable, [Next]_vars
  PROVE  RowsReadable'
<1>1. CASE UNCHANGED vars
  BY <1>1 DEF vars, RowsReadable
<1>2. ASSUME NEW a \in Admissions, InitializeRun(a) PROVE RowsReadable'
  <2> DEFINE row == [ run |-> RunOf[a], kind |-> "initialize", before_version |-> NULL,
                      transition_at |-> NULL, after |-> Domain!ReadyLife ]
  <2>1. TransitionHydrates(row)
    BY ReadyLifeOK DEF TransitionHydrates, TransitionRowOk, AfterState, Domain!ReadyLife
  <2> HIDE DEF row
  <2>2. history' \subseteq history \cup {row}
    BY <1>2 DEF InitializeRun, vars, row
  <2>3. QED
    BY <2>1, <2>2 DEF RowsReadable
<1>3. ASSUME NEW r \in Runs, NEW c \in SqlCommand, Applies(r, c), ApplyTransition(r, c)
      PROVE  RowsReadable'
  <2>1. history' = history \cup {AppliedRow(r, c)}
    BY <1>3, AppliedStep
  <2>2. TransitionHydrates(AppliedRow(r, c))
    BY <1>3, AppliedRowReadable
  <2>3. QED
    BY <2>1, <2>2 DEF RowsReadable
<1>4. QED
  BY <1>1, <1>2, <1>3 DEF Next

LEMMA PersistedStays ==
  ASSUME HistoryInv, [Next]_vars, NEW k \in Domain!Run, Persisted(k)
  PROVE  Persisted(k)'
<1>1. RunOf[k.admission] \in Runs
  BY StoreAssumption DEF Domain!Run, Domain!ConstantsOK
<1>2. QED
  BY <1>1, StoreStepKeeps, HistoryGrows DEF HistoryInv, Persisted, RowsOf

LEMMA ToldStays ==
  ASSUME HistoryInv, [Next]_vars, NEW k \in Call, NEW before, NEW ans
  PROVE  /\ InitializeTold(k, ans) => InitializeTold(k, ans)'
         /\ TransitionTold(k, before, ans) => TransitionTold(k, before, ans)'
<1>1. Run(k) \in Runs /\ history \subseteq history'
  BY HistoryGrows, StoreAssumption DEF Call, Run, Domain!ConstantsOK
<1>2. InitializeTold(k, ans) => InitializeTold(k, ans)'
  BY <1>1, StoreStepKeeps DEF HistoryInv, InitializeTold, Run
<1>3. Reconciles(Run(k), before, k.command) => Reconciles(Run(k), before, k.command)'
  BY <1>1 DEF Reconciles, RowsOf, Run
<1>4. QED
  BY <1>2, <1>3 DEF TransitionTold, Run

(* Whatever the store does, what a client knows stays true.                *)
LEMMA ClientKeeps ==
  ASSUME RtInv, HistoryInv, [Next]_vars, NEW c \in Clients, AgreeClient(c),
         pc'[c] = pc[c], held'[c] = held[c], call'[c] = call[c], answer'[c] = answer[c]
  PROVE  AgreeClient(c)'
<1>1. HoldsRun(c) => Persisted(held[c])'
  <2>1. HoldsRun(c) => held[c] \in Domain!Run
    BY DEF HoldsRun, RtInv, ClientInv
  <2>2. \A k \in Domain!Run : Persisted(k) => Persisted(k)'
    BY PersistedStays
  <2>3. \A k : k = held[c] => (Persisted(k)' <=> Persisted(held[c])')
    BY DEF Persisted, RowsOf
  <2>4. QED
    BY <2>1, <2>2, <2>3 DEF AgreeClient
<1>2. pc[c] = "waiting" => call[c] \in Call
  BY DEF RtInv, ClientInv
<1>3. \A k \in Call : \A before, ans :
        /\ InitializeTold(k, ans) => InitializeTold(k, ans)'
        /\ TransitionTold(k, before, ans) => TransitionTold(k, before, ans)'
  BY ToldStays
<1>4. QED
  BY <1>1, <1>2, <1>3 DEF AgreeClient, HoldsRun, Predicts

(* What the server answers is so.                                          *)
LEMMA InitializeServed ==
  ASSUME HistoryInv, NEW k \in Call, k.command = NULL, Execute(k), NEW ans, ans = Reply(k)
  PROVE  InitializeTold(k, ans)'
<1> DEFINE r == RunOf[k.admission]
           new == [admission |-> k.admission, life |-> Domain!ReadyLife]
<1>1. r \in Runs /\ InitializeRun(k.admission) /\ ans = InitializeAnswer(k.admission)
  BY StoreAssumption DEF Call, Domain!ConstantsOK, Execute, Reply
<1>2. CASE runs[r] = NULL
  <2>1. runs' = [runs EXCEPT ![r] = new] /\ ans = Answer("initialized", Domain!ReadyLife)
    BY <1>1, <1>2 DEF InitializeRun, InitializeAnswer
  <2>2. new \in Domain!Run
    BY ReadyLifeOK DEF Call, Domain!Run
  <2>3. runs'[r] = new /\ new # NULL /\ new.admission = k.admission
    BY <1>1, <2>1, <2>2, StoreAssumption
       DEF HistoryInv, TypeOK, Domain!TypeOK, Domain!ConstantsOK
  <2> HIDE DEF new
  <2>4. ans.state_version = 1
    BY <2>1 DEF Answer, Domain!ReadyLife
  <2>5. QED
    BY <2>3, <2>4 DEF InitializeTold, Run
<1>3. CASE runs[r] # NULL
  <2>1. runs' = runs
    BY <1>1, <1>3 DEF InitializeRun, vars
  <2>2. ans.status = IF runs[r].admission = k.admission THEN "idempotent_duplicate" ELSE "conflict"
    BY <1>1, <1>3 DEF InitializeAnswer, Answer
  <2>3. QED
    BY <1>3, <2>1, <2>2 DEF InitializeTold, Run
<1>4. QED
  BY <1>2, <1>3

LEMMA TransitionServed ==
  ASSUME HistoryInv, NEW k \in Call, k.command # NULL, Execute(k), NEW ans, ans = Reply(k),
         NEW before \in Domain!Run, Persisted(before), k.admission = before.admission,
         Domain!Accepts(NotBefore[RunOf[before.admission]], before.life, k.command)
  PROVE  TransitionTold(k, before.life, ans)'
<1> DEFINE r == RunOf[before.admission]
           c == k.command
           s == runs[r].life
<1>1. r \in Runs /\ Run(k) = r /\ c \in Domain!Command /\ c \in SqlCommand
  BY StoreAssumption, CommandIsSql
     DEF Call, Run, Domain!Run, Domain!ConstantsOK, Domain!Opt
<1>2. runs[r] # NULL /\ ApplyTransition(r, c) /\ ans = ApplyAnswer(r, c)
  BY <1>1 DEF Persisted, Execute, Reply
<1>3. s \in Domain!Lifecycle /\ Domain!Shape(s) /\ NotBefore[r] \in Instants
  BY <1>1, <1>2, LifeInRun, StoreAssumption DEF HistoryInv, Domain!ConstantsOK
<1>4. c.expected_version = before.life.state_version
  BY DEF Domain!Accepts, Domain!Preconditions
<1> HIDE DEF c
<1>5. CASE VersionMatches(s, c)
  <2>1. before.life = s
    <3>1. PICK h \in RowsOf(r) : h.after = before.life
      BY DEF Persisted
    <3>2. h.after.state_version = s.state_version
      BY <1>4, <1>5, <3>1 DEF VersionMatches
    <3>3. QED
      BY <1>1, <1>2, <3>1, <3>2 DEF HistoryInv, HistoryMatchesRun
  <2>2. Applies(r, c)
    BY <1>1, <1>2, <1>3, <2>1, AcceptedPassesGuard DEF Applies, c
  <2>3. /\ Updated(s, c) = Domain!After(s, c)
        /\ history' = history \cup {AppliedRow(r, c)}
    BY <1>1, <1>2, <2>2, AppliedStep DEF HistoryInv
  <2>4. ans = Answer("applied", Updated(s, c))
    BY <1>2, <1>5, <2>2 DEF ApplyAnswer
  <2>5. /\ AppliedRow(r, c) \in RowsOf(r)'
        /\ AppliedRow(r, c).kind = c.kind
        /\ AppliedRow(r, c).before_version = before.life.state_version
        /\ AppliedRow(r, c).transition_at = c.transition_at
        /\ AppliedRow(r, c).after = Domain!After(before.life, c)
    BY <1>4, <2>1, <2>3 DEF AppliedRow, RowsOf
  <2>6. Reconciles(r, before.life, c)'
    BY <2>5 DEF Reconciles, c
  <2>7. QED
    BY <1>1, <2>1, <2>3, <2>4, <2>6 DEF TransitionTold, Answer, Run, c
<1>6. CASE ~VersionMatches(s, c)
  <2>1. ans = Answer("version_conflict", s)
    BY <1>2, <1>6 DEF ApplyAnswer
  <2>2. QED
    BY <1>6, <2>1 DEF TransitionTold, Answer, VersionMatches, c
<1>7. QED
  BY <1>5, <1>6

(* A client that is idle, or that has just been reset, knows nothing.      *)
LEMMA ResetAgrees ==
  ASSUME RtInv, NEW c \in Clients, Reset(c)
  PROVE  AgreeClient(c)'
  BY DEF RtInv, RtTypeOK, Reset, Forget, Goto, AgreeClient, HoldsRun

LEMMA AgreeStep ==
  ASSUME AgreeInv, RtNext
  PROVE  AgreeInv'
<1>1. [Next]_vars /\ RtInv' /\ RtInv /\ RtTypeOK /\ TypeOK /\ HistoryInv
  BY RtStoreStep, RtStepInv DEF AgreeInv, RtInv, RtTypeOK
<1>2. HistoryInv' /\ RowsReadable'
  BY <1>1, HistoryGrows, RowsStayReadable DEF AgreeInv
<1>3. ASSUME NEW c \in Clients, AgreeClient(c)',
             \A d \in Clients : d # c =>
               pc'[d] = pc[d] /\ held'[d] = held[d] /\ call'[d] = call[d] /\ answer'[d] = answer[d]
      PROVE  AgreeInv'
  <2>1. \A d \in Clients : d # c => AgreeClient(d)'
    BY <1>1, <1>3, ClientKeeps DEF AgreeInv
  <2>2. QED
    BY <1>1, <1>2, <1>3, <2>1 DEF AgreeInv
<1>4. ASSUME NEW c \in Clients, NEW a \in Admissions, CallInitialize(c, a) PROVE AgreeInv'
  <2>1. AgreeClient(c)'
    BY <1>1, <1>4 DEF CallInitialize, Send, Goto, RtTypeOK, AgreeClient, HoldsRun
  <2>2. QED
    BY <1>1, <1>3, <1>4, <2>1 DEF CallInitialize, Send, Goto, RtTypeOK
<1>5. ASSUME NEW c \in Clients, NEW r \in Runs, GetRun(c, r) PROVE AgreeInv'
  <2>1. runs[r] \in Domain!Run /\ RunOf[runs[r].admission] = r /\ runs[r] # NULL
    BY <1>1, <1>5, LifeInRun DEF GetRun
  <2>2. \E h \in RowsOf(r) : h.after = runs[r].life
    BY <1>1, <2>1, CurrentRow DEF HistoryInv
  <2>3. held'[c] = runs[r] /\ runs' = runs /\ history' = history
    BY <1>1, <1>5 DEF GetRun, RtTypeOK
  <2>4. Persisted(held[c])'
    BY <2>1, <2>2, <2>3 DEF Persisted, RowsOf
  <2>5. answer[c] = NULL
    BY <1>5 DEF GetRun, AgreeInv, AgreeClient
  <2>6. AgreeClient(c)'
    BY <1>1, <1>5, <2>4, <2>5 DEF GetRun, Goto, RtTypeOK, AgreeClient, HoldsRun
  <2>7. QED
    BY <1>1, <1>3, <1>5, <2>6 DEF GetRun, Goto, RtTypeOK
<1>6. ASSUME NEW c \in Clients, NEW command \in Domain!Command, CallTransition(c, command)
      PROVE  AgreeInv'
  <2>1. /\ Predicts(c, command) /\ Send(c, held[c].admission, command)
        /\ UNCHANGED <<runs, history, held>>
    BY <1>6 DEF CallTransition
  <2>2. /\ pc'[c] = "waiting" /\ answer'[c] = NULL
        /\ call'[c] = [admission |-> held[c].admission, command |-> command]
    BY <1>1, <2>1 DEF Send, Goto, RtTypeOK
  <2>3. Persisted(held[c])
    BY <1>6 DEF CallTransition, WorkerSends, AgreeInv, AgreeClient, HoldsRun
  <2>4. Persisted(held[c])' /\ Predicts(c, command)'
    BY <2>1, <2>3 DEF Persisted, RowsOf, Predicts
  <2>5. AgreeClient(c)'
    BY <2>2, <2>4 DEF AgreeClient, HoldsRun, Predicts
  <2>6. QED
    BY <1>1, <1>3, <1>6, <2>5 DEF CallTransition, Send, Goto, RtTypeOK
<1>7. ASSUME NEW c \in Clients, ReturnInitialize(c) PROVE AgreeInv'
  <2> DEFINE k == call[c]
  <2>1. k \in Call /\ InitializeTold(k, answer[c])
    BY <1>7 DEF ReturnInitialize, AgreeInv, AgreeClient, RtInv, ClientInv
  <2>2. answer[c].status # "conflict" =>
          /\ answer[c].status = "initialized" => answer[c].state_version = 1
          /\ \E h \in RowsOf(RunOf[k.admission]) :
               /\ h.kind = "initialize" /\ h.after = Domain!ReadyLife
               /\ h.before_version = NULL /\ h.transition_at = NULL
    BY <2>1, FirstRow, StoreAssumption
       DEF InitializeTold, Run, Call, Domain!ConstantsOK, AgreeInv
  <2>3. Reset(c)
    BY <1>7, <2>2 DEF ReturnInitialize
  <2>4. AgreeClient(c)'
    BY <1>1, <2>3, ResetAgrees
  <2>5. QED
    BY <1>1, <1>3, <2>3, <2>4 DEF Reset, Forget, Goto, RtTypeOK
<1>8. ASSUME NEW c \in Clients, ReturnTransition(c) PROVE AgreeInv'
  <2> DEFINE k == call[c]
             command == k.command
             after == Domain!After(held[c].life, command)
  <2>1. /\ held[c] \in Domain!Run /\ Persisted(held[c]) /\ k \in Call
        /\ command # NULL /\ pc[c] = "waiting" /\ answer[c] # NULL
        /\ k.admission = held[c].admission
        /\ TransitionTold(k, held[c].life, answer[c])
    BY <1>8 DEF ReturnTransition, AgreeInv, AgreeClient, HoldsRun, RtInv, ClientInv
  <2>2. UNCHANGED <<runs, history>>
    BY <1>8 DEF ReturnTransition
  <2>3. CASE answer[c].status = "version_conflict"
    <3>1. CoherentRefusal(answer[c], command)
      BY <2>1, <2>3 DEF CoherentRefusal, TransitionTold
    <3>2. Goto(c, "returned") /\ held' = held
      BY <1>8, <2>3, <3>1 DEF ReturnTransition, Applied
    <3>3. pc'[c] = "returned" /\ UNCHANGED <<call, answer>>
      BY <1>1, <1>8, <3>2 DEF ReturnTransition, Goto, RtTypeOK
    <3>4. AgreeClient(c)'
      BY <2>3, <3>3 DEF AgreeClient, HoldsRun
    <3>5. QED
      BY <1>1, <1>3, <3>2, <3>3, <3>4 DEF Goto, RtTypeOK
  <2>4. CASE answer[c].status = "applied"
    <3>1. /\ answer[c].state = after.state /\ answer[c].state_version = after.state_version
          /\ Reconciles(Run(k), held[c].life, command)
      BY <2>1, <2>4 DEF TransitionTold
    <3>2. /\ Goto(c, AfterApplied(c, command)) /\ held' = [held EXCEPT ![c].life = after]
          /\ IF pc'[c] \in {"claimed", "holding"} THEN Forget(c) ELSE UNCHANGED <<call, answer>>
      BY <1>8, <2>4, <3>1 DEF ReturnTransition, Applied
    <3>3. /\ pc'[c] \in {"holding", "claimed", "returned"}
          /\ held'[c].admission = held[c].admission /\ held'[c].life = after
      BY <1>1, <2>1, <3>2 DEF AfterApplied, Goto, RtTypeOK, Domain!Run
    <3>4. \E h \in RowsOf(RunOf[held[c].admission]) : h.after = after
      BY <2>1, <3>1 DEF Reconciles, Run
    <3> HIDE DEF after
    <3>5. Persisted(held[c])'
      BY <2>1, <2>2, <3>3, <3>4 DEF Persisted, RowsOf
    <3>6. /\ pc'[c] \in {"holding", "claimed"} => answer'[c] = NULL
          /\ pc'[c] = "returned" => answer'[c] = answer[c]
      BY <1>1, <3>2, <3>3 DEF Forget, RtTypeOK
    <3>7. AgreeClient(c)'
      BY <2>4, <3>3, <3>5, <3>6 DEF AgreeClient, HoldsRun
    <3>8. QED
      BY <1>1, <1>3, <3>2, <3>7 DEF Forget, Goto, RtTypeOK
  <2>5. QED
    BY <2>1, <2>3, <2>4 DEF TransitionTold
<1>9. ASSUME NEW c \in Clients, Dispatch(c) PROVE AgreeInv'
  <2>1. /\ pc'[c] = "worked" /\ Persisted(held[c]) /\ answer[c] = NULL
        /\ UNCHANGED <<runs, history, held, call, answer>>
    BY <1>1, <1>9 DEF Dispatch, Goto, RtTypeOK, AgreeInv, AgreeClient, HoldsRun
  <2>2. AgreeClient(c)'
    BY <2>1 DEF AgreeClient, HoldsRun, Persisted, RowsOf
  <2>3. QED
    BY <1>1, <1>3, <1>9, <2>1, <2>2 DEF Dispatch, Goto, RtTypeOK
<1>10. ASSUME NEW c \in Clients, Return(c) \/ Raise(c) PROVE AgreeInv'
  <2>1. Reset(c)
    BY <1>10 DEF Return, Raise
  <2>2. QED
    BY <1>1, <1>3, <2>1, ResetAgrees DEF Reset, Forget, Goto, RtTypeOK
<1>11. ASSUME NEW c \in Clients, Serve(c) PROVE AgreeInv'
  <2> DEFINE k == call[c]
  <2>1. /\ pc[c] = "waiting" /\ k \in Call /\ Execute(k) /\ UNCHANGED <<pc, held, call>>
        /\ answer' = [answer EXCEPT ![c] = Reply(k)] /\ answer'[c] = Reply(k)
    BY <1>1, <1>11 DEF Serve, RtInv, ClientInv, RtTypeOK
  <2>2. CASE k.command = NULL
    <3>1. InitializeTold(call[c], answer[c])'
      BY <1>1, <2>1, <2>2, InitializeServed DEF InitializeTold, Run
    <3>2. AgreeClient(c)'
      BY <2>1, <2>2, <3>1 DEF AgreeClient, HoldsRun
    <3>3. QED
      BY <1>1, <1>3, <2>1, <3>2 DEF RtTypeOK
  <2>3. CASE k.command # NULL
    <3>1. /\ held[c] \in Domain!Run /\ Persisted(held[c]) /\ k.admission = held[c].admission
          /\ Predicts(c, k.command)
      BY <2>1, <2>3 DEF AgreeInv, AgreeClient, HoldsRun, RtInv, ClientInv
    <3>2. TransitionTold(call[c], held[c].life, answer[c])'
      BY <1>1, <2>1, <2>3, <3>1, TransitionServed DEF Predicts, TransitionTold, Reconciles, RowsOf, Run
    <3>3. Persisted(held[c])'
      BY <1>1, <2>1, <3>1, PersistedStays DEF Persisted, RowsOf
    <3>4. AgreeClient(c)'
      BY <2>1, <2>3, <3>1, <3>2, <3>3 DEF AgreeClient, HoldsRun, Predicts
    <3>5. QED
      BY <1>1, <1>3, <2>1, <3>4 DEF RtTypeOK
  <2>4. QED
    BY <2>2, <2>3
<1>12. ASSUME NEW k \in orphans, ServeOrphan(k) PROVE AgreeInv'
  <2>1. \A d \in Clients : AgreeClient(d)'
    BY <1>1, <1>12, ClientKeeps DEF ServeOrphan, AgreeInv
  <2>2. QED
    BY <1>1, <1>2, <2>1 DEF AgreeInv
<1>13. QED
  BY <1>4, <1>5, <1>6, <1>7, <1>8, <1>9, <1>10, <1>11, <1>12 DEF RtNext, Busy

LEMMA AgreeStutter ==
  ASSUME AgreeInv, UNCHANGED rtVars
  PROVE  AgreeInv'
<1>1. [Next]_vars /\ RtInv' /\ UNCHANGED <<pc, held, call, answer, runs, history>>
  BY RtStutterInv DEF AgreeInv, rtVars, vars
<1>2. HistoryInv' /\ RowsReadable'
  BY <1>1, HistoryGrows DEF AgreeInv, RowsReadable
<1>3. \A c \in Clients : AgreeClient(c)'
  BY <1>1, ClientKeeps DEF AgreeInv
<1>4. QED
  BY <1>1, <1>2, <1>3 DEF AgreeInv

LEMMA AgreeInit == RtInit => AgreeInv
<1> SUFFICES ASSUME RtInit PROVE AgreeInv
  OBVIOUS
<1>1. RtInv /\ Init
  BY RtInitInv DEF RtInit
<1>2. HistoryInv /\ RowsReadable
  BY <1>1 DEF RtInv, RtTypeOK, Init, HistoryInv, HistoryMatchesRun, HistoryReplays,
     LeasesDisjoint, RowsOf, RowsReadable
<1>3. \A c \in Clients : AgreeClient(c)
  BY DEF RtInit, AgreeClient, HoldsRun
<1>4. QED
  BY <1>1, <1>2, <1>3 DEF AgreeInv

LEMMA AgreeInvariant == RtSpec => []AgreeInv
<1>1. AgreeInv /\ [RtNext]_rtVars => AgreeInv'
  BY AgreeStep, AgreeStutter
<1>2. QED
  BY <1>1, AgreeInit, PTL DEF RtSpec

(* No answer of the store contradicts a prediction, every applied call is  *)
(* reconciled, and every row can be read back, for any clients and clocks. *)
THEOREM StoreAndReaderAlwaysAgree == RtSpec => []StoreAndReaderAgree
<1>1. AgreeInv => StoreAndReaderAgree
  <2> SUFFICES ASSUME AgreeInv PROVE StoreAndReaderAgree
    OBVIOUS
  <2>1. DomainAndStoreAgree
    BY DEF AgreeInv, AgreeClient, DomainAndStoreAgree, TransitionTold
  <2>2. ReconciliationNeverFails
    BY DEF AgreeInv, AgreeClient, ReconciliationNeverFails
  <2>3. EveryRowHydrates
    BY LifeInRun DEF AgreeInv, HistoryInv, RowsReadable, EveryRowHydrates, RunHydrates
  <2>4. QED
    BY <2>1, <2>2, <2>3 DEF StoreAndReaderAgree
<1>2. QED
  BY <1>1, AgreeInvariant, PTL

-----------------------------------------------------------------------------
(* Answers are durable.                                                    *)

Ending(result) == IF result = "succeeded" THEN "succeed" ELSE "fail"

(* The work of a run a worker holds was dispatched, with a result.         *)
Worked(c) ==
  /\ held[c] \in Domain!Run /\ outcome[c] \in {"succeeded", "failed"}
  /\ dispatches[RunOf[held[c].admission]] >= 1

(* The run ended as k says; the claim of k was overtaken by another call.  *)
Ended(k) == runs[RunOf[k.admission]] = k /\ k.life.state \in Domain!Terminal

Overtaken(k) ==
  \E h \in RowsOf(RunOf[k.admission]) :
    h.before_version = k.life.state_version /\ h.kind # "claim"

(* What a client that waits for a transition holds if it is applied.       *)
Adopted(c) == [held[c] EXCEPT !.life = Domain!After(held[c].life, call[c].command)]

Claiming(c) == call[c].command = NULL \/ call[c].command.kind = "claim"

(* A worker step by step: nothing to report before the dispatch, then a    *)
(* result, then an end of the run or the cause of a conflict.              *)
WorkerClient(c) ==
  /\ pc[c] \in {"idle", "holding", "claimed"} => outcome[c] = NULL
  /\ pc[c] \in {"claimed", "worked"} => held[c].life.state = "claimed"
  /\ pc[c] = "worked" => Worked(c)
  /\ pc[c] = "waiting" =>
       IF Claiming(c) THEN outcome[c] = NULL
       ELSE /\ Worked(c) /\ held[c].life.state = "claimed"
            /\ call[c].command.kind = Ending(outcome[c])
            /\ answer[c] # NULL =>
                 IF answer[c].status = "applied" THEN Ended(Adopted(c))
                 ELSE Overtaken(held[c])
  /\ pc[c] = "returned" =>
       \/ outcome[c] = NULL /\ answer[c].status # "applied"
       \/ /\ Worked(c)
          /\ IF answer[c].status = "applied"
             THEN Ended(held[c]) /\ held[c].life.state = outcome[c]
             ELSE Overtaken(held[c])

DurableInv ==
  /\ AgreeInv /\ InitializationAgreement
  /\ \A c \in Workers : WorkerClient(c)

(* A finished run changes no more.                                         *)
LEMMA FinishedStays ==
  ASSUME TypeOK, [Next]_vars, NEW r \in Runs, runs[r] # NULL,
         runs[r].life.state \in Domain!Terminal
  PROVE  runs'[r] = runs[r]
<1>1. CASE UNCHANGED vars
  BY <1>1 DEF vars
<1>2. ASSUME NEW a \in Admissions, InitializeRun(a) PROVE runs'[r] = runs[r]
  BY <1>2 DEF InitializeRun, vars, TypeOK, Domain!TypeOK
<1>3. ASSUME NEW q \in Runs, NEW c \in SqlCommand, Applies(q, c), ApplyTransition(q, c)
      PROVE  runs'[r] = runs[r]
  <2>1. q # r
    BY <1>3 DEF Applies, GuardOk, Domain!Terminal
  <2>2. QED
    BY <1>3, <2>1 DEF ApplyTransition, vars, TypeOK, Domain!TypeOK
<1>4. QED
  BY <1>1, <1>2, <1>3 DEF Next

(* Where the run is past the version held, a row names what came next.     *)
LEMMA PassedVersion ==
  ASSUME HistoryInv, RowsReadable, NEW k \in Domain!Run, Persisted(k),
         k.life.state = "claimed",
         runs[RunOf[k.admission]].life.state_version # k.life.state_version
  PROVE  Overtaken(k)
<1> DEFINE r == RunOf[k.admission]
           v == k.life.state_version
           n == runs[r].life.state_version
<1>1. r \in Runs /\ runs[r] # NULL
  BY StoreAssumption DEF Domain!Run, Domain!ConstantsOK, Persisted
<1>2. PICK g \in RowsOf(r) : g.after = k.life
  BY DEF Persisted
<1>3. g.after \in Domain!Lifecycle /\ Domain!Shape(g.after)
  BY DEF HistoryInv, TypeOK, HistoryRow, RowsOf
<1>4. v \in Nat /\ v >= 2
  BY <1>2, <1>3, ClaimedShape DEF Domain!Lifecycle
<1>5. n \in Nat /\ v <= n /\ v # n
  BY <1>1, <1>2, LifeInRun DEF HistoryInv, HistoryMatchesRun, Domain!Lifecycle
<1>6. v + 1 \in 1 .. n
  BY <1>4, <1>5
<1>7. PICK h \in RowsOf(r) : h.after.state_version = v + 1
  BY <1>1, <1>6 DEF HistoryInv, HistoryMatchesRun
<1>8. TransitionRowOk(h) /\ h \in HistoryRow
  BY DEF RowsOf, RowsReadable, TransitionHydrates, HistoryInv, TypeOK
<1> HIDE DEF v
<1>9. h.kind # "initialize"
  BY <1>4, <1>7, <1>8 DEF TransitionRowOk
<1>10. h.before_version \in Nat /\ h.before_version = v
  BY <1>4, <1>7, <1>8, <1>9 DEF TransitionRowOk, HistoryRow
<1>11. h.kind # "claim"
  BY <1>4, <1>8, <1>9, <1>10 DEF TransitionRowOk
<1>12. QED
  BY <1>10, <1>11 DEF Overtaken, v

(* The answer to a terminal call: the run ended with it, or was overtaken. *)
LEMMA TerminalServed ==
  ASSUME HistoryInv, RowsReadable, HistoryInv', RowsReadable',
         NEW k \in Call, k.command # NULL, k.command.kind \in {"succeed", "fail"},
         Execute(k), NEW before \in Domain!Run, Persisted(before),
         before.life.state = "claimed", k.admission = before.admission,
         Domain!Accepts(NotBefore[RunOf[before.admission]], before.life, k.command)
  PROVE  LET end == [before EXCEPT !.life = Domain!After(before.life, k.command)] IN
         IF Reply(k).status = "applied" THEN Ended(end)' ELSE Overtaken(before)'
<1> DEFINE r == RunOf[before.admission]
           c == k.command
           s == runs[r].life
           end == [before EXCEPT !.life = Domain!After(before.life, k.command)]
<1>1. r \in Runs /\ Run(k) = r /\ c \in Domain!Command /\ c \in SqlCommand
  BY StoreAssumption, CommandIsSql
     DEF Call, Run, Domain!Run, Domain!ConstantsOK, Domain!Opt
<1>2. runs[r] # NULL /\ ApplyTransition(r, c) /\ Reply(k) = ApplyAnswer(r, c)
  BY <1>1 DEF Persisted, Execute, Reply
<1>3. runs[r] \in Domain!Run /\ runs[r].admission = before.admission
  BY <1>1, <1>2, LifeInRun DEF HistoryInv, Persisted
<1>4. c.expected_version = before.life.state_version
  BY DEF Domain!Accepts, Domain!Preconditions
<1> HIDE DEF c
<1>5. CASE Applies(r, c)
  <2>1. VersionMatches(s, c)
    BY <1>5 DEF Applies
  <2>2. before.life = s
    <3>1. PICK h \in RowsOf(r) : h.after = before.life
      BY DEF Persisted
    <3>2. h.after.state_version = s.state_version
      BY <1>4, <2>1, <3>1 DEF VersionMatches
    <3>3. QED
      BY <1>1, <1>2, <3>1, <3>2 DEF HistoryInv, HistoryMatchesRun
  <2>3. before = runs[r]
    BY <1>3, <2>2 DEF Domain!Run
  <2>4. /\ Updated(s, c) = Domain!After(s, c)
        /\ runs' = [runs EXCEPT ![r].life = Updated(s, c)]
    BY <1>1, <1>2, <1>5, AppliedStep DEF HistoryInv
  <2>5. runs'[r] = end
    BY <1>1, <2>3, <2>4 DEF HistoryInv, TypeOK, Domain!TypeOK, c
  <2>6. end.admission = before.admission /\ end.life = Domain!After(before.life, c)
    BY DEF Domain!Run, c
  <2>7. Domain!After(before.life, c).state \in Domain!Terminal
    <3>1. before.life \in Domain!Lifecycle
      BY DEF Domain!Run
    <3>2. QED
      BY <3>1 DEF Domain!After, Domain!Finished, Domain!Terminal, Domain!Lifecycle, c
  <2>8. Reply(k).status = "applied"
    BY <1>2, <1>5 DEF ApplyAnswer, Answer, Applies
  <2> HIDE DEF end
  <2>9. Ended(end)'
    BY <2>5, <2>6, <2>7 DEF Ended
  <2>10. QED
    BY <2>8, <2>9 DEF end
<1>6. CASE ~Applies(r, c)
  <2>1. Reply(k).status # "applied" /\ UNCHANGED vars
    BY <1>2, <1>6 DEF ApplyAnswer, ApplyTransition, Answer
  <2>2. s \in Domain!Lifecycle /\ Domain!Shape(s) /\ NotBefore[r] \in Instants
    BY <1>1, <1>2, LifeInRun, StoreAssumption DEF HistoryInv, Domain!ConstantsOK
  <2>3. s.state_version # before.life.state_version
    <3>1. CASE s.state_version = before.life.state_version
      <4>1. before.life = s
        BY <1>1, <1>2, <3>1 DEF Persisted, HistoryInv, HistoryMatchesRun
      <4>2. QED
        BY <1>1, <1>2, <1>6, <2>2, <4>1, AcceptedPassesGuard DEF Applies, c
    <3>2. QED
      BY <3>1
  <2>4. Overtaken(before)
    BY <2>3, PassedVersion
  <2>5. QED
    BY <2>1, <2>4 DEF Overtaken, RowsOf, vars
<1>7. QED
  BY <1>5, <1>6

(* What a worker has to report stays so.                                   *)
LEMMA WorkerKeeps ==
  ASSUME AgreeInv, [Next]_vars, NEW c \in Workers, WorkerClient(c),
         \A r \in Runs : dispatches'[r] >= dispatches[r],
         dispatches \in [Runs -> Nat], dispatches' \in [Runs -> Nat],
         pc'[c] = pc[c], held'[c] = held[c], call'[c] = call[c],
         answer'[c] = answer[c], outcome'[c] = outcome[c]
  PROVE  WorkerClient(c)'
<1>1. TypeOK /\ HistoryInv /\ history \subseteq history' /\ c \in Clients
  BY HistoryGrows DEF AgreeInv, HistoryInv, Clients
<1>2. Worked(c) => Worked(c)'
  <2>1. held[c] \in Domain!Run => RunOf[held[c].admission] \in Runs
    BY StoreAssumption DEF Domain!Run, Domain!ConstantsOK
  <2>2. \A i, j \in Nat : i >= 1 /\ j >= i => j >= 1
    OBVIOUS
  <2>3. QED
    BY <2>1, <2>2 DEF Worked
<1>3. \A k : Overtaken(k) => Overtaken(k)'
  BY <1>1 DEF Overtaken, RowsOf
<1>4. ASSUME NEW k \in Domain!Run, Ended(k) PROVE Ended(k)'
  <2>1. RunOf[k.admission] \in Runs /\ k # NULL
    BY StoreAssumption DEF Domain!Run, Domain!ConstantsOK
  <2>2. QED
    BY <1>1, <1>4, <2>1, FinishedStays DEF Ended
<1>5. ASSUME pc[c] = "waiting", ~Claiming(c), answer[c] # NULL, answer[c].status = "applied"
      PROVE  Adopted(c) \in Domain!Run
  <2>1. held[c] \in Domain!Run /\ TransitionTold(call[c], held[c].life, answer[c])
    BY <1>1, <1>5 DEF Claiming, AgreeInv, AgreeClient, WorkerClient, Worked
  <2>2. Domain!After(held[c].life, call[c].command) \in Domain!Lifecycle
    BY <1>1, <1>5, <2>1, ReconciledType DEF TransitionTold
  <2>3. QED
    BY <2>1, <2>2 DEF Adopted, Domain!Run
<1>6. Adopted(c)' = Adopted(c)
  BY DEF Adopted
<1>7. /\ Overtaken(held[c]) => Overtaken(held[c])'
      /\ held[c] \in Domain!Run /\ Ended(held[c]) => Ended(held[c])'
      /\ Adopted(c) \in Domain!Run /\ Ended(Adopted(c)) => Ended(Adopted(c))'
  <2>1. \A k : /\ k = held[c] => (Overtaken(held[c])' <=> Overtaken(k)') /\ (Ended(held[c])' <=> Ended(k)')
               /\ k = Adopted(c) => (Ended(Adopted(c))' <=> Ended(k)')
    BY <1>6 DEF Overtaken, Ended, RowsOf
  <2>2. QED
    BY <1>3, <1>4, <2>1
<1>8. QED
  BY <1>2, <1>5, <1>7 DEF WorkerClient, Claiming, Worked

LEMMA WorkerReset ==
  ASSUME RtInv, NEW c \in Clients, Reset(c)
  PROVE  WorkerClient(c)'
  BY DEF RtInv, RtTypeOK, Reset, Forget, Goto, WorkerClient

LEMMA DispatchesGrow ==
  ASSUME RtInv, RtNext
  PROVE  \A r \in Runs : dispatches'[r] >= dispatches[r]
<1>1. dispatches \in [Runs -> Nat]
  BY DEF RtInv, RtTypeOK
<1>2. ASSUME NEW c \in Clients, Dispatch(c) PROVE \A r \in Runs : dispatches'[r] >= dispatches[r]
  BY <1>1, <1>2 DEF Dispatch
<1>3. CASE dispatches' = dispatches
  BY <1>1, <1>3
<1>4. QED
  BY <1>2, <1>3 DEF RtNext, Busy, CallInitialize, GetRun, CallTransition, ReturnInitialize,
     ReturnTransition, Return, Raise, Serve, ServeOrphan

(* The store keeps the admission it acknowledged.                          *)
LEMMA AgreementStep ==
  ASSUME AgreeInv, InitializationAgreement, RtNext
  PROVE  InitializationAgreement'
<1>1. [Next]_vars /\ TypeOK /\ acknowledged \subseteq Admissions
  BY RtStoreStep DEF AgreeInv, RtInv, RtTypeOK
<1>2. \A a \in Admissions : runs[RunOf[a]] # NULL /\ runs[RunOf[a]].admission = a
                              => runs'[RunOf[a]] # NULL /\ runs'[RunOf[a]].admission = a
  BY <1>1, StoreStepKeeps, StoreAssumption DEF Domain!ConstantsOK
<1>3. CASE acknowledged' = acknowledged
  BY <1>1, <1>2, <1>3 DEF InitializationAgreement
<1>4. ASSUME NEW c \in Clients, ReturnInitialize(c), acknowledged' # acknowledged
      PROVE  InitializationAgreement'
  <2> DEFINE a == call[c].admission
  <2>1. a \in Admissions /\ InitializeTold(call[c], answer[c])
    BY <1>4 DEF ReturnInitialize, AgreeInv, AgreeClient, RtInv, ClientInv, Call
  <2>2. answer[c].status # "conflict" /\ acknowledged' = acknowledged \cup {a}
    BY <1>4 DEF ReturnInitialize
  <2>3. runs[RunOf[a]] # NULL /\ runs[RunOf[a]].admission = a
    BY <2>1, <2>2 DEF InitializeTold, Run
  <2>4. QED
    BY <1>1, <1>2, <2>1, <2>2, <2>3 DEF InitializationAgreement
<1>5. QED
  BY <1>3, <1>4 DEF RtNext, Busy, CallInitialize, GetRun, CallTransition,
     ReturnTransition, Dispatch, Return, Raise, Serve, ServeOrphan

LEMMA WorkerStep ==
  ASSUME DurableInv, RtNext
  PROVE  DurableInv'
<1>1. /\ AgreeInv /\ AgreeInv' /\ [Next]_vars /\ RtInv /\ RtTypeOK /\ RtTypeOK'
      /\ InitializationAgreement' /\ Workers \subseteq Clients
      /\ \A r \in Runs : dispatches'[r] >= dispatches[r]
  BY AgreeStep, RtStoreStep, AgreementStep, DispatchesGrow
     DEF DurableInv, AgreeInv, RtInv, Clients
<1>2. ASSUME NEW c \in Clients, c \in Workers => WorkerClient(c)',
             \A d \in Clients : d # c =>
               /\ pc'[d] = pc[d] /\ held'[d] = held[d] /\ call'[d] = call[d]
               /\ answer'[d] = answer[d] /\ outcome'[d] = outcome[d]
      PROVE  DurableInv'
  <2>1. dispatches \in [Runs -> Nat] /\ dispatches' \in [Runs -> Nat]
    BY <1>1 DEF RtTypeOK
  <2>2. \A d \in Workers : d # c => WorkerClient(d)'
    BY <1>1, <1>2, <2>1, WorkerKeeps DEF DurableInv
  <2>3. QED
    BY <1>1, <1>2, <2>2 DEF DurableInv
<1>3. ASSUME NEW c \in Clients, NEW a \in Admissions, CallInitialize(c, a) PROVE DurableInv'
  <2>1. c \in Workers => WorkerClient(c)'
    BY <1>1, <1>3 DEF CallInitialize, Send, Goto, RtTypeOK, DurableInv, WorkerClient, Claiming
  <2>2. QED
    BY <1>1, <1>2, <1>3, <2>1 DEF CallInitialize, Send, Goto, RtTypeOK
<1>4. ASSUME NEW c \in Clients, NEW r \in Runs, GetRun(c, r) PROVE DurableInv'
  <2>1. c \in Workers => WorkerClient(c)'
    BY <1>1, <1>4 DEF GetRun, Goto, RtTypeOK, DurableInv, WorkerClient
  <2>2. QED
    BY <1>1, <1>2, <1>4, <2>1 DEF GetRun, Goto, RtTypeOK
<1>5. ASSUME NEW c \in Clients, NEW command \in Domain!Command, CallTransition(c, command)
      PROVE  DurableInv'
  <2>1. /\ pc'[c] = "waiting" /\ answer'[c] = NULL
        /\ call'[c] = [admission |-> held[c].admission, command |-> command]
        /\ UNCHANGED <<held, outcome, dispatches>>
    BY <1>1, <1>5 DEF CallTransition, Send, Goto, RtTypeOK
  <2>2. c \in Workers => WorkerClient(c)'
    <3>1. CASE pc[c] = "holding" /\ command.kind = "claim"
      BY <2>1, <3>1 DEF DurableInv, WorkerClient, Claiming
    <3>2. CASE pc[c] = "worked" /\ command.kind = Ending(outcome[c])
      <4>1. command # NULL /\ command.kind # "claim"
        BY <1>5, <3>2, StoreAssumption DEF Ending, Domain!ConstantsOK
      <4>2. QED
        BY <2>1, <3>2, <4>1 DEF DurableInv, WorkerClient, Claiming, Worked
    <3>3. QED
      BY <1>5, <3>1, <3>2 DEF CallTransition, WorkerSends, Ending
  <2>3. QED
    BY <1>1, <1>2, <1>5, <2>2 DEF CallTransition, Send, Goto, RtTypeOK
<1>6. ASSUME NEW c \in Clients, Return(c) \/ Raise(c) PROVE DurableInv'
  <2>1. Reset(c)
    BY <1>6 DEF Return, Raise
  <2>2. QED
    BY <1>1, <1>2, <2>1, WorkerReset DEF Reset, Forget, Goto, RtTypeOK
<1>7. ASSUME NEW c \in Clients, ReturnInitialize(c) PROVE DurableInv'
  <2>1. CASE Reset(c)
    BY <1>1, <1>2, <2>1, WorkerReset DEF Reset, Forget, Goto, RtTypeOK
  <2>2. CASE Goto(c, "inconsistent")
    <3>1. pc'[c] = "inconsistent"
      BY <1>1, <2>2 DEF Goto, RtTypeOK
    <3>2. QED
      BY <1>1, <3>1 DEF AgreeInv, AgreeClient
  <2>3. QED
    BY <1>7, <2>1, <2>2 DEF ReturnInitialize
<1>8. ASSUME NEW c \in Clients, ReturnTransition(c) PROVE DurableInv'
  <2> DEFINE command == call[c].command
             after == Domain!After(held[c].life, command)
  <2>1. /\ held[c] \in Domain!Run /\ command # NULL /\ pc[c] = "waiting"
        /\ answer[c] # NULL /\ TransitionTold(call[c], held[c].life, answer[c])
        /\ UNCHANGED <<runs, history, outcome, dispatches>>
    BY <1>1, <1>8 DEF ReturnTransition, AgreeInv, AgreeClient, RtInv, ClientInv
  <2>2. pc'[c] # "inconsistent"
    BY <1>1 DEF AgreeInv, AgreeClient
  <2>3. \A d \in Clients : d # c =>
          /\ pc'[d] = pc[d] /\ held'[d] = held[d] /\ call'[d] = call[d]
          /\ answer'[d] = answer[d] /\ outcome'[d] = outcome[d]
    BY <1>1, <1>8 DEF ReturnTransition, Forget, Goto, RtTypeOK
  <2>4. ASSUME c \in Workers PROVE WorkerClient(c)'
    <3>1. CASE ~Applied(answer[c].status)
      <4>1. pc'[c] = "returned" /\ held' = held /\ answer'[c] = answer[c]
        BY <1>1, <1>8, <2>2, <3>1 DEF ReturnTransition, Goto, RtTypeOK
      <4>2. CASE Claiming(c)
        BY <2>1, <2>4, <3>1, <4>1, <4>2 DEF DurableInv, WorkerClient, Applied
      <4>3. CASE ~Claiming(c)
        <5>1. Worked(c) /\ Overtaken(held[c])
          BY <2>1, <2>4, <3>1, <4>3 DEF DurableInv, WorkerClient, Applied
        <5>2. Worked(c)' /\ Overtaken(held[c])'
          BY <2>1, <4>1, <5>1 DEF Worked, Overtaken, RowsOf
        <5>3. QED
          BY <3>1, <4>1, <5>2 DEF WorkerClient, Applied
      <4>4. QED
        BY <4>2, <4>3
    <3>2. CASE Applied(answer[c].status)
      <4>1. /\ pc'[c] = IF command.kind = "claim" THEN "claimed" ELSE "returned"
            /\ held' = [held EXCEPT ![c].life = after]
        BY <1>1, <1>8, <2>2, <2>4, <3>2 DEF ReturnTransition, AfterApplied, Goto, RtTypeOK
      <4>2. held'[c] = Adopted(c) /\ Adopted(c).life = after /\ Adopted(c).admission = held[c].admission
        BY <1>1, <2>1, <4>1 DEF RtTypeOK, Adopted, Domain!Run
      <4>3. CASE command.kind = "claim"
        <5>1. outcome[c] = NULL /\ pc'[c] = "claimed" /\ after.state = "claimed"
          BY <2>1, <2>4, <4>1, <4>3
             DEF DurableInv, WorkerClient, Claiming, Domain!After, Domain!Claimed
        <5>2. QED
          BY <2>1, <4>2, <5>1 DEF WorkerClient
      <4>4. CASE command.kind # "claim"
        <5>1. /\ Worked(c) /\ command.kind = Ending(outcome[c]) /\ Ended(Adopted(c))
              /\ pc'[c] = "returned" /\ answer'[c] = answer[c]
          BY <1>8, <2>1, <2>4, <3>2, <4>1, <4>4
             DEF DurableInv, WorkerClient, Claiming, Applied, ReturnTransition
        <5>2. after.state = outcome[c]
          <6>1. held[c].life \in Domain!Lifecycle
            BY <2>1 DEF Domain!Run
          <6>2. QED
            BY <5>1, <6>1 DEF Worked, Ending, Domain!After, Domain!Finished, Domain!Lifecycle
        <5>3. after \in Domain!Lifecycle
          BY <1>1, <2>1, <3>2, ReconciledType DEF TransitionTold, Applied, RtTypeOK
        <5> HIDE DEF after
        <5>4. held'[c] \in Domain!Run
          BY <2>1, <4>2, <5>3 DEF Adopted, Domain!Run
        <5>5. Worked(c)' /\ Ended(held[c])' /\ held'[c].life.state = outcome'[c]
          BY <2>1, <4>2, <5>1, <5>2, <5>4 DEF Worked, Ended
        <5>6. QED
          BY <3>2, <5>1, <5>5 DEF WorkerClient, Applied
      <4>5. QED
        BY <4>3, <4>4
    <3>3. QED
      BY <3>1, <3>2
  <2>5. QED
    BY <1>2, <2>3, <2>4
<1>9. ASSUME NEW c \in Clients, Dispatch(c) PROVE DurableInv'
  <2> DEFINE q == RunOf[held[c].admission]
  <2>1. held[c] \in Domain!Run /\ q \in Runs
    BY <1>1, <1>9, StoreAssumption
       DEF Dispatch, AgreeInv, RtInv, ClientInv, Domain!Run, Domain!ConstantsOK
  <2>2. dispatches'[q] >= 1
    BY <1>1, <1>9, <2>1 DEF Dispatch, RtTypeOK
  <2>3. /\ pc'[c] = "worked" /\ outcome'[c] \in {"succeeded", "failed"} /\ held' = held
    BY <1>1, <1>9 DEF Dispatch, Outcomes, Goto, RtTypeOK
  <2>4. c \in Workers => held[c].life.state = "claimed"
    BY <1>9 DEF Dispatch, DurableInv, WorkerClient
  <2>5. c \in Workers => WorkerClient(c)'
    BY <2>1, <2>2, <2>3, <2>4 DEF WorkerClient, Worked
  <2>6. QED
    BY <1>1, <1>2, <1>9, <2>5 DEF Dispatch, Goto, RtTypeOK
<1>10. ASSUME NEW c \in Clients, Serve(c) PROVE DurableInv'
  <2> DEFINE k == call[c]
  <2>1. /\ pc[c] = "waiting" /\ k \in Call /\ Execute(k)
        /\ UNCHANGED <<pc, held, call, outcome, dispatches>>
        /\ answer'[c] = Reply(k) /\ answer' = [answer EXCEPT ![c] = Reply(k)]
    BY <1>1, <1>10 DEF Serve, RtInv, ClientInv, RtTypeOK
  <2>2. ASSUME c \in Workers PROVE WorkerClient(c)'
    <3>1. CASE Claiming(c)
      BY <2>1, <2>2, <3>1 DEF DurableInv, WorkerClient, Claiming
    <3>2. CASE ~Claiming(c)
      <4>1. /\ k.command # NULL /\ Worked(c) /\ held[c].life.state = "claimed"
            /\ k.command.kind = Ending(outcome[c])
        BY <2>1, <2>2, <3>2 DEF DurableInv, WorkerClient, Claiming
      <4>2. /\ held[c] \in Domain!Run /\ Persisted(held[c]) /\ k.admission = held[c].admission
            /\ Predicts(c, k.command)
        BY <1>1, <2>1, <4>1 DEF AgreeInv, AgreeClient, HoldsRun, RtInv, ClientInv
      <4>3. HistoryInv /\ RowsReadable /\ HistoryInv' /\ RowsReadable'
        BY <1>1 DEF AgreeInv
      <4>4. k.command.kind \in {"succeed", "fail"}
        BY <4>1 DEF Ending
      <4>5. IF Reply(k).status = "applied" THEN Ended(Adopted(c))' ELSE Overtaken(held[c])'
        BY <2>1, <4>1, <4>2, <4>3, <4>4, TerminalServed DEF Predicts, Adopted, Ended, Overtaken, RowsOf
      <4>6. Worked(c)'
        BY <2>1, <4>1 DEF Worked
      <4>7. QED
        BY <2>1, <3>2, <4>1, <4>5, <4>6 DEF WorkerClient, Claiming
    <3>3. QED
      BY <3>1, <3>2
  <2>3. QED
    BY <1>1, <1>2, <2>1, <2>2 DEF RtTypeOK
<1>11. ASSUME NEW k \in orphans, ServeOrphan(k) PROVE DurableInv'
  <2>1. dispatches \in [Runs -> Nat] /\ dispatches' \in [Runs -> Nat]
    BY <1>1 DEF RtTypeOK
  <2>2. \A d \in Workers : WorkerClient(d)'
    BY <1>1, <1>11, <2>1, WorkerKeeps DEF DurableInv, ServeOrphan
  <2>3. QED
    BY <1>1, <2>2 DEF DurableInv
<1>12. QED
  BY <1>3, <1>4, <1>5, <1>6, <1>7, <1>8, <1>9, <1>10, <1>11 DEF RtNext, Busy

LEMMA DurableStutter ==
  ASSUME DurableInv, UNCHANGED rtVars
  PROVE  DurableInv'
<1>1. AgreeInv'
  BY AgreeStutter DEF DurableInv
<1>2. QED
  BY <1>1 DEF DurableInv, rtVars, InitializationAgreement, WorkerClient, Claiming, Adopted,
     Worked, Ended, Overtaken, RowsOf

LEMMA DurableInvariant == RtSpec => []DurableInv
<1>1. RtInit => DurableInv
  <2> SUFFICES ASSUME RtInit PROVE DurableInv
    OBVIOUS
  <2>1. AgreeInv
    BY AgreeInit
  <2>2. QED
    BY <2>1 DEF RtInit, DurableInv, InitializationAgreement, WorkerClient, Clients
<1>2. DurableInv /\ [RtNext]_rtVars => DurableInv'
  BY WorkerStep, DurableStutter
<1>3. QED
  BY <1>1, <1>2, PTL DEF RtSpec

(* What a worker reports of its run, why its terminal call was refused and *)
(* which admission a run was taken for stay true for good.                 *)
THEOREM AnswersStayTrue == RtSpec => []AnswersAreDurable
<1>1. DurableInv /\ AtMostOneDispatch => AnswersAreDurable
  <2> SUFFICES ASSUME DurableInv, AtMostOneDispatch PROVE AnswersAreDurable
    OBVIOUS
  <2>1. RtTypeOK
    BY DEF DurableInv, AgreeInv, RtInv
  <2>2. ReportedOutcomeIsDurable
    <3> SUFFICES ASSUME NEW c \in Workers, pc[c] = "returned", answer[c].status = "applied"
                 PROVE  /\ runs[RunOf[held[c].admission]] = held[c]
                        /\ held[c].life.state = outcome[c]
                        /\ dispatches[RunOf[held[c].admission]] = 1
      BY DEF ReportedOutcomeIsDurable
    <3>1. Worked(c) /\ Ended(held[c]) /\ held[c].life.state = outcome[c]
      BY DEF DurableInv, WorkerClient
    <3>2. RunOf[held[c].admission] \in Runs
      BY <3>1, StoreAssumption DEF Worked, Domain!Run, Domain!ConstantsOK
    <3>3. QED
      BY <2>1, <3>1, <3>2 DEF Ended, Worked, AtMostOneDispatch, RtTypeOK
  <2>3. ConflictHasCause
    BY DEF DurableInv, WorkerClient, ConflictHasCause, Overtaken
  <2>4. QED
    BY <2>2, <2>3 DEF DurableInv, AnswersAreDurable
<1>2. QED
  BY <1>1, DurableInvariant, DispatchedAtMostOnce, PTL

-----------------------------------------------------------------------------
(* Workers alone: every finished run was dispatched, no terminal call is   *)
(* refused.  The reason is that at most one worker of a run stands between *)
(* its dispatch and the answer to its terminal call, and as long as it     *)
(* does no other terminal call of the run is in flight or was applied.     *)

Endings == {"succeed", "fail"}

(* A terminal call in flight for a run.                                    *)
Ends(k, r) == k.command # NULL /\ k.command.kind \in Endings /\ Run(k) = r

AtWork(c, r) ==
  \/ pc[c] = "worked" /\ RunOf[held[c].admission] = r
  \/ pc[c] = "waiting" /\ answer[c] = NULL /\ Ends(call[c], r)

OperatorsRest == \A o \in Operators : pc[o] = "idle"

(* Workers claim and end, and nothing else reaches the store.              *)
WorkersCalls ==
  /\ \A c \in Workers : pc[c] = "waiting" /\ call[c].command # NULL
                          => call[c].command.kind \in Endings \cup {"claim"}
  /\ \A k \in orphans : k.command # NULL => k.command.kind \in Endings \cup {"claim"}
  /\ \A h \in history : h.kind \in Endings \cup {"claim", "initialize"}

NobodyEnds(r) ==
  /\ \A k \in orphans : ~Ends(k, r)
  /\ \A h \in RowsOf(r) : h.kind \notin Endings

(* A run is ended only after its dispatch, by the one worker at it.        *)
EndedByWorker(r) ==
  /\ dispatches[r] = 0 => NobodyEnds(r)
  /\ \A c \in Workers : AtWork(c, r) =>
       /\ dispatches[r] # 0 /\ NobodyEnds(r)
       /\ \A d \in Workers : AtWork(d, r) => d = c

NeverRefused ==
  \A c \in Workers : outcome[c] # NULL /\ answer[c] # NULL => answer[c].status = "applied"

WorkersInv ==
  /\ OperatorsRest /\ WorkersCalls /\ NeverRefused
  /\ \A r \in Runs : EndedByWorker(r)

(* A request adds at most its own row.                                     *)
LEMMA RowAdded ==
  ASSUME NEW k \in Call, Execute(k), NEW h \in history'
  PROVE  \/ h \in history
         \/ h.run = Run(k) /\ h.kind = IF k.command = NULL THEN "initialize" ELSE k.command.kind
<1>1. CASE k.command = NULL
  BY <1>1 DEF Execute, InitializeRun, vars, Run
<1>2. CASE k.command # NULL
  BY <1>2 DEF Execute, ApplyTransition, AppliedRow, vars
<1>3. QED
  BY <1>1, <1>2

(* A step that puts nobody to work and ends nothing.                       *)
LEMMA NothingEnds ==
  ASSUME WorkersInv, NEW r \in Runs, dispatches'[r] = dispatches[r],
         \A c \in Workers : AtWork(c, r)' => AtWork(c, r),
         \A k \in orphans' : Ends(k, r) => k \in orphans,
         \A h \in history' : h \in history \/ h.run # r \/ h.kind \notin Endings
  PROVE  EndedByWorker(r)'
<1>1. EndedByWorker(r)
  BY DEF WorkersInv
<1>2. NobodyEnds(r) => NobodyEnds(r)'
  BY DEF NobodyEnds, RowsOf, Ends, Run
<1>3. QED
  BY <1>1, <1>2 DEF EndedByWorker

(* A refused transition changes nothing.                                   *)
LEMMA RefusedAddsNothing ==
  ASSUME NEW k \in Call, k.command # NULL, Execute(k), Reply(k).status # "applied"
  PROVE  history' = history
<1>1. ~Applies(Run(k), k.command)
  BY DEF Reply, ApplyAnswer, Applies, Answer
<1>2. QED
  BY <1>1 DEF Execute, ApplyTransition, vars

(* What all the steps of a worker keep.                                    *)
LEMMA WorkerMoves ==
  ASSUME WorkersInv, RtTypeOK, RtTypeOK', NEW c \in Workers, OperatorsRest',
         \A d \in Clients : d # c =>
           /\ pc'[d] = pc[d] /\ held'[d] = held[d] /\ call'[d] = call[d]
           /\ answer'[d] = answer[d] /\ outcome'[d] = outcome[d],
         pc'[c] = "waiting" /\ call'[c].command # NULL
           => call'[c].command.kind \in Endings \cup {"claim"},
         outcome'[c] # NULL /\ answer'[c] # NULL => answer'[c].status = "applied",
         orphans' = orphans, history' = history,
         \A r \in Runs : EndedByWorker(r)'
  PROVE  WorkersInv'
<1>1. WorkersCalls'
  BY DEF WorkersInv, WorkersCalls, Clients
<1>2. NeverRefused'
  BY DEF WorkersInv, NeverRefused, Clients
<1>3. QED
  BY <1>1, <1>2 DEF WorkersInv

LEMMA WorkersStep ==
  ASSUME WorkersInv, DurableInv, DurableInv', TokenInv, RtNext, OperatorsRest'
  PROVE  WorkersInv'
<1>1. /\ RtInv /\ RtTypeOK /\ RtTypeOK' /\ AgreeInv /\ AgreeInv'
      /\ \A c \in Workers : WorkerClient(c) /\ WorkerClient(c)'
      /\ Workers \subseteq Clients
  BY DEF DurableInv, AgreeInv, RtInv, Clients
<1>2. ASSUME NEW c \in Clients, pc[c] # "idle" \/ pc'[c] # "idle" PROVE c \in Workers
  BY <1>2 DEF WorkersInv, OperatorsRest, Clients
<1>3. \A c \in Clients : pc'[c] # "inconsistent"
  BY <1>1 DEF AgreeInv, AgreeClient
<1>4. ASSUME NEW c \in Clients, NEW a \in Admissions, CallInitialize(c, a) PROVE WorkersInv'
  <2>1. /\ pc'[c] = "waiting" /\ call'[c].command = NULL /\ answer'[c] = NULL
        /\ UNCHANGED <<history, orphans, dispatches>>
    BY <1>1, <1>4 DEF CallInitialize, Send, Goto, RtTypeOK
  <2>2. \A d \in Clients : d # c =>
           /\ pc'[d] = pc[d] /\ held'[d] = held[d] /\ call'[d] = call[d]
           /\ answer'[d] = answer[d] /\ outcome'[d] = outcome[d]
    BY <1>1, <1>4 DEF CallInitialize, Send, Goto, RtTypeOK
  <2>3. \A d \in Workers, r \in Runs : AtWork(d, r)' => AtWork(d, r)
    BY <1>1, <2>1, <2>2 DEF AtWork, Ends, Run
  <2>4. \A r \in Runs : EndedByWorker(r)'
    BY <2>1, <2>3, NothingEnds
  <2>5. QED
    BY <1>1, <1>2, <2>1, <2>2, <2>4, WorkerMoves
<1>5. ASSUME NEW c \in Clients, NEW q \in Runs, GetRun(c, q) PROVE WorkersInv'
  <2>1. /\ pc'[c] = "holding" /\ outcome'[c] = outcome[c] /\ answer'[c] = answer[c]
        /\ UNCHANGED <<history, orphans, dispatches>>
    BY <1>1, <1>5 DEF GetRun, Goto, RtTypeOK
  <2>2. \A d \in Clients : d # c =>
           /\ pc'[d] = pc[d] /\ held'[d] = held[d] /\ call'[d] = call[d]
           /\ answer'[d] = answer[d] /\ outcome'[d] = outcome[d]
    BY <1>1, <1>5 DEF GetRun, Goto, RtTypeOK
  <2>3. \A d \in Workers, r \in Runs : AtWork(d, r)' => AtWork(d, r)
    BY <1>1, <2>1, <2>2 DEF AtWork, Ends, Run
  <2>4. \A r \in Runs : EndedByWorker(r)'
    BY <2>1, <2>3, NothingEnds
  <2>5. c \in Workers /\ NeverRefused
    BY <1>2, <2>1 DEF WorkersInv
  <2>6. QED
    BY <1>1, <2>1, <2>2, <2>4, <2>5, WorkerMoves DEF NeverRefused
<1>6. ASSUME NEW c \in Clients, NEW command \in Domain!Command, CallTransition(c, command)
      PROVE  WorkersInv'
  <2>1. /\ pc'[c] = "waiting" /\ answer'[c] = NULL
        /\ call'[c] = [admission |-> held[c].admission, command |-> command]
        /\ UNCHANGED <<history, orphans, dispatches, held, outcome>>
    BY <1>1, <1>6 DEF CallTransition, Send, Goto, RtTypeOK
  <2>2. \A d \in Clients : d # c =>
           /\ pc'[d] = pc[d] /\ held'[d] = held[d] /\ call'[d] = call[d]
           /\ answer'[d] = answer[d] /\ outcome'[d] = outcome[d]
    BY <1>1, <1>6 DEF CallTransition, Send, Goto, RtTypeOK
  <2>3. c \in Workers
    BY <1>2, <2>1
  <2>4. \/ command.kind = "claim"
        \/ pc[c] = "worked" /\ command.kind \in Endings
    BY <1>6, <2>3 DEF CallTransition, WorkerSends, Endings
  <2>5. \A r \in Runs : AtWork(c, r)' => AtWork(c, r)
    BY <2>1, <2>4 DEF AtWork, Ends, Run, Endings
  <2>6. \A d \in Workers, r \in Runs : AtWork(d, r)' => AtWork(d, r)
    BY <1>1, <2>2, <2>5 DEF AtWork, Ends, Run
  <2>7. \A r \in Runs : EndedByWorker(r)'
    BY <2>1, <2>6, NothingEnds
  <2>8. QED
    BY <1>1, <2>1, <2>2, <2>3, <2>4, <2>7, WorkerMoves
<1>7. ASSUME NEW c \in Clients, ReturnTransition(c) PROVE WorkersInv'
  <2>1. c \in Workers
    BY <1>2, <1>7 DEF ReturnTransition
  <2>2. /\ pc'[c] \in {"claimed", "returned"} /\ outcome'[c] = outcome[c]
        /\ answer'[c] = NULL \/ answer'[c] = answer[c]
        /\ UNCHANGED <<history, orphans, dispatches>>
    BY <1>1, <1>3, <1>7, <2>1 DEF ReturnTransition, AfterApplied, Forget, Goto, RtTypeOK
  <2>3. \A d \in Clients : d # c =>
           /\ pc'[d] = pc[d] /\ held'[d] = held[d] /\ call'[d] = call[d]
           /\ answer'[d] = answer[d] /\ outcome'[d] = outcome[d]
    BY <1>1, <1>7 DEF ReturnTransition, Forget, Goto, RtTypeOK
  <2>4. \A d \in Workers, r \in Runs : AtWork(d, r)' => AtWork(d, r)
    BY <1>1, <2>2, <2>3 DEF AtWork, Ends, Run
  <2>5. \A r \in Runs : EndedByWorker(r)'
    BY <2>2, <2>4, NothingEnds
  <2>6. NeverRefused
    BY DEF WorkersInv
  <2>7. QED
    BY <1>1, <2>1, <2>2, <2>3, <2>5, <2>6, WorkerMoves DEF NeverRefused
<1>8. ASSUME NEW c \in Clients, Reset(c), pc[c] # "idle", UNCHANGED <<history, orphans, dispatches>>
      PROVE  WorkersInv'
  <2>1. pc'[c] = "idle" /\ outcome'[c] = NULL
    BY <1>1, <1>8 DEF Reset, Forget, Goto, RtTypeOK
  <2>2. \A d \in Clients : d # c =>
           /\ pc'[d] = pc[d] /\ held'[d] = held[d] /\ call'[d] = call[d]
           /\ answer'[d] = answer[d] /\ outcome'[d] = outcome[d]
    BY <1>1, <1>8 DEF Reset, Forget, Goto, RtTypeOK
  <2>3. \A d \in Workers, r \in Runs : AtWork(d, r)' => AtWork(d, r)
    BY <1>1, <2>1, <2>2 DEF AtWork, Ends, Run
  <2>4. \A r \in Runs : EndedByWorker(r)'
    BY <1>8, <2>3, NothingEnds
  <2>5. QED
    BY <1>1, <1>2, <1>8, <2>1, <2>2, <2>4, WorkerMoves
<1>9. ASSUME NEW c \in Clients, ReturnInitialize(c) PROVE WorkersInv'
  <2>1. Reset(c)
    BY <1>1, <1>3, <1>9 DEF ReturnInitialize, Goto, RtTypeOK
  <2>2. QED
    BY <1>8, <1>9, <2>1 DEF ReturnInitialize
<1>10. ASSUME NEW c \in Clients, Return(c) PROVE WorkersInv'
  BY <1>8, <1>10 DEF Return
<1>11. ASSUME NEW c \in Clients, Dispatch(c) PROVE WorkersInv'
  <2>0. RunOf[held[c].admission] \in Runs
    BY <1>1, <1>11, StoreAssumption DEF Dispatch, RtInv, ClientInv, Domain!Run, Domain!ConstantsOK
  <2> PICK q \in Runs : q = RunOf[held[c].admission]
    BY <2>0
  <2>1. c \in Workers /\ Token(c, q)
    BY <1>2, <1>11 DEF Dispatch, Token
  <2>2. dispatches[q] = 0 /\ EndedByWorker(q)
    BY <2>1 DEF TokenInv, WorkersInv
  <2>3. /\ pc'[c] = "worked" /\ held'[c] = held[c] /\ answer'[c] = answer[c] /\ answer[c] = NULL
        /\ UNCHANGED <<history, orphans>>
    BY <1>1, <1>11 DEF Dispatch, Goto, RtTypeOK, AgreeInv, AgreeClient
  <2>4. \A d \in Clients : d # c =>
           /\ pc'[d] = pc[d] /\ held'[d] = held[d] /\ call'[d] = call[d]
           /\ answer'[d] = answer[d] /\ outcome'[d] = outcome[d]
    BY <1>1, <1>11 DEF Dispatch, Goto, RtTypeOK
  <2>5. \A r \in Runs : dispatches'[r] = IF r = q THEN 1 ELSE dispatches[r]
    BY <1>1, <1>11, <2>1, <2>2 DEF Dispatch, RtTypeOK
  <2>6. \A d \in Workers, r \in Runs : AtWork(d, r)' => (d = c /\ r = q) \/ AtWork(d, r)
    BY <1>1, <2>3, <2>4 DEF AtWork, Ends, Run
  <2>7. EndedByWorker(q)'
    <3>1. NobodyEnds(q) /\ \A d \in Workers : ~AtWork(d, q)
      BY <2>2 DEF EndedByWorker
    <3>2. NobodyEnds(q)'
      BY <2>3, <3>1 DEF NobodyEnds, RowsOf, Ends, Run
    <3>3. \A d \in Workers : AtWork(d, q)' => d = c
      BY <2>1, <2>6, <3>1
    <3>4. QED
      BY <2>1, <2>5, <3>2, <3>3 DEF EndedByWorker
  <2>8. ASSUME NEW r \in Runs, r # q PROVE EndedByWorker(r)'
    BY <2>3, <2>5, <2>6, <2>8, NothingEnds
  <2>9. QED
    BY <1>1, <2>1, <2>3, <2>4, <2>7, <2>8, WorkerMoves
<1>12. ASSUME NEW c \in Clients, Raise(c) PROVE WorkersInv'
  <2>1. c \in Workers /\ Reset(c) /\ UNCHANGED <<history, dispatches>>
    BY <1>2, <1>12 DEF Raise
  <2>2. CASE orphans' = orphans
    BY <1>8, <1>12, <2>1, <2>2 DEF Raise
  <2>3. CASE orphans' # orphans
    <3>1. pc[c] = "waiting" /\ answer[c] = NULL /\ orphans' = orphans \cup {call[c]}
      BY <1>12, <2>3 DEF Raise
    <3>2. pc'[c] = "idle" /\ outcome'[c] = NULL
      BY <1>1, <2>1 DEF Reset, Forget, Goto, RtTypeOK
    <3>3. \A d \in Clients : d # c =>
             /\ pc'[d] = pc[d] /\ held'[d] = held[d] /\ call'[d] = call[d]
             /\ answer'[d] = answer[d] /\ outcome'[d] = outcome[d]
      BY <1>1, <2>1 DEF Reset, Forget, Goto, RtTypeOK
    <3>4. \A d \in Workers, r \in Runs : AtWork(d, r)' => d # c /\ AtWork(d, r)
      BY <1>1, <3>2, <3>3 DEF AtWork, Ends, Run
    <3>5. ASSUME NEW r \in Runs PROVE EndedByWorker(r)'
      <4>1. CASE Ends(call[c], r)
        <5>1. AtWork(c, r)
          BY <3>1, <4>1 DEF AtWork
        <5>2. dispatches[r] # 0 /\ \A d \in Workers : AtWork(d, r) => d = c
          BY <2>1, <5>1 DEF WorkersInv, EndedByWorker
        <5>3. QED
          BY <2>1, <3>4, <5>2 DEF EndedByWorker
      <4>2. CASE ~Ends(call[c], r)
        BY <2>1, <3>1, <3>4, <4>2, NothingEnds
      <4>3. QED
        BY <4>1, <4>2
    <3>6. WorkersCalls'
      BY <1>1, <2>1, <3>1, <3>2, <3>3 DEF WorkersInv, WorkersCalls
    <3>7. NeverRefused'
      BY <1>1, <3>2, <3>3 DEF WorkersInv, NeverRefused
    <3>8. QED
      BY <3>5, <3>6, <3>7 DEF WorkersInv
  <2>4. QED
    BY <2>2, <2>3
<1>13. ASSUME NEW c \in Clients, Serve(c) PROVE WorkersInv'
  <2> DEFINE k == call[c]
  <2>1. /\ c \in Workers /\ pc[c] = "waiting" /\ answer[c] = NULL /\ k \in Call /\ Execute(k)
        /\ UNCHANGED <<pc, held, call, outcome, orphans, dispatches>>
        /\ answer' = [answer EXCEPT ![c] = Reply(k)] /\ answer'[c] = Reply(k)
    BY <1>1, <1>2, <1>13 DEF Serve, RtInv, ClientInv, RtTypeOK
  <2>2. answer'[c] # NULL
    BY <1>1, <2>1, ReplyType, AnswerAssumption DEF RtTypeOK
  <2>3. \A d \in Clients : d # c => answer'[d] = answer[d]
    BY <1>1, <2>1 DEF RtTypeOK
  <2>4. \A d \in Workers, r \in Runs : AtWork(d, r)' => d # c /\ AtWork(d, r)
    BY <1>1, <2>1, <2>2, <2>3 DEF AtWork, Ends, Run
  <2>5. ASSUME NEW h \in history', h \notin history
        PROVE  /\ h.run = Run(k)
               /\ h.kind = IF k.command = NULL THEN "initialize" ELSE k.command.kind
    BY <2>1, <2>5, RowAdded
  <2>6. ASSUME NEW r \in Runs PROVE EndedByWorker(r)'
    <3>1. CASE Ends(k, r)
      <4>1. AtWork(c, r)
        BY <2>1, <3>1 DEF AtWork
      <4>2. dispatches[r] # 0 /\ \A d \in Workers : AtWork(d, r) => d = c
        BY <2>1, <4>1 DEF WorkersInv, EndedByWorker
      <4>3. QED
        BY <2>1, <2>4, <4>2 DEF EndedByWorker
    <3>2. CASE ~Ends(k, r)
      <4>1. \A h \in history' : h \in history \/ h.run # r \/ h.kind \notin Endings
        BY <2>5, <3>2 DEF Ends, Endings
      <4>2. QED
        BY <2>1, <2>4, <4>1, NothingEnds
    <3>3. QED
      BY <3>1, <3>2
  <2>7. WorkersCalls'
    <3>1. k.command # NULL => k.command.kind \in Endings \cup {"claim"}
      BY <2>1 DEF WorkersInv, WorkersCalls
    <3>2. \A h \in history' : h.kind \in Endings \cup {"claim", "initialize"}
      BY <2>5, <3>1 DEF WorkersInv, WorkersCalls
    <3>3. QED
      BY <2>1, <3>2 DEF WorkersInv, WorkersCalls
  <2>8. ASSUME outcome[c] # NULL, Reply(k).status # "applied" PROVE FALSE
    <3>1. ~Claiming(c)
      BY <1>1, <2>1, <2>8 DEF WorkerClient
    <3>2. /\ k.command # NULL /\ k.command.kind = Ending(outcome[c]) /\ held[c] \in Domain!Run
          /\ Overtaken(held[c])'
      BY <1>1, <2>1, <2>2, <2>8, <3>1 DEF WorkerClient, Claiming, Worked
    <3>3. k.admission = held[c].admission /\ RunOf[held[c].admission] \in Runs
      BY <1>1, <2>1, <3>2, StoreAssumption DEF RtInv, ClientInv, Domain!Run, Domain!ConstantsOK
    <3>4. AtWork(c, RunOf[held[c].admission])
      BY <2>1, <3>2, <3>3 DEF AtWork, Ends, Endings, Ending, Run
    <3>5. NobodyEnds(RunOf[held[c].admission])
      BY <2>1, <3>3, <3>4 DEF WorkersInv, EndedByWorker
    <3>6. history' = history
      BY <2>1, <2>8, <3>2, RefusedAddsNothing
    <3>7. PICK h \in RowsOf(RunOf[held[c].admission]) :
            h.before_version = held[c].life.state_version /\ h.kind # "claim"
      BY <2>1, <3>2, <3>6 DEF Overtaken, RowsOf
    <3>8. h \in history /\ h.kind \in Endings \cup {"initialize"}
      BY <3>7 DEF WorkersInv, WorkersCalls, RowsOf
    <3>9. h.kind # "initialize"
      <4>1. held[c].life.state_version \in Nat
        BY <3>2 DEF Domain!Run, Domain!Lifecycle
      <4>2. h.before_version # NULL
        BY <3>7, <4>1, StoreAssumption DEF Domain!ConstantsOK
      <4>3. TransitionRowOk(h)
        BY <1>1, <3>8 DEF AgreeInv, RowsReadable, TransitionHydrates
      <4>4. QED
        BY <4>2, <4>3 DEF TransitionRowOk
    <3>10. QED
      BY <3>5, <3>7, <3>8, <3>9 DEF NobodyEnds
  <2>9. NeverRefused'
    BY <1>1, <2>1, <2>3, <2>8 DEF WorkersInv, NeverRefused
  <2>10. QED
    BY <2>6, <2>7, <2>9 DEF WorkersInv
<1>14. ASSUME NEW k \in orphans, ServeOrphan(k) PROVE WorkersInv'
  <2>1. /\ k \in Call /\ Execute(k) /\ orphans' = orphans \ {k}
        /\ UNCHANGED <<pc, held, call, answer, outcome, dispatches>>
    BY <1>1, <1>14 DEF ServeOrphan, RtTypeOK
  <2>2. \A d \in Workers, r \in Runs : AtWork(d, r)' => AtWork(d, r)
    BY <2>1 DEF AtWork, Ends, Run
  <2>3. ASSUME NEW h \in history', h \notin history
        PROVE  /\ h.run = Run(k)
               /\ h.kind = IF k.command = NULL THEN "initialize" ELSE k.command.kind
    BY <2>1, <2>3, RowAdded
  <2>4. ASSUME NEW r \in Runs PROVE EndedByWorker(r)'
    <3>1. CASE Ends(k, r)
      <4>1. ~NobodyEnds(r) /\ EndedByWorker(r)
        BY <3>1 DEF NobodyEnds, WorkersInv
      <4>2. QED
        BY <2>1, <2>2, <4>1 DEF EndedByWorker
    <3>2. CASE ~Ends(k, r)
      <4>1. \A h \in history' : h \in history \/ h.run # r \/ h.kind \notin Endings
        BY <2>3, <3>2 DEF Ends, Endings
      <4>2. QED
        BY <2>1, <2>2, <4>1, NothingEnds
    <3>3. QED
      BY <3>1, <3>2
  <2>5. WorkersCalls'
    <3>1. k.command # NULL => k.command.kind \in Endings \cup {"claim"}
      BY <1>14 DEF WorkersInv, WorkersCalls
    <3>2. \A h \in history' : h.kind \in Endings \cup {"claim", "initialize"}
      BY <2>3, <3>1 DEF WorkersInv, WorkersCalls
    <3>3. QED
      BY <2>1, <3>2 DEF WorkersInv, WorkersCalls
  <2>6. QED
    BY <2>1, <2>4, <2>5 DEF WorkersInv, NeverRefused
<1>15. QED
  BY <1>4, <1>5, <1>6, <1>7, <1>9, <1>10, <1>11, <1>12, <1>13, <1>14 DEF RtNext, Busy

LEMMA WorkersStutter ==
  ASSUME WorkersInv, UNCHANGED rtVars
  PROVE  WorkersInv'
  BY DEF rtVars, WorkersInv, OperatorsRest, WorkersCalls, NeverRefused, EndedByWorker,
     NobodyEnds, RowsOf, Ends, Run, AtWork

(* A finished run has the row that finished it.                            *)
LEMMA WorkersFinish ==
  ASSUME WorkersInv, DurableInv, AtMostOneDispatch
  PROVE  FinishedAfterDispatch
<1>1. HistoryInv /\ RowsReadable /\ RtTypeOK
  BY DEF DurableInv, AgreeInv, RtInv
<1>2. ASSUME NEW r \in Runs, runs[r] # NULL, runs[r].life.state \in Domain!Terminal
      PROVE  dispatches[r] = 1
  <2>1. runs[r].life \in Domain!Lifecycle /\ Domain!Shape(runs[r].life)
    BY <1>1, <1>2, LifeInRun DEF HistoryInv
  <2>2. runs[r].life.state_version \in 1 .. runs[r].life.state_version
    BY <1>2, <2>1, VersionPositive DEF Domain!Lifecycle
  <2>3. PICK h \in RowsOf(r) : h.after.state_version = runs[r].life.state_version
    BY <1>1, <1>2, <2>2 DEF HistoryInv, HistoryMatchesRun
  <2>4. h.after = runs[r].life /\ h \in history
    BY <1>1, <1>2, <2>3 DEF HistoryInv, HistoryMatchesRun, RowsOf
  <2>5. h.after.state = AfterState[h.kind] /\ h.kind \in Endings \cup {"claim", "initialize"}
    BY <1>1, <2>4 DEF RowsReadable, TransitionHydrates, TransitionRowOk, WorkersInv, WorkersCalls
  <2>6. h.kind \in Endings
    BY <1>2, <2>4, <2>5 DEF AfterState, Endings, Domain!Terminal
  <2>7. dispatches[r] # 0
    BY <2>3, <2>6 DEF WorkersInv, EndedByWorker, NobodyEnds
  <2>8. QED
    BY <1>1, <2>7 DEF AtMostOneDispatch, RtTypeOK
<1>3. QED
  BY <1>2 DEF WorkersInv, NeverRefused, FinishedAfterDispatch

-----------------------------------------------------------------------------
(* The composition of the parts.                                           *)

LEMMA ClientsPart == MCSpec => RtSpec
<1>1. MCInit => RtInit
  BY DEF MCInit
<1>2. [MCNext]_mcVars => [RtNext]_rtVars
  BY DEF MCNext, mcVars, rtVars
<1>3. QED
  BY <1>1, <1>2, PTL DEF MCSpec, RtSpec

LEMMA TablePart == MCSpec => Table!Spec
<1>1. MCInit => Table!Init
  BY DEF MCInit
<1>2. [MCNext]_mcVars => [Table!Next]_Table!vars
  BY DEF MCNext, mcVars, Table!vars
<1>3. QED
  BY <1>1, <1>2, PTL DEF MCSpec, Table!Spec

(* Whatever team of workers acts, and no operator, execute_ready_run ends  *)
(* every run it claimed after it dispatched its work, and the store        *)
(* refuses none of its terminal calls, whatever crashes, late requests and *)
(* clocks do.                                                              *)
THEOREM WorkersAlwaysFinish == MCSpec => []WorkersFinishTheirWork
<1> DEFINE Alone == team \cap Operators = {} => WorkersInv
<1>1. MCInit => Alone
  BY DEF MCInit, RtInit, Init, WorkersInv, OperatorsRest, WorkersCalls, NeverRefused,
     EndedByWorker, NobodyEnds, RowsOf, AtWork, Clients
<1>2. DurableInv /\ DurableInv' /\ TokenInv /\ Alone /\ [MCNext]_mcVars => Alone'
  <2> SUFFICES ASSUME DurableInv, DurableInv', TokenInv, Alone, [MCNext]_mcVars,
                      team' \cap Operators = {}
               PROVE  WorkersInv'
    OBVIOUS
  <2>1. team' = team /\ WorkersInv
    BY DEF MCNext, mcVars
  <2>2. CASE UNCHANGED rtVars
    BY <2>1, <2>2, WorkersStutter
  <2>3. CASE RtNext /\ TeamActs
    <3>1. OperatorsRest'
      BY <2>1, <2>3 DEF TeamActs, OperatorsRest, Clients
    <3>2. QED
      BY <2>1, <2>3, <3>1, WorkersStep
  <2>4. QED
    BY <2>2, <2>3 DEF MCNext, mcVars, rtVars
<1>3. Alone /\ DurableInv /\ AtMostOneDispatch => WorkersFinishTheirWork
  BY WorkersFinish DEF WorkersFinishTheirWork
<1> HIDE DEF Alone
<1>4. QED
  BY <1>1, <1>2, <1>3, ClientsPart, DurableInvariant, TokenInvariant, DispatchedAtMostOnce, PTL
     DEF MCSpec

(* Whatever the two SQL functions are called with, the history of a run is *)
(* its record: complete, replayable, with disjoint leases.                 *)
THEOREM TableKeepsHistory == MCSpec => []HistoryIsTheRun
<1>1. /\ Table!TypeOK
      /\ Table!HistoryMatchesRun /\ Table!HistoryReplays /\ Table!LeasesDisjoint
      => HistoryIsTheRun
  BY DEF HistoryIsTheRun
<1>2. QED
  BY <1>1, TablePart, Table!StoreTypeCorrect, Table!StoreHistoryCorrect, TableAssumption, PTL

(* The table the model checker runs changes only as the Python domain lets *)
(* it (StoreImplementsLifecycle says it of every table).                   *)
THEOREM TableFollowsLifecycle == MCSpec => TableImplementsLifecycle
<1>1. [Table!Domain!Next]_tableRuns => [part = "table" => Table!Domain!Next]_tableRuns
  OBVIOUS
<1>2. QED
  BY <1>1, TablePart, Table!StoreImplementsLifecycle, TableAssumption, PTL
     DEF TableImplementsLifecycle, Table!ImplementsLifecycle, Table!Domain!Spec

-----------------------------------------------------------------------------
(* The slots: schedules, calendars and events become admissions.           *)

(* Every set of naturals that has a member has a least one.                *)
LEMMA LeastNatural ==
  ASSUME NEW T, T \subseteq Nat, T # {}
  PROVE  \E x \in T : \A y \in T : x <= y
<1>1. PICK R : R = {ss \in Nat \X Nat : ss[1] < ss[2]}
  OBVIOUS
<1>2. IsWellFoundedOn(R, Nat)
  BY <1>1, NatLessThanWellFounded, Zenon DEF OpToRel
<1>3. PICK x \in T : \A y \in T : ~ (<<y, x>> \in R)
  BY <1>2, WFMin
<1>4. \A y \in T : y < x => <<y, x>> \in R
  BY <1>1
<1>5. \A y \in T : ~ (y < x)
  BY <1>3, <1>4
<1>6. \A y \in T : x <= y
  BY <1>5
<1>. QED
  BY <1>6

(* A set of instants has a first and a last one.                           *)
LEMMA Extremes ==
  ASSUME Slots!SlotConstants, NEW S \in SUBSET Hours, S # {}
  PROVE  /\ Slots!Min(S) \in S /\ \A x \in S : Slots!Min(S) <= x
         /\ Slots!Max(S) \in S /\ \A x \in S : x <= Slots!Max(S)
<1>1. PICK last \in Hours : \A i \in Hours : i <= last
  BY DEF Slots!SlotConstants
<1>2. Hours \subseteq Nat
  BY DEF Slots!SlotConstants
<1>3. PICK a \in S : \A x \in S : a <= x
  BY <1>2, LeastNatural
<1>4. PICK T : T = {last - x : x \in S}
  OBVIOUS
<1>5. T \subseteq Nat /\ T # {}
  BY <1>1, <1>2, <1>4
<1>6. PICK t \in T : \A u \in T : t <= u
  BY <1>5, LeastNatural
<1>7. PICK b \in S : t = last - b
  BY <1>4, <1>6
<1>8. \A x \in S : x <= b
  <2> SUFFICES ASSUME NEW x \in S PROVE x <= b
    OBVIOUS
  <2>1. t <= last - x
    BY <1>4, <1>6
  <2>. QED
    BY <1>1, <1>2, <1>7, <2>1
<1>9. Slots!Min(S) \in S /\ \A x \in S : Slots!Min(S) <= x
  BY <1>3 DEF Slots!Min
<1>10. Slots!Max(S) \in S /\ \A x \in S : x <= Slots!Max(S)
  BY <1>8 DEF Slots!Max
<1>. QED
  BY <1>9, <1>10

(* One instant or two.                                                     *)
LEMMA OneOrTwo ==
  ASSUME NEW a, NEW b
  PROVE  /\ IsFiniteSet({a, b}) /\ Cardinality({}) = 0
         /\ a = b => Cardinality({a, b}) = 1
         /\ a # b => Cardinality({a, b}) = 2
<1>1. IsFiniteSet({b}) /\ Cardinality({b}) = 1
  BY FS_Singleton
<1>2. IsFiniteSet({b} \cup {a}) /\ (a \notin {b} => Cardinality({b} \cup {a}) = 1 + 1)
  BY <1>1, FS_AddElement, Zenon
<1>3. {b} \cup {a} = {a, b}
  OBVIOUS
<1>4. a = b => {a, b} = {b}
  OBVIOUS
<1>. QED
  BY <1>1, <1>2, <1>3, <1>4, FS_EmptySet

(* The candidates of a wall time are its first and its last showing.       *)
LEMMA CandidateFacts ==
  ASSUME Slots!SlotConstants, NEW tz, NEW o, NEW S, S = Slots!Showing(tz, o.zone, Slots!Wall(o))
  PROVE  /\ S \in SUBSET Hours
         /\ S = {} => Slots!Candidates(tz, o) = {}
         /\ S # {} => Slots!Candidates(tz, o) = {Slots!Min(S), Slots!Max(S)}
<1>1. S \in SUBSET Hours
  BY DEF Slots!Showing
<1>2. \A i : i \in S <=> i \in Hours /\ Slots!Local(tz, o.zone, i) = Slots!Wall(o)
  BY DEF Slots!Showing
<1>3. S = {} => Slots!Candidates(tz, o) = {}
  BY <1>2 DEF Slots!Candidates
<1>4. ASSUME S # {} PROVE Slots!Candidates(tz, o) = {Slots!Min(S), Slots!Max(S)}
  <2>1. Slots!FoldInstant(tz, o.zone, Slots!Wall(o), 0) = Slots!Min(S)
    BY <1>4 DEF Slots!FoldInstant
  <2>2. Slots!FoldInstant(tz, o.zone, Slots!Wall(o), 1) = Slots!Max(S)
    BY <1>4 DEF Slots!FoldInstant
  <2>3. Slots!Min(S) \in S /\ Slots!Max(S) \in S
    BY <1>1, <1>4, Extremes
  <2>4. {Slots!FoldInstant(tz, o.zone, Slots!Wall(o), fold) : fold \in {0, 1}}
          = {Slots!Min(S), Slots!Max(S)}
    BY <2>1, <2>2
  <2>5. Slots!Candidates(tz, o) = {i \in {Slots!Min(S), Slots!Max(S)} : i \in S}
    BY <1>2, <2>4 DEF Slots!Candidates
  <2>. QED
    BY <2>3, <2>5
<1>. QED
  BY <1>1, <1>3, <1>4

(* What _resolve_utc returns: an instant at which the clock shows the wall *)
(* time, at most one, and none only when the clock never shows it or shows *)
(* it twice to a policy that rejects.                                      *)
LEMMA ResolvedFacts ==
  ASSUME Slots!SlotConstants, NEW tz, NEW o, NEW S, S = Slots!Showing(tz, o.zone, Slots!Wall(o))
  PROVE  /\ Slots!Resolved(tz, o) \subseteq S
         /\ \A x, y \in Slots!Resolved(tz, o) : x = y
         /\ (Slots!Resolved(tz, o) = {})
              <=> (S = {} \/ (Slots!Cardinality(S) > 1 /\ o.policy = "REJECT"))
<1> DEFINE a == Slots!Min(S)
           b == Slots!Max(S)
           c == Slots!Candidates(tz, o)
<1>1. /\ S \in SUBSET Hours /\ (S = {} => c = {}) /\ (S # {} => c = {a, b})
  BY CandidateFacts
<1>2. Hours \subseteq Nat /\ IsFiniteSet(Hours)
  <2>1. PICK last \in Hours : \A i \in Hours : i <= last
    BY DEF Slots!SlotConstants
  <2>2. Hours \subseteq Nat
    BY DEF Slots!SlotConstants
  <2>3. IsFiniteSet(0 .. last)
    BY <2>2, FS_Interval
  <2>4. Hours \in SUBSET (0 .. last)
    BY <2>1, <2>2
  <2>. QED
    BY <2>2, <2>3, <2>4, FS_Subset
<1>3. IsFiniteSet(S)
  BY <1>1, <1>2, FS_Subset
<1>4. CASE S = {}
  <2>1. Cardinality({}) = 0 /\ Slots!Cardinality({}) = Cardinality({})
    BY OneOrTwo DEF Slots!Cardinality, Cardinality
  <2>2. Slots!Resolved(tz, o) = {}
    BY <1>1, <1>4, <2>1 DEF Slots!Resolved
  <2>. QED
    BY <1>4, <2>2
<1>5. CASE S # {}
  <2>1. c = {a, b} /\ a \in S /\ b \in S
    BY <1>1, <1>5, Extremes
  <2>2. /\ \A x \in S : a <= x /\ x <= b
    BY <1>1, <1>5, Extremes
  <2>3. \A T : Slots!Cardinality(T) = Cardinality(T)
    BY DEF Slots!Cardinality, Cardinality
  <2>4. CASE a = b
    <3> HIDE DEF a, b, c
    <3>1. S = {a, b}
      <4>1. \A x \in S : x = a
        <5> SUFFICES ASSUME NEW x \in S PROVE x = a
          OBVIOUS
        <5>1. x \in Nat /\ a \in Nat /\ a <= x /\ x <= a
          BY <1>1, <1>2, <2>1, <2>2, <2>4
        <5>. QED
          BY <5>1
      <4>. QED
        BY <2>1, <2>4, <4>1
    <3>2. Slots!Cardinality(S) = 1 /\ Slots!Cardinality(c) = 1
      <4>1. Cardinality({a, b}) = 1
        BY <2>4, OneOrTwo
      <4>2. S = {a, b} /\ c = {a, b}
        BY <2>1, <3>1
      <4>. QED
        BY <2>3, <4>1, <4>2
    <3>3. Slots!Resolved(tz, o) = {a}
      BY <2>1, <2>4, <3>2 DEF Slots!Resolved, c
    <3>. QED
      BY <1>5, <2>1, <3>2, <3>3
  <2>5. CASE a # b
    <3>1. Cardinality({a, b}) = 2 /\ {a, b} \in SUBSET S
      BY <2>1, <2>5, OneOrTwo
    <3>2. Cardinality(S) >= 2
      BY <1>3, <3>1, FS_Subset, FS_CardinalityType
    <3>3. Slots!Cardinality(S) > 1 /\ Slots!Cardinality(c) = 2
      <4>1. Cardinality(S) \in Nat
        BY <1>3, FS_CardinalityType
      <4>. QED
        BY <2>1, <2>3, <3>1, <3>2, <4>1
    <3>4. Slots!Min(c) \in S /\ Slots!Max(c) \in S
      BY <1>1, <2>1, Extremes
    <3>5. /\ o.policy = "REJECT" => Slots!Resolved(tz, o) = {}
          /\ o.policy = "EARLIER" => Slots!Resolved(tz, o) = {Slots!Min(c)}
          /\ o.policy # "REJECT" /\ o.policy # "EARLIER"
               => Slots!Resolved(tz, o) = {Slots!Max(c)}
      BY <3>3 DEF Slots!Resolved
    <3>. QED
      BY <1>5, <3>3, <3>4, <3>5
  <2>. QED
    BY <2>4, <2>5
<1>. QED
  BY <1>4, <1>5

(* The trigger of an occurrence at an instant, and the two admissions of   *)
(* it.                                                                     *)
TriggerOf(o, at) ==
  [ kind |-> "scheduled", at |-> at, cause |-> NULL, auth |-> o.auth,
    id |-> Slots!ScheduledIdentity(o, at) ]

DirectOf(o, at) == Slots!Admission("direct", TriggerOf(o, at), o)

CalendarOf(r, d, e, c, cutoff, at) ==
  Slots!Admission("calendar", TriggerOf(Slots!OccurrenceOn(r, d), at),
    [ recurrence |-> r, date |-> d, evidence |-> e, constraint |-> c,
      cutoff |-> cutoff, verdict |-> Slots!Judged(at, e, c) ])

(* The triggers of an occurrence, by the instants it resolves to.          *)
LEMMA ScheduledTriggers ==
  ASSUME NEW tz, NEW o
  PROVE  Slots!ScheduledTrigger(tz, o)
           = {TriggerOf(o, at) : at \in {i \in Slots!Resolved(tz, o) : Slots!AuthorityOk(o.auth)}}
  BY DEF Slots!ScheduledTrigger, Slots!Trigger, TriggerOf

(* The admissions of an occurrence, by the same instants.                  *)
LEMMA DirectAdmissions ==
  ASSUME NEW tz, NEW o, NEW a
  PROVE  a \in Slots!AdmitOccurrence(tz, o)
           <=> Slots!AuthorityOk(o.auth) /\ \E at \in Slots!Resolved(tz, o) : a = DirectOf(o, at)
  BY ScheduledTriggers DEF Slots!AdmitOccurrence, DirectOf

(* The admissions of a date that a calendar allows, likewise.              *)
LEMMA CalendarAdmissions ==
  ASSUME NEW tz, NEW r, NEW d, NEW e, NEW c, NEW cutoff, NEW a
  PROVE  a \in Slots!AdmitApplicable(tz, r, d, e, c, cutoff)
           <=> /\ Slots!Eligible(r, d) /\ Slots!AuthorityOk(r.auth)
               /\ \E at \in Slots!Resolved(tz, Slots!OccurrenceOn(r, d)) :
                    /\ Slots!Agrees(r, d, e, c, cutoff, at)
                    /\ Slots!Judged(at, e, c).status = "APPLICABLE"
                    /\ a = CalendarOf(r, d, e, c, cutoff, at)
<1> DEFINE o == Slots!OccurrenceOn(r, d)
           App(at) == [trigger |-> TriggerOf(o, at), verdict |-> Slots!Judged(at, e, c)]
           Good(at) == Slots!Agrees(r, d, e, c, cutoff, at)
<1>1. UNION {Slots!ScheduledTrigger(tz, p) : p \in Slots!Materialized(r, d)}
        = {TriggerOf(o, at) : at \in {i \in Slots!Resolved(tz, o) :
             Slots!Eligible(r, d) /\ Slots!AuthorityOk(r.auth)}}
  <2>1. o.auth = r.auth
    BY DEF Slots!OccurrenceOn
  <2>2. Slots!ScheduledTrigger(tz, o)
          = {TriggerOf(o, at) : at \in {i \in Slots!Resolved(tz, o) : Slots!AuthorityOk(r.auth)}}
    BY <2>1, ScheduledTriggers
  <2>3. Slots!Materialized(r, d) = IF Slots!Eligible(r, d) THEN {o} ELSE {}
    BY DEF Slots!Materialized
  <2>. HIDE DEF o
  <2>. QED
    BY <2>2, <2>3
<1>2. \A at : TriggerOf(o, at).at = at
  BY DEF TriggerOf
<1>3. Slots!Applicability(tz, r, d, e, c, cutoff)
        = {App(at) : at \in {i \in Slots!Resolved(tz, o) :
             Slots!Eligible(r, d) /\ Slots!AuthorityOk(r.auth) /\ Good(i)}}
  <2>. HIDE DEF o, Good
  <2>1. {u \in UNION {Slots!ScheduledTrigger(tz, p) : p \in Slots!Materialized(r, d)} : Good(u.at)}
          = {TriggerOf(o, at) : at \in {i \in Slots!Resolved(tz, o) :
               Slots!Eligible(r, d) /\ Slots!AuthorityOk(r.auth) /\ Good(i)}}
    BY <1>1, <1>2
  <2>2. Slots!Applicability(tz, r, d, e, c, cutoff)
          = {[trigger |-> t, verdict |-> Slots!Judged(t.at, e, c)] :
               t \in {u \in UNION {Slots!ScheduledTrigger(tz, p) : p \in Slots!Materialized(r, d)} : Good(u.at)}}
    BY DEF Slots!Applicability, Good
  <2>. QED
    BY <1>2, <2>1, <2>2
<1>4. \A at : App(at).verdict = Slots!Judged(at, e, c) /\ App(at).trigger = TriggerOf(o, at)
  OBVIOUS
<1> DEFINE Adm(b) == Slots!Admission("calendar", b.trigger,
                       [ recurrence |-> r, date |-> d, evidence |-> e, constraint |-> c,
                         cutoff |-> cutoff, verdict |-> b.verdict ])
<1>5. \A at : Adm(App(at)) = CalendarOf(r, d, e, c, cutoff, at)
  BY <1>4 DEF CalendarOf
<1>6. Slots!AdmitApplicable(tz, r, d, e, c, cutoff)
        = {Adm(b) : b \in {z \in Slots!Applicability(tz, r, d, e, c, cutoff) :
                             z.verdict.status = "APPLICABLE"}}
  BY DEF Slots!AdmitApplicable
<1>. HIDE DEF o, App, Good, Adm
<1>7. a \in Slots!AdmitApplicable(tz, r, d, e, c, cutoff)
        <=> \E at \in Slots!Resolved(tz, o) :
              /\ Slots!Eligible(r, d) /\ Slots!AuthorityOk(r.auth) /\ Good(at)
              /\ App(at).verdict.status = "APPLICABLE" /\ a = Adm(App(at))
  BY <1>3, <1>6
<1>. QED
  BY <1>4, <1>5, <1>7 DEF o, Good

(* The identity of a slot says which slot it is, and when.                 *)
LEMMA IdentityTells ==
  ASSUME NEW r, NEW d, NEW at, NEW q, NEW f, NEW bt,
         Slots!ScheduledIdentity(Slots!OccurrenceOn(r, d), at)
           = Slots!ScheduledIdentity(Slots!OccurrenceOn(q, f), bt)
  PROVE  Slots!OccurrenceOn(r, d) = Slots!OccurrenceOn(q, f) /\ at = bt /\ d = f
  BY DEF Slots!ScheduledIdentity, Slots!OccurrenceOn

(* What the store of the slots holds.  A row is the payload of an          *)
(* admission made, under the rules it names, of one date of a recurrence,  *)
(* of such a date that a calendar allowed, or of a cause; no two rows have *)
(* one identity.                                                           *)
DirectRow(s) ==
  \E r \in Recurrences, d \in Dates :
    /\ Slots!RecurrenceOk(r) /\ Slots!Eligible(r, d)
    /\ \E at \in Slots!Resolved(s.under, Slots!OccurrenceOn(r, d)) :
         s.admission = DirectOf(Slots!OccurrenceOn(r, d), at)

CalendarRow(s) ==
  \E r \in Recurrences, d \in Dates, e \in Evidence, c \in Constraints, cutoff \in Cutoffs :
    /\ Slots!RecurrenceOk(r) /\ Slots!Eligible(r, d)
    /\ Slots!EvidenceOk(s.under, e) /\ Slots!Bound(e, cutoff)
    /\ \E at \in Slots!Resolved(s.under, Slots!OccurrenceOn(r, d)) :
         /\ Slots!Agrees(r, d, e, c, cutoff, at)
         /\ Slots!Judged(at, e, c).status = "APPLICABLE"
         /\ s.admission = CalendarOf(r, d, e, c, cutoff, at)

EventRow(s) == \E e \in Events : s.admission \in Slots!AdmitEventOccurrence(e)

SlotRow(s) ==
  /\ s.under \in RuleSets /\ s.payload = Slots!Serialized(s.admission)
  /\ DirectRow(s) \/ CalendarRow(s) \/ EventRow(s)

SlotInv ==
  /\ rules \in RuleSets
  /\ \A s \in stored : SlotRow(s)
  /\ \A s, t \in stored : s.payload.id = t.payload.id => s = t

(* Storing an admission of one of the three kinds keeps the store in order. *)
LEMMA StoreStep ==
  ASSUME SlotInv, NEW a, Slots!Store(a),
         NEW s, s = [payload |-> Slots!Serialized(a), admission |-> a, under |-> rules],
         DirectRow(s) \/ CalendarRow(s) \/ EventRow(s)
  PROVE  SlotInv'
<1>1. rules' = rules /\ stored' = stored \cup {s} /\ rules \in RuleSets
  BY DEF Slots!Store, SlotInv
<1>2. s.payload = Slots!Serialized(a) /\ s.payload.id = a.id /\ s.admission = a /\ s.under = rules
  BY DEF Slots!Serialized
<1>3. SlotRow(s)
  BY <1>1, <1>2 DEF SlotRow
<1>4. \A t \in stored : t.payload.id # s.payload.id
  BY <1>2 DEF Slots!Store
<1>5. \A t \in stored' : SlotRow(t)
  BY <1>1, <1>3 DEF SlotInv
<1>6. \A t, u \in stored' : t.payload.id = u.payload.id => t = u
  BY <1>1, <1>4 DEF SlotInv
<1>. QED
  BY <1>1, <1>5, <1>6 DEF SlotInv, SlotRow, DirectRow, CalendarRow, EventRow

(* Every step of the slots does.                                           *)
LEMMA SlotsStep ==
  ASSUME SlotInv, Slots!Next
  PROVE  SlotInv'
<1>1. ASSUME NEW r \in Recurrences, NEW d \in Dates, Slots!AdmitDirect(r, d)
      PROVE  SlotInv'
  <2>1. PICK a \in Slots!AdmitOccurrence(rules, Slots!OccurrenceOn(r, d)) :
          Slots!Store(a) /\ Slots!RecurrenceOk(r) /\ Slots!Eligible(r, d)
    BY <1>1 DEF Slots!AdmitDirect, Slots!Materialized
  <2>2. PICK at \in Slots!Resolved(rules, Slots!OccurrenceOn(r, d)) :
          a = DirectOf(Slots!OccurrenceOn(r, d), at)
    BY <2>1, DirectAdmissions
  <2>3. DirectRow([payload |-> Slots!Serialized(a), admission |-> a, under |-> rules])
    BY <2>1, <2>2 DEF DirectRow
  <2>. QED
    BY <2>1, <2>3, StoreStep
<1>2. ASSUME NEW r \in Recurrences, NEW d \in Dates, NEW e \in Evidence,
             NEW c \in Constraints, NEW cutoff \in Cutoffs,
             Slots!AdmitByCalendar(r, d, e, c, cutoff)
      PROVE  SlotInv'
  <2>1. PICK a \in Slots!AdmitApplicable(rules, r, d, e, c, cutoff) :
          /\ Slots!Store(a) /\ Slots!RecurrenceOk(r)
          /\ Slots!EvidenceOk(rules, e) /\ Slots!Bound(e, cutoff)
    BY <1>2 DEF Slots!AdmitByCalendar
  <2>2. Slots!Eligible(r, d)
    BY <2>1, CalendarAdmissions
  <2>3. PICK at \in Slots!Resolved(rules, Slots!OccurrenceOn(r, d)) :
          /\ Slots!Agrees(r, d, e, c, cutoff, at)
          /\ Slots!Judged(at, e, c).status = "APPLICABLE"
          /\ a = CalendarOf(r, d, e, c, cutoff, at)
    BY <2>1, CalendarAdmissions
  <2>4. CalendarRow([payload |-> Slots!Serialized(a), admission |-> a, under |-> rules])
    BY <2>1, <2>2, <2>3 DEF CalendarRow
  <2>. QED
    BY <2>1, <2>4, StoreStep
<1>3. ASSUME NEW e \in Events, Slots!AdmitEvent(e)
      PROVE  SlotInv'
  <2>1. PICK a \in Slots!AdmitEventOccurrence(e) : Slots!Store(a)
    BY <1>3 DEF Slots!AdmitEvent
  <2>2. EventRow([payload |-> Slots!Serialized(a), admission |-> a, under |-> rules])
    BY <2>1 DEF EventRow
  <2>. QED
    BY <2>1, <2>2, StoreStep
<1>4. ASSUME NEW tz \in RuleSets, Slots!ReplaceRules(tz)
      PROVE  SlotInv'
  BY <1>4 DEF Slots!ReplaceRules, SlotInv, SlotRow, DirectRow, CalendarRow, EventRow
<1>. QED
  BY <1>1, <1>2, <1>3, <1>4 DEF Slots!Next

(* The slot of a row and the instant it is due.                            *)
LEMMA RowFacts ==
  ASSUME NEW s, SlotRow(s)
  PROVE  /\ s.payload.id = s.admission.trigger.id
         /\ s.payload.source = s.admission.source
         /\ s.payload.source = "direct" <=> DirectRow(s)
         /\ s.payload.source = "calendar" <=> CalendarRow(s)
         /\ s.payload.source = "event" <=> EventRow(s)
         /\ s.payload.source \in {"direct", "calendar", "event"}
<1>1. /\ s.payload.id = s.admission.id /\ s.payload.source = s.admission.source
  BY DEF SlotRow, Slots!Serialized
<1>2. DirectRow(s) => s.admission.source = "direct" /\ s.admission.id = s.admission.trigger.id
  BY DEF DirectRow, DirectOf, Slots!Admission
<1>3. CalendarRow(s) => s.admission.source = "calendar" /\ s.admission.id = s.admission.trigger.id
  BY DEF CalendarRow, CalendarOf, Slots!Admission
<1>4. EventRow(s) => s.admission.source = "event" /\ s.admission.id = s.admission.trigger.id
  BY DEF EventRow, Slots!AdmitEventOccurrence, Slots!Admission
<1>. QED
  BY <1>1, <1>2, <1>3, <1>4 DEF SlotRow

(* A scheduled row, by either path, has a slot and an instant.             *)
LEMMA DueFacts ==
  ASSUME NEW s, SlotRow(s), s.payload.source # "event"
  PROVE  \E r \in Recurrences, d \in Dates :
           LET o == Slots!OccurrenceOn(r, d)
               at == s.admission.trigger.at
           IN  /\ Slots!RecurrenceOk(r) /\ Slots!Eligible(r, d)
               /\ Slots!SlotOf(s) = o /\ at \in Slots!Resolved(s.under, o)
               /\ s.admission.trigger = TriggerOf(o, at)
               /\ s.payload.id = Slots!ScheduledIdentity(o, at)
<1>0. \A o, at : TriggerOf(o, at).at = at /\ TriggerOf(o, at).id = Slots!ScheduledIdentity(o, at)
  BY DEF TriggerOf
<1>1. CASE DirectRow(s)
  <2>1. PICK r \in Recurrences, d \in Dates :
          /\ Slots!RecurrenceOk(r) /\ Slots!Eligible(r, d)
          /\ \E at \in Slots!Resolved(s.under, Slots!OccurrenceOn(r, d)) :
               s.admission = DirectOf(Slots!OccurrenceOn(r, d), at)
    BY <1>1 DEF DirectRow
  <2>2. PICK at \in Slots!Resolved(s.under, Slots!OccurrenceOn(r, d)) :
          s.admission = DirectOf(Slots!OccurrenceOn(r, d), at)
    BY <2>1
  <2>3. /\ s.admission.trigger = TriggerOf(Slots!OccurrenceOn(r, d), at)
        /\ s.admission.proof = Slots!OccurrenceOn(r, d)
    BY <2>2 DEF DirectOf, Slots!Admission
  <2>4. Slots!SlotOf(s) = Slots!OccurrenceOn(r, d)
    BY <1>1, <2>3, RowFacts DEF Slots!SlotOf
  <2>. QED
    BY <1>0, <2>1, <2>3, <2>4, RowFacts
<1>2. CASE CalendarRow(s)
  <2>1. PICK r \in Recurrences, d \in Dates, e \in Evidence, c \in Constraints, cutoff \in Cutoffs :
          /\ Slots!RecurrenceOk(r) /\ Slots!Eligible(r, d)
          /\ \E at \in Slots!Resolved(s.under, Slots!OccurrenceOn(r, d)) :
               s.admission = CalendarOf(r, d, e, c, cutoff, at)
    BY <1>2 DEF CalendarRow
  <2>2. PICK at \in Slots!Resolved(s.under, Slots!OccurrenceOn(r, d)) :
          s.admission = CalendarOf(r, d, e, c, cutoff, at)
    BY <2>1
  <2>3. /\ s.admission.trigger = TriggerOf(Slots!OccurrenceOn(r, d), at)
        /\ s.admission.proof.recurrence = r /\ s.admission.proof.date = d
    BY <2>2 DEF CalendarOf, Slots!Admission
  <2>4. Slots!SlotOf(s) = Slots!OccurrenceOn(r, d)
    BY <1>2, <2>3, RowFacts DEF Slots!SlotOf
  <2>. QED
    BY <1>0, <2>1, <2>3, <2>4, RowFacts
<1>. QED
  BY <1>1, <1>2, RowFacts DEF SlotRow

(* A row shows its wall time at the instant it is due.                     *)
LEMMA DueTime ==
  ASSUME Slots!SlotConstants, NEW tz \in RuleSets, NEW r \in Recurrences, NEW d \in Dates,
         NEW at \in Slots!Resolved(tz, Slots!OccurrenceOn(r, d))
  PROVE  /\ at \in Hours /\ at \in Nat /\ at # NULL
         /\ Slots!Local(tz, r.zone, at) = d * DayLen + r.time
         /\ Slots!DateOf(tz, r.zone, at) = d
<1> DEFINE o == Slots!OccurrenceOn(r, d)
<1>1. o.zone = r.zone /\ Slots!Wall(o) = d * DayLen + r.time
  BY DEF Slots!OccurrenceOn, Slots!Wall
<1>2. at \in Slots!Showing(tz, o.zone, Slots!Wall(o))
  BY ResolvedFacts
<1>3. at \in Hours /\ Slots!Local(tz, r.zone, at) = d * DayLen + r.time
  BY <1>1, <1>2 DEF Slots!Showing
<1>4. at \in Nat /\ at # NULL
  BY <1>3 DEF Slots!SlotConstants
<1>5. DayLen \in Nat \ {0} /\ d \in Int /\ r.time \in 0 .. DayLen - 1
  BY DEF Slots!SlotConstants
<1>6. \A q \in Int, b \in Nat \ {0} : \A t \in 0 .. b - 1 : (q * b + t) \div b = q
  OBVIOUS
<1>7. (d * DayLen + r.time) \div DayLen = d
  BY <1>5, <1>6
<1>. QED
  BY <1>3, <1>4, <1>7 DEF Slots!DateOf

(* Sources, instants and owners of the rows.                               *)
LEMMA SlotTypes ==
  ASSUME Slots!SlotConstants, SlotInv
  PROVE  Slots!TypeOK
<1>1. ASSUME NEW s \in stored
      PROVE  /\ s.payload.source \in {"direct", "calendar", "event"}
             /\ s.under \in RuleSets
             /\ (s.admission.trigger.at = NULL) <=> (s.payload.source = "event")
             /\ Slots!AuthorityOk(s.admission.trigger.auth)
  <2>1. SlotRow(s) /\ s.under \in RuleSets
    BY <1>1 DEF SlotInv, SlotRow
  <2>2. CASE s.payload.source # "event"
    <3>1. PICK r \in Recurrences, d \in Dates :
            /\ Slots!RecurrenceOk(r)
            /\ s.admission.trigger.at \in Slots!Resolved(s.under, Slots!OccurrenceOn(r, d))
            /\ s.admission.trigger = TriggerOf(Slots!OccurrenceOn(r, d), s.admission.trigger.at)
      BY <2>1, <2>2, DueFacts
    <3>2. s.admission.trigger.at # NULL
      BY <2>1, <3>1, DueTime
    <3>3. s.admission.trigger.auth = r.auth
      BY <3>1 DEF TriggerOf, Slots!OccurrenceOn
    <3>. QED
      BY <2>1, <2>2, <3>1, <3>2, <3>3, RowFacts DEF Slots!RecurrenceOk
  <2>3. CASE s.payload.source = "event"
    <3>1. PICK e \in Events : s.admission \in Slots!AdmitEventOccurrence(e)
      BY <2>1, <2>3, RowFacts DEF EventRow
    <3>2. s.admission.trigger \in Slots!EventTrigger(e)
      BY <3>1 DEF Slots!AdmitEventOccurrence, Slots!Admission
    <3>3. /\ s.admission.trigger.at = NULL
          /\ Slots!AuthorityOk(s.admission.trigger.auth)
      BY <3>2 DEF Slots!EventTrigger, Slots!Trigger
    <3>. QED
      BY <2>1, <2>3, <3>3
  <2>. QED
    BY <2>2, <2>3
<1>2. \A a : Slots!AuthorityOk(a) => ((a.work = "source_data_refresh") <=> (a.owner = NULL))
  BY DEF Slots!AuthorityOk
<1>. QED
  BY <1>1, <1>2 DEF Slots!TypeOK, SlotInv

(* A recurrence occurs exactly when the clock shows its time.              *)
LEMMA ClockShows ==
  ASSUME Slots!SlotConstants
  PROVE  Slots!OccursWhenTheClockShows
<1>1. ASSUME NEW r \in Recurrences, NEW d \in Dates, Slots!RecurrenceOk(r), Slots!Eligible(r, d),
             NEW o, o = Slots!OccurrenceOn(r, d)
      PROVE  LET shown == Slots!Showing(rules, r.zone, Slots!Wall(o))
                 at == {t.at : t \in Slots!ScheduledTrigger(rules, o)}
             IN  /\ at \subseteq shown
                 /\ (at = {}) <=>
                      (shown = {} \/ (Slots!Cardinality(shown) > 1 /\ r.policy = "REJECT"))
  <2>1. o.zone = r.zone /\ o.policy = r.policy /\ o.auth = r.auth
    BY <1>1 DEF Slots!OccurrenceOn
  <2>2. Slots!AuthorityOk(o.auth)
    BY <1>1, <2>1 DEF Slots!RecurrenceOk
  <2>3. Slots!ScheduledTrigger(rules, o) = {TriggerOf(o, i) : i \in Slots!Resolved(rules, o)}
    BY <2>2, ScheduledTriggers
  <2>4. \A i : TriggerOf(o, i).at = i
    BY DEF TriggerOf
  <2>5. {t.at : t \in Slots!ScheduledTrigger(rules, o)} = Slots!Resolved(rules, o)
    BY <2>3, <2>4
  <2>6. PICK S : S = Slots!Showing(rules, o.zone, Slots!Wall(o))
    OBVIOUS
  <2>7. /\ Slots!Resolved(rules, o) \subseteq S
        /\ (Slots!Resolved(rules, o) = {})
             <=> (S = {} \/ (Slots!Cardinality(S) > 1 /\ o.policy = "REJECT"))
    BY <2>6, ResolvedFacts
  <2>. QED
    BY <2>1, <2>5, <2>6, <2>7
<1>. QED
  BY <1>1 DEF Slots!OccursWhenTheClockShows

(* Two dates of a recurrence are a day apart on its clock, and the clock   *)
(* is never set back by a day.                                             *)
LEMMA DaysApart ==
  ASSUME Slots!SlotConstants, NEW tz \in RuleSets, NEW r \in Recurrences,
         NEW d \in Dates, NEW f \in Dates, d < f,
         NEW at \in Slots!Resolved(tz, Slots!OccurrenceOn(r, d)),
         NEW bt \in Slots!Resolved(tz, Slots!OccurrenceOn(r, f))
  PROVE  at < bt
<1>1. /\ at \in Hours /\ bt \in Hours /\ at \in Nat /\ bt \in Nat
      /\ Slots!Local(tz, r.zone, at) = d * DayLen + r.time
      /\ Slots!Local(tz, r.zone, bt) = f * DayLen + r.time
  BY DueTime
<1>2. d \in Int /\ f \in Int /\ DayLen \in Nat \ {0} /\ r.time \in Int
  BY DEF Slots!SlotConstants
<1>3. \A p, q \in Int, b \in Nat \ {0} : p < q => q * b - p * b >= b
  OBVIOUS
<1>4. f * DayLen - d * DayLen >= DayLen
  BY <1>2, <1>3
<1>5. d * DayLen \in Int /\ f * DayLen \in Int
  BY <1>2
<1>6. Slots!Local(tz, r.zone, bt) - Slots!Local(tz, r.zone, at) >= DayLen
  BY <1>1, <1>2, <1>4, <1>5
<1>7. bt <= at => Slots!Local(tz, r.zone, bt) - Slots!Local(tz, r.zone, at) < DayLen
  BY <1>1 DEF Slots!SlotConstants
<1>8. Slots!Local(tz, r.zone, bt) - Slots!Local(tz, r.zone, at) \in Int
  BY <1>1, <1>2, <1>5
<1>. QED
  BY <1>1, <1>2, <1>6, <1>7, <1>8

(* Hence the dates of a recurrence run in their order.                     *)
LEMMA DatesInOrder ==
  ASSUME Slots!SlotConstants, SlotInv
  PROVE  Slots!DatesStayInOrder
<1> SUFFICES ASSUME NEW s \in Slots!Scheduled, NEW t \in Slots!Scheduled,
                    s.under = t.under,
                    Slots!SlotOf(t) = [Slots!SlotOf(s) EXCEPT !.date = Slots!SlotOf(t).date],
                    Slots!SlotOf(s).date < Slots!SlotOf(t).date
             PROVE  /\ s.admission.trigger.at < t.admission.trigger.at
                    /\ s.payload.id # t.payload.id
  BY DEF Slots!DatesStayInOrder
<1>1. SlotRow(s) /\ SlotRow(t) /\ s.payload.source # "event" /\ t.payload.source # "event"
  BY DEF Slots!Scheduled, SlotInv
<1>2. s.under \in RuleSets
  BY <1>1 DEF SlotRow
<1>3. PICK r \in Recurrences, d \in Dates :
        /\ Slots!SlotOf(s) = Slots!OccurrenceOn(r, d)
        /\ s.admission.trigger.at \in Slots!Resolved(s.under, Slots!OccurrenceOn(r, d))
        /\ s.payload.id = Slots!ScheduledIdentity(Slots!OccurrenceOn(r, d), s.admission.trigger.at)
  BY <1>1, DueFacts
<1>4. PICK q \in Recurrences, f \in Dates :
        /\ Slots!SlotOf(t) = Slots!OccurrenceOn(q, f)
        /\ t.admission.trigger.at \in Slots!Resolved(t.under, Slots!OccurrenceOn(q, f))
        /\ t.payload.id = Slots!ScheduledIdentity(Slots!OccurrenceOn(q, f), t.admission.trigger.at)
  BY <1>1, DueFacts
<1>5. /\ Slots!SlotOf(s).date = d /\ Slots!SlotOf(t).date = f
  BY <1>3, <1>4 DEF Slots!OccurrenceOn
<1>6. Slots!OccurrenceOn(q, f) = Slots!OccurrenceOn(r, f)
  BY <1>3, <1>4, <1>5 DEF Slots!OccurrenceOn
<1>7. s.admission.trigger.at < t.admission.trigger.at
  BY <1>2, <1>3, <1>4, <1>5, <1>6, DaysApart
<1>8. d # f
  BY <1>5 DEF Slots!SlotConstants
<1>9. s.payload.id # t.payload.id
  BY <1>3, <1>4, <1>8, IdentityTells
<1>. QED
  BY <1>7, <1>9

(* A run is on a date its recurrence is configured for.                    *)
LEMMA ConfiguredDates ==
  ASSUME Slots!SlotConstants, SlotInv
  PROVE  Slots!RunsOnConfiguredDates
<1> SUFFICES ASSUME NEW s \in Slots!Scheduled
             PROVE  \E r \in Recurrences :
                      /\ Slots!RecurrenceOk(r)
                      /\ Slots!OccurrenceOn(r, Slots!SlotOf(s).date) = Slots!SlotOf(s)
                      /\ r.kind = "monthly" => DayOfMonth[Slots!SlotOf(s).date] = r.day
                      /\ r.kind = "weekly" => WeekdayOf[Slots!SlotOf(s).date] \in r.weekdays
  BY DEF Slots!RunsOnConfiguredDates
<1>1. SlotRow(s) /\ s.payload.source # "event"
  BY DEF Slots!Scheduled, SlotInv
<1>2. PICK r \in Recurrences, d \in Dates :
        /\ Slots!RecurrenceOk(r) /\ Slots!Eligible(r, d)
        /\ Slots!SlotOf(s) = Slots!OccurrenceOn(r, d)
  BY <1>1, DueFacts
<1>3. Slots!SlotOf(s).date = d
  BY <1>2 DEF Slots!OccurrenceOn
<1>. QED
  BY <1>2, <1>3 DEF Slots!Eligible

(* A slot has one identity and an identity one slot: what is stored once   *)
(* is stored once, and the identities of all slots are as many as they.    *)
LEMMA OneRunASlot ==
  ASSUME Slots!SlotConstants, SlotInv
  PROVE  Slots!SlotIsOneRun
<1>1. ASSUME NEW s \in Slots!Scheduled, NEW t \in Slots!Scheduled,
             s.under = t.under, Slots!SlotOf(s) = Slots!SlotOf(t)
      PROVE  s = t
  <2>1. /\ SlotRow(s) /\ SlotRow(t) /\ s.payload.source # "event" /\ t.payload.source # "event"
        /\ s \in stored /\ t \in stored
    BY DEF Slots!Scheduled, SlotInv
  <2>2. PICK o : o = Slots!SlotOf(s)
    OBVIOUS
  <2>3. /\ s.admission.trigger.at \in Slots!Resolved(s.under, o)
        /\ s.payload.id = Slots!ScheduledIdentity(o, s.admission.trigger.at)
    BY <2>1, <2>2, DueFacts
  <2>4. /\ t.admission.trigger.at \in Slots!Resolved(s.under, o)
        /\ t.payload.id = Slots!ScheduledIdentity(o, t.admission.trigger.at)
    BY <1>1, <2>1, <2>2, DueFacts
  <2>5. s.admission.trigger.at = t.admission.trigger.at
    BY <2>3, <2>4, ResolvedFacts
  <2>. QED
    BY <2>1, <2>3, <2>4, <2>5 DEF SlotInv
<1> DEFINE all == {Slots!OccurrenceOn(r, d) : r \in Recurrences, d \in Dates}
           slots == UNION {{<<o, t.id>> : t \in Slots!ScheduledTrigger(rules, o)} : o \in all}
           ids == {x[2] : x \in slots}
<1>2. IsFiniteSet(all)
  <2>1. IsFiniteSet(Recurrences \X Dates)
    <3>1. IsFiniteSet(Recurrences) /\ IsFiniteSet(Dates)
      BY DEF Slots!SlotConstants, Slots!IsFiniteSet, IsFiniteSet
    <3>. QED
      BY <3>1, FS_Product
  <2>2. PICK g : g = [p \in Recurrences \X Dates |-> Slots!OccurrenceOn(p[1], p[2])]
    OBVIOUS
  <2>3. g \in Surjection(Recurrences \X Dates, all)
    <3>1. \A p \in Recurrences \X Dates : g[p] \in all
      BY <2>2
    <3>2. ASSUME NEW o \in all PROVE \E p \in Recurrences \X Dates : g[p] = o
      <4>1. PICK r \in Recurrences, d \in Dates : o = Slots!OccurrenceOn(r, d)
        BY <3>2
      <4>2. <<r, d>> \in Recurrences \X Dates /\ g[<<r, d>>] = o
        BY <2>2, <4>1
      <4>. QED
        BY <4>2
    <3>. QED
      BY <2>2, <3>1, <3>2 DEF Surjection
  <2>. QED
    BY <2>1, <2>3, FS_Surjection
<1>3. ASSUME NEW x \in slots
      PROVE  \E o \in all : \E at \in Slots!Resolved(rules, o) :
               x = <<o, Slots!ScheduledIdentity(o, at)>>
  <2>0. PICK o \in all : \E t \in Slots!ScheduledTrigger(rules, o) : x = <<o, t.id>>
    BY <1>3
  <2>1. PICK t \in Slots!ScheduledTrigger(rules, o) : x = <<o, t.id>>
    BY <2>0
  <2>2. PICK at \in Slots!Resolved(rules, o) : t = TriggerOf(o, at)
    BY ScheduledTriggers
  <2>3. t.id = Slots!ScheduledIdentity(o, at)
    BY <2>2 DEF TriggerOf
  <2>. QED
    BY <2>1, <2>3
<1>4. ASSUME NEW x \in slots, NEW y \in slots, x[1] = y[1] PROVE x = y
  <2>a. PICK o \in all : \E i \in Slots!Resolved(rules, o) : x = <<o, Slots!ScheduledIdentity(o, i)>>
    BY <1>3
  <2>1. PICK at \in Slots!Resolved(rules, o) : x = <<o, Slots!ScheduledIdentity(o, at)>>
    BY <2>a
  <2>b. PICK p \in all : \E i \in Slots!Resolved(rules, p) : y = <<p, Slots!ScheduledIdentity(p, i)>>
    BY <1>3
  <2>2. PICK bt \in Slots!Resolved(rules, p) : y = <<p, Slots!ScheduledIdentity(p, bt)>>
    BY <2>b
  <2>3. o = p
    BY <1>4, <2>1, <2>2
  <2>4. at = bt
    BY <2>3, ResolvedFacts
  <2>. QED
    BY <2>1, <2>2, <2>3, <2>4
<1>5. ASSUME NEW x \in slots, NEW y \in slots, x[2] = y[2] PROVE x = y
  <2>a. PICK o \in all : \E i \in Slots!Resolved(rules, o) : x = <<o, Slots!ScheduledIdentity(o, i)>>
    BY <1>3
  <2>1. PICK at \in Slots!Resolved(rules, o) : x = <<o, Slots!ScheduledIdentity(o, at)>>
    BY <2>a
  <2>b. PICK p \in all : \E i \in Slots!Resolved(rules, p) : y = <<p, Slots!ScheduledIdentity(p, i)>>
    BY <1>3
  <2>2. PICK bt \in Slots!Resolved(rules, p) : y = <<p, Slots!ScheduledIdentity(p, bt)>>
    BY <2>b
  <2>3. Slots!ScheduledIdentity(o, at) = Slots!ScheduledIdentity(p, bt)
    BY <1>5, <2>1, <2>2
  <2>4. PICK r \in Recurrences, d \in Dates : o = Slots!OccurrenceOn(r, d)
    OBVIOUS
  <2>5. PICK q \in Recurrences, f \in Dates : p = Slots!OccurrenceOn(q, f)
    OBVIOUS
  <2>6. o = p /\ at = bt
    BY <2>3, <2>4, <2>5, IdentityTells
  <2>. QED
    BY <2>1, <2>2, <2>6
<1>6. \A x \in slots : x[1] \in all
  BY <1>3
<1> HIDE DEF all, slots
<1>7. IsFiniteSet(slots)
  <2>1. PICK g : g = [x \in slots |-> x[1]]
    OBVIOUS
  <2>2. g \in Injection(slots, all)
    BY <1>4, <1>6, <2>1 DEF Injection, IsInjective
  <2>. QED
    BY <1>2, <2>2, FS_Injection
<1>8. Cardinality(ids) = Cardinality(slots)
  <2>1. PICK g : g = [x \in slots |-> x[2]]
    OBVIOUS
  <2>2. g \in Surjection(slots, ids)
    <3>1. g \in [slots -> ids]
      BY <2>1
    <3>2. \A i \in ids : \E x \in slots : g[x] = i
      BY <2>1
    <3>. QED
      BY <3>1, <3>2 DEF Surjection
  <2>3. g \in Injection(slots, ids)
    <3>1. g \in [slots -> ids]
      BY <2>1
    <3>2. \A x, y \in slots : g[x] = g[y] => x = y
      BY <1>5, <2>1
    <3>. QED
      BY <3>1, <3>2 DEF Injection, IsInjective
  <2>. QED
    BY <1>7, <2>2, <2>3, FS_Surjection
<1>9. \A T : Slots!Cardinality(T) = Cardinality(T)
  BY DEF Slots!Cardinality, Cardinality
<1>. QED
  BY <1>1, <1>8, <1>9 DEF Slots!SlotIsOneRun, all, slots

(* The identity of a cause is its tuple.                                   *)
LEMMA OneRunACause == Slots!CauseIsOneRun
<1> SUFFICES ASSUME NEW e \in Events, NEW f \in Events,
                    NEW t \in Slots!EventTrigger(e), NEW u \in Slots!EventTrigger(f)
             PROVE  t.id = u.id <=> /\ e.cause = f.cause /\ e.key = f.key /\ e.auth = f.auth
                                    /\ e.available.at = f.available.at
  BY DEF Slots!CauseIsOneRun
<1>1. t.id = Slots!EventIdentity(e) /\ u.id = Slots!EventIdentity(f)
  BY DEF Slots!EventTrigger, Slots!Trigger
<1>. QED
  BY <1>1 DEF Slots!EventIdentity

(* What the calendar said.                                                 *)
LEMMA CalendarSaid ==
  ASSUME Slots!SlotConstants, SlotInv
  PROVE  Slots!CalendarAllowedIt
<1> SUFFICES ASSUME NEW s \in Slots!ByCalendar,
                    NEW x, x = s.admission.proof, NEW at, at = s.admission.trigger.at
             PROVE  /\ x.evidence.observed <= at
                    /\ x.evidence.coverage = "complete"
                    /\ Slots!DateOf(s.under, x.recurrence.zone, at) = x.evidence.date
                    /\ IF x.constraint.mode = "session_exists"
                       THEN \E w \in x.evidence.sessions :
                              Slots!DateOf(s.under, x.recurrence.zone, w.opens) = Slots!SlotOf(s).date
                       ELSE \E p \in x.evidence.releases :
                              /\ p.key = x.constraint.release
                              /\ x.constraint.mode = "release_not_before" =>
                                   /\ p.planned # NULL /\ p.planned <= at
                                   /\ Slots!DateOf(s.under, x.recurrence.zone, p.planned)
                                        = Slots!SlotOf(s).date
  BY DEF Slots!CalendarAllowedIt
<1>1. SlotRow(s) /\ s.payload.source = "calendar" /\ s.under \in RuleSets
  BY DEF Slots!ByCalendar, SlotInv, SlotRow
<1>2. PICK r \in Recurrences, d \in Dates, e \in Evidence, c \in Constraints, cutoff \in Cutoffs :
        /\ Slots!EvidenceOk(s.under, e) /\ Slots!Bound(e, cutoff)
        /\ \E i \in Slots!Resolved(s.under, Slots!OccurrenceOn(r, d)) :
             /\ Slots!Agrees(r, d, e, c, cutoff, i)
             /\ Slots!Judged(i, e, c).status = "APPLICABLE"
             /\ s.admission = CalendarOf(r, d, e, c, cutoff, i)
  BY <1>1, RowFacts DEF CalendarRow
<1>3. PICK i \in Slots!Resolved(s.under, Slots!OccurrenceOn(r, d)) :
        /\ Slots!Agrees(r, d, e, c, cutoff, i)
        /\ Slots!Judged(i, e, c).status = "APPLICABLE"
        /\ s.admission = CalendarOf(r, d, e, c, cutoff, i)
  BY <1>2
<1>4. /\ x.recurrence = r /\ x.date = d /\ x.evidence = e /\ x.constraint = c /\ at = i
  BY <1>3 DEF CalendarOf, Slots!Admission, TriggerOf
<1>5. Slots!SlotOf(s).date = d
  BY <1>1, <1>4 DEF Slots!SlotOf, Slots!OccurrenceOn
<1>6. at \in Nat /\ Slots!DateOf(s.under, r.zone, at) = d
  BY <1>1, <1>3, <1>4, DueTime
<1>7. e.date = d /\ e.zone = r.zone /\ cutoff <= at
  BY <1>3, <1>4 DEF Slots!Agrees
<1>8. /\ e.observed <= at
      /\ e.coverage \in {"complete", "unavailable"}
      /\ \A p \in e.releases : p.planned # NULL => p.planned \in Int
  <2>1. e.observed \in Int /\ cutoff \in Int /\ e.observed <= cutoff
    BY <1>2 DEF Slots!SlotConstants, Slots!Bound
  <2>. QED
    BY <1>6, <1>7, <2>1 DEF Slots!SlotConstants
<1>9. Slots!Judged(at, e, c).status = "APPLICABLE"
  BY <1>3, <1>4
<1>10. /\ e.coverage # "unavailable"
       /\ c.mode = "session_exists" => e.sessions # {}
       /\ c.mode # "session_exists" => Slots!Matching(e, c) # {}
       /\ c.mode = "release_not_before" =>
            /\ ~\E p \in Slots!Matching(e, c) : p.planned = NULL
            /\ \E p \in Slots!Matching(e, c) : at >= p.planned
  BY <1>9 DEF Slots!Judged, Slots!Verdict
<1>11. CASE c.mode = "session_exists"
  <2>1. PICK w \in e.sessions : TRUE
    BY <1>10, <1>11
  <2>2. Slots!DateOf(s.under, e.zone, w.opens) = e.date
    BY <1>2 DEF Slots!EvidenceOk, Slots!WindowsOk
  <2>. QED
    BY <1>4, <1>5, <1>6, <1>7, <1>8, <1>10, <1>11, <2>2
<1>12. CASE c.mode # "session_exists"
  <2>1. PICK p \in Slots!Matching(e, c) :
          c.mode = "release_not_before" => p.planned # NULL /\ at >= p.planned
    BY <1>10, <1>12
  <2>2. p \in e.releases /\ p.key = c.release
    BY DEF Slots!Matching
  <2>3. p.planned # NULL => Slots!DateOf(s.under, e.zone, p.planned) = e.date
    BY <1>2, <2>2 DEF Slots!EvidenceOk, Slots!ReleasesOk
  <2>4. c.mode = "release_not_before" => p.planned <= at
    BY <1>6, <1>8, <2>1, <2>2
  <2>. QED
    BY <1>4, <1>5, <1>6, <1>7, <1>8, <1>10, <1>12, <2>1, <2>2, <2>3, <2>4
<1>. QED
  BY <1>11, <1>12

(* What a stored payload reads back as: only what it was written from, and *)
(* that when it is read under the rules it was written under.              *)
LEMMA ReadsBackDirect ==
  ASSUME Slots!SlotConstants, NEW tz, NEW s, SlotRow(s), DirectRow(s)
  PROVE  /\ Slots!Hydrated(tz, s.payload) \subseteq {s.admission}
         /\ tz = s.under => s.admission \in Slots!Hydrated(tz, s.payload)
<1> DEFINE p == s.payload
<1>1. PICK r \in Recurrences, d \in Dates :
        /\ Slots!RecurrenceOk(r)
        /\ \E i \in Slots!Resolved(s.under, Slots!OccurrenceOn(r, d)) :
             s.admission = DirectOf(Slots!OccurrenceOn(r, d), i)
  BY DEF DirectRow
<1>2. PICK o : o = Slots!OccurrenceOn(r, d)
  OBVIOUS
<1>3. PICK at \in Slots!Resolved(s.under, o) : s.admission = DirectOf(o, at)
  BY <1>1, <1>2
<1>4. Slots!AuthorityOk(o.auth)
  BY <1>1, <1>2 DEF Slots!RecurrenceOk, Slots!OccurrenceOn
<1>5. \A i : /\ DirectOf(o, i).trigger.at = i
             /\ DirectOf(o, i).proof = o
             /\ DirectOf(o, i).source = "direct"
             /\ DirectOf(o, i).id = DirectOf(o, i).trigger.id
  BY DEF DirectOf, TriggerOf, Slots!Admission
<1>6. /\ p.source = "direct" /\ p.inputs = o /\ p.expected.at = at
      /\ p.id = s.admission.id /\ p.expected.id = s.admission.trigger.id
  BY <1>3, <1>5 DEF SlotRow, Slots!Serialized
<1>7. Slots!Hydrated(tz, p)
        = {a \in Slots!AdmitOccurrence(tz, o) :
             a.id = p.id /\ a.trigger.id = p.expected.id /\ a.trigger.at = p.expected.at}
  BY <1>6 DEF Slots!Hydrated, Slots!HydrateScheduled
<1>8. \A a : a \in Slots!AdmitOccurrence(tz, o)
               <=> \E i \in Slots!Resolved(tz, o) : a = DirectOf(o, i)
  BY <1>4, DirectAdmissions
<1>9. ASSUME NEW a \in Slots!Hydrated(tz, p) PROVE a = s.admission
  <2>1. PICK i \in Slots!Resolved(tz, o) : a = DirectOf(o, i)
    BY <1>7, <1>8
  <2>2. i = at
    BY <1>5, <1>6, <1>7, <2>1
  <2>. QED
    BY <1>3, <2>1, <2>2
<1>10. ASSUME tz = s.under PROVE s.admission \in Slots!Hydrated(tz, p)
  <2>1. s.admission \in Slots!AdmitOccurrence(tz, o)
    BY <1>3, <1>8, <1>10
  <2>2. s.admission.trigger.at = at
    BY <1>3, <1>5
  <2>. QED
    BY <1>6, <1>7, <2>1, <2>2
<1>. QED
  BY <1>9, <1>10

(* The same of a run that needed the calendar.                             *)
LEMMA ReadsBackCalendar ==
  ASSUME Slots!SlotConstants, NEW tz, NEW s, SlotRow(s), CalendarRow(s)
  PROVE  /\ Slots!Hydrated(tz, s.payload) \subseteq {s.admission}
         /\ tz = s.under => s.admission \in Slots!Hydrated(tz, s.payload)
<1> DEFINE p == s.payload
<1>1. PICK r \in Recurrences, d \in Dates, e \in Evidence, c \in Constraints, cutoff \in Cutoffs :
        /\ Slots!RecurrenceOk(r) /\ Slots!Eligible(r, d)
        /\ Slots!EvidenceOk(s.under, e) /\ Slots!Bound(e, cutoff)
        /\ \E i \in Slots!Resolved(s.under, Slots!OccurrenceOn(r, d)) :
             /\ Slots!Agrees(r, d, e, c, cutoff, i)
             /\ Slots!Judged(i, e, c).status = "APPLICABLE"
             /\ s.admission = CalendarOf(r, d, e, c, cutoff, i)
  BY DEF CalendarRow
<1>2. PICK at \in Slots!Resolved(s.under, Slots!OccurrenceOn(r, d)) :
        /\ Slots!Agrees(r, d, e, c, cutoff, at)
        /\ Slots!Judged(at, e, c).status = "APPLICABLE"
        /\ s.admission = CalendarOf(r, d, e, c, cutoff, at)
  BY <1>1
<1>3. Slots!AuthorityOk(r.auth)
  BY <1>1 DEF Slots!RecurrenceOk
<1>4. \A i : LET a == CalendarOf(r, d, e, c, cutoff, i)
             IN  /\ a.trigger.at = i /\ a.source = "calendar" /\ a.id = a.trigger.id
                 /\ a.proof.recurrence = r /\ a.proof.date = d /\ a.proof.evidence = e
                 /\ a.proof.constraint = c /\ a.proof.cutoff = cutoff
  BY DEF CalendarOf, TriggerOf, Slots!Admission
<1>5. /\ p.source = "calendar" /\ p.inputs = s.admission.proof /\ p.expected.at = at
      /\ p.id = s.admission.id /\ p.expected.id = s.admission.trigger.id
  BY <1>2, <1>4 DEF SlotRow, Slots!Serialized
<1>6. /\ p.inputs.recurrence = r /\ p.inputs.date = d /\ p.inputs.evidence = e
      /\ p.inputs.constraint = c /\ p.inputs.cutoff = cutoff
  BY <1>2, <1>4, <1>5
<1>7. Slots!HydrateCalendar(tz, p)
        = IF Slots!EvidenceOk(tz, e) /\ Slots!Bound(e, cutoff)
          THEN {a \in Slots!AdmitApplicable(tz, r, d, e, c, cutoff) :
                  a.proof.verdict = p.inputs.verdict}
          ELSE {}
  BY <1>6 DEF Slots!HydrateCalendar
<1>8. Slots!Hydrated(tz, p)
        = {a \in Slots!HydrateCalendar(tz, p) :
             a.id = p.id /\ a.trigger.id = p.expected.id /\ a.trigger.at = p.expected.at}
  BY <1>5 DEF Slots!Hydrated
<1>9. ASSUME NEW a \in Slots!Hydrated(tz, p) PROVE a = s.admission
  <2>1. a \in Slots!AdmitApplicable(tz, r, d, e, c, cutoff) /\ a.trigger.at = at
    BY <1>5, <1>7, <1>8
  <2>2. PICK i \in Slots!Resolved(tz, Slots!OccurrenceOn(r, d)) :
          a = CalendarOf(r, d, e, c, cutoff, i)
    BY <2>1, CalendarAdmissions
  <2>3. i = at
    BY <1>4, <2>1, <2>2
  <2>. QED
    BY <1>2, <2>2, <2>3
<1>10. ASSUME tz = s.under PROVE s.admission \in Slots!Hydrated(tz, p)
  <2>1. s.admission \in Slots!AdmitApplicable(tz, r, d, e, c, cutoff)
    BY <1>1, <1>2, <1>3, <1>10, CalendarAdmissions
  <2>2. s.admission.trigger.at = at
    BY <1>2, <1>4
  <2>3. s.admission \in Slots!HydrateCalendar(tz, p)
    BY <1>1, <1>5, <1>7, <1>10, <2>1
  <2>. QED
    BY <1>5, <1>8, <2>2, <2>3
<1>. QED
  BY <1>9, <1>10

(* And of a cause, under any rules.                                        *)
LEMMA ReadsBackEvent ==
  ASSUME NEW tz, NEW s, SlotRow(s), EventRow(s)
  PROVE  Slots!Hydrated(tz, s.payload) = {s.admission}
<1> DEFINE p == s.payload
<1>1. PICK e \in Events : s.admission \in Slots!AdmitEventOccurrence(e)
  BY DEF EventRow
<1>2. /\ s.admission.source = "event" /\ s.admission.proof = e
      /\ Slots!AdmitEventOccurrence(e) = {s.admission}
  BY <1>1 DEF Slots!AdmitEventOccurrence, Slots!EventTrigger, Slots!Trigger, Slots!Admission
<1>3. /\ p.source = "event" /\ p.inputs = e
      /\ p.id = s.admission.id /\ p.expected.id = s.admission.trigger.id
      /\ p.expected.at = s.admission.trigger.at
  BY <1>2 DEF SlotRow, Slots!Serialized
<1>4. Slots!Hydrated(tz, p)
        = {a \in Slots!AdmitEventOccurrence(e) :
             a.id = p.id /\ a.trigger.id = p.expected.id /\ a.trigger.at = p.expected.at}
  BY <1>3 DEF Slots!Hydrated, Slots!HydrateEvent
<1>. QED
  BY <1>2, <1>3, <1>4

(* Together.                                                               *)
LEMMA ReadsBack ==
  ASSUME Slots!SlotConstants, SlotInv
  PROVE  Slots!HydratesAsAdmitted
<1> SUFFICES ASSUME NEW s \in stored
             PROVE  /\ Slots!Hydrated(rules, s.payload) \subseteq {s.admission}
                    /\ Slots!Hydrated(rules, s.payload) = {}
                         => rules # s.under /\ s.payload.source # "event"
  BY DEF Slots!HydratesAsAdmitted
<1>1. SlotRow(s)
  BY DEF SlotInv
<1>2. CASE DirectRow(s)
  BY <1>1, <1>2, ReadsBackDirect, RowFacts
<1>3. CASE CalendarRow(s)
  BY <1>1, <1>3, ReadsBackCalendar, RowFacts
<1>4. CASE EventRow(s)
  BY <1>1, <1>4, ReadsBackEvent
<1>. QED
  BY <1>1, <1>2, <1>3, <1>4 DEF SlotRow

(* Whatever recurrences, calendars, causes and versions of the zone        *)
(* database there are, what is admitted runs when its zone's clock shows   *)
(* its time, on its dates and in their order, once, on what the calendar   *)
(* said in time, and reads back as it was admitted.                        *)
THEOREM SlotsAlwaysBecomeRuns == MCSpec => []SlotsBecomeRuns
<1> DEFINE Inv == part = "slots" => SlotInv
<1>1. MCInit => Inv
  BY DEF MCInit, SlotInv, Slots!Init
<1>2. Inv /\ [MCNext]_mcVars => Inv'
  <2> SUFFICES ASSUME Inv, [MCNext]_mcVars, part' = "slots" PROVE SlotInv'
    OBVIOUS
  <2>1. part = "slots" /\ SlotInv
    BY DEF MCNext, mcVars
  <2>2. CASE Slots!Next
    BY <2>1, <2>2, SlotsStep
  <2>3. CASE UNCHANGED <<rules, stored>>
    BY <2>1, <2>3 DEF SlotInv, SlotRow, DirectRow, CalendarRow, EventRow
  <2>. QED
    BY <2>1, <2>2, <2>3 DEF MCNext, mcVars
<1>3. Inv => SlotsBecomeRuns
  BY SlotAssumption, SlotTypes, ClockShows, DatesInOrder, ConfiguredDates, OneRunASlot,
     OneRunACause, CalendarSaid, ReadsBack DEF SlotsBecomeRuns
<1> HIDE DEF Inv
<1>. QED
  BY <1>1, <1>2, <1>3, PTL DEF MCSpec

=============================================================================
