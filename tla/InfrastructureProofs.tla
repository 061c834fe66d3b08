---------------------------- MODULE InfrastructureProofs --------------------------
(***************************************************************************)
(* JwksCache keeps its windows for every ttl, refresh interval and backoff *)
(* in the order of the code, and for any threads and keys; RateLimiter is  *)
(* exact for any requests and processes and whatever Redis does, as far as *)
(* its properties say; IdempotentRequests repeats nothing at one process   *)
(* but under entries that expired or were evicted.                         *)
(***************************************************************************)
EXTENDS MCInfrastructure, Sequences, FiniteSetTheorems, FunctionTheorems, TLAPS

\* The history variables are the history of the document.
HistoryInv ==
    \A k \in Kids :
        /\ k \in document => present[k] = clock
        /\ k \notin document => absent[k] = clock
        /\ present[k] # Never => present[k] <= clock
        /\ absent[k] # Never => absent[k] <= clock

AnswersInv ==
    \A t \in Threads :
        /\ answer[t].since <= answer[t].at /\ answer[t].at <= clock
        /\ answer[t].verdict # "none" => answer[t].kid # Never

\* The keys of a set were served at moment or later, and the others were not.
ServedSince(set, moment) ==
    \A k \in Kids :
        /\ k \in set => present[k] # Never /\ present[k] >= moment
        /\ k \notin set => absent[k] # Never /\ absent[k] >= moment

\* What is kept was served since the lock was taken for it.
KeptInv == fetchedAt # Never => fetchedAt <= clock /\ ServedSince(keys, fetchedAt)

\* The thread in the lock still asks, and what it was answered was served since
\* it took the lock, however old it is by now.
HolderInv ==
    holder # Never =>
        /\ holder.now <= clock /\ asks[holder.thread] # Never
        /\ holder.phase = "answered" => ServedSince(holder.read, holder.now)

\* fetches remembers what fetchedAt and failedAt say of the last fetch.
FetchInv ==
    /\ fetches.at # Never =>
          IF fetches.ok THEN fetchedAt = fetches.at /\ failedAt = Never
          ELSE failedAt = fetches.at /\ fetchedAt = Never
    /\ fetches.at = Never => fetchedAt = Never /\ failedAt = Never

\* A verdict on a key is within its window.
Within(verdict, kid, since, moment) ==
    /\ verdict = "accepted" =>
          /\ present[kid] # Never
          /\ present[kid] > moment - Ttl \/ present[kid] >= since
    /\ verdict = "unknown" =>
          /\ absent[kid] # Never
          /\ absent[kid] > moment - MinRefresh \/ absent[kid] >= since

WindowsInv ==
    \A t \in Threads :
        Within(answer[t].verdict, answer[t].kid, answer[t].since, answer[t].at)

Inv ==
    /\ TypeOK
    /\ HistoryInv
    /\ AnswersInv
    /\ KeptInv
    /\ HolderInv
    /\ FetchInv
    /\ WindowsInv
    /\ FetchesAreThrottled

USE TimesAssumption

LEMMA InitInv == Init => Inv
BY DEF Init, Inv, TypeOK, HistoryInv, AnswersInv, KeptInv, HolderInv, FetchInv, WindowsInv, Within,
       FetchesAreThrottled, Times, Verdict, Verdicts

\* Histories move forward only, so what was within its window stays there.
LEMMA HistoriesMove ==
  ASSUME Inv, clock' \in Nat, clock <= clock',
         \A k \in Kids : /\ present'[k] = present[k] \/ present'[k] = clock'
                         /\ absent'[k] = absent[k] \/ absent'[k] = clock'
  PROVE  /\ \A set \in SUBSET Kids, moment \in Nat :
               ServedSince(set, moment) /\ moment <= clock => ServedSince(set, moment)'
         /\ \A t \in Threads :
               Within(answer[t].verdict, answer[t].kid, answer[t].since, answer[t].at) =>
               /\ answer[t].verdict = "accepted" =>
                     /\ present'[answer[t].kid] # Never
                     /\ \/ present'[answer[t].kid] > answer[t].at - Ttl
                        \/ present'[answer[t].kid] >= answer[t].since
               /\ answer[t].verdict = "unknown" =>
                     /\ absent'[answer[t].kid] # Never
                     /\ \/ absent'[answer[t].kid] > answer[t].at - MinRefresh
                        \/ absent'[answer[t].kid] >= answer[t].since
<1>1. clock \in Nat /\ \A n \in Nat : n # Never
  BY DEF Inv, TypeOK
<1>2. \A k \in Kids : present[k] \in Nat \cup {Never} /\ absent[k] \in Nat \cup {Never}
  BY DEF Inv, TypeOK, Times
<1>3. \A set \in SUBSET Kids, moment \in Nat :
         ServedSince(set, moment) /\ moment <= clock => ServedSince(set, moment)'
  <2> SUFFICES ASSUME NEW set \in SUBSET Kids, NEW moment \in Nat, ServedSince(set, moment),
                      moment <= clock, NEW k \in Kids
               PROVE  /\ k \in set => present'[k] # Never /\ present'[k] >= moment
                      /\ k \notin set => absent'[k] # Never /\ absent'[k] >= moment
    BY DEF ServedSince
  <2> QED
    BY <1>1, <1>2 DEF ServedSince
<1>4. ASSUME NEW t \in Threads,
             Within(answer[t].verdict, answer[t].kid, answer[t].since, answer[t].at)
      PROVE  /\ answer[t].verdict = "accepted" =>
                  /\ present'[answer[t].kid] # Never
                  /\ \/ present'[answer[t].kid] > answer[t].at - Ttl
                     \/ present'[answer[t].kid] >= answer[t].since
             /\ answer[t].verdict = "unknown" =>
                  /\ absent'[answer[t].kid] # Never
                  /\ \/ absent'[answer[t].kid] > answer[t].at - MinRefresh
                     \/ absent'[answer[t].kid] >= answer[t].since
  <2> DEFINE kid == answer[t].kid
             first == answer[t].since
             last == answer[t].at
             word == answer[t].verdict
  <2>1. /\ first \in Nat /\ last \in Nat /\ first <= last /\ last <= clock
        /\ word # "none" => kid \in Kids
    BY DEF Inv, TypeOK, Verdicts, AnswersInv
  <2>2. Within(word, kid, first, last)
    BY <1>4
  <2> HIDE DEF kid, first, last, word
  <2>3. word = "accepted" =>
           present'[kid] # Never /\ (present'[kid] > last - Ttl \/ present'[kid] >= first)
    BY <1>1, <1>2, <2>1, <2>2 DEF Within
  <2>4. word = "unknown" =>
           absent'[kid] # Never /\ (absent'[kid] > last - MinRefresh \/ absent'[kid] >= first)
    BY <1>1, <1>2, <2>1, <2>2 DEF Within
  <2> QED
    BY <2>3, <2>4 DEF kid, first, last, word
<1> QED
  BY <1>3, <1>4

\* A verdict on a key keeps the windows if it was right when it was given.
LEMMA DecideInv ==
    ASSUME Inv, NEW t \in Threads, NEW verdict \in {"accepted", "unknown", "unavailable"},
           NEW since \in Nat, since <= clock,
           Decide(t, verdict, since), UNCHANGED server, asks[t] # Never,
           Within(verdict, asks[t], since, clock)
    PROVE  /\ WindowsInv' /\ AnswersInv'
           /\ asks' \in [Threads -> Kids \cup {Never}]
           /\ answer' \in [Threads -> Verdicts]
           /\ holder' = Never
<1>1. /\ answer' = [answer EXCEPT ![t] = Verdict(verdict, asks[t], since, clock)]
      /\ asks' = [asks EXCEPT ![t] = Never] /\ holder' = Never
      /\ clock' = clock /\ present' = present /\ absent' = absent
  BY DEF Decide, server
<1>2. Verdict(verdict, asks[t], since, clock) \in Verdicts /\ clock \in Nat
  BY DEF Inv, TypeOK, Verdict, Verdicts
<1>3. asks' \in [Threads -> Kids \cup {Never}] /\ answer' \in [Threads -> Verdicts]
  BY <1>1, <1>2 DEF Inv, TypeOK
<1>4. \A u \in Threads : u # t => answer'[u] = answer[u]
  BY <1>1 DEF Inv, TypeOK
<1>5. answer'[t] = Verdict(verdict, asks[t], since, clock)
  BY <1>1 DEF Inv, TypeOK
<1>6. WindowsInv'
  BY <1>1, <1>4, <1>5 DEF Inv, WindowsInv, Within, Verdict
<1>7. AnswersInv'
  BY <1>1, <1>2, <1>4, <1>5 DEF Inv, AnswersInv, Verdict
<1> QED
  BY <1>1, <1>3, <1>6, <1>7

LEMMA LockInv == ASSUME Inv, NEW t \in Threads, Lock(t) PROVE Inv'
<1> DEFINE refresh == TooOld(clock) \/ UnknownKid(asks[t], clock)
<1>1. asks[t] \in Kids /\ asks[t] # Never /\ holder = Never /\ clock \in Nat /\ clock <= clock
  BY DEF Inv, TypeOK, Lock
<1>2. UNCHANGED server /\ UNCHANGED <<keys, fetchedAt, failedAt, fetches>>
  BY DEF Lock
<1>3. CASE ~refresh /\ Decide(t, Lookup(asks[t], keys), clock)
  <2>1. fetchedAt # Never /\ fetchedAt \in Nat
        /\ clock - fetchedAt < Ttl
        /\ (asks[t] \notin keys => clock - fetchedAt < MinRefresh)
    BY <1>1, <1>3 DEF Inv, TypeOK, Times, TooOld, UnknownKid
  <2>2. /\ asks[t] \in keys => present[asks[t]] # Never /\ present[asks[t]] > clock - Ttl
        /\ asks[t] \notin keys => absent[asks[t]] # Never /\ absent[asks[t]] > clock - MinRefresh
    BY <1>1, <2>1 DEF Inv, KeptInv, ServedSince, TypeOK, Times
  <2>3. Lookup(asks[t], keys) \in {"accepted", "unknown", "unavailable"}
        /\ Within(Lookup(asks[t], keys), asks[t], clock, clock)
    BY <2>2 DEF Lookup, Within
  <2>4. /\ WindowsInv' /\ AnswersInv' /\ holder' = Never
        /\ asks' \in [Threads -> Kids \cup {Never}] /\ answer' \in [Threads -> Verdicts]
    BY <1>1, <1>2, <1>3, <2>3, DecideInv
  <2> QED
    BY <1>2, <2>4
       DEF Inv, TypeOK, HistoryInv, KeptInv, ServedSince, HolderInv, FetchInv, FetchesAreThrottled,
           server
<1>4. CASE refresh /\ BacksOff(clock) /\ Decide(t, "unavailable", clock)
  <2>1. /\ WindowsInv' /\ AnswersInv' /\ holder' = Never
        /\ asks' \in [Threads -> Kids \cup {Never}] /\ answer' \in [Threads -> Verdicts]
    BY <1>1, <1>2, <1>4, DecideInv DEF Within
  <2> QED
    BY <1>2, <2>1
       DEF Inv, TypeOK, HistoryInv, KeptInv, ServedSince, HolderInv, FetchInv, FetchesAreThrottled,
           server
<1>5. CASE /\ refresh /\ ~BacksOff(clock)
           /\ holder' = [thread |-> t, now |-> clock, phase |-> "asked", read |-> {}]
           /\ UNCHANGED <<asks, answer>>
  <2>1. UNCHANGED <<clock, document, present, absent>>
        /\ UNCHANGED <<keys, fetchedAt, failedAt, fetches, asks, answer>>
    BY <1>2, <1>5 DEF server
  <2>2. holder' \in Fetches /\ holder'.now = clock /\ holder'.thread = t
        /\ holder'.phase = "asked"
    BY <1>1, <1>5 DEF Fetches
  <2>3. fetches.at # Never => clock - fetches.at >= IF fetches.ok THEN MinRefresh ELSE Backoff
    <3>1. CASE fetches.at # Never /\ fetches.ok
      BY <1>5, <3>1 DEF Inv, FetchInv, TypeOK, Times, TooOld, UnknownKid
    <3>2. CASE fetches.at # Never /\ ~fetches.ok
      BY <1>5, <3>2 DEF Inv, FetchInv, TypeOK, Times, BacksOff
    <3> QED BY <3>1, <3>2
  <2>4. TypeOK' /\ FetchesAreThrottled'
    BY <2>1, <2>2, <2>3 DEF Inv, TypeOK, Times, FetchesAreThrottled
  <2>5. HolderInv'
    BY <1>1, <2>1, <2>2 DEF Inv, HolderInv
  <2> QED
    BY <2>1, <2>4, <2>5
       DEF Inv, HistoryInv, AnswersInv, KeptInv, ServedSince, FetchInv, WindowsInv, Within
<1> QED BY <1>3, <1>4, <1>5 DEF Lock

LEMMA AnswersKeep == ASSUME Inv, Answers PROVE Inv'
<1>1. /\ UNCHANGED <<clock, document, present, absent>>
      /\ UNCHANGED <<keys, fetchedAt, failedAt, asks, answer, fetches>>
      /\ holder # Never /\ holder \in Fetches
      /\ holder' = [holder EXCEPT !.phase = "answered", !.read = document]
      /\ clock \in Nat /\ document \in SUBSET Kids
  BY DEF Answers, server, Inv, TypeOK
<1>2. /\ holder' \in Fetches /\ holder'.now = holder.now /\ holder'.thread = holder.thread
      /\ holder'.read = document /\ holder.now \in Nat
  BY <1>1 DEF Fetches
<1>3. holder.now <= clock /\ asks[holder.thread] # Never
  BY <1>1 DEF Inv, HolderInv
<1>4. ServedSince(document, holder.now)
  BY <1>1, <1>2, <1>3 DEF Inv, HistoryInv, ServedSince
<1>5. HolderInv'
  BY <1>1, <1>2, <1>3, <1>4 DEF HolderInv, ServedSince
<1>6. FetchesAreThrottled' /\ TypeOK'
  BY <1>1, <1>2 DEF Inv, FetchesAreThrottled, TypeOK
<1> QED
  BY <1>1, <1>5, <1>6
     DEF Inv, HistoryInv, AnswersInv, KeptInv, ServedSince, FetchInv, WindowsInv, Within

LEMMA FetchSucceedsInv == ASSUME Inv, FetchSucceeds PROVE Inv'
<1> DEFINE t == holder.thread
           verdict == Lookup(asks[t], holder.read)
<1>1. /\ holder \in Fetches /\ holder # Never /\ t \in Threads /\ holder.now \in Nat
      /\ holder.read \in SUBSET Kids /\ holder.now <= clock /\ clock \in Nat
      /\ asks[t] # Never /\ asks[t] \in Kids
      /\ ServedSince(holder.read, holder.now)
  BY DEF Inv, TypeOK, HolderInv, FetchSucceeds, Fetches
<1>2. UNCHANGED server /\ keys' = holder.read /\ fetchedAt' = holder.now /\ failedAt' = Never
      /\ fetches' = [at |-> holder.now, ok |-> TRUE]
      /\ Decide(t, verdict, holder.now)
  BY DEF FetchSucceeds
<1>3. verdict \in {"accepted", "unknown", "unavailable"}
      /\ Within(verdict, asks[t], holder.now, clock)
  BY <1>1 DEF Lookup, Within, ServedSince
<1>4. /\ WindowsInv' /\ AnswersInv' /\ holder' = Never
      /\ asks' \in [Threads -> Kids \cup {Never}] /\ answer' \in [Threads -> Verdicts]
  BY <1>1, <1>2, <1>3, DecideInv
<1>5. KeptInv'
  BY <1>1, <1>2 DEF KeptInv, ServedSince, server
<1> QED
  BY <1>1, <1>2, <1>4, <1>5
  DEF Inv, TypeOK, Times, HistoryInv, HolderInv, FetchInv, FetchesAreThrottled, server

LEMMA FetchFailsInv == ASSUME Inv, FetchFails PROVE Inv'
<1> DEFINE t == holder.thread
<1>1. /\ holder \in Fetches /\ holder # Never /\ t \in Threads /\ holder.now \in Nat
      /\ holder.now <= clock /\ clock \in Nat /\ asks[t] # Never
  BY DEF Inv, TypeOK, HolderInv, FetchFails, Fetches
<1>2. UNCHANGED server /\ keys' = {} /\ fetchedAt' = Never /\ failedAt' = holder.now
      /\ fetches' = [at |-> holder.now, ok |-> FALSE] /\ Decide(t, "unavailable", holder.now)
  BY DEF FetchFails
<1>3. /\ WindowsInv' /\ AnswersInv' /\ holder' = Never
      /\ asks' \in [Threads -> Kids \cup {Never}] /\ answer' \in [Threads -> Verdicts]
  BY <1>1, <1>2, DecideInv DEF Within
<1> QED
  BY <1>1, <1>2, <1>3
  DEF Inv, TypeOK, Times, HistoryInv, KeptInv, HolderInv, FetchInv, FetchesAreThrottled, server

LEMMA AskInv == ASSUME Inv, NEW t \in Threads, NEW kid \in Kids, Ask(t, kid) PROVE Inv'
<1>1. /\ UNCHANGED <<clock, document, present, absent>>
      /\ UNCHANGED <<keys, fetchedAt, failedAt, holder, answer, fetches>>
      /\ asks[t] = Never /\ asks' = [asks EXCEPT ![t] = kid] /\ kid # Never
  BY DEF Ask, server
<1>2. HolderInv'
  BY <1>1 DEF Inv, TypeOK, HolderInv, Fetches, ServedSince
<1> QED
  BY <1>1, <1>2 DEF Inv, TypeOK, HistoryInv, AnswersInv, KeptInv, ServedSince, FetchInv, WindowsInv,
                    Within, FetchesAreThrottled

\* What a rotation or the clock does to the document keeps what was answered,
\* kept and judged before it.
LEMMA ServerMoves ==
  ASSUME Inv, UNCHANGED <<keys, fetchedAt, failedAt, holder, asks, answer, fetches>>,
         clock' \in Nat, clock <= clock',
         \A k \in Kids : /\ present'[k] = present[k] \/ present'[k] = clock'
                         /\ absent'[k] = absent[k] \/ absent'[k] = clock'
  PROVE  AnswersInv' /\ KeptInv' /\ HolderInv' /\ FetchInv' /\ WindowsInv' /\ FetchesAreThrottled'
<1>1. clock \in Nat /\ keys \in SUBSET Kids /\ fetchedAt \in Nat \cup {Never}
      /\ holder \in Fetches \cup {Never}
  BY DEF Inv, TypeOK, Times
<1>2. AnswersInv'
  BY <1>1 DEF Inv, AnswersInv, TypeOK, Verdicts
<1>3. KeptInv'
  <2> SUFFICES ASSUME fetchedAt # Never
               PROVE  fetchedAt <= clock' /\ ServedSince(keys, fetchedAt)'
    BY DEF KeptInv
  <2>1. fetchedAt \in Nat /\ fetchedAt <= clock /\ ServedSince(keys, fetchedAt)
    BY <1>1 DEF Inv, KeptInv
  <2>2. \A k \in Kids :
           /\ k \in keys => present'[k] # Never /\ present'[k] >= fetchedAt
           /\ k \notin keys => absent'[k] # Never /\ absent'[k] >= fetchedAt
    BY <1>1, <2>1, HistoriesMove DEF ServedSince
  <2> QED
    BY <1>1, <2>1, <2>2 DEF ServedSince
<1>4. HolderInv'
  <2> SUFFICES ASSUME holder # Never
               PROVE  /\ holder.now <= clock' /\ asks[holder.thread] # Never
                      /\ holder.phase = "answered" => ServedSince(holder.read, holder.now)'
    BY DEF HolderInv
  <2>1. holder.now \in Nat /\ holder.read \in SUBSET Kids /\ holder.now <= clock
        /\ asks[holder.thread] # Never
        /\ (holder.phase = "answered" => ServedSince(holder.read, holder.now))
    BY <1>1 DEF Inv, HolderInv, Fetches
  <2>2. holder.phase = "answered" => \A k \in Kids :
           /\ k \in holder.read => present'[k] # Never /\ present'[k] >= holder.now
           /\ k \notin holder.read => absent'[k] # Never /\ absent'[k] >= holder.now
    BY <2>1, HistoriesMove DEF ServedSince
  <2> QED
    BY <1>1, <2>1, <2>2 DEF ServedSince
<1>5. WindowsInv'
  <2> SUFFICES ASSUME NEW t \in Threads
               PROVE  Within(answer[t].verdict, answer[t].kid, answer[t].since, answer[t].at)'
    BY DEF WindowsInv
  <2>1. Within(answer[t].verdict, answer[t].kid, answer[t].since, answer[t].at)
    BY DEF Inv, WindowsInv
  <2> QED
    BY <2>1, HistoriesMove DEF Within
<1>6. FetchInv' /\ FetchesAreThrottled'
  BY DEF Inv, FetchInv, FetchesAreThrottled
<1> QED
  BY <1>2, <1>3, <1>4, <1>5, <1>6

LEMMA PublishInv == ASSUME Inv, NEW new \in SUBSET Kids, Publish(new) PROVE Inv'
<1>1. UNCHANGED <<clock, keys, fetchedAt, failedAt, holder, asks, answer, fetches>>
  BY DEF Publish
<1>2. document' = new /\ clock \in Nat /\ clock <= clock
      /\ present' = [k \in Kids |-> IF k \in new \cup document THEN clock ELSE present[k]]
      /\ absent' = [k \in Kids |-> IF k \notin new \cap document THEN clock ELSE absent[k]]
  BY DEF Publish, Inv, TypeOK
<1>3. \A k \in Kids : /\ present'[k] = present[k] \/ present'[k] = clock
                      /\ absent'[k] = absent[k] \/ absent'[k] = clock
  BY <1>2
<1>4. TypeOK'
  BY <1>1, <1>2 DEF Inv, TypeOK, Times
<1>5. HistoryInv'
  BY <1>1, <1>2 DEF Inv, HistoryInv, TypeOK
<1> QED BY <1>1, <1>2, <1>3, <1>4, <1>5, ServerMoves DEF Inv

LEMMA TickInv == ASSUME Inv, Tick PROVE Inv'
<1>1. UNCHANGED <<document, keys, fetchedAt, failedAt, holder, asks, answer, fetches>>
      /\ clock' = clock + 1 /\ clock \in Nat
      /\ present' = [k \in Kids |-> IF k \in document THEN clock + 1 ELSE present[k]]
      /\ absent' = [k \in Kids |-> IF k \notin document THEN clock + 1 ELSE absent[k]]
  BY DEF Tick, Inv, TypeOK
<1>2. \A k \in Kids : /\ present[k] \in Nat \cup {Never} /\ absent[k] \in Nat \cup {Never}
                      /\ present[k] # Never => present[k] <= clock
                      /\ absent[k] # Never => absent[k] <= clock
  BY DEF Inv, TypeOK, Times, HistoryInv
<1>3. TypeOK'
  BY <1>1, <1>2 DEF Inv, TypeOK, Times
<1>4. HistoryInv'
  BY <1>1, <1>2 DEF Inv, HistoryInv
<1>5. /\ clock' \in Nat /\ clock <= clock'
      /\ \A k \in Kids : /\ present'[k] = present[k] \/ present'[k] = clock'
                         /\ absent'[k] = absent[k] \/ absent'[k] = clock'
  BY <1>1
<1> QED BY <1>1, <1>3, <1>4, <1>5, ServerMoves DEF Inv

LEMMA StutterInv == ASSUME Inv, UNCHANGED vars PROVE Inv'
BY DEF vars, Inv, TypeOK, HistoryInv, AnswersInv, KeptInv, HolderInv, ServedSince, FetchInv,
       WindowsInv, Within, FetchesAreThrottled

\* What is kept, and when it was fetched, agrees with the history of the document.
THEOREM InductiveInvariant == Spec => []Inv
<1>1. Inv /\ [Next]_vars => Inv'
  BY LockInv, AnswersKeep, FetchSucceedsInv, FetchFailsInv, AskInv, PublishInv, TickInv, StutterInv
  DEF Next
<1> QED BY <1>1, InitInv, PTL DEF Spec

\* _JWKSCache keeps keys only from a fetch that succeeded, whatever is fetched.
THEOREM JwksTypeCorrect == Spec => []TypeOK
<1>1. Inv => TypeOK BY DEF Inv
<1> QED BY <1>1, InductiveInvariant, PTL

\* No withdrawn key is accepted for longer than the ttl (key_for, _refresh), save
\* by the check whose fetch was under way, however late its answer is stored.
THEOREM RevokedKeyWindowHolds == Spec => []RevokedKeyWindow
<1>1. Inv => RevokedKeyWindow BY DEF Inv, WindowsInv, Within, RevokedKeyWindow
<1> QED BY <1>1, InductiveInvariant, PTL

\* No published key is refused for longer than the refresh interval, save by the
\* check whose fetch was under way.
THEOREM NewKeyWindowHolds == Spec => []NewKeyWindow
<1>1. Inv => NewKeyWindow BY DEF Inv, WindowsInv, Within, NewKeyWindow
<1> QED BY <1>1, InductiveInvariant, PTL

\* Tokens that name unknown keys cannot make key_for fetch faster than its limits.
THEOREM FetchesThrottled == Spec => []FetchesAreThrottled
<1>1. Inv => FetchesAreThrottled BY DEF Inv
<1> QED BY <1>1, InductiveInvariant, PTL

-----------------------------------------------------------------------------
(* The sliding window, in any number of processes.                         *)

Slot == "history"

Stored == shared[Slot]

Admitted == {r \in Requests : request[r].phase = "admitted"}

\* What a cache may say of the requests that were admitted: no others.
Safe == {e \in Histories : e.history \subseteq Admitted}

RequestType ==
    [phase : {"new", "queued", "decide", "refused", "admitted"}, process : Workers \cup {None},
     now : Nat, history : SUBSET Requests, basis : Histories \cup {None}]

LimitTypes ==
    /\ time \in Nat /\ request \in [Requests -> RequestType]
    /\ queue \in [Workers -> Seq(Requests)]
    /\ failed \in BOOLEAN /\ overtaken \in SUBSET Workers

\* Requests stand in the line of their process, and not for long; its head decides.
LineOK ==
    /\ \A p \in Workers : \A i, j \in 1 .. Len(queue[p]) :
          /\ request[queue[p][i]].process = p
          /\ request[queue[p][i]].phase \in {"queued", "decide"}
          /\ request[queue[p][i]].phase = "decide" => i = 1
          /\ queue[p][i] = queue[p][j] => i = j
    /\ \A r \in Requests : request[r].phase \in {"queued", "decide"} =>
          /\ request[r].process \in Workers
          /\ request[r].now <= time /\ time <= request[r].now + Wait
    /\ \A r \in Requests : request[r].phase = "decide" =>
          queue[request[r].process] # <<>> /\ queue[request[r].process][1] = r

\* Neither level of the cache says that a request was admitted which was not.
SafeOK ==
    /\ \A q \in Admitted : request[q].now <= time
    /\ shared = [k \in {Slot} |-> Stored] /\ Stored \in Safe \cup {None}
    /\ copies = [p \in Workers |-> copies[p]]
    /\ \A p \in Workers : copies[p] = <<>> \/ \E e \in Safe : copies[p] = << <<Slot, e>> >>
    /\ \A r \in Requests : request[r].phase = "decide" =>
          /\ request[r].basis \in Safe \cup {None}
          /\ request[r].history \subseteq Admitted
          /\ \A q \in request[r].history : request[r].now - request[q].now < Period

\* Whoever wrote since a request read is another process.
OthersOK ==
    /\ \A r \in Requests : request[r].phase = "decide" /\ request[r].basis # Stored =>
          \E q \in Admitted : request[q].process # request[r].process
    /\ \A p \in overtaken : \E q \in Admitted : request[q].process # p

\* A history lacks only requests that are too old to count.
Complete(history) == \A q \in Admitted : q \in history \/ time - request[q].now >= Period

AtWindow(first, last) == {r \in Admitted : request[r].now \in first .. last}

\* Unless Redis fails or a process is overtaken, what is stored is complete, and
\* so is what a request decides by that nobody has written since.
ExactOK ==
    ~failed /\ overtaken = {} =>
        /\ Stored = None => Admitted = {}
        /\ Stored # None =>
              /\ \A q \in Admitted : request[q].now <= Stored.written
              /\ Complete(Stored.history)
        /\ \A r \in Requests : request[r].phase = "decide" /\ request[r].basis = Stored =>
              Complete(request[r].history)
        /\ \A start \in Nat : Cardinality(AtWindow(start, start + Period - 1 - Wait)) <= Limit

RefusedOK ==
    \A r \in Requests : request[r].phase = "refused" =>
        Cardinality(AtWindow(request[r].now - Period + 1, request[r].now + Wait)) >= Limit

LimitInv == LimitTypes /\ LineOK /\ SafeOK /\ OthersOK /\ ExactOK /\ RefusedOK

LEMMA SetsAreFinite ==
    \A S \in SUBSET Requests : IsFiniteSet(S) /\ Cardinality(S) \in Nat
BY LimitAssumption, FS_Subset, FS_CardinalityType

LEMMA LimitCardinality == \A S : Limiting!Cardinality(S) = Cardinality(S)
BY DEF Limiting!Cardinality, Cardinality

LEMMA LimitInit == Limiting!Init => LimitInv
<1> SUFFICES ASSUME Limiting!Init PROVE LimitInv
  OBVIOUS
<1>1. /\ time = 0 /\ queue = [p \in Workers |-> <<>>]
      /\ shared = [k \in {Slot} |-> None] /\ copies = [p \in Workers |-> <<>>]
      /\ request = [r \in Requests |-> [phase |-> "new", process |-> None, now |-> 0,
                                        history |-> {}, basis |-> None]]
      /\ failed = FALSE /\ overtaken = {}
  BY DEF Limiting!Init, Limiting!CacheInit, Limiting!New, Slot
<1>2. Admitted = {}
  BY <1>1 DEF Admitted
<1>3. \A first, last : AtWindow(first, last) = {}
  BY <1>2 DEF AtWindow
<1>4. LimitTypes /\ LineOK
  <2>1. request \in [Requests -> RequestType] /\ \A r \in Requests : request[r].phase = "new"
    BY <1>1 DEF RequestType
  <2>2. LimitTypes
    <3>1. queue \in [Workers -> Seq(Requests)] /\ overtaken \in SUBSET Workers /\ time \in Nat
      BY <1>1
    <3>2. failed \in BOOLEAN
      BY <1>1
    <3> QED
      BY <2>1, <3>1, <3>2 DEF LimitTypes
  <2> QED
    BY <1>1, <2>1, <2>2 DEF LineOK
<1>5. SafeOK
  BY <1>1, <1>2 DEF SafeOK, Stored
<1>6. ExactOK
  <2>1. \A start \in Nat : Cardinality(AtWindow(start, start + Period - 1 - Wait)) <= Limit
    BY <1>3, FS_EmptySet, LimitAssumption
  <2> QED
    BY <1>1, <1>2, <2>1 DEF ExactOK, Stored
<1> QED
  BY <1>1, <1>2, <1>4, <1>5, <1>6 DEF LimitInv, OthersOK, RefusedOK

\* What a process has in its dictionary is a safe history, or nothing.
LEMMA CopyIsSafe ==
  ASSUME SafeOK, NEW p \in Workers
  PROVE  /\ Limiting!Local(p, Slot) \in Safe \cup {None}
         /\ \/ copies[p] = <<>> /\ Limiting!Position(p, Slot) = 0
            \/ Limiting!Position(p, Slot) = 1 /\ \E e \in Safe : copies[p] = << <<Slot, e>> >>
<1> DEFINE I == {i \in 1 .. Len(copies[p]) : copies[p][i][1] = Slot}
<1>1. Limiting!Position(p, Slot) = IF I # {} THEN Limiting!Min(I) ELSE 0
  BY DEF Limiting!Position, Limiting!SelectInSeq
<1>2. CASE copies[p] = <<>>
  BY <1>1, <1>2 DEF Limiting!Local
<1>3. CASE \E e \in Safe : copies[p] = << <<Slot, e>> >>
  <2>1. PICK e \in Safe : copies[p] = << <<Slot, e>> >>
    BY <1>3
  <2>2. I = {1} /\ 1 <= 1
    BY <2>1
  <2> HIDE DEF I
  <2>3. Limiting!Min(I) = 1
    BY <2>2 DEF Limiting!Min
  <2>4. Limiting!Position(p, Slot) = 1
    BY <1>1, <2>2, <2>3
  <2>5. Limiting!Local(p, Slot) = e
    BY <2>1, <2>4 DEF Limiting!Local
  <2> QED
    BY <2>1, <2>4, <2>5
<1> QED
  BY <1>2, <1>3 DEF SafeOK

\* Where one request goes on, and none is admitted, what is stored stays right.
LEMMA QuietKeeps ==
  ASSUME LimitInv, LimitTypes', LineOK', NEW r \in Requests,
         request[r].phase # "admitted", request'[r].phase # "admitted",
         \A q \in Requests : q # r => request'[q] = request[q],
         UNCHANGED <<shared, copies, time, overtaken>>, ~failed' => ~failed,
         request'[r].phase = "decide" =>
            /\ request'[r].basis = Stored
            /\ request'[r].history \subseteq Admitted
            /\ \A q \in request'[r].history : request'[r].now - request[q].now < Period
            /\ ~failed' /\ overtaken = {} => Complete(request'[r].history),
         request'[r].phase = "refused" =>
            Cardinality(AtWindow(request'[r].now - Period + 1, request'[r].now + Wait)) >= Limit
  PROVE  LimitInv'
<1> USE DEF LimitInv
<1>1. Admitted' = Admitted /\ Admitted \subseteq Requests
      /\ \A q \in Admitted : request'[q] = request[q]
  BY DEF Admitted
<1>2. Safe' = Safe /\ Stored' = Stored
  BY <1>1 DEF Safe, Stored
<1>3. SafeOK'
  <2>1. \A q \in Requests : request'[q].phase = "decide" =>
          /\ request'[q].basis \in Safe \cup {None}
          /\ request'[q].history \subseteq Admitted
          /\ \A s \in request'[q].history : request'[q].now - request'[s].now < Period
    <3> SUFFICES ASSUME NEW q \in Requests, request'[q].phase = "decide"
                 PROVE  /\ request'[q].basis \in Safe \cup {None}
                        /\ request'[q].history \subseteq Admitted
                        /\ \A s \in request'[q].history :
                              request'[q].now - request'[s].now < Period
      OBVIOUS
    <3>1. CASE q = r
      BY <1>1, <3>1 DEF SafeOK
    <3>2. CASE q # r
      BY <1>1, <3>2 DEF SafeOK
    <3> QED
      BY <3>1, <3>2
  <2> QED
    BY <1>1, <1>2, <2>1 DEF SafeOK
<1>4. OthersOK'
  BY <1>1, <1>2 DEF OthersOK
<1>5. \A first, last : AtWindow(first, last)' = AtWindow(first, last)
  BY <1>1 DEF AtWindow
<1>6. ExactOK'
  <2> SUFFICES ASSUME ~failed', overtaken' = {}
               PROVE  /\ Stored' = None => Admitted' = {}
                      /\ Stored' # None =>
                            /\ \A q \in Admitted' : request'[q].now <= Stored'.written
                            /\ Complete(Stored.history)'
                      /\ \A q \in Requests :
                            request'[q].phase = "decide" /\ request'[q].basis = Stored' =>
                            Complete(request[q].history)'
                      /\ \A start \in Nat :
                            Cardinality(AtWindow(start, start + Period - 1 - Wait)') <= Limit
    BY DEF ExactOK
  <2>1. ~failed /\ overtaken = {}
    OBVIOUS
  <2>2. ASSUME NEW q \in Requests, request'[q].phase = "decide", request'[q].basis = Stored'
        PROVE  Complete(request[q].history)'
    BY <1>1, <1>2, <2>1, <2>2 DEF ExactOK, Complete
  <2> QED
    BY <1>1, <1>2, <1>5, <2>1, <2>2 DEF ExactOK, Complete
<1>7. RefusedOK'
  BY <1>5 DEF RefusedOK
<1> QED
  BY <1>3, <1>4, <1>6, <1>7

LEMMA ArriveKeeps ==
  ASSUME LimitInv, NEW r \in Requests, NEW p \in Workers, Limiting!Arrive(r, p)
  PROVE  LimitInv'
<1> USE DEF LimitInv
<1> DEFINE line == queue[p]
           n == Len(line)
<1>1. /\ request[r].phase = "new"
      /\ UNCHANGED <<shared, copies, time, failed, overtaken>>
      /\ request' = [request EXCEPT ![r] =
            [phase |-> "queued", process |-> p, now |-> time, history |-> {}, basis |-> None]]
      /\ queue' = [queue EXCEPT ![p] = Append(line, r)]
  BY DEF Limiting!Arrive, Limiting!New
<1>2. LimitTypes'
  BY <1>1 DEF LimitTypes, RequestType
<1>3. /\ \A q \in Requests : q # r => request'[q] = request[q]
      /\ request'[r].phase = "queued" /\ request'[r].now = time /\ request'[r].process = p
  BY <1>1 DEF LimitTypes, RequestType
<1>4. /\ \A u \in Workers : u # p => queue'[u] = queue[u]
      /\ line \in Seq(Requests) /\ n \in Nat /\ queue'[p] = Append(line, r)
  BY <1>1 DEF LimitTypes
<1>5. /\ Len(queue'[p]) = n + 1 /\ queue'[p][n + 1] = r
      /\ \A i \in 1 .. n : queue'[p][i] = line[i] /\ line[i] \in Requests
  BY <1>4
<1>6. \A u \in Workers : \A i \in 1 .. Len(queue[u]) : queue[u][i] \in Requests /\ queue[u][i] # r
  BY <1>1 DEF LimitTypes, LineOK
<1>7. LineOK'
  <2>1. ASSUME NEW u \in Workers, NEW i \in 1 .. Len(queue'[u]), NEW j \in 1 .. Len(queue'[u])
        PROVE  /\ request'[queue'[u][i]].process = u
               /\ request'[queue'[u][i]].phase \in {"queued", "decide"}
               /\ request'[queue'[u][i]].phase = "decide" => i = 1
               /\ queue'[u][i] = queue'[u][j] => i = j
    <3>1. CASE u # p
      <4>1. queue'[u] = queue[u] /\ request'[queue[u][i]] = request[queue[u][i]]
        BY <1>3, <1>4, <1>6, <2>1, <3>1
      <4> QED
        BY <2>1, <4>1 DEF LineOK
    <3>2. CASE u = p
      <4>1. (i \in 1 .. n \/ i = n + 1) /\ (j \in 1 .. n \/ j = n + 1)
        BY <1>4, <1>5, <2>1, <3>2
      <4>2. \A k \in 1 .. n :
              /\ queue'[p][k] = line[k] /\ line[k] # r
              /\ request'[line[k]] = request[line[k]]
        BY <1>3, <1>5, <1>6
      <4>3. CASE i \in 1 .. n
        <5>1. /\ request[line[i]].process = p
              /\ request[line[i]].phase \in {"queued", "decide"}
              /\ request[line[i]].phase = "decide" => i = 1
              /\ \A k \in 1 .. n : line[i] = line[k] => i = k
          BY <4>3 DEF LineOK
        <5> QED
          BY <1>5, <3>2, <4>1, <4>2, <4>3, <5>1
      <4>4. CASE i = n + 1
        BY <1>3, <1>5, <3>2, <4>1, <4>2, <4>4
      <4> QED
        BY <4>1, <4>3, <4>4
    <3> QED
      BY <3>1, <3>2
  <2>2. ASSUME NEW q \in Requests, request'[q].phase \in {"queued", "decide"}
        PROVE  /\ request'[q].process \in Workers
               /\ request'[q].now <= time' /\ time' <= request'[q].now + Wait
    <3>1. CASE q = r
      BY <1>1, <1>3, <3>1, LimitAssumption DEF LimitTypes
    <3>2. CASE q # r
      BY <1>1, <1>3, <2>2, <3>2 DEF LineOK
    <3> QED
      BY <3>1, <3>2
  <2>3. ASSUME NEW q \in Requests, request'[q].phase = "decide"
        PROVE  queue'[request'[q].process] # <<>> /\ queue'[request'[q].process][1] = q
    <3>1. request'[q] = request[q]
      BY <1>3, <2>3
    <3> DEFINE u == request[q].process
    <3>2. u \in Workers /\ queue[u] # <<>> /\ queue[u][1] = q
      BY <2>3, <3>1 DEF LineOK
    <3>3. 1 \in 1 .. Len(queue[u])
      BY <3>2 DEF LimitTypes
    <3>4. queue'[u] # <<>> /\ queue'[u][1] = queue[u][1]
      BY <1>4, <1>5, <3>2, <3>3
    <3> QED
      BY <3>1, <3>2, <3>4
  <2> QED
    BY <2>1, <2>2, <2>3 DEF LineOK
<1> QED
  BY <1>1, <1>2, <1>3, <1>7, QuietKeeps

LEMMA ReadKeeps ==
  ASSUME LimitInv, NEW r \in Requests, Limiting!Read(r)
  PROVE  LimitInv'
<1> USE DEF LimitInv
<1> DEFINE p == request[r].process
           now == request[r].now
<1>1. /\ request[r].phase = "queued" /\ p \in Workers /\ queue[p] # <<>> /\ queue[p][1] = r
      /\ now <= time /\ time <= now + Wait /\ now \in Nat /\ time \in Nat
      /\ UNCHANGED <<shared, copies, time, queue, overtaken>>
  BY DEF Limiting!Read, Limiting!Holds, LimitTypes, RequestType, LineOK
<1>2. PICK found \in Limiting!Gets(p, Slot) :
        /\ request' = [request EXCEPT
              ![r].phase = "decide",
              ![r].basis = Stored,
              ![r].history = IF found = None \/ time - found.written >= Period THEN {}
                             ELSE Limiting!Recent(found.history, now)]
        /\ failed' = (failed \/ found # Stored)
  BY DEF Limiting!Read, Limiting!Key, Slot, Stored
<1>3. found \in Safe \cup {None}
  <2>1. Stored \in Safe \cup {None} /\ Limiting!Local(p, Slot) \in Safe \cup {None}
    BY <1>1, CopyIsSafe DEF SafeOK
  <2> QED
    BY <1>2, <2>1 DEF Limiting!Gets, Stored
<1> DEFINE history == request'[r].history
<1>4. /\ request'[r].phase = "decide" /\ request'[r].now = now /\ request'[r].process = p
      /\ request'[r].basis = Stored
      /\ history = IF found = None \/ time - found.written >= Period THEN {}
                   ELSE {q \in found.history : now - request[q].now < Period}
      /\ \A q \in Requests : q # r => request'[q] = request[q]
  BY <1>2 DEF LimitTypes, RequestType, Limiting!Recent
<1>5. history \subseteq Admitted /\ \A q \in history : now - request[q].now < Period
  BY <1>3, <1>4 DEF Safe
<1>6. LimitTypes'
  <2>1. history \in SUBSET Requests /\ Stored \in Histories \cup {None}
    BY <1>5 DEF Admitted, SafeOK, Safe
  <2>2. request'[r] = [request[r] EXCEPT !.phase = "decide", !.basis = Stored, !.history = history]
    BY <1>2 DEF LimitTypes, RequestType
  <2>3. request' = [request EXCEPT ![r] = request'[r]]
    BY <1>2 DEF LimitTypes
  <2> HIDE DEF history
  <2>4. request'[r] \in RequestType
    BY <2>1, <2>2 DEF LimitTypes, RequestType
  <2>5. failed' \in BOOLEAN
    BY <1>2
  <2> QED
    BY <1>1, <2>3, <2>4, <2>5 DEF LimitTypes
<1>7. \A u \in Workers : \A i \in 1 .. Len(queue[u]) : queue[u][i] \in Requests
  BY DEF LimitTypes
<1>8. 1 \in 1 .. Len(queue[p])
  BY <1>1 DEF LimitTypes
<1>9. LineOK'
  <2>1. ASSUME NEW u \in Workers, NEW i \in 1 .. Len(queue[u]), NEW j \in 1 .. Len(queue[u])
        PROVE  /\ request'[queue[u][i]].process = u
               /\ request'[queue[u][i]].phase \in {"queued", "decide"}
               /\ request'[queue[u][i]].phase = "decide" => i = 1
               /\ queue[u][i] = queue[u][j] => i = j
    <3>1. /\ request[queue[u][i]].process = u
          /\ request[queue[u][i]].phase \in {"queued", "decide"}
          /\ request[queue[u][i]].phase = "decide" => i = 1
          /\ queue[u][i] = queue[u][j] => i = j
      BY <2>1 DEF LineOK
    <3>2. CASE queue[u][i] = r
      <4>1. u = p
        BY <3>1, <3>2
      <4>2. i = 1
        BY <1>1, <1>8, <2>1, <3>2, <4>1 DEF LineOK
      <4> QED
        BY <1>4, <3>1, <3>2, <4>1, <4>2
    <3>3. CASE queue[u][i] # r
      BY <1>4, <1>7, <2>1, <3>1, <3>3
    <3> QED
      BY <3>2, <3>3
  <2>2. ASSUME NEW q \in Requests, request'[q].phase \in {"queued", "decide"}
        PROVE  /\ request'[q].process \in Workers
               /\ request'[q].now <= time /\ time <= request'[q].now + Wait
    BY <1>1, <1>4, <2>2 DEF LineOK
  <2>3. ASSUME NEW q \in Requests, request'[q].phase = "decide"
        PROVE  queue[request'[q].process] # <<>> /\ queue[request'[q].process][1] = q
    BY <1>1, <1>4, <2>3 DEF LineOK
  <2> QED
    BY <1>1, <2>1, <2>2, <2>3 DEF LineOK
<1>10. ASSUME ~failed', overtaken = {} PROVE Complete(history)
  <2>1. found = Stored /\ ~failed
    BY <1>2, <1>10
  <2>2. CASE Stored = None
    BY <1>10, <2>1, <2>2 DEF ExactOK, Complete
  <2>3. CASE Stored # None
    <3> SUFFICES ASSUME NEW q \in Admitted, q \notin history
                 PROVE  time - request[q].now >= Period
      BY DEF Complete
    <3>1. /\ Stored \in Safe /\ Stored.written \in Nat
          /\ request[q].now <= Stored.written /\ request[q].now \in Nat
          /\ q \in Stored.history \/ time - request[q].now >= Period
      BY <1>10, <2>1, <2>3
         DEF ExactOK, Complete, SafeOK, Safe, Histories, Admitted, LimitTypes, RequestType
    <3>2. CASE time - Stored.written >= Period
      BY <1>1, <3>1, <3>2, LimitAssumption
    <3>3. CASE ~(time - Stored.written >= Period) /\ q \in Stored.history
      BY <1>1, <1>4, <2>1, <2>3, <3>1, <3>3, LimitAssumption
    <3> QED
      BY <3>1, <3>2, <3>3
  <2> QED
    BY <2>2, <2>3
<1>11. ~failed' => ~failed
  BY <1>2
<1> QED
  BY <1>1, <1>4, <1>5, <1>6, <1>9, <1>10, <1>11, QuietKeeps

\* Who is answered leaves the line to the next.
LEMMA AnswerKeepsLine ==
  ASSUME LimitInv, NEW r \in Requests, request[r].phase = "decide",
         NEW phase \in {"refused", "admitted"},
         request' = [request EXCEPT ![r].phase = phase],
         Limiting!Release(r), time' = time,
         failed' \in BOOLEAN, overtaken' \in SUBSET Workers
  PROVE  /\ LimitTypes' /\ LineOK'
         /\ request'[r] = [request[r] EXCEPT !.phase = phase]
         /\ \A q \in Requests : q # r => request'[q] = request[q]
         /\ \A q \in Requests :
               q # r /\ request[q].phase = "decide" => request[q].process # request[r].process
<1> USE DEF LimitInv
<1> DEFINE p == request[r].process
<1>1. /\ p \in Workers /\ queue[p] # <<>> /\ queue[p][1] = r /\ queue[p] \in Seq(Requests)
      /\ queue' = [queue EXCEPT ![p] = Tail(queue[p])]
  BY DEF LineOK, LimitTypes, Limiting!Release
<1>2. /\ queue'[p] = Tail(queue[p]) /\ \A u \in Workers : u # p => queue'[u] = queue[u]
      /\ 1 \in 1 .. Len(queue[p])
  BY <1>1 DEF LimitTypes
<1>3. \A i \in 1 .. Len(queue'[p]) :
         /\ i + 1 \in 1 .. Len(queue[p]) /\ queue'[p][i] = queue[p][i + 1]
         /\ i \in Nat /\ i # 0
  <2> DEFINE line == queue[p]
             rest == queue'[p]
  <2>1. line \in Seq(Requests) /\ line # <<>> /\ rest = Tail(line)
    BY <1>1, <1>2
  <2> HIDE DEF line, rest
  <2>2. \A i \in 1 .. Len(rest) :
           i + 1 \in 1 .. Len(line) /\ rest[i] = line[i + 1] /\ i \in Nat /\ i # 0
    BY <2>1
  <2> QED
    BY <2>2 DEF line, rest
<1>4. /\ request'[r] = [request[r] EXCEPT !.phase = phase]
      /\ \A q \in Requests : q # r => request'[q] = request[q]
  BY DEF LimitTypes
<1>5. request'[r].phase = phase /\ request'[r].phase \notin {"queued", "decide"}
  BY <1>4 DEF LimitTypes, RequestType
<1>6. LimitTypes'
  <2>1. request[r] \in RequestType
    BY DEF LimitTypes
  <2>4. request'[r] \in RequestType => request' \in [Requests -> RequestType]
    BY <1>4 DEF LimitTypes
  <2>5. request' \in [Requests -> RequestType]
    <3>1. request'[r] \in RequestType
      <4>1. CASE phase = "refused"
        BY <1>4, <2>1, <4>1 DEF RequestType
      <4>2. CASE phase = "admitted"
        BY <1>4, <2>1, <4>2 DEF RequestType
      <4> QED
        BY <4>1, <4>2
    <3> QED
      BY <2>4, <3>1
  <2>6. queue' \in [Workers -> Seq(Requests)]
    BY <1>1 DEF LimitTypes
  <2> QED
    BY <2>5, <2>6 DEF LimitTypes
<1>7. ASSUME NEW u \in Workers, NEW i \in 1 .. Len(queue[u]), u # p \/ i # 1
      PROVE  queue[u][i] \in Requests /\ queue[u][i] # r /\ request'[queue[u][i]] = request[queue[u][i]]
  <2>1. queue[u][i] \in Requests /\ request[queue[u][i]].process = u
    BY <1>7 DEF LimitTypes, LineOK
  <2>2. queue[u][i] # r
    BY <1>1, <1>2, <1>7, <2>1 DEF LineOK
  <2> QED
    BY <1>4, <2>1, <2>2
<1>8. \A q \in Requests : q # r /\ request[q].phase = "decide" => request[q].process # p
  BY <1>1 DEF LineOK
<1>9. LineOK'
  <2>1. ASSUME NEW u \in Workers, NEW i \in 1 .. Len(queue'[u]), NEW j \in 1 .. Len(queue'[u])
        PROVE  /\ request'[queue'[u][i]].process = u
               /\ request'[queue'[u][i]].phase \in {"queued", "decide"}
               /\ request'[queue'[u][i]].phase = "decide" => i = 1
               /\ queue'[u][i] = queue'[u][j] => i = j
    <3>1. CASE u # p
      BY <1>2, <1>7, <2>1, <3>1 DEF LineOK
    <3>2. CASE u = p
      <4>1. /\ i + 1 \in 1 .. Len(queue[p]) /\ queue'[p][i] = queue[p][i + 1]
            /\ j + 1 \in 1 .. Len(queue[p]) /\ queue'[p][j] = queue[p][j + 1]
            /\ i \in Nat /\ i # 0 /\ j \in Nat
        BY <1>3, <2>1, <3>2
      <4>2. request'[queue[p][i + 1]] = request[queue[p][i + 1]]
        <5>1. i + 1 # 1
          BY <4>1
        <5> QED
          BY <1>1, <1>7, <4>1, <5>1
      <4>3. /\ request[queue[p][i + 1]].process = p
            /\ request[queue[p][i + 1]].phase \in {"queued", "decide"}
            /\ request[queue[p][i + 1]].phase = "decide" => i + 1 = 1
            /\ queue[p][i + 1] = queue[p][j + 1] => i + 1 = j + 1
        <5> DEFINE k == i + 1
                   l == j + 1
        <5>1. k \in 1 .. Len(queue[p]) /\ l \in 1 .. Len(queue[p])
          BY <4>1
        <5>0. p \in Workers /\ LineOK
          BY <1>1
        <5> HIDE DEF k, l, p
        <5>2. /\ request[queue[p][k]].process = p
              /\ request[queue[p][k]].phase \in {"queued", "decide"}
              /\ request[queue[p][k]].phase = "decide" => k = 1
              /\ queue[p][k] = queue[p][l] => k = l
          BY <5>0, <5>1 DEF LineOK
        <5> QED
          BY <5>2 DEF k, l, p
      <4>4. i + 1 # 1 /\ (i + 1 = j + 1 => i = j)
        BY <4>1
      <4> QED
        BY <3>2, <4>1, <4>2, <4>3, <4>4
    <3> QED
      BY <3>1, <3>2
  <2>2. ASSUME NEW q \in Requests, request'[q].phase \in {"queued", "decide"}
        PROVE  /\ request'[q].process \in Workers
               /\ request'[q].now <= time' /\ time' <= request'[q].now + Wait
    BY <1>4, <1>5, <2>2 DEF LineOK
  <2>3. ASSUME NEW q \in Requests, request'[q].phase = "decide"
        PROVE  queue'[request'[q].process] # <<>> /\ queue'[request'[q].process][1] = q
    BY <1>2, <1>4, <1>5, <1>8, <2>3 DEF LineOK
  <2> QED
    BY <2>1, <2>2, <2>3 DEF LineOK
<1> QED
  BY <1>4, <1>6, <1>8, <1>9

LEMMA RefuseKeeps ==
  ASSUME LimitInv, NEW r \in Requests, Limiting!Refuse(r)
  PROVE  LimitInv'
<1> USE DEF LimitInv
<1> DEFINE now == request[r].now
           W == AtWindow(now - Period + 1, now + Wait)
<1>1. /\ request[r].phase = "decide" /\ Cardinality(request[r].history) >= Limit
      /\ request' = [request EXCEPT ![r].phase = "refused"]
      /\ Limiting!Release(r) /\ UNCHANGED <<shared, copies, time, failed, overtaken>>
  BY LimitCardinality DEF Limiting!Refuse
<1>2. /\ LimitTypes' /\ LineOK'
      /\ request'[r] = [request[r] EXCEPT !.phase = "refused"]
      /\ \A q \in Requests : q # r => request'[q] = request[q]
  BY <1>1, AnswerKeepsLine DEF LimitTypes
<1>3. request'[r].phase = "refused" /\ request'[r].now = now
  BY <1>2 DEF LimitTypes, RequestType
<1>4. request[r].history \subseteq W
  <2> SUFFICES ASSUME NEW q \in request[r].history PROVE q \in W
    OBVIOUS
  <2>1. q \in Admitted /\ now - request[q].now < Period
    BY <1>1 DEF SafeOK
  <2>2. request[q].now <= time /\ time <= now + Wait
    BY <1>1, <2>1 DEF SafeOK, LineOK
  <2>3. request[q].now \in Nat /\ now \in Nat /\ time \in Nat
    BY <2>1 DEF LimitTypes, RequestType, Admitted
  <2>4. request[q].now \in now - Period + 1 .. now + Wait
    BY <2>1, <2>2, <2>3, LimitAssumption
  <2> QED
    BY <2>1, <2>4 DEF AtWindow
<1>5. Cardinality(W) >= Limit
  <2>1. W \in SUBSET Requests /\ request[r].history \in SUBSET Requests
    BY <1>4 DEF AtWindow, Admitted
  <2>2. IsFiniteSet(W) /\ Cardinality(W) \in Nat /\ Cardinality(request[r].history) \in Nat
    BY <2>1, SetsAreFinite
  <2>3. Cardinality(request[r].history) <= Cardinality(W)
    BY <1>4, <2>2, FS_Subset
  <2> QED
    BY <1>1, <2>2, <2>3, LimitAssumption
<1> QED
  BY <1>1, <1>2, <1>3, <1>5, QuietKeeps

\* What an admission writes, in Redis or in the dictionary, is safe.
LEMMA AdmitStoresSafely ==
  ASSUME LimitInv, NEW r \in Requests, Limiting!Admit(r),
         NEW entry, entry = [history |-> request[r].history \cup {r}, written |-> time]
  PROVE  /\ shared' = [shared EXCEPT ![Slot] = entry] \/ shared' = shared
         /\ copies' = [copies EXCEPT ![request[r].process] = << <<Slot, entry>> >>]
<1> DEFINE p == request[r].process
           written == Limiting!Written(copies[p], Limiting!Position(p, Slot), Slot, entry)
<1>1. /\ shared' = [shared EXCEPT ![Slot] = entry] \/ shared' = shared
      /\ copies' = [copies EXCEPT ![p] = Limiting!Evicted(written)]
      /\ request[r].phase = "decide"
  BY DEF Limiting!Admit, Limiting!CacheSet, Limiting!RedisBecomes, Limiting!Entry, Limiting!Key,
         Slot
<1>2. p \in Workers
  BY <1>1 DEF LimitInv, LineOK
<1>3. CASE copies[p] = <<>> /\ Limiting!Position(p, Slot) = 0
  <2>1. written = << <<Slot, entry>> >>
    BY <1>3 DEF Limiting!Written
  <2>2. ~(Len(written) > Capacity)
    <3>1. Len(written) = 1
      BY <2>1
    <3> HIDE DEF written
    <3> QED
      BY <3>1, RequestAssumption
  <2> QED
    BY <1>1, <2>1, <2>2 DEF Limiting!Evicted
<1>4. CASE /\ Limiting!Position(p, Slot) = 1
            /\ \E e \in Safe : copies[p] = << <<Slot, e>> >>
  <2>1. written = [copies[p] EXCEPT ![1] = <<Slot, entry>>]
    BY <1>4 DEF Limiting!Written
  <2>2. written = << <<Slot, entry>> >>
    <3>1. PICK e : copies[p] = << <<Slot, e>> >>
      BY <1>4
    <3> QED
      BY <2>1, <3>1
  <2>3. ~(Len(written) > Capacity)
    <3>1. Len(written) = 1
      BY <2>2
    <3> HIDE DEF written
    <3> QED
      BY <3>1, RequestAssumption
  <2> QED
    BY <1>1, <2>2, <2>3 DEF Limiting!Evicted
<1> QED
  BY <1>1, <1>2, <1>3, <1>4, CopyIsSafe DEF LimitInv

LEMMA AdmitKeeps ==
  ASSUME LimitInv, NEW r \in Requests, Limiting!Admit(r)
  PROVE  LimitInv'
<1> USE DEF LimitInv
<1> DEFINE history == request[r].history
           p == request[r].process
           entry == [history |-> history \cup {r}, written |-> time]
<1>1. /\ request[r].phase = "decide" /\ Cardinality(history) < Limit
      /\ request' = [request EXCEPT ![r].phase = "admitted"]
      /\ Limiting!Release(r) /\ time' = time
      /\ failed' = (failed \/ Stored' # entry)
      /\ overtaken' = IF Stored = request[r].basis THEN overtaken ELSE overtaken \cup {p}
      /\ p \in Workers
  BY LimitCardinality DEF Limiting!Admit, Limiting!Judge, Limiting!Entry, Limiting!Key,
     Slot, Stored, LineOK
<1>2. /\ LimitTypes' /\ LineOK'
      /\ request'[r] = [request[r] EXCEPT !.phase = "admitted"]
      /\ \A q \in Requests : q # r => request'[q] = request[q]
      /\ \A q \in Requests : q # r /\ request[q].phase = "decide" => request[q].process # p
  BY <1>1, AnswerKeepsLine DEF LimitTypes
<1>3. /\ request'[r].phase = "admitted" /\ request'[r].now = request[r].now
      /\ request'[r].process = p
  BY <1>2 DEF LimitTypes, RequestType
<1>4. /\ Admitted' = Admitted \cup {r} /\ r \notin Admitted
      /\ Admitted \subseteq Requests /\ \A q \in Admitted : request'[q] = request[q]
  BY <1>1, <1>2, <1>3 DEF Admitted
<1>5. \A q \in Admitted' :
         /\ request'[q].now = request[q].now /\ request'[q].process = request[q].process
         /\ request[q].now \in Nat /\ request[q].now <= time
  BY <1>1, <1>3, <1>4 DEF LimitTypes, RequestType, SafeOK, LineOK
<1>6. /\ shared' = [shared EXCEPT ![Slot] = entry] \/ shared' = shared
      /\ copies' = [copies EXCEPT ![p] = << <<Slot, entry>> >>]
  BY AdmitStoresSafely
<1>7. history \subseteq Admitted /\ time \in Nat
  BY <1>1 DEF SafeOK, LimitTypes
<1>8. entry \in Safe' /\ Safe \subseteq Safe'
  <2>1. history \cup {r} \in SUBSET Requests /\ history \cup {r} \subseteq Admitted'
    BY <1>4, <1>7
  <2>2. entry \in Histories
    BY <1>7, <2>1 DEF Histories
  <2> QED
    BY <1>4, <2>1, <2>2 DEF Safe
<1>9. entry.written = time /\ entry.history = history \cup {r}
  OBVIOUS
<1> HIDE DEF entry
<1>10. /\ shared' = [k \in {Slot} |-> Stored'] /\ Stored' \in Safe' \cup {None}
       /\ Stored' = entry \/ Stored' = Stored
  BY <1>6, <1>8 DEF SafeOK, Stored
<1>11. SafeOK'
  <2>1. /\ copies' = [u \in Workers |-> copies'[u]]
        /\ \A u \in Workers : copies'[u] = <<>> \/ \E e \in Safe' : copies'[u] = << <<Slot, e>> >>
    BY <1>1, <1>6, <1>8 DEF SafeOK
  <2>2. ASSUME NEW q \in Requests, request'[q].phase = "decide"
        PROVE  /\ request'[q].basis \in Safe' \cup {None}
               /\ request'[q].history \subseteq Admitted'
               /\ \A s \in request'[q].history : request'[q].now - request'[s].now < Period
    <3>1. request'[q] = request[q] /\ q # r
      BY <1>2, <1>3, <2>2
    <3>2. /\ request[q].basis \in Safe \cup {None} /\ request[q].history \subseteq Admitted
          /\ \A s \in request[q].history : request[q].now - request[s].now < Period
      BY <2>2, <3>1 DEF SafeOK
    <3> QED
      BY <1>4, <1>8, <3>1, <3>2
  <2>3. \A q \in Admitted' : request'[q].now <= time'
    BY <1>1, <1>5
  <2> QED
    BY <1>10, <2>1, <2>2, <2>3 DEF SafeOK
<1>12. OthersOK'
  <2>1. ASSUME NEW q \in Requests, request'[q].phase = "decide"
        PROVE  \E s \in Admitted' : request'[s].process # request'[q].process
    BY <1>2, <1>3, <1>4, <2>1
  <2>2. ASSUME NEW u \in overtaken'
        PROVE  \E s \in Admitted' : request'[s].process # u
    <3>1. CASE u \in overtaken
      BY <1>4, <1>5, <3>1 DEF OthersOK
    <3>2. CASE u = p /\ Stored # request[r].basis
      BY <1>1, <1>4, <1>5, <3>2 DEF OthersOK
    <3> QED
      BY <1>1, <2>2, <3>1, <3>2
  <2> QED
    BY <2>1, <2>2 DEF OthersOK
<1>13. \A first, last : AtWindow(first, last) \subseteq AtWindow(first, last)'
  BY <1>4, <1>5 DEF AtWindow
<1>14. \A first, last : AtWindow(first, last)' \in SUBSET Requests
  BY DEF AtWindow, Admitted
<1>15. RefusedOK'
  <2>1. ASSUME NEW first, NEW last, Cardinality(AtWindow(first, last)) >= Limit
        PROVE  Cardinality(AtWindow(first, last)') >= Limit
    <3>1. /\ IsFiniteSet(AtWindow(first, last)')
          /\ AtWindow(first, last) \subseteq AtWindow(first, last)'
          /\ Cardinality(AtWindow(first, last)') \in Nat
      BY <1>13, <1>14, SetsAreFinite
    <3>2. /\ Cardinality(AtWindow(first, last)) <= Cardinality(AtWindow(first, last)')
          /\ Cardinality(AtWindow(first, last)) \in Nat
      BY <3>1, FS_Subset, FS_CardinalityType
    <3> QED
      BY <2>1, <3>1, <3>2, LimitAssumption
  <2>2. \A q \in Requests : request'[q].phase = "refused" =>
          request'[q] = request[q] /\ request[q].phase = "refused"
    BY <1>2, <1>3
  <2> QED
    BY <2>1, <2>2 DEF RefusedOK
<1>16. ExactOK'
  <2> SUFFICES ASSUME ~failed', overtaken' = {} PROVE ExactOK'
    BY DEF ExactOK
  <2>1. ~failed /\ overtaken = {} /\ Stored = request[r].basis /\ Stored' = entry
    BY <1>1
  <2>2. Complete(history)
    BY <1>1, <2>1 DEF ExactOK
  <2>3. \A q \in Admitted' :
           q \in entry.history \/ time' - request'[q].now >= Period
    BY <1>1, <1>4, <1>5, <1>9, <2>2 DEF Complete
  <2>4. entry # None
    BY <1>8, LimitAssumption DEF Safe
  <2>5. \A q \in Requests : request'[q].phase = "decide" => request'[q].basis # Stored'
    <3> SUFFICES ASSUME NEW q \in Requests, request'[q].phase = "decide",
                        request'[q].basis = entry
                 PROVE  FALSE
      BY <2>1
    <3>1. request[q].basis = entry /\ request[q].phase = "decide"
      BY <1>2, <1>3
    <3>2. entry \in Safe
      BY <2>4, <3>1 DEF SafeOK
    <3> QED
      BY <1>4, <1>9, <3>2 DEF Safe
  <2>6. ASSUME NEW start \in Nat
        PROVE  Cardinality(AtWindow(start, start + Period - 1 - Wait)') <= Limit
    <3> DEFINE last == start + Period - 1 - Wait
               W == AtWindow(start, last)
    <3>1. CASE request[r].now \notin start .. last
      <4>1. W' = W
        BY <1>3, <1>4, <1>5, <3>1 DEF AtWindow
      <4> QED
        BY <2>1, <4>1 DEF ExactOK
    <3>2. CASE request[r].now \in start .. last
      <4>1. ASSUME NEW q \in W' PROVE q \in history \cup {r}
        <5>1. /\ q \in Admitted' /\ request[q].now \in start .. last
              /\ request[q].now \in Nat /\ request[r].now \in Nat
          BY <1>4, <1>5, <4>1 DEF AtWindow
        <5>2. time <= request[r].now + Wait
          BY <1>1 DEF LineOK
        <5>3. ~(time - request[q].now >= Period)
          BY <1>7, <3>2, <5>1, <5>2, LimitAssumption
        <5> QED
          BY <1>4, <2>2, <5>1, <5>3 DEF Complete
      <4>2. history \in SUBSET Requests
        BY <1>4, <1>7
      <4>3. /\ IsFiniteSet(history) /\ Cardinality(history) \in Nat
            /\ Cardinality(W') \in Nat /\ IsFiniteSet(W') /\ W' \subseteq history \cup {r}
        BY <1>14, <4>1, <4>2, SetsAreFinite
      <4> HIDE DEF history, W
      <4>4. /\ IsFiniteSet(history \cup {r})
            /\ \/ Cardinality(history \cup {r}) = Cardinality(history)
               \/ Cardinality(history \cup {r}) = Cardinality(history) + 1
        BY <4>3, FS_AddElement, Zenon
      <4>5. Cardinality(history \cup {r}) \in Nat
        BY <4>4, FS_CardinalityType
      <4>6. Cardinality(W') <= Cardinality(history \cup {r})
        BY <4>3, <4>4, FS_Subset
      <4>7. Cardinality(W') <= Limit
        BY <1>1, <4>3, <4>4, <4>5, <4>6, LimitAssumption
      <4> QED
        BY <4>7 DEF W
    <3> QED
      BY <3>1, <3>2
  <2>7. \A q \in Admitted' : request'[q].now <= entry.written
    BY <1>5, <1>9
  <2> QED
    BY <2>1, <2>3, <2>4, <2>5, <2>6, <2>7 DEF ExactOK, Complete
<1> QED
  BY <1>2, <1>11, <1>12, <1>15, <1>16

LEMMA TickKeeps == ASSUME LimitInv, Limiting!Tick PROVE LimitInv'
<1> USE DEF LimitInv
<1>1. /\ time' = time + 1 /\ time \in Nat
      /\ UNCHANGED <<shared, copies, request, queue, failed, overtaken>>
      /\ \A r \in Requests :
            request[r].phase \in {"queued", "decide"} => time < request[r].now + Wait
      /\ \A r \in Requests : request[r].now \in Nat
  BY DEF Limiting!Tick, LimitTypes, RequestType
<1>2. Admitted' = Admitted /\ Safe' = Safe /\ Stored' = Stored
  BY <1>1 DEF Admitted, Safe, Stored
<1>3. LimitTypes'
  BY <1>1 DEF LimitTypes, RequestType
<1>4. \A r \in Requests : request[r].phase \in {"queued", "decide"} =>
         request[r].now <= time + 1 /\ time + 1 <= request[r].now + Wait
  BY <1>1, LimitAssumption DEF LineOK
<1>5. LineOK'
  BY <1>1, <1>4 DEF LineOK
<1>6. \A q \in Admitted : request[q].now <= time + 1
  BY <1>1 DEF SafeOK, Admitted
<1>7. SafeOK' /\ OthersOK'
  BY <1>1, <1>2, <1>6 DEF SafeOK, OthersOK
<1>8. \A first, last : AtWindow(first, last)' = AtWindow(first, last)
  BY <1>1, <1>2 DEF AtWindow
<1>9. ASSUME NEW history, Complete(history)
      PROVE  \A q \in Admitted : q \in history \/ time' - request'[q].now >= Period
  <2> SUFFICES ASSUME NEW q \in Admitted, q \notin history
               PROVE  time' - request'[q].now >= Period
    OBVIOUS
  <2>1. time - request[q].now >= Period /\ request[q].now \in Nat
    BY <1>1, <1>9 DEF Complete, Admitted
  <2> QED
    BY <1>1, <2>1, LimitAssumption
<1>10. ExactOK'
  <2> SUFFICES ASSUME ~failed, overtaken = {} PROVE ExactOK'
    BY <1>1 DEF ExactOK
  <2>1. /\ Stored = None => Admitted = {}
        /\ Stored # None =>
              /\ \A q \in Admitted : request[q].now <= Stored.written
              /\ \A q \in Admitted : q \in Stored.history \/ time' - request'[q].now >= Period
    BY <1>9 DEF ExactOK
  <2>2. \A r \in Requests : request[r].phase = "decide" /\ request[r].basis = Stored =>
           \A q \in Admitted : q \in request[r].history \/ time' - request'[q].now >= Period
    BY <1>9 DEF ExactOK
  <2>3. \A start \in Nat : Cardinality(AtWindow(start, start + Period - 1 - Wait)) <= Limit
    BY DEF ExactOK
  <2>4. /\ Stored' # None =>
              /\ \A q \in Admitted' : request'[q].now <= Stored'.written
              /\ \A q \in Admitted' : q \in Stored'.history \/ time' - request'[q].now >= Period
        /\ Stored' = None => Admitted' = {}
    BY <1>1, <1>2, <2>1
  <2>5. \A r \in Requests : request'[r].phase = "decide" /\ request'[r].basis = Stored' =>
           \A q \in Admitted' : q \in request'[r].history \/ time' - request'[q].now >= Period
    BY <1>1, <1>2, <2>2
  <2>6. \A start \in Nat : Cardinality(AtWindow(start, start + Period - 1 - Wait)') <= Limit
    BY <1>8, <2>3
  <2> QED
    BY <2>4, <2>5, <2>6 DEF ExactOK, Complete
<1>11. RefusedOK'
  BY <1>1, <1>8 DEF RefusedOK
<1> QED
  BY <1>3, <1>5, <1>7, <1>10, <1>11

LEMMA LimitStep == ASSUME LimitInv, [Limiting!Next]_Limiting!vars PROVE LimitInv'
<1>1. CASE UNCHANGED Limiting!vars
  <2>1. UNCHANGED <<shared, copies, time, request, queue, failed, overtaken>>
    BY <1>1 DEF Limiting!vars
  <2>2. Admitted' = Admitted /\ Safe' = Safe /\ Stored' = Stored
    BY <2>1 DEF Admitted, Safe, Stored
  <2>3. \A first, last : AtWindow(first, last)' = AtWindow(first, last)
    BY <2>1, <2>2 DEF AtWindow
  <2>4. LimitTypes' /\ LineOK' /\ SafeOK' /\ OthersOK'
    BY <2>1, <2>2 DEF LimitInv, LimitTypes, LineOK, SafeOK, OthersOK
  <2>5. ExactOK' /\ RefusedOK'
    BY <2>1, <2>2, <2>3 DEF LimitInv, ExactOK, Complete, RefusedOK
  <2> QED
    BY <2>4, <2>5 DEF LimitInv
<1> QED
  BY <1>1, ArriveKeeps, ReadKeeps, RefuseKeeps, AdmitKeeps, TickKeeps
     DEF Limiting!Next, Limiting!Step

LEMMA LimitInvExact ==
  LimitInv => /\ Limiting!TypeOK /\ Limiting!AtMostLimit /\ Limiting!OvertakenByAnother
              /\ Limiting!RefusedOnlyAtLimit
<1> SUFFICES ASSUME LimitInv
             PROVE  /\ Limiting!TypeOK /\ Limiting!AtMostLimit /\ Limiting!OvertakenByAnother
                    /\ Limiting!RefusedOnlyAtLimit
  OBVIOUS
<1>1. \A first, last : Limiting!Stamped("admitted", first, last) = AtWindow(first, last)
  BY DEF Limiting!Stamped, AtWindow, Admitted
<1>2. Limiting!TypeOK
  <2>1. \A p \in Workers : DOMAIN queue[p] = 1 .. Len(queue[p])
    BY DEF LimitInv, LimitTypes
  <2>2. \A r \in Requests :
          request[r].phase \in {"new", "queued", "decide", "refused", "admitted"}
    BY DEF LimitInv, LimitTypes, RequestType
  <2> QED
    BY <2>1, <2>2 DEF LimitInv, LineOK, Limiting!TypeOK
<1>3. Limiting!AtMostLimit
  BY <1>1, LimitCardinality DEF LimitInv, ExactOK, LimitTypes, Limiting!AtMostLimit
<1>4. Limiting!OvertakenByAnother
  BY DEF LimitInv, OthersOK, Admitted, Limiting!OvertakenByAnother
<1>5. Limiting!RefusedOnlyAtLimit
  BY <1>1, LimitCardinality DEF LimitInv, RefusedOK, Limiting!RefusedOnlyAtLimit
<1> QED
  BY <1>2, <1>3, <1>4, <1>5

\* Whatever Redis does, no request is refused before the limit is used up, and
\* only another process overtakes one; until either happens, no window admits
\* more than the limit (RateLimiter.check).
THEOREM WindowAlwaysExact == InfrastructureSpec => []WindowIsExact
<1>1. InfrastructureInit => Limiting!Init
  BY DEF InfrastructureInit
<1>2. InfrastructureInit => (part = "limits" => LimitInv)
  BY <1>1, LimitInit
<1>3. (part = "limits" => LimitInv) /\ [InfrastructureNext]_allVars
        => (part = "limits" => LimitInv)'
  <2> SUFFICES ASSUME part = "limits" => LimitInv, [InfrastructureNext]_allVars,
                      part' = "limits"
               PROVE  LimitInv'
    OBVIOUS
  <2>1. part = "limits" /\ [Limiting!Next]_Limiting!vars
    BY DEF InfrastructureNext, allVars, limitVars, Limiting!vars
  <2> QED
    BY <2>1, LimitStep
<1>4. (part = "limits" => LimitInv) => WindowIsExact
  BY LimitInvExact DEF WindowIsExact
<1> QED
  BY <1>2, <1>3, <1>4, PTL DEF InfrastructureSpec

-----------------------------------------------------------------------------
(* The two-level cache of one process.                                     *)

Entries == dict["p"]

DictOK(entries) ==
    /\ entries \in Seq(Keys \X Kept)
    /\ \A i, j \in 1 .. Len(entries) : entries[i][1] = entries[j][1] => i = j

Has(entries, k) == \E i \in 1 .. Len(entries) : entries[i][1] = k

CacheOK ==
    /\ redis \in [Keys -> Kept \cup {None}]
    /\ dict \in [{"p"} -> Seq(Keys \X Kept)]
    /\ DictOK(Entries) /\ Len(Entries) <= Capacity


Place(k) == Requesting!Position("p", k)

LEMMA PlaceOfKey ==
  ASSUME CacheOK, NEW k
  PROVE  IF Has(Entries, k)
         THEN Place(k) \in 1 .. Len(Entries) /\ Entries[Place(k)][1] = k
         ELSE Place(k) = 0
<1> DEFINE I == {i \in 1 .. Len(Entries) : Entries[i][1] = k}
<1>1. Place(k) = IF I # {} THEN Requesting!Min(I) ELSE 0
  BY DEF Place, Requesting!Position, Requesting!SelectInSeq, Entries
<1>2. ASSUME NEW i \in I PROVE Requesting!Min(I) = i
  <2>1. I = {i}
    BY <1>2 DEF CacheOK, DictOK
  <2>2. i <= i
    BY <1>2 DEF CacheOK
  <2> HIDE DEF I
  <2> QED
    BY <2>1, <2>2 DEF Requesting!Min
<1> QED
  BY <1>1, <1>2 DEF Has

LEMMA HeldIffPresent ==
  ASSUME CacheOK, NEW k
  PROVE  Requesting!Local("p", k) # None <=> Has(Entries, k)
<1>1. CASE Has(Entries, k)
  <2>1. Place(k) \in 1 .. Len(Entries) /\ Place(k) # 0
    BY <1>1, PlaceOfKey DEF CacheOK
  <2>2. Entries[Place(k)] \in Keys \X Kept
    BY <2>1 DEF CacheOK, DictOK
  <2>3. Entries[Place(k)][2] \in Kept
    BY <2>2
  <2>4. Requesting!Local("p", k) = Entries[Place(k)][2]
    BY <2>1 DEF Requesting!Local, Place, Entries
  <2> QED
    BY <1>1, <2>3, <2>4, RequestAssumption
<1>2. CASE ~Has(Entries, k)
  <2>1. Place(k) = 0
    BY <1>2, PlaceOfKey
  <2>2. Requesting!Local("p", k) = None
    BY <2>1 DEF Requesting!Local, Place
  <2> QED
    BY <1>2, <2>2
<1> QED
  BY <1>1, <1>2

LEMMA WrittenKeeps ==
  ASSUME CacheOK, NEW k \in Keys, NEW v \in Kept
  PROVE  LET entries == Requesting!Written(Entries, Place(k), k, v) IN
         /\ DictOK(entries) /\ Has(entries, k)
         /\ \A l : Has(Entries, l) => Has(entries, l)
<1> DEFINE entries == Requesting!Written(Entries, Place(k), k, v)
           n == Len(Entries)
<1>1. Entries \in Seq(Keys \X Kept) /\ n \in Nat /\ <<k, v>> \in Keys \X Kept
  BY DEF CacheOK, DictOK
<1>2. CASE Has(Entries, k)
  <2>1. Place(k) \in 1 .. n /\ Entries[Place(k)][1] = k /\ Place(k) # 0
    BY <1>1, <1>2, PlaceOfKey
  <2>2. entries = [Entries EXCEPT ![Place(k)] = <<k, v>>]
    BY <2>1 DEF Requesting!Written
  <2> HIDE DEF entries
  <2>3. /\ entries \in Seq(Keys \X Kept) /\ Len(entries) = n
        /\ \A i \in 1 .. n : entries[i][1] = Entries[i][1]
    BY <1>1, <2>1, <2>2
  <2>4. DictOK(entries)
    BY <2>3 DEF CacheOK, DictOK
  <2> QED
    BY <1>2, <2>3, <2>4 DEF Has, entries
<1>3. CASE ~Has(Entries, k)
  <2>1. entries = Append(Entries, <<k, v>>)
    BY <1>3, PlaceOfKey DEF Requesting!Written
  <2> HIDE DEF entries
  <2>2. /\ entries \in Seq(Keys \X Kept) /\ Len(entries) = n + 1
        /\ \A i \in 1 .. n : entries[i] = Entries[i]
        /\ entries[n + 1] = <<k, v>>
    BY <1>1, <2>1
  <2>3. \A i \in 1 .. n : entries[i][1] # k
    BY <1>3, <2>2 DEF Has
  <2>4. \A i \in 1 .. Len(entries) : i \in 1 .. n \/ i = n + 1
    BY <1>1, <2>2
  <2>5. \A i, j \in 1 .. Len(entries) : entries[i][1] = entries[j][1] => i = j
    <3> SUFFICES ASSUME NEW i \in 1 .. Len(entries), NEW j \in 1 .. Len(entries),
                        entries[i][1] = entries[j][1]
                 PROVE  i = j
      OBVIOUS
    <3>1. entries[n + 1][1] = k
      BY <2>2
    <3>2. \A l, m \in 1 .. n : Entries[l][1] = Entries[m][1] => l = m
      BY DEF CacheOK, DictOK
    <3>3. CASE i \in 1 .. n /\ j \in 1 .. n
      BY <2>2, <3>2, <3>3
    <3>4. CASE i = n + 1
      BY <2>3, <2>4, <3>1, <3>4
    <3>5. CASE j = n + 1
      BY <2>3, <2>4, <3>1, <3>5
    <3> QED
      BY <2>4, <3>3, <3>4, <3>5
  <2>6. \A i \in 1 .. n : i \in 1 .. Len(entries)
    BY <1>1, <2>2
  <2>7. n + 1 \in 1 .. Len(entries)
    BY <1>1, <2>2
  <2> QED
    BY <2>2, <2>5, <2>6, <2>7 DEF DictOK, Has, entries
<1> QED
  BY <1>2, <1>3

LEMMA WithoutKeeps ==
  ASSUME CacheOK, NEW k
  PROVE  LET entries == Requesting!Without(Entries, Place(k)) IN
         /\ DictOK(entries) /\ Len(entries) <= Len(Entries)
         /\ \A l : l # k /\ Has(Entries, l) => Has(entries, l)
<1> DEFINE entries == Requesting!Without(Entries, Place(k))
           n == Len(Entries)
           place == Place(k)
<1>1. Entries \in Seq(Keys \X Kept) /\ n \in Nat
  BY DEF CacheOK, DictOK
<1>2. CASE ~Has(Entries, k)
  <2>1. entries = Entries
    BY <1>2, PlaceOfKey DEF Requesting!Without
  <2> QED
    BY <1>1, <2>1 DEF CacheOK
<1>3. CASE Has(Entries, k)
  <2>1. place \in 1 .. n /\ Entries[place][1] = k /\ place # 0
    BY <1>1, <1>3, PlaceOfKey
  <2>2. entries = SubSeq(Entries, 1, place - 1) \o SubSeq(Entries, place + 1, n)
    BY <2>1 DEF Requesting!Without, Requesting!RemoveAt
  <2> HIDE DEF entries, place
  <2>3. /\ SubSeq(Entries, 1, place - 1) \in Seq(Keys \X Kept)
        /\ Len(SubSeq(Entries, 1, place - 1)) = place - 1
        /\ \A i \in 1 .. place - 1 : SubSeq(Entries, 1, place - 1)[i] = Entries[i]
    BY <1>1, <2>1
  <2>4. /\ SubSeq(Entries, place + 1, n) \in Seq(Keys \X Kept)
        /\ Len(SubSeq(Entries, place + 1, n)) = n - place
        /\ \A i \in 1 .. n - place : SubSeq(Entries, place + 1, n)[i] = Entries[place + i]
    BY <1>1, <2>1
  <2>5. /\ entries \in Seq(Keys \X Kept) /\ Len(entries) = n - 1
        /\ \A i \in 1 .. n - 1 : entries[i] = IF i < place THEN Entries[i] ELSE Entries[i + 1]
    <3> DEFINE A == SubSeq(Entries, 1, place - 1)
               B == SubSeq(Entries, place + 1, n)
    <3>1. /\ A \in Seq(Keys \X Kept) /\ Len(A) = place - 1
          /\ \A i \in 1 .. place - 1 : A[i] = Entries[i]
          /\ B \in Seq(Keys \X Kept) /\ Len(B) = n - place
          /\ \A i \in 1 .. n - place : B[i] = Entries[place + i]
          /\ entries = A \o B
      BY <2>2, <2>3, <2>4
    <3> HIDE DEF A, B
    <3>2. /\ entries \in Seq(Keys \X Kept) /\ Len(entries) = Len(A) + Len(B)
          /\ \A i \in 1 .. Len(A) + Len(B) :
                entries[i] = IF i <= Len(A) THEN A[i] ELSE B[i - Len(A)]
      BY <3>1
    <3>3. ASSUME NEW i \in 1 .. n - 1
          PROVE  entries[i] = IF i < place THEN Entries[i] ELSE Entries[i + 1]
      <4>1. i \in 1 .. Len(A) + Len(B)
        BY <1>1, <2>1, <3>1
      <4>2. CASE i < place
        <5>1. i <= Len(A) /\ i \in 1 .. place - 1
          BY <1>1, <2>1, <3>1, <4>2
        <5> QED
          BY <3>1, <3>2, <4>1, <4>2, <5>1
      <4>3. CASE ~(i < place)
        <5>1. ~(i <= Len(A)) /\ i - Len(A) \in 1 .. n - place /\ place + (i - Len(A)) = i + 1
          BY <1>1, <2>1, <3>1, <4>3
        <5>2. B[i - Len(A)] = Entries[i + 1]
          BY <3>1, <5>1
        <5> QED
          BY <3>2, <4>1, <4>3, <5>1, <5>2
      <4> QED
        BY <4>2, <4>3
    <3>4. Len(A) + Len(B) = n - 1
      BY <1>1, <2>1, <3>1
    <3> QED
      BY <3>2, <3>3, <3>4
  <2>6. \A i, j \in 1 .. Len(entries) : entries[i][1] = entries[j][1] => i = j
    <3> SUFFICES ASSUME NEW i \in 1 .. n - 1, NEW j \in 1 .. n - 1,
                        entries[i][1] = entries[j][1]
                 PROVE  i = j
      BY <2>5
    <3> DEFINE was(m) == IF m < place THEN m ELSE m + 1
    <3>1. was(i) \in 1 .. n /\ was(j) \in 1 .. n /\ (was(i) = was(j) => i = j)
      BY <1>1, <2>1
    <3>2. entries[i] = Entries[was(i)] /\ entries[j] = Entries[was(j)]
      BY <2>5
    <3> HIDE DEF was
    <3> QED
      BY <3>1, <3>2 DEF CacheOK, DictOK
  <2>7. ASSUME NEW l, l # k, Has(Entries, l) PROVE Has(entries, l)
    <3>1. PICK i \in 1 .. n : Entries[i][1] = l
      BY <2>7 DEF Has
    <3>2. i # place
      BY <2>1, <2>7, <3>1
    <3>3. CASE i < place
      <4>1. i \in 1 .. n - 1 /\ entries[i] = Entries[i]
        BY <1>1, <2>1, <2>5, <3>1, <3>3
      <4> QED
        BY <2>5, <3>1, <4>1 DEF Has
    <3>4. CASE i > place
      <4>1. i - 1 \in 1 .. n - 1 /\ ~(i - 1 < place) /\ (i - 1) + 1 = i
        BY <1>1, <2>1, <3>1, <3>4
      <4>2. entries[i - 1] = Entries[i]
        BY <2>5, <4>1
      <4> QED
        BY <2>5, <3>1, <4>1, <4>2 DEF Has
    <3> QED
      BY <1>1, <2>1, <3>2, <3>3, <3>4
  <2>8. Len(entries) <= n
    BY <1>1, <2>1, <2>5
  <2> QED
    BY <2>5, <2>6, <2>7, <2>8 DEF DictOK, entries
<1> QED
  BY <1>2, <1>3

\* A new entry drops the oldest of a full dictionary, and no other.
LEMMA SetKeeps ==
  ASSUME CacheOK, NEW k \in Keys, NEW v \in Kept, Requesting!CacheSet("p", k, v)
  PROVE  /\ CacheOK' /\ Has(Entries', k) /\ k \notin Requesting!Evictee("p", k)
         /\ \A l : Has(Entries, l) /\ l \notin Requesting!Evictee("p", k) => Has(Entries', l)
<1> DEFINE written == Requesting!Written(Entries, Place(k), k, v)
           entries == Requesting!Evicted(written)
           gone == Requesting!Evictee("p", k)
           n == Len(Entries)
<1>1. /\ dict' = [dict EXCEPT !["p"] = entries]
      /\ redis' = [redis EXCEPT ![k] = v] \/ redis' = redis
  BY DEF Requesting!CacheSet, Requesting!RedisBecomes, Entries, Place
<1>2. /\ DictOK(written) /\ Has(written, k)
      /\ \A l : Has(Entries, l) => Has(written, l)
  BY WrittenKeeps
<1>3. /\ Entries \in Seq(Keys \X Kept) /\ n \in Nat /\ n <= Capacity
      /\ Capacity \in Nat /\ Capacity >= 1
  BY RequestAssumption DEF CacheOK, DictOK
<1>4. gone = IF Place(k) = 0 /\ n >= Capacity THEN {Entries[1][1]} ELSE {}
  BY DEF Requesting!Evictee, Place, Entries
<1>5. CASE Place(k) # 0
  <2>1. written = [Entries EXCEPT ![Place(k)] = <<k, v>>] /\ gone = {}
    BY <1>4, <1>5 DEF Requesting!Written
  <2>2. Len(written) = n
    BY <1>3, <2>1
  <2> HIDE DEF written
  <2>3. entries = written /\ Len(written) <= Capacity
    BY <1>3, <2>2 DEF Requesting!Evicted
  <2> HIDE DEF gone, entries
  <2>4. CacheOK' /\ Entries' = written
    <3>1. dict' \in [{"p"} -> Seq(Keys \X Kept)] /\ Entries' = written
      BY <1>1, <1>2, <2>3 DEF CacheOK, Entries, DictOK
    <3>2. redis' \in [Keys -> Kept \cup {None}]
      BY <1>1 DEF CacheOK
    <3> QED
      BY <1>2, <2>3, <3>1, <3>2 DEF CacheOK
  <2> QED
    BY <1>2, <2>1, <2>4 DEF gone
<1>6. CASE Place(k) = 0
  <2>1. written = Append(Entries, <<k, v>>) /\ ~Has(Entries, k)
    <3>1. ~Has(Entries, k)
      BY <1>3, <1>6, PlaceOfKey
    <3> QED
      BY <1>6, <3>1 DEF Requesting!Written
  <2> HIDE DEF written
  <2>2. /\ written \in Seq(Keys \X Kept) /\ Len(written) = n + 1
        /\ \A i \in 1 .. n : written[i] = Entries[i]
        /\ written[n + 1] = <<k, v>>
    BY <1>3, <2>1
  <2>3. CASE n < Capacity
    <3>1. entries = written /\ gone = {}
      BY <1>3, <1>4, <2>2, <2>3 DEF Requesting!Evicted
    <3>2. Len(written) <= Capacity
      BY <1>3, <2>2, <2>3
    <3> HIDE DEF gone, entries
    <3> QED
      BY <1>1, <1>2, <3>1, <3>2 DEF CacheOK, Entries, DictOK, gone
  <2>4. CASE n >= Capacity
    <3>1. entries = Tail(written) /\ gone = {Entries[1][1]} /\ 1 \in 1 .. n
      BY <1>3, <1>4, <1>6, <2>2, <2>4 DEF Requesting!Evicted
    <3> HIDE DEF entries
    <3>2. /\ entries \in Seq(Keys \X Kept) /\ Len(entries) = n
          /\ \A i \in 1 .. n : entries[i] = written[i + 1]
      BY <1>3, <2>2, <3>1
    <3>3. DictOK(entries)
      <4> SUFFICES ASSUME NEW i \in 1 .. n, NEW j \in 1 .. n, entries[i][1] = entries[j][1]
                   PROVE  i = j
        BY <3>2 DEF DictOK
      <4>1. i + 1 \in 1 .. Len(written) /\ j + 1 \in 1 .. Len(written)
        BY <1>3, <2>2
      <4>2. written[i + 1][1] = written[j + 1][1]
        BY <3>2
      <4>3. i + 1 = j + 1
        BY <1>2, <4>1, <4>2 DEF DictOK
      <4> QED
        BY <4>3
    <3>4. Has(entries, k)
      <4>1. n \in 1 .. n /\ entries[n] = <<k, v>>
        BY <1>3, <2>2, <3>1, <3>2
      <4> QED
        BY <3>2, <4>1 DEF Has
    <3>5. k \notin gone
      BY <2>1, <3>1 DEF Has
    <3>6. ASSUME NEW l, Has(Entries, l), l \notin gone PROVE Has(entries, l)
      <4>1. PICK i \in 1 .. n : Entries[i][1] = l
        BY <3>6 DEF Has
      <4>2. i # 1
        BY <3>1, <3>6, <4>1
      <4>3. i - 1 \in 1 .. n /\ (i - 1) + 1 = i
        BY <1>3, <4>2
      <4>4. entries[i - 1] = Entries[i]
        BY <2>2, <3>2, <4>1, <4>3
      <4> QED
        BY <3>2, <4>1, <4>3, <4>4 DEF Has
    <3>7. CacheOK' /\ Entries' = entries
      BY <1>1, <1>3, <3>2, <3>3 DEF CacheOK, Entries
    <3> HIDE DEF gone
    <3> QED
      BY <3>4, <3>5, <3>6, <3>7 DEF gone
  <2> QED
    BY <1>3, <2>3, <2>4
<1> QED
  BY <1>5, <1>6

LEMMA DeleteKeeps ==
  ASSUME CacheOK, NEW k \in Keys,
         \/ Requesting!CacheDelete("p", k)
         \/ Requesting!ExpireInRedis(k)
         \/ Requesting!ExpireInDict("p", k)
  PROVE  CacheOK' /\ \A l : l # k /\ Has(Entries, l) => Has(Entries', l)
<1> DEFINE entries == Requesting!Without(Entries, Place(k))
<1>1. /\ dict' = [dict EXCEPT !["p"] = entries] \/ dict' = dict
      /\ redis' = [redis EXCEPT ![k] = None] \/ redis' = redis
  BY DEF Requesting!CacheDelete, Requesting!ExpireInRedis, Requesting!ExpireInDict,
     Requesting!RedisBecomes, Entries, Place
<1>2. /\ DictOK(entries) /\ Len(entries) <= Len(Entries)
      /\ \A l : l # k /\ Has(Entries, l) => Has(entries, l)
  BY WithoutKeeps
<1> HIDE DEF entries
<1>3. /\ Entries' = entries \/ Entries' = Entries
      /\ dict' \in [{"p"} -> Seq(Keys \X Kept)]
  BY <1>1, <1>2 DEF CacheOK, Entries, DictOK
<1>4. redis' \in [Keys -> Kept \cup {None}]
  BY <1>1 DEF CacheOK
<1>5. Len(Entries') <= Capacity
  <2>1. Len(entries) \in Nat /\ Len(Entries) \in Nat /\ Len(Entries) <= Capacity
    BY <1>2 DEF CacheOK, DictOK
  <2> QED
    BY <1>2, <1>3, <2>1, RequestAssumption
<1> QED
  BY <1>2, <1>3, <1>4, <1>5 DEF CacheOK

-----------------------------------------------------------------------------
(* The retrying client and the middleware.                                 *)

Exchange ==
    [caller : Callers, number : Nat, attempt : 0 .. MaxRetries, process : {"p"},
     body : Bodies, answer : {"none"} \cup Requesting!Answers,
     phase : {"sent", "missed", "running", "handled", "answered"}]

ClientOK ==
    /\ calls \in Nat
    /\ pc \in [Callers -> {"idle", "waiting", "reading", "backoff", "done"}]
    /\ call \in [Callers -> [number : Nat, body : Bodies \cup {None}, attempt : 0 .. MaxRetries]]
    /\ \A c \in Callers :
          /\ call[c].number <= calls
          /\ pc[c] # "idle" => call[c].number >= 1 /\ call[c].body \in Bodies
          /\ pc[c] = "backoff" => call[c].attempt < MaxRetries

ExchangesOK ==
    \A e \in exchanges : e \in Exchange /\ e.number \in 1 .. calls

KeyOf(e) == Digest[e.body]

Lapsed(e) == KeyOf(e) \in lapsed

\* What is at work, or has been done, has its key in the dictionary unless the
\* entry went under it; only what has just been done has both.
AtWorkOK ==
    /\ \A e, f \in Requesting!AtWork : KeyOf(e) = KeyOf(f) => Lapsed(e) \/ e = f
    /\ \A e, f \in exchanges : e.phase = "missed" /\ f.phase = "missed" => e = f
    /\ \A e \in exchanges :
          e.phase \in {"running", "handled"} => Lapsed(e) \/ Has(Entries, KeyOf(e))

DoneOK ==
    /\ \A x \in executions : x.body \in Bodies /\ (Lapsed(x) \/ Has(Entries, KeyOf(x)))
    /\ \A x, y \in executions : KeyOf(x) = KeyOf(y) => Lapsed(x) \/ x = y
    /\ \A e \in Requesting!AtWork, x \in executions :
          KeyOf(e) = KeyOf(x) => Lapsed(x) \/ (e.phase = "handled" /\ e.answer = "json")

RequestInv == CacheOK /\ ClientOK /\ ExchangesOK /\ AtWorkOK /\ DoneOK

LEMMA KeysOfBodies == \A body \in Bodies : Digest[body] \in Keys
BY DEF Keys

LEMMA RequestInit == Requesting!Init => RequestInv
<1> SUFFICES ASSUME Requesting!Init PROVE RequestInv
  OBVIOUS
<1>1. /\ redis = [k \in Keys |-> None] /\ dict = [p \in {"p"} |-> <<>>]
      /\ exchanges = {} /\ executions = {} /\ calls = 0
      /\ pc = [c \in Callers |-> "idle"]
      /\ call = [c \in Callers |-> [number |-> 0, body |-> None, attempt |-> 0]]
  BY DEF Requesting!Init, Requesting!CacheInit
<1>2. ClientOK
  BY <1>1, RequestAssumption DEF ClientOK
<1>3. CacheOK
  BY <1>1, RequestAssumption DEF CacheOK, DictOK, Entries
<1>4. Requesting!AtWork = {}
  BY <1>1 DEF Requesting!AtWork
<1> QED
  BY <1>1, <1>2, <1>3, <1>4 DEF RequestInv, ExchangesOK, AtWorkOK, DoneOK

\* The client is no part of what is at work.
LEMMA ClientKeeps ==
  ASSUME RequestInv, ClientOK', ExchangesOK',
         redis' = redis, dict' = dict, executions' = executions, lapsed' = lapsed,
         \A e \in exchanges' : e \in exchanges \/ e.phase = "sent",
         \A e \in exchanges : e \in exchanges' \/ e.phase = "answered"
  PROVE  RequestInv'
<1>1. Entries' = Entries
  BY DEF Entries
<1>2. Requesting!AtWork' = Requesting!AtWork
  BY DEF Requesting!AtWork
<1>3. CacheOK'
  BY <1>1 DEF RequestInv, CacheOK
<1>4. AtWorkOK'
  BY <1>1, <1>2 DEF RequestInv, AtWorkOK, Lapsed
<1>5. DoneOK'
  BY <1>1, <1>2 DEF RequestInv, DoneOK, Lapsed
<1> QED
  BY <1>3, <1>4, <1>5 DEF RequestInv

LEMMA SendKeeps ==
  ASSUME RequestInv, NEW c \in Callers, NEW attempt \in 0 .. MaxRetries, ClientOK',
         Requesting!Send(c, attempt), pc'[c] # "idle", calls <= calls',
         redis' = redis, dict' = dict, executions' = executions, lapsed' = lapsed
  PROVE  RequestInv'
<1> DEFINE e == [caller |-> c, number |-> call'[c].number, attempt |-> attempt,
                 process |-> "p", body |-> call'[c].body, phase |-> "sent",
                 answer |-> "none"]
<1>1. exchanges' = exchanges \cup {e}
  BY DEF Requesting!Send
<1>2. call'[c].number \in 1 .. calls' /\ call'[c].body \in Bodies
  BY DEF ClientOK
<1>3. e \in Exchange /\ e.number \in 1 .. calls'
  BY <1>2 DEF Exchange
<1>4. e.phase = "sent"
  OBVIOUS
<1> HIDE DEF e
<1>5. ExchangesOK'
  BY <1>1, <1>3 DEF RequestInv, ExchangesOK, ClientOK
<1> QED
  BY <1>1, <1>4, <1>5, ClientKeeps

LEMMA RequestKeeps ==
  ASSUME RequestInv, NEW c \in Callers, NEW body \in Bodies, Requesting!Request(c, body)
  PROVE  RequestInv'
<1>1. /\ calls' = calls + 1
      /\ call' = [call EXCEPT ![c] = [number |-> calls + 1, body |-> body, attempt |-> 0]]
      /\ pc' = [pc EXCEPT ![c] = "waiting"]
      /\ Requesting!Send(c, 0)
      /\ redis' = redis /\ dict' = dict /\ executions' = executions /\ lapsed' = lapsed
  BY DEF Requesting!Request
<1>2. ClientOK' /\ pc'[c] # "idle" /\ calls <= calls' /\ 0 \in 0 .. MaxRetries
  BY <1>1, RequestAssumption DEF RequestInv, ClientOK
<1> QED
  BY <1>1, <1>2, SendKeeps

LEMMA RetryKeeps ==
  ASSUME RequestInv, NEW c \in Callers, Requesting!Retry(c)
  PROVE  RequestInv'
<1> DEFINE Call == [number : Nat, body : Bodies \cup {None}, attempt : 0 .. MaxRetries]
<1>1. /\ pc[c] = "backoff" /\ calls' = calls
      /\ call' = [call EXCEPT ![c].attempt = @ + 1]
      /\ pc' = [pc EXCEPT ![c] = "waiting"]
      /\ Requesting!Send(c, call[c].attempt + 1)
      /\ redis' = redis /\ dict' = dict /\ executions' = executions /\ lapsed' = lapsed
  BY DEF Requesting!Retry
<1>2. /\ call[c].attempt + 1 \in 0 .. MaxRetries /\ calls \in Nat
      /\ call[c] \in Call /\ call \in [Callers -> Call]
      /\ call[c].number >= 1 /\ call[c].number <= calls /\ call[c].body \in Bodies
  BY <1>1, RequestAssumption DEF RequestInv, ClientOK
<1>3. /\ call'[c] = [call[c] EXCEPT !.attempt = call[c].attempt + 1]
      /\ \A d \in Callers : d # c => call'[d] = call[d] /\ pc'[d] = pc[d]
      /\ pc'[c] = "waiting"
  BY <1>1 DEF RequestInv, ClientOK
<1>4. call'[c] \in Call /\ call'[c].number = call[c].number /\ call'[c].body = call[c].body
  BY <1>2, <1>3
<1>5. ClientOK'
  <2>1. call' \in [Callers -> Call]
    <3>1. call' = [call EXCEPT ![c] = call'[c]]
      BY <1>1, <1>2, <1>3
    <3> HIDE DEF Call
    <3> QED
      BY <1>2, <1>4, <3>1
  <2>2. pc' \in [Callers -> {"idle", "waiting", "reading", "backoff", "done"}]
    BY <1>1 DEF RequestInv, ClientOK
  <2>3. ASSUME NEW d \in Callers
        PROVE  /\ call'[d].number <= calls'
               /\ pc'[d] # "idle" => call'[d].number >= 1 /\ call'[d].body \in Bodies
               /\ pc'[d] = "backoff" => call'[d].attempt < MaxRetries
    <3>1. CASE d = c
      BY <1>1, <1>2, <1>3, <1>4, <3>1
    <3>2. CASE d # c
      BY <1>1, <1>3, <3>2 DEF RequestInv, ClientOK
    <3> QED
      BY <3>1, <3>2
  <2> QED
    BY <1>1, <1>2, <2>1, <2>2, <2>3 DEF ClientOK
<1> QED
  BY <1>1, <1>2, <1>3, <1>5, SendKeeps

\* A failed attempt, or an answer, ends the attempt.
LEMMA EndKeeps ==
  ASSUME RequestInv, NEW c \in Callers, pc[c] # "idle", call' = call, calls' = calls,
         NEW next \in {"reading", "backoff", "done"}, pc' = [pc EXCEPT ![c] = next],
         next = "backoff" => call[c].attempt < MaxRetries
  PROVE  ClientOK'
BY DEF RequestInv, ClientOK

LEMMA FailKeeps ==
  ASSUME RequestInv, NEW c \in Callers, pc[c] # "idle", Requesting!Fail(c)
  PROVE  ClientOK' /\ calls' = calls
<1>1. CASE call[c].attempt < MaxRetries
  BY <1>1, EndKeeps DEF Requesting!Fail
<1>2. CASE ~(call[c].attempt < MaxRetries)
  BY <1>2, EndKeeps DEF Requesting!Fail, Requesting!End
<1> QED
  BY <1>1, <1>2

LEMMA TimeoutKeeps ==
  ASSUME RequestInv, NEW c \in Callers, Requesting!Timeout(c)
  PROVE  RequestInv'
<1>1. /\ ClientOK' /\ calls' = calls
      /\ exchanges' = {e \in exchanges : ~(e.phase = "answered" /\ e.caller = c)}
      /\ redis' = redis /\ dict' = dict /\ executions' = executions /\ lapsed' = lapsed
  BY FailKeeps DEF Requesting!Timeout
<1>2. ExchangesOK'
  BY <1>1 DEF RequestInv, ExchangesOK
<1> QED
  BY <1>1, <1>2, ClientKeeps

LEMMA ReadAnswerKeeps ==
  ASSUME RequestInv, NEW c \in Callers, Requesting!Read(c)
  PROVE  RequestInv'
<1>1. /\ pc[c] # "idle" /\ exchanges' = exchanges
      /\ redis' = redis /\ dict' = dict /\ executions' = executions /\ lapsed' = lapsed
      /\ \/ Requesting!End(c) /\ call' = call /\ calls' = calls
         \/ Requesting!Fail(c)
  BY DEF Requesting!Read
<1>2. ClientOK' /\ calls' = calls
  BY <1>1, FailKeeps, EndKeeps DEF Requesting!End
<1>3. ExchangesOK'
  BY <1>1, <1>2 DEF RequestInv, ExchangesOK
<1> QED
  BY <1>1, <1>2, <1>3, ClientKeeps

LEMMA ReceiveKeeps ==
  ASSUME RequestInv, NEW e \in exchanges, Requesting!Receive(e)
  PROVE  RequestInv'
<1>1. /\ e.phase = "answered" /\ e.caller \in Callers /\ pc[e.caller] # "idle"
      /\ exchanges' = exchanges \ {e}
      /\ redis' = redis /\ dict' = dict /\ executions' = executions /\ lapsed' = lapsed
      /\ \/ Requesting!Fail(e.caller)
         \/ pc' = [pc EXCEPT ![e.caller] = "reading"] /\ call' = call /\ calls' = calls
  BY DEF Requesting!Receive, Requesting!Waits, RequestInv, ExchangesOK, Exchange
<1>2. ClientOK' /\ calls' = calls
  BY <1>1, FailKeeps, EndKeeps
<1>3. ExchangesOK'
  BY <1>1, <1>2 DEF RequestInv, ExchangesOK
<1> QED
  BY <1>1, <1>2, <1>3, ClientKeeps

LEMMA ServerKeepsClient ==
  ASSUME RequestInv, pc' = pc, call' = call, calls' = calls PROVE ClientOK'
BY DEF RequestInv, ClientOK

\* One exchange goes on.
LEMMA BecomeKeeps ==
  ASSUME RequestInv, NEW e \in exchanges, NEW f \in Exchange, Requesting!Become(e, f),
         f.number = e.number, pc' = pc, call' = call, calls' = calls
  PROVE  /\ ExchangesOK' /\ ClientOK'
         /\ exchanges' = (exchanges \ {e}) \cup {f}
         /\ \A g \in Requesting!AtWork' :
               \/ g \in Requesting!AtWork /\ g # e
               \/ g = f /\ f.phase \in {"missed", "running", "handled"}
<1>1. exchanges' = (exchanges \ {e}) \cup {f}
  BY DEF Requesting!Become
<1>2. ExchangesOK'
  BY <1>1 DEF RequestInv, ExchangesOK
<1> QED
  BY <1>1, <1>2, ServerKeepsClient DEF Requesting!AtWork

\* One exchange is answered, and is at work no longer.
LEMMA AnswerKeeps ==
  ASSUME RequestInv, NEW e \in exchanges,
         NEW given \in {"none"} \cup Requesting!Answers, Requesting!Answer(e, given),
         pc' = pc, call' = call, calls' = calls
  PROVE  /\ ExchangesOK' /\ ClientOK'
         /\ \A g \in exchanges' : (g \in exchanges /\ g # e) \/ g.phase = "answered"
         /\ \A g \in Requesting!AtWork' : g \in Requesting!AtWork /\ g # e
<1> DEFINE f == [e EXCEPT !.phase = "answered", !.answer = given]
<1>1. \A g \in exchanges' : (g \in exchanges /\ g # e) \/ g = f
  BY DEF Requesting!Answer
<1>2. f \in Exchange /\ f.number = e.number /\ f.phase = "answered"
  BY DEF RequestInv, ExchangesOK, Exchange
<1> HIDE DEF f
<1>3. ExchangesOK'
  BY <1>1, <1>2 DEF RequestInv, ExchangesOK
<1> QED
  BY <1>1, <1>2, <1>3, ServerKeepsClient DEF Requesting!AtWork

\* Entries go: what had been done under them is forgotten, and what is at work
\* has lapsed.
LEMMA ForgetKeeps ==
  ASSUME RequestInv, NEW gone, Requesting!Forget(gone),
         \A l : Has(Entries, l) /\ l \notin gone => Has(Entries', l),
         \A g \in Requesting!AtWork' :
            \E h \in Requesting!AtWork : KeyOf(h) = KeyOf(g)
  PROVE  /\ \A x \in executions' : x \in executions /\ KeyOf(x) \notin gone
         /\ \A k : k \in lapsed /\ k \notin lapsed' =>
               /\ \A g \in Requesting!AtWork' : KeyOf(g) # k
               /\ \A x \in executions' : KeyOf(x) # k
         /\ \A k : Has(Entries, k) => \/ Has(Entries', k) \/ k \in lapsed'
                                      \/ /\ \A g \in Requesting!AtWork' : KeyOf(g) # k
                                         /\ \A x \in executions' : KeyOf(x) # k
<1>1. /\ executions' = {x \in executions : KeyOf(x) \notin gone}
      /\ lapsed' = (lapsed \ gone) \cup {k \in gone : \E e \in Requesting!AtWork : KeyOf(e) = k}
  BY DEF Requesting!Forget, Requesting!Key, TextHash, KeyOf
<1>2. \A k \in gone : k \in lapsed' \/ \A g \in Requesting!AtWork' : KeyOf(g) # k
  BY <1>1
<1> QED
  BY <1>1, <1>2

LEMMA LookUpKeeps ==
  ASSUME RequestInv, NEW e \in exchanges, Requesting!LookUp(e)
  PROVE  RequestInv'
<1> DEFINE k == KeyOf(e)
<1>1. /\ e.phase = "sent" /\ \A g \in exchanges : g.phase # "missed"
      /\ e \in Exchange /\ k \in Keys
      /\ redis' = redis /\ dict' = dict /\ executions' = executions /\ lapsed' = lapsed
      /\ pc' = pc /\ call' = call /\ calls' = calls
  BY KeysOfBodies DEF Requesting!LookUp, Requesting!Blocked, Requesting!serverOnly,
     RequestInv, ExchangesOK, Exchange, KeyOf
<1>2. PICK found \in Requesting!Gets("p", k) :
        \/ found = None /\ Requesting!Become(e, [e EXCEPT !.phase = "missed"])
        \/ found # None /\ Requesting!Answer(e, IF found = "PROCESSING" THEN "409" ELSE "json")
  BY <1>1 DEF Requesting!LookUp, Requesting!Key, TextHash, Exchange, KeyOf
<1>3. CacheOK' /\ Entries' = Entries
  BY <1>1 DEF RequestInv, CacheOK, Entries
<1>4. CASE found = None /\ Requesting!Become(e, [e EXCEPT !.phase = "missed"])
  <2> DEFINE f == [e EXCEPT !.phase = "missed"]
  <2>1. f \in Exchange /\ f.number = e.number /\ f.phase = "missed" /\ KeyOf(f) = k
    BY <1>1 DEF Exchange, KeyOf
  <2> HIDE DEF f
  <2>2. Requesting!Become(e, f)
    BY <1>4 DEF f
  <2>3. /\ ExchangesOK' /\ ClientOK'
        /\ exchanges' = (exchanges \ {e}) \cup {f}
        /\ \A g \in Requesting!AtWork' : g \in Requesting!AtWork \/ g = f
    BY <1>1, <2>1, <2>2, BecomeKeeps
  <2>4. ~Has(Entries, k)
    <3>1. Requesting!Local("p", k) = None
      BY <1>2, <1>4 DEF Requesting!Gets
    <3> QED
      BY <3>1, HeldIffPresent DEF RequestInv
  <2>5. \A g \in Requesting!AtWork : g \in exchanges /\ g.phase \in {"running", "handled"}
    BY <1>1 DEF Requesting!AtWork
  <2>6. \A g \in Requesting!AtWork : KeyOf(g) = k => k \in lapsed
    BY <2>4, <2>5 DEF RequestInv, AtWorkOK, Lapsed
  <2>7. \A x \in executions : KeyOf(x) = k => k \in lapsed
    BY <2>4 DEF RequestInv, DoneOK, Lapsed
  <2>8. AtWorkOK'
    <3>1. \A g, h \in Requesting!AtWork' : KeyOf(g) = KeyOf(h) => KeyOf(g) \in lapsed \/ g = h
      BY <2>1, <2>3, <2>6 DEF RequestInv, AtWorkOK, Lapsed
    <3>2. \A g, h \in exchanges' : g.phase = "missed" /\ h.phase = "missed" => g = h
      BY <1>1, <2>3
    <3>3. \A g \in exchanges' : g.phase \in {"running", "handled"} =>
            KeyOf(g) \in lapsed \/ Has(Entries, KeyOf(g))
      BY <2>1, <2>3 DEF RequestInv, AtWorkOK, Lapsed
    <3> QED
      BY <1>1, <1>3, <3>1, <3>2, <3>3 DEF AtWorkOK, Lapsed
  <2>9. DoneOK'
    BY <1>1, <1>3, <2>1, <2>3, <2>7 DEF RequestInv, DoneOK, Lapsed
  <2> QED
    BY <1>3, <2>3, <2>8, <2>9 DEF RequestInv
<1>5. CASE Requesting!Answer(e, IF found = "PROCESSING" THEN "409" ELSE "json")
  <2>1. (IF found = "PROCESSING" THEN "409" ELSE "json") \in Requesting!Answers
    BY DEF Requesting!Answers
  <2>2. /\ ExchangesOK' /\ ClientOK'
        /\ \A g \in exchanges' : (g \in exchanges /\ g # e) \/ g.phase = "answered"
        /\ \A g \in Requesting!AtWork' : g \in Requesting!AtWork /\ g # e
    BY <1>1, <1>5, <2>1, AnswerKeeps
  <2>3. AtWorkOK' /\ DoneOK'
    BY <1>1, <1>3, <2>2 DEF RequestInv, AtWorkOK, DoneOK, Lapsed
  <2> QED
    BY <1>3, <2>2, <2>3 DEF RequestInv
<1> QED
  BY <1>2, <1>4, <1>5

LEMMA MarkKeeps ==
  ASSUME RequestInv, NEW e \in exchanges, Requesting!Mark(e)
  PROVE  RequestInv'
<1> DEFINE k == KeyOf(e)
           f == [e EXCEPT !.phase = "running"]
           gone == Requesting!Evictee("p", k)
<1>1. /\ e.phase = "missed" /\ e \in Exchange /\ k \in Keys
      /\ Requesting!CacheSet("p", k, "PROCESSING") /\ Requesting!Forget(gone)
      /\ Requesting!Become(e, f)
      /\ pc' = pc /\ call' = call /\ calls' = calls
  BY KeysOfBodies DEF Requesting!Mark, Requesting!serverOnly,
     Requesting!Key, TextHash, RequestInv, ExchangesOK, Exchange, KeyOf
<1>2. f \in Exchange /\ f.number = e.number /\ KeyOf(f) = k /\ f.phase = "running"
  BY <1>1 DEF Exchange, KeyOf
<1> HIDE DEF f, gone
<1>3. /\ CacheOK' /\ Has(Entries', k) /\ k \notin gone
      /\ \A l : Has(Entries, l) /\ l \notin gone => Has(Entries', l)
  BY <1>1, SetKeeps DEF RequestInv, Kept, gone
<1>4. /\ ExchangesOK' /\ ClientOK'
      /\ exchanges' = (exchanges \ {e}) \cup {f}
      /\ \A g \in Requesting!AtWork' : (g \in Requesting!AtWork /\ g # e) \/ g = f
  BY <1>1, <1>2, BecomeKeeps
<1>5. e \in Requesting!AtWork
  BY <1>1 DEF Requesting!AtWork
<1>6. /\ \A x \in executions' : x \in executions /\ KeyOf(x) \notin gone
      /\ \A l : l \in lapsed /\ l \notin lapsed' =>
            /\ \A g \in Requesting!AtWork' : KeyOf(g) # l
            /\ \A x \in executions' : KeyOf(x) # l
      /\ \A l : Has(Entries, l) => \/ Has(Entries', l) \/ l \in lapsed'
                                   \/ /\ \A g \in Requesting!AtWork' : KeyOf(g) # l
                                      /\ \A x \in executions' : KeyOf(x) # l
  BY <1>1, <1>2, <1>3, <1>4, <1>5, ForgetKeeps
<1>7. f \in Requesting!AtWork'
  BY <1>2, <1>4 DEF Requesting!AtWork
<1>8. AtWorkOK'
  <2>1. \A g, h \in Requesting!AtWork' : KeyOf(g) = KeyOf(h) => KeyOf(g) \in lapsed' \/ g = h
    BY <1>2, <1>4, <1>5, <1>6, <1>7 DEF RequestInv, AtWorkOK, Lapsed
  <2>2. \A g, h \in exchanges' : g.phase = "missed" /\ h.phase = "missed" => g = h
    BY <1>2, <1>4 DEF RequestInv, AtWorkOK
  <2>3. ASSUME NEW g \in exchanges', g.phase \in {"running", "handled"}
        PROVE  KeyOf(g) \in lapsed' \/ Has(Entries', KeyOf(g))
    <3>1. CASE g = f
      BY <1>2, <1>3, <3>1
    <3>2. CASE g # f
      <4>1. g \in exchanges /\ g \in Requesting!AtWork'
        BY <1>4, <2>3, <3>2 DEF Requesting!AtWork
      <4>2. KeyOf(g) \in lapsed \/ Has(Entries, KeyOf(g))
        BY <2>3, <4>1 DEF RequestInv, AtWorkOK, Lapsed
      <4> QED
        BY <1>6, <4>1, <4>2
    <3> QED
      BY <3>1, <3>2
  <2> QED
    BY <2>1, <2>2, <2>3 DEF AtWorkOK, Lapsed
<1>9. \A x \in executions' : KeyOf(x) = k => k \in lapsed'
  <2>1. \A x \in executions : KeyOf(x) = k => k \in lapsed
    BY <1>1, <1>5 DEF RequestInv, DoneOK, Lapsed
  <2> QED
    BY <1>2, <1>6, <1>7, <2>1
<1>10. DoneOK'
  <2>1. \A x \in executions' : x.body \in Bodies /\ (KeyOf(x) \in lapsed' \/ Has(Entries', KeyOf(x)))
    <3>1. \A x \in executions' : x \in executions /\ x.body \in Bodies
            /\ (KeyOf(x) \in lapsed \/ Has(Entries, KeyOf(x)))
      BY <1>6 DEF RequestInv, DoneOK, Lapsed
    <3> QED
      BY <1>6, <3>1
  <2>2. \A x, y \in executions' : KeyOf(x) = KeyOf(y) => KeyOf(x) \in lapsed' \/ x = y
    BY <1>6 DEF RequestInv, DoneOK, Lapsed
  <2>3. \A g \in Requesting!AtWork', x \in executions' : KeyOf(g) = KeyOf(x) =>
          KeyOf(x) \in lapsed' \/ (g.phase = "handled" /\ g.answer = "json")
    BY <1>2, <1>4, <1>6, <1>9 DEF RequestInv, DoneOK, Lapsed
  <2> QED
    BY <2>1, <2>2, <2>3 DEF DoneOK, Lapsed
<1> QED
  BY <1>3, <1>4, <1>8, <1>10 DEF RequestInv

LEMMA HandleKeeps ==
  ASSUME RequestInv, NEW e \in exchanges, NEW given \in Requesting!Answers \ {"409"},
         Requesting!Handle(e, given)
  PROVE  RequestInv'
<1> DEFINE f == [e EXCEPT !.phase = "handled", !.answer = given]
           x0 == [number |-> e.number, attempt |-> e.attempt, body |-> e.body]
           k == KeyOf(e)
<1>1. /\ e.phase = "running" /\ e \in Exchange /\ k \in Keys
      /\ \A g \in exchanges : g.phase # "missed"
      /\ Requesting!Become(e, f)
      /\ executions' = IF given = "json" THEN executions \cup {x0} ELSE executions
      /\ redis' = redis /\ dict' = dict /\ lapsed' = lapsed
      /\ pc' = pc /\ call' = call /\ calls' = calls
  BY KeysOfBodies DEF Requesting!Handle, Requesting!serverOnly, Requesting!Blocked,
     RequestInv, ExchangesOK, Exchange, KeyOf
<1>2. /\ f \in Exchange /\ f.number = e.number /\ KeyOf(f) = k
      /\ f.phase = "handled" /\ f.answer = given
  BY <1>1 DEF Exchange, KeyOf
<1>3. x0.body \in Bodies /\ KeyOf(x0) = k
  BY <1>1 DEF Exchange, KeyOf
<1> HIDE DEF f, x0
<1>4. /\ ExchangesOK' /\ ClientOK'
      /\ exchanges' = (exchanges \ {e}) \cup {f}
      /\ \A g \in Requesting!AtWork' : (g \in Requesting!AtWork /\ g # e) \/ g = f
  BY <1>1, <1>2, BecomeKeeps
<1>5. e \in Requesting!AtWork /\ Entries' = Entries /\ (k \in lapsed \/ Has(Entries, k))
  BY <1>1 DEF RequestInv, AtWorkOK, Lapsed, Requesting!AtWork, Entries
<1>6. CacheOK'
  BY <1>1, <1>5 DEF RequestInv, CacheOK
<1>7. AtWorkOK'
  <2>1. \A g, h \in Requesting!AtWork' : KeyOf(g) = KeyOf(h) => KeyOf(g) \in lapsed \/ g = h
    BY <1>2, <1>4, <1>5 DEF RequestInv, AtWorkOK, Lapsed
  <2>2. \A g, h \in exchanges' : g.phase = "missed" /\ h.phase = "missed" => g = h
    BY <1>1, <1>2, <1>4
  <2>3. \A g \in exchanges' : g.phase \in {"running", "handled"} =>
          KeyOf(g) \in lapsed \/ Has(Entries, KeyOf(g))
    BY <1>2, <1>4, <1>5 DEF RequestInv, AtWorkOK, Lapsed
  <2> QED
    BY <1>1, <1>5, <2>1, <2>2, <2>3 DEF AtWorkOK, Lapsed
<1>8. \A x \in executions : KeyOf(x) = k => k \in lapsed
  BY <1>1, <1>5 DEF RequestInv, DoneOK, Lapsed
<1>9. \A g \in Requesting!AtWork' : g # f =>
         g \in Requesting!AtWork /\ (KeyOf(g) = k => k \in lapsed)
  BY <1>4, <1>5 DEF RequestInv, AtWorkOK, Lapsed
<1>10. DoneOK'
  <2>1. CASE given = "json"
    <3>1. executions' = executions \cup {x0}
      BY <1>1, <2>1
    <3>2. \A x \in executions' : x.body \in Bodies /\ (KeyOf(x) \in lapsed \/ Has(Entries, KeyOf(x)))
      BY <1>3, <1>5, <3>1 DEF RequestInv, DoneOK, Lapsed
    <3>3. \A x, y \in executions' : KeyOf(x) = KeyOf(y) => KeyOf(x) \in lapsed \/ x = y
      BY <1>3, <1>8, <3>1 DEF RequestInv, DoneOK, Lapsed
    <3>4. \A g \in Requesting!AtWork', x \in executions' : KeyOf(g) = KeyOf(x) =>
            KeyOf(x) \in lapsed \/ (g.phase = "handled" /\ g.answer = "json")
      BY <1>2, <1>3, <1>8, <1>9, <2>1, <3>1 DEF RequestInv, DoneOK, Lapsed
    <3> QED
      BY <1>1, <1>5, <3>2, <3>3, <3>4 DEF DoneOK, Lapsed
  <2>2. CASE given # "json"
    <3>1. executions' = executions
      BY <1>1, <2>2
    <3>2. \A g \in Requesting!AtWork', x \in executions : KeyOf(g) = KeyOf(x) =>
            KeyOf(x) \in lapsed \/ (g.phase = "handled" /\ g.answer = "json")
      BY <1>2, <1>8, <1>9 DEF RequestInv, DoneOK, Lapsed
    <3> QED
      BY <1>1, <1>5, <3>1, <3>2 DEF RequestInv, DoneOK, Lapsed
  <2> QED
    BY <2>1, <2>2
<1> QED
  BY <1>4, <1>6, <1>7, <1>10 DEF RequestInv

LEMMA KeepKeeps ==
  ASSUME RequestInv, NEW e \in exchanges, Requesting!Keep(e)
  PROVE  RequestInv'
<1> DEFINE k == KeyOf(e)
           gone == Requesting!Evictee("p", k)
<1>1. /\ e.phase = "handled" /\ e \in Exchange /\ k \in Keys
      /\ \A g \in exchanges : g.phase # "missed"
      /\ \/ /\ e.answer = "json" /\ Requesting!CacheSet("p", k, "COMPLETED")
            /\ Requesting!Forget(gone)
         \/ /\ e.answer # "json" /\ Requesting!CacheDelete("p", k)
            /\ executions' = executions /\ lapsed' = lapsed
      /\ Requesting!Answer(e, e.answer)
      /\ pc' = pc /\ call' = call /\ calls' = calls
  BY KeysOfBodies DEF Requesting!Keep, Requesting!serverOnly, Requesting!Blocked,
     Requesting!Key, TextHash, RequestInv, ExchangesOK, Exchange, KeyOf
<1> HIDE DEF gone
<1>2. /\ ExchangesOK' /\ ClientOK'
      /\ \A g \in exchanges' : (g \in exchanges /\ g # e) \/ g.phase = "answered"
      /\ \A g \in Requesting!AtWork' : g \in Requesting!AtWork /\ g # e
  <2>1. e.answer = "none" \/ e.answer \in Requesting!Answers
    BY <1>1 DEF Exchange
  <2> QED
    BY <1>1, <2>1, AnswerKeeps
<1>3. e \in Requesting!AtWork
  BY <1>1 DEF Requesting!AtWork
<1>4. \A g \in Requesting!AtWork' : KeyOf(g) = k => k \in lapsed
  BY <1>2, <1>3 DEF RequestInv, AtWorkOK, Lapsed
<1>5. \A g \in exchanges' : g.phase \in {"running", "handled"} =>
         g \in Requesting!AtWork' /\ g \in exchanges /\ g # e
  BY <1>2 DEF Requesting!AtWork
<1>6. \A g, h \in exchanges' : g.phase = "missed" /\ h.phase = "missed" => g = h
  BY <1>1, <1>2
<1>7. \A x \in executions : KeyOf(x) = k /\ e.answer # "json" => k \in lapsed
  BY <1>3 DEF RequestInv, DoneOK, Lapsed
<1>8. CASE e.answer # "json"
  <2>1. /\ CacheOK' /\ executions' = executions /\ lapsed' = lapsed
        /\ \A l : l # k /\ Has(Entries, l) => Has(Entries', l)
    BY <1>1, <1>8, DeleteKeeps DEF RequestInv
  <2>2. AtWorkOK'
    <3>1. \A g, h \in Requesting!AtWork' : KeyOf(g) = KeyOf(h) => KeyOf(g) \in lapsed \/ g = h
      BY <1>2 DEF RequestInv, AtWorkOK, Lapsed
    <3>2. \A g \in exchanges' : g.phase \in {"running", "handled"} =>
            KeyOf(g) \in lapsed \/ Has(Entries', KeyOf(g))
      BY <1>4, <1>5, <2>1 DEF RequestInv, AtWorkOK, Lapsed
    <3> QED
      BY <1>6, <2>1, <3>1, <3>2 DEF AtWorkOK, Lapsed
  <2>3. DoneOK'
    BY <1>2, <1>7, <1>8, <2>1 DEF RequestInv, DoneOK, Lapsed
  <2> QED
    BY <1>2, <2>1, <2>2, <2>3 DEF RequestInv
<1>9. CASE e.answer = "json"
  <2>1. /\ CacheOK' /\ Has(Entries', k) /\ k \notin gone /\ Requesting!Forget(gone)
        /\ \A l : Has(Entries, l) /\ l \notin gone => Has(Entries', l)
    BY <1>1, <1>9, SetKeeps DEF RequestInv, Kept, gone
  <2>2. /\ \A x \in executions' : x \in executions /\ KeyOf(x) \notin gone
        /\ \A l : l \in lapsed /\ l \notin lapsed' =>
              /\ \A g \in Requesting!AtWork' : KeyOf(g) # l
              /\ \A x \in executions' : KeyOf(x) # l
        /\ \A l : Has(Entries, l) => \/ Has(Entries', l) \/ l \in lapsed'
                                     \/ /\ \A g \in Requesting!AtWork' : KeyOf(g) # l
                                        /\ \A x \in executions' : KeyOf(x) # l
    BY <1>2, <2>1, ForgetKeeps
  <2>3. AtWorkOK'
    <3>1. \A g, h \in Requesting!AtWork' : KeyOf(g) = KeyOf(h) => KeyOf(g) \in lapsed' \/ g = h
      BY <1>2, <2>2 DEF RequestInv, AtWorkOK, Lapsed
    <3>2. \A g \in exchanges' : g.phase \in {"running", "handled"} =>
            KeyOf(g) \in lapsed' \/ Has(Entries', KeyOf(g))
      <4>1. \A g \in exchanges' : g.phase \in {"running", "handled"} =>
              g \in Requesting!AtWork' /\ (KeyOf(g) \in lapsed \/ Has(Entries, KeyOf(g)))
        BY <1>5 DEF RequestInv, AtWorkOK, Lapsed
      <4> QED
        BY <2>2, <4>1
    <3> QED
      BY <1>6, <3>1, <3>2 DEF AtWorkOK, Lapsed
  <2>4. DoneOK'
    <3>1. \A x \in executions' :
            x.body \in Bodies /\ (KeyOf(x) \in lapsed' \/ Has(Entries', KeyOf(x)))
      <4>1. \A x \in executions' : x \in executions /\ x.body \in Bodies
              /\ (KeyOf(x) \in lapsed \/ Has(Entries, KeyOf(x)))
        BY <2>2 DEF RequestInv, DoneOK, Lapsed
      <4> QED
        BY <2>2, <4>1
    <3>2. \A x, y \in executions' : KeyOf(x) = KeyOf(y) => KeyOf(x) \in lapsed' \/ x = y
      BY <2>2 DEF RequestInv, DoneOK, Lapsed
    <3>3. \A g \in Requesting!AtWork', x \in executions' : KeyOf(g) = KeyOf(x) =>
            KeyOf(x) \in lapsed' \/ (g.phase = "handled" /\ g.answer = "json")
      BY <1>2, <2>2 DEF RequestInv, DoneOK, Lapsed
    <3> QED
      BY <3>1, <3>2, <3>3 DEF DoneOK, Lapsed
  <2> QED
    BY <1>2, <2>1, <2>3, <2>4 DEF RequestInv
<1> QED
  BY <1>8, <1>9

LEMMA CrashKeeps == ASSUME RequestInv, Requesting!Crash("p") PROVE RequestInv'
<1>1. /\ dict' = [dict EXCEPT !["p"] = <<>>] /\ redis' = redis
      /\ exchanges' = {e \in exchanges : e.process # "p"} /\ executions' = {}
      /\ pc' = pc /\ call' = call /\ calls' = calls
  BY DEF Requesting!Crash, Requesting!ForgetDict
<1>2. exchanges' = {}
  BY <1>1 DEF RequestInv, ExchangesOK, Exchange
<1>3. Entries' = <<>> /\ dict' \in [{"p"} -> Seq(Keys \X Kept)]
  BY <1>1 DEF RequestInv, CacheOK, Entries
<1>4. CacheOK'
  BY <1>1, <1>3, RequestAssumption DEF RequestInv, CacheOK, DictOK
<1>5. Requesting!AtWork' = {}
  BY <1>2 DEF Requesting!AtWork
<1>6. ClientOK'
  BY <1>1, ServerKeepsClient
<1> QED
  BY <1>1, <1>2, <1>4, <1>5, <1>6 DEF RequestInv, ExchangesOK, AtWorkOK, DoneOK

LEMMA ExpireKeeps ==
  ASSUME RequestInv, NEW k \in Keys, Requesting!Expire(k)
  PROVE  RequestInv'
<1>1. /\ exchanges' = exchanges /\ pc' = pc /\ call' = call /\ calls' = calls
      /\ \/ Requesting!ExpireInRedis(k) /\ executions' = executions /\ lapsed' = lapsed
         \/ Requesting!ExpireInDict("p", k) /\ Requesting!Forget({k})
  BY DEF Requesting!Expire, Requesting!serverOnly
<1>2. Requesting!AtWork' = Requesting!AtWork /\ ClientOK' /\ ExchangesOK'
  BY <1>1, ServerKeepsClient DEF Requesting!AtWork, RequestInv, ExchangesOK
<1>3. CASE Requesting!ExpireInRedis(k) /\ executions' = executions /\ lapsed' = lapsed
  <2>1. CacheOK' /\ Entries' = Entries
    BY <1>3, DeleteKeeps DEF RequestInv, Requesting!ExpireInRedis, Entries
  <2> QED
    BY <1>1, <1>2, <1>3, <2>1 DEF RequestInv, AtWorkOK, DoneOK, Lapsed
<1>4. CASE Requesting!ExpireInDict("p", k) /\ Requesting!Forget({k})
  <2>1. CacheOK' /\ \A l : Has(Entries, l) /\ l \notin {k} => Has(Entries', l)
    BY <1>4, DeleteKeeps DEF RequestInv
  <2>2. /\ \A x \in executions' : x \in executions /\ KeyOf(x) \notin {k}
        /\ \A l : l \in lapsed /\ l \notin lapsed' =>
              /\ \A g \in Requesting!AtWork' : KeyOf(g) # l
              /\ \A x \in executions' : KeyOf(x) # l
        /\ \A l : Has(Entries, l) => \/ Has(Entries', l) \/ l \in lapsed'
                                     \/ /\ \A g \in Requesting!AtWork' : KeyOf(g) # l
                                        /\ \A x \in executions' : KeyOf(x) # l
    BY <1>2, <1>4, <2>1, ForgetKeeps
  <2>3. AtWorkOK'
    <3>1. \A g, h \in Requesting!AtWork' : KeyOf(g) = KeyOf(h) => KeyOf(g) \in lapsed' \/ g = h
      BY <1>2, <2>2 DEF RequestInv, AtWorkOK, Lapsed
    <3>2. \A g \in exchanges' : g.phase \in {"running", "handled"} =>
            KeyOf(g) \in lapsed' \/ Has(Entries', KeyOf(g))
      <4>1. \A g \in exchanges' : g.phase \in {"running", "handled"} =>
              g \in Requesting!AtWork' /\ (KeyOf(g) \in lapsed \/ Has(Entries, KeyOf(g)))
        BY <1>1, <1>2 DEF RequestInv, AtWorkOK, Lapsed, Requesting!AtWork
      <4> QED
        BY <2>2, <4>1
    <3>3. \A g, h \in exchanges' : g.phase = "missed" /\ h.phase = "missed" => g = h
      BY <1>1 DEF RequestInv, AtWorkOK
    <3> QED
      BY <3>1, <3>2, <3>3 DEF AtWorkOK, Lapsed
  <2>4. DoneOK'
    <3>1. \A x \in executions' :
            x.body \in Bodies /\ (KeyOf(x) \in lapsed' \/ Has(Entries', KeyOf(x)))
      <4>1. \A x \in executions' : x \in executions /\ x.body \in Bodies
              /\ (KeyOf(x) \in lapsed \/ Has(Entries, KeyOf(x)))
        BY <2>2 DEF RequestInv, DoneOK, Lapsed
      <4> QED
        BY <2>2, <4>1
    <3>2. \A x, y \in executions' : KeyOf(x) = KeyOf(y) => KeyOf(x) \in lapsed' \/ x = y
      BY <2>2 DEF RequestInv, DoneOK, Lapsed
    <3>3. \A g \in Requesting!AtWork', x \in executions' : KeyOf(g) = KeyOf(x) =>
            KeyOf(x) \in lapsed' \/ (g.phase = "handled" /\ g.answer = "json")
      BY <1>2, <2>2 DEF RequestInv, DoneOK, Lapsed
    <3> QED
      BY <3>1, <3>2, <3>3 DEF DoneOK, Lapsed
  <2> QED
    BY <1>2, <2>1, <2>3, <2>4 DEF RequestInv
<1> QED
  BY <1>1, <1>3, <1>4

LEMMA RequestStep == ASSUME RequestInv, [Requesting!Next]_Requesting!vars PROVE RequestInv'
<1>1. CASE UNCHANGED Requesting!vars
  <2>1. /\ redis' = redis /\ dict' = dict /\ exchanges' = exchanges /\ lapsed' = lapsed
        /\ executions' = executions /\ pc' = pc /\ call' = call /\ calls' = calls
    BY <1>1 DEF Requesting!vars
  <2>2. ClientOK' /\ ExchangesOK'
    BY <2>1, ServerKeepsClient DEF RequestInv, ExchangesOK
  <2> QED
    BY <2>1, <2>2, ClientKeeps
<1>2. CASE \E c \in Callers :
             \/ \E body \in Bodies : Requesting!Request(c, body)
             \/ Requesting!Client(c)
             \/ Requesting!Read(c)
  BY <1>2, RequestKeeps, TimeoutKeeps, RetryKeeps, ReadAnswerKeeps DEF Requesting!Client
<1>3. CASE \E e \in exchanges : Requesting!Server(e) \/ Requesting!Receive(e)
  BY <1>3, LookUpKeeps, MarkKeeps, HandleKeeps, KeepKeeps, ReceiveKeeps
     DEF Requesting!Server
<1>4. CASE Requesting!Crash("p")
  BY <1>4, CrashKeeps
<1>5. CASE \E k \in Keys : Requesting!Expire(k)
  BY <1>5, ExpireKeeps
<1> QED
  BY <1>1, <1>2, <1>3, <1>4, <1>5 DEF Requesting!Next

LEMMA RequestInvOnce ==
  RequestInv => /\ Requesting!TypeOK /\ Requesting!NoConcurrentDuplicate
                /\ Requesting!RetriesDoNotRepeat
<1> SUFFICES ASSUME RequestInv
             PROVE  /\ Requesting!TypeOK /\ Requesting!NoConcurrentDuplicate
                    /\ Requesting!RetriesDoNotRepeat
  OBVIOUS
<1>1. Requesting!TypeOK
  <2>1. \A c \in Callers : call[c].attempt \in 0 .. MaxRetries /\ call[c].number \in 0 .. calls
    BY DEF RequestInv, ClientOK
  <2>2. \A e \in exchanges : e.number \in 1 .. calls /\ e.attempt \in 0 .. MaxRetries
    BY DEF RequestInv, ExchangesOK, Exchange
  <2> QED
    BY <2>1, <2>2 DEF RequestInv, CacheOK, ClientOK, Entries, Requesting!TypeOK
<1>2. Requesting!NoConcurrentDuplicate
  BY DEF RequestInv, AtWorkOK, Lapsed, KeyOf, Requesting!NoConcurrentDuplicate,
         Requesting!Key, TextHash
<1>3. Requesting!RetriesDoNotRepeat
  BY DEF RequestInv, DoneOK, Lapsed, KeyOf, Requesting!RetriesDoNotRepeat, Requesting!Key,
         TextHash
<1> QED
  BY <1>1, <1>2, <1>3

\* Whatever Redis loses, keeps too long or forgets, however often tabs retry, and
\* whenever entries expire or are evicted: unless its entry goes under it, one
\* process runs one handler for a key at a time, and does not do kept work again.
THEOREM NoRequestIsEverRepeated == InfrastructureSpec => []NoRequestIsRepeated
<1>1. InfrastructureInit => (part = "requests" => RequestInv)
  BY RequestInit DEF InfrastructureInit
<1>2. (part = "requests" => RequestInv) /\ [InfrastructureNext]_allVars
        => (part = "requests" => RequestInv)'
  <2> SUFFICES ASSUME part = "requests" => RequestInv, [InfrastructureNext]_allVars,
                      part' = "requests"
               PROVE  RequestInv'
    OBVIOUS
  <2>1. part = "requests" /\ [Requesting!Next]_Requesting!vars
    BY DEF InfrastructureNext, allVars, requestVars, Requesting!vars
  <2> QED
    BY <2>1, RequestStep
<1>3. (part = "requests" => RequestInv) => NoRequestIsRepeated
  BY RequestInvOnce DEF NoRequestIsRepeated
<1> QED
  BY <1>1, <1>2, <1>3, PTL DEF InfrastructureSpec
=============================================================================
