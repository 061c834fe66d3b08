---------------------------- MODULE CircuitBreaker ----------------------------
(***************************************************************************)
(* The breaker that every Yahoo call goes through: the constructor of      *)
(* SafeTicker and the wrapped methods, from threads that share the         *)
(* breaker's three fields without a lock.                                  *)
(*                                                                         *)
(* Time is one bit: whether last_failure_time is more than timeout ago.    *)
(***************************************************************************)
EXTENDS Naturals

CONSTANTS
    Threads,       \* threads that analyse
    Threshold,     \* threshold (3 for Yahoo)
    MaxFailures    \* bound on the failures counted

VARIABLES
    state,         \* CLOSED, OPEN or HALF_OPEN
    failures,      \* failures
    elapsed,       \* time.time() - last_failure_time > timeout
    pc,            \* thread -> the step of its call it is at
    making,        \* thread -> whether its call is the constructor of a SafeTicker
    seen           \* thread -> the value of failures it has read

vars == <<state, failures, elapsed, pc, making, seen>>

Goto(t, step) == pc' = [pc EXCEPT ![t] = step]

\* The state is read: the call is let through, fails fast, or will be a test.
Check(t) ==
    /\ pc[t] = "idle"
    /\ Goto(t, IF state # "OPEN" THEN "calling" ELSE IF elapsed THEN "testing" ELSE "idle")
    /\ UNCHANGED <<state, failures, elapsed, making, seen>>

\* mutant: the test goes ahead on an open circuit.
TestOpen(t) ==
    /\ pc[t] = "testing"
    /\ Goto(t, "calling")
    /\ UNCHANGED <<state, failures, elapsed, making, seen>>

Test(t) ==
    /\ pc[t] = "testing"
    /\ state' = "HALF_OPEN"
    /\ Goto(t, "calling")
    /\ UNCHANGED <<failures, elapsed, making, seen>>

\* The call returns.  A constructor is followed by a method of its ticker; only
\* a method takes notice that the circuit is half open.
Succeed(t) ==
    /\ pc[t] = "calling"
    /\ Goto(t, IF state = "HALF_OPEN" /\ ~making[t] THEN "closing" ELSE "idle")
    /\ IF making[t] THEN making' = [making EXCEPT ![t] = FALSE]
       ELSE \E next \in BOOLEAN : making' = [making EXCEPT ![t] = next]
    /\ UNCHANGED <<state, failures, elapsed, seen>>

Close(t) ==
    /\ pc[t] = "closing"
    /\ state' = "CLOSED"
    /\ Goto(t, "resetting")
    /\ UNCHANGED <<failures, elapsed, making, seen>>

Reset(t) ==
    /\ pc[t] = "resetting"
    /\ failures' = 0
    /\ Goto(t, "idle")
    /\ UNCHANGED <<state, elapsed, making, seen>>

\* The call raises: failures += 1 reads and writes.
Raise(t) ==
    /\ pc[t] = "calling" /\ failures < MaxFailures
    /\ seen' = [seen EXCEPT ![t] = failures]
    /\ Goto(t, "counting")
    /\ UNCHANGED <<state, failures, elapsed, making>>

Count(t) ==
    /\ pc[t] = "counting"
    /\ failures' = seen[t] + 1
    /\ elapsed' = FALSE
    /\ Goto(t, "counted")
    /\ UNCHANGED <<state, making, seen>>

Trip(t) ==
    /\ pc[t] = "counted"
    /\ state' = IF failures >= Threshold THEN "OPEN" ELSE state
    /\ Goto(t, "idle")
    /\ UNCHANGED <<failures, elapsed, making, seen>>

\* timeout seconds have passed since the last failure.
Elapse ==
    /\ ~elapsed
    /\ elapsed' = TRUE
    /\ UNCHANGED <<state, failures, pc, making, seen>>

Init ==
    /\ state = "CLOSED" /\ failures = 0 /\ elapsed = TRUE
    /\ pc = [t \in Threads |-> "idle"]
    /\ making = [t \in Threads |-> TRUE]
    /\ seen = [t \in Threads |-> 0]

\* What a thread does by itself once its call was let through or answered.
Works(t) ==
    \/ Check(t) \/ Test(t) \/ Succeed(t) \/ Close(t) \/ Reset(t) \/ Count(t) \/ Trip(t)

Next == Elapse \/ \E t \in Threads : Works(t) \/ Raise(t)

Spec == Init /\ [][Next]_vars

\* Time passes, threads run, and new analyses go on calling; MaxFailures makes
\* the failures of a behaviour end.
FairSpec == Spec /\ WF_vars(Elapse) /\ \A t \in Threads : WF_vars(Works(t))

-----------------------------------------------------------------------------

\* The fields keep their types.
TypeOK ==
    /\ state \in {"CLOSED", "OPEN", "HALF_OPEN"}
    /\ failures \in 0 .. MaxFailures /\ elapsed \in BOOLEAN
    /\ pc \in [Threads -> {"idle", "testing", "calling", "closing", "resetting",
                           "counting", "counted"}]
    /\ making \in [Threads -> BOOLEAN] /\ seen \in [Threads -> 0 .. MaxFailures]

\* However threads interleave on the fields, when calls stop failing no open
\* circuit stays: it is tested and closed.
Recovers == (state = "OPEN") ~> (state = "CLOSED")
=============================================================================
