----------------------------- MODULE GameChangers -----------------------------
(***************************************************************************)
(* Game-changing events, their revisions and the gate they put on new      *)
(* capital (backend/engine/private/game_changer_*.py).                     *)
(*                                                                         *)
(* A source publishes an event about some instruments, or a systemic one,  *)
(* and then updates, corrects or withdraws it: each revision names the     *)
(* event it revises.  Events are observed late or out of order; a reader,  *)
(* human or model, extracts a judgement of one event at some time.  For a  *)
(* cutoff, a caller supplies judgements of one family in some order with   *)
(* an assertion of their completeness, and a gate is derived, or refused.  *)
(*                                                                         *)
(* An event is identified by its position in `published`.  Hashes and keys *)
(* are abstracted to that identity, impact dimensions and bases are left   *)
(* out.  The result of a builder that may raise is a set of at most one    *)
(* value.                                                                  *)
(***************************************************************************)
EXTENDS Integers, FiniteSets, Sequences, SequencesExt

CONSTANTS
  Families,        \* event families; Scope gives each its instruments
  Scope,           \* [Families -> SUBSET instruments], empty when systemic
  Judgements,      \* [materiality, urgency, thesis], what an extraction may say
  None,
  MaxEvents,       \* bound on the events published
  MaxExtractions,  \* bound on the extractions
  MaxTime          \* bound on the clock

VARIABLES
  now,             \* the clock
  published,       \* the events, oldest first
  observed,        \* time of observation of each event, or None
  extractions      \* [event, judgement, time], the extractions made

vars == <<now, published, observed, extractions>>

Modes == {"SOURCE_AS_OF", "SYSTEM_AS_OF"}
Events == DOMAIN published

(* GameChangerEvent: only an original revises nothing.                     *)

EventOk(e) == (e.kind = "ORIGINAL") <=> (e.revises = None)

(* GameChangerEventPITBinding: the event is known at the cutoff.           *)
Bound(e, mode, cutoff) ==
  /\ observed[e] # None
  /\ published[e].time <= cutoff
  /\ mode = "SYSTEM_AS_OF" => observed[e] <= cutoff

(* GameChangerStructuredAssessmentExtraction: the judgement was made after *)
(* the event was seen and by the cutoff.                                   *)
\* mutant: a judgement may be made after the cutoff
ExtractedAnyTime(x, cutoff) == observed[x.event] <= x.time

ExtractedInTime(x, cutoff) == observed[x.event] <= x.time /\ x.time <= cutoff

(* The assessments a caller can hold for a cutoff.                         *)
Assessable(mode, cutoff) ==
  {x \in extractions : Bound(x.event, mode, cutoff) /\ ExtractedInTime(x, cutoff)}

-----------------------------------------------------------------------------
(* game_changer_revision_family.  What the members of a family share is    *)
(* their source and instruments: only the revisions tell two families of   *)
(* one company apart.                                                      *)

Chain(seq) ==
  /\ published[seq[1].event].kind = "ORIGINAL"
  /\ \A i \in 2 .. Len(seq) :
       /\ published[seq[i].event].kind # "ORIGINAL"
       /\ published[seq[i].event].revises = seq[i - 1].event

FamilyOk(seq, coverage) ==
  /\ seq # <<>>
  /\ \A i \in DOMAIN seq :
       Scope[published[seq[i].event].family] = Scope[published[seq[1].event].family]
  /\ \A i, j \in DOMAIN seq : seq[i].event = seq[j].event => i = j
  /\ coverage = "COMPLETE_AT_CUTOFF" => Chain(seq)

(* The active assessment: the terminal one of a complete family.           *)

Resolved(seq, coverage) ==
  IF ~FamilyOk(seq, coverage) THEN {}
  ELSE {[status |-> IF coverage = "COMPLETE_AT_CUTOFF" THEN "RESOLVED" ELSE "INCOMPLETE_COVERAGE",
         family |-> published[seq[1].event].family,
         active |-> IF coverage = "COMPLETE_AT_CUTOFF" THEN seq[Len(seq)].judgement ELSE None]}

-----------------------------------------------------------------------------
(* game_changer_gate.                                                      *)

Quarantines(j) ==
  \/ j.thesis = "INVALIDATED"
  \/ j.materiality = "CRITICAL" /\ j.thesis \in {"WEAKENED", "UNCERTAIN"}

Reasons(j) ==
  {r \in {"MATERIALITY", "URGENCY", "THESIS"} :
     \/ r = "MATERIALITY" /\ j.materiality \in {"HIGH", "CRITICAL"}
     \/ r = "URGENCY" /\ j.urgency \in {"PROMPT", "IMMEDIATE"}
     \/ r = "THESIS" /\ j.thesis \in {"WEAKENED", "INVALIDATED", "UNCERTAIN"}}

Gate(r) ==
  [affected |-> Scope[r.family],
   review |-> IF r.status = "RESOLVED" THEN Reasons(r.active) # {} ELSE TRUE,
   capital |-> IF Scope[r.family] = {} THEN "NOT_APPLICABLE_SYSTEMIC"
               ELSE IF r.status # "RESOLVED" THEN "PAUSED_PENDING_EVIDENCE"
               ELSE IF Quarantines(r.active) THEN "QUARANTINED" ELSE "OPEN"]

Gates(seq, coverage) == {Gate(r) : r \in Resolved(seq, coverage)}

-----------------------------------------------------------------------------
(* The sources and the readers.                                            *)

Init ==
  /\ now = 0
  /\ published = <<>> /\ observed = <<>>
  /\ extractions = {}

Tick ==
  /\ now < MaxTime
  /\ now' = now + 1
  /\ UNCHANGED <<published, observed, extractions>>

Kinds == {"ORIGINAL", "UPDATE", "WITHDRAWAL"}

Publish(f, kind, parent) ==
  LET e == [family |-> f, kind |-> kind, revises |-> parent, time |-> now] IN
    /\ Len(published) < MaxEvents
    /\ EventOk(e)
    /\ parent # None => published[parent].family = f
    /\ published' = Append(published, e)
    /\ observed' = Append(observed, None)
    /\ UNCHANGED <<now, extractions>>

Observe(e) ==
  /\ observed[e] = None
  /\ observed' = [observed EXCEPT ![e] = now]
  /\ UNCHANGED <<now, published, extractions>>

Extract(e, j) ==
  /\ observed[e] # None
  /\ Cardinality(extractions) < MaxExtractions
  /\ extractions' = extractions \cup {[event |-> e, judgement |-> j, time |-> now]}
  /\ UNCHANGED <<now, published, observed>>

Next ==
  \/ Tick
  \/ \E f \in Families, k \in Kinds, p \in Events \cup {None} : Publish(f, k, p)
  \/ \E e \in Events : Observe(e) \/ \E j \in Judgements : Extract(e, j)

Spec == Init /\ [][Next]_vars

-----------------------------------------------------------------------------
(* Properties                                                              *)

Queries == [mode : Modes, cutoff : 0 .. now]
Tuples(q) == LET S == Assessable(q.mode, q.cutoff) IN
  UNION {SetToSeqs(T) : T \in SUBSET S}
Newest(S) == CHOOSE e \in S : \A d \in S : d <= e

TypeOK ==
  /\ Len(observed) = Len(published)
  /\ \A e \in Events : /\ published[e].revises # None => published[e].revises \in 1 .. e - 1
                       /\ published[e].kind # "ORIGINAL" => published[e].revises # None
                       /\ observed[e] # None => observed[e] \in published[e].time .. now
  /\ \A x \in extractions : x.time \in 0 .. now

(* When a caller holds every event a source had published of a family by   *)
(* the cutoff and the family is accepted as complete, the gate is the one  *)
(* of its newest revision, whatever order the events were seen or judged   *)
(* in: no earlier judgement survives its correction.                       *)
Held(seq) == {seq[i].event : i \in DOMAIN seq}
NewestDecides ==
  \A q \in Queries : \A seq \in Tuples(q) : seq # <<>> =>
    LET family == {e \in Events : published[e].family = published[seq[1].event].family
                                  /\ published[e].time <= q.cutoff}
    IN  family = Held(seq) => \A g \in Gates(seq, "COMPLETE_AT_CUTOFF") :
          \E x \in Range(seq) :
            x.event = Newest(family) /\ g = Gate([status |-> "RESOLVED",
              family |-> published[x.event].family, active |-> x.judgement])

(* A family is accepted as complete in at most one order, and only when    *)
(* each event has at most one revision in it: a source that revised one    *)
(* event twice, or began twice, is refused instead of resolved.            *)
CompleteIsLinear ==
  \A q \in Queries : \A seq \in Tuples(q) : Resolved(seq, "COMPLETE_AT_CUTOFF") # {} =>
    /\ Cardinality({e \in Held(seq) : published[e].kind = "ORIGINAL"}) = 1
    /\ \A d, e \in Held(seq) : published[d].revises = published[e].revises => d = e
    /\ \A e \in Held(seq) : published[e].revises # None => published[e].revises \in Held(seq)

(* Doubt never opens the gate: with anything less than a complete family   *)
(* an instrument receives no new capital and a review is asked for.        *)
DoubtBlocks ==
  \A q \in Queries : \A seq \in Tuples(q) : \A g \in Gates(seq, "INCOMPLETE_AT_CUTOFF") :
    /\ g.review
    /\ g.affected # {} => g.capital \in {"PAUSED_PENDING_EVIDENCE", "QUARANTINED"}

(* A gate of a past cutoff is not rewritten with hindsight: nothing that   *)
(* is published, observed or judged after it changes what could be held    *)
(* for it.                                                                 *)
NoHindsight ==
  \A q \in Queries : q.cutoff < now =>
       Assessable(q.mode, q.cutoff)' = Assessable(q.mode, q.cutoff)
=============================================================================
