-------------------------- MODULE ContinuityProofs --------------------------
(***************************************************************************)
(* Continuity for any number of operations and attempts, any tool          *)
(* contracts, limits and clocks.                                           *)
(***************************************************************************)
EXTENDS Continuity, FiniteSetTheorems, TLAPS

Executes(a) == att[a].mode = "execute"

Idempotent(o) == Capability[o] = "idempotent"

(* What a host knows, and what that says of the destination.               *)
HostOK(a) ==
  /\ att[a].phase \in {"new", "asked"} =>
       /\ att[a].mode = "no mode" /\ att[a].receipt = "no receipt"
       /\ ~att[a].got
  /\ wf = Absent => att[a].phase = "new"
  /\ att[a].landed => Executes(a) /\ dest[att[a].op].effects > 0
  /\ att[a].at <= time
  /\ att[a].receipt = "confirmed_succeeded" => dest[att[a].op].effects > 0
  /\ att[a].mode # "no mode" =>
       \A p \in Operations : p < att[a].op => dest[p].effects > 0

HostsOK == time > MaxBack /\ \A a \in Attempts : HostOK(a)

(* Two executions of one operation: the later one ends before the          *)
(* destination forgets the key of the earlier one, whichever it is.        *)
Compatible(a, b) ==
  IF Idempotent(att[a].op)
  THEN att[b].at + HostDelay + Timeout < att[a].at + Retention[att[a].op]
  ELSE a = b

ExecutionsOK ==
  \A a, b \in Attempts :
    Executes(a) /\ Executes(b) /\ att[a].op = att[b].op => Compatible(a, b)

(* An effect is there because some execution landed, and when it did.      *)
DestinationsOK ==
  \A o \in Operations : dest[o].effects > 0 =>
    \E a \in Attempts : att[a].landed /\ att[a].op = o /\ att[a].at <= dest[o].since

(* The record of an operation, and the attempts it was granted to.         *)
OperationOK(o) ==
  /\ wf.ops[o].status = "pending" => wf.ops[o].first = Never
  /\ wf.ops[o].status \in {"uncertain", "completed"} => wf.ops[o].first # Never
  /\ wf.ops[o].first <= wf.high
  /\ wf.ops[o].lease # NoAttempt => wf.ops[o].status = "uncertain"
  /\ wf.ops[o].status = "uncertain" =>
       \A p \in Operations : p < o => wf.ops[p].status = "completed"

GrantOK(w, h) ==
  h.mode # "no mode" =>
    /\ h.op <= w.size
    /\ w.ops[h.op].status # "pending"
    /\ h.mode = "execute" /\ Idempotent(h.op) =>
         /\ w.ops[h.op].first <= h.at
         /\ h.at + HostDelay + Timeout < w.ops[h.op].first + Retention[h.op]

OperationsOK == Live => \A o \in Defined : OperationOK(o)

GrantsOK == Live => \A a \in Attempts : GrantOK(wf, att[a])

(* What can still be saved above MAX_REVISIONS: one end for each operation *)
(* that has none, one receipt for the lease there is, one stop.            *)
Unsettled == {o \in Defined : wf.ops[o].status \in {"pending", "uncertain"}}

LeaseOut == IF \E o \in Defined : wf.ops[o].lease # NoAttempt THEN 1 ELSE 0

MayStop == IF wf.enabled THEN 1 ELSE 0

BudgetOK ==
  Live => wf.revision + Cardinality(Unsettled) + LeaseOut + MayStop
            <= MaxRevisions + wf.size + 1

(* The capture mode is not reduced while work can start or may be under    *)
(* way.                                                                    *)
CaptureOK ==
  Live /\ capture # "full" =>
    ~wf.enabled /\ \A o \in Defined : wf.ops[o].status # "uncertain"

IInv ==
  /\ TypeOK
  /\ HostsOK
  /\ ExecutionsOK
  /\ DestinationsOK
  /\ OperationsOK
  /\ GrantsOK
  /\ BudgetOK
  /\ CaptureOK
  /\ EffectAtMostOnce
  /\ ResultsAreReal
  /\ EffectsInOrder

-----------------------------------------------------------------------------
(* The workflow.                                                           *)

LEMMA LiveType ==
  ASSUME TypeOK, Live
  PROVE  /\ wf \in Workflows
         /\ Defined = 1..wf.size /\ Defined \subseteq Operations
         /\ Clock \in Int /\ Clock <= time /\ time - MaxBack <= Clock
<1>1. wf \in Workflows
  BY DEF TypeOK, Live, Absent, Deleted
<1>2. wf.size \in Operations
  BY <1>1 DEF Workflows
<1> QED
  BY <1>1, <1>2, ContinuityAssumption DEF Defined, Operations, Clock, TypeOK

(* A save replaces one operation, and counts.                              *)
LEMMA SavedOp ==
  ASSUME TypeOK, Live, NEW o \in Defined, NEW op \in OpRecords,
         wf' = Saved(WithOp(wf, o, op))
  PROVE  /\ wf' \in Workflows /\ Live' /\ Defined' = Defined
         /\ wf'.size = wf.size /\ wf'.enabled = wf.enabled
         /\ wf'.revision = wf.revision + 1 /\ wf'.high = Clock
         /\ wf'.ops[o] = op
         /\ \A p \in Operations : p # o => wf'.ops[p] = wf.ops[p]
<1>1. /\ wf \in Workflows /\ Defined \subseteq Operations /\ Clock \in Int
  BY LiveType
<1>2. wf' = [wf EXCEPT !.ops = [wf.ops EXCEPT ![o] = op],
                       !.revision = wf.revision + 1, !.high = Clock]
  BY <1>1 DEF Saved, WithOp, Workflows
<1>3. [wf.ops EXCEPT ![o] = op] \in [Operations -> OpRecords]
  BY <1>1 DEF Workflows
<1>4. /\ wf'.state = "live" /\ wf'.creator = wf.creator
      /\ wf'.size = wf.size /\ wf'.enabled = wf.enabled
      /\ wf'.revision = wf.revision + 1 /\ wf'.high = Clock
      /\ wf'.ops = [wf.ops EXCEPT ![o] = op]
  BY <1>1, <1>2 DEF Workflows
<1>5. wf' \in Workflows
  <2> DEFINE w == [wf EXCEPT !.ops = [wf.ops EXCEPT ![o] = op]]
  <2>1. w \in Workflows /\ wf.revision + 1 \in Nat
    BY <1>1, <1>3 DEF Workflows
  <2>2. wf' = [w EXCEPT !.revision = wf.revision + 1, !.high = Clock]
    BY <1>2
  <2> HIDE DEF w
  <2> QED
    BY <1>1, <2>1, <2>2 DEF Workflows
<1>6. wf'.ops[o] = op /\ \A p \in Operations : p # o => wf'.ops[p] = wf.ops[p]
  BY <1>1, <1>4 DEF Workflows
<1> QED
  BY <1>4, <1>5, <1>6 DEF Live, Defined

(* An operation as a receipt or the operator leaves it.                    *)
LEMMA EndedOp ==
  ASSUME NEW was \in OpRecords, NEW status \in Statuses
  PROVE  LET op == [was EXCEPT !.status = status, !.lease = NoAttempt, !.until = 0]
         IN  /\ op \in OpRecords /\ op.status = status /\ op.lease = NoAttempt
             /\ op.first = was.first
<1> DEFINE v == [was EXCEPT !.status = status]
           w == [v EXCEPT !.lease = NoAttempt]
           op == [w EXCEPT !.until = 0]
<1>1. v \in OpRecords /\ v.status = status /\ v.first = was.first
  BY DEF OpRecords
<1> HIDE DEF v
<1>2. w \in OpRecords /\ w.status = status /\ w.first = was.first
      /\ w.lease = NoAttempt
  BY <1>1 DEF OpRecords
<1> HIDE DEF w
<1>3. op \in OpRecords /\ op.status = status /\ op.first = was.first
      /\ op.lease = NoAttempt
  BY <1>2 DEF OpRecords
<1> QED
  BY <1>3 DEF v, w

(* A late receipt touches only its counter.                                *)
LEMMA LateOp ==
  ASSUME TypeOK, NEW a \in Attempts, RecordedLate(a)
  PROVE  /\ Live /\ wf' \in Workflows /\ Live' /\ Defined' = Defined
         /\ wf'.size = wf.size /\ wf'.enabled = wf.enabled
         /\ wf'.revision = wf.revision /\ wf'.high = wf.high
         /\ \A p \in Operations :
              /\ wf'.ops[p].status = wf.ops[p].status
              /\ wf'.ops[p].first = wf.ops[p].first
              /\ wf'.ops[p].lease = wf.ops[p].lease
<1> DEFINE o == att[a].op
           op == [wf.ops[o] EXCEPT !.late = @ + 1]
<1>1. Live /\ o \in Defined
  BY DEF RecordedLate, MayRecordLate, Defined
<1>2. wf \in Workflows /\ Defined \subseteq Operations
  BY <1>1, LiveType
<1>3. wf.ops[o] \in OpRecords
  BY <1>1, <1>2 DEF Workflows
<1>4. /\ op \in OpRecords /\ op.status = wf.ops[o].status
      /\ op.first = wf.ops[o].first /\ op.lease = wf.ops[o].lease
  BY <1>3 DEF OpRecords
<1>5. wf' = [wf EXCEPT !.ops = [wf.ops EXCEPT ![o] = op]]
  BY <1>1, <1>2 DEF RecordedLate, WithOp, Workflows
<1> HIDE DEF op
<1>6. [wf.ops EXCEPT ![o] = op] \in [Operations -> OpRecords]
  BY <1>2, <1>4 DEF Workflows
<1>7. /\ wf'.state = "live" /\ wf'.creator = wf.creator
      /\ wf'.size = wf.size /\ wf'.enabled = wf.enabled
      /\ wf'.revision = wf.revision /\ wf'.high = wf.high
      /\ wf'.ops = [wf.ops EXCEPT ![o] = op]
  BY <1>2, <1>5 DEF Workflows
<1>8. wf' \in Workflows
  BY <1>2, <1>5, <1>6 DEF Workflows
<1>9. wf'.ops[o] = op /\ \A p \in Operations : p # o => wf'.ops[p] = wf.ops[p]
  BY <1>1, <1>2, <1>7 DEF Workflows
<1> QED
  BY <1>1, <1>4, <1>7, <1>8, <1>9 DEF Live, Defined

(* What a save has to see to for the record of an operation.               *)
Coherent(o, op) ==
  /\ op.status # "pending"
  /\ op.status \in {"uncertain", "completed"} => op.first # Never
  /\ op.first <= Clock
  /\ op.lease # NoAttempt => op.status = "uncertain"
  /\ op.status = "uncertain" =>
       \A p \in Operations : p < o => wf.ops[p].status = "completed"

LEMMA SavedOperations ==
  ASSUME TypeOK, OperationsOK, Live, NEW o \in Defined, NEW op \in OpRecords,
         wf' = Saved(WithOp(wf, o, op)), ClockAgrees, Coherent(o, op),
         wf.ops[o].status # "completed"
  PROVE  OperationsOK'
<1>1. /\ wf \in Workflows /\ Defined \subseteq Operations /\ Clock \in Int
      /\ Defined = 1..wf.size
  BY LiveType
<1>2. /\ wf' \in Workflows /\ Live' /\ Defined' = Defined /\ wf'.high = Clock
      /\ wf'.ops[o] = op
      /\ \A p \in Operations : p # o => wf'.ops[p] = wf.ops[p]
  BY SavedOp
<1>3. wf.high \in Int /\ wf.high <= Clock
  BY <1>1 DEF Workflows, ClockAgrees
<1>4. SUFFICES ASSUME NEW q \in Defined PROVE OperationOK(q)'
  BY <1>2 DEF OperationsOK
<1>5. OperationOK(q)
  BY DEF OperationsOK
<1>6. CASE q = o
  <2>1. op.status = "uncertain" =>
          \A p \in Operations : p < o => wf'.ops[p].status = "completed"
    BY <1>1, <1>2 DEF Coherent, Operations
  <2> QED
    BY <1>2, <1>6, <2>1 DEF OperationOK, Coherent
<1>7. CASE q # o
  <2>1. wf'.ops[q] = wf.ops[q] /\ wf.ops[q] \in OpRecords
    BY <1>1, <1>2, <1>7 DEF Workflows
  <2>2. wf.ops[q].first <= Clock
    BY <1>1, <1>3, <1>5, <2>1, SMTT(30) DEF OperationOK, OpRecords
  <2>3. ASSUME wf.ops[q].status = "uncertain", NEW p \in Operations, p < q
        PROVE  wf'.ops[p].status = "completed"
    <3>1. wf.ops[p].status = "completed"
      BY <1>5, <2>3 DEF OperationOK
    <3> QED
      BY <1>2, <3>1
  <2> QED
    BY <1>2, <1>5, <2>1, <2>2, <2>3 DEF OperationOK
<1> QED
  BY <1>6, <1>7

-----------------------------------------------------------------------------
(* Revisions.                                                              *)

LEMMA UnsettledFinite ==
  ASSUME TypeOK, Live
  PROVE  /\ IsFiniteSet(Unsettled) /\ Cardinality(Unsettled) \in Nat
         /\ Cardinality(Unsettled) <= wf.size
         /\ LeaseOut \in 0..1 /\ MayStop \in 0..1
<1>1. wf.size \in Nat /\ wf.size >= 1 /\ Defined = 1..wf.size
  BY LiveType, ContinuityAssumption DEF Workflows, Operations
<1>2. IsFiniteSet(Defined) /\ Cardinality(Defined) = wf.size
  BY <1>1, FS_Interval
<1>3. Unsettled \subseteq Defined
  BY DEF Unsettled
<1>4. /\ IsFiniteSet(Unsettled) /\ Cardinality(Unsettled) \in Nat
      /\ Cardinality(Unsettled) <= Cardinality(Defined)
  BY <1>2, <1>3, FS_Subset, FS_CardinalityType
<1> QED
  BY <1>2, <1>4 DEF LeaseOut, MayStop

(* Below MAX_REVISIONS there is room for everything.                       *)
LEMMA LowRevision == TypeOK /\ (Live => wf.revision < MaxRevisions) => BudgetOK
<1> SUFFICES ASSUME TypeOK, Live, wf.revision < MaxRevisions
             PROVE  wf.revision + Cardinality(Unsettled) + LeaseOut + MayStop
                      <= MaxRevisions + wf.size + 1
  BY DEF BudgetOK
<1>1. /\ Cardinality(Unsettled) \in Nat /\ Cardinality(Unsettled) <= wf.size
      /\ LeaseOut \in 0..1 /\ MayStop \in 0..1
  BY UnsettledFinite
<1>2. wf.size \in Nat /\ wf.revision \in Nat
  BY LiveType, ContinuityAssumption DEF Workflows, Operations
<1> QED
  BY <1>1, <1>2, ContinuityAssumption

LEMMA LowRevisionNext ==
  TypeOK' /\ (Live => wf.revision < MaxRevisions)' => BudgetOK'
BY LowRevision, PTL

(* Within the budget there is a revision left.                             *)
LEMMA RoomLeft ==
  ASSUME TypeOK, BudgetOK, Live
  PROVE  wf.revision < MaxRevisions + wf.size + 2
<1>1. /\ Cardinality(Unsettled) \in Nat
      /\ LeaseOut \in 0..1 /\ MayStop \in 0..1
  BY UnsettledFinite
<1>2. wf.size \in Nat /\ wf.revision \in Nat
  BY LiveType, ContinuityAssumption DEF Workflows, Operations
<1> QED
  BY <1>1, <1>2, ContinuityAssumption DEF BudgetOK

(* The end of an operation, or of the one lease there is, uses up one      *)
(* revision of the budget and makes one less necessary.                    *)
LEMMA SavedBudget ==
  ASSUME TypeOK, OperationsOK, BudgetOK, Live, NEW o \in Defined,
         NEW op \in OpRecords, wf' = Saved(WithOp(wf, o, op)),
         wf.ops[o].status \in {"pending", "uncertain"}, op.lease = NoAttempt,
         \/ op.status \in {"completed", "abandoned"}
         \/ op.status = "uncertain" /\ wf.ops[o].lease # NoAttempt
  PROVE  BudgetOK'
<1>1. /\ wf \in Workflows /\ Defined \subseteq Operations
      /\ wf.size \in Nat /\ wf.revision \in Nat
  BY LiveType, ContinuityAssumption DEF Workflows, Operations
<1>2. /\ wf' \in Workflows /\ Live' /\ Defined' = Defined
      /\ wf'.size = wf.size /\ wf'.enabled = wf.enabled
      /\ wf'.revision = wf.revision + 1 /\ wf'.ops[o] = op
      /\ \A p \in Operations : p # o => wf'.ops[p] = wf.ops[p]
  BY SavedOp
<1>3. /\ IsFiniteSet(Unsettled) /\ Cardinality(Unsettled) \in Nat
      /\ LeaseOut \in 0..1 /\ MayStop \in 0..1
  BY UnsettledFinite
<1>4. MayStop' = MayStop
  BY <1>2 DEF MayStop
<1>5. LeaseOut' <= LeaseOut /\ LeaseOut' \in 0..1
  BY <1>1, <1>2 DEF LeaseOut
<1>6. wf.revision + Cardinality(Unsettled) + LeaseOut + MayStop
        <= MaxRevisions + wf.size + 1
  BY DEF BudgetOK
<1>7. CASE op.status \in {"completed", "abandoned"}
  <2>1. o \in Unsettled
    BY DEF Unsettled
  <2>2. Unsettled' = Unsettled \ {o}
    BY <1>1, <1>2, <1>7 DEF Unsettled
  <2>3. Cardinality(Unsettled') = Cardinality(Unsettled) - 1
    BY <1>3, <2>1, <2>2, FS_RemoveElement
  <2> QED
    BY <1>1, <1>2, <1>3, <1>4, <1>5, <1>6, <2>3, ContinuityAssumption DEF BudgetOK
<1>8. CASE op.status = "uncertain" /\ wf.ops[o].lease # NoAttempt
  <2>1. OperationOK(o) /\ wf.ops[o].status = "uncertain"
    BY <1>8 DEF OperationsOK, OperationOK
  <2>2. Unsettled' = Unsettled
    BY <1>1, <1>2, <1>8, <2>1 DEF Unsettled
  <2>3. ASSUME NEW q \in Defined, q # o PROVE wf.ops[q].lease = NoAttempt
    <3>1. OperationOK(q) /\ q \in Int /\ o \in Int
      BY <1>1, ContinuityAssumption DEF OperationsOK, Operations
    <3>2. wf.ops[q].status # "uncertain"
      BY <1>1, <2>1, <2>3, <3>1 DEF OperationOK
    <3> QED
      BY <3>1, <3>2 DEF OperationOK
  <2>4. LeaseOut = 1 /\ LeaseOut' = 0
    BY <1>1, <1>2, <1>8, <2>3 DEF LeaseOut
  <2> QED
    BY <1>1, <1>2, <1>3, <1>4, <1>6, <2>2, <2>4, ContinuityAssumption DEF BudgetOK
<1> QED
  BY <1>7, <1>8

-----------------------------------------------------------------------------
(* What links the workflow to hosts and destinations.                      *)

LEMMA SavedLinks ==
  ASSUME TypeOK, GrantsOK, ResultsAreReal, Live, NEW o \in Defined,
         NEW op \in OpRecords, wf' = Saved(WithOp(wf, o, op)),
         wf.ops[o].status # "completed", op.status # "pending",
         op.first = wf.ops[o].first \/ wf.ops[o].status = "pending",
         op.status = "completed" => dest[o].effects > 0
  PROVE  /\ \A a \in Attempts : GrantOK(wf', att[a])
         /\ \A q \in Defined :
              wf'.ops[q].status = "completed" => dest[q].effects > 0
         /\ \A a \in Attempts :
              att[a].got => wf'.ops[att[a].op].status = "completed"
<1>1. wf \in Workflows /\ Defined \subseteq Operations
  BY LiveType
<1>2. /\ wf'.size = wf.size /\ wf'.ops[o] = op
      /\ \A p \in Operations : p # o => wf'.ops[p] = wf.ops[p]
  BY SavedOp
<1>3. \A a \in Attempts : att[a].op \in Operations
  BY DEF TypeOK
<1>4. ASSUME NEW a \in Attempts PROVE GrantOK(wf', att[a])
  <2>1. GrantOK(wf, att[a])
    BY DEF GrantsOK
  <2>2. CASE att[a].op = o
    BY <1>2, <2>1, <2>2 DEF GrantOK
  <2>3. CASE att[a].op # o
    BY <1>2, <1>3, <2>1, <2>3 DEF GrantOK
  <2> QED
    BY <2>2, <2>3
<1>5. ASSUME NEW a \in Attempts, att[a].got
      PROVE  wf'.ops[att[a].op].status = "completed"
  <2>1. wf.ops[att[a].op].status = "completed"
    BY <1>5 DEF ResultsAreReal
  <2> QED
    BY <1>2, <1>3, <2>1
<1>6. ASSUME NEW q \in Defined, wf'.ops[q].status = "completed"
      PROVE  dest[q].effects > 0
  <2>1. q # o => wf.ops[q].status = "completed"
    BY <1>1, <1>2, <1>6
  <2> QED
    BY <1>2, <1>6, <2>1 DEF ResultsAreReal
<1> QED
  BY <1>4, <1>5, <1>6

-----------------------------------------------------------------------------
(* Steps of which the destinations see nothing.                            *)

HostRecords == [phase: Phases, op: Operations, mode: Modes, at: Nat,
                landed: BOOLEAN, receipt: Receipts, got: BOOLEAN]

(* Executions and effects are as before when hosts dispatch nothing.       *)
LEMMA NoDispatch ==
  ASSUME IInv, dest' = dest, att' \in [Attempts -> HostRecords],
         \A a \in Attempts :
           /\ att'[a].mode = att[a].mode /\ att'[a].landed = att[a].landed
           /\ att'[a].at = att[a].at
           /\ att[a].mode # "no mode" => att'[a].op = att[a].op
  PROVE  ExecutionsOK' /\ DestinationsOK' /\ EffectAtMostOnce' /\ EffectsInOrder'
<1>1. ExecutionsOK'
  <2> SUFFICES ASSUME NEW a \in Attempts, NEW b \in Attempts, Executes(a)',
                      Executes(b)', att'[a].op = att'[b].op
               PROVE  Compatible(a, b)'
    BY DEF ExecutionsOK
  <2>1. /\ Executes(a) /\ Executes(b)
        /\ att'[a].op = att[a].op /\ att'[b].op = att[b].op
    BY DEF Executes
  <2>2. Compatible(a, b)
    BY <2>1 DEF IInv, ExecutionsOK
  <2> QED
    BY <2>1, <2>2 DEF Compatible, Idempotent
<1>2. DestinationsOK'
  <2> SUFFICES ASSUME NEW o \in Operations, dest'[o].effects > 0
               PROVE  \E a \in Attempts : /\ att'[a].landed /\ att'[a].op = o
                                          /\ att'[a].at <= dest'[o].since
    BY DEF DestinationsOK
  <2>1. PICK a \in Attempts : /\ att[a].landed /\ att[a].op = o
                              /\ att[a].at <= dest[o].since
    BY DEF IInv, DestinationsOK
  <2>2. att[a].mode = "execute"
    BY <2>1 DEF IInv, HostsOK, HostOK, Executes
  <2> QED
    BY <2>1, <2>2
<1>3. EffectAtMostOnce' /\ EffectsInOrder'
  BY DEF IInv, EffectAtMostOnce, EffectsInOrder
<1> QED
  BY <1>1, <1>2, <1>3

(* A step of the operator or of a request nobody waits for.                *)
LEMMA WorkflowStep ==
  ASSUME IInv, UNCHANGED <<capture, time, back, att, dest>>,
         wf' \in Workflows \cup {Deleted},
         OperationsOK', BudgetOK', CaptureOK',
         Live' => /\ \A a \in Attempts : GrantOK(wf', att[a])
                  /\ \A q \in Defined' :
                       wf'.ops[q].status = "completed" => dest[q].effects > 0
                  /\ \A a \in Attempts :
                       att[a].got => wf'.ops[att[a].op].status = "completed"
  PROVE  IInv'
<1>1. TypeOK'
  BY DEF IInv, TypeOK
<1>2. HostsOK'
  <2>1. wf' # Absent
    BY DEF Workflows, Deleted, Absent
  <2> QED
    BY <2>1 DEF IInv, HostsOK, HostOK, Executes
<1>3. ExecutionsOK' /\ DestinationsOK' /\ EffectAtMostOnce' /\ EffectsInOrder'
  BY NoDispatch DEF IInv, TypeOK, HostRecords
<1>4. GrantsOK'
  BY DEF GrantsOK
<1>5. ResultsAreReal'
  <2>1. ~Live' => Defined' = {}
    BY DEF Defined
  <2> QED
    BY <2>1 DEF IInv, ResultsAreReal
<1> QED
  BY <1>1, <1>2, <1>3, <1>4, <1>5 DEF IInv

(* A step of one host that leaves the workflow alone.                      *)
LEMMA HostStep ==
  ASSUME IInv, UNCHANGED <<wf, capture, time, back, dest>>,
         NEW a \in Attempts, NEW h \in HostRecords, att' = [att EXCEPT ![a] = h],
         h.mode = att[a].mode, h.landed = att[a].landed, h.at = att[a].at,
         att[a].phase # "new" => h.op = att[a].op,
         h.phase \in {"new", "asked"}
             => att[a].phase = "new" /\ h.receipt = "no receipt" /\ ~h.got,
         wf = Absent => h.phase = "new",
         h.receipt = "confirmed_succeeded" => dest[h.op].effects > 0,
         h.got => /\ dest[h.op].effects > 0
                  /\ Live => wf.ops[h.op].status = "completed"
  PROVE  IInv'
<1>1. /\ att'[a] = h /\ \A b \in Attempts : b # a => att'[b] = att[b]
      /\ att' \in [Attempts -> HostRecords]
  BY DEF IInv, TypeOK, HostRecords
<1>2. TypeOK'
  BY <1>1 DEF IInv, TypeOK, HostRecords
<1>3. HostOK(a) /\ HostsOK
  BY DEF IInv, HostsOK
<1>4. att[a].mode # "no mode" => h.op = att[a].op
  BY <1>3 DEF HostOK
<1>5. ExecutionsOK' /\ DestinationsOK' /\ EffectAtMostOnce' /\ EffectsInOrder'
  BY <1>1, <1>4, NoDispatch
<1>6. HostsOK'
  <2> SUFFICES ASSUME NEW b \in Attempts PROVE HostOK(b)'
    BY <1>3 DEF HostsOK
  <2>1. CASE b = a
    BY <1>1, <1>3, <1>4, <2>1 DEF HostOK, Executes
  <2>2. CASE b # a
    <3>1. HostOK(b)
      BY <1>3 DEF HostsOK
    <3> QED
      BY <1>1, <2>2, <3>1 DEF HostOK, Executes
  <2> QED
    BY <2>1, <2>2
<1>7. OperationsOK' /\ BudgetOK' /\ CaptureOK'
  BY DEF IInv, OperationsOK, OperationOK, BudgetOK, CaptureOK, Live, Defined,
         Unsettled, LeaseOut, MayStop
<1>8. GrantsOK'
  <2>1. GrantsOK /\ Live' = Live
    BY DEF IInv, Live
  <2> QED
    BY <1>1, <1>4, <2>1 DEF GrantsOK, GrantOK
<1>9. ResultsAreReal'
  <2>1. ResultsAreReal /\ Live' = Live /\ Defined' = Defined
    BY DEF IInv, Live, Defined
  <2> QED
    BY <1>1, <2>1 DEF ResultsAreReal
<1> QED
  BY <1>2, <1>5, <1>6, <1>7, <1>8, <1>9 DEF IInv

-----------------------------------------------------------------------------
(* begin.                                                                  *)

LEMMA GrantFacts ==
  ASSUME IInv, NEW a \in Attempts, NEW o \in Operations, Grant(a, o)
  PROVE  LET op == Attempted(wf.ops[o], a) IN
         /\ Live /\ o \in Defined /\ op \in OpRecords
         /\ wf' = Saved(WithOp(wf, o, op))
         /\ capture = "full" /\ ClockAgrees
         /\ wf.ops[o].status \in {"pending", "uncertain"}
         /\ wf'.revision < MaxRevisions
         /\ op.status = "uncertain" /\ op.first = FirstDispatch(wf.ops[o])
         /\ Coherent(o, op)
         /\ op.first = wf.ops[o].first \/ wf.ops[o].status = "pending"
         /\ \A p \in Operations : p < o =>
              p \in Defined /\ wf.ops[p].status = "completed"
<1> DEFINE was == wf.ops[o]
           op == Attempted(was, a)
<1>1. /\ Live /\ o \in Defined /\ TypeOK /\ ClockAgrees /\ capture = "full"
      /\ was.status \in {"pending", "uncertain"} /\ EarlierWorkFinished(o)
      /\ wf.revision < MaxRevisions - 2
      /\ wf' = Saved(WithOp(wf, o, op))
  BY DEF IInv, Grant, Authorized, Defined
<1>2. /\ wf \in Workflows /\ Defined = 1..wf.size /\ Defined \subseteq Operations
      /\ Clock \in Int /\ time - MaxBack <= Clock
  BY <1>1, LiveType
<1>3. was \in OpRecords /\ wf.high \in Int /\ wf.high <= Clock
  BY <1>1, <1>2 DEF Workflows, ClockAgrees
<1>4. FirstDispatch(was) \in Int /\ Clock + Lease \in Int
  BY <1>2, <1>3, ContinuityAssumption, SMTT(30) DEF FirstDispatch, OpRecords
<1>5. /\ op \in OpRecords /\ op.status = "uncertain"
      /\ op.first = FirstDispatch(was)
  BY <1>3, <1>4 DEF Attempted, OpRecords, Statuses
<1>6. OperationOK(o)
  BY <1>1 DEF IInv, OperationsOK
<1>7. Clock > 0
  BY <1>2, ContinuityAssumption DEF IInv, TypeOK, HostsOK
<1>8. op.first # Never /\ op.first <= Clock
  BY <1>2, <1>3, <1>5, <1>6, <1>7 DEF FirstDispatch, Never, OperationOK, OpRecords
<1>9. op.first = was.first \/ was.status = "pending"
  BY <1>1, <1>5, <1>6 DEF FirstDispatch, OperationOK
<1>10. \A p \in Operations : p < o =>
         p \in Defined /\ wf.ops[p].status = "completed"
  BY <1>1, <1>2, ContinuityAssumption DEF Operations, EarlierWorkFinished, Workflows
<1>11. Coherent(o, op)
  BY <1>5, <1>8, <1>10 DEF Coherent
<1>12. wf'.revision < MaxRevisions
  <2>1. wf'.revision = wf.revision + 1
    BY <1>1, <1>5, SavedOp
  <2> QED
    BY <1>1, <1>2, <2>1, ContinuityAssumption DEF Workflows
<1> QED
  BY <1>1, <1>5, <1>9, <1>10, <1>11, <1>12

(* What a grant does to the workflow.                                      *)
LEMMA GrantWorkflow ==
  ASSUME IInv, NEW a \in Attempts, NEW o \in Operations, Grant(a, o),
         UNCHANGED <<capture, time, back>>
  PROVE  /\ wf' \in Workflows /\ Live' /\ Defined' = Defined
         /\ OperationsOK' /\ CaptureOK' /\ (TypeOK' => BudgetOK')
         /\ \A b \in Attempts : GrantOK(wf', att[b])
         /\ \A q \in Defined :
              wf'.ops[q].status = "completed" => dest[q].effects > 0
         /\ \A b \in Attempts :
              att[b].got => wf'.ops[att[b].op].status = "completed"
<1> DEFINE op == Attempted(wf.ops[o], a)
<1>1. /\ Live /\ o \in Defined /\ op \in OpRecords
      /\ wf' = Saved(WithOp(wf, o, op))
      /\ capture = "full" /\ ClockAgrees
      /\ wf.ops[o].status \in {"pending", "uncertain"}
      /\ wf'.revision < MaxRevisions
      /\ op.status = "uncertain" /\ Coherent(o, op)
      /\ op.first = wf.ops[o].first \/ wf.ops[o].status = "pending"
  BY GrantFacts
<1> HIDE DEF op
<1>2. TypeOK /\ OperationsOK /\ GrantsOK /\ ResultsAreReal
  BY DEF IInv
<1>3. wf' \in Workflows /\ Live' /\ Defined' = Defined
  BY <1>1, <1>2, SavedOp
<1>4. OperationsOK'
  BY <1>1, <1>2, SavedOperations
<1>5. CaptureOK'
  BY <1>1 DEF CaptureOK
<1>6. TypeOK' => BudgetOK'
  BY <1>1, LowRevisionNext
<1>7. /\ \A b \in Attempts : GrantOK(wf', att[b])
      /\ \A q \in Defined :
           wf'.ops[q].status = "completed" => dest[q].effects > 0
      /\ \A b \in Attempts :
           att[b].got => wf'.ops[att[b].op].status = "completed"
  BY <1>1, <1>2, SavedLinks
<1> QED
  BY <1>3, <1>4, <1>5, <1>6, <1>7

(* A grant to execute falls into the window of the first dispatch, also    *)
(* when it is the first, and whatever the clock has lost since.            *)
LEMMA GrantWindow ==
  ASSUME IInv, NEW a \in Attempts, NEW o \in Operations, Grant(a, o),
         Action(o) = "execute"
  PROVE  /\ Idempotent(o) =>
              /\ wf'.ops[o].first \in Int /\ wf'.ops[o].first <= time
              /\ time + HostDelay + Timeout < wf'.ops[o].first + Retention[o]
         /\ ~Idempotent(o) => wf.ops[o].status = "pending"
<1> DEFINE op == Attempted(wf.ops[o], a)
<1>1. /\ Live /\ o \in Defined /\ op \in OpRecords
      /\ wf' = Saved(WithOp(wf, o, op)) /\ ClockAgrees
      /\ wf.ops[o].status \in {"pending", "uncertain"}
      /\ op.first = FirstDispatch(wf.ops[o])
  BY GrantFacts
<1> HIDE DEF op
<1>2. TypeOK /\ OperationOK(o)
  BY <1>1 DEF IInv, OperationsOK
<1>3. wf'.ops[o] = op
  BY <1>1, <1>2, SavedOp
<1>4. /\ wf \in Workflows /\ Clock \in Int /\ Clock <= time
      /\ time - MaxBack <= Clock /\ time \in Nat
  BY <1>1, <1>2, LiveType DEF TypeOK
<1>5. wf.ops[o].first \in Int /\ wf.high \in Int /\ op.first \in Int
  BY <1>1, <1>4 DEF Workflows, OpRecords
<1>6. wf.ops[o].first <= Clock
  BY <1>1, <1>2, <1>4, <1>5 DEF OperationOK, ClockAgrees
<1>7. op.first <= time
  BY <1>1, <1>4, <1>5, <1>6 DEF FirstDispatch
<1>8. CASE wf.ops[o].status = "pending"
  <2>1. op.first = Clock
    BY <1>1, <1>2, <1>8 DEF FirstDispatch, OperationOK
  <2>2. Idempotent(o) => Retention[o] > Timeout + Margin
    BY ContinuityAssumption DEF Idempotent
  <2> QED
    BY <1>3, <1>4, <1>5, <1>7, <1>8, <2>1, <2>2, ContinuityAssumption
<1>9. CASE wf.ops[o].status = "uncertain"
  <2>1. Idempotent(o) /\ IdempotencyWindowOpen(o)
    BY <1>9 DEF Action, Idempotent
  <2>2. op.first = wf.ops[o].first
    BY <1>1, <1>2, <1>9 DEF FirstDispatch, OperationOK
  <2>3. Retention[o] \in Nat
    BY ContinuityAssumption
  <2>4. Clock + Timeout + Margin < op.first + Retention[o]
    BY <2>1, <2>2 DEF IdempotencyWindowOpen
  <2> QED
    BY <1>3, <1>4, <1>5, <1>7, <2>1, <2>3, <2>4, ContinuityAssumption
<1> QED
  BY <1>1, <1>8, <1>9

LEMMA BeginGrantedInv ==
  ASSUME IInv, NEW a \in Attempts, BeginGranted(a)
  PROVE  IInv'
<1> DEFINE o == att[a].op
           h == [att[a] EXCEPT !.phase = "granted", !.mode = Action(o), !.at = time]
<1>1. /\ o \in Operations /\ Grant(a, o) /\ att[a].phase = "asked"
      /\ att[a] \in HostRecords /\ time \in Nat
      /\ UNCHANGED <<capture, time, back, dest>>
      /\ att' = [att EXCEPT ![a] = h]
  BY DEF IInv, TypeOK, BeginGranted, HostRecords
<1>2. Action(o) \in {"execute", "query"}
  BY <1>1 DEF Grant, Authorized, Action
<1>3. HostOK(a) /\ TypeOK /\ HostsOK
  BY DEF IInv, HostsOK
<1>4. /\ h \in HostRecords /\ h.mode = Action(o) /\ h.at = time /\ h.op = o
      /\ h.phase = "granted" /\ h.landed = att[a].landed
      /\ h.receipt = att[a].receipt /\ h.got = att[a].got
  BY <1>1, <1>2 DEF HostRecords, Phases, Modes
<1>5. att[a].mode = "no mode" /\ ~h.landed /\ ~h.got /\ h.receipt = "no receipt"
  BY <1>1, <1>3, <1>4 DEF HostOK, Executes
<1> HIDE DEF h
<1>6. /\ att'[a] = h /\ \A b \in Attempts : b # a => att'[b] = att[b]
      /\ att' \in [Attempts -> HostRecords]
  BY <1>1, <1>3, <1>4 DEF TypeOK, HostRecords
<1>7. /\ wf' \in Workflows /\ Live' /\ Defined' = Defined /\ Live
      /\ OperationsOK' /\ CaptureOK' /\ (TypeOK' => BudgetOK')
      /\ \A b \in Attempts : GrantOK(wf', att[b])
      /\ \A q \in Defined :
           wf'.ops[q].status = "completed" => dest[q].effects > 0
      /\ \A b \in Attempts :
           att[b].got => wf'.ops[att[b].op].status = "completed"
  BY <1>1, GrantWorkflow, GrantFacts
<1>8. TypeOK'
  BY <1>1, <1>3, <1>6, <1>7 DEF TypeOK, HostRecords
<1>9. HostsOK'
  <2> SUFFICES ASSUME NEW b \in Attempts PROVE HostOK(b)'
    BY <1>1, <1>3 DEF HostsOK
  <2>1. wf' # Absent
    BY <1>7 DEF Live, Absent
  <2>2. CASE b = a
    <3>1. \A p \in Operations : p < o => dest[p].effects > 0
      BY <1>1, GrantFacts DEF IInv, ResultsAreReal
    <3>2. att'[b].op = o /\ att'[b].at = time
      BY <1>4, <1>6, <2>2
    <3>3. att'[b].at <= time'
      BY <1>1, <3>2
    <3>4. \A p \in Operations : p < att'[b].op => dest'[p].effects > 0
      BY <1>1, <3>1, <3>2
    <3>5. att'[b].phase = "granted" /\ att'[b].receipt = "no receipt"
      BY <1>4, <1>5, <1>6, <2>2
    <3>6. ~att'[b].landed
      BY <1>5, <1>6, <2>2
    <3> QED
      BY <2>1, <3>3, <3>4, <3>5, <3>6 DEF HostOK
  <2>3. CASE b # a
    <3>1. HostOK(b)
      BY <1>3 DEF HostsOK
    <3> QED
      BY <1>1, <1>6, <2>1, <2>3, <3>1 DEF HostOK, Executes
  <2> QED
    BY <2>2, <2>3
<1>10. GrantOK(wf', h)
  <2>1. o \in Defined /\ wf'.ops[o].status = "uncertain" /\ wf'.size = wf.size
    <3> DEFINE op == Attempted(wf.ops[o], a)
    <3>1. /\ Live /\ o \in Defined /\ op \in OpRecords
          /\ wf' = Saved(WithOp(wf, o, op)) /\ op.status = "uncertain"
      BY <1>1, GrantFacts
    <3> HIDE DEF op
    <3> QED
      BY <1>3, <3>1, SavedOp
  <2>2. o <= wf'.size
    BY <1>3, <1>7, <2>1, LiveType DEF Workflows, Operations
  <2>3. Action(o) = "execute" /\ Idempotent(o) =>
          /\ wf'.ops[o].first <= time
          /\ time + HostDelay + Timeout < wf'.ops[o].first + Retention[o]
    BY <1>1, GrantWindow
  <2> QED
    BY <1>4, <2>1, <2>2, <2>3 DEF GrantOK
<1>11. GrantsOK'
  <2>1. ASSUME NEW b \in Attempts PROVE GrantOK(wf', att'[b])
    <3>1. att'[b] = h \/ att'[b] = att[b]
      BY <1>6
    <3> QED
      BY <1>7, <1>10, <3>1
  <2> QED
    BY <2>1 DEF GrantsOK
<1>12. ExecutionsOK'
  <2> SUFFICES ASSUME NEW b \in Attempts, NEW c \in Attempts, Executes(b)',
                      Executes(c)', att'[b].op = att'[c].op
               PROVE  Compatible(b, c)'
    BY DEF ExecutionsOK
  <2> DEFINE q == att'[b].op
  <2>1. q \in Operations /\ att'[b].at \in Nat /\ att'[c].at \in Nat
    BY <1>6 DEF HostRecords
  <2>2. CASE Idempotent(q)
    <3>1. /\ wf'.ops[q].first <= att'[b].at
          /\ att'[c].at + HostDelay + Timeout < wf'.ops[q].first + Retention[q]
      BY <1>7, <1>11, <2>2 DEF GrantsOK, GrantOK, Executes
    <3>2. wf'.ops[q].first \in Int /\ Retention[q] \in Nat
      BY <1>7, <2>1, ContinuityAssumption DEF Workflows, OpRecords
    <3> QED
      BY <2>1, <2>2, <3>1, <3>2, ContinuityAssumption DEF Compatible, Idempotent
  <2>3. CASE ~Idempotent(q)
    <3>1. ASSUME NEW d \in Attempts, d # a, Executes(d)', att'[d].op = q,
                 q = o, Action(o) = "execute"
          PROVE  FALSE
      <4>1. wf.ops[o].status = "pending"
        BY <1>1, <2>3, <3>1, GrantWindow
      <4>2. att[d].mode = "execute" /\ att[d].op = o
        BY <1>6, <3>1 DEF Executes
      <4>3. GrantOK(wf, att[d])
        BY <1>7 DEF IInv, GrantsOK
      <4> QED
        BY <4>1, <4>2, <4>3 DEF GrantOK
    <3>2. CASE b = a
      BY <1>4, <1>6, <3>1, <3>2, <2>3 DEF Executes, Compatible, Idempotent
    <3>3. CASE b # a /\ c = a
      BY <1>4, <1>6, <3>1, <3>3 DEF Executes
    <3>4. CASE b # a /\ c # a
      <4>1. Executes(b) /\ Executes(c) /\ att[b].op = att[c].op
        BY <1>6, <3>4 DEF Executes
      <4>2. Compatible(b, c)
        BY <4>1 DEF IInv, ExecutionsOK
      <4> QED
        BY <1>6, <3>4, <4>2 DEF Compatible, Idempotent
    <3> QED
      BY <3>2, <3>3, <3>4
  <2> QED
    BY <2>2, <2>3
<1>13. DestinationsOK'
  <2> SUFFICES ASSUME NEW p \in Operations, dest'[p].effects > 0
               PROVE  \E b \in Attempts : /\ att'[b].landed /\ att'[b].op = p
                                          /\ att'[b].at <= dest'[p].since
    BY DEF DestinationsOK
  <2>1. PICK b \in Attempts : /\ att[b].landed /\ att[b].op = p
                              /\ att[b].at <= dest[p].since
    BY <1>1 DEF IInv, DestinationsOK
  <2>2. b # a
    BY <1>4, <1>5, <2>1
  <2> QED
    BY <1>1, <1>6, <2>1, <2>2
<1>14. EffectAtMostOnce' /\ EffectsInOrder'
  BY <1>1 DEF IInv, EffectAtMostOnce, EffectsInOrder
<1>15. ResultsAreReal'
  <2>1. ASSUME NEW b \in Attempts, att'[b].got
        PROVE  /\ dest[att'[b].op].effects > 0
               /\ wf'.ops[att'[b].op].status = "completed"
    <3>1. att'[b] = att[b]
      BY <1>5, <1>6, <2>1
    <3> QED
      BY <1>7, <2>1, <3>1 DEF IInv, ResultsAreReal
  <2> QED
    BY <1>1, <1>7, <2>1 DEF ResultsAreReal
<1> QED
  BY <1>7, <1>8, <1>9, <1>11, <1>12, <1>13, <1>14, <1>15 DEF IInv

LEMMA AskInv ==
  ASSUME IInv, NEW a \in Attempts, NEW o \in Operations, Ask(a, o)
  PROVE  IInv'
<1> DEFINE h == [att[a] EXCEPT !.phase = "asked", !.op = o]
<1>1. /\ att[a] \in HostRecords /\ att[a].phase = "new" /\ HostOK(a)
      /\ att' = [att EXCEPT ![a] = h] /\ o \in Defined
      /\ UNCHANGED <<wf, capture, time, back, dest>>
  BY DEF IInv, TypeOK, HostRecords, Ask, HostsOK
<1>2. wf # Absent
  BY <1>1 DEF Defined, Live, Absent
<1>3. /\ h \in HostRecords /\ h.phase = "asked" /\ h.mode = att[a].mode
      /\ h.at = att[a].at /\ h.receipt = att[a].receipt
  BY <1>1 DEF HostRecords, Phases
<1>4. h.landed = att[a].landed /\ h.got = att[a].got
  BY <1>1 DEF HostRecords
<1>5. h.receipt = "no receipt" /\ ~h.got
  BY <1>1, <1>3, <1>4 DEF HostOK
<1> HIDE DEF h
<1> QED
  BY <1>1, <1>2, <1>3, <1>4, <1>5, HostStep

(* A run of run_operation that ends and changes nothing else.              *)
LEMMA HostEnds ==
  ASSUME IInv, NEW a \in Attempts, att[a].phase # "new",
         att' = [att EXCEPT ![a].phase = "done"],
         UNCHANGED <<wf, capture, time, back, dest>>
  PROVE  IInv'
<1> DEFINE h == [att[a] EXCEPT !.phase = "done"]
<1>1. /\ att[a] \in HostRecords /\ HostOK(a)
      /\ att' = [att EXCEPT ![a] = h]
  BY DEF IInv, TypeOK, HostRecords, HostsOK
<1>2. wf # Absent
  BY <1>1 DEF HostOK
<1>3. /\ h \in HostRecords /\ h.phase = "done" /\ h.mode = att[a].mode
      /\ h.at = att[a].at /\ h.receipt = att[a].receipt /\ h.op = att[a].op
  BY <1>1 DEF HostRecords, Phases
<1>4. h.landed = att[a].landed /\ h.got = att[a].got
  BY <1>1 DEF HostRecords
<1>5. h.receipt = "confirmed_succeeded" => dest[h.op].effects > 0
  BY <1>1, <1>3 DEF HostOK
<1>6. h.got => /\ dest[h.op].effects > 0
               /\ Live => wf.ops[h.op].status = "completed"
  BY <1>3, <1>4 DEF IInv, ResultsAreReal
<1> HIDE DEF h
<1> QED
  BY <1>1, <1>2, <1>3, <1>4, <1>5, <1>6, HostStep

LEMMA BeginBlockedInv ==
  ASSUME IInv, NEW a \in Attempts, BeginBlocked(a)
  PROVE  IInv'
BY HostEnds DEF BeginBlocked

LEMMA OutcomeRefusedInv ==
  ASSUME IInv, NEW a \in Attempts, OutcomeRefused(a)
  PROVE  IInv'
BY HostEnds DEF OutcomeRefused

LEMMA BeginCompletedInv ==
  ASSUME IInv, NEW a \in Attempts, BeginCompleted(a)
  PROVE  IInv'
<1> DEFINE h == [att[a] EXCEPT !.phase = "done", !.got = TRUE]
<1>1. /\ att[a] \in HostRecords /\ HostOK(a) /\ att[a].phase = "asked"
      /\ att' = [att EXCEPT ![a] = h]
      /\ att[a].op \in Defined /\ wf.ops[att[a].op].status = "completed"
      /\ UNCHANGED <<wf, capture, time, back, dest>>
  BY DEF IInv, TypeOK, HostRecords, HostsOK, BeginCompleted
<1>2. wf # Absent
  BY <1>1 DEF HostOK
<1>3. /\ h \in HostRecords /\ h.phase = "done" /\ h.mode = att[a].mode
      /\ h.at = att[a].at /\ h.receipt = att[a].receipt /\ h.op = att[a].op
  BY <1>1 DEF HostRecords, Phases
<1>4. h.landed = att[a].landed
  BY <1>1 DEF HostRecords
<1>5. h.receipt = "no receipt"
  BY <1>1, <1>3 DEF HostOK
<1>6. dest[h.op].effects > 0 /\ wf.ops[h.op].status = "completed"
  BY <1>1, <1>3 DEF IInv, ResultsAreReal
<1> HIDE DEF h
<1> QED
  BY <1>1, <1>2, <1>3, <1>4, <1>5, <1>6, HostStep

LEMMA CallbackInv ==
  ASSUME IInv, NEW a \in Attempts,
         NEW receipt \in {"confirmed_succeeded", "unknown"}, Callback(a, receipt)
  PROVE  IInv'
<1> DEFINE h == [att[a] EXCEPT !.phase = "reporting", !.receipt = receipt]
<1>1. /\ att[a] \in HostRecords /\ HostOK(a) /\ att[a].phase = "granted"
      /\ att' = [att EXCEPT ![a] = h]
      /\ receipt = "confirmed_succeeded" => Confirms(a)
      /\ UNCHANGED <<wf, capture, time, back, dest>>
  BY DEF IInv, TypeOK, HostRecords, HostsOK, Callback
<1>2. wf # Absent
  BY <1>1 DEF HostOK
<1>3. /\ h \in HostRecords /\ h.phase = "reporting" /\ h.mode = att[a].mode
      /\ h.at = att[a].at /\ h.receipt = receipt /\ h.op = att[a].op
  BY <1>1 DEF HostRecords, Phases, Receipts
<1>4. h.landed = att[a].landed /\ h.got = att[a].got
  BY <1>1 DEF HostRecords
<1>5. h.receipt = "confirmed_succeeded" => dest[h.op].effects > 0
  BY <1>1, <1>3 DEF HostOK, Confirms
<1>6. h.got => /\ dest[h.op].effects > 0
               /\ Live => wf.ops[h.op].status = "completed"
  BY <1>3, <1>4 DEF IInv, ResultsAreReal
<1> HIDE DEF h
<1> QED
  BY <1>1, <1>2, <1>3, <1>4, <1>5, <1>6, HostStep

-----------------------------------------------------------------------------
(* The destination.                                                        *)

(* An execution that may still take effect finds its key remembered when   *)
(* an earlier one has.                                                     *)
LEMMA KeyRemembered ==
  ASSUME IInv, NEW a \in Attempts, TakeEffect(a), dest[att[a].op].effects > 0
  PROVE  Remembers(att[a].op)
<1> DEFINE o == att[a].op
<1>1. /\ o \in Operations /\ time \in Nat /\ dest[o].since \in Nat
      /\ \A b \in Attempts : att[b].at \in Nat
  BY DEF IInv, TypeOK
<1>2. /\ att[a].mode = "execute" /\ ~att[a].landed
      /\ time <= att[a].at + HostDelay + Timeout
  BY DEF TakeEffect
<1>3. PICK b \in Attempts : /\ att[b].landed /\ att[b].op = o
                            /\ att[b].at <= dest[o].since
  BY <1>1 DEF IInv, DestinationsOK
<1>4. a # b /\ Executes(a) /\ Executes(b)
  BY <1>2, <1>3 DEF IInv, HostsOK, HostOK, Executes
<1>5. Compatible(b, a)
  BY <1>3, <1>4 DEF IInv, ExecutionsOK
<1>6. /\ Idempotent(o)
      /\ att[a].at + HostDelay + Timeout < att[b].at + Retention[o]
  BY <1>3, <1>4, <1>5 DEF Compatible
<1>7. att[b].at <= dest[o].since
  BY <1>3
<1>8. time < dest[o].since + Retention[o]
  <2>1. Retention[o] \in Nat
    BY <1>1, ContinuityAssumption
  <2>2. time <= att[a].at + HostDelay + Timeout
    BY <1>2
  <2> QED
    BY <1>1, <1>6, <1>7, <2>1, <2>2, ContinuityAssumption
<1> QED
  BY <1>6, <1>8 DEF Remembers, Idempotent

LEMMA TakeEffectInv ==
  ASSUME IInv, NEW a \in Attempts, TakeEffect(a)
  PROVE  IInv'
<1> DEFINE o == att[a].op
           h == [att[a] EXCEPT !.landed = TRUE]
           d == [effects |-> dest[o].effects + 1, since |-> time]
<1>1. /\ att[a] \in HostRecords /\ o \in Operations /\ time \in Nat
      /\ dest \in [Operations -> [effects: Nat, since: Nat]] /\ HostOK(a)
      /\ att' = [att EXCEPT ![a] = h] /\ att[a].mode = "execute"
      /\ dest' = IF Remembers(o) THEN dest ELSE [dest EXCEPT ![o] = d]
      /\ UNCHANGED <<wf, capture, time, back>>
  BY DEF IInv, TypeOK, HostRecords, HostsOK, TakeEffect
<1>2. ~att[a].landed
  BY DEF TakeEffect
<1>3. /\ h \in HostRecords /\ h.phase = att[a].phase /\ h.mode = "execute"
      /\ h.at = att[a].at /\ h.receipt = att[a].receipt /\ h.op = o
  BY <1>1 DEF HostRecords
<1>4. h.landed = TRUE /\ h.got = att[a].got
  BY <1>1 DEF HostRecords
<1> HIDE DEF h
<1>5. /\ att'[a] = h /\ \A b \in Attempts : b # a => att'[b] = att[b]
      /\ att' \in [Attempts -> HostRecords]
  BY <1>1, <1>3 DEF IInv, TypeOK, HostRecords
<1>6. \A b \in Attempts : /\ att'[b].mode = att[b].mode /\ att'[b].op = att[b].op
                          /\ att'[b].at = att[b].at
  BY <1>1, <1>3, <1>5
<1>7. /\ dest' \in [Operations -> [effects: Nat, since: Nat]]
      /\ dest'[o].effects = 1
      /\ \A p \in Operations : p # o => dest'[p] = dest[p]
      /\ dest[o].effects > 0 => dest'[o] = dest[o]
      /\ dest[o].effects = 0 => dest'[o].since = time
  <2>1. dest[o].effects \in Nat /\ dest[o].effects <= 1
    BY <1>1 DEF IInv, EffectAtMostOnce
  <2>2. CASE dest[o].effects > 0
    <3>1. dest' = dest
      BY <1>1, <2>2, KeyRemembered
    <3> QED
      BY <1>1, <2>1, <2>2, <3>1
  <2>3. CASE dest[o].effects = 0
    <3>1. ~Remembers(o)
      BY <2>3 DEF Remembers
    <3>2. dest' = [dest EXCEPT ![o] = d] /\ d = [effects |-> 1, since |-> time]
      BY <1>1, <2>3, <3>1
    <3> HIDE DEF d
    <3> QED
      BY <1>1, <2>3, <3>2
  <2> QED
    BY <2>1, <2>2, <2>3
<1>8. \A p \in Operations : dest[p].effects > 0 => dest'[p].effects > 0
  BY <1>7
<1>9. TypeOK'
  BY <1>1, <1>5, <1>7 DEF IInv, TypeOK, HostRecords
<1>10. HostsOK'
  <2> SUFFICES ASSUME NEW b \in Attempts PROVE HostOK(b)'
    BY <1>1 DEF IInv, HostsOK
  <2>1. HostOK(b) /\ att[b].op \in Operations /\ att[b].at \in Nat
    BY DEF IInv, HostsOK, TypeOK
  <2>2. \A p \in Operations : p < att[b].op /\ att[b].mode # "no mode" =>
          dest'[p].effects > 0
    BY <1>8, <2>1 DEF HostOK
  <2>3. att[b].receipt = "confirmed_succeeded" => dest'[att[b].op].effects > 0
    BY <1>8, <2>1 DEF HostOK
  <2>4. /\ att'[b].phase = att[b].phase /\ att'[b].receipt = att[b].receipt
        /\ att'[b].mode = att[b].mode /\ att'[b].op = att[b].op
        /\ att'[b].at <= time'
    BY <1>1, <1>3, <1>5, <1>6, <2>1 DEF HostOK
  <2>5. att'[b].got = att[b].got
    BY <1>4, <1>5
  <2>6. att'[b].landed => att'[b].mode = "execute" /\ dest'[att'[b].op].effects > 0
    <3>1. CASE b = a
      BY <1>3, <1>5, <1>7, <3>1
    <3>2. CASE b # a
      BY <1>5, <1>8, <2>1, <3>2 DEF HostOK, Executes
    <3> QED
      BY <3>1, <3>2
  <2> QED
    BY <1>1, <2>1, <2>2, <2>3, <2>4, <2>5, <2>6 DEF HostOK, Executes
<1>11. ExecutionsOK'
  <2> SUFFICES ASSUME NEW b \in Attempts, NEW c \in Attempts, Executes(b)',
                      Executes(c)', att'[b].op = att'[c].op
               PROVE  Compatible(b, c)'
    BY DEF ExecutionsOK
  <2>1. Compatible(b, c)
    BY <1>6 DEF IInv, ExecutionsOK, Executes
  <2> QED
    BY <1>6, <2>1 DEF Compatible, Idempotent
<1>12. DestinationsOK'
  <2> SUFFICES ASSUME NEW p \in Operations, dest'[p].effects > 0
               PROVE  \E b \in Attempts : /\ att'[b].landed /\ att'[b].op = p
                                          /\ att'[b].at <= dest'[p].since
    BY DEF DestinationsOK
  <2>1. CASE p = o /\ dest[o].effects = 0
    <3>1. att[a].at <= time
      BY <1>1 DEF HostOK
    <3> QED
      BY <1>3, <1>4, <1>5, <1>7, <2>1, <3>1
  <2>2. CASE dest[p].effects > 0
    <3>1. PICK b \in Attempts : /\ att[b].landed /\ att[b].op = p
                                /\ att[b].at <= dest[p].since
      BY <2>2 DEF IInv, DestinationsOK
    <3>2. att'[b].landed
      BY <1>4, <1>5, <3>1
    <3>3. dest'[p] = dest[p]
      BY <1>7, <2>2
    <3> QED
      BY <1>6, <3>1, <3>2, <3>3
  <2>3. dest[p].effects > 0 \/ (p = o /\ dest[o].effects = 0)
    BY <1>1, <1>7
  <2> QED
    BY <2>1, <2>2, <2>3
<1>13. EffectAtMostOnce'
  BY <1>7 DEF IInv, EffectAtMostOnce
<1>14. EffectsInOrder'
  <2> SUFFICES ASSUME NEW q \in Operations, NEW p \in Operations, p < q,
                      dest'[q].effects > 0
               PROVE  dest'[p].effects > 0
    BY DEF EffectsInOrder
  <2>1. CASE q = o
    BY <1>1, <1>8, <2>1 DEF HostOK
  <2>2. CASE q # o
    <3>1. dest[q].effects > 0
      BY <1>7, <2>2
    <3> QED
      BY <1>8, <3>1 DEF IInv, EffectsInOrder
  <2> QED
    BY <2>1, <2>2
<1>15. OperationsOK' /\ BudgetOK' /\ CaptureOK'
  BY <1>1 DEF IInv, OperationsOK, OperationOK, BudgetOK, CaptureOK, Live, Defined,
         Unsettled, LeaseOut, MayStop
<1>16. GrantsOK'
  <2>1. GrantsOK /\ Live' = Live
    BY <1>1 DEF IInv, Live
  <2> QED
    BY <1>1, <1>6, <2>1 DEF GrantsOK, GrantOK
<1>17. ResultsAreReal'
  <2>1. ResultsAreReal /\ Live' = Live /\ Defined' = Defined
    BY <1>1 DEF IInv, Live, Defined
  <2>2. Defined \subseteq Operations
    BY LiveType DEF IInv, Defined
  <2>3. \A b \in Attempts : att'[b].got = att[b].got
    BY <1>4, <1>5
  <2>4. \A b \in Attempts : att'[b].op \in Operations
    BY <1>5 DEF HostRecords
  <2> QED
    BY <1>1, <1>6, <1>8, <2>1, <2>2, <2>3, <2>4 DEF ResultsAreReal
<1> QED
  BY <1>9, <1>10, <1>11, <1>12, <1>13, <1>14, <1>15, <1>16, <1>17 DEF IInv

-----------------------------------------------------------------------------
(* outcome.                                                                *)

(* What a receipt does to the workflow, accepted or late.                  *)
LEMMA RecordedWorkflow ==
  ASSUME IInv, NEW a \in Attempts, Recorded(a), UNCHANGED capture
  PROVE  /\ wf' \in Workflows /\ Live' /\ Defined' = Defined
         /\ OperationsOK' /\ CaptureOK' /\ BudgetOK'
         /\ \A b \in Attempts : GrantOK(wf', att[b])
         /\ \A q \in Defined :
              wf'.ops[q].status = "completed" => dest[q].effects > 0
         /\ \A b \in Attempts :
              att[b].got => wf'.ops[att[b].op].status = "completed"
         /\ att[a].receipt = "confirmed_succeeded" =>
              wf'.ops[att[a].op].status = "completed"
<1> DEFINE o == att[a].op
           op == Finished(wf.ops[o], att[a].receipt)
<1>1. /\ Live /\ o \in Defined /\ ClockAgrees /\ capture = "full"
      /\ wf.ops[o].status = "uncertain" /\ wf.ops[o].lease = a
      /\ wf' = Saved(WithOp(wf, o, op))
  BY DEF Recorded, MayRecord, MaySave, ValidLease, Defined
<1>2. /\ TypeOK /\ OperationsOK /\ GrantsOK /\ ResultsAreReal /\ BudgetOK
      /\ HostOK(a) /\ OperationOK(o)
  BY <1>1 DEF IInv, HostsOK, OperationsOK
<1>3. /\ wf \in Workflows /\ Defined \subseteq Operations /\ Clock \in Int
  BY <1>1, <1>2, LiveType
<1>4. wf.ops[o] \in OpRecords /\ wf.high \in Int /\ wf.high <= Clock
  BY <1>1, <1>3 DEF Workflows, ClockAgrees
<1>5. /\ op \in OpRecords /\ op.lease = NoAttempt
      /\ op.first = wf.ops[o].first
      /\ op.status = IF att[a].receipt = "confirmed_succeeded"
                     THEN "completed" ELSE "uncertain"
  <2> DEFINE status == IF att[a].receipt = "confirmed_succeeded"
                       THEN "completed" ELSE "uncertain"
  <2>1. status \in Statuses
    BY DEF Statuses
  <2>2. op = [wf.ops[o] EXCEPT !.status = status, !.lease = NoAttempt, !.until = 0]
    BY DEF Finished
  <2> HIDE DEF status
  <2> HIDE DEF op
  <2>3. /\ op \in OpRecords /\ op.status = status /\ op.lease = NoAttempt
        /\ op.first = wf.ops[o].first
    BY <1>4, <2>1, <2>2, EndedOp
  <2> QED
    BY <2>3 DEF status
<1> HIDE DEF op
<1>6. Coherent(o, op)
  BY <1>1, <1>2, <1>3, <1>4, <1>5 DEF Coherent, OperationOK, OpRecords
<1>7. op.status = "completed" => dest[o].effects > 0
  BY <1>2, <1>5 DEF HostOK
<1>8. wf' \in Workflows /\ Live' /\ Defined' = Defined /\ wf'.ops[o] = op
  BY <1>1, <1>2, <1>5, SavedOp
<1>9. OperationsOK'
  BY <1>1, <1>2, <1>5, <1>6, SavedOperations
<1>10. BudgetOK'
  <2>1. wf.ops[o].lease # NoAttempt
    BY <1>1, ContinuityAssumption
  <2> QED
    BY <1>1, <1>2, <1>5, <2>1, SavedBudget
<1>11. CaptureOK'
  BY <1>1 DEF CaptureOK
<1>12. /\ \A b \in Attempts : GrantOK(wf', att[b])
       /\ \A q \in Defined :
            wf'.ops[q].status = "completed" => dest[q].effects > 0
       /\ \A b \in Attempts :
            att[b].got => wf'.ops[att[b].op].status = "completed"
  BY <1>1, <1>2, <1>5, <1>7, SavedLinks
<1> QED
  BY <1>5, <1>8, <1>9, <1>10, <1>11, <1>12

LEMMA LateWorkflow ==
  ASSUME IInv, NEW a \in Attempts, RecordedLate(a), UNCHANGED capture
  PROVE  /\ wf' \in Workflows /\ Live' /\ Defined' = Defined
         /\ OperationsOK' /\ CaptureOK' /\ BudgetOK'
         /\ \A b \in Attempts : GrantOK(wf', att[b])
         /\ \A q \in Defined :
              wf'.ops[q].status = "completed" => dest[q].effects > 0
         /\ \A b \in Attempts :
              att[b].got => wf'.ops[att[b].op].status = "completed"
<1>1. /\ Live /\ wf' \in Workflows /\ Live' /\ Defined' = Defined
      /\ wf'.size = wf.size /\ wf'.enabled = wf.enabled
      /\ wf'.revision = wf.revision /\ wf'.high = wf.high
      /\ \A p \in Operations :
           /\ wf'.ops[p].status = wf.ops[p].status
           /\ wf'.ops[p].first = wf.ops[p].first
           /\ wf'.ops[p].lease = wf.ops[p].lease
  BY LateOp DEF IInv
<1>2. Defined \subseteq Operations /\ \A b \in Attempts : att[b].op \in Operations
  BY <1>1, LiveType DEF IInv, TypeOK
<1>3. OperationsOK'
  BY <1>1, <1>2 DEF IInv, OperationsOK, OperationOK
<1>4. CaptureOK'
  BY <1>1, <1>2 DEF IInv, CaptureOK
<1>5. BudgetOK'
  <2>1. Unsettled' = Unsettled
    BY <1>1, <1>2 DEF Unsettled
  <2>2. LeaseOut' = LeaseOut
    BY <1>1, <1>2 DEF LeaseOut
  <2>3. MayStop' = MayStop
    BY <1>1 DEF MayStop
  <2> QED
    BY <1>1, <2>1, <2>2, <2>3 DEF IInv, BudgetOK
<1>6. \A b \in Attempts : GrantOK(wf', att[b])
  BY <1>1, <1>2 DEF IInv, GrantsOK, GrantOK
<1>7. \A q \in Defined :
        wf'.ops[q].status = "completed" => dest[q].effects > 0
  BY <1>1, <1>2 DEF IInv, ResultsAreReal
<1>8. \A b \in Attempts :
        att[b].got => wf'.ops[att[b].op].status = "completed"
  BY <1>1, <1>2 DEF IInv, ResultsAreReal
<1> QED
  BY <1>1, <1>3, <1>4, <1>5, <1>6, <1>7, <1>8

(* A request is served and its run of run_operation is over: a receipt     *)
(* was answered, or nobody heard the answer.                               *)
LEMMA EndedStep ==
  ASSUME IInv, NEW a \in Attempts, att[a].phase # "new",
         UNCHANGED <<capture, time, back, dest>>,
         wf' \in Workflows, Live', Defined' = Defined,
         OperationsOK', CaptureOK', TypeOK' => BudgetOK',
         \A b \in Attempts : GrantOK(wf', att[b]),
         \A q \in Defined :
           wf'.ops[q].status = "completed" => dest[q].effects > 0,
         \A b \in Attempts :
           att[b].got => wf'.ops[att[b].op].status = "completed",
         att' \in [Attempts -> HostRecords],
         att'[a].phase = "done", att'[a].mode = att[a].mode,
         att'[a].op = att[a].op, att'[a].at = att[a].at,
         att'[a].receipt = att[a].receipt, att'[a].landed = att[a].landed,
         \A b \in Attempts : b # a => att'[b] = att[b],
         att'[a].got => /\ dest[att[a].op].effects > 0
                        /\ wf'.ops[att[a].op].status = "completed"
  PROVE  IInv'
<1>1. UNCHANGED <<capture, time, back, dest>>
  OBVIOUS
<1>2. /\ att \in [Attempts -> HostRecords] /\ HostsOK /\ TypeOK /\ ResultsAreReal
  BY DEF IInv, TypeOK, HostRecords
<1>3. /\ wf' \in Workflows /\ Live' /\ Defined' = Defined
      /\ OperationsOK' /\ CaptureOK' /\ (TypeOK' => BudgetOK')
      /\ \A b \in Attempts : GrantOK(wf', att[b])
      /\ \A q \in Defined :
           wf'.ops[q].status = "completed" => dest[q].effects > 0
      /\ \A b \in Attempts :
           att[b].got => wf'.ops[att[b].op].status = "completed"
  OBVIOUS
<1>4. /\ att' \in [Attempts -> HostRecords]
      /\ att'[a].phase = "done" /\ att'[a].mode = att[a].mode
      /\ att'[a].op = att[a].op /\ att'[a].at = att[a].at
      /\ att'[a].receipt = att[a].receipt
      /\ \A b \in Attempts : b # a => att'[b] = att[b]
  OBVIOUS
<1>5. att'[a].landed = att[a].landed
  OBVIOUS
<1>7. att'[a].got => /\ dest[att[a].op].effects > 0
                     /\ wf'.ops[att[a].op].status = "completed"
  OBVIOUS
<1>8. TypeOK'
  BY <1>1, <1>2, <1>3, <1>4 DEF TypeOK, HostRecords
<1>9. HostsOK'
  <2> SUFFICES ASSUME NEW b \in Attempts PROVE HostOK(b)'
    BY <1>1, <1>2 DEF HostsOK
  <2>1. wf' # Absent /\ HostOK(b)
    BY <1>2, <1>3 DEF Live, Absent, HostsOK
  <2>2. CASE b = a
    BY <1>1, <1>4, <1>5, <2>1, <2>2 DEF HostOK, Executes
  <2>3. CASE b # a
    BY <1>1, <1>4, <2>1, <2>3 DEF HostOK, Executes
  <2> QED
    BY <2>2, <2>3
<1>10. ExecutionsOK' /\ DestinationsOK' /\ EffectAtMostOnce' /\ EffectsInOrder'
  BY <1>1, <1>4, <1>5, NoDispatch
<1>11. GrantsOK'
  BY <1>3, <1>4 DEF GrantsOK, GrantOK
<1>12. ResultsAreReal'
  <2>1. ASSUME NEW b \in Attempts, att'[b].got
        PROVE  /\ dest[att'[b].op].effects > 0
               /\ wf'.ops[att'[b].op].status = "completed"
    <3>1. CASE b = a
      BY <1>4, <1>7, <2>1, <3>1
    <3>2. CASE b # a
      BY <1>2, <1>3, <1>4, <2>1, <3>2 DEF ResultsAreReal
    <3> QED
      BY <3>1, <3>2
  <2> QED
    BY <1>1, <1>3, <2>1 DEF ResultsAreReal
<1> QED
  BY <1>3, <1>8, <1>9, <1>10, <1>11, <1>12 DEF IInv

(* The host alone of a run moves to its end.                               *)
LEMMA PhaseDone ==
  ASSUME IInv, NEW a \in Attempts, att' = [att EXCEPT ![a].phase = "done"]
  PROVE  /\ att' \in [Attempts -> HostRecords]
         /\ att'[a].phase = "done" /\ att'[a].mode = att[a].mode
         /\ att'[a].op = att[a].op /\ att'[a].at = att[a].at
         /\ att'[a].receipt = att[a].receipt
         /\ att'[a].landed = att[a].landed /\ att'[a].got = att[a].got
         /\ \A b \in Attempts : b # a => att'[b] = att[b]
<1>1. att \in [Attempts -> HostRecords]
  BY DEF IInv, TypeOK, HostRecords
<1>2. [att[a] EXCEPT !.phase = "done"] \in HostRecords
  BY <1>1 DEF HostRecords, Phases
<1> QED
  BY <1>1, <1>2 DEF HostRecords

LEMMA BeginUnheardInv ==
  ASSUME IInv, NEW a \in Attempts, BeginUnheard(a)
  PROVE  IInv'
<1>1. /\ att[a].op \in Operations /\ Grant(a, att[a].op)
      /\ att[a].phase = "asked" /\ att' = [att EXCEPT ![a].phase = "done"]
      /\ UNCHANGED <<capture, time, back, dest>>
  BY DEF IInv, TypeOK, BeginUnheard
<1>2. ~att[a].got
  BY <1>1 DEF IInv, HostsOK, HostOK
<1>3. ~att'[a].got
  BY <1>1, <1>2, PhaseDone
<1> QED
  BY <1>1, <1>3, PhaseDone, GrantWorkflow, EndedStep

LEMMA OutcomeUnheardInv ==
  ASSUME IInv, NEW a \in Attempts, OutcomeUnheard(a)
  PROVE  IInv'
<1>1. /\ Recorded(a) \/ RecordedLate(a)
      /\ att[a].phase \in {"reporting", "done"}
      /\ att' = [att EXCEPT ![a].phase = "done"]
      /\ UNCHANGED <<capture, time, back, dest>>
  BY DEF OutcomeUnheard
<1>2. /\ wf' \in Workflows /\ Live' /\ Defined' = Defined
      /\ OperationsOK' /\ CaptureOK' /\ BudgetOK'
      /\ \A b \in Attempts : GrantOK(wf', att[b])
      /\ \A q \in Defined :
           wf'.ops[q].status = "completed" => dest[q].effects > 0
      /\ \A b \in Attempts :
           att[b].got => wf'.ops[att[b].op].status = "completed"
  BY <1>1, RecordedWorkflow, LateWorkflow
<1>3. att'[a].got => /\ dest[att[a].op].effects > 0
                     /\ wf'.ops[att[a].op].status = "completed"
  <2>1. att'[a].got = att[a].got
    BY <1>1, PhaseDone
  <2> QED
    BY <1>2, <2>1 DEF IInv, ResultsAreReal
<1> QED
  BY <1>1, <1>2, <1>3, PhaseDone, EndedStep

LEMMA OutcomeInv ==
  ASSUME IInv, NEW a \in Attempts, Outcome(a)
  PROVE  IInv'
<1> DEFINE o == att[a].op
           got == att'[a].got
<1>1. /\ UNCHANGED <<capture, time, back, dest>> /\ att[a].phase = "reporting"
      /\ Recorded(a) \/ RecordedLate(a)
  BY DEF Outcome
<1>2. /\ att \in [Attempts -> HostRecords] /\ HostsOK /\ TypeOK /\ ResultsAreReal
  BY DEF IInv, TypeOK, HostRecords
<1>3. /\ wf' \in Workflows /\ Live' /\ Defined' = Defined
      /\ OperationsOK' /\ CaptureOK' /\ BudgetOK'
      /\ \A b \in Attempts : GrantOK(wf', att[b])
      /\ \A q \in Defined :
           wf'.ops[q].status = "completed" => dest[q].effects > 0
      /\ \A b \in Attempts :
           att[b].got => wf'.ops[att[b].op].status = "completed"
  BY <1>1, RecordedWorkflow, LateWorkflow
<1>4. /\ att' \in [Attempts -> HostRecords]
      /\ att'[a].phase = "done" /\ att'[a].mode = att[a].mode
      /\ att'[a].op = att[a].op /\ att'[a].at = att[a].at
      /\ att'[a].receipt = att[a].receipt
      /\ \A b \in Attempts : b # a => att'[b] = att[b]
  BY <1>2 DEF Outcome, HostRecords, Phases
<1>5. att'[a].landed = att[a].landed
  BY <1>2 DEF Outcome, HostRecords
<1>6. att'[a].got => \/ Recorded(a) /\ att[a].receipt = "confirmed_succeeded"
                     \/ att[a].got
  BY <1>2 DEF Outcome, HostRecords
<1>7. att'[a].got => /\ dest[o].effects > 0
                     /\ wf'.ops[o].status = "completed"
  <2>1. CASE Recorded(a) /\ att[a].receipt = "confirmed_succeeded"
    <3>1. dest[o].effects > 0
      BY <1>2, <2>1 DEF HostsOK, HostOK
    <3> QED
      BY <1>1, <2>1, <3>1, RecordedWorkflow
  <2>2. CASE att[a].got
    BY <1>2, <1>3, <2>2 DEF ResultsAreReal
  <2> QED
    BY <1>6, <2>1, <2>2
<1> QED
  BY <1>1, <1>3, <1>4, <1>5, <1>7, EndedStep

LEMMA RenewInv ==
  ASSUME IInv, NEW a \in Attempts, Renew(a)
  PROVE  IInv'
<1> DEFINE o == att[a].op
           op == [wf.ops[o] EXCEPT !.until = Clock + Lease, !.renewals = @ + 1]
<1>1. /\ Live /\ o \in Defined /\ ClockAgrees /\ capture = "full"
      /\ wf.ops[o].status = "uncertain" /\ wf.ops[o].lease = a
      /\ wf.revision < MaxRevisions - 1
      /\ wf' = Saved(WithOp(wf, o, op))
      /\ UNCHANGED <<capture, time, back, att, dest>>
  BY DEF Renew, MaySave, ValidLease, Defined
<1>2. /\ TypeOK /\ OperationsOK /\ GrantsOK /\ ResultsAreReal /\ OperationOK(o)
  BY <1>1 DEF IInv, OperationsOK
<1>3. wf \in Workflows /\ Defined \subseteq Operations /\ Clock \in Int
  BY <1>1, <1>2, LiveType
<1>4. wf.ops[o] \in OpRecords /\ wf.high \in Int /\ wf.high <= Clock
  BY <1>1, <1>3 DEF Workflows, ClockAgrees
<1>5. Clock + Lease \in Int
  BY <1>3, ContinuityAssumption
<1>6. /\ op \in OpRecords /\ op.lease = a /\ op.status = "uncertain"
      /\ op.first = wf.ops[o].first
  <2> DEFINE w == [wf.ops[o] EXCEPT !.until = Clock + Lease]
  <2>1. /\ w \in OpRecords /\ w.lease = a /\ w.status = "uncertain"
        /\ w.first = wf.ops[o].first /\ w.renewals = wf.ops[o].renewals
    BY <1>1, <1>4, <1>5 DEF OpRecords
  <2>2. op = [w EXCEPT !.renewals = w.renewals + 1]
    BY <2>1
  <2> HIDE DEF w, op
  <2> QED
    BY <2>1, <2>2 DEF OpRecords
<1> HIDE DEF op
<1>7. Coherent(o, op)
  BY <1>1, <1>2, <1>3, <1>4, <1>6 DEF Coherent, OperationOK, OpRecords
<1>8. /\ wf' \in Workflows /\ Live' /\ Defined' = Defined
      /\ wf'.revision = wf.revision + 1
  BY <1>1, <1>2, <1>6, SavedOp
<1>9. OperationsOK'
  BY <1>1, <1>2, <1>6, <1>7, SavedOperations
<1>10. BudgetOK'
  <2>1. TypeOK'
    BY <1>1, <1>2, <1>8 DEF TypeOK
  <2>2. wf'.revision < MaxRevisions
    BY <1>1, <1>3, <1>8, ContinuityAssumption DEF Workflows
  <2> QED
    BY <2>1, <2>2, LowRevisionNext
<1>11. CaptureOK'
  BY <1>1 DEF CaptureOK
<1>12. /\ \A b \in Attempts : GrantOK(wf', att[b])
       /\ \A q \in Defined :
            wf'.ops[q].status = "completed" => dest[q].effects > 0
       /\ \A b \in Attempts :
            att[b].got => wf'.ops[att[b].op].status = "completed"
  BY <1>1, <1>2, <1>6, SavedLinks
<1> QED
  BY <1>1, <1>8, <1>9, <1>10, <1>11, <1>12, WorkflowStep

-----------------------------------------------------------------------------
(* The operator and the clocks.                                            *)

LEMMA AbandonInv ==
  ASSUME IInv, NEW o \in Operations, Abandon(o)
  PROVE  IInv'
<1> DEFINE op == [wf.ops[o] EXCEPT !.status = "abandoned",
                                   !.lease = NoAttempt, !.until = 0]
<1>1. /\ Live /\ o \in Defined /\ ClockAgrees /\ capture = "full"
      /\ wf.ops[o].status \in {"pending", "uncertain"}
      /\ wf' = Saved(WithOp(wf, o, op))
      /\ UNCHANGED <<capture, time, back, att, dest>>
  BY DEF Abandon, MaySave, Defined
<1>2. /\ TypeOK /\ OperationsOK /\ GrantsOK /\ ResultsAreReal /\ BudgetOK
      /\ OperationOK(o)
  BY <1>1 DEF IInv, OperationsOK
<1>3. wf \in Workflows /\ Defined \subseteq Operations /\ Clock \in Int
  BY <1>1, <1>2, LiveType
<1>4. wf.ops[o] \in OpRecords /\ wf.high \in Int /\ wf.high <= Clock
  BY <1>1, <1>3 DEF Workflows, ClockAgrees
<1>5. "abandoned" \in Statuses
  BY DEF Statuses
<1>6. /\ op \in OpRecords /\ op.lease = NoAttempt /\ op.status = "abandoned"
      /\ op.first = wf.ops[o].first
  BY <1>4, <1>5, EndedOp
<1> HIDE DEF op
<1>7. Coherent(o, op)
  BY <1>2, <1>3, <1>4, <1>6 DEF Coherent, OperationOK, OpRecords
<1>8. wf' \in Workflows /\ Live' /\ Defined' = Defined
  BY <1>1, <1>2, <1>6, SavedOp
<1>9. OperationsOK'
  BY <1>1, <1>2, <1>6, <1>7, SavedOperations
<1>10. BudgetOK'
  BY <1>1, <1>2, <1>6, SavedBudget
<1>11. CaptureOK'
  BY <1>1 DEF CaptureOK
<1>12. /\ \A b \in Attempts : GrantOK(wf', att[b])
       /\ \A q \in Defined :
            wf'.ops[q].status = "completed" => dest[q].effects > 0
       /\ \A b \in Attempts :
            att[b].got => wf'.ops[att[b].op].status = "completed"
  BY <1>1, <1>2, <1>6, SavedLinks
<1> QED
  BY <1>1, <1>8, <1>9, <1>10, <1>11, <1>12, WorkflowStep

LEMMA ConfigureInv ==
  ASSUME IInv, NEW enabled \in BOOLEAN, Configure(enabled)
  PROVE  IInv'
<1>1. /\ Live /\ capture = "full" /\ ClockAgrees /\ TypeOK
      /\ wf' = Saved([wf EXCEPT !.enabled = enabled])
      /\ UNCHANGED <<capture, time, back, att, dest>>
  BY DEF IInv, Configure, MaySave
<1>2. wf.enabled # enabled
  BY DEF Configure
<1>3. /\ wf \in Workflows /\ Defined \subseteq Operations /\ Clock \in Int
      /\ wf.high \in Int /\ wf.high <= Clock /\ wf.revision \in Nat
  BY <1>1, LiveType DEF Workflows, ClockAgrees
<1>4. /\ wf' \in Workflows /\ wf'.state = "live" /\ wf'.size = wf.size
      /\ wf'.ops = wf.ops /\ wf'.revision = wf.revision + 1 /\ wf'.high = Clock
  <2> DEFINE w == [wf EXCEPT !.enabled = enabled]
  <2>1. /\ w \in Workflows /\ w.size = wf.size /\ w.ops = wf.ops
        /\ w.revision = wf.revision /\ wf.revision + 1 \in Nat
    BY <1>3 DEF Workflows
  <2>2. wf' = [w EXCEPT !.revision = w.revision + 1, !.high = Clock]
    BY <1>1 DEF Saved
  <2> HIDE DEF w
  <2> QED
    BY <1>3, <2>1, <2>2 DEF Workflows
<1>5. wf'.enabled = enabled
  BY <1>1, <1>3 DEF Saved, Workflows
<1>6. Live' /\ Defined' = Defined
  BY <1>1, <1>4 DEF Live, Defined
<1>7. TypeOK'
  BY <1>1, <1>4 DEF TypeOK
<1>8. OperationsOK'
  <2> SUFFICES ASSUME NEW q \in Defined PROVE OperationOK(q)'
    BY <1>6 DEF OperationsOK
  <2>1. OperationOK(q) /\ wf.ops[q].first \in Int
    BY <1>1, <1>3 DEF IInv, OperationsOK, Workflows, OpRecords
  <2> QED
    BY <1>3, <1>4, <2>1 DEF OperationOK
<1>9. CaptureOK'
  BY <1>1 DEF CaptureOK
<1>10. BudgetOK'
  <2>1. CASE enabled
    <3>1. wf.revision < MaxRevisions - 1
      BY <2>1 DEF Configure, MaySave, RevisionLimit, Finishing, SafetyControl
    <3>2. wf'.revision < MaxRevisions
      BY <1>3, <1>4, <3>1, ContinuityAssumption
    <3> QED
      BY <1>7, <3>2, LowRevisionNext
  <2>2. CASE ~enabled
    <3>1. MayStop = 1 /\ MayStop' = 0
      BY <1>2, <1>3, <1>5, <2>2 DEF MayStop, Workflows
    <3>2. Unsettled' = Unsettled /\ LeaseOut' = LeaseOut
      BY <1>4, <1>6 DEF Unsettled, LeaseOut
    <3>3. /\ Cardinality(Unsettled) \in Nat /\ LeaseOut \in 0..1 /\ wf.size \in Nat
      BY <1>1, <1>3, UnsettledFinite, ContinuityAssumption, SMTT(30)
      DEF Workflows, Operations
    <3>4. wf.revision + Cardinality(Unsettled) + LeaseOut + 1
            <= MaxRevisions + wf.size + 1
      BY <1>1, <3>1 DEF IInv, BudgetOK
    <3> QED
      BY <1>3, <1>4, <3>1, <3>2, <3>3, <3>4, ContinuityAssumption DEF BudgetOK
  <2> QED
    BY <2>1, <2>2
<1>11. /\ \A b \in Attempts : GrantOK(wf', att[b])
       /\ \A q \in Defined :
            wf'.ops[q].status = "completed" => dest[q].effects > 0
       /\ \A b \in Attempts :
            att[b].got => wf'.ops[att[b].op].status = "completed"
  BY <1>1, <1>4 DEF IInv, GrantsOK, GrantOK, ResultsAreReal
<1> QED
  BY <1>1, <1>4, <1>6, <1>8, <1>9, <1>10, <1>11, WorkflowStep

LEMMA CreateInv ==
  ASSUME IInv, NEW role \in Roles, NEW size \in Operations,
         NEW activate \in BOOLEAN, Create(role, size, activate)
  PROVE  IInv'
<1>1. /\ wf = Absent /\ capture = "full"
      /\ UNCHANGED <<capture, time, back, att, dest>>
      /\ wf' = [state |-> "live", creator |-> role, size |-> size,
                enabled |-> activate, revision |-> 1, high |-> Clock,
                ops |-> [o \in Operations |-> NewOp]]
  BY DEF Create
<1>2. TypeOK /\ HostsOK
  BY DEF IInv
<1>3. Clock \in Int /\ Clock > 0
  BY <1>2, ContinuityAssumption DEF TypeOK, HostsOK, Clock
<1>4. /\ NewOp \in OpRecords /\ NewOp.status = "pending" /\ NewOp.first = Never
      /\ NewOp.lease = NoAttempt
  BY DEF NewOp, OpRecords, Statuses, Never
<1>5. /\ wf' \in Workflows /\ wf'.state = "live" /\ wf'.size = size
      /\ wf'.revision = 1 /\ wf'.high = Clock
      /\ \A o \in Operations : wf'.ops[o] = NewOp
  BY <1>1, <1>3, <1>4 DEF Workflows
<1>6. Live' /\ Defined' \subseteq Operations
  BY <1>5, ContinuityAssumption DEF Live, Defined, Operations
<1>7. TypeOK'
  BY <1>1, <1>2, <1>5 DEF TypeOK
<1>8. OperationsOK'
  BY <1>3, <1>4, <1>5, <1>6 DEF OperationsOK, OperationOK, Never
<1>9. CaptureOK'
  BY <1>1 DEF CaptureOK
<1>10. BudgetOK'
  <2>1. wf'.revision < MaxRevisions
    BY <1>5, ContinuityAssumption
  <2> QED
    BY <1>7, <2>1, LowRevisionNext
<1>11. \A a \in Attempts : att[a].mode = "no mode" /\ ~att[a].got
  BY <1>1, <1>2 DEF HostsOK, HostOK
<1>12. /\ \A a \in Attempts : GrantOK(wf', att[a])
       /\ \A q \in Defined' : wf'.ops[q].status # "completed"
  BY <1>4, <1>5, <1>6, <1>11 DEF GrantOK
<1> QED
  BY <1>1, <1>5, <1>8, <1>9, <1>10, <1>11, <1>12, WorkflowStep

LEMMA DeleteInv ==
  ASSUME IInv, Delete
  PROVE  IInv'
<1>1. wf' = Deleted /\ UNCHANGED <<capture, time, back, att, dest>>
  BY DEF Delete
<1>2. ~Live'
  BY <1>1 DEF Live, Deleted
<1>3. OperationsOK' /\ BudgetOK' /\ CaptureOK'
  BY <1>2 DEF OperationsOK, BudgetOK, CaptureOK
<1> QED
  BY <1>1, <1>2, <1>3, WorkflowStep

(* The clocks move and the capture mode changes under the same workflow,   *)
(* hosts and destinations.                                                 *)
LEMMA SurroundingsStep ==
  ASSUME IInv, UNCHANGED <<wf, att, dest>>, TypeOK', time' >= time, CaptureOK'
  PROVE  IInv'
<1>1. HostsOK'
  <2>1. time \in Nat /\ time' \in Nat /\ MaxBack \in Nat
        /\ \A a \in Attempts : att[a].at \in Nat
    BY ContinuityAssumption DEF IInv, TypeOK
  <2>2. HostsOK
    BY DEF IInv
  <2>3. time' > MaxBack
    BY <2>1, <2>2 DEF HostsOK
  <2>4. ASSUME NEW a \in Attempts PROVE HostOK(a)'
    <3>1. HostOK(a)
      BY <2>2 DEF HostsOK
    <3>2. att[a].at <= time'
      <4>1. att[a].at <= time
        BY <3>1 DEF HostOK
      <4> QED
        BY <2>1, <4>1
    <3> QED
      BY <3>1, <3>2 DEF HostOK, Executes
  <2> QED
    BY <2>3, <2>4 DEF HostsOK
<1>2. ExecutionsOK' /\ DestinationsOK' /\ EffectAtMostOnce' /\ EffectsInOrder'
  BY NoDispatch DEF IInv, TypeOK, HostRecords
<1>3. OperationsOK' /\ BudgetOK'
  BY DEF IInv, OperationsOK, OperationOK, BudgetOK, Live, Defined,
         Unsettled, LeaseOut, MayStop
<1>4. GrantsOK'
  BY DEF IInv, GrantsOK, Live
<1>5. ResultsAreReal'
  BY DEF IInv, ResultsAreReal, Live, Defined
<1> QED
  BY <1>1, <1>2, <1>3, <1>4, <1>5 DEF IInv

LEMMA SetCaptureInv ==
  ASSUME IInv, NEW mode \in {"full", "reduced"}, SetCapture(mode)
  PROVE  IInv'
<1>1. TypeOK' /\ time' >= time
  BY DEF IInv, TypeOK, SetCapture
<1>2. CaptureOK'
  BY DEF SetCapture, CaptureOK, Unresolved, Live, Defined
<1> QED
  BY <1>1, <1>2, SurroundingsStep DEF SetCapture

LEMMA TickInv ==
  ASSUME IInv, Tick
  PROVE  IInv'
<1>1. TypeOK' /\ time' >= time
  BY DEF IInv, TypeOK, Tick
<1>2. CaptureOK'
  BY DEF IInv, Tick, CaptureOK, Live, Defined
<1> QED
  BY <1>1, <1>2, SurroundingsStep DEF Tick

LEMMA SetClockBackInv ==
  ASSUME IInv, SetClockBack
  PROVE  IInv'
<1>1. TypeOK' /\ time' >= time
  BY ContinuityAssumption DEF IInv, TypeOK, SetClockBack
<1>2. CaptureOK'
  BY DEF IInv, SetClockBack, CaptureOK, Live, Defined
<1> QED
  BY <1>1, <1>2, SurroundingsStep DEF SetClockBack

-----------------------------------------------------------------------------
LEMMA InitInv == Init => IInv
<1> SUFFICES ASSUME Init PROVE IInv
  OBVIOUS
<1> USE ContinuityAssumption
<1> DEFINE h == [phase |-> "new", op |-> 1, mode |-> "no mode", at |-> 0,
                 landed |-> FALSE, receipt |-> "no receipt", got |-> FALSE]
           d == [effects |-> 0, since |-> Never]
<1>0. /\ att = [a \in Attempts |-> h] /\ dest = [o \in Operations |-> d]
      /\ wf = Absent /\ capture = "full" /\ time = MaxBack + 1 /\ back = 0
  BY DEF Init
<1>1. TypeOK
  <2>1. h \in HostRecords /\ d \in [effects: Nat, since: Nat]
    BY DEF HostRecords, Phases, Modes, Receipts, Operations, Never
  <2> HIDE DEF h, d
  <2> QED
    BY <1>0, <2>1 DEF TypeOK, HostRecords
<1>2. HostsOK
  <2>1. h.phase = "new" /\ h.mode = "no mode" /\ h.receipt = "no receipt" /\ h.at = 0
    OBVIOUS
  <2>2. ~h.landed /\ ~h.got
    OBVIOUS
  <2> HIDE DEF h, d
  <2>3. time > MaxBack
    BY <1>0
  <2> SUFFICES ASSUME NEW a \in Attempts PROVE HostOK(a)
    BY <2>3 DEF HostsOK
  <2>4. att[a] = h
    BY <1>0
  <2>5. att[a].at <= time
    <3>1. att[a].at = 0 /\ time = MaxBack + 1
      BY <1>0, <2>1, <2>4
    <3> QED
      BY <3>1
  <2> QED
    BY <2>1, <2>2, <2>4, <2>5 DEF HostOK
<1>3. ExecutionsOK
  BY DEF Init, ExecutionsOK, Executes
<1>4. ~Live /\ Defined = {}
  BY DEF Init, Live, Defined, Absent
<1>5. OperationsOK /\ GrantsOK /\ BudgetOK /\ CaptureOK
  BY <1>4 DEF OperationsOK, GrantsOK, BudgetOK, CaptureOK
<1>6. DestinationsOK /\ EffectAtMostOnce /\ EffectsInOrder
  <2>1. \A o \in Operations : dest[o].effects = 0
    BY <1>0
  <2> QED
    BY <2>1 DEF DestinationsOK, EffectAtMostOnce, EffectsInOrder
<1>7. ResultsAreReal
  BY <1>4 DEF Init, ResultsAreReal
<1> QED
  BY <1>1, <1>2, <1>3, <1>5, <1>6, <1>7 DEF IInv

LEMMA NextInv ==
  ASSUME IInv, [Next]_vars
  PROVE  IInv'
<1>1. ASSUME NEW a \in Attempts, Host(a)
      PROVE  IInv'
  BY <1>1, AskInv, BeginGrantedInv, BeginUnheardInv, BeginCompletedInv,
     BeginBlockedInv, TakeEffectInv, CallbackInv, OutcomeInv,
     OutcomeUnheardInv, OutcomeRefusedInv, RenewInv DEF Host
<1>2. CASE Operator
  BY <1>2, CreateInv, ConfigureInv, AbandonInv, SetCaptureInv, DeleteInv
     DEF Operator
<1>3. CASE Tick \/ SetClockBack
  BY <1>3, TickInv, SetClockBackInv
<1>4. CASE UNCHANGED vars
  <2>1. UNCHANGED <<wf, capture, time, back, att, dest>>
    BY <1>4 DEF vars
  <2>2. TypeOK' /\ time' >= time
    BY <2>1 DEF IInv, TypeOK
  <2>3. CaptureOK'
    BY <2>1 DEF IInv, CaptureOK, Live, Defined
  <2> QED
    BY <2>1, <2>2, <2>3, SurroundingsStep
<1> QED
  BY <1>1, <1>2, <1>3, <1>4 DEF Next

(* The inductive invariant, of which the safety properties are parts or    *)
(* consequences.                                                           *)
THEOREM ContinuityInvariant == Spec => []IInv
<1>1. Init => IInv
  BY InitInv
<1>2. IInv /\ [Next]_vars => IInv'
  BY NextInv
<1> QED
  BY <1>1, <1>2, PTL DEF Spec

(* Every variable of continuity/service.py, its hosts and destinations     *)
(* stays within its type.                                                  *)
THEOREM TypeCorrect == Spec => []TypeOK
<1>1. IInv => TypeOK
  BY DEF IInv
<1> QED
  BY <1>1, ContinuityInvariant, PTL

(* begin never lets an operation take effect twice, for any number of      *)
(* attempts, any lost or late answers, any clock set back within the       *)
(* margin, and any retention, timeout and lease.                           *)
THEOREM AtMostOnce == Spec => []EffectAtMostOnce
<1>1. IInv => EffectAtMostOnce
  BY DEF IInv
<1> QED
  BY <1>1, ContinuityInvariant, PTL

(* outcome and begin report only results that happened, and never forget   *)
(* one that was returned.                                                  *)
THEOREM ResultsHold == Spec => []ResultsAreReal
<1>1. IInv => ResultsAreReal
  BY DEF IInv
<1> QED
  BY <1>1, ContinuityInvariant, PTL

(* Effects happen in the order create was given the operations.            *)
THEOREM OrderHolds == Spec => []EffectsInOrder
<1>1. IInv => EffectsInOrder
  BY DEF IInv
<1> QED
  BY <1>1, ContinuityInvariant, PTL

(* _save never refuses a receipt of a granted attempt, a stop or an        *)
(* abandonment for want of a revision, for any MAX_REVISIONS of three or   *)
(* more and any number of operations.                                      *)
THEOREM RoomHolds == Spec => []RoomToFinish
<1>1. IInv => RoomToFinish
  <2> SUFFICES ASSUME IInv, Live PROVE RoomToFinish
    BY DEF RoomToFinish
  <2>1. wf.revision < MaxRevisions + wf.size + 2
    BY RoomLeft DEF IInv
  <2>2. \A event \in Finishing \cup SafetyControl :
          RevisionLimit(wf.size, event) = MaxRevisions + wf.size + 2
    BY DEF RevisionLimit, Finishing, SafetyControl
  <2>3. {"completed", "disabled", "abandoned_not_completed"}
          \subseteq Finishing \cup SafetyControl
    BY DEF Finishing, SafetyControl
  <2>4. wf.enabled => capture = "full"
    BY DEF IInv, CaptureOK
  <2>5. \A o \in Defined : wf.ops[o].lease # NoAttempt => capture = "full"
    BY DEF IInv, CaptureOK, OperationsOK, OperationOK
  <2> QED
    BY <2>1, <2>2, <2>3, <2>4, <2>5 DEF RoomToFinish
<1> QED
  BY <1>1, ContinuityInvariant, PTL

-----------------------------------------------------------------------------
(* Settled work, step by step: a save leaves alone every operation but an  *)
(* unsettled one.                                                          *)
Settled(o) ==
  wf.ops[o].status \in {"completed", "abandoned"} =>
    wf' = Deleted \/ wf'.ops[o].status = wf.ops[o].status

LEMMA SavedSettled ==
  ASSUME TypeOK, Live, NEW o \in Defined, NEW op \in OpRecords,
         wf' = Saved(WithOp(wf, o, op)),
         wf.ops[o].status \notin {"completed", "abandoned"},
         NEW q \in Defined
  PROVE  Settled(q)
<1>1. /\ Defined \subseteq Operations
      /\ \A p \in Operations : p # o => wf'.ops[p] = wf.ops[p]
  BY SavedOp, LiveType
<1> QED
  BY <1>1 DEF Settled

LEMMA SettledStep ==
  ASSUME IInv, [Next]_vars
  PROVE  /\ wf = Deleted => wf' = Deleted
         /\ \A o \in Defined : Settled(o)
<1>1. TypeOK
  BY DEF IInv
<1>2. CASE wf' = wf
  BY <1>2 DEF Settled
<1>3. ASSUME NEW a \in Attempts, NEW o \in Operations, Grant(a, o)
      PROVE  Live /\ \A q \in Defined : Settled(q)
  <2> DEFINE op == Attempted(wf.ops[o], a)
  <2>1. /\ Live /\ o \in Defined /\ op \in OpRecords
        /\ wf' = Saved(WithOp(wf, o, op))
        /\ wf.ops[o].status \in {"pending", "uncertain"}
    BY <1>3, GrantFacts
  <2> HIDE DEF op
  <2> QED
    BY <1>1, <2>1, SavedSettled
<1>4. ASSUME NEW a \in Attempts, Recorded(a)
      PROVE  Live /\ \A q \in Defined : Settled(q)
  <2> DEFINE o == att[a].op
             op == Finished(wf.ops[o], att[a].receipt)
  <2>1. /\ Live /\ o \in Defined /\ wf.ops[o].status = "uncertain"
        /\ wf' = Saved(WithOp(wf, o, op))
    BY <1>4 DEF Recorded, MayRecord, ValidLease, Defined
  <2>2. wf.ops[o] \in OpRecords
    BY <1>1, <2>1, LiveType DEF Workflows
  <2>3. op \in OpRecords
    <3> DEFINE status == IF att[a].receipt = "confirmed_succeeded"
                         THEN "completed" ELSE "uncertain"
    <3>1. status \in Statuses
      BY DEF Statuses
    <3>2. op = [wf.ops[o] EXCEPT !.status = status, !.lease = NoAttempt, !.until = 0]
      BY DEF Finished
    <3> HIDE DEF status, op
    <3> QED
      BY <2>2, <3>1, <3>2, EndedOp
  <2> HIDE DEF op
  <2> QED
    BY <1>1, <2>1, <2>3, SavedSettled
<1>5. ASSUME NEW a \in Attempts, RecordedLate(a)
      PROVE  Live /\ \A q \in Defined : Settled(q)
  <2>1. Live /\ Defined \subseteq Operations
    BY <1>1, <1>5, LateOp, LiveType
  <2> QED
    BY <1>1, <1>5, <2>1, LateOp DEF Settled
<1>6. ASSUME NEW a \in Attempts, Renew(a)
      PROVE  Live /\ \A q \in Defined : Settled(q)
  <2> DEFINE o == att[a].op
             w == [wf.ops[o] EXCEPT !.until = Clock + Lease]
             op == [w EXCEPT !.renewals = w.renewals + 1]
  <2>1. /\ Live /\ o \in Defined /\ wf.ops[o].status = "uncertain"
    BY <1>6 DEF Renew, ValidLease, Defined
  <2>2. wf.ops[o] \in OpRecords /\ Clock + Lease \in Int
    BY <1>1, <2>1, LiveType, ContinuityAssumption DEF Workflows
  <2>3. w \in OpRecords /\ w.renewals = wf.ops[o].renewals
    BY <2>2 DEF OpRecords
  <2>4. wf' = Saved(WithOp(wf, o, op))
    BY <1>6, <2>3 DEF Renew
  <2> HIDE DEF w
  <2>5. op \in OpRecords
    BY <2>3 DEF OpRecords
  <2> HIDE DEF op
  <2> QED
    BY <1>1, <2>1, <2>4, <2>5, SavedSettled
<1>7. ASSUME NEW o \in Operations, Abandon(o)
      PROVE  Live /\ \A q \in Defined : Settled(q)
  <2> DEFINE op == [wf.ops[o] EXCEPT !.status = "abandoned",
                                     !.lease = NoAttempt, !.until = 0]
  <2>1. /\ Live /\ o \in Defined
        /\ wf.ops[o].status \in {"pending", "uncertain"}
        /\ wf' = Saved(WithOp(wf, o, op))
    BY <1>7 DEF Abandon, Defined
  <2>2. wf.ops[o] \in OpRecords /\ "abandoned" \in Statuses
    BY <1>1, <2>1, LiveType DEF Workflows, Statuses
  <2>3. op \in OpRecords
    BY <2>2, EndedOp
  <2> HIDE DEF op
  <2> QED
    BY <1>1, <2>1, <2>3, SavedSettled
<1>8. ASSUME NEW b \in BOOLEAN, Configure(b)
      PROVE  Live /\ \A q \in Defined : Settled(q)
  <2>1. Live /\ wf' = Saved([wf EXCEPT !.enabled = b])
    BY <1>8 DEF Configure
  <2>2. wf'.ops = wf.ops
    BY <1>1, <2>1, LiveType DEF Saved, Workflows
  <2> QED
    BY <2>1, <2>2 DEF Settled
<1>9. ASSUME NEW r \in Roles, NEW n \in Operations, NEW b \in BOOLEAN,
             Create(r, n, b)
      PROVE  wf # Deleted /\ Defined = {}
  BY <1>9 DEF Create, Absent, Deleted, Defined, Live
<1>10. CASE Delete
  BY <1>10 DEF Delete, Settled
<1>11. Live => wf # Deleted
  BY DEF Live, Deleted
<1>12. \A a \in Attempts : att[a].op \in Operations
  BY <1>1 DEF TypeOK
<1>13. ASSUME NEW a \in Attempts, Host(a)
       PROVE  /\ wf = Deleted => wf' = Deleted
              /\ \A o \in Defined : Settled(o)
  <2>1. CASE \E o \in Operations : Ask(a, o)
    BY <1>2, <2>1 DEF Ask
  <2>2. CASE BeginGranted(a) \/ BeginUnheard(a)
    BY <1>3, <1>11, <1>12, <2>2 DEF BeginGranted, BeginUnheard
  <2>3. CASE BeginCompleted(a) \/ BeginBlocked(a) \/ TakeEffect(a)
             \/ OutcomeRefused(a)
    BY <1>2, <2>3 DEF BeginCompleted, BeginBlocked, TakeEffect, OutcomeRefused
  <2>4. CASE \E r \in {"confirmed_succeeded", "unknown"} : Callback(a, r)
    BY <1>2, <2>4 DEF Callback
  <2>5. CASE Outcome(a) \/ OutcomeUnheard(a)
    BY <1>4, <1>5, <1>11, <2>5 DEF Outcome, OutcomeUnheard
  <2>6. CASE Renew(a)
    BY <1>6, <1>11, <2>6
  <2> QED
    BY <1>13, <2>1, <2>2, <2>3, <2>4, <2>5, <2>6 DEF Host
<1>14. CASE Operator
  <2>1. CASE \E m \in {"full", "reduced"} : SetCapture(m)
    BY <1>2, <2>1 DEF SetCapture
  <2> QED
    BY <1>7, <1>8, <1>9, <1>10, <1>11, <1>14, <2>1 DEF Operator
<1>15. CASE Tick \/ SetClockBack \/ UNCHANGED vars
  BY <1>2, <1>15 DEF Tick, SetClockBack, vars
<1> QED
  BY <1>13, <1>14, <1>15 DEF Next

(* No late receipt, retry or operator action changes a settled operation,  *)
(* and a deleted workflow key stays deleted.                               *)
THEOREM SettledForGood == Spec => SettledIsFinal
<1> DEFINE Step == /\ wf = Deleted => wf' = Deleted
                   /\ \A o \in Defined :
                        wf.ops[o].status \in {"completed", "abandoned"} =>
                          wf' = Deleted \/ wf'.ops[o].status = wf.ops[o].status
<1>1. IInv /\ [Next]_vars => [Step]_vars
  BY SettledStep DEF Settled
<1> QED
  BY <1>1, ContinuityInvariant, PTL DEF Spec, SettledIsFinal
=============================================================================
