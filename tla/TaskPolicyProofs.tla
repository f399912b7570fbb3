-------------------------- MODULE TaskPolicyProofs --------------------------
(***************************************************************************)
(* What no sequence of accepted deltas can do to a task, for any profile,  *)
(* any requests and any bound on its items.                                *)
(*                                                                         *)
(* An operation that passed validation keeps a snapshot readable and its   *)
(* dependencies acyclic, and its effect on the structure of the task is    *)
(* bounded (Effect).  Effects compose, so an induction over the operations *)
(* of a delta gives the same for the whole delta, which is one step.       *)
(***************************************************************************)
EXTENDS TaskPolicyMachine, FiniteSetTheorems, WellFoundedInduction, TLAPS

-----------------------------------------------------------------------------
(* One snapshot.                                                           *)

Shape(s) ==
    /\ DOMAIN s = SnapshotFields
    /\ IsFiniteSet(DOMAIN s.items)
    /\ \A i \in DOMAIN s.items : DOMAIN s.items[i] = ItemFields

Good(s) == Shape(s) /\ Readable(s)

\* What an operation, or a whole delta, may do to the snapshot s: items never
\* vanish and keep what they depend on, a locked structure stays as it is,
\* and only a privileged caller leaves required work newly skipped.
Effect(s, t, privileged) ==
    /\ \A i \in DOMAIN s.items :
          /\ i \in DOMAIN t.items
          /\ t.items[i].depends_on = s.items[i].depends_on
          /\ t.items[i].required = s.items[i].required
    /\ s.schema_locked =>
          /\ t.schema_locked
          /\ DOMAIN t.items = DOMAIN s.items
          /\ DOMAIN t.constraints = DOMAIN s.constraints
    /\ \A i \in DOMAIN t.items :
          /\ t.items[i].required
          /\ t.items[i].status = "skipped"
          /\ ~(i \in DOMAIN s.items /\ s.items[i].status = "skipped")
          => privileged

\* An operation is applied well.
Applied(s, t, privileged) ==
    /\ Good(t)
    /\ Effect(s, t, privileged)
    /\ Acyclic(s.items) => Acyclic(t.items)

LEMMA EffectSelf ==
    ASSUME NEW s, NEW privileged
    PROVE  Effect(s, s, privileged)
  BY DEF Effect

LEMMA EffectTransitive ==
    ASSUME NEW s, NEW t, NEW u, NEW privileged,
           Effect(s, t, privileged), Effect(t, u, privileged)
    PROVE  Effect(s, u, privileged)
  BY DEF Effect

\* An operation that leaves the items alone.
LEMMA SameItems ==
    ASSUME NEW s, NEW t, NEW privileged, Good(s),
           DOMAIN t = SnapshotFields, t.items = s.items, t.phase \in Phases,
           t.completed_sources \subseteq t.sources_to_inspect,
           s.schema_locked => /\ t.schema_locked
                              /\ DOMAIN t.constraints = DOMAIN s.constraints
    PROVE  Applied(s, t, privileged)
  <1>1. Good(t)
    BY DEF Good, Shape, Readable
  <1>2. Effect(s, t, privileged)
    BY DEF Effect
  <1>. QED
    BY <1>1, <1>2 DEF Applied

\* An operation that replaces one item and keeps what it depends on.
LEMMA ReplaceItem ==
    ASSUME NEW s, NEW t, NEW privileged, Good(s),
           NEW i \in DOMAIN s.items, NEW x,
           DOMAIN t = SnapshotFields, t.items = [s.items EXCEPT ![i] = x],
           t.phase = s.phase, t.constraints = s.constraints,
           t.sources_to_inspect = s.sources_to_inspect,
           t.completed_sources = s.completed_sources,
           t.schema_locked = s.schema_locked,
           DOMAIN x = ItemFields,
           x.depends_on = s.items[i].depends_on,
           x.required = s.items[i].required,
           x.status \in ItemStatus,
           x.status = "blocked" => x.blocker_reason # None,
           x.status = "skipped" => x.skip_reason # None,
           x.required /\ x.status = "skipped" /\ s.items[i].status # "skipped"
               => privileged
    PROVE  Applied(s, t, privileged)
  <1>1. /\ DOMAIN t.items = DOMAIN s.items
        /\ t.items[i] = x
        /\ \A j \in DOMAIN s.items : j # i => t.items[j] = s.items[j]
    OBVIOUS
  <1>2. \A j \in DOMAIN s.items :
           /\ t.items[j].depends_on = s.items[j].depends_on
           /\ t.items[j].required = s.items[j].required
    BY <1>1
  <1>3. Good(t)
    <2>1. Shape(t)
      BY <1>1 DEF Good, Shape
    <2>2. Readable(t)
      BY <1>1 DEF Good, Readable
    <2>. QED
      BY <2>1, <2>2 DEF Good
  <1>4. Effect(s, t, privileged)
    BY <1>1, <1>2 DEF Effect
  <1>5. Acyclic(s.items) => Acyclic(t.items)
    BY <1>1, <1>2 DEF Acyclic
  <1>. QED
    BY <1>3, <1>4, <1>5 DEF Applied

\* A new item that depends on known ones closes no circle: nothing that was
\* there depends on it, so it may be left out of any set it is in.
LEMMA NewItemAcyclic ==
    ASSUME NEW f, NEW g, NEW i, i \notin DOMAIN f, DOMAIN g = DOMAIN f \cup {i},
           \A j \in DOMAIN f : g[j] = f[j],
           \A j \in DOMAIN f : f[j].depends_on \subseteq DOMAIN f,
           g[i].depends_on \subseteq DOMAIN f,
           Acyclic(f)
    PROVE  Acyclic(g)
  <1>. SUFFICES ASSUME NEW S \in SUBSET DOMAIN g, S # {}
                PROVE  \E j \in S : g[j].depends_on \cap S = {}
    BY DEF Acyclic
  <1>1. CASE S \subseteq {i}
    BY <1>1
  <1>2. CASE ~(S \subseteq {i})
    <2>. DEFINE T == S \ {i}
    <2>1. T \in SUBSET DOMAIN f /\ T # {}
      BY <1>2
    <2>2. PICK j \in T : f[j].depends_on \cap T = {}
      BY <2>1 DEF Acyclic
    <2>3. g[j].depends_on = f[j].depends_on /\ i \notin g[j].depends_on
      BY <2>1
    <2>. QED
      BY <2>2, <2>3
  <1>. QED
    BY <1>1, <1>2

\* An operation that adds an item.
LEMMA NewItem ==
    ASSUME NEW s, NEW t, NEW privileged, Good(s), NEW i, NEW x,
           i \notin DOMAIN s.items,
           Cardinality(DOMAIN s.items) < MaxItems,
           ~s.schema_locked,
           DOMAIN t = SnapshotFields, t.items = Extend(s.items, i, x),
           t.phase = s.phase,
           t.sources_to_inspect = s.sources_to_inspect,
           t.completed_sources = s.completed_sources,
           DOMAIN x = ItemFields,
           x.depends_on \subseteq DOMAIN s.items,
           x.status \in ItemStatus \ {"blocked", "skipped"}
    PROVE  Applied(s, t, privileged)
  <1>1. /\ DOMAIN t.items = DOMAIN s.items \cup {i}
        /\ t.items[i] = x
        /\ \A j \in DOMAIN s.items : t.items[j] = s.items[j]
    BY DEF Extend
  <1>2. /\ IsFiniteSet(DOMAIN t.items)
        /\ Cardinality(DOMAIN t.items) <= MaxItems
    <2>1. IsFiniteSet(DOMAIN s.items)
      BY DEF Good, Shape
    <2>2. /\ IsFiniteSet(DOMAIN s.items \cup {i})
          /\ Cardinality(DOMAIN s.items \cup {i}) = Cardinality(DOMAIN s.items) + 1
          /\ Cardinality(DOMAIN s.items) \in Nat
      BY <2>1, FS_AddElement, FS_CardinalityType
    <2>. QED
      BY <1>1, <2>2, PolicyAssumption
  <1>3. Shape(t)
    BY <1>1, <1>2 DEF Good, Shape
  <1>4. Readable(t)
    BY <1>1, <1>2 DEF Good, Readable
  <1>5. Effect(s, t, privileged)
    BY <1>1 DEF Effect
  <1>6. Acyclic(s.items) => Acyclic(t.items)
    <2>1. \A j \in DOMAIN s.items : s.items[j].depends_on \subseteq DOMAIN s.items
      BY DEF Good, Readable
    <2>. QED
      BY <1>1, <2>1, NewItemAcyclic
  <1>. QED
    BY <1>3, <1>4, <1>5, <1>6 DEF Applied, Good

-----------------------------------------------------------------------------
(* One operation: each kind that passed validation is applied well.        *)

\* set_phase, mark_source_inspected, lock_schema and the constraints.
LEMMA OtherKinds ==
    ASSUME NEW s, NEW op, NEW delta, NEW privileged, Good(s), WellFormed(op),
           ~Refused(op, s, delta, privileged),
           op.kind \notin {"set_item_status", "add_item", "set_item_content",
                           "set_item_blocker"}
    PROVE  Applied(s, ApplyOperation(s, op), privileged)
  <1>. DEFINE t == ApplyOperation(s, op)
  <1>0. /\ DOMAIN s = SnapshotFields
        /\ s.phase \in Phases
        /\ s.completed_sources \subseteq s.sources_to_inspect
    BY DEF Good, Shape, Readable
  <1>1. CASE op.kind = "set_phase"
    <2>1. op.phase \in Phases
      BY <1>1 DEF Refused, PhaseRefused
    <2>2. t = [s EXCEPT !.phase = op.phase]
      BY <1>1 DEF ApplyOperation
    <2>. HIDE DEF t
    <2>3. /\ DOMAIN t = SnapshotFields /\ t.items = s.items /\ t.phase \in Phases
          /\ t.completed_sources \subseteq t.sources_to_inspect
          /\ t.schema_locked = s.schema_locked /\ t.constraints = s.constraints
      BY <1>0, <2>1, <2>2 DEF SnapshotFields
    <2>4. Applied(s, t, privileged)
      BY <2>3, SameItems
    <2>. QED
      BY <2>4 DEF t
  <1>2. CASE op.kind = "add_constraint"
    <2>1. ~s.schema_locked
      BY <1>2 DEF Refused, SchemaRefused, SCHEMA_OPERATIONS
    <2>2. PICK c : t = [s EXCEPT !.constraints = c]
      BY <1>2 DEF ApplyOperation
    <2>. HIDE DEF t
    <2>3. /\ DOMAIN t = SnapshotFields /\ t.items = s.items /\ t.phase \in Phases
          /\ t.completed_sources \subseteq t.sources_to_inspect
      BY <1>0, <2>2 DEF SnapshotFields
    <2>4. Applied(s, t, privileged)
      BY <2>1, <2>3, SameItems
    <2>. QED
      BY <2>4 DEF t
  <1>3. CASE op.kind = "satisfy_constraint"
    <2>. DEFINE c == [s.constraints EXCEPT ![op.constraint].satisfied = TRUE]
    <2>1. DOMAIN c = DOMAIN s.constraints
      OBVIOUS
    <2>2. t = [s EXCEPT !.constraints = c]
      BY <1>3 DEF ApplyOperation
    <2>. HIDE DEF t, c
    <2>3. /\ DOMAIN t = SnapshotFields /\ t.items = s.items /\ t.phase \in Phases
          /\ t.completed_sources \subseteq t.sources_to_inspect
          /\ t.schema_locked = s.schema_locked
          /\ DOMAIN t.constraints = DOMAIN s.constraints
      BY <1>0, <2>1, <2>2 DEF SnapshotFields
    <2>4. Applied(s, t, privileged)
      BY <2>3, SameItems
    <2>. QED
      BY <2>4 DEF t
  <1>4. CASE op.kind = "mark_source_inspected"
    <2>1. op.source \in s.sources_to_inspect
      BY <1>4 DEF Refused
    <2>2. t = [s EXCEPT !.completed_sources = @ \cup {op.source}]
      BY <1>4 DEF ApplyOperation
    <2>. HIDE DEF t
    <2>3. /\ DOMAIN t = SnapshotFields /\ t.items = s.items /\ t.phase \in Phases
          /\ t.completed_sources \subseteq t.sources_to_inspect
          /\ t.schema_locked = s.schema_locked /\ t.constraints = s.constraints
      BY <1>0, <2>1, <2>2 DEF SnapshotFields
    <2>4. Applied(s, t, privileged)
      BY <2>3, SameItems
    <2>. QED
      BY <2>4 DEF t
  <1>5. CASE op.kind = "lock_schema"
    <2>2. t = [s EXCEPT !.schema_locked = TRUE]
      BY <1>5 DEF ApplyOperation
    <2>. HIDE DEF t
    <2>3. /\ DOMAIN t = SnapshotFields /\ t.items = s.items /\ t.phase \in Phases
          /\ t.completed_sources \subseteq t.sources_to_inspect
          /\ t.schema_locked /\ t.constraints = s.constraints
      BY <1>0, <2>2 DEF SnapshotFields
    <2>4. Applied(s, t, privileged)
      BY <2>3, SameItems
    <2>. QED
      BY <2>4 DEF t
  <1>. QED
    BY <1>1, <1>2, <1>3, <1>4, <1>5 DEF WellFormed, OperationKind

\* set_item_status, set_item_content and set_item_blocker.
LEMMA ChangeKinds ==
    ASSUME NEW s, NEW op, NEW delta, NEW privileged, Good(s), WellFormed(op),
           ~Refused(op, s, delta, privileged),
           op.kind \in {"set_item_status", "set_item_content",
                        "set_item_blocker"}
    PROVE  Applied(s, ApplyOperation(s, op), privileged)
  <1>. DEFINE t == ApplyOperation(s, op)
              i == op.item
              old == s.items[i]
  <1>0. DOMAIN s = SnapshotFields
    BY DEF Good, Shape
  <1>1. i \in DOMAIN s.items
    BY DEF Refused
  <1>2. /\ DOMAIN old = ItemFields
        /\ old.status \in ItemStatus
        /\ old.status = "blocked" => old.blocker_reason # None
        /\ old.status = "skipped" => old.skip_reason # None
    BY <1>1 DEF Good, Shape, Readable
  <1>3. ASSUME NEW x, t = [s EXCEPT !.items[i] = x]
        PROVE  /\ DOMAIN t = SnapshotFields
               /\ t.items = [s.items EXCEPT ![i] = x]
               /\ t.phase = s.phase /\ t.constraints = s.constraints
               /\ t.sources_to_inspect = s.sources_to_inspect
               /\ t.completed_sources = s.completed_sources
               /\ t.schema_locked = s.schema_locked
    <2>. HIDE DEF t
    <2>. QED
      BY <1>0, <1>3 DEF SnapshotFields
  <1>4. CASE op.kind = "set_item_status"
    <2>. DEFINE x == Moved(old, op)
    <2>1. t = [s EXCEPT !.items[i] = x]
      BY <1>4 DEF ApplyOperation
    <2>2. /\ ~ReasonRefused(op)
          /\ ~SkipRefused(op, old, privileged)
      BY <1>1, <1>4 DEF Refused, StatusRefused
    <2>3. /\ DOMAIN x = ItemFields
          /\ x.depends_on = old.depends_on /\ x.required = old.required
          /\ x.status = op.status
          /\ x.blocker_reason = IF op.status = "blocked" THEN op.reason ELSE None
          /\ op.status = "skipped" => x.skip_reason = op.reason
      BY <1>2 DEF ItemFields, Moved
    <2>. HIDE DEF x
    <2>4. /\ x.status \in ItemStatus
          /\ x.status = "blocked" => x.blocker_reason # None
          /\ x.status = "skipped" => x.skip_reason # None
          /\ x.required /\ x.status = "skipped" => privileged
      BY <1>4, <2>2, <2>3 DEF ReasonRefused, SkipRefused, WellFormed
    <2>5. Applied(s, t, privileged)
      <3>. HIDE DEF t
      <3>. QED
        BY <1>1, <1>3, <2>1, <2>3, <2>4, ReplaceItem
    <2>. QED
      BY <2>5
  <1>5. CASE op.kind = "set_item_content"
    <2>. DEFINE x == [old EXCEPT !.content = op.content]
    <2>1. t = [s EXCEPT !.items[i] = x]
      BY <1>5 DEF ApplyOperation
    <2>3. /\ DOMAIN x = ItemFields
          /\ x.depends_on = old.depends_on /\ x.required = old.required
          /\ x.status = old.status
          /\ x.blocker_reason = old.blocker_reason
          /\ x.skip_reason = old.skip_reason
      BY <1>2 DEF ItemFields
    <2>. HIDE DEF x
    <2>4. /\ x.status \in ItemStatus
          /\ x.status = "blocked" => x.blocker_reason # None
          /\ x.status = "skipped" => x.skip_reason # None
          /\ ~(x.status = "skipped" /\ old.status # "skipped")
      BY <1>2, <2>3
    <2>5. Applied(s, t, privileged)
      <3>. HIDE DEF t
      <3>. QED
        BY <1>1, <1>3, <2>1, <2>3, <2>4, ReplaceItem
    <2>. QED
      BY <2>5
  <1>6. CASE op.kind = "set_item_blocker"
    <2>. DEFINE why == IF op.reason = None THEN "blocked" ELSE op.reason
                x == Blocked(old, op)
    <2>0. why # None
      BY PolicyAssumption
    <2>1. t = [s EXCEPT !.items[i] = x]
      BY <1>6 DEF ApplyOperation
    <2>3. /\ DOMAIN x = ItemFields
          /\ x.depends_on = old.depends_on /\ x.required = old.required
          /\ x.status = "blocked"
          /\ x.blocker_reason = why
      BY <1>2 DEF ItemFields, Blocked
    <2>. HIDE DEF x, why
    <2>4. x.status \in ItemStatus /\ x.status # "skipped"
      BY <2>3 DEF ItemStatus
    <2>5. Applied(s, t, privileged)
      <3>. HIDE DEF t
      <3>. QED
        BY <1>1, <1>3, <2>0, <2>1, <2>3, <2>4, ReplaceItem
    <2>. QED
      BY <2>5
  <1>. QED
    BY <1>4, <1>5, <1>6

LEMMA AddKind ==
    ASSUME NEW s, NEW op, NEW delta, NEW privileged, Good(s), WellFormed(op),
           ~Refused(op, s, delta, privileged), ~Raises(op, s),
           op.kind = "add_item"
    PROVE  Applied(s, ApplyOperation(s, op), privileged)
  <1>. DEFINE t == ApplyOperation(s, op)
              st == IF op.status = None THEN "pending" ELSE op.status
              x == [kind |-> op.kind_label, status |-> st,
                    content |-> op.content, depends_on |-> op.depends_on,
                    required |-> op.required, blocker_reason |-> None,
                    skip_reason |-> None, assurance |-> op.assurance]
  <1>0. DOMAIN s = SnapshotFields /\ IsFiniteSet(DOMAIN s.items)
    BY DEF Good, Shape
  <1>1. t = [s EXCEPT !.items = Extend(@, op.item, x)]
    BY DEF ApplyOperation
  <1>2. /\ op.item \notin DOMAIN s.items
        /\ op.depends_on \subseteq DOMAIN s.items
        /\ ~s.schema_locked
    BY DEF Refused, AddItemRefused, SchemaRefused, SCHEMA_OPERATIONS
  <1>3. Cardinality(DOMAIN s.items) < MaxItems
    <2>1. Cardinality(DOMAIN s.items) \in Nat
      BY <1>0, FS_CardinalityType
    <2>2. ~(Cardinality(DOMAIN s.items) >= MaxItems)
      BY DEF Raises
    <2>. QED
      BY <2>1, <2>2, PolicyAssumption
  <1>4. st \in ItemStatus \ {"blocked", "skipped"}
    BY DEF Raises, WellFormed, ItemStatus
  <1>. HIDE DEF st
  <1>5. DOMAIN x = ItemFields /\ x.depends_on = op.depends_on /\ x.status = st
    BY DEF ItemFields
  <1>. HIDE DEF t, x
  <1>6. /\ DOMAIN t = SnapshotFields
        /\ t.items = Extend(s.items, op.item, x)
        /\ t.phase = s.phase
        /\ t.sources_to_inspect = s.sources_to_inspect
        /\ t.completed_sources = s.completed_sources
    BY <1>0, <1>1 DEF SnapshotFields
  <1>7. Applied(s, t, privileged)
    BY <1>2, <1>3, <1>4, <1>5, <1>6, NewItem
  <1>. QED
    BY <1>7 DEF t

LEMMA OperationApplied ==
    ASSUME NEW s, NEW op, NEW delta, NEW privileged, Good(s), WellFormed(op),
           ~Refused(op, s, delta, privileged), ~Raises(op, s)
    PROVE  Applied(s, ApplyOperation(s, op), privileged)
  BY OtherKinds, ChangeKinds, AddKind

-----------------------------------------------------------------------------
(* One delta.  Work is a recursive function, so what it returns takes an   *)
(* induction over the operations.                                          *)

LEMMA InductiveSet ==
    ASSUME NEW S \in SUBSET Nat, 0 \in S, \A n \in S : n + 1 \in S
    PROVE  S = Nat
  <1>. DEFINE T == Nat \ S
              R == OpToRel(<, Nat)
  <1>1. SUFFICES ASSUME T # {} PROVE FALSE
    OBVIOUS
  <1>2. IsWellFoundedOn(R, Nat)
    BY NatLessThanWellFounded, Zenon
  <1>3. \A m, n \in Nat : m < n => <<m, n>> \in R
    BY DEF OpToRel
  <1>. HIDE DEF R
  <1>4. PICK x \in T : \A y \in T : ~(<<y, x>> \in R)
    BY <1>1, <1>2, WFMin
  <1>5. x - 1 \in Nat /\ x - 1 < x /\ (x - 1) + 1 = x
    OBVIOUS
  <1>6. x - 1 \in S
    BY <1>3, <1>4, <1>5
  <1>. QED
    BY <1>5, <1>6

Unworked(s) == [state |-> s, verdict |-> "ok", progress |-> FALSE]

\* f is the run of the first m operations of a delta.
Runs(f, s, delta, privileged, m) ==
    f = [n \in 0 .. m |->
            IF n = 0 THEN Unworked(s)
            ELSE WorkStep(f[n - 1], delta.operations[n], delta, privileged)]

LEMMA RunExists ==
    ASSUME NEW s, NEW delta, NEW privileged, NEW m \in Nat
    PROVE  \E f : Runs(f, s, delta, privileged, m)
  <1>. DEFINE S == {n \in Nat : \E f : Runs(f, s, delta, privileged, n)}
              Step(w, n) == WorkStep(w, delta.operations[n], delta, privileged)
  <1>1. 0 \in S
    <2>. DEFINE f == [n \in 0 .. 0 |-> Unworked(s)]
    <2>1. Runs(f, s, delta, privileged, 0)
      BY DEF Runs
    <2>. HIDE DEF f
    <2>. QED
      BY <2>1
  <1>2. ASSUME NEW n \in S
        PROVE  n + 1 \in S
    <2>n. n \in Nat
      OBVIOUS
    <2>1. PICK f : Runs(f, s, delta, privileged, n)
      OBVIOUS
    <2>. DEFINE last == Step(f[n], n + 1)
                g == [i \in 0 .. (n + 1) |-> IF i = n + 1 THEN last ELSE f[i]]
    <2>2. /\ f[0] = Unworked(s)
          /\ \A i \in 1 .. n : f[i] = Step(f[i - 1], i)
      BY <2>1 DEF Runs
    <2>3. /\ g[n + 1] = last /\ \A i \in 0 .. n : g[i] = f[i]
          /\ g = [i \in 0 .. (n + 1) |-> g[i]]
      OBVIOUS
    <2>. HIDE DEF g, last, S, Step
    <2>4. ASSUME NEW i \in 0 .. (n + 1)
          PROVE  g[i] = IF i = 0 THEN Unworked(s) ELSE Step(g[i - 1], i)
      <3>1. CASE i = 0
        BY <2>n, <2>2, <2>3, <3>1
      <3>2. CASE i \in 1 .. n
        <4>1. i - 1 \in 0 .. n /\ i \in 0 .. n /\ i # 0
          BY <2>n, <3>2
        <4>2. g[i] = f[i] /\ g[i - 1] = f[i - 1]
          BY <2>3, <4>1
        <4>. QED
          BY <2>2, <3>2, <4>1, <4>2
      <3>3. CASE i = n + 1
        <4>1. i - 1 = n /\ n \in 0 .. n /\ i # 0
          BY <2>n, <3>3
        <4>2. g[i] = last /\ g[n] = f[n]
          BY <2>3, <3>3, <4>1
        <4>. QED
          BY <3>3, <4>1, <4>2 DEF last
      <3>. QED
        BY <2>n, <3>1, <3>2, <3>3
    <2>5. Runs(g, s, delta, privileged, n + 1)
      BY <2>3, <2>4 DEF Runs, Step
    <2>. QED
      BY <2>n, <2>5 DEF S
  <1>3. S = Nat
    BY <1>1, <1>2, InductiveSet
  <1>. QED
    BY <1>3

\* The working copy after any number of operations on the snapshot s.
Worked(s, w, privileged) ==
    /\ DOMAIN w = {"state", "verdict", "progress"}
    /\ w.verdict \in {"ok", "rejected", "value_error"}
    /\ w.progress \in BOOLEAN
    /\ Applied(s, w.state, privileged)

LEMMA WorkStepWorked ==
    ASSUME NEW s, NEW w, NEW op, NEW delta, NEW privileged,
           Worked(s, w, privileged), WellFormed(op)
    PROVE  Worked(s, WorkStep(w, op, delta, privileged), privileged)
  <1>. DEFINE v == WorkStep(w, op, delta, privileged)
              t == ApplyOperation(w.state, op)
  <1>1. CASE /\ w.verdict = "ok" /\ ~Refused(op, w.state, delta, privileged)
             /\ ~Raises(op, w.state)
    <2>1. Applied(w.state, t, privileged)
      BY <1>1, OperationApplied DEF Worked, Applied
    <2>2. Applied(s, t, privileged)
      BY <2>1, EffectTransitive DEF Worked, Applied
    <2>3. /\ DOMAIN v = {"state", "verdict", "progress"} /\ v.state = t
          /\ v.verdict = "ok"
      BY <1>1 DEF WorkStep
    <2>4. v.progress \in BOOLEAN
      BY <1>1 DEF WorkStep
    <2>. QED
      BY <2>2, <2>3, <2>4 DEF Worked
  <1>2. CASE ~(/\ w.verdict = "ok" /\ ~Refused(op, w.state, delta, privileged)
               /\ ~Raises(op, w.state))
    <2>1. /\ DOMAIN v = {"state", "verdict", "progress"} /\ v.state = w.state
          /\ v.verdict \in {"ok", "rejected", "value_error"}
          /\ v.progress = w.progress
      BY <1>2 DEF WorkStep, Worked
    <2>. QED
      BY <2>1 DEF Worked
  <1>. QED
    BY <1>1, <1>2

\* What holds of the working copy after n operations holds after every later
\* one, if single operations keep it.
LEMMA WorkInduction ==
    ASSUME NEW s, NEW base, NEW delta, NEW privileged,
           delta.operations \in Seq(Range(delta.operations)),
           \A k \in DOMAIN delta.operations : WellFormed(delta.operations[k]),
           NEW n \in 0 .. Len(delta.operations),
           Worked(base, WorkAfter(n, s, delta, privileged), privileged),
           NEW l \in n .. Len(delta.operations)
    PROVE  Worked(base, WorkAfter(l, s, delta, privileged), privileged)
  <1>. DEFINE m == Len(delta.operations)
              f == CHOOSE g : Runs(g, s, delta, privileged, m)
              S == {k \in Nat : n + k \in 0 .. m => Worked(base, f[n + k], privileged)}
  <1>0. m \in Nat /\ DOMAIN delta.operations = 1 .. m
    OBVIOUS
  <1>1. Runs(f, s, delta, privileged, m)
    <2>. HIDE DEF m
    <2>. QED
      BY <1>0, RunExists, Zenon
  <1>2. \A k : WorkAfter(k, s, delta, privileged) = f[k]
    BY DEF WorkAfter, Runs, Unworked
  <1>. HIDE DEF f
  <1>a. n \in 0 .. m /\ l \in n .. m
    OBVIOUS
  <1>. HIDE DEF m
  <1>3. \A k \in 1 .. m :
           f[k] = WorkStep(f[k - 1], delta.operations[k], delta, privileged)
    BY <1>0, <1>1 DEF Runs
  <1>4. 0 \in S
    <2>1. n + 0 = n
      BY <1>0, <1>a
    <2>. QED
      BY <1>2, <2>1
  <1>5. ASSUME NEW k \in S
        PROVE  k + 1 \in S
    <2>1. ASSUME n + (k + 1) \in 0 .. m
          PROVE  Worked(base, f[n + (k + 1)], privileged)
      <3>1. /\ n + k \in 0 .. m /\ n + (k + 1) \in 1 .. m
            /\ (n + (k + 1)) - 1 = n + k
        BY <1>0, <1>a, <2>1
      <3>2. /\ Worked(base, f[n + k], privileged)
            /\ WellFormed(delta.operations[n + (k + 1)])
        BY <1>0, <3>1
      <3>3. f[n + (k + 1)] = WorkStep(f[n + k], delta.operations[n + (k + 1)],
                                      delta, privileged)
        BY <1>3, <3>1
      <3>. QED
        BY <3>2, <3>3, WorkStepWorked
    <2>. QED
      BY <2>1
  <1>6. S = Nat
    BY <1>4, <1>5, InductiveSet
  <1>7. l - n \in Nat /\ n + (l - n) = l /\ l \in 0 .. m
    BY <1>0, <1>a
  <1>8. l - n \in S
    BY <1>6, <1>7
  <1>. QED
    BY <1>2, <1>7, <1>8

LEMMA NothingWorked ==
    ASSUME NEW s, NEW delta, NEW privileged, Good(s),
           delta.operations \in Seq(Range(delta.operations))
    PROVE  Worked(s, WorkAfter(0, s, delta, privileged), privileged)
  <1>. DEFINE m == Len(delta.operations)
              f == CHOOSE g : Runs(g, s, delta, privileged, m)
  <1>0. m \in Nat
    OBVIOUS
  <1>1. Runs(f, s, delta, privileged, m)
    <2>. HIDE DEF m
    <2>. QED
      BY <1>0, RunExists, Zenon
  <1>2. WorkAfter(0, s, delta, privileged) = f[0]
    BY DEF WorkAfter, Runs, Unworked
  <1>. HIDE DEF f, m
  <1>3. f[0] = Unworked(s)
    BY <1>0, <1>1 DEF Runs
  <1>4. Applied(s, s, privileged)
    BY EffectSelf DEF Applied
  <1>5. Worked(s, Unworked(s), privileged)
    BY <1>4 DEF Worked, Unworked
  <1>. QED
    BY <1>2, <1>3, <1>5

\* Every working copy is well made from every earlier one.
LEMMA WorkFrom ==
    ASSUME NEW s, NEW delta, NEW privileged, Good(s),
           delta.operations \in Seq(Range(delta.operations)),
           \A k \in DOMAIN delta.operations : WellFormed(delta.operations[k]),
           NEW n \in 0 .. Len(delta.operations),
           NEW l \in n .. Len(delta.operations)
    PROVE  Worked(WorkAfter(n, s, delta, privileged).state,
                  WorkAfter(l, s, delta, privileged), privileged)
  <1>. DEFINE w == WorkAfter(n, s, delta, privileged)
  <1>0. Len(delta.operations) \in Nat
    OBVIOUS
  <1>1. 0 \in 0 .. Len(delta.operations)
    BY <1>0
  <1>2. Worked(s, w, privileged)
    BY <1>1, NothingWorked, WorkInduction
  <1>3. Applied(w.state, w.state, privileged)
    BY <1>2, EffectSelf DEF Worked, Applied
  <1>4. Worked(w.state, w, privileged)
    BY <1>2, <1>3 DEF Worked
  <1>. QED
    BY <1>4, WorkInduction

LEMMA WorkWorked ==
    ASSUME NEW s, NEW delta, NEW privileged, Good(s),
           delta.operations \in Seq(Range(delta.operations)),
           \A n \in DOMAIN delta.operations : WellFormed(delta.operations[n])
    PROVE  Worked(s, Work(s, delta, privileged), privileged)
  <1>1. Len(delta.operations) \in Nat
    OBVIOUS
  <1>2. 0 \in 0 .. Len(delta.operations) /\ Len(delta.operations) \in 0 .. Len(delta.operations)
    BY <1>1
  <1>. QED
    BY <1>2, NothingWorked, WorkInduction DEF Work

\* What TaskStateService assumes of the policy (its PolicyAssumption, with
\* the good snapshots as Content) is a fact of evaluate: it decides every
\* delta, never with a conflict, keeps the snapshot unless it accepts, and
\* accepts only a delta that leaves a snapshot that is different and good.
THEOREM PolicyMeetsService ==
    ASSUME NEW s, NEW delta, NEW privileged, Good(s),
           delta.operations \in Seq(Range(delta.operations)),
           \A n \in DOMAIN delta.operations : WellFormed(delta.operations[n])
    PROVE  LET d == Decide(s, delta, privileged) IN
           /\ DOMAIN d = {"outcome", "content", "progress"}
           /\ d.outcome \in {"accepted", "rejected", "no_change", "value_error"}
           /\ Good(d.content)
           /\ d.progress \in BOOLEAN
           /\ d.outcome = "accepted" <=> d.content # s
  <1>. DEFINE w == Work(s, delta, privileged)
              d == Decide(s, delta, privileged)
  <1>1. Worked(s, w, privileged)
    BY WorkWorked
  <1>2. /\ w.verdict \in {"ok", "rejected", "value_error"}
        /\ w.progress \in BOOLEAN /\ Good(w.state)
    BY <1>1 DEF Worked, Applied
  <1>. HIDE DEF w
  <1>3. CASE rank[delta.assurance] > rank[ASSURANCE_CEILING(delta.role)]
    <2>1. d = [outcome |-> "rejected", content |-> s, progress |-> FALSE]
      BY <1>3 DEF Decide
    <2>. QED
      BY <2>1
  <1>4. CASE ~(rank[delta.assurance] > rank[ASSURANCE_CEILING(delta.role)])
    <2>1. CASE w.verdict # "ok"
      <3>1. d = [outcome |-> w.verdict, content |-> s, progress |-> FALSE]
        BY <1>4, <2>1 DEF Decide, w
      <3>. QED
        BY <1>2, <2>1, <3>1
    <2>2. CASE w.verdict = "ok" /\ w.state = s
      <3>1. d = [outcome |-> "no_change", content |-> s, progress |-> FALSE]
        BY <1>4, <2>2 DEF Decide, w
      <3>. QED
        BY <3>1
    <2>3. CASE w.verdict = "ok" /\ w.state # s
      <3>1. d = [outcome |-> "accepted", content |-> w.state,
                 progress |-> w.progress]
        BY <1>4, <2>3 DEF Decide, w
      <3>. QED
        BY <1>2, <2>3, <3>1
    <2>. QED
      BY <2>1, <2>2, <2>3
  <1>. QED
    BY <1>3, <1>4

-----------------------------------------------------------------------------
(* One step.                                                               *)

\* What an accepted delta may do to the head snapshot.
LEMMA AcceptApplied ==
    ASSUME NEW r \in Requests, Good(state), Accept(r)
    PROVE  Applied(state, state', r.privileged) /\ corrected' = r.privileged
  <1>. DEFINE w == Work(state, r.delta, r.privileged)
  <1>1. Worked(state, w, r.privileged)
    BY WorkWorked, PolicyAssumption
  <1>. HIDE DEF w
  <1>2. state' = w.state
    BY <1>1 DEF Accept, Decide, Worked, w
  <1>. QED
    BY <1>1, <1>2 DEF Worked, Accept

LEMMA StartGood == Good(StartSnapshot)
  BY PolicyAssumption DEF Good, Shape

LEMMA NextGood == Good(state) /\ [Next]_vars => Good(state)'
  <1>. SUFFICES ASSUME Good(state), [Next]_vars PROVE Good(state')
    OBVIOUS
  <1>1. CASE UNCHANGED vars
    BY <1>1 DEF vars
  <1>2. CASE Next
    BY <1>2, AcceptApplied DEF Next, Applied
  <1>. QED
    BY <1>1, <1>2

\* The inductive invariant of submit and correct: snapshots have the fields
\* the rules read, finitely many items, and can be read back.
THEOREM PolicyInvariant == Spec => []Good(state)
  <1>1. Init => Good(state)
    BY StartGood DEF Init
  <1>. QED
    BY <1>1, NextGood, PTL DEF Spec

\* No sequence of deltas that evaluate accepts stores a snapshot TaskItem or
\* TaskState would refuse to build, so no task becomes unreadable.
THEOREM PolicyReadable == Spec => []SnapshotReadable
  <1>1. Good(state) => SnapshotReadable
    BY DEF Good, SnapshotReadable
  <1>. QED
    BY <1>1, PolicyInvariant, PTL

\* service.start checks that dependencies are known, not that they are
\* acyclic; if they are (a task starts without items, or with some that can
\* be finished in some order), no accepted delta ever closes a circle.
THEOREM PolicyAcyclic ==
    ASSUME Acyclic(StartSnapshot.items)
    PROVE  Spec => []DependenciesAcyclic
  <1>1. Init => DependenciesAcyclic
    BY DEF Init, DependenciesAcyclic
  <1>2. ASSUME Good(state), DependenciesAcyclic, [Next]_vars
        PROVE  DependenciesAcyclic'
    <2>1. CASE UNCHANGED vars
      BY <1>2, <2>1 DEF vars, DependenciesAcyclic
    <2>2. CASE Next
      BY <1>2, <2>2, AcceptApplied DEF Next, Applied, DependenciesAcyclic
    <2>. QED
      BY <1>2, <2>1, <2>2
  <1>. QED
    BY <1>1, <1>2, PolicyInvariant, PTL DEF Spec

LEMMA SameStructure ==
    ASSUME NEW s, NEW t, NEW privileged, Effect(s, t, privileged), s.schema_locked
    PROVE  t.schema_locked /\ Structure(t) = Structure(s)
  BY DEF Effect, Structure

\* Every structure the task ever had under the lock is the one it has: a
\* locked schema keeps its items, its constraints and the dependencies of its
\* items through every operation that follows, in the delta that locked it
\* and in every later one, the ones of privileged callers included.
THEOREM PolicyLockFreezes == Spec => []LockedSchemaIsFrozen
  <1>1. Init => LockedSchemaIsFrozen
    BY DEF Init, LockedSchemaIsFrozen, Locked
  <1>2. ASSUME Good(state), LockedSchemaIsFrozen, [Next]_vars
        PROVE  LockedSchemaIsFrozen'
    <2>1. CASE UNCHANGED vars
      BY <1>2, <2>1 DEF vars, LockedSchemaIsFrozen
    <2>2. CASE Next
      <3>1. PICK r \in Requests : Accept(r)
        BY <2>2 DEF Next
      <3>. DEFINE m == Len(r.delta.operations)
                  copy(n) == WorkAfter(n, state, r.delta, r.privileged)
      <3>2. /\ r.delta.operations \in Seq(Range(r.delta.operations))
            /\ \A k \in DOMAIN r.delta.operations : WellFormed(r.delta.operations[k])
        BY PolicyAssumption
      <3>3. m \in Nat /\ m \in 0 .. m
        BY <3>2
      <3>4. state' = copy(m).state
        <4>. DEFINE w == Work(state, r.delta, r.privileged)
        <4>1. Worked(state, w, r.privileged)
          BY <1>2, <3>2, WorkWorked
        <4>. HIDE DEF w
        <4>2. state' = w.state
          BY <3>1, <4>1 DEF Accept, Decide, Worked, w
        <4>. QED
          BY <4>2 DEF w, Work
      <3>5. ASSUME NEW n \in 0 .. m, copy(n).state.schema_locked
            PROVE  /\ state'.schema_locked
                   /\ Structure(state') = Structure(copy(n).state)
        <4>1. m \in n .. m
          BY <3>3
        <4>2. Worked(copy(n).state, copy(m), r.privileged)
          BY <1>2, <3>2, <4>1, WorkFrom
        <4>. HIDE DEF copy, m
        <4>3. Effect(copy(n).state, state', r.privileged)
          BY <3>4, <4>2 DEF Worked, Applied
        <4>. QED
          BY <3>5, <4>3, SameStructure
      <3>6. ASSUME NEW f \in frozen
            PROVE  state'.schema_locked /\ Structure(state') = f
        <4>1. Applied(state, state', r.privileged)
          BY <1>2, <3>1, AcceptApplied
        <4>2. state.schema_locked /\ Structure(state) = f
          BY <1>2 DEF LockedSchemaIsFrozen
        <4>. QED
          BY <4>1, <4>2, SameStructure DEF Applied
      <3>7. frozen' = frozen \cup Locked(Copies(r))
        BY <3>1 DEF Accept
      <3>8. ASSUME NEW f \in Locked(Copies(r))
            PROVE  \E n \in 0 .. m : copy(n).state.schema_locked /\ f = Structure(copy(n).state)
        BY DEF Locked, Copies
      <3>. HIDE DEF copy, m
      <3>9. ASSUME NEW f \in frozen'
            PROVE  state'.schema_locked /\ Structure(state') = f
        BY <3>5, <3>6, <3>7, <3>8
      <3>. QED
        BY <3>9 DEF LockedSchemaIsFrozen
    <2>. QED
      BY <1>2, <2>1, <2>2
  <1>. QED
    BY <1>1, <1>2, PolicyInvariant, PTL DEF Spec

\* Only `correct' leaves a required item skipped that was not: no other role
\* gets there, by any operations in any order.
THEOREM PolicySkips == Spec => RequiredSkipIsPrivileged
  <1>1. ASSUME Good(state), [Next]_vars, ~UNCHANGED vars,
               NEW i \in DOMAIN state'.items,
               state'.items[i].required, state'.items[i].status = "skipped",
               ~(i \in Items /\ state.items[i].status = "skipped")
        PROVE  corrected'
    <2>1. PICK r \in Requests : Accept(r)
      BY <1>1 DEF Next
    <2>2. r.privileged /\ corrected' = r.privileged
      BY <1>1, <2>1, AcceptApplied DEF Applied, Effect, Items
    <2>3. r.privileged \in BOOLEAN
      BY PolicyAssumption
    <2>. QED
      BY <2>2, <2>3
  <1>2. ASSUME Good(state), [Next]_vars, ~UNCHANGED vars
        PROVE  \A i \in DOMAIN state'.items :
                  /\ state'.items[i].required
                  /\ state'.items[i].status = "skipped"
                  /\ ~(i \in Items /\ state.items[i].status = "skipped")
                  => corrected'
    BY <1>1, <1>2
  <1>. QED
    BY <1>2, PolicyInvariant, PTL DEF Spec, RequiredSkipIsPrivileged
=============================================================================
