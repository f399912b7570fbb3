----------------------------- MODULE TaskPolicy -----------------------------
(***************************************************************************)
(* The rules of governed task state, as pure operators: what one typed     *)
(* delta does to one task snapshot (atmem/task_state/policy.py and         *)
(* atmem/task_state/models.py).  Nothing here reads a clock or a table.    *)
(*                                                                         *)
(* A snapshot keeps the fields the rules look at: the phase, the items and *)
(* constraints known so far (functions whose domains grow), the inspected  *)
(* sources and the schema lock.  Texts, titles and evidence references are *)
(* abstracted to members of small sets.                                    *)
(***************************************************************************)
EXTENDS Naturals, Sequences, FiniteSets, SequencesExt

CONSTANTS
    Profile,    \* the task profile bound to the task when it started
    MaxItems,   \* MAX_ITEMS: items one task may hold
    None        \* the Python None

(***************************************************************************)
(* Vocabulary (contracts/task_state.py).                                   *)
(***************************************************************************)
ItemStatus == {"pending", "ready", "running", "blocked", "completed",
               "skipped", "failed"}

Settled(status) == status \in {"completed", "skipped"}

\* Assurance classes from weakest to strongest; the rank is the position.
AssuranceOrder == <<"asserted", "model_interpreted", "rule_extracted",
                    "host_reported", "operator_confirmed",
                    "independently_verified">>

Assurance == Range(AssuranceOrder)

rank == [a \in Assurance |->
            CHOOSE i \in DOMAIN AssuranceOrder : AssuranceOrder[i] = a]

Stronger(current, proposed) ==
    IF rank[proposed] > rank[current] THEN proposed ELSE current

PROPOSING_ROLES == {"atbot_intelligence", "host_agent", "operator",
                    "administrator", "verifier"}

\* The strongest assurance a role may claim; a role not listed has "asserted".
ASSURANCE_CEILING(role) ==
    CASE role = "atbot_intelligence"                -> "model_interpreted"
      [] role = "host_agent"                        -> "host_reported"
      [] role \in {"operator", "administrator"}     -> "operator_confirmed"
      [] role = "verifier"                          -> "independently_verified"
      [] role \in {"policy_evaluator", "atmem_authority"} -> "rule_extracted"
      [] OTHER                                      -> "asserted"

OperationKind == {"set_phase", "set_item_status", "add_item",
    "set_item_content", "set_item_blocker", "add_constraint",
    "satisfy_constraint", "mark_source_inspected", "lock_schema"}

\* An operation that TaskOperation lets a caller build.
WellFormed(op) ==
    /\ op.kind \in OperationKind
    /\ op.kind = "set_item_status" => op.status \in ItemStatus
    /\ op.kind = "add_item" => op.status \in ItemStatus \cup {None}

(***************************************************************************)
(* Profile (contracts/task_state.py, TaskProfile).                         *)
(***************************************************************************)
Phases        == Range(Profile.phases)
InitialPhase  == Profile.phases[1]
TerminalPhase == Profile.phases[Len(Profile.phases)]

(***************************************************************************)
(* Item rules (models.py).                                                 *)
(***************************************************************************)
LEGAL_STATUS_TRANSITIONS ==
    [s \in ItemStatus |->
        CASE s = "pending" -> {"ready", "running", "blocked", "completed",
                               "skipped", "failed"}
          [] s = "ready"   -> {"running", "blocked", "completed", "skipped",
                               "failed"}
          [] s = "running" -> {"completed", "blocked", "failed", "ready"}
          [] s = "blocked" -> {"ready", "skipped", "failed", "pending"}
          [] s = "failed"  -> {"ready", "skipped"}
          [] OTHER         -> {}]

AllowsStatusTransition(current, target) ==
    current = target \/ target \in LEGAL_STATUS_TRANSITIONS[current]

PROGRESS_STATUSES == {"running", "completed", "skipped"}

DependenciesSatisfied(state, item) ==
    \A d \in item.depends_on :
        d \in DOMAIN state.items /\ Settled(state.items[d].status)

\* Everything that still stands between the task and completion.
CompletionBlockers(state) ==
    {<<"item", i>> : i \in {j \in DOMAIN state.items :
        state.items[j].required /\ ~Settled(state.items[j].status)}}
    \cup {<<"kind", k>> : k \in {m \in Profile.required_item_kinds :
        LET matching == {j \in DOMAIN state.items : state.items[j].kind = m}
        IN  matching = {} \/ \E j \in matching : ~Settled(state.items[j].status)}}
    \cup {<<"constraint", c>> : c \in {e \in DOMAIN state.constraints :
        /\ state.constraints[e].required_for_completion
        /\ ~state.constraints[e].satisfied}}

MayComplete(state) == CompletionBlockers(state) = {}

IsProgress(op, state) ==
    IF op.kind = "set_item_status"
    THEN /\ op.item \in DOMAIN state.items
         /\ op.status # state.items[op.item].status
         /\ op.status \in PROGRESS_STATUSES
    ELSE op.kind \in {"set_phase", "satisfy_constraint", "mark_source_inspected"}

(***************************************************************************)
(* Applying one operation to a snapshot that already passed validation.    *)
(***************************************************************************)
Extend(f, key, value) ==
    [k \in DOMAIN f \cup {key} |-> IF k = key THEN value ELSE f[k]]

\* set_item_status: the reason goes where the new status keeps it.
Moved(item, op) ==
    [item EXCEPT !.status = op.status,
                 !.blocker_reason = IF op.status = "blocked"
                                    THEN op.reason ELSE None,
                 !.skip_reason = IF op.status = "skipped"
                                 THEN op.reason ELSE @,
                 !.assurance = Stronger(@, op.assurance)]

\* set_item_blocker.
Blocked(item, op) ==
    [item EXCEPT !.status = "blocked",
                 !.blocker_reason = IF op.reason = None
                                    THEN "blocked" ELSE op.reason]

ApplyOperation(state, op) ==
    CASE op.kind = "set_phase" ->
            [state EXCEPT !.phase = op.phase]
      [] op.kind = "set_item_status" ->
            [state EXCEPT !.items[op.item] = Moved(@, op)]
      [] op.kind = "add_item" ->
            [state EXCEPT !.items = Extend(@, op.item,
                [kind |-> op.kind_label,
                 status |-> IF op.status = None THEN "pending" ELSE op.status,
                 content |-> op.content, depends_on |-> op.depends_on,
                 required |-> op.required, blocker_reason |-> None,
                 skip_reason |-> None, assurance |-> op.assurance])]
      [] op.kind = "set_item_content" ->
            [state EXCEPT !.items[op.item].content = op.content]
      [] op.kind = "set_item_blocker" ->
            [state EXCEPT !.items[op.item] = Blocked(@, op)]
      [] op.kind = "add_constraint" ->
            [state EXCEPT !.constraints = Extend(@, op.constraint,
                [satisfied |-> FALSE, required_for_completion |-> op.required])]
      [] op.kind = "satisfy_constraint" ->
            [state EXCEPT !.constraints[op.constraint].satisfied = TRUE]
      [] op.kind = "mark_source_inspected" ->
            [state EXCEPT !.completed_sources = @ \cup {op.source}]
      [] op.kind = "lock_schema" ->
            [state EXCEPT !.schema_locked = TRUE]

(***************************************************************************)
(* Validation of one operation (policy.py, _validate_operation): one       *)
(* disjunct per refusal, in the code's order, with the reason it cites.    *)
(***************************************************************************)
SCHEMA_OPERATIONS == {"add_item", "add_constraint"}

ReasonRefused_Optional(op) == FALSE     \* mutant

ReasonRefused(op) ==                            \* reason_required
    op.status \in {"skipped", "blocked"} /\ op.reason = None

\* Claiming work is done needs evidence or an assurance that carries it.
EvidenceRefused(op, delta) ==                   \* evidence_required
    /\ op.status = "completed"
    /\ ~delta.evidence
    /\ rank[op.assurance] < rank["host_reported"]
    /\ rank[delta.assurance] < rank["host_reported"]

SkipRefused_Never(op, item, privileged) == FALSE    \* mutant

SkipRefused(op, item, privileged) ==            \* capability_denied
    item.required /\ op.status = "skipped" /\ ~privileged

StatusRefused(op, state, delta, privileged) ==
    LET item == state.items[op.item] IN
    \/ ~AllowsStatusTransition(item.status, op.status)
                                                \* illegal_status_transition
    \/ /\ op.status \in {"running", "completed"}
       /\ ~DependenciesSatisfied(state, item)   \* dependency_unsatisfied
    \/ ReasonRefused(op)
    \/ EvidenceRefused(op, delta)
    \/ SkipRefused(op, item, privileged)

PhaseRefused(op, state) ==
    \/ op.phase \notin Phases                   \* illegal_phase_transition
    \/ /\ op.phase # state.phase
       /\ <<state.phase, op.phase>> \notin Profile.phase_transitions
    \/ op.phase = TerminalPhase /\ ~MayComplete(state)
                                                \* required_items_incomplete

SchemaRefused(op, state) ==                     \* schema_is_locked
    \/ state.schema_locked
    \/ /\ Profile.allow_schema_extension_phases # {}
       /\ state.phase \notin Profile.allow_schema_extension_phases

\* Mutant: an item may name dependencies that come later.
AddItemRefused_Forward(op, state) == op.item \in DOMAIN state.items

AddItemRefused(op, state) ==            \* duplicate_item_id, unknown_item
    \/ op.item \in DOMAIN state.items
    \/ ~(op.depends_on \subseteq DOMAIN state.items)

AddConstraintRefused(op, state) ==              \* unknown_constraint
    op.constraint \in DOMAIN state.constraints

Refused(op, state, delta, privileged) ==
    \/ op.kind \notin Profile.permitted_operations
                                    \* operation_not_permitted_by_profile
    \/ op.kind = "lock_schema" /\ ~privileged   \* capability_denied
    \/ op.kind \in SCHEMA_OPERATIONS /\ SchemaRefused(op, state)
    \/ op.kind = "set_phase" /\ PhaseRefused(op, state)
    \/ op.kind = "add_item" /\ AddItemRefused(op, state)
    \/ /\ op.kind \in {"set_item_status", "set_item_content", "set_item_blocker"}
       /\ op.item \notin DOMAIN state.items    \* unknown_item
    \/ /\ op.kind = "set_item_status"
       /\ op.item \in DOMAIN state.items
       /\ StatusRefused(op, state, delta, privileged)
    \/ /\ op.kind = "satisfy_constraint"        \* unknown_constraint
       /\ op.constraint \notin DOMAIN state.constraints
    \/ op.kind = "add_constraint" /\ AddConstraintRefused(op, state)
    \/ /\ op.kind = "mark_source_inspected"     \* unknown_source
       /\ op.source \notin state.sources_to_inspect

\* TaskItem refuses to exist blocked or skipped without its reason, and an
\* added item never has one; TaskState refuses one item too many.  The
\* ValueError escapes evaluate undecided.
Raises(op, state) ==
    /\ op.kind = "add_item"
    /\ \/ op.status \in {"blocked", "skipped"}
       \/ Cardinality(DOMAIN state.items) >= MaxItems

(***************************************************************************)
(* The decision on a whole delta: operations are validated and applied one *)
(* at a time, so a later one sees an earlier one; the first refusal wins   *)
(* and the snapshot the delta started from is kept.                        *)
(***************************************************************************)
MayPropose(delta) == delta.role \in PROPOSING_ROLES

WorkStep(w, op, delta, privileged) ==
    IF w.verdict # "ok" THEN w
    ELSE IF Refused(op, w.state, delta, privileged)
    THEN [w EXCEPT !.verdict = "rejected"]
    ELSE IF Raises(op, w.state) THEN [w EXCEPT !.verdict = "value_error"]
    ELSE [state |-> ApplyOperation(w.state, op), verdict |-> "ok",
          progress |-> w.progress \/ IsProgress(op, w.state)]

\* Mutant: every operation is validated against the snapshot the delta
\* started from.
WorkAfter_Stale(n, state, delta, privileged) ==
    LET op(k) == delta.operations[k]
        done[k \in 0 .. Len(delta.operations)] ==
            IF k = 0 THEN [state |-> state, verdict |-> "ok", progress |-> FALSE]
            ELSE IF \/ done[k - 1].verdict # "ok"
                    \/ Refused(op(k), state, delta, privileged)
                    \/ Raises(op(k), done[k - 1].state)
            THEN [done[k - 1] EXCEPT !.verdict = "rejected"]
            ELSE [done[k - 1] EXCEPT !.state = ApplyOperation(@, op(k))]
    IN  done[n]

\* The working copy after the first n operations.
WorkAfter(n, state, delta, privileged) ==
    LET done[k \in 0 .. Len(delta.operations)] ==
            IF k = 0 THEN [state |-> state, verdict |-> "ok", progress |-> FALSE]
            ELSE WorkStep(done[k - 1], delta.operations[k], delta, privileged)
    IN  done[n]

Work(state, delta, privileged) ==
    WorkAfter(Len(delta.operations), state, delta, privileged)

\* evaluate (policy.py) after its eligibility and base-revision checks; a
\* proposal always carries an operation (TaskStateProposal).
Decide(state, delta, privileged) ==
    LET work    == Work(state, delta, privileged)
        said(o) == [outcome |-> o, content |-> state, progress |-> FALSE]
    IN  IF rank[delta.assurance] > rank[ASSURANCE_CEILING(delta.role)]
        THEN said("rejected")
        ELSE IF work.verdict # "ok" THEN said(work.verdict)
        ELSE IF work.state = state THEN said("no_change")
        ELSE [outcome |-> "accepted", content |-> work.state,
              progress |-> work.progress]

\* A fresh snapshot (service.start): the profile's first phase, no items yet.
FreshSnapshot(items, constraints, sources) ==
    [phase |-> InitialPhase, items |-> items, constraints |-> constraints,
     sources_to_inspect |-> sources, completed_sources |-> {},
     schema_locked |-> FALSE]
=============================================================================
