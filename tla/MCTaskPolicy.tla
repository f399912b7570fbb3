---------------------------- MODULE MCTaskPolicy ----------------------------
(***************************************************************************)
(* A profile shaped like general-v1 cut to three phases, a task with one   *)
(* required item, and deltas of one or two operations.                     *)
(***************************************************************************)
EXTENDS TaskPolicyMachine

MCProfile ==
    [phases |-> <<"plan", "execute", "complete">>,
     phase_transitions |-> {<<"plan", "execute">>, <<"execute", "execute">>,
                            <<"execute", "complete">>},
     required_item_kinds |-> {"step"},
     permitted_operations |-> {"set_phase", "set_item_status", "add_item",
        "set_item_content", "set_item_blocker", "add_constraint",
        "satisfy_constraint", "mark_source_inspected", "lock_schema"},
     allow_schema_extension_phases |-> {"plan", "execute"}]

MCStart ==
    FreshSnapshot(
        [i \in {"i1"} |-> [kind |-> "step", status |-> "pending",
            content |-> None, depends_on |-> {}, required |-> TRUE,
            blocker_reason |-> None, skip_reason |-> None,
            assurance |-> "asserted"]], <<>>, {"s1"})

(* Operations. *)

SetPhase == {[kind |-> "set_phase", phase |-> p] :
                p \in {"plan", "execute", "complete", "nowhere"}}

Status(i, s, reason, a) == [kind |-> "set_item_status", item |-> i, status |-> s,
                            reason |-> reason, assurance |-> a]

SetStatus(i) ==
    {Status(i, s, None, "asserted") :
        s \in {"running", "completed", "skipped", "blocked"}}
    \cup {Status(i, s, "why", "asserted") : s \in {"skipped", "blocked"}}

AddItem(i, s, depends, a) ==
    [kind |-> "add_item", item |-> i, status |-> s, kind_label |-> "review",
     content |-> None, depends_on |-> depends, required |-> TRUE, assurance |-> a]

Describe == [kind |-> "set_item_content", item |-> "i1", content |-> "text"]
Block    == [kind |-> "set_item_blocker", item |-> "i1", reason |-> None]
Lock     == [kind |-> "lock_schema"]
Inspect  == {[kind |-> "mark_source_inspected", source |-> s] : s \in {"s1", "s2"}}
Constrain == [kind |-> "add_constraint", constraint |-> "k1", required |-> TRUE]
Satisfy  == [kind |-> "satisfy_constraint", constraint |-> "k1"]

(* Requests: who asks, and with what behind the claim. *)

Ask(role, claim, evidence, privileged, ops) ==
    [delta |-> [role |-> role, assurance |-> claim, evidence |-> evidence,
                operations |-> ops], privileged |-> privileged]

Deltas(S) == {<<op>> : op \in S} \cup {<<a, b>> : a \in S, b \in S}

Everyone(ops) ==
    {Ask("host_agent", "asserted", FALSE, FALSE, ops),
     Ask("operator", "operator_confirmed", TRUE, TRUE, ops)}

(* Structure: items that depend on each other, constraints, the lock. *)

StructureOps ==
    {AddItem("i2", None, {"i1"}, "asserted"), AddItem("i2", None, {"i3"}, "asserted"),
     AddItem("i3", None, {"i2"}, "asserted"), AddItem("i3", "blocked", {}, "asserted"),
     AddItem("i4", None, {}, "asserted"), Lock, Constrain, Satisfy}
    \cup Inspect \cup SetPhase

StructureRequests == UNION {Everyone(ops) : ops \in Deltas(StructureOps)}

(* Work: the statuses of two items, one waiting for the other. *)

WorkOps ==
    SetStatus("i1") \cup SetStatus("i2")
    \cup {Status("i1", "ready", None, "asserted"), Block, Describe,
          Status("i1", "failed", None, "asserted")}

\* Single operations, and an item added and then moved by one delta.
WorkRequests ==
    UNION {Everyone(<<op>>) : op \in WorkOps}
    \cup UNION {Everyone(<<AddItem("i2", None, {"i1"}, "asserted"), op>>) :
                    op \in SetStatus("i1") \cup SetStatus("i2")}

\* Any structure change after any work.
PolicyRequests == StructureRequests \cup WorkRequests
=============================================================================
