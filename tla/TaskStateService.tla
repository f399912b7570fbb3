-------------------------- MODULE TaskStateService --------------------------
(***************************************************************************)
(* AtMem's authority over governed task state                              *)
(* (atmem/task_state/service.py) on top of its SQLite tables               *)
(* (atmem/store/sqlite.py).                                                *)
(*                                                                         *)
(* Every caller (a CLI command, a dashboard request, a host turn, the      *)
(* maintenance thread) opens its own connection.  Reads are autocommitted, *)
(* so a call works on rows that may be stale by the time it writes; each   *)
(* write is one BEGIN IMMEDIATE transaction.  A call is therefore a short  *)
(* program: one atomic step per read and one per transaction, and between  *)
(* two of its steps any other caller may run, time may pass, or the        *)
(* calling process may die.                                                *)
(*                                                                         *)
(* A row and the head revision it names are read in one step: revisions    *)
(* are immutable, so only forgetting the task could tell the difference.   *)
(* A timestamp is any instant between the read a call decided on and its   *)
(* transaction, which is where clock.now() is called.                      *)
(***************************************************************************)
EXTENDS Integers, Sequences, FiniteSets

CONSTANTS
    Clients,        \* concurrent callers of the service
    Maintainers,    \* maintenance threads: they only run the expiry scan
    Crashable,      \* callers whose process may die in the middle of a call
    TaskIds,
    Submissions,    \* proposals callers may submit
    Targets,        \* lifecycle targets operators may ask for
    Expectations,   \* expected revisions an operator may name, or None
    Content,        \* task snapshots, without lifecycle and bookkeeping
    InitialContent,
    PolicyEligible(_),      \* policy.py: the role may nominate a change
    PolicyDecide(_, _, _),    \* policy.py: what a delta does to a snapshot
    PolicyComplete(_),     \* models.py: no completion blocker is left
    MaxAbsoluteAge,     \* expiry rule bound to each task, or None
    MaxNoProgressAge,
    ScanLimit,      \* rows one maintenance scan looks at
    RebuildLimit,   \* revisions the pause audit looks at: 1000 in the code
    ReuseIds,       \* may a forgotten task id be started again?
    MaxRevision,    \* bound: no new call once a head is this high
    MaxNow,         \* bound on the clock
    None

Callers == Clients \cup Maintainers

Lifecycle == {"open", "paused", "completed", "cancelled", "expired"}
Terminal  == {"completed", "cancelled", "expired"}
Rules     == {"expired_absolute_age", "expired_no_progress"}
Outcome   == {"accepted", "rejected", "conflict", "no_change"}

Decision == [outcome : Outcome \cup {"value_error"}, content : Content,
             progress : BOOLEAN]

\* Rows of the tables, and what a reader of a task holds.
Row == [lifecycle : Lifecycle, head_revision : Nat \ {0}, created_at : Nat,
        last_progress_at : Nat, paused_at : Nat \cup {None},
        no_progress_paused : Nat]

Revision == [parent : Nat \cup {None}, lifecycle : Lifecycle, content : Content,
             at : Nat, progress : BOOLEAN, rule : Rules \cup {None}]

Views == [row : Row, state : Revision]

\* The constants are what the code's configuration and contracts allow.
ASSUME ConstantsAssumption ==
    /\ Crashable \subseteq Callers
    /\ Targets \subseteq {"open", "paused", "completed", "cancelled"}
    /\ Expectations \subseteq Nat \cup {None}
    /\ MaxAbsoluteAge \in [TaskIds -> Nat \cup {None}]
    /\ MaxNoProgressAge \in [TaskIds -> Nat \cup {None}]
    /\ ScanLimit \in Nat \ {0}
    /\ RebuildLimit \in Nat \ {0}
    /\ ReuseIds \in BOOLEAN
    /\ MaxRevision \in Nat
    /\ MaxNow \in Nat

\* What a task is to an observer: see Ledger.
Entries == [revision : Nat \ {0}, lifecycle : Lifecycle, content : Content]

\* None is no number, no name, no identifier, no row, no view and no entry.
ASSUME NoneAssumption ==
    /\ None \notin Row \cup Views
    /\ None \notin Entries
    /\ None \notin Nat
    /\ None \notin Lifecycle \cup Rules
    /\ None \notin TaskIds
    /\ None \notin Submissions
    /\ \A p \in Submissions : p.id # None

\* The policy is a total function from snapshots and deltas to decisions, and
\* an accepted delta really changes the snapshot (the semantic digest).
ASSUME PolicyAssumption ==
    /\ InitialContent \in Content
    /\ \A p \in Submissions : p.task \in TaskIds
    /\ \A s \in Content, p \in Submissions :
          /\ PolicyDecide(s, p.delta, p.privileged) \in Decision
          /\ PolicyDecide(s, p.delta, p.privileged).outcome # "conflict"
          /\ PolicyDecide(s, p.delta, p.privileged).outcome = "accepted"
                => PolicyDecide(s, p.delta, p.privileged).content # s

VARIABLES
    tasks,       \* governed_tasks: the row of each task, or None
    revisions,   \* governed_task_revisions: by task, then revision number
    proposals,   \* governed_task_proposals, by task
    steps,       \* governed_task_steps, by task, in sequence order
    forgotten,   \* task ids that were deleted at least once
    now,         \* the trusted clock
    pc,          \* where each caller is inside its current call
    call,        \* what each caller's current call holds, or None
    answer       \* what the last step returned to its caller, or None

tables == <<tasks, revisions, proposals, steps, forgotten>>
vars   == <<tables, now, pc, call, answer>>

-----------------------------------------------------------------------------
(* Tables. *)

Extend(f, key, value) ==
    [k \in DOMAIN f \cup {key} |-> IF k = key THEN value ELSE f[k]]

\* Mutant: neither the primary key nor the one-successor index.
CanInsertRevision_NoKeys(t, parent) == tasks[t] # None

\* insert_task_revision: primary key, one-successor index and foreign key.
CanInsertRevision(t, parent) ==
    /\ tasks[t] # None
    /\ parent + 1 \notin DOMAIN revisions[t]
    /\ \A n \in DOMAIN revisions[t] : revisions[t][n].parent # parent

\* Mutant: the proposals table has no unique key.
CanInsertProposal_NoKeys(t, p) == TRUE

\* Primary key on the proposal id, unique (task, idempotency key).
CanInsertProposal(t, p) ==
    /\ \A u \in TaskIds : \A q \in proposals[u] : q.id # p.id
    /\ \A q \in proposals[t] : q.key # p.key

\* A row as read, with the head revision it names (_view).
View(t) == [row |-> tasks[t], state |-> revisions[t][tasks[t].head_revision]]

Payload(p) == <<p.task, p.base, p.delta>>

(* Expiry rule: expiry_status. *)

PausedTime(row, at) ==
    row.no_progress_paused +
        (IF row.paused_at = None THEN 0 ELSE at - row.paused_at)

NoProgressAge(row, at) ==
    LET age == (at - row.last_progress_at) - PausedTime(row, at)
    IN  IF age > 0 THEN age ELSE 0

\* Mutant: the absolute age is one unit ahead.
DueReason_OneEarly(t, row, at) ==
    IF MaxAbsoluteAge[t] # None /\ at + 1 - row.created_at >= MaxAbsoluteAge[t]
    THEN "expired_absolute_age"
    ELSE None

DueReason(t, row, at) ==
    IF MaxAbsoluteAge[t] # None /\ at - row.created_at >= MaxAbsoluteAge[t]
    THEN "expired_absolute_age"
    ELSE IF MaxNoProgressAge[t] # None
              /\ NoProgressAge(row, at) >= MaxNoProgressAge[t]
    THEN "expired_no_progress"
    ELSE None

(* evaluate: eligibility, lifecycle and base revision, then the policy. *)

\* Mutant: a terminal task still takes proposals.
Evaluate_TerminalOpen(v, p) ==
    LET said(o) == [outcome |-> o, content |-> v.state.content,
                    progress |-> FALSE]
    IN  IF ~PolicyEligible(p.delta) \/ v.state.lifecycle = "paused"
        THEN said("rejected")
        ELSE IF p.base # v.row.head_revision
        THEN said("conflict")
        ELSE PolicyDecide(v.state.content, p.delta, p.privileged)

\* Mutant: the proposal is decided on whatever the head is.
Evaluate_AnyBase(v, p) ==
    LET said(o) == [outcome |-> o, content |-> v.state.content,
                    progress |-> FALSE]
    IN  IF \/ ~PolicyEligible(p.delta)
           \/ v.state.lifecycle \in Terminal \cup {"paused"}
        THEN said("rejected")
        ELSE PolicyDecide(v.state.content, p.delta, p.privileged)

Evaluate(v, p) ==
    LET said(o) == [outcome |-> o, content |-> v.state.content,
                    progress |-> FALSE]
    IN  IF \/ ~PolicyEligible(p.delta)
           \/ v.state.lifecycle \in Terminal \cup {"paused"}
        THEN said("rejected")
        ELSE IF p.base # v.row.head_revision
        THEN said("conflict")
        ELSE PolicyDecide(v.state.content, p.delta, p.privileged)

-----------------------------------------------------------------------------
(* Calls. *)

NewCall(op, t) ==
    [op |-> op, task |-> t, stage |-> op, proposal |-> None, target |-> None,
     expect |-> None, rule |-> None, view |-> None, at |-> 0, queue |-> {}]

Goto(c, label, k) ==
    /\ pc' = [pc EXCEPT ![c] = label]
    /\ call' = [call EXCEPT ![c] = k]
    /\ answer' = None

Return(c, k, code) ==
    /\ pc' = [pc EXCEPT ![c] = "idle"]
    /\ call' = [call EXCEPT ![c] = None]
    /\ answer' = [caller |-> c, op |-> k.op, task |-> k.task, code |-> code]

\* What a call does once it holds a current view of its task.
Proceed(c, k, v) ==
    \/ /\ k.stage = "get"
       /\ Return(c, k, "ok")
    \/ /\ k.stage = "submit"
       /\ IF Evaluate(v, k.proposal).outcome = "value_error"
          THEN Return(c, k, "value_error")
          ELSE Goto(c, "submit_commit", [k EXCEPT !.view = v, !.at = now])
    \/ /\ k.stage = "check"
       /\ IF v.row.head_revision # k.expect
          THEN Return(c, k, "stale_base_revision")
          ELSE Goto(c, IF k.target = "completed" THEN "gate" ELSE "lifecycle", k)
    \/ /\ k.stage = "lifecycle"
       /\ IF v.row.lifecycle \in Terminal THEN Return(c, k, "task_is_terminal")
          ELSE IF v.row.lifecycle = k.target THEN Return(c, k, "ok")
          ELSE Goto(c, "lifecycle_commit", [k EXCEPT !.view = v, !.at = now])

\* Read the row, and expire the task first when its rule is due.
Load(c, k) ==
    \/ /\ tasks[k.task] = None
       /\ Return(c, k, "task_not_eligible")
    \/ /\ tasks[k.task] # None
       /\ LET row  == tasks[k.task]
              rule == DueReason(k.task, row, now)
          IN  IF row.lifecycle \notin Terminal /\ rule # None
              THEN Goto(c, "expire_read", [k EXCEPT !.rule = rule])
              ELSE Proceed(c, k, View(k.task))

Room(t) == tasks[t] # None => tasks[t].head_revision < MaxRevision

(* start *)

StartRead(c, t) ==
    /\ pc[c] = "idle"
    /\ ReuseIds \/ t \notin forgotten
    /\ LET k == NewCall("start", t) IN
       IF tasks[t] # None THEN Return(c, k, "existing")
       ELSE Goto(c, "start_commit", [k EXCEPT !.at = now])
    /\ UNCHANGED <<tables, now>>

StartCommit(c) ==
    /\ pc[c] = "start_commit"
    /\ LET t == call[c].task IN
       \/ /\ tasks[t] # None
          /\ Return(c, call[c], "integrity_error")
          /\ UNCHANGED tables
       \/ /\ tasks[t] = None
          /\ \E at \in call[c].at .. now :
             /\ tasks' = [tasks EXCEPT ![t] =
                   [lifecycle |-> "open", head_revision |-> 1,
                    created_at |-> at, last_progress_at |-> at,
                    paused_at |-> None, no_progress_paused |-> 0]]
             /\ revisions' = [revisions EXCEPT ![t] = Extend(@, 1,
                   [parent |-> None, lifecycle |-> "open",
                    content |-> InitialContent, at |-> at,
                    progress |-> FALSE, rule |-> None])]
          /\ steps' = [steps EXCEPT ![t] = Append(@,
                [proposal |-> None, outcome |-> "accepted", resulting |-> 1])]
          /\ Return(c, call[c], "ok")
          /\ UNCHANGED <<proposals, forgotten>>
    /\ UNCHANGED now

(* submit, and correct with its privileged proposals *)

SubmitRead(c, p) ==
    /\ pc[c] = "idle"
    /\ Room(p.task)
    /\ LET k == [NewCall("submit", p.task) EXCEPT !.proposal = p] IN
       IF \E q \in proposals[p.task] : q.key = p.key /\ tasks[p.task] # None
       THEN IF \E q \in proposals[p.task] :
                   q.key = p.key /\ q.payload # Payload(p)
            THEN Return(c, k, "task_not_eligible")
            ELSE Return(c, k, "replayed")
       ELSE Load(c, k)
    /\ UNCHANGED <<tables, now>>

\* advance_task_head as _commit calls it.
AdvancedRow(row, progress, at) ==
    [row EXCEPT !.head_revision = @ + 1,
                !.last_progress_at = IF progress THEN at ELSE @]

\* _commit: one transaction.  An insert that collides is caught and turned
\* into a conflict; a proposal that was recorded meanwhile rolls back; a task
\* deleted meanwhile fails the foreign key of the step row.
SubmitCommit(c) ==
    /\ pc[c] = "submit_commit"
    /\ LET k         == call[c]
           t         == k.task
           p         == k.proposal
           v         == k.view
           d         == Evaluate(v, p)
           base      == v.row.head_revision
           inserted  == d.outcome = "accepted" /\ CanInsertRevision(t, base)
           advanced  == inserted /\ tasks[t].head_revision = base
           outcome   == IF d.outcome = "accepted" /\ ~advanced
                        THEN "conflict" ELSE d.outcome
           resulting == IF advanced THEN base + 1
                        ELSE IF outcome = "no_change" THEN base ELSE None
       IN  \/ /\ tasks[t] # None /\ CanInsertProposal(t, p)
              /\ \E at \in k.at .. now :
                 /\ revisions' = IF ~inserted THEN revisions
                       ELSE [revisions EXCEPT ![t] = Extend(@, base + 1,
                              [parent |-> base, lifecycle |-> v.state.lifecycle,
                               content |-> d.content, at |-> at,
                               progress |-> d.progress, rule |-> None])]
                 /\ tasks' = IF ~advanced THEN tasks
                       ELSE [tasks EXCEPT ![t] = AdvancedRow(@, d.progress, at)]
              /\ proposals' = [proposals EXCEPT ![t] = @ \cup
                    {[id |-> p.id, key |-> p.key, payload |-> Payload(p),
                      outcome |-> outcome, resulting |-> resulting]}]
              /\ steps' = [steps EXCEPT ![t] = Append(@,
                    [proposal |-> p.id, outcome |-> outcome,
                     resulting |-> resulting])]
              /\ Return(c, k, outcome)
              /\ UNCHANGED forgotten
           \/ /\ tasks[t] # None /\ ~CanInsertProposal(t, p)
              /\ Return(c, k, "task_not_eligible")
              /\ UNCHANGED tables
           \/ /\ tasks[t] = None
              /\ Return(c, k, IF CanInsertProposal(t, p)
                              THEN "integrity_error" ELSE "task_not_eligible")
              /\ UNCHANGED tables
    /\ UNCHANGED now

(* pause, resume, complete, cancel *)

\* change_task_lifecycle (dashboard) and its CLI twin: the expected revision
\* is compared on a read of its own, then the service call begins.
LifecycleRequest(c, t, target, expect) ==
    /\ pc[c] = "idle"
    /\ Room(t)
    /\ LET k == [NewCall("lifecycle", t) EXCEPT !.target = target,
                                                !.expect = expect]
       IN  IF expect # None THEN Load(c, [k EXCEPT !.stage = "check"])
           ELSE Goto(c, IF target = "completed" THEN "gate" ELSE "lifecycle", k)
    /\ UNCHANGED <<tables, now>>

\* complete: the gates are evaluated on a read of their own.
CompletionGate(c) ==
    /\ pc[c] = "gate"
    /\ LET k == call[c] IN
       \/ tasks[k.task] = None /\ Return(c, k, "task_not_eligible")
       \/ /\ tasks[k.task] # None
          /\ IF PolicyComplete(View(k.task).state.content)
             THEN Goto(c, "lifecycle", k)
             ELSE Return(c, k, "required_items_incomplete")
    /\ UNCHANGED <<tables, now>>

LifecycleRead(c) ==
    /\ pc[c] = "lifecycle"
    /\ Load(c, [call[c] EXCEPT !.stage = "lifecycle"])
    /\ UNCHANGED <<tables, now>>

\* Mutants of the pause accounting: operands swapped; never counted; the
\* pause stays open.
PauseClosed_Swapped(seen, target, at) ==
    IF target # "paused" /\ seen.paused_at # None THEN seen.paused_at - at ELSE 0
PauseClosed_Dropped(seen, target, at) == 0
PausedAt_Kept(stored, seen, target, at) ==
    IF target = "paused" THEN at ELSE stored.paused_at

\* Opening a pause records when it began; leaving one adds its length.
PauseClosed(seen, target, at) ==
    IF target # "paused" /\ seen.paused_at # None THEN at - seen.paused_at ELSE 0

PausedAt(stored, seen, target, at) ==
    IF target = "paused" THEN at
    ELSE IF seen.paused_at # None THEN None ELSE stored.paused_at

\* Mutant: the head is not advanced.
MovedRow_HeadStays(stored, seen, target, at) ==
    [stored EXCEPT !.lifecycle = target,
                   !.paused_at = PausedAt(stored, seen, target, at),
                   !.no_progress_paused = @ + PauseClosed(seen, target, at)]

\* advance_task_head as _lifecycle calls it: `stored' is the row in the table,
\* `seen' the row the call read.
MovedRow(stored, seen, target, at) ==
    [stored EXCEPT !.head_revision = seen.head_revision + 1,
                   !.lifecycle = target,
                   !.paused_at = PausedAt(stored, seen, target, at),
                   !.no_progress_paused = @ + PauseClosed(seen, target, at)]

\* The transaction of _lifecycle, shared by operators and expiry.
ChangeLifecycle(k, target, rule) ==
    LET t    == k.task
        row  == k.view.row
        base == row.head_revision
    IN  \E at \in k.at .. now :
        /\ revisions' = [revisions EXCEPT ![t] = Extend(@, base + 1,
              [parent |-> base, lifecycle |-> target,
               content |-> k.view.state.content, at |-> at,
               progress |-> FALSE, rule |-> rule])]
        /\ tasks' = [tasks EXCEPT ![t] = MovedRow(@, row, target, at)]
        /\ steps' = [steps EXCEPT ![t] = Append(@,
              [proposal |-> None, outcome |-> "accepted",
               resulting |-> base + 1])]
        /\ UNCHANGED <<proposals, forgotten>>

\* Mutant: the head the call read is not compared with the stored one.
LifecycleCommit_NoCompare(c) ==
    /\ pc[c] = "lifecycle_commit"
    /\ LET k == call[c] IN
       /\ CanInsertRevision(k.task, k.view.row.head_revision)
       /\ ChangeLifecycle(k, k.target, None)
       /\ Goto(c, "confirm", k)
    /\ UNCHANGED now

LifecycleCommit(c) ==
    /\ pc[c] = "lifecycle_commit"
    /\ LET k    == call[c]
           base == k.view.row.head_revision
       IN  \/ /\ CanInsertRevision(k.task, base)
              /\ tasks[k.task].head_revision = base
              /\ ChangeLifecycle(k, k.target, None)
              /\ Goto(c, "confirm", [k EXCEPT !.view = None, !.at = 0])
           \/ /\ CanInsertRevision(k.task, base)
              /\ tasks[k.task].head_revision # base
              /\ Return(c, k, "stale_base_revision")
              /\ UNCHANGED tables
           \/ /\ ~CanInsertRevision(k.task, base)
              /\ Return(c, k, "integrity_error")
              /\ UNCHANGED tables
    /\ UNCHANGED now

\* _lifecycle ends by reading the task it changed; an expiry then goes on in
\* the call that found it due.
Confirm(c) ==
    /\ pc[c] = "confirm"
    /\ LET k == call[c] IN
       \/ tasks[k.task] = None /\ Return(c, k, "task_not_eligible")
       \/ /\ tasks[k.task] # None
          /\ IF k.rule # None THEN Goto(c, "reload", k) ELSE Return(c, k, "ok")
    /\ UNCHANGED <<tables, now>>

(* Expiry: _expire_if_due, inside whatever call found the rule due. *)

\* _lifecycle(EXPIRED) reads the row again, but not the clock's verdict.
ExpireRead(c) ==
    /\ pc[c] = "expire_read"
    /\ LET k == call[c] IN
       \/ /\ tasks[k.task] = None
          /\ Return(c, k, "task_not_eligible")
       \/ /\ tasks[k.task] # None
          /\ IF tasks[k.task].lifecycle \in Terminal
             THEN Goto(c, "reload", k)
             ELSE Goto(c, "expire_commit",
                       [k EXCEPT !.view = View(k.task), !.at = now])
    /\ UNCHANGED <<tables, now>>

ExpireCommit(c) ==
    /\ pc[c] = "expire_commit"
    /\ LET k    == call[c]
           base == k.view.row.head_revision
           next == [k EXCEPT !.view = None, !.at = 0]
       IN  \/ /\ CanInsertRevision(k.task, base)
              /\ tasks[k.task].head_revision = base
              /\ ChangeLifecycle(k, "expired", k.rule)
              /\ Goto(c, "confirm", next)
           \/ /\ CanInsertRevision(k.task, base)
              /\ tasks[k.task].head_revision # base
              /\ Goto(c, "reload", next)
              /\ UNCHANGED tables
           \/ /\ ~CanInsertRevision(k.task, base)
              /\ Return(c, k, "integrity_error")
              /\ UNCHANGED tables
    /\ UNCHANGED now

\* _expire_if_due returns the row as it now is; a call that finds it gone
\* falls back to its old row and trips over the missing head revision.
Reload(c) ==
    /\ pc[c] = "reload"
    /\ LET k == [call[c] EXCEPT !.rule = None] IN
       \/ /\ k.stage = "scan"
          /\ Goto(c, "scan", k)
       \/ /\ k.stage # "scan" /\ tasks[k.task] = None
          /\ Return(c, k, "assertion_error")
       \/ /\ k.stage # "scan" /\ tasks[k.task] # None
          /\ Proceed(c, k, View(k.task))
    /\ UNCHANGED <<tables, now>>

(* get and list *)

Get(c, t) ==
    /\ pc[c] = "idle"
    /\ Load(c, NewCall("get", t))
    /\ UNCHANGED <<tables, now>>

(* The maintenance scan: tasks_due_for_expiry_scan, then one task a time. *)

Live == {t \in TaskIds : tasks[t] # None /\ tasks[t].lifecycle \notin Terminal}

\* The oldest ScanLimit live tasks.
ScanPages ==
    {S \in SUBSET Live :
        /\ Cardinality(S) = (IF Cardinality(Live) < ScanLimit
                             THEN Cardinality(Live) ELSE ScanLimit)
        /\ \A s \in S, t \in Live \ S :
               tasks[s].created_at <= tasks[t].created_at}

ScanRead(c) ==
    /\ pc[c] = "idle"
    /\ \E S \in ScanPages :
          Goto(c, "scan", [NewCall("scan", None) EXCEPT
                             !.queue = {[task |-> t, row |-> tasks[t]] : t \in S}])
    /\ UNCHANGED <<tables, now>>

\* The first row of the page that is left.
Oldest(queue) ==
    {e \in queue : \A f \in queue : e.row.created_at <= f.row.created_at}

\* Mutant: the scan ends at the first task that is not due.
ScanNext_StopsEarly(c) ==
    /\ pc[c] = "scan"
    /\ LET k == call[c] IN
       \/ k.queue = {} /\ Return(c, k, "ok")
       \/ \E e \in Oldest(k.queue) :
          LET rule == DueReason(e.task, e.row, now) IN
          IF rule = None THEN Return(c, k, "ok")
          ELSE Goto(c, "expire_read", [k EXCEPT !.task = e.task, !.rule = rule,
                                                !.queue = @ \ {e}])
    /\ UNCHANGED <<tables, now>>

\* scan_for_expiry on the next row; no row left ends the scan.
ScanNext(c) ==
    /\ pc[c] = "scan"
    /\ LET k == call[c] IN
       \/ k.queue = {} /\ Return(c, k, "ok")
       \/ \E e \in Oldest(k.queue) :
          LET rule == DueReason(e.task, e.row, now) IN
          IF rule = None
          THEN Goto(c, "scan", [k EXCEPT !.task = None, !.queue = @ \ {e}])
          ELSE Goto(c, "expire_read", [k EXCEPT !.task = e.task, !.rule = rule,
                                                !.queue = @ \ {e}])
    /\ UNCHANGED <<tables, now>>

(* forget: everything derived from the task goes in one transaction. *)

Forget(c, t) ==
    /\ pc[c] = "idle"
    /\ LET k == NewCall("forget", t) IN
       \/ /\ tasks[t] = None
          /\ Return(c, k, "task_not_eligible")
          /\ UNCHANGED tables
       \/ /\ tasks[t] # None
          /\ tasks' = [tasks EXCEPT ![t] = None]
          /\ revisions' = [revisions EXCEPT ![t] = <<>>]
          /\ proposals' = [proposals EXCEPT ![t] = {}]
          /\ steps' = [steps EXCEPT ![t] = <<>>]
          /\ forgotten' = forgotten \cup {t}
          /\ Return(c, k, "ok")
    /\ UNCHANGED now

(* Environment. *)

\* The process dies between two database calls; SQLite rolls back whatever
\* was not committed.
Crash(c) ==
    /\ pc[c] # "idle"
    /\ Goto(c, "idle", None)
    /\ UNCHANGED <<tables, now>>

Tick ==
    /\ now < MaxNow
    /\ now' = now + 1
    /\ answer' = None
    /\ UNCHANGED <<tables, pc, call>>

-----------------------------------------------------------------------------
Init ==
    /\ tasks = [t \in TaskIds |-> None]
    /\ revisions = [t \in TaskIds |-> <<>>]
    /\ proposals = [t \in TaskIds |-> {}]
    /\ steps = [t \in TaskIds |-> <<>>]
    /\ forgotten = {}
    /\ now = 0
    /\ pc = [c \in Callers |-> "idle"]
    /\ call = [c \in Callers |-> None]
    /\ answer = None

ClientStep(c) ==
    \/ \E t \in TaskIds : StartRead(c, t) \/ Get(c, t) \/ Forget(c, t)
    \/ \E p \in Submissions : SubmitRead(c, p)
    \/ \E t \in TaskIds, target \in Targets, expect \in Expectations :
          LifecycleRequest(c, t, target, expect)
    \/ StartCommit(c)
    \/ SubmitCommit(c)
    \/ CompletionGate(c)
    \/ LifecycleRead(c)
    \/ LifecycleCommit(c)

ExpiryStep(c) ==
    ExpireRead(c) \/ ExpireCommit(c) \/ Confirm(c) \/ Reload(c)

MaintenanceStep(c) == ScanRead(c) \/ ScanNext(c) \/ ExpiryStep(c)

Next ==
    \/ \E c \in Clients : ClientStep(c) \/ ExpiryStep(c)
    \/ \E m \in Maintainers : MaintenanceStep(m)
    \/ \E c \in Crashable : Crash(c)
    \/ Tick

Spec == Init /\ [][Next]_vars

\* The maintenance loop runs for the life of the service (maintenance.py,
\* _run: it waits an interval, runs, and survives any error).
FairSpec == Spec /\ \A m \in Maintainers : WF_vars(MaintenanceStep(m))

-----------------------------------------------------------------------------
(* Properties. *)

Step == [proposal : {p.id : p \in Submissions} \cup {None}, outcome : Outcome,
         resulting : Nat \cup {None}]

Decided == [id : {p.id : p \in Submissions}, key : {p.key : p \in Submissions},
            payload : {Payload(p) : p \in Submissions}, outcome : Outcome,
            resulting : Nat \cup {None}]

Labels == {"idle", "start_commit", "submit_commit", "gate", "lifecycle",
           "lifecycle_commit", "expire_read", "expire_commit", "confirm",
           "reload", "scan"}

Commits == {"submit_commit", "lifecycle_commit", "expire_commit"}

\* Everything a call in progress may hold.
Calls == [op : {"start", "submit", "lifecycle", "get", "scan"},
          task : TaskIds \cup {None},
          stage : {"start", "submit", "check", "lifecycle", "get", "scan"},
          proposal : Submissions \cup {None}, target : Targets \cup {None},
          expect : Expectations \cup {None}, rule : Rules \cup {None},
          view : Views \cup {None}, at : Nat,
          queue : SUBSET [task : TaskIds, row : Row]]

\* What a call holds at each of its steps, whatever the tables say.
CallAt(label, k) ==
    /\ k \in Calls
    /\ IF label = "scan" THEN k.stage = "scan" ELSE k.task \in TaskIds
    /\ k.stage = "submit" => k.proposal # None /\ k.proposal.task = k.task
    /\ k.stage \in {"check", "lifecycle"} => k.target # None
    /\ label \in {"gate", "lifecycle", "lifecycle_commit"}
           => k.stage \in {"check", "lifecycle"}
    /\ label \in {"expire_read", "expire_commit"} => k.rule # None
    /\ label \in Commits => k.view # None
    /\ label \in Commits /\ k.view.row.paused_at # None
           => k.view.row.paused_at <= k.at
    /\ label = "submit_commit" =>
          /\ k.stage = "submit"
          /\ Evaluate(k.view, k.proposal).outcome # "value_error"

\* Every table and every call in flight has the shape the schema gives it; no
\* pause began in the future, so accumulated pauses are never negative.
TypeOK ==
    /\ tasks \in [TaskIds -> Row \cup {None}]
    /\ DOMAIN revisions = TaskIds /\ DOMAIN proposals = TaskIds
    /\ steps \in [TaskIds -> Seq(Step)]
    /\ \A t \in TaskIds :
          /\ DOMAIN revisions[t] \subseteq Nat \ {0}
          /\ \A n \in DOMAIN revisions[t] : revisions[t][n] \in Revision
          /\ proposals[t] \subseteq Decided
          /\ tasks[t] # None /\ tasks[t].paused_at # None
                => tasks[t].paused_at <= now
    /\ forgotten \subseteq TaskIds
    /\ now \in Nat
    /\ pc \in [Callers -> Labels]
    /\ DOMAIN call = Callers
    /\ \A c \in Callers : pc[c] = "idle" \/ CallAt(pc[c], call[c])

\* service.py, _view: "a task always has its head revision stored", and so is
\* every ancestor of it, even when a forgotten id is started again while
\* calls on its former incarnation are still in flight.
HeadRevisionStored ==
    \A t \in TaskIds : tasks[t] # None =>
        /\ 1 .. tasks[t].head_revision \subseteq DOMAIN revisions[t]
        /\ \A n \in 2 .. tasks[t].head_revision : revisions[t][n].parent = n - 1

\* Tasks whose id was never forgotten: whatever is in flight about them is
\* about this very task.
Intact == {t \in TaskIds : tasks[t] # None /\ t \notin forgotten}

\* Two guarantees of docs/governed-task-state.md: history never forks (at most
\* one successor of a revision), and it has no gap: the revisions of a task
\* are 1 to its head, each the child of the one before, in time order.
HistoryIsLinear ==
    \A t \in Intact :
        /\ DOMAIN revisions[t] = 1 .. tasks[t].head_revision
        /\ \A n \in 2 .. tasks[t].head_revision :
              /\ revisions[t][n].parent = n - 1
              /\ revisions[t][n].at >= revisions[t][n - 1].at

\* What a call is about to write was computed from a state the task really
\* had: the revision it read is still there, and the row it read is the
\* stored row unless the head has moved on since.
ViewsAreHistory ==
    \A c \in Callers :
        pc[c] \in Commits /\ call[c].task \in TaskIds \ forgotten =>
            LET k == call[c] IN
            /\ tasks[k.task] # None
            /\ k.view.row.head_revision \in DOMAIN revisions[k.task]
            /\ revisions[k.task][k.view.row.head_revision] = k.view.state
            /\ k.view.row.lifecycle = k.view.state.lifecycle
            /\ \/ k.view.row = tasks[k.task]
               \/ k.view.row.head_revision < tasks[k.task].head_revision

\* The columns of the task row are a cache of the history: the lifecycle, the
\* open pause and the instant of last progress are those of the revisions,
\* whatever calls raced to move the head.
RowAgreesWithHistory ==
    \A t \in Intact :
        LET row     == tasks[t]
            head    == revisions[t][row.head_revision]
            advances == {n \in DOMAIN revisions[t] :
                            n = 1 \/ revisions[t][n].progress}
        IN  /\ row.lifecycle = head.lifecycle
            /\ row.paused_at = IF head.lifecycle = "paused"
                               THEN head.at ELSE None
            /\ row.created_at = revisions[t][1].at
            /\ \E n \in advances : /\ \A m \in advances : m <= n
                                  /\ row.last_progress_at = revisions[t][n].at

\* list_task_revisions, as the audit calls it: the oldest revisions, up to a
\* limit.
AuditedRevisions(t) ==
    IF tasks[t].head_revision <= RebuildLimit THEN tasks[t].head_revision
    ELSE RebuildLimit

\* rebuild_task_pause_accounting: completed pauses derived from the chain.
RebuiltPausedTime(t) ==
    LET acc[n \in 0 .. AuditedRevisions(t)] ==
            IF n = 0 THEN [since |-> None, total |-> 0]
            ELSE LET r == revisions[t][n]
                     p == acc[n - 1]
                 IN  IF r.lifecycle = "paused" /\ p.since = None
                     THEN [p EXCEPT !.since = r.at]
                     ELSE IF r.lifecycle # "paused" /\ p.since # None
                     THEN [since |-> None, total |-> p.total + (r.at - p.since)]
                     ELSE p
    IN  acc[AuditedRevisions(t)].total

\* "Pause accounting is stored as an accumulator for speed and can be rebuilt
\* from the immutable lifecycle revisions for audit; the two must agree."  They
\* do as long as the audit reads the whole history; of a longer one it leaves
\* out the later pauses, and never counts more than the accumulator.
PauseAccountingAgrees ==
    \A t \in Intact :
        /\ RebuiltPausedTime(t) <= tasks[t].no_progress_paused
        /\ tasks[t].head_revision <= RebuildLimit
              => tasks[t].no_progress_paused = RebuiltPausedTime(t)

\* A terminal task leaves history only by being forgotten: until then no call
\* still in flight changes its row again.
TerminalIsFinal ==
    [][\A t \in Intact : tasks[t].lifecycle \in Terminal
          => tasks'[t] \in {tasks[t], None}]_vars

\* No revision and no recorded decision is ever rewritten or lost while the
\* task exists, whatever incarnation of the id a late call was about.
HistoryIsAppendOnly ==
    [][\A t \in TaskIds : tasks[t] # None /\ tasks'[t] # None =>
          /\ proposals[t] \subseteq proposals'[t]
          /\ \A n \in DOMAIN revisions[t] :
                /\ n \in DOMAIN revisions'[t]
                /\ revisions'[t][n] = revisions[t][n]]_vars

\* Decisions are accountable: each request decided once and told in exactly
\* one step; an accepted one produced the successor of the very revision it
\* named, and every revision is accounted for by one accepted step.
DecisionsAreAccountable ==
    \A t \in Intact :
        /\ \A p \in proposals[t] :
              /\ \A q \in proposals[t] : (p.key = q.key \/ p.id = q.id) => p = q
              /\ Cardinality({i \in DOMAIN steps[t] :
                     /\ steps[t][i].proposal = p.id
                     /\ steps[t][i].outcome = p.outcome}) = 1
              /\ p.outcome = "accepted" => p.resulting = p.payload[2] + 1
        /\ \A n \in 1 .. tasks[t].head_revision :
              Cardinality({i \in DOMAIN steps[t] :
                 /\ steps[t][i].outcome = "accepted"
                 /\ steps[t][i].resulting = n}) = 1

\* The last step told its caller that a call on the task succeeded.
Granted(t) ==
    \E c \in Callers, code \in {"ok", "accepted"},
       op \in {"start", "submit", "lifecycle", "get", "scan", "forget"} :
          answer = [caller |-> c, op |-> op, task |-> t, code |-> code]

\* A lifecycle transaction of an operator is through, and its caller only has
\* to read the task back.
Committed(c) == pc[c] = "confirm" /\ call[c].rule = None

\* A call that is refused has changed nothing in any of its steps, but for
\* expiring a task that was due: a task changes only in a step that answers
\* success, by its expiry, or in a lifecycle transaction, whose caller is then
\* refused only if the task was forgotten meanwhile.  (A caller that dies is
\* not answered at all.)
RefusalChangesNothing ==
    [][/\ \A t \in Intact :
             \/ tasks'[t] = tasks[t] /\ revisions'[t] = revisions[t]
             \/ Granted(t)'
             \/ tasks'[t] # None /\ tasks'[t].lifecycle = "expired"
             \/ \E c \in Callers : /\ ~Committed(c) /\ Committed(c)'
                                   /\ call'[c].task = t
       /\ \A c \in Callers : Committed(c) =>
             \/ Committed(c)'
             \/ /\ pc'[c] = "idle"
                /\ \/ answer' = None \/ answer'.code = "ok"
                   \/ call[c].task \in forgotten]_vars

\* Expiry cites its rule, and the instant it is written at bears the rule out.
\* The absolute rule was due then.  A no-progress verdict may be acted on after
\* progress it did not see; what still holds of it is that the task as a whole
\* is at least as old as the rule demands, and that it has such a rule.
ExpiryCitesDueRule ==
    \A t \in Intact :
        \A n \in DOMAIN revisions[t] :
            LET r   == revisions[t][n]
                age == r.at - tasks[t].created_at
            IN  /\ r.lifecycle = "expired" <=> r.rule # None
                /\ r.rule = "expired_absolute_age"
                      => MaxAbsoluteAge[t] # None /\ age >= MaxAbsoluteAge[t]
                /\ r.rule = "expired_no_progress"
                      => MaxNoProgressAge[t] # None /\ age >= MaxNoProgressAge[t]

\* A task whose absolute age is due does not stay live: the maintenance scan
\* retires it even if nobody ever reads it again.
DueTaskExpires ==
    \A t \in TaskIds :
        (tasks[t] # None /\ DueReason(t, tasks[t], now) = "expired_absolute_age")
            ~> (tasks[t] = None \/ tasks[t].lifecycle \in Terminal)

\* What the tables say of each task whose id was never forgotten.
Ledger ==
    [t \in TaskIds |->
        IF t \in forgotten \/ tasks[t] = None THEN None
        ELSE LET head == revisions[t][tasks[t].head_revision]
             IN  [revision |-> tasks[t].head_revision,
                  lifecycle |-> head.lifecycle, content |-> head.content]]

Abstract == INSTANCE TaskLedger WITH ledger <- Ledger, gone <- forgotten

\* Calls of several steps, on rows that may be stale, with crashes between
\* them, change a task as if each took effect at once: every new head is what
\* the policy makes of the head it replaces, or a move of its lifecycle.
TasksAreAtomic == Abstract!Spec

-----------------------------------------------------------------------------
(* A promise of the documentation that the code does not keep.             *)

\* service.py, complete: "Complete a task, but only if the profile's gates are
\* satisfied."  The gates are read before the head that is completed.
CompletedMeansGatesMet ==
    \A t \in TaskIds :
        tasks[t] # None /\ tasks[t].lifecycle = "completed"
            => PolicyComplete(View(t).state.content)
=============================================================================
