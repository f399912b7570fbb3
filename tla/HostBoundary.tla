---------------------------- MODULE HostBoundary ----------------------------
(***************************************************************************)
(* How a conversation of a host reaches a governed task: session bindings  *)
(* (atmem/task_state/binding.py), the setting of the scope (enablement.py),*)
(* the gate sequence of host writes (host_boundary.py) and the delivery of *)
(* task context (ControlPlaneManager.prepare_task_context), in one scope.  *)
(*                                                                         *)
(* Every call reads the setting, the binding and the task on reads of      *)
(* their own, on an autocommit connection, while the operator changes each *)
(* of them and conversations are reset.  What a write does to the task is  *)
(* TaskStateService's business: here a task is there or not, in its        *)
(* incarnation, and open, paused or terminal.                              *)
(***************************************************************************)
EXTENDS Naturals, FiniteSets

CONSTANTS
  Tasks,
  Sessions,     \* session keys of hosts
  Hosts,        \* slots for calls of hosts
  Operators,    \* slots for operators who bind a conversation
  None,
  MaxEpoch,     \* bound: conversations had under one session key
  MaxInc        \* bound: times a task identifier is started

ASSUME BoundaryAssumption ==
  /\ None \notin Tasks \cup Sessions
  /\ MaxEpoch \in Nat \ {0} /\ MaxInc \in Nat \ {0}

Epochs == 1..MaxEpoch
Settings == {"disabled", "shadow", "active"}
Lifecycles == {"absent", "open", "paused", "terminal"}
Kinds == {"write", "prepare"}
Phases == {"idle", "setting", "binding", "act", "record", "acted"}

VARIABLES
  mode,        \* the latest enablement event of the scope
  task,        \* task -> its lifecycle and which incarnation it is
  epoch,       \* session -> the generation its host presents
  bindings,    \* unrevoked rows of governed_task_session_bindings
  deliveries,  \* rows of governed_task_deliveries whose identifier was given
  call,        \* host -> how far its call is
  pending,     \* operator -> the binding it is about to write
  seen         \* history: host -> what the operator allowed during its call

vars == <<mode, task, epoch, bindings, deliveries, call, pending, seen>>

(* A binding, with the incarnation that was read and, as history, whether  *)
(* that incarnation was there when the row was written.                    *)
Rows == [session: Sessions, epoch: Epochs, task: Tasks, expired: BOOLEAN,
         inc: 1..MaxInc, live: BOOLEAN]

Deliveries == [call: Hosts, task: Tasks, exposed: BOOLEAN]

CallRecs == [phase: Phases, kind: Kinds, session: Sessions \cup {None},
             epoch: Epochs, named: Tasks \cup {None}, task: Tasks \cup {None},
             shadow: BOOLEAN]

PendingRows == [session: Sessions, epoch: Epochs, task: Tasks, inc: 1..MaxInc]

Idle == [phase |-> "idle", kind |-> "write", session |-> None, epoch |-> 1,
         named |-> None, task |-> None, shadow |-> FALSE]

NothingSeen == [active |-> FALSE, bound |-> {}]

Init ==
  /\ mode = "disabled"
  /\ task = [t \in Tasks |-> [life |-> "absent", inc |-> 0]]
  /\ epoch = [s \in Sessions |-> 1]
  /\ bindings = {}
  /\ deliveries = {}
  /\ call = [c \in Hosts |-> Idle]
  /\ pending = [o \in Operators |-> None]
  /\ seen = [c \in Hosts |-> NothingSeen]

-----------------------------------------------------------------------------
Exists(t) == task[t].life # "absent"

At(c, kind, phase) == call[c].kind = kind /\ call[c].phase = phase

Goes(c, phase) == call' = [call EXCEPT ![c].phase = phase]

\* Mutant: any generation of the session key will do.
SameKey_AnyEpoch(b, x) == b.session = x.session

(* find_active_session_binding: the exact key, the generation included.    *)
SameKey(b, x) == b.session = x.session /\ b.epoch = x.epoch

(* _active_binding: a row past its lifetime is none.                       *)
Bound(c) == {b.task : b \in {r \in bindings : SameKey(r, call[c]) /\ ~r.expired}}

-----------------------------------------------------------------------------
(* A host write names its task, a request for context may.                 *)
Begin(c, kind, s, t) ==
  /\ call[c].phase = "idle"
  /\ kind = "write" => t # None
  /\ call' = [call EXCEPT ![c] =
       [Idle EXCEPT !.phase = "setting", !.kind = kind, !.session = s, !.epoch = epoch[s],
                    !.named = t]]
  /\ UNCHANGED <<mode, task, epoch, bindings, deliveries, pending>>

(* HostBoundary._enablement, and prepare_task_context's own check: a host  *)
(* write in shadow mode goes through the other gates and commits nothing,  *)
(* context is withheld at once.                                            *)
CheckSetting(c) ==
  LET refused == mode = "disabled" \/ (call[c].kind = "prepare" /\ mode = "shadow")
  IN  /\ call[c].phase = "setting"
      /\ call' = [call EXCEPT ![c] =
           IF refused THEN Idle
           ELSE [@ EXCEPT !.phase = "binding", !.shadow = mode = "shadow"]]
      /\ UNCHANGED <<mode, task, epoch, bindings, deliveries, pending>>

(* resolve: an explicit task, then the binding of this conversation, and   *)
(* nothing when they disagree.                                             *)
Resolved(c, explicit) ==
  IF explicit # None
  THEN IF Bound(c) \subseteq {explicit} THEN explicit ELSE None
  ELSE IF Bound(c) = {} THEN None ELSE CHOOSE t \in Bound(c) : TRUE

(* A write is checked against the binding alone (_bound_task).             *)
Target(c) ==
  LET explicit == IF call[c].kind = "prepare" THEN call[c].named ELSE None
      t == Resolved(c, explicit)
  IN  IF call[c].kind = "write" /\ t # call[c].named THEN None ELSE t

ResolveTask(c) ==
  /\ call[c].phase = "binding"
  /\ call' = [call EXCEPT ![c] =
       IF Target(c) = None \/ call[c].shadow THEN Idle
       ELSE [@ EXCEPT !.phase = "act", !.task = Target(c)]]
  /\ UNCHANGED <<mode, task, epoch, bindings, deliveries, pending>>

(* observe, propose and request_lifecycle: the task service decides on a   *)
(* task that is not terminal, and a lifecycle request moves it.            *)
Write(c, life) ==
  /\ At(c, "write", "act")
  /\ task[call[c].task].life \in {"open", "paused"}
  /\ task' = [task EXCEPT ![call[c].task].life = life]
  /\ Goes(c, "acted")
  /\ UNCHANGED <<mode, epoch, bindings, deliveries, pending>>

(* prepare_task_context reads the task.  Without one, what it withholds    *)
(* has no delivery to confirm.                                             *)
ReadTask(c) ==
  /\ At(c, "prepare", "act")
  /\ call' = [call EXCEPT ![c] =
       IF Exists(call[c].task) THEN [@ EXCEPT !.phase = "record"] ELSE Idle]
  /\ UNCHANGED <<mode, task, epoch, bindings, deliveries, pending>>

(* insert_task_delivery, for the context of an open task and for what is   *)
(* withheld of a paused or terminal one; its foreign key wants the task.   *)
RecordDelivery(c) ==
  /\ At(c, "prepare", "record")
  /\ Exists(call[c].task)
  /\ deliveries' = deliveries \cup
       {[call |-> c, task |-> call[c].task, exposed |-> FALSE]}
  /\ Goes(c, "acted")
  /\ UNCHANGED <<mode, task, epoch, bindings, pending>>

(* confirm_task_exposure, once or again: a row that was exposed, or went   *)
(* with its task, is not updated.                                          *)
Confirm(d) ==
  /\ d \in deliveries /\ ~d.exposed
  /\ deliveries' = (deliveries \ {d}) \cup {[d EXCEPT !.exposed = TRUE]}
  /\ UNCHANGED <<mode, task, epoch, bindings, call, pending>>

(* The call returns, is refused, fails or dies; its slot is used again,    *)
(* and forgets the delivery it made.                                       *)
Return(c) ==
  /\ call[c].phase # "idle"
  /\ call' = [call EXCEPT ![c] = Idle]
  /\ deliveries' = {d \in deliveries : d.call # c}
  /\ UNCHANGED <<mode, task, epoch, bindings, pending>>

-----------------------------------------------------------------------------
\* Mutant: the row is written without a look at the task.
BindRead_Blind(o, s, t) ==
  /\ pending[o] = None
  /\ pending' = [pending EXCEPT ![o] =
       [session |-> s, epoch |-> epoch[s], task |-> t, inc |-> task[t].inc]]
  /\ UNCHANGED <<mode, task, epoch, bindings, deliveries, call>>

(* atmem task bind reads the task, for the conversation a host has now ... *)
BindRead(o, s, t) ==
  /\ pending[o] = None
  /\ Exists(t)
  /\ pending' = [pending EXCEPT ![o] =
       [session |-> s, epoch |-> epoch[s], task |-> t, inc |-> task[t].inc]]
  /\ UNCHANGED <<mode, task, epoch, bindings, deliveries, call>>

(* uq_governed_task_session_bindings_active: no unrevoked row has the key, *)
(* an expired one included.                                                *)
KeyFree(x) == ~\E b \in bindings : SameKey(b, x)

(* ... and inserts the row, which has no foreign key.                      *)
Register(o) ==
  LET x == pending[o] IN
  /\ x # None
  /\ KeyFree(x)
  /\ bindings' = bindings \cup
       {[session |-> x.session, epoch |-> x.epoch, task |-> x.task,
         expired |-> FALSE, inc |-> x.inc,
         live |-> Exists(x.task) /\ task[x.task].inc = x.inc]}
  /\ pending' = [pending EXCEPT ![o] = None]
  /\ UNCHANGED <<mode, task, epoch, deliveries, call>>

(* binding_already_active, or the command is interrupted.                  *)
DropBind(o) ==
  /\ pending[o] # None
  /\ pending' = [pending EXCEPT ![o] = None]
  /\ UNCHANGED <<mode, task, epoch, bindings, deliveries, call>>

(* unbind; the row stays as history and is never resolved again.           *)
Revoke(b) ==
  /\ b \in bindings
  /\ bindings' = bindings \ {b}
  /\ UNCHANGED <<mode, task, epoch, call, deliveries, pending>>

(* The lifetime of a binding passes.                                       *)
Lapse(b) ==
  /\ b \in bindings /\ ~b.expired
  /\ bindings' = (bindings \ {b}) \cup {[b EXCEPT !.expired = TRUE]}
  /\ UNCHANGED <<mode, task, epoch, call, deliveries, pending>>

SetMode(m) ==
  /\ mode # m
  /\ mode' = m
  /\ UNCHANGED <<task, epoch, bindings, call, deliveries, pending>>

(* The host resets the conversation: a new generation.                     *)
Reset(s) ==
  /\ epoch[s] < MaxEpoch
  /\ epoch' = [epoch EXCEPT ![s] = @ + 1]
  /\ UNCHANGED <<mode, task, bindings, call, deliveries, pending>>

StartTask(t) ==
  /\ ~Exists(t) /\ task[t].inc < MaxInc
  /\ task' = [task EXCEPT ![t] = [life |-> "open", inc |-> @.inc + 1]]
  /\ UNCHANGED <<mode, epoch, bindings, call, deliveries, pending>>

(* The operator's and the clock's changes of a task's lifecycle.           *)
MoveTask(t, life) ==
  /\ task[t].life \in {"open", "paused"} /\ task[t].life # life
  /\ task' = [task EXCEPT ![t].life = life]
  /\ UNCHANGED <<mode, epoch, bindings, call, deliveries, pending>>

\* Mutant: the rows of a forgotten task stay.
Derived_None(rows, t) == {}

(* The rows of a table delete_task removes.                                *)
Derived(rows, t) == {r \in rows : r.task = t}

Forget(t) ==
  /\ Exists(t)
  /\ task' = [task EXCEPT ![t].life = "absent"]
  /\ bindings' = bindings \ Derived(bindings, t)
  /\ deliveries' = deliveries \ Derived(deliveries, t)
  /\ UNCHANGED <<mode, epoch, call, pending>>

-----------------------------------------------------------------------------
(* What the operator allows the conversation of a call right now.          *)
Allowed(c) ==
  [active |-> mode = "active",
   bound |-> {b.task : b \in {r \in bindings : /\ r.session = call[c].session
                                               /\ r.epoch = call[c].epoch
                                               /\ ~r.expired}}]

(* The history of a call starts with the state it begins in.               *)
Watch ==
  seen' = [c \in Hosts |->
    IF call'[c].phase = "idle" THEN NothingSeen
    ELSE IF call[c].phase = "acted" THEN seen[c]
    ELSE [active |-> seen[c].active \/ Allowed(c)'.active,
          bound |-> seen[c].bound \cup Allowed(c)'.bound]]

CallStep(c) ==
  \/ \E k \in Kinds, s \in Sessions, t \in Tasks \cup {None} : Begin(c, k, s, t)
  \/ CheckSetting(c)
  \/ ResolveTask(c)
  \/ \E life \in {"open", "paused", "terminal"} : Write(c, life)
  \/ ReadTask(c)
  \/ RecordDelivery(c)
  \/ Return(c)

Operator ==
  \/ \E o \in Operators, s \in Sessions, t \in Tasks : BindRead(o, s, t)
  \/ \E o \in Operators : Register(o) \/ DropBind(o)
  \/ \E b \in bindings : Revoke(b)
  \/ \E m \in Settings : SetMode(m)
  \/ \E t \in Tasks : StartTask(t)
  \/ \E t \in Tasks : Forget(t)

Environment ==
  \/ \E d \in deliveries : Confirm(d)
  \/ \E b \in bindings : Lapse(b)
  \/ \E s \in Sessions : Reset(s)
  \/ \E t \in Tasks, life \in {"open", "paused", "terminal"} : MoveTask(t, life)

Next ==
  /\ \/ \E c \in Hosts : CallStep(c)
     \/ Operator
     \/ Environment
  /\ Watch

Spec == Init /\ [][Next]_vars

-----------------------------------------------------------------------------
(* Every variable keeps its shape: in particular the task a call resolved  *)
(* (resolve) is a task, not the absence of one, once a gate let it act.    *)
TypeOK ==
  /\ mode \in Settings
  /\ task \in [Tasks -> [life: Lifecycles, inc: 0..MaxInc]]
  /\ epoch \in [Sessions -> Epochs]
  /\ bindings \subseteq Rows
  /\ deliveries \subseteq Deliveries
  /\ call \in [Hosts -> CallRecs]
  /\ pending \in [Operators -> PendingRows \cup {None}]
  /\ seen \in [Hosts -> [active: BOOLEAN, bound: SUBSET Tasks]]
  /\ \A t \in Tasks : Exists(t) => task[t].inc > 0
  /\ \A c \in Hosts :
       /\ call[c].phase # "idle" => call[c].session \in Sessions
       /\ call[c].phase \in {"act", "record", "acted"} => call[c].task \in Tasks

(* What the operator withdrew before a call began does not come back       *)
(* through it: a host write that was carried out (HostBoundary.propose,    *)
(* observe, request_lifecycle) or a task context that left                 *)
(* (prepare_task_context) had an active scope during the call, and a write *)
(* a binding of this very conversation to that task; context for another   *)
(* task than the one asked for needs the same binding.                     *)
AuthorityDuringCall ==
  \A c \in Hosts :
    call[c].phase = "acted" =>
      /\ seen[c].active
      /\ call[c].kind = "write" \/ call[c].named # call[c].task =>
           call[c].task \in seen[c].bound

(* Forgetting leaves no derivative behind (delete_task): a binding of a    *)
(* task that was there when it was registered, and every delivery, names   *)
(* a task that is still there, and a binding the incarnation the operator  *)
(* looked at, so a task started later under the identifier inherits no     *)
(* conversation from it.                                                   *)
NoInheritedRows ==
  /\ \A b \in bindings : b.live => Exists(b.task) /\ task[b.task].inc = b.inc
  /\ \A d \in deliveries : Exists(d.task)
=============================================================================
