----------------------------- MODULE Continuity -----------------------------
(***************************************************************************)
(* Scoped operation authority: atmem/continuity/service.py, the client     *)
(* that runs tools under it (continuity/client.py), and the two operator   *)
(* controls of the evidence service that touch it (capture mode, deletion).*)
(*                                                                         *)
(* The system is one workflow key: a list of operations, each a call of a  *)
(* tool at an external destination.  Every service method is one BEGIN     *)
(* IMMEDIATE transaction under the key transition lock, hence one action.  *)
(* Hosts are not atomic: a run of run_operation asks for an attempt, acts  *)
(* on the destination and reports a receipt.  It may die anywhere, which   *)
(* here is taking no further step; a request of a host that gave up or     *)
(* died may still be delivered, at any later moment, and a receipt twice.  *)
(*                                                                         *)
(* time is real time, at which tools act; the controller reads             *)
(* time - back, and back grows when its clock is set back.                 *)
(***************************************************************************)
EXTENDS Integers, FiniteSets

CONSTANTS
  N,               \* operations a workflow may define
  Capability,      \* operation -> "none", "query" or "idempotent"
  Retention,       \* operation -> how long the destination keeps a key
  Timeout,         \* the destination's time limit for one call
  Lease,           \* 120 s
  Margin,          \* 30 s
  MaxRevisions,    \* 2000
  MaxAttempts,     \* 100 attempts of one operation
  MaxRenewals,     \* 10 renewals of one attempt
  MaxLate,         \* 10 late receipts of one operation
  Attempts,        \* identifiers of calls of run_operation
  NoAttempt,
  HostDelay,       \* bound: from a grant to the dispatch of its tool call
  MaxBack,         \* bound: how far the controller's clock is set back
  MaxIdle,         \* bound: how long nothing is dispatched at first
  MaxTime          \* bound: where the model stops the clock

Operations == 1..N

(* The definition checks of create, and the bounds: what hosts may dawdle  *)
(* and the clock may lose fits into the safety margin.                     *)
ASSUME ContinuityAssumption ==
  /\ N \in Nat \ {0}
  /\ Capability \in [Operations -> {"none", "query", "idempotent"}]
  /\ Retention \in [Operations -> Nat]
  /\ Timeout \in Nat \ {0} /\ Lease \in Nat \ {0} /\ Margin \in Nat
  /\ MaxRevisions \in Nat /\ MaxAttempts \in Nat /\ MaxRenewals \in Nat
  /\ MaxLate \in Nat /\ HostDelay \in Nat /\ MaxBack \in Nat
  /\ MaxIdle \in Nat /\ MaxTime \in Nat
  /\ NoAttempt \notin Attempts
  /\ HostDelay + MaxBack <= Margin
  /\ MaxRevisions >= 3
  /\ \A o \in Operations :
       Capability[o] = "idempotent" => Retention[o] > Timeout + Margin

VARIABLES
  wf,        \* the latest revision of the workflow, or its absence
  capture,   \* the vault's capture mode: "full", or less
  time,      \* real time
  back,      \* how far the controller's clock lags behind it
  att,       \* attempt -> its host's side of run_operation
  dest       \* operation -> what happened at its destination

vars == <<wf, capture, time, back, att, dest>>

Roles == {"operator", "coordinator"}
Never == 0
Statuses == {"pending", "uncertain", "completed", "abandoned"}
Phases == {"new", "asked", "granted", "reporting", "done"}
Modes == {"execute", "query", "no mode"}
Receipts == {"confirmed_succeeded", "unknown", "no receipt"}

OpRecords == [status: Statuses, lease: Attempts \cup {NoAttempt}, until: Int,
              first: Int, attempts: SUBSET Attempts, renewals: Nat, late: Nat]

Workflows == [state: {"live"}, creator: Roles, size: Operations,
              enabled: BOOLEAN, revision: Nat, high: Int,
              ops: [Operations -> OpRecords]]

Absent == [state |-> "absent"]
Deleted == [state |-> "deleted"]

-----------------------------------------------------------------------------
Clock == time - back

(* The documents of the vault that belong to the key: a history of         *)
(* revisions of which the latest counts, or a tombstone.                   *)
Live == wf.state = "live"

Defined == IF Live THEN 1..wf.size ELSE {}

NewOp == [status |-> "pending", lease |-> NoAttempt, until |-> 0,
          first |-> Never, attempts |-> {}, renewals |-> 0, late |-> 0]

Init ==
  /\ wf = Absent
  /\ capture = "full"
  /\ time = MaxBack + 1
  /\ back = 0
  /\ att = [a \in Attempts |-> [phase |-> "new", op |-> 1, mode |-> "no mode",
                                at |-> 0, landed |-> FALSE,
                                receipt |-> "no receipt", got |-> FALSE]]
  /\ dest = [o \in Operations |-> [effects |-> 0, since |-> Never]]

-----------------------------------------------------------------------------
(* _save.  Finishing an attempt and stopping work have room of their own   *)
(* above MAX_REVISIONS; re-enabling stops one revision short of it.        *)
Finishing == {"completed", "needs_confirmation"}
SafetyControl == {"disabled", "abandoned_not_completed"}

\* Mutant: receipts and stops compete with everything else.
RevisionLimit_NoRoom(size, event) ==
  IF event = "enabled" THEN MaxRevisions - 1 ELSE MaxRevisions

RevisionLimit(size, event) ==
  CASE event \in Finishing \cup SafetyControl -> MaxRevisions + size + 2
    [] event = "enabled" -> MaxRevisions - 1
    [] OTHER -> MaxRevisions

ClockAgrees == Clock >= wf.high

MaySave(event) ==
  /\ capture = "full"
  /\ ClockAgrees
  /\ wf.revision < RevisionLimit(wf.size, event)

Saved(w) == [w EXCEPT !.revision = @ + 1, !.high = Clock]

WithOp(w, o, op) == [w EXCEPT !.ops[o] = op]

(* _check_storage_budget counts bytes: a save that neither finishes nor    *)
(* stops work may be refused to a coordinator, and is then rolled back.    *)
MayBeOverBudget == Live /\ wf.creator = "coordinator"

(* create with activate, or disabled for review.  A replay with the same   *)
(* definitions returns the workflow as it is, a different definition and a *)
(* deleted key are refused: neither changes anything.                      *)
Create(role, size, activate) ==
  /\ wf = Absent
  /\ role = "coordinator" => activate /\ size = 1
  /\ capture = "full"
  /\ wf' = [state |-> "live", creator |-> role, size |-> size,
            enabled |-> activate, revision |-> 1, high |-> Clock,
            ops |-> [o \in Operations |-> NewOp]]
  /\ UNCHANGED <<capture, time, back, att, dest>>

(* configure, by the operator.                                             *)
Configure(enabled) ==
  /\ Live
  /\ wf.enabled # enabled
  /\ MaySave(IF enabled THEN "enabled" ELSE "disabled")
  /\ wf' = Saved([wf EXCEPT !.enabled = enabled])
  /\ UNCHANGED <<capture, time, back, att, dest>>

-----------------------------------------------------------------------------
(* begin decides; an attempt is granted to at most one asker at a time.    *)
\* Mutant: earlier work only has to be begun.
EarlierWorkFinished_Begun(o) ==
  \A p \in 1..(o - 1) : wf.ops[p].status # "pending"

EarlierWorkFinished(o) ==
  \A p \in 1..(o - 1) : wf.ops[p].status = "completed"

\* Mutant: no safety margin.
IdempotencyWindowOpen_NoMargin(o) ==
  Clock + Timeout < wf.ops[o].first + Retention[o]

IdempotencyWindowOpen(o) ==
  Clock + Timeout + Margin < wf.ops[o].first + Retention[o]

Action(o) ==
  CASE wf.ops[o].status = "pending" -> "execute"
    [] wf.ops[o].status = "uncertain" /\ Capability[o] = "query" -> "query"
    [] /\ wf.ops[o].status = "uncertain" /\ Capability[o] = "idempotent"
       /\ IdempotencyWindowOpen(o) -> "execute"
    [] OTHER -> "blocked"

Authorized(a, o) ==
  /\ o \in Defined
  /\ ClockAgrees
  /\ wf.enabled /\ capture = "full"
  /\ wf.ops[o].status \in {"pending", "uncertain"}
  /\ EarlierWorkFinished(o)
  /\ a \notin wf.ops[o].attempts
  /\ wf.ops[o].until <= Clock
  /\ Cardinality(wf.ops[o].attempts) < MaxAttempts
  /\ wf.revision < MaxRevisions - 2
  /\ Action(o) # "blocked"

FirstDispatch(op) == IF op.first = Never THEN Clock ELSE op.first

Attempted(op, a) ==
  [op EXCEPT !.status = "uncertain", !.first = FirstDispatch(op), !.lease = a,
             !.until = Clock + Lease, !.attempts = @ \cup {a}, !.renewals = 0]

Grant(a, o) ==
  /\ Authorized(a, o)
  /\ wf' = Saved(WithOp(wf, o, Attempted(wf.ops[o], a)))

(* run_operation: one begin request, not repeated by the client.           *)
Ask(a, o) ==
  /\ att[a].phase = "new"
  /\ o \in Defined
  /\ att' = [att EXCEPT ![a].phase = "asked", ![a].op = o]
  /\ UNCHANGED <<wf, capture, time, back, dest>>

(* The grant reaches the host, which calls the tool.                       *)
BeginGranted(a) ==
  LET o == att[a].op IN
  /\ att[a].phase = "asked"
  /\ Grant(a, o)
  /\ att' = [att EXCEPT ![a].phase = "granted", ![a].mode = Action(o),
                        ![a].at = time]
  /\ UNCHANGED <<capture, time, back, dest>>

(* The answer is lost, or nobody waits for it any more: the request timed  *)
(* out at the host, or the host died, before the request was served.       *)
BeginUnheard(a) ==
  /\ att[a].phase = "asked"
  /\ Grant(a, att[a].op)
  /\ att' = [att EXCEPT ![a].phase = "done"]
  /\ UNCHANGED <<capture, time, back, dest>>

(* A saved receipt is returned instead of an attempt.                      *)
BeginCompleted(a) ==
  LET o == att[a].op IN
  /\ att[a].phase = "asked" /\ o \in Defined
  /\ ClockAgrees /\ wf.enabled /\ capture = "full"
  /\ wf.ops[o].status = "completed"
  /\ att' = [att EXCEPT ![a].phase = "done", ![a].got = TRUE]
  /\ UNCHANGED <<wf, capture, time, back, dest>>

(* Blocked, or refused by an error: RecoveryBlocked at the host.           *)
BeginBlocked(a) ==
  LET o == att[a].op IN
  /\ att[a].phase = "asked"
  /\ ~Authorized(a, o) \/ MayBeOverBudget
  /\ att' = [att EXCEPT ![a].phase = "done"]
  /\ UNCHANGED <<wf, capture, time, back, dest>>

-----------------------------------------------------------------------------
(* The destination, as the tool contract describes it.  A call takes       *)
(* effect within its timeout, whether or not the host lives to see it; an  *)
(* idempotent destination recognises a key it has seen within Retention.   *)
Remembers(o) ==
  /\ Capability[o] = "idempotent"
  /\ dest[o].effects > 0
  /\ time < dest[o].since + Retention[o]

TakeEffect(a) ==
  LET o == att[a].op IN
  /\ att[a].mode = "execute" /\ ~att[a].landed
  /\ time <= att[a].at + HostDelay + Timeout
  /\ att' = [att EXCEPT ![a].landed = TRUE]
  /\ dest' = IF Remembers(o) THEN dest
             ELSE [dest EXCEPT ![o] = [effects |-> @.effects + 1,
                                       since |-> time]]
  /\ UNCHANGED <<wf, capture, time, back>>

(* The callback returns a receipt, or raises: an exception is reported as  *)
(* unknown.  Only a destination that shows the effect confirms it.         *)
Confirms(a) ==
  \/ att[a].mode = "execute" /\ att[a].landed
  \/ att[a].mode = "query" /\ dest[att[a].op].effects > 0

Callback(a, receipt) ==
  /\ att[a].phase = "granted"
  /\ receipt = "confirmed_succeeded" => Confirms(a)
  /\ att' = [att EXCEPT ![a].phase = "reporting", ![a].receipt = receipt]
  /\ UNCHANGED <<wf, capture, time, back, dest>>

-----------------------------------------------------------------------------
(* outcome.  An expired lease still counts as long as nothing superseded   *)
(* it.                                                                     *)
ValidLease(a, o) ==
  wf.ops[o].status = "uncertain" /\ wf.ops[o].lease = a

\* Mutant: any accepted receipt completes the operation.
Finished_Any(op, receipt) ==
  [op EXCEPT !.status = "completed", !.lease = NoAttempt, !.until = 0]

\* Mutant: the reported outcome becomes the status.
Finished_Outcome(op, receipt) ==
  [op EXCEPT !.status = receipt, !.lease = NoAttempt, !.until = 0]

Finished(op, receipt) ==
  [op EXCEPT !.status = IF receipt = "confirmed_succeeded" THEN "completed"
                        ELSE "uncertain",
             !.lease = NoAttempt, !.until = 0]

FinishingEvent(a) ==
  IF att[a].receipt = "confirmed_succeeded" THEN "completed"
  ELSE "needs_confirmation"

MayRecord(a) ==
  /\ att[a].op \in Defined /\ ValidLease(a, att[a].op)
  /\ MaySave(FinishingEvent(a))

Recorded(a) ==
  LET o == att[a].op IN
  /\ MayRecord(a)
  /\ wf' = Saved(WithOp(wf, o, Finished(wf.ops[o], att[a].receipt)))

MayRecordLate(a) ==
  /\ att[a].op \in Defined /\ ~ValidLease(a, att[a].op)
  /\ wf.ops[att[a].op].late < MaxLate
  /\ ClockAgrees /\ capture = "full"

RecordedLate(a) ==
  LET o == att[a].op IN
  /\ MayRecordLate(a)
  /\ wf' = WithOp(wf, o, [wf.ops[o] EXCEPT !.late = @ + 1])

(* The host hears the answer: the result of an accepted, confirmed receipt *)
(* is the result of the operation; anything else is RecoveryBlocked.       *)
Outcome(a) ==
  /\ att[a].phase = "reporting"
  /\ \/ /\ Recorded(a)
        /\ att' = [att EXCEPT ![a].phase = "done",
                     ![a].got = att[a].receipt = "confirmed_succeeded"]
     \/ /\ RecordedLate(a)
        /\ att' = [att EXCEPT ![a].phase = "done"]
  /\ UNCHANGED <<capture, time, back, dest>>

(* The answer is lost, the host is dead, or the receipt is delivered again.*)
OutcomeUnheard(a) ==
  /\ att[a].phase \in {"reporting", "done"} /\ att[a].receipt # "no receipt"
  /\ Recorded(a) \/ RecordedLate(a)
  /\ att' = [att EXCEPT ![a].phase = "done"]
  /\ UNCHANGED <<capture, time, back, dest>>

(* Deleted workflow, too many late receipts, a clock that went back: an    *)
(* error.                                                                  *)
OutcomeRefused(a) ==
  /\ att[a].phase = "reporting"
  /\ ~MayRecord(a)
  /\ ~MayRecordLate(a) \/ MayBeOverBudget
  /\ att' = [att EXCEPT ![a].phase = "done"]
  /\ UNCHANGED <<wf, capture, time, back, dest>>

(* renew, by a host that still holds its grant.                            *)
Renew(a) ==
  LET o == att[a].op IN
  /\ att[a].phase = "granted" /\ o \in Defined
  /\ wf.enabled /\ ValidLease(a, o) /\ Clock <= wf.ops[o].until
  /\ wf.ops[o].renewals < MaxRenewals
  /\ wf.revision < MaxRevisions - 1
  /\ MaySave("lease_renewed")
  /\ wf' = Saved(WithOp(wf, o, [wf.ops[o] EXCEPT !.until = Clock + Lease,
                                                 !.renewals = @ + 1]))
  /\ UNCHANGED <<capture, time, back, att, dest>>

\* Mutant: completed work can be abandoned.
Abandon_Completed(o) ==
  /\ o \in Defined
  /\ wf.ops[o].until <= Clock
  /\ MaySave("abandoned_not_completed")
  /\ wf' = Saved(WithOp(wf, o, [wf.ops[o] EXCEPT !.status = "abandoned",
                                     !.lease = NoAttempt, !.until = 0]))
  /\ UNCHANGED <<capture, time, back, att, dest>>

(* abandon, by the operator.                                               *)
Abandon(o) ==
  /\ o \in Defined
  /\ wf.ops[o].status \in {"pending", "uncertain"}
  /\ wf.ops[o].until <= Clock
  /\ MaySave("abandoned_not_completed")
  /\ wf' = Saved(WithOp(wf, o, [wf.ops[o] EXCEPT !.status = "abandoned",
                                     !.lease = NoAttempt, !.until = 0]))
  /\ UNCHANGED <<capture, time, back, att, dest>>

(* EvidenceService.set_capture_mode.                                       *)
Unresolved ==
  /\ Live
  /\ wf.enabled \/ \E o \in Defined : wf.ops[o].status = "uncertain"

SetCapture(mode) ==
  /\ mode # capture
  /\ mode = "full" \/ ~Unresolved
  /\ capture' = mode
  /\ UNCHANGED <<wf, time, back, att, dest>>

(* EvidenceService.delete_run, at any moment: a tombstone stays.           *)
Delete ==
  /\ Live
  /\ wf' = Deleted
  /\ UNCHANGED <<capture, time, back, att, dest>>

(* Until something was dispatched only the controller's clock against its  *)
(* own high mark matters: MaxIdle bounds the time that passes before.      *)
Dispatched ==
  wf = Deleted \/ \E o \in Defined : wf.ops[o].first # Never

Tick ==
  /\ time < MaxTime
  /\ Dispatched \/ time <= MaxBack + MaxIdle
  /\ time' = time + 1
  /\ UNCHANGED <<wf, capture, back, att, dest>>

SetClockBack ==
  /\ back < MaxBack
  /\ back' = back + 1
  /\ UNCHANGED <<wf, capture, time, att, dest>>

Host(a) ==
  \/ \E o \in Operations : Ask(a, o)
  \/ BeginGranted(a) \/ BeginUnheard(a) \/ BeginCompleted(a) \/ BeginBlocked(a)
  \/ TakeEffect(a)
  \/ \E r \in {"confirmed_succeeded", "unknown"} : Callback(a, r)
  \/ Outcome(a) \/ OutcomeUnheard(a) \/ OutcomeRefused(a)
  \/ Renew(a)

Operator ==
  \/ \E r \in Roles, n \in Operations, b \in BOOLEAN : Create(r, n, b)
  \/ \E b \in BOOLEAN : Configure(b)
  \/ \E o \in Operations : Abandon(o)
  \/ \E m \in {"full", "reduced"} : SetCapture(m)
  \/ Delete

Next ==
  \/ \E a \in Attempts : Host(a)
  \/ Operator
  \/ Tick
  \/ SetClockBack

Spec == Init /\ [][Next]_vars

-----------------------------------------------------------------------------
(* Every variable stays within its type: the documents service.py writes,  *)
(* what a host knows and what a destination counts.                        *)
TypeOK ==
  /\ wf \in Workflows \cup {Absent, Deleted}
  /\ capture \in {"full", "reduced"}
  /\ time \in Nat /\ back \in 0..MaxBack
  /\ att \in [Attempts -> [phase: Phases, op: Operations, mode: Modes,
                           at: Nat, landed: BOOLEAN, receipt: Receipts,
                           got: BOOLEAN]]
  /\ dest \in [Operations -> [effects: Nat, since: Nat]]

(* An operation takes effect at most once, whatever hosts die, answers are *)
(* lost, leases run out and clocks are set back, and even if the workflow  *)
(* is deleted and its key used again: begin hands out a second execution   *)
(* only within the destination's idempotency window.                       *)
EffectAtMostOnce == \A o \in Operations : dest[o].effects <= 1

(* What is saved or returned as a success happened, and what an agent was  *)
(* given as the result is saved: outcome and begin never invent a result   *)
(* nor let a returned one be forgotten, short of deletion.                 *)
ResultsAreReal ==
  /\ \A o \in Defined :
       wf.ops[o].status = "completed" => dest[o].effects > 0
  /\ \A a \in Attempts : att[a].got =>
       /\ dest[att[a].op].effects > 0
       /\ Live => wf.ops[att[a].op].status = "completed"

(* Effects happen in the order of the definition: begin's check of earlier *)
(* work holds up against late grants, late effects and abandoned work.     *)
EffectsInOrder ==
  \A o \in Operations, p \in Operations :
    p < o /\ dest[o].effects > 0 => dest[p].effects > 0

(* A granted attempt can save its receipt and the operator can stop work,  *)
(* at every revision count: _save keeps enough room above MAX_REVISIONS,   *)
(* and the capture mode is not reduced under them.                         *)
RoomToFinish ==
  Live =>
    /\ \A o \in Defined : wf.ops[o].lease # NoAttempt =>
         /\ capture = "full"
         /\ wf.revision < RevisionLimit(wf.size, "completed")
    /\ wf.enabled =>
         /\ capture = "full"
         /\ wf.revision < RevisionLimit(wf.size, "disabled")
    /\ \A o \in Defined : wf.ops[o].status \in {"pending", "uncertain"} =>
         wf.revision < RevisionLimit(wf.size, "abandoned_not_completed")

(* Settled work stays settled: no late receipt, retry or operator action   *)
(* changes a completed or abandoned operation, and a deleted key is never  *)
(* used again.                                                             *)
SettledIsFinal ==
  [][/\ wf = Deleted => wf' = Deleted
     /\ \A o \in Defined :
          wf.ops[o].status \in {"completed", "abandoned"} =>
            wf' = Deleted \/ wf'.ops[o].status = wf.ops[o].status]_vars
=============================================================================
