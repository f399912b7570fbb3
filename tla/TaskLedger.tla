----------------------------- MODULE TaskLedger -----------------------------
(***************************************************************************)
(* What AtMem promises of governed task state, without processes, tables,  *)
(* clocks or retries: a task is one object that changes atomically.  A     *)
(* delta is decided on the very snapshot it replaces and only if it named  *)
(* its revision; a lifecycle move keeps the snapshot; a task that ended    *)
(* changes no more; a forgotten identifier is gone.                        *)
(***************************************************************************)
EXTENDS Naturals

CONSTANTS
    TaskIds,
    Submissions,            \* the proposals anyone may submit
    InitialContent,
    PolicyEligible(_),
    PolicyDecide(_, _, _),
    None

VARIABLES
    ledger,     \* by task: its current state, or None
    gone        \* identifiers that were forgotten

vars == <<ledger, gone>>

Lifecycle == {"open", "paused", "completed", "cancelled", "expired"}
Terminal  == {"completed", "cancelled", "expired"}

Init ==
    /\ ledger = [t \in TaskIds |-> None]
    /\ gone = {}

Start(t) ==
    /\ ledger[t] = None
    /\ t \notin gone
    /\ ledger' = [ledger EXCEPT ![t] =
          [revision |-> 1, lifecycle |-> "open", content |-> InitialContent]]
    /\ UNCHANGED gone

Accept(p) ==
    LET s == ledger[p.task]
        d == PolicyDecide(s.content, p.delta, p.privileged)
    IN  /\ s # None
        /\ s.lifecycle = "open"
        /\ s.revision = p.base
        /\ PolicyEligible(p.delta)
        /\ d.outcome = "accepted"
        /\ ledger' = [ledger EXCEPT ![p.task] =
              [revision |-> s.revision + 1, lifecycle |-> "open",
               content |-> d.content]]
        /\ UNCHANGED gone

Move(t, target) ==
    LET s == ledger[t] IN
    /\ s # None
    /\ s.lifecycle \notin Terminal \cup {target}
    /\ ledger' = [ledger EXCEPT ![t] =
          [revision |-> s.revision + 1, lifecycle |-> target,
           content |-> s.content]]
    /\ UNCHANGED gone

Forget(t) ==
    /\ ledger[t] # None
    /\ gone' = gone \cup {t}
    /\ ledger' = [ledger EXCEPT ![t] = None]

Next ==
    \/ \E t \in TaskIds : Start(t) \/ Forget(t)
    \/ \E p \in Submissions : Accept(p)
    \/ \E t \in TaskIds, target \in Lifecycle : Move(t, target)

Spec == Init /\ [][Next]_vars
=============================================================================
