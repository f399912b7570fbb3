------------------------- MODULE TaskPolicyMachine -------------------------
(***************************************************************************)
(* One task under a stream of requests: the snapshots that the rules of    *)
(* TaskPolicy let a sequence of accepted deltas reach.  A refused delta    *)
(* leaves the snapshot alone, so only accepted ones are steps.  Revision   *)
(* numbers, lifecycle and races belong to TaskStateService.                *)
(***************************************************************************)
EXTENDS TaskPolicy

CONSTANTS
    Requests,       \* pairs of a delta and whether `correct' submits it
    StartSnapshot   \* what service.start stored as revision 1

\* The fields of a snapshot and of an item that the rules look at.
SnapshotFields == {"phase", "items", "constraints", "sources_to_inspect",
                   "completed_sources", "schema_locked"}
ItemFields == {"kind", "status", "content", "depends_on", "required",
               "blocker_reason", "skip_reason", "assurance"}

\* What TaskItem and TaskState check when they are built: reasons recorded,
\* dependencies known and not on oneself, at most MAX_ITEMS items.  The
\* profile of a snapshot has its phase, and only named sources are inspected.
Readable(s) ==
    /\ s.phase \in Phases
    /\ Cardinality(DOMAIN s.items) <= MaxItems
    /\ s.completed_sources \subseteq s.sources_to_inspect
    /\ \A i \in DOMAIN s.items :
          LET item == s.items[i] IN
          /\ item.status \in ItemStatus
          /\ item.status = "blocked" => item.blocker_reason # None
          /\ item.status = "skipped" => item.skip_reason # None
          /\ item.depends_on \subseteq DOMAIN s.items \ {i}

\* No set of items waits on itself: some item of any non-empty set depends on
\* nothing inside it.
Acyclic(items) ==
    \A S \in SUBSET DOMAIN items : S # {} =>
        \E i \in S : items[i].depends_on \cap S = {}

\* What service.start stores is a TaskState that could be built, of finitely
\* many items; a delta is a sequence of operations that could be built.
ASSUME PolicyAssumption ==
    /\ MaxItems \in Nat
    /\ None # "blocked"
    /\ DOMAIN StartSnapshot = SnapshotFields
    /\ IsFiniteSet(DOMAIN StartSnapshot.items)
    /\ \A i \in DOMAIN StartSnapshot.items :
          DOMAIN StartSnapshot.items[i] = ItemFields
    /\ Readable(StartSnapshot)
    /\ \A r \in Requests :
          LET ops == r.delta.operations IN
          /\ r.privileged \in BOOLEAN
          /\ ops \in Seq(Range(ops))
          /\ \A n \in DOMAIN ops : WellFormed(ops[n])

VARIABLES
    state,      \* the head snapshot
    corrected,  \* did a privileged correction produce it?
    frozen      \* history: every structure the task had while it was locked

vars == <<state, corrected, frozen>>

\* What the schema lock is there to protect.
Structure(s) ==
    [items |-> [i \in DOMAIN s.items |->
                   <<s.items[i].depends_on, s.items[i].required>>],
     constraints |-> DOMAIN s.constraints]

Locked(S) == {Structure(s) : s \in {t \in S : t.schema_locked}}

\* The snapshots a delta goes through, operation by operation.
Copies(r) ==
    {WorkAfter(n, state, r.delta, r.privileged).state :
        n \in 0 .. Len(r.delta.operations)}

Init ==
    /\ state = StartSnapshot
    /\ corrected = FALSE
    /\ frozen = Locked({StartSnapshot})

\* submit and correct, for a task that is open and a base that is current.
Accept(r) ==
    LET d == Decide(state, r.delta, r.privileged) IN
    /\ MayPropose(r.delta)
    /\ d.outcome = "accepted"
    /\ state' = d.content
    /\ corrected' = r.privileged
    /\ frozen' = frozen \cup Locked(Copies(r))

Next == \E r \in Requests : Accept(r)

Spec == Init /\ [][Next]_vars

-----------------------------------------------------------------------------
(* Properties. *)

Items == DOMAIN state.items

\* Every stored snapshot can be read back: TaskItem and TaskState refuse to
\* be built from a row with a missing reason, an unknown dependency or too
\* many items, which would make the task unreadable for ever.
SnapshotReadable == Readable(state)

\* Required work can always be finished in some order: no item ever comes to
\* wait, through others, for itself.
DependenciesAcyclic == Acyclic(state.items)

\* Once locked, the structure of the task never changes again: not by a
\* later delta, not by a privileged correction, and not by the operations
\* that follow lock_schema in the delta that locked it, because evaluate
\* validates every operation against its working copy.
LockedSchemaIsFrozen ==
    \A f \in frozen : state.schema_locked /\ Structure(state) = f

\* "It may not correct state, skip required work": only a privileged
\* correction leaves a required item skipped, however many operations of
\* however many deltas it takes.
RequiredSkipIsPrivileged ==
    [][\A i \in DOMAIN state'.items :
          /\ state'.items[i].required
          /\ state'.items[i].status = "skipped"
          /\ ~(i \in Items /\ state.items[i].status = "skipped")
          => corrected']_vars
=============================================================================
