------------------------- MODULE MCTaskStateService -------------------------
(***************************************************************************)
(* Small instances of TaskStateService under the real policy: a profile of *)
(* two phases and a task that starts with one required item.               *)
(***************************************************************************)
EXTENDS TaskStateService, TLC

MCProfile ==
    [phases |-> <<"plan", "complete">>,
     phase_transitions |-> {<<"plan", "complete">>},
     required_item_kinds |-> {},
     permitted_operations |-> {"set_item_status", "add_item",
                               "set_item_content"},
     allow_schema_extension_phases |-> {"plan"}]

Policy == INSTANCE TaskPolicy WITH Profile <- MCProfile, MaxItems <- 3

MCMayPropose(d) == Policy!MayPropose(d)
MCDecide(s, d, privileged) == Policy!Decide(s, d, privileged)
MCMayComplete(s) == Policy!MayComplete(s)

MCInitialContent ==
    Policy!FreshSnapshot(
        [i \in {"i1"} |-> [kind |-> "step", status |-> "pending",
            content |-> None, depends_on |-> {}, required |-> TRUE,
            blocker_reason |-> None, skip_reason |-> None,
            assurance |-> "asserted"]], <<>>, {})

Delta(role, op) == [role |-> role, assurance |-> "asserted", evidence |-> TRUE,
                    operations |-> <<op>>]

FinishItem ==
    Delta("host_agent", [kind |-> "set_item_status", item |-> "i1",
        status |-> "completed", reason |-> None, assurance |-> "asserted"])
AddItem ==
    Delta("operator", [kind |-> "add_item", item |-> "i2", status |-> None,
        kind_label |-> "step", content |-> None, depends_on |-> {},
        required |-> TRUE, assurance |-> "asserted"])
DescribeItem ==
    Delta("host_agent", [kind |-> "set_item_content", item |-> "i1",
                         content |-> "text"])
\* An added item may not start blocked: TaskItem raises.
BrokenItem ==
    Delta("operator", [kind |-> "add_item", item |-> "i2", status |-> "blocked",
        kind_label |-> "step", content |-> None, depends_on |-> {},
        required |-> FALSE, assurance |-> "asserted"])

Proposal(id, key, t, base, delta) ==
    [id |-> id, key |-> key, task |-> t, base |-> base, delta |-> delta,
     privileged |-> FALSE]

\* Snapshots reachable by the deltas above, in any order.
Grow(S) == S \cup {MCDecide(s, d, FALSE).content :
                      s \in S, d \in {FinishItem, AddItem, DescribeItem}}
MCContent == Grow(Grow(Grow({MCInitialContent})))

CONSTANTS t1, t2, c1, c2, m1

ClientSymmetry == Permutations(Clients)

NoAge == [t \in TaskIds |-> None]
AgeOne == [t \in TaskIds |-> 1]
AgeTwo == [t \in TaskIds |-> 2]

\* One task: two rival changes of revision 1, one of revision 2 reusing a key.
RivalSubmissions ==
    {Proposal("p1", "k1", t1, 1, FinishItem), Proposal("p2", "k2", t1, 1, AddItem),
     Proposal("p3", "k1", t1, 2, DescribeItem)}

\* The item is finished at revision 1; required work is added at revision 2.
LateWorkSubmissions ==
    {Proposal("p1", "k1", t1, 1, FinishItem), Proposal("p2", "k2", t1, 2, AddItem)}

\* A change of revision 3.
ReuseSubmissions == {Proposal("p1", "k1", t1, 3, DescribeItem)}

\* An added item that cannot be built.
BrokenSubmissions == {Proposal("p1", "k1", t2, 1, BrokenItem)}

\* Only the second task has an age limit.
SecondAges == [t \in TaskIds |-> IF t = t2 THEN 1 ELSE None]
=============================================================================
