----------------------- MODULE TaskStateServiceProofs -----------------------
(***************************************************************************)
(* Proofs about TaskStateService, for every number of callers, tasks,      *)
(* proposals and revisions and for every policy that PolicyAssumption      *)
(* admits.                                                                 *)
(***************************************************************************)
EXTENDS TaskStateService, TLAPS

-----------------------------------------------------------------------------
(* Operators. *)

\* Extend adds or replaces one entry and leaves the others alone.
LEMMA ExtendFacts ==
    ASSUME NEW f, NEW key, NEW value
    PROVE  /\ DOMAIN Extend(f, key, value) = DOMAIN f \cup {key}
           /\ Extend(f, key, value)[key] = value
           /\ \A k \in DOMAIN f : k # key => Extend(f, key, value)[k] = f[k]
  BY DEF Extend

\* The policy's answer is a decision, and one that accepts was made about a
\* live task at the very revision the proposal names.
LEMMA EvaluateFacts ==
    ASSUME NEW v \in Views, NEW p \in Submissions
    PROVE  /\ Evaluate(v, p) \in Decision
           /\ Evaluate(v, p).outcome = "accepted"
                 => /\ v.state.lifecycle \notin Terminal
                    /\ p.base = v.row.head_revision
  BY PolicyAssumption
     DEF Evaluate, Views, Row, Revision, Decision, Outcome, Terminal

\* An expiry rule that is due is a rule.
LEMMA DueReasonType ==
    ASSUME NEW t, NEW row, NEW at
    PROVE  DueReason(t, row, at) \in Rules \cup {None}
  BY DEF DueReason, Rules

\* A fresh call holds nothing but its operation and its task.
LEMMA NewCallType ==
    ASSUME NEW op \in {"start", "submit", "lifecycle", "get", "scan"},
           NEW t \in TaskIds \cup {None}
    PROVE  /\ NewCall(op, t) \in Calls
           /\ NewCall(op, t).stage = op
           /\ NewCall(op, t).task = t
  BY DEF NewCall, Calls

-----------------------------------------------------------------------------
(* Types and stored heads.  Inv is inductive: a view is well typed only     *)
(* because the head revision a row names is stored, and the chain up to the *)
(* head is kept only because the revision numbers that calls carry are.     *)

Inv == TypeOK /\ HeadRevisionStored

\* The part of TypeOK that is about the tables, and the part about calls.
TablesOK ==
    /\ tasks \in [TaskIds -> Row \cup {None}]
    /\ DOMAIN revisions = TaskIds /\ DOMAIN proposals = TaskIds
    /\ steps \in [TaskIds -> Seq(Step)]
    /\ \A t \in TaskIds :
          /\ DOMAIN revisions[t] \subseteq Nat \ {0}
          /\ \A n \in DOMAIN revisions[t] : revisions[t][n] \in Revision
          /\ proposals[t] \subseteq Decided
          /\ tasks[t] # None /\ tasks[t].paused_at # None
                => tasks[t].paused_at <= now
    /\ forgotten \subseteq TaskIds
    /\ now \in Nat

CallsOK ==
    /\ pc \in [Callers -> Labels]
    /\ DOMAIN call = Callers
    /\ \A c \in Callers : pc[c] = "idle" \/ CallAt(pc[c], call[c])

LEMMA InvParts == Inv <=> TablesOK /\ HeadRevisionStored /\ CallsOK
  BY DEF Inv, TypeOK, TablesOK, CallsOK

\* A step that leaves the tables and the clock alone keeps Inv when it keeps
\* the calls in order.
LEMMA ReadStep ==
    ASSUME Inv, UNCHANGED <<tables, now>>, CallsOK'
    PROVE  Inv'
  <1>1. TablesOK /\ HeadRevisionStored
    BY InvParts
  <1>2. TablesOK'
    BY <1>1 DEF TablesOK, tables
  <1>3. HeadRevisionStored'
    BY <1>1 DEF HeadRevisionStored, tables
  <1>. QED
    BY <1>2, <1>3 DEF Inv, TypeOK, TablesOK, CallsOK

\* A step that sends one caller to a label with a call fit for that label
\* keeps every caller in order.
LEMMA GotoType ==
    ASSUME CallsOK, NEW c \in Callers, NEW label \in Labels, NEW k,
           label = "idle" \/ CallAt(label, k), Goto(c, label, k)
    PROVE  CallsOK'
  BY DEF CallsOK, Goto

LEMMA ReturnType ==
    ASSUME CallsOK, NEW c \in Callers, NEW k, NEW code, Return(c, k, code)
    PROVE  CallsOK'
  BY DEF CallsOK, Return, Labels

\* The head a row names is stored, so reading it gives a well-typed view.
LEMMA ViewType ==
    ASSUME Inv, NEW t \in TaskIds, tasks[t] # None
    PROVE  /\ View(t) \in Views
           /\ View(t).row = tasks[t]
           /\ View(t).state = revisions[t][tasks[t].head_revision]
           /\ tasks[t].head_revision \in DOMAIN revisions[t]
           /\ tasks[t].paused_at # None => tasks[t].paused_at <= now
           /\ now \in Nat
  <1>1. tasks[t] \in Row
    BY DEF Inv, TypeOK
  <1>2. tasks[t].head_revision \in 1 .. tasks[t].head_revision
    BY <1>1 DEF Row
  <1>3. tasks[t].head_revision \in DOMAIN revisions[t]
    BY <1>2 DEF Inv, HeadRevisionStored
  <1>4. revisions[t][tasks[t].head_revision] \in Revision
    BY <1>3 DEF Inv, TypeOK
  <1>5. tasks[t].paused_at # None => tasks[t].paused_at <= now
    BY DEF Inv, TypeOK
  <1>6. now \in Nat
    BY DEF Inv, TypeOK
  <1>. QED
    BY <1>1, <1>3, <1>4, <1>5, <1>6 DEF View, Views

\* A call on a task, and the view it took of it, is fit for a commit.
LEMMA WithViewType ==
    ASSUME Inv, NEW k, CallAt("reload", k), tasks[k.task] # None
    PROVE  LET w == [k EXCEPT !.view = View(k.task), !.at = now]
           IN  /\ w \in Calls /\ w.view \in Views /\ w.view = View(k.task)
               /\ w.task = k.task /\ w.stage = k.stage /\ w.at = now
               /\ w.proposal = k.proposal /\ w.target = k.target
               /\ w.rule = k.rule /\ w.op = k.op
               /\ w.view.row.paused_at # None => w.view.row.paused_at <= w.at
  <1>1. k \in Calls /\ k.task \in TaskIds
    BY DEF CallAt
  <1>2. View(k.task) \in Views /\ now \in Nat
    BY <1>1, ViewType
  <1>3. View(k.task).row = tasks[k.task]
    BY <1>1, ViewType
  <1>4. tasks[k.task].paused_at # None => tasks[k.task].paused_at <= now
    BY <1>1, ViewType
  <1>. QED
    BY <1>1, <1>2, <1>3, <1>4 DEF Calls

LEMMA ProceedType ==
    ASSUME Inv, NEW c \in Callers, NEW k, CallAt("reload", k),
           tasks[k.task] # None, Proceed(c, k, View(k.task))
    PROVE  CallsOK'
  <1>. DEFINE w == [k EXCEPT !.view = View(k.task), !.at = now]
  <1>0. CallsOK
    BY InvParts
  <1>w. /\ w \in Calls /\ w.view \in Views /\ w.view = View(k.task)
        /\ w.task = k.task /\ w.stage = k.stage /\ w.proposal = k.proposal
        /\ w.target = k.target
        /\ w.view.row.paused_at # None => w.view.row.paused_at <= w.at
    BY WithViewType
  <1>n. None \notin Views
    BY NoneAssumption
  <1>. HIDE DEF w
  <1>1. CASE \E code : Return(c, k, code)
    BY <1>0, <1>1, ReturnType
  <1>2. CASE /\ k.stage = "submit"
             /\ Evaluate(View(k.task), k.proposal).outcome # "value_error"
             /\ Goto(c, "submit_commit", w)
    <2>1. CallAt("submit_commit", w)
      BY <1>2, <1>w, <1>n DEF CallAt, Commits
    <2>. QED
      BY <1>0, <1>2, <2>1, GotoType DEF Labels
  <1>3. CASE /\ k.stage = "check"
             /\ \E label \in {"gate", "lifecycle"} : Goto(c, label, k)
    <2>1. \A label \in {"gate", "lifecycle"} : CallAt(label, k)
      BY <1>3 DEF CallAt, Commits
    <2>. QED
      BY <1>0, <1>3, <2>1, GotoType DEF Labels
  <1>4. CASE k.stage = "lifecycle" /\ Goto(c, "lifecycle_commit", w)
    <2>1. CallAt("lifecycle_commit", w)
      BY <1>4, <1>w, <1>n DEF CallAt, Commits
    <2>. QED
      BY <1>0, <1>4, <2>1, GotoType DEF Labels
  <1>. QED
    BY <1>1, <1>2, <1>3, <1>4 DEF Proceed, w

\* Reading a task, and expiring it first when its rule is due.
LEMMA LoadType ==
    ASSUME Inv, NEW c \in Callers, NEW k, CallAt("reload", k), Load(c, k)
    PROVE  CallsOK'
  <1>. DEFINE rule == DueReason(k.task, tasks[k.task], now)
              w    == [k EXCEPT !.rule = rule]
  <1>0. CallsOK
    BY InvParts
  <1>1. CASE \E code : Return(c, k, code)
    BY <1>0, <1>1, ReturnType
  <1>2. CASE rule # None /\ Goto(c, "expire_read", w)
    <2>1. rule \in Rules \cup {None}
      BY DueReasonType
    <2>2. CallAt("expire_read", w)
      BY <1>2, <2>1 DEF CallAt, Commits, Calls
    <2>. QED
      BY <1>0, <1>2, <2>2, GotoType DEF Labels
  <1>3. CASE tasks[k.task] # None /\ Proceed(c, k, View(k.task))
    BY <1>3, ProceedType
  <1>. QED
    BY <1>1, <1>2, <1>3 DEF Load

(* The steps that only read. *)

LEMMA StartReadInv ==
    ASSUME Inv, NEW c \in Callers, NEW t \in TaskIds, StartRead(c, t)
    PROVE  Inv'
  <1>. DEFINE k == NewCall("start", t)
              w == [k EXCEPT !.at = now]
  <1>1. k \in Calls /\ k.stage = "start" /\ k.task = t
    BY NewCallType
  <1>2. now \in Nat /\ CallsOK
    BY InvParts DEF TablesOK
  <1>. HIDE DEF k
  <1>3. CallAt("start_commit", w)
    BY <1>1, <1>2 DEF CallAt, Calls, Commits
  <1>4. CASE Return(c, k, "existing")
    BY <1>2, <1>4, ReturnType, ReadStep DEF StartRead
  <1>5. CASE Goto(c, "start_commit", w)
    BY <1>2, <1>3, <1>5, GotoType, ReadStep DEF StartRead, Labels
  <1>. QED
    BY <1>4, <1>5 DEF StartRead, k

LEMMA SubmitReadInv ==
    ASSUME Inv, NEW c \in Callers, NEW p \in Submissions, SubmitRead(c, p)
    PROVE  Inv'
  <1>. DEFINE n == NewCall("submit", p.task)
              k == [n EXCEPT !.proposal = p]
  <1>1. p.task \in TaskIds /\ p # None
    BY PolicyAssumption, NoneAssumption
  <1>2. n \in Calls /\ n.stage = "submit" /\ n.task = p.task
    BY <1>1, NewCallType
  <1>. HIDE DEF n
  <1>3. CallAt("reload", k)
    BY <1>1, <1>2 DEF CallAt, Calls, Commits
  <1>4. CallsOK
    BY InvParts
  <1>. HIDE DEF k
  <1>5. CASE \E code : Return(c, k, code)
    BY <1>4, <1>5, ReturnType, ReadStep DEF SubmitRead
  <1>6. CASE Load(c, k)
    BY <1>3, <1>6, LoadType, ReadStep DEF SubmitRead
  <1>. QED
    BY <1>5, <1>6 DEF SubmitRead, k, n

LEMMA GetInv ==
    ASSUME Inv, NEW c \in Callers, NEW t \in TaskIds, Get(c, t)
    PROVE  Inv'
  <1>. DEFINE k == NewCall("get", t)
  <1>1. k \in Calls /\ k.stage = "get" /\ k.task = t
    BY NewCallType
  <1>. HIDE DEF k
  <1>2. CallAt("reload", k)
    BY <1>1 DEF CallAt, Commits
  <1>3. Load(c, k)
    BY DEF Get, k
  <1>. QED
    BY <1>2, <1>3, LoadType, ReadStep DEF Get

LEMMA LifecycleRequestInv ==
    ASSUME Inv, NEW c \in Callers, NEW t \in TaskIds, NEW target \in Targets,
           NEW expect \in Expectations, LifecycleRequest(c, t, target, expect)
    PROVE  Inv'
  <1>. DEFINE n == NewCall("lifecycle", t)
              k == [n EXCEPT !.target = target, !.expect = expect]
              w == [k EXCEPT !.stage = "check"]
  <1>1. n \in Calls /\ n.stage = "lifecycle" /\ n.task = t
    BY NewCallType
  <1>2. target # None
    BY ConstantsAssumption, NoneAssumption DEF Lifecycle
  <1>. HIDE DEF n
  <1>3. k \in Calls /\ k.stage = "lifecycle" /\ k.task = t /\ k.target = target
    BY <1>1 DEF Calls
  <1>4. CallsOK
    BY InvParts
  <1>. HIDE DEF k
  <1>5. CASE Load(c, w)
    <2>1. CallAt("reload", w)
      BY <1>2, <1>3 DEF CallAt, Calls, Commits
    <2>. QED
      BY <1>5, <2>1, LoadType, ReadStep DEF LifecycleRequest
  <1>6. CASE \E label \in {"gate", "lifecycle"} : Goto(c, label, k)
    <2>1. \A label \in {"gate", "lifecycle"} : CallAt(label, k)
      BY <1>2, <1>3 DEF CallAt, Commits
    <2>. QED
      BY <1>4, <1>6, <2>1, GotoType, ReadStep DEF LifecycleRequest, Labels
  <1>. QED
    BY <1>5, <1>6 DEF LifecycleRequest, k, n

LEMMA CompletionGateInv ==
    ASSUME Inv, NEW c \in Callers, CompletionGate(c)
    PROVE  Inv'
  <1>1. CallsOK
    BY InvParts
  <1>2. CallAt("gate", call[c])
    BY <1>1 DEF CompletionGate, CallsOK
  <1>3. CASE \E code : Return(c, call[c], code)
    BY <1>1, <1>3, ReturnType, ReadStep DEF CompletionGate
  <1>4. CASE Goto(c, "lifecycle", call[c])
    <2>1. CallAt("lifecycle", call[c])
      BY <1>2 DEF CallAt, Commits
    <2>. QED
      BY <1>1, <1>4, <2>1, GotoType, ReadStep DEF CompletionGate, Labels
  <1>. QED
    BY <1>3, <1>4 DEF CompletionGate

LEMMA LifecycleReadInv ==
    ASSUME Inv, NEW c \in Callers, LifecycleRead(c)
    PROVE  Inv'
  <1>. DEFINE w == [call[c] EXCEPT !.stage = "lifecycle"]
  <1>1. CallAt("lifecycle", call[c])
    BY InvParts DEF LifecycleRead, CallsOK
  <1>2. CallAt("reload", w)
    BY <1>1 DEF CallAt, Calls, Commits
  <1>3. Load(c, w)
    BY DEF LifecycleRead
  <1>. QED
    BY <1>2, <1>3, LoadType, ReadStep DEF LifecycleRead

LEMMA ConfirmInv ==
    ASSUME Inv, NEW c \in Callers, Confirm(c)
    PROVE  Inv'
  <1>1. CallsOK
    BY InvParts
  <1>2. CallAt("confirm", call[c])
    BY <1>1 DEF Confirm, CallsOK
  <1>3. CASE \E code : Return(c, call[c], code)
    BY <1>1, <1>3, ReturnType, ReadStep DEF Confirm
  <1>4. CASE Goto(c, "reload", call[c])
    <2>1. CallAt("reload", call[c])
      BY <1>2 DEF CallAt, Commits
    <2>. QED
      BY <1>1, <1>4, <2>1, GotoType, ReadStep DEF Confirm, Labels
  <1>. QED
    BY <1>3, <1>4 DEF Confirm

LEMMA ExpireReadInv ==
    ASSUME Inv, NEW c \in Callers, ExpireRead(c)
    PROVE  Inv'
  <1>. DEFINE k == call[c]
              w == [k EXCEPT !.view = View(k.task), !.at = now]
  <1>1. CallsOK
    BY InvParts
  <1>2. CallAt("expire_read", k)
    BY <1>1 DEF ExpireRead, CallsOK
  <1>3. CallAt("reload", k)
    BY <1>2 DEF CallAt, Commits
  <1>. HIDE DEF k
  <1>4. CASE \E code : Return(c, k, code)
    BY <1>1, <1>4, ReturnType, ReadStep DEF ExpireRead
  <1>5. CASE Goto(c, "reload", k)
    BY <1>1, <1>3, <1>5, GotoType, ReadStep DEF ExpireRead, Labels
  <1>6. CASE tasks[k.task] # None /\ Goto(c, "expire_commit", w)
    <2>1. /\ w \in Calls /\ w.view \in Views /\ w.rule = k.rule
          /\ w.task = k.task /\ w.stage = k.stage /\ w.proposal = k.proposal
          /\ w.target = k.target
          /\ w.view.row.paused_at # None => w.view.row.paused_at <= w.at
      BY <1>3, <1>6, WithViewType
    <2>2. None \notin Views
      BY NoneAssumption
    <2>. HIDE DEF w
    <2>3. CallAt("expire_commit", w)
      BY <1>2, <2>1, <2>2 DEF CallAt, Commits
    <2>. QED
      BY <1>1, <1>6, <2>3, GotoType, ReadStep DEF ExpireRead, Labels
  <1>. QED
    BY <1>4, <1>5, <1>6 DEF ExpireRead, k

LEMMA ReloadInv ==
    ASSUME Inv, NEW c \in Callers, Reload(c)
    PROVE  Inv'
  <1>. DEFINE k == [call[c] EXCEPT !.rule = None]
  <1>1. CallsOK
    BY InvParts
  <1>2. CallAt("reload", call[c])
    BY <1>1 DEF Reload, CallsOK
  <1>3. CallAt("reload", k) /\ (k.stage = "scan" => CallAt("scan", k))
    BY <1>2 DEF CallAt, Calls, Commits
  <1>. HIDE DEF k
  <1>4. CASE \E code : Return(c, k, code)
    BY <1>1, <1>4, ReturnType, ReadStep DEF Reload
  <1>5. CASE k.stage = "scan" /\ Goto(c, "scan", k)
    BY <1>1, <1>3, <1>5, GotoType, ReadStep DEF Reload, Labels
  <1>6. CASE tasks[k.task] # None /\ Proceed(c, k, View(k.task))
    BY <1>3, <1>6, ProceedType, ReadStep DEF Reload
  <1>. QED
    BY <1>4, <1>5, <1>6 DEF Reload, k

LEMMA ScanReadInv ==
    ASSUME Inv, NEW c \in Callers, ScanRead(c)
    PROVE  Inv'
  <1>. DEFINE n == NewCall("scan", None)
  <1>1. n \in Calls /\ n.stage = "scan"
    BY NewCallType
  <1>2. CallsOK /\ tasks \in [TaskIds -> Row \cup {None}]
    BY InvParts DEF TablesOK
  <1>. HIDE DEF n
  <1>3. PICK S \in ScanPages :
           Goto(c, "scan", [n EXCEPT !.queue =
                              {[task |-> t, row |-> tasks[t]] : t \in S}])
    BY DEF ScanRead, n
  <1>. DEFINE q == {[task |-> t, row |-> tasks[t]] : t \in S}
              w == [n EXCEPT !.queue = q]
  <1>4. \A t \in S : t \in TaskIds /\ tasks[t] # None
    BY DEF ScanPages, Live
  <1>5. q \subseteq [task : TaskIds, row : Row]
    BY <1>2, <1>4
  <1>. HIDE DEF q
  <1>6. CallAt("scan", w)
    BY <1>1, <1>5 DEF CallAt, Calls, Commits
  <1>7. Goto(c, "scan", w)
    BY <1>3 DEF q
  <1>. QED
    BY <1>2, <1>6, <1>7, GotoType, ReadStep DEF ScanRead, Labels

LEMMA ScanNextInv ==
    ASSUME Inv, NEW c \in Callers, ScanNext(c)
    PROVE  Inv'
  <1>. DEFINE k == call[c]
  <1>1. CallsOK
    BY InvParts
  <1>2. CallAt("scan", k)
    BY <1>1 DEF ScanNext, CallsOK
  <1>. HIDE DEF k
  <1>3. CASE \E code : Return(c, k, code)
    BY <1>1, <1>3, ReturnType, ReadStep DEF ScanNext
  <1>4. ASSUME NEW e \in k.queue,
               Goto(c, "scan", [k EXCEPT !.task = None, !.queue = @ \ {e}])
        PROVE  Inv'
    <2>1. CallAt("scan", [k EXCEPT !.task = None, !.queue = @ \ {e}])
      BY <1>2, NoneAssumption, ZenonT(30) DEF CallAt, Calls, Commits
    <2>. QED
      BY <1>1, <1>4, <2>1, GotoType, ReadStep DEF ScanNext, Labels
  <1>5. ASSUME NEW e \in k.queue, NEW rule \in Rules,
               Goto(c, "expire_read",
                    [k EXCEPT !.task = e.task, !.rule = rule, !.queue = @ \ {e}])
        PROVE  Inv'
    <2>1. CallAt("expire_read",
               [k EXCEPT !.task = e.task, !.rule = rule, !.queue = @ \ {e}])
      BY <1>2, NoneAssumption DEF CallAt, Calls, Commits
    <2>. QED
      BY <1>1, <1>5, <2>1, GotoType, ReadStep DEF ScanNext, Labels
  <1>. QED
    BY <1>3, <1>4, <1>5, DueReasonType DEF ScanNext, Oldest, k

LEMMA CrashInv ==
    ASSUME Inv, NEW c \in Callers, Crash(c)
    PROVE  Inv'
  BY InvParts, GotoType, ReadStep DEF Crash, Labels

(* The steps that write. *)

\* Writing one revision beyond those stored, and advancing the head only from
\* its parent, keeps the chain of every task up to its head.
LEMMA InsertKeepsChain ==
    ASSUME Inv, NEW t \in TaskIds, NEW base \in Nat \ {0}, NEW r \in Revision,
           CanInsertRevision(t, base), r.parent = base,
           revisions' = [revisions EXCEPT ![t] = Extend(@, base + 1, r)],
           \/ tasks' = tasks
           \/ /\ tasks[t].head_revision = base
              /\ \E row \in Row : /\ row.head_revision = base + 1
                                  /\ tasks' = [tasks EXCEPT ![t] = row]
    PROVE  /\ HeadRevisionStored'
           /\ DOMAIN revisions' = TaskIds
           /\ \A u \in TaskIds :
                 /\ DOMAIN revisions'[u] \subseteq Nat \ {0}
                 /\ \A n \in DOMAIN revisions'[u] : revisions'[u][n] \in Revision
  <1>0. TablesOK /\ HeadRevisionStored
    BY InvParts
  <1>1. /\ DOMAIN revisions' = TaskIds
        /\ \A u \in TaskIds : u # t => revisions'[u] = revisions[u]
        /\ revisions'[t] = Extend(revisions[t], base + 1, r)
    BY <1>0 DEF TablesOK
  <1>2. /\ DOMAIN revisions'[t] = DOMAIN revisions[t] \cup {base + 1}
        /\ revisions'[t][base + 1] = r
        /\ \A n \in DOMAIN revisions[t] : revisions'[t][n] = revisions[t][n]
        /\ base + 1 \notin DOMAIN revisions[t]
    <2>1. base + 1 \notin DOMAIN revisions[t]
      BY DEF CanInsertRevision
    <2>2. /\ DOMAIN Extend(revisions[t], base + 1, r)
                = DOMAIN revisions[t] \cup {base + 1}
          /\ Extend(revisions[t], base + 1, r)[base + 1] = r
          /\ \A n \in DOMAIN revisions[t] : n # base + 1
                => Extend(revisions[t], base + 1, r)[n] = revisions[t][n]
      BY DEF Extend
    <2>. QED
      BY <1>1, <2>1, <2>2
  <1>3. \A u \in TaskIds :
           /\ DOMAIN revisions'[u] \subseteq Nat \ {0}
           /\ \A n \in DOMAIN revisions'[u] : revisions'[u][n] \in Revision
    BY <1>0, <1>1, <1>2 DEF TablesOK
  <1>4. ASSUME NEW u \in TaskIds, tasks'[u] # None
        PROVE  /\ 1 .. tasks'[u].head_revision \subseteq DOMAIN revisions'[u]
               /\ \A n \in 2 .. tasks'[u].head_revision :
                     revisions'[u][n].parent = n - 1
    <2>1. CASE u # t
      BY <1>0, <1>1, <1>4, <2>1 DEF TablesOK, HeadRevisionStored
    <2>2. CASE u = t /\ tasks' = tasks
      <3>1. tasks[t] \in Row /\ tasks[t].head_revision \in Nat
        BY <1>0, <1>4, <2>2 DEF TablesOK, Row
      <3>2. /\ 1 .. tasks[t].head_revision \subseteq DOMAIN revisions[t]
            /\ \A n \in 2 .. tasks[t].head_revision :
                  revisions[t][n].parent = n - 1
        BY <1>0, <1>4, <2>2 DEF HeadRevisionStored
      <3>. QED
        BY <1>2, <2>2, <3>1, <3>2
    <2>3. CASE u = t /\ tasks' # tasks
      <3>1. /\ tasks[t].head_revision = base
            /\ tasks'[t].head_revision = base + 1
        BY <1>0, <2>3 DEF TablesOK
      <3>2. /\ 1 .. base \subseteq DOMAIN revisions[t]
            /\ \A n \in 2 .. base : revisions[t][n].parent = n - 1
        BY <1>0, <3>1 DEF HeadRevisionStored, CanInsertRevision
      <3>. QED
        BY <1>2, <2>3, <3>1, <3>2
    <2>. QED
      BY <2>1, <2>2, <2>3
  <1>. QED
    BY <1>1, <1>3, <1>4 DEF HeadRevisionStored

\* The row a lifecycle change writes: its pause total only grows, because no
\* pause began after the instant of the change.
LEMMA MovedRowType ==
    ASSUME NEW stored \in Row, NEW seen \in Row, NEW target \in Lifecycle,
           NEW at \in Nat, seen.paused_at # None => seen.paused_at <= at
    PROVE  /\ MovedRow(stored, seen, target, at) \in Row
           /\ MovedRow(stored, seen, target, at).head_revision
                 = seen.head_revision + 1
           /\ MovedRow(stored, seen, target, at).paused_at
                 \in {at, stored.paused_at, None}
  <1>1. PauseClosed(seen, target, at) \in Nat
    BY DEF PauseClosed, Row
  <1>2. /\ PausedAt(stored, seen, target, at) \in Nat \cup {None}
        /\ PausedAt(stored, seen, target, at) \in {at, stored.paused_at, None}
    BY DEF PausedAt, Row
  <1>3. /\ seen.head_revision + 1 \in Nat \ {0}
        /\ stored.no_progress_paused + PauseClosed(seen, target, at) \in Nat
    BY <1>1 DEF Row
  <1>. QED
    BY <1>2, <1>3 DEF MovedRow, Row

\* The transaction of _lifecycle.
LEMMA ChangeLifecycleInv ==
    ASSUME Inv, NEW k, NEW label \in {"lifecycle_commit", "expire_commit"},
           CallAt(label, k), NEW target \in Lifecycle,
           NEW rule \in Rules \cup {None},
           CanInsertRevision(k.task, k.view.row.head_revision),
           tasks[k.task].head_revision = k.view.row.head_revision,
           ChangeLifecycle(k, target, rule), UNCHANGED now
    PROVE  TablesOK' /\ HeadRevisionStored'
  <1>. DEFINE t    == k.task
              row  == k.view.row
              base == row.head_revision
  <1>1. /\ t \in TaskIds /\ k.view \in Views /\ k.at \in Nat
        /\ row.paused_at # None => row.paused_at <= k.at
    BY DEF CallAt, Calls, Commits
  <1>2. row \in Row /\ base \in Nat \ {0} /\ k.view.state.content \in Content
    BY <1>1 DEF Views, Row, Revision
  <1>3. tasks[t] \in Row /\ now \in Nat /\ TablesOK
    BY <1>1, InvParts DEF TablesOK, CanInsertRevision
  <1>. DEFINE r(at) == [parent |-> base, lifecycle |-> target,
                        content |-> k.view.state.content, at |-> at,
                        progress |-> FALSE, rule |-> rule]
              new(at) == MovedRow(tasks[t], row, target, at)
  <1>4. PICK at \in k.at .. now :
           /\ revisions' = [revisions EXCEPT ![t] = Extend(@, base + 1, r(at))]
           /\ tasks' = [tasks EXCEPT ![t] = new(at)]
           /\ steps' = [steps EXCEPT ![t] = Append(@,
                 [proposal |-> None, outcome |-> "accepted",
                  resulting |-> base + 1])]
           /\ UNCHANGED <<proposals, forgotten>>
    BY <1>1, <1>3 DEF ChangeLifecycle, TablesOK
  <1>5. at \in Nat /\ k.at <= at /\ at <= now
    BY <1>1, <1>3
  <1>6. row.paused_at # None => row.paused_at <= at
    BY <1>1, <1>2, <1>5 DEF Row
  <1>7. /\ new(at) \in Row /\ new(at).head_revision = base + 1
        /\ new(at).paused_at \in {at, tasks[t].paused_at, None}
    <2>0. row \in Row /\ tasks[t] \in Row /\ at \in Nat /\ target \in Lifecycle
      BY <1>2, <1>3, <1>5
    <2>1. MovedRow(tasks[t], row, target, at) \in Row
      BY <2>0, <1>6, MovedRowType
    <2>2. MovedRow(tasks[t], row, target, at).head_revision = base + 1
      BY <2>0, <1>6, MovedRowType
    <2>3. MovedRow(tasks[t], row, target, at).paused_at \in {at, tasks[t].paused_at, None}
      BY <2>0, <1>6, MovedRowType
    <2>. QED BY <2>1, <2>2, <2>3
  <1>8. r(at) \in Revision /\ r(at).parent = base
    BY <1>2, <1>5 DEF Revision
  <1>. HIDE DEF r, new
  <1>9. /\ HeadRevisionStored'
        /\ DOMAIN revisions' = TaskIds
        /\ \A u \in TaskIds :
              /\ DOMAIN revisions'[u] \subseteq Nat \ {0}
              /\ \A n \in DOMAIN revisions'[u] : revisions'[u][n] \in Revision
    BY <1>1, <1>2, <1>4, <1>7, <1>8, InsertKeepsChain
  <1>10. /\ tasks' \in [TaskIds -> Row \cup {None}]
         /\ \A u \in TaskIds : tasks'[u] # None /\ tasks'[u].paused_at # None
               => tasks'[u].paused_at <= now
    <2>1. /\ tasks'[t] = new(at) /\ DOMAIN tasks' = TaskIds
          /\ \A u \in TaskIds : u # t => tasks'[u] = tasks[u]
      BY <1>1, <1>3, <1>4 DEF TablesOK
    <2>2. new(at).paused_at # None => new(at).paused_at <= now
      BY <1>1, <1>3, <1>5, <1>7, NoneAssumption DEF TablesOK
    <2>3. tasks' \in [TaskIds -> Row \cup {None}]
      BY <1>1, <1>3, <1>4, <1>7 DEF TablesOK
    <2>. QED
      BY <1>3, <2>1, <2>2, <2>3 DEF TablesOK
  <1>11. steps' \in [TaskIds -> Seq(Step)]
    <2>1. [proposal |-> None, outcome |-> "accepted", resulting |-> base + 1]
             \in Step
      BY <1>2 DEF Step, Outcome
    <2>. QED
      BY <1>1, <1>3, <1>4, <2>1 DEF TablesOK
  <1>. QED
    BY <1>3, <1>4, <1>9, <1>10, <1>11 DEF TablesOK

LEMMA LifecycleCommitInv ==
    ASSUME Inv, NEW c \in Callers, LifecycleCommit(c)
    PROVE  Inv'
  <1>. DEFINE k == call[c]
              w == [k EXCEPT !.view = None, !.at = 0]
  <1>1. CallsOK
    BY InvParts
  <1>2. CallAt("lifecycle_commit", k)
    BY <1>1 DEF LifecycleCommit, CallsOK
  <1>3. k.target \in Lifecycle
    BY <1>2, ConstantsAssumption DEF CallAt, Calls, Lifecycle
  <1>4. CallAt("confirm", w)
    BY <1>2 DEF CallAt, Calls, Commits
  <1>. HIDE DEF k
  <1>5. CASE /\ CanInsertRevision(k.task, k.view.row.head_revision)
             /\ tasks[k.task].head_revision = k.view.row.head_revision
             /\ ChangeLifecycle(k, k.target, None)
             /\ Goto(c, "confirm", w)
    <2>1. TablesOK' /\ HeadRevisionStored'
      BY <1>2, <1>3, <1>5, ChangeLifecycleInv DEF LifecycleCommit
    <2>2. CallsOK'
      BY <1>1, <1>4, <1>5, GotoType DEF Labels
    <2>. QED
      BY <2>1, <2>2 DEF Inv, TypeOK, TablesOK, CallsOK
  <1>6. CASE (\E code : Return(c, k, code)) /\ UNCHANGED tables
    BY <1>1, <1>6, ReturnType, ReadStep DEF LifecycleCommit
  <1>. QED
    BY <1>5, <1>6 DEF LifecycleCommit, k

LEMMA ExpireCommitInv ==
    ASSUME Inv, NEW c \in Callers, ExpireCommit(c)
    PROVE  Inv'
  <1>. DEFINE k == call[c]
              w == [k EXCEPT !.view = None, !.at = 0]
  <1>1. CallsOK
    BY InvParts
  <1>2. CallAt("expire_commit", k)
    BY <1>1 DEF ExpireCommit, CallsOK
  <1>3. k.rule \in Rules \cup {None} /\ "expired" \in Lifecycle
    BY <1>2 DEF CallAt, Calls, Lifecycle
  <1>4. CallAt("confirm", w) /\ CallAt("reload", w)
    BY <1>2 DEF CallAt, Calls, Commits
  <1>. HIDE DEF k
  <1>5. CASE /\ CanInsertRevision(k.task, k.view.row.head_revision)
             /\ tasks[k.task].head_revision = k.view.row.head_revision
             /\ ChangeLifecycle(k, "expired", k.rule)
             /\ Goto(c, "confirm", w)
    <2>1. TablesOK' /\ HeadRevisionStored'
      BY <1>2, <1>3, <1>5, ChangeLifecycleInv DEF ExpireCommit
    <2>2. CallsOK'
      BY <1>1, <1>4, <1>5, GotoType DEF Labels
    <2>. QED
      BY <2>1, <2>2 DEF Inv, TypeOK, TablesOK, CallsOK
  <1>6. CASE Goto(c, "reload", w) /\ UNCHANGED tables
    BY <1>1, <1>4, <1>6, GotoType, ReadStep DEF ExpireCommit, Labels
  <1>7. CASE (\E code : Return(c, k, code)) /\ UNCHANGED tables
    BY <1>1, <1>7, ReturnType, ReadStep DEF ExpireCommit
  <1>. QED
    BY <1>5, <1>6, <1>7 DEF ExpireCommit, k

LEMMA StartCommitInv ==
    ASSUME Inv, NEW c \in Callers, StartCommit(c)
    PROVE  Inv'
  <1>. DEFINE k == call[c]
              t == k.task
  <1>1. CallsOK /\ TablesOK /\ HeadRevisionStored
    BY InvParts
  <1>2. CallAt("start_commit", k)
    BY <1>1 DEF StartCommit, CallsOK
  <1>3. t \in TaskIds /\ k.at \in Nat /\ now \in Nat
    BY <1>1, <1>2 DEF CallAt, Calls, TablesOK
  <1>4. CASE tasks[t] # None
    BY <1>1, <1>4, ReturnType, ReadStep DEF StartCommit
  <1>5. CASE tasks[t] = None
    <2>. DEFINE row(at) == [lifecycle |-> "open", head_revision |-> 1,
                            created_at |-> at, last_progress_at |-> at,
                            paused_at |-> None, no_progress_paused |-> 0]
                r(at) == [parent |-> None, lifecycle |-> "open",
                          content |-> InitialContent, at |-> at,
                          progress |-> FALSE, rule |-> None]
                step == [proposal |-> None, outcome |-> "accepted",
                         resulting |-> 1]
    <2>1. PICK at \in k.at .. now :
             /\ tasks' = [tasks EXCEPT ![t] = row(at)]
             /\ revisions' = [revisions EXCEPT ![t] = Extend(@, 1, r(at))]
             /\ steps' = [steps EXCEPT ![t] = Append(@, step)]
             /\ Return(c, k, "ok")
             /\ UNCHANGED <<proposals, forgotten, now>>
      BY <1>5 DEF StartCommit
    <2>2. at \in Nat
      BY <1>3
    <2>3. row(at) \in Row /\ row(at).head_revision = 1 /\ row(at).paused_at = None
      BY <2>2 DEF Row, Lifecycle
    <2>4. r(at) \in Revision
      BY <2>2, PolicyAssumption DEF Revision, Lifecycle
    <2>5. step \in Step
      BY DEF Step, Outcome
    <2>. HIDE DEF row, r, step
    <2>6. /\ tasks'[t] = row(at)
          /\ \A u \in TaskIds : u # t => tasks'[u] = tasks[u]
          /\ tasks' \in [TaskIds -> Row \cup {None}]
      BY <1>1, <1>3, <2>1, <2>3 DEF TablesOK
    <2>7. /\ DOMAIN revisions' = TaskIds
          /\ \A u \in TaskIds : u # t => revisions'[u] = revisions[u]
          /\ revisions'[t] = Extend(revisions[t], 1, r(at))
      BY <1>1, <1>3, <2>1 DEF TablesOK
    <2>8. /\ DOMAIN revisions'[t] = DOMAIN revisions[t] \cup {1}
          /\ \A n \in DOMAIN revisions'[t] : revisions'[t][n] \in Revision
      BY <1>1, <1>3, <2>4, <2>7 DEF Extend, TablesOK
    <2>9. steps' \in [TaskIds -> Seq(Step)]
      BY <1>1, <1>3, <2>1, <2>5 DEF TablesOK
    <2>10. TablesOK'
      BY <1>1, <1>3, <2>1, <2>3, <2>6, <2>7, <2>8, <2>9 DEF TablesOK
    <2>11. HeadRevisionStored'
      BY <1>1, <2>3, <2>6, <2>7, <2>8 DEF HeadRevisionStored
    <2>12. CallsOK'
      BY <1>1, <2>1, ReturnType
    <2>. QED
      BY <2>10, <2>11, <2>12 DEF Inv, TypeOK, TablesOK, CallsOK
  <1>. QED
    BY <1>4, <1>5

LEMMA ForgetInv ==
    ASSUME Inv, NEW c \in Callers, NEW t \in TaskIds, Forget(c, t)
    PROVE  Inv'
  <1>. DEFINE k == NewCall("forget", t)
  <1>1. CallsOK /\ TablesOK /\ HeadRevisionStored
    BY InvParts
  <1>2. PICK code : Return(c, k, code)
    BY DEF Forget
  <1>3. CallsOK'
    BY <1>1, <1>2, ReturnType
  <1>4. CASE UNCHANGED tables
    BY <1>3, <1>4, ReadStep DEF Forget
  <1>5. CASE /\ tasks' = [tasks EXCEPT ![t] = None]
             /\ revisions' = [revisions EXCEPT ![t] = <<>>]
             /\ proposals' = [proposals EXCEPT ![t] = {}]
             /\ steps' = [steps EXCEPT ![t] = <<>>]
             /\ forgotten' = forgotten \cup {t}
    <2>1. /\ tasks' \in [TaskIds -> Row \cup {None}] /\ tasks'[t] = None
          /\ \A u \in TaskIds : u # t => tasks'[u] = tasks[u]
      BY <1>1, <1>5 DEF TablesOK
    <2>2. /\ DOMAIN revisions' = TaskIds /\ revisions'[t] = <<>>
          /\ \A u \in TaskIds : u # t => revisions'[u] = revisions[u]
      BY <1>1, <1>5 DEF TablesOK
    <2>3. /\ DOMAIN proposals' = TaskIds
          /\ \A u \in TaskIds : proposals'[u] \subseteq Decided
      BY <1>1, <1>5 DEF TablesOK
    <2>4. steps' \in [TaskIds -> Seq(Step)]
      BY <1>1, <1>5 DEF TablesOK
    <2>5. TablesOK'
      BY <1>1, <1>5, <2>1, <2>2, <2>3, <2>4 DEF TablesOK, Forget
    <2>6. HeadRevisionStored'
      BY <1>1, <2>1, <2>2 DEF HeadRevisionStored
    <2>. QED
      BY <1>3, <2>5, <2>6 DEF Inv, TypeOK, TablesOK, CallsOK
  <1>. QED
    BY <1>4, <1>5 DEF Forget

LEMMA TickInv ==
    ASSUME Inv, Tick
    PROVE  Inv'
  <1>1. CallsOK /\ TablesOK /\ HeadRevisionStored
    BY InvParts
  <1>2. TablesOK'
    <2>1. ASSUME NEW t \in TaskIds, tasks[t] # None, tasks[t].paused_at # None
          PROVE  tasks[t].paused_at <= now'
      <3>1. tasks[t] \in Row /\ tasks[t].paused_at \in Nat
        BY <1>1, <2>1 DEF TablesOK, Row
      <3>. QED
        BY <1>1, <2>1, <3>1 DEF TablesOK, Tick
    <2>. QED
      BY <1>1, <2>1 DEF TablesOK, Tick, tables
  <1>3. HeadRevisionStored'
    BY <1>1 DEF HeadRevisionStored, Tick, tables
  <1>4. CallsOK'
    BY <1>1 DEF CallsOK, Tick
  <1>. QED
    BY <1>2, <1>3, <1>4 DEF Inv, TypeOK, TablesOK, CallsOK

\* The row _commit writes.
LEMMA AdvancedRowType ==
    ASSUME NEW row \in Row, NEW progress \in BOOLEAN, NEW at \in Nat
    PROVE  /\ AdvancedRow(row, progress, at) \in Row
           /\ AdvancedRow(row, progress, at).head_revision
                 = row.head_revision + 1
           /\ AdvancedRow(row, progress, at).paused_at = row.paused_at
           /\ AdvancedRow(row, progress, at).lifecycle = row.lifecycle
  <1>. DEFINE h == row.head_revision + 1
              p == IF progress THEN at ELSE row.last_progress_at
              a == [row EXCEPT !.head_revision = h, !.last_progress_at = p]
  <1>1. AdvancedRow(row, progress, at) = a
    BY DEF AdvancedRow, Row
  <1>2. h \in Nat \ {0}
    BY DEF Row
  <1>3. p \in Nat
    BY DEF Row
  <1>. HIDE DEF h, p
  <1>4. a \in Row
    BY <1>2, <1>3 DEF Row
  <1>5. a.head_revision = h
    BY DEF Row
  <1>6. a.paused_at = row.paused_at /\ a.lifecycle = row.lifecycle
    BY DEF Row
  <1>. QED
    BY <1>1, <1>4, <1>5, <1>6 DEF h

LEMMA SubmitCommitInv ==
    ASSUME Inv, NEW c \in Callers, SubmitCommit(c)
    PROVE  Inv'
  <1>. DEFINE k         == call[c]
              t         == k.task
              p         == k.proposal
              v         == k.view
              d         == Evaluate(v, p)
              base      == v.row.head_revision
              inserted  == d.outcome = "accepted" /\ CanInsertRevision(t, base)
              advanced  == inserted /\ tasks[t].head_revision = base
              outcome   == IF d.outcome = "accepted" /\ ~advanced
                           THEN "conflict" ELSE d.outcome
              resulting == IF advanced THEN base + 1
                           ELSE IF outcome = "no_change" THEN base ELSE None
              r(at)     == [parent |-> base, lifecycle |-> v.state.lifecycle,
                            content |-> d.content, at |-> at,
                            progress |-> d.progress, rule |-> None]
              decided   == [id |-> p.id, key |-> p.key, payload |-> Payload(p),
                            outcome |-> outcome, resulting |-> resulting]
              step      == [proposal |-> p.id, outcome |-> outcome,
                            resulting |-> resulting]
  <1>1. CallsOK /\ TablesOK /\ HeadRevisionStored
    BY InvParts
  <1>2. CallAt("submit_commit", k)
    BY <1>1 DEF SubmitCommit, CallsOK
  <1>3. /\ t \in TaskIds /\ p \in Submissions /\ v \in Views
        /\ k.at \in Nat /\ now \in Nat
        /\ d.outcome # "value_error"
    BY <1>1, <1>2, SMTT(30) DEF CallAt, Calls, Commits, TablesOK
  <1>4. CASE (\E code : Return(c, k, code)) /\ UNCHANGED tables
    BY <1>1, <1>4, ReturnType, ReadStep DEF SubmitCommit
  <1>5. CASE /\ tasks[t] # None
             /\ \E at \in k.at .. now :
                /\ revisions' = IF ~inserted THEN revisions
                      ELSE [revisions EXCEPT ![t] = Extend(@, base + 1, r(at))]
                /\ tasks' = IF ~advanced THEN tasks
                      ELSE [tasks EXCEPT ![t] = AdvancedRow(@, d.progress, at)]
             /\ proposals' = [proposals EXCEPT ![t] = @ \cup {decided}]
             /\ steps' = [steps EXCEPT ![t] = Append(@, step)]
             /\ Return(c, k, outcome)
             /\ UNCHANGED <<forgotten, now>>
    <2>1. d \in Decision
      BY <1>3, EvaluateFacts
    <2>2. /\ base \in Nat \ {0} /\ v.state.lifecycle \in Lifecycle
          /\ d.content \in Content /\ d.progress \in BOOLEAN
          /\ outcome \in Outcome /\ resulting \in Nat \cup {None}
      BY <1>3, <2>1 DEF Views, Row, Revision, Decision, Outcome
    <2>. HIDE DEF d, outcome, resulting
    <2>3. step \in Step /\ decided \in Decided
      BY <1>3, <2>2 DEF Step, Decided
    <2>4. PICK at \in k.at .. now :
             /\ revisions' = IF ~inserted THEN revisions
                   ELSE [revisions EXCEPT ![t] = Extend(@, base + 1, r(at))]
             /\ tasks' = IF ~advanced THEN tasks
                   ELSE [tasks EXCEPT ![t] = AdvancedRow(@, d.progress, at)]
      BY <1>5
    <2>5. at \in Nat
      BY <1>3
    <2>6. r(at) \in Revision /\ r(at).parent = base
      BY <2>2, <2>5 DEF Revision
    <2>7. tasks[t] \in Row
      BY <1>1, <1>3, <1>5 DEF TablesOK
    <2>8. /\ AdvancedRow(tasks[t], d.progress, at) \in Row
          /\ AdvancedRow(tasks[t], d.progress, at).head_revision
                = tasks[t].head_revision + 1
          /\ AdvancedRow(tasks[t], d.progress, at).paused_at = tasks[t].paused_at
      BY <2>2, <2>5, <2>7, AdvancedRowType
    <2>. HIDE DEF r, step, decided
    <2>9. /\ HeadRevisionStored'
          /\ DOMAIN revisions' = TaskIds
          /\ \A u \in TaskIds :
                /\ DOMAIN revisions'[u] \subseteq Nat \ {0}
                /\ \A n \in DOMAIN revisions'[u] : revisions'[u][n] \in Revision
      <3>1. CASE ~inserted
        BY <1>1, <2>4, <3>1 DEF TablesOK, HeadRevisionStored
      <3>2. CASE inserted /\ ~advanced
        BY <1>3, <2>2, <2>4, <2>6, <3>2, InsertKeepsChain
      <3>3. CASE advanced
        <4>1. /\ tasks[t].head_revision = base
              /\ \E row \in Row : /\ row.head_revision = base + 1
                                  /\ tasks' = [tasks EXCEPT ![t] = row]
          BY <2>4, <2>8, <3>3
        <4>. QED
          BY <1>3, <2>2, <2>4, <2>6, <3>3, <4>1, InsertKeepsChain
      <3>. QED
        BY <3>1, <3>2, <3>3
    <2>10. /\ tasks' \in [TaskIds -> Row \cup {None}]
           /\ \A u \in TaskIds : tasks'[u] # None /\ tasks'[u].paused_at # None
                 => tasks'[u].paused_at <= now
      <3>1. CASE tasks' = tasks
        BY <1>1, <3>1, SMTT(30) DEF TablesOK
      <3>2. CASE tasks' = [tasks EXCEPT ![t] = AdvancedRow(@, d.progress, at)]
        <4>1. /\ tasks' \in [TaskIds -> Row \cup {None}]
              /\ tasks'[t] = AdvancedRow(tasks[t], d.progress, at)
              /\ \A u \in TaskIds : u # t => tasks'[u] = tasks[u]
          BY <1>1, <1>3, <2>8, <3>2 DEF TablesOK
        <4>. QED
          BY <1>1, <1>3, <1>5, <2>8, <4>1 DEF TablesOK
      <3>. QED
        BY <2>4, <3>1, <3>2
    <2>11. steps' \in [TaskIds -> Seq(Step)]
      BY <1>1, <1>3, <1>5, <2>3 DEF TablesOK
    <2>12. /\ DOMAIN proposals' = TaskIds
           /\ \A u \in TaskIds : proposals'[u] \subseteq Decided
      BY <1>1, <1>3, <1>5, <2>3 DEF TablesOK
    <2>13. TablesOK'
      BY <1>1, <1>5, <2>9, <2>10, <2>11, <2>12 DEF TablesOK
    <2>14. CallsOK'
      BY <1>1, <1>5, ReturnType
    <2>. QED
      BY <2>9, <2>13, <2>14 DEF Inv, TypeOK, TablesOK, CallsOK
  <1>. QED
    BY <1>4, <1>5, ZenonT(30) DEF SubmitCommit

-----------------------------------------------------------------------------
(* The first theorems. *)

LEMMA InitInv == Init => Inv
  BY DEF Init, Inv, TypeOK, HeadRevisionStored, Labels

LEMMA NextInv ==
    ASSUME Inv, [Next]_vars
    PROVE  Inv'
  <1>1. ASSUME NEW c \in Callers, ClientStep(c)
        PROVE  Inv'
    BY <1>1, StartReadInv, GetInv, ForgetInv, SubmitReadInv, LifecycleRequestInv,
       StartCommitInv, SubmitCommitInv, CompletionGateInv, LifecycleReadInv,
       LifecycleCommitInv DEF ClientStep
  <1>2. ASSUME NEW c \in Callers, ExpiryStep(c)
        PROVE  Inv'
    BY <1>2, ExpireReadInv, ExpireCommitInv, ConfirmInv, ReloadInv DEF ExpiryStep
  <1>3. ASSUME NEW c \in Callers, MaintenanceStep(c)
        PROVE  Inv'
    BY <1>2, <1>3, ScanReadInv, ScanNextInv DEF MaintenanceStep
  <1>4. ASSUME NEW c \in Crashable, Crash(c)
        PROVE  Inv'
    BY <1>4, CrashInv, ConstantsAssumption
  <1>5. CASE Tick
    BY <1>5, TickInv
  <1>6. CASE UNCHANGED vars
    <2>1. CallsOK'
      BY <1>6, InvParts DEF CallsOK, vars
    <2>. QED
      BY <1>6, <2>1, ReadStep DEF vars
  <1>. QED
    BY <1>1, <1>2, <1>3, <1>4, <1>5, <1>6 DEF Next, Callers

\* Every row, revision, recorded decision and call in flight keeps its shape,
\* and no pause total is negative, in every reachable state.
THEOREM TypeCorrect == Spec => []TypeOK
  <1>1. Init => Inv
    BY InitInv
  <1>2. Inv /\ [Next]_vars => Inv'
    BY NextInv
  <1>3. Inv => TypeOK
    BY DEF Inv
  <1>. QED
    BY <1>1, <1>2, <1>3, PTL DEF Spec

\* The assertion of _view never fails: a task always has its head revision
\* stored, and the whole chain behind it, even across forgotten ids.
THEOREM HeadsAreStored == Spec => []HeadRevisionStored
  <1>1. Init => Inv
    BY InitInv
  <1>2. Inv /\ [Next]_vars => Inv'
    BY NextInv
  <1>3. Inv => HeadRevisionStored
    BY DEF Inv
  <1>. QED
    BY <1>1, <1>2, <1>3, PTL DEF Spec
=============================================================================
