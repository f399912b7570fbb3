------------------------- MODULE TaskHistoryProofs -------------------------
(***************************************************************************)
(* Proofs about the histories TaskStateService keeps: what every call,     *)
(* however stale, may do to a task whose id was never reused.              *)
(*                                                                         *)
(* The argument has one centre, Move: the only way such a task changes     *)
(* while it exists is by one more revision, the child of the head, written *)
(* together with the row that caches it.  A call moves a task only if the  *)
(* head it read is still the head, and then the row it read is the stored  *)
(* row (ViewFits), which is what makes its computation current.            *)
(*                                                                         *)
(* The second half proves that the service keeps its books: the decisions  *)
(* and steps recorded about a task account for its history, and the        *)
(* accumulated time of its pauses is the one its history gives.            *)
(***************************************************************************)
EXTENDS TaskStateServiceProofs, FiniteSetTheorems, WellFoundedInduction

-----------------------------------------------------------------------------
(* One task.  These operators take the row and the revisions of one task,  *)
(* so that they speak of the tables before and after a step alike.         *)

Linear(row, revs) ==
    /\ DOMAIN revs = 1 .. row.head_revision
    /\ \A n \in 2 .. row.head_revision :
          /\ revs[n].parent = n - 1
          /\ revs[n].at >= revs[n - 1].at

\* The revisions that set last_progress_at.
Advances(revs) == {n \in DOMAIN revs : n = 1 \/ revs[n].progress}

Cached(row, revs) ==
    LET head == revs[row.head_revision] IN
    /\ row.lifecycle = head.lifecycle
    /\ row.paused_at = IF head.lifecycle = "paused" THEN head.at ELSE None
    /\ row.created_at = revs[1].at
    /\ \E n \in Advances(revs) : /\ \A m \in Advances(revs) : m <= n
                                 /\ row.last_progress_at = revs[n].at

\* At an instant the task is as old as a rule demands.
AgeDue(t, rule, created, at) ==
    /\ rule = "expired_absolute_age"
          => MaxAbsoluteAge[t] # None /\ at - created >= MaxAbsoluteAge[t]
    /\ rule = "expired_no_progress"
          => MaxNoProgressAge[t] # None /\ at - created >= MaxNoProgressAge[t]

Cites(t, row, revs) ==
    \A n \in DOMAIN revs :
        /\ revs[n].lifecycle = "expired" <=> revs[n].rule # None
        /\ AgeDue(t, revs[n].rule, row.created_at, revs[n].at)

History(t, row, revs, time) ==
    /\ Linear(row, revs)
    /\ revs[row.head_revision].at <= time
    /\ row.created_at <= revs[row.head_revision].at
    /\ row.created_at <= row.last_progress_at
    /\ Cached(row, revs)
    /\ Cites(t, row, revs)

\* One more revision, r, and the row that goes with it.
MoveBy(t, row, revs, time, row2, revs2, r) ==
    LET head == revs[row.head_revision] IN
    /\ revs2 = Extend(revs, row.head_revision + 1, r)
    /\ r \in Revision /\ row2 \in Row
    /\ row.lifecycle \notin Terminal
    /\ r.parent = row.head_revision
    /\ head.at <= r.at /\ r.at <= time
    /\ row2.head_revision = row.head_revision + 1
    /\ row2.created_at = row.created_at
    /\ row2.lifecycle = r.lifecycle
    /\ row2.paused_at = IF r.lifecycle = "paused" THEN r.at ELSE None
    /\ row2.last_progress_at = IF r.progress THEN r.at ELSE row.last_progress_at
    /\ r.lifecycle = "expired" <=> r.rule # None
    /\ AgeDue(t, r.rule, row.created_at, r.at)
    /\ ~(row.lifecycle = "paused" /\ r.lifecycle = "paused")
    /\ row2.no_progress_paused = row.no_progress_paused +
          (IF row.lifecycle = "paused" THEN r.at - head.at ELSE 0)

Move(t, row, revs, time, row2, revs2) ==
    \E r \in Revision : MoveBy(t, row, revs, time, row2, revs2, r)

\* The first revision of a task and its row.
Birth(row2, revs2, time) ==
    \E at \in Nat :
        /\ at <= time
        /\ row2 = [lifecycle |-> "open", head_revision |-> 1,
                   created_at |-> at, last_progress_at |-> at,
                   paused_at |-> None, no_progress_paused |-> 0]
        /\ DOMAIN revs2 = {1}
        /\ revs2[1] = [parent |-> None, lifecycle |-> "open",
                       content |-> InitialContent, at |-> at,
                       progress |-> FALSE, rule |-> None]

-----------------------------------------------------------------------------
(* The invariant. *)

Histories == \A t \in Intact : History(t, tasks[t], revisions[t], now)

\* Nothing is left of a task that is not there.
Unborn ==
    \A t \in TaskIds : tasks[t] = None =>
        DOMAIN revisions[t] = {} /\ proposals[t] = {} /\ steps[t] = <<>>

\* What a call read of a task that was never forgotten is part of its
\* history: T, R stand for the tables.
ViewFits(k, T, R) ==
    /\ T[k.task] # None
    /\ k.view.row.head_revision \in DOMAIN R[k.task]
    /\ R[k.task][k.view.row.head_revision] = k.view.state
    /\ k.view.row.lifecycle = k.view.state.lifecycle
    /\ \/ k.view.row = T[k.task]
       \/ k.view.row.head_revision < T[k.task].head_revision

\* No progress of a row is older than its task, and no pause of it is to come.
Seasoned(row, time) ==
    /\ row.created_at <= row.last_progress_at
    /\ row.paused_at # None => row.paused_at <= time

\* A scan still has the creation times right of the tasks it will look at.
QueueFits(k, T, F, time) ==
    \A e \in k.queue : e.task \notin F =>
        /\ T[e.task] # None /\ T[e.task].created_at = e.row.created_at
        /\ Seasoned(e.row, time)

\* What a call in flight knows, at each of its steps, of the tables T and R
\* at an instant: F are the forgotten ids.
Knows(label, k, T, R, F, time) ==
    /\ label \in {"lifecycle_commit", "expire_commit"}
          => k.view.row.lifecycle \notin Terminal
    /\ label = "lifecycle_commit" => k.view.row.lifecycle # k.target
    /\ label \in {"gate", "lifecycle", "lifecycle_commit"} => k.rule = None
    /\ label \in Commits /\ k.task \notin F
          => ViewFits(k, T, R) /\ k.view.state.at <= k.at
    /\ k.task \notin F =>
          /\ label = "expire_read" =>
                /\ T[k.task] # None
                /\ AgeDue(k.task, k.rule, T[k.task].created_at, time)
          /\ label = "expire_commit"
                => AgeDue(k.task, k.rule, T[k.task].created_at, k.at)
          /\ label = "confirm" => T[k.task] # None
    /\ QueueFits(k, T, F, time)

CallsKnow ==
    \A c \in Callers : pc[c] = "idle" \/
        Knows(pc[c], call[c], tasks, revisions, forgotten, now)

HInv == Inv /\ Unborn /\ Histories /\ CallsKnow

-----------------------------------------------------------------------------
(* Histories grow one revision at a time. *)

\* What Move adds to the revisions.
LEMMA MoveExtends ==
    ASSUME NEW t, NEW row \in Row, NEW revs, NEW time, NEW row2, NEW revs2,
           NEW r, Linear(row, revs), MoveBy(t, row, revs, time, row2, revs2, r)
    PROVE  /\ DOMAIN revs2 = 1 .. row2.head_revision
           /\ revs2[row2.head_revision] = r
           /\ \A n \in 1 .. row.head_revision : revs2[n] = revs[n]
  <1>h. PICK h \in Nat \ {0} : h = row.head_revision
    BY DEF Row
  <1>1. DOMAIN revs = 1 .. h
    BY <1>h DEF Linear
  <1>2. revs2 = Extend(revs, h + 1, r) /\ row2.head_revision = h + 1
    BY <1>h DEF MoveBy
  <1>3. /\ DOMAIN revs2 = DOMAIN revs \cup {h + 1} /\ revs2[h + 1] = r
        /\ \A n \in DOMAIN revs : n # h + 1 => revs2[n] = revs[n]
    BY <1>2 DEF Extend
  <1>4. DOMAIN revs2 = 1 .. (h + 1)
    BY <1>1, <1>3
  <1>5. \A n \in 1 .. h : revs2[n] = revs[n]
    BY <1>1, <1>3
  <1>. QED
    BY <1>h, <1>2, <1>3, <1>4, <1>5

LEMMA MoveKeepsHistory ==
    ASSUME NEW t \in TaskIds, NEW row \in Row, NEW revs, NEW time \in Nat,
           NEW row2, NEW revs2,
           \A n \in DOMAIN revs : revs[n] \in Revision,
           History(t, row, revs, time), Move(t, row, revs, time, row2, revs2)
    PROVE  History(t, row2, revs2, time)
  <1>h. PICK h \in Nat \ {0} : h = row.head_revision
    BY DEF Row
  <1>0. PICK r \in Revision : MoveBy(t, row, revs, time, row2, revs2, r)
    BY DEF Move
  <1>1. Linear(row, revs)
    BY DEF History
  <1>2. /\ row2.head_revision = h + 1
        /\ DOMAIN revs = 1 .. h
        /\ DOMAIN revs2 = 1 .. (h + 1) /\ revs2[h + 1] = r
        /\ \A n \in 1 .. h : revs2[n] = revs[n]
    <2>1. DOMAIN revs = 1 .. h
      BY <1>h, <1>1 DEF Linear
    <2>2. row2.head_revision = h + 1
      BY <1>h, <1>0 DEF MoveBy
    <2>3. /\ DOMAIN revs2 = 1 .. row2.head_revision
          /\ revs2[row2.head_revision] = r
          /\ \A n \in 1 .. row.head_revision : revs2[n] = revs[n]
      BY <1>0, <1>1, MoveExtends
    <2>. QED
      BY <1>h, <2>1, <2>2, <2>3
  <1>3. /\ r.parent = h /\ revs[h].at <= r.at /\ r.at <= time
        /\ r.at \in Nat /\ revs[h].at \in Nat
    BY <1>h, <1>0, <1>2 DEF MoveBy, Revision
  <1>4. Linear(row2, revs2)
    <2>1. ASSUME NEW n \in 2 .. (h + 1)
          PROVE  revs2[n].parent = n - 1 /\ revs2[n].at >= revs2[n - 1].at
      <3>1. CASE n = h + 1
        BY <1>2, <1>3, <3>1
      <3>2. CASE n \in 2 .. h
        BY <1>h, <1>1, <1>2, <3>2 DEF Linear
      <3>. QED
        BY <3>1, <3>2
    <2>. QED
      BY <1>2, <2>1 DEF Linear
  <1>5. revs2[row2.head_revision].at <= time
    BY <1>h, <1>2, <1>3
  <1>6. Cached(row2, revs2)
    <2>1. Cached(row, revs)
      BY DEF History
    <2>2. /\ row2.lifecycle = r.lifecycle /\ row2.created_at = row.created_at
          /\ row2.paused_at = IF r.lifecycle = "paused" THEN r.at ELSE None
      BY <1>0 DEF MoveBy
    <2>3. row2.created_at = revs2[1].at
      BY <1>2, <2>1, <2>2 DEF Cached
    <2>4. \E n \in Advances(revs2) : /\ \A m \in Advances(revs2) : m <= n
                                     /\ row2.last_progress_at = revs2[n].at
      <3>1. CASE r.progress
        <4>1. row2.last_progress_at = r.at
          BY <1>0, <3>1 DEF MoveBy
        <4>2. h + 1 \in Advances(revs2)
          BY <1>2, <3>1 DEF Advances
        <4>3. \A m \in Advances(revs2) : m <= h + 1
          BY <1>2 DEF Advances
        <4>. QED
          BY <1>2, <4>1, <4>2, <4>3
      <3>2. CASE ~r.progress
        <4>1. row2.last_progress_at = row.last_progress_at
          BY <1>0, <3>2 DEF MoveBy
        <4>2. Advances(revs2) = Advances(revs)
          BY <1>2, <3>2 DEF Advances
        <4>3. \A n \in Advances(revs) : revs2[n] = revs[n]
          BY <1>2 DEF Advances
        <4>. QED
          BY <2>1, <4>1, <4>2, <4>3 DEF Cached
      <3>. QED
        BY <3>1, <3>2
    <2>. QED
      BY <1>2, <2>2, <2>3, <2>4 DEF Cached
  <1>7. Cites(t, row2, revs2)
    <2>1. Cites(t, row, revs)
      BY DEF History
    <2>2. /\ row2.created_at = row.created_at
          /\ r.lifecycle = "expired" <=> r.rule # None
          /\ AgeDue(t, r.rule, row.created_at, r.at)
      BY <1>0 DEF MoveBy
    <2>3. \A n \in 1 .. (h + 1) : n = h + 1 \/ n \in 1 .. h
      BY <1>2
    <2>. QED
      BY <1>2, <2>1, <2>2, <2>3 DEF Cites
  <1>8. /\ row2.created_at <= revs2[row2.head_revision].at
        /\ row2.created_at <= row2.last_progress_at
    <2>1. /\ row.created_at \in Nat /\ row.created_at <= revs[h].at
          /\ row.created_at <= row.last_progress_at
      BY <1>h DEF History, Row
    <2>2. /\ row2.created_at = row.created_at
          /\ row2.last_progress_at = IF r.progress THEN r.at
                                     ELSE row.last_progress_at
      BY <1>0 DEF MoveBy
    <2>3. row.created_at <= r.at
      BY <1>3, <2>1
    <2>. QED
      BY <1>2, <2>1, <2>2, <2>3
  <1>. QED
    BY <1>4, <1>5, <1>6, <1>7, <1>8 DEF History

\* A move loses nothing.
LEMMA MoveGrows ==
    ASSUME NEW t \in TaskIds, NEW row \in Row, NEW revs, NEW time,
           NEW row2, NEW revs2,
           Linear(row, revs), Move(t, row, revs, time, row2, revs2)
    PROVE  /\ row2 \in Row
           /\ row2.created_at = row.created_at
           /\ row.head_revision < row2.head_revision
           /\ row.lifecycle \notin Terminal
           /\ \A n \in DOMAIN revs : n \in DOMAIN revs2 /\ revs2[n] = revs[n]
  <1>h. PICK h \in Nat \ {0} : h = row.head_revision
    BY DEF Row
  <1>1. PICK r \in Revision : MoveBy(t, row, revs, time, row2, revs2, r)
    BY DEF Move
  <1>2. /\ row2 \in Row /\ row2.created_at = row.created_at
        /\ row.lifecycle \notin Terminal
        /\ row2.head_revision = h + 1
    BY <1>h, <1>1 DEF MoveBy
  <1>3. /\ DOMAIN revs2 = 1 .. row2.head_revision
        /\ \A n \in 1 .. row.head_revision : revs2[n] = revs[n]
    BY <1>1, MoveExtends
  <1>4. DOMAIN revs = 1 .. row.head_revision
    BY DEF Linear
  <1>5. \A n \in DOMAIN revs : n \in DOMAIN revs2 /\ revs2[n] = revs[n]
    BY <1>h, <1>2, <1>3, <1>4
  <1>. QED
    BY <1>h, <1>2, <1>5

LEMMA BirthHistory ==
    ASSUME NEW t \in TaskIds, NEW row2, NEW revs2, NEW time \in Nat,
           Birth(row2, revs2, time)
    PROVE  History(t, row2, revs2, time)
  <1>1. PICK at \in Nat :
           /\ at <= time
           /\ row2 = [lifecycle |-> "open", head_revision |-> 1,
                      created_at |-> at, last_progress_at |-> at,
                      paused_at |-> None, no_progress_paused |-> 0]
           /\ DOMAIN revs2 = {1}
           /\ revs2[1] = [parent |-> None, lifecycle |-> "open",
                          content |-> InitialContent, at |-> at,
                          progress |-> FALSE, rule |-> None]
    BY DEF Birth
  <1>2. row2.head_revision = 1 /\ revs2[1].at = at /\ revs2[1].rule = None
    BY <1>1
  <1>3. Linear(row2, revs2)
    BY <1>1, <1>2 DEF Linear
  <1>4. Cached(row2, revs2)
    <2>1. Advances(revs2) = {1}
      BY <1>1 DEF Advances
    <2>. QED
      BY <1>1, <2>1 DEF Cached
  <1>5. Cites(t, row2, revs2)
    BY <1>1, NoneAssumption DEF Cites, AgeDue, Rules
  <1>. QED
    BY <1>1, <1>2, <1>3, <1>4, <1>5 DEF History

\* Time does no harm to a history.
LEMMA LaterHistory ==
    ASSUME NEW t \in TaskIds, NEW row \in Row, NEW revs, NEW time \in Nat,
           NEW later \in Nat, time <= later,
           \A n \in DOMAIN revs : revs[n] \in Revision,
           History(t, row, revs, time)
    PROVE  History(t, row, revs, later)
  <1>1. row.head_revision \in DOMAIN revs
    BY DEF History, Linear, Row
  <1>2. revs[row.head_revision].at \in Nat
    BY <1>1 DEF Revision
  <1>. QED
    BY <1>2 DEF History

-----------------------------------------------------------------------------
(* What calls know stays true while the tables grow. *)

\* From tables T and R to T2 and R2: unless its id was forgotten, a task that
\* is there stays, keeps its creation time and its revisions, and its row
\* changes only with its head.
Grows(T, R, F, time, T2, R2, F2, time2) ==
    /\ F \subseteq F2
    /\ time <= time2
    /\ \A t \in TaskIds \ F2 : T[t] # None =>
          /\ T2[t] # None
          /\ T2[t].created_at = T[t].created_at
          /\ T2[t] = T[t] \/ T[t].head_revision < T2[t].head_revision
          /\ \A n \in DOMAIN R[t] : n \in DOMAIN R2[t] /\ R2[t][n] = R[t][n]

\* What expiry_status finds due bears out the age of the task: a row has made
\* no progress before it was created, and its pauses only make it younger.
LEMMA DueIsAged ==
    ASSUME NEW t \in TaskIds, NEW row \in Row, NEW at \in Nat,
           row.created_at <= at, Seasoned(row, at)
    PROVE  AgeDue(t, DueReason(t, row, at), row.created_at, at)
  <1>1. /\ row.created_at \in Nat /\ row.last_progress_at \in Nat
        /\ row.no_progress_paused \in Nat
        /\ row.paused_at \in Nat \cup {None}
    BY DEF Row
  <1>2. PICK p : p = PausedTime(row, at)
    OBVIOUS
  <1>3. p \in Nat
    BY <1>1, <1>2, NoneAssumption DEF PausedTime, Seasoned
  <1>4. NoProgressAge(row, at) = IF (at - row.last_progress_at) - p > 0
                                 THEN (at - row.last_progress_at) - p ELSE 0
    BY <1>2 DEF NoProgressAge
  <1>5. /\ NoProgressAge(row, at) \in Nat
        /\ NoProgressAge(row, at) <= at - row.created_at
    BY <1>1, <1>3, <1>4 DEF Seasoned
  <1>6. /\ MaxNoProgressAge[t] # None => MaxNoProgressAge[t] \in Nat
        /\ "expired_absolute_age" # None /\ "expired_no_progress" # None
    BY ConstantsAssumption, NoneAssumption DEF Rules
  <1>7. /\ MaxNoProgressAge[t] # None
        /\ NoProgressAge(row, at) >= MaxNoProgressAge[t]
        => at - row.created_at >= MaxNoProgressAge[t]
    BY <1>1, <1>5, <1>6
  <1>. QED
    BY <1>6, <1>7 DEF DueReason, AgeDue

\* An age that is due stays due.
LEMMA AgeStaysDue ==
    ASSUME NEW t \in TaskIds, NEW rule, NEW created \in Nat, NEW at \in Nat,
           NEW later \in Nat, at <= later, AgeDue(t, rule, created, at)
    PROVE  AgeDue(t, rule, created, later)
  BY ConstantsAssumption DEF AgeDue

\* A view that fits the tables fits them when they have grown.
LEMMA ViewStaysFit ==
    ASSUME NEW T \in [TaskIds -> Row \cup {None}], NEW R, NEW F, NEW time,
           NEW T2 \in [TaskIds -> Row \cup {None}], NEW R2, NEW F2, NEW time2,
           Grows(T, R, F, time, T2, R2, F2, time2),
           NEW k, k.task \in TaskIds \ F2, k.view \in Views,
           ViewFits(k, T, R)
    PROVE  ViewFits(k, T2, R2)
  <1>. DEFINE t == k.task
              h == k.view.row.head_revision
  <1>1. /\ T[t] # None /\ h \in DOMAIN R[t] /\ R[t][h] = k.view.state
        /\ k.view.row.lifecycle = k.view.state.lifecycle
        /\ k.view.row = T[t] \/ h < T[t].head_revision
    BY DEF ViewFits
  <1>2. /\ T2[t] # None
        /\ T2[t] = T[t] \/ T[t].head_revision < T2[t].head_revision
        /\ \A n \in DOMAIN R[t] : n \in DOMAIN R2[t] /\ R2[t][n] = R[t][n]
    BY <1>1 DEF Grows
  <1>3. /\ h \in Nat /\ T[t].head_revision \in Nat
        /\ T2[t].head_revision \in Nat
    BY <1>1, <1>2 DEF Views, Row
  <1>4. k.view.row = T2[t] \/ h < T2[t].head_revision
    <2>1. CASE T2[t] = T[t]
      BY <1>1, <2>1
    <2>2. CASE T[t].head_revision < T2[t].head_revision
      BY <1>1, <1>3, <2>2
    <2>. QED
      BY <1>2, <2>1, <2>2
  <1>. QED
    BY <1>1, <1>2, <1>4 DEF ViewFits

LEMMA KnowledgeLasts ==
    ASSUME NEW T \in [TaskIds -> Row \cup {None}], NEW R, NEW F,
           NEW time \in Nat,
           NEW T2 \in [TaskIds -> Row \cup {None}], NEW R2, NEW F2,
           NEW time2 \in Nat,
           Grows(T, R, F, time, T2, R2, F2, time2),
           NEW label, NEW k, CallAt(label, k), Knows(label, k, T, R, F, time)
    PROVE  Knows(label, k, T2, R2, F2, time2)
  <1>0. /\ F \subseteq F2 /\ time <= time2
        /\ \A t \in TaskIds \ F2 : T[t] # None =>
              T2[t] # None /\ T2[t].created_at = T[t].created_at
    BY DEF Grows
  <1>1. /\ k \in Calls
        /\ label \in {"expire_read", "expire_commit", "confirm"} \cup Commits
              => k.task \in TaskIds
        /\ label \in Commits => k.view \in Views
    BY DEF CallAt, Calls, Commits
  <1>2. /\ label \in {"lifecycle_commit", "expire_commit"}
              => k.view.row.lifecycle \notin Terminal
        /\ label = "lifecycle_commit" => k.view.row.lifecycle # k.target
        /\ label \in {"gate", "lifecycle", "lifecycle_commit"} => k.rule = None
    BY DEF Knows
  <1>3. ASSUME label \in Commits, k.task \notin F2
        PROVE  ViewFits(k, T2, R2) /\ k.view.state.at <= k.at
    <2>1. ViewFits(k, T, R) /\ k.view.state.at <= k.at
      BY <1>0, <1>3 DEF Knows
    <2>. QED
      BY <1>1, <1>3, <2>1, ViewStaysFit
  <1>4. ASSUME k.task \notin F2, label = "expire_read"
        PROVE  /\ T2[k.task] # None
               /\ AgeDue(k.task, k.rule, T2[k.task].created_at, time2)
    <2>1. /\ T[k.task] # None /\ k.task \in TaskIds \ F2
          /\ AgeDue(k.task, k.rule, T[k.task].created_at, time)
      BY <1>0, <1>1, <1>4 DEF Knows
    <2>2. T[k.task].created_at \in Nat
      BY <2>1 DEF Row
    <2>3. AgeDue(k.task, k.rule, T[k.task].created_at, time2)
      BY <1>0, <2>1, <2>2, AgeStaysDue
    <2>. QED
      BY <1>0, <2>1, <2>3
  <1>5. ASSUME k.task \notin F2, label = "expire_commit"
        PROVE  AgeDue(k.task, k.rule, T2[k.task].created_at, k.at)
    <2>1. ViewFits(k, T, R) /\ AgeDue(k.task, k.rule, T[k.task].created_at, k.at)
      BY <1>0, <1>5 DEF Knows, Commits
    <2>2. T[k.task] # None /\ k.task \in TaskIds \ F2
      BY <1>1, <1>5, <2>1 DEF ViewFits
    <2>. QED
      BY <1>0, <2>1, <2>2
  <1>6. ASSUME NEW e \in k.queue, e.task \notin F2
        PROVE  /\ T2[e.task] # None /\ T2[e.task].created_at = e.row.created_at
               /\ Seasoned(e.row, time2)
    <2>1. e.task \in TaskIds /\ e.row \in Row
      BY <1>1 DEF Calls
    <2>2. /\ T[e.task] # None /\ T[e.task].created_at = e.row.created_at
          /\ Seasoned(e.row, time)
      BY <1>0, <1>6 DEF Knows, QueueFits
    <2>3. Seasoned(e.row, time2)
      BY <1>0, <2>1, <2>2 DEF Seasoned, Row
    <2>. QED
      BY <1>0, <1>6, <2>1, <2>2, <2>3
  <1>7. ASSUME k.task \notin F2, label = "confirm"
        PROVE  T2[k.task] # None
    BY <1>0, <1>1, <1>7 DEF Knows
  <1>. QED
    BY <1>2, <1>3, <1>4, <1>5, <1>6, <1>7 DEF Knows, QueueFits

\* A step that grows the tables leaves every caller it does not move with
\* what it knew.
LEMMA OthersKnow ==
    ASSUME HInv, Inv',
           Grows(tasks, revisions, forgotten, now,
                 tasks', revisions', forgotten', now')
    PROVE  \A b \in Callers : pc[b] = "idle" \/
              Knows(pc[b], call[b], tasks', revisions', forgotten', now')
  <1>1. /\ tasks \in [TaskIds -> Row \cup {None}] /\ now \in Nat
        /\ tasks' \in [TaskIds -> Row \cup {None}] /\ now' \in Nat
    BY DEF HInv, Inv, TypeOK
  <1>2. \A b \in Callers : pc[b] = "idle" \/ CallAt(pc[b], call[b])
    BY DEF HInv, Inv, TypeOK
  <1>3. \A b \in Callers : pc[b] = "idle" \/
           Knows(pc[b], call[b], tasks, revisions, forgotten, now)
    BY DEF HInv, CallsKnow
  <1>4. ASSUME NEW b \in Callers, pc[b] # "idle"
        PROVE  Knows(pc[b], call[b], tasks', revisions', forgotten', now')
    BY <1>1, <1>2, <1>3, <1>4, KnowledgeLasts
  <1>. QED
    BY <1>4

LEMMA ReturnKnows ==
    ASSUME Inv,
           \A b \in Callers : pc[b] = "idle" \/
              Knows(pc[b], call[b], tasks', revisions', forgotten', now'),
           NEW c \in Callers, NEW k, NEW code, Return(c, k, code)
    PROVE  CallsKnow'
  BY DEF Inv, TypeOK, Return, CallsKnow

LEMMA GotoKnows ==
    ASSUME Inv,
           \A b \in Callers : pc[b] = "idle" \/
              Knows(pc[b], call[b], tasks', revisions', forgotten', now'),
           NEW c \in Callers, NEW label, NEW k, Goto(c, label, k),
           label = "idle" \/ Knows(label, k, tasks', revisions', forgotten', now')
    PROVE  CallsKnow'
  BY DEF Inv, TypeOK, Goto, CallsKnow

-----------------------------------------------------------------------------
(* The steps that only read. *)

LEMMA QuietStep ==
    ASSUME HInv, Inv', UNCHANGED <<tables, now>>, CallsKnow'
    PROVE  HInv'
  <1>1. Unborn' /\ Histories'
    BY DEF HInv, Unborn, Histories, Intact, tables
  <1>. QED
    BY <1>1 DEF HInv

LEMMA QuietReturn ==
    ASSUME HInv, Inv', UNCHANGED <<tables, now>>,
           NEW c \in Callers, NEW k, NEW code, Return(c, k, code)
    PROVE  HInv'
  <1>1. \A b \in Callers : pc[b] = "idle" \/
           Knows(pc[b], call[b], tasks', revisions', forgotten', now')
    BY DEF HInv, CallsKnow, tables
  <1>. QED
    BY <1>1, ReturnKnows, QuietStep DEF HInv

LEMMA QuietGoto ==
    ASSUME HInv, Inv', UNCHANGED <<tables, now>>,
           NEW c \in Callers, NEW label, NEW k, Goto(c, label, k),
           label = "idle" \/ Knows(label, k, tasks, revisions, forgotten, now)
    PROVE  HInv'
  <1>1. \A b \in Callers : pc[b] = "idle" \/
           Knows(pc[b], call[b], tasks', revisions', forgotten', now')
    BY DEF HInv, CallsKnow, tables
  <1>2. label = "idle" \/ Knows(label, k, tasks', revisions', forgotten', now')
    BY DEF tables
  <1>3. CallsKnow'
    BY <1>1, <1>2, GotoKnows DEF HInv
  <1>. QED
    BY <1>3, QuietStep

\* At the labels of no commit and no expiry a call knows little but its queue.
LEMMA PlainKnows ==
    ASSUME NEW label \in {"start_commit", "gate", "lifecycle", "confirm",
                          "reload", "scan"},
           NEW k, NEW T, NEW R, NEW F, NEW time, QueueFits(k, T, F, time),
           label \in {"gate", "lifecycle"} => k.rule = None,
           label = "confirm" /\ k.task \notin F => T[k.task] # None
    PROVE  Knows(label, k, T, R, F, time)
  BY DEF Knows, Commits

\* A view just taken fits the tables.
LEMMA FreshView ==
    ASSUME HInv, NEW k, CallAt("reload", k), tasks[k.task] # None
    PROVE  LET w == [k EXCEPT !.view = View(k.task), !.at = now]
           IN  /\ w.view.row = tasks[k.task]
               /\ w.queue = k.queue
               /\ k.task \notin forgotten
                     => ViewFits(w, tasks, revisions) /\ w.view.state.at <= w.at
  <1>. DEFINE t == k.task
              w == [k EXCEPT !.view = View(k.task), !.at = now]
  <1>0. Inv /\ Histories
    BY DEF HInv
  <1>1. k \in Calls /\ t \in TaskIds
    BY DEF CallAt
  <1>2. w.view = View(t) /\ w.task = t /\ w.at = now
    BY <1>0, WithViewType
  <1>3. w.queue = k.queue
    BY <1>1 DEF Calls
  <1>4. /\ View(t).row = tasks[t]
        /\ View(t).state = revisions[t][tasks[t].head_revision]
        /\ tasks[t].head_revision \in DOMAIN revisions[t]
    BY <1>0, <1>1, ViewType
  <1>5. ASSUME t \notin forgotten
        PROVE  ViewFits(w, tasks, revisions) /\ w.view.state.at <= w.at
    <2>1. History(t, tasks[t], revisions[t], now)
      BY <1>0, <1>1, <1>5 DEF Histories, Intact
    <2>2. /\ revisions[t][tasks[t].head_revision].at <= now
          /\ tasks[t].lifecycle = revisions[t][tasks[t].head_revision].lifecycle
      BY <2>1 DEF History, Cached
    <2>. HIDE DEF w
    <2>. QED
      BY <1>2, <1>4, <2>2 DEF ViewFits
  <1>. HIDE DEF w
  <1>. QED
    BY <1>2, <1>3, <1>4, <1>5 DEF w

\* So does a row just read.
LEMMA FreshRow ==
    ASSUME HInv, NEW t \in TaskIds \ forgotten, tasks[t] # None
    PROVE  /\ tasks[t] \in Row /\ now \in Nat
           /\ tasks[t].created_at <= now
           /\ Seasoned(tasks[t], now)
  <1>1. /\ tasks[t] \in Row /\ now \in Nat
        /\ tasks[t].paused_at # None => tasks[t].paused_at <= now
        /\ \A n \in DOMAIN revisions[t] : revisions[t][n] \in Revision
    BY DEF HInv, Inv, TypeOK
  <1>2. History(t, tasks[t], revisions[t], now)
    BY DEF HInv, Histories, Intact
  <1>3. PICK h \in Nat \ {0} : h = tasks[t].head_revision
    BY <1>1 DEF Row
  <1>4. h \in DOMAIN revisions[t]
    BY <1>2, <1>3 DEF History, Linear
  <1>5. /\ revisions[t][h].at \in Nat /\ revisions[t][h].at <= now
        /\ tasks[t].created_at <= revisions[t][h].at
        /\ tasks[t].created_at <= tasks[t].last_progress_at
    BY <1>1, <1>2, <1>3, <1>4 DEF History, Revision
  <1>6. tasks[t].created_at \in Nat
    BY <1>1 DEF Row
  <1>. QED
    BY <1>1, <1>5, <1>6 DEF Seasoned

LEMMA ProceedHist ==
    ASSUME HInv, Inv', UNCHANGED <<tables, now>>, NEW c \in Callers, NEW k,
           CallAt("reload", k), QueueFits(k, tasks, forgotten, now),
           tasks[k.task] # None, k.rule = None, Proceed(c, k, View(k.task))
    PROVE  HInv'
  <1>. DEFINE w == [k EXCEPT !.view = View(k.task), !.at = now]
  <1>0. Inv
    BY DEF HInv
  <1>1. /\ w.task = k.task /\ w.rule = k.rule /\ w.target = k.target
        /\ w.view = View(k.task)
    BY <1>0, WithViewType
  <1>2. /\ w.view.row = tasks[k.task] /\ w.queue = k.queue
        /\ k.task \notin forgotten
              => ViewFits(w, tasks, revisions) /\ w.view.state.at <= w.at
    BY FreshView
  <1>. HIDE DEF w
  <1>3. QueueFits(w, tasks, forgotten, now)
    BY <1>2 DEF QueueFits
  <1>4. CASE \E code : Return(c, k, code)
    BY <1>4, QuietReturn
  <1>5. CASE Goto(c, "submit_commit", w)
    <2>1. Knows("submit_commit", w, tasks, revisions, forgotten, now)
      BY <1>1, <1>2, <1>3 DEF Knows
    <2>. QED
      BY <1>5, <2>1, QuietGoto
  <1>6. CASE \E label \in {"gate", "lifecycle"} : Goto(c, label, k)
    BY <1>6, PlainKnows, QuietGoto
  <1>7. CASE /\ w.view.row.lifecycle \notin Terminal
             /\ w.view.row.lifecycle # k.target
             /\ Goto(c, "lifecycle_commit", w)
    <2>1. Knows("lifecycle_commit", w, tasks, revisions, forgotten, now)
      BY <1>1, <1>2, <1>3, <1>7 DEF Knows
    <2>. QED
      BY <1>7, <2>1, QuietGoto
  <1>. QED
    BY <1>1, <1>4, <1>5, <1>6, <1>7 DEF Proceed, w

LEMMA LoadHist ==
    ASSUME HInv, Inv', UNCHANGED <<tables, now>>, NEW c \in Callers, NEW k,
           CallAt("reload", k), QueueFits(k, tasks, forgotten, now),
           k.rule = None, Load(c, k)
    PROVE  HInv'
  <1>. DEFINE rule == DueReason(k.task, tasks[k.task], now)
              w    == [k EXCEPT !.rule = rule]
  <1>1. CASE \E code : Return(c, k, code)
    BY <1>1, QuietReturn
  <1>2. CASE tasks[k.task] # None /\ rule # None /\ Goto(c, "expire_read", w)
    <2>1. w.rule = rule /\ w.task = k.task /\ w.queue = k.queue
      BY DEF CallAt, Calls
    <2>2. k.task \notin forgotten
             => AgeDue(k.task, rule, tasks[k.task].created_at, now)
      <3>1. k.task \in TaskIds
        BY DEF CallAt
      <3>2. ASSUME k.task \notin forgotten
            PROVE  /\ tasks[k.task] \in Row /\ now \in Nat
                   /\ tasks[k.task].created_at <= now
                   /\ Seasoned(tasks[k.task], now)
        BY <1>2, <3>1, <3>2, FreshRow
      <3>. QED
        BY <3>1, <3>2, DueIsAged
    <2>. HIDE DEF w, rule
    <2>3. Knows("expire_read", w, tasks, revisions, forgotten, now)
      BY <1>2, <2>1, <2>2 DEF Knows, Commits, QueueFits
    <2>. QED
      BY <1>2, <2>3, QuietGoto
  <1>3. CASE tasks[k.task] # None /\ Proceed(c, k, View(k.task))
    BY <1>3, ProceedHist
  <1>. QED
    BY <1>1, <1>2, <1>3 DEF Load

LEMMA NewCallQueue ==
    ASSUME NEW op, NEW t, NEW T, NEW F, NEW time
    PROVE  /\ NewCall(op, t).queue = {} /\ NewCall(op, t).rule = None
           /\ \A k : k.queue = {} => QueueFits(k, T, F, time)
  BY DEF NewCall, QueueFits

LEMMA StartReadHist ==
    ASSUME HInv, Inv', NEW c \in Callers, NEW t \in TaskIds, StartRead(c, t)
    PROVE  HInv'
  <1>. DEFINE k == NewCall("start", t)
              w == [k EXCEPT !.at = now]
  <1>1. k \in Calls /\ k.queue = {}
    BY NewCallType, NewCallQueue
  <1>. HIDE DEF k
  <1>2. w.queue = {}
    BY <1>1 DEF Calls
  <1>. HIDE DEF w
  <1>3. Knows("start_commit", w, tasks, revisions, forgotten, now)
    BY <1>2, NewCallQueue, PlainKnows
  <1>4. CASE Return(c, k, "existing")
    BY <1>4, QuietReturn DEF StartRead
  <1>5. CASE Goto(c, "start_commit", w)
    BY <1>3, <1>5, QuietGoto DEF StartRead
  <1>. QED
    BY <1>4, <1>5 DEF StartRead, k, w

LEMMA SubmitReadHist ==
    ASSUME HInv, Inv', NEW c \in Callers, NEW p \in Submissions, SubmitRead(c, p)
    PROVE  HInv'
  <1>. DEFINE n == NewCall("submit", p.task)
              k == [n EXCEPT !.proposal = p]
  <1>1. p.task \in TaskIds /\ p # None
    BY PolicyAssumption, NoneAssumption
  <1>2. /\ n \in Calls /\ n.stage = "submit" /\ n.task = p.task
        /\ n.queue = {} /\ n.rule = None
    BY <1>1, NewCallType, NewCallQueue
  <1>. HIDE DEF n
  <1>3. CallAt("reload", k) /\ k.queue = {} /\ k.rule = None
    BY <1>1, <1>2 DEF CallAt, Calls, Commits
  <1>. HIDE DEF k
  <1>4. QueueFits(k, tasks, forgotten, now)
    BY <1>3, NewCallQueue
  <1>5. CASE \E code : Return(c, k, code)
    BY <1>5, QuietReturn DEF SubmitRead
  <1>6. CASE Load(c, k)
    BY <1>3, <1>4, <1>6, LoadHist DEF SubmitRead
  <1>. QED
    BY <1>5, <1>6 DEF SubmitRead, k, n

LEMMA GetHist ==
    ASSUME HInv, Inv', NEW c \in Callers, NEW t \in TaskIds, Get(c, t)
    PROVE  HInv'
  <1>. DEFINE k == NewCall("get", t)
  <1>1. /\ k \in Calls /\ k.stage = "get" /\ k.task = t
        /\ k.queue = {} /\ k.rule = None
    BY NewCallType, NewCallQueue
  <1>. HIDE DEF k
  <1>2. CallAt("reload", k) /\ QueueFits(k, tasks, forgotten, now)
    BY <1>1, NewCallQueue DEF CallAt, Commits
  <1>3. Load(c, k)
    BY DEF Get, k
  <1>. QED
    BY <1>1, <1>2, <1>3, LoadHist DEF Get

LEMMA LifecycleRequestHist ==
    ASSUME HInv, Inv', NEW c \in Callers, NEW t \in TaskIds,
           NEW target \in Targets, NEW expect \in Expectations,
           LifecycleRequest(c, t, target, expect)
    PROVE  HInv'
  <1>. DEFINE n == NewCall("lifecycle", t)
              k == [n EXCEPT !.target = target, !.expect = expect]
              w == [k EXCEPT !.stage = "check"]
  <1>1. /\ n \in Calls /\ n.stage = "lifecycle" /\ n.task = t
        /\ n.queue = {} /\ n.rule = None
    BY NewCallType, NewCallQueue
  <1>2. target # None
    BY ConstantsAssumption, NoneAssumption DEF Lifecycle
  <1>. HIDE DEF n
  <1>3. /\ k \in Calls /\ k.stage = "lifecycle" /\ k.task = t
        /\ k.target = target /\ k.queue = {} /\ k.rule = None
    BY <1>1 DEF Calls
  <1>. HIDE DEF k
  <1>4. QueueFits(k, tasks, forgotten, now)
    BY <1>3, NewCallQueue
  <1>5. CASE Load(c, w)
    <2>1. CallAt("reload", w) /\ w.queue = {} /\ w.rule = None
      BY <1>2, <1>3 DEF CallAt, Calls, Commits
    <2>. HIDE DEF w
    <2>2. QueueFits(w, tasks, forgotten, now)
      BY <2>1, NewCallQueue
    <2>. QED
      BY <1>5, <2>1, <2>2, LoadHist DEF LifecycleRequest
  <1>6. CASE \E label \in {"gate", "lifecycle"} : Goto(c, label, k)
    BY <1>3, <1>4, <1>6, PlainKnows, QuietGoto DEF LifecycleRequest
  <1>. QED
    BY <1>5, <1>6 DEF LifecycleRequest, k, n

\* What a caller that is inside a call holds and knows.
LEMMA InCall ==
    ASSUME HInv, NEW c \in Callers, pc[c] # "idle"
    PROVE  /\ CallAt(pc[c], call[c])
           /\ Knows(pc[c], call[c], tasks, revisions, forgotten, now)
           /\ QueueFits(call[c], tasks, forgotten, now)
  BY DEF HInv, Inv, TypeOK, CallsKnow, Knows

LEMMA CompletionGateHist ==
    ASSUME HInv, Inv', NEW c \in Callers, CompletionGate(c)
    PROVE  HInv'
  <1>1. QueueFits(call[c], tasks, forgotten, now) /\ call[c].rule = None
    BY InCall DEF CompletionGate, Knows
  <1>2. CASE \E code : Return(c, call[c], code)
    BY <1>2, QuietReturn DEF CompletionGate
  <1>3. CASE Goto(c, "lifecycle", call[c])
    BY <1>1, <1>3, PlainKnows, QuietGoto DEF CompletionGate
  <1>. QED
    BY <1>2, <1>3 DEF CompletionGate

LEMMA LifecycleReadHist ==
    ASSUME HInv, Inv', NEW c \in Callers, LifecycleRead(c)
    PROVE  HInv'
  <1>. DEFINE w == [call[c] EXCEPT !.stage = "lifecycle"]
  <1>1. /\ CallAt("lifecycle", call[c]) /\ call[c].rule = None
        /\ QueueFits(call[c], tasks, forgotten, now)
    BY InCall DEF LifecycleRead, Knows
  <1>2. CallAt("reload", w) /\ w.queue = call[c].queue /\ w.rule = None
    BY <1>1 DEF CallAt, Calls, Commits
  <1>3. Load(c, w)
    BY DEF LifecycleRead
  <1>. HIDE DEF w
  <1>4. QueueFits(w, tasks, forgotten, now)
    BY <1>1, <1>2 DEF QueueFits
  <1>. QED
    BY <1>2, <1>3, <1>4, LoadHist DEF LifecycleRead

LEMMA ConfirmHist ==
    ASSUME HInv, Inv', NEW c \in Callers, Confirm(c)
    PROVE  HInv'
  <1>1. QueueFits(call[c], tasks, forgotten, now)
    BY InCall DEF Confirm
  <1>2. CASE \E code : Return(c, call[c], code)
    BY <1>2, QuietReturn DEF Confirm
  <1>3. CASE Goto(c, "reload", call[c])
    BY <1>1, <1>3, PlainKnows, QuietGoto DEF Confirm
  <1>. QED
    BY <1>2, <1>3 DEF Confirm

LEMMA ReloadHist ==
    ASSUME HInv, Inv', NEW c \in Callers, Reload(c)
    PROVE  HInv'
  <1>. DEFINE k == [call[c] EXCEPT !.rule = None]
  <1>1. CallAt("reload", call[c]) /\ QueueFits(call[c], tasks, forgotten, now)
    BY InCall DEF Reload
  <1>2. CallAt("reload", k) /\ k.queue = call[c].queue /\ k.rule = None
    BY <1>1 DEF CallAt, Calls, Commits
  <1>. HIDE DEF k
  <1>3. QueueFits(k, tasks, forgotten, now)
    BY <1>1, <1>2 DEF QueueFits
  <1>4. CASE \E code : Return(c, k, code)
    BY <1>4, QuietReturn DEF Reload
  <1>5. CASE Goto(c, "scan", k)
    BY <1>3, <1>5, PlainKnows, QuietGoto DEF Reload
  <1>6. CASE tasks[k.task] # None /\ Proceed(c, k, View(k.task))
    BY <1>2, <1>3, <1>6, ProceedHist DEF Reload
  <1>. QED
    BY <1>4, <1>5, <1>6 DEF Reload, k

\* The rule was due when the call found it so, and is no less due now.
LEMMA ExpireReadHist ==
    ASSUME HInv, Inv', NEW c \in Callers, ExpireRead(c)
    PROVE  HInv'
  <1>. DEFINE k == call[c]
              w == [k EXCEPT !.view = View(k.task), !.at = now]
  <1>1. /\ CallAt("expire_read", k) /\ QueueFits(k, tasks, forgotten, now)
        /\ Knows("expire_read", k, tasks, revisions, forgotten, now)
    BY InCall DEF ExpireRead
  <1>2. CallAt("reload", k)
    BY <1>1 DEF CallAt, Commits
  <1>. HIDE DEF k
  <1>3. CASE \E code : Return(c, k, code)
    BY <1>3, QuietReturn DEF ExpireRead
  <1>4. CASE Goto(c, "reload", k)
    BY <1>1, <1>4, PlainKnows, QuietGoto DEF ExpireRead
  <1>5. CASE /\ tasks[k.task] # None /\ tasks[k.task].lifecycle \notin Terminal
             /\ Goto(c, "expire_commit", w)
    <2>0. Inv
      BY DEF HInv
    <2>1. w.rule = k.rule /\ w.task = k.task /\ w.at = now
      BY <1>2, <1>5, <2>0, WithViewType
    <2>2. /\ w.view.row = tasks[k.task] /\ w.queue = k.queue
          /\ k.task \notin forgotten
                => ViewFits(w, tasks, revisions) /\ w.view.state.at <= w.at
      BY <1>2, <1>5, FreshView
    <2>. HIDE DEF w
    <2>3. k.task \notin forgotten
             => AgeDue(k.task, k.rule, tasks[k.task].created_at, now)
      BY <1>1 DEF Knows
    <2>4. Knows("expire_commit", w, tasks, revisions, forgotten, now)
      BY <1>1, <1>5, <2>1, <2>2, <2>3 DEF Knows, QueueFits
    <2>. QED
      BY <1>5, <2>4, QuietGoto DEF ExpireRead
  <1>. QED
    BY <1>3, <1>4, <1>5 DEF ExpireRead, k

LEMMA ScanReadHist ==
    ASSUME HInv, Inv', NEW c \in Callers, ScanRead(c)
    PROVE  HInv'
  <1>. DEFINE n == NewCall("scan", None)
  <1>1. n \in Calls
    BY NewCallType
  <1>. HIDE DEF n
  <1>2. PICK S \in ScanPages :
           Goto(c, "scan", [n EXCEPT !.queue =
                              {[task |-> t, row |-> tasks[t]] : t \in S}])
    BY DEF ScanRead, n
  <1>. DEFINE q == {[task |-> t, row |-> tasks[t]] : t \in S}
              w == [n EXCEPT !.queue = q]
  <1>3. \A t \in S : tasks[t] # None
    BY DEF ScanPages, Live
  <1>4. \A e \in q : e.task \in S /\ tasks[e.task] # None /\ tasks[e.task] = e.row
    BY <1>3
  <1>5. w.queue = q
    BY <1>1 DEF Calls
  <1>6. Goto(c, "scan", w)
    BY <1>2
  <1>. HIDE DEF q, w
  <1>7. ASSUME NEW e \in q, e.task \notin forgotten
        PROVE  Seasoned(e.row, now)
    <2>1. e.task \in TaskIds
      BY <1>4 DEF ScanPages, Live
    <2>. QED
      BY <1>4, <1>7, <2>1, FreshRow
  <1>8. QueueFits(w, tasks, forgotten, now)
    BY <1>4, <1>5, <1>7, SMTT(40) DEF QueueFits
  <1>. QED
    BY <1>6, <1>8, PlainKnows, QuietGoto DEF ScanRead

LEMMA ScanNextHist ==
    ASSUME HInv, Inv', NEW c \in Callers, ScanNext(c)
    PROVE  HInv'
  <1>. DEFINE k == call[c]
  <1>1. CallAt("scan", k) /\ QueueFits(k, tasks, forgotten, now)
    BY InCall DEF ScanNext
  <1>2. k \in Calls
    BY <1>1, SMTT(40) DEF CallAt
  <1>. HIDE DEF k
  <1>3. CASE \E code : Return(c, k, code)
    BY <1>3, QuietReturn DEF ScanNext
  <1>4. ASSUME NEW e \in k.queue,
               Goto(c, "scan", [k EXCEPT !.task = None, !.queue = @ \ {e}])
        PROVE  HInv'
    <2>. DEFINE w == [k EXCEPT !.task = None, !.queue = @ \ {e}]
    <2>1. w.queue = k.queue \ {e}
      BY <1>2 DEF Calls
    <2>2. Goto(c, "scan", w)
      BY <1>4
    <2>. HIDE DEF w
    <2>3. QueueFits(w, tasks, forgotten, now)
      BY <1>1, <2>1, SMTT(40) DEF QueueFits
    <2>. QED
      BY <2>2, <2>3, PlainKnows, QuietGoto DEF ScanNext
  <1>5. ASSUME NEW e \in k.queue, NEW rule,
               rule = DueReason(e.task, e.row, now),
               Goto(c, "expire_read",
                    [k EXCEPT !.task = e.task, !.rule = rule, !.queue = @ \ {e}])
        PROVE  HInv'
    <2>. DEFINE w == [k EXCEPT !.task = e.task, !.rule = rule, !.queue = @ \ {e}]
    <2>1. w.queue = k.queue \ {e} /\ w.task = e.task /\ w.rule = rule
      BY <1>2 DEF Calls
    <2>2. Goto(c, "expire_read", w)
      BY <1>5
    <2>. HIDE DEF w
    <2>3. QueueFits(w, tasks, forgotten, now)
      BY <1>1, <2>1 DEF QueueFits
    <2>4. e.task \notin forgotten =>
             /\ tasks[e.task] # None /\ tasks[e.task].created_at = e.row.created_at
             /\ Seasoned(e.row, now)
      BY <1>1 DEF QueueFits
    <2>5. e.task \notin forgotten => AgeDue(e.task, rule, e.row.created_at, now)
      <3>1. e.task \in TaskIds /\ e.row \in Row
        BY <1>2 DEF Calls
      <3>2. ASSUME e.task \notin forgotten
            PROVE  now \in Nat /\ e.row.created_at <= now
        BY <2>4, <3>1, <3>2, FreshRow
      <3>. QED
        BY <1>5, <2>4, <3>1, <3>2, DueIsAged
    <2>6. Knows("expire_read", w, tasks, revisions, forgotten, now)
      BY <2>1, <2>3, <2>4, <2>5 DEF Knows, Commits
    <2>. QED
      BY <2>2, <2>6, QuietGoto DEF ScanNext
  <1>. QED
    BY <1>3, <1>4, <1>5 DEF ScanNext, Oldest, k

LEMMA CrashHist ==
    ASSUME HInv, Inv', NEW c \in Callers, Crash(c)
    PROVE  HInv'
  BY QuietGoto DEF Crash

LEMMA TickHist ==
    ASSUME HInv, Inv', Tick
    PROVE  HInv'
  <1>0. Inv /\ Unborn /\ Histories
    BY DEF HInv
  <1>1. /\ now \in Nat /\ now' \in Nat /\ now <= now'
        /\ UNCHANGED <<tasks, revisions, proposals, steps, forgotten, pc, call>>
    BY <1>0 DEF Tick, tables, Inv, TypeOK
  <1>2. Grows(tasks, revisions, forgotten, now,
              tasks', revisions', forgotten', now')
    BY <1>1 DEF Grows
  <1>3. \A b \in Callers : pc[b] = "idle" \/
           Knows(pc[b], call[b], tasks', revisions', forgotten', now')
    BY <1>2, OthersKnow
  <1>4. CallsKnow'
    BY <1>1, <1>3 DEF CallsKnow
  <1>5. ASSUME NEW t \in TaskIds, tasks[t] # None, t \notin forgotten
        PROVE  History(t, tasks[t], revisions[t], now')
    <2>1. History(t, tasks[t], revisions[t], now)
      BY <1>0, <1>5 DEF Histories, Intact
    <2>2. tasks[t] \in Row /\ \A n \in DOMAIN revisions[t] :
                                 revisions[t][n] \in Revision
      BY <1>0, <1>5 DEF Inv, TypeOK
    <2>. QED
      BY <1>1, <2>1, <2>2, LaterHistory
  <1>6. Histories'
    BY <1>1, <1>5 DEF Histories, Intact
  <1>7. Unborn'
    BY <1>0, <1>1 DEF Unborn
  <1>. QED
    BY <1>4, <1>6, <1>7 DEF HInv

-----------------------------------------------------------------------------
(* The steps that write: each touches one task, and that one by one Birth, *)
(* one Move, or not at all, unless its id is forgotten.                    *)

OnlyTask(t) ==
    \A u \in TaskIds \ {t} :
        /\ tasks'[u] = tasks[u] /\ revisions'[u] = revisions[u]
        /\ proposals'[u] = proposals[u] /\ steps'[u] = steps[u]

TaskStep(t) ==
    \/ tasks'[t] = tasks[t] /\ revisions'[t] = revisions[t]
    \/ tasks[t] = None /\ Birth(tasks'[t], revisions'[t], now)
    \/ /\ tasks[t] # None
       /\ Move(t, tasks[t], revisions[t], now, tasks'[t], revisions'[t])

LEMMA BirthRow ==
    ASSUME NEW row2, NEW revs2, NEW time, Birth(row2, revs2, time)
    PROVE  row2 # None
  <1>1. row2 \in Row
    BY DEF Birth, Row, Lifecycle
  <1>. QED
    BY <1>1, NoneAssumption

LEMMA WriteStep ==
    ASSUME HInv, Inv', UNCHANGED now, NEW t \in TaskIds, OnlyTask(t),
           forgotten' \in {forgotten, forgotten \cup {t}},
           t \notin forgotten' => TaskStep(t),
           tasks'[t] = None =>
              DOMAIN revisions'[t] = {} /\ proposals'[t] = {} /\ steps'[t] = <<>>
    PROVE  /\ Unborn' /\ Histories'
           /\ Grows(tasks, revisions, forgotten, now,
                    tasks', revisions', forgotten', now')
  <1>0. Inv /\ Unborn /\ Histories /\ now \in Nat
    BY DEF HInv, Inv, TypeOK
  <1>1. Unborn'
    BY <1>0 DEF Unborn, OnlyTask
  <1>2. ASSUME NEW u \in TaskIds, u \notin forgotten', tasks[u] # None
        PROVE  /\ tasks[u] \in Row /\ u \notin forgotten
               /\ \A n \in DOMAIN revisions[u] : revisions[u][n] \in Revision
               /\ History(u, tasks[u], revisions[u], now)
    BY <1>0, <1>2 DEF Inv, TypeOK, Histories, Intact
  <1>3. Histories'
    <2>1. ASSUME NEW u \in TaskIds, u \notin forgotten', tasks'[u] # None
          PROVE  History(u, tasks'[u], revisions'[u], now)
      <3>1. CASE tasks'[u] = tasks[u] /\ revisions'[u] = revisions[u]
        BY <1>2, <2>1, <3>1
      <3>2. CASE u = t /\ tasks[t] = None /\ Birth(tasks'[t], revisions'[t], now)
        BY <1>0, <3>2, BirthHistory
      <3>3. CASE /\ u = t /\ tasks[t] # None
                 /\ Move(t, tasks[t], revisions[t], now, tasks'[t], revisions'[t])
        BY <1>0, <1>2, <2>1, <3>3, MoveKeepsHistory
      <3>. QED
        BY <2>1, <3>1, <3>2, <3>3 DEF OnlyTask, TaskStep
    <2>. QED
      BY <2>1 DEF Histories, Intact
  <1>4. ASSUME NEW u \in TaskIds \ forgotten', tasks[u] # None
        PROVE  /\ tasks'[u] # None
               /\ tasks'[u].created_at = tasks[u].created_at
               /\ \/ tasks'[u] = tasks[u]
                  \/ tasks[u].head_revision < tasks'[u].head_revision
               /\ \A n \in DOMAIN revisions[u] :
                     n \in DOMAIN revisions'[u] /\ revisions'[u][n] = revisions[u][n]
    <2>1. CASE tasks'[u] = tasks[u] /\ revisions'[u] = revisions[u]
      BY <1>4, <2>1
    <2>2. CASE Move(u, tasks[u], revisions[u], now, tasks'[u], revisions'[u])
      <3>1. tasks[u] \in Row /\ Linear(tasks[u], revisions[u])
        BY <1>2, <1>4 DEF History
      <3>. QED
        BY <2>2, <3>1, MoveGrows, NoneAssumption
    <2>. QED
      BY <1>4, <2>1, <2>2 DEF OnlyTask, TaskStep
  <1>5. forgotten \subseteq forgotten'
    OBVIOUS
  <1>6. Grows(tasks, revisions, forgotten, now,
              tasks', revisions', forgotten', now')
    BY <1>0, <1>4, <1>5 DEF Grows
  <1>. QED
    BY <1>1, <1>3, <1>6

\* start writes the first revision of a task of which nothing is left.
LEMMA StartIsBirth ==
    ASSUME HInv, NEW c \in Callers, StartCommit(c), tasks[call[c].task] = None
    PROVE  /\ call[c].task \in TaskIds
           /\ Birth(tasks'[call[c].task], revisions'[call[c].task], now)
           /\ OnlyTask(call[c].task)
           /\ Return(c, call[c], "ok")
           /\ UNCHANGED <<proposals, forgotten, now>>
  <1>. DEFINE k == call[c]
              t == k.task
  <1>0. Inv /\ Unborn
    BY DEF HInv
  <1>1. CallAt("start_commit", k)
    BY InCall DEF StartCommit
  <1>2. t \in TaskIds /\ k.at \in Nat /\ now \in Nat /\ TablesOK
    BY <1>0, <1>1, InvParts DEF CallAt, Calls, TablesOK
  <1>. DEFINE row(at) == [lifecycle |-> "open", head_revision |-> 1,
                          created_at |-> at, last_progress_at |-> at,
                          paused_at |-> None, no_progress_paused |-> 0]
              r(at) == [parent |-> None, lifecycle |-> "open",
                        content |-> InitialContent, at |-> at,
                        progress |-> FALSE, rule |-> None]
  <1>3. PICK at \in k.at .. now :
           /\ tasks' = [tasks EXCEPT ![t] = row(at)]
           /\ revisions' = [revisions EXCEPT ![t] = Extend(@, 1, r(at))]
    BY DEF StartCommit
  <1>4. /\ steps' = [steps EXCEPT ![t] = Append(@,
              [proposal |-> None, outcome |-> "accepted", resulting |-> 1])]
        /\ Return(c, k, "ok")
        /\ UNCHANGED <<proposals, forgotten, now>>
    BY DEF StartCommit
  <1>5. at \in Nat /\ at <= now
    BY <1>2
  <1>6. /\ tasks'[t] = row(at)
        /\ revisions'[t] = Extend(revisions[t], 1, r(at))
    BY <1>2, <1>3 DEF TablesOK
  <1>7. OnlyTask(t)
    BY <1>2, <1>3, <1>4 DEF OnlyTask, TablesOK
  <1>8. DOMAIN revisions'[t] = {1} /\ revisions'[t][1] = r(at)
    <2>1. DOMAIN revisions[t] = {}
      BY <1>0, <1>2 DEF Unborn
    <2>. QED
      BY <1>6, <2>1 DEF Extend
  <1>9. Birth(tasks'[t], revisions'[t], now)
    BY <1>5, <1>6, <1>8 DEF Birth
  <1>. QED
    BY <1>2, <1>4, <1>7, <1>9

LEMMA StartCommitHist ==
    ASSUME HInv, Inv', NEW c \in Callers, StartCommit(c)
    PROVE  HInv'
  <1>. DEFINE t == call[c].task
  <1>0. Inv
    BY DEF HInv
  <1>1. CASE tasks[t] # None
    BY <1>1, QuietReturn DEF StartCommit
  <1>2. CASE tasks[t] = None
    <2>1. /\ t \in TaskIds /\ OnlyTask(t) /\ Return(c, call[c], "ok")
          /\ Birth(tasks'[t], revisions'[t], now)
          /\ UNCHANGED <<proposals, forgotten, now>>
      BY <1>2, StartIsBirth
    <2>2. tasks'[t] # None
      BY <2>1, BirthRow
    <2>3. /\ Unborn' /\ Histories'
          /\ Grows(tasks, revisions, forgotten, now,
                   tasks', revisions', forgotten', now')
      BY <1>2, <2>1, <2>2, WriteStep DEF TaskStep
    <2>4. CallsKnow'
      BY <1>0, <2>1, <2>3, OthersKnow, ReturnKnows
    <2>. QED
      BY <2>3, <2>4 DEF HInv
  <1>. QED
    BY <1>1, <1>2

LEMMA ForgetHist ==
    ASSUME HInv, Inv', NEW c \in Callers, NEW t \in TaskIds, Forget(c, t)
    PROVE  HInv'
  <1>. DEFINE k == NewCall("forget", t)
  <1>0. Inv /\ TablesOK
    BY InvParts DEF HInv
  <1>1. PICK code : Return(c, k, code)
    BY DEF Forget
  <1>2. CASE UNCHANGED tables
    BY <1>1, <1>2, QuietReturn DEF Forget
  <1>3. CASE /\ tasks' = [tasks EXCEPT ![t] = None]
             /\ revisions' = [revisions EXCEPT ![t] = <<>>]
             /\ proposals' = [proposals EXCEPT ![t] = {}]
             /\ steps' = [steps EXCEPT ![t] = <<>>]
             /\ forgotten' = forgotten \cup {t}
    <2>1. OnlyTask(t)
      BY <1>0, <1>3 DEF OnlyTask, TablesOK
    <2>2. /\ DOMAIN revisions'[t] = {} /\ proposals'[t] = {}
          /\ steps'[t] = <<>>
      BY <1>0, <1>3 DEF TablesOK
    <2>3. UNCHANGED now
      BY DEF Forget
    <2>4. /\ Unborn' /\ Histories'
          /\ Grows(tasks, revisions, forgotten, now,
                   tasks', revisions', forgotten', now')
      BY <1>3, <2>1, <2>2, <2>3, WriteStep
    <2>5. CallsKnow'
      BY <1>0, <1>1, <2>4, OthersKnow, ReturnKnows
    <2>. QED
      BY <2>4, <2>5 DEF HInv
  <1>. QED
    BY <1>2, <1>3 DEF Forget

\* The keys of the revisions table make a computation current: if the child
\* of the revision a call read can still be inserted, that revision is the
\* head, and the row the call read is the stored row.
LEMMA InsertIsCurrent ==
    ASSUME HInv, NEW label \in Commits, NEW k, CallAt(label, k),
           Knows(label, k, tasks, revisions, forgotten, now),
           k.task \notin forgotten,
           CanInsertRevision(k.task, k.view.row.head_revision)
    PROVE  /\ tasks[k.task] # None /\ tasks[k.task] \in Row
           /\ tasks[k.task] = k.view.row
           /\ revisions[k.task][tasks[k.task].head_revision] = k.view.state
           /\ k.view.row.lifecycle = k.view.state.lifecycle
           /\ k.view.state.at <= k.at
           /\ History(k.task, tasks[k.task], revisions[k.task], now)
  <1>. DEFINE t == k.task
  <1>1. t \in TaskIds /\ k.view \in Views
    BY DEF CallAt, Calls, Commits
  <1>2. ViewFits(k, tasks, revisions) /\ k.view.state.at <= k.at
    BY DEF Knows
  <1>3. /\ tasks[t] # None /\ tasks[t] \in Row
        /\ History(t, tasks[t], revisions[t], now)
    BY <1>1, <1>2 DEF HInv, Inv, TypeOK, Histories, Intact, ViewFits
  <1>4. PICK b \in Nat : b = k.view.row.head_revision
    BY <1>1 DEF Views, Row
  <1>5. PICK h \in Nat : h = tasks[t].head_revision
    BY <1>3 DEF Row
  <1>6. DOMAIN revisions[t] = 1 .. h
    BY <1>3, <1>5 DEF History, Linear
  <1>7. b \in 1 .. h /\ b + 1 \notin 1 .. h
    BY <1>2, <1>4, <1>6 DEF ViewFits, CanInsertRevision
  <1>8. b = h
    BY <1>7
  <1>9. k.view.row = tasks[t]
    BY <1>2, <1>4, <1>5, <1>8 DEF ViewFits
  <1>. QED
    BY <1>2, <1>3, <1>9 DEF ViewFits

\* The row a lifecycle change writes when the row it read is the stored one.
LEMMA MovedRowFields ==
    ASSUME NEW row \in Row, NEW target \in Lifecycle, NEW at \in Nat
    PROVE  LET new == MovedRow(row, row, target, at) IN
           /\ new.lifecycle = target
           /\ new.created_at = row.created_at
           /\ new.last_progress_at = row.last_progress_at
           /\ new.paused_at = IF target = "paused" THEN at ELSE None
           /\ new.no_progress_paused
                 = row.no_progress_paused + PauseClosed(row, target, at)
  <1>1. PausedAt(row, row, target, at) = IF target = "paused" THEN at ELSE None
    BY DEF PausedAt
  <1>. QED
    BY <1>1 DEF MovedRow, Row

\* The transaction of _lifecycle moves a task that was never forgotten.
LEMMA ChangeMoves ==
    ASSUME HInv, NEW label \in {"lifecycle_commit", "expire_commit"}, NEW k,
           CallAt(label, k), Knows(label, k, tasks, revisions, forgotten, now),
           k.task \notin forgotten,
           CanInsertRevision(k.task, k.view.row.head_revision),
           NEW target \in Lifecycle, NEW rule \in Rules \cup {None},
           target = "expired" <=> rule # None,
           target # k.view.row.lifecycle,
           AgeDue(k.task, rule, tasks[k.task].created_at, k.at),
           ChangeLifecycle(k, target, rule)
    PROVE  Move(k.task, tasks[k.task], revisions[k.task], now,
                tasks'[k.task], revisions'[k.task])
  <1>. DEFINE t   == k.task
              row == tasks[t]
              revs == revisions[t]
  <1>0. TablesOK /\ now \in Nat
    BY InvParts DEF HInv, TablesOK
  <1>1. t \in TaskIds /\ k.at \in Nat /\ k.view \in Views
    BY DEF CallAt, Calls, Commits
  <1>2. /\ row \in Row /\ row = k.view.row
        /\ revs[row.head_revision] = k.view.state
        /\ k.view.state.at <= k.at
        /\ History(t, row, revs, now)
    BY InsertIsCurrent DEF Commits
  <1>3. /\ k.view.state.at \in Nat /\ k.view.state.content \in Content
        /\ row.head_revision \in Nat /\ row.created_at \in Nat
    BY <1>1, <1>2 DEF Views, Revision, Row
  <1>. DEFINE base == row.head_revision
              r(at) == [parent |-> base, lifecycle |-> target,
                        content |-> k.view.state.content, at |-> at,
                        progress |-> FALSE, rule |-> rule]
              new(at) == MovedRow(row, row, target, at)
  <1>4. PICK at \in k.at .. now :
           /\ revisions' = [revisions EXCEPT ![t] = Extend(@, base + 1, r(at))]
           /\ tasks' = [tasks EXCEPT ![t] = new(at)]
    BY <1>0, <1>1, <1>2 DEF ChangeLifecycle, TablesOK
  <1>5. at \in Nat /\ k.at <= at /\ at <= now
    BY <1>0, <1>1
  <1>6. tasks'[t] = new(at) /\ revisions'[t] = Extend(revs, base + 1, r(at))
    BY <1>0, <1>1, <1>4 DEF TablesOK
  <1>7. /\ r(at) \in Revision /\ r(at).parent = base /\ r(at).at = at
        /\ r(at).lifecycle = target /\ r(at).rule = rule
    BY <1>3, <1>5 DEF Revision
  <1>8. r(at).progress = FALSE
    BY DEF r
  <1>9. row.paused_at = IF row.lifecycle = "paused" THEN k.view.state.at ELSE None
    BY <1>2 DEF History, Cached
  <1>10. row.paused_at # None => row.paused_at <= at
    BY <1>1, <1>3, <1>5, <1>9, <1>2
  <1>11. new(at) \in Row /\ new(at).head_revision = base + 1
    BY <1>2, <1>5, <1>10, MovedRowType
  <1>12. /\ new(at).lifecycle = target
         /\ new(at).created_at = row.created_at
         /\ new(at).last_progress_at = row.last_progress_at
         /\ new(at).paused_at = IF target = "paused" THEN at ELSE None
         /\ new(at).no_progress_paused
               = row.no_progress_paused + PauseClosed(row, target, at)
    BY <1>2, <1>5, MovedRowFields
  <1>13. PauseClosed(row, target, at)
            = IF row.lifecycle = "paused" THEN at - k.view.state.at ELSE 0
    <2>1. ~(row.lifecycle = "paused" /\ target = "paused")
      BY <1>2
    <2>2. k.view.state.at # None
      BY <1>3, NoneAssumption
    <2>. QED
      BY <1>9, <2>1, <2>2 DEF PauseClosed
  <1>14. row.lifecycle \notin Terminal
    BY <1>2 DEF Knows
  <1>15. AgeDue(t, rule, row.created_at, at)
    BY <1>1, <1>3, <1>5, AgeStaysDue
  <1>16. k.view.state.at <= at
    BY <1>1, <1>2, <1>3, <1>5
  <1>. HIDE DEF r, new, row, revs
  <1>17. MoveBy(t, row, revs, now, new(at), Extend(revs, base + 1, r(at)), r(at))
    <2>1. revs[base] = k.view.state
      BY <1>2
    <2>2. ~(row.lifecycle = "paused" /\ target = "paused")
      BY <1>2
    <2>. QED
      BY <1>5, <1>7, <1>8, <1>11, <1>12, <1>13, <1>14, <1>15, <1>16, <2>1, <2>2
      DEF MoveBy
  <1>. QED
    BY <1>6, <1>7, <1>17 DEF Move, row, revs

\* The other tasks, and the proposals of this one, do not notice.
LEMMA ChangeIsLocal ==
    ASSUME Inv, NEW k, k.task \in TaskIds, NEW target, NEW rule,
           ChangeLifecycle(k, target, rule)
    PROVE  OnlyTask(k.task) /\ UNCHANGED <<proposals, forgotten>>
  BY DEF ChangeLifecycle, OnlyTask, Inv, TypeOK

\* ... and the task is still there, whatever the call had read of it.
LEMMA ChangeKeepsTask ==
    ASSUME Inv, NEW label \in {"lifecycle_commit", "expire_commit"}, NEW k,
           CallAt(label, k), NEW target \in Lifecycle, NEW rule,
           CanInsertRevision(k.task, k.view.row.head_revision),
           ChangeLifecycle(k, target, rule)
    PROVE  tasks'[k.task] # None
  <1>. DEFINE t   == k.task
              row == k.view.row
  <1>1. /\ t \in TaskIds /\ k.view \in Views /\ k.at \in Nat
        /\ row.paused_at # None => row.paused_at <= k.at
    BY DEF CallAt, Calls, Commits
  <1>2. row \in Row /\ tasks[t] \in Row /\ now \in Nat /\ TablesOK
    BY <1>1, InvParts DEF Views, TablesOK, CanInsertRevision
  <1>3. PICK at \in k.at .. now :
           tasks' = [tasks EXCEPT ![t] = MovedRow(@, row, target, at)]
    BY <1>1, <1>2 DEF ChangeLifecycle
  <1>4. tasks'[t] = MovedRow(tasks[t], row, target, at)
    BY <1>1, <1>2, <1>3 DEF TablesOK
  <1>5. at \in Nat /\ (row.paused_at # None => row.paused_at <= at)
    BY <1>1, <1>2 DEF Row
  <1>6. MovedRow(tasks[t], row, target, at) \in Row
    BY <1>2, <1>5, MovedRowType
  <1>. QED
    BY <1>4, <1>6, NoneAssumption

LEMMA ChangeHist ==
    ASSUME HInv, Inv', UNCHANGED now,
           NEW label \in {"lifecycle_commit", "expire_commit"}, NEW k,
           CallAt(label, k), Knows(label, k, tasks, revisions, forgotten, now),
           CanInsertRevision(k.task, k.view.row.head_revision),
           NEW target \in Lifecycle, NEW rule \in Rules \cup {None},
           target = "expired" <=> rule # None,
           target # k.view.row.lifecycle,
           k.task \notin forgotten
              => AgeDue(k.task, rule, tasks[k.task].created_at, k.at),
           ChangeLifecycle(k, target, rule)
    PROVE  /\ Unborn' /\ Histories'
           /\ Grows(tasks, revisions, forgotten, now,
                    tasks', revisions', forgotten', now')
  <1>1. Inv /\ k.task \in TaskIds
    BY DEF HInv, CallAt
  <1>2. OnlyTask(k.task) /\ UNCHANGED <<proposals, forgotten>>
    BY <1>1, ChangeIsLocal
  <1>3. tasks'[k.task] # None
    BY <1>1, ChangeKeepsTask
  <1>4. k.task \notin forgotten => TaskStep(k.task)
    <2>1. tasks[k.task] # None
      BY DEF CanInsertRevision
    <2>2. ASSUME k.task \notin forgotten
          PROVE  Move(k.task, tasks[k.task], revisions[k.task], now,
                      tasks'[k.task], revisions'[k.task])
      BY <2>2, ChangeMoves
    <2>. QED
      BY <2>1, <2>2 DEF TaskStep
  <1>. QED
    BY <1>1, <1>2, <1>3, <1>4, WriteStep

LEMMA LifecycleCommitHist ==
    ASSUME HInv, Inv', NEW c \in Callers, LifecycleCommit(c)
    PROVE  HInv'
  <1>. DEFINE k == call[c]
              w == [k EXCEPT !.view = None, !.at = 0]
  <1>0. Inv
    BY DEF HInv
  <1>1. /\ CallAt("lifecycle_commit", k) /\ QueueFits(k, tasks, forgotten, now)
        /\ Knows("lifecycle_commit", k, tasks, revisions, forgotten, now)
    BY InCall DEF LifecycleCommit
  <1>2. /\ k.target \in Lifecycle /\ k.target # "expired"
        /\ k.target # k.view.row.lifecycle
    BY <1>1, ConstantsAssumption DEF CallAt, Calls, Lifecycle, Knows
  <1>3. w.queue = k.queue /\ w.task = k.task
    BY <1>1 DEF CallAt, Calls
  <1>4. pc[c] = "lifecycle_commit"
    BY DEF LifecycleCommit
  <1>. HIDE DEF k, w
  <1>5. CASE /\ CanInsertRevision(k.task, k.view.row.head_revision)
             /\ ChangeLifecycle(k, k.target, None)
             /\ Goto(c, "confirm", w)
    <2>1. UNCHANGED now
      BY DEF LifecycleCommit
    <2>2. AgeDue(k.task, None, tasks[k.task].created_at, k.at)
      BY NoneAssumption DEF AgeDue, Rules
    <2>3. /\ Unborn' /\ Histories'
          /\ Grows(tasks, revisions, forgotten, now,
                   tasks', revisions', forgotten', now')
      BY <1>1, <1>2, <1>5, <2>1, <2>2, ChangeHist
    <2>4. \A b \in Callers : pc[b] = "idle" \/
             Knows(pc[b], call[b], tasks', revisions', forgotten', now')
      BY <2>3, OthersKnow
    <2>5. QueueFits(w, tasks', forgotten', now')
      BY <1>3, <1>4, <2>4 DEF Knows, QueueFits, k
    <2>6. Knows("confirm", w, tasks', revisions', forgotten', now')
      <3>1. tasks'[w.task] # None
        BY <1>0, <1>1, <1>2, <1>3, <1>5, ChangeKeepsTask
      <3>. QED
        BY <2>5, <3>1, PlainKnows
    <2>7. CallsKnow'
      BY <1>0, <1>5, <2>4, <2>6, GotoKnows
    <2>. QED
      BY <2>3, <2>7 DEF HInv
  <1>6. CASE (\E code : Return(c, k, code)) /\ UNCHANGED tables
    BY <1>6, QuietReturn DEF LifecycleCommit
  <1>. QED
    BY <1>5, <1>6 DEF LifecycleCommit, k, w

LEMMA ExpireCommitHist ==
    ASSUME HInv, Inv', NEW c \in Callers, ExpireCommit(c)
    PROVE  HInv'
  <1>. DEFINE k == call[c]
              w == [k EXCEPT !.view = None, !.at = 0]
  <1>0. Inv
    BY DEF HInv
  <1>1. /\ CallAt("expire_commit", k) /\ QueueFits(k, tasks, forgotten, now)
        /\ Knows("expire_commit", k, tasks, revisions, forgotten, now)
    BY InCall DEF ExpireCommit
  <1>2. /\ "expired" \in Lifecycle /\ "expired" # k.view.row.lifecycle
        /\ k.rule \in Rules \cup {None} /\ k.rule # None
        /\ k.task \notin forgotten
              => AgeDue(k.task, k.rule, tasks[k.task].created_at, k.at)
    BY <1>1 DEF CallAt, Calls, Lifecycle, Knows, Terminal
  <1>3. w.queue = k.queue /\ w.task = k.task
    BY <1>1 DEF CallAt, Calls
  <1>4. pc[c] = "expire_commit"
    BY DEF ExpireCommit
  <1>. HIDE DEF k, w
  <1>5. CASE /\ CanInsertRevision(k.task, k.view.row.head_revision)
             /\ ChangeLifecycle(k, "expired", k.rule)
             /\ Goto(c, "confirm", w)
    <2>1. UNCHANGED now
      BY DEF ExpireCommit
    <2>2. /\ Unborn' /\ Histories'
          /\ Grows(tasks, revisions, forgotten, now,
                   tasks', revisions', forgotten', now')
      BY <1>1, <1>2, <1>5, <2>1, ChangeHist
    <2>3. \A b \in Callers : pc[b] = "idle" \/
             Knows(pc[b], call[b], tasks', revisions', forgotten', now')
      BY <2>2, OthersKnow
    <2>4. QueueFits(w, tasks', forgotten', now')
      BY <1>3, <1>4, <2>3 DEF Knows, QueueFits, k
    <2>5. Knows("confirm", w, tasks', revisions', forgotten', now')
      <3>1. tasks'[w.task] # None
        BY <1>0, <1>1, <1>2, <1>3, <1>5, ChangeKeepsTask
      <3>. QED
        BY <2>4, <3>1, PlainKnows
    <2>6. CallsKnow'
      BY <1>0, <1>5, <2>3, <2>5, GotoKnows
    <2>. QED
      BY <2>2, <2>6 DEF HInv
  <1>6. CASE Goto(c, "reload", w) /\ UNCHANGED tables
    <2>1. QueueFits(w, tasks, forgotten, now)
      BY <1>1, <1>3 DEF QueueFits
    <2>. QED
      BY <1>6, <2>1, PlainKnows, QuietGoto DEF ExpireCommit
  <1>7. CASE (\E code : Return(c, k, code)) /\ UNCHANGED tables
    BY <1>7, QuietReturn DEF ExpireCommit
  <1>. QED
    BY <1>5, <1>6, <1>7 DEF ExpireCommit, k, w

(* submit. *)

\* An accepted delta was judged on an open task.
LEMMA AcceptedIsOpen ==
    ASSUME NEW v \in Views, NEW p \in Submissions,
           Evaluate(v, p).outcome = "accepted"
    PROVE  /\ v.state.lifecycle \notin Terminal \cup {"paused"}
           /\ p.base = v.row.head_revision
  BY DEF Evaluate

\* The row of _commit keeps what is not its business.
LEMMA AdvancedRowFields ==
    ASSUME NEW row \in Row, NEW progress \in BOOLEAN, NEW at \in Nat
    PROVE  /\ AdvancedRow(row, progress, at).created_at = row.created_at
           /\ AdvancedRow(row, progress, at).no_progress_paused
                 = row.no_progress_paused
           /\ AdvancedRow(row, progress, at).last_progress_at
                 = IF progress THEN at ELSE row.last_progress_at
  BY DEF AdvancedRow, Row

\* What a commit that reaches its end leaves behind: the decision, the step
\* that tells it and, when it accepts, one move of the task.
Recorded(c, decided) ==
    LET t == call[c].task
        p == call[c].proposal
    IN  /\ decided \in Decided
        /\ decided.id = p.id /\ decided.key = p.key
        /\ decided.payload = Payload(p)
        /\ tasks[t] # None /\ tasks'[t] # None
        /\ CanInsertProposal(t, p)
        /\ OnlyTask(t)
        /\ proposals'[t] = proposals[t] \cup {decided}
        /\ steps'[t] = Append(steps[t], [proposal |-> p.id,
                                         outcome |-> decided.outcome,
                                         resulting |-> decided.resulting])
        /\ \A n \in DOMAIN revisions[t] :
              n \in DOMAIN revisions'[t] /\ revisions'[t][n] = revisions[t][n]
        /\ Return(c, call[c], decided.outcome)
        /\ UNCHANGED <<forgotten, now>>
        /\ t \notin forgotten =>
              \/ /\ decided.outcome # "accepted"
                 /\ tasks'[t] = tasks[t] /\ revisions'[t] = revisions[t]
              \/ /\ decided.outcome = "accepted"
                 /\ decided.resulting = tasks'[t].head_revision
                 /\ p.base = tasks[t].head_revision
                 /\ Move(t, tasks[t], revisions[t], now, tasks'[t], revisions'[t])

\* An accepted proposal on a task that was never forgotten moves it.
LEMMA AcceptMoves ==
    ASSUME HInv, NEW k, CallAt("submit_commit", k),
           Knows("submit_commit", k, tasks, revisions, forgotten, now),
           k.task \notin forgotten,
           CanInsertRevision(k.task, k.view.row.head_revision),
           NEW d \in Decision, d = Evaluate(k.view, k.proposal),
           d.outcome = "accepted", NEW at \in k.at .. now,
           NEW row2, row2 = AdvancedRow(tasks[k.task], d.progress, at),
           NEW revs2, revs2 = Extend(revisions[k.task],
              k.view.row.head_revision + 1,
              [parent |-> k.view.row.head_revision,
               lifecycle |-> k.view.state.lifecycle, content |-> d.content,
               at |-> at, progress |-> d.progress, rule |-> None])
    PROVE  Move(k.task, tasks[k.task], revisions[k.task], now, row2, revs2)
  <1>. DEFINE t    == k.task
              row  == tasks[t]
              revs == revisions[t]
              base == row.head_revision
              r    == [parent |-> base, lifecycle |-> k.view.state.lifecycle,
                       content |-> d.content, at |-> at,
                       progress |-> d.progress, rule |-> None]
  <1>0. now \in Nat
    BY DEF HInv, Inv, TypeOK
  <1>1. /\ t \in TaskIds /\ k.at \in Nat /\ k.view \in Views
        /\ k.proposal \in Submissions
    BY DEF CallAt, Calls, Commits
  <1>2. /\ row \in Row /\ row = k.view.row
        /\ revs[base] = k.view.state
        /\ row.lifecycle = k.view.state.lifecycle
        /\ k.view.state.at <= k.at
        /\ History(t, row, revs, now)
    BY InsertIsCurrent DEF Commits
  <1>3. /\ at \in Nat /\ k.at <= at /\ at <= now
        /\ k.view.state.at \in Nat
    BY <1>0, <1>1 DEF Views, Revision
  <1>4. row.lifecycle \notin Terminal /\ row.lifecycle # "paused"
    BY <1>1, <1>2, AcceptedIsOpen
  <1>5. /\ d.content \in Content /\ d.progress \in BOOLEAN
        /\ base \in Nat /\ row.lifecycle \in Lifecycle
    BY <1>2 DEF Decision, Row
  <1>6. r \in Revision
    BY <1>2, <1>3, <1>5 DEF Revision
  <1>7. /\ r.parent = base /\ r.lifecycle = row.lifecycle /\ r.at = at
        /\ r.progress = d.progress /\ r.rule = None
    BY <1>2
  <1>8. revs2 = Extend(revs, base + 1, r)
    BY <1>2
  <1>9. /\ row2 \in Row /\ row2.head_revision = base + 1
        /\ row2.paused_at = row.paused_at /\ row2.lifecycle = row.lifecycle
    BY <1>2, <1>3, <1>5, AdvancedRowType
  <1>10. /\ row2.created_at = row.created_at
         /\ row2.no_progress_paused = row.no_progress_paused
         /\ row2.last_progress_at = IF r.progress THEN at
                                    ELSE row.last_progress_at
    BY <1>2, <1>3, <1>5, <1>7, AdvancedRowFields
  <1>11. row2.paused_at = None
    BY <1>2, <1>4, <1>9 DEF History, Cached
  <1>12. revs[base].at <= at
    BY <1>1, <1>2, <1>3
  <1>13. row.no_progress_paused = row.no_progress_paused + 0
    BY <1>2 DEF Row
  <1>14. r.lifecycle # "expired" /\ AgeDue(t, r.rule, row.created_at, r.at)
    BY <1>4, <1>7, NoneAssumption DEF Terminal, AgeDue, Rules
  <1>. HIDE DEF r, row, revs
  <1>15. MoveBy(t, row, revs, now, row2, revs2, r)
    BY <1>3, <1>4, <1>6, <1>7, <1>8, <1>9, <1>10, <1>11, <1>12, <1>13, <1>14
    DEF MoveBy
  <1>. QED
    BY <1>6, <1>15 DEF Move, row, revs

LEMMA SubmitEffect ==
    ASSUME HInv, NEW c \in Callers, SubmitCommit(c)
    PROVE  \/ /\ UNCHANGED <<tables, now>>
              /\ \E code \in {"task_not_eligible", "integrity_error"} :
                    Return(c, call[c], code)
           \/ \E decided \in Decided : Recorded(c, decided)
  <1>. DEFINE k         == call[c]
              t         == k.task
              p         == k.proposal
              v         == k.view
              d         == Evaluate(v, p)
              base      == v.row.head_revision
              inserted  == d.outcome = "accepted" /\ CanInsertRevision(t, base)
              advanced  == inserted /\ tasks[t].head_revision = base
              outcome   == IF d.outcome = "accepted" /\ ~advanced
                           THEN "conflict" ELSE d.outcome
              resulting == IF advanced THEN base + 1
                           ELSE IF outcome = "no_change" THEN base ELSE None
              r(at)     == [parent |-> base, lifecycle |-> v.state.lifecycle,
                            content |-> d.content, at |-> at,
                            progress |-> d.progress, rule |-> None]
              decided   == [id |-> p.id, key |-> p.key, payload |-> Payload(p),
                            outcome |-> outcome, resulting |-> resulting]
              step      == [proposal |-> p.id, outcome |-> outcome,
                            resulting |-> resulting]
  <1>0. TablesOK
    BY InvParts, SMTT(40) DEF HInv
  <1>1. /\ CallAt("submit_commit", k)
        /\ Knows("submit_commit", k, tasks, revisions, forgotten, now)
    BY InCall DEF SubmitCommit
  <1>2. /\ t \in TaskIds /\ p \in Submissions /\ v \in Views
        /\ k.at \in Nat /\ now \in Nat
        /\ d.outcome # "value_error"
    BY <1>0, <1>1, SMTT(30) DEF CallAt, Calls, Commits, TablesOK
  <1>3. CASE /\ tasks[t] # None /\ CanInsertProposal(t, p)
             /\ \E at \in k.at .. now :
                /\ revisions' = IF ~inserted THEN revisions
                      ELSE [revisions EXCEPT ![t] = Extend(@, base + 1, r(at))]
                /\ tasks' = IF ~advanced THEN tasks
                      ELSE [tasks EXCEPT ![t] = AdvancedRow(@, d.progress, at)]
             /\ proposals' = [proposals EXCEPT ![t] = @ \cup {decided}]
             /\ steps' = [steps EXCEPT ![t] = Append(@, step)]
             /\ Return(c, k, outcome)
             /\ UNCHANGED <<forgotten, now>>
    <2>1. d \in Decision
      BY <1>2, EvaluateFacts
    <2>2. /\ base \in Nat \ {0} /\ d.progress \in BOOLEAN
          /\ outcome \in Outcome /\ resulting \in Nat \cup {None}
      BY <1>2, <2>1 DEF Views, Row, Decision, Outcome
    <2>3. /\ outcome = "accepted" <=> advanced
          /\ advanced => resulting = base + 1 /\ d.outcome = "accepted"
      OBVIOUS
    <2>4. inserted => d.outcome = "accepted" /\ CanInsertRevision(t, base)
      OBVIOUS
    <2>5. advanced <=> inserted /\ tasks[t].head_revision = base
      OBVIOUS
    <2>. HIDE DEF outcome, resulting
    <2>6. decided \in Decided
      BY <1>2, <2>2 DEF Decided
    <2>7. /\ decided.id = p.id /\ decided.key = p.key
          /\ decided.payload = Payload(p) /\ decided.outcome = outcome
          /\ decided.resulting = resulting
      OBVIOUS
    <2>8. PICK at \in k.at .. now :
             /\ revisions' = IF ~inserted THEN revisions
                   ELSE [revisions EXCEPT ![t] = Extend(@, base + 1, r(at))]
             /\ tasks' = IF ~advanced THEN tasks
                   ELSE [tasks EXCEPT ![t] = AdvancedRow(@, d.progress, at)]
      BY <1>3
    <2>. HIDE DEF d, inserted, advanced, r, decided
    <2>9. /\ proposals'[t] = proposals[t] \cup {decided}
          /\ steps'[t] = Append(steps[t], step)
          /\ \A u \in TaskIds \ {t} :
                proposals'[u] = proposals[u] /\ steps'[u] = steps[u]
      BY <1>0, <1>2, <1>3 DEF TablesOK
    <2>10. /\ revisions'[t] = IF ~inserted THEN revisions[t]
                              ELSE Extend(revisions[t], base + 1, r(at))
           /\ \A u \in TaskIds \ {t} : revisions'[u] = revisions[u]
      BY <1>0, <1>2, <2>8 DEF TablesOK
    <2>11. /\ tasks'[t] = IF ~advanced THEN tasks[t]
                          ELSE AdvancedRow(tasks[t], d.progress, at)
           /\ \A u \in TaskIds \ {t} : tasks'[u] = tasks[u]
      BY <1>0, <1>2, <2>8 DEF TablesOK
    <2>12. OnlyTask(t)
      BY <2>9, <2>10, <2>11 DEF OnlyTask
    <2>13. at \in Nat /\ tasks[t] \in Row
      BY <1>0, <1>2, <1>3 DEF TablesOK
    <2>14. /\ AdvancedRow(tasks[t], d.progress, at) \in Row
           /\ AdvancedRow(tasks[t], d.progress, at).head_revision
                 = tasks[t].head_revision + 1
      BY <2>2, <2>13, AdvancedRowType
    <2>15. tasks'[t] # None
      BY <1>3, <2>11, <2>14, NoneAssumption
    <2>16. \A n \in DOMAIN revisions[t] :
              n \in DOMAIN revisions'[t] /\ revisions'[t][n] = revisions[t][n]
      <3>1. CASE ~inserted
        BY <2>10, <3>1
      <3>2. CASE inserted
        <4>1. base + 1 \notin DOMAIN revisions[t]
          BY <2>4, <3>2 DEF CanInsertRevision
        <4>2. revisions'[t] = Extend(revisions[t], base + 1, r(at))
          BY <2>10, <3>2
        <4>. QED
          BY <4>1, <4>2 DEF Extend
      <3>. QED
        BY <3>1, <3>2
    <2>17. ASSUME t \notin forgotten, ~advanced
           PROVE  ~inserted
      <3>1. ASSUME inserted
            PROVE  tasks[t] = v.row
        BY <1>1, <2>4, <2>17, <3>1, InsertIsCurrent DEF Commits
      <3>. QED
        BY <2>5, <2>17, <3>1
    <2>18. ASSUME t \notin forgotten, advanced
           PROVE  /\ decided.resulting = tasks'[t].head_revision
                  /\ p.base = tasks[t].head_revision
                  /\ Move(t, tasks[t], revisions[t], now,
                          tasks'[t], revisions'[t])
      <3>1. tasks'[t] = AdvancedRow(tasks[t], d.progress, at)
        BY <2>11, <2>18
      <3>2. revisions'[t] = Extend(revisions[t], base + 1, r(at))
        BY <2>5, <2>10, <2>18
      <3>3. tasks[t].head_revision = base /\ resulting = base + 1
        BY <2>3, <2>5, <2>18
      <3>4. d.outcome = "accepted" /\ CanInsertRevision(t, base)
        BY <2>4, <2>5, <2>18
      <3>5. p.base = base
        BY <1>2, <3>4, AcceptedIsOpen DEF d
      <3>6. Move(t, tasks[t], revisions[t], now, tasks'[t], revisions'[t])
        <4>1. tasks'[t] = AdvancedRow(tasks[k.task], d.progress, at)
          BY <3>1
        <4>2. revisions'[t] = Extend(revisions[k.task],
                 k.view.row.head_revision + 1,
                 [parent |-> k.view.row.head_revision,
                  lifecycle |-> k.view.state.lifecycle, content |-> d.content,
                  at |-> at, progress |-> d.progress, rule |-> None])
          BY <3>2 DEF r
        <4>3. d = Evaluate(k.view, k.proposal)
          BY DEF d
        <4>. QED
          BY <1>1, <2>1, <2>18, <3>4, <4>1, <4>2, <4>3, AcceptMoves
      <3>. QED
        BY <2>7, <2>14, <3>1, <3>3, <3>5, <3>6
    <2>19. t \notin forgotten =>
              \/ /\ decided.outcome # "accepted"
                 /\ tasks'[t] = tasks[t] /\ revisions'[t] = revisions[t]
              \/ /\ decided.outcome = "accepted"
                 /\ decided.resulting = tasks'[t].head_revision
                 /\ p.base = tasks[t].head_revision
                 /\ Move(t, tasks[t], revisions[t], now, tasks'[t], revisions'[t])
      BY <2>3, <2>7, <2>10, <2>11, <2>17, <2>18, SMTT(40)
    <2>20. Recorded(c, decided)
      BY <1>3, <2>6, <2>7, <2>9, <2>12, <2>15, <2>16, <2>19 DEF Recorded
    <2>. QED
      BY <2>6, <2>20
  <1>4. CASE /\ \E code \in {"task_not_eligible", "integrity_error"} :
                   Return(c, k, code)
             /\ UNCHANGED <<tables, now>>
    BY <1>4
  <1>. QED
    BY <1>3, <1>4, ZenonT(30) DEF SubmitCommit

LEMMA SubmitCommitHist ==
    ASSUME HInv, Inv', NEW c \in Callers, SubmitCommit(c)
    PROVE  HInv'
  <1>. DEFINE t == call[c].task
  <1>0. Inv
    BY DEF HInv
  <1>1. t \in TaskIds
    BY InCall DEF SubmitCommit, CallAt
  <1>2. CASE UNCHANGED <<tables, now>> /\ \E code : Return(c, call[c], code)
    BY <1>2, QuietReturn
  <1>3. ASSUME NEW decided, Recorded(c, decided)
        PROVE  HInv'
    <2>1. t \notin forgotten' => TaskStep(t)
      BY <1>3 DEF Recorded, TaskStep
    <2>2. /\ OnlyTask(t) /\ UNCHANGED <<forgotten, now>> /\ tasks'[t] # None
          /\ Return(c, call[c], decided.outcome)
      BY <1>3 DEF Recorded
    <2>3. /\ Unborn' /\ Histories'
          /\ Grows(tasks, revisions, forgotten, now,
                   tasks', revisions', forgotten', now')
      BY <1>1, <2>1, <2>2, WriteStep
    <2>4. CallsKnow'
      BY <1>0, <2>2, <2>3, OthersKnow, ReturnKnows
    <2>. QED
      BY <2>3, <2>4 DEF HInv
  <1>. QED
    BY <1>2, <1>3, SubmitEffect, SMTT(40)

-----------------------------------------------------------------------------
(* The invariant holds. *)

LEMMA InitHist == Init => HInv
  <1>. SUFFICES ASSUME Init PROVE HInv
    OBVIOUS
  <1>1. Inv
    BY InitInv
  <1>2. Unborn /\ Histories /\ CallsKnow
    BY DEF Init, Unborn, Histories, Intact, CallsKnow
  <1>. QED
    BY <1>1, <1>2 DEF HInv

LEMMA NextHist ==
    ASSUME HInv, [Next]_vars
    PROVE  HInv'
  <1>0. Inv'
    BY NextInv DEF HInv
  <1>1. ASSUME NEW c \in Callers, ClientStep(c)
        PROVE  HInv'
    BY <1>0, <1>1, StartReadHist, GetHist, ForgetHist, SubmitReadHist,
       LifecycleRequestHist, StartCommitHist, SubmitCommitHist,
       CompletionGateHist, LifecycleReadHist, LifecycleCommitHist
    DEF ClientStep
  <1>2. ASSUME NEW c \in Callers, ExpiryStep(c)
        PROVE  HInv'
    BY <1>0, <1>2, ExpireReadHist, ExpireCommitHist, ConfirmHist, ReloadHist
    DEF ExpiryStep
  <1>3. ASSUME NEW c \in Callers, MaintenanceStep(c)
        PROVE  HInv'
    BY <1>0, <1>2, <1>3, ScanReadHist, ScanNextHist DEF MaintenanceStep
  <1>4. ASSUME NEW c \in Crashable, Crash(c)
        PROVE  HInv'
    BY <1>0, <1>4, CrashHist, ConstantsAssumption
  <1>5. CASE Tick
    BY <1>0, <1>5, TickHist
  <1>6. CASE UNCHANGED vars
    <2>1. CallsKnow'
      BY <1>6 DEF HInv, CallsKnow, vars, tables
    <2>. QED
      BY <1>0, <1>6, <2>1, QuietStep DEF vars
  <1>. QED
    BY <1>1, <1>2, <1>3, <1>4, <1>5, <1>6 DEF Next, Callers

\* HInv holds in every reachable state.
THEOREM HistoryInvariant == Spec => []HInv
  <1>1. Init => HInv
    BY InitHist
  <1>2. HInv /\ [Next]_vars => HInv'
    BY NextHist
  <1>. QED
    BY <1>1, <1>2, PTL DEF Spec

\* History never forks and has no gap: however many callers race on stale
\* reads, the revisions of a task are 1 to its head, each the child of the
\* one before it and no older (insert_task_revision, advance_task_head).
THEOREM HistoriesAreLinear == Spec => []HistoryIsLinear
  <1>1. HInv => HistoryIsLinear
    BY DEF HInv, Histories, History, Linear, HistoryIsLinear
  <1>. QED
    BY <1>1, HistoryInvariant, PTL

\* Whatever _commit and _lifecycle are about to write was computed from a
\* state the task really had.
THEOREM ViewsHold == Spec => []ViewsAreHistory
  <1>1. HInv => ViewsAreHistory
    <2>. SUFFICES ASSUME HInv, NEW c \in Callers, pc[c] \in Commits,
                         call[c].task \in TaskIds \ forgotten
                  PROVE  ViewFits(call[c], tasks, revisions)
      BY DEF ViewsAreHistory, ViewFits
    <2>1. pc[c] # "idle"
      BY DEF Commits
    <2>2. Knows(pc[c], call[c], tasks, revisions, forgotten, now)
      BY <2>1, InCall
    <2>. QED
      BY <2>2 DEF Knows
  <1>. QED
    BY <1>1, HistoryInvariant, PTL

\* The columns of governed_tasks never disagree with the revisions they cache.
THEOREM RowsAgree == Spec => []RowAgreesWithHistory
  <1>1. HInv => RowAgreesWithHistory
    BY DEF HInv, Histories, History, Cached, Advances, RowAgreesWithHistory
  <1>. QED
    BY <1>1, HistoryInvariant, PTL

\* A revision is an expiry exactly when it cites a rule.  One that cites the
\* absolute age was due when written, although the verdict was reached several
\* steps before; one that cites missing progress was written no earlier than
\* the task had the age its rule demands, however much progress the call that
\* found it due, or the page of a scan, did not see.
THEOREM ExpiriesAreDue == Spec => []ExpiryCitesDueRule
  <1>1. HInv => ExpiryCitesDueRule
    BY DEF HInv, Histories, History, Cites, AgeDue, ExpiryCitesDueRule
  <1>. QED
    BY <1>1, HistoryInvariant, PTL

-----------------------------------------------------------------------------
(* What a step may do. *)

Same(t) == tasks'[t] = tasks[t] /\ revisions'[t] = revisions[t]

\* A task that was never forgotten is left alone, moved, or deleted.
Evolves(t) ==
    t \in Intact =>
        \/ Same(t)
        \/ tasks'[t] = None
        \/ Move(t, tasks[t], revisions[t], now, tasks'[t], revisions'[t])

\* Nothing recorded about a task is lost while the task is there.
Keeps(t) ==
    tasks[t] # None /\ tasks'[t] # None =>
        /\ proposals[t] \subseteq proposals'[t]
        /\ \A n \in DOMAIN revisions[t] :
              n \in DOMAIN revisions'[t] /\ revisions'[t][n] = revisions[t][n]

\* A task changes in a step that answers success, by its expiry, or in the
\* transaction of an operator that only has to confirm it.
Answers(t) ==
    t \in Intact =>
        \/ Same(t)
        \/ Granted(t)'
        \/ tasks'[t] # None /\ tasks'[t].lifecycle = "expired"
        \/ \E c \in Callers : /\ ~Committed(c) /\ Committed(c)'
                              /\ call'[c].task = t

\* A task that is not there stays away or is born.
Begins(t) ==
    tasks[t] = None => \/ tasks'[t] = None
                       \/ Birth(tasks'[t], revisions'[t], now)

Effects ==
    /\ forgotten \subseteq forgotten'
    /\ \A t \in TaskIds : Evolves(t) /\ Keeps(t) /\ Answers(t) /\ Begins(t)

LEMMA QuietEffects ==
    ASSUME UNCHANGED tables
    PROVE  Effects
  BY DEF tables, Effects, Evolves, Keeps, Answers, Begins, Same

\* A success is told about the task of the call.
LEMMA SuccessIsGranted ==
    ASSUME NEW c \in Callers, NEW k, NEW code \in {"ok", "accepted"},
           k.op \in {"start", "submit", "lifecycle", "get", "scan", "forget"},
           Return(c, k, code), NEW t, t = k.task
    PROVE  Granted(t)'
  BY DEF Return, Granted

LEMMA StartCommitEffects ==
    ASSUME HInv, NEW c \in Callers, StartCommit(c)
    PROVE  Effects
  <1>. DEFINE t == call[c].task
  <1>1. CASE UNCHANGED tables
    BY <1>1, QuietEffects
  <1>2. CASE tasks[t] = None
    <2>1. /\ OnlyTask(t) /\ Return(c, call[c], "ok")
          /\ Birth(tasks'[t], revisions'[t], now)
          /\ UNCHANGED <<proposals, forgotten>>
      BY <1>2, StartIsBirth
    <2>2. \A u \in TaskIds \ {t} : Same(u)
      BY <2>1 DEF Same, OnlyTask
    <2>. QED
      BY <1>2, <2>1, <2>2
      DEF Effects, Evolves, Keeps, Answers, Begins, Same, Intact
  <1>. QED
    BY <1>1, <1>2 DEF StartCommit

LEMMA ForgetEffects ==
    ASSUME HInv, NEW c \in Callers, NEW t \in TaskIds, Forget(c, t)
    PROVE  Effects
  <1>1. CASE UNCHANGED tables
    BY <1>1, QuietEffects
  <1>2. CASE /\ tasks' = [tasks EXCEPT ![t] = None]
             /\ revisions' = [revisions EXCEPT ![t] = <<>>]
             /\ proposals' = [proposals EXCEPT ![t] = {}]
             /\ forgotten' = forgotten \cup {t}
             /\ Return(c, NewCall("forget", t), "ok")
    <2>1. Granted(t)'
      <3>1. /\ NewCall("forget", t).op = "forget"
            /\ NewCall("forget", t).task = t
        BY DEF NewCall
      <3>. QED
        BY <1>2, <3>1, SuccessIsGranted
    <2>2. \A u \in TaskIds \ {t} : Same(u) /\ proposals'[u] = proposals[u]
      BY <1>2 DEF Same, HInv, Inv, TypeOK
    <2>3. tasks'[t] = None
      BY <1>2 DEF HInv, Inv, TypeOK
    <2>. QED
      BY <1>2, <2>1, <2>2, <2>3
      DEF Effects, Evolves, Keeps, Answers, Begins, Same
  <1>. QED
    BY <1>1, <1>2 DEF Forget

LEMMA SubmitCommitEffects ==
    ASSUME HInv, NEW c \in Callers, SubmitCommit(c)
    PROVE  Effects
  <1>. DEFINE t == call[c].task
  <1>1. CASE UNCHANGED tables
    BY <1>1, QuietEffects
  <1>2. ASSUME NEW decided, Recorded(c, decided)
        PROVE  Effects
    <2>1. ASSUME NEW u \in TaskIds, u = t, decided.outcome = "accepted"
          PROVE  Granted(u)'
      <3>1. call[c].op \in {"start", "submit", "lifecycle", "get", "scan"}
        BY InCall DEF SubmitCommit, CallAt, Calls
      <3>. QED
        BY <1>2, <2>1, <3>1, SuccessIsGranted DEF Recorded
    <2>2. \A u \in TaskIds \ {t} : Same(u) /\ proposals'[u] = proposals[u]
      BY <1>2 DEF Recorded, OnlyTask, Same
    <2>3. /\ proposals[t] \subseteq proposals'[t]
          /\ \A n \in DOMAIN revisions[t] :
                n \in DOMAIN revisions'[t] /\ revisions'[t][n] = revisions[t][n]
      BY <1>2 DEF Recorded
    <2>4. t \in Intact =>
             \/ decided.outcome # "accepted" /\ Same(t)
             \/ /\ decided.outcome = "accepted"
                /\ Move(t, tasks[t], revisions[t], now, tasks'[t], revisions'[t])
      BY <1>2 DEF Recorded, Same, Intact
    <2>5. UNCHANGED forgotten /\ tasks[t] # None
      BY <1>2 DEF Recorded
    <2>6. \A u \in TaskIds : Answers(u)
      BY <2>1, <2>2, <2>4 DEF Answers
    <2>. QED
      BY <2>2, <2>3, <2>4, <2>5, <2>6
      DEF Effects, Evolves, Keeps, Begins, Same
  <1>. QED
    BY <1>1, <1>2, SubmitEffect DEF tables

LEMMA ChangeEffects ==
    ASSUME HInv,
           NEW label \in {"lifecycle_commit", "expire_commit"}, NEW k,
           CallAt(label, k), Knows(label, k, tasks, revisions, forgotten, now),
           CanInsertRevision(k.task, k.view.row.head_revision),
           NEW target \in Lifecycle, NEW rule \in Rules \cup {None},
           target = "expired" <=> rule # None,
           target # k.view.row.lifecycle,
           k.task \notin forgotten
              => AgeDue(k.task, rule, tasks[k.task].created_at, k.at),
           ChangeLifecycle(k, target, rule),
           \/ target = "expired"
           \/ \E c \in Callers : /\ ~Committed(c) /\ Committed(c)'
                                 /\ call'[c].task = k.task
    PROVE  Effects
  <1>. DEFINE t == k.task
  <1>0. Inv /\ TablesOK /\ t \in TaskIds
    BY InvParts DEF HInv, CallAt
  <1>1. OnlyTask(t) /\ UNCHANGED <<proposals, forgotten>> /\ tasks[t] # None
    BY <1>0, ChangeIsLocal DEF CanInsertRevision
  <1>2. \A u \in TaskIds \ {t} : Same(u)
    BY <1>1 DEF OnlyTask, Same
  <1>3. t \in Intact =>
           Move(t, tasks[t], revisions[t], now, tasks'[t], revisions'[t])
    BY ChangeMoves DEF Intact
  <1>4. \A n \in DOMAIN revisions[t] :
           n \in DOMAIN revisions'[t] /\ revisions'[t][n] = revisions[t][n]
    <2>. DEFINE next == k.view.row.head_revision + 1
    <2>1. next \notin DOMAIN revisions[t]
      BY DEF CanInsertRevision
    <2>2. \E r : revisions' = [revisions EXCEPT ![t] = Extend(@, next, r)]
      BY DEF ChangeLifecycle
    <2>3. \E r : revisions'[t] = Extend(revisions[t], next, r)
      BY <1>0, <2>2 DEF TablesOK
    <2>. QED
      BY <2>1, <2>3 DEF Extend
  <1>5. t \in Intact => tasks'[t] # None /\ tasks'[t].lifecycle = target
    <2>1. tasks[t] \in Row /\ tasks'[t] # None
      BY <1>0, <1>1, ChangeKeepsTask DEF TablesOK
    <2>2. \E at : tasks' = [tasks EXCEPT ![t] =
                              MovedRow(@, k.view.row, target, at)]
      BY DEF ChangeLifecycle
    <2>3. \E at : tasks'[t] = MovedRow(tasks[t], k.view.row, target, at)
      BY <1>0, <2>2 DEF TablesOK
    <2>. QED
      BY <2>1, <2>3 DEF MovedRow, Row
  <1>6. Answers(t)
    BY <1>5 DEF Answers
  <1>. QED
    BY <1>1, <1>2, <1>3, <1>4, <1>6
    DEF Effects, Evolves, Keeps, Answers, Begins, Same

LEMMA LifecycleCommitEffects ==
    ASSUME HInv, NEW c \in Callers, LifecycleCommit(c)
    PROVE  Effects
  <1>. DEFINE k == call[c]
              w == [k EXCEPT !.view = None, !.at = 0]
  <1>1. /\ CallAt("lifecycle_commit", k)
        /\ Knows("lifecycle_commit", k, tasks, revisions, forgotten, now)
    BY InCall DEF LifecycleCommit
  <1>2. /\ k.target \in Lifecycle /\ k.target # "expired"
        /\ k.target # k.view.row.lifecycle
    BY <1>1, ConstantsAssumption DEF CallAt, Calls, Lifecycle, Knows
  <1>3. AgeDue(k.task, None, tasks[k.task].created_at, k.at)
    BY NoneAssumption DEF AgeDue, Rules
  <1>4. w.task = k.task /\ w.rule = None
    BY <1>1 DEF CallAt, Calls, Knows
  <1>. HIDE DEF w
  <1>5. ASSUME Goto(c, "confirm", w)
        PROVE  ~Committed(c) /\ Committed(c)' /\ call'[c].task = k.task
    <2>1. pc'[c] = "confirm" /\ call'[c] = w
      BY <1>5 DEF Goto, HInv, Inv, TypeOK
    <2>2. pc[c] = "lifecycle_commit"
      BY DEF LifecycleCommit
    <2>. QED
      BY <1>4, <2>1, <2>2 DEF Committed
  <1>. HIDE DEF k
  <1>6. CASE /\ CanInsertRevision(k.task, k.view.row.head_revision)
             /\ ChangeLifecycle(k, k.target, None)
             /\ Goto(c, "confirm", w)
    BY <1>1, <1>2, <1>3, <1>5, <1>6, ChangeEffects
  <1>7. CASE UNCHANGED tables
    BY <1>7, QuietEffects
  <1>. QED
    BY <1>6, <1>7 DEF LifecycleCommit, k, w

LEMMA ExpireCommitEffects ==
    ASSUME HInv, NEW c \in Callers, ExpireCommit(c)
    PROVE  Effects
  <1>. DEFINE k == call[c]
  <1>1. /\ CallAt("expire_commit", k)
        /\ Knows("expire_commit", k, tasks, revisions, forgotten, now)
    BY InCall DEF ExpireCommit
  <1>2. /\ "expired" \in Lifecycle /\ "expired" # k.view.row.lifecycle
        /\ k.rule \in Rules \cup {None} /\ k.rule # None
        /\ k.task \notin forgotten
              => AgeDue(k.task, k.rule, tasks[k.task].created_at, k.at)
    BY <1>1 DEF CallAt, Calls, Lifecycle, Knows, Terminal
  <1>. HIDE DEF k
  <1>3. CASE /\ CanInsertRevision(k.task, k.view.row.head_revision)
             /\ ChangeLifecycle(k, "expired", k.rule)
    BY <1>1, <1>2, <1>3, ChangeEffects
  <1>4. CASE UNCHANGED tables
    BY <1>4, QuietEffects
  <1>. QED
    BY <1>3, <1>4 DEF ExpireCommit, k

LEMMA NextEffects ==
    ASSUME HInv, [Next]_vars
    PROVE  Effects
  <1>1. ASSUME NEW c \in Callers, ClientStep(c)
        PROVE  Effects
    <2>1. CASE UNCHANGED tables
      BY <2>1, QuietEffects
    <2>2. CASE \E t \in TaskIds : Forget(c, t)
      BY <2>2, ForgetEffects
    <2>. QED
      BY <1>1, <2>1, <2>2, StartCommitEffects, SubmitCommitEffects,
         LifecycleCommitEffects
      DEF ClientStep, StartRead, Get, SubmitRead, LifecycleRequest,
          CompletionGate, LifecycleRead
  <1>2. ASSUME NEW c \in Callers, ExpiryStep(c)
        PROVE  Effects
    BY <1>2, ExpireCommitEffects, QuietEffects
    DEF ExpiryStep, ExpireRead, Confirm, Reload
  <1>3. ASSUME NEW c \in Callers, MaintenanceStep(c)
        PROVE  Effects
    BY <1>2, <1>3, QuietEffects DEF MaintenanceStep, ScanRead, ScanNext
  <1>4. CASE \E c \in Crashable : Crash(c)
    BY <1>4, QuietEffects DEF Crash
  <1>5. CASE Tick
    BY <1>5, QuietEffects DEF Tick
  <1>6. CASE UNCHANGED vars
    BY <1>6, QuietEffects DEF vars
  <1>. QED
    BY <1>1, <1>2, <1>3, <1>4, <1>5, <1>6, SMTT(40) DEF Next, Callers

\* A terminal task is never changed again: no call still in flight, whatever
\* it read before, reopens, completes or expires it.
THEOREM TerminalForGood == Spec => TerminalIsFinal
  <1>1. ASSUME HInv, [Next]_vars
        PROVE  [\A t \in Intact : tasks[t].lifecycle \in Terminal
                   => tasks'[t] \in {tasks[t], None}]_vars
    <2>1. ASSUME NEW t \in Intact, tasks[t].lifecycle \in Terminal
          PROVE  tasks'[t] \in {tasks[t], None}
      <3>1. t \in TaskIds /\ tasks[t] \in Row /\ Linear(tasks[t], revisions[t])
        BY <1>1 DEF HInv, Inv, TypeOK, Intact, Histories, History
      <3>2. ~Move(t, tasks[t], revisions[t], now, tasks'[t], revisions'[t])
        BY <2>1, <3>1, MoveGrows
      <3>3. Evolves(t)
        BY <1>1, <3>1, NextEffects DEF Effects
      <3>. QED
        BY <3>2, <3>3 DEF Evolves, Same
    <2>. QED
      BY <2>1
  <1>. QED
    BY <1>1, HistoryInvariant, PTL DEF Spec, TerminalIsFinal

\* No revision and no recorded decision is rewritten or lost while the task
\* exists, even when a forgotten id is in use again.
THEOREM HistoryOnlyGrows == Spec => HistoryIsAppendOnly
  <1>1. ASSUME HInv, [Next]_vars
        PROVE  [\A t \in TaskIds : tasks[t] # None /\ tasks'[t] # None =>
                   /\ proposals[t] \subseteq proposals'[t]
                   /\ \A n \in DOMAIN revisions[t] :
                         /\ n \in DOMAIN revisions'[t]
                         /\ revisions'[t][n] = revisions[t][n]]_vars
    BY <1>1, NextEffects DEF Effects, Keeps
  <1>. QED
    BY <1>1, HistoryInvariant, PTL DEF Spec, HistoryIsAppendOnly

\* What becomes of a caller whose transaction is through.
Answered(c) ==
    Committed(c) =>
        \/ Committed(c)'
        \/ /\ pc'[c] = "idle"
           /\ answer' = None \/ answer'.code = "ok" \/ call[c].task \in forgotten

LEMMA CallStaysPut ==
    ASSUME NEW c \in Callers, pc'[c] = pc[c], call'[c] = call[c]
    PROVE  Answered(c)
  BY DEF Answered, Committed

\* A step of one caller moves no other caller.
Moves(c) ==
    \A b \in Callers \ {c} : pc'[b] = pc[b] /\ call'[b] = call[b]

LEMMA ReturnMoves ==
    ASSUME NEW c \in Callers, NEW k, NEW code, Return(c, k, code), HInv
    PROVE  Moves(c)
  BY DEF Return, Moves, HInv, Inv, TypeOK

LEMMA GotoMoves ==
    ASSUME NEW c \in Callers, NEW k, NEW label, Goto(c, label, k), HInv
    PROVE  Moves(c)
  BY DEF Goto, Moves, HInv, Inv, TypeOK

LEMMA ConfirmAnswers ==
    ASSUME HInv, NEW c \in Callers, Confirm(c), Committed(c)
    PROVE  Answered(c)
  <1>1. /\ CallAt("confirm", call[c])
        /\ Knows("confirm", call[c], tasks, revisions, forgotten, now)
    BY InCall DEF Committed
  <1>2. tasks[call[c].task] = None => call[c].task \in forgotten
    BY <1>1 DEF Knows
  <1>3. \E code : /\ Return(c, call[c], code)
                  /\ code = "ok" \/ call[c].task \in forgotten
    BY <1>2 DEF Confirm, Committed
  <1>4. pc'[c] = "idle"
    BY <1>3 DEF Return, HInv, Inv, TypeOK
  <1>. QED
    BY <1>3, <1>4 DEF Answered, Return

\* Every step of a caller is one jump of that caller.
LEMMA StepJumps ==
    ASSUME NEW c \in Callers,
           ClientStep(c) \/ MaintenanceStep(c) \/ ExpiryStep(c)
    PROVE  \/ \E k, code : Return(c, k, code)
           \/ \E k, label : Goto(c, label, k)
  <1>1. ASSUME NEW k, NEW v, Proceed(c, k, v)
        PROVE  \/ \E l, code : Return(c, l, code)
               \/ \E l, label : Goto(c, label, l)
    BY <1>1 DEF Proceed
  <1>2. ASSUME NEW k, Load(c, k)
        PROVE  \/ \E l, code : Return(c, l, code)
               \/ \E l, label : Goto(c, label, l)
    BY <1>1, <1>2 DEF Load
  <1>3. ASSUME ClientStep(c)
        PROVE  \/ \E l, code : Return(c, l, code)
               \/ \E l, label : Goto(c, label, l)
    BY <1>2, <1>3
    DEF ClientStep, StartRead, Get, Forget, SubmitRead, LifecycleRequest,
        StartCommit, SubmitCommit, CompletionGate, LifecycleRead, LifecycleCommit
  <1>4. ASSUME ExpiryStep(c)
        PROVE  \/ \E l, code : Return(c, l, code)
               \/ \E l, label : Goto(c, label, l)
    BY <1>1, <1>4 DEF ExpiryStep, ExpireRead, ExpireCommit, Confirm, Reload
  <1>5. ASSUME MaintenanceStep(c)
        PROVE  \/ \E l, code : Return(c, l, code)
               \/ \E l, label : Goto(c, label, l)
    BY <1>4, <1>5 DEF MaintenanceStep, ScanRead, ScanNext
  <1>. QED
    BY <1>3, <1>4, <1>5

\* A caller that only has to confirm takes no other step.
LEMMA CommittedConfirms ==
    ASSUME NEW c \in Callers, Committed(c),
           ClientStep(c) \/ MaintenanceStep(c) \/ ExpiryStep(c)
    PROVE  Confirm(c)
  BY DEF Committed, ClientStep, MaintenanceStep, ExpiryStep, StartRead, Get,
         Forget, SubmitRead, LifecycleRequest, StartCommit, SubmitCommit,
         CompletionGate, LifecycleRead, LifecycleCommit, ExpireRead,
         ExpireCommit, Reload, ScanRead, ScanNext

LEMMA NextAnswers ==
    ASSUME HInv, [Next]_vars
    PROVE  \A c \in Callers : Answered(c)
  <1>1. ASSUME NEW c \in Callers,
               ClientStep(c) \/ MaintenanceStep(c) \/ ExpiryStep(c)
        PROVE  \A b \in Callers : Answered(b)
    <2>1. Moves(c)
      BY <1>1, StepJumps, ReturnMoves, GotoMoves
    <2>2. Answered(c)
      <3>1. CASE Committed(c)
        BY <1>1, <3>1, CommittedConfirms, ConfirmAnswers
      <3>2. CASE ~Committed(c)
        BY <3>2 DEF Answered
      <3>. QED
        BY <3>1, <3>2
    <2>. QED
      BY <2>1, <2>2, CallStaysPut DEF Moves
  <1>2. ASSUME NEW c \in Crashable, Crash(c)
        PROVE  \A b \in Callers : Answered(b)
    <2>1. c \in Callers /\ Goto(c, "idle", None)
      BY <1>2, ConstantsAssumption DEF Crash
    <2>2. Moves(c) /\ pc'[c] = "idle" /\ answer' = None
      BY <2>1, GotoMoves DEF Goto, HInv, Inv, TypeOK
    <2>3. Answered(c)
      BY <2>2 DEF Answered
    <2>. QED
      BY <2>2, <2>3, CallStaysPut DEF Moves
  <1>3. CASE Tick \/ UNCHANGED vars
    BY <1>3, CallStaysPut DEF Tick, vars
  <1>. QED
    BY <1>1, <1>2, <1>3 DEF Next, Callers

\* A call that is refused has changed nothing in any of its steps, except
\* that it may have expired a task whose rule it found due: a task changes in
\* a step that answers success, by expiry, or in the transaction of
\* _lifecycle, and the caller of that is then told so unless it dies or the
\* task is forgotten before it is read back.  A stale proposal fails closed.
THEOREM RefusalsAreHarmless == Spec => RefusalChangesNothing
  <1>. DEFINE Changes ==
         /\ \A t \in Intact :
               \/ tasks'[t] = tasks[t] /\ revisions'[t] = revisions[t]
               \/ Granted(t)'
               \/ tasks'[t] # None /\ tasks'[t].lifecycle = "expired"
               \/ \E c \in Callers : /\ ~Committed(c) /\ Committed(c)'
                                     /\ call'[c].task = t
         /\ \A c \in Callers : Committed(c) =>
               \/ Committed(c)'
               \/ /\ pc'[c] = "idle"
                  /\ \/ answer' = None \/ answer'.code = "ok"
                     \/ call[c].task \in forgotten
  <1>1. ASSUME HInv, [Next]_vars
        PROVE  [Changes]_vars
    <2>1. \A t \in Intact : Answers(t)
      BY <1>1, NextEffects DEF Effects, Intact
    <2>2. \A c \in Callers : Answered(c)
      BY <1>1, NextAnswers
    <2>. QED
      BY <2>1, <2>2 DEF Answers, Same, Answered
  <1>. QED
    BY <1>1, HistoryInvariant, PTL DEF Spec, RefusalChangesNothing

-----------------------------------------------------------------------------
(* The service implements TaskLedger.  A step changes the entry of at most  *)
(* one task, and only as an atomic operation on that entry would.           *)

\* What an observer sees of a task with this row and these revisions.
Entry(row, revs) ==
    [revision  |-> row.head_revision,
     lifecycle |-> revs[row.head_revision].lifecycle,
     content   |-> revs[row.head_revision].content]

LedgerStep == [Abstract!Next]_(Abstract!vars)

LEMMA LedgerAt ==
    ASSUME NEW t \in TaskIds
    PROVE  Ledger[t] = IF t \in forgotten \/ tasks[t] = None THEN None
                       ELSE Entry(tasks[t], revisions[t])
  BY DEF Ledger, Entry

LEMMA LedgerNext ==
    ASSUME NEW t \in TaskIds
    PROVE  Ledger'[t] = IF t \in forgotten' \/ tasks'[t] = None THEN None
                        ELSE Entry(tasks'[t], revisions'[t])
  BY DEF Ledger, Entry

\* The entry of a task that is there, and of its observers.
LEMMA EntryFacts ==
    ASSUME HInv, NEW t \in Intact
    PROVE  /\ Entry(tasks[t], revisions[t]) \in Entries
           /\ Entry(tasks[t], revisions[t]) # None
           /\ Ledger[t] = Entry(tasks[t], revisions[t])
  <1>1. /\ t \in TaskIds /\ t \notin forgotten /\ tasks[t] # None
        /\ tasks[t] \in Row /\ Linear(tasks[t], revisions[t])
        /\ \A n \in DOMAIN revisions[t] : revisions[t][n] \in Revision
    BY DEF HInv, Inv, TypeOK, Intact, Histories, History
  <1>2. PICK h \in Nat \ {0} : h = tasks[t].head_revision
    BY <1>1 DEF Row
  <1>3. revisions[t][h] \in Revision
    BY <1>1, <1>2 DEF Linear
  <1>4. Entry(tasks[t], revisions[t]) \in Entries
    BY <1>2, <1>3 DEF Entry, Entries, Revision
  <1>. QED
    BY <1>1, <1>4, LedgerAt, NoneAssumption

\* A step that writes about one task changes one entry.
LEMMA LedgerWrite ==
    ASSUME NEW t \in TaskIds, OnlyTask(t),
           forgotten' \in {forgotten, forgotten \cup {t}}
    PROVE  Ledger' = [Ledger EXCEPT ![t] = Ledger'[t]]
  <1>1. \A u \in TaskIds \ {t} : Ledger'[u] = Ledger[u]
    BY LedgerAt, LedgerNext DEF OnlyTask
  <1>2. /\ Ledger  = [u \in TaskIds |-> Ledger[u]]
        /\ Ledger' = [u \in TaskIds |-> Ledger'[u]]
    BY DEF Ledger
  <1>. HIDE DEF Ledger
  <1>. QED
    BY <1>1, <1>2

LEMMA SameLedger ==
    ASSUME NEW t \in TaskIds, OnlyTask(t), UNCHANGED forgotten,
           Ledger'[t] = Ledger[t]
    PROVE  LedgerStep
  <1>1. Ledger' = [Ledger EXCEPT ![t] = Ledger[t]]
    BY LedgerWrite
  <1>2. Ledger = [u \in TaskIds |-> Ledger[u]]
    BY DEF Ledger
  <1>3. Ledger' = Ledger
    BY <1>1, <1>2
  <1>. QED
    BY <1>3 DEF LedgerStep, Abstract!vars

LEMMA QuietLedger ==
    ASSUME UNCHANGED tables
    PROVE  LedgerStep
  BY DEF tables, LedgerStep, Abstract!vars, Ledger

\* start puts an entry where there was none, unless the id was used before.
LEMMA StartCommitLedger ==
    ASSUME HInv, NEW c \in Callers, StartCommit(c)
    PROVE  LedgerStep
  <1>. DEFINE t == call[c].task
  <1>1. CASE UNCHANGED tables
    BY <1>1, QuietLedger
  <1>2. CASE tasks[t] = None
    <2>1. /\ t \in TaskIds /\ OnlyTask(t) /\ UNCHANGED forgotten
          /\ Birth(tasks'[t], revisions'[t], now)
      BY <1>2, StartIsBirth
    <2>. HIDE DEF t
    <2>2. tasks'[t] # None
      BY <2>1, BirthRow
    <2>3. Entry(tasks'[t], revisions'[t])
             = [revision |-> 1, lifecycle |-> "open", content |-> InitialContent]
      BY <2>1 DEF Birth, Entry
    <2>4. CASE t \in forgotten
      <3>1. Ledger'[t] = Ledger[t]
        BY <2>1, <2>4, LedgerAt, LedgerNext
      <3>. QED
        BY <2>1, <3>1, SameLedger
    <2>5. CASE t \notin forgotten
      <3>1. Ledger[t] = None
        BY <1>2, <2>1, LedgerAt DEF t
      <3>2. Ledger'[t] = [revision |-> 1, lifecycle |-> "open",
                          content |-> InitialContent]
        BY <2>1, <2>2, <2>3, <2>5, LedgerNext
      <3>3. Ledger' = [Ledger EXCEPT ![t] = Ledger'[t]]
        BY <2>1, LedgerWrite
      <3>4. Abstract!Start(t)
        BY <2>1, <2>5, <3>1, <3>2, <3>3 DEF Abstract!Start
      <3>. QED
        BY <2>1, <3>4 DEF LedgerStep, Abstract!Next
    <2>. QED
      BY <2>4, <2>5
  <1>. QED
    BY <1>1, <1>2 DEF StartCommit

\* forget removes the entry; the second forgetting of an id removes nothing.
LEMMA ForgetLedger ==
    ASSUME HInv, NEW c \in Callers, NEW t \in TaskIds, Forget(c, t)
    PROVE  LedgerStep
  <1>1. CASE UNCHANGED tables
    BY <1>1, QuietLedger
  <1>2. CASE /\ tasks[t] # None
             /\ tasks' = [tasks EXCEPT ![t] = None]
             /\ revisions' = [revisions EXCEPT ![t] = <<>>]
             /\ proposals' = [proposals EXCEPT ![t] = {}]
             /\ steps' = [steps EXCEPT ![t] = <<>>]
             /\ forgotten' = forgotten \cup {t}
    <2>1. OnlyTask(t)
      <3>1. TablesOK
        BY InvParts DEF HInv
      <3>. QED
        BY <1>2, <3>1 DEF OnlyTask, TablesOK
    <2>2. Ledger'[t] = None
      BY <1>2, LedgerNext
    <2>3. CASE t \in forgotten
      <3>1. Ledger'[t] = Ledger[t] /\ UNCHANGED forgotten
        BY <1>2, <2>2, <2>3, LedgerAt
      <3>. QED
        BY <2>1, <3>1, SameLedger
    <2>4. CASE t \notin forgotten
      <3>1. Ledger[t] # None
        BY <1>2, <2>4, EntryFacts DEF Intact
      <3>2. Ledger' = [Ledger EXCEPT ![t] = Ledger'[t]]
        BY <1>2, <2>1, LedgerWrite
      <3>3. Abstract!Forget(t)
        BY <1>2, <2>2, <3>1, <3>2 DEF Abstract!Forget
      <3>. QED
        BY <3>3 DEF LedgerStep, Abstract!Next
    <2>. QED
      BY <2>3, <2>4
  <1>. QED
    BY <1>1, <1>2 DEF Forget

\* A lifecycle change of the head the call read keeps its content.
LEMMA ChangeLedger ==
    ASSUME HInv, NEW label \in {"lifecycle_commit", "expire_commit"}, NEW k,
           CallAt(label, k), Knows(label, k, tasks, revisions, forgotten, now),
           CanInsertRevision(k.task, k.view.row.head_revision),
           NEW target \in Lifecycle, target # k.view.row.lifecycle, NEW rule,
           ChangeLifecycle(k, target, rule)
    PROVE  LedgerStep
  <1>. DEFINE t == k.task
              base == tasks[t].head_revision
  <1>0. Inv /\ TablesOK /\ t \in TaskIds
    BY InvParts DEF HInv, CallAt
  <1>1. OnlyTask(t) /\ UNCHANGED forgotten /\ tasks[t] # None
    BY <1>0, ChangeIsLocal DEF CanInsertRevision
  <1>2. CASE t \in forgotten
    <2>1. Ledger'[t] = Ledger[t]
      BY <1>0, <1>1, <1>2, LedgerAt, LedgerNext
    <2>. QED
      BY <1>0, <1>1, <2>1, SameLedger
  <1>3. CASE t \notin forgotten
    <2>1. /\ tasks[t] \in Row /\ tasks[t] = k.view.row
          /\ revisions[t][base] = k.view.state
          /\ k.view.row.lifecycle = k.view.state.lifecycle
      BY <1>3, InsertIsCurrent DEF Commits
    <2>2. base \in Nat /\ k.view.row.lifecycle \notin Terminal
      BY <2>1 DEF Row, Knows
    <2>3. PICK at :
             /\ revisions' = [revisions EXCEPT ![t] = Extend(@, base + 1,
                   [parent |-> base, lifecycle |-> target,
                    content |-> k.view.state.content, at |-> at,
                    progress |-> FALSE, rule |-> rule])]
             /\ tasks' = [tasks EXCEPT ![t] = MovedRow(@, k.view.row, target, at)]
      BY <2>1 DEF ChangeLifecycle
    <2>4. /\ revisions'[t][base + 1].lifecycle = target
          /\ revisions'[t][base + 1].content = k.view.state.content
      BY <1>0, <2>3 DEF TablesOK, Extend
    <2>5. tasks'[t].head_revision = base + 1
      BY <1>0, <2>1, <2>3 DEF TablesOK, MovedRow, Row
    <2>6. tasks'[t] # None
      BY <1>0, ChangeKeepsTask
    <2>7. Ledger'[t] = [revision |-> base + 1, lifecycle |-> target,
                        content |-> k.view.state.content]
      BY <1>0, <1>1, <1>3, <2>4, <2>5, <2>6, LedgerNext DEF Entry
    <2>8. /\ Ledger[t] # None
          /\ Ledger[t] = [revision |-> base, lifecycle |-> k.view.state.lifecycle,
                          content |-> k.view.state.content]
      BY <1>0, <1>1, <1>3, <2>1, EntryFacts DEF Intact, Entry
    <2>9. Ledger' = [Ledger EXCEPT ![t] = Ledger'[t]]
      BY <1>0, <1>1, LedgerWrite
    <2>10. Ledger[t].lifecycle \notin Abstract!Terminal \cup {target}
      BY <2>1, <2>2, <2>8 DEF Terminal, Abstract!Terminal
    <2>11. Abstract!Move(t, target)
      <3>1. Ledger'[t] = [revision |-> Ledger[t].revision + 1,
                          lifecycle |-> target, content |-> Ledger[t].content]
        BY <2>7, <2>8
      <3>. HIDE DEF t
      <3>. QED
        BY <1>1, <2>8, <2>9, <2>10, <3>1 DEF Abstract!Move
    <2>12. target \in Abstract!Lifecycle
      BY DEF Lifecycle, Abstract!Lifecycle
    <2>. QED
      BY <1>0, <2>11, <2>12 DEF LedgerStep, Abstract!Next
  <1>. QED
    BY <1>2, <1>3

LEMMA LifecycleCommitLedger ==
    ASSUME HInv, NEW c \in Callers, LifecycleCommit(c)
    PROVE  LedgerStep
  <1>. DEFINE k == call[c]
  <1>1. /\ CallAt("lifecycle_commit", k)
        /\ Knows("lifecycle_commit", k, tasks, revisions, forgotten, now)
    BY InCall DEF LifecycleCommit
  <1>2. k.target \in Lifecycle /\ k.target # k.view.row.lifecycle
    BY <1>1, ConstantsAssumption DEF CallAt, Calls, Lifecycle, Knows
  <1>. HIDE DEF k
  <1>3. CASE /\ CanInsertRevision(k.task, k.view.row.head_revision)
             /\ ChangeLifecycle(k, k.target, None)
    BY <1>1, <1>2, <1>3, ChangeLedger
  <1>4. CASE UNCHANGED tables
    BY <1>4, QuietLedger
  <1>. QED
    BY <1>3, <1>4 DEF LifecycleCommit, k

LEMMA ExpireCommitLedger ==
    ASSUME HInv, NEW c \in Callers, ExpireCommit(c)
    PROVE  LedgerStep
  <1>. DEFINE k == call[c]
  <1>1. /\ CallAt("expire_commit", k)
        /\ Knows("expire_commit", k, tasks, revisions, forgotten, now)
    BY InCall DEF ExpireCommit
  <1>2. "expired" \in Lifecycle /\ "expired" # k.view.row.lifecycle
    BY <1>1 DEF Lifecycle, Knows, Terminal
  <1>. HIDE DEF k
  <1>3. CASE /\ CanInsertRevision(k.task, k.view.row.head_revision)
             /\ ChangeLifecycle(k, "expired", k.rule)
    BY <1>1, <1>2, <1>3, ChangeLedger
  <1>4. CASE UNCHANGED tables
    BY <1>4, QuietLedger
  <1>. QED
    BY <1>3, <1>4 DEF ExpireCommit, k

\* An accepted delta was eligible, named the head it replaces, and is what
\* the policy makes of it.
LEMMA AcceptedIsDecided ==
    ASSUME NEW v \in Views, NEW p \in Submissions,
           Evaluate(v, p).outcome = "accepted"
    PROVE  /\ PolicyEligible(p.delta)
           /\ v.state.lifecycle = "open"
           /\ p.base = v.row.head_revision
           /\ Evaluate(v, p)
                 = PolicyDecide(v.state.content, p.delta, p.privileged)
  <1>1. v.state.lifecycle \in Lifecycle
    BY DEF Views, Revision
  <1>2. v.state.lifecycle \notin Terminal \cup {"paused"} /\ PolicyEligible(p.delta)
    BY DEF Evaluate
  <1>3. p.base = v.row.head_revision
    BY DEF Evaluate
  <1>. QED
    BY <1>1, <1>2, <1>3 DEF Evaluate, Lifecycle, Terminal

\* A commit that inserts replaces the very head its delta was decided on.
LEMMA InsertLedger ==
    ASSUME HInv, NEW k, CallAt("submit_commit", k),
           Knows("submit_commit", k, tasks, revisions, forgotten, now),
           k.task \in TaskIds \ forgotten,
           CanInsertRevision(k.task, k.view.row.head_revision),
           NEW d, d = Evaluate(k.view, k.proposal),
           d.outcome = "accepted", NEW at \in Nat,
           OnlyTask(k.task), UNCHANGED forgotten,
           tasks'[k.task] = AdvancedRow(tasks[k.task], d.progress, at),
           revisions'[k.task] = Extend(revisions[k.task],
              k.view.row.head_revision + 1,
              [parent |-> k.view.row.head_revision,
               lifecycle |-> k.view.state.lifecycle, content |-> d.content,
               at |-> at, progress |-> d.progress, rule |-> None])
    PROVE  LedgerStep
  <1>. DEFINE t == k.task
              p == k.proposal
              base == tasks[t].head_revision
  <1>1. /\ p \in Submissions /\ p.task = t /\ k.view \in Views
        /\ k.view.state \in Revision
    BY DEF CallAt, Calls, Commits, Views
  <1>2. /\ tasks[t] # None /\ tasks[t] \in Row /\ tasks[t] = k.view.row
        /\ revisions[t][base] = k.view.state
    BY InsertIsCurrent DEF Commits
  <1>3. /\ PolicyEligible(p.delta) /\ k.view.state.lifecycle = "open"
        /\ p.base = k.view.row.head_revision
        /\ d = PolicyDecide(k.view.state.content, p.delta, p.privileged)
    BY <1>1, AcceptedIsDecided
  <1>4. base \in Nat
    BY <1>2 DEF Row
  <1>5. d \in Decision
    BY <1>1, EvaluateFacts
  <1>6. tasks'[t] \in Row /\ tasks'[t].head_revision = base + 1
    BY <1>2, <1>5, AdvancedRowType DEF Decision
  <1>7. /\ revisions'[t][base + 1].lifecycle = "open"
        /\ revisions'[t][base + 1].content = d.content
    BY <1>2, <1>3, SMTT(40) DEF Extend
  <1>8. Ledger'[t] = [revision |-> base + 1, lifecycle |-> "open",
                      content |-> d.content]
    BY <1>6, <1>7, LedgerNext, NoneAssumption, SMTT(40) DEF Entry
  <1>9. /\ Ledger[t] # None
        /\ Ledger[t] = [revision |-> base, lifecycle |-> "open",
                        content |-> k.view.state.content]
    BY <1>2, <1>3, EntryFacts DEF Intact, Entry
  <1>10. Ledger' = [Ledger EXCEPT ![t] = Ledger'[t]]
    BY LedgerWrite
  <1>11. /\ Ledger[t].lifecycle = "open" /\ Ledger[t].revision = p.base
         /\ d = PolicyDecide(Ledger[t].content, p.delta, p.privileged)
         /\ Ledger'[t] = [revision |-> Ledger[t].revision + 1,
                          lifecycle |-> "open", content |-> d.content]
    BY <1>2, <1>3, <1>8, <1>9
  <1>12. Abstract!Accept(p)
    BY <1>1, <1>3, <1>9, <1>10, <1>11 DEF Abstract!Accept
  <1>. QED
    BY <1>1, <1>12 DEF LedgerStep, Abstract!Next

LEMMA SubmitCommitLedger ==
    ASSUME HInv, NEW c \in Callers, SubmitCommit(c)
    PROVE  LedgerStep
  <1>. DEFINE k         == call[c]
              t         == k.task
              p         == k.proposal
              v         == k.view
              d         == Evaluate(v, p)
              base      == v.row.head_revision
              inserted  == d.outcome = "accepted" /\ CanInsertRevision(t, base)
              advanced  == inserted /\ tasks[t].head_revision = base
              r(at)     == [parent |-> base, lifecycle |-> v.state.lifecycle,
                            content |-> d.content, at |-> at,
                            progress |-> d.progress, rule |-> None]
  <1>0. Inv /\ TablesOK
    BY InvParts DEF HInv
  <1>1. /\ CallAt("submit_commit", k)
        /\ Knows("submit_commit", k, tasks, revisions, forgotten, now)
    BY InCall DEF SubmitCommit
  <1>2. t \in TaskIds /\ k.at \in Nat /\ now \in Nat
    BY <1>0, <1>1 DEF CallAt, Calls, TablesOK
  <1>3. CASE UNCHANGED tables
    BY <1>3, QuietLedger
  <1>4. CASE \E decided \in Decided : Recorded(c, decided)
    <2>1. OnlyTask(t) /\ UNCHANGED forgotten
      BY <1>4 DEF Recorded
    <2>2. CASE t \in forgotten
      <3>1. Ledger'[t] = Ledger[t]
        BY <1>2, <2>1, <2>2, LedgerAt, LedgerNext
      <3>. QED
        BY <1>2, <2>1, <3>1, SameLedger
    <2>3. CASE t \notin forgotten
      <3>1. CASE \E at \in k.at .. now :
                /\ revisions' = IF ~inserted THEN revisions
                      ELSE [revisions EXCEPT ![t] = Extend(@, base + 1, r(at))]
                /\ tasks' = IF ~advanced THEN tasks
                      ELSE [tasks EXCEPT ![t] = AdvancedRow(@, d.progress, at)]
        <4>1. CASE ~inserted
          <5>1. tasks' = tasks /\ revisions' = revisions
            BY <3>1, <4>1
          <5>2. Ledger'[t] = Ledger[t]
            BY <1>2, <2>1, <5>1, LedgerAt, LedgerNext
          <5>. QED
            BY <1>2, <2>1, <5>2, SameLedger
        <4>2. CASE inserted
          <5>1. d.outcome = "accepted" /\ CanInsertRevision(t, base)
            BY <4>2
          <5>2. tasks[t].head_revision = base
            BY <1>1, <2>3, <5>1, InsertIsCurrent DEF Commits
          <5>3. advanced
            BY <5>1, <5>2
          <5>. HIDE DEF d, inserted, advanced, r
          <5>4. PICK at \in k.at .. now :
                   /\ revisions' = [revisions EXCEPT ![t] =
                                      Extend(@, base + 1, r(at))]
                   /\ tasks' = [tasks EXCEPT ![t] =
                                  AdvancedRow(@, d.progress, at)]
            BY <3>1, <4>2, <5>3
          <5>5. /\ at \in Nat
                /\ tasks'[t] = AdvancedRow(tasks[t], d.progress, at)
                /\ revisions'[t] = Extend(revisions[t], base + 1, r(at))
            BY <1>0, <1>2, <5>4 DEF TablesOK
          <5>. QED
            BY <1>1, <1>2, <2>1, <2>3, <5>1, <5>5, InsertLedger DEF d, r
        <4>. QED
          BY <4>1, <4>2
      <3>. QED
        BY <1>3, <3>1, ZenonT(30) DEF SubmitCommit
    <2>. QED
      BY <2>2, <2>3
  <1>. QED
    BY <1>3, <1>4, SubmitEffect, SMTT(40) DEF tables

LEMMA NextLedger ==
    ASSUME HInv, [Next]_vars
    PROVE  LedgerStep
  <1>1. ASSUME NEW c \in Callers, ClientStep(c)
        PROVE  LedgerStep
    <2>1. CASE UNCHANGED tables
      BY <2>1, QuietLedger
    <2>2. CASE \E t \in TaskIds : Forget(c, t)
      BY <2>2, ForgetLedger
    <2>. QED
      BY <1>1, <2>1, <2>2, StartCommitLedger, SubmitCommitLedger,
         LifecycleCommitLedger
      DEF ClientStep, StartRead, Get, SubmitRead, LifecycleRequest,
          CompletionGate, LifecycleRead
  <1>2. ASSUME NEW c \in Callers, ExpiryStep(c)
        PROVE  LedgerStep
    BY <1>2, ExpireCommitLedger, QuietLedger
    DEF ExpiryStep, ExpireRead, Confirm, Reload
  <1>3. ASSUME NEW c \in Callers, MaintenanceStep(c)
        PROVE  LedgerStep
    BY <1>2, <1>3, QuietLedger DEF MaintenanceStep, ScanRead, ScanNext
  <1>4. CASE \E c \in Crashable : Crash(c)
    BY <1>4, QuietLedger DEF Crash
  <1>5. CASE Tick
    BY <1>5, QuietLedger DEF Tick
  <1>6. CASE UNCHANGED vars
    BY <1>6, QuietLedger DEF vars
  <1>. QED
    BY <1>1, <1>2, <1>3, <1>4, <1>5, <1>6, SMTT(40) DEF Next, Callers

\* The service implements TaskLedger: whatever callers interleave, retry or
\* leave half done, an observer of the tables sees each task change as by an
\* atomic start, accepted delta, lifecycle move or forget (_commit,
\* _lifecycle, start, forget).
THEOREM ServiceImplementsLedger == Spec => TasksAreAtomic
  <1>1. Init => Abstract!Init
    BY DEF Init, Abstract!Init, Ledger
  <1>2. HInv /\ [Next]_vars => [Abstract!Next]_(Abstract!vars)
    BY NextLedger DEF LedgerStep
  <1>. QED
    BY <1>1, <1>2, HistoryInvariant, PTL DEF Spec, TasksAreAtomic, Abstract!Spec

-----------------------------------------------------------------------------
(* Decisions.  P and S are the proposals and the steps of one task, h is   *)
(* its head revision.                                                      *)

\* The steps that tell a decision, and those that account for a revision.
Tells(S, id, outcome) ==
    {i \in DOMAIN S : S[i].proposal = id /\ S[i].outcome = outcome}

Makes(S, n) ==
    {i \in DOMAIN S : S[i].outcome = "accepted" /\ S[i].resulting = n}

\* The last two parts are what makes the others inductive: no step tells of a
\* decision that is not recorded or makes a revision beyond the head.
Account(P, S, h) ==
    /\ \A p, q \in P : (p.key = q.key \/ p.id = q.id) => p = q
    /\ \A p \in P : \E i : Tells(S, p.id, p.outcome) = {i}
    /\ \A p \in P : p.outcome = "accepted" => p.resulting = p.payload[2] + 1
    /\ \A n \in 1 .. h : \E i : Makes(S, n) = {i}
    /\ \A i \in DOMAIN S : S[i].proposal # None
                              => \E p \in P : p.id = S[i].proposal
    /\ \A i \in DOMAIN S : S[i].outcome = "accepted" => S[i].resulting \in 1 .. h

Accounts ==
    \A t \in Intact : Account(proposals[t], steps[t], tasks[t].head_revision)

AInv == HInv /\ Accounts

\* One more step.
LEMMA AppendSteps ==
    ASSUME NEW S \in Seq(Step), NEW e \in Step
    PROVE  /\ \A id, o : Tells(Append(S, e), id, o) =
                 Tells(S, id, o) \cup
                    (IF e.proposal = id /\ e.outcome = o THEN {Len(S) + 1} ELSE {})
           /\ \A n : Makes(Append(S, e), n) =
                 Makes(S, n) \cup
                    (IF e.outcome = "accepted" /\ e.resulting = n
                     THEN {Len(S) + 1} ELSE {})
           /\ \A i \in DOMAIN Append(S, e) :
                 \/ i \in DOMAIN S /\ Append(S, e)[i] = S[i]
                 \/ i = Len(S) + 1 /\ Append(S, e)[i] = e
  <1>. DEFINE m == Len(S) + 1
              A == Append(S, e)
  <1>1. /\ DOMAIN S = 1 .. Len(S) /\ Len(S) \in Nat
        /\ DOMAIN A = DOMAIN S \cup {m} /\ A[m] = e
        /\ \A i \in DOMAIN S : i # m /\ A[i] = S[i]
    OBVIOUS
  <1>. HIDE DEF m, A
  <1>2. \A id, o : Tells(A, id, o) = Tells(S, id, o) \cup
           (IF e.proposal = id /\ e.outcome = o THEN {m} ELSE {})
    BY <1>1 DEF Tells
  <1>3. \A n : Makes(A, n) = Makes(S, n) \cup
           (IF e.outcome = "accepted" /\ e.resulting = n THEN {m} ELSE {})
    BY <1>1 DEF Makes
  <1>. QED
    BY <1>1, <1>2, <1>3 DEF m, A

\* A lifecycle change, and the start of a task, add one revision and one step.
LEMMA AccountOfChange ==
    ASSUME NEW P, NEW S \in Seq(Step), NEW h \in Nat, Account(P, S, h),
           \A p \in P : p.id # None,
           NEW e \in Step, e.proposal = None, e.outcome = "accepted",
           e.resulting = h + 1
    PROVE  Account(P, Append(S, e), h + 1)
  <1>. DEFINE A == Append(S, e)
              m == Len(S) + 1
  <1>1. \A p \in P : Tells(A, p.id, p.outcome) = Tells(S, p.id, p.outcome)
    <2>1. ASSUME NEW p \in P
          PROVE  Tells(A, p.id, p.outcome) = Tells(S, p.id, p.outcome)
      <3>1. e.proposal # p.id
        OBVIOUS
      <3>2. Tells(A, p.id, p.outcome) = Tells(S, p.id, p.outcome) \cup
               (IF e.proposal = p.id /\ e.outcome = p.outcome THEN {m} ELSE {})
        BY AppendSteps
      <3>. HIDE DEF A
      <3>. QED
        BY <3>1, <3>2
    <2>. QED
      BY <2>1
  <1>2. \A p \in P : \E i : Tells(A, p.id, p.outcome) = {i}
    BY <1>1 DEF Account
  <1>3. \A n \in 1 .. (h + 1) : \E i : Makes(A, n) = {i}
    <2>1. ASSUME NEW n \in 1 .. h
          PROVE  Makes(A, n) = Makes(S, n)
      <3>1. e.resulting # n
        OBVIOUS
      <3>2. Makes(A, n) = Makes(S, n) \cup {}
        BY <3>1, AppendSteps
      <3>. QED
        BY <3>2
    <2>2. Makes(S, h + 1) = {}
      BY DEF Makes, Account
    <2>3. Makes(A, h + 1) = {m}
      BY <2>2, AppendSteps
    <2>4. \A n \in 1 .. (h + 1) : n = h + 1 \/ n \in 1 .. h
      OBVIOUS
    <2>. QED
      BY <2>1, <2>3, <2>4, ZenonT(60) DEF Account
  <1>4. \A i \in DOMAIN A : A[i].proposal # None => \E p \in P : p.id = A[i].proposal
    BY AppendSteps DEF Account
  <1>5. \A i \in DOMAIN A : A[i].outcome = "accepted" => A[i].resulting \in 1 .. (h + 1)
    <2>1. \A i \in DOMAIN A : A[i] = e \/ (i \in DOMAIN S /\ A[i] = S[i])
      BY AppendSteps
    <2>2. \A i \in DOMAIN S : S[i].outcome = "accepted" => S[i].resulting \in 1 .. h
      BY DEF Account
    <2>. HIDE DEF A
    <2>. QED
      BY <2>1, <2>2
  <1>6. /\ \A p, q \in P : (p.key = q.key \/ p.id = q.id) => p = q
        /\ \A p \in P : p.outcome = "accepted" => p.resulting = p.payload[2] + 1
    BY DEF Account
  <1>. HIDE DEF A
  <1>7. Account(P, A, h + 1)
    BY <1>2, <1>3, <1>4, <1>5, <1>6 DEF Account
  <1>. QED
    BY <1>7 DEF A

\* A recorded decision adds one step and, when it accepts, one revision.
LEMMA AccountOfDecision ==
    ASSUME NEW P, NEW S \in Seq(Step), NEW h \in Nat, Account(P, S, h),
           NEW d, d.id # None,
           \A q \in P : q.id # d.id /\ q.key # d.key,
           NEW e \in Step, e.proposal = d.id, e.outcome = d.outcome,
           e.resulting = d.resulting,
           NEW h2 \in {h, h + 1}, d.outcome = "accepted" <=> h2 = h + 1,
           d.outcome = "accepted" => d.resulting = h + 1 /\ d.payload[2] = h
    PROVE  Account(P \cup {d}, Append(S, e), h2)
  <1>. DEFINE A == Append(S, e)
              m == Len(S) + 1
              Q == P \cup {d}
  <1>a. /\ \A id, o : Tells(A, id, o) = Tells(S, id, o) \cup
                 (IF e.proposal = id /\ e.outcome = o THEN {m} ELSE {})
        /\ \A n : Makes(A, n) = Makes(S, n) \cup
                 (IF e.outcome = "accepted" /\ e.resulting = n THEN {m} ELSE {})
        /\ \A i \in DOMAIN A : \/ i \in DOMAIN S /\ A[i] = S[i]
                               \/ i = m /\ A[i] = e
    BY AppendSteps
  <1>. HIDE DEF A, m
  <1>1. \A p, q \in Q : (p.key = q.key \/ p.id = q.id) => p = q
    BY DEF Account
  <1>2. \A p \in Q : \E i : Tells(A, p.id, p.outcome) = {i}
    <2>1. ASSUME NEW p \in P
          PROVE  \E i : Tells(A, p.id, p.outcome) = {i}
      <3>1. e.proposal # p.id
        OBVIOUS
      <3>2. Tells(A, p.id, p.outcome) = Tells(S, p.id, p.outcome) \cup {}
        BY <1>a, <3>1
      <3>3. PICK i : Tells(S, p.id, p.outcome) = {i}
        BY DEF Account
      <3>4. Tells(A, p.id, p.outcome) = {i}
        BY <3>2, <3>3
      <3>. QED
        BY <3>4
    <2>2. Tells(S, d.id, d.outcome) = {}
      BY DEF Tells, Account
    <2>3. Tells(A, d.id, d.outcome) = {m}
      BY <1>a, <2>2
    <2>. QED
      BY <2>1, <2>3
  <1>3. \A p \in Q : p.outcome = "accepted" => p.resulting = p.payload[2] + 1
    <2>1. \A p \in P : p.outcome = "accepted" => p.resulting = p.payload[2] + 1
      BY DEF Account
    <2>2. d.outcome = "accepted" => d.resulting = d.payload[2] + 1
      OBVIOUS
    <2>. QED
      BY <2>1, <2>2
  <1>4. \A n \in 1 .. h2 : \E i : Makes(A, n) = {i}
    <2>1. ASSUME NEW n \in 1 .. h
          PROVE  \E i : Makes(A, n) = {i}
      <3>1. ~(e.outcome = "accepted" /\ e.resulting = n)
        OBVIOUS
      <3>2. Makes(A, n) = Makes(S, n) \cup {}
        BY <1>a, <3>1
      <3>3. PICK i : Makes(S, n) = {i}
        BY DEF Account
      <3>4. Makes(A, n) = {i}
        BY <3>2, <3>3
      <3>. QED
        BY <3>4
    <2>2. ASSUME h2 = h + 1
          PROVE  Makes(A, h + 1) = {m}
      <3>1. Makes(S, h + 1) = {}
        BY DEF Makes, Account
      <3>2. e.outcome = "accepted" /\ e.resulting = h + 1
        BY <2>2
      <3>. QED
        BY <1>a, <3>1, <3>2
    <2>3. \A n \in 1 .. h2 : n \in 1 .. h \/ (h2 = h + 1 /\ n = h + 1)
      OBVIOUS
    <2>. QED
      BY <2>1, <2>2, <2>3
  <1>5. \A i \in DOMAIN A : A[i].proposal # None => \E p \in Q : p.id = A[i].proposal
    BY <1>a DEF Account
  <1>6. \A i \in DOMAIN A : A[i].outcome = "accepted" => A[i].resulting \in 1 .. h2
    <2>1. \A i \in DOMAIN S : S[i].outcome = "accepted" => S[i].resulting \in 1 .. h
      BY DEF Account
    <2>2. e.outcome = "accepted" => e.resulting \in 1 .. h2
      OBVIOUS
    <2>3. \A n \in 1 .. h : n \in 1 .. h2
      OBVIOUS
    <2>. QED
      BY <1>a, <2>1, <2>2, <2>3
  <1>. HIDE DEF Q
  <1>7. Account(Q, A, h2)
    BY <1>1, <1>2, <1>3, <1>4, <1>5, <1>6 DEF Account
  <1>. QED
    BY <1>7 DEF Q, A

\* The empty books of a task that has not been started.
LEMMA EmptyAccount == Account({}, <<>>, 0)
  BY DEF Account

LEMMA QuietAccounts ==
    ASSUME AInv, UNCHANGED tables
    PROVE  Accounts'
  BY DEF AInv, Accounts, Intact, tables

\* A step on one task is accounted for when that task's books are.
LEMMA LocalAccounts ==
    ASSUME AInv, NEW t \in TaskIds, OnlyTask(t), forgotten \subseteq forgotten',
           t \notin forgotten' /\ tasks'[t] # None
              => Account(proposals'[t], steps'[t], tasks'[t].head_revision)
    PROVE  Accounts'
  BY DEF AInv, Accounts, Intact, OnlyTask

LEMMA StartCommitAccounts ==
    ASSUME AInv, NEW c \in Callers, StartCommit(c)
    PROVE  Accounts'
  <1>. DEFINE t == call[c].task
              e == [proposal |-> None, outcome |-> "accepted", resulting |-> 1]
  <1>0. HInv /\ Unborn /\ TablesOK
    BY InvParts DEF AInv, HInv
  <1>1. t \in TaskIds
    BY <1>0, InCall DEF StartCommit, CallAt
  <1>2. CASE UNCHANGED tables
    BY <1>2, QuietAccounts
  <1>3. CASE /\ tasks[t] = None
             /\ \E at : tasks' = [tasks EXCEPT ![t] =
                   [lifecycle |-> "open", head_revision |-> 1,
                    created_at |-> at, last_progress_at |-> at,
                    paused_at |-> None, no_progress_paused |-> 0]]
             /\ \E r : revisions' = [revisions EXCEPT ![t] = Extend(@, 1, r)]
             /\ steps' = [steps EXCEPT ![t] = Append(@, e)]
             /\ UNCHANGED <<proposals, forgotten>>
    <2>1. OnlyTask(t)
      BY <1>0, <1>1, <1>3 DEF OnlyTask, TablesOK
    <2>2. tasks'[t].head_revision = 1
      BY <1>0, <1>1, <1>3 DEF TablesOK
    <2>3. proposals'[t] = {} /\ steps'[t] = Append(<<>>, e)
      BY <1>0, <1>1, <1>3 DEF Unborn, TablesOK
    <2>4. e \in Step /\ <<>> \in Seq(Step)
      BY DEF Step, Outcome
    <2>5. e.proposal = None /\ e.outcome = "accepted" /\ e.resulting = 0 + 1
      OBVIOUS
    <2>. HIDE DEF e
    <2>6. Account({}, Append(<<>>, e), 0 + 1)
      BY <2>4, <2>5, EmptyAccount, AccountOfChange
    <2>7. Account(proposals'[t], steps'[t], tasks'[t].head_revision)
      BY <2>2, <2>3, <2>6
    <2>. QED
      BY <1>1, <1>3, <2>1, <2>7, LocalAccounts
  <1>. QED
    BY <1>2, <1>3 DEF StartCommit

LEMMA ForgetAccounts ==
    ASSUME AInv, NEW c \in Callers, NEW t \in TaskIds, Forget(c, t)
    PROVE  Accounts'
  <1>0. TablesOK
    BY InvParts DEF AInv, HInv
  <1>1. CASE UNCHANGED tables
    BY <1>1, QuietAccounts
  <1>2. CASE /\ tasks' = [tasks EXCEPT ![t] = None]
             /\ revisions' = [revisions EXCEPT ![t] = <<>>]
             /\ proposals' = [proposals EXCEPT ![t] = {}]
             /\ steps' = [steps EXCEPT ![t] = <<>>]
             /\ forgotten' = forgotten \cup {t}
    <2>1. OnlyTask(t)
      BY <1>0, <1>2 DEF OnlyTask, TablesOK
    <2>. QED
      BY <1>2, <2>1, LocalAccounts
  <1>. QED
    BY <1>1, <1>2 DEF Forget

LEMMA SubmitCommitAccounts ==
    ASSUME AInv, NEW c \in Callers, SubmitCommit(c)
    PROVE  Accounts'
  <1>. DEFINE t == call[c].task
              p == call[c].proposal
  <1>0. HInv /\ TablesOK
    BY InvParts DEF AInv, HInv
  <1>1. t \in TaskIds /\ p \in Submissions /\ p.id # None
    <2>1. CallAt("submit_commit", call[c])
      BY <1>0, InCall DEF SubmitCommit
    <2>. QED
      BY <2>1, NoneAssumption, SMTT(40) DEF CallAt, Calls
  <1>2. CASE UNCHANGED tables
    BY <1>2, QuietAccounts
  <1>3. ASSUME NEW d \in Decided, Recorded(c, d)
        PROVE  Accounts'
    <2>. DEFINE e == [proposal |-> p.id, outcome |-> d.outcome,
                      resulting |-> d.resulting]
    <2>1. /\ OnlyTask(t) /\ UNCHANGED forgotten /\ tasks[t] # None
          /\ d.id = p.id /\ d.key = p.key /\ d.payload = Payload(p)
          /\ CanInsertProposal(t, p)
          /\ proposals'[t] = proposals[t] \cup {d}
          /\ steps'[t] = Append(steps[t], e)
      BY <1>3 DEF Recorded
    <2>2. ASSUME t \notin forgotten
          PROVE  Account(proposals[t] \cup {d}, Append(steps[t], e),
                         tasks'[t].head_revision)
      <3>1. /\ Account(proposals[t], steps[t], tasks[t].head_revision)
            /\ tasks[t] \in Row /\ steps[t] \in Seq(Step)
        BY <1>0, <1>1, <2>1, <2>2 DEF AInv, Accounts, Intact, TablesOK
      <3>2. PICK h \in Nat : h = tasks[t].head_revision
        BY <3>1 DEF Row
      <3>3. e \in Step
        BY <1>1 DEF Step, Decided
      <3>4. e.proposal = d.id /\ e.outcome = d.outcome /\ e.resulting = d.resulting
        BY <2>1
      <3>5. \A q \in proposals[t] : q.id # d.id /\ q.key # d.key
        BY <1>1, <2>1 DEF CanInsertProposal
      <3>6. d.payload[2] = p.base
        BY <2>1 DEF Payload
      <3>7. CASE d.outcome # "accepted" /\ tasks'[t] = tasks[t]
        <4>1. h \in {h, h + 1} /\ h # h + 1
          OBVIOUS
        <4>. HIDE DEF e
        <4>. QED
          BY <1>1, <2>1, <3>1, <3>2, <3>3, <3>4, <3>5, <3>7, <4>1,
             AccountOfDecision
      <3>8. CASE /\ d.outcome = "accepted"
                 /\ d.resulting = tasks'[t].head_revision
                 /\ p.base = tasks[t].head_revision
                 /\ Move(t, tasks[t], revisions[t], now, tasks'[t], revisions'[t])
        <4>1. tasks'[t].head_revision = h + 1
          BY <3>2, <3>8 DEF Move, MoveBy
        <4>2. PICK n \in {h, h + 1} : n = h + 1
          OBVIOUS
        <4>3. d.resulting = h + 1 /\ d.payload[2] = h
          BY <3>2, <3>6, <3>8, <4>1
        <4>. HIDE DEF e
        <4>4. Account(proposals[t], steps[t], h)
          BY <3>1, <3>2
        <4>5. Account(proposals[t] \cup {d}, Append(steps[t], e), n)
          BY <1>1, <2>1, <3>1, <3>3, <3>4, <3>5, <3>8, <4>2, <4>3, <4>4,
             AccountOfDecision
        <4>. QED
          BY <4>1, <4>2, <4>5
      <3>. QED
        BY <1>3, <2>2, <3>7, <3>8 DEF Recorded
    <2>. QED
      BY <1>1, <2>1, <2>2, LocalAccounts
  <1>. QED
    BY <1>0, <1>2, <1>3, SubmitEffect DEF tables

\* The transaction of _lifecycle.
LEMMA ChangeAccounts ==
    ASSUME AInv, NEW label \in {"lifecycle_commit", "expire_commit"}, NEW k,
           CallAt(label, k), NEW target \in Lifecycle, NEW rule,
           CanInsertRevision(k.task, k.view.row.head_revision),
           tasks[k.task].head_revision = k.view.row.head_revision,
           ChangeLifecycle(k, target, rule)
    PROVE  Accounts'
  <1>. DEFINE t   == k.task
              row == k.view.row
  <1>0. Inv /\ TablesOK /\ tasks[t] # None
    BY InvParts DEF AInv, HInv, CanInsertRevision
  <1>1. /\ t \in TaskIds /\ k.view \in Views /\ k.at \in Nat
        /\ row.paused_at # None => row.paused_at <= k.at
    BY DEF CallAt, Calls, Commits
  <1>2. row \in Row /\ tasks[t] \in Row /\ now \in Nat
    BY <1>0, <1>1 DEF Views, TablesOK
  <1>3. PICK h \in Nat : h = row.head_revision
    BY <1>2 DEF Row
  <1>. DEFINE e == [proposal |-> None, outcome |-> "accepted",
                    resulting |-> h + 1]
  <1>4. PICK at \in k.at .. now :
           /\ tasks' = [tasks EXCEPT ![t] = MovedRow(@, row, target, at)]
           /\ steps' = [steps EXCEPT ![t] = Append(@, e)]
           /\ UNCHANGED <<proposals, forgotten>>
    BY <1>3 DEF ChangeLifecycle
  <1>5. at \in Nat /\ (row.paused_at # None => row.paused_at <= at)
    BY <1>1, <1>2 DEF Row
  <1>6. tasks'[t].head_revision = h + 1
    <2>1. MovedRow(tasks[t], row, target, at).head_revision
             = row.head_revision + 1
      BY <1>2, <1>5, MovedRowType
    <2>. QED
      BY <1>0, <1>1, <1>3, <1>4, <2>1 DEF TablesOK
  <1>7. OnlyTask(t)
    BY <1>0, <1>1, ChangeIsLocal
  <1>8. steps'[t] = Append(steps[t], e) /\ steps[t] \in Seq(Step)
    BY <1>0, <1>1, <1>4 DEF TablesOK
  <1>9. e \in Step
    BY DEF Step, Outcome
  <1>10. \A q \in proposals[t] : q.id # None
    <2>1. \A q \in Decided : \E p \in Submissions : q.id = p.id
      BY DEF Decided
    <2>2. proposals[t] \subseteq Decided
      BY <1>0, <1>1 DEF TablesOK
    <2>. QED
      BY <2>1, <2>2, NoneAssumption
  <1>11. ASSUME t \notin forgotten
         PROVE  Account(proposals[t], Append(steps[t], e), h + 1)
    <2>1. Account(proposals[t], steps[t], h)
      BY <1>0, <1>1, <1>3, <1>11 DEF AInv, Accounts, Intact
    <2>2. e.proposal = None /\ e.outcome = "accepted" /\ e.resulting = h + 1
      OBVIOUS
    <2>. HIDE DEF e
    <2>. QED
      BY <1>8, <1>9, <1>10, <2>1, <2>2, AccountOfChange
  <1>. HIDE DEF e
  <1>. QED
    BY <1>1, <1>4, <1>6, <1>7, <1>8, <1>11, LocalAccounts

LEMMA LifecycleCommitAccounts ==
    ASSUME AInv, NEW c \in Callers, LifecycleCommit(c)
    PROVE  Accounts'
  <1>. DEFINE k == call[c]
  <1>1. CallAt("lifecycle_commit", k)
    BY InCall DEF AInv, LifecycleCommit
  <1>2. k.target \in Lifecycle
    BY <1>1, ConstantsAssumption DEF CallAt, Calls, Lifecycle
  <1>. HIDE DEF k
  <1>3. CASE /\ CanInsertRevision(k.task, k.view.row.head_revision)
             /\ tasks[k.task].head_revision = k.view.row.head_revision
             /\ ChangeLifecycle(k, k.target, None)
    BY <1>1, <1>2, <1>3, ChangeAccounts
  <1>4. CASE UNCHANGED tables
    BY <1>4, QuietAccounts
  <1>. QED
    BY <1>3, <1>4 DEF LifecycleCommit, k

LEMMA ExpireCommitAccounts ==
    ASSUME AInv, NEW c \in Callers, ExpireCommit(c)
    PROVE  Accounts'
  <1>. DEFINE k == call[c]
  <1>1. CallAt("expire_commit", k)
    BY InCall DEF AInv, ExpireCommit
  <1>2. "expired" \in Lifecycle
    BY DEF Lifecycle
  <1>. HIDE DEF k
  <1>3. CASE /\ CanInsertRevision(k.task, k.view.row.head_revision)
             /\ tasks[k.task].head_revision = k.view.row.head_revision
             /\ ChangeLifecycle(k, "expired", k.rule)
    BY <1>1, <1>2, <1>3, ChangeAccounts
  <1>4. CASE UNCHANGED tables
    BY <1>4, QuietAccounts
  <1>. QED
    BY <1>3, <1>4 DEF ExpireCommit, k

LEMMA NextAccounts ==
    ASSUME AInv, [Next]_vars
    PROVE  Accounts'
  <1>1. ASSUME NEW c \in Callers, ClientStep(c)
        PROVE  Accounts'
    <2>1. CASE UNCHANGED tables
      BY <2>1, QuietAccounts
    <2>2. CASE \E t \in TaskIds : Forget(c, t)
      BY <2>2, ForgetAccounts
    <2>. QED
      BY <1>1, <2>1, <2>2, StartCommitAccounts, SubmitCommitAccounts,
         LifecycleCommitAccounts
      DEF ClientStep, StartRead, Get, SubmitRead, LifecycleRequest,
          CompletionGate, LifecycleRead
  <1>2. ASSUME NEW c \in Callers, ExpiryStep(c)
        PROVE  Accounts'
    BY <1>2, ExpireCommitAccounts, QuietAccounts
    DEF ExpiryStep, ExpireRead, Confirm, Reload
  <1>3. ASSUME NEW c \in Callers, MaintenanceStep(c)
        PROVE  Accounts'
    BY <1>2, <1>3, QuietAccounts DEF MaintenanceStep, ScanRead, ScanNext
  <1>4. CASE \E c \in Crashable : Crash(c)
    BY <1>4, QuietAccounts DEF Crash
  <1>5. CASE Tick
    BY <1>5, QuietAccounts DEF Tick
  <1>6. CASE UNCHANGED vars
    BY <1>6, QuietAccounts DEF vars
  <1>. QED
    BY <1>1, <1>2, <1>3, <1>4, <1>5, <1>6, SMTT(40) DEF Next, Callers

\* Every request is decided at most once and told in exactly one step, an
\* accepted one produced the successor of the revision it named, and every
\* revision is accounted for by exactly one accepted step (_commit,
\* _lifecycle and start, however they race).
THEOREM DecisionsAccounted == Spec => []DecisionsAreAccountable
  <1>1. Init => AInv
    <2>1. Init => Accounts
      BY DEF Init, Accounts, Intact
    <2>. QED
      BY <2>1, InitHist DEF AInv
  <1>2. AInv /\ [Next]_vars => AInv'
    BY NextHist, NextAccounts DEF AInv
  <1>3. AInv => DecisionsAreAccountable
    <2>. SUFFICES ASSUME AInv, NEW t \in Intact
                  PROVE  /\ \A p \in proposals[t] :
                            /\ \A q \in proposals[t] :
                                  (p.key = q.key \/ p.id = q.id) => p = q
                            /\ Cardinality(Tells(steps[t], p.id, p.outcome)) = 1
                            /\ p.outcome = "accepted"
                                  => p.resulting = p.payload[2] + 1
                         /\ \A n \in 1 .. tasks[t].head_revision :
                               Cardinality(Makes(steps[t], n)) = 1
      BY DEF DecisionsAreAccountable, Tells, Makes
    <2>1. Account(proposals[t], steps[t], tasks[t].head_revision)
      BY DEF AInv, Accounts
    <2>2. \A i : Cardinality({i}) = 1
      BY FS_Singleton
    <2>3. \A p \in proposals[t] :
             Cardinality(Tells(steps[t], p.id, p.outcome)) = 1
      BY <2>1, <2>2 DEF Account
    <2>4. \A n \in 1 .. tasks[t].head_revision :
             Cardinality(Makes(steps[t], n)) = 1
      BY <2>1, <2>2 DEF Account
    <2>. QED
      BY <2>1, <2>3, <2>4 DEF Account
  <1>. QED
    BY <1>1, <1>2, <1>3, PTL DEF Spec

-----------------------------------------------------------------------------
(* Pauses.  rebuild_task_pause_accounting folds the revisions; FoldOf says  *)
(* that a function is that fold.                                            *)

\* One revision of the fold.
PauseFold(r, p) ==
    IF r.lifecycle = "paused" /\ p.since = None
    THEN [p EXCEPT !.since = r.at]
    ELSE IF r.lifecycle # "paused" /\ p.since # None
    THEN [since |-> None, total |-> p.total + (r.at - p.since)]
    ELSE p

FoldOf(f, revs, h) ==
    f = [n \in 0 .. h |-> IF n = 0 THEN [since |-> None, total |-> 0]
                          ELSE PauseFold(revs[n], f[n - 1])]

\* The fold of a task's history ends in its row.
PausesKept(row, revs) ==
    \E f : /\ FoldOf(f, revs, row.head_revision)
           /\ f[row.head_revision] = [since |-> row.paused_at,
                                      total |-> row.no_progress_paused]

Pauses == \A t \in Intact : PausesKept(tasks[t], revisions[t])

PInv == HInv /\ Pauses

\* Induction, for sets of numbers.
LEMMA InductiveSet ==
    ASSUME NEW S \in SUBSET Nat, 0 \in S, \A n \in S : n + 1 \in S
    PROVE  S = Nat
  <1>. DEFINE T == Nat \ S
              R == OpToRel(<, Nat)
  <1>1. SUFFICES ASSUME T # {} PROVE FALSE
    OBVIOUS
  <1>2. IsWellFoundedOn(R, Nat)
    BY NatLessThanWellFounded, Zenon
  <1>3. \A m, n \in Nat : m < n => <<m, n>> \in R
    BY DEF OpToRel
  <1>. HIDE DEF R
  <1>4. PICK x \in T : \A y \in T : ~(<<y, x>> \in R)
    BY <1>1, <1>2, WFMin
  <1>5. x \in Nat /\ x # 0
    OBVIOUS
  <1>6. x - 1 \in Nat /\ x - 1 < x /\ (x - 1) + 1 = x
    BY <1>5
  <1>7. x - 1 \notin T
    BY <1>3, <1>4, <1>5, <1>6
  <1>8. x - 1 \in S
    BY <1>6, <1>7
  <1>. QED
    BY <1>6, <1>8

\* There is only one fold.
LEMMA FoldIsUnique ==
    ASSUME NEW revs, NEW h \in Nat, NEW f, NEW g,
           FoldOf(f, revs, h), FoldOf(g, revs, h)
    PROVE  f = g
  <1>. DEFINE S == {n \in Nat : n \in 0 .. h => f[n] = g[n]}
  <1>1. /\ DOMAIN f = 0 .. h /\ DOMAIN g = 0 .. h
        /\ f = [n \in 0 .. h |-> f[n]] /\ g = [n \in 0 .. h |-> g[n]]
        /\ f[0] = [since |-> None, total |-> 0]
        /\ g[0] = [since |-> None, total |-> 0]
        /\ \A n \in 1 .. h : f[n] = PauseFold(revs[n], f[n - 1])
        /\ \A n \in 1 .. h : g[n] = PauseFold(revs[n], g[n - 1])
    BY DEF FoldOf
  <1>2. 0 \in S
    BY <1>1
  <1>3. ASSUME NEW n \in S
        PROVE  n + 1 \in S
    <2>1. ASSUME n + 1 \in 0 .. h
          PROVE  f[n + 1] = g[n + 1]
      <3>1. n \in 0 .. h /\ n + 1 \in 1 .. h /\ (n + 1) - 1 = n
        BY <2>1
      <3>2. f[n] = g[n]
        BY <3>1
      <3>. QED
        BY <1>1, <3>1, <3>2
    <2>. QED
      BY <2>1
  <1>4. S = Nat
    BY <1>2, <1>3, InductiveSet
  <1>5. \A n \in 0 .. h : f[n] = g[n]
    BY <1>4
  <1>. QED
    BY <1>1, <1>5

\* The fold of a longer history, one revision further.
LEMMA FoldExtends ==
    ASSUME NEW revs, NEW revs2, NEW h \in Nat, NEW f, NEW r,
           FoldOf(f, revs, h), revs2[h + 1] = r,
           \A n \in 1 .. h : revs2[n] = revs[n]
    PROVE  \E g : FoldOf(g, revs2, h + 1) /\ g[h + 1] = PauseFold(r, f[h])
  <1>. DEFINE last == PauseFold(revs2[h + 1], f[h])
              g    == Extend(f, h + 1, last)
  <1>1. /\ DOMAIN f = 0 .. h /\ f[0] = [since |-> None, total |-> 0]
        /\ \A n \in 1 .. h : f[n] = PauseFold(revs[n], f[n - 1])
    BY DEF FoldOf
  <1>2. /\ g = [n \in 0 .. (h + 1) |-> IF n = h + 1 THEN last ELSE f[n]]
    <2>1. DOMAIN f \cup {h + 1} = 0 .. (h + 1)
      BY <1>1
    <2>. QED
      BY <2>1 DEF Extend
  <1>3. g[h + 1] = last /\ \A n \in 0 .. h : g[n] = f[n]
    BY <1>2
  <1>. HIDE DEF g, last
  <1>4. ASSUME NEW n \in 0 .. (h + 1)
        PROVE  g[n] = IF n = 0 THEN [since |-> None, total |-> 0]
                      ELSE PauseFold(revs2[n], g[n - 1])
    <2>1. CASE n = 0
      BY <1>1, <1>3, <2>1
    <2>2. CASE n \in 1 .. h
      BY <1>1, <1>3, <2>2
    <2>3. CASE n = h + 1
      BY <1>3, <2>3 DEF last
    <2>. QED
      BY <2>1, <2>2, <2>3
  <1>5. g = [n \in 0 .. (h + 1) |-> g[n]]
    BY <1>2
  <1>6. FoldOf(g, revs2, h + 1)
    BY <1>4, <1>5 DEF FoldOf
  <1>7. g[h + 1] = PauseFold(r, f[h])
    BY <1>3 DEF last
  <1>. QED
    BY <1>6, <1>7

\* A move takes the fold with it: a revision opens, closes or keeps a pause
\* just as the row it writes does.
LEMMA MoveKeepsPauses ==
    ASSUME NEW t \in TaskIds, NEW row \in Row, NEW revs, NEW time,
           NEW row2, NEW revs2,
           \A n \in DOMAIN revs : revs[n] \in Revision,
           History(t, row, revs, time), Move(t, row, revs, time, row2, revs2),
           PausesKept(row, revs)
    PROVE  PausesKept(row2, revs2)
  <1>h. PICK h \in Nat \ {0} : h = row.head_revision
    BY DEF Row
  <1>0. PICK r \in Revision : MoveBy(t, row, revs, time, row2, revs2, r)
    BY DEF Move
  <1>1. Linear(row, revs) /\ Cached(row, revs)
    BY DEF History
  <1>2. row2.head_revision = h + 1
    BY <1>h, <1>0 DEF MoveBy
  <1>3. revs2[row2.head_revision] = r
        /\ \A n \in 1 .. row.head_revision : revs2[n] = revs[n]
    BY <1>0, <1>1, MoveExtends
  <1>4. PICK f : /\ FoldOf(f, revs, h)
                 /\ f[h] = [since |-> row.paused_at,
                            total |-> row.no_progress_paused]
    BY <1>h DEF PausesKept
  <1>5. PICK g : FoldOf(g, revs2, h + 1) /\ g[h + 1] = PauseFold(r, f[h])
    <2>1. revs2[h + 1] = r /\ \A n \in 1 .. h : revs2[n] = revs[n]
      BY <1>h, <1>2, <1>3
    <2>2. h \in Nat /\ FoldOf(f, revs, h)
      BY <1>4
    <2>. QED
      BY <2>1, <2>2, FoldExtends
  <1>6. PauseFold(r, f[h]) = [since |-> row2.paused_at,
                              total |-> row2.no_progress_paused]
    <2>1. /\ row.lifecycle = revs[h].lifecycle
          /\ row.paused_at = IF row.lifecycle = "paused" THEN revs[h].at ELSE None
      BY <1>h, <1>1 DEF Cached
    <2>2. /\ ~(row.lifecycle = "paused" /\ r.lifecycle = "paused")
          /\ row2.paused_at = IF r.lifecycle = "paused" THEN r.at ELSE None
          /\ row2.no_progress_paused = row.no_progress_paused +
                (IF row.lifecycle = "paused" THEN r.at - revs[h].at ELSE 0)
      BY <1>h, <1>0 DEF MoveBy
    <2>3. /\ row.no_progress_paused \in Nat /\ revs[h].at \in Nat
          /\ r.at \in Nat /\ revs[h].at # None /\ r.at # None
      <3>1. h \in DOMAIN revs
        BY <1>h, <1>1 DEF Linear
      <3>2. revs[h] \in Revision
        BY <3>1
      <3>. QED
        BY <3>2, NoneAssumption DEF Row, Revision
    <2>. DEFINE p == [since |-> row.paused_at, total |-> row.no_progress_paused]
    <2>4. CASE row.lifecycle = "paused"
      <3>1. /\ row.paused_at = revs[h].at /\ r.lifecycle # "paused"
            /\ row2.paused_at = None
            /\ row2.no_progress_paused
                  = row.no_progress_paused + (r.at - revs[h].at)
        BY <2>1, <2>2, <2>4
      <3>2. PauseFold(r, p) = [since |-> None,
               total |-> row.no_progress_paused + (r.at - revs[h].at)]
        BY <2>3, <3>1 DEF PauseFold
      <3>. QED
        BY <1>4, <3>1, <3>2
    <2>5. CASE row.lifecycle # "paused"
      <3>1. /\ row.paused_at = None
            /\ row2.no_progress_paused = row.no_progress_paused
        BY <2>1, <2>2, <2>3, <2>5
      <3>2. CASE r.lifecycle = "paused"
        <4>1. PauseFold(r, p) = [since |-> r.at, total |-> row.no_progress_paused]
          BY <3>1, <3>2 DEF PauseFold
        <4>. QED
          BY <1>4, <2>2, <3>1, <3>2, <4>1
      <3>3. CASE r.lifecycle # "paused"
        <4>1. PauseFold(r, p) = p
          BY <3>1, <3>3 DEF PauseFold
        <4>. QED
          BY <1>4, <2>2, <3>1, <3>3, <4>1
      <3>. QED
        BY <3>2, <3>3
    <2>. QED
      BY <2>4, <2>5
  <1>. QED
    BY <1>2, <1>5, <1>6 DEF PausesKept

LEMMA BirthPauses ==
    ASSUME NEW row2, NEW revs2, NEW time, Birth(row2, revs2, time)
    PROVE  PausesKept(row2, revs2)
  <1>. DEFINE z == [since |-> None, total |-> 0]
              f == [n \in 0 .. 1 |-> z]
  <1>1. /\ row2.head_revision = 1 /\ row2.paused_at = None
        /\ row2.no_progress_paused = 0 /\ revs2[1].lifecycle = "open"
    BY DEF Birth
  <1>2. PauseFold(revs2[1], z) = z
    BY <1>1 DEF PauseFold
  <1>3. f[0] = z /\ f[1] = z
    OBVIOUS
  <1>4. \A n \in 0 .. 1 : z = IF n = 0 THEN z ELSE PauseFold(revs2[n], f[n - 1])
    <2>1. \A n \in 0 .. 1 : n = 0 \/ n = 1
      OBVIOUS
    <2>2. f[1 - 1] = z
      BY <1>3
    <2>. QED
      BY <1>2, <2>1, <2>2
  <1>5. FoldOf(f, revs2, 1)
    BY <1>4 DEF FoldOf
  <1>. QED
    BY <1>1, <1>3, <1>5 DEF PausesKept

LEMMA NextPauses ==
    ASSUME PInv, [Next]_vars
    PROVE  Pauses'
  <1>. SUFFICES ASSUME NEW t \in TaskIds, tasks'[t] # None, t \notin forgotten'
                PROVE  PausesKept(tasks'[t], revisions'[t])
    BY DEF Pauses, Intact
  <1>1. Effects
    BY NextEffects DEF PInv
  <1>2. CASE tasks[t] = None
    <2>1. Birth(tasks'[t], revisions'[t], now)
      BY <1>1, <1>2 DEF Effects, Begins
    <2>. QED
      BY <2>1, BirthPauses
  <1>3. CASE tasks[t] # None
    <2>1. t \in Intact
      BY <1>1, <1>3 DEF Effects, Intact
    <2>2. PausesKept(tasks[t], revisions[t])
      BY <2>1 DEF PInv, Pauses
    <2>3. /\ History(t, tasks[t], revisions[t], now)
          /\ tasks[t] \in Row
          /\ \A n \in DOMAIN revisions[t] : revisions[t][n] \in Revision
      BY <1>3, <2>1 DEF PInv, HInv, Histories, Inv, TypeOK, Intact
    <2>4. \/ Same(t)
          \/ Move(t, tasks[t], revisions[t], now, tasks'[t], revisions'[t])
      BY <1>1, <2>1 DEF Effects, Evolves
    <2>5. CASE Same(t)
      BY <2>2, <2>5 DEF Same
    <2>6. CASE Move(t, tasks[t], revisions[t], now, tasks'[t], revisions'[t])
      BY <2>2, <2>3, <2>6, MoveKeepsPauses
    <2>. QED
      BY <2>4, <2>5, <2>6
  <1>. QED
    BY <1>2, <1>3

\* The beginning of a fold is the fold of the beginning.
LEMMA FoldPrefix ==
    ASSUME NEW revs, NEW h \in Nat, NEW m \in 0 .. h, NEW f, FoldOf(f, revs, h)
    PROVE  \E g : FoldOf(g, revs, m) /\ g[m] = f[m]
  <1>. DEFINE g == [n \in 0 .. m |-> f[n]]
  <1>1. /\ f[0] = [since |-> None, total |-> 0]
        /\ \A n \in 1 .. h : f[n] = PauseFold(revs[n], f[n - 1])
    BY DEF FoldOf
  <1>2. \A n \in 0 .. m : g[n] = f[n]
    OBVIOUS
  <1>3. g = [n \in 0 .. m |-> g[n]]
    OBVIOUS
  <1>. HIDE DEF g
  <1>4. ASSUME NEW n \in 0 .. m
        PROVE  g[n] = IF n = 0 THEN [since |-> None, total |-> 0]
                      ELSE PauseFold(revs[n], g[n - 1])
    <2>1. CASE n = 0
      BY <1>1, <1>2, <2>1
    <2>2. CASE n # 0
      <3>1. n \in 1 .. h /\ n - 1 \in 0 .. m
        BY <2>2
      <3>. QED
        BY <1>1, <1>2, <2>2, <3>1
    <2>. QED
      BY <2>1, <2>2
  <1>5. FoldOf(g, revs, m)
    BY <1>3, <1>4 DEF FoldOf
  <1>6. g[m] = f[m]
    BY <1>2
  <1>. QED
    BY <1>5, <1>6

\* Revisions are in time order, so the fold never takes a pause back.
LEMMA FoldGrows ==
    ASSUME NEW revs, NEW h \in Nat, NEW f, FoldOf(f, revs, h),
           \A n \in 1 .. h : revs[n].at \in Nat,
           \A n \in 2 .. h : revs[n].at >= revs[n - 1].at,
           NEW m \in 0 .. h
    PROVE  f[m].total <= f[h].total
  <1>. DEFINE Good(n) == /\ f[n].total \in Nat
                         /\ f[n].since # None => /\ n \in 1 .. h
                                                 /\ f[n].since \in Nat
                                                 /\ f[n].since <= revs[n].at
              S == {n \in Nat : n \in 0 .. h => Good(n)}
              T == {k \in Nat : m + k \in 0 .. h
                                   => f[m].total <= f[m + k].total}
  <1>1. /\ f[0] = [since |-> None, total |-> 0]
        /\ \A n \in 1 .. h : f[n] = PauseFold(revs[n], f[n - 1])
    BY DEF FoldOf
  <1>2. ASSUME NEW n \in Nat, n + 1 \in 0 .. h, Good(n)
        PROVE  Good(n + 1) /\ f[n].total <= f[n + 1].total
    <2>1. /\ n + 1 \in 1 .. h /\ (n + 1) - 1 = n
          /\ f[n + 1] = PauseFold(revs[n + 1], f[n])
      BY <1>1, <1>2
    <2>. DEFINE r == revs[n + 1]
                q == f[n]
    <2>2. /\ r.at \in Nat /\ q.total \in Nat
          /\ q.since # None => q.since \in Nat /\ q.since <= r.at
      <3>1. n \in 1 .. h => n + 1 \in 2 .. h
        BY <2>1
      <3>2. n \in 1 .. h => revs[n].at \in Nat /\ revs[n + 1].at >= revs[n].at
        BY <2>1, <3>1
      <3>. QED
        BY <1>2, <2>1, <3>2
    <2>3. /\ PauseFold(r, q).total \in Nat /\ q.total <= PauseFold(r, q).total
          /\ PauseFold(r, q).since # None =>
                PauseFold(r, q).since \in Nat /\ PauseFold(r, q).since <= r.at
      <3>. HIDE DEF r, q
      <3>1. CASE r.lifecycle = "paused" /\ q.since = None
        <4>1. PauseFold(r, q) = [q EXCEPT !.since = r.at]
          BY <3>1 DEF PauseFold
        <4>2. PauseFold(r, q).total = q.total
              /\ PauseFold(r, q).since \in {r.at, q.since}
          BY <4>1
        <4>. QED
          BY <2>2, <3>1, <4>2
      <3>2. CASE r.lifecycle # "paused" /\ q.since # None
        <4>1. PauseFold(r, q) = [since |-> None,
                                 total |-> q.total + (r.at - q.since)]
          BY <3>2 DEF PauseFold
        <4>. QED
          BY <2>2, <3>2, <4>1
      <3>3. CASE /\ ~(r.lifecycle = "paused" /\ q.since = None)
                 /\ ~(r.lifecycle # "paused" /\ q.since # None)
        <4>1. PauseFold(r, q) = q
          BY <3>3 DEF PauseFold
        <4>. QED
          BY <2>2, <4>1
      <3>. QED
        BY <3>1, <3>2, <3>3
    <2>. QED
      BY <2>1, <2>3
  <1>3. 0 \in S
    BY <1>1
  <1>4. ASSUME NEW n \in S PROVE n + 1 \in S
    <2>1. n \in Nat /\ (n + 1 \in 0 .. h => n \in 0 .. h)
      OBVIOUS
    <2>2. n + 1 \in 0 .. h => Good(n)
      BY <2>1
    <2>. HIDE DEF Good
    <2>. QED
      BY <1>2, <2>1, <2>2
  <1>5. S = Nat
    BY <1>3, <1>4, InductiveSet
  <1>6. \A n \in 0 .. h : Good(n)
    BY <1>5
  <1>7. \A n \in 0 .. h : f[n].total \in Nat
    BY <1>6
  <1>. HIDE DEF Good
  <1>8. 0 \in T
    BY <1>7
  <1>9. ASSUME NEW k \in T PROVE k + 1 \in T
    <2>1. ASSUME m + (k + 1) \in 0 .. h
          PROVE  f[m].total <= f[m + (k + 1)].total
      <3>1. /\ m + k \in 0 .. h /\ m + k \in Nat
            /\ m + (k + 1) = (m + k) + 1 /\ (m + k) + 1 \in 0 .. h
        BY <2>1
      <3>2. f[m].total <= f[m + k].total
        BY <3>1
      <3>3. f[m + k].total <= f[(m + k) + 1].total
        BY <1>2, <1>6, <3>1
      <3>. QED
        BY <1>7, <3>1, <3>2, <3>3
    <2>. QED
      BY <2>1
  <1>10. T = Nat
    BY <1>8, <1>9, InductiveSet
  <1>11. h - m \in T /\ m + (h - m) = h
    BY <1>10
  <1>. QED
    BY <1>11

\* What rebuild_task_pause_accounting derives from the revisions is the stored
\* pause accumulator, however pauses, resumptions, checkpoints and expiries of
\* racing calls follow one another, as long as its limit covers the history;
\* beyond it the audit counts no more than the accumulator.
THEOREM PausesAgree == Spec => []PauseAccountingAgrees
  <1>1. Init => PInv
    <2>1. Init => Pauses
      BY DEF Init, Pauses, Intact
    <2>. QED
      BY <2>1, InitHist DEF PInv
  <1>2. PInv /\ [Next]_vars => PInv'
    BY NextHist, NextPauses DEF PInv
  <1>3. PInv => PauseAccountingAgrees
    <2>. SUFFICES ASSUME PInv, NEW t \in Intact
                  PROVE  /\ RebuiltPausedTime(t) <= tasks[t].no_progress_paused
                         /\ tasks[t].head_revision <= RebuildLimit
                               => tasks[t].no_progress_paused
                                     = RebuiltPausedTime(t)
      BY DEF PauseAccountingAgrees
    <2>h. PICK h \in Nat : h = tasks[t].head_revision
      BY DEF PInv, HInv, Inv, TypeOK, Intact, Row
    <2>m. PICK m \in 0 .. h : /\ m = AuditedRevisions(t)
                              /\ h <= RebuildLimit => m = h
      BY <2>h, ConstantsAssumption DEF AuditedRevisions
    <2>. DEFINE revs == revisions[t]
                acc  == CHOOSE f : FoldOf(f, revs, m)
    <2>1. PICK f : /\ FoldOf(f, revs, h)
                   /\ f[h].total = tasks[t].no_progress_paused
      <3>1. PausesKept(tasks[t], revs)
        BY DEF PInv, Pauses
      <3>2. PICK f : /\ FoldOf(f, revs, tasks[t].head_revision)
                     /\ f[tasks[t].head_revision]
                           = [since |-> tasks[t].paused_at,
                              total |-> tasks[t].no_progress_paused]
        BY <3>1 DEF PausesKept
      <3>. QED
        BY <2>h, <3>2
    <2>2. PICK g : FoldOf(g, revs, m) /\ g[m] = f[m]
      BY <2>1, FoldPrefix
    <2>3. FoldOf(acc, revs, m)
      BY <2>2, Zenon
    <2>. HIDE DEF acc
    <2>4. acc = g
      BY <2>2, <2>3, FoldIsUnique
    <2>5. RebuiltPausedTime(t) = acc[m].total
      BY <2>m DEF RebuiltPausedTime, acc, FoldOf, PauseFold
    <2>6. /\ \A n \in 1 .. h : revs[n].at \in Nat
          /\ \A n \in 2 .. h : revs[n].at >= revs[n - 1].at
      <3>1. /\ Linear(tasks[t], revs)
            /\ \A n \in DOMAIN revs : revs[n] \in Revision
        BY DEF PInv, HInv, Inv, TypeOK, Intact, Histories, History
      <3>. QED
        BY <2>h, <3>1 DEF Linear, Revision
    <2>7. f[m].total <= f[h].total
      <3>. HIDE DEF revs
      <3>. QED
        BY <2>1, <2>6, FoldGrows
    <2>. QED
      BY <2>h, <2>m, <2>1, <2>2, <2>4, <2>5, <2>7
  <1>. QED
    BY <1>1, <1>2, <1>3, PTL DEF Spec
=============================================================================
