--------------------------- MODULE ProcessFileLock ---------------------------
(***************************************************************************)
(* File locks shared by the threads of several processes                   *)
(* (atmem/locking.py).  A process keeps at most one operating system lock  *)
(* per path and counts the lock objects that share it; an exclusive lock   *)
(* belongs to one thread, which may take it again.                         *)
(*                                                                         *)
(* The table of a process is only touched under _PROCESS_LOCKS_GUARD, so   *)
(* what a thread does while it has the guard is one step, except that it   *)
(* keeps the guard while it opens, validates and locks the file.  A lock   *)
(* object is used by one thread at a time, as everywhere in AtMem.         *)
(***************************************************************************)
EXTENDS Naturals, FiniteSets

CONSTANTS
    Processes,
    Threads,
    Paths,
    Locks,          \* ProcessFileLock objects
    ProcessOf,      \* the process each thread runs in
    HomeOf,         \* the process each lock object lives in
    PathOf,         \* the file each lock object names
    Exclusive,      \* its mode
    Blocking,       \* does acquire wait?
    Nesting,        \* <<f, g>>: callers may ask for g while they hold f
    Mortal,         \* processes that may die
    None

ASSUME LocksAssumption ==
    /\ ProcessOf \in [Threads -> Processes]
    /\ HomeOf \in [Locks -> Processes]
    /\ PathOf \in [Locks -> Paths]
    /\ Exclusive \in [Locks -> BOOLEAN]
    /\ Blocking \in [Locks -> BOOLEAN]
    /\ Nesting \subseteq Paths \X Paths
    /\ Mortal \subseteq Processes
    /\ IsFiniteSet(Locks)
    /\ None \notin Threads \cup Locks

VARIABLES
    held,       \* _PROCESS_LOCKS, by process and path
    flock,      \* the locks the operating system granted, by path
    guard,      \* the thread that has _PROCESS_LOCKS_GUARD, by process
    pc,         \* where each thread is in its call
    target,     \* the lock object of that call
    key         \* _key: the thread that acquired a lock object, or None

vars == <<held, flock, guard, pc, target, key>>

HeldLock == [exclusive : BOOLEAN, references : Nat \ {0},
             owner : Threads \cup {None}]

NoLock == [exclusive |-> FALSE, references |-> 0, owner |-> None]

\* Lock objects of a process that hold a path.
Holding(p, path) == {l \in Locks : /\ HomeOf[l] = p
                                   /\ PathOf[l] = path
                                   /\ key[l] # None}

-----------------------------------------------------------------------------
Init ==
    /\ held = [p \in Processes |-> [path \in Paths |-> NoLock]]
    /\ flock = [path \in Paths |-> {}]
    /\ guard = [p \in Processes |-> None]
    /\ pc = [t \in Threads |-> "idle"]
    /\ target = [t \in Threads |-> None]
    /\ key = [l \in Locks |-> None]

Return(t) ==
    /\ pc' = [pc EXCEPT ![t] = "idle"]
    /\ target' = [target EXCEPT ![t] = None]

Goto(t, label) ==
    /\ pc' = [pc EXCEPT ![t] = label]
    /\ UNCHANGED target

Unused(l) == \A t \in Threads : target[t] # l

\* A call of acquire or close reaches the guard; acquiring a lock object that
\* is held returns at once.
Call(t, l) ==
    /\ pc[t] = "idle"
    /\ HomeOf[l] = ProcessOf[t]
    /\ Unused(l)
    /\ key[l] = None => \A m \in Locks : key[m] = t =>
                            <<PathOf[m], PathOf[l]>> \in Nesting
    /\ pc' = [pc EXCEPT ![t] = IF key[l] = None THEN "acquire" ELSE "close"]
    /\ target' = [target EXCEPT ![t] = l]
    /\ UNCHANGED <<held, flock, guard, key>>

\* Mutant: any thread may join an exclusive lock.
MayJoin_AnyThread(h, t) == h.references > 0

\* The table's lock can be shared by one more object of this thread.
MayJoin(h, t) == h.references > 0 /\ (h.exclusive => h.owner = t)

\* Mutant: the thread waits without giving up the guard.
Wait_KeepsGuard(t) ==
    /\ Goto(t, "waiting")
    /\ guard' = [guard EXCEPT ![ProcessOf[t]] = t]

\* _PROCESS_LOCKS_CHANGED.wait gives up the guard while it waits.
Wait(t) ==
    /\ Goto(t, "waiting")
    /\ UNCHANGED guard

\* acquire while the table has an entry.  The first two alternatives raise
\* BlockingIOError.
Join(t) ==
    /\ pc[t] = "acquire"
    /\ guard[ProcessOf[t]] = None
    /\ LET l == target[t]
           p == ProcessOf[t]
           h == held[p][PathOf[l]]
       IN  /\ h.references > 0
           /\ \/ /\ h.exclusive # Exclusive[l]
                 /\ Return(t)
                 /\ UNCHANGED <<held, key, guard>>
              \/ /\ h.exclusive = Exclusive[l] /\ ~MayJoin(h, t)
                 /\ ~Blocking[l]
                 /\ Return(t)
                 /\ UNCHANGED <<held, key, guard>>
              \/ /\ h.exclusive = Exclusive[l] /\ ~MayJoin(h, t)
                 /\ Blocking[l]
                 /\ Wait(t)
                 /\ UNCHANGED <<held, key>>
              \/ /\ h.exclusive = Exclusive[l] /\ MayJoin(h, t)
                 /\ held' = [held EXCEPT ![p][PathOf[l]].references = @ + 1]
                 /\ key' = [key EXCEPT ![l] = t]
                 /\ Return(t)
                 /\ UNCHANGED guard
    /\ UNCHANGED flock

\* acquire without an entry: the thread opens the file; either that or its
\* validation fails, or the thread goes on to lock it and keeps the guard.
Open(t) ==
    /\ pc[t] = "acquire"
    /\ guard[ProcessOf[t]] = None
    /\ held[ProcessOf[t]][PathOf[target[t]]].references = 0
    /\ \/ /\ Return(t)
          /\ UNCHANGED guard
       \/ /\ guard' = [guard EXCEPT ![ProcessOf[t]] = t]
          /\ Goto(t, "flock")
    /\ UNCHANGED <<held, flock, key>>

\* The operating system's rule (flock, LockFileEx).
Compatible(l) ==
    \A f \in flock[PathOf[l]] : ~Exclusive[l] /\ ~f.exclusive

\* The lock is granted and entered in the table.
Granted(t) ==
    /\ pc[t] = "flock"
    /\ Compatible(target[t])
    /\ LET l == target[t]
           p == ProcessOf[t]
       IN  /\ flock' = [flock EXCEPT ![PathOf[l]] = @ \cup
                           {[process |-> p, exclusive |-> Exclusive[l]]}]
           /\ held' = [held EXCEPT ![p][PathOf[l]] =
                 [exclusive |-> Exclusive[l], references |-> 1,
                  owner |-> IF Exclusive[l] THEN t ELSE None]]
           /\ key' = [key EXCEPT ![l] = t]
           /\ guard' = [guard EXCEPT ![p] = None]
    /\ Return(t)

\* Locking the file raises: another process holds it and the object does not
\* wait, or any other error.  The descriptor is closed.
Refused(t) ==
    /\ pc[t] = "flock"
    /\ guard' = [guard EXCEPT ![ProcessOf[t]] = None]
    /\ Return(t)
    /\ UNCHANGED <<held, flock, key>>

\* notify_all: every waiting thread of the process looks at the table again.
Awake(p, t) ==
    [u \in Threads |-> IF u = t THEN "idle"
                       ELSE IF ProcessOf[u] = p /\ pc[u] = "waiting"
                       THEN "acquire" ELSE pc[u]]

\* Mutant: notify_one wakes a single waiter, if there is one.
LastClose_NotifyOne(t, l) ==
    LET p == ProcessOf[t]
        w == {u \in Threads : ProcessOf[u] = p /\ pc[u] = "waiting"}
    IN  /\ flock' = [flock EXCEPT ![PathOf[l]] = {f \in @ : f.process # p}]
        /\ held' = [held EXCEPT ![p][PathOf[l]] = NoLock]
        /\ IF w = {} THEN pc' = [pc EXCEPT ![t] = "idle"]
           ELSE \E u \in w : pc' = [pc EXCEPT ![t] = "idle", ![u] = "acquire"]

\* Mutant: the file stays locked.
LastClose_NoUnlock(t, l) ==
    /\ held' = [held EXCEPT ![ProcessOf[t]][PathOf[l]] = NoLock]
    /\ pc' = Awake(ProcessOf[t], t)
    /\ UNCHANGED flock

\* close drops the last reference.
LastClose(t, l) ==
    LET p == ProcessOf[t] IN
    /\ flock' = [flock EXCEPT ![PathOf[l]] = {f \in @ : f.process # p}]
    /\ held' = [held EXCEPT ![p][PathOf[l]] = NoLock]
    /\ pc' = Awake(p, t)

Close(t) ==
    /\ pc[t] = "close"
    /\ guard[ProcessOf[t]] = None
    /\ LET l == target[t]
           p == ProcessOf[t]
           h == held[p][PathOf[l]]
       IN  /\ key' = [key EXCEPT ![l] = None]
           /\ \/ /\ h.references > 1
                 /\ held' = [held EXCEPT ![p][PathOf[l]].references = @ - 1]
                 /\ pc' = [pc EXCEPT ![t] = "idle"]
                 /\ UNCHANGED flock
              \/ /\ h.references = 1
                 /\ LastClose(t, l)
    /\ target' = [target EXCEPT ![t] = None]
    /\ UNCHANGED guard

\* The process dies: the operating system closes its descriptors, and its
\* successor starts with an empty table.
Die(p) ==
    /\ held' = [held EXCEPT ![p] = [path \in Paths |-> NoLock]]
    /\ flock' = [path \in Paths |-> {f \in flock[path] : f.process # p}]
    /\ guard' = [guard EXCEPT ![p] = None]
    /\ pc' = [t \in Threads |-> IF ProcessOf[t] = p THEN "idle" ELSE pc[t]]
    /\ target' = [t \in Threads |-> IF ProcessOf[t] = p THEN None ELSE target[t]]
    /\ key' = [l \in Locks |-> IF HomeOf[l] = p THEN None ELSE key[l]]

ThreadStep(t) ==
    \/ \E l \in Locks : Call(t, l)
    \/ Join(t)
    \/ Open(t)
    \/ Granted(t)
    \/ Refused(t)
    \/ Close(t)

Next ==
    \/ \E t \in Threads : ThreadStep(t)
    \/ \E p \in Mortal : Die(p)

Spec == Init /\ [][Next]_vars

-----------------------------------------------------------------------------
(* Properties. *)

Labels == {"idle", "acquire", "waiting", "flock", "close"}

\* Tables and calls in flight have the shape the code gives them.
TypeOK ==
    /\ held \in [Processes -> [Paths -> HeldLock \cup {NoLock}]]
    /\ flock \in [Paths -> SUBSET [process : Processes, exclusive : BOOLEAN]]
    /\ guard \in [Processes -> Threads \cup {None}]
    /\ pc \in [Threads -> Labels]
    /\ target \in [Threads -> Locks \cup {None}]
    /\ key \in [Locks -> Threads \cup {None}]

\* "One OS lock per path and process": the table has an entry for a path
\* exactly when the operating system granted the process a lock in that mode,
\* and it counts the lock objects that share it, whatever fails or dies.
TableMatchesSystem ==
    \A p \in Processes, path \in Paths :
        LET h == held[p][path] IN
        /\ h.references = Cardinality(Holding(p, path))
        /\ {f \in flock[path] : f.process = p} =
              IF h.references = 0 THEN {}
              ELSE {[process |-> p, exclusive |-> h.exclusive]}

\* Whoever holds a path exclusively is the only thread, in any process, that
\* holds it at all.
ExclusiveIsAlone ==
    \A l, m \in Locks :
        /\ key[l] # None /\ key[m] # None
        /\ PathOf[l] = PathOf[m]
        /\ Exclusive[l]
        => key[l] = key[m]

\* A waiting thread is waiting for something: the lock it wants is held by
\* another thread of its process, so a wake-up is still to come.
NoLostWakeup ==
    \A t \in Threads : pc[t] = "waiting" =>
        LET h == held[ProcessOf[t]][PathOf[target[t]]] IN
        h.references > 0 /\ h.exclusive /\ h.owner # t

\* Whom a thread waits for: the thread that has the guard, the threads of
\* other processes that hold the file, the owner of the lock.
WaitsFor(t) ==
    CASE pc[t] \in {"acquire", "close"} -> {guard[ProcessOf[t]]} \ {None}
      [] pc[t] = "flock" ->
            IF ~Blocking[target[t]] \/ Compatible(target[t]) THEN {}
            ELSE {key[l] : l \in {m \in Locks : /\ PathOf[m] = PathOf[target[t]]
                                               /\ key[m] # None}}
      [] pc[t] = "waiting" -> {held[ProcessOf[t]][PathOf[target[t]]].owner}
      [] OTHER -> {}

\* No circle of threads waits on itself, so hosts that open the same files at
\* once all get to open them.  Threads wait for the guard as well as for
\* locks; it holds while callers wait for one file only.
NoCircularWait ==
    \A S \in SUBSET Threads : S # {} =>
        \E t \in S : WaitsFor(t) \cap S = {}
=============================================================================
