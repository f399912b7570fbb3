------------------------ MODULE ProcessFileLockProofs ------------------------
(***************************************************************************)
(* Mutual exclusion of the file locks, and freedom from deadlock, for any  *)
(* processes, threads, files and lock objects.                             *)
(***************************************************************************)
EXTENDS ProcessFileLock, FiniteSetTheorems, TLAPS

\* A call in flight has its lock object to itself, in its own process; it
\* holds the guard exactly while it locks the file, and the table then has no
\* entry for that file.
CallOK(t) ==
    /\ pc[t] = "idle" <=> target[t] = None
    /\ target[t] # None =>
          /\ HomeOf[target[t]] = ProcessOf[t]
          /\ pc[t] = "close" <=> key[target[t]] # None
          /\ \A u \in Threads : target[u] = target[t] => u = t
    /\ pc[t] = "flock" =>
          /\ guard[ProcessOf[t]] = t
          /\ held[ProcessOf[t]][PathOf[target[t]]].references = 0

CallsOK == \A t \in Threads : CallOK(t)

\* A held lock object agrees with the entry it shares: same mode, and an
\* exclusive entry belongs to the thread that acquired the object.
HoldersOK ==
    \A l \in Locks : key[l] # None =>
        LET h == held[HomeOf[l]][PathOf[l]] IN
        /\ h.exclusive = Exclusive[l]
        /\ Exclusive[l] => h.owner = key[l]

\* The operating system never grants an exclusive lock next to another one.
SystemOK ==
    \A path \in Paths : \A f, g \in flock[path] : f.exclusive => f = g

Inv == TypeOK /\ CallsOK /\ HoldersOK /\ SystemOK /\ TableMatchesSystem
           /\ NoLostWakeup

\* The lock objects that hold a file are finitely many.
LEMMA HoldingFinite ==
    ASSUME NEW p, NEW path
    PROVE  /\ IsFiniteSet(Holding(p, path))
           /\ Cardinality(Holding(p, path)) \in Nat
           /\ Cardinality(Holding(p, path)) = 0 <=> Holding(p, path) = {}
  <1>1. IsFiniteSet(Holding(p, path))
    <2>1. IsFiniteSet(Locks)
      BY LocksAssumption
    <2>2. Holding(p, path) \in SUBSET Locks
      BY DEF Holding
    <2>. QED
      BY <2>1, <2>2, FS_Subset
  <1>. QED
    BY <1>1, FS_CardinalityType, FS_EmptySet

\* Whoever holds a file exclusively holds it alone: the entries of two holders
\* are two locks the operating system granted.
LEMMA InvExclusive == Inv => ExclusiveIsAlone
  <1>. SUFFICES ASSUME Inv, NEW l \in Locks, NEW m \in Locks,
                       key[l] # None, key[m] # None,
                       PathOf[l] = PathOf[m], Exclusive[l]
                PROVE  key[l] = key[m]
    BY DEF ExclusiveIsAlone
  <1>. DEFINE path == PathOf[l]
              G(x) == [process |-> HomeOf[x],
                       exclusive |-> held[HomeOf[x]][PathOf[x]].exclusive]
  <1>1. ASSUME NEW x \in Locks, key[x] # None
        PROVE  G(x) \in flock[PathOf[x]]
    <2>1. HomeOf[x] \in Processes /\ PathOf[x] \in Paths
      BY LocksAssumption
    <2>2. x \in Holding(HomeOf[x], PathOf[x])
      BY <1>1 DEF Holding
    <2>3. held[HomeOf[x]][PathOf[x]].references # 0
      BY <2>1, <2>2, HoldingFinite DEF Inv, TableMatchesSystem
    <2>4. {f \in flock[PathOf[x]] : f.process = HomeOf[x]} = {G(x)}
      BY <2>1, <2>3 DEF Inv, TableMatchesSystem
    <2>. QED
      BY <2>4
  <1>2. path \in Paths
    BY LocksAssumption
  <1>3. G(l) \in flock[path] /\ G(m) \in flock[path]
    BY <1>1
  <1>4. held[HomeOf[l]][PathOf[l]].exclusive = TRUE
    BY DEF Inv, HoldersOK
  <1>5. G(l) = G(m)
    BY <1>2, <1>3, <1>4 DEF Inv, SystemOK
  <1>6. HomeOf[l] = HomeOf[m]
    BY <1>5
  <1>7. Exclusive[m] = Exclusive[l]
    BY <1>6 DEF Inv, HoldersOK
  <1>. QED
    BY <1>6, <1>7 DEF Inv, HoldersOK

LEMMA InitInv == Init => Inv
  <1>. SUFFICES ASSUME Init PROVE Inv
    OBVIOUS
  <1>1. \A p \in Processes, path \in Paths :
            /\ Holding(p, path) = {}
            /\ held[p][path] = NoLock
            /\ flock[path] = {}
    BY DEF Init, Holding
  <1>2. TableMatchesSystem
    BY <1>1, FS_EmptySet, SMTT(30) DEF TableMatchesSystem, NoLock
  <1>3. TypeOK
    BY LocksAssumption DEF Init, TypeOK, Labels
  <1>4. CallsOK /\ HoldersOK /\ SystemOK /\ NoLostWakeup
    BY DEF Init, CallsOK, CallOK, HoldersOK, SystemOK, NoLostWakeup
  <1>. QED
    BY <1>2, <1>3, <1>4 DEF Inv

\* Steps that leave the tables alone keep what is said about them.
LEMMA SameTables ==
    ASSUME Inv, UNCHANGED <<held, flock, key>>
    PROVE  HoldersOK' /\ SystemOK' /\ TableMatchesSystem'
  <1>1. \A p, path : Holding(p, path)' = Holding(p, path)
    BY DEF Holding
  <1>. QED
    BY <1>1 DEF Inv, HoldersOK, SystemOK, TableMatchesSystem

\* A thread that leaves its call, or starts one, with the tables unchanged.
LEMMA CallInv ==
    ASSUME Inv, NEW t \in Threads, NEW l \in Locks, Call(t, l)
    PROVE  Inv'
  <1>. USE DEF Inv
  <1>1. TypeOK'
    BY DEF TypeOK, Call, Labels
  <1>2. CallsOK'
    <2>. SUFFICES ASSUME NEW u \in Threads
                  PROVE  CallOK(u)'
      BY DEF CallsOK
    <2>1. l # None /\ key' = key /\ held' = held /\ guard' = guard
      BY LocksAssumption DEF Call
    <2>2. CASE u = t
      BY <2>1, <2>2 DEF TypeOK, CallOK, Call, Unused
    <2>3. CASE u # t
      BY <2>1, <2>3 DEF TypeOK, CallsOK, CallOK, Call, Unused
    <2>. QED
      BY <2>2, <2>3
  <1>3. NoLostWakeup'
    BY DEF TypeOK, NoLostWakeup, Call
  <1>4. HoldersOK' /\ SystemOK' /\ TableMatchesSystem'
    BY SameTables DEF Call
  <1>. QED
    BY <1>1, <1>2, <1>3, <1>4

LEMMA OpenInv ==
    ASSUME Inv, NEW t \in Threads, Open(t)
    PROVE  Inv'
  <1>. USE DEF Inv
  <1>1. TypeOK'
    <2>1. pc' \in [Threads -> Labels] /\ target' \in [Threads -> Locks \cup {None}]
      BY DEF TypeOK, Open, Return, Goto, Labels
    <2>2. guard' \in [Processes -> Threads \cup {None}]
      BY LocksAssumption DEF TypeOK, Open
    <2>. QED
      BY <2>1, <2>2 DEF TypeOK, Open
  <1>2. CallsOK'
    <2>1. CASE Return(t) /\ UNCHANGED guard
      BY <2>1, LocksAssumption DEF TypeOK, CallsOK, CallOK, Open, Return
    <2>2. CASE guard' = [guard EXCEPT ![ProcessOf[t]] = t] /\ Goto(t, "flock")
      BY <2>2, LocksAssumption DEF TypeOK, CallsOK, CallOK, Open, Goto
    <2>. QED
      BY <2>1, <2>2 DEF Open
  <1>3. NoLostWakeup'
    BY DEF TypeOK, NoLostWakeup, Open, Return, Goto
  <1>4. HoldersOK' /\ SystemOK' /\ TableMatchesSystem'
    BY SameTables DEF Open
  <1>. QED
    BY <1>1, <1>2, <1>3, <1>4

LEMMA RefusedInv ==
    ASSUME Inv, NEW t \in Threads, Refused(t)
    PROVE  Inv'
  <1>. USE DEF Inv
  <1>1. TypeOK'
    BY LocksAssumption DEF TypeOK, Refused, Return, Labels
  <1>2. CallsOK'
    BY LocksAssumption DEF TypeOK, CallsOK, CallOK, Refused, Return
  <1>3. NoLostWakeup'
    BY DEF TypeOK, NoLostWakeup, Refused, Return
  <1>4. HoldersOK' /\ SystemOK' /\ TableMatchesSystem'
    BY SameTables DEF Refused
  <1>. QED
    BY <1>1, <1>2, <1>3, <1>4

-----------------------------------------------------------------------------
(* Steps that change the tables. *)

\* What TableMatchesSystem says of one process and one file.
EntryOK(p, path) ==
    LET h == held[p][path] IN
    /\ h.references = Cardinality(Holding(p, path))
    /\ {f \in flock[path] : f.process = p} =
          IF h.references = 0 THEN {}
          ELSE {[process |-> p, exclusive |-> h.exclusive]}

\* An acquired object joins the holders of its file, and no others.
LEMMA HoldingAdd ==
    ASSUME TypeOK, NEW l \in Locks, NEW t \in Threads,
           key[l] = None, key' = [key EXCEPT ![l] = t]
    PROVE  /\ Cardinality(Holding(HomeOf[l], PathOf[l])') =
                 Cardinality(Holding(HomeOf[l], PathOf[l])) + 1
           /\ \A p, path : p # HomeOf[l] \/ path # PathOf[l]
                 => Holding(p, path)' = Holding(p, path)
  <1>. DEFINE H == Holding(HomeOf[l], PathOf[l])
  <1>1. t # None
    BY LocksAssumption
  <1>2. H' = H \cup {l} /\ l \notin H
    BY <1>1 DEF TypeOK, Holding
  <1>3. \A p, path : p # HomeOf[l] \/ path # PathOf[l]
                 => Holding(p, path)' = Holding(p, path)
    BY DEF TypeOK, Holding
  <1>4. Cardinality(H \cup {l}) = Cardinality(H) + 1
    <2>. HIDE DEF H
    <2>1. IsFiniteSet(H)
      BY HoldingFinite DEF H
    <2>. QED
      BY <1>2, <2>1, FS_AddElement
  <1>. QED
    BY <1>2, <1>3, <1>4

\* A closed object leaves the holders of its file, and no others.
LEMMA HoldingRemove ==
    ASSUME TypeOK, NEW l \in Locks,
           key[l] # None, key' = [key EXCEPT ![l] = None]
    PROVE  /\ Cardinality(Holding(HomeOf[l], PathOf[l])') =
                 Cardinality(Holding(HomeOf[l], PathOf[l])) - 1
           /\ \A p, path : p # HomeOf[l] \/ path # PathOf[l]
                 => Holding(p, path)' = Holding(p, path)
  <1>. DEFINE H == Holding(HomeOf[l], PathOf[l])
  <1>1. H' = H \ {l} /\ l \in H
    BY DEF TypeOK, Holding
  <1>2. \A p, path : p # HomeOf[l] \/ path # PathOf[l]
                 => Holding(p, path)' = Holding(p, path)
    BY DEF TypeOK, Holding
  <1>3. Cardinality(H \ {l}) = Cardinality(H) - 1
    <2>. HIDE DEF H
    <2>1. IsFiniteSet(H)
      BY HoldingFinite DEF H
    <2>. QED
      BY <1>1, <2>1, FS_RemoveElement
  <1>. QED
    BY <1>1, <1>2, <1>3

\* What a thread in the middle of a call may rely on.
LEMMA InCall ==
    ASSUME Inv, NEW t \in Threads, pc[t] # "idle"
    PROVE  /\ t # None
           /\ target[t] \in Locks
           /\ HomeOf[target[t]] = ProcessOf[t]
           /\ ProcessOf[t] \in Processes
           /\ PathOf[target[t]] \in Paths
           /\ pc[t] = "close" <=> key[target[t]] # None
           /\ \A u \in Threads : u # t => target[u] # target[t]
           /\ held[ProcessOf[t]][PathOf[target[t]]] \in HeldLock \cup {NoLock}
  <1>1. target[t] \in Locks /\ CallOK(t)
    BY DEF Inv, TypeOK, CallsOK, CallOK
  <1>2. ProcessOf[t] \in Processes /\ PathOf[target[t]] \in Paths /\ t # None
        /\ target[t] # None
    BY <1>1, LocksAssumption
  <1>3. held[ProcessOf[t]][PathOf[target[t]]] \in HeldLock \cup {NoLock}
    BY <1>2 DEF Inv, TypeOK
  <1>. QED
    BY <1>1, <1>2, <1>3 DEF CallOK

\* The thread that returns has no lock object, and the others keep theirs.
LEMMA Returned ==
    ASSUME Inv, NEW t \in Threads, pc[t] # "idle", Return(t), UNCHANGED held,
           UNCHANGED guard, UNCHANGED key
    PROVE  CallsOK' /\ NoLostWakeup'
  <1>1. CallsOK'
    BY LocksAssumption DEF Inv, TypeOK, CallsOK, CallOK, Return
  <1>2. NoLostWakeup'
    BY DEF Inv, TypeOK, NoLostWakeup, Return
  <1>. QED
    BY <1>1, <1>2

LEMMA JoinInv ==
    ASSUME Inv, NEW t \in Threads, Join(t)
    PROVE  Inv'
  <1>. DEFINE l == target[t]
              p == ProcessOf[t]
              path == PathOf[l]
              h == held[p][path]
  <1>0. pc[t] = "acquire" /\ guard[p] = None /\ h.references > 0
        /\ flock' = flock
    BY DEF Join
  <1>1. /\ t # None /\ l \in Locks /\ HomeOf[l] = p /\ p \in Processes
        /\ path \in Paths /\ key[l] = None
        /\ \A u \in Threads : u # t => target[u] # l
        /\ h \in HeldLock \cup {NoLock}
    BY <1>0, InCall
  <1>2. CASE Return(t) /\ UNCHANGED <<held, key, guard>>
    <2>1. TypeOK'
      BY <1>0, <1>2 DEF Inv, TypeOK, Return, Labels
    <2>2. CallsOK' /\ NoLostWakeup'
      BY <1>0, <1>2, Returned
    <2>3. HoldersOK' /\ SystemOK' /\ TableMatchesSystem'
      BY <1>0, <1>2, SameTables
    <2>. QED
      BY <2>1, <2>2, <2>3 DEF Inv
  <1>3. CASE ~MayJoin(h, t) /\ Wait(t) /\ UNCHANGED <<held, key>>
    <2>1. h.exclusive /\ h.owner # t
      BY <1>0, <1>3 DEF MayJoin
    <2>2. TypeOK'
      BY <1>0, <1>3 DEF Inv, TypeOK, Wait, Goto, Labels
    <2>3. CallsOK'
      BY <1>0, <1>1, <1>3 DEF Inv, TypeOK, CallsOK, CallOK, Wait, Goto
    <2>4. NoLostWakeup'
      BY <1>0, <1>3, <2>1 DEF Inv, TypeOK, NoLostWakeup, Wait, Goto
    <2>5. HoldersOK' /\ SystemOK' /\ TableMatchesSystem'
      BY <1>0, <1>3, SameTables
    <2>. QED
      BY <2>2, <2>3, <2>4, <2>5 DEF Inv
  <1>4. CASE /\ h.exclusive = Exclusive[l] /\ MayJoin(h, t)
             /\ held' = [held EXCEPT ![p][path].references = @ + 1]
             /\ key' = [key EXCEPT ![l] = t]
             /\ Return(t)
             /\ UNCHANGED guard
    <2>1. /\ held'[p][path] = [h EXCEPT !.references = @ + 1]
          /\ \A q \in Processes, r \in Paths :
                q # p \/ r # path => held'[q][r] = held[q][r]
      BY <1>1, <1>4 DEF Inv, TypeOK
    <2>2. h \in HeldLock /\ [h EXCEPT !.references = @ + 1] \in HeldLock
      BY <1>0, <1>1 DEF HeldLock, NoLock
    <2>3. TypeOK'
      <3>1. held' \in [Processes -> [Paths -> HeldLock \cup {NoLock}]]
        BY <1>1, <1>4, <2>2 DEF Inv, TypeOK
      <3>2. key' \in [Locks -> Threads \cup {None}]
        BY <1>1, <1>4 DEF Inv, TypeOK
      <3>. QED
        BY <1>0, <1>4, <3>1, <3>2 DEF Inv, TypeOK, Return, Labels
    <2>4. CallsOK'
      <3>. SUFFICES ASSUME NEW u \in Threads
                    PROVE  CallOK(u)'
        BY DEF CallsOK
      <3>1. CASE u = t
        BY <1>0, <1>4, <3>1 DEF Inv, TypeOK, CallOK, Return
      <3>2. CASE u # t
        <4>1. pc'[u] = pc[u] /\ target'[u] = target[u] /\ guard' = guard
          BY <1>4, <3>2 DEF Inv, TypeOK, Return
        <4>2. target[u] # None => key'[target[u]] = key[target[u]]
          BY <1>1, <1>4, <3>2 DEF Inv, TypeOK
        <4>3. \A v \in Threads : target'[v] = target[u] => target[u] = None \/ target[v] = target[u]
          BY <1>4 DEF Inv, TypeOK, Return
        <4>4. ASSUME pc[u] = "flock"
              PROVE  held'[ProcessOf[u]][PathOf[target[u]]].references = 0
          <5>1. held[ProcessOf[u]][PathOf[target[u]]].references = 0
            BY <4>4 DEF Inv, CallsOK, CallOK
          <5>2. ProcessOf[u] \in Processes /\ PathOf[target[u]] \in Paths
            BY <4>4, InCall
          <5>3. ProcessOf[u] # p \/ PathOf[target[u]] # path
            BY <5>1, <1>0
          <5>. QED
            BY <5>1, <5>2, <5>3, <2>1
        <4>. QED
          BY <4>1, <4>2, <4>3, <4>4 DEF Inv, CallsOK, CallOK
      <3>. QED
        BY <3>1, <3>2
    <2>5. HoldersOK'
      <3>. SUFFICES ASSUME NEW m \in Locks, key'[m] # None
                    PROVE  LET g == held'[HomeOf[m]][PathOf[m]] IN
                           /\ g.exclusive = Exclusive[m]
                           /\ Exclusive[m] => g.owner = key'[m]
        BY DEF HoldersOK
      <3>1. HomeOf[m] \in Processes /\ PathOf[m] \in Paths
        BY LocksAssumption
      <3>2. /\ held'[HomeOf[m]][PathOf[m]].exclusive =
                  held[HomeOf[m]][PathOf[m]].exclusive
            /\ held'[HomeOf[m]][PathOf[m]].owner =
                  held[HomeOf[m]][PathOf[m]].owner
        BY <2>1, <2>2, <3>1 DEF HeldLock
      <3>3. CASE m = l
        BY <1>0, <1>1, <1>4, <3>2, <3>3, SMTT(30) DEF Inv, TypeOK, MayJoin
      <3>4. CASE m # l
        BY <1>1, <1>4, <3>2, <3>4 DEF Inv, TypeOK, HoldersOK
      <3>. QED
        BY <3>3, <3>4
    <2>6. SystemOK'
      BY <1>0 DEF Inv, SystemOK
    <2>7. TableMatchesSystem'
      <3>. SUFFICES ASSUME NEW q \in Processes, NEW r \in Paths
                    PROVE  EntryOK(q, r)'
        BY DEF TableMatchesSystem, EntryOK
      <3>1. EntryOK(q, r)
        BY DEF Inv, TableMatchesSystem, EntryOK
      <3>2. CASE q = p /\ r = path
        <4>1. Cardinality(Holding(q, r)') = Cardinality(Holding(q, r)) + 1
          <5>1. q = HomeOf[l] /\ r = PathOf[l]
            BY <1>1, <3>2
          <5>. QED
            BY <1>1, <1>4, <5>1, HoldingAdd DEF Inv
        <4>2. held'[p][path].references = h.references + 1
              /\ held'[p][path].exclusive = h.exclusive
              /\ h.references \in Nat
          BY <2>1, <2>2 DEF HeldLock
        <4>3. held'[q][r].references # 0 /\ held[q][r].references # 0
              /\ held'[q][r].exclusive = held[q][r].exclusive
              /\ held'[q][r].references = held[q][r].references + 1
          BY <1>0, <3>2, <4>2
        <4>4. flock' = flock
          BY <1>0
        <4>. QED
          BY <3>1, <4>1, <4>3, <4>4, SMTT(30) DEF EntryOK
      <3>3. CASE q # p \/ r # path
        <4>1. Holding(q, r)' = Holding(q, r)
          BY <1>1, <1>4, <3>3, HoldingAdd DEF Inv
        <4>. QED
          BY <1>0, <2>1, <3>1, <3>3, <4>1 DEF EntryOK
      <3>. QED
        BY <3>2, <3>3
    <2>8. NoLostWakeup'
      <3>. SUFFICES ASSUME NEW u \in Threads, pc'[u] = "waiting"
                    PROVE  LET g == held'[ProcessOf[u]][PathOf[target'[u]]] IN
                           g.references > 0 /\ g.exclusive /\ g.owner # u
        BY DEF NoLostWakeup
      <3>1. u # t /\ pc[u] = "waiting" /\ target'[u] = target[u]
        BY <1>4 DEF Inv, TypeOK, Return
      <3>2. ProcessOf[u] \in Processes /\ PathOf[target[u]] \in Paths
        BY <3>1, InCall
      <3>3. LET g == held[ProcessOf[u]][PathOf[target[u]]] IN
            g.references > 0 /\ g.exclusive /\ g.owner # u
        BY <3>1 DEF Inv, NoLostWakeup
      <3>. QED
        BY <2>1, <2>2, <3>1, <3>2, <3>3 DEF HeldLock
    <2>. QED
      BY <2>3, <2>4, <2>5, <2>6, <2>7, <2>8, SMTT(30) DEF Inv
  <1>. QED
    BY <1>2, <1>3, <1>4, SMTT(30) DEF Join

LEMMA GrantedInv ==
    ASSUME Inv, NEW t \in Threads, Granted(t)
    PROVE  Inv'
  <1>. DEFINE l == target[t]
              p == ProcessOf[t]
              path == PathOf[l]
              g == [process |-> p, exclusive |-> Exclusive[l]]
              e == [exclusive |-> Exclusive[l], references |-> 1,
                    owner |-> IF Exclusive[l] THEN t ELSE None]
  <1>0. /\ pc[t] = "flock" /\ Compatible(l)
        /\ flock' = [flock EXCEPT ![path] = @ \cup {g}]
        /\ held' = [held EXCEPT ![p][path] = e]
        /\ key' = [key EXCEPT ![l] = t]
        /\ guard' = [guard EXCEPT ![p] = None]
        /\ Return(t)
    BY DEF Granted
  <1>1. /\ t # None /\ l \in Locks /\ HomeOf[l] = p /\ p \in Processes
        /\ path \in Paths /\ key[l] = None
        /\ \A u \in Threads : u # t => target[u] # l
    BY <1>0, InCall
  <1>2. guard[p] = t /\ held[p][path].references = 0
    BY <1>0 DEF Inv, CallsOK, CallOK
  <1>3. /\ held'[p][path] = e
        /\ \A q \in Processes, r \in Paths :
              q # p \/ r # path => held'[q][r] = held[q][r]
        /\ flock'[path] = flock[path] \cup {g}
        /\ \A r \in Paths : r # path => flock'[r] = flock[r]
    BY <1>0, <1>1 DEF Inv, TypeOK
  <1>4. e \in HeldLock /\ g \in [process : Processes, exclusive : BOOLEAN]
    BY <1>1, LocksAssumption DEF HeldLock
  <1>5. Holding(p, path) = {} /\ {f \in flock[path] : f.process = p} = {}
    BY <1>1, <1>2, HoldingFinite DEF Inv, TableMatchesSystem
  <1>6. TypeOK'
    <2>1. held' \in [Processes -> [Paths -> HeldLock \cup {NoLock}]]
      BY <1>0, <1>1, <1>4 DEF Inv, TypeOK
    <2>2. flock' \in [Paths -> SUBSET [process : Processes, exclusive : BOOLEAN]]
      BY <1>0, <1>1, <1>4 DEF Inv, TypeOK
    <2>3. key' \in [Locks -> Threads \cup {None}]
          /\ guard' \in [Processes -> Threads \cup {None}]
      BY <1>0, <1>1 DEF Inv, TypeOK
    <2>. QED
      BY <1>0, <2>1, <2>2, <2>3 DEF Inv, TypeOK, Return, Labels
  <1>7. CallsOK'
    <2>. SUFFICES ASSUME NEW u \in Threads
                  PROVE  CallOK(u)'
      BY DEF CallsOK
    <2>1. CASE u = t
      BY <1>0, <2>1 DEF Inv, TypeOK, CallOK, Return
    <2>2. CASE u # t
      <3>1. pc'[u] = pc[u] /\ target'[u] = target[u]
        BY <1>0, <2>2 DEF Inv, TypeOK, Return
      <3>2. target[u] # None => key'[target[u]] = key[target[u]]
        BY <1>0, <1>1, <2>2 DEF Inv, TypeOK
      <3>3. \A v \in Threads : target'[v] = target[u]
                => target[u] = None \/ target[v] = target[u]
        BY <1>0 DEF Inv, TypeOK, Return
      <3>4. ASSUME pc[u] = "flock"
            PROVE  /\ guard'[ProcessOf[u]] = u
                   /\ held'[ProcessOf[u]][PathOf[target[u]]].references = 0
        <4>1. guard[ProcessOf[u]] = u
              /\ held[ProcessOf[u]][PathOf[target[u]]].references = 0
          BY <3>4 DEF Inv, CallsOK, CallOK
        <4>2. ProcessOf[u] \in Processes /\ PathOf[target[u]] \in Paths
          BY <3>4, InCall
        <4>3. ProcessOf[u] # p
          BY <1>2, <2>2, <4>1
        <4>. QED
          BY <1>0, <1>3, <4>1, <4>2, <4>3 DEF Inv, TypeOK
      <3>. QED
        BY <3>1, <3>2, <3>3, <3>4 DEF Inv, CallsOK, CallOK
    <2>. QED
      BY <2>1, <2>2
  <1>8. HoldersOK'
    <2>. SUFFICES ASSUME NEW m \in Locks, key'[m] # None
                  PROVE  LET h == held'[HomeOf[m]][PathOf[m]] IN
                         /\ h.exclusive = Exclusive[m]
                         /\ Exclusive[m] => h.owner = key'[m]
      BY DEF HoldersOK
    <2>1. CASE m = l
      BY <1>0, <1>1, <1>3, <2>1 DEF Inv, TypeOK
    <2>2. CASE m # l
      <3>1. key'[m] = key[m]
        BY <1>0, <2>2 DEF Inv, TypeOK
      <3>2. HomeOf[m] # p \/ PathOf[m] # path
        BY <1>5, <3>1 DEF Holding
      <3>3. HomeOf[m] \in Processes /\ PathOf[m] \in Paths
        BY LocksAssumption
      <3>4. held'[HomeOf[m]][PathOf[m]] = held[HomeOf[m]][PathOf[m]]
        BY <1>3, <3>2, <3>3
      <3>. QED
        BY <3>1, <3>4 DEF Inv, HoldersOK
    <2>. QED
      BY <2>1, <2>2
  <1>9. SystemOK'
    <2>. SUFFICES ASSUME NEW r \in Paths, NEW f1 \in flock'[r], NEW f2 \in flock'[r],
                         f1.exclusive
                  PROVE  f1 = f2
      BY DEF SystemOK
    <2>1. CASE r # path
      BY <1>3, <2>1 DEF Inv, SystemOK
    <2>2. CASE r = path
      <3>1. \A f \in flock[path] : ~Exclusive[l] /\ ~f.exclusive
        BY <1>0 DEF Compatible
      <3>. QED
        BY <1>3, <2>2, <3>1
    <2>. QED
      BY <2>1, <2>2
  <1>10. TableMatchesSystem'
    <2>. SUFFICES ASSUME NEW q \in Processes, NEW r \in Paths
                  PROVE  EntryOK(q, r)'
      BY DEF TableMatchesSystem, EntryOK
    <2>1. EntryOK(q, r)
      BY DEF Inv, TableMatchesSystem, EntryOK
    <2>2. CASE q = p /\ r = path
      <3>1. Cardinality(Holding(q, r)') = Cardinality(Holding(q, r)) + 1
        <4>1. q = HomeOf[l] /\ r = PathOf[l]
          BY <1>1, <2>2
        <4>. QED
          BY <1>0, <1>1, <4>1, HoldingAdd DEF Inv
      <3>2. Cardinality(Holding(q, r)) = 0
        BY <1>2, <2>1, <2>2 DEF EntryOK
      <3>3. {f \in flock'[r] : f.process = q} = {g}
        BY <1>3, <1>5, <2>2
      <3>. QED
        BY <1>3, <2>2, <3>1, <3>2, <3>3 DEF EntryOK
    <2>3. CASE q # p \/ r # path
      <3>1. Holding(q, r)' = Holding(q, r)
        BY <1>0, <1>1, <2>3, HoldingAdd DEF Inv
      <3>2. {f \in flock'[r] : f.process = q} = {f \in flock[r] : f.process = q}
        BY <1>3, <2>3
      <3>. QED
        BY <1>3, <2>1, <2>3, <3>1, <3>2 DEF EntryOK
    <2>. QED
      BY <2>2, <2>3
  <1>11. NoLostWakeup'
    <2>. SUFFICES ASSUME NEW u \in Threads, pc'[u] = "waiting"
                  PROVE  LET h == held'[ProcessOf[u]][PathOf[target'[u]]] IN
                         h.references > 0 /\ h.exclusive /\ h.owner # u
      BY DEF NoLostWakeup
    <2>1. u # t /\ pc[u] = "waiting" /\ target'[u] = target[u]
      BY <1>0 DEF Inv, TypeOK, Return
    <2>2. ProcessOf[u] \in Processes /\ PathOf[target[u]] \in Paths
      BY <2>1, InCall
    <2>3. LET h == held[ProcessOf[u]][PathOf[target[u]]] IN
          h.references > 0 /\ h.exclusive /\ h.owner # u
      BY <2>1 DEF Inv, NoLostWakeup
    <2>4. ProcessOf[u] # p \/ PathOf[target[u]] # path
      BY <1>2, <2>3
    <2>. QED
      BY <1>3, <2>1, <2>2, <2>3, <2>4
  <1>. QED
    BY <1>6, <1>7, <1>8, <1>9, <1>10, <1>11 DEF Inv

LEMMA CloseInv ==
    ASSUME Inv, NEW t \in Threads, Close(t)
    PROVE  Inv'
  <1>. DEFINE l == target[t]
              p == ProcessOf[t]
              path == PathOf[l]
              h == held[p][path]
  <1>0. /\ pc[t] = "close" /\ guard[p] = None /\ guard' = guard
        /\ key' = [key EXCEPT ![l] = None]
        /\ target' = [target EXCEPT ![t] = None]
    BY DEF Close
  <1>1. /\ t # None /\ l \in Locks /\ HomeOf[l] = p /\ p \in Processes
        /\ path \in Paths /\ key[l] # None
        /\ \A u \in Threads : u # t => target[u] # l
        /\ h \in HeldLock \cup {NoLock}
    BY <1>0, InCall
  <1>2. /\ key' \in [Locks -> Threads \cup {None}]
        /\ target' \in [Threads -> Locks \cup {None}]
        /\ guard' \in [Processes -> Threads \cup {None}]
    BY <1>0 DEF Inv, TypeOK
  <1>3. \A m \in Locks : key'[m] # None => m # l /\ key'[m] = key[m]
    BY <1>0, <1>1 DEF Inv, TypeOK
  <1>4. \A q \in Processes, r \in Paths : q # p \/ r # path
            => Holding(q, r)' = Holding(q, r)
    BY <1>0, <1>1, HoldingRemove DEF Inv
  <1>5. ASSUME NEW q \in Processes, NEW r \in Paths, q = p, r = path
        PROVE  Cardinality(Holding(q, r)') = Cardinality(Holding(q, r)) - 1
    <2>1. q = HomeOf[l] /\ r = PathOf[l]
      BY <1>1, <1>5
    <2>. QED
      BY <1>0, <1>1, <2>1, HoldingRemove DEF Inv
  <1>6. ASSUME NEW u \in Threads, u # t
        PROVE  /\ target'[u] = target[u]
               /\ target[u] # None => key'[target[u]] = key[target[u]]
               /\ \A v \in Threads : target'[v] = target[u]
                     => target[u] = None \/ target[v] = target[u]
    BY <1>0, <1>1, <1>6 DEF Inv, TypeOK
  <1>7. CASE /\ h.references > 1
             /\ held' = [held EXCEPT ![p][path].references = @ - 1]
             /\ pc' = [pc EXCEPT ![t] = "idle"]
             /\ UNCHANGED flock
    <2>1. /\ held'[p][path] = [h EXCEPT !.references = @ - 1]
          /\ \A q \in Processes, r \in Paths :
                q # p \/ r # path => held'[q][r] = held[q][r]
      BY <1>1, <1>7 DEF Inv, TypeOK
    <2>2. h \in HeldLock /\ [h EXCEPT !.references = @ - 1] \in HeldLock
      BY <1>1, <1>7, SMTT(30) DEF HeldLock, NoLock
    <2>3. TypeOK'
      <3>1. held' \in [Processes -> [Paths -> HeldLock \cup {NoLock}]]
        BY <1>1, <1>7, <2>2 DEF Inv, TypeOK
      <3>. QED
        BY <1>2, <1>7, <3>1 DEF Inv, TypeOK, Labels
    <2>4. CallsOK'
      <3>. SUFFICES ASSUME NEW u \in Threads
                    PROVE  CallOK(u)'
        BY DEF CallsOK
      <3>1. CASE u = t
        BY <1>0, <1>7, <3>1 DEF Inv, TypeOK, CallOK
      <3>2. CASE u # t
        <4>1. pc'[u] = pc[u]
          BY <1>7, <3>2 DEF Inv, TypeOK
        <4>2. ASSUME pc[u] = "flock"
              PROVE  held'[ProcessOf[u]][PathOf[target[u]]].references = 0
          <5>1. held[ProcessOf[u]][PathOf[target[u]]].references = 0
            BY <4>2 DEF Inv, CallsOK, CallOK
          <5>2. ProcessOf[u] \in Processes /\ PathOf[target[u]] \in Paths
            BY <4>2, InCall
          <5>3. ProcessOf[u] # p \/ PathOf[target[u]] # path
            BY <5>1, <1>7
          <5>. QED
            BY <5>1, <5>2, <5>3, <2>1
        <4>. QED
          BY <1>0, <1>6, <3>2, <4>1, <4>2 DEF Inv, CallsOK, CallOK
      <3>. QED
        BY <3>1, <3>2
    <2>5. HoldersOK'
      <3>. SUFFICES ASSUME NEW m \in Locks, key'[m] # None
                    PROVE  LET g == held'[HomeOf[m]][PathOf[m]] IN
                           /\ g.exclusive = Exclusive[m]
                           /\ Exclusive[m] => g.owner = key'[m]
        BY DEF HoldersOK
      <3>1. HomeOf[m] \in Processes /\ PathOf[m] \in Paths
        BY LocksAssumption
      <3>2. /\ held'[HomeOf[m]][PathOf[m]].exclusive =
                  held[HomeOf[m]][PathOf[m]].exclusive
            /\ held'[HomeOf[m]][PathOf[m]].owner =
                  held[HomeOf[m]][PathOf[m]].owner
        BY <2>1, <2>2, <3>1 DEF HeldLock
      <3>. QED
        BY <1>3, <3>2 DEF Inv, HoldersOK
    <2>6. SystemOK'
      BY <1>7 DEF Inv, SystemOK
    <2>7. TableMatchesSystem'
      <3>. SUFFICES ASSUME NEW q \in Processes, NEW r \in Paths
                    PROVE  EntryOK(q, r)'
        BY DEF TableMatchesSystem, EntryOK
      <3>1. EntryOK(q, r)
        BY DEF Inv, TableMatchesSystem, EntryOK
      <3>2. CASE q = p /\ r = path
        <4>1. /\ held'[p][path].references = h.references - 1
              /\ held'[p][path].exclusive = h.exclusive
              /\ h.references \in Nat
          BY <2>1, <2>2 DEF HeldLock
        <4>2. Cardinality(Holding(q, r)') = Cardinality(Holding(q, r)) - 1
          BY <1>5, <3>2, SMTT(30)
        <4>3. held'[q][r].references # 0 /\ held[q][r].references # 0
              /\ held'[q][r].exclusive = held[q][r].exclusive
              /\ held'[q][r].references = held[q][r].references - 1
          BY <1>7, <3>2, <4>1, SMTT(30)
        <4>4. flock' = flock
          BY <1>7, SMTT(30)
        <4>. QED
          BY <3>1, <4>2, <4>3, <4>4 DEF EntryOK
      <3>3. CASE q # p \/ r # path
        BY <1>4, <1>7, <2>1, <3>1, <3>3 DEF EntryOK
      <3>. QED
        BY <3>2, <3>3
    <2>8. NoLostWakeup'
      <3>. SUFFICES ASSUME NEW u \in Threads, pc'[u] = "waiting"
                    PROVE  LET g == held'[ProcessOf[u]][PathOf[target'[u]]] IN
                           g.references > 0 /\ g.exclusive /\ g.owner # u
        BY DEF NoLostWakeup
      <3>1. u # t /\ pc[u] = "waiting"
        BY <1>7 DEF Inv, TypeOK
      <3>2. ProcessOf[u] \in Processes /\ PathOf[target[u]] \in Paths
            /\ target'[u] = target[u]
        BY <1>6, <3>1, InCall
      <3>3. LET g == held[ProcessOf[u]][PathOf[target[u]]] IN
            g.references > 0 /\ g.exclusive /\ g.owner # u
        BY <3>1 DEF Inv, NoLostWakeup
      <3>4. CASE ProcessOf[u] = p /\ PathOf[target[u]] = path
        <4>1. h.references \in Nat /\ h.references > 1
          BY <1>7, <2>2 DEF HeldLock
        <4>2. /\ held'[p][path].references = h.references - 1
              /\ held'[p][path].exclusive = h.exclusive
              /\ held'[p][path].owner = h.owner
          BY <2>1, <2>2 DEF HeldLock
        <4>3. held'[p][path].references > 0
          BY <4>1, <4>2
        <4>4. h.exclusive /\ h.owner # u
          BY <3>3, <3>4
        <4>5. held'[ProcessOf[u]][PathOf[target'[u]]] = held'[p][path]
          BY <3>2, <3>4
        <4>. QED
          BY <4>2, <4>3, <4>4, <4>5
      <3>5. CASE ProcessOf[u] # p \/ PathOf[target[u]] # path
        BY <2>1, <3>2, <3>3, <3>5
      <3>. QED
        BY <3>4, <3>5
    <2>. QED
      BY <2>3, <2>4, <2>5, <2>6, <2>7, <2>8 DEF Inv
  <1>8. CASE h.references = 1 /\ LastClose(t, l)
    <2>0. /\ flock' = [flock EXCEPT ![path] = {f \in @ : f.process # p}]
          /\ held' = [held EXCEPT ![p][path] = NoLock]
          /\ pc' = Awake(p, t)
      BY <1>8 DEF LastClose
    <2>1. /\ held'[p][path] = NoLock
          /\ \A q \in Processes, r \in Paths :
                q # p \/ r # path => held'[q][r] = held[q][r]
          /\ flock'[path] = {f \in flock[path] : f.process # p}
          /\ \A r \in Paths : r # path => flock'[r] = flock[r]
      BY <1>1, <2>0 DEF Inv, TypeOK
    <2>2. /\ \A r \in Paths : flock'[r] \subseteq flock[r]
          /\ pc'[t] = "idle"
          /\ \A u \in Threads : u # t =>
                pc'[u] = IF ProcessOf[u] = p /\ pc[u] = "waiting"
                         THEN "acquire" ELSE pc[u]
      BY <2>0, <2>1 DEF Awake
    <2>3. TypeOK'
      <3>1. held' \in [Processes -> [Paths -> HeldLock \cup {NoLock}]]
        BY <1>1, <2>0 DEF Inv, TypeOK
      <3>2. flock' \in [Paths -> SUBSET [process : Processes, exclusive : BOOLEAN]]
        BY <1>1, <2>0, <2>2 DEF Inv, TypeOK
      <3>3. pc' \in [Threads -> Labels]
        BY <2>0 DEF Inv, TypeOK, Labels, Awake
      <3>. QED
        BY <1>2, <3>1, <3>2, <3>3 DEF TypeOK
    <2>4. CallsOK'
      <3>. SUFFICES ASSUME NEW u \in Threads
                    PROVE  CallOK(u)'
        BY DEF CallsOK
      <3>1. CASE u = t
        BY <1>0, <2>2, <3>1 DEF Inv, TypeOK, CallOK
      <3>2. CASE u # t
        <4>1. /\ pc'[u] = "idle" <=> pc[u] = "idle"
              /\ pc'[u] = "close" <=> pc[u] = "close"
              /\ pc'[u] = "flock" <=> pc[u] = "flock"
          BY <2>2, <3>2
        <4>2. ASSUME pc[u] = "flock"
              PROVE  held'[ProcessOf[u]][PathOf[target[u]]].references = 0
          <5>1. held[ProcessOf[u]][PathOf[target[u]]].references = 0
            BY <4>2 DEF Inv, CallsOK, CallOK
          <5>2. ProcessOf[u] \in Processes /\ PathOf[target[u]] \in Paths
            BY <4>2, InCall
          <5>3. ProcessOf[u] # p \/ PathOf[target[u]] # path
            BY <5>1, <1>8
          <5>. QED
            BY <5>1, <5>2, <5>3, <2>1
        <4>. QED
          BY <1>0, <1>6, <3>2, <4>1, <4>2 DEF Inv, CallsOK, CallOK
      <3>. QED
        BY <3>1, <3>2
    <2>5. TableMatchesSystem'
      <3>. SUFFICES ASSUME NEW q \in Processes, NEW r \in Paths
                    PROVE  EntryOK(q, r)'
        BY DEF TableMatchesSystem, EntryOK
      <3>1. EntryOK(q, r)
        BY DEF Inv, TableMatchesSystem, EntryOK
      <3>2. CASE q = p /\ r = path
        <4>1. Cardinality(Holding(q, r)') = 0
          BY <1>5, <1>8, <3>1, <3>2 DEF EntryOK
        <4>2. {f \in flock'[r] : f.process = q} = {}
          BY <2>1, <3>2
        <4>. QED
          BY <2>1, <3>2, <4>1, <4>2 DEF EntryOK, NoLock
      <3>3. CASE q # p \/ r # path
        <4>1. {f \in flock'[r] : f.process = q} = {f \in flock[r] : f.process = q}
          BY <2>1, <3>3
        <4>. QED
          BY <1>4, <2>1, <3>1, <3>3, <4>1 DEF EntryOK
      <3>. QED
        BY <3>2, <3>3
    <2>6. HoldersOK'
      <3>. SUFFICES ASSUME NEW m \in Locks, key'[m] # None
                    PROVE  LET g == held'[HomeOf[m]][PathOf[m]] IN
                           /\ g.exclusive = Exclusive[m]
                           /\ Exclusive[m] => g.owner = key'[m]
        BY DEF HoldersOK
      <3>1. HomeOf[m] \in Processes /\ PathOf[m] \in Paths
        BY LocksAssumption
      <3>2. Cardinality(Holding(HomeOf[m], PathOf[m])') # 0
        <4>1. \A q, r : IsFiniteSet(Holding(q, r)')
          <5>1. IsFiniteSet(Locks)
            BY LocksAssumption
          <5>2. \A q, r : Holding(q, r)' \in SUBSET Locks
            BY DEF Holding
          <5>. QED
            BY <5>1, <5>2, FS_Subset
        <4>2. m \in Holding(HomeOf[m], PathOf[m])'
          BY DEF Holding
        <4>. QED
          BY <4>1, <4>2, FS_EmptySet
      <3>3. held'[HomeOf[m]][PathOf[m]].references # 0
        BY <2>5, <3>1, <3>2 DEF TableMatchesSystem
      <3>4. HomeOf[m] # p \/ PathOf[m] # path
        BY <2>1, <3>3 DEF NoLock
      <3>. QED
        BY <1>3, <2>1, <3>1, <3>4 DEF Inv, HoldersOK
    <2>7. SystemOK'
      BY <2>2 DEF Inv, SystemOK
    <2>8. NoLostWakeup'
      <3>. SUFFICES ASSUME NEW u \in Threads, pc'[u] = "waiting"
                    PROVE  LET g == held'[ProcessOf[u]][PathOf[target'[u]]] IN
                           g.references > 0 /\ g.exclusive /\ g.owner # u
        BY DEF NoLostWakeup
      <3>1. u # t /\ pc[u] = "waiting" /\ ProcessOf[u] # p
        BY <2>2
      <3>2. ProcessOf[u] \in Processes /\ PathOf[target[u]] \in Paths
            /\ target'[u] = target[u]
        BY <1>6, <3>1, InCall
      <3>3. LET g == held[ProcessOf[u]][PathOf[target[u]]] IN
            g.references > 0 /\ g.exclusive /\ g.owner # u
        BY <3>1 DEF Inv, NoLostWakeup
      <3>. QED
        BY <2>1, <3>1, <3>2, <3>3
    <2>. QED
      BY <2>3, <2>4, <2>5, <2>6, <2>7, <2>8 DEF Inv
  <1>. QED
    BY <1>7, <1>8 DEF Close

LEMMA DieInv ==
    ASSUME Inv, NEW p \in Processes, Die(p)
    PROVE  Inv'
  <1>1. /\ \A q \in Processes, r \in Paths :
              held'[q][r] = IF q = p THEN NoLock ELSE held[q][r]
        /\ \A r \in Paths : flock'[r] = {f \in flock[r] : f.process # p}
        /\ \A q \in Processes : guard'[q] = IF q = p THEN None ELSE guard[q]
    BY DEF Inv, TypeOK, Die
  <1>2. /\ \A t \in Threads : /\ pc'[t] = IF ProcessOf[t] = p THEN "idle" ELSE pc[t]
                              /\ target'[t] = IF ProcessOf[t] = p THEN None ELSE target[t]
        /\ \A l \in Locks : key'[l] = IF HomeOf[l] = p THEN None ELSE key[l]
    BY DEF Die
  <1>3. TypeOK'
    <2>1. held' \in [Processes -> [Paths -> HeldLock \cup {NoLock}]]
      BY DEF Inv, TypeOK, Die
    <2>2. flock' \in [Paths -> SUBSET [process : Processes, exclusive : BOOLEAN]]
      BY DEF Inv, TypeOK, Die
    <2>3. /\ guard' \in [Processes -> Threads \cup {None}]
          /\ pc' \in [Threads -> Labels]
          /\ target' \in [Threads -> Locks \cup {None}]
          /\ key' \in [Locks -> Threads \cup {None}]
      BY DEF Inv, TypeOK, Die, Labels
    <2>. QED
      BY <2>1, <2>2, <2>3 DEF TypeOK
  <1>4. CallsOK'
    <2>. SUFFICES ASSUME NEW u \in Threads
                  PROVE  CallOK(u)'
      BY DEF CallsOK
    <2>1. CASE ProcessOf[u] = p
      BY <1>2, <2>1 DEF CallOK
    <2>2. CASE ProcessOf[u] # p
      <3>1. pc'[u] = pc[u] /\ target'[u] = target[u] /\ CallOK(u)
        BY <1>2, <2>2 DEF Inv, CallsOK
      <3>2. ASSUME target[u] # None
            PROVE  /\ HomeOf[target[u]] = ProcessOf[u]
                   /\ key'[target[u]] = key[target[u]]
                   /\ \A v \in Threads : target'[v] = target[u] => v = u
        <4>1. target[u] \in Locks /\ HomeOf[target[u]] = ProcessOf[u]
          BY <3>1, <3>2 DEF Inv, TypeOK, CallOK
        <4>. QED
          BY <1>2, <2>2, <3>1, <3>2, <4>1 DEF CallOK
      <3>3. ASSUME pc[u] = "flock"
            PROVE  /\ guard'[ProcessOf[u]] = u
                   /\ held'[ProcessOf[u]][PathOf[target[u]]].references = 0
        <4>1. ProcessOf[u] \in Processes /\ PathOf[target[u]] \in Paths
          BY <3>3, InCall
        <4>. QED
          BY <1>1, <2>2, <3>1, <3>3, <4>1 DEF CallOK
      <3>. QED
        BY <3>1, <3>2, <3>3 DEF CallOK
    <2>. QED
      BY <2>1, <2>2
  <1>5. HoldersOK'
    <2>1. \A l \in Locks : HomeOf[l] \in Processes /\ PathOf[l] \in Paths
      BY LocksAssumption
    <2>. QED
      BY <1>1, <1>2, <2>1 DEF Inv, HoldersOK
  <1>6. SystemOK'
    BY <1>1 DEF Inv, SystemOK
  <1>7. TableMatchesSystem'
    <2>. SUFFICES ASSUME NEW q \in Processes, NEW r \in Paths
                  PROVE  EntryOK(q, r)'
      BY DEF TableMatchesSystem, EntryOK
    <2>1. EntryOK(q, r)
      BY DEF Inv, TableMatchesSystem, EntryOK
    <2>2. CASE q = p
      <3>1. Holding(q, r)' = {}
        BY <1>2, <2>2 DEF Holding
      <3>2. {f \in flock'[r] : f.process = q} = {}
        BY <1>1, <2>2
      <3>. QED
        BY <1>1, <2>2, <3>1, <3>2, FS_EmptySet DEF EntryOK, NoLock
    <2>3. CASE q # p
      <3>1. Holding(q, r)' = Holding(q, r)
        BY <1>2, <2>3 DEF Holding
      <3>2. {f \in flock'[r] : f.process = q} = {f \in flock[r] : f.process = q}
        BY <1>1, <2>3
      <3>. QED
        BY <1>1, <2>1, <2>3, <3>1, <3>2 DEF EntryOK
    <2>. QED
      BY <2>2, <2>3
  <1>8. NoLostWakeup'
    <2>. SUFFICES ASSUME NEW u \in Threads, pc'[u] = "waiting"
                  PROVE  LET g == held'[ProcessOf[u]][PathOf[target'[u]]] IN
                         g.references > 0 /\ g.exclusive /\ g.owner # u
      BY DEF NoLostWakeup
    <2>1. ProcessOf[u] # p /\ pc[u] = "waiting" /\ target'[u] = target[u]
      BY <1>2
    <2>2. ProcessOf[u] \in Processes /\ PathOf[target[u]] \in Paths
      BY <2>1, InCall
    <2>. QED
      BY <1>1, <2>1, <2>2 DEF Inv, NoLostWakeup
  <1>. QED
    BY <1>3, <1>4, <1>5, <1>6, <1>7, <1>8 DEF Inv

LEMMA NextInv == Inv /\ [Next]_vars => Inv'
  <1>. SUFFICES ASSUME Inv, [Next]_vars PROVE Inv'
    OBVIOUS
  <1>1. ASSUME NEW t \in Threads, ThreadStep(t) PROVE Inv'
    BY <1>1, CallInv, JoinInv, OpenInv, GrantedInv, RefusedInv, CloseInv
       DEF ThreadStep
  <1>2. ASSUME NEW p \in Mortal, Die(p) PROVE Inv'
    BY <1>2, DieInv, LocksAssumption
  <1>3. CASE UNCHANGED vars
    <2>1. HoldersOK' /\ SystemOK' /\ TableMatchesSystem'
      BY <1>3, SameTables DEF vars
    <2>. QED
      BY <1>3, <2>1 DEF vars, Inv, TypeOK, CallsOK, CallOK, NoLostWakeup
  <1>. QED
    BY <1>1, <1>2, <1>3 DEF Next

-----------------------------------------------------------------------------
\* The inductive invariant of acquire, close and process death.
THEOREM LocksInvariant == Spec => []Inv
  BY InitInv, NextInv, PTL DEF Spec

\* Tables, granted locks and calls in flight keep the shape locking.py gives
\* them.
THEOREM LocksTyped == Spec => []TypeOK
  <1>1. Inv => TypeOK
    BY DEF Inv
  <1>. QED
    BY <1>1, LocksInvariant, PTL

\* ProcessFileLock gives mutual exclusion between threads as well as between
\* processes, whatever the number of lock objects and whoever dies.
THEOREM Exclusion == Spec => []ExclusiveIsAlone
  BY InvExclusive, LocksInvariant, PTL

\* _PROCESS_LOCKS never disagrees with what the operating system granted, so
\* no descriptor is leaked and none is closed under a holder.
THEOREM TableIsRight == Spec => []TableMatchesSystem
  <1>1. Inv => TableMatchesSystem
    BY DEF Inv
  <1>. QED
    BY <1>1, LocksInvariant, PTL

\* A thread in _PROCESS_LOCKS_CHANGED.wait always has an owner to wait for.
THEOREM WakeupsArrive == Spec => []NoLostWakeup
  <1>1. Inv => NoLostWakeup
    BY DEF Inv
  <1>. QED
    BY <1>1, LocksInvariant, PTL

-----------------------------------------------------------------------------
(* Who waits for whom.                                                     *)

\* The guard is only kept while its thread locks a file, a lock object is held
\* by a thread of its own process, and only a lock object that blocks waits.
WaitsOK ==
    /\ \A p \in Processes : guard[p] # None =>
          pc[guard[p]] = "flock" /\ ProcessOf[guard[p]] = p
    /\ \A l \in Locks : key[l] # None => ProcessOf[key[l]] = HomeOf[l]
    /\ \A t \in Threads : pc[t] = "waiting" => Blocking[target[t]]

LEMMA InitWaits == Init => WaitsOK
  BY DEF Init, WaitsOK

LEMMA StepWaits ==
    ASSUME Inv, WaitsOK, NEW t \in Threads, ThreadStep(t)
    PROVE  WaitsOK'
  <1>0. /\ ProcessOf[t] \in Processes
        /\ \A p \in Processes : guard[p] # None => guard[p] \in Threads
    BY LocksAssumption DEF Inv, TypeOK
  <1>1. ASSUME NEW l \in Locks, Call(t, l) PROVE WaitsOK'
    BY <1>0, <1>1 DEF Call, WaitsOK, Inv, TypeOK
  <1>2. ASSUME Join(t) PROVE WaitsOK'
    <2>0. pc[t] = "acquire" /\ guard' = guard
      BY <1>2 DEF Join, Wait
    <2>1. /\ target[t] \in Locks /\ HomeOf[target[t]] = ProcessOf[t]
          /\ t \in Threads /\ t # None
      BY <2>0, InCall
    <2>2. \A l \in Locks : key'[l] # None =>
             key'[l] = key[l] \/ (key'[l] = t /\ l = target[t])
      BY <1>2, <2>1 DEF Join, Inv, TypeOK
    <2>3. \A u \in Threads : u # t => pc'[u] = pc[u] /\ target'[u] = target[u]
      BY <1>2 DEF Join, Return, Wait, Goto, Inv, TypeOK
    <2>4. pc'[t] = "waiting" => Blocking[target'[t]]
      BY <1>2 DEF Join, Return, Wait, Goto, Inv, TypeOK
    <2>5. \A p \in Processes : guard'[p] # None =>
             pc'[guard'[p]] = "flock" /\ ProcessOf[guard'[p]] = p
      BY <1>0, <2>0, <2>3 DEF WaitsOK
    <2>6. \A l \in Locks : key'[l] # None => ProcessOf[key'[l]] = HomeOf[l]
      BY <2>1, <2>2 DEF WaitsOK
    <2>7. \A u \in Threads : pc'[u] = "waiting" => Blocking[target'[u]]
      BY <2>3, <2>4 DEF WaitsOK
    <2>. QED
      BY <2>5, <2>6, <2>7 DEF WaitsOK
  <1>3. ASSUME Open(t) PROVE WaitsOK'
    <2>0. pc[t] = "acquire" /\ key' = key
      BY <1>3 DEF Open
    <2>1. \A u \in Threads : u # t => pc'[u] = pc[u] /\ target'[u] = target[u]
      BY <1>3 DEF Open, Return, Goto, Inv, TypeOK
    <2>2. pc'[t] # "waiting"
      BY <1>3 DEF Open, Return, Goto, Inv, TypeOK
    <2>3. \/ guard' = guard
          \/ /\ pc'[t] = "flock"
             /\ guard' = [guard EXCEPT ![ProcessOf[t]] = t]
      BY <1>3 DEF Open, Return, Goto, Inv, TypeOK
    <2>4. \A p \in Processes : guard'[p] # None =>
             pc'[guard'[p]] = "flock" /\ ProcessOf[guard'[p]] = p
      <3>1. CASE guard' = guard
        BY <1>0, <2>0, <2>1, <3>1 DEF WaitsOK
      <3>2. CASE /\ pc'[t] = "flock"
                 /\ guard' = [guard EXCEPT ![ProcessOf[t]] = t]
        BY <1>0, <2>0, <2>1, <3>2 DEF WaitsOK, Inv, TypeOK
      <3>. QED
        BY <2>3, <3>1, <3>2
    <2>5. \A u \in Threads : pc'[u] = "waiting" => Blocking[target'[u]]
      BY <2>1, <2>2 DEF WaitsOK
    <2>. QED
      BY <2>0, <2>4, <2>5 DEF WaitsOK
  <1>4. ASSUME Granted(t) PROVE WaitsOK'
    BY <1>0, <1>4, InCall DEF Granted, Return, WaitsOK, Inv, TypeOK
  <1>5. ASSUME Refused(t) PROVE WaitsOK'
    BY <1>0, <1>5 DEF Refused, Return, WaitsOK, Inv, TypeOK
  <1>6. ASSUME Close(t) PROVE WaitsOK'
    BY <1>0, <1>6 DEF Close, LastClose, Awake, WaitsOK, Inv, TypeOK
  <1>. QED
    BY <1>1, <1>2, <1>3, <1>4, <1>5, <1>6 DEF ThreadStep

LEMMA DieWaits ==
    ASSUME Inv, WaitsOK, NEW p \in Processes, Die(p)
    PROVE  WaitsOK'
  BY LocksAssumption DEF Die, WaitsOK, Inv, TypeOK

LEMMA NextWaits == Inv /\ WaitsOK /\ [Next]_vars => WaitsOK'
  <1>. SUFFICES ASSUME Inv, WaitsOK, [Next]_vars PROVE WaitsOK'
    OBVIOUS
  <1>1. CASE UNCHANGED vars
    BY <1>1 DEF vars, WaitsOK
  <1>2. CASE Next
    BY <1>2, StepWaits, DieWaits, LocksAssumption DEF Next
  <1>. QED
    BY <1>1, <1>2

\* Callers wait for at most one file; the others they only try.  A process
\* that opens only the memory store waits for its schema lock alone; with the
\* one of the semantic index too, circles exist (run `hosts').
OneWaitedFile ==
    \A l, m \in Locks : Blocking[l] /\ Blocking[m] => PathOf[l] = PathOf[m]

\* Threads that hold a file that callers wait for.
Holders == {u \in Threads : \E m, n \in Locks :
                /\ key[m] = u
                /\ Blocking[n] /\ PathOf[m] = PathOf[n]}

\* A thread that has the guard and waits for no holder waits for nobody; a
\* holder only waits for such a thread.
LEMMA GuardOfHolder ==
    ASSUME Inv, WaitsOK, OneWaitedFile, NEW u \in Holders,
           NEW v \in WaitsFor(u)
    PROVE  v \in Threads /\ WaitsFor(v) = {}
  <1>1. PICK m \in Locks, n \in Locks :
           key[m] = u /\ Blocking[n] /\ PathOf[m] = PathOf[n]
    BY DEF Holders
  <1>2. u \in Threads /\ u # None
    BY LocksAssumption DEF Holders
  <1>. DEFINE q == ProcessOf[u]
              f == PathOf[m]
  <1>3. q = HomeOf[m] /\ q \in Processes /\ f \in Paths
    BY <1>1, <1>2, LocksAssumption DEF WaitsOK
  <1>4. held[q][f].references # 0
    <2>1. m \in Holding(q, f)
      BY <1>1, <1>2, <1>3 DEF Holding
    <2>2. held[q][f].references = Cardinality(Holding(q, f))
      BY <1>3 DEF Inv, TableMatchesSystem
    <2>. QED
      BY <2>1, <2>2, HoldingFinite
  <1>5. ASSUME NEW w \in Threads, ProcessOf[w] = q, pc[w] = "flock"
        PROVE  WaitsFor(w) = {}
    <2>1. target[w] \in Locks
      BY <1>5, InCall
    <2>2. PathOf[target[w]] # f
      BY <1>4, <1>5 DEF Inv, CallsOK, CallOK
    <2>3. ~Blocking[target[w]]
      BY <1>1, <2>1, <2>2 DEF OneWaitedFile
    <2>. QED
      BY <1>5, <2>3 DEF WaitsFor
  <1>6. pc[u] # "waiting"
    <2>. SUFFICES ASSUME pc[u] = "waiting" PROVE FALSE
      OBVIOUS
    <2>1. target[u] \in Locks /\ Blocking[target[u]]
      BY <1>2, InCall DEF WaitsOK
    <2>2. PathOf[target[u]] = f
      BY <1>1, <2>1 DEF OneWaitedFile
    <2>3. held[q][f].exclusive /\ held[q][f].owner # u
      BY <1>2, <2>2 DEF Inv, NoLostWakeup
    <2>. QED
      BY <1>1, <1>2, <1>3, <2>3 DEF Inv, HoldersOK
  <1>7. pc[u] # "flock"
    BY <1>2, <1>5 DEF WaitsFor
  <1>8. pc[u] \in {"acquire", "close"} /\ v = guard[q] /\ v # None
    BY <1>6, <1>7 DEF WaitsFor
  <1>9. v \in Threads /\ pc[v] = "flock" /\ ProcessOf[v] = q
    BY <1>3, <1>8 DEF WaitsOK, Inv, TypeOK
  <1>. QED
    BY <1>5, <1>9

\* Whoever waits in flock or for a wake-up waits for holders.
LEMMA WaitsForHolders ==
    ASSUME Inv, WaitsOK, NEW t \in Threads, pc[t] \in {"flock", "waiting"},
           NEW u \in WaitsFor(t)
    PROVE  u \in Holders
  <1>. DEFINE p == ProcessOf[t]
              f == PathOf[target[t]]
  <1>0. /\ target[t] \in Locks /\ p \in Processes /\ f \in Paths
    BY InCall
  <1>1. CASE pc[t] = "flock"
    <2>1. Blocking[target[t]]
      BY <1>1 DEF WaitsFor
    <2>2. PICK m \in Locks : PathOf[m] = f /\ key[m] # None /\ u = key[m]
      BY <1>1 DEF WaitsFor
    <2>3. u \in Threads
      BY <2>2 DEF Inv, TypeOK
    <2>. QED
      BY <1>0, <2>1, <2>2, <2>3 DEF Holders
  <1>2. CASE pc[t] = "waiting"
    <2>1. Blocking[target[t]]
      BY <1>2 DEF WaitsOK
    <2>2. u = held[p][f].owner
      BY <1>2 DEF WaitsFor
    <2>3. held[p][f].references > 0 /\ held[p][f].exclusive
      BY <1>2 DEF Inv, NoLostWakeup
    <2>4. PICK m : m \in Holding(p, f)
      <3>1. held[p][f].references = Cardinality(Holding(p, f))
        BY <1>0 DEF Inv, TableMatchesSystem
      <3>. QED
        BY <2>3, <3>1, HoldingFinite
    <2>5. m \in Locks /\ HomeOf[m] = p /\ PathOf[m] = f /\ key[m] # None
      BY <2>4 DEF Holding
    <2>6. key[m] = u
      BY <2>2, <2>3, <2>5 DEF Inv, HoldersOK
    <2>7. u \in Threads
      BY <2>5, <2>6 DEF Inv, TypeOK
    <2>. QED
      BY <1>0, <2>1, <2>5, <2>6, <2>7 DEF Holders
  <1>. QED
    BY <1>1, <1>2

\* In a set of threads, look for one that waits for nobody, then for a holder,
\* then for one that waits for a holder; otherwise all wait for the guard.
LEMMA NoCircle == Inv /\ WaitsOK /\ OneWaitedFile => NoCircularWait
  <1>. SUFFICES ASSUME Inv, WaitsOK, OneWaitedFile,
                       NEW S \in SUBSET Threads, S # {}
                PROVE  \E t \in S : WaitsFor(t) \cap S = {}
    BY DEF NoCircularWait
  <1>. SUFFICES ASSUME \A t \in S : WaitsFor(t) # {}
                PROVE  \E t \in S : WaitsFor(t) \cap S = {}
    OBVIOUS
  <1>1. CASE \E u \in S : u \in Holders
    BY <1>1, GuardOfHolder
  <1>2. CASE \A u \in S : u \notin Holders
    <2>1. CASE \E t \in S : pc[t] \in {"flock", "waiting"}
      BY <1>2, <2>1, WaitsForHolders
    <2>2. CASE \A t \in S : pc[t] \notin {"flock", "waiting"}
      <3>1. PICK t \in S : TRUE
        OBVIOUS
      <3>2. ASSUME NEW v \in WaitsFor(t) PROVE v \notin S
        <4>1. v = guard[ProcessOf[t]] /\ v # None
          BY <2>2, <3>1, <3>2 DEF WaitsFor
        <4>2. pc[v] = "flock"
          BY <4>1, LocksAssumption DEF WaitsOK
        <4>. QED
          BY <2>2, <4>2
      <3>. QED
        BY <3>2
    <2>. QED
      BY <2>1, <2>2
  <1>. QED
    BY <1>1, <1>2

\* Hosts that open the same files at once never block each other for ever, so
\* long as they wait for one file only: the guard is kept across a wait for
\* the operating system, but never by a process that holds the file.
THEOREM NoDeadlock ==
    ASSUME OneWaitedFile
    PROVE  Spec => []NoCircularWait
  <1>1. Spec => []WaitsOK
    BY InitWaits, NextWaits, LocksInvariant, PTL DEF Spec
  <1>2. Inv /\ WaitsOK => NoCircularWait
    BY NoCircle
  <1>. QED
    BY <1>1, <1>2, LocksInvariant, PTL
=============================================================================
