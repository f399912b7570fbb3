------------------------- MODULE EvidenceKeysProofs -------------------------
(***************************************************************************)
(* Proofs about EvidenceKeys, for any set of requests.  Types hold however *)
(* requests overlap.  That no key is lost holds as long as a request that  *)
(* changes keys has the vault to itself, which the code does not ensure    *)
(* (run stalekey): Alone is stated as a hypothesis on the behaviour.       *)
(***************************************************************************)
EXTENDS EvidenceKeys, WellFoundedInduction, TLAPS

(* The phases that change keys or rely on none being changed: recovery in  *)
(* the constructor, and what is done under the key transition lock.        *)
Changing ==
  {"resume control", "resume key", "discard", "enter", "journal", "vault",
   "commit", "control", "key", "unlink", "undo control", "lock file",
   "lock write", "lock key", "unlock file"}

(* Nobody else is under way while a request changes keys.  Requests that   *)
(* only use a key overlap as they like.                                    *)
Alone ==
  \A r, s \in Requests :
    req[r].phase \in Changing /\ ~At(s, "idle") => r = s

-----------------------------------------------------------------------------
(* Removing the slots of a partition.  Without is a recursive function, so *)
(* what it returns takes an induction over the length of the sequence.     *)

LEMMA InductiveSet ==
  ASSUME NEW S \in SUBSET Nat, 0 \in S, \A n \in S : n + 1 \in S
  PROVE  S = Nat
  <1>. DEFINE T == Nat \ S
              R == OpToRel(<, Nat)
  <1>1. SUFFICES ASSUME T # {} PROVE FALSE
    OBVIOUS
  <1>2. IsWellFoundedOn(R, Nat)
    BY NatLessThanWellFounded, Zenon
  <1>3. \A m, n \in Nat : m < n => <<m, n>> \in R
    BY DEF OpToRel
  <1>. HIDE DEF R
  <1>4. PICK x \in T : \A y \in T : ~(<<y, x>> \in R)
    BY <1>1, <1>2, WFMin
  <1>5. x \in Nat /\ x # 0
    OBVIOUS
  <1>6. x - 1 \in Nat /\ x - 1 < x /\ (x - 1) + 1 = x
    BY <1>5
  <1>7. x - 1 \notin T
    BY <1>3, <1>4, <1>5, <1>6
  <1>8. x - 1 \in S
    BY <1>6, <1>7
  <1>. QED
    BY <1>6, <1>8

(* One slot: kept or dropped.                                              *)
Keep(rest, slot, p) == IF slot.part = p THEN rest ELSE Append(rest, slot)

RestOf(f, ss, p, m) ==
  f = [n \in 0..m |-> IF n = 0 THEN <<>> ELSE Keep(f[n - 1], ss[n], p)]

(* There is such a function for every length.                              *)
LEMMA RestExists ==
  ASSUME NEW ss, NEW p, NEW m \in Nat
  PROVE  \E f : RestOf(f, ss, p, m)
  <1>. DEFINE S == {n \in Nat : \E f : RestOf(f, ss, p, n)}
  <1>1. 0 \in S
    <2>. DEFINE f == [n \in 0..0 |-> <<>>]
    <2>1. RestOf(f, ss, p, 0)
      BY DEF RestOf
    <2>. HIDE DEF f
    <2>. QED
      BY <2>1
  <1>2. ASSUME NEW n \in S
        PROVE  n + 1 \in S
    <2>n. n \in Nat
      OBVIOUS
    <2>1. PICK f : RestOf(f, ss, p, n)
      OBVIOUS
    <2>. DEFINE last == Keep(f[n], ss[n + 1], p)
                g == [i \in 0..(n + 1) |-> IF i = n + 1 THEN last ELSE f[i]]
    <2>2. /\ f[0] = <<>>
          /\ \A i \in 1..n : f[i] = Keep(f[i - 1], ss[i], p)
      BY <2>1 DEF RestOf
    <2>3. /\ g[n + 1] = last /\ \A i \in 0..n : g[i] = f[i]
          /\ g = [i \in 0..(n + 1) |-> g[i]]
      OBVIOUS
    <2>. HIDE DEF g, last, S
    <2>4. ASSUME NEW i \in 0..(n + 1)
          PROVE  g[i] = IF i = 0 THEN <<>> ELSE Keep(g[i - 1], ss[i], p)
      <3>1. CASE i = 0
        BY <2>n, <2>2, <2>3, <3>1
      <3>2. CASE i \in 1..n
        <4>1. i - 1 \in 0..n /\ i \in 0..n /\ i # 0
          BY <2>n, <3>2
        <4>2. g[i] = f[i] /\ g[i - 1] = f[i - 1]
          BY <2>3, <4>1
        <4>. QED
          BY <2>2, <3>2, <4>1, <4>2
      <3>3. CASE i = n + 1
        <4>1. i - 1 = n /\ n \in 0..n /\ i # 0
          BY <2>n, <3>3
        <4>2. g[i] = last /\ g[n] = f[n]
          BY <2>3, <3>3, <4>1
        <4>. QED
          BY <3>3, <4>1, <4>2 DEF last
      <3>. QED
        BY <2>n, <3>1, <3>2, <3>3
    <2>5. RestOf(g, ss, p, n + 1)
      BY <2>3, <2>4 DEF RestOf
    <2>. QED
      BY <2>n, <2>5 DEF S
  <1>3. S = Nat
    BY <1>1, <1>2, InductiveSet
  <1>. QED
    BY <1>3

(* Every slot that is left was there before.                               *)
LEMMA WithoutSubset ==
  ASSUME NEW T, NEW ss \in Seq(T), NEW p
  PROVE  /\ Without(ss, p) \in Seq(T)
         /\ \A i \in DOMAIN Without(ss, p) :
              \E j \in DOMAIN ss : Without(ss, p)[i] = ss[j]
  <1>. DEFINE m == Len(ss)
              E == {ss[j] : j \in DOMAIN ss}
              f == CHOOSE g : RestOf(g, ss, p, m)
              S == {n \in Nat : n \in 0..m => f[n] \in Seq(E)}
  <1>0. m \in Nat
    OBVIOUS
  <1>1. RestOf(f, ss, p, m)
    <2>. HIDE DEF m
    <2>. QED
      BY <1>0, RestExists, Zenon
  <1>2. Without(ss, p) = f[m]
    BY DEF Without, RestOf, Keep
  <1>. HIDE DEF f
  <1>3. /\ f[0] = <<>>
        /\ \A n \in 1..m : f[n] = Keep(f[n - 1], ss[n], p)
    BY <1>1 DEF RestOf
  <1>4. 0 \in S
    <2>. HIDE DEF E
    <2>1. <<>> \in Seq(E)
      OBVIOUS
    <2>2. f[0] \in Seq(E)
      BY <1>3, <2>1, Zenon
    <2>. QED
      BY <2>2
  <1>5. ASSUME NEW n \in S
        PROVE  n + 1 \in S
    <2>1. ASSUME n + 1 \in 0..m
          PROVE  f[n + 1] \in Seq(E)
      <3>1. n \in 0..m /\ n + 1 \in 1..m /\ (n + 1) - 1 = n /\ n + 1 \in DOMAIN ss
        BY <2>1
      <3>2. f[n] \in Seq(E) /\ ss[n + 1] \in E
        BY <3>1
      <3>3. f[n + 1] = Keep(f[n], ss[n + 1], p)
        BY <1>3, <3>1
      <3>. HIDE DEF E
      <3>. QED
        BY <3>2, <3>3 DEF Keep
    <2>. QED
      BY <2>1
  <1>6. S = Nat
    BY <1>4, <1>5, InductiveSet
  <1>7. Without(ss, p) \in Seq(E)
    BY <1>2, <1>6
  <1>8. E \subseteq T
    OBVIOUS
  <1>9. \A i \in DOMAIN Without(ss, p) : Without(ss, p)[i] \in E
    <2>. HIDE DEF E
    <2>. QED
      BY <1>7
  <1>10. Without(ss, p) \in Seq(T)
    <2>. HIDE DEF E
    <2>. QED
      BY <1>7, <1>8
  <1>. QED
    BY <1>9, <1>10

-----------------------------------------------------------------------------
(* Types. *)

Calls ==
  [phase: Phases, kind: Kinds, key: Keys \cup {NoKey}, from: Keys \cup {NoKey},
   to: Keys \cup {NoKey}, seen: SUBSET Slots]

(* What a request wraps a slot with is a key.                              *)
Carries(q) ==
  /\ q \in Calls
  /\ q.phase \in {"journal", "vault", "commit", "control", "key", "unlink",
                  "undo control"} => q.from \in Keys /\ q.to \in Keys
  /\ q.phase \in {"append", "lock file", "lock write"} => q.key \in Keys

DiskOK ==
  /\ keyfile \in Keys \cup {NoKey} /\ lockedfile \in Keys \cup {NoKey, Torn}
  /\ journal \in [by: Keys \cup {NoKey}, holds: Keys \cup {NoKey}]
                   \cup {TornJournal}
  /\ slots \in Seq(Slots)
  /\ ctl \in Keys \cup {NoKey} /\ made \in Keys
  /\ badWrite \in BOOLEAN

TInv == TypeOK /\ \A r \in Requests : Carries(req[r])

LEMMA TypeParts ==
  TypeOK <=> /\ DiskOK /\ holder \in Requests \cup {NoRequest}
             /\ req \in [Requests -> Calls]
  BY DEF TypeOK, DiskOK, Calls

(* A request goes from one record to the next, and nobody else moves.      *)
Becomes(r, phase, kind, key, from, to, seen) ==
  /\ req' \in [Requests -> Calls]
  /\ \A s \in Requests \ {r} : req'[s] = req[s]
  /\ req'[r].phase = phase /\ req'[r].kind = kind /\ req'[r].key = key
  /\ req'[r].from = from /\ req'[r].to = to /\ req'[r].seen = seen

LEMMA GoesBecomes ==
  ASSUME TInv, NEW r \in Requests, NEW ph \in Phases, Goes(r, ph)
  PROVE  Becomes(r, ph, req[r].kind, req[r].key, req[r].from, req[r].to,
                 req[r].seen)
  BY TypeParts DEF TInv, Goes, Becomes, Calls

LEMMA DoneBecomes ==
  ASSUME TInv, NEW r \in Requests, Done(r)
  PROVE  /\ Becomes(r, "idle", "access", NoKey, NoKey, NoKey, {})
         /\ holder' \in Requests \cup {NoRequest}
  <1>1. Idle \in Calls
    BY DEF Calls, Idle, Phases, Kinds
  <1>2. /\ req \in [Requests -> Calls] /\ holder \in Requests \cup {NoRequest}
    BY TypeParts DEF TInv
  <1>3. Idle.phase = "idle" /\ Idle.kind = "access" /\ Idle.key = NoKey
        /\ Idle.from = NoKey /\ Idle.to = NoKey /\ Idle.seen = {}
    BY DEF Idle
  <1>. HIDE DEF Idle
  <1>. QED
    BY <1>1, <1>2, <1>3 DEF Becomes, Done, Release

(* The types after a step, from the phase it ends in.                      *)
LEMMA BecomesTyped ==
  ASSUME TInv, NEW r \in Requests, NEW ph, NEW kind, NEW key, NEW from,
         NEW to, NEW seen, Becomes(r, ph, kind, key, from, to, seen),
         ph \in {"journal", "vault", "commit", "control", "key", "unlink",
                 "undo control"} => from \in Keys /\ to \in Keys,
         ph \in {"append", "lock file", "lock write"} => key \in Keys,
         DiskOK', holder' \in Requests \cup {NoRequest}
  PROVE  TInv'
  <1>1. \A s \in Requests : Carries(req[s])
    BY DEF TInv
  <1>2. \A s \in Requests \ {r} : Carries(req'[s])
    BY <1>1 DEF Becomes
  <1>3. Carries(req'[r])
    BY DEF Becomes, Carries
  <1>4. TypeOK'
    BY DEF TypeOK, DiskOK, Becomes, Calls
  <1>5. \A s \in Requests : Carries(req'[s])
    BY <1>2, <1>3
  <1>. QED
    BY <1>4, <1>5 DEF TInv, Carries

LEMMA AppendedSeq ==
  ASSUME NEW ss \in Seq(Slots), NEW p \in Partitions, NEW k \in Keys
  PROVE  Appended(ss, p, k) \in Seq(Slots)
  <1>. DEFINE s == [part |-> p, label |-> p, key |-> k]
  <1>1. s \in Slots
    BY DEF Slots
  <1>. HIDE DEF s
  <1>2. Append(ss, s) \in Seq(Slots)
    BY <1>1
  <1>. QED
    BY <1>2 DEF Appended, s

LEMMA RewrappedSeq ==
  ASSUME TInv, NEW r \in Requests, req[r].to \in Keys
  PROVE  /\ Rewrapped(r) \in Seq(Slots) /\ Len(Rewrapped(r)) = Len(slots)
         /\ DOMAIN Rewrapped(r) = DOMAIN slots
         /\ \A i \in DOMAIN slots : slots[i] \in req[r].seen
               => Rewrapped(r)[i].key = req[r].to
  <1>1. slots \in Seq(Slots) /\ DOMAIN slots = 1..Len(slots)
    BY DEF TInv, TypeOK
  <1>2. ASSUME NEW i \in DOMAIN slots
        PROVE  LET w == [slots[i] EXCEPT !.label = PartitionFor(slots[i].part),
                                         !.key = req[r].to]
               IN  w \in Slots /\ w.key = req[r].to /\ slots[i] \in Slots
    <2>1. PICK s \in Slots : s = slots[i]
      BY <1>1
    <2>2. PICK l \in Partitions : l = PartitionFor(slots[i].part)
      BY DEF PartitionFor, Partitions
    <2>3. PICK k \in Keys : k = req[r].to
      OBVIOUS
    <2>4. PICK w : w = [s EXCEPT !.label = l, !.key = k]
      OBVIOUS
    <2>5. w \in Slots /\ w.key = k
      BY <2>4 DEF Slots
    <2>. QED
      BY <2>1, <2>2, <2>3, <2>4, <2>5
  <1>3. \A i \in DOMAIN slots :
           /\ Rewrapped(r)[i] \in Slots
           /\ slots[i] \in req[r].seen => Rewrapped(r)[i].key = req[r].to
    BY <1>2 DEF Rewrapped
  <1>4. Rewrapped(r) = [i \in 1..Len(slots) |-> Rewrapped(r)[i]]
    BY <1>1 DEF Rewrapped
  <1>5. \A i \in 1..Len(slots) : Rewrapped(r)[i] \in Slots
    BY <1>1, <1>3
  <1>6. Len(slots) \in Nat
    BY <1>1
  <1>7. Rewrapped(r) \in Seq(Slots) /\ Len(Rewrapped(r)) = Len(slots)
    <2>. DEFINE w == Rewrapped(r)
                m == Len(slots)
    <2>. HIDE DEF w, m
    <2>. QED
      BY <1>4, <1>5, <1>6 DEF w, m
  <1>. QED
    BY <1>3, <1>7

(* What each operation that sets more than its phase makes of its request. *)
LEMMA StartBecomes ==
  ASSUME TInv, NEW r \in Requests, NEW kind \in Kinds, Start(r, kind)
  PROVE  Becomes(r, "opening", kind, keyfile, req[r].from, req[r].to,
                 req[r].seen)
  <1>1. req \in [Requests -> Calls] /\ "opening" \in Phases
    BY TypeParts DEF TInv, Phases
  <1>2. PICK k \in Keys \cup {NoKey} : k = keyfile
    BY TypeParts DEF TInv, DiskOK
  <1>3. req' = [req EXCEPT ![r].phase = "opening", ![r].kind = kind,
                           ![r].key = k]
    BY <1>2 DEF Start
  <1>4. Becomes(r, "opening", kind, k, req[r].from, req[r].to, req[r].seen)
    BY <1>1, <1>3, ZenonT(60) DEF Becomes, Calls
  <1>. QED
    BY <1>2, <1>4

LEMMA ResumeBecomes ==
  ASSUME TInv, NEW r \in Requests, Resume(r)
  PROVE  LET k == req[r].key
             c == Candidate(k) IN
         \/ /\ c # NoKey
            /\ Becomes(r, "resume control", req[r].kind, k, req[r].from, c,
                       req[r].seen)
         \/ /\ c = NoKey /\ journal.by # k /\ ~OpensVault(k)
            /\ Becomes(r, "ready", req[r].kind, NoKey, req[r].from, req[r].to,
                       req[r].seen)
         \/ /\ c = NoKey /\ (journal.by = k \/ OpensVault(k))
            /\ Becomes(r, "discard", req[r].kind, k, req[r].from, req[r].to,
                       req[r].seen)
  <1>1. req \in [Requests -> Calls] /\ DiskOK
    BY TypeParts DEF TInv
  <1>2. PICK c \in Keys \cup {NoKey} : c = Candidate(req[r].key)
    BY <1>1 DEF Resume, Candidate, DiskOK
  <1>3. CASE c # NoKey
    <2>1. req' = [req EXCEPT ![r] =
                    [@ EXCEPT !.phase = "resume control", !.to = c]]
      <3>1. journal.by = req[r].key
        BY <1>2, <1>3 DEF Candidate
      <3>. QED
        BY <1>2, <1>3, <3>1 DEF Resume
    <2>. QED
      BY <1>1, <1>2, <1>3, <2>1 DEF Becomes, Calls, Phases
  <1>4. CASE c = NoKey /\ journal.by # req[r].key /\ ~OpensVault(req[r].key)
    <2>1. req' = [req EXCEPT ![r] = [@ EXCEPT !.phase = "ready", !.key = NoKey]]
      BY <1>2, <1>4 DEF Resume
    <2>. QED
      BY <1>1, <1>2, <1>4, <2>1 DEF Becomes, Calls, Phases
  <1>5. CASE c = NoKey /\ (journal.by = req[r].key \/ OpensVault(req[r].key))
    <2>1. req' = [req EXCEPT ![r] = [@ EXCEPT !.phase = "discard"]]
      BY <1>2, <1>5 DEF Resume
    <2>. QED
      BY <1>1, <1>2, <1>5, <2>1 DEF Becomes, Calls, Phases
  <1>. QED
    BY <1>3, <1>4, <1>5

LEMMA ResumeKeyBecomes ==
  ASSUME TInv, NEW r \in Requests, ResumeKey(r)
  PROVE  Becomes(r, "discard", req[r].kind, req[r].to, req[r].from, req[r].to,
                 req[r].seen)
  BY TypeParts DEF TInv, ResumeKey, Becomes, Calls, Phases

LEMMA EnterBecomes ==
  ASSUME TInv, NEW r \in Requests, Enter(r)
  PROVE  Becomes(r, "enter", req[r].kind, keyfile, req[r].from, req[r].to,
                 req[r].seen)
  BY TypeParts, ZenonT(60) DEF TInv, Enter, Becomes, Calls, DiskOK, Phases

LEMMA CreateJournalBecomes ==
  ASSUME TInv, NEW r \in Requests, CreateJournal(r)
  PROVE  /\ made' \in Keys /\ made' = made + 1
         /\ Becomes(r, "journal", req[r].kind, req[r].key, req[r].key, made',
                    req[r].seen)
  <1>1. req \in [Requests -> Calls] /\ made \in Keys
    BY TypeParts DEF TInv, DiskOK
  <1>2. PICK m \in Keys : m = made + 1
    BY <1>1, EvidenceAssumption DEF CreateJournal, Keys
  <1>3. /\ req' = [req EXCEPT ![r].phase = "journal", ![r].from = req[r].key,
                              ![r].to = m]
        /\ made' = m
    BY <1>2 DEF CreateJournal
  <1>4. Becomes(r, "journal", req[r].kind, req[r].key, req[r].key, m,
                req[r].seen)
    BY <1>1, <1>3, ZenonT(60) DEF Becomes, Calls, Phases
  <1>. QED
    BY <1>2, <1>3, <1>4

LEMMA VaultReadBecomes ==
  ASSUME TInv, NEW r \in Requests, VaultRead(r)
  PROVE  Becomes(r, "commit", req[r].kind, req[r].key, req[r].from, req[r].to,
                 ToSet(slots))
  <1>1. PICK all \in SUBSET Slots : all = ToSet(slots)
    <2>1. slots \in Seq(Slots)
      BY DEF TInv, TypeOK
    <2>2. \A i \in DOMAIN slots : slots[i] \in Slots
      BY <2>1
    <2>. QED
      BY <2>2 DEF ToSet
  <1>. QED
    BY <1>1, TypeParts DEF TInv, VaultRead, Becomes, Calls, Phases

LEMMA VaultCommitBecomes ==
  ASSUME TInv, NEW r \in Requests, VaultCommit(r)
  PROVE  Becomes(r, IF req[r].to = req[r].key THEN "undo control" ELSE "control",
                 req[r].kind, req[r].key, req[r].from, req[r].to, {})
  <1>1. PICK ph \in Phases :
           ph = IF req[r].to = req[r].key THEN "undo control" ELSE "control"
    BY DEF Phases
  <1>2. req' = [req EXCEPT ![r].seen = {}, ![r].phase = ph]
    BY <1>1 DEF VaultCommit
  <1>3. Becomes(r, ph, req[r].kind, req[r].key, req[r].from, req[r].to, {})
    BY <1>2, TypeParts DEF TInv, Becomes, Calls
  <1>. QED
    BY <1>1, <1>3

LEMMA RotateUnlinkBecomes ==
  ASSUME TInv, NEW r \in Requests, RotateUnlink(r)
  PROVE  Becomes(r, "audit", req[r].kind, req[r].to, req[r].from, req[r].to,
                 req[r].seen)
  BY TypeParts DEF TInv, RotateUnlink, Becomes, Calls, Phases

LEMMA UndoBecomes ==
  ASSUME TInv, NEW r \in Requests, Undo(r)
  PROVE  Becomes(r, "vault", req[r].kind, req[r].key, req[r].to, req[r].from,
                 req[r].seen)
  BY TypeParts, ZenonT(60) DEF TInv, Undo, Becomes, Calls, Phases

LEMMA UnlockKeyBecomes ==
  ASSUME TInv, NEW r \in Requests, UnlockKey(r)
  PROVE  Becomes(r, "unlock file", req[r].kind, lockedfile, req[r].from,
                 req[r].to, req[r].seen)
  <1>1. req \in [Requests -> Calls] /\ "unlock file" \in Phases
    BY TypeParts DEF TInv, Phases
  <1>2. PICK k \in Keys : k = lockedfile
    BY DEF UnlockKey
  <1>3. req' = [req EXCEPT ![r].phase = "unlock file", ![r].key = k]
    BY <1>2 DEF UnlockKey
  <1>4. Becomes(r, "unlock file", req[r].kind, k, req[r].from, req[r].to,
                req[r].seen)
    BY <1>1, <1>3 DEF Becomes, Calls
  <1>. QED
    BY <1>2, <1>4

LEMMA GoesTyped ==
  ASSUME TInv, NEW r \in Requests, NEW ph \in Phases, Goes(r, ph),
         ph \in {"vault", "key", "unlink"} =>
            At(r, "journal") \/ At(r, "control") \/ At(r, "key"),
         ph \notin {"journal", "commit", "control", "undo control"},
         ph \in {"append", "lock file"} => req[r].key # NoKey,
         ph = "lock write" => At(r, "lock file"),
         DiskOK', UNCHANGED holder
  PROVE  TInv'
  <1>1. /\ req[r] \in Calls /\ Carries(req[r])
        /\ holder \in Requests \cup {NoRequest}
    BY TypeParts DEF TInv
  <1>2. ph \in {"vault", "key", "unlink"} =>
           req[r].from \in Keys /\ req[r].to \in Keys
    BY <1>1 DEF Carries, At
  <1>3. ph \in {"append", "lock file", "lock write"} => req[r].key \in Keys
    BY <1>1 DEF Calls, Carries, At
  <1>. QED
    BY <1>1, <1>2, <1>3, GoesBecomes, BecomesTyped

LEMMA DoneTyped ==
  ASSUME TInv, NEW r \in Requests, Done(r), DiskOK'
  PROVE  TInv'
  BY DoneBecomes, BecomesTyped

(* Construction, and the requests that use a key.                          *)
LEMMA UseTyped ==
  ASSUME TInv, NEW r \in Requests,
         \/ \E kind \in Kinds : Start(r, kind)
         \/ Opened(r) \/ Resume(r) \/ ResumeControl(r) \/ ResumeKey(r)
         \/ Discard(r) \/ CaptureRead(r) \/ \E p \in Runs : Capture(r, p)
         \/ RecordAccess(r) \/ \E p \in Runs \cup Workflows : DeleteRun(r, p)
         \/ \E w \in Workflows : Continue(r, w)
         \/ OpenControl(r) \/ Stop(r)
  PROVE  TInv'
  <1>0. /\ DiskOK /\ holder \in Requests \cup {NoRequest}
        /\ Carries(req[r]) /\ req[r] \in Calls
    BY TypeParts DEF TInv, Carries
  <1>a. ASSUME NEW p \in Partitions, req[r].key # NoKey
        PROVE  Appended(slots, p, req[r].key) \in Seq(Slots)
    <2>1. req[r].key \in Keys
      BY <1>0, <1>a DEF Calls
    <2>. QED
      BY <1>0, <2>1, AppendedSeq DEF DiskOK
  <1>p. Runs \cup Workflows \cup {"audit", "tombstones"} \subseteq Partitions
    BY DEF Partitions
  <1>1. ASSUME NEW kind \in Kinds, Start(r, kind) PROVE TInv'
    <2>1. DiskOK' /\ holder' \in Requests \cup {NoRequest}
      BY <1>0, <1>1 DEF Start, DiskOK, disk
    <2>2. ASSUME NEW ph \in {"opening"}, NEW k,
                 Becomes(r, ph, kind, k, req[r].from, req[r].to,
                         req[r].seen)
          PROVE  TInv'
      BY <2>1, <2>2, BecomesTyped
    <2>. QED
      BY <1>1, StartBecomes, <2>2
  <1>2. CASE Opened(r)
    BY <1>0, <1>2, GoesTyped DEF Opened, DiskOK, disk, Phases
  <1>3. CASE Resume(r)
    <2>1. DiskOK' /\ holder' \in Requests \cup {NoRequest}
      BY <1>0, <1>3 DEF Resume, DiskOK, disk
    <2>2. ASSUME NEW ph \in {"resume control", "ready", "discard"}, NEW k, NEW to,
                 Becomes(r, ph, req[r].kind, k, req[r].from, to, req[r].seen)
          PROVE  TInv'
      BY <2>1, <2>2, BecomesTyped
    <2>. QED
      BY <1>3, ResumeBecomes, <2>2
  <1>4. CASE ResumeControl(r)
    <2>1. DiskOK'
      BY <1>0, <1>4 DEF ResumeControl, Reencrypted, DiskOK, Calls
    <2>. QED
      BY <1>4, <2>1, GoesTyped DEF ResumeControl, Phases
  <1>5. CASE ResumeKey(r)
    <2>1. DiskOK' /\ holder' \in Requests \cup {NoRequest}
      BY <1>0, <1>5 DEF ResumeKey, DiskOK, Calls
    <2>. QED
      BY <1>5, <2>1, ResumeKeyBecomes, BecomesTyped
  <1>6. CASE Discard(r)
    <2>1. DiskOK'
      BY <1>0, <1>6 DEF Discard, DiskOK, NoJournal
    <2>. QED
      BY <1>6, <2>1, GoesTyped DEF Discard, Phases
  <1>7. CASE CaptureRead(r)
    BY <1>0, <1>7, GoesTyped DEF CaptureRead, DiskOK, disk, Phases
  <1>8. ASSUME NEW p \in Runs, Capture(r, p) PROVE TInv'
    <2>1. req[r].key # NoKey
      BY <1>0, <1>8 DEF Capture, At, Carries, Keys, NoKey
    <2>2. DiskOK'
      BY <1>0, <1>a, <1>p, <1>8, <2>1 DEF Capture, DiskOK
    <2>. QED
      BY <1>8, <2>2, DoneTyped DEF Capture
  <1>9. CASE RecordAccess(r)
    <2>1. DiskOK'
      BY <1>0, <1>a, <1>p, <1>9 DEF RecordAccess, DiskOK
    <2>. QED
      BY <1>9, <2>1, DoneTyped DEF RecordAccess
  <1>10. ASSUME NEW p \in Runs \cup Workflows, DeleteRun(r, p) PROVE TInv'
    <2>1. PICK base \in Seq(Slots) : slots' = Without(base, p)
      BY <1>0, <1>a, <1>p, <1>10 DEF DeleteRun, DiskOK
    <2>2. slots' \in Seq(Slots)
      BY <2>1, WithoutSubset
    <2>3. DiskOK'
      BY <1>0, <1>10, <2>2 DEF DeleteRun, DiskOK
    <2>. QED
      BY <1>10, <2>3, GoesTyped DEF DeleteRun, Phases
  <1>11. ASSUME NEW w \in Workflows, Continue(r, w) PROVE TInv'
    <2>1. DiskOK'
      BY <1>0, <1>a, <1>p, <1>11 DEF Continue, DiskOK
    <2>. QED
      BY <1>11, <2>1, DoneTyped DEF Continue
  <1>12. CASE OpenControl(r)
    <2>1. DiskOK'
      BY <1>0, <1>12 DEF OpenControl, DiskOK, Calls
    <2>. QED
      BY <1>12, <2>1, DoneTyped DEF OpenControl
  <1>13. CASE Stop(r)
    BY <1>0, <1>13, DoneTyped DEF Stop, DiskOK, disk
  <1>. QED
    BY <1>1, <1>2, <1>3, <1>4, <1>5, <1>6, <1>7, <1>8, <1>9, <1>10, <1>11,
       <1>12, <1>13

(* The requests that change keys.                                          *)
LEMMA ChangeTyped ==
  ASSUME TInv, NEW r \in Requests,
         \/ Enter(r) \/ CreateJournal(r) \/ WriteJournal(r)
         \/ VaultRead(r) \/ VaultCommit(r)
         \/ RotateControl(r) \/ RotateKey(r) \/ RotateUnlink(r)
         \/ Undo(r) \/ UndoControl(r)
         \/ Lock(r) \/ CreateLocked(r) \/ LockFile(r) \/ LockKey(r)
         \/ UnlockKey(r) \/ UnlockFile(r)
  PROVE  TInv'
  <1>0. /\ DiskOK /\ holder \in Requests \cup {NoRequest}
        /\ Carries(req[r]) /\ req[r] \in Calls
    BY TypeParts DEF TInv, Carries
  <1>1. CASE Enter(r)
    <2>1. DiskOK' /\ holder' \in Requests \cup {NoRequest}
      BY <1>0, <1>1 DEF Enter, DiskOK, disk
    <2>2. ASSUME NEW ph \in {"enter"}, NEW k,
                 Becomes(r, ph, req[r].kind, k, req[r].from, req[r].to,
                         req[r].seen)
          PROVE  TInv'
      BY <2>1, <2>2, BecomesTyped
    <2>. QED
      BY <1>1, EnterBecomes, <2>2
  <1>2. CASE CreateJournal(r)
    <2>1. /\ made' \in Keys /\ made' = made + 1
          /\ Becomes(r, "journal", req[r].kind, req[r].key, req[r].key, made',
                     req[r].seen)
      BY <1>2, CreateJournalBecomes
    <2>2. req[r].key \in Keys
      BY <1>0, <1>2 DEF CreateJournal, Calls
    <2>3. DiskOK' /\ holder' \in Requests \cup {NoRequest}
      BY <1>0, <1>2, <2>1 DEF CreateJournal, DiskOK, TornJournal
    <2>. QED
      BY <2>1, <2>2, <2>3, BecomesTyped
  <1>15. CASE WriteJournal(r)
    <2>1. req[r].from \in Keys /\ req[r].to \in Keys
      BY <1>0, <1>15 DEF WriteJournal, At, Carries
    <2>2. DiskOK'
      BY <1>0, <1>15, <2>1 DEF WriteJournal, DiskOK
    <2>. QED
      BY <1>15, <2>2, GoesTyped DEF WriteJournal, Phases
  <1>3. CASE VaultRead(r)
    <2>1. DiskOK' /\ holder' \in Requests \cup {NoRequest}
      BY <1>0, <1>3 DEF VaultRead, DiskOK, disk
    <2>2. req[r].from \in Keys /\ req[r].to \in Keys
      BY <1>0, <1>3 DEF VaultRead, At, Carries
    <2>. QED
      BY <1>3, <2>1, <2>2, VaultReadBecomes, BecomesTyped
  <1>4. CASE VaultCommit(r)
    <2>1. req[r].from \in Keys /\ req[r].to \in Keys
      BY <1>0, <1>4 DEF VaultCommit, At, Carries
    <2>2. DiskOK' /\ holder' \in Requests \cup {NoRequest}
      BY <1>0, <1>4, <2>1, RewrappedSeq DEF VaultCommit, DiskOK
    <2>3. PICK ph \in {"control", "undo control"} :
             Becomes(r, ph, req[r].kind, req[r].key, req[r].from, req[r].to, {})
      BY <1>4, VaultCommitBecomes
    <2>. QED
      BY <2>1, <2>2, <2>3, BecomesTyped
  <1>5. CASE RotateControl(r)
    <2>1. DiskOK'
      BY <1>0, <1>5 DEF RotateControl, Reencrypted, DiskOK, Calls
    <2>. QED
      BY <1>5, <2>1, GoesTyped DEF RotateControl, Phases
  <1>6. CASE RotateKey(r)
    <2>1. DiskOK'
      BY <1>0, <1>6 DEF RotateKey, DiskOK, Calls
    <2>. QED
      BY <1>6, <2>1, GoesTyped DEF RotateKey, Phases
  <1>7. CASE RotateUnlink(r)
    <2>1. DiskOK' /\ holder' \in Requests \cup {NoRequest}
      BY <1>0, <1>7 DEF RotateUnlink, DiskOK, NoJournal
    <2>. QED
      BY <1>7, <2>1, RotateUnlinkBecomes, BecomesTyped
  <1>8. CASE Undo(r)
    <2>1. DiskOK' /\ holder' \in Requests \cup {NoRequest}
      BY <1>0, <1>8 DEF Undo, DiskOK, disk
    <2>2. req[r].from \in Keys /\ req[r].to \in Keys
      BY <1>0, <1>8 DEF Undo, At, Carries
    <2>. QED
      BY <1>8, <2>1, <2>2, UndoBecomes, BecomesTyped
  <1>9. CASE UndoControl(r)
    <2>1. DiskOK'
      BY <1>0, <1>9 DEF UndoControl, Reencrypted, DiskOK, Calls
    <2>. QED
      BY <1>9, <2>1, DoneTyped DEF UndoControl
  <1>10. CASE Lock(r)
    <2>1. req[r].key \in Keys /\ "audit" \in Partitions
      BY <1>0, <1>10 DEF Lock, Calls, Partitions
    <2>2. DiskOK'
      BY <1>0, <1>10, <2>1, AppendedSeq DEF Lock, DiskOK
    <2>. QED
      BY <1>10, <2>2, GoesTyped DEF Lock, Phases
  <1>16. CASE CreateLocked(r)
    <2>1. DiskOK'
      BY <1>0, <1>16 DEF CreateLocked, DiskOK
    <2>. QED
      BY <1>16, <2>1, GoesTyped DEF CreateLocked, Phases
  <1>11. CASE LockFile(r)
    <2>1. DiskOK'
      BY <1>0, <1>11 DEF LockFile, DiskOK, Calls
    <2>. QED
      BY <1>11, <2>1, GoesTyped DEF LockFile, Phases
  <1>12. CASE LockKey(r)
    <2>1. DiskOK'
      BY <1>0, <1>12 DEF LockKey, DiskOK
    <2>. QED
      BY <1>12, <2>1, DoneTyped DEF LockKey
  <1>13. CASE UnlockKey(r)
    <2>1. DiskOK' /\ holder' \in Requests \cup {NoRequest}
      BY <1>0, <1>13 DEF UnlockKey, DiskOK
    <2>2. ASSUME NEW ph \in {"unlock file"}, NEW k,
                 Becomes(r, ph, req[r].kind, k, req[r].from,
                         req[r].to, req[r].seen)
          PROVE  TInv'
      BY <2>1, <2>2, BecomesTyped
    <2>. QED
      BY <1>13, UnlockKeyBecomes, <2>2
  <1>14. CASE UnlockFile(r)
    <2>1. DiskOK'
      BY <1>0, <1>14 DEF UnlockFile, DiskOK
    <2>. QED
      BY <1>14, <2>1, GoesTyped DEF UnlockFile, Phases
  <1>. QED
    BY <1>1, <1>2, <1>3, <1>4, <1>5, <1>6, <1>7, <1>8, <1>9, <1>10, <1>11,
       <1>12, <1>13, <1>14, <1>15, <1>16

LEMMA NextTyped ==
  ASSUME TInv, [Next]_vars
  PROVE  TInv'
  <1>1. CASE UNCHANGED vars
    BY <1>1 DEF vars, TInv, TypeOK, Carries
  <1>2. ASSUME NEW r \in Requests, Request(r) PROVE TInv'
    BY <1>2, UseTyped, ChangeTyped DEF Request
  <1>. QED
    BY <1>1, <1>2 DEF Next

LEMMA InitTyped == Init => TInv
  <1>. SUFFICES ASSUME Init PROVE TInv
    OBVIOUS
  <1>1. 1 \in Keys /\ <<>> \in Seq(Slots)
    BY EvidenceAssumption DEF Keys
  <1>2. Idle \in Calls /\ Carries(Idle)
    BY DEF Idle, Calls, Phases, Kinds, Carries
  <1>3. DiskOK /\ holder \in Requests \cup {NoRequest}
    BY <1>1 DEF Init, DiskOK, NoJournal
  <1>4. req \in [Requests -> Calls] /\ \A r \in Requests : Carries(req[r])
    BY <1>2 DEF Init
  <1>. QED
    BY <1>3, <1>4, TypeParts DEF TInv

(* Files, slots and what a request carries keep their types however        *)
(* requests overlap: in particular no slot is ever wrapped with a missing  *)
(* key, and no rotation names a partition the vault does not know.         *)
THEOREM TypeCorrect == Spec => []TypeOK
  <1>1. TInv => TypeOK
    BY DEF TInv
  <1>. QED
    BY <1>1, InitTyped, NextTyped, PTL DEF Spec

-----------------------------------------------------------------------------
(* That no key is lost: the invariant. *)

(* The container has one of these keys, or there is none, but for the one  *)
(* failure that ControlRecoverable names.                                  *)
NoMoreThan(ks) == badWrite \/ ctl \in ks \cup {NoKey}

(* The key in force.                                                       *)
Current == IF keyfile # NoKey THEN keyfile ELSE lockedfile

Written == journal \notin {NoJournal, TornJournal}

(* Without a journal, and while it is torn, one key opens everything.      *)
(* With one, the vault is under the old or the new key as a whole, and the *)
(* key file names the old one until everything is under the new one.       *)
Files ==
  IF ~Written
  THEN /\ Current \in Keys /\ AllOpen(Current) /\ NoMoreThan({Current})
       /\ journal = TornJournal => keyfile # NoKey
  ELSE /\ journal.by \in Keys /\ journal.holds \in Keys
       /\ journal.by # journal.holds
       /\ \/ /\ keyfile = journal.by
             /\ AllOpen(journal.by) /\ NoMoreThan({journal.by})
          \/ /\ keyfile = journal.by
             /\ AllOpen(journal.holds) /\ NoMoreThan({journal.by, journal.holds})
          \/ /\ keyfile = journal.holds
             /\ AllOpen(journal.holds) /\ NoMoreThan({journal.holds})

(* Keys come into use in the order they are made.                          *)
Fresh ==
  /\ keyfile <= made /\ lockedfile <= made
  /\ journal.by <= made /\ journal.holds <= made

(* A request that rotates from one key to another, forward or back.        *)
Rotates(q) ==
  /\ Written /\ q.key = journal.by
  /\ {q.from, q.to} = {journal.by, journal.holds}

Forward(q) == Rotates(q) /\ q.from = journal.by /\ q.to = journal.holds

(* What a request relies on, phase by phase.                               *)
Relies(q) ==
  /\ q.phase \in {"opening", "ready", "append", "audit", "resume control",
                  "resume key", "discard", "enter", "journal", "vault",
                  "commit", "control", "key", "undo control", "lock file",
                  "lock write", "lock key", "unlock file"} => q.key = keyfile
  /\ q.phase \in {"ready", "append", "audit", "enter", "lock file",
                  "lock write", "lock key", "unlock file"}
        => journal = NoJournal
  /\ q.phase \in {"append", "lock file", "lock write", "lock key",
                  "unlock file", "discard"} => q.key # NoKey
  /\ q.phase = "journal" =>
        /\ journal = TornJournal /\ q.from = q.key
        /\ q.to # q.from /\ q.to <= made
  /\ q.phase \in {"resume control", "resume key"} =>
        /\ Written /\ q.key = journal.by /\ q.to = journal.holds
        /\ AllOpen(q.to)
  /\ q.phase = "resume key" => NoMoreThan({q.to})
  /\ q.phase = "discard" => AllOpen(q.key) /\ NoMoreThan({q.key})
  /\ q.phase \in {"vault", "commit"} =>
        /\ Rotates(q) /\ AllOpen(q.from) /\ NoMoreThan({q.key})
  /\ q.phase = "commit" => q.seen = ToSet(slots)
  /\ q.phase \in {"control", "key", "unlink"} => Forward(q) /\ AllOpen(q.to)
  /\ q.phase = "control" => NoMoreThan({q.key})
  /\ q.phase \in {"key", "unlink"} => NoMoreThan({q.to})
  /\ q.phase = "unlink" => keyfile = q.to
  /\ q.phase = "undo control" =>
        /\ Rotates(q) /\ q.to = q.key /\ AllOpen(q.key) /\ NoMoreThan({q.key})
  /\ q.phase = "lock key" => lockedfile = q.key
  /\ q.phase = "unlock file" => q.kind = "unlock"
  /\ q.phase = "audit" /\ q.kind = "rotate" =>
        q.from # q.key /\ q.from # NoKey /\ q.key # NoKey

IInv == TInv /\ Files /\ Fresh /\ \A r \in Requests : Relies(req[r])

-----------------------------------------------------------------------------
(* The others, while a request makes a step. *)

(* A step is taken by a request that is under way, or gets under way.      *)
LEMMA ActiveSteps ==
  ASSUME TInv, NEW r \in Requests, Request(r)
  PROVE  ~At(r, "idle") \/ ~At(r, "idle")'
  <1>1. ASSUME NEW kind \in Kinds, Start(r, kind)
        PROVE  ~At(r, "idle")'
    BY <1>1, StartBecomes DEF Becomes, At
  <1>. QED
    BY <1>1
    DEF Request, At, Opened, Resume, ResumeControl, ResumeKey, Discard,
        CaptureRead, Capture, RecordAccess, DeleteRun, Continue, OpenControl,
        Enter, CreateJournal, WriteJournal, VaultRead, VaultCommit, RotateControl, RotateKey,
        RotateUnlink, Undo, UndoControl, Lock, CreateLocked, LockFile, LockKey,
        UnlockKey, UnlockFile, Stop

(* Only the request that steps can be changing keys, and if it is, all     *)
(* others are idle.                                                        *)
LEMMA OthersUse ==
  ASSUME TInv, Alone, Alone', NEW r \in Requests, Request(r),
         NEW s \in Requests \ {r}, req'[s] = req[s]
  PROVE  /\ req[s].phase \notin Changing
         /\ req[r].phase \in Changing => req[s].phase = "idle"
  <1>1. ~At(r, "idle") \/ req'[r].phase # "idle"
    BY ActiveSteps DEF At
  <1>2. req[s].phase \in Changing => At(r, "idle") /\ req'[r].phase = "idle"
    BY DEF Alone, At
  <1>. QED
    BY <1>1, <1>2 DEF Alone, At

(* What others rely on is left as it is.                                   *)
LEMMA OthersRely ==
  ASSUME IInv, Alone, Alone', NEW r \in Requests, Request(r),
         \A s \in Requests \ {r} : req'[s] = req[s],
         UNCHANGED <<keyfile, journal>> \/ req[r].phase \in Changing
  PROVE  \A s \in Requests \ {r} : Relies(req[s])'
  <1>. SUFFICES ASSUME NEW s \in Requests \ {r}
                PROVE  Relies(req[s])'
    OBVIOUS
  <1>1. /\ req[s].phase \notin Changing
        /\ req[r].phase \in Changing => req[s].phase = "idle"
        /\ req'[s] = req[s]
    BY OthersUse DEF IInv
  <1>2. Relies(req[s])
    BY DEF IInv
  <1>3. CASE req[s].phase = "idle"
    BY <1>1, <1>3 DEF Relies
  <1>4. CASE UNCHANGED <<keyfile, journal>>
    BY <1>1, <1>2, <1>4 DEF Relies, Changing
  <1>. QED
    BY <1>1, <1>3, <1>4

LEMMA Assemble ==
  ASSUME IInv, Alone, Alone', NEW r \in Requests, Request(r),
         NEW ph, NEW kind, NEW key, NEW from, NEW to, NEW seen,
         Becomes(r, ph, kind, key, from, to, seen),
         UNCHANGED <<keyfile, journal>> \/ req[r].phase \in Changing,
         Files', Fresh', Relies(req[r])'
  PROVE  IInv'
  <1>1. TInv'
    BY UseTyped, ChangeTyped DEF IInv, Request
  <1>2. \A s \in Requests \ {r} : Relies(req[s])'
    BY OthersRely DEF Becomes
  <1>3. \A s \in Requests : Relies(req[s])'
    BY <1>2
  <1>. QED
    BY <1>1, <1>3 DEF IInv

LEMMA SameFiles ==
  ASSUME IInv, UNCHANGED <<disk, made, badWrite>>
  PROVE  Files' /\ Fresh'
  BY DEF IInv, disk, Files, Written, Fresh, Current, AllOpen, NoMoreThan

(* A request that uses its key leaves everything under it.                 *)
LEMMA UsedFiles ==
  ASSUME IInv, journal = NoJournal, keyfile # NoKey,
         UNCHANGED <<keyfile, lockedfile, journal, made, badWrite>>,
         AllOpen(keyfile)', ctl' \in {ctl, keyfile}
  PROVE  Files' /\ Fresh'
  <1>1. NoMoreThan({keyfile})
    BY DEF IInv, Files, Written, Current
  <1>2. NoMoreThan({keyfile})'
    BY <1>1 DEF NoMoreThan
  <1>. QED
    BY <1>2 DEF IInv, Files, Written, Fresh, Current

LEMMA AppendedOpen ==
  ASSUME NEW ss \in Seq(Slots), NEW p, NEW k \in Keys, p \in Partitions,
         \A i \in DOMAIN ss : ss[i].key = k
  PROVE  \A i \in DOMAIN Appended(ss, p, k) : Appended(ss, p, k)[i].key = k
  <1>. DEFINE s == [part |-> p, label |-> p, key |-> k]
  <1>1. s.key = k
    OBVIOUS
  <1>. HIDE DEF s
  <1>2. \A i \in DOMAIN Append(ss, s) : Append(ss, s)[i].key = k
    BY <1>1
  <1>. QED
    BY <1>2 DEF Appended, s

LEMMA WithoutOpen ==
  ASSUME NEW ss \in Seq(Slots), NEW p, NEW k,
         \A i \in DOMAIN ss : ss[i].key = k
  PROVE  \A i \in DOMAIN Without(ss, p) : Without(ss, p)[i].key = k
  BY WithoutSubset

LEMMA RelyIdle ==
  ASSUME NEW r \in Requests, (req[r].phase)' = "idle"
  PROVE  Relies(req[r])'
  BY DEF Relies

(* A request that opened its service, with the key in force.               *)
LEMMA UserKey ==
  ASSUME IInv, NEW r \in Requests, req[r].key # NoKey,
         req[r].phase \in {"ready", "append", "audit", "enter", "lock file",
                           "lock write", "lock key", "unlock file"}
  PROVE  /\ journal = NoJournal /\ keyfile = req[r].key /\ keyfile \in Keys
         /\ AllOpen(keyfile) /\ slots \in Seq(Slots)
  <1>1. Relies(req[r]) /\ Files
    BY DEF IInv
  <1>2. keyfile = req[r].key /\ journal = NoJournal
    BY <1>1 DEF Relies
  <1>3. keyfile \in Keys /\ slots \in Seq(Slots)
    BY <1>2 DEF IInv, TInv, TypeOK
  <1>. QED
    BY <1>1, <1>2, <1>3 DEF Files, Written, Current

(* Requests that end after they used their key.                            *)
LEMMA UseEnds ==
  ASSUME IInv, Alone, Alone', NEW r \in Requests,
         \/ \E p \in Runs : Capture(r, p)
         \/ RecordAccess(r)
         \/ \E w \in Workflows : Continue(r, w)
         \/ OpenControl(r)
  PROVE  IInv'
  <1>0. TInv /\ Request(r)
    BY DEF IInv, Request
  <1>1. /\ Done(r) /\ req[r].key # NoKey
        /\ req[r].phase \in {"ready", "append", "audit"}
        /\ UNCHANGED <<keyfile, lockedfile, journal, made, badWrite>>
    <2>1. Carries(req[r])
      BY <1>0 DEF TInv
    <2>2. At(r, "append") => req[r].key # NoKey
      BY <2>1 DEF At, Carries, Keys, NoKey
    <2>. QED
      BY <2>2 DEF Capture, RecordAccess, Continue, OpenControl, At
  <1>2. /\ journal = NoJournal /\ keyfile = req[r].key /\ keyfile \in Keys
        /\ AllOpen(keyfile) /\ slots \in Seq(Slots)
    BY <1>1, UserKey
  <1>3. AllOpen(keyfile)' /\ ctl' \in {ctl, keyfile}
    <2>1. CASE OpenControl(r)
      BY <1>2, <2>1 DEF OpenControl, AllOpen
    <2>2. CASE UNCHANGED ctl /\ \E p \in Partitions :
                  slots' = Appended(slots, p, req[r].key)
      BY <1>1, <1>2, <2>2, AppendedOpen DEF AllOpen
    <2>. QED
      BY <2>1, <2>2 DEF Capture, RecordAccess, Continue, Partitions
  <1>4. Files' /\ Fresh'
    BY <1>1, <1>2, <1>3, UsedFiles
  <1>5. Becomes(r, "idle", "access", NoKey, NoKey, NoKey, {})
    BY <1>0, <1>1, DoneBecomes
  <1>6. Relies(req[r])'
    BY <1>5, RelyIdle DEF Becomes
  <1>. QED
    BY <1>0, <1>1, <1>4, <1>5, <1>6, Assemble

(* The constructor. *)

LEMMA StartKeeps ==
  ASSUME IInv, Alone, Alone', NEW r \in Requests, NEW kind \in Kinds,
         Start(r, kind)
  PROVE  IInv'
  <1>0. TInv /\ Request(r)
    BY DEF IInv, Request
  <1>1. Becomes(r, "opening", kind, keyfile, req[r].from, req[r].to, req[r].seen)
    BY <1>0, StartBecomes
  <1>2. UNCHANGED <<disk, made, badWrite>> /\ UNCHANGED <<keyfile, journal>>
    BY DEF Start, disk
  <1>3. Relies(req[r])'
    BY <1>1, <1>2 DEF Relies, Becomes
  <1>. QED
    BY <1>0, <1>1, <1>2, <1>3, SameFiles, Assemble

LEMMA OpenedKeeps ==
  ASSUME IInv, Alone, Alone', NEW r \in Requests, Opened(r)
  PROVE  IInv'
  <1>0. TInv /\ Request(r)
    BY DEF IInv, Request
  <1>1. Becomes(r, "ready", req[r].kind, req[r].key, req[r].from, req[r].to,
                req[r].seen)
    BY <1>0, GoesBecomes DEF Opened, Phases
  <1>2. UNCHANGED <<disk, made, badWrite>> /\ UNCHANGED <<keyfile, journal>>
    BY DEF Opened, disk
  <1>3. req[r].key = keyfile
    BY DEF IInv, Relies, Opened, At
  <1>4. journal = NoJournal
    BY <1>3 DEF IInv, Files, Written, Opened, NoRotation, Keys, NoKey
  <1>5. Relies(req[r])'
    BY <1>1, <1>2, <1>3, <1>4 DEF Relies, Becomes
  <1>. QED
    BY <1>0, <1>1, <1>2, <1>5, SameFiles, Assemble

(* The whole vault is under the key its first document is under.           *)
LEMMA OneKey ==
  ASSUME IInv, NEW k, NEW l, AllOpen(k), OpensVault(l)
  PROVE  AllOpen(l)
  <1>1. slots \in Seq(Slots)
    BY DEF IInv, TInv, TypeOK
  <1>2. ASSUME NEW i \in DOMAIN slots PROVE slots[i].key = l
    <2>1. 1 \in DOMAIN slots
      BY <1>1, <1>2
    <2>. QED
      BY <1>2, <2>1 DEF AllOpen, OpensVault
  <1>. QED
    BY <1>2 DEF AllOpen

LEMMA ResumeKeeps ==
  ASSUME IInv, Alone, Alone', NEW r \in Requests, Resume(r)
  PROVE  IInv'
  <1>0. TInv /\ Request(r)
    BY DEF IInv, Request
  <1>. DEFINE k == req[r].key
  <1>1. UNCHANGED <<disk, made, badWrite>> /\ UNCHANGED <<keyfile, journal>>
    BY DEF Resume, disk
  <1>2. k = keyfile /\ k # NoKey /\ Written /\ Files
    BY DEF IInv, Relies, Resume, At, NoRotation, Written
  <1>3. CASE Candidate(k) # NoKey
    <2>1. Becomes(r, "resume control", req[r].kind, k, req[r].from,
                  Candidate(k), req[r].seen)
      BY <1>0, <1>3, ResumeBecomes
    <2>2. /\ Candidate(k) = journal.holds /\ k = journal.by
          /\ OpensVault(journal.holds)
      BY <1>3 DEF Candidate
    <2>3. AllOpen(journal.holds)
      BY <1>2, <2>2, OneKey DEF Files, Written
    <2>4. Relies(req[r])'
      BY <1>1, <1>2, <2>1, <2>2, <2>3 DEF Relies, Becomes, AllOpen, disk, Written
    <2>. QED
      BY <1>0, <1>1, <2>1, <2>4, SameFiles, Assemble
  <1>4. CASE Candidate(k) = NoKey
    <2>1. /\ AllOpen(k) /\ NoMoreThan({k}) /\ (journal.by = k \/ OpensVault(k))
      <3>1. CASE journal.by = k
        <4>1. ~OpensVault(journal.holds)
          BY <1>2, <1>4, <3>1 DEF Candidate, Files, Written, Keys, NoKey
        <4>2. ~AllOpen(journal.holds)
          BY <4>1 DEF AllOpen, OpensVault
        <4>. QED
          BY <1>2, <3>1, <4>2 DEF Files, Written
      <3>2. CASE journal.by # k
        <4>1. AllOpen(k) /\ NoMoreThan({k})
          BY <1>2, <3>2 DEF Files, Written
        <4>. QED
          BY <4>1 DEF AllOpen, OpensVault
      <3>. QED
        BY <3>1, <3>2
    <2>2. Becomes(r, "discard", req[r].kind, k, req[r].from, req[r].to,
                  req[r].seen)
      BY <1>0, <1>4, <2>1, ResumeBecomes
    <2>3. Relies(req[r])'
      BY <1>1, <1>2, <2>1, <2>2
      DEF Relies, Becomes, AllOpen, NoMoreThan, disk
    <2>. QED
      BY <1>0, <1>1, <2>2, <2>3, SameFiles, Assemble
  <1>. QED
    BY <1>3, <1>4

LEMMA ResumeControlKeeps ==
  ASSUME IInv, Alone, Alone', NEW r \in Requests, ResumeControl(r)
  PROVE  IInv'
  <1>0. TInv /\ Request(r)
    BY DEF IInv, Request
  <1>1. Becomes(r, "resume key", req[r].kind, req[r].key, req[r].from, req[r].to,
                req[r].seen)
    BY <1>0, GoesBecomes DEF ResumeControl, Phases
  <1>2. /\ UNCHANGED <<keyfile, lockedfile, journal, slots, made, badWrite>>
        /\ UNCHANGED <<keyfile, journal>>
    BY DEF ResumeControl
  <1>3. /\ req[r].key = keyfile /\ Written
        /\ req[r].key = journal.by /\ req[r].to = journal.holds
        /\ AllOpen(journal.holds)
    BY DEF IInv, Relies, ResumeControl, At
  <1>4. ctl' \in {req[r].to, NoKey}
    BY DEF ResumeControl, Reencrypted
  <1>5. AllOpen(journal.holds)' /\ NoMoreThan({req[r].to})'
    <2>1. req'[r].to = req[r].to
      BY <1>1 DEF Becomes
    <2>. QED
      BY <1>2, <1>3, <1>4, <2>1 DEF AllOpen, NoMoreThan
  <1>6. Relies(req[r])'
    BY <1>1, <1>2, <1>3, <1>5 DEF Relies, Becomes, Written
  <1>7. Files' /\ Fresh'
    BY <1>1, <1>2, <1>3, <1>5 DEF IInv, Files, Written, Fresh, NoMoreThan, Becomes
  <1>. QED
    BY <1>0, <1>1, <1>2, <1>6, <1>7, Assemble

LEMMA ResumeKeyKeeps ==
  ASSUME IInv, Alone, Alone', NEW r \in Requests, ResumeKey(r)
  PROVE  IInv'
  <1>0. TInv /\ Request(r)
    BY DEF IInv, Request
  <1>1. Becomes(r, "discard", req[r].kind, req[r].to, req[r].from, req[r].to,
                req[r].seen)
    BY <1>0, ResumeKeyBecomes
  <1>2. /\ UNCHANGED <<lockedfile, journal, slots, ctl, made, badWrite>>
        /\ keyfile' = req[r].to /\ req[r].phase \in Changing
    BY DEF ResumeKey, At, Changing
  <1>3. /\ Written /\ req[r].to = journal.holds
        /\ AllOpen(journal.holds) /\ NoMoreThan({journal.holds})
    BY DEF IInv, Relies, ResumeKey, At
  <1>4. AllOpen(journal.holds)' /\ NoMoreThan({journal.holds})'
    BY <1>2, <1>3 DEF AllOpen, NoMoreThan
  <1>5. journal.holds # NoKey
    BY <1>3 DEF IInv, Files, Written, Keys, NoKey
  <1>6. Relies(req[r])'
    BY <1>1, <1>2, <1>3, <1>4, <1>5 DEF Relies, Becomes
  <1>7. Files' /\ Fresh'
    BY <1>2, <1>3, <1>4 DEF IInv, Files, Written, Fresh
  <1>. QED
    BY <1>0, <1>1, <1>2, <1>6, <1>7, Assemble

LEMMA DiscardKeeps ==
  ASSUME IInv, Alone, Alone', NEW r \in Requests, Discard(r)
  PROVE  IInv'
  <1>0. TInv /\ Request(r)
    BY DEF IInv, Request
  <1>1. Becomes(r, "ready", req[r].kind, req[r].key, req[r].from, req[r].to,
                req[r].seen)
    BY <1>0, GoesBecomes DEF Discard, Phases
  <1>2. /\ UNCHANGED <<keyfile, lockedfile, slots, ctl, made, badWrite>>
        /\ journal' = NoJournal /\ req[r].phase \in Changing
    BY DEF Discard, At, Changing
  <1>3. /\ req[r].key = keyfile /\ keyfile # NoKey
        /\ AllOpen(keyfile) /\ NoMoreThan({keyfile})
    BY DEF IInv, Relies, Discard, At
  <1>4. AllOpen(keyfile)' /\ NoMoreThan({keyfile})' /\ keyfile \in Keys
    BY <1>0, <1>2, <1>3 DEF AllOpen, NoMoreThan, TInv, TypeOK
  <1>5. Relies(req[r])'
    BY <1>1, <1>2, <1>3 DEF Relies, Becomes
  <1>6. Files'
    BY <1>2, <1>3, <1>4 DEF Files, Written, Current
  <1>7. Fresh'
    BY <1>0, <1>2 DEF IInv, Fresh, NoJournal, NoKey, TInv, TypeOK, Keys
  <1>. QED
    BY <1>0, <1>1, <1>2, <1>5, <1>6, <1>7, Assemble

(* Requests that use their key and go on, and those that stop.             *)
LEMMA CaptureReadKeeps ==
  ASSUME IInv, Alone, Alone', NEW r \in Requests, CaptureRead(r)
  PROVE  IInv'
  <1>0. TInv /\ Request(r)
    BY DEF IInv, Request
  <1>1. Becomes(r, "append", req[r].kind, req[r].key, req[r].from, req[r].to,
                req[r].seen)
    BY <1>0, GoesBecomes DEF CaptureRead, Phases
  <1>2. UNCHANGED <<disk, made, badWrite>> /\ UNCHANGED <<keyfile, journal>>
    BY DEF CaptureRead, disk
  <1>3. /\ req[r].key # NoKey /\ keyfile = req[r].key /\ journal = NoJournal
    BY UserKey DEF CaptureRead, At
  <1>4. Relies(req[r])'
    BY <1>1, <1>2, <1>3 DEF Relies, Becomes
  <1>. QED
    BY <1>0, <1>1, <1>2, <1>4, SameFiles, Assemble

LEMMA DeleteRunKeeps ==
  ASSUME IInv, Alone, Alone', NEW r \in Requests, NEW p \in Runs \cup Workflows,
         DeleteRun(r, p)
  PROVE  IInv'
  <1>0. TInv /\ Request(r)
    BY DEF IInv, Request
  <1>1. Becomes(r, "audit", req[r].kind, req[r].key, req[r].from, req[r].to,
                req[r].seen)
    BY <1>0, GoesBecomes DEF DeleteRun, Phases
  <1>2. /\ UNCHANGED <<keyfile, lockedfile, journal, ctl, made, badWrite>>
        /\ req[r].phase = "ready" /\ req[r].kind = "delete"
        /\ req[r].key # NoKey /\ UNCHANGED <<keyfile, journal>>
    BY DEF DeleteRun, At
  <1>3. /\ journal = NoJournal /\ keyfile = req[r].key /\ keyfile \in Keys
        /\ AllOpen(keyfile) /\ slots \in Seq(Slots)
    BY <1>2, UserKey
  <1>4. PICK base \in Seq(Slots) :
           /\ \A i \in DOMAIN base : base[i].key = keyfile
           /\ slots' = Without(base, p)
    <2>. DEFINE more == Appended(slots, "tombstones", req[r].key)
    <2>1. "tombstones" \in Partitions
      BY DEF Partitions
    <2>2. more \in Seq(Slots) /\ \A i \in DOMAIN more : more[i].key = keyfile
      BY <1>3, <2>1, AppendedSeq, AppendedOpen, SMTT(30) DEF AllOpen
    <2>. HIDE DEF more
    <2>3. slots' = Without(slots, p) \/ slots' = Without(more, p)
      BY DEF DeleteRun, more
    <2>. QED
      BY <1>3, <2>2, <2>3 DEF AllOpen
  <1>5. AllOpen(keyfile)'
    BY <1>2, <1>4, WithoutOpen DEF AllOpen
  <1>6. Files' /\ Fresh'
    BY <1>2, <1>3, <1>5, UsedFiles
  <1>7. Relies(req[r])'
    BY <1>1, <1>2, <1>3 DEF Relies, Becomes
  <1>. QED
    BY <1>0, <1>1, <1>2, <1>6, <1>7, Assemble

LEMMA StopKeeps ==
  ASSUME IInv, Alone, Alone', NEW r \in Requests, Stop(r)
  PROVE  IInv'
  <1>0. TInv /\ Request(r)
    BY DEF IInv, Request
  <1>1. Becomes(r, "idle", "access", NoKey, NoKey, NoKey, {})
    BY <1>0, DoneBecomes DEF Stop
  <1>2. UNCHANGED <<disk, made, badWrite>> /\ UNCHANGED <<keyfile, journal>>
    BY DEF Stop, disk
  <1>3. Relies(req[r])'
    BY <1>1, RelyIdle DEF Becomes
  <1>. QED
    BY <1>0, <1>1, <1>2, <1>3, SameFiles, Assemble

(* Rotation. *)

LEMMA EnterKeeps ==
  ASSUME IInv, Alone, Alone', NEW r \in Requests, Enter(r)
  PROVE  IInv'
  <1>0. TInv /\ Request(r)
    BY DEF IInv, Request
  <1>1. Becomes(r, "enter", req[r].kind, keyfile, req[r].from, req[r].to,
                req[r].seen)
    BY <1>0, EnterBecomes
  <1>2. UNCHANGED <<disk, made, badWrite>> /\ UNCHANGED <<keyfile, journal>>
    BY DEF Enter, disk
  <1>3. journal = NoJournal
    BY DEF IInv, Relies, Enter, At
  <1>4. Relies(req[r])'
    BY <1>1, <1>2, <1>3 DEF Relies, Becomes
  <1>. QED
    BY <1>0, <1>1, <1>2, <1>4, SameFiles, Assemble

LEMMA CreateJournalKeeps ==
  ASSUME IInv, Alone, Alone', NEW r \in Requests, CreateJournal(r)
  PROVE  IInv'
  <1>0. TInv /\ Request(r)
    BY DEF IInv, Request
  <1>1. /\ made' \in Keys /\ made' = made + 1
        /\ Becomes(r, "journal", req[r].kind, req[r].key, req[r].key, made',
                   req[r].seen)
    BY <1>0, CreateJournalBecomes
  <1>2. /\ UNCHANGED <<keyfile, lockedfile, slots, ctl, badWrite>>
        /\ req[r].key # NoKey /\ req[r].phase = "enter"
        /\ req[r].phase \in Changing /\ journal' = TornJournal
    BY DEF CreateJournal, At, Changing
  <1>3. /\ journal = NoJournal /\ keyfile = req[r].key /\ keyfile \in Keys
        /\ AllOpen(keyfile)
    BY <1>2, UserKey
  <1>4. /\ keyfile <= made /\ lockedfile <= made /\ made \in Nat
        /\ keyfile \in Nat /\ lockedfile \in Int
    BY <1>0 DEF IInv, Fresh, TInv, TypeOK, Keys, NoKey, Torn
  <1>5. NoMoreThan({keyfile})
    BY <1>2, <1>3 DEF IInv, Files, Current, Written
  <1>6. AllOpen(keyfile)' /\ NoMoreThan({keyfile})'
    BY <1>2, <1>3, <1>5 DEF AllOpen, NoMoreThan
  <1>7. Relies(req[r])'
    <2>1. made' # keyfile' /\ made' <= made'
      BY <1>1, <1>2, <1>4
    <2>. QED
      BY <1>1, <1>2, <1>3, <2>1 DEF Relies, Becomes
  <1>8. Files'
    BY <1>2, <1>3, <1>6 DEF Files, Current, Written
  <1>9. Fresh'
    BY <1>1, <1>2, <1>4 DEF Fresh, TornJournal, Torn
  <1>. QED
    BY <1>0, <1>1, <1>2, <1>7, <1>8, <1>9, Assemble

LEMMA WriteJournalKeeps ==
  ASSUME IInv, Alone, Alone', NEW r \in Requests, WriteJournal(r)
  PROVE  IInv'
  <1>0. TInv /\ Request(r)
    BY DEF IInv, Request
  <1>1. Becomes(r, "vault", req[r].kind, req[r].key, req[r].from, req[r].to,
                req[r].seen)
    BY <1>0, GoesBecomes DEF WriteJournal, Phases
  <1>2. /\ UNCHANGED <<keyfile, lockedfile, slots, ctl, made, badWrite>>
        /\ req[r].phase = "journal" /\ req[r].phase \in Changing
    BY DEF WriteJournal, At, Changing
  <1>3. /\ journal = TornJournal /\ req[r].key = keyfile
        /\ req[r].from = keyfile /\ req[r].to # keyfile /\ req[r].to <= made
    BY <1>2 DEF IInv, Relies
  <1>4. req[r].from \in Keys /\ req[r].to \in Keys
    BY <1>0, <1>2 DEF TInv, Carries
  <1>5. journal'.by = req[r].from /\ journal'.holds = req[r].to
    BY <1>3 DEF WriteJournal
  <1>6. Written'
    BY <1>4, <1>5 DEF Written, NoJournal, TornJournal, NoKey, Torn, Keys
  <1>7. AllOpen(keyfile) /\ NoMoreThan({keyfile})
    BY <1>3, <1>4 DEF IInv, Files, Current, Written, Keys, NoKey
  <1>8. AllOpen(keyfile)' /\ NoMoreThan({keyfile})'
    BY <1>2, <1>7 DEF AllOpen, NoMoreThan
  <1>9. Relies(req[r])'
    <2>1. Rotates(req[r])'
      BY <1>1, <1>3, <1>5, <1>6 DEF Rotates, Written, Becomes
    <2>2. /\ req'[r].phase = "vault" /\ req'[r].key = keyfile'
          /\ req'[r].from = keyfile'
      BY <1>1, <1>2, <1>3 DEF Becomes
    <2>. QED
      BY <1>8, <2>1, <2>2 DEF Relies
  <1>10. Files'
    BY <1>2, <1>3, <1>4, <1>5, <1>6, <1>8 DEF Files, Written
  <1>11. Fresh'
    BY <1>2, <1>3, <1>5 DEF IInv, Fresh
  <1>. QED
    BY <1>0, <1>1, <1>2, <1>9, <1>10, <1>11, Assemble

LEMMA VaultReadKeeps ==
  ASSUME IInv, Alone, Alone', NEW r \in Requests, VaultRead(r)
  PROVE  IInv'
  <1>0. TInv /\ Request(r)
    BY DEF IInv, Request
  <1>1. Becomes(r, "commit", req[r].kind, req[r].key, req[r].from, req[r].to,
                ToSet(slots))
    BY <1>0, VaultReadBecomes
  <1>2. UNCHANGED <<disk, made, badWrite>> /\ UNCHANGED <<keyfile, journal>>
    BY DEF VaultRead, disk
  <1>3. /\ req[r].key = keyfile /\ Rotates(req[r])
        /\ AllOpen(req[r].from) /\ NoMoreThan({req[r].key})
    BY DEF IInv, Relies, VaultRead, At
  <1>4. /\ Rotates(req[r])' /\ AllOpen(req[r].from)'
        /\ NoMoreThan({req[r].key})' /\ ToSet(slots)' = ToSet(slots)
    BY <1>1, <1>2, <1>3 DEF Becomes, Rotates, Written, AllOpen, NoMoreThan, disk, ToSet
  <1>5. Relies(req[r])'
    BY <1>1, <1>2, <1>3, <1>4 DEF Relies, Becomes
  <1>. QED
    BY <1>0, <1>1, <1>2, <1>5, SameFiles, Assemble

LEMMA VaultCommitKeeps ==
  ASSUME IInv, Alone, Alone', NEW r \in Requests, VaultCommit(r)
  PROVE  IInv'
  <1>0. TInv /\ Request(r)
    BY DEF IInv, Request
  <1>. DEFINE ph == IF req[r].to = req[r].key THEN "undo control" ELSE "control"
  <1>1. Becomes(r, ph, req[r].kind, req[r].key, req[r].from, req[r].to, {})
    BY <1>0, VaultCommitBecomes
  <1>2. /\ UNCHANGED <<keyfile, lockedfile, journal, ctl, made, badWrite>>
        /\ slots' = Rewrapped(r) /\ UNCHANGED <<keyfile, journal>>
    BY DEF VaultCommit
  <1>3. /\ req[r].key = keyfile /\ Rotates(req[r])
        /\ NoMoreThan({req[r].key}) /\ req[r].seen = ToSet(slots)
    BY DEF IInv, Relies, VaultCommit, At
  <1>4. /\ Written /\ keyfile = journal.by
        /\ journal.by # NoKey /\ journal.holds # NoKey
        /\ journal.by # journal.holds
        /\ {req[r].from, req[r].to} = {journal.by, journal.holds}
    BY <1>3 DEF IInv, Files, Written, Rotates, Keys, NoKey
  <1>5. AllOpen(req[r].to)'
    <2>1. req[r].to \in Keys
      BY <1>0 DEF TInv, Carries, VaultCommit, At
    <2>2. \A i \in DOMAIN slots : slots[i] \in req[r].seen
      BY <1>3 DEF ToSet
    <2>3. \A i \in DOMAIN slots' : slots'[i].key = req[r].to
      BY <1>0, <1>2, <2>1, <2>2, RewrappedSeq
    <2>4. req'[r].to = req[r].to
      BY <1>1 DEF Becomes
    <2>. QED
      BY <2>3, <2>4 DEF AllOpen
  <1>6. NoMoreThan({keyfile})'
    BY <1>2, <1>3 DEF NoMoreThan
  <1>7. Rotates(req[r])'
    BY <1>1, <1>2, <1>3 DEF Becomes, Rotates, Written
  <1>8. CASE req[r].to = req[r].key
    <2>1. Relies(req[r])'
      BY <1>1, <1>2, <1>3, <1>5, <1>6, <1>7, <1>8 DEF Relies, Becomes
    <2>2. AllOpen(journal.by)' /\ NoMoreThan({journal.by})'
      BY <1>1, <1>2, <1>3, <1>4, <1>5, <1>6, <1>8
      DEF AllOpen, NoMoreThan, Becomes
    <2>3. Files' /\ Fresh'
      BY <1>2, <1>4, <2>2 DEF Files, Written, Fresh, IInv
    <2>. QED
      BY <1>0, <1>1, <1>2, <2>1, <2>3, Assemble
  <1>9. CASE req[r].to # req[r].key
    <2>1. req[r].from = journal.by /\ req[r].to = journal.holds
      BY <1>3, <1>4, <1>9
    <2>2. Forward(req[r])'
      BY <1>1, <1>2, <1>7, <2>1 DEF Forward, Becomes
    <2>3. Relies(req[r])'
      BY <1>1, <1>2, <1>3, <1>5, <1>6, <1>9, <2>2 DEF Relies, Becomes
    <2>4. AllOpen(journal.holds)' /\ NoMoreThan({journal.by, journal.holds})'
      BY <1>1, <1>2, <1>4, <1>5, <1>6, <2>1 DEF AllOpen, NoMoreThan, Becomes
    <2>5. Files' /\ Fresh'
      BY <1>2, <1>4, <2>4 DEF Files, Written, Fresh, IInv
    <2>. QED
      BY <1>0, <1>1, <1>2, <2>3, <2>5, Assemble
  <1>. QED
    BY <1>8, <1>9

LEMMA RotateControlKeeps ==
  ASSUME IInv, Alone, Alone', NEW r \in Requests, RotateControl(r)
  PROVE  IInv'
  <1>0. TInv /\ Request(r)
    BY DEF IInv, Request
  <1>1. Becomes(r, "key", req[r].kind, req[r].key, req[r].from, req[r].to,
                req[r].seen)
    BY <1>0, GoesBecomes DEF RotateControl, Phases
  <1>2. /\ UNCHANGED <<keyfile, lockedfile, journal, slots, made, badWrite>>
        /\ UNCHANGED <<keyfile, journal>>
    BY DEF RotateControl
  <1>3. req[r].key = keyfile /\ Forward(req[r]) /\ AllOpen(req[r].to)
    BY DEF IInv, Relies, RotateControl, At
  <1>4. ctl' \in {req[r].to, NoKey}
    BY DEF RotateControl, Reencrypted
  <1>5. /\ Forward(req[r])' /\ AllOpen(req[r].to)' /\ NoMoreThan({req[r].to})'
    BY <1>1, <1>2, <1>3, <1>4
    DEF Becomes, Forward, Rotates, Written, AllOpen, NoMoreThan
  <1>6. Relies(req[r])'
    BY <1>1, <1>2, <1>3, <1>5 DEF Relies, Becomes
  <1>7. Files' /\ Fresh'
    BY <1>2, <1>3, <1>5
    DEF IInv, Files, Written, Fresh, Forward, Rotates, NoMoreThan
  <1>. QED
    BY <1>0, <1>1, <1>2, <1>6, <1>7, Assemble

LEMMA RotateKeyKeeps ==
  ASSUME IInv, Alone, Alone', NEW r \in Requests, RotateKey(r)
  PROVE  IInv'
  <1>0. TInv /\ Request(r)
    BY DEF IInv, Request
  <1>1. Becomes(r, "unlink", req[r].kind, req[r].key, req[r].from, req[r].to,
                req[r].seen)
    BY <1>0, GoesBecomes DEF RotateKey, Phases
  <1>2. /\ UNCHANGED <<lockedfile, journal, slots, ctl, made, badWrite>>
        /\ keyfile' = req[r].to /\ req[r].phase \in Changing
    BY DEF RotateKey, At, Changing
  <1>3. Forward(req[r]) /\ AllOpen(req[r].to) /\ NoMoreThan({req[r].to})
    BY DEF IInv, Relies, RotateKey, At
  <1>4. Forward(req[r])' /\ AllOpen(req[r].to)' /\ NoMoreThan({req[r].to})'
    BY <1>1, <1>2, <1>3 DEF Becomes, Forward, Rotates, Written, AllOpen, NoMoreThan
  <1>5. Relies(req[r])'
    BY <1>1, <1>2, <1>4 DEF Relies, Becomes
  <1>6. Files' /\ Fresh'
    BY <1>1, <1>2, <1>3, <1>4
    DEF IInv, Files, Written, Fresh, Forward, Rotates, Becomes
  <1>. QED
    BY <1>0, <1>1, <1>2, <1>5, <1>6, Assemble

LEMMA RotateUnlinkKeeps ==
  ASSUME IInv, Alone, Alone', NEW r \in Requests, RotateUnlink(r)
  PROVE  IInv'
  <1>0. TInv /\ Request(r)
    BY DEF IInv, Request
  <1>1. Becomes(r, "audit", req[r].kind, req[r].to, req[r].from, req[r].to,
                req[r].seen)
    BY <1>0, RotateUnlinkBecomes
  <1>2. /\ UNCHANGED <<keyfile, lockedfile, slots, ctl, made, badWrite>>
        /\ journal' = NoJournal /\ req[r].phase \in Changing
    BY DEF RotateUnlink, At, Changing
  <1>3. /\ Forward(req[r]) /\ AllOpen(req[r].to) /\ NoMoreThan({req[r].to})
        /\ keyfile = req[r].to
    BY DEF IInv, Relies, RotateUnlink, At
  <1>4. /\ req[r].from # req[r].to /\ req[r].from # NoKey /\ keyfile # NoKey
        /\ keyfile \in Keys
    BY <1>3 DEF IInv, Files, Written, Forward, Rotates, Keys, NoKey
  <1>5. AllOpen(keyfile)' /\ NoMoreThan({keyfile})'
    BY <1>2, <1>3 DEF AllOpen, NoMoreThan
  <1>6. Relies(req[r])'
    BY <1>1, <1>2, <1>3, <1>4 DEF Relies, Becomes
  <1>7. Files'
    BY <1>2, <1>4, <1>5 DEF Files, Written, Current
  <1>8. Fresh'
    BY <1>0, <1>2 DEF IInv, Fresh, NoJournal, NoKey, TInv, TypeOK, Keys
  <1>. QED
    BY <1>0, <1>1, <1>2, <1>6, <1>7, <1>8, Assemble

LEMMA UndoKeeps ==
  ASSUME IInv, Alone, Alone', NEW r \in Requests, Undo(r)
  PROVE  IInv'
  <1>0. TInv /\ Request(r)
    BY DEF IInv, Request
  <1>1. Becomes(r, "vault", req[r].kind, req[r].key, req[r].to, req[r].from,
                req[r].seen)
    BY <1>0, UndoBecomes
  <1>2. /\ UNCHANGED <<keyfile, lockedfile, journal, slots, ctl, made>>
        /\ UNCHANGED <<keyfile, journal>>
        /\ badWrite' = (badWrite \/ At(r, "key"))
    BY DEF Undo, disk
  <1>3. /\ req[r].key = keyfile /\ Forward(req[r]) /\ AllOpen(req[r].to)
        /\ At(r, "control") => NoMoreThan({req[r].key})
    BY DEF IInv, Relies, Undo, At
  <1>4. badWrite => badWrite'
    BY <1>2
  <1>5. At(r, "key") => badWrite'
    BY <1>2
  <1>6. /\ Rotates(req[r])' /\ AllOpen(req[r].from)'
    BY <1>1, <1>2, <1>3 DEF Becomes, Forward, Rotates, Written, AllOpen
  <1>7. NoMoreThan({req[r].key})'
    BY <1>1, <1>2, <1>3, <1>4, <1>5 DEF Undo, Becomes, NoMoreThan
  <1>8. Relies(req[r])'
    BY <1>1, <1>2, <1>3, <1>6, <1>7 DEF Relies, Becomes
  <1>9. AllOpen(journal.holds)' /\ NoMoreThan({journal.by, journal.holds})'
    BY <1>1, <1>2, <1>3, <1>7
    DEF Becomes, Forward, Rotates, Written, AllOpen, NoMoreThan
  <1>10. Files' /\ Fresh'
    BY <1>2, <1>3, <1>9 DEF IInv, Files, Written, Fresh, Forward, Rotates
  <1>. QED
    BY <1>0, <1>1, <1>2, <1>8, <1>10, Assemble

LEMMA UndoControlKeeps ==
  ASSUME IInv, Alone, Alone', NEW r \in Requests, UndoControl(r)
  PROVE  IInv'
  <1>0. TInv /\ Request(r)
    BY DEF IInv, Request
  <1>1. Becomes(r, "idle", "access", NoKey, NoKey, NoKey, {})
    BY <1>0, DoneBecomes DEF UndoControl
  <1>2. /\ UNCHANGED <<keyfile, lockedfile, journal, slots, made, badWrite>>
        /\ UNCHANGED <<keyfile, journal>>
    BY DEF UndoControl
  <1>3. /\ req[r].key = keyfile /\ Rotates(req[r]) /\ req[r].to = req[r].key
        /\ AllOpen(req[r].key)
    BY DEF IInv, Relies, UndoControl, At
  <1>4. ctl' \in {req[r].to, NoKey}
    BY DEF UndoControl, Reencrypted
  <1>5. AllOpen(journal.by)' /\ NoMoreThan({journal.by})'
    BY <1>2, <1>3, <1>4 DEF AllOpen, NoMoreThan, Rotates, Written
  <1>6. Files' /\ Fresh'
    BY <1>2, <1>3, <1>5 DEF IInv, Files, Written, Fresh, Rotates
  <1>7. Relies(req[r])'
    BY <1>1, RelyIdle DEF Becomes
  <1>. QED
    BY <1>0, <1>1, <1>2, <1>6, <1>7, Assemble

(* Locking and unlocking. *)

LEMMA LockKeeps ==
  ASSUME IInv, Alone, Alone', NEW r \in Requests, Lock(r)
  PROVE  IInv'
  <1>0. TInv /\ Request(r)
    BY DEF IInv, Request
  <1>1. Becomes(r, "lock file", req[r].kind, req[r].key, req[r].from, req[r].to,
                req[r].seen)
    BY <1>0, GoesBecomes DEF Lock, Phases
  <1>2. /\ UNCHANGED <<keyfile, lockedfile, journal, ctl, made, badWrite>>
        /\ UNCHANGED <<keyfile, journal>> /\ req[r].key # NoKey
        /\ req[r].phase = "enter" /\ "audit" \in Partitions
    BY DEF Lock, At, Partitions
  <1>3. /\ journal = NoJournal /\ keyfile = req[r].key /\ keyfile \in Keys
        /\ AllOpen(keyfile) /\ slots \in Seq(Slots)
    BY <1>2, UserKey
  <1>4. AllOpen(keyfile)'
    <2>1. slots' = Appended(slots, "audit", keyfile)
      BY <1>3 DEF Lock
    <2>2. \A i \in DOMAIN slots' : slots'[i].key = keyfile
      BY <1>2, <1>3, <2>1, AppendedOpen DEF AllOpen
    <2>. QED
      BY <1>2, <2>2 DEF AllOpen
  <1>5. Files' /\ Fresh'
    BY <1>2, <1>3, <1>4, UsedFiles
  <1>6. Relies(req[r])'
    BY <1>1, <1>2, <1>3 DEF Relies, Becomes
  <1>. QED
    BY <1>0, <1>1, <1>2, <1>5, <1>6, Assemble

LEMMA CreateLockedKeeps ==
  ASSUME IInv, Alone, Alone', NEW r \in Requests, CreateLocked(r)
  PROVE  IInv'
  <1>0. TInv /\ Request(r)
    BY DEF IInv, Request
  <1>1. Becomes(r, "lock write", req[r].kind, req[r].key, req[r].from, req[r].to,
                req[r].seen)
    BY <1>0, GoesBecomes DEF CreateLocked, Phases
  <1>2. /\ UNCHANGED <<keyfile, journal, slots, ctl, made, badWrite>>
        /\ UNCHANGED <<keyfile, journal>> /\ lockedfile' = Torn
        /\ req[r].phase = "lock file"
    BY DEF CreateLocked, At
  <1>3. /\ journal = NoJournal /\ keyfile = req[r].key /\ keyfile # NoKey
    BY <1>2 DEF IInv, Relies
  <1>4. AllOpen(keyfile) /\ NoMoreThan({keyfile}) /\ keyfile \in Keys
    BY <1>3 DEF IInv, Files, Current, Written
  <1>5. AllOpen(keyfile)' /\ NoMoreThan({keyfile})'
    BY <1>2, <1>4 DEF AllOpen, NoMoreThan
  <1>6. Files'
    BY <1>2, <1>3, <1>4, <1>5 DEF Files, Current, Written
  <1>7. Fresh'
    <2>1. made \in Nat /\ Torn <= made
      BY <1>0 DEF TInv, TypeOK, Keys, Torn
    <2>. QED
      BY <1>2, <2>1 DEF IInv, Fresh
  <1>8. Relies(req[r])'
    BY <1>1, <1>2, <1>3 DEF Relies, Becomes
  <1>. QED
    BY <1>0, <1>1, <1>2, <1>6, <1>7, <1>8, Assemble

LEMMA LockFileKeeps ==
  ASSUME IInv, Alone, Alone', NEW r \in Requests, LockFile(r)
  PROVE  IInv'
  <1>0. TInv /\ Request(r)
    BY DEF IInv, Request
  <1>1. Becomes(r, "lock key", req[r].kind, req[r].key, req[r].from, req[r].to,
                req[r].seen)
    BY <1>0, GoesBecomes DEF LockFile, Phases
  <1>2. /\ UNCHANGED <<keyfile, journal, slots, ctl, made, badWrite>>
        /\ UNCHANGED <<keyfile, journal>> /\ lockedfile' = req[r].key
    BY DEF LockFile
  <1>3. /\ journal = NoJournal /\ keyfile = req[r].key /\ keyfile # NoKey
    BY DEF IInv, Relies, LockFile, At
  <1>4. AllOpen(keyfile) /\ NoMoreThan({keyfile})
    BY <1>3 DEF IInv, Files, Written, Current
  <1>5. AllOpen(keyfile)' /\ NoMoreThan({keyfile})'
    BY <1>2, <1>4 DEF AllOpen, NoMoreThan
  <1>6. Files' /\ Fresh'
    BY <1>2, <1>3, <1>5 DEF IInv, Files, Written, Fresh, Current
  <1>7. Relies(req[r])'
    BY <1>1, <1>2, <1>3 DEF Relies, Becomes
  <1>. QED
    BY <1>0, <1>1, <1>2, <1>6, <1>7, Assemble

LEMMA LockKeyKeeps ==
  ASSUME IInv, Alone, Alone', NEW r \in Requests, LockKey(r)
  PROVE  IInv'
  <1>0. TInv /\ Request(r)
    BY DEF IInv, Request
  <1>1. Becomes(r, "idle", "access", NoKey, NoKey, NoKey, {})
    BY <1>0, DoneBecomes DEF LockKey
  <1>2. /\ UNCHANGED <<lockedfile, journal, slots, ctl, made, badWrite>>
        /\ keyfile' = NoKey /\ req[r].phase \in Changing
    BY DEF LockKey, At, Changing
  <1>3. /\ journal = NoJournal /\ keyfile = lockedfile /\ lockedfile # NoKey
    BY DEF IInv, Relies, LockKey, At
  <1>4. AllOpen(lockedfile) /\ NoMoreThan({lockedfile}) /\ lockedfile \in Keys
    BY <1>3 DEF IInv, Files, Written, Current
  <1>5. AllOpen(lockedfile)' /\ NoMoreThan({lockedfile})'
    BY <1>2, <1>4 DEF AllOpen, NoMoreThan
  <1>6. Files'
    BY <1>2, <1>3, <1>4, <1>5
    DEF Files, Written, Current, NoJournal, TornJournal, NoKey, Torn
  <1>7. Fresh'
    BY <1>0, <1>2 DEF IInv, Fresh, NoKey, TInv, TypeOK, Keys
  <1>8. Relies(req[r])'
    BY <1>1, RelyIdle DEF Becomes
  <1>. QED
    BY <1>0, <1>1, <1>2, <1>6, <1>7, <1>8, Assemble

LEMMA UnlockKeyKeeps ==
  ASSUME IInv, Alone, Alone', NEW r \in Requests, UnlockKey(r)
  PROVE  IInv'
  <1>0. TInv /\ Request(r)
    BY DEF IInv, Request
  <1>1. Becomes(r, "unlock file", req[r].kind, lockedfile, req[r].from,
                req[r].to, req[r].seen)
    BY <1>0, UnlockKeyBecomes
  <1>2. /\ UNCHANGED <<lockedfile, journal, slots, ctl, made, badWrite>>
        /\ keyfile' = lockedfile /\ lockedfile # NoKey /\ keyfile = NoKey
        /\ req[r].phase \in Changing /\ req[r].kind = "unlock"
    <2>1. lockedfile # NoKey
      <3>1. lockedfile \in Keys
        BY DEF UnlockKey
      <3>. QED
        BY <3>1 DEF Keys, NoKey
    <2>. QED
      BY <2>1 DEF UnlockKey, At, Changing
  <1>3. journal = NoJournal
    BY DEF IInv, Relies, UnlockKey, At
  <1>4. AllOpen(lockedfile) /\ NoMoreThan({lockedfile})
    BY <1>2, <1>3 DEF IInv, Files, Written, Current
  <1>5. AllOpen(lockedfile)' /\ NoMoreThan({lockedfile})'
    BY <1>2, <1>4 DEF AllOpen, NoMoreThan
  <1>6. Files' /\ Fresh'
    BY <1>2, <1>3, <1>5 DEF IInv, Files, Written, Fresh, Current
  <1>7. Relies(req[r])'
    BY <1>1, <1>2, <1>3 DEF Relies, Becomes
  <1>. QED
    BY <1>0, <1>1, <1>2, <1>6, <1>7, Assemble

LEMMA UnlockFileKeeps ==
  ASSUME IInv, Alone, Alone', NEW r \in Requests, UnlockFile(r)
  PROVE  IInv'
  <1>0. TInv /\ Request(r)
    BY DEF IInv, Request
  <1>1. Becomes(r, "audit", req[r].kind, req[r].key, req[r].from, req[r].to,
                req[r].seen)
    BY <1>0, GoesBecomes DEF UnlockFile, Phases
  <1>2. /\ UNCHANGED <<keyfile, journal, slots, ctl, made, badWrite>>
        /\ UNCHANGED <<keyfile, journal>> /\ lockedfile' = NoKey
    BY DEF UnlockFile
  <1>3. /\ journal = NoJournal /\ keyfile = req[r].key /\ keyfile # NoKey
        /\ req[r].kind = "unlock"
    BY DEF IInv, Relies, UnlockFile, At
  <1>4. AllOpen(keyfile) /\ NoMoreThan({keyfile})
    BY <1>3 DEF IInv, Files, Written, Current
  <1>5. AllOpen(keyfile)' /\ NoMoreThan({keyfile})'
    BY <1>2, <1>4 DEF AllOpen, NoMoreThan
  <1>6. Files'
    BY <1>2, <1>3, <1>5 DEF IInv, Files, Written, Current
  <1>7. Fresh'
    BY <1>0, <1>2 DEF IInv, Fresh, NoKey, TInv, TypeOK, Keys
  <1>8. Relies(req[r])'
    BY <1>1, <1>2, <1>3 DEF Relies, Becomes
  <1>. QED
    BY <1>0, <1>1, <1>2, <1>6, <1>7, <1>8, Assemble

LEMMA NextKeeps ==
  ASSUME IInv, Alone, Alone', [Next]_vars
  PROVE  IInv'
  <1>1. CASE UNCHANGED vars
    <2>1. TInv'
      BY <1>1, NextTyped DEF IInv
    <2>2. Files' /\ Fresh'
      BY <1>1, SameFiles DEF vars, disk
    <2>3. ASSUME NEW r \in Requests PROVE Relies(req[r])'
      <3>1. /\ UNCHANGED <<req, keyfile, lockedfile, journal, made>>
            /\ Written' <=> Written
            /\ ToSet(slots)' = ToSet(slots)
            /\ Rotates(req[r])' <=> Rotates(req[r])
            /\ Forward(req[r])' <=> Forward(req[r])
        BY <1>1 DEF vars, Rotates, Written, Forward, ToSet
      <3>2. /\ AllOpen(req[r].to)' <=> AllOpen(req[r].to)
            /\ AllOpen(req[r].key)' <=> AllOpen(req[r].key)
            /\ AllOpen(req[r].from)' <=> AllOpen(req[r].from)
            /\ NoMoreThan({req[r].to})' <=> NoMoreThan({req[r].to})
            /\ NoMoreThan({req[r].key})' <=> NoMoreThan({req[r].key})
        BY <1>1 DEF vars, AllOpen, NoMoreThan
      <3>3. Relies(req[r])
        BY DEF IInv
      <3>. QED
        BY <3>1, <3>2, <3>3, ZenonT(60) DEF Relies
    <2>. QED
      BY <2>1, <2>2, <2>3 DEF IInv
  <1>2. ASSUME NEW r \in Requests, Request(r) PROVE IInv'
    BY <1>2, UseEnds, StartKeeps, OpenedKeeps, ResumeKeeps, ResumeControlKeeps,
       ResumeKeyKeeps, DiscardKeeps, CaptureReadKeeps, DeleteRunKeeps,
       StopKeeps, EnterKeeps, CreateJournalKeeps, WriteJournalKeeps,
       VaultReadKeeps, VaultCommitKeeps, RotateControlKeeps, RotateKeyKeeps, RotateUnlinkKeeps,
       UndoKeeps, UndoControlKeeps, LockKeeps, CreateLockedKeeps, LockFileKeeps,
       LockKeyKeeps, UnlockKeyKeeps, UnlockFileKeeps
    DEF Request
  <1>. QED
    BY <1>1, <1>2 DEF Next

LEMMA InitKeys == Init => IInv
  <1>. SUFFICES ASSUME Init PROVE IInv
    OBVIOUS
  <1>1. Files
    BY EvidenceAssumption DEF Init, Files, Written, Current, NoKey, AllOpen, NoMoreThan, Keys
  <1>2. Fresh
    BY DEF Init, Fresh, NoKey, NoJournal
  <1>3. \A r \in Requests : req[r].phase = "idle"
    BY DEF Init, Idle
  <1>4. \A r \in Requests : Relies(req[r])
    BY <1>3 DEF Relies
  <1>. QED
    BY <1>1, <1>2, <1>4, InitTyped DEF IInv

(* The invariant, of every behaviour in which keys are changed alone.      *)
THEOREM KeysInvariant == Spec /\ []Alone => []IInv
  <1>1. IInv /\ Alone /\ Alone' /\ [Next]_vars => IInv'
    BY NextKeeps
  <1>. QED
    BY <1>1, InitKeys, PTL DEF Spec

(* Wherever a rotation, a lock, an unlock or a recovery stops, one key     *)
(* that a restart finds opens every document of the vault.                 *)
THEOREM EvidenceIsRecoverable == Spec /\ []Alone => []EvidenceRecoverable
  <1>1. IInv => EvidenceRecoverable
    <2>. SUFFICES ASSUME IInv PROVE EvidenceRecoverable
      OBVIOUS
    <2>1. CASE ~Written
      <3>1. Current \in Keys /\ AllOpen(Current)
        BY <2>1 DEF IInv, Files, Written
      <3>2. Current \in Reachable
        BY <3>1 DEF Current, Reachable
      <3>. QED
        BY <3>1, <3>2 DEF EvidenceRecoverable
    <2>2. CASE Written
      <3>1. /\ journal.by \in Keys /\ journal.holds \in Keys
            /\ \/ keyfile = journal.by /\ AllOpen(journal.by)
               \/ keyfile = journal.by /\ AllOpen(journal.holds)
               \/ keyfile = journal.holds /\ AllOpen(journal.holds)
        BY <2>2 DEF IInv, Files, Written
      <3>. QED
        BY <3>1 DEF EvidenceRecoverable, Reachable
    <2>. QED
      BY <2>1, <2>2
  <1>. QED
    BY <1>1, KeysInvariant, PTL

(* The same of the control container, which is re-encrypted in a step of   *)
(* its own, unless a write of the key file failed.                         *)
THEOREM ControlIsRecoverable == Spec /\ []Alone => []ControlRecoverable
  <1>1. IInv => ControlRecoverable
    <2>. SUFFICES ASSUME IInv, ~badWrite PROVE ctl \in Reachable \cup {NoKey}
      BY DEF ControlRecoverable
    <2>1. CASE ~Written
      <3>1. Current \in Keys /\ ctl \in {Current, NoKey}
        BY <2>1 DEF IInv, Files, Written, NoMoreThan
      <3>. QED
        BY <3>1 DEF Current, Reachable
    <2>2. CASE Written
      <3>1. /\ journal.by \in Keys /\ journal.holds \in Keys
            /\ \/ keyfile = journal.by /\ ctl \in {journal.by, NoKey}
               \/ keyfile = journal.by /\ ctl \in {journal.by, journal.holds, NoKey}
               \/ keyfile = journal.holds /\ ctl \in {journal.holds, NoKey}
        BY <2>2 DEF IInv, Files, Written, NoMoreThan
      <3>. QED
        BY <3>1 DEF Reachable
    <2>. QED
      BY <2>1, <2>2
  <1>. QED
    BY <1>1, KeysInvariant, PTL

(* A service that opened reads everything, whatever was interrupted before *)
(* it, or finds the vault locked with the key that does.                   *)
THEOREM OpenServicesRead == Spec /\ []Alone => []OpenServiceReads
  <1>1. IInv => OpenServiceReads
    <2>. SUFFICES ASSUME IInv, NEW r \in Requests, At(r, "ready")
                  PROVE  \/ req[r].key # NoKey /\ Usable(req[r].key)
                         \/ /\ req[r].key = NoKey /\ lockedfile \in Keys
                            /\ Usable(lockedfile)
      BY DEF OpenServiceReads
    <2>1. req[r].key = keyfile /\ journal = NoJournal
      BY DEF IInv, Relies, At
    <2>2. Current \in Keys /\ AllOpen(Current) /\ NoMoreThan({Current})
      BY <2>1 DEF IInv, Files, Written
    <2>3. Usable(Current)
      BY <2>2 DEF Usable, NoMoreThan
    <2>. QED
      BY <2>1, <2>2, <2>3 DEF Current
  <1>. QED
    BY <1>1, KeysInvariant, PTL

(* When rotate_key reports success, the old key opens nothing any more.    *)
THEOREM OldKeysRetire == Spec /\ []Alone => []OldKeyRetired
  <1>1. IInv => OldKeyRetired
    <2>. SUFFICES ASSUME IInv, NEW r \in Requests, At(r, "audit"),
                         req[r].kind = "rotate"
                  PROVE  /\ \A i \in DOMAIN slots : slots[i].key # req[r].from
                         /\ badWrite \/ ctl # req[r].from
      BY DEF OldKeyRetired
    <2>1. /\ req[r].key = keyfile /\ journal = NoJournal
          /\ req[r].from # keyfile /\ req[r].from # NoKey /\ keyfile # NoKey
      BY DEF IInv, Relies, At
    <2>2. Current \in Keys /\ AllOpen(Current) /\ NoMoreThan({Current})
      BY <2>1 DEF IInv, Files, Written
    <2>. QED
      BY <2>1, <2>2 DEF Current, AllOpen, NoMoreThan
  <1>. QED
    BY <1>1, KeysInvariant, PTL
=============================================================================
