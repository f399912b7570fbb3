---------------------------- MODULE EvidenceKeys ----------------------------
(***************************************************************************)
(* Keys of the protected evidence vault: atmem/evidence/service.py and     *)
(* evidence/store.py, with the encrypted control container they rotate     *)
(* (atmem/control/store.py).                                               *)
(*                                                                         *)
(* The vault is a SQLite file of sealed documents.  The documents of a     *)
(* partition share a slot, whose data key is wrapped with the vault key.   *)
(* The vault key is a file beside it; locking moves it into a sealed file; *)
(* rotation goes through a journal: the new key, sealed with the old one.  *)
(*                                                                         *)
(* Every request constructs a service of its own, which reads the key file *)
(* and finishes or discards an interrupted rotation.  rotate_key, lock,    *)
(* unlock and continuity hold the key transition lock, other requests and  *)
(* the construction of a service do not.  A step is one file operation or  *)
(* one SQLite transaction.                                                 *)
(***************************************************************************)
EXTENDS Integers, Sequences, FiniteSets, SequencesExt

CONSTANTS
  Requests,     \* requests that can be under way at the same time
  Runs,         \* partitions of captured evidence, one a run
  Workflows,    \* partitions of continuity workflows
  NoRequest,
  MaxKeys       \* bound: keys ever generated

ASSUME EvidenceAssumption ==
  /\ NoRequest \notin Requests
  /\ MaxKeys \in Nat \ {0}
  /\ Runs \cap Workflows = {}
  /\ {"audit", "tombstones", "vault"} \cap (Runs \cup Workflows) = {}

Keys == 1..MaxKeys
NoKey == 0
Partitions == Runs \cup Workflows \cup {"audit", "tombstones", "vault"}
Kinds == {"capture", "access", "delete", "continuity", "control",
          "rotate", "lock", "unlock"}
Phases == {"idle", "opening", "resume control", "resume key", "discard",
           "ready", "append", "audit", "enter", "journal", "vault", "commit",
           "control", "key", "unlink", "undo control", "lock file",
           "lock write", "lock key", "unlock file"}
NoJournal == [by |-> NoKey, holds |-> NoKey]

(* A file that was created and not yet written, or not to its end: its     *)
(* text does not parse.                                                    *)
Torn == -1
TornJournal == [by |-> Torn, holds |-> Torn]

VARIABLES
  keyfile,     \* the key in <vault>.key, or NoKey
  lockedfile,  \* the key sealed in <vault>.locked, or NoKey, or Torn
  journal,     \* <vault>.rotation
  slots,       \* the vault's key slots, in the order of their documents
  ctl,         \* the key that seals the control container, NoKey: no container
  made,        \* keys generated so far
  holder,      \* who holds the key transition lock
  req,         \* request -> where it is
  badWrite     \* whether write_key ever failed in a rotation

vars == <<keyfile, lockedfile, journal, slots, ctl, made, holder, req, badWrite>>
disk == <<keyfile, lockedfile, journal, slots, ctl>>

Slots == [part: Partitions, label: Partitions, key: Keys]

Idle == [phase |-> "idle", kind |-> "access", key |-> NoKey, from |-> NoKey,
         to |-> NoKey, seen |-> {}]

Init ==
  /\ keyfile = 1 /\ made = 1
  /\ lockedfile = NoKey /\ journal = NoJournal
  /\ slots = <<>> /\ ctl = NoKey
  /\ holder = NoRequest
  /\ req = [r \in Requests |-> Idle]
  /\ badWrite = FALSE

-----------------------------------------------------------------------------
At(r, phase) == req[r].phase = phase

Goes(r, phase) == req' = [req EXCEPT ![r].phase = phase]

Release(r) == holder' = IF holder = r THEN NoRequest ELSE holder

Done(r) ==
  /\ req' = [req EXCEPT ![r] = Idle]
  /\ Release(r)

(* A slot is found by a tag made from the vault key and a partition name,  *)
(* and opened with the key that made the tag: a key that wraps no slot of  *)
(* the partition gets a new one.                                           *)
Appended(ss, p, k) ==
  IF \E i \in DOMAIN ss : ss[i].label = p /\ ss[i].key = k THEN ss
  ELSE Append(ss, [part |-> p, label |-> p, key |-> k])

(* documents(): every one has to open.                                     *)
AllOpen(k) == \A i \in DOMAIN slots : slots[i].key = k

(* _key_opens_vault: the first one has to.                                 *)
OpensVault(k) == \A i \in DOMAIN slots : i = 1 => slots[i].key = k

(* reencrypt_control_container.                                            *)
Reencrypted(from, to) ==
  /\ ctl \in {NoKey, from, to}
  /\ ctl' = IF ctl = from THEN to ELSE ctl

-----------------------------------------------------------------------------
(* __init__ reads the key file.  Continuity constructs its service under   *)
(* the transition lock, everybody else outside it.                         *)
Start(r, kind) ==
  /\ At(r, "idle")
  /\ kind = "continuity" => holder = NoRequest
  /\ holder' = IF kind = "continuity" THEN r ELSE holder
  /\ req' = [req EXCEPT ![r].phase = "opening", ![r].kind = kind,
                        ![r].key = keyfile]
  /\ UNCHANGED <<disk, made, badWrite>>

\* Mutant: the service opens without a look at the journal.
NoRotation_Ignored(r) == TRUE

NoRotation(r) == req[r].key = NoKey \/ journal = NoJournal

Opened(r) ==
  /\ At(r, "opening")
  /\ NoRotation(r)
  /\ Goes(r, "ready")
  /\ UNCHANGED <<disk, made, holder, badWrite>>

\* Mutant: an interrupted rotation is always undone.
Candidate_None(k) == NoKey

(* The new key in a journal the current key opens, if the vault is already *)
(* under it.                                                               *)
Candidate(k) ==
  IF journal.by = k /\ OpensVault(journal.holds) THEN journal.holds ELSE NoKey

(* _resume_rotation reads the journal and tries the keys on the vault: it  *)
(* goes on with the rotation, drops the journal, or takes the vault for    *)
(* locked when the key opens neither.  A torn journal does not parse: the  *)
(* constructor raises, and the request can only Stop.                      *)
Resume(r) ==
  LET k == req[r].key
      c == Candidate(k) IN
  /\ At(r, "opening") /\ ~NoRotation(r)
  /\ journal # TornJournal
  /\ req' = [req EXCEPT ![r] =
       CASE c # NoKey -> [@ EXCEPT !.phase = "resume control", !.to = c]
         [] journal.by # k /\ ~OpensVault(k) ->
              [@ EXCEPT !.phase = "ready", !.key = NoKey]
         [] OTHER -> [@ EXCEPT !.phase = "discard"]]
  /\ UNCHANGED <<disk, made, holder, badWrite>>

\* Mutant: the container keeps its key.
ResumeControl_Forgotten(r) ==
  /\ At(r, "resume control")
  /\ Goes(r, "resume key")
  /\ UNCHANGED <<disk, made, holder, badWrite>>

ResumeControl(r) ==
  /\ At(r, "resume control")
  /\ Reencrypted(req[r].key, req[r].to)
  /\ Goes(r, "resume key")
  /\ UNCHANGED <<keyfile, lockedfile, journal, slots, made, holder, badWrite>>

ResumeKey(r) ==
  /\ At(r, "resume key")
  /\ keyfile' = req[r].to
  /\ req' = [req EXCEPT ![r].phase = "discard", ![r].key = req[r].to]
  /\ UNCHANGED <<lockedfile, journal, slots, ctl, made, holder, badWrite>>

(* unlink fails when another request was faster.                           *)
Discard(r) ==
  /\ At(r, "discard")
  /\ journal # NoJournal
  /\ journal' = NoJournal
  /\ Goes(r, "ready")
  /\ UNCHANGED <<keyfile, lockedfile, slots, ctl, made, holder, badWrite>>

-----------------------------------------------------------------------------
(* capture reads the settings and looks for a replay, then appends.        *)
CaptureRead(r) ==
  /\ At(r, "ready") /\ req[r].kind = "capture" /\ req[r].key # NoKey
  /\ AllOpen(req[r].key)
  /\ Goes(r, "append")
  /\ UNCHANGED <<disk, made, holder, badWrite>>

Capture(r, p) ==
  /\ At(r, "append")
  /\ slots' = Appended(slots, p, req[r].key)
  /\ Done(r)
  /\ UNCHANGED <<keyfile, lockedfile, journal, ctl, made, badWrite>>

(* _record_access of a view, grant or export, set_capture_mode(full), and  *)
(* the last step of the operations below: appends without reading.         *)
RecordAccess(r) ==
  /\ At(r, "audit") \/ (At(r, "ready") /\ req[r].kind = "access")
  /\ req[r].key # NoKey
  /\ slots' = Appended(slots, "audit", req[r].key)
  /\ Done(r)
  /\ UNCHANGED <<keyfile, lockedfile, journal, ctl, made, badWrite>>

(* The slots that are left, in their order, when those of a partition go.  *)
Without(ss, p) ==
  LET rest[n \in 0..Len(ss)] ==
        IF n = 0 THEN <<>>
        ELSE IF ss[n].part = p THEN rest[n - 1]
        ELSE Append(rest[n - 1], ss[n])
  IN  rest[Len(ss)]

(* delete_run removes the documents and then the slots without any; a      *)
(* deleted workflow leaves a tombstone.                                    *)
DeleteRun(r, p) ==
  LET k == req[r].key
      base == IF p \in Workflows /\ \E i \in DOMAIN slots : slots[i].part = p
              THEN Appended(slots, "tombstones", k) ELSE slots IN
  /\ At(r, "ready") /\ req[r].kind = "delete" /\ k # NoKey
  /\ AllOpen(k)
  /\ slots' = Without(base, p)
  /\ Goes(r, "audit")
  /\ UNCHANGED <<keyfile, lockedfile, journal, ctl, made, holder, badWrite>>

(* A continuity operation, in one transaction under the transition lock.   *)
Continue(r, w) ==
  /\ At(r, "ready") /\ req[r].kind = "continuity" /\ req[r].key # NoKey
  /\ AllOpen(req[r].key)
  /\ slots' = Appended(slots, w, req[r].key)
  /\ Done(r)
  /\ UNCHANGED <<keyfile, lockedfile, journal, ctl, made, badWrite>>

(* ControlStore opens the container with storage_key(), or creates it.     *)
OpenControl(r) ==
  /\ At(r, "ready") /\ req[r].kind = "control" /\ req[r].key # NoKey
  /\ ctl \in {NoKey, req[r].key}
  /\ ctl' = req[r].key
  /\ Done(r)
  /\ UNCHANGED <<keyfile, lockedfile, journal, slots, made, badWrite>>

-----------------------------------------------------------------------------
(* _key_transition: take the lock and read the key again.                  *)
Enter(r) ==
  /\ At(r, "ready") /\ req[r].kind \in {"rotate", "lock", "unlock"}
  /\ holder = NoRequest
  /\ holder' = r
  /\ req' = [req EXCEPT ![r].phase = "enter", ![r].key = keyfile]
  /\ UNCHANGED <<disk, made, badWrite>>

(* rotate_key: a journal, created exclusively and then written; the vault; *)
(* the control container; the key file; and the journal goes.              *)
CreateJournal(r) ==
  /\ At(r, "enter") /\ req[r].kind = "rotate" /\ req[r].key # NoKey
  /\ made < MaxKeys
  /\ journal = NoJournal
  /\ made' = made + 1
  /\ journal' = TornJournal
  /\ req' = [req EXCEPT ![r].phase = "journal", ![r].from = req[r].key,
                        ![r].to = made + 1]
  /\ UNCHANGED <<keyfile, lockedfile, slots, ctl, holder, badWrite>>

(* The file may have lost its name to the Discard of another request.      *)
WriteJournal(r) ==
  /\ At(r, "journal")
  /\ journal' = IF journal = TornJournal
                THEN [by |-> req[r].from, holds |-> req[r].to] ELSE journal
  /\ Goes(r, "vault")
  /\ UNCHANGED <<keyfile, lockedfile, slots, ctl, made, holder, badWrite>>

(* The slots are read before the transaction that rewraps them.            *)
VaultRead(r) ==
  /\ At(r, "vault")
  /\ req' = [req EXCEPT ![r].phase = "commit", ![r].seen = ToSet(slots)]
  /\ UNCHANGED <<disk, made, holder, badWrite>>

\* Mutant: no name for the documents it does not know.
PartitionFor_NoDefault(p) == IF p \in Runs \cup {"audit"} THEN p ELSE "None"

(* _partition_for_document names the partition of a slot's first document: *)
(* it knows runs, audits and settings.                                     *)
PartitionFor(p) == IF p \in Runs \cup {"audit"} THEN p ELSE "vault"

Rewrapped(r) ==
  [i \in DOMAIN slots |->
     IF slots[i] \in req[r].seen
     THEN [slots[i] EXCEPT !.label = PartitionFor(slots[i].part),
                           !.key = req[r].to]
     ELSE slots[i]]

TagsUnique(ss) ==
  \A i, j \in DOMAIN ss :
    ss[i].label = ss[j].label /\ ss[i].key = ss[j].key => i = j

(* A slot the key does not open, or two slots with one tag, fail the whole *)
(* transaction: nothing is rolled back, and the journal stays behind.      *)
VaultCommit(r) ==
  /\ At(r, "commit")
  /\ \A s \in req[r].seen : s.key = req[r].from
  /\ TagsUnique(Rewrapped(r))
  /\ slots' = Rewrapped(r)
  /\ req' = [req EXCEPT ![r].seen = {},
               ![r].phase = IF req[r].to = req[r].key THEN "undo control"
                            ELSE "control"]
  /\ UNCHANGED <<keyfile, lockedfile, journal, ctl, made, holder, badWrite>>

\* Mutant: a busy container is left for later.
RotateControl_Later(r) ==
  /\ At(r, "control")
  /\ Goes(r, "key")
  /\ UNCHANGED <<disk, made, holder, badWrite>>

RotateControl(r) ==
  /\ At(r, "control")
  /\ Reencrypted(req[r].from, req[r].to)
  /\ Goes(r, "key")
  /\ UNCHANGED <<keyfile, lockedfile, journal, slots, made, holder, badWrite>>

RotateKey(r) ==
  /\ At(r, "key")
  /\ keyfile' = req[r].to
  /\ Goes(r, "unlink")
  /\ UNCHANGED <<lockedfile, journal, slots, ctl, made, holder, badWrite>>

RotateUnlink(r) ==
  /\ At(r, "unlink")
  /\ journal' = NoJournal
  /\ req' = [req EXCEPT ![r].phase = "audit", ![r].key = req[r].to]
  /\ UNCHANGED <<keyfile, lockedfile, slots, ctl, made, holder, badWrite>>

(* The container is busy or does not open, or the key cannot be written:   *)
(* the vault is rotated back, then the container.  The journal stays.      *)
Undo(r) ==
  /\ At(r, "control") \/ At(r, "key")
  /\ badWrite' = (badWrite \/ At(r, "key"))
  /\ req' = [req EXCEPT ![r].phase = "vault", ![r].from = req[r].to,
                        ![r].to = req[r].from]
  /\ UNCHANGED <<disk, made, holder>>

UndoControl(r) ==
  /\ At(r, "undo control")
  /\ Reencrypted(req[r].from, req[r].to)
  /\ Done(r)
  /\ UNCHANGED <<keyfile, lockedfile, journal, slots, made, badWrite>>

-----------------------------------------------------------------------------
(* lock: record it, create the locked file, seal the key into it, remove   *)
(* the key.                                                                *)
Lock(r) ==
  /\ At(r, "enter") /\ req[r].kind = "lock" /\ req[r].key # NoKey
  /\ slots' = Appended(slots, "audit", req[r].key)
  /\ Goes(r, "lock file")
  /\ UNCHANGED <<keyfile, lockedfile, journal, ctl, made, holder, badWrite>>

CreateLocked(r) ==
  /\ At(r, "lock file")
  /\ lockedfile = NoKey
  /\ lockedfile' = Torn
  /\ Goes(r, "lock write")
  /\ UNCHANGED <<keyfile, journal, slots, ctl, made, holder, badWrite>>

LockFile(r) ==
  /\ At(r, "lock write")
  /\ lockedfile' = req[r].key
  /\ Goes(r, "lock key")
  /\ UNCHANGED <<keyfile, journal, slots, ctl, made, holder, badWrite>>

LockKey(r) ==
  /\ At(r, "lock key")
  /\ keyfile' = NoKey
  /\ Done(r)
  /\ UNCHANGED <<lockedfile, journal, slots, ctl, made, badWrite>>

(* unlock: the sealed key has to open the vault before it is written back. *)
UnlockKey(r) ==
  /\ At(r, "enter") /\ req[r].kind = "unlock" /\ req[r].key = NoKey
  /\ lockedfile \in Keys /\ OpensVault(lockedfile)
  /\ keyfile = NoKey
  /\ keyfile' = lockedfile
  /\ req' = [req EXCEPT ![r].phase = "unlock file", ![r].key = lockedfile]
  /\ UNCHANGED <<lockedfile, journal, slots, ctl, made, holder, badWrite>>

UnlockFile(r) ==
  /\ At(r, "unlock file")
  /\ lockedfile' = NoKey
  /\ Goes(r, "audit")
  /\ UNCHANGED <<keyfile, journal, slots, ctl, made, holder, badWrite>>

(* The request ends where it is: its process dies, it has nothing to do,   *)
(* or an exception that nothing handles reaches the caller: a busy file,   *)
(* a missing or a torn file, a key that does not open.                     *)
Stop(r) ==
  /\ ~At(r, "idle")
  /\ Done(r)
  /\ UNCHANGED <<disk, made, badWrite>>

Request(r) ==
  \/ \E kind \in Kinds : Start(r, kind)
  \/ Opened(r) \/ Resume(r) \/ ResumeControl(r) \/ ResumeKey(r) \/ Discard(r)
  \/ CaptureRead(r) \/ \E p \in Runs : Capture(r, p)
  \/ RecordAccess(r)
  \/ \E p \in Runs \cup Workflows : DeleteRun(r, p)
  \/ \E w \in Workflows : Continue(r, w)
  \/ OpenControl(r)
  \/ Enter(r) \/ CreateJournal(r) \/ WriteJournal(r)
  \/ VaultRead(r) \/ VaultCommit(r)
  \/ RotateControl(r) \/ RotateKey(r) \/ RotateUnlink(r)
  \/ Undo(r) \/ UndoControl(r)
  \/ Lock(r) \/ CreateLocked(r) \/ LockFile(r) \/ LockKey(r)
  \/ UnlockKey(r) \/ UnlockFile(r)
  \/ Stop(r)

Next == \E r \in Requests : Request(r)

Spec == Init /\ [][Next]_vars

-----------------------------------------------------------------------------
(* Every variable stays within its type: the files beside the vault, the   *)
(* slots in it, and what a request carries from step to step.              *)
TypeOK ==
  /\ keyfile \in Keys \cup {NoKey} /\ lockedfile \in Keys \cup {NoKey, Torn}
  /\ journal \in [by: Keys \cup {NoKey}, holds: Keys \cup {NoKey}]
                   \cup {TornJournal}
  /\ slots \in Seq(Slots)
  /\ ctl \in Keys \cup {NoKey} /\ made \in Keys
  /\ holder \in Requests \cup {NoRequest}
  /\ req \in [Requests -> [phase: Phases, kind: Kinds,
                           key: Keys \cup {NoKey}, from: Keys \cup {NoKey},
                           to: Keys \cup {NoKey}, seen: SUBSET Slots]]
  /\ badWrite \in BOOLEAN

(* The keys a restart can get at: the key file, what it opens of the       *)
(* journal, and the locked file.                                           *)
Reachable ==
  ({keyfile, lockedfile}
     \cup IF journal.by = keyfile THEN {journal.holds} ELSE {}) \cap Keys

(* At every moment, hence after a crash at any moment of rotate_key, lock, *)
(* unlock or _resume_rotation, one key that can still be found opens every *)
(* document of the vault.                                                  *)
EvidenceRecoverable == \E k \in Reachable : AllOpen(k)

(* The same of the control container, which rotate_key re-encrypts in a    *)
(* step of its own, unless a write of the key file failed: the rollback    *)
(* then rotates the vault back first, and the container loses its key when *)
(* it cannot follow.                                                       *)
ControlRecoverable == badWrite \/ ctl \in Reachable \cup {NoKey}

(* A service that opens reads everything, whatever was interrupted before  *)
(* it: either its key opens the vault and the container, or the vault is   *)
(* locked and the locked file holds the key that does.                     *)
Usable(k) == AllOpen(k) /\ (badWrite \/ ctl \in {NoKey, k})

OpenServiceReads ==
  \A r \in Requests : At(r, "ready") =>
    \/ req[r].key # NoKey /\ Usable(req[r].key)
    \/ req[r].key = NoKey /\ lockedfile \in Keys /\ Usable(lockedfile)

(* When rotate_key reports success the old key opens nothing any more, in  *)
(* the vault or in the container.                                          *)
OldKeyRetired ==
  \A r \in Requests : At(r, "audit") /\ req[r].kind = "rotate" =>
    /\ \A i \in DOMAIN slots : slots[i].key # req[r].from
    /\ badWrite \/ ctl # req[r].from
=============================================================================
