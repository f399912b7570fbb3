-------------------------- MODULE DelegatedContext --------------------------
(***************************************************************************)
(* Delegated retrieval: DelegatedContextService.prepare                    *)
(* (atmem/delegated/service.py), the turn reservations it rests on         *)
(* (atmem/control/store.py) and the part of ControlPlaneManager.prepare    *)
(* that chooses between the provider and AtMem's own memory.               *)
(*                                                                         *)
(* A host asks for the context of a turn, and asks again when it lost the  *)
(* answer.  The control store is one encrypted image: a call holds the     *)
(* writer lock from open to close, so calls run one after another, but     *)
(* the registrations are a file the operator edits at any time, a call can *)
(* die between any two steps, and a commit changes the image in memory     *)
(* before it replaces the file, which can fail.                            *)
(***************************************************************************)
EXTENDS FiniteSets

CONSTANTS
  Turns,
  Envelopes,    \* signed results the provider has made or will make
  TurnOf,       \* envelope -> the turn it is bound to
  Injects,      \* the envelopes that decide to inject; the others withhold
  Nonce,        \* envelope -> its nonce
  None

Dispositions == {"accepted", "provider_failure", "native_fallback"}

ASSUME DelegatedAssumption ==
  /\ TurnOf \in [Envelopes -> Turns]
  /\ Injects \subseteq Envelopes
  /\ Envelopes = DOMAIN Nonce
  /\ None \notin Turns \cup Envelopes \cup Dispositions

(* "untrusted": enabled for the agent, but match raises.                   *)
Configs == {"off", "on", "fallback", "untrusted"}
Phases == {"idle", "open", "match", "transport", "accept", "reserve",
           "failed", "deliver", "native", "close"}

VARIABLES
  cfg,       \* the registration of this scope, in delegated-context.json
  expired,   \* envelopes whose expires_at has passed
  disk,      \* the control container
  mem,       \* its image in the open store
  call,      \* the call that holds the store
  said       \* turn -> the contexts the host was told to inject, and by whom

vars == <<cfg, expired, disk, mem, call, said>>

Images == [acc: [Turns -> Envelopes \cup {None}],
           res: [Turns -> Dispositions \cup {None}],
           deliveries: SUBSET Turns]

NoAnswer == [authority |-> "nobody", env |-> None]
Answers == [authority: {"nobody", "delegated", "atmem_fallback", "atmem"},
            env: Envelopes \cup {None}]

CallRecs == [phase: Phases, turn: Turns \cup {None}, fallback: BOOLEAN,
             env: Envelopes \cup {None}, answer: Answers]

Idle == [phase |-> "idle", turn |-> None, fallback |-> FALSE, env |-> None,
         answer |-> NoAnswer]

Init ==
  /\ cfg = "off" /\ expired = {}
  /\ disk = [acc |-> [t \in Turns |-> None], res |-> [t \in Turns |-> None],
             deliveries |-> {}]
  /\ mem = disk
  /\ call = Idle
  /\ said = [t \in Turns |-> {}]

-----------------------------------------------------------------------------
At(phase) == call.phase = phase

Goes(phase) == call' = [call EXCEPT !.phase = phase]

Answering(authority, env) ==
  call' = [call EXCEPT !.phase = "close",
                       !.answer = [authority |-> authority, env |-> env]]

\* Mutant: no callback replaces the container.
Persisted_Memory(image) == mem' = image /\ UNCHANGED disk

(* _PersistingConnection: a commit takes effect in memory, then the        *)
(* container is replaced, or an exception says that it was not.            *)
Persisted(image) == mem' = image /\ disk' = image

Unpersisted(image) == image # disk /\ mem' = image /\ UNCHANGED disk

-----------------------------------------------------------------------------
(* ControlPlaneManager.prepare opens the store, then reads the file.       *)
Prepare(t) ==
  /\ At("idle")
  /\ call' = [Idle EXCEPT !.phase = "open", !.turn = t]
  /\ mem' = disk
  /\ UNCHANGED <<cfg, expired, disk, said>>

HasEnabled ==
  /\ At("open")
  /\ Goes(IF cfg = "off" THEN "native" ELSE "match")
  /\ UNCHANGED <<cfg, expired, disk, mem, said>>

(* An incomplete identity, an inactive mode or another workspace: nothing  *)
(* is injected.                                                            *)
FailClosed ==
  /\ At("open") /\ cfg # "off"
  /\ Answering("nobody", None)
  /\ UNCHANGED <<cfg, expired, disk, mem, said>>

(* DelegatedContextService.prepare reads the file again.                   *)
Match ==
  /\ At("match")
  /\ call' = [call EXCEPT
       !.phase = CASE cfg = "off" -> "native"
                   [] cfg = "untrusted" -> "reserve"
                   [] OTHER -> "transport",
       !.fallback = cfg = "fallback"]
  /\ UNCHANGED <<cfg, expired, disk, mem, said>>

(* The provider answers in time, with a result that verifies: bound to     *)
(* this turn, and fresh.                                                   *)
Verified(e) == TurnOf[e] = call.turn /\ e \notin expired

Transport(e) ==
  /\ At("transport")
  /\ Verified(e)
  /\ call' = [call EXCEPT !.phase = "accept", !.env = e]
  /\ UNCHANGED <<cfg, expired, disk, mem, said>>

(* No answer, a late one, or one that does not verify.                     *)
TransportFails ==
  /\ At("transport")
  /\ Goes("reserve")
  /\ UNCHANGED <<cfg, expired, disk, mem, said>>

-----------------------------------------------------------------------------
\* Mutant: only the turn itself is searched.
NonceUnused_Turn(e) ==
  mem.acc[call.turn] # None => Nonce[mem.acc[call.turn]] # Nonce[e]

(* accept_delegated_context.                                               *)
NonceUnused(e) ==
  \A t \in Turns : mem.acc[t] # None => Nonce[mem.acc[t]] # Nonce[e]

\* Mutant: a turn that was closed without a result accepts a late one.
MayAccept_Late(e) ==
  mem.acc[call.turn] = None /\ NonceUnused(e)

MayAccept(e) ==
  /\ mem.acc[call.turn] = None
  /\ mem.res[call.turn] = None
  /\ NonceUnused(e)

AcceptedImage(e) ==
  [mem EXCEPT !.acc[call.turn] = e, !.res[call.turn] = "accepted"]

Accept ==
  /\ At("accept") /\ MayAccept(call.env)
  /\ \/ Persisted(AcceptedImage(call.env)) /\ Goes("deliver")
     \/ Unpersisted(AcceptedImage(call.env)) /\ Goes("reserve")
  /\ UNCHANGED <<cfg, expired, said>>

(* The same envelope again is a retry, any other result is refused.        *)
AcceptAgain ==
  /\ At("accept") /\ ~MayAccept(call.env)
  /\ Goes(IF mem.acc[call.turn] = call.env THEN "deliver" ELSE "reserve")
  /\ UNCHANGED <<cfg, expired, disk, mem, said>>

(* reserve_delegated_failure closes the turn; a turn closed differently is *)
(* an error.                                                               *)
Disposition ==
  IF call.fallback THEN "native_fallback" ELSE "provider_failure"

\* Mutant: the last caller decides.
MayReserve_Always == TRUE

MayReserve == mem.res[call.turn] \in {None, Disposition}

Reserve ==
  LET image == [mem EXCEPT !.res[call.turn] = Disposition] IN
  /\ At("reserve") /\ MayReserve
  /\ \/ Persisted(image) /\ Goes("failed")
     \/ Unpersisted(image) /\ Answering("nobody", None)
  /\ UNCHANGED <<cfg, expired, said>>

ReserveRefused ==
  /\ At("reserve") /\ ~MayReserve
  /\ Answering("nobody", None)
  /\ UNCHANGED <<cfg, expired, disk, mem, said>>

(* The failure is evidence; then AtMem's own memory is used if the         *)
(* registration that failed says so.                                       *)
Failed ==
  /\ At("failed")
  /\ IF call.fallback THEN Goes("native") ELSE Answering("nobody", None)
  /\ UNCHANGED <<cfg, expired, disk, mem, said>>

-----------------------------------------------------------------------------
(* After acceptance: evidence, and request_delegated_delivery for inject.  *)
(* Whatever fails here leaves the turn accepted and nothing injected.      *)
Deliver ==
  LET image == [mem EXCEPT !.deliveries = @ \cup {call.turn}] IN
  /\ At("deliver") /\ call.env \in Injects
  /\ Persisted(image)
  /\ Answering("delegated", call.env)
  /\ UNCHANGED <<cfg, expired, said>>

Withhold ==
  /\ At("deliver") /\ call.env \notin Injects
  /\ Answering("nobody", None)
  /\ UNCHANGED <<cfg, expired, disk, mem, said>>

DeliveryFails ==
  LET image == [mem EXCEPT !.deliveries = @ \cup {call.turn}] IN
  /\ At("deliver") /\ call.env \in Injects
  /\ Unpersisted(image)
  /\ Answering("nobody", None)
  /\ UNCHANGED <<cfg, expired, said>>

(* AtMem's own retrieval, which may also find nothing.                     *)
Native ==
  /\ At("native")
  /\ \/ Answering(IF call.fallback THEN "atmem_fallback" ELSE "atmem", None)
     \/ Answering("nobody", None)
  /\ UNCHANGED <<cfg, expired, disk, mem, said>>

(* close persists what a failed commit left in memory; the answer leaves   *)
(* after it.                                                               *)
Heard == IF call.answer = NoAnswer THEN said
         ELSE [said EXCEPT ![call.turn] = @ \cup {call.answer}]

Close ==
  /\ At("close")
  /\ Persisted(mem)
  /\ said' = Heard
  /\ call' = Idle
  /\ UNCHANGED <<cfg, expired>>

(* An exception nothing handles, or a process that dies: the image in      *)
(* memory is gone.                                                         *)
Stop ==
  /\ ~At("idle")
  /\ call' = Idle
  /\ mem' = disk
  /\ UNCHANGED <<cfg, expired, disk, said>>

(* register, set_enabled, set_request_auth and remove replace the file.    *)
Configure(c) ==
  /\ cfg # c
  /\ cfg' = c
  /\ UNCHANGED <<expired, disk, mem, call, said>>

Expire(e) ==
  /\ e \notin expired
  /\ expired' = expired \cup {e}
  /\ UNCHANGED <<cfg, disk, mem, call, said>>

Next ==
  \/ \E t \in Turns : Prepare(t)
  \/ HasEnabled \/ FailClosed \/ Match
  \/ \E e \in Envelopes : Transport(e)
  \/ TransportFails
  \/ Accept \/ AcceptAgain \/ Reserve \/ ReserveRefused \/ Failed
  \/ Deliver \/ Withhold \/ DeliveryFails \/ Native
  \/ Close \/ Stop
  \/ \E c \in Configs : Configure(c)
  \/ \E e \in Envelopes : Expire(e)

Spec == Init /\ [][Next]_vars

-----------------------------------------------------------------------------
(* Every variable stays within its type: the rows of the control store,    *)
(* the call in progress, and what hosts were told.                         *)
TypeOK ==
  /\ cfg \in Configs /\ expired \in SUBSET Envelopes
  /\ disk \in Images /\ mem \in Images
  /\ call \in CallRecs
  /\ said \in [Turns -> SUBSET Answers]

(* However often a turn is prepared, whatever fails, comes late or is      *)
(* reconfigured in between, the host is given one delegated context or the *)
(* labelled fallback, never two results and never both.                    *)
OneAuthority ==
  \A t \in Turns : \A a, b \in said[t] :
    "atmem" \notin {a.authority, b.authority} => a = b

(* What the host was told is on disk before it is told: the acceptance and *)
(* the delivery of an injected result, the closed turn of a fallback.  No  *)
(* crash and no failed write sets evidence and exposure apart.             *)
AnsweredIsRecorded ==
  \A t \in Turns : \A a \in said[t] :
    /\ a.authority = "delegated" =>
         /\ a.env \in Injects
         /\ disk.acc[t] = a.env /\ t \in disk.deliveries
    /\ a.authority = "atmem_fallback" => disk.res[t] = "native_fallback"

(* A turn is settled once: an acceptance and a reservation agree, and      *)
(* neither is replaced by a late or a repeated result.                     *)
TurnSettledOnce ==
  [][\A t \in Turns : disk.res[t] # None =>
       disk'.res[t] = disk.res[t] /\ disk'.acc[t] = disk.acc[t]]_vars

(* A nonce buys one turn: results are not replayed across turns.           *)
NonceBuysOneTurn ==
  \A t, u \in Turns :
    disk.acc[t] # None /\ disk.acc[u] # None
      /\ Nonce[disk.acc[t]] = Nonce[disk.acc[u]] => t = u
=============================================================================
