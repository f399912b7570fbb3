------------------------- MODULE HostBoundaryProofs -------------------------
(***************************************************************************)
(* HostBoundary for any number of tasks, sessions, hosts and operators.    *)
(***************************************************************************)
EXTENDS HostBoundary, TLAPS

(* What the gates passed so far have shown to a call; AuthorityDuringCall  *)
(* is its last phase.                                                      *)
Gate(c) ==
  /\ call[c].phase = "binding" /\ ~call[c].shadow => seen[c].active
  /\ call[c].phase \in {"act", "record", "acted"} =>
       /\ seen[c].active
       /\ call[c].kind = "write" \/ call[c].named # call[c].task =>
            call[c].task \in seen[c].bound

GateInv == \A c \in Hosts : Gate(c)

(* Every conjunct an action can disturb.                                   *)
IInv == TypeOK /\ GateInv /\ NoInheritedRows

-----------------------------------------------------------------------------
(* A row resolved for a call names a task.                                 *)
LEMMA BoundTasks ==
  ASSUME TypeOK, NEW c \in Hosts
  PROVE  Bound(c) \subseteq Tasks
BY DEF TypeOK, Rows, Bound

LEMMA AllowedTasks ==
  ASSUME TypeOK, NEW c \in Hosts
  PROVE  Allowed(c) \in [active: BOOLEAN, bound: SUBSET Tasks]
BY DEF TypeOK, Rows, Allowed

(* What resolve answers is a task, or nothing.                             *)
LEMMA TargetType ==
  ASSUME TypeOK, NEW c \in Hosts
  PROVE  /\ Target(c) \in Tasks \cup {None}
         /\ /\ Target(c) # None
            /\ call[c].kind = "write" \/ call[c].named # Target(c)
            => Target(c) \in Bound(c)
<1>1. Bound(c) \subseteq Tasks
  BY BoundTasks
<1>2. call[c].named \in Tasks \cup {None} /\ call[c].kind \in {"write", "prepare"}
  BY DEF TypeOK, CallRecs, Kinds
<1>3. Bound(c) # {} => (CHOOSE t \in Bound(c) : TRUE) \in Bound(c)
  OBVIOUS
<1> DEFINE pick == CHOOSE t \in Bound(c) : TRUE
<1>4. Resolved(c, None) = IF Bound(c) = {} THEN None ELSE pick
  BY DEF Resolved
<1>5. Resolved(c, None) = None \/ Resolved(c, None) \in Bound(c)
  BY <1>3, <1>4
<1> HIDE DEF pick
<1>6. CASE call[c].kind = "write"
  <2>1. Target(c) \in {None, Resolved(c, None)}
    BY <1>6 DEF Target
  <2> QED BY <2>1, <1>1, <1>5
<1>7. CASE call[c].kind = "prepare"
  <2>1. Target(c) = Resolved(c, call[c].named)
    BY <1>7 DEF Target
  <2>2. CASE call[c].named = None
    BY <2>1, <2>2, <1>1, <1>5, <1>7
  <2>3. CASE call[c].named # None
    <3>1. Target(c) \in {None, call[c].named}
      BY <2>1, <2>3 DEF Resolved
    <3> QED BY <3>1, <1>2, <1>7, <2>3
  <2> QED BY <2>2, <2>3
<1> QED BY <1>2, <1>6, <1>7

(* A call that goes on keeps what it saw and sees the state it gets to.    *)
LEMMA WatchGrows ==
  ASSUME TypeOK, Watch, NEW c \in Hosts, call'[c].phase # "idle"
  PROVE  /\ seen[c].active => seen'[c].active
         /\ seen[c].bound \subseteq seen'[c].bound
         /\ call[c].phase # "acted" =>
              /\ Allowed(c)'.active => seen'[c].active
              /\ Allowed(c)'.bound \subseteq seen'[c].bound
BY DEF Watch, TypeOK

(* The history keeps its shape.                                            *)
LEMMA WatchType ==
  ASSUME TypeOK, Watch, call' \in [Hosts -> CallRecs],
         bindings' \subseteq Rows
  PROVE  seen' \in [Hosts -> [active: BOOLEAN, bound: SUBSET Tasks]]
<1>1. ASSUME NEW c \in Hosts
      PROVE  Allowed(c)'.active \in BOOLEAN /\ Allowed(c)'.bound \subseteq Tasks
  BY DEF Allowed, Rows
<1>2. ASSUME NEW c \in Hosts
      PROVE  seen[c].active \in BOOLEAN /\ seen[c].bound \subseteq Tasks
  BY DEF TypeOK
<1>3. ASSUME NEW c \in Hosts
      PROVE  seen'[c] \in [active: BOOLEAN, bound: SUBSET Tasks]
  <2>1. CASE call'[c].phase = "idle"
    BY <2>1 DEF Watch, NothingSeen
  <2>2. CASE call'[c].phase # "idle" /\ call[c].phase = "acted"
    BY <2>2 DEF Watch, TypeOK
  <2>3. CASE call'[c].phase # "idle" /\ call[c].phase # "acted"
    <3>1. seen'[c] = [active |-> seen[c].active \/ Allowed(c)'.active,
                      bound |-> seen[c].bound \cup Allowed(c)'.bound]
      BY <2>3 DEF Watch
    <3> QED BY <3>1, <1>1, <1>2
  <2> QED BY <2>1, <2>2, <2>3
<1>4. seen' = [c \in Hosts |-> seen'[c]]
  BY DEF Watch
<1> QED BY <1>3, <1>4

(* A step that leaves a call alone leaves its gates passed.                *)
LEMMA GateKept ==
  ASSUME TypeOK, Watch, NEW c \in Hosts, Gate(c), call'[c] = call[c]
  PROVE  Gate(c)'
<1>1. CASE call[c].phase = "idle"
  BY <1>1 DEF Gate
<1>2. CASE call[c].phase # "idle"
  <2>1. /\ seen[c].active => seen'[c].active
        /\ seen[c].bound \subseteq seen'[c].bound
    BY <1>2, WatchGrows
  <2> QED BY <2>1 DEF Gate
<1> QED BY <1>1, <1>2

(* A call that goes idle has passed no gate.                               *)
LEMMA GateIdle ==
  ASSUME NEW c \in Hosts, call'[c].phase \in {"idle", "setting"}
  PROVE  Gate(c)'
BY DEF Gate

-----------------------------------------------------------------------------
LEMMA InitIInv ==
  ASSUME Init
  PROVE  IInv
<1>1. TypeOK
  BY BoundaryAssumption DEF Init, TypeOK, Settings, Lifecycles, Epochs, Phases,
     Kinds, Idle, NothingSeen, Exists, CallRecs
<1> QED BY <1>1 DEF Init, IInv, GateInv, Gate, Idle,
     NoInheritedRows

(* The types of everything but the history, as WatchType adds it.          *)
BodyType ==
  /\ mode \in Settings
  /\ task \in [Tasks -> [life: Lifecycles, inc: 0..MaxInc]]
  /\ epoch \in [Sessions -> Epochs]
  /\ bindings \subseteq Rows
  /\ deliveries \subseteq Deliveries
  /\ call \in [Hosts -> CallRecs]
  /\ pending \in [Operators -> PendingRows \cup {None}]
  /\ \A t \in Tasks : Exists(t) => task[t].inc > 0
  /\ \A c \in Hosts :
       /\ call[c].phase # "idle" => call[c].session \in Sessions
       /\ call[c].phase \in {"act", "record", "acted"} => call[c].task \in Tasks

LEMMA TypeSplit ==
  TypeOK <=> /\ BodyType
             /\ seen \in [Hosts -> [active: BOOLEAN, bound: SUBSET Tasks]]
BY DEF TypeOK, BodyType

LEMMA TypeNext ==
  ASSUME TypeOK, BodyType', Watch
  PROVE  TypeOK'
BY WatchType, TypeSplit DEF BodyType, TypeOK

LEMMA IdleType == Idle \in CallRecs
BY BoundaryAssumption DEF Idle, CallRecs, Phases, Kinds, Epochs

(* A step that changes one call and nothing else.                          *)
LEMMA CallMoves ==
  ASSUME TypeOK, NEW c \in Hosts, NEW r \in CallRecs,
         r.phase # "idle" => r.session \in Sessions,
         r.phase \in {"act", "record", "acted"} => r.task \in Tasks,
         call' = [call EXCEPT ![c] = r],
         UNCHANGED <<mode, task, epoch, bindings, deliveries, pending>>
  PROVE  BodyType'
BY DEF TypeOK, BodyType, Exists

(* The steps of one call.                                                  *)
LEMMA BeginIInv ==
  ASSUME IInv, Watch, NEW c \in Hosts, NEW k \in Kinds, NEW s \in Sessions,
         NEW t \in Tasks \cup {None}, Begin(c, k, s, t)
  PROVE  IInv'
<1> DEFINE r == [Idle EXCEPT !.phase = "setting", !.kind = k, !.session = s,
                             !.epoch = epoch[s], !.named = t]
<1>3. epoch[s] \in Epochs
  BY DEF IInv, TypeOK
<1>4. r \in CallRecs /\ r.phase = "setting" /\ r.session = s
  BY <1>3, IdleType DEF Idle, CallRecs, Phases
<1>1. BodyType'
  <2> HIDE DEF r
  <2> QED BY <1>4, CallMoves DEF Begin, IInv, r
<1>2. GateInv'
  <2> SUFFICES ASSUME NEW h \in Hosts PROVE Gate(h)'
    BY DEF GateInv
  <2>1. CASE h = c
    BY <2>1, GateIdle DEF Begin, IInv, TypeOK, Idle
  <2>2. CASE h # c
    BY <2>2, GateKept DEF Begin, IInv, TypeOK, GateInv
  <2> QED BY <2>1, <2>2
<1> QED BY <1>1, <1>2, TypeNext DEF Begin, IInv,
     NoInheritedRows, Exists

LEMMA CheckSettingIInv ==
  ASSUME IInv, Watch, NEW c \in Hosts, CheckSetting(c)
  PROVE  IInv'
<1> DEFINE refused == mode = "disabled" \/ (call[c].kind = "prepare" /\ mode = "shadow")
<1>1. call'[c] = IF refused THEN Idle
                 ELSE [call[c] EXCEPT !.phase = "binding", !.shadow = mode = "shadow"]
  BY DEF CheckSetting, IInv, TypeOK
<1>2. BodyType'
  <2>1. CASE refused
    <3>1. call' = [call EXCEPT ![c] = Idle]
      BY <2>1 DEF CheckSetting
    <3> QED BY <3>1, IdleType, CallMoves DEF CheckSetting, IInv, Idle
  <2>2. CASE ~refused
    <3> DEFINE r == [call[c] EXCEPT !.phase = "binding", !.shadow = mode = "shadow"]
    <3>1. call' = [call EXCEPT ![c] = r]
      BY <2>2 DEF CheckSetting
    <3>2. call[c] \in CallRecs /\ call[c].session \in Sessions
      BY DEF IInv, TypeOK, CheckSetting
    <3>3. r \in CallRecs /\ r.phase = "binding" /\ r.session = call[c].session
      BY <3>2 DEF CallRecs, Phases
    <3> HIDE DEF r
    <3> QED BY <3>1, <3>2, <3>3, CallMoves DEF CheckSetting, IInv
  <2> QED BY <2>1, <2>2
<1>3. ASSUME NEW h \in Hosts PROVE Gate(h)'
  <2>1. CASE h # c
    BY <2>1, GateKept DEF CheckSetting, IInv, TypeOK, GateInv
  <2>2. CASE h = c /\ refused
    BY <2>2, <1>1, GateIdle DEF Idle
  <2>3. CASE h = c /\ ~refused
    <3>1. call'[c].phase = "binding" /\ call'[c].shadow = (mode = "shadow")
      BY <2>3, <1>1 DEF IInv, TypeOK, CallRecs
    <3>2. Allowed(c)'.active = (mode = "active")
      BY DEF Allowed, CheckSetting
    <3>3. mode = "active" => seen'[c].active
      BY <3>1, <3>2, WatchGrows DEF CheckSetting, IInv
    <3>4. mode = "shadow" \/ mode = "active"
      BY <2>3 DEF IInv, TypeOK, Settings
    <3> QED BY <2>3, <3>1, <3>3, <3>4 DEF Gate
  <2> QED BY <2>1, <2>2, <2>3
<1> QED BY <1>2, <1>3, TypeNext DEF CheckSetting, IInv,
     NoInheritedRows, Exists, GateInv

LEMMA ResolveTaskIInv ==
  ASSUME IInv, Watch, NEW c \in Hosts, ResolveTask(c)
  PROVE  IInv'
<1>1. call'[c] = IF Target(c) = None \/ call[c].shadow THEN Idle
                 ELSE [call[c] EXCEPT !.phase = "act", !.task = Target(c)]
  BY DEF ResolveTask, IInv, TypeOK
<1>2. Target(c) \in Tasks \cup {None}
  BY TargetType DEF IInv
<1>3. BodyType'
  <2>1. CASE Target(c) = None \/ call[c].shadow
    <3>1. call' = [call EXCEPT ![c] = Idle]
      BY <2>1 DEF ResolveTask
    <3> QED BY <3>1, IdleType, CallMoves DEF ResolveTask, IInv, Idle
  <2>2. CASE Target(c) # None /\ ~call[c].shadow
    <3> DEFINE r == [call[c] EXCEPT !.phase = "act", !.task = Target(c)]
    <3>1. call' = [call EXCEPT ![c] = r]
      BY <2>2 DEF ResolveTask
    <3>2. /\ call[c] \in CallRecs /\ call[c].session \in Sessions
          /\ Target(c) \in Tasks
      BY <1>2, <2>2 DEF IInv, TypeOK, ResolveTask
    <3>3. /\ r \in CallRecs /\ r.phase = "act" /\ r.session = call[c].session
          /\ r.task = Target(c)
      BY <3>2 DEF CallRecs, Phases
    <3> HIDE DEF r
    <3> QED BY <3>1, <3>2, <3>3, CallMoves DEF ResolveTask, IInv
  <2> QED BY <2>1, <2>2
<1>4. ASSUME NEW h \in Hosts PROVE Gate(h)'
  <2>1. CASE h # c
    BY <2>1, GateKept DEF ResolveTask, IInv, TypeOK, GateInv
  <2>2. CASE h = c /\ (Target(c) = None \/ call[c].shadow)
    BY <2>2, <1>1, GateIdle DEF Idle
  <2>3. CASE h = c /\ Target(c) # None /\ ~call[c].shadow
    <3>1. /\ call'[c].phase = "act" /\ call'[c].task = Target(c)
          /\ call'[c].kind = call[c].kind /\ call'[c].named = call[c].named
          /\ call'[c].session = call[c].session /\ call'[c].epoch = call[c].epoch
      BY <2>3, <1>1 DEF IInv, TypeOK, CallRecs
    <3>2. seen[c].active
      BY <2>3 DEF IInv, GateInv, Gate, ResolveTask
    <3>3. Bound(c) \subseteq Allowed(c)'.bound
      BY <3>1 DEF Bound, SameKey, Allowed, ResolveTask
    <3>4. seen'[c].active /\ Bound(c) \subseteq seen'[c].bound
      BY <3>1, <3>2, <3>3, WatchGrows DEF ResolveTask, IInv
    <3>5. call[c].kind = "write" \/ call[c].named # Target(c)
            => Target(c) \in Bound(c)
      BY <2>3, TargetType DEF IInv
    <3> QED BY <2>3, <3>1, <3>4, <3>5 DEF Gate
  <2> QED BY <2>1, <2>2, <2>3
<1> QED BY <1>3, <1>4, TypeNext DEF ResolveTask, IInv,
     NoInheritedRows, Exists, GateInv

(* The other steps of a call move its phase, or end it.                    *)
LEMMA OtherCall ==
  ASSUME IInv, Watch, NEW c \in Hosts,
         \A h \in Hosts \ {c} : call'[h] = call[h],
         \/ call'[c].phase = "idle"
         \/ /\ call[c].phase \in {"act", "record"}
            /\ call'[c].phase \in {"record", "acted"}
            /\ call'[c].kind = call[c].kind /\ call'[c].named = call[c].named
            /\ call'[c].task = call[c].task
  PROVE  GateInv'
<1> SUFFICES ASSUME NEW h \in Hosts PROVE Gate(h)'
  BY DEF GateInv
<1>1. CASE h # c
  BY <1>1, GateKept DEF IInv, GateInv
<1>2. CASE h = c /\ call'[c].phase = "idle"
  BY <1>2, GateIdle
<1>3. CASE h = c /\ call'[c].phase # "idle"
  <2>1. /\ seen[c].active => seen'[c].active
        /\ seen[c].bound \subseteq seen'[c].bound
    BY <1>3, WatchGrows DEF IInv
  <2> QED BY <1>3, <2>1 DEF IInv, GateInv, Gate
<1> QED BY <1>1, <1>2, <1>3

LEMMA WriteIInv ==
  ASSUME IInv, Watch, NEW c \in Hosts, NEW life \in {"open", "paused", "terminal"},
         Write(c, life)
  PROVE  IInv'
<1>1. call[c] \in CallRecs /\ call[c].task \in Tasks /\ call[c].session \in Sessions
  BY DEF IInv, TypeOK, Write, At
<1>2. call' = [call EXCEPT ![c] = [call[c] EXCEPT !.phase = "acted"]]
  BY <1>1 DEF IInv, TypeOK, Write, Goes
<1>3. [call[c] EXCEPT !.phase = "acted"] \in CallRecs
  BY <1>1 DEF CallRecs, Phases
<1>4. BodyType'
  <2>1. task' \in [Tasks -> [life: Lifecycles, inc: 0..MaxInc]]
    BY <1>1 DEF Write, IInv, TypeOK, Lifecycles
  <2>2. \A t \in Tasks : (Exists(t) => task[t].inc > 0)'
    BY <1>1 DEF Write, IInv, TypeOK, Exists
  <2>3. /\ call' \in [Hosts -> CallRecs]
        /\ \A h \in Hosts :
             /\ call'[h].phase # "idle" => call'[h].session \in Sessions
             /\ call'[h].phase \in {"act", "record", "acted"} =>
                  call'[h].task \in Tasks
    BY <1>1, <1>2, <1>3 DEF IInv, TypeOK, CallRecs
  <2> QED BY <2>1, <2>2, <2>3 DEF Write, IInv, TypeOK, BodyType
<1>5. GateInv'
  BY <1>1, <1>2, OtherCall DEF IInv, TypeOK, Write, At, CallRecs
<1>6. NoInheritedRows'
  BY <1>1 DEF Write, IInv, TypeOK, NoInheritedRows, Exists, Rows, Deliveries
<1> QED BY <1>4, <1>5, <1>6, TypeNext DEF Write, IInv

LEMMA ReadTaskIInv ==
  ASSUME IInv, Watch, NEW c \in Hosts, ReadTask(c)
  PROVE  IInv'
<1>1. call[c] \in CallRecs /\ call[c].task \in Tasks /\ call[c].session \in Sessions
  BY DEF IInv, TypeOK, ReadTask, At
<1> DEFINE r == [call[c] EXCEPT !.phase = "record"]
<1>2. /\ r \in CallRecs /\ r.phase = "record" /\ r.session = call[c].session
      /\ r.task = call[c].task /\ r.kind = call[c].kind /\ r.named = call[c].named
  BY <1>1 DEF CallRecs, Phases
<1>3. call' = [call EXCEPT ![c] = IF Exists(call[c].task) THEN r ELSE Idle]
  BY DEF ReadTask
<1> HIDE DEF r
<1>4. PICK q \in {r, Idle} : call' = [call EXCEPT ![c] = q]
  BY <1>3
<1>5. BodyType'
  <2>1. /\ q \in CallRecs
        /\ q.phase # "idle" => q.session \in Sessions
        /\ q.phase \in {"act", "record", "acted"} => q.task \in Tasks
    <3>1. CASE q = r
      BY <3>1, <1>1, <1>2
    <3>2. CASE q = Idle
      BY <3>2, IdleType DEF Idle
    <3> QED BY <3>1, <3>2
  <2> QED BY <1>4, <2>1, CallMoves DEF ReadTask, IInv
<1>6. GateInv'
  BY <1>1, <1>2, <1>4, OtherCall DEF IInv, TypeOK, ReadTask, At, Idle
<1> QED BY <1>5, <1>6, TypeNext DEF ReadTask, IInv,
     NoInheritedRows, Exists

LEMMA RecordDeliveryIInv ==
  ASSUME IInv, Watch, NEW c \in Hosts, RecordDelivery(c)
  PROVE  IInv'
<1>1. call[c] \in CallRecs /\ call[c].task \in Tasks /\ call[c].session \in Sessions
  BY DEF IInv, TypeOK, RecordDelivery, At
<1> DEFINE r == [call[c] EXCEPT !.phase = "acted"]
<1>2. /\ r \in CallRecs /\ r.phase = "acted" /\ r.session = call[c].session
      /\ r.task = call[c].task /\ r.kind = call[c].kind /\ r.named = call[c].named
  BY <1>1 DEF CallRecs, Phases
<1>3. call' = [call EXCEPT ![c] = r]
  BY <1>1 DEF IInv, TypeOK, RecordDelivery, Goes
<1> HIDE DEF r
<1>4. deliveries' \subseteq Deliveries
  <2>1. [call |-> c, task |-> call[c].task, exposed |-> FALSE] \in Deliveries
    BY <1>1 DEF Deliveries
  <2> QED BY <2>1 DEF RecordDelivery, IInv, TypeOK
<1>5. BodyType'
  BY <1>1, <1>2, <1>3, <1>4 DEF RecordDelivery, IInv, TypeOK, BodyType, Exists
<1>6. GateInv'
  BY <1>1, <1>2, <1>3, OtherCall DEF IInv, TypeOK, RecordDelivery, At
<1>7. NoInheritedRows'
  BY DEF RecordDelivery, IInv, NoInheritedRows, Exists
<1> QED BY <1>5, <1>6, <1>7, TypeNext DEF RecordDelivery, IInv

LEMMA ReturnIInv ==
  ASSUME IInv, Watch, NEW c \in Hosts, Return(c)
  PROVE  IInv'
<1>1. BodyType'
  BY IdleType DEF Return, IInv, TypeOK, BodyType, Exists, Idle
<1>2. GateInv'
  BY OtherCall DEF IInv, TypeOK, Return, Idle
<1> QED BY <1>1, <1>2, TypeNext DEF Return, IInv,
     NoInheritedRows, Exists

-----------------------------------------------------------------------------
(* The steps that leave every call alone.                                  *)
LEMMA CallsAlone ==
  ASSUME IInv, Watch, UNCHANGED call
  PROVE  GateInv'
BY GateKept DEF IInv, GateInv

LEMMA BindReadIInv ==
  ASSUME IInv, Watch, NEW o \in Operators, NEW s \in Sessions, NEW t \in Tasks,
         BindRead(o, s, t)
  PROVE  IInv'
<1> DEFINE x == [session |-> s, epoch |-> epoch[s], task |-> t, inc |-> task[t].inc]
<1>1. x \in PendingRows
  <2>1. task[t].inc \in 1..MaxInc
    BY BoundaryAssumption DEF IInv, TypeOK, BindRead
  <2> QED BY <2>1 DEF IInv, TypeOK, PendingRows
<1> HIDE DEF x
<1>2. BodyType'
  BY <1>1 DEF BindRead, x, IInv, TypeOK, BodyType, Exists
<1>3. GateInv'
  BY CallsAlone DEF BindRead
<1> QED BY <1>2, <1>3, TypeNext DEF BindRead, IInv,
     NoInheritedRows, Exists

LEMMA RegisterIInv ==
  ASSUME IInv, Watch, NEW o \in Operators, Register(o)
  PROVE  IInv'
<1>1. pending[o] \in PendingRows
  BY DEF Register, IInv, TypeOK
<1> DEFINE x == pending[o]
           b == [session |-> x.session, epoch |-> x.epoch, task |-> x.task,
                 expired |-> FALSE, inc |-> x.inc,
                 live |-> Exists(x.task) /\ task[x.task].inc = x.inc]
<1>2. b \in Rows
  BY <1>1 DEF PendingRows, Rows
<1>3. bindings' = bindings \cup {b}
  BY DEF Register
<1>6. /\ b.session = x.session /\ b.epoch = x.epoch /\ b.task = x.task
      /\ b.inc = x.inc /\ b.live = (Exists(x.task) /\ task[x.task].inc = x.inc)
  OBVIOUS
<1> HIDE DEF b
<1>4. BodyType'
  BY <1>2, <1>3 DEF Register, IInv, TypeOK, BodyType, Exists
<1>5. GateInv'
  BY CallsAlone DEF Register
<1>7. NoInheritedRows'
  BY <1>3, <1>6 DEF Register, IInv, NoInheritedRows, Exists
<1> QED BY <1>4, <1>5, <1>7, TypeNext DEF IInv

LEMMA DropBindIInv ==
  ASSUME IInv, Watch, NEW o \in Operators, DropBind(o)
  PROVE  IInv'
<1>1. BodyType'
  BY DEF DropBind, IInv, TypeOK, BodyType, Exists
<1>2. GateInv'
  BY CallsAlone DEF DropBind
<1> QED BY <1>1, <1>2, TypeNext DEF DropBind, IInv,
     NoInheritedRows, Exists

LEMMA RevokeIInv ==
  ASSUME IInv, Watch, NEW b \in bindings, Revoke(b)
  PROVE  IInv'
<1>1. BodyType'
  BY DEF Revoke, IInv, TypeOK, BodyType, Exists
<1>2. GateInv'
  BY CallsAlone DEF Revoke
<1> QED BY <1>1, <1>2, TypeNext DEF Revoke, IInv,
     NoInheritedRows, Exists

LEMMA LapseIInv ==
  ASSUME IInv, Watch, NEW b \in bindings, Lapse(b)
  PROVE  IInv'
<1> DEFINE e == [b EXCEPT !.expired = TRUE]
<1>1. b \in Rows
  BY DEF IInv, TypeOK
<1>2. /\ e \in Rows /\ e.session = b.session /\ e.epoch = b.epoch
      /\ e.task = b.task /\ e.inc = b.inc /\ e.live = b.live
  BY <1>1 DEF Rows
<1>3. bindings' = (bindings \ {b}) \cup {e}
  BY DEF Lapse
<1> HIDE DEF e
<1>4. BodyType'
  BY <1>2, <1>3 DEF Lapse, IInv, TypeOK, BodyType, Exists
<1>5. GateInv'
  BY CallsAlone DEF Lapse
<1>7. NoInheritedRows'
  BY <1>2, <1>3 DEF Lapse, IInv, NoInheritedRows, Exists
<1> QED BY <1>4, <1>5, <1>7, TypeNext DEF IInv

LEMMA ConfirmIInv ==
  ASSUME IInv, Watch, NEW d \in deliveries, Confirm(d)
  PROVE  IInv'
<1>1. /\ [d EXCEPT !.exposed = TRUE] \in Deliveries
      /\ [d EXCEPT !.exposed = TRUE].task = d.task
  BY DEF IInv, TypeOK, Deliveries
<1>2. BodyType'
  BY <1>1 DEF Confirm, IInv, TypeOK, BodyType, Exists
<1>3. GateInv'
  BY CallsAlone DEF Confirm
<1>4. NoInheritedRows'
  BY <1>1 DEF Confirm, IInv, NoInheritedRows, Exists
<1> QED BY <1>2, <1>3, <1>4, TypeNext DEF Confirm, IInv

LEMMA SettingIInv ==
  ASSUME IInv, Watch, NEW m \in Settings, SetMode(m)
  PROVE  IInv'
<1>1. BodyType'
  BY DEF SetMode, IInv, TypeOK, BodyType, Exists
<1>2. GateInv'
  BY CallsAlone DEF SetMode
<1> QED BY <1>1, <1>2, TypeNext DEF SetMode, IInv,
     NoInheritedRows, Exists

LEMMA ResetIInv ==
  ASSUME IInv, Watch, NEW s \in Sessions, Reset(s)
  PROVE  IInv'
<1>1. BodyType'
  BY BoundaryAssumption DEF Reset, IInv, TypeOK, BodyType, Exists, Epochs
<1>2. GateInv'
  BY CallsAlone DEF Reset
<1> QED BY <1>1, <1>2, TypeNext DEF Reset, IInv,
     NoInheritedRows, Exists

LEMMA StartTaskIInv ==
  ASSUME IInv, Watch, NEW t \in Tasks, StartTask(t)
  PROVE  IInv'
<1>1. BodyType'
  BY BoundaryAssumption DEF StartTask, IInv, TypeOK, BodyType, Exists, Lifecycles
<1>2. GateInv'
  BY CallsAlone DEF StartTask
<1>3. NoInheritedRows'
  BY DEF StartTask, IInv, TypeOK, NoInheritedRows, Exists, Rows, Deliveries
<1> QED BY <1>1, <1>2, <1>3, TypeNext DEF StartTask, IInv

LEMMA MoveTaskIInv ==
  ASSUME IInv, Watch, NEW t \in Tasks, NEW life \in {"open", "paused", "terminal"},
         MoveTask(t, life)
  PROVE  IInv'
<1>1. BodyType'
  BY DEF MoveTask, IInv, TypeOK, BodyType, Exists, Lifecycles
<1>2. GateInv'
  BY CallsAlone DEF MoveTask
<1>3. NoInheritedRows'
  BY DEF MoveTask, IInv, TypeOK, NoInheritedRows, Exists, Rows, Deliveries
<1> QED BY <1>1, <1>2, <1>3, TypeNext DEF MoveTask, IInv

LEMMA ForgetIInv ==
  ASSUME IInv, Watch, NEW t \in Tasks, Forget(t)
  PROVE  IInv'
<1>1. BodyType'
  BY DEF Forget, IInv, TypeOK, BodyType, Exists, Lifecycles
<1>2. GateInv'
  BY CallsAlone DEF Forget
<1>3. NoInheritedRows'
  BY DEF Forget, Derived, IInv, TypeOK, NoInheritedRows, Exists, Rows, Deliveries
<1> QED BY <1>1, <1>2, <1>3, TypeNext DEF IInv

-----------------------------------------------------------------------------
LEMMA NextIInv ==
  ASSUME IInv, [Next]_vars
  PROVE  IInv'
<1>1. CASE UNCHANGED vars
  BY <1>1 DEF vars, IInv, TypeOK, GateInv, Gate,
     NoInheritedRows, Exists
<1>2. ASSUME Watch, NEW c \in Hosts, CallStep(c)
      PROVE  IInv'
  BY <1>2, BeginIInv, CheckSettingIInv, ResolveTaskIInv, WriteIInv, ReadTaskIInv,
     RecordDeliveryIInv, ReturnIInv DEF CallStep
<1>3. ASSUME Watch, Operator
      PROVE  IInv'
  BY <1>3, BindReadIInv, RegisterIInv, DropBindIInv, RevokeIInv, SettingIInv,
     StartTaskIInv, ForgetIInv DEF Operator
<1>4. ASSUME Watch, Environment
      PROVE  IInv'
  BY <1>4, ConfirmIInv, LapseIInv, ResetIInv, MoveTaskIInv DEF Environment
<1> QED BY <1>1, <1>2, <1>3, <1>4 DEF Next

LEMMA Invariance == Spec => []IInv
BY InitIInv, NextIInv, PTL DEF Spec

(* Every variable keeps its shape, for any numbers of tasks and callers.   *)
THEOREM TypeCorrect == Spec => []TypeOK
<1>1. IInv => TypeOK
  BY DEF IInv
<1> QED BY <1>1, Invariance, PTL

(* What the operator withdrew before a host's call began has no effect     *)
(* through that call, however enablement, bindings, resets and forgetting  *)
(* interleave with its gates.                                              *)
THEOREM AuthorityHolds == Spec => []AuthorityDuringCall
<1>1. IInv => AuthorityDuringCall
  BY DEF IInv, GateInv, Gate, AuthorityDuringCall
<1> QED BY <1>1, Invariance, PTL

(* Forgetting a task leaves no delivery of it, and no binding that was     *)
(* registered while it was there, to a later task of that identifier.      *)
THEOREM NoInheritance == Spec => []NoInheritedRows
<1>1. IInv => NoInheritedRows
  BY DEF IInv
<1> QED BY <1>1, Invariance, PTL
=============================================================================
