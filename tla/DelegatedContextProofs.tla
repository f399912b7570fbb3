----------------------- MODULE DelegatedContextProofs -----------------------
(***************************************************************************)
(* DelegatedContext for any turns and results, and any assignment of       *)
(* nonces.                                                                 *)
(***************************************************************************)
EXTENDS DelegatedContext, TLAPS

(* Image b keeps every turn that image a settled.                          *)
Keeps(a, b) ==
  /\ \A t \in Turns : a.res[t] # None =>
       b.res[t] = a.res[t] /\ b.acc[t] = a.acc[t]
  /\ a.deliveries \subseteq b.deliveries

(* In one image: a turn is closed as accepted exactly when it has a        *)
(* result, and no nonce has two turns.                                     *)
Sound(a) ==
  /\ \A t \in Turns : a.acc[t] # None <=> a.res[t] = "accepted"
  /\ \A t, u \in Turns :
       a.acc[t] # None /\ a.acc[u] # None /\ Nonce[a.acc[t]] = Nonce[a.acc[u]]
         => t = u

ImageInv == Sound(disk) /\ Sound(mem) /\ Keeps(disk, mem)

(* An answer that names an authority is backed by the container.           *)
Backed(t, a, image) ==
  /\ a.authority \in {"delegated", "atmem_fallback", "atmem"}
  /\ a.authority = "delegated" =>
       a.env \in Injects /\ image.acc[t] = a.env /\ t \in image.deliveries
  /\ a.authority = "atmem_fallback" =>
       a.env = None /\ image.res[t] = "native_fallback"

SaidInv == \A t \in Turns : \A a \in said[t] : Backed(t, a, disk)

(* What the call may rely on in each phase.  Only a commit that was not    *)
(* persisted sets the image apart from the container, and it ends the call *)
(* without an answer.                                                      *)
CallInv ==
  /\ call.phase # "idle" => call.turn \in Turns
  /\ call.phase \notin {"reserve", "close"} => mem = disk
  /\ call.phase = "open" => ~call.fallback
  /\ call.phase \in {"accept", "deliver"} => call.env \in Envelopes
  /\ call.phase = "deliver" => disk.acc[call.turn] = call.env
  /\ call.phase = "failed" => disk.res[call.turn] = Disposition
  /\ call.phase = "native" /\ call.fallback =>
       disk.res[call.turn] = "native_fallback"
  /\ call.phase = "close" =>
       call.answer = NoAnswer \/ Backed(call.turn, call.answer, disk)

IInv == TypeOK /\ ImageInv /\ SaidInv /\ CallInv

-----------------------------------------------------------------------------
LEMMA KeepsItself == \A a : Keeps(a, a)
BY DEF Keeps

LEMMA BackedKept ==
  ASSUME NEW a \in Images, NEW b \in Images, Keeps(a, b), Sound(a),
         NEW t \in Turns, NEW x, Backed(t, x, a)
  PROVE  Backed(t, x, b)
<1>1. x.authority = "delegated" => a.acc[t] # None
  BY DelegatedAssumption DEF Backed
<1>2. x.authority = "delegated" => a.res[t] # None
  BY <1>1, DelegatedAssumption DEF Sound, Dispositions
<1>3. a.res[t] = "native_fallback" => a.res[t] # None
  BY DelegatedAssumption DEF Dispositions
<1>4. a.res[t] # None => b.res[t] = a.res[t] /\ b.acc[t] = a.acc[t]
  BY DEF Keeps
<1>5. a.deliveries \subseteq b.deliveries
  BY DEF Keeps
<1> QED BY <1>2, <1>3, <1>4, <1>5 DEF Backed

(* accept_delegated_context: the result settles an open turn.              *)
LEMMA AcceptSound ==
  ASSUME mem \in Images, Sound(mem), call.turn \in Turns, NEW e \in Envelopes,
         MayAccept(e)
  PROVE  /\ AcceptedImage(e) \in Images /\ Sound(AcceptedImage(e))
         /\ Keeps(mem, AcceptedImage(e))
         /\ AcceptedImage(e).acc[call.turn] = e
<1> DEFINE i == AcceptedImage(e)
<1>1. /\ i.acc = [mem.acc EXCEPT ![call.turn] = e]
      /\ i.res = [mem.res EXCEPT ![call.turn] = "accepted"]
      /\ i.deliveries = mem.deliveries
  BY DEF AcceptedImage, Images
<1>2. i \in Images
  BY DEF AcceptedImage, Images, Dispositions
<1>3. e # None
  BY DelegatedAssumption
<1> HIDE DEF i
<1>4. \A t \in Turns : i.acc[t] = IF t = call.turn THEN e ELSE mem.acc[t]
  BY <1>1 DEF Images
<1>5. \A t \in Turns : i.res[t] = IF t = call.turn THEN "accepted" ELSE mem.res[t]
  BY <1>1 DEF Images
<1>6. Sound(i)
  BY <1>3, <1>4, <1>5 DEF Sound, MayAccept, NonceUnused
<1>7. Keeps(mem, i)
  BY <1>1, <1>4, <1>5 DEF Keeps, MayAccept
<1> QED BY <1>2, <1>4, <1>6, <1>7 DEF i

(* reserve_delegated_failure: an open turn is closed without a result.     *)
LEMMA ReserveSound ==
  ASSUME mem \in Images, Sound(mem), call.turn \in Turns, MayReserve
  PROVE  LET i == [mem EXCEPT !.res[call.turn] = Disposition]
         IN  /\ i \in Images /\ Sound(i) /\ Keeps(mem, i)
             /\ i.res[call.turn] = Disposition
<1> DEFINE i == [mem EXCEPT !.res[call.turn] = Disposition]
<1>1. /\ i.acc = mem.acc /\ i.deliveries = mem.deliveries
      /\ i.res = [mem.res EXCEPT ![call.turn] = Disposition]
  BY DEF Images
<1>2. Disposition \in {"native_fallback", "provider_failure"}
  BY DEF Disposition
<1>3. i \in Images
  BY <1>2 DEF Images, Dispositions
<1> HIDE DEF i
<1>4. \A t \in Turns : i.res[t] = IF t = call.turn THEN Disposition ELSE mem.res[t]
  BY <1>1 DEF Images
<1>5. mem.res[call.turn] # "accepted"
  BY <1>2, DelegatedAssumption DEF MayReserve, Dispositions
<1>6. Sound(i)
  BY <1>1, <1>2, <1>4, <1>5 DEF Sound
<1>7. Keeps(mem, i)
  BY <1>1, <1>4 DEF Keeps, MayReserve
<1> QED BY <1>3, <1>4, <1>6, <1>7 DEF i

LEMMA DeliverSound ==
  ASSUME mem \in Images, Sound(mem), call.turn \in Turns
  PROVE  LET i == [mem EXCEPT !.deliveries = @ \cup {call.turn}]
         IN  /\ i \in Images /\ Sound(i) /\ Keeps(mem, i)
             /\ i.acc = mem.acc /\ call.turn \in i.deliveries
BY DEF Images, Sound, Keeps

LEMMA KeepsChain ==
  ASSUME NEW a \in Images, NEW b \in Images, NEW c \in Images,
         Keeps(a, b), Keeps(b, c)
  PROVE  Keeps(a, c)
BY DEF Keeps

(* What a commit, persisted or not, does to the images.                    *)
LEMMA CommitInv ==
  ASSUME TypeOK, ImageInv, SaidInv, NEW i \in Images, Sound(i), Keeps(mem, i),
         Persisted(i) \/ Unpersisted(i), UNCHANGED said
  PROVE  ImageInv' /\ SaidInv' /\ disk' \in Images /\ mem' \in Images
<1>1. Keeps(disk, i)
  BY KeepsChain DEF TypeOK, ImageInv
<1>2. disk' \in {disk, i} /\ mem' = i
  BY DEF Persisted, Unpersisted
<1>3. disk' \in Images /\ Sound(disk') /\ Keeps(disk, disk') /\ Keeps(disk', mem')
  BY <1>1, <1>2, KeepsItself DEF TypeOK, ImageInv
<1>4. SaidInv'
  BY <1>3, BackedKept DEF SaidInv, TypeOK, ImageInv
<1> QED BY <1>2, <1>3, <1>4 DEF ImageInv

(* A step that writes nothing.                                             *)
LEMMA QuietInv ==
  ASSUME IInv, UNCHANGED <<disk, mem, said>>
  PROVE  ImageInv' /\ SaidInv'
BY DEF IInv, ImageInv, SaidInv

(* How a step moves the call.                                              *)
LEMMA GoesOn ==
  ASSUME call \in CallRecs, NEW p \in Phases, Goes(p)
  PROVE  /\ call' \in CallRecs /\ call'.phase = p /\ call'.turn = call.turn
         /\ call'.fallback = call.fallback /\ call'.env = call.env
BY DEF CallRecs, Goes

LEMMA AnswersWith ==
  ASSUME call \in CallRecs, NEW a, NEW e, [authority |-> a, env |-> e] \in Answers,
         Answering(a, e)
  PROVE  /\ call' \in CallRecs /\ call'.phase = "close" /\ call'.turn = call.turn
         /\ call'.answer = [authority |-> a, env |-> e]
BY DEF CallRecs, Answering, Phases

LEMMA SaysNothing ==
  ASSUME call \in CallRecs, call.turn \in Turns, Answering("nobody", None)
  PROVE  call' \in CallRecs /\ CallInv'
<1>1. [authority |-> "nobody", env |-> None] \in Answers
  BY DEF Answers
<1>2. /\ call' \in CallRecs /\ call'.phase = "close" /\ call'.turn = call.turn
      /\ call'.answer = NoAnswer
  BY <1>1, AnswersWith DEF NoAnswer
<1> QED BY <1>2 DEF CallInv

LEMMA IdleInv ==
  ASSUME call' = Idle, mem' = disk'
  PROVE  call' \in CallRecs /\ CallInv'
BY DEF Idle, CallRecs, CallInv, Phases, Answers, NoAnswer

-----------------------------------------------------------------------------
LEMMA InitIInv == Init => IInv
<1> SUFFICES ASSUME Init PROVE IInv
  OBVIOUS
<1>1. disk \in Images /\ mem \in Images
  BY DEF Init, Images
<1>2. Idle \in CallRecs
  BY DEF Idle, CallRecs, Phases, Answers, NoAnswer
<1>3. TypeOK
  BY <1>1, <1>2 DEF Init, TypeOK, Configs
<1>4. Sound(disk)
  BY DelegatedAssumption DEF Init, Sound, Dispositions
<1>5. ImageInv
  BY <1>4, KeepsItself DEF Init, ImageInv
<1> QED BY <1>3, <1>5 DEF Init, IInv, SaidInv, CallInv, Idle

LEMMA PrepareIInv ==
  ASSUME IInv, NEW t \in Turns, Prepare(t)
  PROVE  IInv'
<1>1. mem = disk
  BY DEF IInv, CallInv, Prepare, At
<1>2. ImageInv' /\ SaidInv'
  BY <1>1, QuietInv DEF Prepare
<1>3. /\ call' \in CallRecs /\ call'.phase = "open" /\ call'.turn = t
      /\ call'.fallback = FALSE
  BY DEF Prepare, Idle, CallRecs, Phases, Answers, NoAnswer
<1>4. CallInv'
  BY <1>1, <1>3 DEF CallInv, Prepare
<1> QED BY <1>2, <1>3, <1>4 DEF IInv, TypeOK, Prepare

LEMMA HasEnabledIInv ==
  ASSUME IInv, HasEnabled
  PROVE  IInv'
<1>1. PICK p \in {"native", "match"} : Goes(p)
  BY DEF HasEnabled
<1>2. /\ call' \in CallRecs /\ call'.phase = p /\ call'.turn = call.turn
      /\ call'.fallback = call.fallback
  BY <1>1, GoesOn DEF IInv, TypeOK, Phases
<1>3. CallInv'
  BY <1>2 DEF CallInv, IInv, HasEnabled, At
<1> QED BY <1>2, <1>3, QuietInv DEF IInv, TypeOK, HasEnabled

LEMMA FailClosedIInv ==
  ASSUME IInv, FailClosed
  PROVE  IInv'
<1>1. call' \in CallRecs /\ CallInv'
  BY SaysNothing DEF IInv, TypeOK, CallInv, FailClosed, At
<1> QED BY <1>1, QuietInv DEF IInv, TypeOK, FailClosed

LEMMA MatchIInv ==
  ASSUME IInv, Match
  PROVE  IInv'
<1>1. PICK p \in {"native", "reserve", "transport"} :
        /\ call' = [call EXCEPT !.phase = p, !.fallback = cfg = "fallback"]
        /\ p = "native" => cfg = "off"
  BY DEF Match
<1>2. /\ call' \in CallRecs /\ call'.phase = p /\ call'.turn = call.turn
      /\ call'.fallback = (cfg = "fallback")
  BY <1>1 DEF IInv, TypeOK, CallRecs, Phases
<1>3. CallInv'
  BY <1>1, <1>2 DEF CallInv, IInv, Match, At
<1> QED BY <1>2, <1>3, QuietInv DEF IInv, TypeOK, Match

LEMMA TransportIInv ==
  ASSUME IInv, NEW e \in Envelopes, Transport(e)
  PROVE  IInv'
<1>1. /\ call' \in CallRecs /\ call'.phase = "accept" /\ call'.turn = call.turn
      /\ call'.env = e
  BY DEF IInv, TypeOK, CallRecs, Phases, Transport
<1>2. CallInv'
  BY <1>1 DEF CallInv, IInv, Transport, At
<1> QED BY <1>1, <1>2, QuietInv DEF IInv, TypeOK, Transport

LEMMA TransportFailsIInv ==
  ASSUME IInv, TransportFails
  PROVE  IInv'
<1>1. /\ call' \in CallRecs /\ call'.phase = "reserve" /\ call'.turn = call.turn
  BY GoesOn DEF IInv, TypeOK, TransportFails, Phases
<1>2. CallInv'
  BY <1>1 DEF CallInv, IInv, TransportFails, At
<1> QED BY <1>1, <1>2, QuietInv DEF IInv, TypeOK, TransportFails

LEMMA AcceptIInv ==
  ASSUME IInv, Accept
  PROVE  IInv'
<1>1. call.turn \in Turns /\ call.env \in Envelopes /\ mem \in Images
  BY DEF IInv, TypeOK, CallInv, Accept, At
<1> DEFINE i == AcceptedImage(call.env)
<1>2. i \in Images /\ Sound(i) /\ Keeps(mem, i) /\ i.acc[call.turn] = call.env
  BY <1>1, AcceptSound DEF IInv, ImageInv, Accept
<1> HIDE DEF i
<1>3. ImageInv' /\ SaidInv' /\ disk' \in Images /\ mem' \in Images
  BY <1>2, CommitInv DEF IInv, Accept, i
<1>4. call' \in CallRecs /\ CallInv'
  <2>1. CASE Persisted(i) /\ Goes("deliver")
    <3>1. /\ call' \in CallRecs /\ call'.phase = "deliver"
          /\ call'.turn = call.turn /\ call'.env = call.env
      BY <2>1, GoesOn DEF IInv, TypeOK, Phases
    <3> QED BY <1>1, <1>2, <2>1, <3>1 DEF CallInv, Persisted
  <2>2. CASE Unpersisted(i) /\ Goes("reserve")
    <3>1. /\ call' \in CallRecs /\ call'.phase = "reserve"
          /\ call'.turn = call.turn
      BY <2>2, GoesOn DEF IInv, TypeOK, Phases
    <3> QED BY <1>1, <3>1 DEF CallInv
  <2> QED BY <2>1, <2>2 DEF Accept, i
<1> QED BY <1>3, <1>4 DEF IInv, TypeOK, Accept

LEMMA AcceptAgainIInv ==
  ASSUME IInv, AcceptAgain
  PROVE  IInv'
<1>1. call.turn \in Turns /\ call.env \in Envelopes /\ mem = disk
  BY DEF IInv, CallInv, AcceptAgain, At
<1>2. PICK p \in {"deliver", "reserve"} :
        Goes(p) /\ (p = "deliver" => mem.acc[call.turn] = call.env)
  BY DEF AcceptAgain
<1>3. /\ call' \in CallRecs /\ call'.phase = p /\ call'.turn = call.turn
      /\ call'.env = call.env
  BY <1>2, GoesOn DEF IInv, TypeOK, Phases
<1>4. CallInv'
  BY <1>1, <1>2, <1>3 DEF CallInv, AcceptAgain
<1> QED BY <1>3, <1>4, QuietInv DEF IInv, TypeOK, AcceptAgain

LEMMA ReserveIInv ==
  ASSUME IInv, Reserve
  PROVE  IInv'
<1>1. call.turn \in Turns /\ mem \in Images
  BY DEF IInv, TypeOK, CallInv, Reserve, At
<1> DEFINE i == [mem EXCEPT !.res[call.turn] = Disposition]
<1>2. i \in Images /\ Sound(i) /\ Keeps(mem, i) /\ i.res[call.turn] = Disposition
  BY <1>1, ReserveSound DEF IInv, ImageInv, Reserve
<1>3. \/ Persisted(i) /\ Goes("failed")
      \/ Unpersisted(i) /\ Answering("nobody", None)
  BY DEF Reserve
<1> HIDE DEF i
<1>4. ImageInv' /\ SaidInv' /\ disk' \in Images /\ mem' \in Images
  BY <1>2, <1>3, CommitInv DEF IInv, Reserve
<1>5. call' \in CallRecs /\ CallInv'
  <2>1. CASE Persisted(i) /\ Goes("failed")
    <3>1. /\ call' \in CallRecs /\ call'.phase = "failed"
          /\ call'.turn = call.turn /\ call'.fallback = call.fallback
      BY <2>1, GoesOn DEF IInv, TypeOK, Phases
    <3>2. Disposition' = Disposition
      BY <3>1 DEF Disposition
    <3> QED BY <1>1, <1>2, <2>1, <3>1, <3>2 DEF CallInv, Persisted
  <2>2. CASE Unpersisted(i) /\ Answering("nobody", None)
    BY <1>1, <2>2, SaysNothing DEF IInv, TypeOK
  <2> QED BY <1>3, <2>1, <2>2
<1> QED BY <1>4, <1>5 DEF IInv, TypeOK, Reserve

LEMMA ReserveRefusedIInv ==
  ASSUME IInv, ReserveRefused
  PROVE  IInv'
<1>1. call' \in CallRecs /\ CallInv'
  BY SaysNothing DEF IInv, TypeOK, CallInv, ReserveRefused, At
<1> QED BY <1>1, QuietInv DEF IInv, TypeOK, ReserveRefused

LEMMA FailedIInv ==
  ASSUME IInv, Failed
  PROVE  IInv'
<1>1. call.turn \in Turns /\ mem = disk /\ disk.res[call.turn] = Disposition
  BY DEF IInv, CallInv, Failed, At
<1>2. call' \in CallRecs /\ CallInv'
  <2>1. CASE call.fallback
    <3>1. /\ call' \in CallRecs /\ call'.phase = "native"
          /\ call'.turn = call.turn
      BY <2>1, GoesOn DEF IInv, TypeOK, Phases, Failed
    <3> QED BY <1>1, <2>1, <3>1 DEF CallInv, Failed, Disposition
  <2>2. CASE ~call.fallback
    BY <1>1, <2>2, SaysNothing DEF IInv, TypeOK, Failed
  <2> QED BY <2>1, <2>2
<1> QED BY <1>2, QuietInv DEF IInv, TypeOK, Failed

LEMMA DeliverIInv ==
  ASSUME IInv, Deliver
  PROVE  IInv'
<1>1. /\ call.turn \in Turns /\ call.env \in Envelopes /\ mem \in Images
      /\ call.env \in Injects /\ mem.acc[call.turn] = call.env
  BY DEF IInv, TypeOK, CallInv, Deliver, At
<1> DEFINE i == [mem EXCEPT !.deliveries = @ \cup {call.turn}]
<1>2. /\ i \in Images /\ Sound(i) /\ Keeps(mem, i) /\ i.acc = mem.acc
      /\ call.turn \in i.deliveries
  BY <1>1, DeliverSound DEF IInv, ImageInv
<1>3. Persisted(i)
  BY DEF Deliver
<1> HIDE DEF i
<1>4. ImageInv' /\ SaidInv' /\ disk' \in Images /\ mem' \in Images
  BY <1>2, <1>3, CommitInv DEF IInv, Deliver
<1>5. [authority |-> "delegated", env |-> call.env] \in Answers
  BY <1>1 DEF Answers
<1>6. /\ call' \in CallRecs /\ call'.phase = "close" /\ call'.turn = call.turn
      /\ call'.answer = [authority |-> "delegated", env |-> call.env]
  BY <1>5, AnswersWith DEF IInv, TypeOK, Deliver
<1>7. CallInv'
  BY <1>1, <1>2, <1>3, <1>6 DEF CallInv, Persisted, Backed
<1> QED BY <1>4, <1>6, <1>7 DEF IInv, TypeOK, Deliver

LEMMA WithholdIInv ==
  ASSUME IInv, Withhold
  PROVE  IInv'
<1>1. call' \in CallRecs /\ CallInv'
  BY SaysNothing DEF IInv, TypeOK, CallInv, Withhold, At
<1> QED BY <1>1, QuietInv DEF IInv, TypeOK, Withhold

LEMMA DeliveryFailsIInv ==
  ASSUME IInv, DeliveryFails
  PROVE  IInv'
<1>1. call.turn \in Turns /\ mem \in Images
  BY DEF IInv, TypeOK, CallInv, DeliveryFails, At
<1> DEFINE i == [mem EXCEPT !.deliveries = @ \cup {call.turn}]
<1>2. i \in Images /\ Sound(i) /\ Keeps(mem, i)
  BY <1>1, DeliverSound DEF IInv, ImageInv
<1>3. Unpersisted(i)
  BY DEF DeliveryFails
<1> HIDE DEF i
<1>4. ImageInv' /\ SaidInv' /\ disk' \in Images /\ mem' \in Images
  BY <1>2, <1>3, CommitInv DEF IInv, DeliveryFails
<1>5. call' \in CallRecs /\ CallInv'
  BY <1>1, SaysNothing DEF IInv, TypeOK, DeliveryFails
<1> QED BY <1>4, <1>5 DEF IInv, TypeOK, DeliveryFails

LEMMA NativeIInv ==
  ASSUME IInv, Native
  PROVE  IInv'
<1>1. call.turn \in Turns
  BY DEF IInv, CallInv, Native, At
<1>2. call' \in CallRecs /\ CallInv'
  <2>1. CASE Answering("nobody", None)
    BY <1>1, <2>1, SaysNothing DEF IInv, TypeOK
  <2>2. ASSUME NEW a \in {"atmem_fallback", "atmem"}, Answering(a, None),
               a = "atmem_fallback" => call.fallback
        PROVE  call' \in CallRecs /\ CallInv'
    <3>1. [authority |-> a, env |-> None] \in Answers
      BY DEF Answers
    <3>2. /\ call' \in CallRecs /\ call'.phase = "close" /\ call'.turn = call.turn
          /\ call'.answer = [authority |-> a, env |-> None]
      BY <2>2, <3>1, AnswersWith DEF IInv, TypeOK
    <3>3. a = "atmem_fallback" => disk'.res[call.turn] = "native_fallback"
      BY <2>2 DEF IInv, CallInv, Native, At
    <3>4. Backed(call'.turn, call'.answer, disk')
      BY <3>2, <3>3 DEF Backed
    <3> QED BY <1>1, <3>2, <3>4 DEF CallInv
  <2> QED BY <2>1, <2>2 DEF Native
<1> QED BY <1>2, QuietInv DEF IInv, TypeOK, Native

LEMMA CloseIInv ==
  ASSUME IInv, Close
  PROVE  IInv'
<1>1. /\ disk \in Images /\ mem \in Images /\ Sound(disk) /\ Keeps(disk, mem)
      /\ call.turn \in Turns /\ call.answer \in Answers
      /\ call.answer = NoAnswer \/ Backed(call.turn, call.answer, disk)
  BY DEF IInv, TypeOK, CallRecs, ImageInv, CallInv, Close, At
<1>2. disk' = mem /\ mem' = mem
  BY DEF Close, Persisted
<1>3. ImageInv'
  BY <1>2, KeepsItself DEF IInv, ImageInv
<1>4. call' \in CallRecs /\ CallInv'
  BY <1>2, IdleInv DEF Close
<1>5. SaidInv'
  <2> SUFFICES ASSUME NEW t \in Turns, NEW a \in said'[t] PROVE Backed(t, a, mem)
    BY <1>2 DEF SaidInv
  <2>1. CASE a \in said[t]
    BY <1>1, <2>1, BackedKept DEF IInv, SaidInv
  <2>2. CASE a \notin said[t]
    <3>1. a = call.answer /\ t = call.turn /\ call.answer # NoAnswer
      BY <1>1, <2>2 DEF Close, Heard, IInv, TypeOK
    <3> QED BY <1>1, <3>1, BackedKept
  <2> QED BY <2>1, <2>2
<1>6. said' \in [Turns -> SUBSET Answers]
  BY <1>1 DEF Close, Heard, IInv, TypeOK
<1> QED BY <1>1, <1>2, <1>3, <1>4, <1>5, <1>6 DEF IInv, TypeOK, Close

LEMMA StopIInv ==
  ASSUME IInv, Stop
  PROVE  IInv'
<1>1. call' \in CallRecs /\ CallInv'
  BY IdleInv DEF Stop
<1>2. ImageInv'
  BY KeepsItself DEF IInv, ImageInv, Stop
<1>3. SaidInv'
  BY DEF IInv, SaidInv, Stop
<1> QED BY <1>1, <1>2, <1>3 DEF IInv, TypeOK, Stop

(* The operator's file and the expiry of results touch nothing else.       *)
LEMMA AroundIInv ==
  ASSUME IInv, (\E c \in Configs : Configure(c)) \/ (\E e \in Envelopes : Expire(e))
  PROVE  IInv'
<1>1. UNCHANGED <<disk, mem, call, said>>
  BY DEF Configure, Expire
<1>2. cfg' \in Configs /\ expired' \in SUBSET Envelopes
  BY DEF Configure, Expire, IInv, TypeOK
<1>3. CallInv'
  BY <1>1 DEF IInv, CallInv, Disposition
<1> QED BY <1>1, <1>2, <1>3, QuietInv DEF IInv, TypeOK

-----------------------------------------------------------------------------
LEMMA NextIInv ==
  ASSUME IInv, [Next]_vars
  PROVE  IInv'
<1>1. CASE UNCHANGED vars
  BY <1>1 DEF vars, IInv, TypeOK, ImageInv, SaidInv, CallInv, Disposition
<1>2. CASE Next
  BY <1>2, PrepareIInv, HasEnabledIInv, FailClosedIInv, MatchIInv, TransportIInv,
     TransportFailsIInv, AcceptIInv, AcceptAgainIInv, ReserveIInv,
     ReserveRefusedIInv, FailedIInv, DeliverIInv, WithholdIInv, DeliveryFailsIInv,
     NativeIInv, CloseIInv, StopIInv, AroundIInv DEF Next
<1> QED BY <1>1, <1>2

LEMMA Invariance == Spec => []IInv
BY InitIInv, NextIInv, PTL DEF Spec

(* Every variable keeps its type, for any turns and results.               *)
THEOREM TypeCorrect == Spec => []TypeOK
<1>1. IInv => TypeOK
  BY DEF IInv
<1> QED BY <1>1, Invariance, PTL

(* However often any turn is prepared, and whatever crashes, comes late or *)
(* is reconfigured, the host gets one delegated result or the labelled     *)
(* fallback for it.                                                        *)
THEOREM OneAuthorityHolds == Spec => []OneAuthority
<1>1. ASSUME IInv PROVE OneAuthority
  <2> SUFFICES ASSUME NEW t \in Turns, NEW a \in said[t], NEW b \in said[t],
                      "atmem" \notin {a.authority, b.authority}
               PROVE  a = b
    BY DEF OneAuthority
  <2>1. Backed(t, a, disk) /\ Backed(t, b, disk) /\ a \in Answers /\ b \in Answers
    BY <1>1 DEF IInv, TypeOK, SaidInv
  <2>2. disk.acc[t] # None => disk.res[t] # "native_fallback"
    BY <1>1 DEF IInv, ImageInv, Sound
  <2>3. a.authority = b.authority /\ a.env = b.env
    BY <2>1, <2>2, DelegatedAssumption DEF Backed
  <2> QED BY <2>1, <2>3 DEF Answers
<1> QED BY <1>1, Invariance, PTL

(* What a host was told to inject was on disk first, in every crash and    *)
(* every failed write.                                                     *)
THEOREM AnsweredRecorded == Spec => []AnsweredIsRecorded
<1>1. IInv => AnsweredIsRecorded
  BY DEF IInv, SaidInv, Backed, AnsweredIsRecorded
<1> QED BY <1>1, Invariance, PTL

(* No nonce buys a second turn.                                            *)
THEOREM NonceOnce == Spec => []NonceBuysOneTurn
<1>1. IInv => NonceBuysOneTurn
  BY DEF IInv, ImageInv, Sound, NonceBuysOneTurn
<1> QED BY <1>1, Invariance, PTL

(* A settled turn is never settled again.                                  *)
THEOREM SettledOnce == Spec => TurnSettledOnce
<1> DEFINE Kept == \A t \in Turns : disk.res[t] # None =>
                    disk'.res[t] = disk.res[t] /\ disk'.acc[t] = disk.acc[t]
<1>1. ASSUME IInv, Next PROVE Kept
  <2> SUFFICES Keeps(disk, disk')
    BY DEF Keeps
  <2>1. CASE UNCHANGED disk
    BY <2>1, KeepsItself
  <2>2. CASE Accept
    <3>1. Keeps(mem, AcceptedImage(call.env)) /\ AcceptedImage(call.env) \in Images
      BY <1>1, <2>2, AcceptSound DEF IInv, TypeOK, ImageInv, CallInv, Accept, At
    <3>2. disk' = disk \/ disk' = AcceptedImage(call.env)
      BY <2>2 DEF Accept, Persisted, Unpersisted
    <3> QED BY <1>1, <3>1, <3>2, KeepsItself, KeepsChain DEF IInv, TypeOK, ImageInv
  <2>3. CASE Reserve
    <3> DEFINE i == [mem EXCEPT !.res[call.turn] = Disposition]
    <3>1. Keeps(mem, i) /\ i \in Images
      BY <1>1, <2>3, ReserveSound DEF IInv, TypeOK, ImageInv, CallInv, Reserve, At
    <3>2. disk' = disk \/ disk' = i
      BY <2>3 DEF Reserve, Persisted, Unpersisted
    <3> HIDE DEF i
    <3> QED BY <1>1, <3>1, <3>2, KeepsItself, KeepsChain DEF IInv, TypeOK, ImageInv
  <2>4. CASE Deliver
    <3> DEFINE i == [mem EXCEPT !.deliveries = @ \cup {call.turn}]
    <3>1. Keeps(mem, i) /\ i \in Images
      BY <1>1, <2>4, DeliverSound DEF IInv, TypeOK, ImageInv, CallInv, Deliver, At
    <3>2. disk' = i
      BY <2>4 DEF Deliver, Persisted
    <3> HIDE DEF i
    <3> QED BY <1>1, <3>1, <3>2, KeepsChain DEF IInv, TypeOK, ImageInv
  <2>5. CASE Close
    BY <1>1, <2>5 DEF IInv, ImageInv, Close, Persisted
  <2> QED BY <1>1, <2>1, <2>2, <2>3, <2>4, <2>5 DEF Next, Prepare, HasEnabled,
       FailClosed, Match, Transport, TransportFails, AcceptAgain, ReserveRefused,
       Failed, Withhold, DeliveryFails, Unpersisted, Native, Stop, Configure, Expire
<1>2. IInv /\ [Next]_vars => [Kept]_vars
  BY <1>1
<1>3. [][Kept]_vars => TurnSettledOnce
  BY DEF TurnSettledOnce
<1> QED BY <1>2, <1>3, Invariance, PTL DEF Spec
=============================================================================
