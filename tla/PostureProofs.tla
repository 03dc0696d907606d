--------------------------- MODULE PostureProofs ---------------------------
(***************************************************************************)
(* Proofs about Posture, for any number of control connections, cgroup ids *)
(* and hooks.  The inductive invariant PInv says of every connection where *)
(* it may be with which lock (Call), of the broker what its registration   *)
(* has reached (BrokerInv), of a pass what it keeps (GcInv) and of the PCR *)
(* that a good digest was once the posture (MeasureInv).                   *)
(***************************************************************************)
EXTENDS Posture, FiniteSetTheorems, TLAPS

PCs == {"idle", "stat", "lock", "update", "read", "member", "tpm", "opened", "zero"}
Inside == {"update", "read", "member"}
Digest == {"extend", "selfcheck"}
Tcb == {root, coll} \cup Cgid

ConnState ==
    [verb : Verb \cup {None}, pc : PCs, hook : Hook \cup {None}, on : BOOLEAN,
     bid : Cgid \cup {None}, todo : Seq(Hook), flags : SUBSET Hook, live : SUBSET Tcb,
     good : BOOLEAN, reply : {None, "gate", "selfcheck"}]

\* Connection k with locals c, when the locks, the maps and the PCR are as given.
Call(c, k, cmu, tmu, flags, tcb, ever, p) ==
    /\ c.pc \in Inside <=> cmu = k
    /\ c.pc \in {"opened", "zero"} <=> tmu = k
    /\ c.pc # "idle" => c.reply = None
    /\ c.reply = "selfcheck" => ever
    /\ c.pc = "stat" => c.verb = "register" /\ c.flags = {}
    /\ c.pc = "lock" => c.verb # None /\ c.flags = {} /\ (c.verb \in Digest => c.todo = Hooks)
    /\ c.pc = "update" => c.verb \in {"register", "set"}
    /\ c.pc \in {"lock", "update"} => /\ c.verb = "register" => c.bid \in Cgid
                                      /\ c.verb = "set" => c.hook \in Hook
    /\ c.pc \in {"read", "member"} => /\ c.verb \in {"gate"} \cup Digest
                                      /\ c.flags \subseteq flags
    /\ c.pc = "read" /\ c.verb \in Digest =>
          \A h \in flags : h \in c.flags \/ \E i \in DOMAIN c.todo : c.todo[i] = h
    /\ c.pc = "member" => c.live = tcb /\ (c.verb \in Digest => c.flags = flags)
    /\ c.pc \in {"tpm", "opened", "zero"} => c.verb \in Digest /\ (c.good => ever)
    /\ c.pc = "zero" => c.verb = "extend" /\ p = <<>>

TypeInv ==
    /\ TypeOK
    /\ conn \in [Conn -> ConnState]
    /\ controlMu \in Conn \cup {None, "gc"} /\ tpmMu \in Conn \cup {None}

CallsInv ==
    \A k \in Conn : Call(conn[k], k, controlMu, tpmMu, enforce_flags, tcb_cgroups, everArmed, pcr)

ServeInv ==
    collector = "loaded" => gc = "idle" /\ \A k \in Conn : conn[k].pc = "idle"

\* The registration under way is of the cgroup the broker has.
BrokerInv ==
    /\ broker = "stopped" <=> bcg = None
    /\ bconn # None => /\ broker = "started" /\ conn[bconn].verb = "register"
                       /\ conn[bconn].pc \in {"stat", "lock", "update"}
                       /\ conn[bconn].pc # "stat" => conn[bconn].bid = bcg
    /\ ServedFromTCB

GcInv ==
    /\ gc = "idle" <=> controlMu # "gc"
    /\ gc = "ensure" => doomed \cap Expected({root, coll}) = {}
    /\ gc = "prune" => /\ {root, coll} \subseteq keep /\ doomed \cap keep = {}
                       /\ broker = "serving" => bcg \in keep

MeasureInv ==
    /\ pcr \in {<<>>, <<TRUE>>, <<FALSE>>}
    /\ pcr = <<TRUE>> => everArmed
    /\ Armed => everArmed

PInv == TypeInv /\ CallsInv /\ ServeInv /\ BrokerInv /\ GcInv /\ MeasureInv

-----------------------------------------------------------------------------
(* Sets of at most three ids                                               *)

LEMMA Pair ==
    ASSUME NEW ids \in SUBSET {root, coll}, ~(Cardinality(ids) < 2)
    PROVE  ids = {root, coll}
  <1>1. CASE ids = {} BY <1>1, FS_EmptySet
  <1>2. CASE ids = {root} \/ ids = {coll}
    <2>1. Cardinality({root}) = 1 /\ Cardinality({coll}) = 1 BY FS_Singleton
    <2> QED BY <1>2, <2>1
  <1> QED BY <1>1, <1>2

\* A set of three ids that is what is expected holds root, the collector and a broker.
LEMMA Three ==
    ASSUME NEW ids \in SUBSET {root, coll}, Cardinality(Expected(ids)) = expectedTCBCount
    PROVE  bcg # None /\ Expected(ids) = {root, coll, bcg}
  <1>0. \A S, x : IsFiniteSet(S) /\ Cardinality(S) <= 1
                    => IsFiniteSet(S \cup {x}) /\ Cardinality(S \cup {x}) <= 2
    <2> SUFFICES ASSUME NEW S, NEW x, IsFiniteSet(S), Cardinality(S) <= 1
                 PROVE  IsFiniteSet(S \cup {x}) /\ Cardinality(S \cup {x}) <= 2
      OBVIOUS
    <2>1. Cardinality(S) \in Nat BY FS_CardinalityType
    <2>2. IsFiniteSet(S \cup {x}) /\ (Cardinality(S \cup {x}) = Cardinality(S)
                                     \/ Cardinality(S \cup {x}) = Cardinality(S) + 1)
      BY FS_AddElement
    <2> QED BY <2>1, <2>2
  <1>1. /\ IsFiniteSet({root}) /\ Cardinality({root}) = 1
        /\ IsFiniteSet({coll}) /\ Cardinality({coll}) = 1
    BY FS_Singleton
  <1>2. IsFiniteSet({}) /\ Cardinality({}) = 0 BY FS_EmptySet
  <1>3. Cardinality({root, coll}) <= 2
    <2>1. {root, coll} = {root} \cup {coll} OBVIOUS
    <2>2. IsFiniteSet({root}) /\ Cardinality({root}) <= 1 BY <1>1
    <2>3. Cardinality({root} \cup {coll}) <= 2 BY <1>0, <2>2, Zenon
    <2> QED BY <2>1, <2>3
  <1>4. CASE bcg = None
    <2>1. Expected(ids) = ids BY <1>4 DEF Expected
    <2>2. ids \in {{}, {root}, {coll}, {root, coll}} OBVIOUS
    <2> QED BY <1>1, <1>2, <1>3, <2>1, <2>2 DEF expectedTCBCount
  <1>5. CASE bcg # None /\ ids # {root, coll}
    <2>1. Expected(ids) = ids \cup {bcg} BY <1>5 DEF Expected
    <2>2. ids = {} \/ ids = {root} \/ ids = {coll}
      <3>1. root \notin ids \/ coll \notin ids BY <1>5
      <3> QED BY <3>1
    <2>3. IsFiniteSet(ids) /\ Cardinality(ids) <= 1 BY <1>1, <1>2, <2>2
    <2>4. Cardinality(ids \cup {bcg}) <= 2 BY <1>0, <2>3
    <2> QED BY <2>1, <2>4 DEF expectedTCBCount
  <1>6. CASE bcg # None /\ ids = {root, coll}
    <2>1. Expected(ids) = {root, coll} \cup {bcg} BY <1>6 DEF Expected
    <2> QED BY <1>6, <2>1
  <1> QED BY <1>4, <1>5, <1>6

-----------------------------------------------------------------------------
(* Frames                                                                  *)

\* A connection that stands still: what it relies on is behind the lock it holds.
LEMMA CallFrame ==
    ASSUME NEW c, NEW k, NEW cmu, NEW tmu, NEW flags, NEW tcb, NEW ever, NEW p,
           NEW cmu2, NEW tmu2, NEW flags2, NEW tcb2, NEW ever2, NEW p2,
           Call(c, k, cmu, tmu, flags, tcb, ever, p),
           cmu = k <=> cmu2 = k, tmu = k <=> tmu2 = k,
           cmu = k => flags2 = flags /\ tcb2 = tcb, tmu = k => p2 = p, ever => ever2
    PROVE  Call(c, k, cmu2, tmu2, flags2, tcb2, ever2, p2)
  BY DEF Call, Inside

\* History, for a pass that stands still.
LEMMA GcFrame ==
    ASSUME PInv, History, gc' = gc, keep' = keep, controlMu = "gc" <=> controlMu' = "gc",
           gc # "idle" /\ broker' = "serving" => broker = "serving" /\ bcg' = bcg
    PROVE  GcInv'
  <1>1. CASE gc = "idle" BY <1>1 DEF GcInv, PInv
  <1>2. CASE gc # "idle"
    <2>1. doomed' = doomed \ {bcg'} BY <1>2 DEF History
    <2> QED BY <1>2, <2>1 DEF GcInv, PInv, Expected
  <1> QED BY <1>1, <1>2

LEMMA MeasureFrame ==
    ASSUME PInv, History, pcr' \in {<<>>, <<TRUE>>, <<FALSE>>}, pcr' = <<TRUE>> => everArmed
    PROVE  MeasureInv' /\ everArmed' \in BOOLEAN /\ (everArmed => everArmed')
  BY DEF PInv, MeasureInv, History, TypeInv, TypeOK

\* A step of connection k.
LEMMA ConnStep ==
    ASSUME PInv, History, NEW k \in Conn, NEW x \in ConnState, conn' = [conn EXCEPT ![k] = x],
           collector = "serving", UNCHANGED <<collector, bcg, gc, keep>>,
           controlMu' = controlMu \/ {controlMu, controlMu'} \subseteq {k, None},
           tpmMu' = tpmMu \/ {tpmMu, tpmMu'} \subseteq {k, None},
           UNCHANGED <<enforce_flags, tcb_cgroups, broker>> \/ controlMu = k,
           pcr' = pcr \/ tpmMu = k,
           pcr' \in {<<>>, <<TRUE>>, <<FALSE>>}, pcr' = <<TRUE>> => everArmed,
           tcb_cgroups' \subseteq Tcb, enforce_flags' \subseteq Hook,
           broker' \in {"stopped", "started", "serving"}, bconn' \in Conn \cup {None},
           Call(x, k, controlMu', tpmMu', enforce_flags', tcb_cgroups', everArmed', pcr'),
           BrokerInv'
    PROVE  PInv'
  <1>1. conn'[k] = x /\ conn' \in [Conn -> ConnState] /\ \A j \in Conn \ {k} : conn'[j] = conn[j]
    BY DEF PInv, TypeInv
  <1>2. MeasureInv' /\ everArmed' \in BOOLEAN /\ (everArmed => everArmed') BY MeasureFrame
  <1>3. TypeInv'
    <2>1. \A j \in Conn : conn'[j].pc \in PCs BY <1>1 DEF ConnState
    <2> QED BY <1>1, <1>2, <2>1 DEF PInv, TypeInv, TypeOK, PCs, Tcb
  <1>4. CallsInv'
    <2> SUFFICES ASSUME NEW j \in Conn, j # k
                 PROVE  Call(conn[j], j, controlMu', tpmMu', enforce_flags', tcb_cgroups', everArmed', pcr')
      BY <1>1 DEF CallsInv
    <2>1. Call(conn[j], j, controlMu, tpmMu, enforce_flags, tcb_cgroups, everArmed, pcr)
      BY DEF PInv, CallsInv
    <2>3. /\ controlMu = j <=> controlMu' = j
      BY PostureAssumption
    <2>4. /\ tpmMu = j <=> tpmMu' = j
      BY PostureAssumption
    <2>5. /\ controlMu = j => enforce_flags' = enforce_flags /\ tcb_cgroups' = tcb_cgroups
      OBVIOUS
    <2>6. /\ tpmMu = j => pcr' = pcr
      OBVIOUS
    <2> QED BY <1>2, <2>1, <2>3, <2>4, <2>5, <2>6, CallFrame
  <1>5. GcInv'
    <2>1. controlMu = "gc" <=> controlMu' = "gc" BY PostureAssumption
    <2>2. gc # "idle" => controlMu = "gc" BY DEF PInv, GcInv
    <2>3. gc # "idle" => broker' = broker BY <2>2, PostureAssumption
    <2> QED BY <2>1, <2>3, GcFrame
  <1>6. ServeInv' BY DEF ServeInv
  <1> QED BY <1>2, <1>3, <1>4, <1>5, <1>6 DEF PInv

-----------------------------------------------------------------------------
(* The locals of a connection                                              *)

LEMMA Served ==
    ASSUME PInv, NEW k \in Conn, conn[k].pc # "idle"
    PROVE  collector = "serving"
  BY DEF PInv, TypeInv, TypeOK, ServeInv

LEMMA IdleOK == Idle \in ConnState /\ Idle.pc = "idle" /\ Idle.reply = None /\ Idle.flags = {}
  BY DEF Idle, ConnState, PCs, Tcb

\* A connection at rest relies on nothing but the history.
LEMMA Rests ==
    ASSUME NEW c \in ConnState, c.pc = "idle", NEW k, NEW cmu, NEW tmu, NEW flags, NEW tcb,
           NEW ever, NEW p, cmu # k, tmu # k, c.reply = "selfcheck" => ever
    PROVE  Call(c, k, cmu, tmu, flags, tcb, ever, p)
  BY DEF Call, Inside

\* What is left of a connection that ended.
Ended(c, ok) == IF ok /\ c.verb \in {"gate", "selfcheck"} THEN [Idle EXCEPT !.reply = c.verb] ELSE Idle

LEMMA EndedOK ==
    ASSUME NEW c, NEW ok \in BOOLEAN
    PROVE  /\ Ended(c, ok) \in ConnState /\ Ended(c, ok).pc = "idle"
           /\ Ended(c, ok).reply \in {"gate", "selfcheck"} => ok /\ c.verb = Ended(c, ok).reply
  <1>1. CASE ok /\ c.verb \in {"gate", "selfcheck"}
    BY <1>1, IdleOK DEF Ended, ConnState, Idle, PCs
  <1>2. CASE ~(ok /\ c.verb \in {"gate", "selfcheck"})
    BY <1>2, IdleOK, PostureAssumption DEF Ended, Verb
  <1> QED BY <1>1, <1>2

\* Connection k ends, and the broker's registration is another's.
LEMMA ConnEnds ==
    ASSUME PInv, History, NEW k \in Conn, NEW ok \in BOOLEAN, Done(k, ok), conn[k].pc # "idle",
           UNCHANGED <<world, maps, gcs, pcr>>, bconn # k,
           controlMu' = IF controlMu = k THEN None ELSE controlMu,
           tpmMu' = IF tpmMu = k THEN None ELSE tpmMu,
           ok /\ conn[k].verb = "selfcheck" => everArmed
    PROVE  PInv'
  <1> DEFINE x == Ended(conn[k], ok)
  <1>1. conn' = [conn EXCEPT ![k] = x] BY DEF Done, Ended
  <1>2. /\ x \in ConnState /\ x.pc = "idle"
        /\ x.reply \in {"gate", "selfcheck"} => ok /\ conn[k].verb = x.reply
    BY EndedOK
  <1> HIDE DEF x
  <1>3. controlMu' # k /\ tpmMu' # k BY PostureAssumption
  <1>4. everArmed => everArmed' BY MeasureFrame DEF PInv, MeasureInv
  <1>5. Call(x, k, controlMu', tpmMu', enforce_flags', tcb_cgroups', everArmed', pcr')
    BY <1>2, <1>3, <1>4, Rests
  <1>6. BrokerInv'
    <2>1. conn'[bconn] = conn[bconn] \/ bconn = None BY <1>1 DEF PInv, TypeInv, TypeOK
    <2> QED BY <2>1 DEF PInv, BrokerInv, ServedFromTCB, world, maps
  <1>7. collector = "serving" BY Served
  <1> QED
    BY <1>1, <1>2, <1>5, <1>6, <1>7, ConnStep DEF world, maps, gcs, PInv, MeasureInv, TypeInv, TypeOK, Tcb

\* Connection k moves on, with its lock or without, and only its locals change.
LEMMA ConnMoves ==
    ASSUME PInv, History, NEW k \in Conn, NEW x \in ConnState, conn' = [conn EXCEPT ![k] = x],
           collector = "serving", UNCHANGED <<world, maps, gcs, pcr>>,
           controlMu' = controlMu \/ {controlMu, controlMu'} \subseteq {k, None},
           tpmMu' = tpmMu \/ {tpmMu, tpmMu'} \subseteq {k, None},
           Call(x, k, controlMu', tpmMu', enforce_flags, tcb_cgroups, everArmed', pcr),
           bconn = k => /\ x.verb = "register" /\ x.pc \in {"lock", "update"} /\ x.bid = bcg
    PROVE  PInv'
  <1>1. Call(x, k, controlMu', tpmMu', enforce_flags', tcb_cgroups', everArmed', pcr')
    BY DEF maps
  <1>2. BrokerInv'
    <2>1. bconn # None => conn'[bconn] = IF bconn = k THEN x ELSE conn[bconn]
      BY DEF PInv, TypeInv, TypeOK
    <2> QED BY <2>1 DEF PInv, BrokerInv, ServedFromTCB, world, maps
  <1> QED
    BY <1>1, <1>2, ConnStep DEF world, maps, gcs, PInv, MeasureInv, TypeInv, TypeOK, Tcb

-----------------------------------------------------------------------------
(* The clients' requests                                                   *)

\* A new request holds nothing and has read nothing.
LEMMA Fresh ==
    ASSUME NEW c \in ConnState, c.pc \in {"stat", "lock"}, c.reply = None, c.flags = {},
           c.pc = "stat" => c.verb = "register",
           c.pc = "lock" => /\ c.verb \in {"set", "gate"} \cup Digest
                            /\ c.verb \in Digest => c.todo = Hooks
                            /\ c.verb = "set" => c.hook \in Hook,
           NEW k, NEW cmu, NEW tmu, NEW flags, NEW tcb, NEW ever, NEW p, cmu # k, tmu # k
    PROVE  Call(c, k, cmu, tmu, flags, tcb, ever, p)
  BY PostureAssumption DEF Call, Inside, Digest, Verb

LEMMA NoLock ==
    ASSUME PInv, NEW k \in Conn, conn[k].pc \in {"idle", "stat", "lock", "tpm"}
    PROVE  controlMu # k /\ tpmMu # k
  BY DEF PInv, CallsInv, Call, Inside

LEMMA ClientsStep ==
    ASSUME PInv, History, NEW k \in Conn, Clients(k)
    PROVE  PInv'
  <1>2. conn[k].pc = "idle" /\ collector = "serving"
    BY DEF Clients, brokerRegisterTCB, cmdEnforce, cmdAttest, Ask
  <1>3. controlMu # k /\ tpmMu # k BY <1>2, NoLock
  <1>4. bconn # k
    BY <1>2, PostureAssumption DEF PInv, BrokerInv
  <1>5. CASE brokerRegisterTCB(k)
    <2> DEFINE x == [Idle EXCEPT !.verb = "register", !.pc = "stat"]
    <2>1. /\ x \in ConnState /\ x.pc = "stat" /\ x.verb = "register" /\ x.reply = None /\ x.flags = {}
      BY IdleOK DEF ConnState, Verb, PCs
    <2>2. conn' = [conn EXCEPT ![k] = x] BY <1>5 DEF brokerRegisterTCB, Ask
    <2> HIDE DEF x
    <2>3. Call(x, k, controlMu', tpmMu', enforce_flags', tcb_cgroups', everArmed', pcr')
      <3>1. controlMu' # k /\ tpmMu' # k BY <1>3, <1>5 DEF brokerRegisterTCB
      <3> QED BY <2>1, <3>1, Fresh
    <2>4. BrokerInv'
      <3>1. conn'[k] = x BY <2>2 DEF PInv, TypeInv
      <3> QED BY <1>5, <2>1, <3>1 DEF brokerRegisterTCB, BrokerInv, PInv, ServedFromTCB, maps
    <2> QED
      BY <1>2, <1>5, <2>1, <2>2, <2>3, <2>4, ConnStep
      DEF brokerRegisterTCB, maps, gcs, PInv, MeasureInv, TypeInv, TypeOK, Tcb
  <1>6. ASSUME NEW h \in Hook, NEW on \in BOOLEAN, cmdEnforce(k, h, on) PROVE PInv'
    <2> DEFINE x == [Idle EXCEPT !.verb = "set", !.pc = "lock", !.hook = h, !.on = on]
    <2>1. /\ x \in ConnState /\ x.pc = "lock" /\ x.verb = "set" /\ x.reply = None /\ x.flags = {}
          /\ x.hook \in Hook
      BY IdleOK DEF ConnState, Verb, PCs
    <2>2. conn' = [conn EXCEPT ![k] = x] BY <1>6 DEF cmdEnforce, Ask
    <2> HIDE DEF x
    <2>3. UNCHANGED <<world, maps, gcs, controlMu, tpmMu, pcr>> BY <1>6 DEF cmdEnforce
    <2>4. Call(x, k, controlMu', tpmMu', enforce_flags, tcb_cgroups, everArmed', pcr)
      <3>1. controlMu' # k /\ tpmMu' # k BY <1>3, <2>3
      <3> QED BY <2>1, <3>1, Fresh DEF Digest
    <2> QED BY <1>2, <1>4, <2>1, <2>2, <2>3, <2>4, ConnMoves
  <1>7. ASSUME NEW verb \in {"gate", "extend", "selfcheck"}, cmdAttest(k, verb) PROVE PInv'
    <2> DEFINE todo == IF verb = "gate" THEN <<"bpf", "connect">> ELSE Hooks
               x == [Idle EXCEPT !.verb = verb, !.pc = "lock", !.todo = todo]
    <2>0. todo \in Seq(Hook) /\ (verb \in Digest => todo = Hooks)
      BY HooksAssumption DEF Digest
    <2>1. conn' = [conn EXCEPT ![k] = x] BY <1>7 DEF cmdAttest, Ask
    <2> HIDE DEF todo
    <2>2. /\ x \in ConnState /\ x.pc = "lock" /\ x.verb = verb /\ x.reply = None /\ x.flags = {}
          /\ x.todo = todo
      BY <2>0 DEF ConnState, Idle, Verb, PCs, Tcb
    <2> HIDE DEF x
    <2>3. UNCHANGED <<world, maps, gcs, controlMu, tpmMu, pcr>> BY <1>7 DEF cmdAttest
    <2>4. Call(x, k, controlMu', tpmMu', enforce_flags, tcb_cgroups, everArmed', pcr)
      <3>1. controlMu' # k /\ tpmMu' # k BY <1>3, <2>3
      <3>2. x.verb \in {"set", "gate"} \cup Digest /\ x.verb # "set" BY <2>2 DEF Digest
      <3> QED BY <2>0, <2>2, <3>1, <3>2, Fresh
    <2> QED BY <1>2, <1>4, <2>1, <2>2, <2>3, <2>4, ConnMoves
  <1> QED BY <1>5, <1>6, <1>7 DEF Clients

-----------------------------------------------------------------------------
(* The handlers                                                            *)

\* What the invariant says of connection k.
LEMMA CallOf ==
    ASSUME PInv, NEW k \in Conn
    PROVE  /\ Call(conn[k], k, controlMu, tpmMu, enforce_flags, tcb_cgroups, everArmed, pcr)
           /\ conn[k] \in ConnState
  BY DEF PInv, CallsInv, TypeInv

\* The broker awaits no verb but the registration.
LEMMA NotAwaited ==
    ASSUME PInv, NEW k \in Conn, conn[k].verb # "register" \/ conn[k].pc \notin {"stat", "lock", "update"}
    PROVE  bconn # k
  BY PostureAssumption DEF PInv, BrokerInv

\* A verb that updates a map, or the registration that does not come to it, answers.
LEMMA ConnAnswers ==
    ASSUME PInv, History, NEW k \in Conn, NEW ok \in BOOLEAN, Answer(k, ok),
           conn[k].pc \in {"stat", "update"}, UNCHANGED <<collector, bcg, gcs, tpmMu, pcr>>,
           controlMu' = IF controlMu = k THEN None ELSE controlMu,
           (UNCHANGED maps /\ ~ok) \/ controlMu = k,
           tcb_cgroups \subseteq tcb_cgroups', tcb_cgroups' \subseteq Tcb, enforce_flags' \subseteq Hook,
           ok /\ bconn = k => bcg \in tcb_cgroups'
    PROVE  PInv'
  <1> DEFINE x == Ended(conn[k], ok)
  <1>1. conn' = [conn EXCEPT ![k] = x] BY DEF Answer, Done, Ended
  <1>2. /\ x \in ConnState /\ x.pc = "idle"
        /\ x.reply \in {"gate", "selfcheck"} => ok /\ conn[k].verb = x.reply
    BY EndedOK
  <1> HIDE DEF x
  <1>3. conn[k].verb \in {"register", "set"} BY CallOf DEF Call
  <1>4. controlMu' # k /\ tpmMu' # k BY CallOf, PostureAssumption DEF Call
  <1>5. Call(x, k, controlMu', tpmMu', enforce_flags', tcb_cgroups', everArmed', pcr')
    BY <1>2, <1>3, <1>4, Rests
  <1>6. /\ bconn' = IF bconn = k THEN None ELSE bconn
        /\ broker' = IF bconn = k /\ ok THEN "serving" ELSE broker
    BY DEF Answer
  <1>7. BrokerInv'
    <2>1. \A j \in Conn \ {k} : conn'[j] = conn[j] BY <1>1 DEF PInv, TypeInv
    <2>2. bconn' # None => bconn' = bconn /\ conn'[bconn] = conn[bconn] /\ broker' = broker
      BY <1>6, <2>1 DEF PInv, TypeInv, TypeOK
    <2>3. broker' = "stopped" <=> bcg' = None BY <1>6, PostureAssumption DEF PInv, BrokerInv
    <2>4. ServedFromTCB' BY <1>6 DEF PInv, BrokerInv, ServedFromTCB
    <2> QED BY <2>2, <2>3, <2>4 DEF PInv, BrokerInv
  <1>8. collector = "serving" BY Served
  <1>9. UNCHANGED <<enforce_flags, tcb_cgroups, broker>> \/ controlMu = k
    BY <1>6 DEF maps
  <1> QED
    BY <1>1, <1>2, <1>5, <1>6, <1>7, <1>8, <1>9, ConnStep
    DEF gcs, PInv, MeasureInv, TypeInv, TypeOK

LEMMA UpdateStep ==
    ASSUME PInv, History, NEW k \in Conn,
           statBroker(k) \/ ctlTcbRegisterBroker(k) \/ ctlEnforceSet(k) \/ updateErr(k)
    PROVE  PInv'
  <1>0. /\ Call(conn[k], k, controlMu, tpmMu, enforce_flags, tcb_cgroups, everArmed, pcr)
        /\ conn[k] \in ConnState
    BY CallOf
  <1>a. tcb_cgroups \subseteq Tcb /\ enforce_flags \subseteq Hook /\ bcg \in Cgid \cup {None}
    BY DEF PInv, TypeInv, TypeOK, Tcb
  <1>1. CASE statBroker(k) /\ bcg = None
    <2>1. /\ conn[k].pc = "stat" /\ Answer(k, FALSE)
          /\ UNCHANGED <<collector, bcg, maps, gcs, controlMu, tpmMu, pcr>>
      BY <1>1 DEF statBroker
    <2>2. controlMu # k BY <2>1, NoLock
    <2> QED BY <1>a, <2>1, <2>2, ConnAnswers DEF maps
  <1>2. CASE statBroker(k) /\ bcg # None
    <2> DEFINE x == [conn[k] EXCEPT !.bid = bcg, !.pc = "lock"]
    <2>1. /\ conn[k].pc = "stat" /\ conn' = [conn EXCEPT ![k].bid = bcg, ![k].pc = "lock"]
          /\ UNCHANGED <<world, maps, gcs, controlMu, tpmMu, pcr>>
      BY <1>2 DEF statBroker, world
    <2>2. conn' = [conn EXCEPT ![k] = x] BY <2>1 DEF PInv, TypeInv
    <2>3. conn[k].verb = "register" /\ conn[k].reply = None BY <1>0, <2>1 DEF Call
    <2>4. x \in ConnState /\ x.pc = "lock" /\ x.verb = "register" /\ x.bid = bcg /\ x.reply = None
          /\ x.flags = conn[k].flags
      BY <1>0, <1>a, <2>3 DEF ConnState, PCs
    <2> HIDE DEF x
    <2>5. controlMu # k /\ tpmMu # k BY <2>1, NoLock
    <2>6. Call(x, k, controlMu', tpmMu', enforce_flags, tcb_cgroups, everArmed', pcr)
      <3>1. conn[k].flags = {} BY <1>0, <2>1 DEF Call
      <3> QED
        BY <1>a, <1>2, <2>1, <2>4, <2>5, <3>1, PostureAssumption DEF Call, Inside, Digest, Verb
    <2>7. collector = "serving" BY <2>1, Served
    <2> QED BY <2>1, <2>2, <2>4, <2>6, <2>7, ConnMoves
  <1>3. CASE ctlTcbRegisterBroker(k)
    <2>1. /\ conn[k].pc = "update" /\ conn[k].verb = "register" /\ Answer(k, TRUE)
          /\ tcb_cgroups' = tcb_cgroups \cup {conn[k].bid} /\ controlMu' = None
          /\ UNCHANGED <<collector, bcg, enforce_flags, gcs, tpmMu, pcr>>
      BY <1>3 DEF ctlTcbRegisterBroker
    <2>2. controlMu = k /\ conn[k].bid \in Cgid BY <1>0, <2>1 DEF Call, Inside
    <2>3. bconn = k => bcg = conn[k].bid BY <2>1, PostureAssumption DEF PInv, BrokerInv
    <2> QED BY <1>a, <2>1, <2>2, <2>3, ConnAnswers DEF Tcb
  <1>4. CASE ctlEnforceSet(k)
    <2>1. /\ conn[k].pc = "update" /\ conn[k].verb = "set" /\ Answer(k, TRUE)
          /\ enforce_flags' = IF conn[k].on THEN enforce_flags \cup {conn[k].hook}
                                            ELSE enforce_flags \ {conn[k].hook}
          /\ controlMu' = None
          /\ UNCHANGED <<collector, bcg, tcb_cgroups, gcs, tpmMu, pcr>>
      BY <1>4 DEF ctlEnforceSet
    <2>2. controlMu = k /\ conn[k].hook \in Hook BY <1>0, <2>1 DEF Call, Inside
    <2>3. bconn # k BY <2>1, NotAwaited
    <2> QED BY <1>a, <2>1, <2>2, <2>3, ConnAnswers
  <1>5. CASE updateErr(k)
    <2>1. /\ conn[k].pc = "update" /\ Answer(k, FALSE) /\ controlMu' = None
          /\ UNCHANGED <<collector, bcg, maps, gcs, tpmMu, pcr>>
      BY <1>5 DEF updateErr
    <2>2. controlMu = k BY <1>0, <2>1 DEF Call, Inside
    <2> QED BY <1>a, <2>1, <2>2, ConnAnswers DEF maps
  <1> QED BY <1>1, <1>2, <1>3, <1>4, <1>5

LEMMA LockStep ==
    ASSUME PInv, History, NEW k \in Conn, lockControl(k) \/ lockTpm(k)
    PROVE  PInv'
  <1>0. /\ Call(conn[k], k, controlMu, tpmMu, enforce_flags, tcb_cgroups, everArmed, pcr)
        /\ conn[k] \in ConnState
    BY CallOf
  <1>1. CASE lockControl(k)
    <2> DEFINE pc == IF conn[k].verb \in {"register", "set"} THEN "update" ELSE "read"
               x == [conn[k] EXCEPT !.pc = pc]
    <2>1. /\ conn[k].pc = "lock" /\ controlMu = None /\ controlMu' = k
          /\ conn' = [conn EXCEPT ![k].pc = pc]
          /\ UNCHANGED <<world, maps, gcs, tpmMu, pcr>>
      BY <1>1 DEF lockControl
    <2>2. conn' = [conn EXCEPT ![k] = x] BY <2>1 DEF PInv, TypeInv
    <2>3. pc \in Inside /\ pc # "member" BY DEF Inside
    <2>4. /\ x \in ConnState /\ x.pc = pc /\ x.verb = conn[k].verb /\ x.reply = conn[k].reply
          /\ x.flags = conn[k].flags /\ x.bid = conn[k].bid /\ x.hook = conn[k].hook
          /\ x.todo = conn[k].todo
      BY <1>0 DEF ConnState, PCs
    <2>5. /\ pc = "update" => conn[k].verb \in {"register", "set"}
          /\ pc = "read" => conn[k].verb \in {"gate"} \cup Digest
      BY <1>0, <2>1 DEF Call, ConnState, Verb, Digest
    <2> HIDE DEF x, pc
    <2>6. tpmMu # k BY <2>1, NoLock
    <2>7. Call(x, k, controlMu', tpmMu', enforce_flags, tcb_cgroups, everArmed', pcr)
      <3>1. \A h \in enforce_flags : \E i \in DOMAIN Hooks : Hooks[i] = h
        BY DEF PInv, TypeInv, TypeOK, Hook
      <3>2. /\ x.reply = None /\ x.flags = {} /\ (x.verb \in Digest => x.todo = Hooks)
            /\ x.verb = "register" => x.bid \in Cgid
            /\ x.verb = "set" => x.hook \in Hook
        BY <1>0, <2>1, <2>4 DEF Call
      <3> QED
        BY <2>1, <2>3, <2>4, <2>5, <2>6, <3>1, <3>2, PostureAssumption DEF Call, Inside, Verb
    <2>8. collector = "serving" BY <2>1, Served
    <2>9. bconn = k => /\ x.verb = "register" /\ x.pc \in {"lock", "update"} /\ x.bid = bcg
      <3> SUFFICES ASSUME bconn = k PROVE x.verb = "register" /\ x.pc = "update" /\ x.bid = bcg
        OBVIOUS
      <3>1. conn[k].verb = "register" /\ conn[k].bid = bcg
        BY <2>1, PostureAssumption DEF PInv, BrokerInv
      <3> QED BY <2>4, <3>1 DEF pc
    <2> QED BY <2>1, <2>2, <2>4, <2>7, <2>8, <2>9, ConnMoves
  <1>2. CASE lockTpm(k)
    <2> DEFINE x == [conn[k] EXCEPT !.pc = "opened"]
    <2>1. /\ conn[k].pc = "tpm" /\ tpmMu = None /\ tpmMu' = k
          /\ conn' = [conn EXCEPT ![k].pc = "opened"]
          /\ UNCHANGED <<world, maps, gcs, controlMu, pcr>>
      BY <1>2 DEF lockTpm
    <2>2. conn' = [conn EXCEPT ![k] = x] BY <2>1 DEF PInv, TypeInv
    <2>3. /\ x \in ConnState /\ x.pc = "opened" /\ x.verb = conn[k].verb /\ x.reply = conn[k].reply
          /\ x.good = conn[k].good
      BY <1>0 DEF ConnState, PCs
    <2> HIDE DEF x
    <2>4. controlMu # k BY <2>1, NoLock
    <2>5. everArmed => everArmed' BY DEF History
    <2>6. Call(x, k, controlMu', tpmMu', enforce_flags, tcb_cgroups, everArmed', pcr)
      <3>1. x.reply = None /\ x.verb \in Digest /\ (x.good => everArmed')
        BY <1>0, <2>1, <2>3, <2>5 DEF Call
      <3> QED BY <2>1, <2>3, <2>4, <3>1, PostureAssumption DEF Call, Inside, Verb
    <2>7. collector = "serving" BY <2>1, Served
    <2>8. bconn # k BY <2>1, NotAwaited
    <2> QED BY <2>1, <2>2, <2>3, <2>6, <2>7, <2>8, ConnMoves
  <1> QED BY <1>1, <1>2

LEMMA Split ==
    ASSUME NEW S, NEW s \in Seq(S), s # <<>>
    PROVE  /\ Head(s) \in S /\ Tail(s) \in Seq(S)
           /\ \A i \in DOMAIN s : s[i] = Head(s) \/ \E j \in DOMAIN Tail(s) : Tail(s)[j] = s[i]
  <1>1. Head(s) \in S /\ Tail(s) \in Seq(S) OBVIOUS
  <1>2. ASSUME NEW i \in DOMAIN s, i # 1 PROVE \E j \in DOMAIN Tail(s) : Tail(s)[j] = s[i]
    <2>1. i \in 1..Len(s) /\ i - 1 \in 1..Len(Tail(s)) BY <1>2
    <2>2. i - 1 \in DOMAIN Tail(s) /\ Tail(s)[i - 1] = s[i] BY <2>1
    <2> QED BY <2>2
  <1>3. s[1] = Head(s) OBVIOUS
  <1> QED BY <1>1, <1>2, <1>3

LEMMA ReadStep ==
    ASSUME PInv, History, NEW k \in Conn, readFlag(k) \/ iterateTcb(k) \/ attestErr(k)
    PROVE  PInv'
  <1>0. /\ Call(conn[k], k, controlMu, tpmMu, enforce_flags, tcb_cgroups, everArmed, pcr)
        /\ conn[k] \in ConnState
    BY CallOf
  <1>a. tcb_cgroups \subseteq Tcb /\ enforce_flags \subseteq Hook
    BY DEF PInv, TypeInv, TypeOK, Tcb
  <1>1. CASE readFlag(k)
    <2> DEFINE hd == Head(conn[k].todo)
               fl == conn[k].flags \cup ({hd} \cap enforce_flags)
               x == [conn[k] EXCEPT !.todo = Tail(conn[k].todo), !.flags = fl]
    <2>1. /\ conn[k].pc = "read" /\ conn[k].todo # <<>>
          /\ UNCHANGED <<world, maps, gcs, controlMu, tpmMu, pcr>>
      BY <1>1 DEF readFlag
    <2>2. conn' = [conn EXCEPT ![k] = x] BY <1>1 DEF readFlag, PInv, TypeInv
    <2>3. conn[k].todo \in Seq(Hook) BY <1>0 DEF ConnState
    <2>4. /\ Tail(conn[k].todo) \in Seq(Hook)
          /\ \A i \in DOMAIN conn[k].todo :
                conn[k].todo[i] = hd \/ \E j \in DOMAIN Tail(conn[k].todo) : Tail(conn[k].todo)[j] = conn[k].todo[i]
      BY <2>1, <2>3, Split
    <2>5. conn[k].flags \subseteq enforce_flags /\ fl \subseteq enforce_flags BY <1>0, <2>1 DEF Call
    <2>6. /\ x \in ConnState /\ x.pc = "read" /\ x.verb = conn[k].verb /\ x.reply = conn[k].reply
          /\ x.todo = Tail(conn[k].todo) /\ x.flags = fl
      BY <1>0, <1>a, <2>1, <2>4, <2>5 DEF ConnState
    <2>7. x.verb \in Digest =>
            \A h \in enforce_flags : h \in x.flags \/ \E i \in DOMAIN x.todo : x.todo[i] = h
      <3> SUFFICES ASSUME x.verb \in Digest, NEW h \in enforce_flags, h \notin x.flags
                   PROVE  \E i \in DOMAIN x.todo : x.todo[i] = h
        OBVIOUS
      <3>1. h # hd /\ h \notin conn[k].flags BY <2>6
      <3>2. PICK i \in DOMAIN conn[k].todo : conn[k].todo[i] = h BY <1>0, <2>1, <2>6, <3>1 DEF Call
      <3> HIDE DEF hd
      <3> QED BY <2>4, <2>6, <3>1, <3>2
    <2> HIDE DEF x, fl, hd
    <2>8. Call(x, k, controlMu', tpmMu', enforce_flags, tcb_cgroups, everArmed', pcr)
      <3>1. /\ x.reply = None /\ x.verb \in {"gate"} \cup Digest /\ controlMu' = k /\ tpmMu' # k
        BY <1>0, <2>1, <2>6 DEF Call, Inside
      <3> QED BY <2>5, <2>6, <2>7, <3>1, PostureAssumption DEF Call, Inside, Verb
    <2>9. collector = "serving" /\ bconn # k BY <2>1, Served, NotAwaited
    <2> QED BY <2>1, <2>2, <2>6, <2>8, <2>9, ConnMoves
  <1>2. CASE iterateTcb(k)
    <2> DEFINE x == [conn[k] EXCEPT !.pc = "member", !.live = tcb_cgroups]
    <2>1. /\ conn[k].pc = "read" /\ conn[k].todo = <<>>
          /\ UNCHANGED <<world, maps, gcs, controlMu, tpmMu, pcr>>
      BY <1>2 DEF iterateTcb
    <2>2. conn' = [conn EXCEPT ![k] = x] BY <1>2 DEF iterateTcb, PInv, TypeInv
    <2>3. /\ x \in ConnState /\ x.pc = "member" /\ x.verb = conn[k].verb /\ x.reply = conn[k].reply
          /\ x.flags = conn[k].flags /\ x.live = tcb_cgroups
      BY <1>0, <1>a DEF ConnState, PCs
    <2> HIDE DEF x
    <2>4. x.flags \subseteq enforce_flags /\ (x.verb \in Digest => x.flags = enforce_flags)
      <3>1. DOMAIN conn[k].todo = {} BY <2>1
      <3>2. conn[k].flags \subseteq enforce_flags BY <1>0, <2>1 DEF Call
      <3>3. conn[k].verb \in Digest => \A h \in enforce_flags : h \in conn[k].flags
        BY <1>0, <2>1, <3>1 DEF Call
      <3> QED BY <2>3, <3>2, <3>3
    <2>5. Call(x, k, controlMu', tpmMu', enforce_flags, tcb_cgroups, everArmed', pcr)
      <3>1. /\ x.reply = None /\ x.verb \in {"gate"} \cup Digest /\ controlMu' = k /\ tpmMu' # k
        BY <1>0, <2>1, <2>3 DEF Call, Inside
      <3> QED BY <2>3, <2>4, <3>1, PostureAssumption DEF Call, Inside, Verb
    <2>6. collector = "serving" /\ bconn # k BY <2>1, Served, NotAwaited
    <2> QED BY <2>1, <2>2, <2>3, <2>5, <2>6, ConnMoves
  <1>3. CASE attestErr(k)
    <2>1. /\ conn[k].verb # "register" /\ conn[k].pc \in {"lock", "read"} /\ Done(k, FALSE)
          /\ controlMu' = IF controlMu = k THEN None ELSE controlMu
          /\ UNCHANGED <<world, maps, gcs, tpmMu, pcr>>
      BY <1>3 DEF attestErr
    <2>2. tpmMu # k BY <1>0, <2>1 DEF Call
    <2>3. bconn # k BY <2>1, NotAwaited
    <2> QED BY <2>1, <2>2, <2>3, ConnEnds
  <1> QED BY <1>1, <1>2, <1>3

\* A digest that equals the default-armed one was composed of the posture that is
\* real while the membership is read.
LEMMA GoodIsArmed ==
    ASSUME PInv, NEW k \in Conn, conn[k].pc = "member", conn[k].verb \in Digest,
           NEW ids \in SUBSET {root, coll},
           composeDigest(conn[k].flags, conn[k].live, conn[k].live = Expected(ids)) = expectedDefaultArmedD
    PROVE  Armed
  <1>1. conn[k].live = tcb_cgroups /\ conn[k].flags = enforce_flags BY CallOf DEF Call
  <1>2. /\ conn[k].flags = {"bpf", "connect"} /\ Cardinality(conn[k].live) = expectedTCBCount
        /\ (conn[k].live = Expected(ids)) = TRUE
    BY DEF composeDigest, expectedDefaultArmedD
  <1>3. conn[k].live = Expected(ids) BY <1>2
  <1>4. bcg # None /\ Expected(ids) = {root, coll, bcg} BY <1>2, <1>3, Three
  <1> QED BY <1>1, <1>2, <1>3, <1>4 DEF Armed

LEMMA MemberStep ==
    ASSUME PInv, History, NEW k \in Conn, tcbMembershipState(k)
    PROVE  PInv'
  <1>0. /\ Call(conn[k], k, controlMu, tpmMu, enforce_flags, tcb_cgroups, everArmed, pcr)
        /\ conn[k] \in ConnState
    BY CallOf
  <1>1. /\ conn[k].pc = "member" /\ controlMu' = IF controlMu = k THEN None ELSE controlMu
        /\ UNCHANGED <<world, maps, gcs, tpmMu, pcr>>
    BY DEF tcbMembershipState
  <1>2. controlMu' # k /\ tpmMu # k BY <1>0, <1>1, PostureAssumption DEF Call
  <1>3. collector = "serving" /\ bconn # k BY <1>1, Served, NotAwaited
  <1>4. CASE conn[k].verb = "gate"
    <2>1. PICK ok \in BOOLEAN : Done(k, ok)
      BY <1>4 DEF tcbMembershipState, posturePass
    <2> QED BY <1>1, <1>2, <1>3, <1>4, <2>1, ConnEnds
  <1>5. CASE conn[k].verb # "gate"
    <2>1. conn[k].verb \in Digest BY <1>0, <1>1, <1>5 DEF Call
    <2>2. PICK good \in BOOLEAN :
            /\ good => Armed
            /\ conn' = [conn EXCEPT ![k] = [Idle EXCEPT !.verb = conn[k].verb, !.pc = "tpm", !.good = good]]
      <3>1. PICK ids \in SUBSET {root, coll} :
              conn' = [conn EXCEPT ![k] = [Idle EXCEPT !.verb = conn[k].verb, !.pc = "tpm",
                         !.good = composeDigest(conn[k].flags, conn[k].live, conn[k].live = Expected(ids))
                                    = expectedDefaultArmedD]]
        BY <1>5 DEF tcbMembershipState
      <3> DEFINE g == composeDigest(conn[k].flags, conn[k].live, conn[k].live = Expected(ids))
                        = expectedDefaultArmedD
      <3>2. g => Armed BY <1>1, <2>1, GoodIsArmed
      <3>3. g \in BOOLEAN OBVIOUS
      <3>4. conn' = [conn EXCEPT ![k] = [Idle EXCEPT !.verb = conn[k].verb, !.pc = "tpm", !.good = g]]
        BY <3>1
      <3> HIDE DEF g
      <3> QED BY <3>2, <3>3, <3>4
    <2> DEFINE x == [Idle EXCEPT !.verb = conn[k].verb, !.pc = "tpm", !.good = good]
    <2>3. x \in ConnState /\ x.pc = "tpm" /\ x.verb = conn[k].verb /\ x.reply = None /\ x.good = good
      <3>1. conn[k].verb \in Verb \cup {None} BY <1>0 DEF ConnState
      <3>2. "tpm" \in PCs BY DEF PCs
      <3> QED BY <2>2, <3>1, <3>2, IdleOK DEF ConnState
    <2>4. conn' = [conn EXCEPT ![k] = x] BY <2>2
    <2> HIDE DEF x
    <2>5. good => everArmed' BY <2>2 DEF PInv, MeasureInv, History
    <2>6. Call(x, k, controlMu', tpmMu', enforce_flags, tcb_cgroups, everArmed', pcr)
      BY <1>1, <1>2, <2>1, <2>3, <2>5, PostureAssumption DEF Call, Inside, Verb
    <2> QED BY <1>1, <1>3, <2>3, <2>4, <2>6, PostureAssumption, ConnMoves
  <1> QED BY <1>4, <1>5

\* The first extend after a reset leaves a PCR of one digest.
LEMMA OneExtend == ASSUME NEW g \in BOOLEAN PROVE Append(<<>>, g) = <<g>>
  OBVIOUS

LEMMA TpmStep ==
    ASSUME PInv, History, NEW k \in Conn,
           readAttestPCR(k) \/ doAttestExtend(k) \/ doAttestSelfCheck(k) \/ tpmErr(k)
    PROVE  PInv'
  <1>0. /\ Call(conn[k], k, controlMu, tpmMu, enforce_flags, tcb_cgroups, everArmed, pcr)
        /\ conn[k] \in ConnState
    BY CallOf
  <1>1. conn[k].pc \in {"opened", "zero"}
    BY DEF readAttestPCR, doAttestExtend, doAttestSelfCheck, tpmErr
  <1>2. /\ collector = "serving" /\ bconn # k BY <1>1, Served, NotAwaited
  <1>3. tpmMu = k /\ controlMu # k BY <1>0, <1>1 DEF Call, Inside
  <1>4. UNCHANGED <<world, maps, gcs, controlMu>>
    BY DEF readAttestPCR, doAttestExtend, doAttestSelfCheck, tpmErr
  <1>5. ASSUME NEW ok \in BOOLEAN, Done(k, ok), unlockTpm(k), pcr' = pcr,
               ok /\ conn[k].verb = "selfcheck" => everArmed
        PROVE  PInv'
    BY <1>1, <1>2, <1>3, <1>4, <1>5, ConnEnds DEF unlockTpm
  <1>6. CASE readAttestPCR(k)
    <2>1. CASE pcr # <<>> BY <1>5, <1>6, <2>1 DEF readAttestPCR
    <2>2. CASE pcr = <<>>
      <3> DEFINE x == [conn[k] EXCEPT !.pc = "zero"]
      <3>1. conn[k].verb = "extend" /\ UNCHANGED <<tpmMu, pcr>> BY <1>6, <2>2 DEF readAttestPCR
      <3>2. conn' = [conn EXCEPT ![k] = x] BY <1>6, <2>2 DEF readAttestPCR, PInv, TypeInv
      <3>3. /\ x \in ConnState /\ x.pc = "zero" /\ x.verb = "extend" /\ x.reply = conn[k].reply
            /\ x.good = conn[k].good
        BY <1>0, <3>1 DEF ConnState, PCs
      <3> HIDE DEF x
      <3>4. x.reply = None /\ (x.good => everArmed') BY <1>0, <1>1, <3>3 DEF Call, History
      <3>5. Call(x, k, controlMu', tpmMu', enforce_flags, tcb_cgroups, everArmed', pcr)
        BY <1>3, <1>4, <2>2, <3>1, <3>3, <3>4, PostureAssumption DEF Call, Inside, Verb, Digest
      <3> QED BY <1>2, <1>4, <3>1, <3>2, <3>3, <3>5, ConnMoves
    <2> QED BY <2>1, <2>2
  <1>7. CASE doAttestExtend(k)
    <2> DEFINE x == Ended(conn[k], TRUE)
    <2>1. /\ conn[k].pc = "zero" /\ pcr' = Append(pcr, conn[k].good) /\ Done(k, TRUE) /\ unlockTpm(k)
      BY <1>7 DEF doAttestExtend
    <2>2. pcr = <<>> /\ conn[k].verb = "extend" /\ (conn[k].good => everArmed) /\ conn[k].good \in BOOLEAN
      BY <1>0, <2>1 DEF Call, ConnState
    <2>3. pcr' = <<conn[k].good>>
      <3>1. pcr' = Append(<<>>, conn[k].good) BY <2>1, <2>2
      <3> QED BY <2>2, <3>1, OneExtend
    <2>4. pcr' \in {<<>>, <<TRUE>>, <<FALSE>>} /\ (pcr' = <<TRUE>> => everArmed)
      <3>1. CASE conn[k].good = TRUE BY <2>2, <2>3, <3>1
      <3>2. CASE conn[k].good = FALSE BY <2>3, <3>2
      <3> QED BY <2>2, <3>1, <3>2
    <2>5. conn' = [conn EXCEPT ![k] = x] BY <2>1 DEF Done, Ended
    <2>6. x \in ConnState /\ x.pc = "idle" /\ x.reply # "selfcheck"
      BY <2>2, EndedOK
    <2> HIDE DEF x
    <2>7. tpmMu' = None /\ tpmMu' # k /\ controlMu' # k
      BY <1>3, <1>4, <2>1, PostureAssumption DEF unlockTpm
    <2>8. Call(x, k, controlMu', tpmMu', enforce_flags', tcb_cgroups', everArmed', pcr')
      BY <2>6, <2>7, Rests
    <2>9. BrokerInv'
      <3>1. conn'[bconn] = conn[bconn] \/ bconn = None BY <1>2, <2>5 DEF PInv, TypeInv, TypeOK
      <3> QED BY <1>4, <3>1 DEF PInv, BrokerInv, ServedFromTCB, world, maps
    <2> QED
      BY <1>2, <1>3, <1>4, <2>4, <2>5, <2>6, <2>7, <2>8, <2>9, ConnStep
      DEF world, maps, gcs, PInv, TypeInv, TypeOK, Tcb
  <1>8. CASE doAttestSelfCheck(k)
    <2>1. Done(k, pcr = <<TRUE>>) /\ unlockTpm(k) /\ pcr' = pcr BY <1>8 DEF doAttestSelfCheck
    <2>2. pcr = <<TRUE>> => everArmed BY DEF PInv, MeasureInv
    <2>3. (pcr = <<TRUE>>) \in BOOLEAN OBVIOUS
    <2> QED BY <1>5, <2>1, <2>2, <2>3
  <1>9. CASE tpmErr(k) BY <1>5, <1>9 DEF tpmErr
  <1> QED BY <1>6, <1>7, <1>8, <1>9

-----------------------------------------------------------------------------
(* The processes and the pass                                              *)

\* No connection moves, and a map changes only while none holds controlMu.
LEMMA NoneMoves ==
    ASSUME PInv, History, UNCHANGED <<conn, tpmMu, pcr>>,
           controlMu' = controlMu \/ {controlMu, controlMu'} \subseteq {None, "gc"},
           UNCHANGED maps \/ controlMu \notin Conn,
           collector' \in {"loaded", "serving"}, tcb_cgroups' \subseteq Tcb, enforce_flags' = enforce_flags,
           broker' \in {"stopped", "started", "serving"}, bcg' \in Cgid \cup {None},
           bconn' \in Conn \cup {None}, gc' \in {"idle", "ensure", "prune"}, keep' \subseteq Tcb
    PROVE  TypeInv' /\ CallsInv' /\ MeasureInv'
  <1>1. MeasureInv' /\ everArmed' \in BOOLEAN /\ (everArmed => everArmed')
    BY MeasureFrame DEF PInv, MeasureInv
  <1>2. TypeInv' BY <1>1 DEF PInv, TypeInv, TypeOK, Tcb
  <1>3. CallsInv'
    <2> SUFFICES ASSUME NEW j \in Conn
                 PROVE  Call(conn[j], j, controlMu', tpmMu', enforce_flags', tcb_cgroups', everArmed', pcr')
      BY DEF CallsInv
    <2>1. Call(conn[j], j, controlMu, tpmMu, enforce_flags, tcb_cgroups, everArmed, pcr) BY CallOf
    <2>2. controlMu = j <=> controlMu' = j BY PostureAssumption
    <2>3. controlMu = j => enforce_flags' = enforce_flags /\ tcb_cgroups' = tcb_cgroups BY DEF maps
    <2> QED BY <1>1, <2>1, <2>2, <2>3, CallFrame
  <1> QED BY <1>1, <1>2, <1>3

LEMMA ProcessStep ==
    ASSUME PInv, History,
           runCollector \/ BrokerStop \/ \E c \in Cgid : BrokerStart(c)
    PROVE  PInv'
  <1>0. /\ tcb_cgroups \subseteq Tcb /\ bcg \in Cgid \cup {None} /\ keep \subseteq Tcb
        /\ collector \in {"loaded", "serving"} /\ broker \in {"stopped", "started", "serving"}
        /\ bconn \in Conn \cup {None} /\ gc \in {"idle", "ensure", "prune"}
    BY DEF PInv, TypeInv, TypeOK, Tcb
  <1>1. CASE runCollector
    <2>0. PICK b \in SUBSET ({bcg} \ {None}) : tcb_cgroups' = tcb_cgroups \cup b
      BY <1>1 DEF runCollector
    <2>1. /\ collector = "loaded" /\ collector' = "serving"
          /\ UNCHANGED <<enforce_flags, broker, bcg, bconn, conn, gcs, controlMu, tpmMu, pcr>>
      BY <1>1 DEF runCollector
    <2>2. controlMu \notin Conn
      <3> SUFFICES ASSUME NEW k \in Conn PROVE controlMu # k OBVIOUS
      <3>1. conn[k].pc = "idle" BY <2>1 DEF PInv, ServeInv
      <3> QED BY <3>1, NoLock
    <2>3. tcb_cgroups' \subseteq tcb_cgroups \cup ({bcg} \ {None}) /\ tcb_cgroups \subseteq tcb_cgroups'
      BY <2>0
    <2>4. TypeInv' /\ CallsInv' /\ MeasureInv'
      BY <1>0, <2>1, <2>2, <2>3, NoneMoves DEF gcs, Tcb
    <2>5. GcInv' BY <2>1, GcFrame DEF gcs
    <2>6. BrokerInv' BY <2>1, <2>3 DEF PInv, BrokerInv, ServedFromTCB
    <2>7. ServeInv' BY <2>1 DEF ServeInv
    <2> QED BY <2>4, <2>5, <2>6, <2>7 DEF PInv
  <1>2. CASE BrokerStop
    <2>1. /\ broker' = "stopped" /\ bcg' = None /\ bconn' = None
          /\ UNCHANGED <<collector, maps, conn, gcs, controlMu, tpmMu, pcr>>
      BY <1>2 DEF BrokerStop
    <2>2. TypeInv' /\ CallsInv' /\ MeasureInv' BY <1>0, <2>1, NoneMoves DEF gcs, maps
    <2>3. GcInv' BY <2>1, GcFrame DEF gcs
    <2>4. BrokerInv' BY <2>1 DEF PInv, BrokerInv, ServedFromTCB, maps
    <2>5. ServeInv' BY <2>1 DEF PInv, ServeInv, gcs
    <2> QED BY <2>2, <2>3, <2>4, <2>5 DEF PInv
  <1>3. ASSUME NEW c \in Cgid, BrokerStart(c) PROVE PInv'
    <2>1. /\ broker = "stopped" /\ broker' = "started" /\ bcg' = c
          /\ UNCHANGED <<collector, maps, bconn, conn, gcs, controlMu, tpmMu, pcr>>
      BY <1>3 DEF BrokerStart
    <2>2. TypeInv' /\ CallsInv' /\ MeasureInv' BY <1>0, <2>1, NoneMoves DEF gcs, maps
    <2>3. GcInv' BY <2>1, GcFrame DEF gcs
    <2>4. BrokerInv' BY <2>1, PostureAssumption DEF PInv, BrokerInv, ServedFromTCB, maps
    <2>5. ServeInv' BY <2>1 DEF PInv, ServeInv, gcs
    <2> QED BY <2>2, <2>3, <2>4, <2>5 DEF PInv
  <1> QED BY <1>1, <1>2, <1>3

LEMMA RestartStep ==
    ASSUME PInv, History, CollectorRestart
    PROVE  PInv'
  <1>1. /\ collector' = "loaded" /\ tcb_cgroups' = {root, coll} /\ enforce_flags' = {}
        /\ broker' = "stopped" /\ bcg' = None /\ bconn' = None
        /\ conn' = [k \in Conn |-> Idle] /\ gc' = "idle" /\ keep' = {}
        /\ controlMu' = None /\ tpmMu' = None /\ pcr' = pcr
    BY DEF CollectorRestart
  <1>2. MeasureInv' /\ everArmed' \in BOOLEAN
    BY <1>1, MeasureFrame DEF PInv, MeasureInv
  <1>3. \A k \in Conn : conn'[k] = Idle /\ conn'[k].pc = "idle" BY <1>1, IdleOK
  <1>4. TypeInv'
    <2>1. conn' \in [Conn -> ConnState] BY <1>1, IdleOK
    <2> QED BY <1>1, <1>2, <1>3, <2>1 DEF TypeInv, TypeOK
  <1>5. CallsInv'
    <2> SUFFICES ASSUME NEW k \in Conn
                 PROVE  Call(Idle, k, controlMu', tpmMu', enforce_flags', tcb_cgroups', everArmed', pcr')
      BY <1>3 DEF CallsInv
    <2> QED BY <1>1, IdleOK, Rests, PostureAssumption DEF Verb
  <1>6. GcInv' BY <1>1, PostureAssumption DEF GcInv
  <1>7. BrokerInv' /\ ServeInv' BY <1>1, <1>3 DEF BrokerInv, ServedFromTCB, ServeInv
  <1> QED BY <1>2, <1>4, <1>5, <1>6, <1>7 DEF PInv

LEMMA PassStep ==
    ASSUME PInv, History, gcLock \/ gcPrune \/ \E ids \in SUBSET {root, coll} : reconcileTCB(ids)
    PROVE  PInv'
  <1>0. /\ tcb_cgroups \subseteq Tcb /\ bcg \in Cgid \cup {None} /\ keep \subseteq Tcb
        /\ collector \in {"loaded", "serving"} /\ broker \in {"stopped", "started", "serving"}
        /\ bconn \in Conn \cup {None} /\ gc \in {"idle", "ensure", "prune"}
    BY DEF PInv, TypeInv, TypeOK, Tcb
  <1>1. CASE gcLock
    <2>1. /\ collector = "serving" /\ gc = "idle" /\ controlMu = None /\ controlMu' = "gc" /\ gc' = "ensure"
          /\ UNCHANGED <<world, maps, conn, keep, tpmMu, pcr>>
      BY <1>1 DEF gcLock
    <2>2. TypeInv' /\ CallsInv' /\ MeasureInv' BY <1>0, <2>1, NoneMoves DEF world, maps
    <2>3. doomed' = tcb_cgroups \ Expected({root, coll}) BY <2>1 DEF History
    <2>4. GcInv' BY <2>1, <2>3 DEF GcInv, Expected, world
    <2>5. BrokerInv' /\ ServeInv' BY <2>1 DEF PInv, BrokerInv, ServedFromTCB, ServeInv, world, maps
    <2> QED BY <2>2, <2>4, <2>5 DEF PInv
  <1>2. CASE gcPrune
    <2>1. /\ gc = "prune" /\ tcb_cgroups' = tcb_cgroups \cap keep
          /\ gc' = "idle" /\ keep' = {} /\ controlMu' = None
          /\ UNCHANGED <<world, enforce_flags, conn, tpmMu, pcr>>
      BY <1>2 DEF gcPrune
    <2>2. controlMu = "gc" BY <2>1 DEF PInv, GcInv
    <2>3. TypeInv' /\ CallsInv' /\ MeasureInv'
      BY <1>0, <2>1, <2>2, PostureAssumption, NoneMoves DEF world
    <2>4. GcInv' BY <2>1, PostureAssumption DEF GcInv
    <2>5. BrokerInv' BY <2>1 DEF PInv, BrokerInv, ServedFromTCB, GcInv, world
    <2>6. ServeInv' BY <2>1 DEF PInv, ServeInv, world
    <2> QED BY <2>3, <2>4, <2>5, <2>6 DEF PInv
  <1>3. ASSUME NEW ids \in SUBSET {root, coll}, reconcileTCB(ids), Cardinality(ids) < 2 PROVE PInv'
    <2>1. /\ gc = "ensure" /\ gc' = "idle" /\ controlMu' = None
          /\ UNCHANGED <<keep, tcb_cgroups, world, enforce_flags, conn, tpmMu, pcr>>
      BY <1>3 DEF reconcileTCB
    <2>2. controlMu = "gc" BY <2>1 DEF PInv, GcInv
    <2>3. TypeInv' /\ CallsInv' /\ MeasureInv'
      BY <1>0, <2>1, <2>2, PostureAssumption, NoneMoves DEF world
    <2>4. GcInv' BY <2>1, PostureAssumption DEF GcInv
    <2>5. BrokerInv' /\ ServeInv' BY <2>1 DEF PInv, BrokerInv, ServedFromTCB, ServeInv, world
    <2> QED BY <2>3, <2>4, <2>5 DEF PInv
  <1>4. ASSUME NEW ids \in SUBSET {root, coll}, reconcileTCB(ids), ~(Cardinality(ids) < 2) PROVE PInv'
    <2>0. PICK b \in SUBSET ({bcg} \ {None}) : tcb_cgroups' = tcb_cgroups \cup b
      BY <1>4 DEF reconcileTCB
    <2>1. /\ gc = "ensure" /\ gc' = "prune" /\ controlMu' = controlMu /\ keep' = Expected(ids)
          /\ UNCHANGED <<world, enforce_flags, conn, tpmMu, pcr>>
      BY <1>4 DEF reconcileTCB
    <2>2. controlMu = "gc" BY <2>1 DEF PInv, GcInv
    <2>3. ids = {root, coll} BY <1>4, Pair
    <2>4. keep' = {root, coll} \cup ({bcg} \ {None}) BY <2>1, <2>3 DEF Expected
    <2>5. TypeInv' /\ CallsInv' /\ MeasureInv'
      BY <1>0, <2>0, <2>1, <2>2, <2>4, PostureAssumption, NoneMoves DEF world, Tcb
    <2>6. GcInv'
      <3>1. doomed' = doomed \ {bcg'} BY <2>1 DEF History
      <3>2. doomed \cap keep' = {} BY <2>1, <2>3 DEF PInv, GcInv
      <3>3. broker = "serving" => bcg \in keep' BY <2>4 DEF PInv, BrokerInv
      <3> QED BY <2>1, <2>2, <2>4, <3>1, <3>2, <3>3 DEF GcInv, world
    <2>7. BrokerInv' BY <2>0, <2>1 DEF PInv, BrokerInv, ServedFromTCB, world
    <2>8. ServeInv' BY <2>1 DEF PInv, ServeInv, world
    <2> QED BY <2>5, <2>6, <2>7, <2>8 DEF PInv
  <1> QED BY <1>1, <1>2, <1>3, <1>4

-----------------------------------------------------------------------------
(* The invariant                                                           *)

LEMMA PostureInit == Init => PInv
  <1> SUFFICES ASSUME Init PROVE PInv OBVIOUS
  <1>1. \A k \in Conn : conn[k] = Idle /\ conn[k].pc = "idle" BY IdleOK DEF Init
  <1>2. TypeInv
    <2>1. conn \in [Conn -> ConnState] BY IdleOK DEF Init
    <2> QED BY <1>1, <2>1 DEF Init, TypeInv, TypeOK
  <1>3. CallsInv
    <2> SUFFICES ASSUME NEW k \in Conn
                 PROVE  Call(Idle, k, controlMu, tpmMu, enforce_flags, tcb_cgroups, everArmed, pcr)
      BY <1>1 DEF CallsInv
    <2> QED BY IdleOK, Rests, PostureAssumption DEF Verb, Init
  <1>4. GcInv BY PostureAssumption DEF Init, GcInv
  <1>5. BrokerInv /\ ServeInv BY <1>1 DEF Init, BrokerInv, ServedFromTCB, ServeInv
  <1>6. MeasureInv BY DEF Init, MeasureInv, Armed
  <1> QED BY <1>2, <1>3, <1>4, <1>5, <1>6 DEF PInv

LEMMA PostureStep == PInv /\ [Next]_vars => PInv'
  <1> SUFFICES ASSUME PInv, [Next]_vars PROVE PInv' OBVIOUS
  <1>1. CASE UNCHANGED vars
    <2>1. UNCHANGED <<collector, broker, bcg, bconn, tcb_cgroups, enforce_flags, conn, gc, keep,
                      controlMu, tpmMu, pcr, everArmed, doomed>>
      BY <1>1 DEF vars, world, maps, gcs
    <2>2. TypeInv' BY <2>1 DEF PInv, TypeInv, TypeOK
    <2>3. CallsInv' BY <2>1 DEF PInv, CallsInv
    <2>4. ServeInv' /\ BrokerInv' BY <2>1 DEF PInv, ServeInv, BrokerInv, ServedFromTCB
    <2>5. GcInv' BY <2>1 DEF PInv, GcInv, Expected
    <2>6. MeasureInv' BY <2>1 DEF PInv, MeasureInv, Armed
    <2> QED BY <2>2, <2>3, <2>4, <2>5, <2>6 DEF PInv
  <1>2. ASSUME NEW k \in Conn, Runs(k), History PROVE PInv'
    BY <1>2, UpdateStep, LockStep, ReadStep, MemberStep, TpmStep DEF Runs
  <1>3. CASE Step /\ History
    BY <1>2, <1>3, ClientsStep, ProcessStep, RestartStep, PassStep DEF Step
  <1> QED BY <1>1, <1>3 DEF Next

\* The inductive invariant, from which the others follow.
THEOREM PostureInvariant == Spec => []PInv
  BY PostureInit, PostureStep, PTL DEF Spec

\* Every state of the collector, the broker and the connections is of its type.
THEOREM PostureTypeCorrect == Spec => []TypeOK
  <1>1. PInv => TypeOK BY DEF PInv, TypeInv
  <1> QED BY <1>1, PostureInvariant, PTL

\* A held mutex has a holder inside its section, for any number of connections and
\* whichever of their calls fail (the deferred unlocks of control.go and attest.go).
THEOREM HoldersAreInside == Spec => []HolderInside
  <1>1. PInv => HolderInside
    BY PostureAssumption DEF PInv, HolderInside, CallsInv, Call, Inside, GcInv
  <1> QED BY <1>1, PostureInvariant, PTL

\* Root and the collector never leave tcb_cgroups, and a broker that serves is a
\* member, whatever a pass could not resolve (reconcileTCB, cmdBroker).
THEOREM ServesFromTCB == Spec => []ServedFromTCB
  <1>1. PInv => ServedFromTCB BY DEF PInv, BrokerInv
  <1> QED BY <1>1, PostureInvariant, PTL

\* At most one extend per boot, and the self-check passes only on a boot that was
\* once in the default-armed posture (doAttestExtend, doAttestSelfCheck).
THEOREM BootIsMeasured == Spec => []BootMeasured
  <1>1. PInv => BootMeasured
    <2> SUFFICES ASSUME PInv PROVE BootMeasured OBVIOUS
    <2>1. Len(pcr) <= 1
      <3>1. pcr = <<>> \/ pcr = <<TRUE>> \/ pcr = <<FALSE>> BY DEF PInv, MeasureInv
      <3>2. CASE pcr = <<>> BY <3>2
      <3>3. CASE pcr = <<TRUE>> BY <3>3
      <3>4. CASE pcr = <<FALSE>> BY <3>4
      <3> QED BY <3>1, <3>2, <3>3, <3>4
    <2>2. \A k \in Conn : conn[k].reply = "selfcheck" => everArmed BY DEF PInv, CallsInv, Call
    <2> QED BY <2>1, <2>2 DEF BootMeasured
  <1> QED BY <1>1, PostureInvariant, PTL

\* A connection that is at its membership read is moved by nothing else but a
\* restart.
LEMMA MemberMoves ==
    ASSUME PInv, Step, NEW k \in Conn, conn[k].pc = "member"
    PROVE  conn'[k] = conn[k] \/ conn'[k] = Idle \/ tcbMembershipState(k)
  <1>0. conn \in [Conn -> ConnState] BY DEF PInv, TypeInv
  <1>1. ASSUME NEW j \in Conn, Clients(j) PROVE conn'[k] = conn[k]
    BY <1>0, <1>1 DEF Clients, brokerRegisterTCB, cmdEnforce, cmdAttest, Ask
  <1>2. ASSUME NEW j \in Conn, j # k, Runs(j) PROVE conn'[k] = conn[k]
    <2>1. CASE statBroker(j) \/ ctlTcbRegisterBroker(j) \/ ctlEnforceSet(j) \/ updateErr(j)
      BY <1>0, <1>2, <2>1 DEF statBroker, ctlTcbRegisterBroker, ctlEnforceSet, updateErr, Answer, Done
    <2>2. CASE lockControl(j) \/ lockTpm(j) \/ readFlag(j) \/ iterateTcb(j) \/ attestErr(j)
      BY <1>0, <1>2, <2>2 DEF lockControl, lockTpm, readFlag, iterateTcb, attestErr, Done
    <2>3. CASE tcbMembershipState(j) BY <1>0, <1>2, <2>3 DEF tcbMembershipState, Done
    <2>4. CASE readAttestPCR(j) \/ doAttestExtend(j) \/ doAttestSelfCheck(j) \/ tpmErr(j)
      BY <1>0, <1>2, <2>4 DEF readAttestPCR, doAttestExtend, doAttestSelfCheck, tpmErr, Done
    <2> QED BY <1>2, <2>1, <2>2, <2>3, <2>4 DEF Runs
  <1>3. CASE Runs(k)
    BY <1>3 DEF Runs, lockControl, lockTpm, statBroker, ctlTcbRegisterBroker, ctlEnforceSet, updateErr,
                readFlag, iterateTcb, attestErr, readAttestPCR, doAttestExtend, doAttestSelfCheck, tpmErr
  <1>4. CASE CollectorRestart BY <1>4 DEF CollectorRestart
  <1>5. CASE runCollector \/ BrokerStop \/ \E c \in Cgid : BrokerStart(c)
    BY <1>5 DEF runCollector, BrokerStop, BrokerStart
  <1>6. CASE gcLock \/ gcPrune \/ \E ids \in SUBSET {root, coll} : reconcileTCB(ids)
    BY <1>6 DEF gcLock, gcPrune, reconcileTCB
  <1> QED BY <1>1, <1>2, <1>3, <1>4, <1>5, <1>6 DEF Step

\* The gate's OK is an OK of the posture that is real then, for any interleaving of
\* registrations, switches, passes, crashes and restarts (ctlAttestGate under
\* controlMu).
THEOREM GateIsReal == Spec => GateOKIsReal
  <1>1. PInv /\ [Next]_vars =>
          [\A k \in Conn : conn[k].pc = "member" /\ conn'[k].reply = "gate"
             => /\ {"bpf", "connect"} \subseteq enforce_flags /\ bcg # None
                /\ tcb_cgroups = {root, coll, bcg}]_vars
    <2> SUFFICES ASSUME PInv, Next, NEW k \in Conn, conn[k].pc = "member", conn'[k].reply = "gate"
                 PROVE  /\ {"bpf", "connect"} \subseteq enforce_flags /\ bcg # None
                        /\ tcb_cgroups = {root, coll, bcg}
      OBVIOUS
    <2>1. Call(conn[k], k, controlMu, tpmMu, enforce_flags, tcb_cgroups, everArmed, pcr) BY CallOf
    <2>2. conn[k].reply # "gate" /\ Idle.reply # "gate"
      BY <2>1, IdleOK, PostureAssumption DEF Call, Verb
    <2>3. tcbMembershipState(k) BY <2>2, MemberMoves DEF Next
    <2>4. PICK ids \in SUBSET {root, coll} :
            LET c == conn[k]
                clean == c.live = Expected(ids) IN
            IF c.verb = "gate" THEN Done(k, posturePass(c.flags, c.live, clean))
            ELSE conn' = [conn EXCEPT ![k] = [Idle EXCEPT !.verb = c.verb, !.pc = "tpm",
                   !.good = composeDigest(c.flags, c.live, clean) = expectedDefaultArmedD]]
      BY <2>3 DEF tcbMembershipState
    <2>5. CASE conn[k].verb # "gate"
      <3>1. conn'[k] = [Idle EXCEPT !.verb = conn[k].verb, !.pc = "tpm", !.good =
               composeDigest(conn[k].flags, conn[k].live, conn[k].live = Expected(ids)) = expectedDefaultArmedD]
        BY <2>4, <2>5 DEF PInv, TypeInv
      <3>2. conn'[k].reply = Idle.reply BY <3>1 DEF Idle
      <3> QED BY <2>2, <3>2
    <2>6. CASE conn[k].verb = "gate"
      <3> DEFINE ok == posturePass(conn[k].flags, conn[k].live, conn[k].live = Expected(ids))
      <3>1. Done(k, ok) BY <2>4, <2>6
      <3>2. ok \in BOOLEAN BY DEF posturePass
      <3>3. conn'[k] = Ended(conn[k], ok) BY <3>1 DEF Done, Ended, PInv, TypeInv
      <3>4. ok
        <4> HIDE DEF ok
        <4> QED BY <3>2, <3>3, EndedOK
      <3>5. /\ {"bpf", "connect"} \subseteq conn[k].flags /\ conn[k].live = Expected(ids)
            /\ Cardinality(conn[k].live) = expectedTCBCount
        BY <3>4 DEF posturePass
      <3>6. bcg # None /\ Expected(ids) = {root, coll, bcg} BY <3>5, Three
      <3>7. conn[k].flags \subseteq enforce_flags /\ conn[k].live = tcb_cgroups BY <2>1 DEF Call
      <3> QED BY <3>5, <3>6, <3>7
    <2> QED BY <2>5, <2>6
  <1> QED BY <1>1, PostureInvariant, PTL DEF Spec, GateOKIsReal

\* A stale id does not survive the pass that began after it went stale (reconcileTCB
\* under controlMu).
THEOREM StaleIsEvicted == Spec => PassEvictsStale
  <1>1. PInv /\ [Next]_vars => [gc = "prune" /\ gc' = "idle" => doomed \cap tcb_cgroups' = {}]_vars
    <2> SUFFICES ASSUME PInv, Step, gc = "prune", gc' = "idle" PROVE doomed \cap tcb_cgroups' = {}
      BY DEF Next
    <2>1. {root, coll} \subseteq keep /\ doomed \cap keep = {} BY DEF PInv, GcInv
    <2>2. CASE CollectorRestart BY <2>1, <2>2 DEF CollectorRestart
    <2>3. CASE gcPrune BY <2>1, <2>3 DEF gcPrune
    <2>4. ASSUME NEW k \in Conn, Clients(k) \/ Runs(k) PROVE FALSE
      BY <2>4 DEF Clients, brokerRegisterTCB, cmdEnforce, cmdAttest, Runs, lockControl, lockTpm, statBroker,
         ctlTcbRegisterBroker, ctlEnforceSet, updateErr, readFlag, iterateTcb, attestErr,
         tcbMembershipState, readAttestPCR, doAttestExtend, doAttestSelfCheck, tpmErr, gcs
    <2>5. CASE runCollector \/ BrokerStop \/ \E c \in Cgid : BrokerStart(c)
      BY <2>5 DEF runCollector, BrokerStop, BrokerStart, gcs
    <2>6. CASE gcLock \/ \E ids \in SUBSET {root, coll} : reconcileTCB(ids)
      BY <2>6 DEF gcLock, reconcileTCB
    <2> QED BY <2>2, <2>3, <2>4, <2>5, <2>6 DEF Step
  <1> QED BY <1>1, PostureInvariant, PTL DEF Spec, PassEvictsStale

=============================================================================
