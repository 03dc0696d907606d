------------------------ MODULE EgressAuthorityProofs ------------------------
(***************************************************************************)
(* Proofs about EgressAuthority, for any agents, inodes, classes, broker   *)
(* connections and bounds.  They hold with and without inode reuse, except *)
(* the theorems that ASSUME ~Recycle: what a handler derived from a        *)
(* manifest stays current only if its id is not given to another cgroup.   *)
(***************************************************************************)
EXTENDS EgressAuthority, TLAPS

\* A unit has a cgroup exactly while it is not stopped.
Phases == \A i \in Inst : phase[i] = "stopped" <=> cg[i] = None

\* Two live units never share a cgroup.
DistinctCgroups == \A i, j \in Inst : cg[i] # None /\ cg[i] = cg[j] => i = j

\* An attested call whose cgroup is still live is the one its unit waits for.
\* There is at most one EGRESS-SET-SELF in flight per cgroup.
CallsCurrent ==
    /\ \A r \in ctl, i \in Inst : cg[i] = r.cgid =>
          /\ r.verb = "set" => i = r.inst /\ phase[i] = "prestart"
          /\ r.verb = "clear" => phase[i] = "stopping"
    /\ \A r, q \in ctl : r.verb = "set" /\ q.verb = "set" /\ r.cgid = q.cgid => r = q

\* A GC pass holds the lock and its snapshot has every agent that runs.
ScanCoversRunning ==
    gcLive # None => /\ controlMu = "gc"
                     /\ \A i \in Inst : phase[i] = "running" => cg[i] \in gcLive

\* A minted instance that runs or ever ran is a delegated one.
MintedDelegated == \A m \in Minted : phase[m] # "stopped" => gen[m] > 0

\* Handler positions of a request that is in progress.
Active == PCs \ {"idle", "done", "dead"}

\* The locals a handler relies on at each position.
HandlerLocals ==
    \A k \in Conn :
        /\ h[k].pc \in Active => /\ h[k].kind \in {"expand", "delegate", "narrow"}
                                 /\ h[k].inst \in Inst /\ h[k].cgid \in Cgid
                                 /\ h[k].inst \in Minted => gen[h[k].inst] > 0
        /\ h[k].pc \in {"computed", "snapshot"} => h[k].mask \in Mask
        /\ h[k].pc \in {"launching", "snapshot", "starting"} => h[k].kind = "delegate"
        /\ h[k].pc = "computed" => h[k].kind # "delegate"

\* A DELEGATE that has yet to launch: its child's name is its own and unused, and
\* the child will be within the depth cap.
PreLaunch(k) == h[k].kind = "delegate" /\
                h[k].pc \in {"gate", "approved", "launching", "verified", "snapshot"}
ChildReserved ==
    \A k \in Conn : PreLaunch(k) =>
        /\ h[k].child \in Minted /\ gen[h[k].child] = 0
        /\ gen[h[k].inst] + 1 <= MaxDepth
        /\ \A j \in Conn : PreLaunch(j) /\ h[j].child = h[k].child => j = k

\* An id being acted on belongs to the attested instance or to no live cgroup.
ExecutingOnOwn ==
    \A k \in Conn, j \in Inst : h[k].pc \in Executing /\ cg[j] = h[k].cgid => j = h[k].inst

IInv == /\ TypeOK /\ Phases /\ DistinctCgroups /\ CallsCurrent /\ ScanCoversRunning
        /\ MintedDelegated /\ HandlerLocals /\ ChildReserved /\ ExecutingOnOwn
        /\ RunningRestricted

-----------------------------------------------------------------------------
(* The initial state                                                       *)

\* The handler a connection starts as.
LEMMA IdleConnType == IdleConn \in ConnState /\ IdleConn.pc = "idle"
  BY SetsAssumption, Zenon DEF IdleConn, ConnState, PCs, Mask, Inst

\* Updates of a handler's locals keep their types.
LEMMA SetPc ==
  ASSUME NEW x \in ConnState, NEW pc \in PCs
  PROVE  [x EXCEPT !.pc = pc] \in ConnState
  BY Zenon DEF ConnState

\* The same with the derived mask.
LEMMA SetPcMask ==
  ASSUME NEW x \in ConnState, NEW pc \in PCs, NEW m \in {None} \cup Mask
  PROVE  [x EXCEPT !.pc = pc, !.mask = m] \in ConnState
  BY Zenon DEF ConnState

\* The same with the kind of an effect that is not recorded yet.
LEMMA SetPcUnrecorded ==
  ASSUME NEW x \in ConnState, NEW pc \in PCs, NEW u \in {None, "expand", "delegate", "narrow"}
  PROVE  [x EXCEPT !.pc = pc, !.unrecorded = u] \in ConnState
  BY Zenon DEF ConnState

\* Every initial state satisfies the inductive invariant.
LEMMA InitIInv == Init => IInv
  <1> SUFFICES ASSUME Init PROVE IInv
    BY Zenon
  <1>2. TypeOK
    BY IdleConnType, SetsAssumption, LaunchAssumption, BoundsAssumption DEF Init, TypeOK, Inst, Mask
  <1>3. \A k \in Conn : h[k].pc = "idle"
    BY Zenon DEF Init, IdleConn
  <1>4. HandlerLocals /\ ChildReserved /\ ExecutingOnOwn
    BY <1>3, Zenon DEF HandlerLocals, ChildReserved, ExecutingOnOwn, PreLaunch, Active, PCs, Executing
  <1>5. Phases /\ DistinctCgroups /\ CallsCurrent /\ ScanCoversRunning /\ MintedDelegated /\ RunningRestricted
    BY Zenon DEF Init, Phases, DistinctCgroups, CallsCurrent, ScanCoversRunning, MintedDelegated, RunningRestricted, Inst
  <1> QED
    BY <1>2, <1>4, <1>5, Zenon DEF IInv

-----------------------------------------------------------------------------
(* Steps that leave one side alone                                         *)

\* A step of the broker that touches no unit, no manifest, no control call and
\* no GC state preserves what is said of those.
LEMMA UnitsUntouched ==
  ASSUME IInv, UNCHANGED <<unitVars, policy, ctl, gcVars>>
  PROVE  /\ Phases' /\ DistinctCgroups' /\ CallsCurrent' /\ ScanCoversRunning'
         /\ MintedDelegated' /\ RunningRestricted'
  BY Zenon DEF IInv, Phases, DistinctCgroups, CallsCurrent, ScanCoversRunning, MintedDelegated,
         RunningRestricted, unitVars, gcVars

\* A step that leaves the broker and the generations alone preserves what is said
\* of handlers, as long as no cgroup id they act on is handed out.
LEMMA BrokerUntouched ==
  ASSUME IInv, UNCHANGED <<brokerVars, gen>>,
         \A j \in Inst : cg'[j] \in {cg[j], None} \/ Free(cg'[j])
  PROVE  HandlerLocals' /\ ChildReserved' /\ ExecutingOnOwn'
  <1> USE DEF brokerVars
  <1>1. HandlerLocals'
    BY Zenon DEF IInv, HandlerLocals
  <1>2. ChildReserved'
    BY Zenon DEF IInv, ChildReserved, PreLaunch
  <1>3. ExecutingOnOwn'
    BY SetsAssumption, ZenonT(30) DEF IInv, ExecutingOnOwn, HandlerLocals, Executing, Active, PCs, Free
  <1> QED
    BY <1>1, <1>2, <1>3, Zenon

-----------------------------------------------------------------------------
(* Agent units                                                             *)

\* Starting a unit in a free cgroup preserves what is said of units: the only
\* call on that cgroup is the one it waits for, and a GC pass under way has the
\* agents that were running already.
LEMMA StartUnitUnits ==
  ASSUME IInv, NEW i \in Inst, NEW c \in Cgid, NEW m \in Mask, StartUnit(i, c, m),
         UNCHANGED <<policy, gcVars>>
  PROVE  /\ Phases' /\ DistinctCgroups' /\ CallsCurrent' /\ ScanCoversRunning'
         /\ RunningRestricted'
  <1> USE SetsAssumption DEF IInv, TypeOK, StartUnit, gcVars
  <1>1. \A j \in Inst : cg[j] # c
    BY Zenon DEF Free, LiveCgids
  <1>2. \A r \in ctl : r.cgid # c
    BY Zenon DEF Free
  <1>3. Phases'
    BY Zenon DEF Phases
  <1>4. DistinctCgroups'
    BY <1>1, Zenon DEF DistinctCgroups
  <1>5. CallsCurrent'
    BY <1>1, <1>2 DEF CallsCurrent
  <1>6. ScanCoversRunning'
    BY Zenon DEF ScanCoversRunning
  <1>7. RunningRestricted'
    BY Zenon DEF RunningRestricted
  <1> QED
    BY <1>3, <1>4, <1>5, <1>6, <1>7, Zenon

\* The types StartUnit keeps.
LEMMA StartUnitTypes ==
  ASSUME TypeOK, NEW i \in Inst, NEW c \in Cgid, NEW m \in Mask, StartUnit(i, c, m)
  PROVE  /\ cg' \in [Inst -> Cgid \cup {None}]
         /\ phase' \in [Inst -> {"stopped", "prestart", "running", "stopping"}]
         /\ inc' \in [Inst -> Nat] /\ starts' \in Nat /\ used' \subseteq Cgid
         /\ ctl' \subseteq CtlCall
  BY DEF TypeOK, StartUnit, CtlCall

\* The operator starts an agent.
LEMMA OperatorStartIInv ==
  ASSUME IInv, NEW i \in Top, NEW c \in Cgid, OperatorStart(i, c)
  PROVE  IInv'
  <1>1. i \in Inst /\ i \notin Minted /\ env[i] \in Mask
    BY SetsAssumption, Zenon DEF Inst, IInv, TypeOK
  <1>2. StartUnit(i, c, env[i]) /\ UNCHANGED <<env, gen, par, policy, gcVars, brokerVars>>
    BY Zenon DEF OperatorStart
  <1>3. TypeOK'
    BY <1>1, <1>2, StartUnitTypes, Zenon DEF IInv, TypeOK, gcVars, brokerVars
  <1>4. \A j \in Inst : cg'[j] \in {cg[j], None} \/ Free(cg'[j])
    BY <1>1, <1>2, Zenon DEF StartUnit, IInv, TypeOK
  <1>5. MintedDelegated'
    BY <1>1, <1>2 DEF StartUnit, IInv, TypeOK, MintedDelegated
  <1> QED
    BY <1>1, <1>2, <1>3, <1>4, <1>5, StartUnitUnits, BrokerUntouched, Zenon DEF IInv

\* A running agent is asked to stop.
LEMMA StopUnitIInv ==
  ASSUME IInv, NEW i \in Inst, StopUnit(i)
  PROVE  IInv'
  <1> USE SetsAssumption DEF IInv, StopUnit
  <1>1. cg[i] \in Cgid
    BY Zenon DEF TypeOK, Phases
  <1>2. TypeOK'
    BY <1>1 DEF TypeOK, CtlCall, gcVars, brokerVars, Mask
  <1>3. Phases'
    BY Zenon DEF TypeOK, Phases
  <1>4. CallsCurrent'
    BY <1>1 DEF TypeOK, CallsCurrent, DistinctCgroups
  <1>5. DistinctCgroups' /\ ScanCoversRunning' /\ MintedDelegated' /\ RunningRestricted'
    BY Zenon DEF TypeOK, DistinctCgroups, ScanCoversRunning, MintedDelegated, RunningRestricted, gcVars, Inst
  <1> QED
    BY <1>2, <1>3, <1>4, <1>5, BrokerUntouched, Zenon

\* A unit's cgroup goes away at any point of its life.
LEMMA UnitGoneIInv ==
  ASSUME IInv, NEW i \in Inst, UnitGone(i)
  PROVE  IInv'
  <1> USE SetsAssumption DEF IInv, UnitGone
  <1>1. TypeOK'
    BY Zenon DEF TypeOK, gcVars, brokerVars
  <1>2. \A r \in ctl : r.cgid # None
    BY Zenon DEF TypeOK, CtlCall
  <1>3. Phases' /\ DistinctCgroups'
    BY Zenon DEF TypeOK, Phases, DistinctCgroups
  <1>4. CallsCurrent'
    BY <1>2, Zenon DEF TypeOK, CallsCurrent
  <1>5. ScanCoversRunning' /\ MintedDelegated' /\ RunningRestricted'
    BY Zenon DEF TypeOK, ScanCoversRunning, MintedDelegated, RunningRestricted, gcVars, Inst
  <1>6. \A j \in Inst : cg'[j] \in {cg[j], None}
    BY Zenon DEF TypeOK
  <1> QED
    BY <1>1, <1>3, <1>4, <1>5, <1>6, BrokerUntouched, Zenon

-----------------------------------------------------------------------------
(* The collector                                                           *)

\* EGRESS-SET-SELF writes the manifest; only its own unit, and only while it still
\* waits for this call, goes on to run.
LEMMA SetSelfIInv ==
  ASSUME IInv, NEW r \in ctl, ctlEgressSetSelf(r)
  PROVE  IInv'
  <1> USE SetsAssumption DEF IInv, ctlEgressSetSelf
  <1>1. r.inst \in Inst /\ r.cgid \in Cgid /\ r.mask \in Mask /\ r.mask # None
    BY Zenon DEF TypeOK, CtlCall
  <1>2. TypeOK'
    BY <1>1, Zenon DEF TypeOK, gcVars, brokerVars
  <1>3. cg[r.inst] = r.cgid => phase[r.inst] = "prestart"
    BY <1>1, Zenon DEF CallsCurrent
  <1>4. Phases' /\ DistinctCgroups' /\ MintedDelegated'
    BY <1>1, <1>3, Zenon DEF TypeOK, Phases, DistinctCgroups, MintedDelegated, Inst
  <1>5. CallsCurrent'
    <2>1. \A q \in ctl' : q \in ctl /\ q # r
      BY Zenon
    <2>2. \A q \in ctl' : cg[r.inst] = r.cgid => q.cgid # r.cgid
      BY <2>1, <1>1, <1>3, Zenon DEF CallsCurrent, TypeOK, CtlCall
    <2> QED
      BY <2>1, <2>2, <1>1 DEF CallsCurrent, TypeOK
  <1>6. gcLive = None
    BY Zenon DEF ScanCoversRunning, TypeOK
  <1>7. ScanCoversRunning'
    BY <1>6, Zenon DEF ScanCoversRunning, gcVars
  <1>8. RunningRestricted'
    BY <1>1 DEF TypeOK, RunningRestricted
  <1> QED
    BY <1>2, <1>4, <1>5, <1>7, <1>8, BrokerUntouched, Zenon

\* A refused EGRESS-SET-SELF sends its unit to ExecStopPost.
LEMMA SetSelfErrIInv ==
  ASSUME IInv, NEW r \in ctl, ctlEgressSetSelfErr(r)
  PROVE  IInv'
  <1> USE SetsAssumption DEF IInv, ctlEgressSetSelfErr
  <1>1. r \in CtlCall /\ r.inst \in Inst /\ r.cgid \in Cgid
    BY Zenon DEF TypeOK, CtlCall
  <1>2. TypeOK'
    <2>1. [r EXCEPT !.verb = "clear", !.mask = {}] \in CtlCall
      BY <1>1, Zenon DEF CtlCall, Mask
    <2> QED
      BY <1>1, <2>1 DEF TypeOK, gcVars, brokerVars
  <1>3. cg[r.inst] = r.cgid => phase[r.inst] = "prestart"
    BY <1>1, Zenon DEF CallsCurrent
  <1>4. Phases' /\ DistinctCgroups' /\ MintedDelegated'
    BY <1>1, <1>3 DEF TypeOK, Phases, DistinctCgroups, MintedDelegated, Inst
  <1>5. CallsCurrent'
    <2> DEFINE clear == [r EXCEPT !.verb = "clear", !.mask = {}]
    <2>1. clear.verb = "clear" /\ clear.cgid = r.cgid
      BY <1>1, Zenon DEF CtlCall
    <2>2. CASE cg[r.inst] = r.cgid
      <3>1. \A q \in ctl' : q = clear \/ (q \in ctl /\ q # r)
        BY <2>2, Zenon
      <3>2. \A q \in ctl : q # r => q.cgid # r.cgid
        BY <2>2, <1>1, <1>3, ZenonT(30) DEF CallsCurrent, TypeOK, CtlCall
      <3>3. \A j \in Inst : cg[j] = r.cgid => j = r.inst
        BY <2>2, <1>1, Zenon DEF DistinctCgroups
      <3>4. phase' = [phase EXCEPT ![r.inst] = "stopping"] /\ cg' = cg
        BY <2>2, Zenon
      <3> HIDE DEF clear
      <3> QED
        BY <3>1, <3>2, <3>3, <3>4, <2>1, <1>1, ZenonT(30) DEF CallsCurrent, TypeOK
    <2>3. CASE cg[r.inst] # r.cgid
      BY <2>3, Zenon DEF CallsCurrent
    <2> QED
      BY <2>2, <2>3, Zenon
  <1>6. ScanCoversRunning' /\ RunningRestricted'
    BY <1>1, Zenon DEF TypeOK, ScanCoversRunning, RunningRestricted, gcVars
  <1> QED
    BY <1>2, <1>4, <1>5, <1>6, BrokerUntouched, Zenon

\* EGRESS-CLEAR-SELF removes a manifest; no unit that runs has that cgroup.
LEMMA ClearSelfIInv ==
  ASSUME IInv, NEW r \in ctl, ctlEgressClearSelf(r)
  PROVE  IInv'
  <1> USE SetsAssumption DEF IInv, ctlEgressClearSelf, unitVars
  <1>1. r.cgid \in Cgid
    BY Zenon DEF TypeOK, CtlCall
  <1>2. TypeOK'
    BY <1>1, Zenon DEF TypeOK, gcVars, brokerVars
  <1>3. \A i \in Inst : phase[i] = "running" => cg[i] # r.cgid
    BY Zenon DEF CallsCurrent
  <1>4. RunningRestricted'
    BY <1>3 DEF TypeOK, RunningRestricted
  <1>5. Phases' /\ DistinctCgroups' /\ CallsCurrent' /\ ScanCoversRunning' /\ MintedDelegated'
    BY Zenon DEF Phases, DistinctCgroups, CallsCurrent, ScanCoversRunning, MintedDelegated, gcVars
  <1> QED
    BY <1>2, <1>4, <1>5, BrokerUntouched, Zenon

\* The GC takes the lock and its snapshot of the live cgroups together.
LEMMA GCScanIInv ==
  ASSUME IInv, GCScan
  PROVE  IInv'
  <1> USE SetsAssumption DEF IInv, GCScan, unitVars
  <1>1. LiveCgids \subseteq Cgid
    BY DEF LiveCgids, TypeOK
  <1>2. TypeOK'
    BY <1>1, Zenon DEF TypeOK, brokerVars
  <1>3. ScanCoversRunning'
    BY Zenon DEF ScanCoversRunning, LiveCgids, Phases, TypeOK
  <1>4. Phases' /\ DistinctCgroups' /\ CallsCurrent' /\ MintedDelegated' /\ RunningRestricted'
    BY Zenon DEF Phases, DistinctCgroups, CallsCurrent, MintedDelegated, RunningRestricted
  <1> QED
    BY <1>2, <1>3, <1>4, BrokerUntouched, Zenon

\* The GC prunes no manifest of an agent that runs.
LEMMA GCPruneIInv ==
  ASSUME IInv, GCPrune
  PROVE  IInv'
  <1> USE SetsAssumption DEF IInv, GCPrune, unitVars
  <1>1. TypeOK'
    BY Zenon DEF TypeOK, brokerVars, Entries
  <1>2. \A i \in Inst : phase[i] = "running" => cg[i] \in Cgid /\ cg[i] \notin Prunes
    BY Zenon DEF ScanCoversRunning, Prunes, Phases, TypeOK
  <1>3. RunningRestricted'
    BY <1>2, Zenon DEF RunningRestricted
  <1>4. Phases' /\ DistinctCgroups' /\ CallsCurrent' /\ ScanCoversRunning' /\ MintedDelegated'
    BY Zenon DEF Phases, DistinctCgroups, CallsCurrent, ScanCoversRunning, MintedDelegated, TypeOK
  <1> QED
    BY <1>1, <1>3, <1>4, BrokerUntouched, Zenon

\* What is left of a handler whose process dies.
LEMMA KilledLocals ==
  ASSUME IInv, NEW k \in Conn
  PROVE  Killed(k) \in ConnState /\ Killed(k).pc \in {"idle", "done", "dead"}
  <1>1. h[k] \in ConnState
    BY Zenon DEF IInv, TypeOK
  <1>2. CASE h[k].pc \in {"idle", "done", "dead"}
    BY <1>1, <1>2, Zenon DEF Killed
  <1>3. CASE h[k].pc \notin {"idle", "done", "dead"}
    <2>1. Killed(k) = [IdleConn EXCEPT !.pc = "dead", !.unrecorded = h[k].unrecorded]
      BY <1>3, Zenon DEF Killed
    <2>2. "dead" \in PCs /\ h[k].unrecorded \in {None, "expand", "delegate", "narrow"}
      BY <1>1, Zenon DEF PCs, ConnState
    <2>3. [IdleConn EXCEPT !.pc = "dead", !.unrecorded = h[k].unrecorded] \in ConnState
      BY <2>2, IdleConnType, SetPcUnrecorded, Zenon
    <2>4. [IdleConn EXCEPT !.pc = "dead", !.unrecorded = h[k].unrecorded].pc = "dead"
      BY IdleConnType, Zenon DEF ConnState
    <2> QED
      BY <2>1, <2>3, <2>4, Zenon
  <1> QED
    BY <1>2, <1>3, Zenon

\* Dead handlers have no locals to rely on.
LEMMA BrokerGone ==
  ASSUME IInv, h' = [k \in Conn |-> Killed(k)]
  PROVE  h' \in [Conn -> ConnState] /\ HandlerLocals' /\ ChildReserved' /\ ExecutingOnOwn'
  <1>1. \A k \in Conn : h'[k] \in ConnState /\ h'[k].pc \in {"idle", "done", "dead"}
    BY KilledLocals, Zenon
  <1>2. h' \in [Conn -> ConnState]
    BY KilledLocals, Zenon
  <1>3. HandlerLocals' /\ ChildReserved' /\ ExecutingOnOwn'
    BY <1>1, Zenon DEF HandlerLocals, ChildReserved, ExecutingOnOwn, PreLaunch, Active, PCs, Executing
  <1> QED
    BY <1>2, <1>3, Zenon

\* A collector restart stops every agent before it wipes the maps.
LEMMA CollectorRestartIInv ==
  ASSUME IInv, CollectorRestart
  PROVE  IInv'
  <1> USE SetsAssumption DEF IInv, CollectorRestart
  <1>1. TypeOK'
    BY BrokerGone, Zenon DEF TypeOK
  <1>2. Phases' /\ DistinctCgroups' /\ CallsCurrent' /\ ScanCoversRunning' /\ RunningRestricted'
    BY Zenon DEF Phases, DistinctCgroups, CallsCurrent, ScanCoversRunning, RunningRestricted
  <1>3. MintedDelegated'
    BY Zenon DEF MintedDelegated, Inst
  <1> QED
    BY <1>1, <1>2, <1>3, BrokerGone, Zenon

-----------------------------------------------------------------------------
(* The broker                                                              *)

\* One handler's locals become s: what s has to satisfy for the invariant.
LocalsOK(k, s) ==
    /\ s \in ConnState
    /\ s.pc \in Active => /\ s.kind \in {"expand", "delegate", "narrow"}
                          /\ s.inst \in Inst /\ s.cgid \in Cgid
                          /\ s.inst \in Minted => gen[s.inst] > 0
    /\ s.pc \in {"computed", "snapshot"} => s.mask \in Mask
    /\ s.pc \in {"launching", "snapshot", "starting"} => s.kind = "delegate"
    /\ s.pc = "computed" => s.kind # "delegate"
    /\ s.kind = "delegate" /\ s.pc \in {"gate", "approved", "launching", "verified", "snapshot"} =>
          /\ s.child \in Minted /\ gen[s.child] = 0
          /\ gen[s.inst] + 1 <= MaxDepth
          /\ \A j \in Conn \ {k} : PreLaunch(j) => h[j].child # s.child
    /\ s.pc \in Executing => \A j \in Inst : cg[j] = s.cgid => j = s.inst

\* A handler update of that kind preserves what is said of handlers.
LEMMA HandlerUpdate ==
  ASSUME IInv, NEW k \in Conn, NEW s, LocalsOK(k, s), h' = [h EXCEPT ![k] = s],
         UNCHANGED <<cg, gen>>
  PROVE  h' \in [Conn -> ConnState] /\ HandlerLocals' /\ ChildReserved' /\ ExecutingOnOwn'
  <1>1. h \in [Conn -> ConnState]
    BY Zenon DEF IInv, TypeOK
  <1>2. h'[k] = s /\ \A j \in Conn \ {k} : h'[j] = h[j]
    BY <1>1, Zenon
  <1>3. h' \in [Conn -> ConnState]
    BY <1>1, Zenon DEF LocalsOK
  <1>4. HandlerLocals'
    BY <1>2, Zenon DEF IInv, HandlerLocals, LocalsOK
  <1>5. ChildReserved'
    BY <1>2 DEF IInv, ChildReserved, PreLaunch, LocalsOK
  <1>6. ExecutingOnOwn'
    BY <1>2 DEF IInv, ExecutingOnOwn, LocalsOK
  <1> QED
    BY <1>3, <1>4, <1>5, <1>6, Zenon

\* Goto changes the position and nothing else.
LEMMA GotoFields ==
  ASSUME IInv, NEW k \in Conn, NEW pc \in PCs, Goto(k, pc)
  PROVE  \E s \in ConnState :
           /\ h' = [h EXCEPT ![k] = s] /\ s.pc = pc
           /\ s.kind = h[k].kind /\ s.inst = h[k].inst /\ s.cgid = h[k].cgid
           /\ s.mask = h[k].mask /\ s.child = h[k].child
  <1> DEFINE s == [h[k] EXCEPT !.pc = pc]
  <1>1. h[k] \in ConnState
    BY Zenon DEF IInv, TypeOK
  <1>2. s \in ConnState
    BY <1>1, SetPc, Zenon
  <1>3. s.pc = pc /\ s.kind = h[k].kind /\ s.inst = h[k].inst /\ s.cgid = h[k].cgid
        /\ s.mask = h[k].mask /\ s.child = h[k].child
    BY <1>1, Zenon DEF ConnState
  <1>4. h' = [h EXCEPT ![k] = s]
    BY Zenon DEF Goto
  <1> QED
    BY <1>2, <1>3, <1>4, Zenon

\* A handler that moves on to a position that relies on no further local.
LEMMA GotoIInv ==
  ASSUME IInv, NEW k \in Conn, h[k].pc \in Active,
         NEW pc \in {"approved", "launching", "verified", "starting", "applied", "failed", "noop"},
         Goto(k, pc),
         pc \in {"approved", "launching", "verified"} => (h[k].kind = "delegate" => PreLaunch(k)),
         pc \in {"launching", "starting"} => h[k].kind = "delegate",
         pc = "verified" => \A j \in Inst : cg[j] = h[k].cgid => j = h[k].inst,
         UNCHANGED <<cg, gen>>
  PROVE  h' \in [Conn -> ConnState] /\ HandlerLocals' /\ ChildReserved' /\ ExecutingOnOwn'
  <1>1. pc \in PCs
    BY Zenon DEF PCs
  <1>2. PICK s \in ConnState :
           /\ h' = [h EXCEPT ![k] = s] /\ s.pc = pc
           /\ s.kind = h[k].kind /\ s.inst = h[k].inst /\ s.cgid = h[k].cgid
           /\ s.mask = h[k].mask /\ s.child = h[k].child
    BY <1>1, GotoFields, Zenon
  <1>3. LocalsOK(k, s)
    BY <1>2 DEF LocalsOK, IInv, HandlerLocals, ChildReserved, PreLaunch, Active, PCs, Executing
  <1> QED
    BY <1>2, <1>3, HandlerUpdate, Zenon

\* A request is over: its handler holds no locals any more.
LEMMA FinishIInv ==
  ASSUME IInv, NEW k \in Conn, NEW reply \in {"none", "OK", "ERR", "ERR audit"},
         NEW u \in {None, "expand", "delegate", "narrow"}, Finish(k, reply, u),
         UNCHANGED <<cg, gen>>
  PROVE  h' \in [Conn -> ConnState] /\ HandlerLocals' /\ ChildReserved' /\ ExecutingOnOwn'
  <1> DEFINE s == [IdleConn EXCEPT !.pc = "done", !.reply = reply, !.unrecorded = u]
  <1>1. s \in ConnState
    BY IdleConnType, ZenonT(30) DEF ConnState, PCs
  <1>2. s.pc = "done"
    BY IdleConnType, Zenon DEF ConnState
  <1>3. h' = [h EXCEPT ![k] = s]
    BY Zenon DEF Finish
  <1> HIDE DEF s
  <1>4. LocalsOK(k, s)
    BY <1>1, <1>2, Zenon DEF LocalsOK, Active, Executing
  <1> QED
    BY <1>3, <1>4, HandlerUpdate, Zenon

\* An effect has landed.
LEMMA AppliedIInv ==
  ASSUME IInv, NEW k \in Conn, h[k].pc \in Active, Applied(k), UNCHANGED <<cg, gen>>
  PROVE  h' \in [Conn -> ConnState] /\ HandlerLocals' /\ ChildReserved' /\ ExecutingOnOwn'
  <1> DEFINE s == [h[k] EXCEPT !.pc = "applied", !.unrecorded = h[k].kind]
  <1>1. h[k] \in ConnState /\ h[k].kind \in {None, "expand", "delegate", "narrow"} /\ "applied" \in PCs
    BY Zenon DEF IInv, TypeOK, ConnState, PCs
  <1>2. s \in ConnState
    BY <1>1, SetPcUnrecorded, Zenon
  <1>3. s.pc = "applied" /\ s.kind = h[k].kind /\ s.inst = h[k].inst /\ s.cgid = h[k].cgid
    BY <1>1, Zenon DEF ConnState
  <1>4. h' = [h EXCEPT ![k] = s]
    BY Zenon DEF Applied
  <1> HIDE DEF s
  <1>5. LocalsOK(k, s)
    BY <1>2, <1>3, Zenon DEF LocalsOK, IInv, HandlerLocals, Executing
  <1> QED
    BY <1>4, <1>5, HandlerUpdate, Zenon

\* The locals of a handler that has attested its caller.
LEMMA AttestedFields ==
  ASSUME IInv, NEW k \in Conn, NEW i \in Inst, NEW kind \in {"expand", "delegate", "narrow"},
         NEW req \in Mask, NEW child \in Minted \cup {None}, NEW pc \in PCs
  PROVE  LET s == Attested(k, i, kind, req, child, pc) IN
         /\ s \in ConnState /\ s.pc = pc /\ s.kind = kind /\ s.inst = i
         /\ s.cgid = cg[i] /\ s.child = child
  <1>1. h[k] \in ConnState /\ cg[i] \in Cgid \cup {None} /\ inc[i] \in Nat
    BY Zenon DEF IInv, TypeOK
  <1> QED
    BY <1>1, ZenonT(30) DEF Attested, ConnState

\* A broker step that only moves one handler preserves the whole invariant.
LEMMA BrokerStepIInv ==
  ASSUME IInv, UNCHANGED <<unitVars, policy, ctl, gcVars>>,
         h' \in [Conn -> ConnState], HandlerLocals', ChildReserved', ExecutingOnOwn',
         egressMu' \in Conn \cup {None}, launchMu' \in Conn \cup {None}
  PROVE  IInv'
  <1>1. TypeOK'
    BY Zenon DEF IInv, TypeOK, unitVars, gcVars
  <1> QED
    BY <1>1, UnitsUntouched, Zenon DEF IInv

\* An EXPAND enters the gate.
LEMMA ExpandTailIInv ==
  ASSUME IInv, NEW k \in Conn, NEW i \in Inst, NEW req \in Mask, handleExpandTail(k, i, req)
  PROVE  IInv'
  <1> DEFINE s == Attested(k, i, "expand", req, None, "gate")
  <1>1. s \in ConnState /\ s.pc = "gate" /\ s.kind = "expand" /\ s.inst = i /\ s.cgid = cg[i]
    <2>1. "gate" \in PCs BY Zenon DEF PCs
    <2>2. None \in Minted \cup {None} BY Zenon
    <2> QED BY <2>1, <2>2, AttestedFields
  <1>2. cg[i] \in Cgid /\ (i \in Minted => gen[i] > 0)
    BY Zenon DEF handleExpandTail, IInv, TypeOK, Phases, MintedDelegated
  <1>3. h' = [h EXCEPT ![k] = s] /\ UNCHANGED <<unitVars, policy, ctl, gcVars, egressMu, launchMu>>
    BY Zenon DEF handleExpandTail
  <1> HIDE DEF s
  <1>4. LocalsOK(k, s)
    BY <1>1, <1>2, Zenon DEF LocalsOK, Executing
  <1> QED
    BY <1>3, <1>4, HandlerUpdate, BrokerStepIInv, Zenon DEF unitVars, IInv, TypeOK

\* A DELEGATE enters the gate with a fresh child name, within the depth cap.
LEMMA DelegateTailIInv ==
  ASSUME IInv, NEW k \in Conn, NEW i \in Inst, NEW req \in Mask, NEW m \in Minted,
         handleDelegateTail(k, i, req, m)
  PROVE  IInv'
  <1> DEFINE s == Attested(k, i, "delegate", req, m, "gate")
  <1>1. s \in ConnState /\ s.pc = "gate" /\ s.kind = "delegate" /\ s.inst = i
        /\ s.cgid = cg[i] /\ s.child = m
    <2>1. "gate" \in PCs BY Zenon DEF PCs
    <2>2. None \in Minted \cup {None} BY Zenon
    <2> QED BY <2>1, <2>2, AttestedFields
  <1>2. cg[i] \in Cgid /\ (i \in Minted => gen[i] > 0)
    BY Zenon DEF handleDelegateTail, IInv, TypeOK, Phases, MintedDelegated
  <1>3. /\ h' = [h EXCEPT ![k] = s] /\ UNCHANGED <<unitVars, policy, ctl, gcVars, egressMu, launchMu>>
        /\ gen[i] + 1 <= MaxDepth /\ gen[m] = 0 /\ \A j \in Conn : h[j].child # m
    BY Zenon DEF handleDelegateTail
  <1> HIDE DEF s
  <1>4. LocalsOK(k, s)
    BY <1>1, <1>2, <1>3, Zenon DEF LocalsOK, Executing
  <1> QED
    BY <1>3, <1>4, HandlerUpdate, BrokerStepIInv, Zenon DEF unitVars, IInv, TypeOK

\* A NARROW has resolved its target.
LEMMA NarrowIInv ==
  ASSUME IInv, NEW k \in Conn, NEW i \in Inst, NEW req \in Mask, handleNarrow(k, i, req)
  PROVE  IInv'
  <1> DEFINE s == Attested(k, i, "narrow", req, None, "approved")
  <1>1. s \in ConnState /\ s.pc = "approved" /\ s.kind = "narrow" /\ s.inst = i /\ s.cgid = cg[i]
    <2>1. "approved" \in PCs BY Zenon DEF PCs
    <2>2. None \in Minted \cup {None} BY Zenon
    <2> QED BY <2>1, <2>2, AttestedFields
  <1>2. cg[i] \in Cgid /\ (i \in Minted => gen[i] > 0)
    BY Zenon DEF handleNarrow, IInv, TypeOK, Phases, MintedDelegated
  <1>3. h' = [h EXCEPT ![k] = s] /\ UNCHANGED <<unitVars, policy, ctl, gcVars, egressMu, launchMu>>
    BY Zenon DEF handleNarrow
  <1> HIDE DEF s
  <1>4. LocalsOK(k, s)
    BY <1>1, <1>2, Zenon DEF LocalsOK, Executing
  <1> QED
    BY <1>3, <1>4, HandlerUpdate, BrokerStepIInv, Zenon DEF unitVars, IInv, TypeOK

\* The operator's answer, or the timeout.
LEMMA GateIInv ==
  ASSUME IInv, NEW k \in Conn, approve(k) \/ reject(k)
  PROVE  IInv'
  <1>1. CASE approve(k)
    <2>1. /\ h[k].pc = "gate" /\ Goto(k, "approved") /\ UNCHANGED <<cg, gen>>
          /\ UNCHANGED <<unitVars, policy, ctl, gcVars, egressMu, launchMu>>
      BY <1>1, Zenon DEF approve, unitVars
    <2>2. h' \in [Conn -> ConnState] /\ HandlerLocals' /\ ChildReserved' /\ ExecutingOnOwn'
      BY <2>1, GotoIInv, Zenon DEF Active, PCs, PreLaunch
    <2> QED
      BY <2>1, <2>2, BrokerStepIInv, Zenon DEF IInv, TypeOK
  <1>2. CASE reject(k)
    BY <1>2, FinishIInv, BrokerStepIInv, Zenon DEF reject, unitVars, IInv, TypeOK
  <1> QED
    BY <1>1, <1>2, Zenon

\* DELEGATE takes launchMu.
LEMMA LockLaunchIInv ==
  ASSUME IInv, NEW k \in Conn, lockLaunch(k)
  PROVE  IInv'
  <1>1. /\ h[k].pc = "approved" /\ h[k].kind = "delegate" /\ Goto(k, "launching")
        /\ UNCHANGED <<cg, gen>> /\ launchMu' = k /\ egressMu' = egressMu
        /\ UNCHANGED <<unitVars, policy, ctl, gcVars>>
    BY Zenon DEF lockLaunch, unitVars
  <1>2. h' \in [Conn -> ConnState] /\ HandlerLocals' /\ ChildReserved' /\ ExecutingOnOwn'
    BY <1>1, GotoIInv, Zenon DEF Active, PCs, PreLaunch
  <1> QED
    BY <1>1, <1>2, BrokerStepIInv, Zenon DEF IInv, TypeOK

\* The executor looks its cgroup up again: what it acts on from here is the
\* requester's, and no other unit can be given that id.
LEMMA ReverifyIInv ==
  ASSUME IInv, NEW k \in Conn, reverifyCgroup(k)
  PROVE  IInv'
  <1>1. /\ h[k].pc \in {"approved", "launching"} /\ (h[k].pc = "launching" <=> h[k].kind = "delegate")
        /\ UNCHANGED <<unitVars, policy, ctl, gcVars>> /\ UNCHANGED <<cg, gen>>
    BY Zenon DEF reverifyCgroup, unitVars
  <1>2. h[k].pc \in Active /\ h[k].inst \in Inst /\ h[k].cgid \in Cgid
    BY <1>1, Zenon DEF Active, PCs, IInv, HandlerLocals
  <1>3. CASE cg[h[k].inst] = h[k].cgid
    <2>1. Goto(k, "verified") /\ egressMu' = k /\ launchMu' = launchMu
      BY <1>3, Zenon DEF reverifyCgroup
    <2>2. \A j \in Inst : cg[j] = h[k].cgid => j = h[k].inst
      BY <1>2, <1>3, SetsAssumption, Zenon DEF IInv, DistinctCgroups
    <2>3. h' \in [Conn -> ConnState] /\ HandlerLocals' /\ ChildReserved' /\ ExecutingOnOwn'
      BY <1>1, <1>2, <2>1, <2>2, GotoIInv, Zenon DEF PreLaunch
    <2> QED
      BY <1>1, <2>1, <2>3, BrokerStepIInv, Zenon DEF IInv, TypeOK
  <1>4. CASE cg[h[k].inst] # h[k].cgid
    <2>1. Goto(k, "failed") /\ Leave(k)
      BY <1>4, Zenon DEF reverifyCgroup
    <2>2. h' \in [Conn -> ConnState] /\ HandlerLocals' /\ ChildReserved' /\ ExecutingOnOwn'
      BY <1>1, <1>2, <2>1, GotoIInv, Zenon
    <2> QED
      BY <1>1, <2>1, <2>2, BrokerStepIInv, Zenon DEF IInv, TypeOK, Leave
  <1> QED
    BY <1>3, <1>4, Zenon

\* A handler that has derived a mask.
LEMMA MaskedIInv ==
  ASSUME IInv, NEW k \in Conn, NEW m \in Mask, NEW pc \in {"computed", "noop", "snapshot"},
         h[k].pc = "verified", pc = "computed" => h[k].kind # "delegate",
         pc = "snapshot" => h[k].kind = "delegate",
         h' = [h EXCEPT ![k].pc = pc, ![k].mask = m], UNCHANGED <<cg, gen>>
  PROVE  h' \in [Conn -> ConnState] /\ HandlerLocals' /\ ChildReserved' /\ ExecutingOnOwn'
  <1> DEFINE s == [h[k] EXCEPT !.pc = pc, !.mask = m]
  <1>1. h[k] \in ConnState /\ pc \in PCs /\ h[k].pc \in Active
    BY Zenon DEF IInv, TypeOK, PCs, Active
  <1>2. s \in ConnState
    BY <1>1, Zenon DEF ConnState
  <1>3. s.pc = pc /\ s.mask = m /\ s.kind = h[k].kind /\ s.inst = h[k].inst
        /\ s.cgid = h[k].cgid /\ s.child = h[k].child
    BY <1>1, Zenon DEF ConnState
  <1>4. h' = [h EXCEPT ![k] = s]
    BY Zenon DEF IInv, TypeOK
  <1> HIDE DEF s
  <1>5. LocalsOK(k, s)
    BY <1>1, <1>2, <1>3 DEF LocalsOK, IInv, HandlerLocals, ChildReserved, ExecutingOnOwn, PreLaunch, Executing
  <1> QED
    BY <1>4, <1>5, HandlerUpdate, Zenon

\* The executor reads the live manifest and derives the new mask.
LEMMA LookupIInv ==
  ASSUME IInv, NEW k \in Conn, lookupEgressMask(k)
  PROVE  IInv'
  <1> DEFINE live == policy[h[k].cgid]
             expand == expandMask(live, h[k].req, Ceiling)
             narrow == narrowMask(live, h[k].req)
             got(pc, m) == h' = [h EXCEPT ![k].pc = pc, ![k].mask = m]
  <1>1. h[k].pc = "verified" /\ UNCHANGED <<unitVars, policy, ctl, gcVars>> /\ UNCHANGED <<cg, gen>>
    BY Zenon DEF lookupEgressMask, unitVars
  <1>2. h[k].pc \in Active /\ h[k].cgid \in Cgid /\ h[k].req \in Mask
    BY <1>1, Zenon DEF Active, PCs, IInv, HandlerLocals, TypeOK, ConnState
  <1>3. live # None => live \in Mask /\ expand \in Mask /\ narrow \in Mask /\ live \cap h[k].req \in Mask
    BY <1>2, LaunchAssumption, Zenon DEF IInv, TypeOK, Mask, expandMask, narrowMask
  <1>4. \/ /\ live = None
           /\ Goto(k, "failed") /\ Leave(k)
        \/ /\ live # None /\ h[k].kind = "expand"
           /\ got("computed", expand) /\ UNCHANGED <<egressMu, launchMu>>
        \/ /\ live # None /\ h[k].kind = "narrow"
           /\ got(IF narrow = live THEN "noop" ELSE "computed", narrow)
           /\ UNCHANGED <<egressMu, launchMu>>
        \/ /\ live # None /\ h[k].kind = "delegate"
           /\ got("snapshot", live \cap h[k].req)
           /\ egressMu' = None /\ launchMu' = launchMu
    BY Zenon DEF lookupEgressMask
  <1>5. egressMu' \in Conn \cup {None} /\ launchMu' \in Conn \cup {None}
    BY <1>4, Zenon DEF IInv, TypeOK, Leave
  <1> HIDE DEF live, expand, narrow
  <1>6. CASE live = None /\ Goto(k, "failed")
    BY <1>1, <1>2, <1>5, <1>6, GotoIInv, BrokerStepIInv, Zenon
  <1>7. CASE live # None /\ h[k].kind = "expand" /\ got("computed", expand)
    BY <1>1, <1>3, <1>5, <1>7, MaskedIInv, BrokerStepIInv, Zenon
  <1>8. CASE live # None /\ h[k].kind = "narrow" /\ got(IF narrow = live THEN "noop" ELSE "computed", narrow)
    <2>1. CASE narrow = live
      BY <1>1, <1>3, <1>5, <1>8, <2>1, MaskedIInv, BrokerStepIInv, Zenon
    <2>2. CASE narrow # live
      BY <1>1, <1>3, <1>5, <1>8, <2>2, MaskedIInv, BrokerStepIInv, Zenon
    <2> QED
      BY <2>1, <2>2, Zenon
  <1>9. CASE live # None /\ h[k].kind = "delegate" /\ got("snapshot", live \cap h[k].req)
    BY <1>1, <1>3, <1>5, <1>9, MaskedIInv, BrokerStepIInv, Zenon
  <1> QED
    BY <1>4, <1>6, <1>7, <1>8, <1>9, Zenon

\* The broker rewrites an existing manifest and never removes or creates one.
LEMMA UpdateExistIInv ==
  ASSUME IInv, NEW k \in Conn, updateExist(k)
  PROVE  IInv'
  <1>1. h[k].pc = "computed" /\ Leave(k) /\ UNCHANGED <<unitVars, ctl, gcVars>> /\ UNCHANGED <<cg, gen>>
    BY Zenon DEF updateExist, unitVars
  <1>2. h[k].pc \in Active /\ h[k].cgid \in Cgid /\ h[k].mask \in Mask /\ h[k].mask # None
    BY <1>1, SetsAssumption, Zenon DEF Active, PCs, IInv, HandlerLocals
  <1>3. egressMu' \in Conn \cup {None} /\ launchMu' \in Conn \cup {None}
    BY <1>1, Zenon DEF IInv, TypeOK, Leave
  <1>4. CASE policy[h[k].cgid] = None
    <2>1. Goto(k, "failed") /\ policy' = policy
      BY <1>4, Zenon DEF updateExist
    <2> QED
      BY <1>1, <1>2, <1>3, <2>1, GotoIInv, BrokerStepIInv, Zenon
  <1>5. CASE policy[h[k].cgid] # None
    <2>1. Applied(k) /\ policy' = [policy EXCEPT ![h[k].cgid] = h[k].mask]
      BY <1>5, Zenon DEF updateExist
    <2>2. h' \in [Conn -> ConnState] /\ HandlerLocals' /\ ChildReserved' /\ ExecutingOnOwn'
      BY <1>1, <1>2, <2>1, AppliedIInv, Zenon
    <2>3. TypeOK'
      BY <1>1, <1>2, <1>3, <2>1, <2>2, Zenon DEF IInv, TypeOK, unitVars, gcVars
    <2>4. RunningRestricted'
      <3>1. \A c \in Cgid : policy[c] # None => policy'[c] # None
        BY <1>1, <1>2, <2>1, Zenon DEF IInv, TypeOK
      <3>2. \A i \in Inst : phase[i] = "running" => cg[i] \in Cgid BY Zenon DEF IInv, Phases, TypeOK
      <3> QED BY <1>1, <3>1, <3>2, Zenon DEF IInv, RunningRestricted, unitVars
    <2>5. Phases' /\ DistinctCgroups' /\ CallsCurrent' /\ ScanCoversRunning' /\ MintedDelegated'
      BY <1>1, Zenon DEF IInv, Phases, DistinctCgroups, CallsCurrent, ScanCoversRunning, MintedDelegated, unitVars, gcVars
    <2> QED
      BY <2>2, <2>3, <2>4, <2>5, Zenon DEF IInv
  <1> QED
    BY <1>4, <1>5, Zenon

\* A delegated child is started: its name was reserved, so no other request sees
\* its generation change, and the depth cap holds for it.
LEMMA LaunchChildIInv ==
  ASSUME IInv, NEW k \in Conn, NEW c \in Cgid, launchChild(k, c)
  PROVE  IInv'
  <1> DEFINE m == h[k].child
  <1>1. h[k].pc = "snapshot" /\ h[k].kind = "delegate" /\ h[k].pc \in Active /\ PreLaunch(k)
    BY Zenon DEF launchChild, IInv, HandlerLocals, Active, PCs, PreLaunch
  <1>2. /\ m \in Minted /\ m \in Inst /\ gen[m] = 0 /\ h[k].inst \in Inst
        /\ gen[h[k].inst] + 1 <= MaxDepth /\ h[k].mask \in Mask
    BY <1>1, Zenon DEF IInv, ChildReserved, HandlerLocals, Inst
  <1>3. /\ StartUnit(m, c, h[k].mask)
        /\ env' = [env EXCEPT ![m] = h[k].mask]
        /\ gen' = [gen EXCEPT ![m] = gen[h[k].inst] + 1]
        /\ par' = [par EXCEPT ![m] = [inst |-> h[k].inst, inc |-> h[k].inc]]
        /\ Goto(k, "starting") /\ UNCHANGED <<policy, gcVars, egressMu, launchMu>>
    BY Zenon DEF launchChild
  <1>4. "starting" \in PCs
    BY Zenon DEF PCs
  <1>5. PICK s \in ConnState :
           /\ h' = [h EXCEPT ![k] = s] /\ s.pc = "starting"
           /\ s.kind = h[k].kind /\ s.inst = h[k].inst /\ s.cgid = h[k].cgid
           /\ s.mask = h[k].mask /\ s.child = h[k].child
    BY <1>3, <1>4, GotoFields, Zenon
  <1>6. h'[k] = s /\ \A j \in Conn \ {k} : h'[j] = h[j]
    BY <1>5, Zenon DEF IInv, TypeOK
  <1> HIDE DEF m
  <1>7. TypeOK'
    <2>1. h' \in [Conn -> ConnState]
      BY <1>5, Zenon DEF IInv, TypeOK
    <2>2. gen' \in [Inst -> 0..MaxDepth]
      <3>1. gen \in [Inst -> 0..MaxDepth]
        BY Zenon DEF IInv, TypeOK
      <3>2. gen[h[k].inst] + 1 \in 0..MaxDepth
        BY <1>2, <3>1, BoundsAssumption
      <3>3. gen' = [gen EXCEPT ![m] = gen[h[k].inst] + 1]
        BY <1>3, Zenon
      <3> QED
        BY <3>1, <3>2, <3>3, Zenon
    <2>3. par' \in [Inst -> [inst : Inst \cup {None}, inc : Nat]]
      <3>1. h[k].inc \in Nat
        BY Zenon DEF IInv, TypeOK, ConnState
      <3>2. par \in [Inst -> [inst : Inst \cup {None}, inc : Nat]]
        BY Zenon DEF IInv, TypeOK
      <3>3. par' = [par EXCEPT ![m] = [inst |-> h[k].inst, inc |-> h[k].inc]]
        BY <1>3, Zenon
      <3> QED
        BY <1>2, <3>1, <3>2, <3>3, Zenon
    <2>4. env' \in [Inst -> Mask]
      <3>1. env \in [Inst -> Mask] /\ env' = [env EXCEPT ![m] = h[k].mask]
        BY <1>3, Zenon DEF IInv, TypeOK
      <3> QED
        BY <1>2, <3>1, Zenon
    <2>5. /\ cg' \in [Inst -> Cgid \cup {None}]
          /\ phase' \in [Inst -> {"stopped", "prestart", "running", "stopping"}]
          /\ inc' \in [Inst -> Nat] /\ starts' \in Nat /\ used' \subseteq Cgid
          /\ ctl' \subseteq CtlCall
      BY <1>2, <1>3, StartUnitTypes, Zenon DEF IInv
    <2> QED
      BY <1>3, <2>1, <2>2, <2>3, <2>4, <2>5, Zenon DEF IInv, TypeOK, gcVars
  <1>8. Phases' /\ DistinctCgroups' /\ CallsCurrent' /\ ScanCoversRunning' /\ RunningRestricted'
    BY <1>2, <1>3, StartUnitUnits, Zenon
  <1>9. gen'[m] > 0 /\ \A j \in Inst \ {m} : gen'[j] = gen[j]
    <2>1. gen \in [Inst -> 0..MaxDepth]
      BY Zenon DEF IInv, TypeOK
    <2>2. gen' = [gen EXCEPT ![m] = gen[h[k].inst] + 1]
      BY <1>3, Zenon
    <2>3. gen[h[k].inst] \in Nat /\ m \in Inst
      BY <1>2, <2>1, BoundsAssumption
    <2> QED
      BY <2>1, <2>2, <2>3
  <1>10. MintedDelegated'
    <2>1. phase \in [Inst -> {"stopped", "prestart", "running", "stopping"}]
      BY Zenon DEF IInv, TypeOK
    <2>2. \A j \in Inst \ {m} : phase'[j] = phase[j]
      BY <1>2, <1>3, <2>1, Zenon DEF StartUnit
    <2> QED
      BY <1>9, <2>2, Zenon DEF IInv, MintedDelegated, Inst
  <1>11. \A j \in Conn : h[j].pc \in Active => h[j].inst # m
    BY <1>2 DEF IInv, HandlerLocals
  <1>12. HandlerLocals'
    BY <1>1, <1>5, <1>6, <1>9, <1>11 DEF IInv, HandlerLocals, Active
  <1>13. ChildReserved'
    <2> SUFFICES ASSUME NEW j \in Conn, PreLaunch(j)'
                 PROVE  /\ h'[j].child \in Minted /\ gen'[h'[j].child] = 0
                        /\ gen'[h'[j].inst] + 1 <= MaxDepth
                        /\ \A q \in Conn : PreLaunch(q)' /\ h'[q].child = h'[j].child => q = j
      BY Zenon DEF ChildReserved
    <2>1. \A q \in Conn : PreLaunch(q)' => q # k /\ PreLaunch(q) /\ h'[q] = h[q]
      BY <1>5, <1>6, Zenon DEF PreLaunch
    <2>2. h[j].child # m /\ h[j].inst # m
      BY <1>1, <1>11, <2>1, Zenon DEF IInv, ChildReserved, PreLaunch, Active, PCs, m
    <2>3. h[j].child \in Inst \ {m} /\ h[j].inst \in Inst \ {m}
      BY <2>1, <2>2, Zenon DEF IInv, ChildReserved, HandlerLocals, PreLaunch, Active, PCs, Inst
    <2>4. gen'[h[j].child] = gen[h[j].child] /\ gen'[h[j].inst] = gen[h[j].inst]
      BY <1>9, <2>3, Zenon
    <2>5. /\ PreLaunch(j) /\ h'[j] = h[j] /\ h[j].child \in Minted /\ gen[h[j].child] = 0
          /\ gen[h[j].inst] + 1 <= MaxDepth
          /\ \A q \in Conn : PreLaunch(q) /\ h[q].child = h[j].child => q = j
      BY <2>1, Zenon DEF IInv, ChildReserved
    <2>6. \A q \in Conn : PreLaunch(q)' /\ h'[q].child = h'[j].child => q = j
      BY <2>1, <2>5, Zenon
    <2> QED
      BY <2>4, <2>5, <2>6, Zenon
  <1>14. ExecutingOnOwn'
    <2>1. \A q \in Conn : h'[q].pc \in Executing => q # k /\ h[q].pc \in Executing /\ h'[q] = h[q]
      BY <1>5, <1>6, Zenon DEF Executing
    <2>2. \A q \in Conn : h[q].pc \in Executing => h[q].cgid # c
      BY <1>3, Zenon DEF StartUnit, Free
    <2>3. \A j \in Inst : cg'[j] = c \/ cg'[j] = cg[j]
      BY <1>2, <1>3, Zenon DEF StartUnit, IInv, TypeOK
    <2> QED
      BY <2>1, <2>2, <2>3 DEF IInv, ExecutingOnOwn
  <1> QED
    BY <1>7, <1>8, <1>10, <1>12, <1>13, <1>14, Zenon DEF IInv

\* A launch that fails, and a start job that returns.
LEMMA LaunchOverIInv ==
  ASSUME IInv, NEW k \in Conn, launchChildErr(k) \/ startReturned(k)
  PROVE  IInv'
  <1>1. /\ h[k].pc \in {"snapshot", "starting"} /\ UNCHANGED <<unitVars, policy, ctl, gcVars>>
        /\ UNCHANGED <<cg, gen>> /\ launchMu' = None /\ egressMu' = egressMu
        /\ Goto(k, "failed") \/ Applied(k)
    BY Zenon DEF launchChildErr, startReturned, unitVars
  <1>2. h[k].pc \in Active
    BY <1>1, Zenon DEF Active, PCs
  <1>3. h' \in [Conn -> ConnState] /\ HandlerLocals' /\ ChildReserved' /\ ExecutingOnOwn'
    BY <1>1, <1>2, GotoIInv, AppliedIInv, Zenon
  <1> QED
    BY <1>1, <1>3, BrokerStepIInv, Zenon DEF IInv, TypeOK

\* The decision is recorded and the request answered.
LEMMA RecordIInv ==
  ASSUME IInv, NEW k \in Conn, NEW appended \in BOOLEAN, record(k, appended)
  PROVE  IInv'
  <1>1. UNCHANGED <<unitVars, policy, ctl, gcVars>> /\ UNCHANGED <<cg, gen>>
        /\ egressMu' \in Conn \cup {None} /\ launchMu' \in Conn \cup {None}
    BY Zenon DEF record, unitVars, IInv, TypeOK
  <1>2. \E reply \in {"none", "OK", "ERR", "ERR audit"}, u \in {None, "expand", "delegate", "narrow"} :
          Finish(k, reply, u)
    <2>1. h[k].unrecorded \in {None, "expand", "delegate", "narrow"}
      BY Zenon DEF IInv, TypeOK, ConnState
    <2>2. CASE h[k].pc = "failed"
      BY <2>2, Zenon DEF record
    <2>3. CASE h[k].pc # "failed" /\ appended
      BY <2>3, Zenon DEF record
    <2>4. CASE h[k].pc # "failed" /\ ~appended
      BY <2>1, <2>4, Zenon DEF record
    <2> QED
      BY <2>2, <2>3, <2>4, Zenon
  <1>3. h' \in [Conn -> ConnState] /\ HandlerLocals' /\ ChildReserved' /\ ExecutingOnOwn'
    BY <1>1, <1>2, FinishIInv, Zenon
  <1> QED
    BY <1>1, <1>3, BrokerStepIInv, Zenon

\* The broker dies.
LEMMA BrokerCrashIInv ==
  ASSUME IInv, BrokerCrash
  PROVE  IInv'
  BY BrokerGone, BrokerStepIInv, Zenon DEF BrokerCrash

-----------------------------------------------------------------------------
(* The theorems                                                            *)

\* Every step of the specification preserves the inductive invariant.
LEMMA NextIInv == IInv /\ [Next]_vars => IInv'
  <1> SUFFICES ASSUME IInv, [Next]_vars PROVE IInv'
    BY Zenon
  <1>1. CASE Units
    BY <1>1, OperatorStartIInv, StopUnitIInv, UnitGoneIInv, Zenon DEF Units
  <1>2. CASE Collector
    BY <1>2, SetSelfIInv, SetSelfErrIInv, ClearSelfIInv, GCScanIInv, GCPruneIInv,
       CollectorRestartIInv, Zenon DEF Collector
  <1>3. CASE Broker
    <2>1. ASSUME NEW k \in Conn, Requests(k) PROVE IInv'
      BY <2>1, ExpandTailIInv, DelegateTailIInv, NarrowIInv, Zenon DEF Requests
    <2>2. ASSUME NEW k \in Conn, HandlerStep(k) PROVE IInv'
      BY <2>2, LockLaunchIInv, ReverifyIInv, LookupIInv, UpdateExistIInv, LaunchChildIInv,
         LaunchOverIInv, RecordIInv, Zenon DEF HandlerStep
    <2> QED
      BY <1>3, <2>1, <2>2, GateIInv, BrokerCrashIInv, Zenon DEF Broker
  <1>4. CASE UNCHANGED vars
    <2>1. UNCHANGED <<unitVars, policy, ctl, gcVars, brokerVars>> /\ UNCHANGED <<cg, gen>>
      BY <1>4, Zenon DEF vars, unitVars
    <2>2. TypeOK'
      BY <2>1, Zenon DEF IInv, TypeOK, unitVars, gcVars, brokerVars
    <2>3. HandlerLocals' /\ ChildReserved' /\ ExecutingOnOwn'
      BY <2>1, BrokerUntouched, Zenon
    <2> QED
      BY <2>1, <2>2, <2>3, UnitsUntouched, Zenon DEF IInv
  <1> QED
    BY <1>1, <1>2, <1>3, <1>4, Zenon DEF Next

\* The strengthening holds in every reachable state.
THEOREM Inductive == Spec => []IInv
  BY InitIInv, NextIInv, PTL DEF Spec

\* Type correctness, the delegation depth cap among it: however many requests are
\* in the gate together, no child of generation above maxDelegateDepth is launched.
THEOREM TypeCorrect == Spec => []TypeOK
  <1>1. IInv => TypeOK
    BY Zenon DEF IInv
  <1> QED
    BY Inductive, <1>1, PTL

\* No agent ever runs without a manifest, for any number of agents, inodes (reused
\* or not), connections and restarts.
THEOREM NeverUnrestricted == Spec => []RunningRestricted
  <1>1. IInv => RunningRestricted
    BY Zenon DEF IInv
  <1> QED
    BY Inductive, <1>1, PTL

\* An approved EXPAND never lands on another instance's cgroup.
THEOREM WidensRequester == Spec => WidensOnlyRequester
  <1>1. IInv /\ [Next]_vars =>
          [\A k \in Conn :
             h[k].kind = "expand" /\ h[k].pc = "computed" /\ h'[k].pc = "applied" =>
               \A j \in Inst : phase[j] = "running" /\ cg[j] = h[k].cgid => j = h[k].inst]_vars
    BY Zenon DEF IInv, ExecutingOnOwn, Executing
  <1> QED
    BY Inductive, <1>1, PTL DEF Spec, WidensOnlyRequester

-----------------------------------------------------------------------------
(* The locks                                                               *)

EgressHeld(x) == \/ x.pc \in {"verified", "computed"}
                 \/ x.kind = "narrow" /\ x.pc \in {"applied", "noop", "failed"}
LaunchHeld(x) == /\ x.kind = "delegate"
                 /\ x.pc \in {"launching", "verified", "snapshot", "starting"}

\* A step of handler k: the locks that others hold stay as they are.
LEMMA LocksOfOne ==
  ASSUME IInv, LocksReleased, NEW k \in Conn, NEW x, h' = [h EXCEPT ![k] = x],
         egressMu' \in {None, egressMu, k}, launchMu' \in {None, launchMu, k},
         egressMu' = k => EgressHeld(x), launchMu' = k => LaunchHeld(x)
  PROVE  LocksReleased'
  <1>1. h'[k] = x /\ \A j \in Conn \ {k} : h'[j] = h[j]
    BY Zenon DEF IInv, TypeOK
  <1>2. egressMu' \in Conn \cup {None} /\ launchMu' \in Conn \cup {None}
    BY Zenon DEF IInv, TypeOK
  <1>3. egressMu' # None => EgressHeld(h'[egressMu'])
    BY <1>1, <1>2 DEF LocksReleased, EgressHeld
  <1>4. launchMu' # None => LaunchHeld(h'[launchMu'])
    BY <1>1, <1>2 DEF LocksReleased, LaunchHeld
  <1> QED
    BY <1>3, <1>4, Zenon DEF LocksReleased, EgressHeld, LaunchHeld

\* A handler at a position where it holds no lock.
LEMMA HoldsNone ==
  ASSUME IInv, LocksReleased, NEW k \in Conn, h[k].pc \in {"idle", "gate", "approved"}
  PROVE  egressMu # k /\ launchMu # k
  BY SetsAssumption, Zenon DEF LocksReleased

\* A handler's moves change its own record only, and never the kind of its request.
Moves(k, x, pc) == h' = [h EXCEPT ![k] = x] /\ x.pc = pc /\ x.kind = h[k].kind

LEMMA GotoMoves ==
  ASSUME IInv, NEW k \in Conn, NEW pc, Goto(k, pc)
  PROVE  \E x : Moves(k, x, pc)
  <1>1. h[k] \in ConnState /\ h \in [Conn -> ConnState] BY Zenon DEF IInv, TypeOK
  <1>2. Moves(k, [h[k] EXCEPT !.pc = pc], pc) BY <1>1, Zenon DEF Goto, Moves, ConnState
  <1> QED BY <1>2, Zenon

LEMMA GotMoves ==
  ASSUME IInv, NEW k \in Conn, NEW pc, NEW m, h' = [h EXCEPT ![k].pc = pc, ![k].mask = m]
  PROVE  \E x : Moves(k, x, pc)
  <1>1. h[k] \in ConnState /\ h \in [Conn -> ConnState] BY Zenon DEF IInv, TypeOK
  <1>2. Moves(k, [h[k] EXCEPT !.pc = pc, !.mask = m], pc) BY <1>1, Zenon DEF Moves, ConnState
  <1> QED BY <1>2, Zenon

LEMMA AppliedMoves ==
  ASSUME IInv, NEW k \in Conn, Applied(k)
  PROVE  \E x : Moves(k, x, "applied")
  <1>1. h[k] \in ConnState /\ h \in [Conn -> ConnState] BY Zenon DEF IInv, TypeOK
  <1>2. Moves(k, [h[k] EXCEPT !.pc = "applied", !.unrecorded = h[k].kind], "applied")
    BY <1>1, Zenon DEF Applied, Moves, ConnState
  <1> QED BY <1>2, Zenon

\* A request is taken on, decided or refused by a handler that holds no lock.
LEMMA LocksBefore ==
  ASSUME IInv, LocksReleased, NEW k \in Conn, Requests(k) \/ approve(k) \/ reject(k)
  PROVE  LocksReleased'
  <1>1. \E x : h' = [h EXCEPT ![k] = x]
    <2>1. CASE Requests(k)
      BY <2>1, Zenon DEF Requests, handleExpandTail, handleNarrow, handleDelegateTail
    <2>2. CASE approve(k) BY <2>2, GotoMoves, Zenon DEF approve, Moves
    <2>3. CASE reject(k) BY <2>3, Zenon DEF reject, Finish
    <2> QED BY <2>1, <2>2, <2>3, Zenon
  <1>2. h[k].pc \in {"idle", "gate", "approved"} /\ egressMu' = egressMu /\ launchMu' = launchMu
    BY Zenon DEF Requests, handleExpandTail, handleNarrow, handleDelegateTail, approve, reject
  <1>3. egressMu # k /\ launchMu # k BY <1>2, HoldsNone, Zenon
  <1> QED BY <1>1, <1>2, <1>3, LocksOfOne, Zenon

\* Leaving an executor without its lock, NARROW's apart.
LEMMA LocksLeave ==
  ASSUME IInv, LocksReleased, NEW k \in Conn, NEW x, h' = [h EXCEPT ![k] = x],
         x.kind = h[k].kind, x.pc \in {"applied", "failed"}, Leave(k),
         launchMu = k => h[k].kind = "delegate"
  PROVE  LocksReleased'
  <1>1. egressMu' \in {None, k} /\ launchMu' \in {None, launchMu} BY Zenon DEF Leave
  <1>2. egressMu' = k => EgressHeld(x) BY SetsAssumption, Zenon DEF Leave, EgressHeld
  <1>3. launchMu' # k BY SetsAssumption, Zenon DEF Leave
  <1> QED BY <1>1, <1>2, <1>3, LocksOfOne, Zenon

LEMMA LocksHandler ==
  ASSUME IInv, LocksReleased, NEW k \in Conn, HandlerStep(k)
  PROVE  LocksReleased'
  <1>0. launchMu = k => h[k].kind = "delegate" BY SetsAssumption, Zenon DEF LocksReleased
  <1>a. ASSUME Goto(k, "failed"), Leave(k) PROVE LocksReleased'
    <2>1. PICK x : Moves(k, x, "failed") BY <1>a, GotoMoves, Zenon
    <2> QED BY <1>0, <1>a, <2>1, LocksLeave, Zenon DEF Moves
  <1>1. CASE lockLaunch(k)
    <2>1. PICK x : Moves(k, x, "launching") BY <1>1, GotoMoves, Zenon DEF lockLaunch
    <2>2. LaunchHeld(x) BY <1>1, <2>1, Zenon DEF lockLaunch, LaunchHeld, Moves
    <2>3. egressMu # k BY <1>1, HoldsNone, Zenon DEF lockLaunch
    <2> QED BY <1>1, <2>1, <2>2, <2>3, LocksOfOne, Zenon DEF lockLaunch, Moves
  <1>2. CASE reverifyCgroup(k)
    <2>1. CASE cg[h[k].inst] = h[k].cgid
      <3>1. Goto(k, "verified") /\ egressMu' = k /\ launchMu' = launchMu
        BY <1>2, <2>1, Zenon DEF reverifyCgroup
      <3>2. PICK x : Moves(k, x, "verified") BY <3>1, GotoMoves, Zenon
      <3>3. EgressHeld(x) BY <3>2, Zenon DEF EgressHeld, Moves
      <3>4. launchMu = k => LaunchHeld(x) BY <1>0, <3>2, Zenon DEF LaunchHeld, Moves
      <3> QED BY <3>1, <3>2, <3>3, <3>4, LocksOfOne, Zenon DEF Moves
    <2>2. CASE cg[h[k].inst] # h[k].cgid BY <1>a, <1>2, <2>2, Zenon DEF reverifyCgroup
    <2> QED BY <2>1, <2>2, Zenon
  <1>3. CASE lookupEgressMask(k)
    <2>1. CASE Goto(k, "failed") /\ Leave(k) BY <1>a, <2>1, Zenon
    <2>2. CASE /\ h[k].kind \in {"expand", "narrow"} /\ UNCHANGED <<egressMu, launchMu>>
               /\ \E pc \in {"noop", "computed"} : \E m :
                    /\ h' = [h EXCEPT ![k].pc = pc, ![k].mask = m]
                    /\ pc = "noop" => h[k].kind = "narrow"
      <3>1. PICK pc \in {"noop", "computed"} : \E m :
                    /\ h' = [h EXCEPT ![k].pc = pc, ![k].mask = m]
                    /\ pc = "noop" => h[k].kind = "narrow"
        BY <2>2, Zenon
      <3>2. PICK x : Moves(k, x, pc) BY <3>1, GotMoves, Zenon
      <3>3. EgressHeld(x) BY <3>1, <3>2, Zenon DEF EgressHeld, Moves
      <3>4. launchMu # k BY <1>0, <2>2, Zenon
      <3> QED BY <2>2, <3>2, <3>3, <3>4, LocksOfOne, Zenon DEF Moves
    <2>3. CASE /\ h[k].kind = "delegate" /\ egressMu' = None /\ launchMu' = launchMu
               /\ \E m : h' = [h EXCEPT ![k].pc = "snapshot", ![k].mask = m]
      <3>1. PICK x : Moves(k, x, "snapshot") BY <2>3, GotMoves, Zenon
      <3>2. LaunchHeld(x) BY <2>3, <3>1, Zenon DEF LaunchHeld, Moves
      <3> QED BY <2>3, <3>1, <3>2, SetsAssumption, LocksOfOne, Zenon DEF Moves
    <2> QED BY <1>3, <2>1, <2>2, <2>3, Zenon DEF lookupEgressMask
  <1>4. CASE updateExist(k)
    <2>1. CASE Goto(k, "failed") BY <1>a, <1>4, <2>1, Zenon DEF updateExist
    <2>2. CASE Applied(k)
      <3>1. PICK x : Moves(k, x, "applied") BY <2>2, AppliedMoves, Zenon
      <3> QED BY <1>0, <1>4, <3>1, LocksLeave, Zenon DEF updateExist, Moves
    <2> QED BY <1>4, <2>1, <2>2, Zenon DEF updateExist
  <1>5. ASSUME NEW c \in Cgid, launchChild(k, c) PROVE LocksReleased'
    <2>1. PICK x : Moves(k, x, "starting") BY <1>5, GotoMoves, Zenon DEF launchChild
    <2>2. egressMu # k BY <1>5, SetsAssumption, Zenon DEF launchChild, LocksReleased
    <2>3. launchMu = k => LaunchHeld(x) BY <1>0, <2>1, Zenon DEF LaunchHeld, Moves
    <2>4. egressMu' = egressMu /\ launchMu' = launchMu BY <1>5, Zenon DEF launchChild
    <2> QED BY <2>1, <2>2, <2>3, <2>4, LocksOfOne, Zenon DEF Moves
  <1>6. CASE launchChildErr(k) \/ startReturned(k)
    <2>1. PICK pc : \E x : Moves(k, x, pc)
      BY <1>6, GotoMoves, AppliedMoves, Zenon DEF launchChildErr, startReturned
    <2>2. PICK x : Moves(k, x, pc) BY <2>1, Zenon
    <2>3. egressMu # k /\ egressMu' = egressMu /\ launchMu' = None
      BY <1>6, SetsAssumption, Zenon DEF launchChildErr, startReturned, LocksReleased
    <2>4. /\ h' = [h EXCEPT ![k] = x]
          /\ egressMu' \in {None, egressMu, k} /\ launchMu' \in {None, launchMu, k}
          /\ egressMu' # k /\ launchMu' # k
      BY <2>2, <2>3, SetsAssumption, Zenon DEF Moves
    <2> QED BY <2>4, LocksOfOne, Zenon
  <1>7. ASSUME NEW appended \in BOOLEAN, record(k, appended) PROVE LocksReleased'
    <2>1. \E x : h' = [h EXCEPT ![k] = x]
      <3>1. \E reply, u : Finish(k, reply, u)
        <4>1. CASE h[k].pc = "failed" BY <1>7, <4>1, Zenon DEF record
        <4>2. CASE h[k].pc # "failed" /\ appended BY <1>7, <4>2, Zenon DEF record
        <4>3. CASE h[k].pc # "failed" /\ ~appended BY <1>7, <4>3, Zenon DEF record
        <4> QED BY <4>1, <4>2, <4>3, Zenon
      <3> QED BY <3>1, Zenon DEF Finish
    <2>2. egressMu' \in {None, egressMu} /\ egressMu' # k /\ launchMu' = launchMu
      BY <1>7, SetsAssumption, Zenon DEF record
    <2>3. launchMu # k BY <1>7, SetsAssumption, Zenon DEF record, LocksReleased
    <2> QED BY <2>1, <2>2, <2>3, LocksOfOne, Zenon
  <1> QED BY <1>1, <1>2, <1>3, <1>4, <1>5, <1>6, <1>7, Zenon DEF HandlerStep

LEMMA LocksStep == IInv /\ LocksReleased /\ [Next]_vars => LocksReleased'
  <1> SUFFICES ASSUME IInv, LocksReleased, [Next]_vars PROVE LocksReleased' BY Zenon
  <1>1. CASE UNCHANGED brokerVars BY <1>1, Zenon DEF brokerVars, LocksReleased
  <1>2. CASE egressMu' = None /\ launchMu' = None BY <1>2, Zenon DEF LocksReleased
  <1>3. CASE Units
    BY <1>1, <1>3, Zenon DEF Units, OperatorStart, StopUnit, UnitGone
  <1>4. CASE Collector
    BY <1>1, <1>2, <1>4, Zenon DEF Collector, ctlEgressSetSelf, ctlEgressSetSelfErr, ctlEgressClearSelf,
       GCScan, GCPrune, CollectorRestart
  <1>5. CASE Broker BY <1>2, <1>5, LocksBefore, LocksHandler, Zenon DEF Broker, BrokerCrash
  <1>6. CASE UNCHANGED vars BY <1>1, <1>6, Zenon DEF vars
  <1> QED BY <1>3, <1>4, <1>5, <1>6, Zenon DEF Next

\* The locks of the broker are held only by handlers between their lock and their
\* unlock, for any number of handlers, crashes and restarts: neither can be waited
\* for in a cycle, and no return leaves one behind.
THEOREM LocksAlwaysReleased == Spec => []LocksReleased
  <1>1. Init => LocksReleased BY Zenon DEF Init, LocksReleased
  <1> QED BY Inductive, <1>1, LocksStep, PTL DEF Spec

-----------------------------------------------------------------------------
(* Who holds what, when no inode is reused                                 *)

\* The most an instance may hold: its drop-in, and the ceiling if it may EXPAND.
Held(i) == env[i] \cup (IF i \in Top THEN Ceiling ELSE {})

\* What connection k relies on when its locals are x and own says which instance a
\* cgroup id was created for.
ConnOwn(own, k, x) ==
    /\ x.cgid \in used /\ own[x.cgid] = x.inst
    /\ cg[x.inst] = x.cgid => x.inc = inc[x.inst]
    /\ x.kind = "expand" => x.inst \in Top
    /\ x.pc \in Executing => egressMu = k
    /\ x.pc \in {"computed", "snapshot"} => x.mask \subseteq Held(x.inst)
    /\ x.pc = "computed" =>
          /\ \A r \in ctl : r.verb = "set" => r.cgid # x.cgid
          /\ policy[x.cgid] # None =>
                x.mask = IF x.kind = "expand" THEN expandMask(policy[x.cgid], x.req, Ceiling)
                                              ELSE narrowMask(policy[x.cgid], x.req)

UnitsOwn(own) == \A i \in Inst : cg[i] # None => cg[i] \in used /\ own[cg[i]] = i

CallsOwn(own) ==
    \A r \in ctl : /\ r.cgid \in used /\ own[r.cgid] = r.inst
                   /\ r.verb = "set" => r.mask \subseteq Held(r.inst) /\ policy[r.cgid] = None

ConnsOwn(own) == \A k \in Conn : h[k].pc \in Active => ConnOwn(own, k, h[k])

PolicyOwn(own) == \A c \in Cgid : policy[c] # None => c \in used /\ policy[c] \subseteq Held(own[c])

NamesOwn(own) ==
    \A c \in used : own[c] \in Inst /\ (own[c] \in Minted => gen[own[c]] > 0)

\* A child's drop-in is within what its parent may hold.
Delegations ==
    \A m \in Minted : gen[m] > 0 => /\ par[m].inst \in Inst /\ env[m] \subseteq Held(par[m].inst)
                                    /\ par[m].inst \in Minted => gen[par[m].inst] > 0

Owns(own) == /\ UnitsOwn(own) /\ CallsOwn(own) /\ ConnsOwn(own) /\ PolicyOwn(own)
             /\ NamesOwn(own) /\ Delegations

OwnInv == \E own \in [Cgid -> Inst \cup {None}] : Owns(own)

\* Nothing is owned, pending or derived at the start.
LEMMA InitOwn == Init => OwnInv
  <1> SUFFICES ASSUME Init PROVE OwnInv BY Zenon
  <1> DEFINE own == [c \in Cgid |-> None]
  <1>1. own \in [Cgid -> Inst \cup {None}] BY Zenon
  <1>2. UnitsOwn(own) /\ CallsOwn(own) /\ PolicyOwn(own) /\ NamesOwn(own)
    BY Zenon DEF Init, UnitsOwn, CallsOwn, PolicyOwn, NamesOwn
  <1>3. ConnsOwn(own) BY IdleConnType, Zenon DEF Init, ConnsOwn, Active
  <1>4. Delegations
    <2>1. \A m \in Minted : gen[m] = 0 BY Zenon DEF Init, Inst
    <2> QED BY <2>1 DEF Delegations
  <1> QED BY <1>1, <1>2, <1>3, <1>4, Zenon DEF OwnInv, Owns

\* A fresh cgroup id becomes the started unit's; nothing else was said of the id,
\* and a drop-in that is written is one of a child that never ran.
LEMMA StartOwn ==
  ASSUME IInv, ~Recycle, NEW own \in [Cgid -> Inst \cup {None}], Owns(own),
         NEW i \in Inst, NEW c \in Cgid, NEW m \in Mask, StartUnit(i, c, m),
         UNCHANGED <<policy, egressMu>>, m \subseteq Held(i)',
         \A j \in Inst \ {i} : env'[j] = env[j] /\ gen'[j] = gen[j],
         env'[i] = env[i] \/ (i \in Minted /\ gen[i] = 0),
         i \in Minted => gen'[i] > 0,
         \A k \in Conn : h'[k].pc \in Active =>
             \/ h'[k] = h[k]
             \/ /\ h[k].pc \in Active /\ h'[k].pc = "starting" /\ h'[k].kind = h[k].kind
                /\ h'[k].inst = h[k].inst /\ h'[k].cgid = h[k].cgid /\ h'[k].inc = h[k].inc
  PROVE  LET new == [own EXCEPT ![c] = i] IN
         UnitsOwn(new)' /\ CallsOwn(new)' /\ ConnsOwn(new)' /\ PolicyOwn(new)' /\ NamesOwn(new)'
  <1> DEFINE new == [own EXCEPT ![c] = i]
  <1>1. /\ c \notin used /\ used' = used \cup {c} /\ used \subseteq Cgid
        /\ new[c] = i /\ \A d \in used : new[d] = own[d]
    BY Zenon DEF StartUnit, Free, IInv, TypeOK
  <1> HIDE DEF new
  <1>2. /\ cg'[i] = c /\ \A j \in Inst \ {i} : cg'[j] = cg[j] /\ inc'[j] = inc[j]
        /\ cg[i] = None /\ c # None
    BY SetsAssumption, Zenon DEF StartUnit, IInv, TypeOK, Phases
  <1>3. ctl' = ctl \cup {[verb |-> "set", inst |-> i, cgid |-> c, mask |-> m]}
    BY Zenon DEF StartUnit
  <1>4. \A d \in used : /\ own[d] \in Inst /\ Held(own[d])' = Held(own[d])
                        /\ own[d] \in Minted => gen'[own[d]] > 0
    <2> SUFFICES ASSUME NEW d \in used
                 PROVE  /\ own[d] \in Inst /\ Held(own[d])' = Held(own[d])
                        /\ own[d] \in Minted => gen'[own[d]] > 0
      BY Zenon
    <2>1. own[d] \in Inst /\ (own[d] \in Minted => gen[own[d]] > 0) BY Zenon DEF Owns, NamesOwn
    <2>2. env'[own[d]] = env[own[d]] BY <2>1, BoundsAssumption
    <2>3. own[d] \in Minted => gen'[own[d]] > 0 BY <2>1, Zenon
    <2> QED BY <2>1, <2>2, <2>3, Zenon DEF Held
  <1>5. UnitsOwn(new)' BY <1>1, <1>2 DEF Owns, UnitsOwn
  <1>6. CallsOwn(new)'
    <2>1. ASSUME NEW r \in ctl
          PROVE  /\ r.cgid \in used' /\ new[r.cgid] = r.inst
                 /\ r.verb = "set" => r.mask \subseteq Held(r.inst)' /\ policy'[r.cgid] = None
      <3>1. /\ r.cgid \in used /\ own[r.cgid] = r.inst
            /\ r.verb = "set" => r.mask \subseteq Held(r.inst) /\ policy[r.cgid] = None
        BY Zenon DEF Owns, CallsOwn
      <3> QED BY <1>1, <1>4, <3>1, Zenon
    <2>2. policy'[c] = None BY <1>1, Zenon DEF Owns, PolicyOwn
    <2> DEFINE q == [verb |-> "set", inst |-> i, cgid |-> c, mask |-> m]
    <2>3. q.cgid \in used' /\ new[q.cgid] = q.inst /\ q.mask \subseteq Held(q.inst)' /\ policy'[q.cgid] = None
      BY <1>1, <2>2, Zenon
    <2> QED BY <1>3, <2>1, <2>3, Zenon DEF CallsOwn
  <1>7. ConnsOwn(new)'
    <2> SUFFICES ASSUME NEW k \in Conn, h'[k].pc \in Active PROVE ConnOwn(new, k, h[k])'
      BY Zenon DEF ConnsOwn
    <2>1. ConnOwn(own, k, h[k]) /\ h[k].inst \in Inst /\ h[k].cgid # c
      BY <1>1, ZenonT(30) DEF IInv, Owns, ConnsOwn, ConnOwn, HandlerLocals
    <2>2. cg'[h[k].inst] = h[k].cgid => h[k].inc = inc'[h[k].inst]
      BY <1>1, <1>2, <2>1, Zenon DEF ConnOwn
    <2>3. new[h[k].cgid] = h[k].inst /\ h[k].cgid \in used' /\ Held(h[k].inst)' = Held(h[k].inst)
      BY <1>1, <1>4, <2>1 DEF ConnOwn
    <2>4. CASE h'[k] = h[k]
      <3>1. h[k].pc = "computed" => \A r \in ctl' : r.verb = "set" => r.cgid # h[k].cgid
        BY <1>3, <2>1 DEF ConnOwn
      <3> QED BY <2>1, <2>2, <2>3, <2>4, <3>1, ZenonT(30) DEF ConnOwn
    <2>5. CASE h'[k] # h[k]
      <3>1. /\ h'[k].pc = "starting" /\ h'[k].kind = h[k].kind
            /\ h'[k].inst = h[k].inst /\ h'[k].cgid = h[k].cgid /\ h'[k].inc = h[k].inc
        BY <2>5, Zenon
      <3> QED BY <2>1, <2>2, <2>3, <3>1, Zenon DEF ConnOwn, Executing
    <2> QED BY <2>4, <2>5, Zenon
  <1>8. PolicyOwn(new)'
    <2> SUFFICES ASSUME NEW d \in Cgid, policy[d] # None
                 PROVE  d \in used' /\ policy[d] \subseteq Held(new[d])'
      BY Zenon DEF PolicyOwn
    <2>1. d \in used /\ policy[d] \subseteq Held(own[d]) BY Zenon DEF Owns, PolicyOwn
    <2>2. Held(new[d])' = Held(own[d])'
      BY <1>1, <2>1, Zenon DEF Held
    <2> QED BY <1>1, <1>4, <2>1, <2>2, Zenon
  <1>9. NamesOwn(new)' BY <1>1, <1>4, Zenon DEF NamesOwn
  <1> QED BY <1>5, <1>6, <1>7, <1>8, <1>9, Zenon DEF new

\* A step of the units or the collector that starts nothing: what the handlers rely
\* on stays, if the manifests they derived a mask from stay or go.
LEMMA ConnsKeep ==
  ASSUME IInv, NEW own, Owns(own), UNCHANGED <<h, egressMu, used, env, inc>>,
         \A j \in Inst : cg'[j] \in {cg[j], None},
         \A r \in ctl' : r.verb = "set" => r \in ctl,
         \A k \in Conn : h[k].pc = "computed" => policy'[h[k].cgid] \in {policy[h[k].cgid], None}
  PROVE  ConnsOwn(own)'
  <1> SUFFICES ASSUME NEW k \in Conn, h[k].pc \in Active PROVE ConnOwn(own, k, h[k])'
    BY Zenon DEF ConnsOwn
  <1>1. ConnOwn(own, k, h[k]) /\ h[k].inst \in Inst /\ h[k].cgid \in Cgid
    BY Zenon DEF IInv, Owns, ConnsOwn, HandlerLocals
  <1>2. cg'[h[k].inst] = h[k].cgid => h[k].inc = inc[h[k].inst]
    BY <1>1, SetsAssumption, Zenon DEF ConnOwn
  <1>3. Held(h[k].inst)' = Held(h[k].inst) BY Zenon DEF Held
  <1>4. h[k].pc = "computed" =>
          /\ \A r \in ctl' : r.verb = "set" => r.cgid # h[k].cgid
          /\ policy'[h[k].cgid] # None =>
                h[k].mask = IF h[k].kind = "expand"
                            THEN expandMask(policy'[h[k].cgid], h[k].req, Ceiling)
                            ELSE narrowMask(policy'[h[k].cgid], h[k].req)
    BY <1>1, Zenon DEF ConnOwn
  <1> QED BY <1>1, <1>2, <1>3, <1>4, Zenon DEF ConnOwn

\* Such a step, for the rest: no new EGRESS-SET-SELF, and a manifest that is written
\* is within what the id's instance may hold.
LEMMA KeepOwn ==
  ASSUME IInv, NEW own, Owns(own), UNCHANGED <<h, egressMu, used, env, inc, gen, par>>,
         \A j \in Inst : cg'[j] \in {cg[j], None},
         \A r \in ctl' : \/ r \in ctl /\ (r.verb = "set" => policy'[r.cgid] = policy[r.cgid])
                         \/ r.verb # "set" /\ r.cgid \in used /\ own[r.cgid] = r.inst,
         \A c \in Cgid : \/ policy'[c] \in {policy[c], None}
                         \/ c \in used /\ policy'[c] \subseteq Held(own[c]),
         \A k \in Conn : h[k].pc = "computed" => policy'[h[k].cgid] \in {policy[h[k].cgid], None}
  PROVE  Owns(own)'
  <1>1. \A i : Held(i)' = Held(i) BY Zenon DEF Held
  <1>2. UnitsOwn(own)' BY SetsAssumption, Zenon DEF Owns, UnitsOwn
  <1>3. CallsOwn(own)' BY <1>1, Zenon DEF Owns, CallsOwn
  <1>4. ConnsOwn(own)' BY ConnsKeep, Zenon
  <1>5. PolicyOwn(own)' BY <1>1, Zenon DEF Owns, PolicyOwn
  <1>6. NamesOwn(own)' BY Zenon DEF Owns, NamesOwn
  <1>7. Delegations' BY <1>1, Zenon DEF Owns, Delegations
  <1> QED BY <1>2, <1>3, <1>4, <1>5, <1>6, <1>7, Zenon DEF Owns

\* systemd starting, stopping and losing units.
LEMMA UnitsStepOwn ==
  ASSUME IInv, ~Recycle, OwnInv, Units
  PROVE  OwnInv'
  <1>1. PICK own \in [Cgid -> Inst \cup {None}] : Owns(own) BY Zenon DEF OwnInv
  <1>2. ASSUME NEW i \in Top, NEW c \in Cgid, OperatorStart(i, c) PROVE OwnInv'
    <2> DEFINE new == [own EXCEPT ![c] = i]
    <2>1. /\ StartUnit(i, c, env[i]) /\ i \in Inst /\ i \notin Minted /\ env[i] \in Mask
          /\ UNCHANGED <<env, gen, par, policy, h, egressMu>>
      BY <1>2, SetsAssumption, Zenon DEF OperatorStart, brokerVars, Inst, IInv, TypeOK
    <2>2. env[i] \subseteq Held(i)' BY <2>1, Zenon DEF Held
    <2>3. UnitsOwn(new)' /\ CallsOwn(new)' /\ ConnsOwn(new)' /\ PolicyOwn(new)' /\ NamesOwn(new)'
      BY <1>1, <2>1, <2>2, StartOwn, Zenon
    <2>4. Delegations' BY <1>1, <2>1, Zenon DEF Owns, Delegations, Held
    <2>5. new \in [Cgid -> Inst \cup {None}] BY <2>1, Zenon
    <2> QED BY <2>3, <2>4, <2>5, Zenon DEF OwnInv, Owns
  <1>3. ASSUME NEW i \in Inst, StopUnit(i) PROVE OwnInv'
    <2>1. /\ UNCHANGED <<h, egressMu, used, env, inc, gen, par, cg, policy>>
          /\ ctl' = ctl \cup {[verb |-> "clear", inst |-> i, cgid |-> cg[i], mask |-> {}]}
      BY <1>3, Zenon DEF StopUnit, brokerVars
    <2>2. cg[i] \in used /\ own[cg[i]] = i
      BY <1>1, <1>3, SetsAssumption, Zenon DEF StopUnit, IInv, TypeOK, Phases, Owns, UnitsOwn
    <2>3. Owns(own)' BY <1>1, <2>1, <2>2, KeepOwn
    <2> QED BY <1>1, <2>3, Zenon DEF OwnInv
  <1>4. ASSUME NEW i \in Inst, UnitGone(i) PROVE OwnInv'
    <2>1. /\ UNCHANGED <<h, egressMu, used, env, inc, gen, par, ctl, policy>>
          /\ \A j \in Inst : cg'[j] \in {cg[j], None}
      BY <1>4, Zenon DEF UnitGone, brokerVars, IInv, TypeOK
    <2>2. Owns(own)' BY <1>1, <2>1, KeepOwn, Zenon
    <2> QED BY <1>1, <2>2, Zenon DEF OwnInv
  <1> QED BY <1>2, <1>3, <1>4, Zenon DEF Units

\* The control verbs, the garbage collector and a collector restart.
LEMMA CollectorStepOwn ==
  ASSUME IInv, OwnInv, Collector
  PROVE  OwnInv'
  <1>1. PICK own \in [Cgid -> Inst \cup {None}] : Owns(own) BY Zenon DEF OwnInv
  <1>2. ASSUME NEW r \in ctl, ctlEgressSetSelf(r) PROVE OwnInv'
    <2>1. /\ UNCHANGED <<h, egressMu, used, env, inc, gen, par, cg>> /\ r.verb = "set"
          /\ ctl' = ctl \ {r} /\ policy' = [policy EXCEPT ![r.cgid] = r.mask]
      BY <1>2, Zenon DEF ctlEgressSetSelf, brokerVars
    <2>2. /\ r.cgid \in used /\ r.cgid \in Cgid /\ r.mask \subseteq Held(own[r.cgid])
      BY <1>1, <2>1, Zenon DEF IInv, TypeOK, CtlCall, Owns, CallsOwn
    <2>3. /\ policy'[r.cgid] = r.mask /\ \A c \in Cgid \ {r.cgid} : policy'[c] = policy[c]
      BY <2>1, <2>2, Zenon DEF IInv, TypeOK
    <2>4. \A q \in ctl' : q \in ctl /\ (q.verb = "set" => policy'[q.cgid] = policy[q.cgid])
      BY <2>1, <2>3, Zenon DEF IInv, TypeOK, CtlCall, CallsCurrent
    <2>5. \A k \in Conn : h[k].pc = "computed" => policy'[h[k].cgid] = policy[h[k].cgid]
      <3> SUFFICES ASSUME NEW k \in Conn, h[k].pc = "computed"
                   PROVE  policy'[h[k].cgid] = policy[h[k].cgid]
        BY Zenon
      <3>1. h[k].pc \in Active BY Zenon DEF Active, PCs
      <3>2. h[k].cgid \in Cgid /\ h[k].cgid # r.cgid
        BY <1>1, <2>1, <3>1, Zenon DEF IInv, HandlerLocals, Owns, ConnsOwn, ConnOwn
      <3> QED BY <2>3, <3>2, Zenon
    <2>6. Owns(own)' BY <1>1, <2>1, <2>2, <2>3, <2>4, <2>5, KeepOwn, Zenon
    <2> QED BY <1>1, <2>6, Zenon DEF OwnInv
  <1>3. ASSUME NEW r \in ctl, ctlEgressSetSelfErr(r) PROVE OwnInv'
    <2>1. /\ UNCHANGED <<h, egressMu, used, env, inc, gen, par, cg, policy>>
          /\ ctl' \subseteq ctl \cup {[r EXCEPT !.verb = "clear", !.mask = {}]}
      BY <1>3, Zenon DEF ctlEgressSetSelfErr, brokerVars
    <2> DEFINE q == [r EXCEPT !.verb = "clear", !.mask = {}]
    <2>2. q.verb = "clear" /\ q.cgid = r.cgid /\ q.inst = r.inst BY Zenon DEF IInv, TypeOK, CtlCall
    <2>3. r.cgid \in used /\ own[r.cgid] = r.inst BY <1>1, Zenon DEF Owns, CallsOwn
    <2> HIDE DEF q
    <2>4. \A x \in ctl' : x \in ctl \/ x = q BY <2>1, Zenon DEF q
    <2>5. Owns(own)' BY <1>1, <2>1, <2>2, <2>3, <2>4, KeepOwn, Zenon
    <2> QED BY <1>1, <2>5, Zenon DEF OwnInv
  <1>4. ASSUME NEW r \in ctl, ctlEgressClearSelf(r) PROVE OwnInv'
    <2>1. /\ UNCHANGED <<h, egressMu, used, env, inc, gen, par, cg>> /\ ctl' \subseteq ctl
          /\ \A c \in Cgid : policy'[c] \in {policy[c], None}
      BY <1>4, Zenon DEF ctlEgressClearSelf, brokerVars, unitVars, IInv, TypeOK
    <2>2. \A q \in ctl' : q \in ctl /\ (q.verb = "set" => policy'[q.cgid] = policy[q.cgid])
      BY <1>1, <2>1, Zenon DEF IInv, TypeOK, CtlCall, Owns, CallsOwn
    <2>3. \A k \in Conn : h[k].pc = "computed" => h[k].cgid \in Cgid
      BY Zenon DEF IInv, HandlerLocals, Active, PCs
    <2>4. Owns(own)' BY <1>1, <2>1, <2>2, <2>3, KeepOwn, Zenon
    <2> QED BY <1>1, <2>4, Zenon DEF OwnInv
  <1>5. CASE GCScan
    <2>1. UNCHANGED <<h, egressMu, used, env, inc, gen, par, cg, ctl, policy>>
      BY <1>5, Zenon DEF GCScan, brokerVars, unitVars
    <2>2. Owns(own)' BY <1>1, <2>1, KeepOwn, Zenon
    <2> QED BY <1>1, <2>2, Zenon DEF OwnInv
  <1>6. CASE GCPrune
    <2>1. /\ UNCHANGED <<h, egressMu, used, env, inc, gen, par, cg, ctl>>
          /\ \A c \in Cgid : policy'[c] \in {policy[c], None}
      BY <1>6, Zenon DEF GCPrune, brokerVars, unitVars
    <2>2. \A q \in ctl : q.verb = "set" => policy'[q.cgid] = policy[q.cgid]
      BY <1>1, <2>1, Zenon DEF IInv, TypeOK, CtlCall, Owns, CallsOwn
    <2>3. \A k \in Conn : h[k].pc = "computed" => h[k].cgid \in Cgid
      BY Zenon DEF IInv, HandlerLocals, Active, PCs
    <2>4. Owns(own)' BY <1>1, <2>1, <2>2, <2>3, KeepOwn, Zenon
    <2> QED BY <1>1, <2>4, Zenon DEF OwnInv
  <1>7. CASE CollectorRestart
    <2>1. /\ UNCHANGED <<used, env, gen, par>> /\ ctl' = {} /\ h' = [k \in Conn |-> Killed(k)]
          /\ \A i \in Inst : cg'[i] = None /\ \A c \in Cgid : policy'[c] = None
      BY <1>7, Zenon DEF CollectorRestart
    <2>2. \A k \in Conn : h'[k].pc \notin Active BY <2>1, KilledLocals, Zenon DEF Active
    <2>3. UnitsOwn(own)' /\ CallsOwn(own)' /\ PolicyOwn(own)'
      BY <1>7, Zenon DEF CollectorRestart, UnitsOwn, CallsOwn, PolicyOwn
    <2>4. ConnsOwn(own)' BY <2>2, Zenon DEF ConnsOwn
    <2>5. NamesOwn(own)' /\ Delegations' BY <1>1, <2>1, Zenon DEF Owns, NamesOwn, Delegations, Held
    <2> QED BY <1>1, <2>3, <2>4, <2>5, Zenon DEF OwnInv, Owns
  <1> QED BY <1>2, <1>3, <1>4, <1>5, <1>6, <1>7, Zenon DEF Collector

\* A handler's step leaves what the others rely on alone; they hold no lock it takes.
LEMMA ConnStepOwn ==
  ASSUME IInv, NEW own, Owns(own), NEW k \in Conn, NEW x, h' = [h EXCEPT ![k] = x],
         UNCHANGED <<unitVars, policy, ctl>>, x.pc \in Active => ConnOwn(own, k, x)',
         egressMu' = egressMu \/ egressMu \in {None, k}
  PROVE  Owns(own)'
  <1>0. UNCHANGED <<cg, inc, env, gen, par, used, policy, ctl>> BY Zenon DEF unitVars
  <1>1. h'[k] = x /\ \A j \in Conn \ {k} : h'[j] = h[j] BY Zenon DEF IInv, TypeOK
  <1>2. \A i : Held(i)' = Held(i) BY <1>0, Zenon DEF Held
  <1>3. UnitsOwn(own)' /\ PolicyOwn(own)' /\ NamesOwn(own)' /\ Delegations' /\ CallsOwn(own)'
    BY <1>0, <1>2, Zenon DEF Owns, UnitsOwn, PolicyOwn, NamesOwn, Delegations, CallsOwn
  <1>4. ASSUME NEW j \in Conn \ {k}, h[j].pc \in Active PROVE ConnOwn(own, j, h[j])'
    <2>1. ConnOwn(own, j, h[j]) BY <1>4, Zenon DEF Owns, ConnsOwn
    <2>2. h[j].pc \in Executing => egressMu' = j BY <2>1, SetsAssumption, Zenon DEF ConnOwn
    <2> QED BY <1>0, <1>1, <1>2, <2>1, <2>2 DEF ConnOwn
  <1>5. ConnsOwn(own)' BY <1>1, <1>4, Zenon DEF ConnsOwn
  <1> QED BY <1>3, <1>5, Zenon DEF Owns

\* The locals of a request that a handler carries from position to position.
SameRequest(x, y) == /\ x.kind = y.kind /\ x.inst = y.inst /\ x.cgid = y.cgid
                     /\ x.inc = y.inc /\ x.req = y.req

\* Moving to a position and landing an effect keep the request.
LEMMA GotoRequest ==
  ASSUME IInv, NEW k \in Conn, NEW pc, Goto(k, pc) \/ (Applied(k) /\ pc = "applied")
  PROVE  \E x : h' = [h EXCEPT ![k] = x] /\ x.pc = pc /\ SameRequest(x, h[k])
  <1>1. h[k] \in ConnState /\ h \in [Conn -> ConnState] BY Zenon DEF IInv, TypeOK
  <1>2. CASE Goto(k, pc)
    <2> DEFINE x == [h[k] EXCEPT !.pc = pc]
    <2>1. x.pc = pc /\ SameRequest(x, h[k]) BY <1>1, Zenon DEF ConnState, SameRequest
    <2>2. h' = [h EXCEPT ![k] = x] BY <1>1, <1>2, Zenon DEF Goto
    <2> QED BY <2>1, <2>2, Zenon
  <1>3. CASE Applied(k) /\ pc = "applied"
    <2> DEFINE x == [h[k] EXCEPT !.pc = "applied", !.unrecorded = h[k].kind]
    <2>1. x.pc = pc /\ SameRequest(x, h[k]) BY <1>1, <1>3, Zenon DEF ConnState, SameRequest
    <2>2. h' = [h EXCEPT ![k] = x] BY <1>1, <1>3, Zenon DEF Applied
    <2> QED BY <2>1, <2>2, Zenon
  <1> QED BY <1>2, <1>3, Zenon

\* Positions that rely on the request alone.
LEMMA WaitingOwn ==
  ASSUME IInv, NEW own, Owns(own), NEW k \in Conn, h[k].pc \in Active,
         UNCHANGED <<unitVars, policy, ctl>>, egressMu' = egressMu \/ egressMu \in {None, k},
         NEW pc \in {"approved", "launching", "starting", "applied", "failed", "noop"},
         Goto(k, pc) \/ (Applied(k) /\ pc = "applied")
  PROVE  Owns(own)'
  <1>1. PICK x : h' = [h EXCEPT ![k] = x] /\ x.pc = pc /\ SameRequest(x, h[k]) BY GotoRequest, Zenon
  <1>2. ConnOwn(own, k, h[k]) BY Zenon DEF Owns, ConnsOwn
  <1>3. ConnOwn(own, k, x)'
    BY <1>1, <1>2, Zenon DEF ConnOwn, SameRequest, Executing, unitVars
  <1> QED BY <1>1, <1>3, ConnStepOwn, Zenon

\* Positions of a handler that is between requests.
LEMMA FinishOwn ==
  ASSUME IInv, NEW own, Owns(own), NEW k \in Conn, NEW reply, NEW u, Finish(k, reply, u),
         UNCHANGED <<unitVars, policy, ctl>>, egressMu' = egressMu \/ egressMu \in {None, k}
  PROVE  Owns(own)'
  <1> DEFINE x == [IdleConn EXCEPT !.pc = "done", !.reply = reply, !.unrecorded = u]
  <1>1. x.pc = "done" BY Zenon DEF IdleConn
  <1>2. h' = [h EXCEPT ![k] = x] BY Zenon DEF Finish
  <1> HIDE DEF x
  <1>3. x.pc \notin Active BY <1>1, Zenon DEF Active
  <1> QED BY <1>2, <1>3, ConnStepOwn, Zenon

\* A request starts with the cgroup and the incarnation of the instance that asks.
LEMMA RequestOwn ==
  ASSUME IInv, NEW own, Owns(own), NEW k \in Conn, NEW i \in Inst, NEW kind, NEW req, NEW child,
         NEW pc \in {"gate", "approved"}, cg[i] # None, kind = "expand" => i \in Top,
         h' = [h EXCEPT ![k] = Attested(k, i, kind, req, child, pc)],
         UNCHANGED <<unitVars, policy, ctl, egressMu>>
  PROVE  Owns(own)'
  <1>1. h[k] \in ConnState BY Zenon DEF IInv, TypeOK
  <1>0. PICK x : x = Attested(k, i, kind, req, child, pc) BY Zenon
  <1>2. x.pc = pc /\ x.kind = kind /\ x.inst = i /\ x.cgid = cg[i] /\ x.inc = inc[i]
    BY <1>0, <1>1, Zenon DEF Attested, ConnState
  <1>3. cg[i] \in used /\ own[cg[i]] = i BY Zenon DEF Owns, UnitsOwn
  <1>4. ConnOwn(own, k, x)' BY <1>2, <1>3, Zenon DEF ConnOwn, Executing, unitVars
  <1>5. h' = [h EXCEPT ![k] = x] BY <1>0, Zenon
  <1>6. egressMu' = egressMu /\ UNCHANGED <<unitVars, policy, ctl>> BY Zenon
  <1> QED BY <1>4, <1>5, <1>6, ConnStepOwn, Zenon

\* Requests arriving, and the operator's answer.
LEMMA BeforeOwn ==
  ASSUME IInv, NEW own, Owns(own), NEW k \in Conn, Requests(k) \/ approve(k) \/ reject(k)
  PROVE  Owns(own)'
  <1>1. ASSUME NEW i \in Inst, NEW req \in Mask, handleExpandTail(k, i, req) PROVE Owns(own)'
    <2>1. cg[i] # None /\ i \in Top
      BY <1>1 DEF handleExpandTail, IInv, Phases, MintedDelegated, Inst
    <2> QED BY <1>1, <2>1, RequestOwn, Zenon DEF handleExpandTail
  <1>2. ASSUME NEW i \in Inst, NEW req \in Mask, handleNarrow(k, i, req) PROVE Owns(own)'
    <2>1. cg[i] # None /\ "narrow" # "expand" BY <1>2, Zenon DEF handleNarrow
    <2> QED BY <1>2, <2>1, RequestOwn, Zenon DEF handleNarrow
  <1>3. ASSUME NEW i \in Inst, NEW req \in Mask, NEW m \in Minted, handleDelegateTail(k, i, req, m)
        PROVE  Owns(own)'
    <2>1. cg[i] # None /\ "delegate" # "expand" BY <1>3, Zenon DEF handleDelegateTail, IInv, Phases
    <2> QED BY <1>3, <2>1, RequestOwn, Zenon DEF handleDelegateTail
  <1>4. CASE approve(k) BY <1>4, WaitingOwn, Zenon DEF approve, Active, PCs
  <1>5. CASE reject(k) BY <1>5, FinishOwn, Zenon DEF reject
  <1> QED BY <1>1, <1>2, <1>3, <1>4, <1>5, Zenon DEF Requests

\* egressMu is taken and the cgroup looked at again.
LEMMA ReverifyOwn ==
  ASSUME IInv, NEW own, Owns(own), NEW k \in Conn, reverifyCgroup(k)
  PROVE  Owns(own)'
  <1>1. h[k].pc \in Active /\ egressMu = None /\ UNCHANGED <<unitVars, policy, ctl>>
    BY Zenon DEF reverifyCgroup, Active, PCs
  <1>2. CASE cg[h[k].inst] = h[k].cgid
    <2>1. Goto(k, "verified") /\ egressMu' = k BY <1>2, Zenon DEF reverifyCgroup
    <2>2. PICK x : h' = [h EXCEPT ![k] = x] /\ x.pc = "verified" /\ SameRequest(x, h[k])
      BY <2>1, GotoRequest, Zenon
    <2>3. ConnOwn(own, k, h[k]) BY <1>1, Zenon DEF Owns, ConnsOwn
    <2>4. ConnOwn(own, k, x)' BY <1>1, <2>1, <2>2, <2>3, Zenon DEF ConnOwn, SameRequest, unitVars
    <2> QED BY <1>1, <2>2, <2>4, ConnStepOwn, Zenon
  <1>3. CASE cg[h[k].inst] # h[k].cgid
    <2>1. Goto(k, "failed") BY <1>3, Zenon DEF reverifyCgroup
    <2> QED BY <1>1, <2>1, WaitingOwn, Zenon
  <1> QED BY <1>2, <1>3, Zenon

\* The mask a handler derives is within what its instance may hold, and it is the
\* one the live manifest gives for as long as the handler holds egressMu.
LEMMA LookupOwn ==
  ASSUME IInv, NEW own, Owns(own), NEW k \in Conn, lookupEgressMask(k)
  PROVE  Owns(own)'
  <1> DEFINE live == policy[h[k].cgid]
             expand == expandMask(live, h[k].req, Ceiling)
             narrow == narrowMask(live, h[k].req)
  <1>1. h[k].pc = "verified" /\ h[k].pc \in Active /\ UNCHANGED <<unitVars, policy, ctl>>
    BY Zenon DEF lookupEgressMask, Active, PCs
  <1>2. ConnOwn(own, k, h[k]) /\ h[k].cgid \in Cgid BY <1>1, Zenon DEF Owns, ConnsOwn, IInv, HandlerLocals
  <1>3. egressMu = k BY <1>1, <1>2, Zenon DEF ConnOwn, Executing
  <1>4. live # None => live \subseteq Held(h[k].inst) BY <1>2, Zenon DEF Owns, PolicyOwn, ConnOwn
  <1>5. live # None => \A r \in ctl : r.verb = "set" => r.cgid # h[k].cgid
    BY <1>1, Zenon DEF Owns, CallsOwn
  <1>6. CASE live = None
    <2>1. Goto(k, "failed") BY <1>6, Zenon DEF lookupEgressMask
    <2> QED BY <1>1, <1>3, <2>1, WaitingOwn, Zenon
  <1>7. ASSUME NEW pc, NEW m, live # None, m \subseteq Held(h[k].inst),
               \/ pc \in {"snapshot", "noop"}
               \/ /\ pc = "computed" /\ UNCHANGED egressMu
                  /\ m = IF h[k].kind = "expand" THEN expand ELSE narrow,
               h' = [h EXCEPT ![k].pc = pc, ![k].mask = m]
        PROVE  Owns(own)'
    <2>1. h[k] \in ConnState BY Zenon DEF IInv, TypeOK
    <2>0. PICK x : x = [h[k] EXCEPT !.pc = pc, !.mask = m] BY Zenon
    <2>2. h' = [h EXCEPT ![k] = x] BY <1>7, <2>0, Zenon DEF IInv, TypeOK
    <2>3. x.pc = pc /\ x.mask = m /\ SameRequest(x, h[k]) BY <2>0, <2>1, Zenon DEF ConnState, SameRequest
    <2>4. \A i : Held(i)' = Held(i) BY <1>1, Zenon DEF Held, unitVars
    <2>5. ConnOwn(own, k, x)'
      BY <1>1, <1>2, <1>3, <1>5, <1>7, <2>3, <2>4, Zenon DEF ConnOwn, SameRequest, Executing, unitVars
    <2> QED BY <1>1, <1>3, <2>2, <2>5, ConnStepOwn, Zenon
  <1>8. CASE live # None /\ h[k].kind = "expand"
    <2>1. expand \subseteq Held(h[k].inst) BY <1>2, <1>4, <1>8, Zenon DEF ConnOwn, Held, expandMask
    <2> QED BY <1>7, <1>8, <2>1, Zenon DEF lookupEgressMask
  <1>9. CASE live # None /\ h[k].kind = "narrow"
    <2>1. narrow \subseteq Held(h[k].inst) BY <1>4, <1>9, Zenon DEF narrowMask
    <2> QED BY <1>7, <1>9, <2>1 DEF lookupEgressMask
  <1>10. CASE live # None /\ h[k].kind = "delegate"
    <2>1. live \cap h[k].req \subseteq Held(h[k].inst) BY <1>4, <1>10, Zenon
    <2> QED BY <1>7, <1>10, <2>1, Zenon DEF lookupEgressMask
  <1> QED BY <1>6, <1>8, <1>9, <1>10, Zenon DEF lookupEgressMask

\* The edit lands on the requester's own cgroup; nobody else is between a lookup
\* and an edit, and no EGRESS-SET-SELF for that id is pending.
LEMMA UpdateOwn ==
  ASSUME IInv, NEW own, Owns(own), NEW k \in Conn, updateExist(k)
  PROVE  Owns(own)'
  <1>1. h[k].pc = "computed" /\ h[k].pc \in Active /\ UNCHANGED <<unitVars, ctl>>
    BY Zenon DEF updateExist, Active, PCs
  <1>2. ConnOwn(own, k, h[k]) /\ h[k].cgid \in Cgid BY <1>1, Zenon DEF Owns, ConnsOwn, IInv, HandlerLocals
  <1>3. egressMu = k BY <1>1, <1>2, Zenon DEF ConnOwn, Executing
  <1>4. CASE policy[h[k].cgid] = None
    <2>1. Goto(k, "failed") /\ policy' = policy BY <1>4, Zenon DEF updateExist
    <2> QED BY <1>1, <1>3, <2>1, WaitingOwn, Zenon
  <1>5. CASE policy[h[k].cgid] # None
    <2>1. Applied(k) /\ policy' = [policy EXCEPT ![h[k].cgid] = h[k].mask]
      BY <1>5, Zenon DEF updateExist
    <2>2. PICK x : h' = [h EXCEPT ![k] = x] /\ x.pc = "applied" /\ SameRequest(x, h[k])
      BY <2>1, GotoRequest, Zenon
    <2>3. h'[k] = x /\ \A j \in Conn \ {k} : h'[j] = h[j] BY <2>2, Zenon DEF IInv, TypeOK
    <2>4. UNCHANGED <<cg, inc, env, gen, par, used, ctl>> BY <1>1, Zenon DEF unitVars
    <2>5. \A i : Held(i)' = Held(i) BY <2>4, Zenon DEF Held
    <2>6. UnitsOwn(own)' /\ NamesOwn(own)' /\ Delegations'
      BY <2>4, <2>5, Zenon DEF Owns, UnitsOwn, NamesOwn, Delegations
    <2>7. /\ policy'[h[k].cgid] = h[k].mask /\ \A c \in Cgid \ {h[k].cgid} : policy'[c] = policy[c]
      BY <1>2, <2>1, Zenon DEF IInv, TypeOK
    <2>8. PolicyOwn(own)'
      <3>1. h[k].mask \subseteq Held(own[h[k].cgid]) /\ h[k].cgid \in used
        BY <1>1, <1>2, Zenon DEF ConnOwn
      <3> QED BY <2>4, <2>5, <2>7, <3>1, Zenon DEF Owns, PolicyOwn
    <2>9. CallsOwn(own)'
      <3>1. \A r \in ctl : r.cgid \in Cgid /\ (r.verb = "set" => r.cgid # h[k].cgid)
        BY <1>1, <1>2, Zenon DEF ConnOwn, IInv, TypeOK, CtlCall
      <3> QED BY <2>4, <2>5, <2>7, <3>1, Zenon DEF Owns, CallsOwn
    <2>10. ASSUME NEW j \in Conn, h'[j].pc \in Active PROVE ConnOwn(own, j, h[j])' 
      <3>1. CASE j = k
        <4>1. x.pc \notin Executing /\ x.pc \notin {"computed", "snapshot"} BY <2>2, Zenon DEF Executing
        <4> QED BY <1>2, <2>2, <2>3, <2>4, <3>1, <4>1 DEF ConnOwn, SameRequest
      <3>2. CASE j # k
        <4>1. ConnOwn(own, j, h[j]) BY <2>3, <2>10, <3>2, Zenon DEF Owns, ConnsOwn
        <4>2. h[j].pc \notin Executing /\ h[j].pc # "computed"
          BY <1>3, <3>2, <4>1, Zenon DEF ConnOwn, Executing
        <4> QED BY <2>3, <2>4, <2>5, <3>2, <4>1, <4>2, Zenon DEF ConnOwn
      <3> QED BY <3>1, <3>2, Zenon
    <2>11. ConnsOwn(own)' BY <2>10, Zenon DEF ConnsOwn
    <2> QED BY <2>6, <2>8, <2>9, <2>11, Zenon DEF Owns
  <1> QED BY <1>4, <1>5, Zenon

\* The child's drop-in is what its parent held when the mask was derived.
LEMMA LaunchOwn ==
  ASSUME IInv, ~Recycle, NEW own \in [Cgid -> Inst \cup {None}], Owns(own),
         NEW k \in Conn, NEW c \in Cgid, launchChild(k, c)
  PROVE  OwnInv'
  <1>1. PICK m : m = h[k].child BY Zenon
  <1>2. PICK mask : mask = h[k].mask BY Zenon
  <1>a. h[k].pc = "snapshot" /\ h[k].pc \in Active /\ PreLaunch(k)
    BY Zenon DEF launchChild, IInv, HandlerLocals, Active, PCs, PreLaunch
  <1>3. /\ m \in Minted /\ m \in Inst /\ gen[m] = 0 /\ h[k].inst \in Inst /\ mask \in Mask
        /\ (h[k].inst \in Minted => gen[h[k].inst] > 0) /\ gen[h[k].inst] \in Nat
    BY <1>a, <1>1, <1>2, BoundsAssumption DEF IInv, ChildReserved, HandlerLocals, Inst, TypeOK
  <1>4. ConnOwn(own, k, h[k]) BY <1>a, Zenon DEF Owns, ConnsOwn
  <1>5. mask \subseteq Held(h[k].inst) BY <1>a, <1>2, <1>4, Zenon DEF ConnOwn
  <1>6. /\ StartUnit(m, c, mask) /\ env' = [env EXCEPT ![m] = mask]
        /\ gen' = [gen EXCEPT ![m] = gen[h[k].inst] + 1]
        /\ par' = [par EXCEPT ![m] = [inst |-> h[k].inst, inc |-> h[k].inc]]
        /\ Goto(k, "starting") /\ UNCHANGED <<policy, egressMu>>
    BY <1>1, <1>2, Zenon DEF launchChild
  <1>7. PICK x : h' = [h EXCEPT ![k] = x] /\ x.pc = "starting" /\ SameRequest(x, h[k])
    BY <1>6, GotoRequest, Zenon
  <1>8. h'[k] = x /\ \A j \in Conn \ {k} : h'[j] = h[j] BY <1>7, Zenon DEF IInv, TypeOK
  <1>9. /\ env'[m] = mask /\ gen'[m] > 0
        /\ \A j \in Inst \ {m} : env'[j] = env[j] /\ gen'[j] = gen[j]
    <2>1. env \in [Inst -> Mask] /\ gen \in [Inst -> 0..MaxDepth] BY Zenon DEF IInv, TypeOK
    <2>2. gen[h[k].inst] + 1 > 0 BY <1>3
    <2> QED BY <1>3, <1>6, <2>1, <2>2, Zenon
  <1>10. /\ par'[m].inst = h[k].inst /\ \A j \in Minted \ {m} : par'[j] = par[j]
    BY <1>3, <1>6, Zenon DEF IInv, TypeOK, Inst
  <1>11. mask \subseteq Held(m)' BY <1>9, Zenon DEF Held
  <1>12. \A j \in Conn : h'[j].pc \in Active =>
             \/ h'[j] = h[j]
             \/ /\ h[j].pc \in Active /\ h'[j].pc = "starting" /\ h'[j].kind = h[j].kind
                /\ h'[j].inst = h[j].inst /\ h'[j].cgid = h[j].cgid /\ h'[j].inc = h[j].inc
    BY <1>a, <1>7, <1>8, Zenon DEF SameRequest
  <1> DEFINE new == [own EXCEPT ![c] = m]
  <1>13. UnitsOwn(new)' /\ CallsOwn(new)' /\ ConnsOwn(new)' /\ PolicyOwn(new)' /\ NamesOwn(new)'
    <2>1. UNCHANGED <<policy, egressMu>> BY <1>6, Zenon
    <2>2. \A j \in Inst \ {m} : env'[j] = env[j] /\ gen'[j] = gen[j] BY <1>9, Zenon
    <2>3. (env'[m] = env[m] \/ (m \in Minted /\ gen[m] = 0)) /\ (m \in Minted => gen'[m] > 0)
      BY <1>3, <1>9, Zenon
    <2>4. StartUnit(m, c, mask) BY <1>6, Zenon
    <2> QED BY <1>3, <1>11, <1>12, <2>1, <2>2, <2>3, <2>4, StartOwn, Zenon
  <1>14. Delegations'
    <2> SUFFICES ASSUME NEW j \in Minted, gen'[j] > 0
                 PROVE  /\ par'[j].inst \in Inst /\ env'[j] \subseteq Held(par[j].inst)'
                        /\ par'[j].inst \in Minted => gen'[par'[j].inst] > 0
      BY Zenon DEF Delegations
    <2>2. CASE j = m
      <3>1. h[k].inst # m BY <1>3
      <3> QED BY <1>3, <1>5, <1>9, <1>10, <2>2, <3>1, Zenon DEF Held
    <2>3. CASE j # m
      <3>1. gen[j] > 0 /\ par'[j] = par[j] /\ env'[j] = env[j] BY <1>9, <1>10, <2>3, Zenon DEF Inst
      <3>2. /\ par[j].inst \in Inst /\ env[j] \subseteq Held(par[j].inst)
            /\ par[j].inst \in Minted => gen[par[j].inst] > 0
        BY <3>1, Zenon DEF Owns, Delegations
      <3>3. par[j].inst # m BY <1>3, <3>2
      <3> QED BY <1>9, <3>1, <3>2, <3>3, Zenon DEF Held
    <2> QED BY <2>2, <2>3, Zenon
  <1>15. new \in [Cgid -> Inst \cup {None}] BY <1>3, Zenon
  <1> QED BY <1>13, <1>14, <1>15, Zenon DEF OwnInv, Owns

\* Every step of a handler by itself.
LEMMA HandlerOwn ==
  ASSUME IInv, ~Recycle, NEW own \in [Cgid -> Inst \cup {None}], Owns(own),
         NEW k \in Conn, HandlerStep(k)
  PROVE  OwnInv'
  <1>0. ASSUME Owns(own)' PROVE OwnInv' BY <1>0, Zenon DEF OwnInv
  <1>1. CASE lockLaunch(k)
    <2>1. h[k].pc \in Active BY <1>1, Zenon DEF lockLaunch, Active, PCs
    <2> QED BY <1>0, <1>1, <2>1, WaitingOwn, Zenon DEF lockLaunch
  <1>2. CASE reverifyCgroup(k) BY <1>0, <1>2, ReverifyOwn, Zenon
  <1>3. CASE lookupEgressMask(k) BY <1>0, <1>3, LookupOwn, Zenon
  <1>4. CASE updateExist(k) BY <1>0, <1>4, UpdateOwn, Zenon
  <1>5. ASSUME NEW c \in Cgid, launchChild(k, c) PROVE OwnInv' BY <1>5, LaunchOwn, Zenon
  <1>6. CASE launchChildErr(k) \/ startReturned(k)
    <2>1. h[k].pc \in Active /\ UNCHANGED <<unitVars, policy, ctl, egressMu>>
          /\ (Goto(k, "failed") \/ Applied(k))
      BY <1>6, Zenon DEF launchChildErr, startReturned, Active, PCs
    <2> QED BY <1>0, <2>1, WaitingOwn, Zenon
  <1>7. ASSUME NEW appended \in BOOLEAN, record(k, appended) PROVE OwnInv'
    <2>1. UNCHANGED <<unitVars, policy, ctl>> /\ (egressMu' = egressMu \/ egressMu \in {None, k})
      BY <1>7, Zenon DEF record
    <2>2. PICK reply, u : Finish(k, reply, u)
      <3>1. CASE h[k].pc = "failed" BY <1>7, <3>1, Zenon DEF record
      <3>2. CASE h[k].pc # "failed" /\ appended BY <1>7, <3>2, Zenon DEF record
      <3>3. CASE h[k].pc # "failed" /\ ~appended BY <1>7, <3>3, Zenon DEF record
      <3> QED BY <3>1, <3>2, <3>3, Zenon
    <2> QED BY <1>0, <2>1, <2>2, FinishOwn, Zenon
  <1> QED BY <1>1, <1>2, <1>3, <1>4, <1>5, <1>6, <1>7, Zenon DEF HandlerStep

\* Every step of the specification.
LEMMA OwnStep ==
  ASSUME ~Recycle PROVE IInv /\ OwnInv /\ [Next]_vars => OwnInv'
  <1> SUFFICES ASSUME IInv, OwnInv, [Next]_vars PROVE OwnInv' BY Zenon
  <1>1. PICK own \in [Cgid -> Inst \cup {None}] : Owns(own) BY Zenon DEF OwnInv
  <1>2. CASE Units BY <1>2, UnitsStepOwn, Zenon
  <1>3. CASE Collector BY <1>3, CollectorStepOwn, Zenon
  <1>4. CASE Broker
    <2>1. ASSUME NEW k \in Conn, Requests(k) \/ approve(k) \/ reject(k) PROVE OwnInv'
      BY <1>1, <2>1, BeforeOwn, Zenon DEF OwnInv
    <2>2. ASSUME NEW k \in Conn, HandlerStep(k) PROVE OwnInv'
      BY <1>1, <2>2, HandlerOwn, Zenon
    <2>3. CASE BrokerCrash
      <3>1. UNCHANGED <<cg, inc, env, gen, par, used, policy, ctl>>
        BY <2>3, Zenon DEF BrokerCrash, unitVars
      <3>2. \A k \in Conn : h'[k].pc \notin Active BY <2>3, KilledLocals, Zenon DEF BrokerCrash, Active
      <3>3. ConnsOwn(own)' BY <3>2, Zenon DEF ConnsOwn
      <3>4. \A i : Held(i)' = Held(i) BY <3>1, Zenon DEF Held
      <3>5. Owns(own)'
        BY <1>1, <3>1, <3>3, <3>4, Zenon DEF Owns, UnitsOwn, CallsOwn, PolicyOwn, NamesOwn, Delegations
      <3> QED BY <1>1, <3>5, Zenon DEF OwnInv
    <2> QED BY <1>4, <2>1, <2>2, <2>3, Zenon DEF Broker
  <1>5. CASE UNCHANGED vars
    <2>1. UNCHANGED <<h, egressMu, used, env, inc, gen, par, cg, ctl, policy>>
      BY <1>5, Zenon DEF vars, unitVars, brokerVars
    <2>2. Owns(own)' BY <1>1, <2>1, KeepOwn, Zenon
    <2> QED BY <1>1, <2>2, Zenon DEF OwnInv
  <1> QED BY <1>2, <1>3, <1>4, <1>5, Zenon DEF Next

\* Where no inode is given out twice, every cgroup id belongs to one instance, and
\* what is stored, pending or derived for the id is within what that instance may hold.
THEOREM EveryIdOwned ==
  ASSUME ~Recycle PROVE Spec => []OwnInv
  BY Inductive, InitOwn, OwnStep, PTL DEF Spec

\* Where no inode is given out twice, delegation only narrows: no running agent
\* holds more than its drop-in and, for an operator-launched one, the ceiling, and
\* no child's drop-in exceeds what its parent could hold.
THEOREM DelegationOnlyNarrows ==
  ASSUME ~Recycle PROVE Spec => []AuthorityConfined
  <1>1. IInv /\ OwnInv => AuthorityConfined
    <2> SUFFICES ASSUME IInv, OwnInv PROVE AuthorityConfined BY Zenon
    <2>1. PICK own \in [Cgid -> Inst \cup {None}] : Owns(own) BY Zenon DEF OwnInv
    <2>2. \A i \in Inst : phase[i] = "running" => cg[i] \in Cgid /\ own[cg[i]] = i
      BY <2>1, Zenon DEF IInv, TypeOK, Phases, Owns, UnitsOwn
    <2> QED BY <2>1, <2>2, Zenon DEF AuthorityConfined, Owns, PolicyOwn, Delegations, Held
  <1> QED BY Inductive, EveryIdOwned, <1>1, PTL

\* A step authorises what it does to the manifest of a running agent.
EditAuthorised(i) ==
    LET old == policy[cg[i]]
        new == policy'[cg[i]] IN
    /\ \A x \in new \ old : \E k \in Conn : /\ Applies(k, "expand", i)
                                          /\ x \in h[k].req \cap Ceiling
    /\ \A x \in old \ new : \E k \in Conn : /\ Applies(k, "narrow", i)
                                          /\ x \in h[k].req

\* The broker's edit: an EXPAND adds what it names under the ceiling, a NARROW
\* removes what it names, and both to the incarnation that asked.
LEMMA UpdateAuthorised ==
  ASSUME IInv, NEW own, Owns(own), NEW k \in Conn, updateExist(k),
         NEW i \in Inst, SameRun(i)
  PROVE  EditAuthorised(i)
  <1>1. h[k].pc = "computed" /\ h[k].pc \in Active
    BY Zenon DEF updateExist, Active, PCs
  <1>2. ConnOwn(own, k, h[k]) /\ h[k].cgid \in Cgid /\ h[k].inst \in Inst
        /\ h[k].kind \in {"expand", "narrow"}
    BY <1>1, Zenon DEF Owns, ConnsOwn, IInv, HandlerLocals
  <1>3. cg[i] \in Cgid BY Zenon DEF SameRun, IInv, Phases, TypeOK
  <1>4. CASE policy'[cg[i]] = policy[cg[i]] BY <1>4, Zenon DEF EditAuthorised
  <1>5. CASE policy'[cg[i]] # policy[cg[i]]
    <2>1. /\ Applied(k) /\ policy' = [policy EXCEPT ![h[k].cgid] = h[k].mask]
          /\ policy[h[k].cgid] # None
      BY <1>5, Zenon DEF updateExist
    <2>2. cg[i] = h[k].cgid /\ policy'[cg[i]] = h[k].mask
      BY <1>2, <1>3, <1>5, <2>1, Zenon DEF IInv, TypeOK
    <2>3. i = h[k].inst BY <1>1, <2>2, Zenon DEF IInv, ExecutingOnOwn, Executing
    <2>4. h[k].inc = inc[i] BY <1>2, <2>2, <2>3, Zenon DEF ConnOwn
    <2>5. h'[k].pc = "applied"
      <3>1. PICK x : h' = [h EXCEPT ![k] = x] /\ x.pc = "applied" /\ SameRequest(x, h[k])
        BY <2>1, GotoRequest, Zenon
      <3> QED BY <3>1, Zenon DEF IInv, TypeOK
    <2>6. Applies(k, h[k].kind, i) BY <1>1, <2>3, <2>4, <2>5, Zenon DEF Applies
    <2>7. h[k].mask = IF h[k].kind = "expand" THEN expandMask(policy[cg[i]], h[k].req, Ceiling)
                                              ELSE narrowMask(policy[cg[i]], h[k].req)
      BY <1>1, <1>2, <2>1, <2>2, Zenon DEF ConnOwn
    <2>8. CASE h[k].kind = "expand"
      <3>1. policy'[cg[i]] = policy[cg[i]] \cup (h[k].req \cap Ceiling)
        BY <2>2, <2>7, <2>8, Zenon DEF expandMask
      <3> QED BY <2>6, <2>8, <3>1, Zenon DEF EditAuthorised
    <2>9. CASE h[k].kind = "narrow"
      <3>1. policy'[cg[i]] = policy[cg[i]] \ h[k].req
        BY <2>2, <2>7, <2>9, Zenon DEF narrowMask
      <3> QED BY <2>6, <2>9, <3>1, Zenon DEF EditAuthorised
    <2> QED BY <1>2, <2>8, <2>9, Zenon
  <1> QED BY <1>4, <1>5, Zenon

\* Everything else leaves the manifest of an agent that goes on running alone.
LEMMA OthersKeepManifest ==
  ASSUME IInv, [Next]_vars, \A k \in Conn : ~updateExist(k), NEW i \in Inst, SameRun(i)
  PROVE  policy'[cg[i]] = policy[cg[i]]
  <1>1. cg[i] \in Cgid BY Zenon DEF SameRun, IInv, Phases, TypeOK
  <1>2. CASE policy' = policy BY <1>2, Zenon
  <1>3. ASSUME NEW r \in ctl, ctlEgressSetSelf(r) PROVE policy'[cg[i]] = policy[cg[i]]
    <2>1. r.cgid # cg[i] BY <1>3, Zenon DEF ctlEgressSetSelf, SameRun, IInv, CallsCurrent
    <2> QED BY <1>1, <1>3, <2>1, Zenon DEF ctlEgressSetSelf, IInv, TypeOK
  <1>4. ASSUME NEW r \in ctl, ctlEgressClearSelf(r) PROVE policy'[cg[i]] = policy[cg[i]]
    <2>1. r.cgid # cg[i] BY <1>4, Zenon DEF ctlEgressClearSelf, SameRun, IInv, CallsCurrent
    <2> QED BY <1>1, <1>4, <2>1, Zenon DEF ctlEgressClearSelf, IInv, TypeOK
  <1>5. CASE GCPrune BY <1>1, <1>5, Zenon DEF GCPrune, SameRun
  <1>6. CASE CollectorRestart BY <1>1, <1>6, Zenon DEF CollectorRestart, SameRun
  <1>7. CASE Units BY <1>2, <1>7, Zenon DEF Units, OperatorStart, StopUnit, UnitGone
  <1>8. CASE Collector
    BY <1>2, <1>3, <1>4, <1>5, <1>6, <1>8, Zenon DEF Collector, ctlEgressSetSelfErr, GCScan
  <1>9. CASE Broker
    <2>1. ASSUME NEW k \in Conn, Requests(k) \/ approve(k) \/ reject(k) PROVE policy' = policy
      BY <2>1, Zenon DEF Requests, handleExpandTail, handleNarrow, handleDelegateTail, approve, reject
    <2>2. ASSUME NEW k \in Conn, HandlerStep(k) PROVE policy' = policy
      BY <2>2, Zenon DEF HandlerStep, lockLaunch, reverifyCgroup, lookupEgressMask, launchChild,
         launchChildErr, startReturned, record
    <2>3. CASE BrokerCrash BY <2>3, Zenon DEF BrokerCrash
    <2> QED BY <1>2, <1>9, <2>1, <2>2, <2>3, Zenon DEF Broker
  <1>10. CASE UNCHANGED vars BY <1>2, <1>10, Zenon DEF vars
  <1> QED BY <1>7, <1>8, <1>9, <1>10, Zenon DEF Next

\* Where no inode is given out twice, a running agent gains a class only by an
\* approved EXPAND of its own under the ceiling and loses one only by a NARROW that
\* names it: no edit is lost, undone or applied to a later incarnation.
THEOREM OnlyAuthorisedEdits ==
  ASSUME ~Recycle PROVE Spec => EditsAreAuthorised
  <1>1. IInv /\ OwnInv /\ [Next]_vars =>
          [\A i \in Inst : SameRun(i) =>
             LET old == policy[cg[i]]
                 new == policy'[cg[i]] IN
             /\ \A x \in new \ old : \E k \in Conn : /\ Applies(k, "expand", i)
                                                   /\ x \in h[k].req \cap Ceiling
             /\ \A x \in old \ new : \E k \in Conn : /\ Applies(k, "narrow", i)
                                                   /\ x \in h[k].req]_vars
    <2> SUFFICES ASSUME IInv, OwnInv, [Next]_vars, NEW i \in Inst, SameRun(i)
                 PROVE  EditAuthorised(i)
      BY Zenon DEF EditAuthorised
    <2>1. PICK own \in [Cgid -> Inst \cup {None}] : Owns(own) BY Zenon DEF OwnInv
    <2>2. CASE \E k \in Conn : updateExist(k) BY <2>1, <2>2, UpdateAuthorised, Zenon
    <2>3. CASE \A k \in Conn : ~updateExist(k)
      <3>1. policy'[cg[i]] = policy[cg[i]] BY <2>3, OthersKeepManifest, Zenon
      <3> QED BY <3>1, Zenon DEF EditAuthorised
    <2> QED BY <2>2, <2>3, Zenon
  <1> QED BY Inductive, EveryIdOwned, <1>1, PTL DEF Spec, EditsAreAuthorised

-----------------------------------------------------------------------------
(* Answers and records                                                     *)

\* What OKIsRecorded says of one connection.
Answerable(x) == x.unrecorded # None =>
    x.pc \in {"applied", "dead"} \/ (x.pc = "done" /\ x.reply = "ERR audit")

\* One connection moves: the others' answers stay.
LEMMA OneAnswerable ==
  ASSUME IInv, OKIsRecorded, NEW k \in Conn, NEW x, h' = [h EXCEPT ![k] = x], Answerable(x)
  PROVE  OKIsRecorded'
  <1>1. h'[k] = x /\ \A j \in Conn \ {k} : h'[j] = h[j] BY Zenon DEF IInv, TypeOK
  <1> QED BY <1>1, Zenon DEF OKIsRecorded, Answerable

\* Only an applied effect can be unrecorded, and only its record moves it on.
LEMMA GotoAnswerable ==
  ASSUME IInv, OKIsRecorded, NEW k \in Conn, h[k].pc \notin {"applied", "dead", "done"},
         NEW pc, Goto(k, pc) \/ Applied(k) \/ \E m : h' = [h EXCEPT ![k].pc = pc, ![k].mask = m]
  PROVE  OKIsRecorded'
  <1>1. h[k] \in ConnState /\ h \in [Conn -> ConnState] BY Zenon DEF IInv, TypeOK
  <1>2. h[k].unrecorded = None BY Zenon DEF OKIsRecorded
  <1>3. CASE Goto(k, pc)
    <2>1. PICK x : x = [h[k] EXCEPT !.pc = pc] BY Zenon
    <2>2. Answerable(x) BY <1>1, <1>2, <2>1, Zenon DEF Answerable, ConnState
    <2>3. h' = [h EXCEPT ![k] = x] BY <1>1, <1>3, <2>1, Zenon DEF Goto
    <2> QED BY <2>2, <2>3, OneAnswerable, Zenon
  <1>4. CASE Applied(k)
    <2>1. PICK x : x = [h[k] EXCEPT !.pc = "applied", !.unrecorded = h[k].kind] BY Zenon
    <2>2. Answerable(x) BY <1>1, <2>1, Zenon DEF Answerable, ConnState
    <2>3. h' = [h EXCEPT ![k] = x] BY <1>1, <1>4, <2>1, Zenon DEF Applied
    <2> QED BY <2>2, <2>3, OneAnswerable, Zenon
  <1>5. ASSUME NEW m, h' = [h EXCEPT ![k].pc = pc, ![k].mask = m] PROVE OKIsRecorded'
    <2>1. PICK x : x = [h[k] EXCEPT !.pc = pc, !.mask = m] BY Zenon
    <2>2. Answerable(x) BY <1>1, <1>2, <2>1, Zenon DEF Answerable, ConnState
    <2>3. h' = [h EXCEPT ![k] = x] BY <1>1, <1>5, <2>1, Zenon
    <2> QED BY <2>2, <2>3, OneAnswerable, Zenon
  <1> QED BY <1>3, <1>4, <1>5, Zenon

\* A reply that is not OK for an effect without its record.
LEMMA FinishAnswerable ==
  ASSUME IInv, OKIsRecorded, NEW k \in Conn, NEW reply, NEW u, Finish(k, reply, u),
         u = None \/ reply = "ERR audit"
  PROVE  OKIsRecorded'
  <1> DEFINE x == [IdleConn EXCEPT !.pc = "done", !.reply = reply, !.unrecorded = u]
  <1>1. h' = [h EXCEPT ![k] = x] BY Zenon DEF Finish
  <1>2. Answerable(x) BY Zenon DEF Answerable, IdleConn
  <1> HIDE DEF x
  <1> QED BY <1>1, <1>2, OneAnswerable, Zenon

\* A fresh request has applied nothing.
LEMMA RequestAnswerable ==
  ASSUME IInv, OKIsRecorded, NEW k \in Conn, h[k].pc = "idle",
         NEW i, NEW kind, NEW req, NEW child, NEW pc,
         h' = [h EXCEPT ![k] = Attested(k, i, kind, req, child, pc)]
  PROVE  OKIsRecorded'
  <1>1. PICK x : x = Attested(k, i, kind, req, child, pc) BY Zenon
  <1>2. h[k] \in ConnState /\ h[k].unrecorded = None BY Zenon DEF IInv, TypeOK, OKIsRecorded
  <1>3. Answerable(x) BY <1>1, <1>2, Zenon DEF Answerable, Attested, ConnState
  <1> QED BY <1>1, <1>3, OneAnswerable, Zenon

\* Every step of the specification.
LEMMA AnswersStep == IInv /\ OKIsRecorded /\ [Next]_vars => OKIsRecorded'
  <1> SUFFICES ASSUME IInv, OKIsRecorded, [Next]_vars PROVE OKIsRecorded' BY Zenon
  <1>1. CASE h' = h BY <1>1, Zenon DEF OKIsRecorded
  <1>2. CASE h' = [k \in Conn |-> Killed(k)]
    <2> SUFFICES ASSUME NEW k \in Conn PROVE Answerable(Killed(k))
      BY <1>2, Zenon DEF OKIsRecorded, Answerable
    <2>1. CASE h[k].pc \in {"idle", "done", "dead"}
      BY <2>1, Zenon DEF Killed, OKIsRecorded, Answerable
    <2>2. CASE h[k].pc \notin {"idle", "done", "dead"}
      BY <2>2, Zenon DEF Killed, Answerable, IdleConn
    <2> QED BY <2>1, <2>2, Zenon
  <1>3. CASE Units
    BY <1>1, <1>3, Zenon DEF Units, OperatorStart, StopUnit, UnitGone, brokerVars
  <1>4. CASE Collector
    BY <1>1, <1>2, <1>4, Zenon DEF Collector, ctlEgressSetSelf, ctlEgressSetSelfErr, ctlEgressClearSelf,
       GCScan, GCPrune, CollectorRestart, brokerVars
  <1>5. ASSUME NEW k \in Conn, Requests(k) PROVE OKIsRecorded'
    <2>1. ASSUME NEW i \in Inst, NEW req \in Mask, handleExpandTail(k, i, req) PROVE OKIsRecorded'
      BY <2>1, RequestAnswerable, Zenon DEF handleExpandTail
    <2>2. ASSUME NEW i \in Inst, NEW req \in Mask, handleNarrow(k, i, req) PROVE OKIsRecorded'
      BY <2>2, RequestAnswerable, Zenon DEF handleNarrow
    <2>3. ASSUME NEW i \in Inst, NEW req \in Mask, NEW m \in Minted, handleDelegateTail(k, i, req, m)
          PROVE  OKIsRecorded'
      BY <2>3, RequestAnswerable, Zenon DEF handleDelegateTail
    <2> QED BY <1>5, <2>1, <2>2, <2>3, Zenon DEF Requests
  <1>6. ASSUME NEW k \in Conn, reject(k) PROVE OKIsRecorded'
    BY <1>6, FinishAnswerable, Zenon DEF reject
  <1>7. ASSUME NEW k \in Conn, NEW appended \in BOOLEAN, record(k, appended) PROVE OKIsRecorded'
    <2>1. CASE h[k].pc = "failed" BY <1>7, <2>1, FinishAnswerable, Zenon DEF record
    <2>2. CASE h[k].pc # "failed" /\ appended BY <1>7, <2>2, FinishAnswerable, Zenon DEF record
    <2>3. CASE h[k].pc # "failed" /\ ~appended BY <1>7, <2>3, FinishAnswerable, Zenon DEF record
    <2> QED BY <2>1, <2>2, <2>3, Zenon
  <1>8. ASSUME NEW k \in Conn, lookupEgressMask(k) PROVE OKIsRecorded'
    <2>1. h[k].pc \notin {"applied", "dead", "done"} BY <1>8, Zenon DEF lookupEgressMask
    <2>2. \E pc, m : Goto(k, pc) \/ h' = [h EXCEPT ![k].pc = pc, ![k].mask = m]
      BY <1>8 DEF lookupEgressMask
    <2> QED BY <2>1, <2>2, GotoAnswerable, Zenon
  <1>9. ASSUME NEW k \in Conn, approve(k) \/ (HandlerStep(k) /\ ~lookupEgressMask(k)
                                               /\ \A a \in BOOLEAN : ~record(k, a))
        PROVE OKIsRecorded'
    <2>1. /\ h[k].pc \notin {"applied", "dead", "done"}
          /\ (\E pc : Goto(k, pc)) \/ Applied(k)
      BY <1>9, Zenon DEF approve, HandlerStep, lockLaunch, reverifyCgroup, updateExist, launchChild,
         launchChildErr, startReturned
    <2> QED BY <2>1, GotoAnswerable, Zenon
  <1>10. CASE Broker
    BY <1>2, <1>5, <1>6, <1>7, <1>8, <1>9, <1>10, Zenon DEF Broker, BrokerCrash
  <1>11. CASE UNCHANGED vars BY <1>1, <1>11, Zenon DEF vars, brokerVars
  <1> QED BY <1>3, <1>4, <1>10, <1>11, Zenon DEF Next

\* Nobody is told OK about a change the chain does not have, for any number of
\* connections and whatever crashes, with and without inode reuse.
THEOREM OKMeansRecorded == Spec => []OKIsRecorded
  <1>1. Init => OKIsRecorded 
    <2>1. IdleConn.unrecorded = None BY Zenon DEF IdleConn
    <2> QED BY <2>1, Zenon DEF Init, OKIsRecorded
  <1> QED BY Inductive, <1>1, AnswersStep, PTL DEF Spec

=============================================================================
