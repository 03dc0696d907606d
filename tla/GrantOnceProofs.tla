--------------------------- MODULE GrantOnceProofs ---------------------------
(***************************************************************************)
(* Proofs about GrantOnce, for any number of agents, inodes, hooks,        *)
(* threads and requests, and any bounds.                                   *)
(***************************************************************************)
EXTENDS GrantOnce, TLAPS

(***************************************************************************)
(* The inductive invariant.  A cgroup belongs to one unit; a request's run *)
(* number pins the cgroup it was attested in; a thread in a hook belongs   *)
(* to a running agent; and a grant still on its straight path (direct) is  *)
(* keyed by the cgroup of the very run that asked for it, which is what    *)
(* keeps a successor on the same inode from spending it.                   *)
(***************************************************************************)
UnitsInv ==
    /\ \A i \in Agent : phase[i] # "stopped" => cg[i] \in Cgid /\ run[i] # 0
    /\ \A i, j \in Agent : cg[i] = cg[j] /\ cg[i] # None => i = j
    /\ \A i \in Agent : run[i] <= runs

ReqInv ==
    \A r \in Req : req[r].pc # "idle" =>
        /\ req[r].agent \in Agent /\ req[r].cgid \in Cgid /\ req[r].hook \in Hook
        /\ req[r].run \in 1..runs
        /\ run[req[r].agent] = req[r].run => cg[req[r].agent] = req[r].cgid

ThrInv ==
    \A t \in Thread : thr[t].pc # "idle" =>
        /\ thr[t].agent \in Agent /\ thr[t].hook \in Hook /\ thr[t].elem \in 1..elems
        /\ phase[thr[t].agent] = "running"
        /\ thr[t].pc = "cas" /\ thr[t].elem \in direct => run[thr[t].agent] = owner[thr[t].elem]

Owned(c, e) == \E i \in Agent : /\ cg[i] = c /\ run[i] = owner[e]
                                /\ phase[i] \in {"running", "stopping"}

MapInv == \A c \in Cgid, k \in Hook : grant[c][k] \in direct => Owned(c, grant[c][k])

ElemInv ==
    /\ direct \subseteq 1..elems
    /\ \A e \in Elem : e > elems => used[e] = 0

\* The pass that holds controlMu has every running agent in its live set.
GcInv == ~Free => \A i \in Agent : phase[i] = "running" => cg[i] \in gcLive

GrantInv == /\ TypeOK /\ UnitsInv /\ ReqInv /\ ThrInv /\ MapInv /\ ElemInv /\ GcInv
            /\ SingleUse /\ SpentByRequester

-----------------------------------------------------------------------------
LEMMA GrantInit == Init => GrantInv
  <1> SUFFICES ASSUME Init PROVE GrantInv BY Zenon
  <1>1. IdleReq \in ReqState /\ IdleReq.pc = "idle" BY GrantAssumption DEF IdleReq, ReqState
  <1>2. IdleThr \in ThrState /\ IdleThr.pc = "idle" BY GrantAssumption DEF IdleThr, ThrState
  <1>3. TypeOK
    <2>1. 0 \in 0..MaxRuns /\ 0 \in 0..MaxElem /\ 0 \in 0..0 BY GrantAssumption
    <2>2. grant \in [Cgid -> [Hook -> 0..elems]] BY <2>1, Zenon DEF Init
    <2>3. /\ run \in [Agent -> 0..MaxRuns] /\ runs \in 0..MaxRuns /\ elems \in 0..MaxElem
          /\ owner \in [Elem -> 0..MaxRuns] /\ user \in [Elem -> 0..MaxRuns]
      BY <2>1, Zenon DEF Init
    <2>4. /\ count \in [Elem -> {0, 1}] /\ lapsed \in [Elem -> BOOLEAN] /\ used \in [Elem -> Nat]
      BY Zenon DEF Init
    <2>5. req \in [Req -> ReqState] /\ thr \in [Thread -> ThrState] BY <1>1, <1>2, Zenon DEF Init
    <2>6. /\ cg \in [Agent -> Cgid \cup {None}]
          /\ phase \in [Agent -> {"stopped", "prestart", "preset", "running", "stopping", "cleared"}]
      BY Zenon DEF Init
    <2>7. /\ grantMu \in Req \cup {None} /\ gcLive \in (SUBSET Cgid) \cup {None}
          /\ grantSeen \subseteq Cgid /\ direct \subseteq Elem
      BY Zenon DEF Init
    <2> QED BY <2>2, <2>3, <2>4, <2>5, <2>6, <2>7, Zenon DEF TypeOK
  <1>4. UnitsInv /\ GcInv BY GrantAssumption DEF Init, UnitsInv, GcInv, Free
  <1>5. ReqInv BY <1>1, Zenon DEF Init, ReqInv
  <1>6. ThrInv BY <1>2, Zenon DEF Init, ThrInv
  <1>7. MapInv /\ ElemInv /\ SingleUse /\ SpentByRequester
    BY GrantAssumption DEF Init, MapInv, ElemInv, SingleUse, SpentByRequester
  <1> QED BY <1>3, <1>4, <1>5, <1>6, <1>7, Zenon DEF GrantInv

\* MapInv reads six variables.
LEMMA MapFrame ==
    ASSUME MapInv, UNCHANGED <<cg, phase, run, grant, owner, direct>>
    PROVE  MapInv'
  <1> SUFFICES ASSUME NEW c \in Cgid, NEW k \in Hook, grant[c][k] \in direct
               PROVE  Owned(c, grant[c][k])'
    BY Zenon DEF MapInv
  <1>1. PICK i \in Agent : /\ cg[i] = c /\ run[i] = owner[grant[c][k]]
                           /\ phase[i] \in {"running", "stopping"}
    BY DEF MapInv, Owned
  <1> QED BY <1>1, Zenon DEF Owned

LEMMA Counts == ASSUME GrantInv PROVE elems \in Nat /\ runs \in Nat
  <1>1. elems \in 0..MaxElem /\ runs \in 0..MaxRuns BY Zenon DEF GrantInv, TypeOK
  <1> QED BY <1>1, GrantAssumption

-----------------------------------------------------------------------------
(* Agent units                                                             *)

LEMMA StartStep ==
    ASSUME GrantInv, NEW i \in Agent, NEW c \in Cgid, Start(i, c)
    PROVE  GrantInv'
  <1> USE DEF Start
  <1>1. /\ cg \in [Agent -> Cgid \cup {None}] /\ run \in [Agent -> 0..MaxRuns]
        /\ phase \in [Agent -> {"stopped", "prestart", "preset", "running", "stopping", "cleared"}]
        /\ runs \in Nat /\ runs + 1 \in 0..MaxRuns
    BY GrantAssumption DEF GrantInv, TypeOK
  <1>2. /\ cg'[i] = c /\ phase'[i] = "prestart" /\ run'[i] = runs + 1 /\ runs' = runs + 1
        /\ \A j \in Agent \ {i} : cg'[j] = cg[j] /\ phase'[j] = phase[j] /\ run'[j] = run[j]
    BY <1>1, Zenon
  <1>3. TypeOK' BY <1>1, <1>2, Zenon DEF GrantInv, TypeOK, elemVars
  <1>4. UnitsInv'
    <2>1. \A j \in Agent : phase'[j] # "stopped" => cg'[j] \in Cgid /\ run'[j] # 0
      BY <1>1, <1>2 DEF GrantInv, UnitsInv
    <2>2. \A j, l \in Agent : cg'[j] = cg'[l] /\ cg'[j] # None => j = l
      BY <1>1, <1>2, Zenon DEF GrantInv, UnitsInv
    <2>3. \A j \in Agent : run'[j] <= runs'
      <3>1. \A j \in Agent : run[j] \in Nat /\ run[j] <= runs
        BY <1>1, GrantAssumption DEF GrantInv, UnitsInv
      <3> QED BY <1>1, <1>2, <3>1
    <2> QED BY <2>1, <2>2, <2>3, Zenon DEF UnitsInv
  <1>5. ReqInv'
    <2> SUFFICES ASSUME NEW r \in Req, req[r].pc # "idle"
                 PROVE  /\ req[r].agent \in Agent /\ req[r].cgid \in Cgid /\ req[r].hook \in Hook
                        /\ req[r].run \in 1..(runs + 1)
                        /\ run'[req[r].agent] = req[r].run => cg'[req[r].agent] = req[r].cgid
      BY <1>2, Zenon DEF ReqInv
    <2>1. /\ req[r].agent \in Agent /\ req[r].cgid \in Cgid /\ req[r].hook \in Hook
          /\ req[r].run \in 1..runs
          /\ run[req[r].agent] = req[r].run => cg[req[r].agent] = req[r].cgid
      BY Zenon DEF GrantInv, ReqInv
    <2>2. req[r].run # runs + 1 /\ req[r].run \in 1..(runs + 1) BY <2>1, <1>1
    <2> QED BY <2>1, <2>2, <1>2, Zenon
  <1>6. ThrInv'
    <2>1. \A t \in Thread : thr[t].pc # "idle" => thr[t].agent # i
      BY Zenon DEF GrantInv, ThrInv
    <2> QED BY <2>1, <1>2 DEF GrantInv, ThrInv, elemVars
  <1>7. MapInv'
    <2> SUFFICES ASSUME NEW d \in Cgid, NEW k \in Hook, grant[d][k] \in direct
                 PROVE  Owned(d, grant[d][k])'
      BY Zenon DEF MapInv, elemVars
    <2>1. PICK j \in Agent : /\ cg[j] = d /\ run[j] = owner[grant[d][k]]
                             /\ phase[j] \in {"running", "stopping"}
      BY DEF GrantInv, MapInv, Owned
    <2>2. j # i BY <2>1, Zenon
    <2> QED BY <2>1, <2>2, <1>2, Zenon DEF Owned, elemVars
  <1>8. ElemInv' /\ SingleUse' /\ SpentByRequester'
    BY Zenon DEF GrantInv, ElemInv, SingleUse, SpentByRequester, elemVars, Elem
  <1>9. GcInv' BY <1>2 DEF GrantInv, GcInv, Free
  <1> QED BY <1>3, <1>4, <1>5, <1>6, <1>7, <1>8, <1>9, Zenon DEF GrantInv

\* A unit that moves from one phase to another, no longer running or not yet, and
\* keeps its cgroup; the grants' table is the same for the agents that go on.
LEMMA ClearStep ==
    ASSUME GrantInv, NEW i \in Agent, NEW failed \in BOOLEAN, ctlGrantClearSelf(i, failed)
    PROVE  GrantInv'
  <1> USE DEF ctlGrantClearSelf
  <1>1. /\ phase[i] \in {"prestart", "stopping"} /\ cg[i] \in Cgid
        /\ phase'[i] \in {"preset", "cleared"}
        /\ phase' \in [Agent -> {"stopped", "prestart", "preset", "running", "stopping", "cleared"}]
        /\ \A j \in Agent \ {i} : phase'[j] = phase[j]
    BY Zenon DEF GrantInv, TypeOK, UnitsInv
  <1>2. /\ grant' \in [Cgid -> [Hook -> 0..elems]]
        /\ direct' \subseteq direct
        /\ \A d \in Cgid, k \in Hook : grant'[d][k] # 0 => grant'[d][k] = grant[d][k]
        /\ \A k \in Hook : grant'[cg[i]][k] \notin direct'
    <2>1. /\ grant \in [Cgid -> [Hook -> 0..elems]] /\ elems \in Nat /\ 0 \notin direct
      BY GrantAssumption DEF GrantInv, TypeOK, Elem
    <2>2. CASE failed BY <2>1, <2>2, <1>1
    <2>3. CASE ~failed
      <3>1. grant' = [grant EXCEPT ![cg[i]] = [k \in Hook |-> 0]] /\ direct' = direct
        BY <2>3, Zenon DEF DeleteKeys
      <3>2. [k \in Hook |-> 0] \in [Hook -> 0..elems] BY <2>1
      <3> QED BY <2>1, <3>1, <3>2, <1>1, Zenon
    <2> QED BY <2>2, <2>3, Zenon
  <1>3. TypeOK' BY <1>1, <1>2, Zenon DEF GrantInv, TypeOK
  <1>4. UnitsInv' BY <1>1, Zenon DEF GrantInv, UnitsInv
  <1>5. ReqInv' BY Zenon DEF GrantInv, ReqInv
  <1>6. ThrInv'
    <2>1. \A t \in Thread : thr[t].pc # "idle" => thr[t].agent # i BY <1>1, Zenon DEF GrantInv, ThrInv
    <2> QED BY <2>1, <1>1, <1>2 DEF GrantInv, ThrInv
  <1>7. MapInv'
    <2> SUFFICES ASSUME NEW d \in Cgid, NEW k \in Hook, grant'[d][k] \in direct'
                 PROVE  Owned(d, grant[d][k])'
      BY Zenon DEF MapInv
    <2>0. grant'[d][k] # 0
      BY <1>2, GrantAssumption DEF GrantInv, TypeOK, Elem
    <2>1. grant'[d][k] = grant[d][k] /\ grant[d][k] \in direct /\ d # cg[i] BY <2>0, <1>2, Zenon
    <2>2. PICK j \in Agent : /\ cg[j] = d /\ run[j] = owner[grant[d][k]]
                             /\ phase[j] \in {"running", "stopping"}
      BY <2>1 DEF GrantInv, MapInv, Owned
    <2>3. j # i BY <2>1, <2>2, Zenon
    <2> QED BY <2>1, <2>2, <2>3, <1>1, Zenon DEF Owned
  <1>8. ElemInv' /\ SingleUse' /\ SpentByRequester'
    BY <1>2, Zenon DEF GrantInv, ElemInv, SingleUse, SpentByRequester, Elem
  <1>9. GcInv' BY <1>1, Zenon DEF GrantInv, GcInv, Free
  <1> QED BY <1>3, <1>4, <1>5, <1>6, <1>7, <1>8, <1>9, Zenon DEF GrantInv

LEMMA ExecStep ==
    ASSUME GrantInv, NEW i \in Agent, ExecStart(i)
    PROVE  GrantInv'
  <1> USE DEF ExecStart, elemVars
  <1>1. /\ phase[i] = "preset" /\ phase'[i] = "running"
        /\ phase' \in [Agent -> {"stopped", "prestart", "preset", "running", "stopping", "cleared"}]
        /\ \A j \in Agent \ {i} : phase'[j] = phase[j]
    BY Zenon DEF GrantInv, TypeOK
  <1>2. TypeOK' BY <1>1, Zenon DEF GrantInv, TypeOK
  <1>3. UnitsInv' BY <1>1, Zenon DEF GrantInv, UnitsInv
  <1>4. ReqInv' BY Zenon DEF GrantInv, ReqInv
  <1>5. ThrInv' BY <1>1, Zenon DEF GrantInv, ThrInv
  <1>6. MapInv'
    <2> SUFFICES ASSUME NEW d \in Cgid, NEW k \in Hook, grant[d][k] \in direct
                 PROVE  Owned(d, grant[d][k])'
      BY Zenon DEF MapInv
    <2>1. PICK j \in Agent : /\ cg[j] = d /\ run[j] = owner[grant[d][k]]
                             /\ phase[j] \in {"running", "stopping"}
      BY DEF GrantInv, MapInv, Owned
    <2> QED BY <2>1, <1>1, Zenon DEF Owned
  <1>7. ElemInv' /\ SingleUse' /\ SpentByRequester'
    BY Zenon DEF GrantInv, ElemInv, SingleUse, SpentByRequester, Elem
  <1>8. GcInv' BY Zenon DEF GrantInv, GcInv, Free
  <1> QED BY <1>2, <1>3, <1>4, <1>5, <1>6, <1>7, <1>8, Zenon DEF GrantInv

LEMMA StopStep ==
    ASSUME GrantInv, NEW i \in Agent, Stop(i)
    PROVE  GrantInv'
  <1> USE DEF Stop, elemVars
  <1>1. /\ phase[i] = "running" /\ phase'[i] = "stopping"
        /\ phase' \in [Agent -> {"stopped", "prestart", "preset", "running", "stopping", "cleared"}]
        /\ \A j \in Agent \ {i} : phase'[j] = phase[j]
    BY Zenon DEF GrantInv, TypeOK
  <1>2. IdleThr \in ThrState /\ IdleThr.pc = "idle" BY GrantAssumption DEF IdleThr, ThrState
  <1>3. \A t \in Thread : \/ thr'[t] = IdleThr
                          \/ thr'[t] = thr[t] /\ thr[t].agent # i
    BY Zenon
  <1>4. thr' \in [Thread -> ThrState] BY <1>2, Zenon DEF GrantInv, TypeOK
  <1>5. TypeOK' BY <1>1, <1>4, Zenon DEF GrantInv, TypeOK
  <1>6. UnitsInv' BY <1>1, Zenon DEF GrantInv, UnitsInv
  <1>7. ReqInv' BY Zenon DEF GrantInv, ReqInv
  <1>8. ThrInv' BY <1>1, <1>2, <1>3, Zenon DEF GrantInv, ThrInv
  <1>9. MapInv'
    <2> SUFFICES ASSUME NEW d \in Cgid, NEW k \in Hook, grant[d][k] \in direct
                 PROVE  Owned(d, grant[d][k])'
      BY Zenon DEF MapInv
    <2>1. PICK j \in Agent : /\ cg[j] = d /\ run[j] = owner[grant[d][k]]
                             /\ phase[j] \in {"running", "stopping"}
      BY DEF GrantInv, MapInv, Owned
    <2> QED BY <2>1, <1>1, Zenon DEF Owned
  <1>10. ElemInv' /\ SingleUse' /\ SpentByRequester'
    BY Zenon DEF GrantInv, ElemInv, SingleUse, SpentByRequester, Elem
  <1>11. GcInv' BY <1>1, Zenon DEF GrantInv, GcInv, Free
  <1> QED BY <1>5, <1>6, <1>7, <1>8, <1>9, <1>10, <1>11, Zenon DEF GrantInv

LEMMA GoneStep ==
    ASSUME GrantInv, NEW i \in Agent, Gone(i)
    PROVE  GrantInv'
  <1> USE DEF Gone, elemVars
  <1>1. /\ phase[i] = "cleared" /\ phase'[i] = "stopped" /\ cg'[i] = None /\ run'[i] = 0
        /\ \A j \in Agent \ {i} : cg'[j] = cg[j] /\ phase'[j] = phase[j] /\ run'[j] = run[j]
    BY Zenon DEF GrantInv, TypeOK
  <1>2. TypeOK' BY GrantAssumption DEF GrantInv, TypeOK
  <1>3. UnitsInv'
    <2>1. runs \in Nat BY Counts, Zenon
    <2> QED BY <1>1, <2>1 DEF GrantInv, UnitsInv
  <1>4. ReqInv' BY <1>1 DEF GrantInv, ReqInv
  <1>5. ThrInv' BY <1>1 DEF GrantInv, ThrInv
  <1>6. MapInv'
    <2> SUFFICES ASSUME NEW d \in Cgid, NEW k \in Hook, grant[d][k] \in direct
                 PROVE  Owned(d, grant[d][k])'
      BY Zenon DEF MapInv
    <2>1. PICK j \in Agent : /\ cg[j] = d /\ run[j] = owner[grant[d][k]]
                             /\ phase[j] \in {"running", "stopping"}
      BY DEF GrantInv, MapInv, Owned
    <2>2. j # i BY <2>1, <1>1, Zenon
    <2> QED BY <2>1, <2>2, <1>1, Zenon DEF Owned
  <1>7. ElemInv' /\ SingleUse' /\ SpentByRequester'
    BY Zenon DEF GrantInv, ElemInv, SingleUse, SpentByRequester, Elem
  <1>8. GcInv' BY <1>1 DEF GrantInv, GcInv, Free
  <1> QED BY <1>2, <1>3, <1>4, <1>5, <1>6, <1>7, <1>8, Zenon DEF GrantInv

-----------------------------------------------------------------------------
(* The broker                                                              *)

\* A request's own steps that write no grant.
LEMMA RequestStep ==
    ASSUME GrantInv, NEW r \in Req, NEW q \in ReqState, req' = [req EXCEPT ![r] = q],
           q.pc # "idle" =>
             /\ q.agent \in Agent /\ q.cgid \in Cgid /\ q.hook \in Hook /\ q.run \in 1..runs
             /\ run[q.agent] = q.run => cg[q.agent] = q.cgid,
           grantMu' \in Req \cup {None},
           UNCHANGED <<unitVars, grant, elemVars, thr, gcLive, grantSeen>>
    PROVE  GrantInv'
  <1> USE DEF unitVars, elemVars
  <1>1. TypeOK' BY Zenon DEF GrantInv, TypeOK
  <1>2. ReqInv'
    <2>1. req'[r] = q /\ \A s \in Req \ {r} : req'[s] = req[s] BY Zenon DEF GrantInv, TypeOK
    <2> QED BY <2>1, Zenon DEF GrantInv, ReqInv
  <1>3. UnitsInv' /\ ThrInv' BY Zenon DEF GrantInv, UnitsInv, ThrInv
  <1>4. MapInv' BY MapFrame, Zenon DEF GrantInv
  <1>5. ElemInv' /\ SingleUse' /\ SpentByRequester' /\ GcInv'
    BY Zenon DEF GrantInv, ElemInv, SingleUse, SpentByRequester, Elem, GcInv, Free
  <1> QED BY <1>1, <1>2, <1>3, <1>4, <1>5, Zenon DEF GrantInv

LEMMA AttestedStep ==
    ASSUME GrantInv, NEW r \in Req, NEW i \in Agent, NEW k \in Hook, handleGrantOnceTail(r, i, k)
    PROVE  GrantInv'
  <1> DEFINE q == [pc |-> "approved", agent |-> i, cgid |-> cg[i], hook |-> k, run |-> run[i]]
  <1>1. /\ cg[i] \in Cgid /\ run[i] # 0 /\ run[i] \in 0..MaxRuns /\ run[i] <= runs /\ runs \in Nat
    BY GrantAssumption DEF handleGrantOnceTail, GrantInv, UnitsInv, TypeOK
  <1>2. q \in ReqState BY <1>1, Zenon DEF ReqState
  <1>3. q.run \in 1..runs BY <1>1, GrantAssumption
  <1>4. grantMu' \in Req \cup {None} BY Zenon DEF handleGrantOnceTail, GrantInv, TypeOK
  <1> QED BY <1>1, <1>2, <1>3, <1>4, RequestStep, Zenon DEF handleGrantOnceTail

LEMMA DroppedStep ==
    ASSUME GrantInv, NEW r \in Req, refused(r) \/ updateErr(r)
    PROVE  GrantInv'
  <1>1. IdleReq \in ReqState /\ IdleReq.pc = "idle" BY GrantAssumption DEF IdleReq, ReqState
  <1>2. grantMu' \in Req \cup {None} BY Zenon DEF refused, updateErr, GrantInv, TypeOK
  <1> QED BY <1>1, <1>2, RequestStep, Zenon DEF refused, updateErr

LEMMA VerifiedStep ==
    ASSUME GrantInv, NEW r \in Req, reverifyCgroup(r)
    PROVE  GrantInv'
  <1> DEFINE q == [req[r] EXCEPT !.pc = "verified"]
  <1>1. req[r] \in ReqState /\ req[r].pc # "idle" BY Zenon DEF reverifyCgroup, GrantInv, TypeOK
  <1>2. /\ q \in ReqState /\ q.agent = req[r].agent /\ q.cgid = req[r].cgid
        /\ q.hook = req[r].hook /\ q.run = req[r].run
    BY <1>1, Zenon DEF ReqState
  <1>3. req' = [req EXCEPT ![r] = q] BY Zenon DEF reverifyCgroup, GrantInv, TypeOK
  <1> HIDE DEF q
  <1>4. /\ q.agent \in Agent /\ q.cgid \in Cgid /\ q.hook \in Hook /\ q.run \in 1..runs
        /\ run[q.agent] = q.run => cg[q.agent] = q.cgid
    BY <1>1, <1>2, Zenon DEF GrantInv, ReqInv
  <1> QED BY <1>2, <1>3, <1>4, RequestStep, Zenon DEF reverifyCgroup

\* The element is new: nobody holds it and nobody used it.  If the run that asked is
\* still running, the cgroup it is written for is that run's.
LEMMA UpdateStep ==
    ASSUME GrantInv, NEW r \in Req, updateAny(r)
    PROVE  GrantInv'
  <1> DEFINE q == req[r]
             e == elems + 1
  <1> USE DEF updateAny, unitVars
  <1>1. /\ q.agent \in Agent /\ q.cgid \in Cgid /\ q.hook \in Hook /\ q.run \in 1..runs
        /\ run[q.agent] = q.run => cg[q.agent] = q.cgid
    BY Zenon DEF GrantInv, ReqInv
  <1>2. /\ elems \in Nat /\ e \in Elem /\ e \in 1..e /\ elems' = e /\ 0..elems \subseteq 0..e
        /\ e \notin 0..elems /\ e \notin 1..elems
    BY GrantAssumption DEF GrantInv, TypeOK, Elem
  <1>3. /\ grant \in [Cgid -> [Hook -> 0..elems]] /\ direct \subseteq 1..elems
    BY Zenon DEF GrantInv, TypeOK, ElemInv
  <1> HIDE DEF e
  <1>4. /\ grant' = [grant EXCEPT ![q.cgid][q.hook] = e]
        /\ grant'[q.cgid][q.hook] = e
        /\ \A d \in Cgid, k \in Hook : <<d, k>> # <<q.cgid, q.hook>> => grant'[d][k] = grant[d][k]
        /\ grant' \in [Cgid -> [Hook -> 0..e]]
    <2>1. grant' = [grant EXCEPT ![q.cgid][q.hook] = e] BY Zenon DEF e
    <2>2. grant'[q.cgid][q.hook] = e BY <2>1, <1>1, <1>3
    <2>3. \A d \in Cgid, k \in Hook : <<d, k>> # <<q.cgid, q.hook>> => grant'[d][k] = grant[d][k]
      BY <2>1, <1>1, <1>3
    <2>4. grant' \in [Cgid -> [Hook -> 0..e]]
      <3>1. e \in 0..e BY <1>2
      <3>2. grant \in [Cgid -> [Hook -> 0..e]] BY <1>2, <1>3, Zenon
      <3> QED BY <2>1, <3>1, <3>2, <1>1
    <2> QED BY <2>1, <2>2, <2>3, <2>4, Zenon
  <1>5. /\ count' = [count EXCEPT ![e] = 1] /\ owner' = [owner EXCEPT ![e] = q.run]
        /\ direct' = IF phase[q.agent] = "running" /\ run[q.agent] = q.run
                     THEN direct \cup {e} ELSE direct
    BY Zenon DEF e
  <1>6. /\ \A x \in 1..elems : x # e
        /\ \A x \in Elem \ {e} : owner'[x] = owner[x] /\ count'[x] = count[x]
        /\ owner'[e] = q.run
    BY <1>2, <1>5, Zenon DEF GrantInv, TypeOK
  <1>7. TypeOK'
    <2>1. IdleReq \in ReqState BY GrantAssumption DEF IdleReq, ReqState
    <2>2. req' \in [Req -> ReqState] BY <2>1, Zenon DEF GrantInv, TypeOK
    <2>3. q.run \in 0..MaxRuns BY Zenon DEF GrantInv, TypeOK, ReqState
    <2>4. owner' \in [Elem -> 0..MaxRuns] /\ count' \in [Elem -> {0, 1}]
      BY <1>5, <2>3, <1>2, Zenon DEF GrantInv, TypeOK
    <2>5. direct' \subseteq Elem BY <1>2, <1>5, Zenon DEF GrantInv, TypeOK
    <2>6. elems' \in 0..MaxElem BY <1>2, GrantAssumption DEF Elem
    <2> QED BY <1>2, <1>4, <2>2, <2>4, <2>5, <2>6, Zenon DEF GrantInv, TypeOK
  <1>8. UnitsInv' /\ GcInv' BY Zenon DEF GrantInv, UnitsInv, GcInv, Free
  <1>9. ReqInv'
    <2>1. IdleReq.pc = "idle" BY Zenon DEF IdleReq
    <2>2. \A s \in Req : req'[s] = req[s] \/ req'[s] = IdleReq BY Zenon DEF GrantInv, TypeOK
    <2> QED BY <2>1, <2>2, Zenon DEF GrantInv, ReqInv
  <1>10. ThrInv'
    <2> SUFFICES ASSUME NEW t \in Thread, thr[t].pc # "idle"
                 PROVE  /\ thr[t].agent \in Agent /\ thr[t].hook \in Hook /\ thr[t].elem \in 1..e
                        /\ phase[thr[t].agent] = "running"
                        /\ thr[t].pc = "cas" /\ thr[t].elem \in direct' =>
                              run[thr[t].agent] = owner'[thr[t].elem]
      BY <1>2, Zenon DEF ThrInv
    <2>1. /\ thr[t].agent \in Agent /\ thr[t].hook \in Hook /\ thr[t].elem \in 1..elems
          /\ phase[thr[t].agent] = "running"
          /\ thr[t].pc = "cas" /\ thr[t].elem \in direct => run[thr[t].agent] = owner[thr[t].elem]
      BY Zenon DEF GrantInv, ThrInv
    <2>2. thr[t].elem # e /\ thr[t].elem \in 1..e /\ thr[t].elem \in Elem
      <3>1. thr[t].elem # e BY <2>1, <1>6, Zenon
      <3>2. elems + 1 \in 1..MaxElem BY <1>2, Zenon DEF Elem, e
      <3>3. thr[t].elem \in 1..(elems + 1) /\ thr[t].elem \in 1..MaxElem
        BY <2>1, <3>2, <1>2, GrantAssumption
      <3> QED BY <3>1, <3>3, Zenon DEF Elem, e
    <2>3. thr[t].elem \in direct' => thr[t].elem \in direct BY <2>2, <1>5, Zenon
    <2> QED BY <2>1, <2>2, <2>3, <1>6, Zenon
  <1>11. MapInv'
    <2> SUFFICES ASSUME NEW d \in Cgid, NEW k \in Hook, grant'[d][k] \in direct'
                 PROVE  Owned(d, grant[d][k])'
      BY Zenon DEF MapInv
    <2>1. CASE <<d, k>> = <<q.cgid, q.hook>>
      <3>1. grant'[d][k] = e /\ d = q.cgid BY <2>1, <1>4, Zenon
      <3>2. e \notin direct BY <1>2, <1>3, Zenon
      <3>3. phase[q.agent] = "running" /\ run[q.agent] = q.run BY <3>1, <3>2, <1>5, Zenon
      <3>4. cg[q.agent] = d BY <3>1, <3>3, <1>1, Zenon
      <3> QED BY <3>1, <3>3, <3>4, <1>1, <1>6, Zenon DEF Owned
    <2>2. CASE <<d, k>> # <<q.cgid, q.hook>>
      <3>1. grant'[d][k] = grant[d][k] /\ grant[d][k] \in 0..elems BY <2>2, <1>3, <1>4
      <3>2. grant[d][k] # e BY <3>1, <1>2, Zenon
      <3>3. grant[d][k] \in direct BY <3>1, <3>2, <1>5, Zenon
      <3>4. grant[d][k] \in Elem BY <3>3, Zenon DEF GrantInv, TypeOK
      <3>5. PICK j \in Agent : /\ cg[j] = d /\ run[j] = owner[grant[d][k]]
                               /\ phase[j] \in {"running", "stopping"}
        BY <3>3 DEF GrantInv, MapInv, Owned
      <3> QED BY <3>1, <3>2, <3>4, <3>5, <1>6, ZenonT(30) DEF Owned
    <2> QED BY <2>1, <2>2, Zenon
  <1>12. used[e] = 0
    BY <1>2 DEF GrantInv, ElemInv, e
  <1>13. ElemInv'
    <2>1. direct' \subseteq 1..e BY <1>2, <1>3, <1>5 DEF e
    <2>2. \A x \in Elem : x > e => used[x] = 0 BY <1>2 DEF GrantInv, ElemInv, Elem, e
    <2> QED BY <2>1, <2>2, <1>2, Zenon DEF ElemInv, Elem
  <1>14. SingleUse' BY <1>6, <1>12, Zenon DEF GrantInv, SingleUse, Elem
  <1>15. SpentByRequester'
    <2> SUFFICES ASSUME NEW x \in direct', used[x] > 0 PROVE user[x] = owner'[x]
      BY Zenon DEF SpentByRequester
    <2>1. x # e BY <1>12
    <2>2. x \in direct /\ x \in Elem BY <2>1, <1>5, Zenon DEF GrantInv, TypeOK
    <2> QED BY <2>1, <2>2, <1>6, Zenon DEF GrantInv, SpentByRequester
  <1> QED BY <1>7, <1>8, <1>9, <1>10, <1>11, <1>13, <1>14, <1>15, Zenon DEF GrantInv

-----------------------------------------------------------------------------
(* The hooks                                                               *)

\* An agent finds in its cgroup's keys no straight grant but its own.
LEMMA LookupStep ==
    ASSUME GrantInv, NEW t \in Thread, NEW i \in Agent, NEW k \in Hook, lookup(t, i, k)
    PROVE  GrantInv'
  <1> DEFINE e == grant[cg[i]][k]
             x == [pc |-> "cas", agent |-> i, hook |-> k, elem |-> e]
  <1> USE DEF lookup, unitVars, elemVars
  <1>1. cg[i] \in Cgid /\ phase[i] = "running" /\ cg[i] # None
    BY GrantAssumption, Zenon DEF GrantInv, UnitsInv
  <1>2. e \in 1..elems /\ e \in 0..MaxElem
    <2>1. e \in 0..elems /\ e # 0 /\ elems \in 0..MaxElem BY <1>1, Zenon DEF GrantInv, TypeOK
    <2> QED BY <2>1, GrantAssumption
  <1>3. e \in direct => run[i] = owner[e]
    <2> SUFFICES ASSUME e \in direct PROVE run[i] = owner[e] BY Zenon
    <2>1. PICK j \in Agent : cg[j] = cg[i] /\ run[j] = owner[e]
      BY <1>1 DEF GrantInv, MapInv, Owned
    <2> QED BY <2>1, <1>1, Zenon DEF GrantInv, UnitsInv
  <1> HIDE DEF e
  <1>4. x \in ThrState BY <1>2, Zenon DEF ThrState
  <1>5. thr' = [thr EXCEPT ![t] = x] BY Zenon DEF e
  <1>6. thr'[t] = x /\ \A u \in Thread \ {t} : thr'[u] = thr[u] BY <1>5, Zenon DEF GrantInv, TypeOK
  <1>7. TypeOK' BY <1>4, <1>5, Zenon DEF GrantInv, TypeOK
  <1>8. ThrInv' BY <1>1, <1>2, <1>3, <1>6 DEF GrantInv, ThrInv
  <1>9. UnitsInv' /\ ReqInv' BY Zenon DEF GrantInv, UnitsInv, ReqInv
  <1>10. MapInv' BY MapFrame, Zenon DEF GrantInv
  <1>11. ElemInv' /\ SingleUse' /\ SpentByRequester' /\ GcInv'
    BY Zenon DEF GrantInv, ElemInv, SingleUse, SpentByRequester, Elem, GcInv, Free
  <1> QED BY <1>7, <1>8, <1>9, <1>10, <1>11, Zenon DEF GrantInv

LEMMA CasStep ==
    ASSUME GrantInv, NEW t \in Thread, cas(t)
    PROVE  GrantInv'
  <1> DEFINE e == thr[t].elem
  <1> USE DEF unitVars
  <1>1. /\ thr[t] \in ThrState /\ thr[t].pc = "cas" /\ e \in 1..elems /\ e \in Elem
        /\ thr[t].agent \in Agent /\ phase[thr[t].agent] = "running"
        /\ e \in direct => run[thr[t].agent] = owner[e]
    <2>1. /\ thr[t] \in ThrState /\ thr[t].pc = "cas" /\ e \in 1..elems /\ elems \in 0..MaxElem
          /\ thr[t].agent \in Agent /\ phase[thr[t].agent] = "running"
          /\ e \in direct => run[thr[t].agent] = owner[e]
      BY Zenon DEF cas, GrantInv, ThrInv, TypeOK
    <2> QED BY <2>1, GrantAssumption DEF Elem
  <1>2. IdleThr \in ThrState /\ IdleThr.pc = "idle" BY GrantAssumption DEF IdleThr, ThrState
  <1>3. UnitsInv' /\ ReqInv' /\ GcInv' BY Zenon DEF cas, GrantInv, UnitsInv, ReqInv, GcInv, Free
  <1>4. MapInv' BY DEF cas, GrantInv, MapInv, Owned
  <1>5. CASE count[e] # 1
    <2>1. thr' = [thr EXCEPT ![t] = IdleThr] /\ UNCHANGED <<count, used, user>> BY <1>5, Zenon DEF cas
    <2>2. \A u \in Thread : thr'[u] = thr[u] \/ thr'[u] = IdleThr BY <2>1, Zenon DEF GrantInv, TypeOK
    <2>3. TypeOK' BY <2>1, <1>2, Zenon DEF cas, GrantInv, TypeOK
    <2>4. ThrInv' BY <2>2, <1>2, Zenon DEF cas, GrantInv, ThrInv
    <2>5. ElemInv' /\ SingleUse' /\ SpentByRequester'
      BY <2>1, Zenon DEF cas, GrantInv, ElemInv, SingleUse, SpentByRequester, Elem
    <2> QED BY <2>3, <2>4, <2>5, <1>3, <1>4, Zenon DEF GrantInv
  <1>6. CASE count[e] = 1
    <2> DEFINE x == [thr[t] EXCEPT !.pc = "delete"]
    <2>1. /\ count' = [count EXCEPT ![e] = 0] /\ used' = [used EXCEPT ![e] = used[e] + 1]
          /\ user' = [user EXCEPT ![e] = run[thr[t].agent]]
          /\ thr' = [thr EXCEPT ![t] = x]
      BY <1>6, Zenon DEF cas, GrantInv, TypeOK
    <2>2. /\ x \in ThrState /\ x.pc = "delete" /\ x.agent = thr[t].agent
          /\ x.hook = thr[t].hook /\ x.elem = thr[t].elem
      BY <1>1, Zenon DEF ThrState
    <2> HIDE DEF x, e
    <2>3. thr'[t] = x /\ \A u \in Thread \ {t} : thr'[u] = thr[u] BY <2>1, Zenon DEF GrantInv, TypeOK
    <2>4. TypeOK'
      <3>1. run[thr[t].agent] \in 0..MaxRuns BY <1>1, Zenon DEF GrantInv, TypeOK
      <3>2. thr' \in [Thread -> ThrState] BY <2>1, <2>2, Zenon DEF GrantInv, TypeOK
      <3>3. user' \in [Elem -> 0..MaxRuns] BY <2>1, <3>1, Zenon DEF GrantInv, TypeOK
      <3>4. count' \in [Elem -> {0, 1}] BY <2>1, Zenon DEF GrantInv, TypeOK
      <3>5. used' \in [Elem -> Nat] BY <2>1, <1>1 DEF GrantInv, TypeOK
      <3> QED BY <3>2, <3>3, <3>4, <3>5, Zenon DEF cas, GrantInv, TypeOK
    <2>5. ThrInv'
      <3>1. x.hook \in Hook BY <1>1, <2>2, Zenon DEF GrantInv, ThrInv
      <3> QED BY <1>1, <2>2, <2>3, <3>1 DEF cas, GrantInv, ThrInv, e
    <2>6. used[e] = 0 BY <1>1, <1>6, Zenon DEF GrantInv, SingleUse
    <2>7. /\ used'[e] = 1 /\ count'[e] = 0 /\ user'[e] = run[thr[t].agent]
          /\ \A y \in Elem \ {e} : used'[y] = used[y] /\ count'[y] = count[y] /\ user'[y] = user[y]
      BY <1>1, <2>1, <2>6 DEF GrantInv, TypeOK
    <2>8. SingleUse' BY <2>7 DEF GrantInv, SingleUse, Elem
    <2>9. ElemInv'
      <3>1. elems' = elems /\ direct' = direct BY Zenon DEF cas
      <3>2. \A y \in Elem : y > elems => y # e
        BY <1>1, GrantAssumption DEF Elem, GrantInv, TypeOK
      <3> QED BY <2>7, <3>1, <3>2, Zenon DEF GrantInv, ElemInv, Elem
    <2>10. SpentByRequester'
      <3>1. direct' = direct /\ owner' = owner /\ direct \subseteq Elem BY Zenon DEF cas, GrantInv, TypeOK
      <3> QED BY <1>1, <2>7, <3>1, Zenon DEF GrantInv, SpentByRequester
    <2> QED BY <2>4, <2>5, <2>8, <2>9, <2>10, <1>3, <1>4, Zenon DEF GrantInv
  <1> QED BY <1>5, <1>6, Zenon

\* A grant, or some keys, are taken from the table: what is left is as it was.
LEMMA FewerGrants ==
    ASSUME GrantInv, grant' \in [Cgid -> [Hook -> 0..elems]],
           \A d \in Cgid, k \in Hook : grant'[d][k] # 0 => grant'[d][k] = grant[d][k],
           UNCHANGED <<unitVars, elemVars>>
    PROVE  MapInv'
  <1> USE DEF unitVars, elemVars
  <1> SUFFICES ASSUME NEW d \in Cgid, NEW k \in Hook, grant'[d][k] \in direct
               PROVE  Owned(d, grant[d][k])'
    BY Zenon DEF MapInv
  <1>1. grant'[d][k] # 0 BY GrantAssumption DEF GrantInv, TypeOK, Elem
  <1>2. grant'[d][k] = grant[d][k] BY <1>1, Zenon
  <1>3. PICK i \in Agent : /\ cg[i] = d /\ run[i] = owner[grant[d][k]]
                           /\ phase[i] \in {"running", "stopping"}
    BY <1>2 DEF GrantInv, MapInv, Owned
  <1> QED BY <1>2, <1>3, Zenon DEF Owned

LEMMA TidyStep ==
    ASSUME GrantInv, NEW t \in Thread, tidy(t)
    PROVE  GrantInv'
  <1> USE DEF tidy
  <1>1. IdleThr \in ThrState /\ IdleThr.pc = "idle" BY GrantAssumption DEF IdleThr, ThrState
  <1>2. \A u \in Thread : thr'[u] = thr[u] \/ thr'[u] = IdleThr BY Zenon DEF GrantInv, TypeOK
  <1>3. /\ grant' \in [Cgid -> [Hook -> 0..elems]]
        /\ \A d \in Cgid, k \in Hook : grant'[d][k] # 0 => grant'[d][k] = grant[d][k]
    <2>1. grant \in [Cgid -> [Hook -> 0..elems]] /\ 0 \in 0..elems
      BY Counts DEF GrantInv, TypeOK
    <2> QED BY <2>1, Zenon
  <1>4. TypeOK' BY <1>1, <1>3, Zenon DEF GrantInv, TypeOK, unitVars, elemVars
  <1>5. ThrInv' BY <1>1, <1>2 DEF GrantInv, ThrInv, unitVars, elemVars
  <1>6. UnitsInv' /\ ReqInv' /\ GcInv' BY Zenon DEF GrantInv, UnitsInv, ReqInv, GcInv, Free, unitVars
  <1>7. MapInv' BY <1>3, FewerGrants, Zenon
  <1>8. ElemInv' /\ SingleUse' /\ SpentByRequester'
    BY Zenon DEF GrantInv, ElemInv, SingleUse, SpentByRequester, Elem, elemVars
  <1> QED BY <1>4, <1>5, <1>6, <1>7, <1>8, Zenon DEF GrantInv

LEMMA LapseStep ==
    ASSUME GrantInv, NEW e \in Elem, TTLLapses(e)
    PROVE  GrantInv'
  <1> USE DEF TTLLapses, unitVars
  <1>1. TypeOK' BY Zenon DEF GrantInv, TypeOK
  <1>2. UnitsInv' /\ ReqInv' /\ ThrInv' /\ GcInv'
    BY Zenon DEF GrantInv, UnitsInv, ReqInv, ThrInv, GcInv, Free
  <1>3. MapInv' BY MapFrame, Zenon DEF GrantInv
  <1>4. ElemInv' /\ SingleUse' /\ SpentByRequester'
    BY Zenon DEF GrantInv, ElemInv, SingleUse, SpentByRequester, Elem
  <1> QED BY <1>1, <1>2, <1>3, <1>4, Zenon DEF GrantInv

-----------------------------------------------------------------------------
(* The collector                                                           *)

LEMMA ScanStep ==
    ASSUME GrantInv, gcScan
    PROVE  GrantInv'
  <1> USE DEF gcScan, unitVars, elemVars
  <1>1. TypeOK'
    <2>1. Live \subseteq Cgid BY DEF Live, GrantInv, TypeOK
    <2> QED BY <2>1, Zenon DEF GrantInv, TypeOK
  <1>2. GcInv'
    <2>1. \A i \in Agent : phase[i] = "running" => cg[i] \in Live
      BY GrantAssumption, Zenon DEF Live, GrantInv, UnitsInv
    <2> QED BY <2>1, Zenon DEF GcInv
  <1>3. UnitsInv' /\ ReqInv' /\ ThrInv' BY Zenon DEF GrantInv, UnitsInv, ReqInv, ThrInv
  <1>4. MapInv' BY MapFrame, Zenon DEF GrantInv
  <1>5. ElemInv' /\ SingleUse' /\ SpentByRequester'
    BY Zenon DEF GrantInv, ElemInv, SingleUse, SpentByRequester, Elem
  <1> QED BY <1>1, <1>2, <1>3, <1>4, <1>5, Zenon DEF GrantInv

LEMMA PassStep ==
    ASSUME GrantInv, runGCPass
    PROVE  GrantInv'
  <1> USE DEF runGCPass
  <1>1. /\ grant' \in [Cgid -> [Hook -> 0..elems]]
        /\ \A d \in Cgid, k \in Hook : grant'[d][k] # 0 => grant'[d][k] = grant[d][k]
    <2>1. grant \in [Cgid -> [Hook -> 0..elems]] /\ 0 \in 0..elems
      BY Counts DEF GrantInv, TypeOK
    <2> QED BY <2>1, Zenon
  <1>2. TypeOK'
    <2>1. grantSeen' \subseteq Cgid BY Zenon DEF Keyed, GrantInv, TypeOK
    <2> QED BY <1>1, <2>1, Zenon DEF GrantInv, TypeOK, unitVars, elemVars
  <1>3. UnitsInv' /\ ReqInv' /\ ThrInv'
    BY Zenon DEF GrantInv, UnitsInv, ReqInv, ThrInv, unitVars, elemVars
  <1>4. MapInv' BY <1>1, FewerGrants, Zenon
  <1>5. ElemInv' /\ SingleUse' /\ SpentByRequester' /\ GcInv'
    BY Zenon DEF GrantInv, ElemInv, SingleUse, SpentByRequester, Elem, elemVars, GcInv, Free
  <1> QED BY <1>2, <1>3, <1>4, <1>5, Zenon DEF GrantInv

LEMMA RestartStep ==
    ASSUME GrantInv, CollectorRestart
    PROVE  GrantInv'
  <1> USE DEF CollectorRestart, elemVars
  <1>1. IdleReq \in ReqState /\ IdleReq.pc = "idle" BY GrantAssumption DEF IdleReq, ReqState
  <1>2. IdleThr \in ThrState /\ IdleThr.pc = "idle" BY GrantAssumption DEF IdleThr, ThrState
  <1>3. elems \in Nat /\ runs \in Nat BY Counts, Zenon
  <1>4. TypeOK'
    <2>1. grant' \in [Cgid -> [Hook -> 0..elems]] BY <1>3
    <2>2. req' \in [Req -> ReqState] /\ thr' \in [Thread -> ThrState] BY <1>1, <1>2, Zenon
    <2>3. run' \in [Agent -> 0..MaxRuns] BY GrantAssumption
    <2>4. /\ cg' \in [Agent -> Cgid \cup {None}]
          /\ phase' \in [Agent -> {"stopped", "prestart", "preset", "running", "stopping", "cleared"}]
      BY Zenon
    <2>5. /\ grantMu' \in Req \cup {None} /\ gcLive' \in (SUBSET Cgid) \cup {None}
          /\ grantSeen' \subseteq Cgid
      BY Zenon
    <2> QED BY <2>1, <2>2, <2>3, <2>4, <2>5, Zenon DEF GrantInv, TypeOK
  <1>5. UnitsInv' /\ GcInv' BY <1>3 DEF UnitsInv, GcInv, Free
  <1>6. ReqInv' BY <1>1, Zenon DEF ReqInv
  <1>7. ThrInv' BY <1>2, Zenon DEF ThrInv
  <1>8. MapInv'
    <2>1. 0 \notin direct BY GrantAssumption DEF GrantInv, TypeOK, Elem
    <2> QED BY <2>1, Zenon DEF MapInv
  <1>9. ElemInv' /\ SingleUse' /\ SpentByRequester'
    BY Zenon DEF GrantInv, ElemInv, SingleUse, SpentByRequester, Elem
  <1> QED BY <1>4, <1>5, <1>6, <1>7, <1>8, <1>9, Zenon DEF GrantInv

-----------------------------------------------------------------------------
LEMMA GrantStep == GrantInv /\ [Next]_vars => GrantInv'
  <1> SUFFICES ASSUME GrantInv, [Next]_vars PROVE GrantInv' BY Zenon
  <1>1. CASE UNCHANGED vars
    <2> USE <1>1 DEF vars, unitVars, elemVars
    <2>1. TypeOK' BY Zenon DEF GrantInv, TypeOK
    <2>2. UnitsInv' /\ ReqInv' /\ ThrInv' BY Zenon DEF GrantInv, UnitsInv, ReqInv, ThrInv
    <2>3. MapInv' BY MapFrame, Zenon DEF GrantInv
    <2>4. ElemInv' /\ SingleUse' /\ SpentByRequester' /\ GcInv'
      BY Zenon DEF GrantInv, ElemInv, SingleUse, SpentByRequester, Elem, GcInv, Free
    <2> QED BY <2>1, <2>2, <2>3, <2>4, Zenon DEF GrantInv
  <1>2. CASE Units BY <1>2, StartStep, ClearStep, ExecStep, StopStep, GoneStep, Zenon DEF Units
  <1>3. CASE Broker
    BY <1>3, AttestedStep, DroppedStep, VerifiedStep, UpdateStep, Zenon DEF Broker
  <1>4. CASE Hooks BY <1>4, LookupStep, CasStep, TidyStep, LapseStep, Zenon DEF Hooks
  <1> QED BY <1>1, <1>2, <1>3, <1>4, ScanStep, PassStep, RestartStep, Zenon DEF Next

\* The grants' state keeps its types, and a straight grant stays keyed by the cgroup
\* of the run that asked for it.
THEOREM GrantInvariant == Spec => []GrantInv
  BY GrantInit, GrantStep, PTL DEF Spec

\* Every state of the grant's life is of its type, for any number of agents,
\* requests and hook threads, with the element counter of the map in its bounds.
THEOREM GrantTypeCorrect == Spec => []TypeOK
  <1>1. GrantInv => TypeOK BY Zenon DEF GrantInv
  <1> QED BY <1>1, GrantInvariant, PTL

\* For any number of racing threads and any sequence of grants, deletes and unit
\* restarts, an approval lets one operation through at most (try_consume_grant).
THEOREM UsedOnce == Spec => []SingleUse
  <1>1. GrantInv => SingleUse BY Zenon DEF GrantInv
  <1> QED BY <1>1, GrantInvariant, PTL

\* A grant that no clear failed to reach is spent by the run that asked for it or by
\* nobody, however the inodes are reused (ctlGrantClearSelf, reverifyCgroup).
THEOREM SpentByItsRun == Spec => []SpentByRequester
  <1>1. GrantInv => SpentByRequester BY Zenon DEF GrantInv
  <1> QED BY <1>1, GrantInvariant, PTL

\* Neither the garbage collector nor another unit's clear takes a grant from a run
\* that goes on: only a hook's tidying delete does (runGCPass, selectGrantPrunes).
THEOREM GrantsStay == Spec => GrantStays
  <1> DEFINE Lost(i, k) == (phase[i] = "running" /\ phase'[i] = "running" /\ grant[cg[i]][k] # 0
                           /\ grant'[cg[i]][k] = 0)
             Tidied(i, k) == \E t \in Thread :
                               thr[t].pc = "delete" /\ thr[t].agent = i /\ thr[t].hook = k
  <1>1. GrantInv /\ [Next]_vars => [\A i \in Agent, k \in Hook : Lost(i, k) => Tidied(i, k)]_vars
    <2> SUFFICES ASSUME GrantInv, [Next]_vars, NEW i \in Agent, NEW k \in Hook, Lost(i, k)
                 PROVE  Tidied(i, k)
      BY Zenon
    <2> DEFINE c == cg[i]
    <2>1. /\ c \in Cgid /\ c # None /\ grant \in [Cgid -> [Hook -> 0..elems]]
          /\ \A j \in Agent : cg[j] = c => j = i
      BY GrantAssumption, Zenon DEF GrantInv, UnitsInv, TypeOK
    <2>2. ASSUME NEW t \in Thread, tidy(t) PROVE Tidied(i, k)
      <3>1. /\ thr[t].pc = "delete" /\ thr[t].agent \in Agent /\ thr[t].hook \in Hook
        BY <2>2, Zenon DEF tidy, GrantInv, ThrInv
      <3>2. cg[thr[t].agent] = c /\ thr[t].hook = k
        BY <2>1, <2>2, <3>1 DEF tidy
      <3> QED BY <2>1, <3>1, <3>2, Zenon
    <2>3. ASSUME NEW r \in Req, updateAny(r) PROVE FALSE
      <3>1. elems + 1 # 0 BY Counts
      <3> QED BY <2>1, <2>3, <3>1 DEF updateAny
    <2>4. CASE runGCPass
      <3>1. c \in gcLive BY <2>4, Zenon DEF runGCPass, GrantInv, GcInv
      <3>2. c \notin selectGrantPrunes BY <3>1, Zenon DEF selectGrantPrunes
      <3> QED BY <2>1, <2>4, <3>2 DEF runGCPass
    <2>5. ASSUME NEW j \in Agent, NEW failed \in BOOLEAN, ctlGrantClearSelf(j, failed) PROVE FALSE
      <3>1. phase[j] \in {"prestart", "stopping"} BY <2>5, Zenon DEF ctlGrantClearSelf
      <3>2. j # i /\ cg[j] # c BY <3>1, <2>1, Zenon
      <3> QED BY <2>1, <2>5, <3>2, Zenon DEF ctlGrantClearSelf, DeleteKeys
    <2>6. CASE CollectorRestart BY <2>6, Zenon DEF CollectorRestart
    <2>7. grant' = grant => FALSE BY <2>1, Zenon
    <2>8. CASE Units
      BY <2>5, <2>7, <2>8, Zenon DEF Units, Start, ExecStart, Stop, Gone
    <2>9. CASE Broker
      BY <2>3, <2>7, <2>9, Zenon DEF Broker, handleGrantOnceTail, refused, reverifyCgroup, updateErr
    <2>10. CASE Hooks
      BY <2>2, <2>7, <2>10, Zenon DEF Hooks, lookup, cas, TTLLapses
    <2>11. CASE gcScan \/ UNCHANGED vars BY <2>7, <2>11, Zenon DEF gcScan, vars
    <2> QED BY <2>4, <2>6, <2>8, <2>9, <2>10, <2>11, Zenon DEF Next
  <1> QED BY <1>1, GrantInvariant, PTL DEF Spec, GrantStays

=============================================================================
