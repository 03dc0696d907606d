--------------------------- MODULE EgressAuthority ---------------------------
(***************************************************************************)
(* The per-agent egress manifests (BPF map egress_policy) and everything   *)
(* that writes them, in two processes with two different locks:            *)
(*                                                                         *)
(*   collector   EGRESS-SET-SELF / EGRESS-CLEAR-SELF from the agent unit's *)
(*               ExecStartPre / ExecStopPost, and the garbage collector,   *)
(*               all under controlMu (control.go, gc.go);                  *)
(*   broker      EXPAND and DELEGATE after operator approval, and operator *)
(*               NARROW, under egressMu and launchMu (broker.go,           *)
(*               narrow.go).                                               *)
(*                                                                         *)
(* Around them systemd creates and removes agent cgroups.  A cgroup id is  *)
(* its directory's inode number, which may be handed to a later cgroup     *)
(* when Recycle holds.  The approval gate itself is module ApprovalGate;   *)
(* here a gated request is simply approved or rejected after any delay.    *)
(***************************************************************************)
EXTENDS Naturals, FiniteSets

CONSTANTS Top,        \* operator-launched agent instances
          Minted,     \* instance names the broker may mint for children
          Cgid,       \* cgroup ids (directory inodes)
          Class,      \* destination classes, one mask bit each
          Conn,       \* broker connections, each serving one request
          Launch,     \* BULKHEAD_AGENT_EGRESS of each Top instance
          Ceiling,    \* expandCeiling
          MaxDepth,   \* maxDelegateDepth
          PolicyMax,  \* max_entries of egress_policy
          Recycle,    \* may an inode be given to a second cgroup?
          MaxStarts,  \* bound: number of cgroups ever created
          None        \* no cgroup, no manifest, no holder, no record

Inst == Top \cup Minted
Mask == SUBSET Class

ASSUME SetsAssumption == /\ Top \cap Minted = {}
                         /\ None \notin Cgid \cup Conn \cup Inst
                         /\ \A s \in Mask \cup SUBSET Cgid : s # None
ASSUME LaunchAssumption == Launch \in [Top -> Mask] /\ Ceiling \in Mask
ASSUME BoundsAssumption == /\ MaxDepth \in Nat /\ PolicyMax \in Nat /\ MaxStarts \in Nat
                           /\ Recycle \in BOOLEAN

VARIABLES cg,         \* the live cgroup of each instance, or None
          phase,      \* its unit: stopped, prestart, running, stopping
          inc,        \* which start of any unit this incarnation was
          env,        \* the manifest the unit's drop-in configures
          gen,        \* delegation generation in the instance name
          par,        \* the incarnation a child was delegated by
          starts,     \* cgroups created so far
          used,       \* cgroup ids handed out so far
          policy,     \* egress_policy: manifest per cgroup id, or None
          ctl,        \* control-socket calls the collector has attested
          controlMu,  \* "free" or "gc": the one multi-step holder
          gcLive,     \* liveAgentCgids of the pass under way, or None
          seen,       \* gcLoop's witnessed-live set
          h,          \* broker connection handlers and their locals
          egressMu, launchMu

unitVars   == <<cg, phase, inc, env, gen, par, starts, used>>
gcVars     == <<controlMu, gcLive, seen>>
brokerVars == <<h, egressMu, launchMu>>
vars == <<unitVars, policy, ctl, gcVars, brokerVars>>

PCs == {"idle", "gate", "approved", "launching", "verified", "computed",
        "snapshot", "starting", "applied", "failed", "noop", "done", "dead"}

\* Handler positions at which the attested cgroup id is being acted on now.
Executing == {"verified", "computed"}

IdleConn == [pc |-> "idle", kind |-> None, inst |-> None, cgid |-> None,
             inc |-> 0, req |-> {}, mask |-> None, child |-> None,
             reply |-> "none", unrecorded |-> None]

ConnState ==
    [pc : PCs, kind : {None, "expand", "delegate", "narrow"},
     inst : Inst \cup {None}, cgid : Cgid \cup {None}, inc : Nat, req : Mask,
     mask : {None} \cup Mask, child : Minted \cup {None},
     reply : {"none", "OK", "ERR", "ERR audit"},
     unrecorded : {None, "expand", "delegate", "narrow"}]

CtlCall == [verb : {"set", "clear"}, inst : Inst, cgid : Cgid, mask : Mask]

Init ==
    /\ cg = [i \in Inst |-> None]
    /\ phase = [i \in Inst |-> "stopped"]
    /\ inc = [i \in Inst |-> 0]
    /\ env = [i \in Inst |-> IF i \in Top THEN Launch[i] ELSE {}]
    /\ gen = [i \in Inst |-> 0]
    /\ par = [i \in Inst |-> [inst |-> None, inc |-> 0]]
    /\ starts = 0
    /\ used = {}
    /\ policy = [c \in Cgid |-> None]
    /\ ctl = {}
    /\ controlMu = "free"
    /\ gcLive = None
    /\ seen = {}
    /\ h = [k \in Conn |-> IdleConn]
    /\ egressMu = None
    /\ launchMu = None

\* A handler whose process dies; an effect it had applied stays applied.
Killed(k) == IF h[k].pc \in {"idle", "done", "dead"} THEN h[k]
             ELSE [IdleConn EXCEPT !.pc = "dead", !.unrecorded = h[k].unrecorded]

-----------------------------------------------------------------------------
(* Agent units: systemd and bulkhead-agent@.service                        *)

LiveCgids == {cg[i] : i \in Inst} \ {None}

\* An inode can be handed out when no live cgroup has it.  A handler that has
\* attested an id and is executing on it is taken to finish before the inode
\* is reused; a request parked in the approval gate is not.
Free(c) ==
    /\ c \notin LiveCgids
    /\ \A r \in ctl : r.cgid # c
    /\ \A k \in Conn : h[k].pc \in Executing => h[k].cgid # c
    /\ Recycle \/ c \notin used

\* systemd creates the cgroup and forks the ExecStartPre that asks the
\* collector for EGRESS-SET-SELF with the drop-in's classes.
StartUnit(i, c, m) ==
    /\ phase[i] = "stopped"
    /\ starts < MaxStarts
    /\ Free(c)
    /\ cg' = [cg EXCEPT ![i] = c]
    /\ phase' = [phase EXCEPT ![i] = "prestart"]
    /\ inc' = [inc EXCEPT ![i] = starts + 1]
    /\ starts' = starts + 1
    /\ used' = used \cup {c}
    /\ ctl' = ctl \cup {[verb |-> "set", inst |-> i, cgid |-> c, mask |-> m]}

OperatorStart(i, c) ==
    /\ StartUnit(i, c, env[i])
    /\ UNCHANGED <<env, gen, par, policy, gcVars, brokerVars>>

\* A stop runs ExecStopPost in the cgroup: EGRESS-CLEAR-SELF.
StopUnit(i) ==
    /\ phase[i] = "running"
    /\ phase' = [phase EXCEPT ![i] = "stopping"]
    /\ ctl' = ctl \cup {[verb |-> "clear", inst |-> i, cgid |-> cg[i], mask |-> {}]}
    /\ UNCHANGED <<cg, inc, env, gen, par, starts, used, policy, gcVars, brokerVars>>

\* The cgroup goes away: the stop finished, or a crash or a kill cut the unit
\* short at any point.  A call already attested stays with the collector.
UnitGone(i) ==
    /\ phase[i] # "stopped"
    /\ cg' = [cg EXCEPT ![i] = None]
    /\ phase' = [phase EXCEPT ![i] = "stopped"]
    /\ UNCHANGED <<inc, env, gen, par, starts, used, policy, ctl, gcVars, brokerVars>>

-----------------------------------------------------------------------------
(* The collector: control verbs and garbage collection                     *)

Entries == {c \in Cgid : policy[c] # None}

\* UpdateAny fails only when the map is full and the key is new.
CanInsert(c) == policy[c] # None \/ Cardinality(Entries) < PolicyMax

\* ctlEgressSetSelf: write the attested caller's manifest.  ExecStartPre then
\* exits 0 and systemd forks the payload, unless the unit died meanwhile.
ctlEgressSetSelf(r) ==
    /\ r.verb = "set"
    /\ controlMu = "free"
    /\ CanInsert(r.cgid)
    /\ policy' = [policy EXCEPT ![r.cgid] = r.mask]
    /\ phase' = IF cg[r.inst] = r.cgid
                THEN [phase EXCEPT ![r.inst] = "running"] ELSE phase
    /\ ctl' = ctl \ {r}
    /\ UNCHANGED <<cg, inc, env, gen, par, starts, used, gcVars, brokerVars>>

\* The update fails, the ExecStartPre exits non-zero, the payload never forks
\* and systemd runs ExecStopPost.
ctlEgressSetSelfErr(r) ==
    /\ r.verb = "set"
    /\ controlMu = "free"
    /\ ~CanInsert(r.cgid)
    /\ IF cg[r.inst] = r.cgid
       THEN /\ phase' = [phase EXCEPT ![r.inst] = "stopping"]
            /\ ctl' = (ctl \ {r}) \cup {[r EXCEPT !.verb = "clear", !.mask = {}]}
       ELSE phase' = phase /\ ctl' = ctl \ {r}
    /\ UNCHANGED <<cg, inc, env, gen, par, starts, used, policy, gcVars, brokerVars>>

ctlEgressClearSelf(r) ==
    /\ r.verb = "clear"
    /\ controlMu = "free"
    /\ policy' = [policy EXCEPT ![r.cgid] = None]
    /\ ctl' = ctl \ {r}
    /\ UNCHANGED <<unitVars, gcVars, brokerVars>>

\* Variant: the snapshot is taken before the lock (the defect R10 repaired).
GCScanOutsideLock ==
    /\ gcLive = None
    /\ gcLive' = LiveCgids
    /\ UNCHANGED <<unitVars, policy, ctl, controlMu, seen, brokerVars>>

\* A gcLoop tick: lock, then snapshot the live agent cgroups.
GCScan ==
    /\ gcLive = None
    /\ controlMu = "free"
    /\ controlMu' = "gc"
    /\ gcLive' = LiveCgids
    /\ UNCHANGED <<unitVars, policy, ctl, seen, brokerVars>>

\* Variant: the witnessed set does not survive from pass to pass.
PrunesFreshSeen == {c \in Entries : c \notin gcLive /\ c \in Entries \cap gcLive}

\* selectEgressPrunes: dead in the snapshot and witnessed live before.
Prunes == {c \in Entries : c \notin gcLive /\ c \in seen}

\* runGCPass deletes them, seen grows by the live entries, unlock.
GCPrune ==
    /\ gcLive # None
    /\ policy' = [c \in Cgid |-> IF c \in Prunes THEN None ELSE policy[c]]
    /\ seen' = seen \cup (Entries \cap gcLive)
    /\ gcLive' = None
    /\ controlMu' = "free"
    /\ UNCHANGED <<unitVars, ctl, brokerVars>>

\* runCollector starts afresh: systemd has stopped the units that Require it
\* and the broker that is PartOf it, and RemoveAll wipes every pinned map.
CollectorRestart ==
    /\ cg' = [i \in Inst |-> None]
    /\ phase' = [i \in Inst |-> "stopped"]
    /\ policy' = [c \in Cgid |-> None]
    /\ ctl' = {}
    /\ controlMu' = "free"
    /\ gcLive' = None
    /\ seen' = {}
    /\ h' = [k \in Conn |-> Killed(k)]
    /\ egressMu' = None
    /\ launchMu' = None
    /\ UNCHANGED <<inc, env, gen, par, starts, used>>

-----------------------------------------------------------------------------
(* The broker: EXPAND and DELEGATE through the gate, NARROW directly        *)

expandMask(cur, req, ceiling) == cur \cup (req \cap ceiling)
narrowMask(cur, req) == cur \ req

Goto(k, pc) == h' = [h EXCEPT ![k].pc = pc]
Applied(k) == h' = [h EXCEPT ![k].pc = "applied", ![k].unrecorded = h[k].kind]
Finish(k, reply, unrecorded) ==
    h' = [h EXCEPT ![k] = [IdleConn EXCEPT !.pc = "done", !.reply = reply,
                                           !.unrecorded = unrecorded]]

\* The connection now acts on the cgroup the kernel attested for instance i.
Attested(k, i, kind, req, child, pc) ==
    [h[k] EXCEPT !.pc = pc, !.kind = kind, !.inst = i, !.cgid = cg[i],
                 !.inc = inc[i], !.req = req, !.child = child]

\* Variant: without the refusal of delegated children (the defect R2 repaired).
expandForDelegated(k, i, req) ==
    /\ h[k].pc = "idle"
    /\ phase[i] = "running"
    /\ policy[cg[i]] # None
    /\ expandMask(policy[cg[i]], req, Ceiling) # policy[cg[i]]
    /\ h' = [h EXCEPT ![k] = Attested(k, i, "expand", req, None, "gate")]
    /\ UNCHANGED <<unitVars, policy, ctl, gcVars, egressMu, launchMu>>

\* handleExpandTail up to the gate.  A delegated child, an agent without a
\* manifest and a request that adds nothing are answered at once: no state change.
handleExpandTail(k, i, req) ==
    /\ h[k].pc = "idle"
    /\ phase[i] = "running"
    /\ gen[i] = 0
    /\ policy[cg[i]] # None
    /\ expandMask(policy[cg[i]], req, Ceiling) # policy[cg[i]]
    /\ h' = [h EXCEPT ![k] = Attested(k, i, "expand", req, None, "gate")]
    /\ UNCHANGED <<unitVars, policy, ctl, gcVars, egressMu, launchMu>>

\* handleDelegateTail up to the gate; a request past the depth cap or from an
\* agent without a manifest is refused.  m is the freshly minted child name.
handleDelegateTail(k, i, req, m) ==
    /\ h[k].pc = "idle"
    /\ phase[i] = "running"
    /\ gen[i] + 1 <= MaxDepth
    /\ policy[cg[i]] # None
    /\ gen[m] = 0 /\ \A j \in Conn : h[j].child # m
    /\ h' = [h EXCEPT ![k] = Attested(k, i, "delegate", req, m, "gate")]
    /\ UNCHANGED <<unitVars, policy, ctl, gcVars, egressMu, launchMu>>

\* finishGated after approve: the operator allowed it ...
approve(k) ==
    /\ h[k].pc = "gate"
    /\ Goto(k, "approved")
    /\ UNCHANGED <<unitVars, policy, ctl, gcVars, egressMu, launchMu>>

\* ... or it was denied, timed out or found the queue full.
reject(k) ==
    /\ h[k].pc = "gate"
    /\ Finish(k, "ERR", None)
    /\ UNCHANGED <<unitVars, policy, ctl, gcVars, egressMu, launchMu>>

\* handleNarrow: the target is resolved before egressMu is taken; a target that
\* is not running is refused.
handleNarrow(k, i, req) ==
    /\ h[k].pc = "idle"
    /\ cg[i] # None
    /\ h' = [h EXCEPT ![k] = Attested(k, i, "narrow", req, None, "approved")]
    /\ UNCHANGED <<unitVars, policy, ctl, gcVars, egressMu, launchMu>>

\* DELEGATE's executor first queues for the one PID-1 operation at a time.
lockLaunch(k) ==
    /\ h[k].pc = "approved" /\ h[k].kind = "delegate"
    /\ launchMu = None
    /\ launchMu' = k
    /\ Goto(k, "launching")
    /\ UNCHANGED <<unitVars, policy, ctl, gcVars, egressMu>>

\* Leaving an executor: NARROW records before its deferred unlock, EXPAND and
\* DELEGATE return first and record outside their locks.
Leave(k) ==
    /\ egressMu' = IF h[k].kind = "narrow" THEN k ELSE None
    /\ launchMu' = IF h[k].kind = "delegate" THEN None ELSE launchMu

\* Variants: the path is not looked at again; egressMu is not waited for.
trustAttested(k) ==
    /\ h[k].pc = IF h[k].kind = "delegate" THEN "launching" ELSE "approved"
    /\ egressMu = None
    /\ Goto(k, "verified") /\ egressMu' = k /\ launchMu' = launchMu
    /\ UNCHANGED <<unitVars, policy, ctl, gcVars>>

reverifyUnlocked(k) ==
    /\ h[k].pc = IF h[k].kind = "delegate" THEN "launching" ELSE "approved"
    /\ IF cg[h[k].inst] = h[k].cgid
       THEN Goto(k, "verified") /\ egressMu' = k /\ launchMu' = launchMu
       ELSE Goto(k, "failed") /\ Leave(k)
    /\ UNCHANGED <<unitVars, policy, ctl, gcVars>>

\* Take egressMu and reverifyCgroup: the path must still have the attested id.
reverifyCgroup(k) ==
    /\ h[k].pc = IF h[k].kind = "delegate" THEN "launching" ELSE "approved"
    /\ egressMu = None
    /\ IF cg[h[k].inst] = h[k].cgid
       THEN Goto(k, "verified") /\ egressMu' = k /\ launchMu' = launchMu
       ELSE Goto(k, "failed") /\ Leave(k)
    /\ UNCHANGED <<unitVars, policy, ctl, gcVars>>

\* Look the live mask up and derive the new one from it.
lookupEgressMask(k) ==
    /\ h[k].pc = "verified"
    /\ LET live == policy[h[k].cgid]
           expand == expandMask(live, h[k].req, Ceiling)
           narrow == narrowMask(live, h[k].req)
           got(pc, m) == h' = [h EXCEPT ![k].pc = pc, ![k].mask = m]
       IN \/ /\ live = None
             /\ Goto(k, "failed") /\ Leave(k)
          \/ /\ live # None /\ h[k].kind = "expand"
             /\ got("computed", expand) /\ UNCHANGED <<egressMu, launchMu>>
          \/ /\ live # None /\ h[k].kind = "narrow"
             /\ got(IF narrow = live THEN "noop" ELSE "computed", narrow)
             /\ UNCHANGED <<egressMu, launchMu>>
          \/ /\ live # None /\ h[k].kind = "delegate"
             /\ got("snapshot", live \cap h[k].req)
             /\ egressMu' = None /\ launchMu' = launchMu
    /\ UNCHANGED <<unitVars, policy, ctl, gcVars>>

\* m.Update(cgID, final, UpdateExist): never creates a key.
updateExist(k) ==
    /\ h[k].pc = "computed"
    /\ IF policy[h[k].cgid] = None
       THEN Goto(k, "failed") /\ policy' = policy
       ELSE Applied(k) /\ policy' = [policy EXCEPT ![h[k].cgid] = h[k].mask]
    /\ Leave(k)
    /\ UNCHANGED <<unitVars, ctl, gcVars>>

\* launchChild: the drop-in carries the snapshot mask, systemctl start blocks.
launchChild(k, c) ==
    /\ h[k].pc = "snapshot"
    /\ LET m == h[k].child IN
       /\ StartUnit(m, c, h[k].mask)
       /\ env' = [env EXCEPT ![m] = h[k].mask]
       /\ gen' = [gen EXCEPT ![m] = gen[h[k].inst] + 1]
       /\ par' = [par EXCEPT ![m] = [inst |-> h[k].inst, inc |-> h[k].inc]]
    /\ Goto(k, "starting")
    /\ UNCHANGED <<policy, gcVars, egressMu, launchMu>>

\* A file write, the daemon-reload or the start job itself fails.
launchChildErr(k) ==
    /\ h[k].pc = "snapshot"
    /\ Goto(k, "failed")
    /\ launchMu' = None
    /\ UNCHANGED <<unitVars, policy, ctl, gcVars, egressMu>>

\* Variant: only a running child ends the wait.
startReturnedRunning(k) ==
    /\ h[k].pc = "starting"
    /\ phase[h[k].child] = "running"
    /\ Applied(k)
    /\ launchMu' = None
    /\ UNCHANGED <<unitVars, policy, ctl, gcVars, egressMu>>

\* systemctl start returns once the payload was forked or the start failed.  A
\* unit already gone may have run first, so either answer is possible then.
startReturned(k) ==
    /\ h[k].pc = "starting"
    /\ phase[h[k].child] # "prestart"
    /\ \/ Applied(k)
       \/ phase[h[k].child] # "running" /\ Goto(k, "failed")
    /\ launchMu' = None
    /\ UNCHANGED <<unitVars, policy, ctl, gcVars, egressMu>>

\* Variant: a failed append is only logged, whatever it was to record.
recordLogsFailure(k, appended) ==
    /\ h[k].pc \in {"applied", "noop", "failed"}
    /\ Finish(k, IF h[k].pc = "failed" THEN "ERR" ELSE "OK",
              IF appended THEN None ELSE h[k].unrecorded)
    /\ egressMu' = IF egressMu = k THEN None ELSE egressMu
    /\ UNCHANGED <<unitVars, policy, ctl, gcVars, launchMu>>

\* recordDecision / recordNarrow and the reply.  An effect whose record cannot
\* be appended is answered "ERR audit", never OK; a failed append of an error
\* record is only logged.
record(k, appended) ==
    /\ h[k].pc \in {"applied", "noop", "failed"}
    /\ CASE h[k].pc = "failed" -> Finish(k, "ERR", None)
         [] h[k].pc # "failed" /\ appended -> Finish(k, "OK", None)
         [] h[k].pc # "failed" /\ ~appended -> Finish(k, "ERR audit", h[k].unrecorded)
    /\ egressMu' = IF egressMu = k THEN None ELSE egressMu
    /\ UNCHANGED <<unitVars, policy, ctl, gcVars, launchMu>>

\* The broker process dies and is restarted; its goroutines and locks are gone,
\* a child that systemd was already starting is not.
BrokerCrash ==
    /\ h' = [k \in Conn |-> Killed(k)]
    /\ egressMu' = None
    /\ launchMu' = None
    /\ UNCHANGED <<unitVars, policy, ctl, gcVars>>

-----------------------------------------------------------------------------
Units == \E i \in Inst : \/ \E c \in Cgid : i \in Top /\ OperatorStart(i, c)
                        \/ StopUnit(i) \/ UnitGone(i)

Collector == \/ \E r \in ctl : \/ ctlEgressSetSelf(r) \/ ctlEgressSetSelfErr(r)
                              \/ ctlEgressClearSelf(r)
             \/ GCScan \/ GCPrune \/ CollectorRestart

\* Steps a handler takes by itself once its request is decided.
HandlerStep(k) ==
    \/ lockLaunch(k) \/ reverifyCgroup(k) \/ lookupEgressMask(k) \/ updateExist(k)
    \/ \E c \in Cgid : launchChild(k, c)
    \/ launchChildErr(k) \/ startReturned(k)
    \/ \E appended \in BOOLEAN : record(k, appended)

Requests(k) ==
    \E i \in Inst, req \in Mask :
        \/ handleExpandTail(k, i, req) \/ handleNarrow(k, i, req)
        \/ \E m \in Minted : handleDelegateTail(k, i, req, m)

Broker == \/ \E k \in Conn : \/ Requests(k) \/ approve(k) \/ reject(k) \/ HandlerStep(k)
          \/ BrokerCrash

Next == Units \/ Collector \/ Broker

Spec == Init /\ [][Next]_vars

CtlStep == \E r \in ctl : \/ ctlEgressSetSelf(r) \/ ctlEgressSetSelfErr(r)
                          \/ ctlEgressClearSelf(r)

\* A goroutine that can run does; the approval timer fires; the GC ticker ticks;
\* Go's mutex does not starve a control call behind the GC for ever.
HandlerFairness ==
    /\ \A k \in Conn : WF_vars(HandlerStep(k)) /\ WF_vars(reject(k))
    /\ SF_vars(CtlStep)

FairSpec == Spec /\ HandlerFairness /\ WF_vars(GCScan \/ GCPrune)

-----------------------------------------------------------------------------
(* Properties                                                              *)

\* Type invariant; the generation bound is the delegation depth cap.
TypeOK ==
    /\ cg \in [Inst -> Cgid \cup {None}]
    /\ phase \in [Inst -> {"stopped", "prestart", "running", "stopping"}]
    /\ inc \in [Inst -> Nat]
    /\ env \in [Inst -> Mask]
    /\ gen \in [Inst -> 0..MaxDepth]
    /\ par \in [Inst -> [inst : Inst \cup {None}, inc : Nat]]
    /\ starts \in Nat
    /\ used \subseteq Cgid
    /\ policy \in [Cgid -> {None} \cup Mask]
    /\ ctl \subseteq CtlCall
    /\ controlMu \in {"free", "gc"}
    /\ gcLive \in {None} \cup SUBSET Cgid
    /\ seen \subseteq Cgid
    /\ h \in [Conn -> ConnState]
    /\ egressMu \in Conn \cup {None}
    /\ launchMu \in Conn \cup {None}

\* "The agent never runs UNRESTRICTED": while a payload runs, its cgroup has a
\* manifest, whatever the garbage collector, late clears, crashes and recycled
\* inodes do (bulkhead-agent@.service; gcLoop's scan under controlMu).
RunningRestricted == \A i \in Inst : phase[i] = "running" => policy[cg[i]] # None

\* Agent i runs throughout this step, as the same incarnation.
SameRun(i) == /\ phase[i] = "running" /\ phase'[i] = "running" /\ inc'[i] = inc[i]
              /\ policy[cg[i]] # None /\ policy'[cg[i]] # None

\* Connection k's request of this kind is applied to incarnation inc[i] of i now.
Applies(k, kind, i) == /\ h[k].pc = "computed" /\ h'[k].pc = "applied"
                       /\ h[k].kind = kind /\ h[k].inst = i /\ h[k].inc = inc[i]

\* A running agent gains a class only by an approved EXPAND of its own that names
\* a class under the ceiling, and loses one only by a NARROW that names it: a
\* narrow racing an expand is never lost and never undone (egressMu).
EditsAreAuthorised ==
    [][\A i \in Inst : SameRun(i) =>
         LET old == policy[cg[i]]
             new == policy'[cg[i]] IN
         /\ \A x \in new \ old : \E k \in Conn : /\ Applies(k, "expand", i)
                                               /\ x \in h[k].req \cap Ceiling
         /\ \A x \in old \ new : \E k \in Conn : /\ Applies(k, "narrow", i)
                                               /\ x \in h[k].req]_vars

\* Delegation only narrows: a running child never holds more than the drop-in it
\* was launched with, and that drop-in never exceeds what its parent could hold.
AuthorityConfined ==
    /\ \A i \in Inst : phase[i] = "running" /\ policy[cg[i]] # None =>
          policy[cg[i]] \subseteq env[i] \cup (IF i \in Top THEN Ceiling ELSE {})
    /\ \A m \in Minted : gen[m] > 0 =>
          /\ par[m].inst \in Inst
          /\ env[m] \subseteq env[par[m].inst] \cup
                             (IF par[m].inst \in Top THEN Ceiling ELSE {})

\* An approved EXPAND never widens another instance than the one that asked,
\* however long it sat in the gate and whoever got its inode since (F1,
\* reverifyCgroup).
WidensOnlyRequester ==
    [][\A k \in Conn :
         h[k].kind = "expand" /\ h[k].pc = "computed" /\ h'[k].pc = "applied" =>
           \A j \in Inst : phase[j] = "running" /\ cg[j] = h[k].cgid => j = h[k].inst]_vars

\* Nobody is told OK about a change the signed chain does not have: an effect whose
\* record is missing has no answer yet, was answered "ERR audit", or its broker died
\* (F7; finishGated and handleNarrow).
OKIsRecorded ==
    \A k \in Conn : h[k].unrecorded # None =>
        h[k].pc \in {"applied", "dead"} \/ (h[k].pc = "done" /\ h[k].reply = "ERR audit")

\* Nobody waits for ever on a lock: egressMu is held only by a handler between its
\* re-verification and its edit (NARROW: up to its record), which waits for no lock,
\* and launchMu only by a DELEGATE that waits for nothing but egressMu.  So the two
\* cannot be waited for in a cycle, and neither survives its handler or a crash
\* (broker.go's lock order, the deferred unlocks).
LocksReleased ==
    /\ egressMu # None =>
          \/ h[egressMu].pc \in {"verified", "computed"}
          \/ h[egressMu].kind = "narrow" /\ h[egressMu].pc \in {"applied", "noop", "failed"}
    /\ launchMu # None =>
          /\ h[launchMu].kind = "delegate"
          /\ h[launchMu].pc \in {"launching", "verified", "snapshot", "starting"}

\* Every request is answered (or dies with the broker): no lock order, launch or
\* full map leaves a handler waiting for ever.
RequestsAnswered ==
    \A k \in Conn : h[k].pc # "idle" ~> h[k].pc \in {"done", "dead"}

\* The garbage collector reclaims the entry of a dead agent it has once seen live.
WitnessedReclaimed ==
    \A c \in Cgid : c \in seen /\ policy[c] # None /\ c \notin LiveCgids
                      ~> policy[c] = None \/ c \in LiveCgids

=============================================================================
