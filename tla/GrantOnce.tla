------------------------------ MODULE GrantOnce ------------------------------
(***************************************************************************)
(* One-shot privilege grants (BPF map grant_once): the broker writes one   *)
(* after operator approval under grantMu (grant.go), racing threads of the *)
(* agent consume it in the E1/E3 hooks without any lock                    *)
(* (provenance.bpf.c), and the collector deletes it under controlMu, for   *)
(* the agent unit's ExecStartPre and ExecStopPost (control.go) and in its  *)
(* garbage collector (gc.go).                                              *)
(*                                                                         *)
(* An update of the kernel's hash map puts a new element in place of the   *)
(* old, so a hook that looked up a value keeps the old one: elements are   *)
(* numbered in the order they are written.  That the kernel does not hand  *)
(* a freed element to another key while a hook still holds it is assumed.  *)
(* Hooks are armed throughout; the approval itself is ApprovalGate's.      *)
(***************************************************************************)
EXTENDS Naturals

CONSTANTS Agent,      \* agent instances
          Cgid,       \* cgroup ids (inodes), handed out again and again
          Hook,       \* the grantable hooks
          Thread,     \* threads, of whichever agent runs them
          Req,        \* broker connections, one request each
          MaxRuns,    \* bound: unit starts
          MaxElem,    \* bound: grants written
          None

ASSUME GrantAssumption == /\ MaxRuns \in Nat /\ MaxElem \in Nat
                          /\ None \notin Cgid \cup Agent \cup Hook

VARIABLES cg, phase, run,  \* each agent's cgroup, its unit's phase and its start's number
          runs,            \* unit starts so far
          grant,           \* grant_once: element per cgroup and hook, 0 for none
          count, lapsed,   \* of each element: its count, and whether its TTL passed
          owner,           \* of each element: the run that asked for it
          direct,          \* elements written while that run was running, and not left
                           \* behind by a failed clear since
          elems,           \* elements written so far
          used, user,      \* of each element: how often it let a hook through, and whose
          req,             \* broker connections and their locals
          thr,             \* threads inside a hook and their locals
          grantMu,         \* the connection that holds it, or None
          gcLive,          \* live set of the pass holding controlMu, or None
          grantSeen        \* gcLoop's witnessed-live cgids

unitVars == <<cg, phase, run, runs>>
elemVars == <<count, lapsed, owner, direct, elems, used, user>>
vars == <<unitVars, grant, elemVars, req, thr, grantMu, gcLive, grantSeen>>

Elem    == 1..MaxElem
IdleReq == [pc |-> "idle", agent |-> None, cgid |-> None, hook |-> None, run |-> 0]
IdleThr == [pc |-> "idle", agent |-> None, hook |-> None, elem |-> 0]

ReqState == [pc : {"idle", "approved", "verified"}, agent : Agent \cup {None},
             cgid : Cgid \cup {None}, hook : Hook \cup {None}, run : 0..MaxRuns]
ThrState == [pc : {"idle", "cas", "delete"}, agent : Agent \cup {None},
             hook : Hook \cup {None}, elem : 0..MaxElem]

Free == gcLive = None      \* controlMu is not held

Init ==
    /\ cg = [i \in Agent |-> None] /\ phase = [i \in Agent |-> "stopped"]
    /\ run = [i \in Agent |-> 0] /\ runs = 0
    /\ grant = [c \in Cgid |-> [k \in Hook |-> 0]]
    /\ count = [e \in Elem |-> 0] /\ lapsed = [e \in Elem |-> FALSE]
    /\ owner = [e \in Elem |-> 0] /\ direct = {} /\ elems = 0
    /\ used = [e \in Elem |-> 0] /\ user = [e \in Elem |-> 0]
    /\ req = [r \in Req |-> IdleReq] /\ thr = [t \in Thread |-> IdleThr]
    /\ grantMu = None /\ gcLive = None /\ grantSeen = {}

-----------------------------------------------------------------------------
(* Agent units                                                             *)

Start(i, c) ==
    /\ phase[i] = "stopped" /\ runs < MaxRuns /\ \A j \in Agent : cg[j] # c
    /\ cg' = [cg EXCEPT ![i] = c] /\ phase' = [phase EXCEPT ![i] = "prestart"]
    /\ runs' = runs + 1 /\ run' = [run EXCEPT ![i] = runs + 1]
    /\ UNCHANGED <<grant, elemVars, req, thr, grantMu, gcLive, grantSeen>>

\* Variant: one hook's key is forgotten.
DeleteOne(c) == \E k \in Hook : grant' = [grant EXCEPT ![c][k] = 0]

\* The keys of every hook of cgroup c.
DeleteKeys(c) == grant' = [grant EXCEPT ![c] = [k \in Hook |-> 0]]

\* grant-clear-self, in ExecStartPre and in ExecStopPost; its failure
\* is ignored.
ctlGrantClearSelf(i, failed) ==
    /\ \/ phase[i] = "prestart" /\ phase' = [phase EXCEPT ![i] = "preset"]
       \/ phase[i] = "stopping" /\ phase' = [phase EXCEPT ![i] = "cleared"]
    /\ IF failed
       THEN direct' = direct \ {grant[cg[i]][k] : k \in Hook} /\ UNCHANGED grant
       ELSE Free /\ DeleteKeys(cg[i]) /\ UNCHANGED direct
    /\ UNCHANGED <<cg, run, runs, count, lapsed, owner, elems, used, user, req, thr, grantMu,
                   gcLive, grantSeen>>

\* egress-set-self under controlMu must succeed before the payload is forked.
ExecStart(i) ==
    /\ phase[i] = "preset" /\ Free
    /\ phase' = [phase EXCEPT ![i] = "running"]
    /\ UNCHANGED <<cg, run, runs, grant, elemVars, req, thr, grantMu, gcLive, grantSeen>>

\* The payload and its threads are gone.
Stop(i) ==
    /\ phase[i] = "running"
    /\ phase' = [phase EXCEPT ![i] = "stopping"]
    /\ thr' = [t \in Thread |-> IF thr[t].agent = i THEN IdleThr ELSE thr[t]]
    /\ UNCHANGED <<cg, run, runs, grant, elemVars, req, grantMu, gcLive, grantSeen>>

Gone(i) ==
    /\ phase[i] = "cleared"
    /\ cg' = [cg EXCEPT ![i] = None] /\ phase' = [phase EXCEPT ![i] = "stopped"]
    /\ run' = [run EXCEPT ![i] = 0]
    /\ UNCHANGED <<runs, grant, elemVars, req, thr, grantMu, gcLive, grantSeen>>

-----------------------------------------------------------------------------
(* Broker                                                                  *)

\* A request is attested, approved and ready to execute.
handleGrantOnceTail(r, i, k) ==
    /\ req[r].pc = "idle" /\ phase[i] = "running"
    /\ req' = [req EXCEPT ![r] = [pc |-> "approved", agent |-> i, cgid |-> cg[i],
                                  hook |-> k, run |-> run[i]]]
    /\ UNCHANGED <<unitVars, grant, elemVars, thr, grantMu, gcLive, grantSeen>>

\* Rejected, timed out, or the reverification fails: nothing is written.
refused(r) ==
    /\ req[r].pc = "approved"
    /\ req' = [req EXCEPT ![r] = IdleReq]
    /\ UNCHANGED <<unitVars, grant, elemVars, thr, grantMu, gcLive, grantSeen>>

\* Lock grantMu; the path must still be the cgroup that asked.
reverifyCgroup(r) ==
    /\ req[r].pc = "approved" /\ grantMu = None
    /\ cg[req[r].agent] = req[r].cgid
    /\ grantMu' = r
    /\ req' = [req EXCEPT ![r].pc = "verified"]
    /\ UNCHANGED <<unitVars, grant, elemVars, thr, gcLive, grantSeen>>

\* Update(key, {Count: 1, ExpireNs}, UpdateAny), unlock.
updateAny(r) ==
    /\ req[r].pc = "verified" /\ elems < MaxElem
    /\ LET q == req[r]
           e == elems + 1 IN
       /\ elems' = e
       /\ grant' = [grant EXCEPT ![q.cgid][q.hook] = e]
       /\ count' = [count EXCEPT ![e] = 1]
       /\ owner' = [owner EXCEPT ![e] = q.run]
       /\ direct' = IF phase[q.agent] = "running" /\ run[q.agent] = q.run
                    THEN direct \cup {e} ELSE direct
    /\ req' = [req EXCEPT ![r] = IdleReq] /\ grantMu' = None
    /\ UNCHANGED <<unitVars, lapsed, used, user, thr, gcLive, grantSeen>>

\* The update fails (the map is full): nothing is written, unlock.
updateErr(r) ==
    /\ req[r].pc = "verified"
    /\ req' = [req EXCEPT ![r] = IdleReq] /\ grantMu' = None
    /\ UNCHANGED <<unitVars, grant, elemVars, thr, gcLive, grantSeen>>

-----------------------------------------------------------------------------
(* Hooks: try_consume_grant, on the armed would-deny path                  *)

\* Look the key up and check its TTL; a miss is the normal deny.
lookup(t, i, k) ==
    /\ thr[t].pc = "idle" /\ phase[i] = "running"
    /\ LET e == grant[cg[i]][k] IN
       /\ e # 0 /\ ~lapsed[e]
       /\ thr' = [thr EXCEPT ![t] = [pc |-> "cas", agent |-> i, hook |-> k, elem |-> e]]
    /\ UNCHANGED <<unitVars, grant, elemVars, req, grantMu, gcLive, grantSeen>>

\* Variant: the count that was looked up is trusted.
casStale(t) ==
    /\ thr[t].pc = "cas"
    /\ LET e == thr[t].elem IN
       /\ count' = [count EXCEPT ![e] = 0]
       /\ used' = [used EXCEPT ![e] = @ + 1]
       /\ user' = [user EXCEPT ![e] = run[thr[t].agent]]
       /\ thr' = [thr EXCEPT ![t].pc = "delete"]
    /\ UNCHANGED <<unitVars, grant, lapsed, owner, direct, elems, req, grantMu, gcLive, grantSeen>>

\* CMPXCHG(count, 1, 0): the winner goes on to delete, a loser is denied.
cas(t) ==
    /\ thr[t].pc = "cas"
    /\ LET e == thr[t].elem IN
       IF count[e] = 1
       THEN /\ count' = [count EXCEPT ![e] = 0]
            /\ used' = [used EXCEPT ![e] = @ + 1]
            /\ user' = [user EXCEPT ![e] = run[thr[t].agent]]
            /\ thr' = [thr EXCEPT ![t].pc = "delete"]
       ELSE thr' = [thr EXCEPT ![t] = IdleThr] /\ UNCHANGED <<count, used, user>>
    /\ UNCHANGED <<unitVars, grant, lapsed, owner, direct, elems, req, grantMu, gcLive, grantSeen>>

\* The tidying delete, by key: it may hit a newer grant.
tidy(t) ==
    /\ thr[t].pc = "delete"
    /\ grant' = [grant EXCEPT ![cg[thr[t].agent]][thr[t].hook] = 0]
    /\ thr' = [thr EXCEPT ![t] = IdleThr]
    /\ UNCHANGED <<unitVars, elemVars, req, grantMu, gcLive, grantSeen>>

TTLLapses(e) ==
    /\ e <= elems /\ ~lapsed[e]
    /\ lapsed' = [lapsed EXCEPT ![e] = TRUE]
    /\ UNCHANGED <<unitVars, grant, count, owner, direct, elems, used, user, req, thr, grantMu,
                   gcLive, grantSeen>>

-----------------------------------------------------------------------------
(* Garbage collector                                                       *)

Keyed == {c \in Cgid : \E k \in Hook : grant[c][k] # 0}
Live  == {cg[i] : i \in Agent} \ {None}

\* Lock controlMu and scan the agent slices.
gcScan ==
    /\ Free
    /\ gcLive' = Live
    /\ UNCHANGED <<unitVars, grant, elemVars, req, thr, grantMu, grantSeen>>

\* Variant: witnessed once, and not asked whether live now.
pruneWitnessed == Keyed \cap grantSeen

\* Keys of cgids that are not live and were once witnessed live.
selectGrantPrunes == (Keyed \ gcLive) \cap grantSeen

\* Iterate, select, delete, unlock.
runGCPass ==
    /\ ~Free
    /\ grantSeen' = grantSeen \cup (Keyed \cap gcLive)
    /\ grant' = [c \in Cgid |-> [k \in Hook |-> IF c \in selectGrantPrunes THEN 0 ELSE grant[c][k]]]
    /\ gcLive' = None
    /\ UNCHANGED <<unitVars, elemVars, req, thr, grantMu>>

\* The collector restarts: pinned maps are wiped, agents and broker go down with it.
CollectorRestart ==
    /\ cg' = [i \in Agent |-> None] /\ phase' = [i \in Agent |-> "stopped"]
    /\ run' = [i \in Agent |-> 0]
    /\ grant' = [c \in Cgid |-> [k \in Hook |-> 0]]
    /\ req' = [r \in Req |-> IdleReq] /\ thr' = [t \in Thread |-> IdleThr]
    /\ grantMu' = None /\ gcLive' = None /\ grantSeen' = {}
    /\ UNCHANGED <<runs, elemVars>>

Units == \E i \in Agent : \/ \E c \in Cgid : Start(i, c)
                          \/ \E failed \in BOOLEAN : ctlGrantClearSelf(i, failed)
                          \/ ExecStart(i) \/ Stop(i) \/ Gone(i)
Broker == \E r \in Req : \/ \E i \in Agent, k \in Hook : handleGrantOnceTail(r, i, k)
                         \/ refused(r) \/ reverifyCgroup(r) \/ updateAny(r) \/ updateErr(r)
Hooks == \/ \E t \in Thread : \/ \E i \in Agent, k \in Hook : lookup(t, i, k)
                              \/ cas(t) \/ tidy(t)
         \/ \E e \in Elem : TTLLapses(e)

Next == Units \/ Broker \/ Hooks \/ gcScan \/ runGCPass \/ CollectorRestart

Spec == Init /\ [][Next]_vars

-----------------------------------------------------------------------------
(* Properties                                                              *)

\* Type invariant.
TypeOK ==
    /\ cg \in [Agent -> Cgid \cup {None}]
    /\ phase \in [Agent -> {"stopped", "prestart", "preset", "running", "stopping", "cleared"}]
    /\ run \in [Agent -> 0..MaxRuns] /\ runs \in 0..MaxRuns
    /\ grant \in [Cgid -> [Hook -> 0..elems]]
    /\ count \in [Elem -> {0, 1}] /\ lapsed \in [Elem -> BOOLEAN]
    /\ owner \in [Elem -> 0..MaxRuns] /\ direct \subseteq Elem /\ elems \in 0..MaxElem
    /\ used \in [Elem -> Nat] /\ user \in [Elem -> 0..MaxRuns]
    /\ req \in [Req -> ReqState] /\ thr \in [Thread -> ThrState]
    /\ grantMu \in Req \cup {None} /\ gcLive \in (SUBSET Cgid) \cup {None}
    /\ grantSeen \subseteq Cgid

\* An approval lets one operation through at most, however many threads race for
\* it and however it is granted again, deleted and looked up meanwhile
\* (try_consume_grant's CAS against UpdateAny and the deletes by key).
SingleUse == \A e \in Elem : used[e] <= 1 /\ (count[e] = 1 => used[e] = 0)

\* A grant written while the agent that asked was running, and that every clear
\* since has reached, is spent by that same run of it or by nobody: not by its
\* successor, nor by another agent on the same inode.
SpentByRequester == \A e \in direct : used[e] > 0 => user[e] = owner[e]

\* While the run that was granted it goes on, nothing but a hook's own tidying
\* delete takes a grant from it: neither the garbage collector, with its stale
\* live set and its memory of reused inodes, nor another unit's clear.
GrantStays ==
    [][\A i \in Agent, k \in Hook :
         (phase[i] = "running" /\ phase'[i] = "running" /\ grant[cg[i]][k] # 0
            /\ grant'[cg[i]][k] = 0)
         => \E t \in Thread : thr[t].pc = "delete" /\ thr[t].agent = i /\ thr[t].hook = k]_vars

=============================================================================
