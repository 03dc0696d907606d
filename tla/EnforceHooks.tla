---------------------------- MODULE EnforceHooks ----------------------------
(***************************************************************************)
(* The five BPF-LSM hooks (provenance.bpf.c), run by threads of any cgroup *)
(* while the collector and the broker rewrite the maps they look up.       *)
(*                                                                         *)
(* A call is a sequence of lookups, each in a step of its own; no lock     *)
(* covers it.  grant_once is reduced to the keys that hold a live grant    *)
(* (lookup, CAS and tidying delete are GrantOnce's), and an event is its   *)
(* decision and mode.  Values other than 1 are never written to            *)
(* tcb_cgroups.                                                            *)
(***************************************************************************)
EXTENDS DestClass

CONSTANTS Cgroup,    \* cgroup ids
          Thread,    \* threads that call hooks
          Manifest,  \* masks an egress manifest may have
          Dest,      \* sockaddrs that are connected to
          Cap,       \* capabilities
          None

ASSUME HooksAssumption == /\ Manifest \subseteq SUBSET DST /\ \A m \in SUBSET DST : m # None
                          /\ Dest \subseteq Sockaddr

Hook      == {"bpf", "ptrace", "connect", "setuid", "capset"}
GainHook  == {"setuid", "capset"}
Grantable == {"ptrace", "setuid", "capset"}
EPERM     == -1
EACCES    == -13   \* a deny of an LSM that ran before

VARIABLES tcb_cgroups,    \* members
          egress_policy,  \* mask per cgroup, None for no manifest
          enforce_flags,  \* armed hooks
          grant_once,     \* <<cgroup, hook>> that hold an unspent grant
          thr             \* each thread's call and its locals; block and was are
                          \* history, for the properties

maps == <<tcb_cgroups, egress_policy, enforce_flags, grant_once>>
vars == <<maps, thr>>

Idle == [pc |-> "idle", cg |-> None, hook |-> None, ret |-> 0, gain |-> FALSE, cls |-> None, block |-> None,
         verdict |-> 0, won |-> FALSE, log |-> {}, dropped |-> FALSE, was |-> {}]

\* A call logs one event at most; dropped says that the ring was full.
Event == [decision : {0, 1}, mode : {0, 1}]
Fact  == {"tcb", "stranger", "armed", "observe", "granted", "ungranted", "outside", "within"}

CallState == [pc : {"idle", "tcb", "policy", "flag", "grant", "done"},
              cg : Cgroup \cup {None}, hook : Hook \cup {None}, ret : {0, EACCES}, gain : BOOLEAN,
              cls : DST \cup {None}, block : DST \cup {None}, verdict : {0, EPERM, EACCES},
              won : BOOLEAN, log : SUBSET Event, dropped : BOOLEAN, was : SUBSET Fact]

-----------------------------------------------------------------------------
(* History, for the properties only: what held at some instant of a call.  *)

Facts(c, tcb, pol, flags, grants) ==
    {IF c.cg \in tcb THEN "tcb" ELSE "stranger",
     IF c.hook \in flags THEN "armed" ELSE "observe",
     IF <<c.cg, c.hook>> \in grants THEN "granted" ELSE "ungranted"}
    \cup (IF c.hook # "connect" THEN {}
          ELSE {IF pol[c.cg] # None /\ c.block \notin pol[c.cg] THEN "outside" ELSE "within"})

\* The calls under way see the maps as they are after this step.
Witness(calls) ==
    thr' = [t \in Thread |->
              IF calls[t].pc \in {"idle", "done"} THEN calls[t]
              ELSE [calls[t] EXCEPT !.was = @ \cup
                      Facts(calls[t], tcb_cgroups', egress_policy', enforce_flags', grant_once')]]

Init ==
    /\ tcb_cgroups \in SUBSET Cgroup
    /\ egress_policy = [c \in Cgroup |-> None]
    /\ enforce_flags = {} /\ grant_once = {}
    /\ thr = [t \in Thread |-> Idle]

-----------------------------------------------------------------------------
(* Calls                                                                   *)

\* bpf_probe_read_kernel fails: the local keeps its default.
Read(v, dflt) == IF v = None THEN dflt ELSE v

setuidGain(new, old) == Read(new, 1) = 0 /\ Read(old, 1) # 0

capsetGain(new, old) == \E s \in {"e", "p", "i"} : Read(new[s], {}) \ Read(old[s], {}) # {}

Euid == {None, 0, 1}
Caps == [{"e", "p", "i"} -> {None} \cup SUBSET Cap]

\* The step that follows a prior deny, or a change that raises nothing, is the return.
Enter(t, c) ==
    /\ thr[t].pc = "idle"
    /\ LET pc == IF c.ret # 0 \/ (c.hook \in GainHook /\ ~c.gain) THEN "done" ELSE "tcb"
           call == [c EXCEPT !.pc = pc, !.verdict = c.ret] IN
       thr' = [thr EXCEPT ![t] = [call EXCEPT !.was =
                 Facts(call, tcb_cgroups, egress_policy, enforce_flags, grant_once)]]
    /\ UNCHANGED maps

enforce_bpf(t, cg, ret)    == Enter(t, [Idle EXCEPT !.cg = cg, !.hook = "bpf", !.ret = ret])
enforce_ptrace(t, cg, ret) == Enter(t, [Idle EXCEPT !.cg = cg, !.hook = "ptrace", !.ret = ret])

prov_socket_connect(t, cg, ret) ==
    \E d \in {[cls |-> classify_dest(s), block |-> RefClass(s)] : s \in Dest} :
        Enter(t, [Idle EXCEPT !.cg = cg, !.hook = "connect", !.ret = ret,
                              !.cls = d.cls, !.block = d.block])

enforce_setuid(t, cg, ret) ==
    \E gain \in {g \in BOOLEAN : \E new, old \in Euid : g = setuidGain(new, old)} :
        Enter(t, [Idle EXCEPT !.cg = cg, !.hook = "setuid", !.ret = ret, !.gain = gain])

enforce_capset(t, cg, ret) ==
    \E gain \in {g \in BOOLEAN : \E new, old \in Caps : g = capsetGain(new, old)} :
        Enter(t, [Idle EXCEPT !.cg = cg, !.hook = "capset", !.ret = ret, !.gain = gain])

\* log_decision, and the program's return value; a full ring drops the event.
Finish(t, verdict, decision, mode) ==
    \E full \in BOOLEAN :
        thr' = [thr EXCEPT ![t] = [@ EXCEPT !.pc = "done", !.verdict = verdict, !.dropped = full,
                  !.log = IF full THEN {} ELSE {[decision |-> decision, mode |-> mode]}]]

lookupTcb(t) ==
    /\ thr[t].pc = "tcb"
    /\ LET c == thr[t] IN
       IF c.hook = "connect"
       THEN IF c.cg \in tcb_cgroups THEN Finish(t, 0, 0, 0)
            ELSE thr' = [thr EXCEPT ![t].pc = "policy"]
       ELSE thr' = [thr EXCEPT ![t].pc = IF c.cg \in tcb_cgroups THEN "done" ELSE "flag"]
    /\ UNCHANGED maps

\* Variant: no manifest means nothing is allowed.
lookupPolicyClosed(t) ==
    /\ thr[t].pc = "policy"
    /\ LET m == egress_policy[thr[t].cg] IN
       IF m = None \/ thr[t].cls \notin m THEN thr' = [thr EXCEPT ![t].pc = "flag"]
                                          ELSE Finish(t, 0, 0, 0)
    /\ UNCHANGED maps

lookupPolicy(t) ==
    /\ thr[t].pc = "policy"
    /\ LET m == egress_policy[thr[t].cg] IN
       IF m # None /\ thr[t].cls \notin m THEN thr' = [thr EXCEPT ![t].pc = "flag"]
                                          ELSE Finish(t, 0, 0, 0)
    /\ UNCHANGED maps

\* Variant: a grant is spent although the hook only observes.
lookupFlagSpends(t) ==
    /\ thr[t].pc = "flag"
    /\ LET c == thr[t] IN
       IF c.hook \in enforce_flags \/ <<c.cg, c.hook>> \in grant_once
       THEN IF c.hook \in Grantable THEN thr' = [thr EXCEPT ![t].pc = "grant"]
                                    ELSE Finish(t, EPERM, 1, 1)
       ELSE Finish(t, 0, IF c.hook \in {"bpf", "ptrace"} THEN 0 ELSE 1, 0)
    /\ UNCHANGED maps

\* Observing, the action is allowed and logged: the shared verdict logs decision
\* 0, the connect and gain hooks 1.
lookupFlag(t) ==
    /\ thr[t].pc = "flag"
    /\ LET c == thr[t] IN
       IF c.hook \in enforce_flags
       THEN IF c.hook \in Grantable THEN thr' = [thr EXCEPT ![t].pc = "grant"]
                                    ELSE Finish(t, EPERM, 1, 1)
       ELSE Finish(t, 0, IF c.hook \in {"bpf", "ptrace"} THEN 0 ELSE 1, 0)
    /\ UNCHANGED maps

\* The winner of the grant is allowed; without one the deny stands.
try_consume_grant(t) ==
    /\ thr[t].pc = "grant"
    /\ LET key == <<thr[t].cg, thr[t].hook>> IN
       IF key \in grant_once
       THEN /\ grant_once' = grant_once \ {key}
            /\ UNCHANGED <<tcb_cgroups, egress_policy, enforce_flags>>
            /\ \E full \in BOOLEAN :
                 Witness([thr EXCEPT ![t] = [@ EXCEPT !.pc = "done", !.won = TRUE, !.dropped = full,
                            !.log = IF full THEN {} ELSE {[decision |-> 0, mode |-> 1]}]])
       ELSE Finish(t, EPERM, 1, 1) /\ UNCHANGED maps

Return(t) ==
    /\ thr[t].pc = "done"
    /\ thr' = [thr EXCEPT ![t] = Idle]
    /\ UNCHANGED maps

Call(t) ==
    \E cg \in Cgroup, ret \in {0, EACCES} :
        \/ enforce_bpf(t, cg, ret) \/ enforce_ptrace(t, cg, ret) \/ prov_socket_connect(t, cg, ret)
        \/ enforce_setuid(t, cg, ret) \/ enforce_capset(t, cg, ret)

-----------------------------------------------------------------------------
(* Userspace: one map write at a time, at any moment.                      *)

UpdateTcb(c) ==
    /\ \/ tcb_cgroups' = tcb_cgroups \cup {c}
       \/ tcb_cgroups' = tcb_cgroups \ {c}
    /\ UNCHANGED <<egress_policy, enforce_flags, grant_once>> /\ Witness(thr)

UpdatePolicy(c) ==
    /\ \E m \in Manifest \cup {None} : egress_policy' = [egress_policy EXCEPT ![c] = m]
    /\ UNCHANGED <<tcb_cgroups, enforce_flags, grant_once>> /\ Witness(thr)

ctlEnforceSet(h) ==
    /\ \/ enforce_flags' = enforce_flags \cup {h}
       \/ enforce_flags' = enforce_flags \ {h}
    /\ UNCHANGED <<tcb_cgroups, egress_policy, grant_once>> /\ Witness(thr)

UpdateGrant(c, h) ==
    /\ \/ grant_once' = grant_once \cup {<<c, h>>}
       \/ grant_once' = grant_once \ {<<c, h>>}
    /\ UNCHANGED <<tcb_cgroups, egress_policy, enforce_flags>> /\ Witness(thr)

Writes == \/ \E c \in Cgroup : UpdateTcb(c) \/ UpdatePolicy(c)
          \/ \E h \in Hook : ctlEnforceSet(h)
          \/ \E c \in Cgroup, h \in Grantable : UpdateGrant(c, h)

Steps(t) == lookupTcb(t) \/ lookupPolicy(t) \/ lookupFlag(t) \/ try_consume_grant(t) \/ Return(t)

Next == Writes \/ \E t \in Thread : Call(t) \/ Steps(t)

Spec == Init /\ [][Next]_vars

-----------------------------------------------------------------------------
(* Properties                                                              *)

\* Type invariant.
TypeOK ==
    /\ tcb_cgroups \subseteq Cgroup /\ enforce_flags \subseteq Hook
    /\ egress_policy \in [Cgroup -> Manifest \cup {None}]
    /\ grant_once \subseteq Cgroup \X Grantable
    /\ thr \in [Thread -> CallState]

\* The conditions of a finished call's verdict, and of its event.
Justified(c) ==
    /\ c.ret # 0 => c.verdict = c.ret
    /\ c.verdict = EPERM =>
         /\ {"stranger", "armed"} \subseteq c.was /\ ~c.won
         /\ c.hook = "connect" => "outside" \in c.was
         /\ c.hook \in GainHook => c.gain
         /\ c.hook \in Grantable => "ungranted" \in c.was
    /\ c.verdict = 0 =>
         \/ c.won \/ c.was \cap {"tcb", "observe", "within"} # {}
         \/ c.hook \in GainHook /\ ~c.gain

Told(c) ==
    /\ \A e \in c.log : /\ (e.mode = 1 /\ e.decision = 1) <=> c.verdict = EPERM
                       /\ (e.mode = 1 /\ e.decision = 0) <=> c.won
    /\ c.verdict = EPERM => c.log # {} \/ c.dropped
    /\ c.hook = "connect" /\ c.ret = 0 => c.log # {} \/ c.dropped

\* Whatever is rewritten during a call, each condition of its verdict held at some
\* instant of it: a deny met a stranger to the TCB, an armed hook, a destination
\* outside the manifest and no grant; an allow met a reason to allow.  With no
\* write during the call this is the decision table of the hooks' comments
\* (fail-open, TCB exempt, prior denies kept, drops of privilege free).
VerdictJustified == \A t \in Thread : thr[t].pc = "done" => Justified(thr[t])

\* A one-shot grant is spent only to turn an armed deny of a stranger's gain or
\* ptrace into an allow: not by the TCB, by an observing hook, by a drop of
\* privilege or by bpf(), which no grant can relax.
SpentToAvertDeny ==
    [][\A k \in grant_once \ grant_once' :
         \/ \E c \in Cgroup, h \in Grantable : k = <<c, h>> /\ UpdateGrant(c, h)
         \/ \E t \in Thread : LET c == thr'[t] IN
              /\ thr[t].pc = "grant" /\ c.pc = "done" /\ k = <<c.cg, c.hook>>
              /\ c.verdict = 0 /\ c.won /\ {"stranger", "armed", "granted"} \subseteq c.was
              /\ (c.hook = "ptrace" \/ c.gain)]_vars

\* The event of a call tells its verdict: enforce-mode events say denied exactly
\* when the caller got EPERM, and allowed exactly when a grant was burned for it;
\* an observe-mode event never belongs to a denied call.  Every deny of these
\* hooks leaves an event unless the ring was full.
EventTellsVerdict == \A t \in Thread : thr[t].pc = "done" => Told(thr[t])

\* The class a hook computes from a sockaddr's memory is that of the address
\* block it lies in: short sockaddrs, unspecified and IPv4-mapped addresses
\* included.
ClassAgrees == \A t \in Thread : thr[t].cls = thr[t].block

=============================================================================
