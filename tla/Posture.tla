------------------------------ MODULE Posture ------------------------------
(***************************************************************************)
(* The TCB set and the enforcement posture: the broker's registration in   *)
(* tcb_cgroups and its reconciliation by the garbage collector (gc.go),    *)
(* arming and disarming (control.go), and the three verbs that judge the   *)
(* result (attest.go): ATTEST-GATE, ATTEST-EXTEND and ATTEST-SELFCHECK.    *)
(*                                                                         *)
(* A control connection is a goroutine of the collector: it goes on when   *)
(* its client has died.  Everything here is one boot of the machine.  The  *)
(* collector's binary and keys do not change, so a digest is the posture   *)
(* it was composed of; all that is kept of it is whether it is the one a   *)
(* default-armed boot extends.  A quote is the PCR's value.                *)
(***************************************************************************)
EXTENDS Naturals, Sequences, FiniteSets

CONSTANTS Cgid,   \* cgroup ids (inodes) the broker's unit may be given
          Conn,   \* control connections
          Hooks,  \* hooks in the order of their ids, "bpf" and "connect" among them
          None

Verb == {"register", "set", "gate", "extend", "selfcheck"}

ASSUME PostureAssumption ==
    None \notin Conn \cup Cgid \cup Verb /\ "gc" \notin Conn \cup {None}

root == "root"
coll == "collector"
ASSUME CgidAssumption == {root, coll} \cap Cgid = {}

Hook  == {Hooks[i] : i \in DOMAIN Hooks}
ASSUME HooksAssumption == Hooks \in Seq(Hook) /\ {"bpf", "connect"} \subseteq Hook

VARIABLES collector,        \* "loaded": maps are pinned, the socket is not bound; "serving"
          tcb_cgroups,
          enforce_flags,    \* armed hooks
          broker, bcg,      \* the broker's phase, and the inode at brokerCgroupPath
          bconn,            \* the connection whose answer the broker awaits
          conn,             \* control connections and their locals
          gc, keep,         \* phase and keep-set of the pass under way
          controlMu, tpmMu, \* holders
          pcr,              \* of each digest extended into attestPCR, whether it is the
                            \* default-armed one
          everArmed,        \* history: the default-armed posture was real at some instant
          doomed            \* history: ids stale since before the pass under way

maps  == <<tcb_cgroups, enforce_flags>>
world == <<collector, broker, bcg, bconn>>
gcs   == <<gc, keep>>
vars  == <<world, maps, conn, gcs, controlMu, tpmMu, pcr, everArmed, doomed>>

expectedTCBCount == 3

\* Two digests are equal when the postures they were composed of are.
composeDigest(flags, live, clean) == [flags |-> flags, count |-> Cardinality(live), clean |-> clean]
expectedDefaultArmedD == [flags |-> {"bpf", "connect"}, count |-> expectedTCBCount, clean |-> TRUE]

Idle == [verb |-> None, pc |-> "idle", hook |-> None, on |-> FALSE, bid |-> None, todo |-> <<>>,
         flags |-> {}, live |-> {}, good |-> FALSE, reply |-> None]

\* The connection ends; of the answers, the OK of a gate is remembered.
Done(k, ok) ==
    conn' = [conn EXCEPT ![k] = IF ok /\ conn[k].verb \in {"gate", "selfcheck"}
                                THEN [Idle EXCEPT !.reply = conn[k].verb] ELSE Idle]

\* The true membership, as of now.
Expected(ids) == ids \cup ({bcg} \ {None})

\* The default-armed posture holds now.
Armed == /\ enforce_flags = {"bpf", "connect"} /\ bcg # None
         /\ tcb_cgroups = {root, coll, bcg}

Init ==
    /\ collector = "loaded" /\ tcb_cgroups = {root, coll} /\ enforce_flags = {}
    /\ broker = "stopped" /\ bcg = None /\ bconn = None
    /\ conn = [k \in Conn |-> Idle]
    /\ gc = "idle" /\ keep = {} /\ controlMu = None /\ tpmMu = None
    /\ pcr = <<>> /\ everArmed = FALSE /\ doomed = {}

-----------------------------------------------------------------------------
(* Processes                                                               *)

\* runCollector's last steps: the broker is registered if its cgroup exists (an
\* update that fails is only logged), and the control socket is bound.
runCollector ==
    /\ collector = "loaded"
    /\ collector' = "serving"
    /\ \E b \in SUBSET ({bcg} \ {None}) : tcb_cgroups' = tcb_cgroups \cup b
    /\ UNCHANGED <<enforce_flags, broker, bcg, bconn, conn, gcs, controlMu, tpmMu, pcr>>

\* The collector starts again: pinned maps are wiped, its goroutines are gone and
\* the units that are PartOf it stop.
CollectorRestart ==
    /\ collector' = "loaded" /\ tcb_cgroups' = {root, coll} /\ enforce_flags' = {}
    /\ broker' = "stopped" /\ bcg' = None /\ bconn' = None
    /\ conn' = [k \in Conn |-> Idle] /\ gc' = "idle" /\ keep' = {}
    /\ controlMu' = None /\ tpmMu' = None
    /\ UNCHANGED pcr

BrokerStart(c) ==
    /\ broker = "stopped"
    /\ broker' = "started" /\ bcg' = c
    /\ UNCHANGED <<collector, maps, bconn, conn, gcs, controlMu, tpmMu, pcr>>

\* It crashes or is stopped, at any point; its cgroup is removed.
BrokerStop ==
    /\ broker # "stopped"
    /\ broker' = "stopped" /\ bcg' = None /\ bconn' = None
    /\ UNCHANGED <<collector, maps, conn, gcs, controlMu, tpmMu, pcr>>

-----------------------------------------------------------------------------
(* Requests, and the locks                                                 *)

Ask(k, c) ==
    /\ collector = "serving" /\ conn[k].pc = "idle"
    /\ conn' = [conn EXCEPT ![k] = c]

\* The broker asks to be registered before it serves, and again when refused.
brokerRegisterTCB(k) ==
    /\ broker = "started" /\ bconn = None
    /\ Ask(k, [Idle EXCEPT !.verb = "register", !.pc = "stat"]) /\ bconn' = k
    /\ UNCHANGED <<collector, broker, bcg, maps, gcs, controlMu, tpmMu, pcr>>

\* The enforce units and the operator's switch.
cmdEnforce(k, h, on) ==
    /\ Ask(k, [Idle EXCEPT !.verb = "set", !.pc = "lock", !.hook = h, !.on = on])
    /\ UNCHANGED <<world, maps, gcs, controlMu, tpmMu, pcr>>

cmdAttest(k, verb) ==
    /\ Ask(k, [Idle EXCEPT !.verb = verb, !.pc = "lock",
                           !.todo = IF verb = "gate" THEN <<"bpf", "connect">> ELSE Hooks])
    /\ UNCHANGED <<world, maps, gcs, controlMu, tpmMu, pcr>>

\* Variant: the posture verbs read without the lock.
lockUpdates(k) ==
    /\ conn[k].pc = "lock"
    /\ IF conn[k].verb \in {"register", "set"}
       THEN controlMu = None /\ controlMu' = k ELSE UNCHANGED controlMu
    /\ conn' = [conn EXCEPT ![k].pc = IF conn[k].verb \in {"register", "set"}
                                      THEN "update" ELSE "read"]
    /\ UNCHANGED <<world, maps, gcs, tpmMu, pcr>>

lockControl(k) ==
    /\ conn[k].pc = "lock" /\ controlMu = None
    /\ controlMu' = k
    /\ conn' = [conn EXCEPT ![k].pc = IF conn[k].verb \in {"register", "set"}
                                      THEN "update" ELSE "read"]
    /\ UNCHANGED <<world, maps, gcs, tpmMu, pcr>>

-----------------------------------------------------------------------------
(* TCB-REGISTER-BROKER and ENFORCE-SET                                     *)

\* The broker serves once its request is answered with OK.
Answer(k, ok) ==
    /\ Done(k, ok)
    /\ bconn' = IF bconn = k THEN None ELSE bconn
    /\ broker' = IF bconn = k /\ ok THEN "serving" ELSE broker

\* cgroupIDFromInode(brokerCgroupPath), before any lock.
statBroker(k) ==
    /\ conn[k].pc = "stat"
    /\ IF bcg = None
       THEN Answer(k, FALSE)
       ELSE conn' = [conn EXCEPT ![k].bid = bcg, ![k].pc = "lock"] /\ UNCHANGED <<bconn, broker>>
    /\ UNCHANGED <<collector, bcg, maps, gcs, controlMu, tpmMu, pcr>>

\* The map update, the control record and the answer; unlock.
ctlTcbRegisterBroker(k) ==
    /\ conn[k].pc = "update" /\ conn[k].verb = "register"
    /\ tcb_cgroups' = tcb_cgroups \cup {conn[k].bid}
    /\ Answer(k, TRUE) /\ controlMu' = None
    /\ UNCHANGED <<collector, bcg, enforce_flags, gcs, tpmMu, pcr>>

ctlEnforceSet(k) ==
    /\ conn[k].pc = "update" /\ conn[k].verb = "set"
    /\ enforce_flags' = IF conn[k].on THEN enforce_flags \cup {conn[k].hook}
                                      ELSE enforce_flags \ {conn[k].hook}
    /\ Answer(k, TRUE) /\ controlMu' = None
    /\ UNCHANGED <<collector, bcg, tcb_cgroups, gcs, tpmMu, pcr>>

\* Variant: the early return does not unlock.
updateErrLocked(k) ==
    /\ conn[k].pc = "update"
    /\ Answer(k, FALSE) /\ UNCHANGED controlMu
    /\ UNCHANGED <<collector, bcg, maps, gcs, tpmMu, pcr>>

\* The map cannot be opened, or the update fails.
updateErr(k) ==
    /\ conn[k].pc = "update"
    /\ Answer(k, FALSE) /\ controlMu' = None
    /\ UNCHANGED <<collector, bcg, maps, gcs, tpmMu, pcr>>

-----------------------------------------------------------------------------
(* attest.go                                                               *)

\* A map cannot be opened: enforce_flags before the lock, tcb_cgroups under it.
attestErr(k) ==
    /\ conn[k].verb \in {"gate", "extend", "selfcheck"}
    /\ conn[k].pc = "lock" \/ (conn[k].pc = "read" /\ conn[k].todo = <<>>)
    /\ Done(k, FALSE) /\ controlMu' = IF controlMu = k THEN None ELSE controlMu
    /\ UNCHANGED <<world, maps, gcs, tpmMu, pcr>>

\* One enforce_flags lookup, of the next hook in id order.
readFlag(k) ==
    /\ conn[k].pc = "read" /\ conn[k].todo # <<>>
    /\ LET h == Head(conn[k].todo) IN
       conn' = [conn EXCEPT ![k].todo = Tail(@), ![k].flags = @ \cup ({h} \cap enforce_flags)]
    /\ UNCHANGED <<world, maps, gcs, controlMu, tpmMu, pcr>>

\* tcbMembershipState iterates the map ...
iterateTcb(k) ==
    /\ conn[k].pc = "read" /\ conn[k].todo = <<>>
    /\ conn' = [conn EXCEPT ![k].pc = "member", ![k].live = tcb_cgroups]
    /\ UNCHANGED <<world, maps, gcs, controlMu, tpmMu, pcr>>

posturePass(flags, live, clean) ==
    {"bpf", "connect"} \subseteq flags /\ clean /\ Cardinality(live) = expectedTCBCount

\* ... and then stats the cgroups it expects, some of which it may fail to
\* resolve; unlock.  The gate answers, a digest is composed of what was read.
tcbMembershipState(k) ==
    /\ conn[k].pc = "member"
    /\ \E ids \in SUBSET {root, coll} :
         LET c == conn[k]
             clean == c.live = Expected(ids) IN
         IF c.verb = "gate" THEN Done(k, posturePass(c.flags, c.live, clean))
         ELSE conn' = [conn EXCEPT ![k] = [Idle EXCEPT !.verb = c.verb, !.pc = "tpm",
                                                       !.good = composeDigest(c.flags, c.live, clean) = expectedDefaultArmedD]]
    /\ controlMu' = IF controlMu = k THEN None ELSE controlMu
    /\ UNCHANGED <<world, maps, gcs, tpmMu, pcr>>

\* Variant: the TPM is used without the lock.
openTpmUnlocked(k) ==
    /\ conn[k].pc = "tpm"
    /\ conn' = [conn EXCEPT ![k].pc = "opened"]
    /\ UNCHANGED <<world, maps, gcs, controlMu, tpmMu, pcr>>

lockTpm(k) ==
    /\ conn[k].pc = "tpm" /\ tpmMu = None
    /\ tpmMu' = k
    /\ conn' = [conn EXCEPT ![k].pc = "opened"]
    /\ UNCHANGED <<world, maps, gcs, controlMu, pcr>>

unlockTpm(k) == tpmMu' = IF tpmMu = k THEN None ELSE tpmMu

\* The device cannot be opened, or a command fails for good.
tpmErr(k) ==
    /\ conn[k].pc \in {"opened", "zero"}
    /\ Done(k, FALSE) /\ unlockTpm(k)
    /\ UNCHANGED <<world, maps, gcs, controlMu, pcr>>

\* A PCR that is not zero was extended before: answer without extending.
readAttestPCR(k) ==
    /\ conn[k].pc = "opened" /\ conn[k].verb = "extend"
    /\ IF pcr = <<>> THEN conn' = [conn EXCEPT ![k].pc = "zero"] /\ UNCHANGED tpmMu
                     ELSE Done(k, TRUE) /\ unlockTpm(k)
    /\ UNCHANGED <<world, maps, gcs, controlMu, pcr>>

doAttestExtend(k) ==
    /\ conn[k].pc = "zero"
    /\ pcr' = Append(pcr, conn[k].good)
    /\ Done(k, TRUE) /\ unlockTpm(k)
    /\ UNCHANGED <<world, maps, gcs, controlMu>>

\* Quote the PCR and compare it with one extend of the expected digest; the
\* posture read on the way is not compared.
doAttestSelfCheck(k) ==
    /\ conn[k].pc = "opened" /\ conn[k].verb = "selfcheck"
    /\ Done(k, pcr = <<TRUE>>) /\ unlockTpm(k)
    /\ UNCHANGED <<world, maps, gcs, controlMu, pcr>>

-----------------------------------------------------------------------------
(* gcLoop: reconcileTCB under controlMu                                    *)

gcLock ==
    /\ collector = "serving" /\ gc = "idle" /\ controlMu = None
    /\ controlMu' = "gc" /\ gc' = "ensure"
    /\ UNCHANGED <<world, maps, conn, keep, tpmMu, pcr>>

\* Variant: an unresolved keep-set prunes all the same.
reconcileBlind(ids) ==
    /\ gc = "ensure"
    /\ keep' = Expected(ids) /\ gc' = "prune"
    /\ tcb_cgroups' = tcb_cgroups \cup ({bcg} \ {None})
    /\ UNCHANGED <<world, enforce_flags, conn, controlMu, tpmMu, pcr>>

\* Resolve root and the collector; give up if that fails.  Keep the live broker,
\* and put it in if it is not there (an update that fails is only logged).
reconcileTCB(ids) ==
    /\ gc = "ensure"
    /\ IF Cardinality(ids) < 2
       THEN gc' = "idle" /\ controlMu' = None /\ UNCHANGED <<keep, tcb_cgroups>>
       ELSE /\ keep' = Expected(ids) /\ gc' = "prune" /\ UNCHANGED controlMu
            /\ \E b \in SUBSET ({bcg} \ {None}) : tcb_cgroups' = tcb_cgroups \cup b
    /\ UNCHANGED <<world, enforce_flags, conn, tpmMu, pcr>>

\* Variant: the pass stops at the first stranger.
gcPruneOne ==
    /\ gc = "prune"
    /\ \/ tcb_cgroups \subseteq keep /\ UNCHANGED tcb_cgroups
       \/ \E c \in tcb_cgroups \ keep : tcb_cgroups' = tcb_cgroups \ {c}
    /\ gc' = "idle" /\ keep' = {} /\ controlMu' = None
    /\ UNCHANGED <<world, enforce_flags, conn, tpmMu, pcr>>

\* Delete the strangers (the delete of a key that is there succeeds); unlock.
gcPrune ==
    /\ gc = "prune"
    /\ tcb_cgroups' = tcb_cgroups \cap keep
    /\ gc' = "idle" /\ keep' = {} /\ controlMu' = None
    /\ UNCHANGED <<world, enforce_flags, conn, tpmMu, pcr>>

-----------------------------------------------------------------------------
Clients(k) ==
    \/ brokerRegisterTCB(k)
    \/ \E h \in Hook, on \in BOOLEAN : cmdEnforce(k, h, on)
    \/ \E verb \in {"gate", "extend", "selfcheck"} : cmdAttest(k, verb)

Runs(k) ==
    \/ lockControl(k) \/ lockTpm(k)
    \/ statBroker(k) \/ ctlTcbRegisterBroker(k) \/ ctlEnforceSet(k) \/ updateErr(k)
    \/ readFlag(k) \/ iterateTcb(k) \/ attestErr(k) \/ tcbMembershipState(k)
    \/ readAttestPCR(k) \/ doAttestExtend(k) \/ doAttestSelfCheck(k) \/ tpmErr(k)

Step == \/ runCollector \/ CollectorRestart \/ BrokerStop \/ (\E c \in Cgid : BrokerStart(c))
        \/ gcLock \/ (\E ids \in SUBSET {root, coll} : reconcileTCB(ids)) \/ gcPrune
        \/ \E k \in Conn : Clients(k) \/ Runs(k)

History ==
    /\ everArmed' = (everArmed \/ Armed')
    /\ doomed' = CASE gc' = "idle" -> {}
                   [] gc = "idle" /\ gc' # "idle" -> tcb_cgroups \ Expected({root, coll})
                   [] OTHER -> doomed \ {bcg'}

Next == Step /\ History

Spec == Init /\ [][Next]_vars

-----------------------------------------------------------------------------
(* Properties                                                              *)

\* Type invariant.
TypeOK ==
    /\ collector \in {"loaded", "serving"}
    /\ tcb_cgroups \subseteq {root, coll} \cup Cgid /\ enforce_flags \subseteq Hook
    /\ broker \in {"stopped", "started", "serving"} /\ bcg \in Cgid \cup {None}
    /\ bconn \in Conn \cup {None}
    /\ \A k \in Conn : conn[k].pc \in {"idle", "stat", "lock", "update", "read", "member",
                                       "tpm", "opened", "zero"}
    /\ gc \in {"idle", "ensure", "prune"} /\ keep \subseteq {root, coll} \cup Cgid
    /\ everArmed \in BOOLEAN

\* A held mutex has a holder inside its section, where no step waits for the other
\* mutex: whatever fails, the requests and the pass cannot block one another for
\* good (every early return of the handlers; tpmMu and controlMu never nest).
HolderInside ==
    /\ \A k \in Conn : /\ controlMu = k => conn[k].pc \in {"update", "read", "member"}
                       /\ tpmMu = k => conn[k].pc \in {"opened", "zero"}
    /\ controlMu = "gc" => gc # "idle"

\* Root and the collector never leave tcb_cgroups, whatever a pass could not
\* resolve, so the collector's writes survive an armed E0; and a broker that
\* serves is a member, however E0 was armed and whichever inodes its earlier
\* lives left behind (cmdBroker, reconcileTCB).
ServedFromTCB ==
    /\ {root, coll} \subseteq tcb_cgroups
    /\ broker = "serving" => bcg \in tcb_cgroups

\* The gate says OK only in a posture that is real at that instant, and not one
\* put together from reads of different ones: E0 and E2 armed, exactly root, the
\* collector and the live broker in the TCB set.
GateOKIsReal ==
    [][\A k \in Conn : conn[k].pc = "member" /\ conn'[k].reply = "gate"
         => /\ {"bpf", "connect"} \subseteq enforce_flags /\ bcg # None
            /\ tcb_cgroups = {root, coll, bcg}]_vars

\* The PCR is extended once per boot at most, however many extends race, and the
\* self-check passes only on a boot whose posture was once the default-armed one:
\* neither a boot that never armed nor a digest of torn reads can pass it.
BootMeasured ==
    /\ Len(pcr) <= 1
    /\ \A k \in Conn : conn[k].reply = "selfcheck" => everArmed

\* An id that was no longer the broker's when a pass began does not survive the
\* pass, unless it becomes the broker's again meanwhile (reconcileTCB's bound on
\* how long a reused inode stays exempt).
PassEvictsStale == [][gc = "prune" /\ gc' = "idle" => doomed \cap tcb_cgroups' = {}]_vars

=============================================================================
