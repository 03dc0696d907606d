---------------------------- MODULE ApprovalGate ----------------------------
(***************************************************************************)
(* The broker's human approval gate (broker.go: approve, register,         *)
(* resolve, handleApprove).  A request goroutine registers in the pending  *)
(* table, arms a timer and blocks on its own one-slot channel; the         *)
(* operator's ALLOW/DENY and the timer race to resolve it.  resolve takes  *)
(* the entry out and sets the verdict under pendMu, and sends afterwards.  *)
(***************************************************************************)
EXTENDS Naturals, FiniteSets

CONSTANTS Req,            \* gated requests, one goroutine each
          Cgid,           \* requester cgroups: the flood key
          CgOf,           \* the requester of each request
          MaxPending,     \* maxPending
          MaxPendingPar,  \* maxPendingPar
          MaxRestarts,    \* bound: broker restarts
          None            \* an empty slot

ASSUME GateAssumption ==
    /\ IsFiniteSet(Req)
    /\ CgOf \in [Req -> Cgid]
    /\ MaxPending \in Nat /\ MaxPendingPar \in Nat /\ MaxRestarts \in Nat
    /\ None \notin Req

Ids == 1..Cardinality(Req)

VARIABLES st,          \* the goroutine: idle, registered, waiting, returned, dead
          id,          \* the id register gave the request, 0 before
          pend,        \* the requests in the pending table
          pendNext,    \* the last id given out by this process
          pendPerPar,  \* pending requests per requester, as counted
          verdict,     \* p.verdict
          chan,        \* the one-slot decision channel: None or the value sent
          sends,       \* resolvers between the unlock and the send
          timer,       \* off, armed, fired (its goroutine has yet to resolve)
          ok,          \* what approve returned to finishGated, None before
          shown,       \* which request the operator last saw under each id
          restarts

vars == <<st, id, pend, pendNext, pendPerPar, verdict, chan, sends, timer, ok,
          shown, restarts>>

Init ==
    /\ st = [r \in Req |-> "idle"]
    /\ id = [r \in Req |-> 0]
    /\ pend = {}
    /\ pendNext = 0
    /\ pendPerPar = [c \in Cgid |-> 0]
    /\ verdict = [r \in Req |-> "none"]
    /\ chan = [r \in Req |-> None]
    /\ sends = {}
    /\ timer = [r \in Req |-> "off"]
    /\ ok = [r \in Req |-> None]
    /\ shown = [n \in Ids |-> None]
    /\ restarts = 0

Full(c) == Cardinality(pend) >= MaxPending \/ pendPerPar[c] >= MaxPendingPar

\* Variant: numbers are positions in the table.
registerByPosition(r) ==
    /\ st[r] = "idle"
    /\ ~Full(CgOf[r])
    /\ st' = [st EXCEPT ![r] = "registered"]
    /\ id' = [id EXCEPT ![r] = Cardinality(pend) + 1]
    /\ pend' = pend \cup {r}
    /\ pendPerPar' = [pendPerPar EXCEPT ![CgOf[r]] = @ + 1]
    /\ UNCHANGED <<pendNext, verdict, chan, sends, timer, ok, shown, restarts>>

\* register under pendMu.
register(r) ==
    /\ st[r] = "idle"
    /\ ~Full(CgOf[r])
    /\ st' = [st EXCEPT ![r] = "registered"]
    /\ pendNext' = pendNext + 1
    /\ id' = [id EXCEPT ![r] = pendNext + 1]
    /\ pend' = pend \cup {r}
    /\ pendPerPar' = [pendPerPar EXCEPT ![CgOf[r]] = @ + 1]
    /\ UNCHANGED <<verdict, chan, sends, timer, ok, shown, restarts>>

\* The flood backstop: approve returns (false, "busy") at once.
registerBusy(r) ==
    /\ st[r] = "idle"
    /\ Full(CgOf[r])
    /\ st' = [st EXCEPT ![r] = "returned"]
    /\ verdict' = [verdict EXCEPT ![r] = "busy"]
    /\ ok' = [ok EXCEPT ![r] = FALSE]
    /\ UNCHANGED <<id, pend, pendNext, pendPerPar, chan, sends, timer, shown, restarts>>

\* Variant: the goroutine blocks without a timer.
blockUntimed(r) ==
    /\ st[r] = "registered"
    /\ st' = [st EXCEPT ![r] = "waiting"]
    /\ UNCHANGED <<id, pend, pendNext, pendPerPar, verdict, chan, sends, timer, ok, shown, restarts>>

\* time.AfterFunc, then block on the channel.
armTimer(r) ==
    /\ st[r] = "registered"
    /\ st' = [st EXCEPT ![r] = "waiting"]
    /\ timer' = [timer EXCEPT ![r] = "armed"]
    /\ UNCHANGED <<id, pend, pendNext, pendPerPar, verdict, chan, sends, ok, shown, restarts>>

\* Variants: the count is not given back; the entry stays in the table; a timeout
\* is not told from an approval.
resolveLeaks(n, v) ==
    \/ \E r \in pend : /\ id[r] = n
                       /\ pend' = pend \ {r}
                       /\ verdict' = [verdict EXCEPT ![r] = v]
                       /\ sends' = sends \cup {<<r, v = "approve">>}
                       /\ UNCHANGED pendPerPar
    \/ /\ \A r \in pend : id[r] # n
       /\ UNCHANGED <<pend, pendPerPar, verdict, sends>>

resolveKeepsEntry(n, v) ==
    \/ \E r \in pend : /\ id[r] = n
                       /\ verdict' = [verdict EXCEPT ![r] = v]
                       /\ sends' = sends \cup {<<r, v = "approve">>}
                       /\ UNCHANGED <<pend, pendPerPar>>
    \/ /\ \A r \in pend : id[r] # n
       /\ UNCHANGED <<pend, pendPerPar, verdict, sends>>

resolveFailOpen(n, v) ==
    \/ \E r \in pend : /\ id[r] = n
                       /\ pend' = pend \ {r}
                       /\ pendPerPar' = [pendPerPar EXCEPT ![CgOf[r]] = @ - 1]
                       /\ verdict' = [verdict EXCEPT ![r] = v]
                       /\ sends' = sends \cup {<<r, v # "deny">>}
    \/ /\ \A r \in pend : id[r] # n
       /\ UNCHANGED <<pend, pendPerPar, verdict, sends>>

\* resolve's locked part for the request pending under number n; absent, it is
\* a no-op that reports false.
resolve(n, v) ==
    \/ \E r \in pend : /\ id[r] = n
                       /\ pend' = pend \ {r}
                       /\ pendPerPar' = [pendPerPar EXCEPT ![CgOf[r]] = @ - 1]
                       /\ verdict' = [verdict EXCEPT ![r] = v]
                       /\ sends' = sends \cup {<<r, v = "approve">>}
    \/ /\ \A r \in pend : id[r] # n
       /\ UNCHANGED <<pend, pendPerPar, verdict, sends>>

\* LIST: the operator reads the table.
listPending ==
    /\ shown' = [n \in Ids |-> IF \E r \in pend : id[r] = n
                               THEN CHOOSE r \in pend : id[r] = n ELSE shown[n]]
    /\ UNCHANGED <<st, id, pend, pendNext, pendPerPar, verdict, chan, sends, timer, ok, restarts>>

\* ALLOW n / DENY n, for a number the operator has seen.
handleApprove(n, v) ==
    /\ shown[n] # None
    /\ resolve(n, v)
    /\ UNCHANGED <<st, id, pendNext, chan, timer, ok, shown, restarts>>

timerFires(r) ==
    /\ timer[r] = "armed"
    /\ timer' = [timer EXCEPT ![r] = "fired"]
    /\ UNCHANGED <<st, id, pend, pendNext, pendPerPar, verdict, chan, sends, ok, shown, restarts>>

\* The timer's goroutine, possibly long after the request was decided.
timeout(r) ==
    /\ timer[r] = "fired"
    /\ timer' = [timer EXCEPT ![r] = "off"]
    /\ resolve(id[r], "timeout")
    /\ UNCHANGED <<st, id, pendNext, chan, ok, shown, restarts>>

\* p.decision <- ok, after the unlock; a full channel would block the sender.
send(r, b) ==
    /\ <<r, b>> \in sends
    /\ chan[r] = None
    /\ chan' = [chan EXCEPT ![r] = b]
    /\ sends' = sends \ {<<r, b>>}
    /\ UNCHANGED <<st, id, pend, pendNext, pendPerPar, verdict, timer, ok, shown, restarts>>

\* <-p.decision, timer.Stop (too late for one that fired), return to finishGated.
receive(r) ==
    /\ st[r] = "waiting"
    /\ chan[r] # None
    /\ ok' = [ok EXCEPT ![r] = chan[r]]
    /\ st' = [st EXCEPT ![r] = "returned"]
    /\ timer' = [timer EXCEPT ![r] = IF @ = "armed" THEN "off" ELSE @]
    /\ UNCHANGED <<id, pend, pendNext, pendPerPar, verdict, chan, sends, shown, restarts>>

\* The broker process restarts: an empty table, and ids from 1 again.
BrokerRestart ==
    /\ restarts < MaxRestarts
    /\ restarts' = restarts + 1
    /\ st' = [r \in Req |-> IF st[r] \in {"registered", "waiting"} THEN "dead" ELSE st[r]]
    /\ pend' = {}
    /\ pendNext' = 0
    /\ pendPerPar' = [c \in Cgid |-> 0]
    /\ sends' = {}
    /\ timer' = [r \in Req |-> "off"]
    /\ UNCHANGED <<id, verdict, chan, ok, shown>>

Goroutine(r) == \/ register(r) \/ registerBusy(r) \/ armTimer(r) \/ timerFires(r)
                \/ timeout(r) \/ receive(r) \/ \E b \in BOOLEAN : send(r, b)

Next == \/ \E r \in Req : Goroutine(r)
        \/ \E n \in Ids, v \in {"approve", "deny"} : handleApprove(n, v)
        \/ listPending
        \/ BrokerRestart

Spec == Init /\ [][Next]_vars

\* Goroutines and timers run; the operator is not obliged to answer.
FairSpec == Spec /\ \A r \in Req : WF_vars(Goroutine(r))

-----------------------------------------------------------------------------
(* Properties                                                              *)

\* Type invariant; the counters never go below zero.
TypeOK ==
    /\ st \in [Req -> {"idle", "registered", "waiting", "returned", "dead"}]
    /\ id \in [Req -> Nat]
    /\ pend \subseteq Req
    /\ pendNext \in Nat
    /\ pendPerPar \in [Cgid -> Nat]
    /\ verdict \in [Req -> {"none", "busy", "approve", "deny", "timeout"}]
    /\ chan \in [Req -> {None} \cup BOOLEAN]
    /\ sends \subseteq Req \X BOOLEAN
    /\ timer \in [Req -> {"off", "armed", "fired"}]
    /\ ok \in [Req -> {None} \cup BOOLEAN]
    /\ shown \in [Ids -> {None} \cup Req]
    /\ restarts \in Nat

\* The flood caps hold, and the per-requester counters are exact whatever races
\* resolve the requests: a leaked count would lock an agent out for good.
FloodCaps ==
    /\ Cardinality(pend) <= MaxPending
    /\ \A c \in Cgid : /\ pendPerPar[c] = Cardinality({r \in pend : CgOf[r] = c})
                       /\ pendPerPar[c] <= MaxPendingPar

\* An executor runs only on an approval: finishGated sees TRUE exactly when the
\* recorded verdict is "approve", though verdict and value travel separately.
ApprovedOnly == \A r \in Req : ok[r] # None => (ok[r] <=> verdict[r] = "approve")

\* What the caller of the gate may rely on: a request is pending until the verdict
\* is set, and its verdict is final.
gateStatus ==
    [r \in Req |-> CASE verdict[r] = "approve" -> "granted"
                     [] verdict[r] \in {"busy", "deny", "timeout"} -> "refused"
                     [] verdict[r] = "none" /\ st[r] = "idle" -> "idle"
                     [] verdict[r] = "none" /\ st[r] = "dead" -> "dropped"
                     [] OTHER -> "pending"]

Abs == INSTANCE GateSpec WITH status <- gateStatus

\* The verdict is delivered exactly once, whichever of ALLOW, DENY, timeout and
\* restart come together: the gate implements GateSpec (delete under pendMu).
GateImplements == Abs!Spec

\* While the broker has not restarted, an ALLOW approves the request the operator
\* was shown under that number, never another one that has it by then (pendNext).
ApprovesWhatWasShown ==
    [][\A r \in Req : verdict[r] # "approve" /\ verdict'[r] = "approve" /\ restarts = 0 =>
         shown[id[r]] = r]_vars

\* No request waits for ever, whatever the operator does: in the end it has returned
\* to its caller or died with the process, or was never made (GateImplements: one that
\* was made is not idle again).
Decided == \A r \in Req : <>[](st[r] \in {"idle", "returned", "dead"})

=============================================================================
