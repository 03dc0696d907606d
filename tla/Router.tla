-------------------------------- MODULE Router --------------------------------
(***************************************************************************)
(* The model router: concurrent chat requests (router/server.go:           *)
(* handleChat) that are routed to the local model or to a paid provider,   *)
(* under the token bucket that bounds the volume of paid calls             *)
(* (ratelimit.go) and the signed record each routing decision has before   *)
(* it is acted on.                                                         *)
(*                                                                         *)
(* The bucket is counted in 1/TicksPerMin of a token, so that a tick's     *)
(* refill (PaidRatePerMin / TicksPerMin tokens) is a whole number.         *)
(***************************************************************************)
EXTENDS Integers, Sequences

CONSTANTS Chat,            \* requests being served at a time
          Provider,        \* the paid providers there are
          Configured,      \* those with a key
          PaidRatePerMin, TicksPerMin,
          Threshold, PromptLen,
          MaxNow, MaxGrants  \* bounds: the clock, and the paid requests let through

ASSUME RouterAssumption ==
    /\ Configured \subseteq Provider
    /\ PaidRatePerMin \in Nat \ {0} /\ TicksPerMin \in Nat \ {0}
    /\ Threshold \in Nat /\ PromptLen \subseteq Nat

VARIABLES now,     \* the clock
          tokens,  \* the bucket
          last,    \* the instant of the last refill
          grants,  \* history: the instants at which allow() returned true
          req,     \* req[q]: handleChat of q
          routed,  \* the chain's records of paid routes: <<token, provider>>
          paid     \* history: the calls made, <<token, provider>>

routerVars == <<now, tokens, last, grants, req, routed, paid>>

capacity == PaidRatePerMin * TicksPerMin

ReqState == [pc : {"idle", "limit", "record", "call"}, route : {"local", "api"}, provider : Provider,
             token : Nat]  \* history: which grant the request goes on

RouterInit ==
    /\ now = 0 /\ last = 0
    /\ tokens = capacity
    /\ grants = <<>>
    /\ \E p \in Provider :
          req = [q \in Chat |-> [pc |-> "idle", route |-> "local", provider |-> p, token |-> 0]]
    /\ routed = {} /\ paid = {}

Tick == now < MaxNow /\ now' = now + 1 /\ UNCHANGED <<tokens, last, grants, req, routed, paid>>

Goto(q, pc) == req' = [req EXCEPT ![q].pc = pc]
Granted(q)  == /\ grants' = Append(grants, now)
               /\ req' = [req EXCEPT ![q].pc = "record", ![q].token = Len(grants) + 1]

Paying(q) == req[q].pc \in {"record", "call"} /\ req[q].route = "api"
Ticket(q) == <<req[q].token, req[q].provider>>

-----------------------------------------------------------------------------
\* decide: a client may ask for the local tier, never for the paid one.
decide(tag, len) == IF tag = "local" THEN "local"
                    ELSE IF len >= Threshold THEN "api" ELSE "local"

\* handleChat up to the routing decision.  selectProvider picks the vendor by the
\* model's name.  A request that does not parse changes nothing.
handleChat(q, tag, len, provider) ==
    /\ req[q].pc = "idle"
    /\ LET route == decide(tag, len) IN
       req' = [req EXCEPT ![q] = [pc |-> IF route = "api" THEN "limit" ELSE "record",
                                  route |-> route, provider |-> provider, token |-> 0]]
    /\ UNCHANGED <<now, tokens, last, grants, routed, paid>>

\* The bucket once the time since the last refill is added.
refilled == LET t == tokens + (now - last) * PaidRatePerMin IN
            IF t > capacity THEN capacity ELSE t

\* Variant: the instant of the refill is not kept.
allowKeepsLast(q) ==
    /\ req[q].pc = "limit"
    /\ Len(grants) < MaxGrants
    /\ last' = last
    /\ \/ /\ refilled >= TicksPerMin
          /\ tokens' = refilled - TicksPerMin
          /\ Granted(q)
       \/ /\ refilled < TicksPerMin
          /\ tokens' = refilled /\ grants' = grants
          /\ Goto(q, "idle")
    /\ UNCHANGED <<now, routed, paid>>

\* allow, under its mutex: refill, then take a token; with none left, 429.
allow(q) ==
    /\ req[q].pc = "limit"
    /\ Len(grants) < MaxGrants
    /\ last' = now
    /\ \/ /\ refilled >= TicksPerMin
          /\ tokens' = refilled - TicksPerMin
          /\ Granted(q)
       \/ /\ refilled < TicksPerMin
          /\ tokens' = refilled /\ grants' = grants
          /\ Goto(q, "idle")
    /\ UNCHANGED <<now, routed, paid>>

\* Variant: a failed append is only logged.
recordRouteLogs(q) ==
    /\ req[q].pc = "record"
    /\ Goto(q, "call")
    /\ \/ routed' = routed
       \/ routed' = routed \cup (IF Paying(q) THEN {Ticket(q)} ELSE {})
    /\ UNCHANGED <<now, tokens, last, grants, paid>>

\* recordRoute, before the decision is acted on; a failed append refuses the request.
recordRoute(q) ==
    /\ req[q].pc = "record"
    /\ \/ /\ Goto(q, "call")
          /\ routed' = routed \cup (IF Paying(q) THEN {Ticket(q)} ELSE {})
       \/ Goto(q, "idle") /\ routed' = routed
    /\ UNCHANGED <<now, tokens, last, grants, paid>>

\* p.Proxy calls its upstream, unless the provider has no key (503).
proxyAPI(q) ==
    /\ req[q].pc = "call" /\ req[q].route = "api"
    /\ paid' = paid \cup (IF req[q].provider \in Configured THEN {Ticket(q)} ELSE {})
    /\ Goto(q, "idle")
    /\ UNCHANGED <<now, tokens, last, grants, routed>>

proxyLocal(q) ==
    /\ req[q].pc = "call" /\ req[q].route = "local"
    /\ Goto(q, "idle")
    /\ UNCHANGED <<now, tokens, last, grants, routed, paid>>

-----------------------------------------------------------------------------
RouterNext ==
    \/ Tick
    \/ \E q \in Chat :
          \/ \E tag \in {"", "local", "api"}, len \in PromptLen, p \in Provider : handleChat(q, tag, len, p)
          \/ allow(q) \/ recordRoute(q) \/ proxyAPI(q) \/ proxyLocal(q)

RouterSpec == RouterInit /\ [][RouterNext]_routerVars

-----------------------------------------------------------------------------
(* Properties                                                              *)

\* Type invariant; the bucket never exceeds its capacity and is never overdrawn.
RouterTypeOK ==
    /\ now \in Nat /\ last \in 0..now
    /\ tokens \in 0..capacity
    /\ grants \in Seq(Nat)
    /\ req \in [Chat -> ReqState]
    /\ routed \subseteq Nat \X Provider
    /\ paid \subseteq Nat \X Provider

\* Whatever the concurrent requests do, the paid requests let through in any stretch
\* of time are at most a full bucket and what that time refills: between the i-th
\* and the j-th, j - i + 1 <= N + N * minutes (the token bucket, R7).
VolumeBounded ==
    \A i \in 1..Len(grants) : \A j \in i..Len(grants) :
        (j - i + 1) * TicksPerMin <= capacity + PaidRatePerMin * (grants[j] - grants[i])

\* The chain has every paid call, and has it before the call is made, whatever append
\* fails (recordRoute: "it can never HIDE a paid call").
PaidIsRecorded ==
    /\ paid \subseteq routed
    /\ \A q \in Chat : req[q].pc = "call" /\ Paying(q) => Ticket(q) \in routed

\* A token pays for one call: requests on their way to a provider hold different
\* tokens, none of them already spent on a call, so that the bound on the tokens is
\* one on the calls.
OneCallPerToken ==
    \A q \in Chat : Paying(q) =>
        /\ req[q].token \in 1..Len(grants)
        /\ \A x \in paid : x[1] # req[q].token
        /\ \A r \in Chat \ {q} : Paying(r) => req[r].token # req[q].token

=============================================================================
