------------------------------ MODULE ProxyConn ------------------------------
(***************************************************************************)
(* A connection of the egress proxy (proxy/proxy.go: handleConn; mitm.go:  *)
(* terminate and inspectRelay).  Every operator step is one stretch of     *)
(* handleConn between two things that can fail or block; a return runs the *)
(* deferred closes and gives the slot back.                                *)
(***************************************************************************)
EXTENDS Splice, DestClass

CONSTANTS Host,           \* the destinations (host and port) a request can carry
          Allowed,        \* those Allows permits
          ModeOf,         \* Mode(host)
          Mitm, tlsPorts, \* a re-signing CA is loaded; the destinations on a TLS port
          Resolved,       \* the addresses a name may resolve to at dial time
          internalCIDRs,  \* the internal addresses the operator opted in
          maxConcurrent, NoHost, NoIP

ASSUME ProxyAssumption ==
    /\ Allowed \subseteq Host /\ tlsPorts \subseteq Host
    /\ ModeOf \in [Host -> {"inspect", "pinned", "passthrough"}]
    /\ Mitm \in BOOLEAN
    /\ maxConcurrent \in Nat \ {0}
    /\ Resolved \subseteq [1..16 -> Byte] /\ NoIP \notin Resolved

VARIABLES px,   \* px[f]: handleConn of f
          sem   \* slots taken (len(p.sem))

proxyVars == <<px, sem>>

ProxyPC == {"none", "accepted", "request", "check", "dial", "record", "passthrough", "reply",
            "splice", "terminate", "leaf", "hsClient", "hsUpstream", "inspect", "closed"}

\* recs: the records the chain has of this flow that a later step depends on.  Those
\* of a refusal and of an inspected flow's end are best-effort, and change nothing.
PxState == [pc : ProxyPC, host : Host \cup {NoHost}, ip : Resolved \cup {NoIP},
            recs : SUBSET {"allow", "passthrough"}]

ProxyInit ==
    /\ px = [f \in Flow |-> [pc |-> "none", host |-> NoHost, ip |-> NoIP, recs |-> {}]]
    /\ sem = 0

Px(f, pc) == px' = [px EXCEPT ![f].pc = pc]

-----------------------------------------------------------------------------
\* The deferred calls of a return: up.Close if it was dialled, the slot, c.Close.
closeConns(S, dialled) ==
    LET T == IF dialled THEN Close(S, "up", "pu") ELSE S IN Close(T, "mp", "pm")

\* writeReply: a peer that has gone or does not read within requestTimeout gets none.
CanReply(f)  == ~stream[f]["pm"].shut /\ ~Full(stream[f], "pm")
Replied(f, x) == IF CanReply(f) THEN Put(stream[f], "pm", x) ELSE stream[f]

\* handleConn returns, leaving the streams S to its deferred calls.
return(f, S) ==
    /\ SetStreams(f, closeConns(S, px[f].ip # NoIP))
    /\ px' = [px EXCEPT ![f].pc = "closed", ![f].host = IF px[f].ip = NoIP THEN NoHost ELSE @]
    /\ sem' = sem - 1

\* A refusal; and a return with no reply, which drops the flow.
refuse(f)   == return(f, Replied(f, "ERR")) /\ cut' = [cut EXCEPT ![f] = TRUE] /\ pump' = pump
dropFlow(f) == return(f, stream[f]) /\ cut' = [cut EXCEPT ![f] = TRUE] /\ pump' = pump

-----------------------------------------------------------------------------
accept(f) == px[f].pc = "none" /\ Px(f, "accepted") /\ sem' = sem

\* Variant: the slot is taken whether or not there is one.
acquireOver(f) ==
    /\ px[f].pc = "accepted"
    /\ sem' = sem + 1 /\ Px(f, "request") /\ UNCHANGED spliceVars

\* The slot, or "ERR busy".
acquire(f) ==
    /\ px[f].pc = "accepted"
    /\ \/ /\ sem < maxConcurrent
          /\ sem' = sem + 1 /\ Px(f, "request") /\ UNCHANGED spliceVars
       \/ /\ sem >= maxConcurrent
          /\ SetStreams(f, Close(Replied(f, "ERR"), "mp", "pm"))
          /\ cut' = [cut EXCEPT ![f] = TRUE]
          /\ Px(f, "closed") /\ UNCHANGED <<pump, sem>>

\* readRequest: one CONNECT line, nothing past it.
readRequest(f, host) ==
    /\ px[f].pc = "request"
    /\ stream[f]["mp"].q # <<>> /\ Head(stream[f]["mp"].q) = "req"
    /\ SetStreams(f, Take(stream[f], "mp"))
    /\ px' = [px EXCEPT ![f].pc = "check", ![f].host = host]
    /\ UNCHANGED <<pump, cut, sem>>

\* A line that does not parse, the end of the stream, or requestTimeout.
badRequest(f) == px[f].pc = "request" /\ refuse(f)

CanTerminate(f) == Mitm /\ px[f].host \in tlsPorts

\* The allowlist, and the disposition: what cannot be inspected as marked is refused.
disposition(f) ==
    /\ px[f].pc = "check"
    /\ LET unavailable == ModeOf[px[f].host] = "inspect" /\ ~CanTerminate(f) IN
       \/ px[f].host \notin Allowed /\ refuse(f)
       \/ px[f].host \in Allowed /\ unavailable /\ refuse(f)
       \/ /\ px[f].host \in Allowed /\ ~unavailable
          /\ Px(f, "dial") /\ UNCHANGED <<spliceVars, sem>>

\* Dial: dialer.Control sees the address that is really connected to.
dial(f, ip) ==
    /\ px[f].pc = "dial"
    /\ checkDialAddr(ip, internalCIDRs)
    /\ px' = [px EXCEPT ![f].pc = "record", ![f].ip = ip]
    /\ UNCHANGED <<spliceVars, sem>>

\* No address answers, or Control refuses them all.
dialErr(f) == px[f].pc = "dial" /\ refuse(f)

\* Record-before-act: no record, no egress.
recordEgress(f) ==
    /\ px[f].pc = "record"
    /\ \/ /\ px' = [px EXCEPT ![f].recs = @ \cup {"allow"},
                              ![f].pc = IF ModeOf[px[f].host] = "inspect" THEN "terminate"
                                                                          ELSE "passthrough"]
          /\ UNCHANGED <<spliceVars, sem>>
       \/ refuse(f)

\* Variant: a failed append is only logged.
recordPassthroughLogs(f) ==
    /\ px[f].pc = "passthrough"
    /\ \E recs \in {{}, {"passthrough"}} :
          px' = [px EXCEPT ![f].recs = @ \cup recs, ![f].pc = "reply"]
    /\ UNCHANGED <<spliceVars, sem>>

\* Variant: the refusal is written, but handleConn does not return.
recordPassthroughGoesOn(f) ==
    /\ px[f].pc = "passthrough"
    /\ \/ /\ px' = [px EXCEPT ![f].recs = @ \cup {"passthrough"}, ![f].pc = "reply"]
          /\ UNCHANGED <<spliceVars, sem>>
       \/ /\ SetStreams(f, Replied(f, "ERR"))
          /\ Px(f, "reply") /\ UNCHANGED <<pump, cut, sem>>

\* The uninspected channel is recorded as one, or not opened.
recordPassthrough(f) ==
    /\ px[f].pc = "passthrough"
    /\ \/ /\ px' = [px EXCEPT ![f].recs = @ \cup {"passthrough"}, ![f].pc = "reply"]
          /\ UNCHANGED <<spliceVars, sem>>
       \/ refuse(f)

\* "OK" and the splice; a reply that cannot be written ends the flow.
replyOK(f) ==
    /\ px[f].pc = "reply"
    /\ \/ /\ CanReply(f)
          /\ SetStreams(f, Put(stream[f], "pm", "OK"))
          /\ Px(f, "splice") /\ pump' = started(f, {"pf", "pb"})
          /\ UNCHANGED <<cut, sem>>
       \/ ~CanReply(f) /\ dropFlow(f)

\* Variant: no SetReadDeadline.
spliceCopyUntimed(f) ==
    /\ px[f].pc = "splice"
    /\ \E p \in {"pf", "pb"} : read(f, p) \/ write(f, p)
    /\ UNCHANGED proxyVars

\* splice: SetReadDeadline before each read, no deadline on a write.
spliceCopy(f) ==
    /\ px[f].pc = "splice"
    /\ \E p \in {"pf", "pb"} : copyStep(f, p)
    /\ UNCHANGED proxyVars

spliceDone(f) ==
    /\ px[f].pc = "splice" /\ Ended(f, {"pf", "pb"})
    /\ return(f, stream[f])
    /\ UNCHANGED <<pump, cut>>

-----------------------------------------------------------------------------
(* mitm.go: terminate                                                      *)

terminate(f) ==
    /\ px[f].pc = "terminate"
    /\ \/ /\ CanReply(f)
          /\ SetStreams(f, Put(stream[f], "pm", "OK"))
          /\ Px(f, "leaf") /\ UNCHANGED <<pump, cut, sem>>
       \/ ~CanReply(f) /\ dropFlow(f)

leafFor(f) ==
    /\ px[f].pc = "leaf"
    /\ \/ Px(f, "hsClient") /\ UNCHANGED <<spliceVars, sem>>
       \/ dropFlow(f)

\* A TLS handshake waits, with no deadline, for its peer; it may then fail.
handshake(f, s, at, next) ==
    /\ px[f].pc = at
    /\ \/ /\ stream[f][s].q # <<>>
          /\ SetStreams(f, Take(stream[f], s))
          /\ Px(f, next)
          /\ pump' = IF next = "inspect" THEN started(f, {"pf", "pb"}) ELSE pump
          /\ UNCHANGED <<cut, sem>>
       \/ (stream[f][s].q # <<>> \/ stream[f][s].fin) /\ dropFlow(f)

\* inspectRelay: a request is forwarded whole, under a write deadline, once the
\* rules let it; the response side is the plain copy loop.
inspectCopy(f) ==
    /\ px[f].pc = "inspect"
    /\ \/ \E p \in {"pf", "pb"} : copyStep(f, p)
       \/ writeDeadline(f, "pf")
    /\ UNCHANGED proxyVars

\* inspectRequest denies, or the request cannot be framed.
inspectDeny(f) ==
    /\ px[f].pc = "inspect" /\ pump[f]["pf"].pc = "write"
    /\ leave(f, "pf", TRUE)
    /\ UNCHANGED proxyVars

\* Both directions over: the inspect record, best-effort.
inspectDone(f) ==
    /\ px[f].pc = "inspect" /\ Ended(f, {"pf", "pb"})
    /\ return(f, stream[f])
    /\ UNCHANGED <<pump, cut>>

-----------------------------------------------------------------------------
ProxyStep(f) ==
    \/ acquire(f) \/ badRequest(f) \/ disposition(f)
    \/ \E host \in Host : readRequest(f, host)
    \/ \E ip \in Resolved : dial(f, ip)
    \/ dialErr(f) \/ recordEgress(f) \/ recordPassthrough(f)
    \/ replyOK(f) \/ spliceCopy(f) \/ spliceDone(f)
    \/ terminate(f) \/ leafFor(f)
    \/ handshake(f, "mp", "hsClient", "hsUpstream")
    \/ handshake(f, "up", "hsUpstream", "inspect")
    \/ inspectCopy(f) \/ inspectDeny(f) \/ inspectDone(f)

InProxy(f) == px[f].pc \notin {"none", "accepted", "closed"}

=============================================================================
