------------------------------ MODULE EgressPath ------------------------------
(***************************************************************************)
(* The mediated path: flows of agents in a microVM go through a leg of the *)
(* vsock multiplexer to the egress proxy, flows of the other agents        *)
(* connect to the proxy themselves; both share its slots.  The agent and   *)
(* the upstream are the environment: they send a bounded number of chunks, *)
(* read or do not, half-close and close whenever they like.                *)
(***************************************************************************)
EXTENDS VsockMux, ProxyConn, FiniteSets

CONSTANT Plans  \* what the flows may be like: see plan

ASSUME PathAssumption ==
    /\ IsFiniteSet(Flow)
    /\ Plans \subseteq [flows : SUBSET Flow, guest : SUBSET Flow, send : [Flow -> Nat]]

VARIABLES plan,  \* the flows there are, those from the microVM, and the bound on the
                 \* chunks each side of a flow sends (at 0, not even a request)
          sent,  \* sent[f]: whether the agent sent a request; the data chunks of both
          got    \* got[f]: what the agent and the upstream have read

envVars == <<plan, sent, got>>
vars == <<spliceVars, muxVars, proxyVars, envVars>>

Init ==
    /\ SpliceInit /\ MuxInit /\ ProxyInit
    /\ plan \in Plans
    /\ sent = [f \in Flow |-> [asked |-> FALSE, agent |-> 0, up |-> 0]]
    /\ got = [f \in Flow |-> [agent |-> <<>>, up |-> <<>>]]

\* The streams the agent writes and reads.
Out(f) == IF f \in plan.guest THEN "am" ELSE "mp"
In(f)  == IF f \in plan.guest THEN "ma" ELSE "pm"

-----------------------------------------------------------------------------
(* The agent and the upstream                                              *)

\* A direct flow connects to the proxy, a guest's to the mux's leg.
connect(f) ==
    \/ f \in plan.guest /\ muxAccept(f) /\ UNCHANGED <<proxyVars, envVars>>
    \/ f \notin plan.guest /\ accept(f) /\ UNCHANGED <<spliceVars, muxVars, envVars>>

Connected(f) == IF f \in plan.guest THEN mux[f] # "none" ELSE px[f].pc # "none"
Dialled(f)   == px[f].ip # NoIP

send(f, s, x, who) ==
    /\ ~stream[f][s].fin /\ ~stream[f][s].shut /\ ~Full(stream[f], s)
    /\ SetStreams(f, Put(stream[f], s, x))
    /\ sent' = IF x = "req" THEN [sent EXCEPT ![f].asked = TRUE]
                            ELSE [sent EXCEPT ![f][who] = @ + 1]
    /\ UNCHANGED <<pump, cut, plan, got, muxVars, proxyVars>>

receive(f, s, who) ==
    /\ stream[f][s].q # <<>>
    /\ SetStreams(f, Take(stream[f], s))
    /\ got' = [got EXCEPT ![f][who] = Append(@, Head(stream[f][s].q))]
    /\ UNCHANGED <<pump, cut, plan, sent, muxVars, proxyVars>>

\* A half-close, or a close: that discards what its owner had not read.  Nobody
\* sees it once the other end is closed.
hangUp(f, r, w) ==
    /\ ~stream[f][r].shut /\ ~stream[f][w].shut
    /\ \/ /\ ~stream[f][w].fin
          /\ SetStreams(f, CloseWrite(stream[f], w)) /\ cut' = cut
       \/ /\ SetStreams(f, Close(stream[f], r, w))
          /\ cut' = [cut EXCEPT ![f] = TRUE]
    /\ UNCHANGED <<pump, envVars, muxVars, proxyVars>>

AgentStep(f) ==
    /\ Connected(f)
    /\ \/ plan.send[f] > 0 /\ ~sent[f].asked /\ send(f, Out(f), "req", "agent")
       \/ sent[f].agent < plan.send[f] /\ send(f, Out(f), "dat", "agent")
       \/ receive(f, In(f), "agent")
       \/ hangUp(f, In(f), Out(f))

UpstreamStep(f) ==
    /\ Dialled(f)
    /\ \/ sent[f].up < plan.send[f] /\ send(f, "up", "dat", "up")
       \/ receive(f, "pu", "up")
       \/ hangUp(f, "pu", "up")

-----------------------------------------------------------------------------
\* The mux's dial is the connection the proxy accepts.
MuxDials(f) == muxDial(f) /\ accept(f) /\ UNCHANGED envVars

MuxSteps(f) ==
    \/ MuxDials(f)
    \/ (muxDialErr(f) \/ muxCopy(f) \/ muxClose(f)) /\ UNCHANGED <<proxyVars, envVars>>

ProxySteps(f) == ProxyStep(f) /\ UNCHANGED <<muxVars, envVars>>

Next == \E f \in plan.flows : \/ connect(f) \/ AgentStep(f) \/ UpstreamStep(f)
                        \/ MuxSteps(f) \/ ProxySteps(f)

Spec == Init /\ [][Next]_vars

\* A goroutine that can run does, and a deadline that is set passes.  Nothing is
\* assumed of the agent and the upstream.
FairSpec == Spec /\ \A f \in Flow : WF_vars(MuxSteps(f)) /\ WF_vars(ProxySteps(f))

-----------------------------------------------------------------------------
(* Properties                                                              *)

\* Type invariant; a socket buffer never holds more than it can, and neither cap on
\* concurrent connections is exceeded.
TypeOK ==
    /\ stream \in [Flow -> [Stream -> StreamState]]
    /\ \A f \in Flow, s \in Stream : Len(stream[f][s].q) <= SocketBuf
    /\ pump \in [Flow -> [Pump -> PumpState]]
    /\ cut \in [Flow -> BOOLEAN]
    /\ mux \in [Flow -> {"none", "dial", "splice", "closed"}]
    /\ leg \in 0..maxConnsPerLeg
    /\ px \in [Flow -> PxState]
    /\ sem \in 0..maxConcurrent

\* A slot is taken once and given back once on every way out of serveHost's
\* goroutine and of handleConn.
SlotsAccounted ==
    /\ leg = Cardinality({f \in Flow : InMux(f)})
    /\ sem = Cardinality({f \in Flow : InProxy(f)})

\* No byte of the agent is on its way to an upstream, and no byte of an upstream to
\* an agent, before the chain has the allow record, and an uninspected flow's the
\* passthrough record too (handleConn's record-before-act, whatever append fails).
RecordedBeforeBytes ==
    \A f \in Flow :
        \/ stream[f]["pu"].q # <<>> \/ got[f].up # <<>>
        \/ \E i \in DOMAIN got[f].agent : got[f].agent[i] = "dat"
        =>
            /\ "allow" \in px[f].recs
            /\ ModeOf[px[f].host] = "inspect" \/ "passthrough" \in px[f].recs

\* A host marked for inspection is never relayed as an opaque splice, and what is
\* connected to is an allowlisted name at an address that the kernel's classifier
\* calls public too, unless the operator opted it in (R4; dialer.Control).
DialsAsMarked ==
    \A f \in Flow :
        /\ px[f].pc = "splice" => ModeOf[px[f].host] # "inspect"
        /\ px[f].pc \in {"leaf", "hsClient", "hsUpstream", "inspect"} => CanTerminate(f)
        /\ Dialled(f) => /\ px[f].host \in Allowed
                         /\ px[f].ip \in internalCIDRs \/ V6Class(px[f].ip) = DST_PUBLIC

\* The first thing an agent reads is the proxy's one reply: a refusal is followed by
\* nothing, and the upstream's bytes come after "OK", through both relays.
ReplyFirst ==
    \A f \in Flow : LET g == got[f].agent IN
        g # <<>> => /\ g[1] = "OK" \/ g = <<"ERR">>
                    /\ \A i \in 2..Len(g) : g[i] = "dat"

Spliced(f) == px[f].pc \in {"splice", "closed"} /\ "passthrough" \in px[f].recs

\* A half-close truncates nothing: when no deadline, error or refusal cut the flow, an
\* upstream that has read to the end has all the agent sent and an agent that has
\* read to the end has all the upstream sent, across both relays (CloseWrite in the
\* two splices: "the other direction keeps its own idle bound").
NothingTruncated ==
    \A f \in Flow : ~cut[f] /\ Spliced(f) =>
        /\ stream[f]["pu"].fin /\ stream[f]["pu"].q = <<>> => Len(got[f].up) = sent[f].agent
        /\ stream[f][In(f)].fin /\ stream[f][In(f)].q = <<>> => Len(got[f].agent) = 1 + sent[f].up

\* The mux gives every slot back, whatever the guest and the proxy do: each
\* direction of a splice is bounded by a read and a write deadline (copyIdle).
LegSlotReturned == \A f \in Flow : InMux(f) ~> ~InMux(f)

\* A copy loop of the proxy is in a write that its peer does not take.
PeerStalls(f) == \E p \in {"pf", "pb"} : pump[f][p].pc = "write" /\ Full(stream[f], Dst[p])

\* The proxy gives a slot back unless it waits for good on a peer that does not take
\* its bytes or does not answer a TLS handshake: the read deadlines bound every
\* other wait of handleConn, splice and inspectRelay.
ProxySlotReturned ==
    \A f \in Flow :
        <>[]InProxy(f) => <>[](PeerStalls(f) \/ px[f].pc \in {"hsClient", "hsUpstream"})

=============================================================================
