-------------------------- MODULE EgressPathProofs --------------------------
(***************************************************************************)
(* Theorems about EgressPath, for any number of flows, any socket buffer   *)
(* and any caps: no byte leaves unrecorded, a dial is marked as decided,   *)
(* the first bytes the agent reads are the proxy's single answer, a half   *)
(* close loses nothing, and no slot of either semaphore leaks.             *)
(*                                                                         *)
(* The steps of the mux and of handleConn keep FlowInv (FlowProofs has the *)
(* others), so every reachable state satisfies IInv; what a flow promises  *)
(* follows from its own FlowInv.  The semaphores are counted over all      *)
(* flows: a slot is held exactly by the flows that are inside (SlotsInv).  *)
(***************************************************************************)
EXTENDS FlowProofs

-----------------------------------------------------------------------------
(* The steps of the mux and of handleConn                                  *)

LEMMA PxFacts ==
    ASSUME NEW p \in PxState, NEW x \in ProxyPC, NEW p2, p2 = [p EXCEPT !.pc = x]
    PROVE  /\ p2 \in PxState /\ p2.pc = x /\ p2.host = p.host /\ p2.ip = p.ip /\ p2.recs = p.recs
  BY Zenon DEF PxState

\* A connection is accepted, or moves on in the mux.
LEMMA MuxTurns ==
    ASSUME NEW S, NEW P, NEW c, NEW m, NEW p, NEW n, NEW g, NEW d \in BOOLEAN,
           FlowType(S, P, c, m, p, n, g), FlowInv(S, P, c, m, p, n, g, d),
           NEW P2 \in Pumps, Alike(P, P2), NEW m2 \in {"none", "dial", "splice", "closed"},
           NEW p2, p2 = p \/ (p.pc = "none" /\ p2 = [p EXCEPT !.pc = "accepted"]),
           PhaseInv(P2, m2, p2, d)
    PROVE  FlowType(S, P2, c, m2, p2, n, g) /\ FlowInv(S, P2, c, m2, p2, n, g, d)
  <1>0. p \in PxState /\ c \in BOOLEAN BY Zenon DEF FlowType
  <1>1. PxInv(p) /\ AskedInv(S, P, p, n) /\ CountInv(S, P, c, p, n, g, d) BY Zenon DEF FlowInv
  <1>2. /\ p2 \in PxState /\ p2.ip = p.ip /\ p2.recs = p.recs /\ p2.host = p.host
        /\ p2.pc = p.pc \/ (p.pc = "none" /\ p2.pc = "accepted")
    <2>1. CASE p2 = p BY <1>0, <2>1, Zenon
    <2>2. CASE p.pc = "none" /\ p2 = [p EXCEPT !.pc = "accepted"]
      <3>1. "accepted" \in ProxyPC BY Zenon DEF ProxyPC
      <3> QED BY <1>0, <2>2, <3>1, PxFacts
    <2> QED BY <2>1, <2>2, Zenon
  <1>3. PxInv(p2) BY <1>1, <1>2, Zenon DEF PxInv, Unread, Inspected
  <1>4. /\ p2.pc \in Unreplied <=> p.pc \in Unreplied
        /\ p2.pc \in Unread <=> p.pc \in Unread
        /\ p2.pc \in Inspected <=> p.pc \in Inspected
        /\ p2.pc = "closed" <=> p.pc = "closed"
        /\ Replying(p2) => Replying(p)
    BY <1>2, Zenon DEF Unreplied, Unread, Inspected, Replying
  <1>5. p2.pc \notin Unread \cup {"closed"} \/ p2.recs # {} => n.asked
    BY <1>1, <1>2, <1>4, Zenon DEF AskedInv
  <1>6. ~c => (p2.pc = "closed" => p2.recs # {}) BY <1>1, <1>2, <1>4, Zenon DEF CountInv
  <1>7. ~c => /\ ~c /\ (p2.pc = "closed" => p2.recs # {})
              /\ p2.pc \in Unread <=> p.pc \in Unread
              /\ p2.pc \in Unreplied <=> p.pc \in Unreplied
              /\ p2.pc \notin Inspected /\ (p2.pc = "closed" => "passthrough" \in p2.recs) =>
                    p.pc \notin Inspected /\ (p.pc = "closed" => "passthrough" \in p.recs)
    BY <1>2, <1>4, <1>6, Zenon
  <1>8. (p2.pc \in Unreplied => p.pc \in Unreplied) /\ (Replying(p2) => Replying(p)) BY <1>4, Zenon
  <1>9. TurnOK(c, p, n, c, p2) BY <1>5, <1>7, <1>8, Zenon DEF TurnOK
  <1> QED BY <1>0, <1>2, <1>3, <1>9, Turns

LEMMA ConnectActs ==
    ASSUME Typed, NEW f \in Flow, Good(f), connect(f)
    PROVE  Touches(f) /\ Good(f)' /\ Slots(f)
  <1>a. PICK d \in BOOLEAN :
           /\ d = (f \in plan.guest)
           /\ FlowType(stream[f], pump[f], cut[f], mux[f], px[f], sent[f], got[f])
           /\ FlowInv(stream[f], pump[f], cut[f], mux[f], px[f], sent[f], got[f], d)
    BY Kind, Zenon
  <1>f. /\ FlowType(stream[f], pump[f], cut[f], mux[f], px[f], sent[f], got[f])
        /\ FlowInv(stream[f], pump[f], cut[f], mux[f], px[f], sent[f], got[f], d)
    BY <1>a, Zenon
  <1>b. pump[f] \in Pumps /\ Alike(pump[f], pump[f]) BY Zenon DEF Typed, Alike
  <1>p. PhaseInv(pump[f], mux[f], px[f], d) BY <1>f, Zenon DEF FlowInv
  <1>1. CASE f \in plan.guest /\ muxAccept(f) /\ UNCHANGED <<proxyVars, envVars>>
    <2>0. d /\ mux[f] = "none" BY <1>a, <1>1, Zenon DEF muxAccept
    <2>1. UNCHANGED <<px, sem, sent, got, plan>> BY <1>1, Zenon DEF proxyVars, envVars
    <2>2. CASE leg < maxConnsPerLeg /\ leg' = leg + 1 /\ MuxGoto(f, "dial") /\ UNCHANGED spliceVars
      <3>1. mux'[f] = "dial" /\ mux' = [mux EXCEPT ![f] = mux'[f]]
        BY <2>2, Sets, Zenon DEF MuxGoto
      <3>2. UNCHANGED <<stream, pump, cut>> BY <2>2, Zenon DEF spliceVars
      <3>3. Touches(f) BY <1>1, <2>1, <3>1, <3>2, Same, SystemFrame, Zenon
      <3>4. PhaseInv(pump[f], "dial", px[f], d) BY <1>p, <2>0, Zenon DEF PhaseInv
      <3>5. /\ FlowType(stream[f], pump[f], cut[f], "dial", px[f], sent[f], got[f])
            /\ FlowInv(stream[f], pump[f], cut[f], "dial", px[f], sent[f], got[f], d)
        BY <1>f, <1>b, <3>4, MuxTurns, Zenon
      <3>6. Good(f)' BY <1>a, <2>1, <3>1, <3>2, <3>5, Zenon DEF Good
      <3>7. Slots(f) BY <2>0, <2>1, <2>2, <3>1, Zenon DEF Slots, SlotMoves, InMux, InProxy
      <3> QED BY <3>3, <3>6, <3>7, Zenon
    <2>3. CASE /\ leg >= maxConnsPerLeg /\ leg' = leg /\ MuxGoto(f, "closed")
               /\ SetStreams(f, Close(stream[f], "am", "ma"))
               /\ cut' = [cut EXCEPT ![f] = TRUE] /\ pump' = pump
      <3>1. mux'[f] = "closed" /\ mux' = [mux EXCEPT ![f] = mux'[f]]
        BY <2>3, Sets, Zenon DEF MuxGoto
      <3>2. stream'[f] = Close(stream[f], "am", "ma") /\ stream' = [stream EXCEPT ![f] = stream'[f]]
        BY <2>3, Sets, Zenon DEF SetStreams
      <3>3. cut'[f] = TRUE /\ cut' = [cut EXCEPT ![f] = cut'[f]] BY <2>3, Sets, Zenon
      <3>4. Touches(f) BY <1>1, <2>1, <2>3, <3>1, <3>2, <3>3, Same, SystemFrame, Zenon
      <3>5. "am" \in Stream /\ "ma" \in Stream /\ "am" # "ma" BY Zenon DEF Stream
      <3>6. /\ FlowType(stream'[f], pump[f], TRUE, mux[f], px[f], sent[f], got[f])
            /\ FlowInv(stream'[f], pump[f], TRUE, mux[f], px[f], sent[f], got[f], d)
        <4>1. stream'[f] = Close(stream[f], "am", "ma") BY <3>2, Zenon
        <4> QED BY <1>f, <3>5, <4>1, CutClosing, Zenon
      <3>7. PhaseInv(pump[f], "closed", px[f], d) BY <1>p, <2>0, Zenon DEF PhaseInv
      <3>8. /\ FlowType(stream'[f], pump[f], TRUE, "closed", px[f], sent[f], got[f])
            /\ FlowInv(stream'[f], pump[f], TRUE, "closed", px[f], sent[f], got[f], d)
        BY <1>b, <3>6, <3>7, MuxTurns, Zenon
      <3>9. Good(f)' BY <1>a, <2>1, <2>3, <3>1, <3>3, <3>8, Zenon DEF Good
      <3>10. Slots(f) BY <2>0, <2>1, <2>3, <3>1, Zenon DEF Slots, SlotMoves, InMux, InProxy
      <3> QED BY <3>4, <3>9, <3>10, Zenon
    <2> QED BY <1>1, <2>2, <2>3, Zenon DEF muxAccept
  <1>2. CASE f \notin plan.guest /\ accept(f) /\ UNCHANGED <<spliceVars, muxVars, envVars>>
    <2>0. ~d /\ px[f].pc = "none" BY <1>a, <1>2, Zenon DEF accept
    <2>1. UNCHANGED <<stream, pump, cut, mux, leg, sem, sent, got, plan>>
      BY <1>2, Zenon DEF spliceVars, muxVars, envVars, accept
    <2>2. px'[f] = [px[f] EXCEPT !.pc = "accepted"] /\ px' = [px EXCEPT ![f] = px'[f]]
      <3>1. px' = [px EXCEPT ![f] = [px[f] EXCEPT !.pc = "accepted"]] BY <1>2, Zenon DEF accept, Px
      <3> QED BY <3>1, Sets, Zenon
    <2>3. Touches(f) BY <1>2, <2>1, <2>2, Same, SystemFrame, Zenon
    <2>4. px[f] \in PxState /\ "accepted" \in ProxyPC BY Zenon DEF Typed, ProxyPC
    <2>5. px'[f].pc = "accepted" /\ px'[f].ip = px[f].ip BY <2>2, <2>4, PxFacts
    <2>6. PhaseInv(pump[f], mux[f], px'[f], d) BY <1>p, <2>0, <2>5, Zenon DEF PhaseInv
    <2>7. /\ FlowType(stream[f], pump[f], cut[f], mux[f], px'[f], sent[f], got[f])
          /\ FlowInv(stream[f], pump[f], cut[f], mux[f], px'[f], sent[f], got[f], d)
      <3>1. mux[f] \in {"none", "dial", "splice", "closed"} BY Zenon DEF Typed
      <3> QED BY <1>f, <1>b, <2>0, <2>2, <2>6, <3>1, MuxTurns
    <2>8. Good(f)' BY <1>a, <2>1, <2>7, Zenon DEF Good
    <2>9. Slots(f) BY <2>0, <2>1, <2>5, SameSlots, Zenon DEF InMux, InProxy
    <2> QED BY <2>3, <2>8, <2>9, Zenon
  <1> QED BY <1>1, <1>2, Zenon DEF connect

LEMMA MuxActs ==
    ASSUME Typed, NEW f \in Flow, Good(f), MuxSteps(f)
    PROVE  Touches(f) /\ Good(f)' /\ Slots(f)
  <1>a. PICK d \in BOOLEAN :
           /\ d = (f \in plan.guest)
           /\ FlowType(stream[f], pump[f], cut[f], mux[f], px[f], sent[f], got[f])
           /\ FlowInv(stream[f], pump[f], cut[f], mux[f], px[f], sent[f], got[f], d)
    BY Kind, Zenon
  <1>f. /\ FlowType(stream[f], pump[f], cut[f], mux[f], px[f], sent[f], got[f])
        /\ FlowInv(stream[f], pump[f], cut[f], mux[f], px[f], sent[f], got[f], d)
    BY <1>a, Zenon
  <1>b. pump[f] \in Pumps /\ Alike(pump[f], pump[f]) BY Zenon DEF Typed, Alike
  <1>p. PhaseInv(pump[f], mux[f], px[f], d) BY <1>f, Zenon DEF FlowInv
  <1>1. CASE MuxDials(f)
    <2>0. /\ mux[f] = "dial" /\ px[f].pc = "none"
          /\ UNCHANGED <<stream, cut, leg, sem, sent, got, plan>>
      BY <1>1, Zenon DEF MuxDials, muxDial, accept, envVars
    <2>1. px'[f] = [px[f] EXCEPT !.pc = "accepted"] /\ px' = [px EXCEPT ![f] = px'[f]]
      <3>1. px' = [px EXCEPT ![f] = [px[f] EXCEPT !.pc = "accepted"]]
        BY <1>1, Zenon DEF MuxDials, accept, Px
      <3> QED BY <3>1, Sets, Zenon
    <2>2. mux'[f] = "splice" /\ mux' = [mux EXCEPT ![f] = mux'[f]]
      BY <1>1, Sets, Zenon DEF MuxDials, muxDial, MuxGoto
    <2> DEFINE P2 == [l \in Pump |-> IF l \in {"mf", "mb"} THEN [pc |-> "read", x |-> "dat"] ELSE pump[f][l]]
    <2>3. pump'[f] = P2 /\ pump' = [pump EXCEPT ![f] = pump'[f]]
      <3>1. pump' = [pump EXCEPT ![f] = P2] BY <1>1, Zenon DEF MuxDials, muxDial, started
      <3> HIDE DEF P2
      <3> QED BY <3>1, Sets, Zenon
    <2>4. UNCHANGED envVars BY <1>1, Zenon DEF MuxDials
    <2>5. Touches(f) BY <2>0, <2>1, <2>2, <2>3, <2>4, Same, SystemFrame, Zenon
    <2>6. /\ pump'[f] \in Pumps /\ Alike(pump[f], pump'[f])
          /\ pump'[f]["mf"].pc = "read" /\ pump'[f]["mb"].pc = "read"
          /\ pump'[f]["pf"] = pump[f]["pf"] /\ pump'[f]["pb"] = pump[f]["pb"]
      <3>1. {"mf", "mb"} \in SUBSET Pump /\ {"pf", "pb"} \subseteq Pump BY Zenon DEF Pump
      <3>2. \A l \in {"mf", "mb"} : pump[f][l].pc = "off" BY <1>p, <2>0, Zenon DEF PhaseInv
      <3>3. /\ pump'[f] \in Pumps /\ Alike(pump[f], pump'[f])
            /\ \A l \in {"mf", "mb"} : pump'[f][l].pc = "read"
            /\ \A l \in Pump : l \notin {"mf", "mb"} => pump'[f][l] = pump[f][l]
        BY <1>b, <2>3, <3>1, <3>2, Starts, ZenonT(30)
      <3> QED BY <3>1, <3>3, Zenon
    <2>7. px[f] \in PxState /\ "accepted" \in ProxyPC BY Zenon DEF Typed, ProxyPC
    <2>8. px'[f].pc = "accepted" /\ px'[f].ip = px[f].ip BY <2>1, <2>7, PxFacts
    <2>9. PhaseInv(pump'[f], "splice", px'[f], d) BY <1>p, <2>0, <2>6, <2>8, Zenon DEF PhaseInv
    <2>10. /\ FlowType(stream[f], pump'[f], cut[f], "splice", px'[f], sent[f], got[f])
           /\ FlowInv(stream[f], pump'[f], cut[f], "splice", px'[f], sent[f], got[f], d)
      <3>1. pump'[f] \in Pumps /\ Alike(pump[f], pump'[f]) BY <2>6, Zenon
      <3>2. px'[f] = [px[f] EXCEPT !.pc = "accepted"] BY <2>1, Zenon
      <3> HIDE DEF P2
      <3> QED BY <1>f, <2>0, <2>9, <3>1, <3>2, MuxTurns
    <2>11. Good(f)' BY <1>a, <2>0, <2>2, <2>10, Zenon DEF Good
    <2>12. Slots(f) BY <2>0, <2>2, <2>8, SameSlots, Zenon DEF InMux, InProxy
    <2> QED BY <2>5, <2>11, <2>12, Zenon
  <1>2. CASE muxDialErr(f) /\ UNCHANGED <<proxyVars, envVars>>
    <2>0. /\ mux[f] = "dial" /\ leg' = leg - 1
          /\ UNCHANGED <<pump, px, sem, sent, got, plan>>
      BY <1>2, Zenon DEF muxDialErr, proxyVars, envVars
    <2>1. mux'[f] = "closed" /\ mux' = [mux EXCEPT ![f] = mux'[f]]
      BY <1>2, Sets, Zenon DEF muxDialErr, MuxGoto
    <2>2. stream'[f] = Close(stream[f], "am", "ma") /\ stream' = [stream EXCEPT ![f] = stream'[f]]
      BY <1>2, Sets, Zenon DEF muxDialErr, SetStreams
    <2>3. cut'[f] = TRUE /\ cut' = [cut EXCEPT ![f] = cut'[f]] BY <1>2, Sets, Zenon DEF muxDialErr
    <2>4. Touches(f) BY <1>2, <2>0, <2>1, <2>2, <2>3, Same, SystemFrame, Zenon
    <2>5. "am" \in Stream /\ "ma" \in Stream /\ "am" # "ma" BY Zenon DEF Stream
    <2>6. /\ FlowType(stream'[f], pump[f], TRUE, mux[f], px[f], sent[f], got[f])
          /\ FlowInv(stream'[f], pump[f], TRUE, mux[f], px[f], sent[f], got[f], d)
      <3>1. stream'[f] = Close(stream[f], "am", "ma") BY <2>2, Zenon
      <3> QED BY <1>f, <2>5, <3>1, CutClosing, Zenon
    <2>7. PhaseInv(pump[f], "closed", px[f], d) BY <1>p, <2>0, Zenon DEF PhaseInv
    <2>8. /\ FlowType(stream'[f], pump[f], TRUE, "closed", px[f], sent[f], got[f])
          /\ FlowInv(stream'[f], pump[f], TRUE, "closed", px[f], sent[f], got[f], d)
      BY <1>b, <2>6, <2>7, MuxTurns, Zenon
    <2>9. Good(f)' BY <1>a, <2>0, <2>1, <2>3, <2>8, ZenonT(30) DEF Good
    <2>10. Slots(f) BY <2>0, <2>1, Zenon DEF Slots, SlotMoves, InMux, InProxy
    <2> QED BY <2>4, <2>9, <2>10, Zenon
  <1>3. CASE muxCopy(f) /\ UNCHANGED <<proxyVars, envVars>>
    <2>1. PICK k \in {"mf", "mb"} : copyStep(f, k) \/ writeDeadline(f, k) BY <1>3, Zenon DEF muxCopy
    <2>2. k \in Pump BY Zenon DEF Pump
    <2>3. UNCHANGED <<muxVars, proxyVars, envVars>> BY <1>3, Zenon DEF muxCopy
    <2> QED BY <2>1, <2>2, <2>3, CopyActs, Zenon
  <1>4. CASE muxClose(f) /\ UNCHANGED <<proxyVars, envVars>>
    <2>0. /\ mux[f] = "splice" /\ leg' = leg - 1 /\ pump[f]["mf"].pc = "done" /\ pump[f]["mb"].pc = "done"
          /\ UNCHANGED <<pump, cut, px, sem, sent, got, plan>>
      BY <1>4, Zenon DEF muxClose, Ended, proxyVars, envVars
    <2>1. mux'[f] = "closed" /\ mux' = [mux EXCEPT ![f] = mux'[f]]
      BY <1>4, Sets, Zenon DEF muxClose, MuxGoto
    <2>2. /\ stream'[f] = Close(Close(stream[f], "am", "ma"), "pm", "mp")
          /\ stream' = [stream EXCEPT ![f] = stream'[f]]
      BY <1>4, Sets, Zenon DEF muxClose, SetStreams
    <2>3. Touches(f) BY <1>4, <2>0, <2>1, <2>2, Same, SystemFrame, ZenonT(30)
    <2>4. /\ FlowType(stream'[f], pump[f], cut[f], mux[f], px[f], sent[f], got[f])
          /\ FlowInv(stream'[f], pump[f], cut[f], mux[f], px[f], sent[f], got[f], d)
      <3>1. stream'[f] = Close(Close(stream[f], "am", "ma"), "pm", "mp") BY <2>2, Zenon
      <3> QED BY <1>f, <2>0, <3>1, MuxCloses, Zenon
    <2>5. PhaseInv(pump[f], "closed", px[f], d) BY <1>p, <2>0, Zenon DEF PhaseInv
    <2>6. /\ FlowType(stream'[f], pump[f], cut[f], "closed", px[f], sent[f], got[f])
          /\ FlowInv(stream'[f], pump[f], cut[f], "closed", px[f], sent[f], got[f], d)
      BY <1>b, <2>4, <2>5, MuxTurns, Zenon
    <2>7. Good(f)' BY <1>a, <2>0, <2>1, <2>6, ZenonT(30) DEF Good
    <2>8. Slots(f) BY <2>0, <2>1, Zenon DEF Slots, SlotMoves, InMux, InProxy
    <2> QED BY <2>3, <2>7, <2>8, Zenon
  <1> QED BY <1>1, <1>2, <1>3, <1>4, Zenon DEF MuxSteps

\* A step of handleConn that touches no stream.
LEMMA ProxyTurns ==
    ASSUME NEW S, NEW P, NEW c, NEW m, NEW p, NEW n, NEW g, NEW d \in BOOLEAN,
           FlowType(S, P, c, m, p, n, g), FlowInv(S, P, c, m, p, n, g, d),
           NEW P2 \in Pumps, Alike(P, P2), NEW p2 \in PxState, PxInv(p2), PhaseInv(P2, m, p2, d),
           p.pc # "closed", p2.pc # "closed",
           p2.pc \in Unread <=> p.pc \in Unread, p2.pc \in Unreplied <=> p.pc \in Unreplied,
           p.pc \in Inspected => p2.pc \in Inspected
    PROVE  FlowType(S, P2, c, m, p2, n, g) /\ FlowInv(S, P2, c, m, p2, n, g, d)
  <1>0. c \in BOOLEAN /\ m \in {"none", "dial", "splice", "closed"} BY Zenon DEF FlowType
  <1>1. Replying(p2) => Replying(p) BY Zenon DEF Replying
  <1>2. p2.pc \notin Unread \cup {"closed"} \/ p2.recs # {} => n.asked
    <2>1. p2.pc \in Unread => p2.recs = {} BY Zenon DEF PxInv
    <2>2. p.pc \notin Unread => n.asked BY Zenon DEF FlowInv, AskedInv
    <2> QED BY <2>1, <2>2, Zenon
  <1>3. TurnOK(c, p, n, c, p2) BY <1>0, <1>1, <1>2, Zenon DEF TurnOK
  <1> QED BY <1>0, <1>3, Turns

LEMMA RefuseActs ==
    ASSUME Typed, NEW f \in Flow, Good(f), refuse(f), UNCHANGED <<muxVars, envVars>>,
           px[f].pc \in {"request", "check", "dial", "record", "passthrough"}
    PROVE  Touches(f) /\ Good(f)' /\ Slots(f)
  <1>a. PICK d \in BOOLEAN :
           /\ d = (f \in plan.guest)
           /\ FlowType(stream[f], pump[f], cut[f], mux[f], px[f], sent[f], got[f])
           /\ FlowInv(stream[f], pump[f], cut[f], mux[f], px[f], sent[f], got[f], d)
    BY Kind, Zenon
  <1>f. /\ FlowType(stream[f], pump[f], cut[f], mux[f], px[f], sent[f], got[f])
        /\ FlowInv(stream[f], pump[f], cut[f], mux[f], px[f], sent[f], got[f], d)
    BY <1>a, Zenon
  <1>0. UNCHANGED <<pump, mux, leg, sent, got, plan>> BY Zenon DEF refuse, muxVars, envVars
  <1>1. return(f, Replied(f, "ERR")) /\ cut' = [cut EXCEPT ![f] = TRUE] BY Zenon DEF refuse
  <1>2. /\ px' = [px EXCEPT ![f] = px'[f]]
        /\ px'[f] \in PxState /\ px'[f].pc = "closed"
        /\ px'[f].ip = px[f].ip /\ px'[f].recs = px[f].recs
        /\ px[f].ip # NoIP => px'[f].host = px[f].host
        /\ stream' = [stream EXCEPT ![f] = stream'[f]] /\ sem' = sem - 1
    BY <1>1, ReturnFacts, Zenon
  <1>3. PICK u \in BOOLEAN : stream'[f] = closeConns(Replied(f, "ERR"), u)
    BY <1>1, ReturnFacts, Zenon
  <1>4. cut'[f] = TRUE /\ cut' = [cut EXCEPT ![f] = cut'[f]] BY <1>1, Sets, Zenon
  <1>5. Touches(f) BY <1>0, <1>2, <1>4, Same, SystemFrame, Zenon
  <1>6. /\ FlowType(stream'[f], pump[f], TRUE, mux[f], px'[f], sent[f], got[f])
        /\ FlowInv(stream'[f], pump[f], TRUE, mux[f], px'[f], sent[f], got[f], d)
    <2>1. PICK S, P, c, m, p, n, g, S2, p2 :
             /\ S = stream[f] /\ P = pump[f] /\ c = cut[f] /\ m = mux[f] /\ p = px[f]
             /\ n = sent[f] /\ g = got[f] /\ S2 = stream'[f] /\ p2 = px'[f]
      BY Zenon
    <2>2. FlowType(S, P, c, m, p, n, g) /\ FlowInv(S, P, c, m, p, n, g, d) BY <1>f, <2>1, Zenon
    <2>3. /\ p2 \in PxState /\ p2.pc = "closed" /\ p2.ip = p.ip /\ p2.recs = p.recs
          /\ p.ip # NoIP => p2.host = p.host
      BY <1>2, <2>1, Zenon
    <2>4. \/ S2 = closeConns(S, u)
          \/ ~Full(S, "pm") /\ S2 = closeConns(Put(S, "pm", "ERR"), u)
      BY <1>3, <2>1, Zenon DEF Replied, CanReply
    <2>5. p.pc \in Refusable BY <2>1, Zenon DEF Refusable
    <2>6. FlowType(S2, P, TRUE, m, p2, n, g) /\ FlowInv(S2, P, TRUE, m, p2, n, g, d)
      BY <2>2, <2>3, <2>4, <2>5, Refuses, ZenonT(30)
    <2> QED BY <2>1, <2>6, Zenon
  <1>7. Good(f)' BY <1>a, <1>0, <1>4, <1>6, Zenon DEF Good
  <1>8. Slots(f) BY <1>0, <1>2, Zenon DEF Slots, SlotMoves, InMux, InProxy
  <1> QED BY <1>5, <1>7, <1>8, Zenon

\* A return with no reply: dropFlow, and the end of splice and of inspectRelay.
LEMMA ReturnActs ==
    ASSUME Typed, NEW f \in Flow, Good(f), return(f, stream[f]), UNCHANGED <<pump, muxVars, envVars>>,
           \/ /\ cut' = [cut EXCEPT ![f] = TRUE]
              /\ px[f].pc \in {"reply", "terminate", "leaf", "hsClient", "hsUpstream"}
           \/ cut' = cut /\ px[f].pc \in {"splice", "inspect"} /\ Ended(f, {"pf", "pb"})
    PROVE  Touches(f) /\ Good(f)' /\ Slots(f)
  <1>a. PICK d \in BOOLEAN :
           /\ d = (f \in plan.guest)
           /\ FlowType(stream[f], pump[f], cut[f], mux[f], px[f], sent[f], got[f])
           /\ FlowInv(stream[f], pump[f], cut[f], mux[f], px[f], sent[f], got[f], d)
    BY Kind, Zenon
  <1>f. /\ FlowType(stream[f], pump[f], cut[f], mux[f], px[f], sent[f], got[f])
        /\ FlowInv(stream[f], pump[f], cut[f], mux[f], px[f], sent[f], got[f], d)
    BY <1>a, Zenon
  <1>0. UNCHANGED <<pump, mux, leg, sent, got, plan>> BY Zenon DEF muxVars, envVars
  <1>2. /\ px' = [px EXCEPT ![f] = px'[f]]
        /\ px'[f] \in PxState /\ px'[f].pc = "closed"
        /\ px'[f].ip = px[f].ip /\ px'[f].recs = px[f].recs
        /\ px[f].ip # NoIP => px'[f].host = px[f].host
        /\ stream' = [stream EXCEPT ![f] = stream'[f]] /\ sem' = sem - 1
    BY ReturnFacts, Zenon
  <1>3. PICK u \in BOOLEAN : stream'[f] = closeConns(stream[f], u)
    BY ReturnFacts, Zenon
  <1>4. /\ cut'[f] \in BOOLEAN /\ cut' = [cut EXCEPT ![f] = cut'[f]]
        /\ \/ cut'[f] /\ px[f].pc \in {"reply", "terminate", "leaf", "hsClient", "hsUpstream"}
           \/ /\ cut'[f] = cut[f] /\ px[f].pc \in {"splice", "inspect"}
              /\ pump[f]["pf"].pc = "done" /\ pump[f]["pb"].pc = "done"
    BY Zenon DEF Typed, Ended
  <1>5. Touches(f) BY <1>0, <1>2, <1>4, Same, SystemFrame, Zenon
  <1>6. /\ FlowType(stream'[f], pump[f], cut'[f], mux[f], px'[f], sent[f], got[f])
        /\ FlowInv(stream'[f], pump[f], cut'[f], mux[f], px'[f], sent[f], got[f], d)
    <2>0. PICK c2 \in BOOLEAN : c2 = cut'[f] BY <1>4, Zenon
    <2>1. PICK S2, p2 : S2 = stream'[f] /\ p2 = px'[f] BY Zenon
    <2>2. /\ p2 \in PxState /\ p2.pc = "closed" /\ p2.ip = px[f].ip /\ p2.recs = px[f].recs
          /\ px[f].ip # NoIP => p2.host = px[f].host
      BY <1>2, <2>1, Zenon
    <2>3. S2 = closeConns(stream[f], u) BY <1>3, <2>1, Zenon
    <2>4. \/ c2 /\ px[f].pc \in {"reply", "terminate", "leaf", "hsClient", "hsUpstream"}
          \/ /\ c2 = cut[f] /\ px[f].pc \in {"splice", "inspect"}
             /\ pump[f]["pf"].pc = "done" /\ pump[f]["pb"].pc = "done"
      BY <1>4, <2>0, ZenonT(30)
    <2>5. /\ FlowType(S2, pump[f], c2, mux[f], p2, sent[f], got[f])
          /\ FlowInv(S2, pump[f], c2, mux[f], p2, sent[f], got[f], d)
      BY <1>f, <2>2, <2>3, <2>4, Returns
    <2> QED BY <2>0, <2>1, <2>5, Zenon
  <1>7. Good(f)' BY <1>a, <1>0, <1>6, ZenonT(30) DEF Good
  <1>8. Slots(f) BY <1>0, <1>2, Zenon DEF Slots, SlotMoves, InMux, InProxy
  <1> QED BY <1>5, <1>7, <1>8, Zenon

\* Where handleConn holds a slot and has no copy loops yet.
Middle == {"request", "check", "dial", "record", "passthrough", "reply", "terminate", "leaf",
           "hsClient", "hsUpstream"}

LEMMA PxActs ==
    ASSUME Typed, NEW f \in Flow, Good(f), px' = [px EXCEPT ![f] = px'[f]],
           UNCHANGED <<spliceVars, sem, muxVars, envVars>>,
           px'[f] \in PxState, PxInv(px'[f]), px[f].pc \in Middle, px'[f].pc \in Middle,
           px'[f].pc \in Unread <=> px[f].pc \in Unread,
           px'[f].pc \in Unreplied <=> px[f].pc \in Unreplied,
           px[f].pc \in Inspected => px'[f].pc \in Inspected
    PROVE  Touches(f) /\ Good(f)' /\ Slots(f)
  <1>a. PICK d \in BOOLEAN :
           /\ d = (f \in plan.guest)
           /\ FlowType(stream[f], pump[f], cut[f], mux[f], px[f], sent[f], got[f])
           /\ FlowInv(stream[f], pump[f], cut[f], mux[f], px[f], sent[f], got[f], d)
    BY Kind, Zenon
  <1>f. /\ FlowType(stream[f], pump[f], cut[f], mux[f], px[f], sent[f], got[f])
        /\ FlowInv(stream[f], pump[f], cut[f], mux[f], px[f], sent[f], got[f], d)
    BY <1>a, Zenon
  <1>0. UNCHANGED <<stream, pump, cut, mux, leg, sent, got, plan>>
    BY Zenon DEF spliceVars, muxVars, envVars
  <1>1. Touches(f) BY <1>0, Same, SystemFrame, Zenon
  <1>2. /\ px[f].pc \notin {"none", "accepted", "splice", "inspect", "closed"}
        /\ px'[f].pc \notin {"none", "accepted", "splice", "inspect", "closed"}
    BY Zenon DEF Middle
  <1>3. PhaseInv(pump[f], mux[f], px'[f], d)
    <2>1. PhaseInv(pump[f], mux[f], px[f], d) BY <1>f, Zenon DEF FlowInv
    <2> QED BY <1>2, <2>1, Zenon DEF PhaseInv
  <1>4. pump[f] \in Pumps /\ Alike(pump[f], pump[f]) BY Zenon DEF Typed, Alike
  <1>5. /\ FlowType(stream[f], pump[f], cut[f], mux[f], px'[f], sent[f], got[f])
        /\ FlowInv(stream[f], pump[f], cut[f], mux[f], px'[f], sent[f], got[f], d)
    BY <1>f, <1>2, <1>3, <1>4, ProxyTurns
  <1>6. Good(f)' BY <1>a, <1>0, <1>5, Zenon DEF Good
  <1>7. Slots(f) BY <1>0, <1>2, SameSlots, Zenon DEF InMux, InProxy
  <1> QED BY <1>1, <1>6, <1>7, Zenon

\* handleConn up to its reply, and leafFor.
LEMMA DecideActs ==
    ASSUME Typed, NEW f \in Flow, Good(f), UNCHANGED <<muxVars, envVars>>,
           \/ disposition(f) \/ badRequest(f) \/ dialErr(f) \/ recordEgress(f)
           \/ recordPassthrough(f) \/ leafFor(f) \/ \E ip \in Resolved : dial(f, ip)
    PROVE  Touches(f) /\ Good(f)' /\ Slots(f)
  <1>0. px[f] \in PxState /\ PxInv(px[f]) BY ZenonT(30) DEF Typed, Good, FlowInv
  <1>1. CASE badRequest(f) BY <1>1, RefuseActs, Zenon DEF badRequest
  <1>2. CASE dialErr(f) BY <1>2, RefuseActs, Zenon DEF dialErr
  <1>3. CASE disposition(f)
    <2>0. px[f].pc = "check" BY <1>3, Zenon DEF disposition
    <2>1. CASE refuse(f) BY <2>0, <2>1, RefuseActs, Zenon
    <2>2. CASE /\ px[f].host \in Allowed /\ ~(ModeOf[px[f].host] = "inspect" /\ ~CanTerminate(f))
               /\ Px(f, "dial") /\ UNCHANGED <<spliceVars, sem>>
      <3>1. px' = [px EXCEPT ![f] = [px[f] EXCEPT !.pc = "dial"]] BY <2>2, Zenon DEF Px
      <3>2. px'[f] = [px[f] EXCEPT !.pc = "dial"] /\ px' = [px EXCEPT ![f] = px'[f]]
        BY <3>1, Sets, Zenon
      <3>3. "dial" \in ProxyPC BY Zenon DEF ProxyPC
      <3>4. /\ px'[f] \in PxState /\ px'[f].pc = "dial" /\ px'[f].host = px[f].host
            /\ px'[f].ip = px[f].ip /\ px'[f].recs = px[f].recs
        BY <1>0, <3>2, <3>3, Zenon DEF PxState
      <3>5. PxInv(px'[f]) BY <1>0, <2>0, <2>2, <3>4, ZenonT(30) DEF PxInv, Unread, Inspected, CanTerminate
      <3>6. /\ px[f].pc \in Middle /\ px'[f].pc \in Middle
            /\ px'[f].pc \in Unread <=> px[f].pc \in Unread
            /\ px'[f].pc \in Unreplied <=> px[f].pc \in Unreplied
            /\ px[f].pc \in Inspected => px'[f].pc \in Inspected
        BY <2>0, <3>4, Zenon DEF Middle, Unread, Unreplied, Inspected
      <3> QED BY <2>2, <3>2, <3>4, <3>5, <3>6, PxActs, Zenon
    <2> QED BY <1>3, <2>1, <2>2, ZenonT(30) DEF disposition
  <1>4. CASE \E ip \in Resolved : dial(f, ip)
    <2>0. PICK ip \in Resolved : dial(f, ip) BY <1>4, Zenon
    <2>1. /\ px[f].pc = "dial" /\ checkDialAddr(ip, internalCIDRs) /\ UNCHANGED <<spliceVars, sem>>
      BY <2>0, Zenon DEF dial
    <2>2. px' = [px EXCEPT ![f] = [px[f] EXCEPT !.pc = "record", !.ip = ip]] BY <2>0, Zenon DEF dial
    <2>3. px'[f] = [px[f] EXCEPT !.pc = "record", !.ip = ip] /\ px' = [px EXCEPT ![f] = px'[f]]
      BY <2>2, Sets, Zenon
    <2>4. /\ px'[f] \in PxState /\ px'[f].pc = "record" /\ px'[f].host = px[f].host
          /\ px'[f].ip = ip /\ px'[f].recs = px[f].recs
      <3>1. "record" \in ProxyPC BY Zenon DEF ProxyPC
      <3> QED BY <1>0, <2>3, <3>1, ZenonT(30) DEF PxState
    <2>5. ip # NoIP BY ProxyAssumption, Zenon
    <2>6. PxInv(px'[f]) BY <1>0, <2>1, <2>4, <2>5, ZenonT(30) DEF PxInv, Unread, Inspected
    <2>7. /\ px[f].pc \in Middle /\ px'[f].pc \in Middle
          /\ px'[f].pc \in Unread <=> px[f].pc \in Unread
          /\ px'[f].pc \in Unreplied <=> px[f].pc \in Unreplied
          /\ px[f].pc \in Inspected => px'[f].pc \in Inspected
      BY <2>1, <2>4, Zenon DEF Middle, Unread, Unreplied, Inspected
    <2> QED BY <2>1, <2>3, <2>4, <2>6, <2>7, PxActs, Zenon
  <1>5. CASE recordEgress(f)
    <2>0. px[f].pc = "record" BY <1>5, Zenon DEF recordEgress
    <2>1. CASE refuse(f) BY <2>0, <2>1, RefuseActs, Zenon
    <2> DEFINE x == IF ModeOf[px[f].host] = "inspect" THEN "terminate" ELSE "passthrough"
               p2 == [px[f] EXCEPT !.recs = @ \cup {"allow"}, !.pc = x]
    <2>2. CASE px' = [px EXCEPT ![f] = p2] /\ UNCHANGED <<spliceVars, sem>>
      <3>1. x \in ProxyPC /\ px[f].recs = {} /\ px[f].recs \cup {"allow"} \in SUBSET {"allow", "passthrough"}
        BY <1>0, <2>0, Zenon DEF ProxyPC, PxInv
      <3> HIDE DEF x
      <3>2. /\ p2 \in PxState /\ p2.pc = x /\ p2.host = px[f].host
            /\ p2.ip = px[f].ip /\ p2.recs = px[f].recs \cup {"allow"}
        BY <1>0, <3>1, Zenon DEF PxState
      <3> HIDE DEF p2
      <3>3. px'[f] = p2 /\ px' = [px EXCEPT ![f] = px'[f]] BY <2>2, Sets, ZenonT(30)
      <3>4. /\ px'[f] \in PxState /\ px'[f].pc = x /\ px'[f].host = px[f].host
            /\ px'[f].ip = px[f].ip /\ px'[f].recs = {"allow"}
        BY <3>1, <3>2, <3>3, Zenon
      <3>5. PxInv(px'[f])
        <4>1. CASE ModeOf[px[f].host] = "inspect"
          <5>1. px'[f].pc = "terminate" BY <3>4, <4>1, Zenon DEF x
          <5> QED BY <1>0, <2>0, <3>4, <4>1, <5>1, Zenon DEF PxInv, Unread, Inspected
        <4>2. CASE ModeOf[px[f].host] # "inspect"
          <5>1. px'[f].pc = "passthrough" BY <3>4, <4>2, Zenon DEF x
          <5> QED BY <1>0, <2>0, <3>4, <4>2, <5>1, ZenonT(30) DEF PxInv, Unread, Inspected
        <4> QED BY <4>1, <4>2, Zenon
      <3>6. /\ px[f].pc \in Middle /\ px'[f].pc \in Middle
            /\ px'[f].pc \in Unread <=> px[f].pc \in Unread
            /\ px'[f].pc \in Unreplied <=> px[f].pc \in Unreplied
            /\ px[f].pc \in Inspected => px'[f].pc \in Inspected
        BY <2>0, <3>4, Zenon DEF x, Middle, Unread, Unreplied, Inspected
      <3> QED BY <2>2, <3>3, <3>4, <3>5, <3>6, PxActs, Zenon
    <2> QED BY <1>5, <2>1, <2>2, Zenon DEF recordEgress
  <1>6. CASE recordPassthrough(f)
    <2>0. px[f].pc = "passthrough" BY <1>6, Zenon DEF recordPassthrough
    <2>1. CASE refuse(f) BY <2>0, <2>1, RefuseActs, Zenon
    <2> DEFINE p2 == [px[f] EXCEPT !.recs = @ \cup {"passthrough"}, !.pc = "reply"]
    <2>2. CASE px' = [px EXCEPT ![f] = p2] /\ UNCHANGED <<spliceVars, sem>>
      <3>1. /\ "reply" \in ProxyPC /\ px[f].recs = {"allow"}
            /\ px[f].recs \cup {"passthrough"} \in SUBSET {"allow", "passthrough"}
        BY <1>0, <2>0, Zenon DEF ProxyPC, PxInv
      <3>2. /\ p2 \in PxState /\ p2.pc = "reply" /\ p2.host = px[f].host
            /\ p2.ip = px[f].ip /\ p2.recs = px[f].recs \cup {"passthrough"}
        BY <1>0, <3>1, Zenon DEF PxState
      <3> HIDE DEF p2
      <3>3. px'[f] = p2 /\ px' = [px EXCEPT ![f] = px'[f]] BY <2>2, Sets, Zenon
      <3>4. /\ px'[f] \in PxState /\ px'[f].pc = "reply" /\ px'[f].host = px[f].host
            /\ px'[f].ip = px[f].ip /\ px'[f].recs = {"allow", "passthrough"}
        BY <3>1, <3>2, <3>3, Zenon
      <3>5. PxInv(px'[f]) BY <1>0, <2>0, <3>4, ZenonT(30) DEF PxInv, Unread, Inspected
      <3>6. /\ px[f].pc \in Middle /\ px'[f].pc \in Middle
            /\ px'[f].pc \in Unread <=> px[f].pc \in Unread
            /\ px'[f].pc \in Unreplied <=> px[f].pc \in Unreplied
            /\ px[f].pc \in Inspected => px'[f].pc \in Inspected
        BY <2>0, <3>4, Zenon DEF Middle, Unread, Unreplied, Inspected
      <3> QED BY <2>2, <3>3, <3>4, <3>5, <3>6, PxActs, Zenon
    <2> QED BY <1>6, <2>1, <2>2, ZenonT(30) DEF recordPassthrough
  <1>7. CASE leafFor(f)
    <2>0. px[f].pc = "leaf" BY <1>7, Zenon DEF leafFor
    <2>1. CASE dropFlow(f) BY <2>0, <2>1, ReturnActs, Zenon DEF dropFlow
    <2>2. CASE Px(f, "hsClient") /\ UNCHANGED <<spliceVars, sem>>
      <3>1. px' = [px EXCEPT ![f] = [px[f] EXCEPT !.pc = "hsClient"]] BY <2>2, Zenon DEF Px
      <3>2. px'[f] = [px[f] EXCEPT !.pc = "hsClient"] /\ px' = [px EXCEPT ![f] = px'[f]]
        BY <3>1, Sets, Zenon
      <3>3. "hsClient" \in ProxyPC BY Zenon DEF ProxyPC
      <3>4. /\ px'[f] \in PxState /\ px'[f].pc = "hsClient" /\ px'[f].host = px[f].host
            /\ px'[f].ip = px[f].ip /\ px'[f].recs = px[f].recs
        BY <1>0, <3>2, <3>3, Zenon DEF PxState
      <3>5. PxInv(px'[f]) BY <1>0, <2>0, <3>4, ZenonT(30) DEF PxInv, Unread, Inspected
      <3>6. /\ px[f].pc \in Middle /\ px'[f].pc \in Middle
            /\ px'[f].pc \in Unread <=> px[f].pc \in Unread
            /\ px'[f].pc \in Unreplied <=> px[f].pc \in Unreplied
            /\ px[f].pc \in Inspected => px'[f].pc \in Inspected
        BY <2>0, <3>4, Zenon DEF Middle, Unread, Unreplied, Inspected
      <3> QED BY <2>2, <3>2, <3>4, <3>5, <3>6, PxActs, Zenon
    <2> QED BY <1>7, <2>1, <2>2, ZenonT(30) DEF leafFor
  <1> QED BY <1>1, <1>2, <1>3, <1>4, <1>5, <1>6, <1>7, Zenon

\* The slot, or "ERR busy" and a close.
LEMMA AcquireActs ==
    ASSUME Typed, NEW f \in Flow, Good(f), acquire(f), UNCHANGED <<muxVars, envVars>>
    PROVE  Touches(f) /\ Good(f)' /\ Slots(f)
  <1>a. PICK d \in BOOLEAN :
           /\ d = (f \in plan.guest)
           /\ FlowType(stream[f], pump[f], cut[f], mux[f], px[f], sent[f], got[f])
           /\ FlowInv(stream[f], pump[f], cut[f], mux[f], px[f], sent[f], got[f], d)
    BY Kind, Zenon
  <1>f. /\ FlowType(stream[f], pump[f], cut[f], mux[f], px[f], sent[f], got[f])
        /\ FlowInv(stream[f], pump[f], cut[f], mux[f], px[f], sent[f], got[f], d)
    BY <1>a, ZenonT(30)
  <1>b. px[f] \in PxState /\ pump[f] \in Pumps /\ Alike(pump[f], pump[f]) BY Zenon DEF Typed, Alike
  <1>p. PxInv(px[f]) /\ PhaseInv(pump[f], mux[f], px[f], d) BY <1>f, Zenon DEF FlowInv
  <1>0. px[f].pc = "accepted" /\ UNCHANGED <<mux, leg, sent, got, plan>>
    BY Zenon DEF acquire, muxVars, envVars
  <1>1. CASE sem < maxConcurrent /\ sem' = sem + 1 /\ Px(f, "request") /\ UNCHANGED spliceVars
    <2>0. UNCHANGED <<stream, pump, cut>> BY <1>1, Zenon DEF spliceVars
    <2>1. px' = [px EXCEPT ![f] = [px[f] EXCEPT !.pc = "request"]] BY <1>1, Zenon DEF Px
    <2>2. px'[f] = [px[f] EXCEPT !.pc = "request"] /\ px' = [px EXCEPT ![f] = px'[f]]
      BY <2>1, Sets, Zenon
    <2>3. "request" \in ProxyPC BY Zenon DEF ProxyPC
    <2>4. /\ px'[f] \in PxState /\ px'[f].pc = "request" /\ px'[f].host = px[f].host
          /\ px'[f].ip = px[f].ip /\ px'[f].recs = px[f].recs
      BY <1>b, <2>2, <2>3, Zenon DEF PxState
    <2>5. Touches(f) BY <1>0, <2>0, <2>2, Same, SystemFrame, Zenon
    <2>6. PxInv(px'[f]) BY <1>0, <1>p, <2>4, ZenonT(30) DEF PxInv, Unread, Inspected
    <2>7. PhaseInv(pump[f], mux[f], px'[f], d) BY <1>0, <1>p, <2>4, Zenon DEF PhaseInv
    <2>8. /\ px'[f].pc # "closed" /\ px[f].pc # "closed"
          /\ px'[f].pc \in Unread <=> px[f].pc \in Unread
          /\ px'[f].pc \in Unreplied <=> px[f].pc \in Unreplied
          /\ px[f].pc \in Inspected => px'[f].pc \in Inspected
      BY <1>0, <2>4, Zenon DEF Unread, Unreplied, Inspected
    <2>9. px'[f] \in PxState BY <2>4, Zenon
    <2>10. /\ FlowType(stream[f], pump[f], cut[f], mux[f], px'[f], sent[f], got[f])
           /\ FlowInv(stream[f], pump[f], cut[f], mux[f], px'[f], sent[f], got[f], d)
      BY <1>f, <1>b, <2>6, <2>7, <2>8, <2>9, ProxyTurns, Zenon
    <2>11. Good(f)' BY <1>a, <1>0, <2>0, <2>10, Zenon DEF Good
    <2>12. Slots(f) BY <1>0, <1>1, <2>4, Zenon DEF Slots, SlotMoves, InMux, InProxy
    <2> QED BY <2>5, <2>11, <2>12, Zenon
  <1>2. CASE /\ SetStreams(f, Close(Replied(f, "ERR"), "mp", "pm"))
             /\ cut' = [cut EXCEPT ![f] = TRUE]
             /\ Px(f, "closed") /\ UNCHANGED <<pump, sem>>
    <2>1. px' = [px EXCEPT ![f] = [px[f] EXCEPT !.pc = "closed"]] BY <1>2, Zenon DEF Px
    <2>2. px'[f] = [px[f] EXCEPT !.pc = "closed"] /\ px' = [px EXCEPT ![f] = px'[f]]
      BY <2>1, Sets, Zenon
    <2>3. "closed" \in ProxyPC BY Zenon DEF ProxyPC
    <2>4. /\ px'[f] \in PxState /\ px'[f].pc = "closed" /\ px'[f].host = px[f].host
          /\ px'[f].ip = px[f].ip /\ px'[f].recs = px[f].recs
      BY <1>b, <2>2, <2>3, Zenon DEF PxState
    <2>5. cut'[f] = TRUE /\ cut' = [cut EXCEPT ![f] = cut'[f]] BY <1>2, Sets, Zenon
    <2>6. /\ stream'[f] = Close(Replied(f, "ERR"), "mp", "pm")
          /\ stream' = [stream EXCEPT ![f] = stream'[f]]
      BY <1>2, Sets, Zenon DEF SetStreams
    <2>7. Touches(f) BY <1>0, <1>2, <2>2, <2>5, <2>6, Same, SystemFrame, Zenon
    <2>8. /\ FlowType(stream'[f], pump[f], TRUE, mux[f], px'[f], sent[f], got[f])
          /\ FlowInv(stream'[f], pump[f], TRUE, mux[f], px'[f], sent[f], got[f], d)
      <3>1. PICK S, P, c, m, p, n, g, S2, p2 :
               /\ S = stream[f] /\ P = pump[f] /\ c = cut[f] /\ m = mux[f] /\ p = px[f]
               /\ n = sent[f] /\ g = got[f] /\ S2 = stream'[f] /\ p2 = px'[f]
        BY Zenon
      <3>2. FlowType(S, P, c, m, p, n, g) /\ FlowInv(S, P, c, m, p, n, g, d) BY <1>f, <3>1, Zenon
      <3>3. /\ p2 \in PxState /\ p2.pc = "closed" /\ p2.ip = p.ip /\ p2.recs = p.recs
            /\ p.ip # NoIP => p2.host = p.host
        BY <2>4, <3>1, Zenon
      <3>4. \A R : closeConns(R, FALSE) = Close(R, "mp", "pm") BY Zenon DEF closeConns
      <3>5. Replied(f, "ERR") = S \/ (~Full(S, "pm") /\ Replied(f, "ERR") = Put(S, "pm", "ERR"))
        BY <3>1, Zenon DEF Replied, CanReply
      <3>6. PICK u \in BOOLEAN : u = FALSE BY Zenon
      <3>7. \/ S2 = closeConns(S, u)
            \/ ~Full(S, "pm") /\ S2 = closeConns(Put(S, "pm", "ERR"), u)
        BY <2>6, <3>1, <3>4, <3>5, <3>6, Zenon
      <3>8. p.pc \in Refusable BY <1>0, <3>1, Zenon DEF Refusable
      <3>9. FlowType(S2, P, TRUE, m, p2, n, g) /\ FlowInv(S2, P, TRUE, m, p2, n, g, d)
        BY <3>2, <3>3, <3>7, <3>8, Refuses, ZenonT(30)
      <3> QED BY <3>1, <3>9, Zenon
    <2>9. Good(f)' BY <1>a, <1>0, <1>2, <2>5, <2>8, Zenon DEF Good
    <2>10. Slots(f) BY <1>0, <1>2, <2>4, SameSlots, Zenon DEF InMux, InProxy
    <2> QED BY <2>7, <2>9, <2>10, Zenon
  <1> QED BY <1>1, <1>2, Zenon DEF acquire

LEMMA ReadActs ==
    ASSUME Typed, NEW f \in Flow, Good(f), NEW host \in Host, readRequest(f, host),
           UNCHANGED <<muxVars, envVars>>
    PROVE  Touches(f) /\ Good(f)' /\ Slots(f)
  <1>a. PICK d \in BOOLEAN :
           /\ d = (f \in plan.guest)
           /\ FlowType(stream[f], pump[f], cut[f], mux[f], px[f], sent[f], got[f])
           /\ FlowInv(stream[f], pump[f], cut[f], mux[f], px[f], sent[f], got[f], d)
    BY Kind, Zenon
  <1>f. /\ FlowType(stream[f], pump[f], cut[f], mux[f], px[f], sent[f], got[f])
        /\ FlowInv(stream[f], pump[f], cut[f], mux[f], px[f], sent[f], got[f], d)
    BY <1>a, Zenon
  <1>b. px[f] \in PxState /\ pump[f] \in Pumps /\ Alike(pump[f], pump[f]) BY Zenon DEF Typed, Alike
  <1>p. PxInv(px[f]) /\ PhaseInv(pump[f], mux[f], px[f], d) BY <1>f, Zenon DEF FlowInv
  <1>0. /\ px[f].pc = "request" /\ UNCHANGED <<pump, cut, mux, leg, sem, sent, got, plan>>
        /\ stream[f]["mp"].q # <<>> /\ Head(stream[f]["mp"].q) = "req"
    BY Zenon DEF readRequest, muxVars, envVars
  <1>1. px' = [px EXCEPT ![f] = [px[f] EXCEPT !.pc = "check", !.host = host]] BY Zenon DEF readRequest
  <1>2. px'[f] = [px[f] EXCEPT !.pc = "check", !.host = host] /\ px' = [px EXCEPT ![f] = px'[f]]
    BY <1>1, Sets, Zenon
  <1>3. /\ px'[f] \in PxState /\ px'[f].pc = "check" /\ px'[f].host = host
        /\ px'[f].ip = px[f].ip /\ px'[f].recs = px[f].recs
    <2>1. "check" \in ProxyPC BY Zenon DEF ProxyPC
    <2> QED BY <1>b, <1>2, <2>1, Zenon DEF PxState
  <1>4. stream'[f] = Take(stream[f], "mp") /\ stream' = [stream EXCEPT ![f] = stream'[f]]
    BY Sets, Zenon DEF readRequest, SetStreams
  <1>5. Touches(f) BY <1>0, <1>2, <1>4, Same, SystemFrame, Zenon
  <1>6. /\ FlowType(stream'[f], pump[f], cut[f], mux[f], px'[f], sent[f], got[f])
        /\ FlowInv(stream'[f], pump[f], cut[f], mux[f], px'[f], sent[f], got[f], d)
    <2>1. stream'[f] = Take(stream[f], "mp") BY <1>4, Zenon
    <2> QED BY <1>f, <1>0, <1>3, <2>1, ReadsRequest, Zenon
  <1>7. Good(f)' BY <1>a, <1>0, <1>6, Zenon DEF Good
  <1>8. Slots(f) BY <1>0, <1>3, SameSlots, ZenonT(30) DEF InMux, InProxy
  <1> QED BY <1>5, <1>7, <1>8, Zenon

\* "OK" is written: by handleConn, which splices then, or by terminate.
LEMMA ReplyActs ==
    ASSUME Typed, NEW f \in Flow, Good(f), NEW x, Px(f, x),
           SetStreams(f, Put(stream[f], "pm", "OK")), CanReply(f),
           UNCHANGED <<cut, sem, muxVars, envVars>>,
           \/ px[f].pc = "reply" /\ x = "splice" /\ pump' = started(f, {"pf", "pb"})
           \/ px[f].pc = "terminate" /\ x = "leaf" /\ pump' = pump
    PROVE  Touches(f) /\ Good(f)' /\ Slots(f)
  <1>a. PICK d \in BOOLEAN :
           /\ d = (f \in plan.guest)
           /\ FlowType(stream[f], pump[f], cut[f], mux[f], px[f], sent[f], got[f])
           /\ FlowInv(stream[f], pump[f], cut[f], mux[f], px[f], sent[f], got[f], d)
    BY Kind, Zenon
  <1>f. /\ FlowType(stream[f], pump[f], cut[f], mux[f], px[f], sent[f], got[f])
        /\ FlowInv(stream[f], pump[f], cut[f], mux[f], px[f], sent[f], got[f], d)
    BY <1>a, ZenonT(30)
  <1>b. px[f] \in PxState /\ pump[f] \in Pumps /\ Alike(pump[f], pump[f]) BY Zenon DEF Typed, Alike
  <1>p. PxInv(px[f]) /\ PhaseInv(pump[f], mux[f], px[f], d) BY <1>f, Zenon DEF FlowInv
  <1>0. UNCHANGED <<cut, mux, leg, sem, sent, got, plan>> BY Zenon DEF muxVars, envVars
  <1>1. x \in {"splice", "leaf"} BY Zenon
  <1>2. px' = [px EXCEPT ![f] = [px[f] EXCEPT !.pc = x]] BY Zenon DEF Px
  <1>3. px'[f] = [px[f] EXCEPT !.pc = x] /\ px' = [px EXCEPT ![f] = px'[f]]
    BY <1>2, Sets, Zenon
  <1>4. /\ px'[f] \in PxState /\ px'[f].pc = x /\ px'[f].host = px[f].host
        /\ px'[f].ip = px[f].ip /\ px'[f].recs = px[f].recs
    <2>1. x \in ProxyPC BY Zenon DEF ProxyPC
    <2> QED BY <1>b, <1>3, <2>1, ZenonT(30) DEF PxState
  <1>5. /\ stream'[f] = Put(stream[f], "pm", "OK") /\ stream' = [stream EXCEPT ![f] = stream'[f]]
        /\ ~Full(stream[f], "pm")
    BY Sets, Zenon DEF SetStreams, CanReply
  <1>6. PxInv(px'[f]) BY <1>p, <1>4, ZenonT(30) DEF PxInv, Unread, Inspected
  <1>7. /\ pump' = [pump EXCEPT ![f] = pump'[f]] /\ pump'[f] \in Pumps /\ Alike(pump[f], pump'[f])
        /\ pump'[f]["mb"] = pump[f]["mb"] /\ PhaseInv(pump'[f], mux[f], px'[f], d)
    <2>1. pump[f]["pf"].pc = "off" /\ pump[f]["pb"].pc = "off" BY <1>p, Zenon DEF PhaseInv
    <2>2. CASE px[f].pc = "reply" /\ x = "splice" /\ pump' = started(f, {"pf", "pb"})
      <3>1. /\ pump' = [pump EXCEPT ![f] = pump'[f]]
            /\ pump'[f] \in Pumps /\ Alike(pump[f], pump'[f])
            /\ pump'[f]["pf"].pc = "read" /\ pump'[f]["pb"].pc = "read"
            /\ pump'[f]["mf"] = pump[f]["mf"] /\ pump'[f]["mb"] = pump[f]["mb"]
        BY <2>1, <2>2, ProxyStarts, ZenonT(30)
      <3>2. px'[f].ip # NoIP /\ Recorded(px'[f])
        <4>1. px'[f].pc = "splice" BY <1>4, <2>2, Zenon
        <4> QED BY <1>6, <4>1, Zenon DEF PxInv, Recorded
      <3>3. PhaseInv(pump'[f], mux[f], px'[f], d) BY <1>p, <1>4, <2>2, <3>1, <3>2, ZenonT(30) DEF PhaseInv
      <3> QED BY <3>1, <3>3, Zenon
    <2>3. CASE px[f].pc = "terminate" /\ x = "leaf" /\ pump' = pump
      <3>1. pump' = [pump EXCEPT ![f] = pump'[f]] /\ pump'[f] = pump[f] BY <2>3, Same, Zenon
      <3>2. PhaseInv(pump'[f], mux[f], px'[f], d) BY <1>p, <1>4, <2>1, <2>3, <3>1, Zenon DEF PhaseInv
      <3> QED BY <1>b, <3>1, <3>2, Zenon
    <2> QED BY <2>2, <2>3, Zenon
  <1>8. px'[f].pc = IF px[f].pc = "reply" THEN "splice" ELSE "leaf" BY <1>4, Zenon
  <1>9. px[f].pc \in {"reply", "terminate"} BY Zenon
  <1>10. Touches(f) BY <1>0, <1>3, <1>5, <1>7, Same, SystemFrame, Zenon
  <1>11. /\ FlowType(stream'[f], pump'[f], cut[f], mux[f], px'[f], sent[f], got[f])
         /\ FlowInv(stream'[f], pump'[f], cut[f], mux[f], px'[f], sent[f], got[f], d)
    <2>1. PICK S2, P2, p2 : S2 = stream'[f] /\ P2 = pump'[f] /\ p2 = px'[f] BY Zenon
    <2>2. S2 = Put(stream[f], "pm", "OK") /\ ~Full(stream[f], "pm") BY <1>5, <2>1, Zenon
    <2>3. P2 \in Pumps /\ Alike(pump[f], P2) /\ P2["mb"] = pump[f]["mb"] BY <1>7, <2>1, Zenon
    <2>4. /\ p2 \in PxState /\ PxInv(p2) /\ PhaseInv(P2, mux[f], p2, d) /\ p2.recs = px[f].recs
          /\ p2.pc = IF px[f].pc = "reply" THEN "splice" ELSE "leaf"
      BY <1>4, <1>6, <1>7, <1>8, <2>1, ZenonT(30)
    <2>5. /\ FlowType(S2, P2, cut[f], mux[f], p2, sent[f], got[f])
          /\ FlowInv(S2, P2, cut[f], mux[f], p2, sent[f], got[f], d)
      BY <1>f, <1>9, <2>2, <2>3, <2>4, RepliesOK
    <2> QED BY <2>1, <2>5, Zenon
  <1>12. Good(f)' BY <1>a, <1>0, <1>11, Zenon DEF Good
  <1>13. Slots(f) BY <1>0, <1>1, <1>4, <1>9, SameSlots, Zenon DEF InMux, InProxy
  <1> QED BY <1>10, <1>12, <1>13, Zenon

\* A TLS handshake has its peer's answer.
LEMMA HandshakeActs ==
    ASSUME Typed, NEW f \in Flow, Good(f), NEW s \in {"mp", "up"}, NEW x, Px(f, x),
           stream[f][s].q # <<>>, SetStreams(f, Take(stream[f], s)),
           UNCHANGED <<cut, sem, muxVars, envVars>>,
           \/ px[f].pc = "hsClient" /\ x = "hsUpstream" /\ pump' = pump
           \/ px[f].pc = "hsUpstream" /\ x = "inspect" /\ pump' = started(f, {"pf", "pb"})
    PROVE  Touches(f) /\ Good(f)' /\ Slots(f)
  <1>a. PICK d \in BOOLEAN :
           /\ d = (f \in plan.guest)
           /\ FlowType(stream[f], pump[f], cut[f], mux[f], px[f], sent[f], got[f])
           /\ FlowInv(stream[f], pump[f], cut[f], mux[f], px[f], sent[f], got[f], d)
    BY Kind, Zenon
  <1>f. /\ FlowType(stream[f], pump[f], cut[f], mux[f], px[f], sent[f], got[f])
        /\ FlowInv(stream[f], pump[f], cut[f], mux[f], px[f], sent[f], got[f], d)
    BY <1>a, Zenon
  <1>b. px[f] \in PxState /\ pump[f] \in Pumps /\ Alike(pump[f], pump[f]) BY Zenon DEF Typed, Alike
  <1>p. PxInv(px[f]) /\ PhaseInv(pump[f], mux[f], px[f], d) BY <1>f, ZenonT(30) DEF FlowInv
  <1>0. UNCHANGED <<cut, mux, leg, sem, sent, got, plan>> BY ZenonT(30) DEF muxVars, envVars
  <1>1. x \in {"hsUpstream", "inspect"} BY Zenon
  <1>2. px' = [px EXCEPT ![f] = [px[f] EXCEPT !.pc = x]] BY Zenon DEF Px
  <1>3. px'[f] = [px[f] EXCEPT !.pc = x] /\ px' = [px EXCEPT ![f] = px'[f]]
    BY <1>2, Sets, Zenon
  <1>4. /\ px'[f] \in PxState /\ px'[f].pc = x /\ px'[f].host = px[f].host
        /\ px'[f].ip = px[f].ip /\ px'[f].recs = px[f].recs
    <2>1. x \in ProxyPC BY Zenon DEF ProxyPC
    <2> QED BY <1>b, <1>3, <2>1, Zenon DEF PxState
  <1>5. stream'[f] = Take(stream[f], s) /\ stream' = [stream EXCEPT ![f] = stream'[f]]
    BY Sets, Zenon DEF SetStreams
  <1>6. PxInv(px'[f]) BY <1>p, <1>4, ZenonT(30) DEF PxInv, Unread, Inspected
  <1>7. /\ pump' = [pump EXCEPT ![f] = pump'[f]] /\ pump'[f] \in Pumps /\ Alike(pump[f], pump'[f])
        /\ PhaseInv(pump'[f], mux[f], px'[f], d)
    <2>1. pump[f]["pf"].pc = "off" /\ pump[f]["pb"].pc = "off" BY <1>p, Zenon DEF PhaseInv
    <2>2. CASE px[f].pc = "hsUpstream" /\ x = "inspect" /\ pump' = started(f, {"pf", "pb"})
      <3>1. /\ pump' = [pump EXCEPT ![f] = pump'[f]]
            /\ pump'[f] \in Pumps /\ Alike(pump[f], pump'[f])
            /\ pump'[f]["pf"].pc = "read" /\ pump'[f]["pb"].pc = "read"
            /\ pump'[f]["mf"] = pump[f]["mf"] /\ pump'[f]["mb"] = pump[f]["mb"]
        BY <2>1, <2>2, ProxyStarts, ZenonT(30)
      <3>2. px'[f].ip # NoIP /\ Recorded(px'[f])
        <4>1. px'[f].pc = "inspect" BY <1>4, <2>2, Zenon
        <4> QED BY <1>6, <4>1, Zenon DEF PxInv, Recorded, Inspected
      <3>3. PhaseInv(pump'[f], mux[f], px'[f], d) BY <1>p, <1>4, <2>2, <3>1, <3>2, Zenon DEF PhaseInv
      <3> QED BY <3>1, <3>3, Zenon
    <2>3. CASE px[f].pc = "hsClient" /\ x = "hsUpstream" /\ pump' = pump
      <3>1. pump' = [pump EXCEPT ![f] = pump'[f]] /\ pump'[f] = pump[f] BY <2>3, Same, ZenonT(30)
      <3>2. PhaseInv(pump'[f], mux[f], px'[f], d) BY <1>p, <1>4, <2>1, <2>3, <3>1, Zenon DEF PhaseInv
      <3> QED BY <1>b, <3>1, <3>2, Zenon
    <2> QED BY <2>2, <2>3, Zenon
  <1>8. /\ px'[f].pc # "closed" /\ px[f].pc # "closed"
        /\ px'[f].pc \in Unread <=> px[f].pc \in Unread
        /\ px'[f].pc \in Unreplied <=> px[f].pc \in Unreplied
        /\ px[f].pc \in Inspected => px'[f].pc \in Inspected
    BY <1>4, Zenon DEF Unread, Unreplied, Inspected
  <1>9. px[f].pc \in {"hsClient", "hsUpstream"} BY Zenon
  <1>10. Touches(f) BY <1>0, <1>3, <1>5, <1>7, Same, SystemFrame, Zenon
  <1>11. /\ FlowType(stream'[f], pump'[f], cut[f], mux[f], px'[f], sent[f], got[f])
         /\ FlowInv(stream'[f], pump'[f], cut[f], mux[f], px'[f], sent[f], got[f], d)
    <2>1. PICK S2, P2, p2 : S2 = stream'[f] /\ P2 = pump'[f] /\ p2 = px'[f] BY Zenon
    <2>2. S2 = Take(stream[f], s) BY <1>5, <2>1, Zenon
    <2>3. /\ FlowType(S2, pump[f], cut[f], mux[f], px[f], sent[f], got[f])
          /\ FlowInv(S2, pump[f], cut[f], mux[f], px[f], sent[f], got[f], d)
      BY <1>f, <1>9, <2>2, Handshakes, Zenon
    <2>4. /\ P2 \in Pumps /\ Alike(pump[f], P2) /\ p2 \in PxState /\ PxInv(p2)
          /\ PhaseInv(P2, mux[f], p2, d)
      BY <1>4, <1>6, <1>7, <2>1, Zenon
    <2>5. /\ p2.pc # "closed" /\ px[f].pc # "closed"
          /\ p2.pc \in Unread <=> px[f].pc \in Unread
          /\ p2.pc \in Unreplied <=> px[f].pc \in Unreplied
          /\ px[f].pc \in Inspected => p2.pc \in Inspected
      BY <1>8, <2>1, Zenon
    <2>6. /\ FlowType(S2, P2, cut[f], mux[f], p2, sent[f], got[f])
          /\ FlowInv(S2, P2, cut[f], mux[f], p2, sent[f], got[f], d)
      BY <2>3, <2>4, <2>5, ProxyTurns, Zenon
    <2> QED BY <2>1, <2>6, Zenon
  <1>12. Good(f)' BY <1>a, <1>0, <1>11, Zenon DEF Good
  <1>13. Slots(f) BY <1>0, <1>1, <1>4, <1>9, SameSlots, Zenon DEF InMux, InProxy
  <1> QED BY <1>10, <1>12, <1>13, Zenon

LEMMA ProxyActs ==
    ASSUME Typed, NEW f \in Flow, Good(f), ProxySteps(f)
    PROVE  Touches(f) /\ Good(f)' /\ Slots(f)
  <1>0. UNCHANGED <<muxVars, envVars>> BY Zenon DEF ProxySteps
  <1>1. CASE acquire(f) BY <1>0, <1>1, AcquireActs, Zenon
  <1>2. CASE \E host \in Host : readRequest(f, host) BY <1>0, <1>2, ReadActs, Zenon
  <1>3. CASE \/ disposition(f) \/ badRequest(f) \/ dialErr(f) \/ recordEgress(f)
             \/ recordPassthrough(f) \/ leafFor(f) \/ \E ip \in Resolved : dial(f, ip)
    BY <1>0, <1>3, DecideActs, Zenon
  <1>d. ASSUME dropFlow(f), px[f].pc \in {"reply", "terminate", "leaf", "hsClient", "hsUpstream"}
        PROVE  Touches(f) /\ Good(f)' /\ Slots(f)
    BY <1>0, <1>d, ReturnActs, Zenon DEF dropFlow
  <1>4. CASE replyOK(f)
    <2>0. px[f].pc = "reply" BY <1>4, Zenon DEF replyOK
    <2>1. CASE dropFlow(f) BY <1>d, <2>0, <2>1, Zenon
    <2>2. CASE ~dropFlow(f)
      <3>1. /\ CanReply(f) /\ SetStreams(f, Put(stream[f], "pm", "OK"))
            /\ Px(f, "splice") /\ pump' = started(f, {"pf", "pb"}) /\ UNCHANGED <<cut, sem>>
        BY <1>4, <2>2, Zenon DEF replyOK
      <3> QED BY <1>0, <2>0, <3>1, ReplyActs, Zenon
    <2> QED BY <2>1, <2>2, Zenon
  <1>5. CASE terminate(f)
    <2>0. px[f].pc = "terminate" BY <1>5, Zenon DEF terminate
    <2>1. CASE dropFlow(f) BY <1>d, <2>0, <2>1, Zenon
    <2>2. CASE ~dropFlow(f)
      <3>1. /\ CanReply(f) /\ SetStreams(f, Put(stream[f], "pm", "OK"))
            /\ Px(f, "leaf") /\ pump' = pump /\ UNCHANGED <<cut, sem>>
        BY <1>5, <2>2, Zenon DEF terminate
      <3> QED BY <1>0, <2>0, <3>1, ReplyActs, Zenon
    <2> QED BY <2>1, <2>2, Zenon
  <1>6. CASE handshake(f, "mp", "hsClient", "hsUpstream")
    <2>0. px[f].pc = "hsClient" BY <1>6, Zenon DEF handshake
    <2>1. CASE dropFlow(f) BY <1>d, <2>0, <2>1, Zenon
    <2>2. CASE ~dropFlow(f)
      <3>1. /\ stream[f]["mp"].q # <<>> /\ SetStreams(f, Take(stream[f], "mp"))
            /\ Px(f, "hsUpstream") /\ pump' = pump /\ UNCHANGED <<cut, sem>>
        BY <1>6, <2>2, Zenon DEF handshake
      <3> QED BY <1>0, <2>0, <3>1, HandshakeActs, Zenon
    <2> QED BY <2>1, <2>2, Zenon
  <1>7. CASE handshake(f, "up", "hsUpstream", "inspect")
    <2>0. px[f].pc = "hsUpstream" BY <1>7, Zenon DEF handshake
    <2>1. CASE dropFlow(f) BY <1>d, <2>0, <2>1, Zenon
    <2>2. CASE ~dropFlow(f)
      <3>1. /\ stream[f]["up"].q # <<>> /\ SetStreams(f, Take(stream[f], "up"))
            /\ Px(f, "inspect") /\ pump' = started(f, {"pf", "pb"}) /\ UNCHANGED <<cut, sem>>
        BY <1>7, <2>2, Zenon DEF handshake
      <3> QED BY <1>0, <2>0, <3>1, HandshakeActs, Zenon
    <2> QED BY <2>1, <2>2, Zenon
  <1>p. "pf" \in Pump /\ "pb" \in Pump BY Zenon DEF Pump
  <1>8. CASE spliceCopy(f)
    <2>1. /\ \E p \in Pump : copyStep(f, p)
          /\ UNCHANGED <<muxVars, proxyVars, envVars>>
      BY <1>0, <1>8, <1>p, Zenon DEF spliceCopy
    <2> QED BY <2>1, CopyActs, Zenon
  <1>9. CASE inspectCopy(f)
    <2>1. /\ \E p \in Pump : copyStep(f, p) \/ writeDeadline(f, p)
          /\ UNCHANGED <<muxVars, proxyVars, envVars>>
      BY <1>0, <1>9, <1>p, Zenon DEF inspectCopy
    <2> QED BY <2>1, CopyActs, Zenon
  <1>10. CASE inspectDeny(f)
    <2>1. /\ pump[f]["pf"].pc = "write" /\ leave(f, "pf", TRUE)
          /\ UNCHANGED <<muxVars, proxyVars, envVars>>
      BY <1>0, <1>10, Zenon DEF inspectDeny
    <2> QED BY <1>p, <2>1, CopyActs, Zenon
  <1>11. CASE spliceDone(f) \/ inspectDone(f)
    <2>1. /\ px[f].pc \in {"splice", "inspect"} /\ Ended(f, {"pf", "pb"})
          /\ return(f, stream[f]) /\ UNCHANGED <<pump, cut>>
      BY <1>11, Zenon DEF spliceDone, inspectDone
    <2> QED BY <1>0, <2>1, ReturnActs, Zenon
  <1> QED BY <1>1, <1>2, <1>3, <1>4, <1>5, <1>6, <1>7, <1>8, <1>9, <1>10, <1>11, Zenon
          DEF ProxySteps, ProxyStep

-----------------------------------------------------------------------------
(* The theorems                                                            *)

LEMMA StepOf ==
    ASSUME IInv, Next
    PROVE  \E f \in Flow : Touches(f) /\ Good(f)' /\ Slots(f)
  <1>0. Typed /\ \A h \in Flow : Good(h) BY Zenon DEF IInv
  <1>1. PICK f \in plan.flows : \/ connect(f) \/ AgentStep(f) \/ UpstreamStep(f)
                                \/ MuxSteps(f) \/ ProxySteps(f)
    BY Zenon DEF Next
  <1>2. f \in Flow
    <2>1. plan \in [flows : SUBSET Flow, guest : SUBSET Flow, send : [Flow -> Nat]]
      BY <1>0, PathAssumption, Zenon DEF Typed
    <2> QED BY <2>1, Zenon
  <1>3. Good(f) BY <1>0, <1>2, Zenon
  <1>4. Touches(f) /\ Good(f)' /\ Slots(f)
    BY <1>0, <1>1, <1>2, <1>3, ConnectActs, AgentActs, UpstreamActs, MuxActs, ProxyActs, Zenon
  <1> QED BY <1>2, <1>4, Zenon

LEMMA StepGood == IInv /\ [Next]_vars => IInv'
  <1> SUFFICES ASSUME IInv, [Next]_vars PROVE IInv' BY Zenon
  <1>0. Typed /\ \A h \in Flow : Good(h) BY Zenon DEF IInv
  <1>1. CASE Next
    <2>1. PICK f \in Flow : Touches(f) /\ Good(f)' /\ Slots(f) BY <1>1, StepOf, Zenon
    <2>2. Typed' /\ \A h \in Flow : Good(h)' BY <1>0, <2>1, Frame, Zenon
    <2> QED BY <2>2, Zenon DEF IInv
  <1>2. CASE UNCHANGED vars
    <2>0. UNCHANGED <<stream, pump, cut, mux, leg, px, sem, sent, got, plan>>
      BY <1>2, Zenon DEF vars, spliceVars, muxVars, proxyVars, envVars
    <2>1. Typed' BY <1>0, <2>0, Zenon DEF Typed
    <2>2. ASSUME NEW h \in Flow PROVE Good(h)'
      <3>1. Good(h) BY <1>0, Zenon
      <3> QED BY <2>0, <3>1, Zenon DEF Good
    <2> QED BY <2>1, <2>2, Zenon DEF IInv
  <1> QED BY <1>1, <1>2, Zenon

LEMMA Invariance == Spec => []IInv
  BY InitGood, StepGood, PTL DEF Spec

\* handleConn's record-before-act, for any number of flows and whatever appends fail: no
\* byte is on its way to an upstream, and none of its bytes reached the agent, before
\* the records that the flow's disposition calls for.
THEOREM NoByteUnrecorded == Spec => []RecordedBeforeBytes
  <1>1. IInv => RecordedBeforeBytes
    <2> SUFFICES ASSUME IInv, NEW f \in Flow,
                        \/ stream[f]["pu"].q # <<>> \/ got[f].up # <<>>
                        \/ \E i \in DOMAIN got[f].agent : got[f].agent[i] = "dat"
                 PROVE  Recorded(px[f])
      BY Zenon DEF RecordedBeforeBytes, Recorded
    <2>1. Typed /\ Good(f) BY Zenon DEF IInv
    <2>2. PICK d \in BOOLEAN :
             /\ d = (f \in plan.guest)
             /\ FlowType(stream[f], pump[f], cut[f], mux[f], px[f], sent[f], got[f])
             /\ FlowInv(stream[f], pump[f], cut[f], mux[f], px[f], sent[f], got[f], d)
      BY <2>1, Kind, Zenon
    <2>3. /\ FlowType(stream[f], pump[f], cut[f], mux[f], px[f], sent[f], got[f])
          /\ FlowInv(stream[f], pump[f], cut[f], mux[f], px[f], sent[f], got[f], d)
      BY <2>2, Zenon
    <2>4. BytesInv(stream[f], pump[f], got[f]) /\ PhaseInv(pump[f], mux[f], px[f], d)
      BY <2>3, Zenon DEF FlowInv
    <2>5. \A i \in DOMAIN got[f].agent : got[f].agent[i] = "dat" => pump[f]["pb"].pc # "off"
      BY <2>3, Heard, Zenon
    <2>6. pump[f]["pf"].pc # "off" \/ pump[f]["pb"].pc # "off" BY <2>4, <2>5, Zenon DEF BytesInv
    <2> QED BY <2>4, <2>6, Zenon DEF PhaseInv
  <1> QED BY <1>1, Invariance, PTL

\* A host marked for inspection is never spliced through, and every address that is
\* connected to belongs to an allowlisted name and is public to the kernel's
\* classifier, or opted in: for every address that a name may resolve to.
THEOREM NoUnmarkedDial == Spec => []DialsAsMarked
  <1>1. IInv => DialsAsMarked
    <2> SUFFICES ASSUME IInv, NEW f \in Flow
                 PROVE  /\ px[f].pc = "splice" => ModeOf[px[f].host] # "inspect"
                        /\ px[f].pc \in {"leaf", "hsClient", "hsUpstream", "inspect"} => CanTerminate(f)
                        /\ Dialled(f) => /\ px[f].host \in Allowed
                                         /\ px[f].ip \in internalCIDRs \/ V6Class(px[f].ip) = DST_PUBLIC
      BY Zenon DEF DialsAsMarked
    <2>1. px[f] \in PxState /\ PxInv(px[f]) BY Zenon DEF IInv, Typed, Good, FlowInv
    <2>2. px[f].pc = "splice" => ModeOf[px[f].host] # "inspect" BY <2>1, Zenon DEF PxInv
    <2>3. px[f].pc \in {"leaf", "hsClient", "hsUpstream", "inspect"} => CanTerminate(f)
      BY <2>1, Zenon DEF PxInv, Inspected, CanTerminate
    <2>4. Dialled(f) => /\ px[f].host \in Allowed
                        /\ px[f].ip \in internalCIDRs \/ V6Class(px[f].ip) = DST_PUBLIC
      <3> HAVE Dialled(f)
      <3>1. px[f].ip # NoIP BY Zenon DEF Dialled
      <3>2. px[f].host \in Allowed /\ checkDialAddr(px[f].ip, internalCIDRs)
        BY <2>1, <3>1, Zenon DEF PxInv
      <3>3. px[f].ip \in [1..16 -> Byte]
        <4>1. px[f].ip \in Resolved BY <2>1, <3>1, Zenon DEF PxState
        <4> QED BY <4>1, ProxyAssumption, Zenon
      <3> QED BY <3>2, <3>3, PublicIP, Zenon DEF checkDialAddr
    <2> QED BY <2>2, <2>3, <2>4, Zenon
  <1> QED BY <1>1, Invariance, PTL

\* The first thing an agent reads is the proxy's one reply, through however many
\* buffers: nothing follows a refusal, and only the upstream's bytes follow "OK".
THEOREM OneReplyFirst == Spec => []ReplyFirst
  <1>1. IInv => ReplyFirst
    <2> SUFFICES ASSUME IInv, NEW f \in Flow PROVE OneReply(got[f].agent)
      BY Zenon DEF ReplyFirst, OneReply
    <2>1. Typed /\ Good(f) BY Zenon DEF IInv
    <2>2. PICK d \in BOOLEAN :
             /\ d = (f \in plan.guest)
             /\ FlowType(stream[f], pump[f], cut[f], mux[f], px[f], sent[f], got[f])
             /\ FlowInv(stream[f], pump[f], cut[f], mux[f], px[f], sent[f], got[f], d)
      BY <2>1, Kind, Zenon
    <2> QED BY <2>2, Heard, Zenon
  <1> QED BY <1>1, Invariance, PTL

\* A half-close truncates nothing across the two relays: whoever has read an uncut
\* splice to its end has everything the other side sent, whatever the buffers hold and
\* in whatever order the four copy loops end.
THEOREM HalfCloseLosesNothing == Spec => []NothingTruncated
  <1>1. IInv => NothingTruncated
    <2> SUFFICES ASSUME IInv, NEW f \in Flow, ~cut[f], Spliced(f)
                 PROVE  /\ stream[f]["pu"].fin /\ stream[f]["pu"].q = <<>> => Len(got[f].up) = sent[f].agent
                        /\ stream[f][In(f)].fin /\ stream[f][In(f)].q = <<>> =>
                              Len(got[f].agent) = 1 + sent[f].up
      BY Zenon DEF NothingTruncated
    <2>1. Typed /\ Good(f) BY Zenon DEF IInv
    <2>2. PICK d \in BOOLEAN :
             /\ d = (f \in plan.guest)
             /\ FlowType(stream[f], pump[f], cut[f], mux[f], px[f], sent[f], got[f])
             /\ FlowInv(stream[f], pump[f], cut[f], mux[f], px[f], sent[f], got[f], d)
      BY <2>1, Kind, Zenon
    <2>3. /\ FlowType(stream[f], pump[f], cut[f], mux[f], px[f], sent[f], got[f])
          /\ FlowInv(stream[f], pump[f], cut[f], mux[f], px[f], sent[f], got[f], d)
      BY <2>2, Zenon
    <2>4. px[f].pc \in {"splice", "closed"} /\ "passthrough" \in px[f].recs BY Zenon DEF Spliced
    <2>5. /\ stream[f]["pu"].fin /\ stream[f]["pu"].q = <<>> => Len(got[f].up) = sent[f].agent
          /\ d /\ stream[f]["ma"].fin /\ stream[f]["ma"].q = <<>> => Len(got[f].agent) = 1 + sent[f].up
          /\ ~d /\ stream[f]["pm"].fin /\ stream[f]["pm"].q = <<>> => Len(got[f].agent) = 1 + sent[f].up
      BY <2>3, <2>4, Complete
    <2>6. (d => In(f) = "ma") /\ (~d => In(f) = "pm") BY <2>2, Zenon DEF In
    <2> QED BY <2>5, <2>6, Zenon
  <1> QED BY <1>1, Invariance, PTL

-----------------------------------------------------------------------------
(* The semaphores                                                          *)

FST == INSTANCE FiniteSetTheorems

\* The instance's copies of FiniteSets' operators are those of EgressPath.
LEMMA SameFinite ==
    /\ \A S : FST!Cardinality(S) = Cardinality(S)
    /\ \A S : FST!IsFiniteSet(S) <=> IsFiniteSet(S)
  <1>1. \A S : FST!Cardinality(S) = Cardinality(S) BY Zenon DEF Cardinality, FST!Cardinality
  <1>2. \A S : FST!IsFiniteSet(S) <=> IsFiniteSet(S) BY Zenon DEF IsFiniteSet, FST!IsFiniteSet
  <1> QED BY <1>1, <1>2, Zenon

LEMMA SlotStep ==
    ASSUME NEW A \in SUBSET Flow, NEW B \in SUBSET Flow, NEW f \in Flow,
           \A h \in Flow : h # f => (h \in A <=> h \in B),
           NEW max \in Nat, NEW v \in 0..max, NEW w, v = Cardinality(A),
           SlotMoves(v, w, max, f \in A, f \in B)
    PROVE  w \in 0..max /\ w = Cardinality(B)
  <1>1. IsFiniteSet(A) /\ IsFiniteSet(B) BY PathAssumption, SameFinite, FST!FS_Subset, Zenon
  <1>2. Cardinality(A) \in Nat /\ Cardinality(B) \in Nat
    BY <1>1, SameFinite, FST!FS_CardinalityType, Zenon
  <1>3. CASE (f \in A <=> f \in B) /\ w = v
    <2>1. A = B BY <1>3
    <2> QED BY <1>3, <2>1, Zenon
  <1>4. CASE f \notin A /\ f \in B /\ v < max /\ w = v + 1
    <2>1. B = A \cup {f} BY <1>4, Zenon
    <2>2. Cardinality(B) = Cardinality(A) + 1 BY <1>1, <1>4, <2>1, SameFinite, FST!FS_AddElement, Zenon
    <2> QED BY <1>2, <1>4, <2>2
  <1>5. CASE f \in A /\ f \notin B /\ w = v - 1
    <2>1. B = A \ {f} BY <1>5, Zenon
    <2>2. Cardinality(B) = Cardinality(A) - 1 BY <1>1, <1>5, <2>1, SameFinite, FST!FS_RemoveElement, Zenon
    <2> QED BY <1>2, <1>5, <2>2
  <1> QED BY <1>3, <1>4, <1>5, Zenon DEF SlotMoves

SlotsInv == SlotsAccounted /\ leg \in 0..maxConnsPerLeg /\ sem \in 0..maxConcurrent

LEMMA SlotsFrame ==
    ASSUME Typed, SlotsInv, NEW f \in Flow, Touches(f), Slots(f)
    PROVE  SlotsInv'
  <1>1. \A h \in Flow : h # f => mux'[h] = mux[h] /\ px'[h] = px[h] BY Zenon DEF Typed, Touches
  <1>2. leg' \in 0..maxConnsPerLeg /\ leg' = Cardinality({h \in Flow : InMux(h)})'
    <2> DEFINE A == {h \in Flow : mux[h] \in {"dial", "splice"}}
               B == {h \in Flow : mux'[h] \in {"dial", "splice"}}
    <2>1. A \in SUBSET Flow /\ B \in SUBSET Flow /\ \A h \in Flow : h # f => (h \in A <=> h \in B)
      BY <1>1, Zenon
    <2>2. leg \in 0..maxConnsPerLeg /\ leg = Cardinality(A) /\ maxConnsPerLeg \in Nat
      BY LegAssumption, Zenon DEF SlotsInv, SlotsAccounted, InMux
    <2>3. SlotMoves(leg, leg', maxConnsPerLeg, f \in A, f \in B) BY DEF Slots, InMux
    <2>4. {h \in Flow : InMux(h)}' = B BY Zenon DEF InMux
    <2> HIDE DEF A, B
    <2>5. leg' \in 0..maxConnsPerLeg /\ leg' = Cardinality(B) BY <2>1, <2>2, <2>3, SlotStep, Zenon
    <2> QED BY <2>4, <2>5, Zenon
  <1>3. sem' \in 0..maxConcurrent /\ sem' = Cardinality({h \in Flow : InProxy(h)})'
    <2> DEFINE A == {h \in Flow : px[h].pc \notin {"none", "accepted", "closed"}}
               B == {h \in Flow : px'[h].pc \notin {"none", "accepted", "closed"}}
    <2>1. A \in SUBSET Flow /\ B \in SUBSET Flow /\ \A h \in Flow : h # f => (h \in A <=> h \in B)
      BY <1>1, Zenon
    <2>2. sem \in 0..maxConcurrent /\ sem = Cardinality(A) /\ maxConcurrent \in Nat
      BY ProxyAssumption, Zenon DEF SlotsInv, SlotsAccounted, InProxy
    <2>3. SlotMoves(sem, sem', maxConcurrent, f \in A, f \in B) BY DEF Slots, InProxy
    <2>4. {h \in Flow : InProxy(h)}' = B BY Zenon DEF InProxy
    <2> HIDE DEF A, B
    <2>5. sem' \in 0..maxConcurrent /\ sem' = Cardinality(B) BY <2>1, <2>2, <2>3, SlotStep, Zenon
    <2> QED BY <2>4, <2>5, Zenon
  <1> QED BY <1>2, <1>3, Zenon DEF SlotsInv, SlotsAccounted

LEMMA InitSlots == Init => SlotsInv
  <1> SUFFICES ASSUME Init PROVE SlotsInv BY Zenon
  <1>1. leg = 0 /\ sem = 0 /\ \A f \in Flow : mux[f] = "none" /\ px[f].pc = "none"
    BY Zenon DEF Init, MuxInit, ProxyInit
  <1>2. {f \in Flow : InMux(f)} = {} /\ {f \in Flow : InProxy(f)} = {}
    BY <1>1, Zenon DEF InMux, InProxy
  <1>3. Cardinality({}) = 0 BY SameFinite, FST!FS_EmptySet, Zenon
  <1>4. maxConnsPerLeg \in Nat /\ maxConcurrent \in Nat BY LegAssumption, ProxyAssumption, Zenon
  <1>5. SlotsAccounted BY <1>1, <1>2, <1>3, Zenon DEF SlotsAccounted
  <1>6. 0 \in 0..maxConnsPerLeg /\ 0 \in 0..maxConcurrent BY <1>4
  <1> QED BY <1>1, <1>5, <1>6, Zenon DEF SlotsInv

LEMMA StepSlots == IInv /\ SlotsInv /\ [Next]_vars => SlotsInv'
  <1> SUFFICES ASSUME IInv, SlotsInv, [Next]_vars PROVE SlotsInv' BY Zenon
  <1>1. CASE Next
    <2>1. PICK f \in Flow : Touches(f) /\ Good(f)' /\ Slots(f) BY <1>1, StepOf, Zenon
    <2>2. Typed BY Zenon DEF IInv
    <2> QED BY <2>1, <2>2, SlotsFrame, Zenon
  <1>2. CASE UNCHANGED vars
    <2>1. UNCHANGED <<mux, leg, px, sem>> BY <1>2, Zenon DEF vars, muxVars, proxyVars
    <2> QED BY <2>1, Zenon DEF SlotsInv, SlotsAccounted, InMux, InProxy
  <1> QED BY <1>1, <1>2, Zenon

LEMMA SlotsInvariance == Spec => []SlotsInv
  BY Invariance, InitSlots, StepSlots, PTL DEF Spec

\* Type correctness: a socket buffer never holds more than it can, and neither cap on
\* concurrent connections (maxConnsPerLeg, maxConcurrent) is exceeded, for any number
\* of flows.
THEOREM PathTyped == Spec => []TypeOK
  <1>1. IInv /\ SlotsInv => TypeOK
    <2> SUFFICES ASSUME IInv, SlotsInv PROVE TypeOK BY Zenon
    <2>1. Typed /\ \A f \in Flow : Good(f) BY Zenon DEF IInv
    <2>2. \A f \in Flow, s \in Stream : Len(stream[f][s].q) <= SocketBuf
      <3>1. \A f \in Flow : Bounded(stream[f]) BY <2>1, Zenon DEF Good, FlowType
      <3> QED BY <3>1, Zenon DEF Bounded
    <2> QED BY <2>1, <2>2, Zenon DEF TypeOK, Typed, SlotsInv, Streams, Pumps
  <1> QED BY <1>1, Invariance, SlotsInvariance, PTL

\* Every way out of serveHost's goroutine and of handleConn gives back exactly the slot
\* it took: the two semaphores count the connections that are being served.
THEOREM SlotsNeverLeak == Spec => []SlotsAccounted
  <1>1. SlotsInv => SlotsAccounted BY Zenon DEF SlotsInv
  <1> QED BY <1>1, SlotsInvariance, PTL

=============================================================================
