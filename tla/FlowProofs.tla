----------------------------- MODULE FlowProofs -----------------------------
(***************************************************************************)
(* Lemmas about EgressPath, for any number of flows, any socket buffer and *)
(* any caps: the inductive invariant of the path from the agent to the     *)
(* upstream, what it says, and the operations on a flow that keep it, up   *)
(* to the steps of the agent, the upstream and the copy loops.             *)
(* EgressPathProofs adds the mux's and handleConn's and states the         *)
(* theorems.                                                               *)
(*                                                                         *)
(* The inductive invariant (FlowInv) speaks of one flow at a time, by its  *)
(* streams S, copy loops P, cut c, mux state m, handleConn p, and what was *)
(* sent (n) and read (g); d says that the flow goes through the mux. Every *)
(* operation is shown to keep it as a lemma on those values; an action of  *)
(* f touches f's values alone (Touches), so the other flows keep theirs    *)
(* (Frame), and moves each semaphore as its flow enters or leaves (Slots). *)
(***************************************************************************)
EXTENDS EgressPath, TLAPS

-----------------------------------------------------------------------------
(* The inductive invariant                                                 *)

\* What a copy loop has read and not yet written; a truth value as a number.
Moving(P, p) == IF P[p].pc = "write" THEN 1 ELSE 0
Held(P, p)   == IF P[p].pc = "write" THEN <<P[p].x>> ELSE <<>>
Bit(b)       == IF b THEN 1 ELSE 0

\* Where handleConn has not read the request, has not replied; where it inspects.
Unread    == {"none", "accepted", "request"}
Unreplied == {"none", "accepted", "request", "check", "dial", "record", "passthrough", "reply",
              "terminate"}
Inspected == {"terminate", "leaf", "hsClient", "hsUpstream", "inspect"}

\* handleConn's variables, by where it is.
PxInv(p) ==
    /\ p.pc \in Unread => p.ip = NoIP /\ p.recs = {}
    /\ p.pc = "check" => p.ip = NoIP /\ p.recs = {} /\ p.host \in Host
    /\ p.pc = "dial" => p.ip = NoIP /\ p.recs = {}
    /\ p.pc \in {"dial", "record"} =>
          p.host \in Allowed /\ (ModeOf[p.host] = "inspect" => Mitm /\ p.host \in tlsPorts)
    /\ p.pc \in {"record", "passthrough", "reply", "splice"} \cup Inspected => p.ip # NoIP
    /\ p.pc = "record" => p.recs = {}
    /\ p.pc = "passthrough" => p.recs = {"allow"} 
    /\ p.pc \in {"passthrough", "reply", "splice"} => ModeOf[p.host] # "inspect"
    /\ p.pc \in {"reply", "splice"} => p.recs = {"allow", "passthrough"}
    /\ p.pc \in Inspected =>
          /\ p.recs = {"allow"} /\ ModeOf[p.host] = "inspect"
          /\ Mitm /\ p.host \in tlsPorts
    /\ p.ip # NoIP => p.host \in Allowed /\ checkDialAddr(p.ip, internalCIDRs)

\* The records that the disposition of the flow calls for.
Recorded(p) == /\ "allow" \in p.recs
               /\ ModeOf[p.host] = "inspect" \/ "passthrough" \in p.recs

\* Which copy loops run, by where the mux and handleConn are; the proxy's never
\* before the dial and the records.
PhaseInv(P, m, p, d) ==
    /\ m \in {"none", "dial"} => P["mf"].pc = "off" /\ P["mb"].pc = "off"
    /\ m = "splice" => P["mf"].pc # "off" /\ P["mb"].pc # "off"
    /\ m = "closed" => P["mf"].pc \in {"off", "done"} /\ P["mb"].pc \in {"off", "done"}
    /\ ~d => m = "none"
    /\ d /\ m \in {"none", "dial"} => p.pc = "none"
    /\ p.pc \notin {"splice", "inspect", "closed"} => P["pf"].pc = "off" /\ P["pb"].pc = "off"
    /\ p.pc \in {"splice", "inspect"} => P["pf"].pc # "off" /\ P["pb"].pc # "off"
    /\ p.pc = "closed" => P["pf"].pc \in {"off", "done"} /\ P["pb"].pc \in {"off", "done"}
    /\ P["pf"].pc # "off" \/ P["pb"].pc # "off" => p.ip # NoIP /\ Recorded(p)

\* What the proxy sends still gets to the agent's buffer.
Relaying(S, P, d) == d => P["mb"].pc # "done" /\ ~S["ma"].shut

\* Everything the agent has read (r) or can still read, in order.
Line(S, P, r, d) ==
    (r \o S["ma"].q) \o IF Relaying(S, P, d) THEN Held(P, "mb") \o S["pm"].q ELSE <<>>

Data(s) == \A i \in 1..Len(s) : s[i] = "dat"

OneReply(s) == s # <<>> => /\ s[1] = "OK" \/ s = <<"ERR">>
                           /\ \A i \in 2..Len(s) : s[i] = "dat"

\* The line to the agent is one reply, empty before handleConn replies and of one
\* chunk until the upstream's bytes are copied.
LineInv(S, P, p, r, d) ==
    /\ OneReply(Line(S, P, r, d))
    /\ P["pb"].pc = "off" => Len(Line(S, P, r, d)) <= 1
    /\ p.pc \in Unreplied => Line(S, P, r, d) = <<>>
    /\ p.pc \notin Unreplied \cup {"closed"} /\ Relaying(S, P, d) /\ ~S["pm"].shut =>
          Line(S, P, r, d) # <<>> /\ Line(S, P, r, d)[1] = "OK"
    /\ Data(S["up"].q)
    /\ P["pb"].pc = "write" => P["pb"].x = "dat"
    /\ ~d => S["ma"].q = <<>>

\* Only pf sends to the upstream.
BytesInv(S, P, g) == S["pu"].q # <<>> \/ g.up # <<>> => P["pf"].pc # "off"

\* In an uncut flow a loop ends at the end of what it reads, and only its end
\* half-closes what it writes: an end of stream travels behind the bytes.
EndInv(S, P, c, d) ==
    ~c => \A p \in Pump :
        /\ S[Dst[p]].fin /\ (p = "mf" => d) => P[p].pc = "done"
        /\ P[p].pc = "done" => S[Src[p]].fin /\ S[Src[p]].q = <<>>

NoReq(s) == \A i \in 1..Len(s) : s[i] # "req"

\* A request that handleConn has read was sent.
AskedInv(S, P, p, n) ==
    /\ ~n.asked => /\ NoReq(S["am"].q) /\ NoReq(S["mp"].q)
                   /\ P["mf"].pc = "write" => P["mf"].x # "req"
    /\ p.pc \notin Unread \cup {"closed"} \/ p.recs # {} => n.asked

\* The chunks on their way to the upstream and to the agent, with those read there.
InFlight(S, s) == Len(S[s].q)

Forward(S, P, g) == InFlight(S, "am") + Moving(P, "mf") + InFlight(S, "mp") + Moving(P, "pf")
                      + InFlight(S, "pu") + Len(g.up)
Back(S, P, g)    == InFlight(S, "up") + Moving(P, "pb") + InFlight(S, "pm") + Moving(P, "mb")
                      + InFlight(S, "ma") + Len(g.agent)

\* No chunk of an uncut splice is lost or made up; the request stops at the proxy, and
\* the reply starts there.
CountInv(S, P, c, p, n, g, d) ==
    /\ ~d => S["am"].q = <<>>
    /\ ~c /\ p.pc = "closed" => p.recs # {}
    /\ ~c /\ p.pc \notin Inspected /\ (p.pc = "closed" => "passthrough" \in p.recs) =>
          /\ Forward(S, P, g) + Bit(p.pc \notin Unread) = n.agent + Bit(n.asked)
          /\ Back(S, P, g) = n.up + Bit(p.pc \notin Unreplied)

FlowInv(S, P, c, m, p, n, g, d) ==
    /\ PxInv(p) /\ PhaseInv(P, m, p, d) /\ LineInv(S, P, p, g.agent, d) /\ BytesInv(S, P, g)
    /\ EndInv(S, P, c, d) /\ AskedInv(S, P, p, n) /\ CountInv(S, P, c, p, n, g, d)

Streams == [Stream -> StreamState]
Pumps   == [Pump -> PumpState]
SentState == [asked : BOOLEAN, agent : Nat, up : Nat]
GotState  == [agent : Seq(Chunk), up : Seq(Chunk)]

Bounded(S) == \A s \in Stream : Len(S[s].q) <= SocketBuf

FlowType(S, P, c, m, p, n, g) ==
    /\ S \in Streams /\ Bounded(S)
    /\ P \in Pumps
    /\ c \in BOOLEAN
    /\ m \in {"none", "dial", "splice", "closed"}
    /\ p \in PxState
    /\ n \in SentState
    /\ g \in GotState

-----------------------------------------------------------------------------
(* What the invariant says of a flow                                       *)

LEMMA Counts ==
    ASSUME NEW S \in Streams, NEW P \in Pumps, NEW g \in GotState
    PROVE  /\ InFlight(S, "am") \in Int /\ InFlight(S, "mp") \in Int /\ InFlight(S, "pu") \in Int
           /\ InFlight(S, "up") \in Int /\ InFlight(S, "pm") \in Int /\ InFlight(S, "ma") \in Int
           /\ Moving(P, "mf") \in Int /\ Moving(P, "pf") \in Int
           /\ Moving(P, "mb") \in Int /\ Moving(P, "pb") \in Int
           /\ Len(g.up) \in Int /\ Len(g.agent) \in Int
           /\ Forward(S, P, g) \in Int /\ Back(S, P, g) \in Int
  <1>1. \A s \in Stream : InFlight(S, s) \in Int BY DEF Streams, StreamState, InFlight
  <1>2. /\ InFlight(S, "am") \in Int /\ InFlight(S, "mp") \in Int /\ InFlight(S, "pu") \in Int
        /\ Moving(P, "mf") \in Int /\ Moving(P, "pf") \in Int /\ Len(g.up) \in Int
    BY <1>1 DEF Stream, Moving, GotState
  <1>3. /\ InFlight(S, "up") \in Int /\ InFlight(S, "pm") \in Int /\ InFlight(S, "ma") \in Int
        /\ Moving(P, "mb") \in Int /\ Moving(P, "pb") \in Int /\ Len(g.agent) \in Int
    BY <1>1 DEF Stream, Moving, GotState
  <1>4. Forward(S, P, g) \in Int BY <1>2 DEF Forward
  <1>5. Back(S, P, g) \in Int BY <1>3 DEF Back
  <1> QED BY <1>2, <1>3, <1>4, <1>5, Zenon

\* What an uncut, spliced flow has delivered when its reader is at the end.
LEMMA Complete ==
    ASSUME NEW S, NEW P, NEW c, NEW m, NEW p, NEW n, NEW g, NEW d \in BOOLEAN,
           FlowType(S, P, c, m, p, n, g), FlowInv(S, P, c, m, p, n, g, d),
           ~c, p.pc \in {"splice", "closed"}, "passthrough" \in p.recs
    PROVE  /\ S["pu"].fin /\ S["pu"].q = <<>> => Len(g.up) = n.agent
           /\ d /\ S["ma"].fin /\ S["ma"].q = <<>> => Len(g.agent) = 1 + n.up
           /\ ~d /\ S["pm"].fin /\ S["pm"].q = <<>> => Len(g.agent) = 1 + n.up
  <1>1. /\ EndInv(S, P, c, d) /\ CountInv(S, P, c, p, n, g, d) /\ AskedInv(S, P, p, n)
        /\ PhaseInv(P, m, p, d) /\ LineInv(S, P, p, g.agent, d)
    BY Zenon DEF FlowInv
  <1>2. /\ Len(g.up) \in Nat /\ Len(g.agent) \in Nat /\ n.agent \in Nat /\ n.up \in Nat
    BY DEF FlowType, GotState, SentState
  <1>3. /\ \A s \in Stream : InFlight(S, s) \in Nat /\ (S[s].q = <<>> => InFlight(S, s) = 0)
        /\ \A k \in Pump : Moving(P, k) \in Nat /\ (P[k].pc # "write" => Moving(P, k) = 0)
    <2>1. \A s \in Stream : S[s].q \in Seq(Chunk) BY Zenon DEF FlowType, Streams, StreamState
    <2>2. \A s \in Stream : InFlight(S, s) \in Nat /\ (S[s].q = <<>> => InFlight(S, s) = 0)
      BY <2>1 DEF InFlight
    <2>3. \A k \in Pump : Moving(P, k) \in Nat /\ (P[k].pc # "write" => Moving(P, k) = 0)
      BY Zenon DEF Moving
    <2> QED BY <2>2, <2>3, Zenon
  <1>4. /\ "am" \in Stream /\ "mp" \in Stream /\ "pu" \in Stream
        /\ "up" \in Stream /\ "pm" \in Stream /\ "ma" \in Stream
        /\ "mf" \in Pump /\ "mb" \in Pump /\ "pf" \in Pump /\ "pb" \in Pump
    BY Zenon DEF Stream, Pump
  <1>5. /\ Forward(S, P, g) = n.agent /\ Back(S, P, g) = n.up + 1
    <2>1. p.pc \notin Inspected /\ p.pc \notin Unread /\ p.pc \notin Unreplied
      BY Zenon DEF Inspected, Unread, Unreplied
    <2>2. n.asked BY <1>1, Zenon DEF AskedInv
    <2>3. Bit(p.pc \notin Unread) = 1 /\ Bit(n.asked) = 1 /\ Bit(p.pc \notin Unreplied) = 1
      BY <2>1, <2>2, Zenon DEF Bit
    <2>4. /\ Forward(S, P, g) + Bit(p.pc \notin Unread) = n.agent + Bit(n.asked)
          /\ Back(S, P, g) = n.up + Bit(p.pc \notin Unreplied)
      BY <1>1, <2>1, Zenon DEF CountInv
    <2>5. Forward(S, P, g) \in Int BY Counts, Zenon DEF FlowType
    <2> QED BY <1>2, <2>3, <2>4, <2>5
  <1>6. /\ S["pu"].fin => P["pf"].pc = "done"
        /\ P["pf"].pc = "done" => S["mp"].fin /\ S["mp"].q = <<>>
        /\ S["mp"].fin /\ d => P["mf"].pc = "done"
        /\ P["mf"].pc = "done" => S["am"].q = <<>>
        /\ S["ma"].fin => P["mb"].pc = "done"
        /\ P["mb"].pc = "done" => S["pm"].fin /\ S["pm"].q = <<>>
        /\ S["pm"].fin => P["pb"].pc = "done"
        /\ P["pb"].pc = "done" => S["up"].q = <<>>
    BY <1>1, <1>4, Zenon DEF EndInv, Src, Dst
  <1>7. ~d => /\ S["am"].q = <<>> /\ S["ma"].q = <<>> /\ P["mf"].pc = "off" /\ P["mb"].pc = "off"
    <2>1. ~d => S["am"].q = <<>> BY <1>1, Zenon DEF CountInv
    <2>2. ~d => S["ma"].q = <<>> BY <1>1, Zenon DEF LineInv
    <2>3. ~d => P["mf"].pc = "off" /\ P["mb"].pc = "off" BY <1>1, ZenonT(30) DEF PhaseInv
    <2> QED BY <2>1, <2>2, <2>3, Zenon
  <1>8. ASSUME S["pu"].fin, S["pu"].q = <<>> PROVE Len(g.up) = n.agent
    <2>1. /\ S["mp"].q = <<>> /\ S["am"].q = <<>> /\ P["pf"].pc # "write" /\ P["mf"].pc # "write"
      BY <1>6, <1>7, <1>8, Zenon
    <2>2. /\ InFlight(S, "am") = 0 /\ Moving(P, "mf") = 0 /\ InFlight(S, "mp") = 0
          /\ Moving(P, "pf") = 0 /\ InFlight(S, "pu") = 0
      BY <1>3, <1>4, <1>8, <2>1, ZenonT(30)
    <2> QED BY <1>2, <1>5, <2>2 DEF Forward
  <1>9. ASSUME S["pm"].fin, S["pm"].q = <<>>, S["ma"].q = <<>>, P["mb"].pc # "write"
        PROVE  Len(g.agent) = 1 + n.up
    <2>1. S["up"].q = <<>> /\ P["pb"].pc # "write" BY <1>6, <1>9, Zenon
    <2>2. /\ InFlight(S, "up") = 0 /\ Moving(P, "pb") = 0 /\ InFlight(S, "pm") = 0
          /\ Moving(P, "mb") = 0 /\ InFlight(S, "ma") = 0
      BY <1>3, <1>4, <1>9, <2>1, Zenon
    <2> QED BY <1>2, <1>5, <2>2 DEF Back
  <1>10. ASSUME d, S["ma"].fin, S["ma"].q = <<>> PROVE Len(g.agent) = 1 + n.up
    <2>1. S["pm"].fin /\ S["pm"].q = <<>> /\ P["mb"].pc # "write" BY <1>6, <1>10, Zenon
    <2> QED BY <1>9, <1>10, <2>1, Zenon
  <1>11. ASSUME ~d, S["pm"].fin, S["pm"].q = <<>> PROVE Len(g.agent) = 1 + n.up
    <2>1. S["ma"].q = <<>> /\ P["mb"].pc # "write" BY <1>7, <1>11, Zenon
    <2> QED BY <1>9, <1>11, <2>1, ZenonT(30)
  <1> QED BY <1>8, <1>10, <1>11, Zenon

LEMMA Begins ==
    ASSUME NEW a \in Seq(Chunk), NEW b \in Seq(Chunk), NEW e \in Seq(Chunk)
    PROVE  /\ (a \o b) \o e \in Seq(Chunk) /\ Len(a) <= Len((a \o b) \o e)
           /\ \A i \in 1..Len(a) : ((a \o b) \o e)[i] = a[i]
  <1>1. /\ a \o b \in Seq(Chunk) /\ Len(a \o b) = Len(a) + Len(b)
        /\ \A i \in 1..Len(a) : (a \o b)[i] = a[i]
    OBVIOUS
  <1>2. PICK y \in Seq(Chunk) : y = a \o b BY <1>1, Zenon
  <1>3. y \o e \in Seq(Chunk) /\ Len(y \o e) = Len(y) + Len(e) /\ \A i \in 1..Len(y) : (y \o e)[i] = y[i]
    OBVIOUS
  <1>4. Len(a) \in Nat /\ Len(b) \in Nat /\ Len(e) \in Nat OBVIOUS
  <1>5. Len(y) = Len(a) + Len(b) /\ \A i \in 1..Len(a) : y[i] = a[i] BY <1>1, <1>2, Zenon
  <1>6. Len(a) <= Len(y \o e) /\ \A i \in 1..Len(a) : (y \o e)[i] = a[i]
    <2>1. Len(a) <= Len(y \o e) BY <1>3, <1>4, <1>5
    <2>2. \A i \in 1..Len(a) : i \in 1..Len(y) BY <1>4, <1>5
    <2> QED BY <1>3, <1>5, <2>1, <2>2, Zenon
  <1> QED BY <1>2, <1>3, <1>6, Zenon

\* What the agent has read is a part of one reply, and has data only after pb started.
LEMMA Heard ==
    ASSUME NEW S, NEW P, NEW c, NEW m, NEW p, NEW n, NEW g, NEW d \in BOOLEAN,
           FlowType(S, P, c, m, p, n, g), FlowInv(S, P, c, m, p, n, g, d)
    PROVE  /\ OneReply(g.agent)
           /\ \A i \in DOMAIN g.agent : g.agent[i] = "dat" => P["pb"].pc # "off"
  <1>0. g.agent \in Seq(Chunk) BY Zenon DEF FlowType, GotState
  <1>1. LineInv(S, P, p, g.agent, d) BY Zenon DEF FlowInv
  <1>2. /\ S["ma"].q \in Seq(Chunk) /\ S["pm"].q \in Seq(Chunk) /\ Held(P, "mb") \in Seq(Chunk)
    BY DEF FlowType, Streams, StreamState, Stream, Pumps, PumpState, Pump, Held
  <1>3. PICK x : x = IF Relaying(S, P, d) THEN Held(P, "mb") \o S["pm"].q ELSE <<>> BY Zenon
  <1>4. x \in Seq(Chunk) BY <1>2, <1>3
  <1>5. Line(S, P, g.agent, d) = (g.agent \o S["ma"].q) \o x BY <1>3, Zenon DEF Line
  <1>6. PICK l : l = Line(S, P, g.agent, d) BY Zenon
  <1>7. /\ l \in Seq(Chunk) /\ Len(g.agent) <= Len(l) /\ \A i \in 1..Len(g.agent) : l[i] = g.agent[i]
    <2>1. l = (g.agent \o S["ma"].q) \o x BY <1>5, <1>6, Zenon
    <2>2. PICK a \in Seq(Chunk) : a = g.agent BY <1>0, Zenon
    <2>3. PICK b \in Seq(Chunk) : b = S["ma"].q BY <1>2, Zenon
    <2>e. PICK e \in Seq(Chunk) : e = x BY <1>4, Zenon
    <2>4. /\ (a \o b) \o e \in Seq(Chunk) /\ Len(a) <= Len((a \o b) \o e)
          /\ \A i \in 1..Len(a) : ((a \o b) \o e)[i] = a[i]
      BY Begins, Zenon
    <2>5. l = (a \o b) \o e BY <2>1, <2>2, <2>3, <2>e, Zenon
    <2> QED BY <2>2, <2>4, <2>5, Zenon
  <1>8. OneReply(l) /\ (P["pb"].pc = "off" => Len(l) <= 1) BY <1>1, <1>6, Zenon DEF LineInv
  <1>9. ASSUME g.agent # <<>>
        PROVE  /\ g.agent[1] = "OK" \/ g.agent = <<"ERR">>
               /\ \A i \in 2..Len(g.agent) : g.agent[i] = "dat"
    <2>1. Len(g.agent) >= 1 /\ l # <<>> /\ Len(l) >= 1 BY <1>0, <1>7, <1>9
    <2>2. /\ l[1] = "OK" \/ l = <<"ERR">>
          /\ \A i \in 2..Len(l) : l[i] = "dat"
      BY <1>8, <2>1, Zenon DEF OneReply
    <2>3. \A i \in 2..Len(g.agent) : g.agent[i] = "dat"
      <3> SUFFICES ASSUME NEW i \in 2..Len(g.agent) PROVE g.agent[i] = "dat" BY Zenon
      <3>1. i \in 1..Len(g.agent) /\ i \in 2..Len(l) BY <1>0, <1>7
      <3> QED BY <1>7, <2>2, <3>1, Zenon
    <2>4. CASE l[1] = "OK" BY <1>7, <2>1, <2>3, <2>4
    <2>5. CASE l = <<"ERR">>
      <3>1. Len(l) = 1 /\ l[1] = "ERR" BY <2>5, Zenon
      <3>2. Len(g.agent) = 1 /\ g.agent[1] = "ERR" BY <1>0, <1>7, <2>1, <3>1
      <3>3. g.agent = <<"ERR">> BY <1>0, <3>2
      <3> QED BY <2>3, <3>3, Zenon
    <2> QED BY <2>2, <2>4, <2>5, Zenon
  <1>10. ASSUME NEW i \in DOMAIN g.agent, g.agent[i] = "dat" PROVE P["pb"].pc # "off"
    <2>1. i \in 1..Len(g.agent) BY <1>0
    <2>2. l[i] = "dat" /\ i \in 1..Len(l) /\ l # <<>> BY <1>0, <1>7, <1>10, <2>1
    <2>3. l[1] = "OK" \/ l = <<"ERR">> BY <1>8, <2>2, Zenon DEF OneReply
    <2>4. i # 1 BY <2>2, <2>3
    <2>5. Len(l) > 1 BY <2>2, <2>4
    <2> QED BY <1>7, <1>8, <2>5
  <1> QED BY <1>9, <1>10, Zenon DEF OneReply

-----------------------------------------------------------------------------
(* The dial check and the kernel's classes                                 *)

\* What isInternalIP lets pass of the IPv4 addresses lies in no block of the comments.
LEMMA Public4 ==
    ASSUME NEW a, a[1] \in Byte, a[2] \in Byte, ~internal4(a)
    PROVE  V4Class(a) = DST_PUBLIC
  <1>1. /\ HighBits(a[2], 16) = 16 <=> a[2] \in 16..31
        /\ HighBits(a[2], 64) = 64 <=> a[2] \in 64..127
    BY DEF Byte, HighBits
  <1>2. /\ a # Zero /\ a[1] # 127 /\ a[1] # 10 /\ ~(a[1] = 169 /\ a[2] = 254)
        /\ ~(a[1] = 172 /\ a[2] \in 16..31) /\ ~(a[1] = 192 /\ a[2] = 168)
        /\ ~(a[1] = 100 /\ a[2] \in 64..127)
    BY <1>1, Zenon DEF internal4, stdInternal4
  <1>3. /\ ~InBlock(a, <<127..127>>) /\ ~InBlock(a, <<10..10>>)
    BY <1>2, SMT DEF InBlock, Byte
  <1>4. ~InBlock(a, <<169..169, 254..254>>) BY <1>2, SMT DEF InBlock, Byte
  <1>5. ~InBlock(a, <<172..172, 16..31>>) BY <1>2, SMT DEF InBlock, Byte
  <1>6. ~InBlock(a, <<192..192, 168..168>>) BY <1>2, SMT DEF InBlock, Byte
  <1>7. ~InBlock(a, <<100..100, 64..127>>) BY <1>2, SMT DEF InBlock, Byte
  <1>8. ~\E blk \in Private4 : InBlock(a, blk) BY <1>3, <1>5, <1>6, <1>7, SMT DEF Private4
  <1>9. ~InBlock(a, Loopback4) /\ ~InBlock(a, Link4) BY <1>3, <1>4, Zenon DEF Loopback4, Link4
  <1> QED BY <1>2, <1>8, <1>9, Zenon DEF V4Class

\* An address that dialer.Control lets through without an opt-in is public to the hook.
LEMMA PublicIP ==
    ASSUME NEW ip \in [1..16 -> Byte], ~isInternalIP(ip)
    PROVE  V6Class(ip) = DST_PUBLIC
  <1>0. ip[1] \in Byte /\ ip[2] \in Byte /\ ip[13] \in Byte /\ ip[14] \in Byte /\ ip[16] \in Byte OBVIOUS
  <1>b. /\ InBlock(ip, Link6) <=> ip[1] = 254 /\ ip[2] \in 128..191
        /\ InBlock(ip, Unique6) <=> ip[1] \in 252..253
    <2>1. InBlock(ip, Link6) <=> ip[1] \in 254..254 /\ ip[2] \in 128..191 BY SMT DEF InBlock, Link6
    <2>2. InBlock(ip, Unique6) <=> ip[1] \in 252..253 BY SMT DEF InBlock, Unique6
    <2>3. ip[1] \in 254..254 <=> ip[1] = 254 BY <1>0 DEF Byte
    <2> QED BY <2>1, <2>2, <2>3, Zenon
  <1>1. CASE IsMapped(ip)
    <2>1. ip[1] = 0 /\ ip[11] = 255 BY <1>1 DEF IsMapped
    <2>2. ~\A i \in 1..15 : ip[i] = 0 BY <2>1
    <2>3. ~InBlock(ip, Link6) /\ ~InBlock(ip, Unique6) BY <1>b, <2>1
    <2>4. V4Class(To4(ip)) = DST_PUBLIC
      <3>1. To4(ip)[1] \in Byte /\ To4(ip)[2] \in Byte BY <1>0, Zenon DEF To4
      <3>2. ~internal4(To4(ip)) BY <1>1, Zenon DEF isInternalIP
      <3> QED BY <3>1, <3>2, Public4, Zenon
    <2> QED BY <1>1, <2>2, <2>3, <2>4, Zenon DEF V6Class
  <1>2. CASE ~IsMapped(ip)
    <2>1. ~stdInternal6(ip) BY <1>2, Zenon DEF isInternalIP
    <2>2. ~((\A i \in 1..15 : ip[i] = 0) /\ ip[16] <= 1)
      <3>1. ip[16] <= 1 => ip[16] \in {0, 1} BY <1>0 DEF Byte
      <3> QED BY <2>1, <3>1, ZenonT(30) DEF stdInternal6
    <2>3. /\ HighBits(ip[2], 64) = 128 <=> ip[2] \in 128..191
          /\ HighBits(ip[1], 2) = 252 <=> ip[1] \in 252..253
      BY <1>0 DEF Byte, HighBits
    <2>4. ~InBlock(ip, Link6) /\ ~InBlock(ip, Unique6) BY <1>b, <2>1, <2>3, Zenon DEF stdInternal6
    <2> QED BY <1>2, <2>2, <2>4, Zenon DEF V6Class
  <1> QED BY <1>1, <1>2, Zenon

-----------------------------------------------------------------------------
(* From one flow to all                                                    *)

Typed == /\ stream \in [Flow -> Streams] /\ pump \in [Flow -> Pumps] /\ cut \in [Flow -> BOOLEAN]
         /\ mux \in [Flow -> {"none", "dial", "splice", "closed"}] /\ px \in [Flow -> PxState]
         /\ sent \in [Flow -> SentState] /\ got \in [Flow -> GotState]
         /\ plan \in Plans

Good(f) == /\ FlowType(stream[f], pump[f], cut[f], mux[f], px[f], sent[f], got[f])
           /\ FlowInv(stream[f], pump[f], cut[f], mux[f], px[f], sent[f], got[f], f \in plan.guest)

\* A step of f is nobody else's.
Touches(f) ==
    /\ stream' = [stream EXCEPT ![f] = stream'[f]] /\ pump' = [pump EXCEPT ![f] = pump'[f]]
    /\ cut' = [cut EXCEPT ![f] = cut'[f]] /\ mux' = [mux EXCEPT ![f] = mux'[f]]
    /\ px' = [px EXCEPT ![f] = px'[f]] /\ sent' = [sent EXCEPT ![f] = sent'[f]]
    /\ got' = [got EXCEPT ![f] = got'[f]] /\ plan' = plan

LEMMA Updated ==
    ASSUME NEW X, NEW v \in [Flow -> X], NEW f \in Flow, NEW w
    PROVE  /\ \A x : w = [v EXCEPT ![f] = x] => w[f] = x /\ w = [v EXCEPT ![f] = w[f]]
           /\ w = v => w[f] = v[f] /\ w = [v EXCEPT ![f] = w[f]]
           /\ w = [v EXCEPT ![f] = w[f]] =>
                 /\ \A h \in Flow : h # f => w[h] = v[h]
                 /\ w[f] \in X => w \in [Flow -> X]
  <1>1. \A x : w = [v EXCEPT ![f] = x] => w[f] = x /\ w = [v EXCEPT ![f] = w[f]] BY Zenon
  <1>2. w = v => w[f] = v[f] /\ w = [v EXCEPT ![f] = w[f]] BY Zenon
  <1>3. w = [v EXCEPT ![f] = w[f]] =>
           /\ \A h \in Flow : h # f => w[h] = v[h]
           /\ w[f] \in X => w \in [Flow -> X]
    BY Zenon
  <1> QED BY <1>1, <1>2, <1>3, Zenon

LEMMA Frame ==
    ASSUME Typed, \A h \in Flow : Good(h), NEW f \in Flow, Touches(f), Good(f)'
    PROVE  Typed' /\ \A h \in Flow : Good(h)'
  <1>1. Typed'
    <2>1. stream' \in [Flow -> Streams] BY Updated, Zenon DEF Typed, Touches, Good, FlowType
    <2>2. pump' \in [Flow -> Pumps] BY Updated, Zenon DEF Typed, Touches, Good, FlowType
    <2>3. cut' \in [Flow -> BOOLEAN] BY Updated, Zenon DEF Typed, Touches, Good, FlowType
    <2>4. mux' \in [Flow -> {"none", "dial", "splice", "closed"}]
      BY Updated, Zenon DEF Typed, Touches, Good, FlowType
    <2>5. px' \in [Flow -> PxState] BY Updated, Zenon DEF Typed, Touches, Good, FlowType
    <2>6. sent' \in [Flow -> SentState] BY Updated, Zenon DEF Typed, Touches, Good, FlowType
    <2>7. got' \in [Flow -> GotState] BY Updated, Zenon DEF Typed, Touches, Good, FlowType
    <2>8. plan' \in Plans BY Zenon DEF Typed, Touches
    <2> QED BY <2>1, <2>2, <2>3, <2>4, <2>5, <2>6, <2>7, <2>8, Zenon DEF Typed
  <1>2. ASSUME NEW h \in Flow, h # f PROVE Good(h)'
    <2>1. /\ stream'[h] = stream[h] /\ pump'[h] = pump[h] /\ cut'[h] = cut[h]
          /\ mux'[h] = mux[h] /\ px'[h] = px[h] /\ sent'[h] = sent[h] /\ got'[h] = got[h]
          /\ plan' = plan
      BY <1>2, Zenon DEF Typed, Touches
    <2>2. Good(h) BY Zenon
    <2> QED BY <2>1, <2>2, Zenon DEF Good
  <1> QED BY <1>1, <1>2, Zenon

IInv == Typed /\ \A f \in Flow : Good(f)

LEMMA InitGood == Init => IInv
  <1> SUFFICES ASSUME Init PROVE IInv BY Zenon
  <1> DEFINE s0 == [q |-> <<>>, fin |-> FALSE, shut |-> FALSE]
             S0 == [s \in Stream |-> s0]
             P0 == [k \in Pump |-> [pc |-> "off", x |-> "dat"]]
             p0 == [pc |-> "none", host |-> NoHost, ip |-> NoIP, recs |-> {}]
             n0 == [asked |-> FALSE, agent |-> 0, up |-> 0]
             g0 == [agent |-> <<>>, up |-> <<>>]
  <1>1. /\ stream = [f \in Flow |-> S0] /\ pump = [f \in Flow |-> P0] /\ cut = [f \in Flow |-> FALSE]
        /\ mux = [f \in Flow |-> "none"] /\ px = [f \in Flow |-> p0] /\ leg = 0 /\ sem = 0
        /\ sent = [f \in Flow |-> n0] /\ got = [f \in Flow |-> g0] /\ plan \in Plans
    BY Zenon DEF Init, SpliceInit, MuxInit, ProxyInit
  <1>2. <<>> \in Seq(Chunk) /\ Len(<<>>) = 0 OBVIOUS
  <1>3. S0 \in Streams /\ P0 \in Pumps /\ n0 \in SentState /\ g0 \in GotState
    BY <1>2, Zenon DEF Streams, StreamState, Pumps, PumpState, Chunk, SentState, GotState
  <1>4. p0 \in PxState BY Zenon DEF PxState, ProxyPC
  <1>5. Bounded(S0) BY <1>2, BufAssumption DEF Bounded
  <1>6. Typed
    <2> HIDE DEF S0, P0, p0, n0, g0
    <2> QED BY <1>1, <1>3, <1>4, Zenon DEF Typed
  <1>7. FlowType(S0, P0, FALSE, "none", p0, n0, g0) BY <1>3, <1>4, <1>5, Zenon DEF FlowType
  <1>8. ASSUME NEW d \in BOOLEAN PROVE FlowInv(S0, P0, FALSE, "none", p0, n0, g0, d)
    <2>1. /\ \A t \in Stream : S0[t].q = <<>> /\ ~S0[t].fin /\ ~S0[t].shut
          /\ \A k \in Pump : P0[k].pc = "off"
          /\ p0.pc = "none" /\ p0.ip = NoIP /\ p0.recs = {}
          /\ ~n0.asked /\ n0.agent = 0 /\ n0.up = 0 /\ g0.agent = <<>> /\ g0.up = <<>>
      BY Zenon
    <2> HIDE DEF S0, P0, p0, n0, g0
    <2>2. /\ S0["am"].q = <<>> /\ S0["mp"].q = <<>> /\ S0["pu"].q = <<>>
          /\ S0["up"].q = <<>> /\ S0["pm"].q = <<>> /\ S0["ma"].q = <<>>
          /\ P0["mf"].pc = "off" /\ P0["mb"].pc = "off" /\ P0["pf"].pc = "off" /\ P0["pb"].pc = "off"
      BY <2>1, Zenon DEF Stream, Pump
    <2>3. PxInv(p0) BY <2>1, Zenon DEF PxInv, Unread, Inspected
    <2>4. PhaseInv(P0, "none", p0, d) BY <2>1, <2>2, Zenon DEF PhaseInv
    <2>5. LineInv(S0, P0, p0, g0.agent, d)
      <3>1. Line(S0, P0, g0.agent, d) = <<>> BY <2>1, <2>2 DEF Line, Held
      <3>2. OneReply(<<>>) /\ Data(<<>>) BY DEF OneReply, Data
      <3>3. "none" \in Unreplied BY Zenon DEF Unreplied
      <3> QED BY <1>2, <2>1, <2>2, <3>1, <3>2, <3>3 DEF LineInv
    <2>6. BytesInv(S0, P0, g0) BY <2>1, <2>2, Zenon DEF BytesInv
    <2>7. EndInv(S0, P0, FALSE, d)
      <3>1. \A k \in Pump : Dst[k] \in Stream BY DEF Dst, Stream, Pump
      <3>2. \A k \in Pump : ~S0[Dst[k]].fin /\ P0[k].pc # "done" BY <2>1, <3>1, Zenon
      <3> QED BY <3>2, Zenon DEF EndInv
    <2>8. AskedInv(S0, P0, p0, n0)
      <3>1. NoReq(<<>>) BY DEF NoReq
      <3> QED BY <2>1, <2>2, <3>1, Zenon DEF AskedInv, Unread
    <2>9. CountInv(S0, P0, FALSE, p0, n0, g0, d)
      <3>1. /\ InFlight(S0, "am") = 0 /\ InFlight(S0, "mp") = 0 /\ InFlight(S0, "pu") = 0
            /\ InFlight(S0, "up") = 0 /\ InFlight(S0, "pm") = 0 /\ InFlight(S0, "ma") = 0
        BY <1>2, <2>2, Zenon DEF InFlight
      <3>2. /\ Moving(P0, "mf") = 0 /\ Moving(P0, "mb") = 0 /\ Moving(P0, "pf") = 0
            /\ Moving(P0, "pb") = 0
        BY <2>2, Zenon DEF Moving
      <3>3. Len(g0.up) = 0 /\ Len(g0.agent) = 0 BY <1>2, <2>1, Zenon
      <3>4. Forward(S0, P0, g0) = 0 /\ Back(S0, P0, g0) = 0 BY <3>1, <3>2, <3>3 DEF Forward, Back
      <3>5. Bit(p0.pc \notin Unread) = 0 /\ Bit(n0.asked) = 0 /\ Bit(p0.pc \notin Unreplied) = 0
        BY <2>1, Zenon DEF Bit, Unread, Unreplied
      <3> QED BY <2>1, <2>2, <3>4, <3>5 DEF CountInv
    <2> QED BY <2>3, <2>4, <2>5, <2>6, <2>7, <2>8, <2>9, Zenon DEF FlowInv
  <1>9. ASSUME NEW f \in Flow PROVE Good(f)
    <2>1. /\ stream[f] = S0 /\ pump[f] = P0 /\ cut[f] = FALSE /\ mux[f] = "none" /\ px[f] = p0
          /\ sent[f] = n0 /\ got[f] = g0
      <3> HIDE DEF S0, P0, p0, n0, g0
      <3> QED BY <1>1, Zenon
    <2> HIDE DEF S0, P0, p0, n0, g0
    <2>2. (f \in plan.guest) \in BOOLEAN OBVIOUS
    <2>3. PICK d \in BOOLEAN : d = (f \in plan.guest) BY <2>2, Zenon
    <2> QED BY <1>7, <1>8, <2>1, <2>3, Zenon DEF Good
  <1> QED BY <1>6, <1>9, Zenon DEF IInv

\* The flow f is in the tally or not; the count goes with it, and no further than max.
SlotMoves(v, w, max, a, b) ==
    \/ (a <=> b) /\ w = v
    \/ ~a /\ b /\ v < max /\ w = v + 1
    \/ a /\ ~b /\ w = v - 1

Slots(f) == /\ SlotMoves(leg, leg', maxConnsPerLeg, InMux(f), InMux(f)')
            /\ SlotMoves(sem, sem', maxConcurrent, InProxy(f), InProxy(f)')

LEMMA SameSlots ==
    ASSUME NEW f, UNCHANGED <<leg, sem>>, InMux(f)' <=> InMux(f), InProxy(f)' <=> InProxy(f)
    PROVE  Slots(f)
  BY Zenon DEF Slots, SlotMoves

\* A step that leaves everything but the streams, sent and got of f alone.
LEMMA EnvFrame ==
    ASSUME Typed, NEW f \in Flow,
           stream' = [stream EXCEPT ![f] = stream'[f]], cut' = [cut EXCEPT ![f] = cut'[f]],
           sent' = [sent EXCEPT ![f] = sent'[f]], got' = [got EXCEPT ![f] = got'[f]],
           UNCHANGED <<pump, plan, muxVars, proxyVars>>
    PROVE  Touches(f) /\ Slots(f)
  <1>1. pump' = [pump EXCEPT ![f] = pump'[f]] BY Zenon DEF Typed
  <1>2. mux' = [mux EXCEPT ![f] = mux'[f]] BY Zenon DEF Typed, muxVars
  <1>3. px' = [px EXCEPT ![f] = px'[f]] BY Zenon DEF Typed, proxyVars
  <1>4. Slots(f) BY SameSlots, Zenon DEF muxVars, proxyVars, InMux, InProxy
  <1> QED BY <1>1, <1>2, <1>3, <1>4, Zenon DEF Touches

\* What Good says, with the flow's kind named.
LEMMA Kind ==
    ASSUME NEW f \in Flow, Good(f)
    PROVE  \E d \in BOOLEAN :
              /\ d = (f \in plan.guest)
              /\ FlowType(stream[f], pump[f], cut[f], mux[f], px[f], sent[f], got[f])
              /\ FlowInv(stream[f], pump[f], cut[f], mux[f], px[f], sent[f], got[f], d)
  <1>1. (f \in plan.guest) \in BOOLEAN OBVIOUS
  <1> QED BY <1>1, Zenon DEF Good

\* A step of the mux or of the proxy: the environment's variables stay.
LEMMA SystemFrame ==
    ASSUME Typed, NEW f \in Flow,
           stream' = [stream EXCEPT ![f] = stream'[f]], pump' = [pump EXCEPT ![f] = pump'[f]],
           cut' = [cut EXCEPT ![f] = cut'[f]], mux' = [mux EXCEPT ![f] = mux'[f]],
           px' = [px EXCEPT ![f] = px'[f]], UNCHANGED envVars
    PROVE  Touches(f)
  <1>1. sent' = [sent EXCEPT ![f] = sent'[f]] /\ got' = [got EXCEPT ![f] = got'[f]] /\ plan' = plan
    BY Zenon DEF Typed, envVars
  <1> QED BY <1>1, Zenon DEF Touches

LEMMA Same ==
    ASSUME Typed, NEW f \in Flow
    PROVE  /\ UNCHANGED stream => stream' = [stream EXCEPT ![f] = stream'[f]]
           /\ UNCHANGED pump => pump' = [pump EXCEPT ![f] = pump'[f]]
           /\ UNCHANGED cut => cut' = [cut EXCEPT ![f] = cut'[f]]
           /\ UNCHANGED mux => mux' = [mux EXCEPT ![f] = mux'[f]]
           /\ UNCHANGED px => px' = [px EXCEPT ![f] = px'[f]]
  BY Zenon DEF Typed

LEMMA Sets ==
    ASSUME Typed, NEW f \in Flow
    PROVE  /\ \A S : stream' = [stream EXCEPT ![f] = S] =>
                        stream'[f] = S /\ stream' = [stream EXCEPT ![f] = stream'[f]]
           /\ \A P : pump' = [pump EXCEPT ![f] = P] =>
                        pump'[f] = P /\ pump' = [pump EXCEPT ![f] = pump'[f]]
           /\ \A c : cut' = [cut EXCEPT ![f] = c] =>
                        cut'[f] = c /\ cut' = [cut EXCEPT ![f] = cut'[f]]
           /\ \A m : mux' = [mux EXCEPT ![f] = m] =>
                        mux'[f] = m /\ mux' = [mux EXCEPT ![f] = mux'[f]]
           /\ \A p : px' = [px EXCEPT ![f] = p] =>
                        px'[f] = p /\ px' = [px EXCEPT ![f] = px'[f]]
  BY Zenon DEF Typed

\* What a return of handleConn does to the flow.
LEMMA ReturnFacts ==
    ASSUME Typed, NEW f \in Flow, NEW R, return(f, R)
    PROVE  /\ px' = [px EXCEPT ![f] = px'[f]]
           /\ px'[f] \in PxState /\ px'[f].pc = "closed"
           /\ px'[f].ip = px[f].ip /\ px'[f].recs = px[f].recs
           /\ px[f].ip # NoIP => px'[f].host = px[f].host
           /\ stream' = [stream EXCEPT ![f] = stream'[f]]
           /\ \E u \in BOOLEAN : stream'[f] = closeConns(R, u)
           /\ sem' = sem - 1
  <1>1. px[f] \in PxState BY Zenon DEF Typed
  <1> DEFINE h == IF px[f].ip = NoIP THEN NoHost ELSE px[f].host
             p2 == [px[f] EXCEPT !.pc = "closed", !.host = h]
  <1>2. px' = [px EXCEPT ![f] = p2] BY Zenon DEF return
  <1>3. h \in Host \cup {NoHost} /\ (px[f].ip # NoIP => h = px[f].host) BY <1>1, Zenon DEF PxState
  <1> HIDE DEF h
  <1>4. /\ p2 \in PxState /\ p2.pc = "closed" /\ p2.ip = px[f].ip /\ p2.recs = px[f].recs
        /\ p2.host = h
    <2>1. "closed" \in ProxyPC BY Zenon DEF ProxyPC
    <2> QED BY <1>1, <1>3, <2>1, Zenon DEF PxState
  <1> HIDE DEF p2
  <1>5. px'[f] = p2 /\ px' = [px EXCEPT ![f] = px'[f]] BY <1>2, Sets, Zenon
  <1>6. /\ stream'[f] = closeConns(R, px[f].ip # NoIP) /\ stream' = [stream EXCEPT ![f] = stream'[f]]
    BY Sets, Zenon DEF return, SetStreams
  <1>7. (px[f].ip # NoIP) \in BOOLEAN BY Zenon
  <1>8. \E u \in BOOLEAN : stream'[f] = closeConns(R, u) BY <1>6, <1>7, Zenon
  <1>9. sem' = sem - 1 BY Zenon DEF return
  <1> QED BY <1>3, <1>4, <1>5, <1>6, <1>8, <1>9, Zenon

-----------------------------------------------------------------------------
(* The socket calls                                                        *)

LEMMA PutFacts ==
    ASSUME NEW S \in Streams, NEW s \in Stream, NEW x \in Chunk
    PROVE  /\ Put(S, s, x) \in Streams
           /\ Put(S, s, x)[s].q = Append(S[s].q, x)
           /\ Put(S, s, x)[s].fin = S[s].fin /\ Put(S, s, x)[s].shut = S[s].shut
           /\ \A t \in Stream \ {s} : Put(S, s, x)[t] = S[t]
  <1>1. S[s].q \in Seq(Chunk) BY Zenon DEF Streams, StreamState
  <1>2. Append(S[s].q, x) \in Seq(Chunk) BY <1>1
  <1> QED BY <1>2, Zenon DEF Put, Streams, StreamState

LEMMA TakeFacts ==
    ASSUME NEW S \in Streams, NEW s \in Stream, S[s].q # <<>>
    PROVE  /\ Take(S, s) \in Streams
           /\ Take(S, s)[s].q = Tail(S[s].q)
           /\ Take(S, s)[s].fin = S[s].fin /\ Take(S, s)[s].shut = S[s].shut
           /\ \A t \in Stream \ {s} : Take(S, s)[t] = S[t]
           /\ Head(S[s].q) \in Chunk /\ Len(Tail(S[s].q)) = Len(S[s].q) - 1
  <1>1. S[s].q \in Seq(Chunk) BY Zenon DEF Streams, StreamState
  <1>2. Tail(S[s].q) \in Seq(Chunk) /\ Head(S[s].q) \in Chunk /\ Len(Tail(S[s].q)) = Len(S[s].q) - 1
    BY <1>1
  <1> QED BY <1>2, Zenon DEF Take, Streams, StreamState

LEMMA CloseWriteFacts ==
    ASSUME NEW S \in Streams, NEW s \in Stream
    PROVE  /\ CloseWrite(S, s) \in Streams
           /\ CloseWrite(S, s)[s].q = S[s].q
           /\ CloseWrite(S, s)[s].fin /\ CloseWrite(S, s)[s].shut = S[s].shut
           /\ \A t \in Stream \ {s} : CloseWrite(S, s)[t] = S[t]
  BY Zenon DEF CloseWrite, Streams, StreamState

LEMMA CloseFacts ==
    ASSUME NEW S \in Streams, NEW r \in Stream, NEW w \in Stream, r # w
    PROVE  /\ Close(S, r, w) \in Streams
           /\ Close(S, r, w)[r].q = <<>>
           /\ Close(S, r, w)[r].fin = S[r].fin /\ Close(S, r, w)[r].shut
           /\ Close(S, r, w)[w].q = S[w].q
           /\ Close(S, r, w)[w].fin /\ Close(S, r, w)[w].shut = S[w].shut
           /\ \A t \in Stream \ {r, w} : Close(S, r, w)[t] = S[t]
  <1>1. <<>> \in Seq(Chunk) OBVIOUS
  <1> QED BY <1>1, Zenon DEF Close, Streams, StreamState

LEMMA CloseShape ==
    ASSUME NEW S \in Streams, NEW r \in Stream, NEW w \in Stream, r # w,
           NEW T, T = Close(S, r, w)
    PROVE  /\ T \in Streams
           /\ T[r].q = <<>> /\ T[r].shut /\ T[w].fin
           /\ \A t \in Stream : t # r => T[t].q = S[t].q /\ T[t].shut = S[t].shut
           /\ \A t \in Stream : t # w => T[t].fin = S[t].fin
  <1>1. /\ T \in Streams /\ T[r].q = <<>> /\ T[r].shut /\ T[w].fin
        /\ T[r].fin = S[r].fin /\ T[w].q = S[w].q /\ T[w].shut = S[w].shut
    BY CloseFacts
  <1>2. \A t \in Stream \ {r, w} : T[t] = S[t]
    <2>1. \A t \in Stream \ {r, w} : Close(S, r, w)[t] = S[t] BY CloseFacts, Zenon
    <2> QED BY <2>1, Zenon
  <1>3. \A t \in Stream : t # r => T[t].q = S[t].q /\ T[t].shut = S[t].shut BY <1>1, <1>2, Zenon
  <1>4. \A t \in Stream : t # w => T[t].fin = S[t].fin BY <1>1, <1>2, Zenon
  <1> QED BY <1>1, <1>3, <1>4, Zenon

LEMMA BoundedFacts ==
    ASSUME NEW S \in Streams, Bounded(S), NEW s \in Stream
    PROVE  /\ \A x \in Chunk : ~Full(S, s) => Bounded(Put(S, s, x))
           /\ S[s].q # <<>> => Bounded(Take(S, s))
           /\ Bounded(CloseWrite(S, s))
           /\ \A w \in Stream : s # w => Bounded(Close(S, s, w))
  <1>1. /\ \A t \in Stream : Len(S[t].q) <= SocketBuf
        /\ S[s].q \in Seq(Chunk) /\ Len(S[s].q) \in Nat /\ SocketBuf \in Nat
    BY BufAssumption DEF Bounded, Streams, StreamState
  <1>2. ASSUME NEW x \in Chunk, ~Full(S, s) PROVE Bounded(Put(S, s, x))
    <2>1. Len(S[s].q) < SocketBuf BY <1>1, <1>2 DEF Full
    <2>2. Len(Append(S[s].q, x)) <= SocketBuf BY <1>1, <2>1
    <2>3. /\ Put(S, s, x)[s].q = Append(S[s].q, x)
          /\ \A t \in Stream \ {s} : Put(S, s, x)[t] = S[t]
      BY PutFacts, Zenon
    <2> QED BY <1>1, <2>2, <2>3, Zenon DEF Bounded
  <1>3. ASSUME S[s].q # <<>> PROVE Bounded(Take(S, s))
    <2>1. Len(Tail(S[s].q)) = Len(S[s].q) - 1 BY <1>1, <1>3
    <2>2. Len(Tail(S[s].q)) <= SocketBuf BY <1>1, <2>1
    <2>3. /\ Take(S, s)[s].q = Tail(S[s].q)
          /\ \A t \in Stream \ {s} : Take(S, s)[t] = S[t]
      BY <1>3, TakeFacts, Zenon
    <2> QED BY <1>1, <2>2, <2>3, Zenon DEF Bounded
  <1>4. Bounded(CloseWrite(S, s))
    <2>3. /\ CloseWrite(S, s)[s].q = S[s].q
          /\ \A t \in Stream \ {s} : CloseWrite(S, s)[t] = S[t]
      BY CloseWriteFacts, Zenon
    <2> QED BY <1>1, <2>3, Zenon DEF Bounded
  <1>5. ASSUME NEW w \in Stream, s # w PROVE Bounded(Close(S, s, w))
    <2>1. Len(<<>>) <= SocketBuf BY <1>1
    <2>3. /\ Close(S, s, w)[s].q = <<>> /\ Close(S, s, w)[w].q = S[w].q
          /\ \A t \in Stream \ {s, w} : Close(S, s, w)[t] = S[t]
      BY <1>5, CloseFacts
    <2> QED BY <1>1, <2>1, <2>3, Zenon DEF Bounded
  <1> QED BY <1>2, <1>3, <1>4, <1>5, Zenon

-----------------------------------------------------------------------------
(* Chunks on their way back: what a move, an append and a loss do to Line  *)

LEMMA JoinEmpty ==
    ASSUME NEW s \in Seq(Chunk)
    PROVE  s \o <<>> = s /\ <<>> \o s = s
  OBVIOUS

LEMMA Regroup ==
    ASSUME NEW a \in Seq(Chunk), NEW b \in Seq(Chunk), NEW e \in Seq(Chunk)
    PROVE  a \o (b \o e) = (a \o b) \o e
  OBVIOUS

LEMMA Shift ==
    ASSUME NEW a \in Seq(Chunk), NEW b \in Seq(Chunk), b # <<>>
    PROVE  Append(a, Head(b)) \o Tail(b) = a \o b
  OBVIOUS

LEMMA Pull ==
    ASSUME NEW b \in Seq(Chunk), b # <<>>
    PROVE  <<Head(b)>> \o Tail(b) = b
  OBVIOUS

LEMMA Push ==
    ASSUME NEW a \in Seq(Chunk), NEW b \in Seq(Chunk), NEW x \in Chunk
    PROVE  /\ a \o (<<x>> \o b) = Append(a, x) \o b
           /\ a \o Append(b, x) = Append(a \o b, x)
  OBVIOUS

\* One reply and then data: so is a part of it, and so is it with more data.
LEMMA PartOfReply ==
    ASSUME NEW a \in Seq(Chunk), NEW b \in Seq(Chunk), OneReply(a \o b)
    PROVE  OneReply(a)
  <1> SUFFICES ASSUME a # <<>> PROVE /\ a[1] = "OK" \/ a = <<"ERR">>
                                    /\ \A i \in 2..Len(a) : a[i] = "dat"
    BY Zenon DEF OneReply
  <1>1. /\ a \o b \in Seq(Chunk) /\ Len(a \o b) = Len(a) + Len(b) /\ Len(a) \in Nat \ {0} /\ Len(b) \in Nat
        /\ \A i \in 1..Len(a) : (a \o b)[i] = a[i]
    OBVIOUS
  <1>2. a \o b # <<>> BY <1>1
  <1>3. \A i \in 2..Len(a) : a[i] = "dat" BY <1>1, <1>2 DEF OneReply
  <1>4. a \o b = <<"ERR">> => a = <<"ERR">>
    <2> HAVE a \o b = <<"ERR">>
    <2>1. Len(a) = 1 /\ a[1] = "ERR" BY <1>1
    <2> QED BY <2>1
  <1> QED BY <1>1, <1>2, <1>3, <1>4 DEF OneReply

LEMMA MoreData ==
    ASSUME NEW s \in Seq(Chunk), OneReply(s), s # <<>>, s[1] = "OK"
    PROVE  /\ OneReply(Append(s, "dat"))
           /\ Append(s, "dat") # <<>> /\ Append(s, "dat")[1] = "OK"
  <1>1. Append(s, "dat") \in Seq(Chunk) /\ Len(Append(s, "dat")) = Len(s) + 1 BY DEF Chunk
  <1>2. Append(s, "dat")[1] = "OK" BY <1>1
  <1>3. \A i \in 2..Len(Append(s, "dat")) : Append(s, "dat")[i] = "dat" BY <1>1 DEF OneReply
  <1> QED BY <1>1, <1>2, <1>3 DEF OneReply

-----------------------------------------------------------------------------
(* The three moves of a copy loop                                          *)

Reads(S, P, k, S2, P2) ==
    /\ P[k].pc = "read" /\ S[Src[k]].q # <<>>
    /\ S2 = Take(S, Src[k])
    /\ P2 = [P EXCEPT ![k] = [pc |-> "write", x |-> Head(S[Src[k]].q)]]

Writes(S, P, k, S2, P2) ==
    /\ P[k].pc = "write" /\ ~S[Dst[k]].shut /\ ~Full(S, Dst[k])
    /\ S2 = Put(S, Dst[k], P[k].x)
    /\ P2 = [P EXCEPT ![k].pc = "read"]

Leaves(S, P, k, S2, P2) ==
    /\ P[k].pc \in {"read", "write"}
    /\ S2 = CloseWrite(S, Dst[k])
    /\ P2 = [P EXCEPT ![k].pc = "done"]

LEMMA Ends ==
    /\ \A k \in Pump : Src[k] \in Stream /\ Dst[k] \in Stream /\ Src[k] # Dst[k]
    /\ Src["mf"] = "am" /\ Src["mb"] = "pm" /\ Src["pf"] = "mp" /\ Src["pb"] = "up"
    /\ Dst["mf"] = "mp" /\ Dst["mb"] = "ma" /\ Dst["pf"] = "pu" /\ Dst["pb"] = "pm"
    /\ \A k, l \in Pump : k # l => Src[k] # Src[l] /\ Dst[k] # Dst[l]
  BY DEF Src, Dst, Pump, Stream

LEMMA ReadFacts ==
    ASSUME NEW S \in Streams, NEW P \in Pumps, NEW k \in Pump, NEW S2, NEW P2,
           Reads(S, P, k, S2, P2)
    PROVE  /\ S2 \in Streams /\ P2 \in Pumps
           /\ P[k].pc = "read" /\ S[Src[k]].q # <<>>
           /\ S2[Src[k]].q = Tail(S[Src[k]].q)
           /\ Head(S[Src[k]].q) \in Chunk /\ Len(Tail(S[Src[k]].q)) = Len(S[Src[k]].q) - 1
           /\ S2[Src[k]].fin = S[Src[k]].fin /\ S2[Src[k]].shut = S[Src[k]].shut
           /\ \A t \in Stream \ {Src[k]} : S2[t] = S[t]
           /\ P2[k].pc = "write" /\ P2[k].x = Head(S[Src[k]].q)
           /\ \A l \in Pump \ {k} : P2[l] = P[l]
  <1>1. Src[k] \in Stream BY Ends, Zenon
  <1>2. /\ S2 \in Streams /\ S2[Src[k]].q = Tail(S[Src[k]].q)
        /\ Head(S[Src[k]].q) \in Chunk /\ Len(Tail(S[Src[k]].q)) = Len(S[Src[k]].q) - 1
        /\ S2[Src[k]].fin = S[Src[k]].fin /\ S2[Src[k]].shut = S[Src[k]].shut
        /\ \A t \in Stream \ {Src[k]} : S2[t] = S[t]
    BY <1>1, TakeFacts, Zenon DEF Reads
  <1>3. /\ P2 \in Pumps /\ P2[k].pc = "write" /\ P2[k].x = Head(S[Src[k]].q)
        /\ \A l \in Pump \ {k} : P2[l] = P[l]
    BY <1>2, Zenon DEF Reads, Pumps, PumpState
  <1> QED BY <1>2, <1>3, Zenon DEF Reads

LEMMA WriteFacts ==
    ASSUME NEW S \in Streams, NEW P \in Pumps, NEW k \in Pump, NEW S2, NEW P2,
           Writes(S, P, k, S2, P2)
    PROVE  /\ S2 \in Streams /\ P2 \in Pumps
           /\ P[k].pc = "write" /\ P[k].x \in Chunk /\ ~S[Dst[k]].shut /\ ~Full(S, Dst[k])
           /\ S2[Dst[k]].q = Append(S[Dst[k]].q, P[k].x)
           /\ S2[Dst[k]].fin = S[Dst[k]].fin /\ S2[Dst[k]].shut = S[Dst[k]].shut
           /\ \A t \in Stream \ {Dst[k]} : S2[t] = S[t]
           /\ P2[k].pc = "read" /\ \A l \in Pump \ {k} : P2[l] = P[l]
  <1>1. Dst[k] \in Stream BY Ends, Zenon
  <1>2. P[k].x \in Chunk BY Zenon DEF Pumps, PumpState
  <1>3. /\ S2 \in Streams /\ S2[Dst[k]].q = Append(S[Dst[k]].q, P[k].x)
        /\ S2[Dst[k]].fin = S[Dst[k]].fin /\ S2[Dst[k]].shut = S[Dst[k]].shut
        /\ \A t \in Stream \ {Dst[k]} : S2[t] = S[t]
    BY <1>1, <1>2, PutFacts, Zenon DEF Writes
  <1>4. P2 \in Pumps /\ P2[k].pc = "read" /\ \A l \in Pump \ {k} : P2[l] = P[l]
    BY Zenon DEF Writes, Pumps, PumpState
  <1> QED BY <1>2, <1>3, <1>4, Zenon DEF Writes

LEMMA LeaveFacts ==
    ASSUME NEW S \in Streams, NEW P \in Pumps, NEW k \in Pump, NEW S2, NEW P2,
           Leaves(S, P, k, S2, P2)
    PROVE  /\ S2 \in Streams /\ P2 \in Pumps
           /\ P[k].pc \in {"read", "write"}
           /\ \A t \in Stream : S2[t].q = S[t].q /\ S2[t].shut = S[t].shut
           /\ S2[Dst[k]].fin
           /\ \A t \in Stream \ {Dst[k]} : S2[t] = S[t]
           /\ P2[k].pc = "done" /\ \A l \in Pump \ {k} : P2[l] = P[l]
  <1>1. Dst[k] \in Stream BY Ends, Zenon
  <1>3. /\ S2 \in Streams /\ S2[Dst[k]].q = S[Dst[k]].q
        /\ S2[Dst[k]].fin /\ S2[Dst[k]].shut = S[Dst[k]].shut
        /\ \A t \in Stream \ {Dst[k]} : S2[t] = S[t]
    BY <1>1, CloseWriteFacts, Zenon DEF Leaves
  <1>4. P2 \in Pumps /\ P2[k].pc = "done" /\ \A l \in Pump \ {k} : P2[l] = P[l]
    BY Zenon DEF Leaves, Pumps, PumpState
  <1> QED BY <1>3, <1>4, Zenon DEF Leaves

Moves(S, P, k, S2, P2) ==
    Reads(S, P, k, S2, P2) \/ Writes(S, P, k, S2, P2) \/ Leaves(S, P, k, S2, P2)

\* A copy loop touches nothing but its two streams and itself.
LEMMA MoveFacts ==
    ASSUME NEW S \in Streams, NEW P \in Pumps, NEW k \in Pump, NEW S2, NEW P2,
           Moves(S, P, k, S2, P2)
    PROVE  /\ S2 \in Streams /\ P2 \in Pumps
           /\ \A l \in Pump \ {k} : P2[l] = P[l]
           /\ P[k].pc \in {"read", "write"} /\ P2[k].pc \in {"read", "write", "done"}
           /\ \A t \in Stream : S2[t].shut = S[t].shut
           /\ \A t \in Stream \ {Src[k], Dst[k]} : S2[t] = S[t]
  <1>1. CASE Reads(S, P, k, S2, P2)
    <2>1. \A t \in Stream \ {Src[k]} : S2[t] = S[t] BY <1>1, ReadFacts
    <2>2. S2[Src[k]].shut = S[Src[k]].shut BY <1>1, ReadFacts, Zenon
    <2> QED BY <1>1, <2>1, <2>2, ReadFacts
  <1>2. CASE Writes(S, P, k, S2, P2)
    <2>1. \A t \in Stream \ {Dst[k]} : S2[t] = S[t] BY <1>2, WriteFacts
    <2>2. S2[Dst[k]].shut = S[Dst[k]].shut BY <1>2, WriteFacts, Zenon
    <2> QED BY <1>2, <2>1, <2>2, WriteFacts
  <1>3. CASE Leaves(S, P, k, S2, P2)
    <2>1. \A t \in Stream \ {Dst[k]} : S2[t] = S[t] BY <1>3, LeaveFacts
    <2>2. \A t \in Stream : S2[t].shut = S[t].shut BY <1>3, LeaveFacts
    <2> QED BY <1>3, <2>1, <2>2, LeaveFacts
  <1> QED BY <1>1, <1>2, <1>3, Zenon DEF Moves

\* A copy loop that reads or writes loses no chunk and makes none.
LEMMA Conserved ==
    ASSUME NEW S \in Streams, NEW P \in Pumps, NEW k \in Pump, NEW S2, NEW P2,
           Reads(S, P, k, S2, P2) \/ Writes(S, P, k, S2, P2),
           NEW g \in GotState
    PROVE  Forward(S2, P2, g) = Forward(S, P, g) /\ Back(S2, P2, g) = Back(S, P, g)
  <1>0. \A s \in Stream : S[s].q \in Seq(Chunk) /\ InFlight(S, s) \in Int
    BY DEF Streams, StreamState, InFlight
  <1>1. /\ InFlight(S, "am") \in Int /\ InFlight(S, "mp") \in Int /\ InFlight(S, "pu") \in Int
        /\ Moving(P, "mf") \in Int /\ Moving(P, "pf") \in Int
        /\ Bit(k = "mf") \in Int /\ Bit(k = "pf") \in Int
        /\ Len(g.up) \in Int
    BY <1>0 DEF Stream, GotState, Bit, Moving
  <1>2. /\ InFlight(S, "up") \in Int /\ InFlight(S, "pm") \in Int /\ InFlight(S, "ma") \in Int
        /\ Moving(P, "mb") \in Int /\ Moving(P, "pb") \in Int
        /\ Bit(k = "mb") \in Int /\ Bit(k = "pb") \in Int
        /\ Len(g.agent) \in Int
    BY <1>0 DEF Stream, GotState, Bit, Moving
  <1>3. CASE Reads(S, P, k, S2, P2)
    <2>1. \A s \in Stream : InFlight(S2, s) = IF s = Src[k] THEN InFlight(S, s) - 1 ELSE InFlight(S, s)
      <3>1. \A s \in Stream \ {Src[k]} : S2[s] = S[s] BY <1>3, ReadFacts
      <3>2. /\ S2[Src[k]].q = Tail(S[Src[k]].q)
            /\ Len(Tail(S[Src[k]].q)) = Len(S[Src[k]].q) - 1
        BY <1>3, TakeFacts, Ends, Zenon DEF Reads
      <3> QED BY <3>1, <3>2, Zenon DEF InFlight
    <2>2. \A l \in Pump : Moving(P2, l) = IF l = k THEN Moving(P, l) + 1 ELSE Moving(P, l)
      BY <1>3, ReadFacts DEF Moving
    <2>3. /\ InFlight(S2, "am") = InFlight(S, "am") - Bit(k = "mf")
          /\ InFlight(S2, "mp") = InFlight(S, "mp") - Bit(k = "pf")
          /\ InFlight(S2, "pu") = InFlight(S, "pu")
          /\ Moving(P2, "mf") = Moving(P, "mf") + Bit(k = "mf")
          /\ Moving(P2, "pf") = Moving(P, "pf") + Bit(k = "pf")
      BY <1>1, <2>1, <2>2 DEF Bit, Src, Stream, Pump
    <2>4. /\ InFlight(S2, "up") = InFlight(S, "up") - Bit(k = "pb")
          /\ InFlight(S2, "pm") = InFlight(S, "pm") - Bit(k = "mb")
          /\ InFlight(S2, "ma") = InFlight(S, "ma")
          /\ Moving(P2, "mb") = Moving(P, "mb") + Bit(k = "mb")
          /\ Moving(P2, "pb") = Moving(P, "pb") + Bit(k = "pb")
      BY <1>2, <2>1, <2>2 DEF Bit, Src, Stream, Pump
    <2>5. Forward(S2, P2, g) = Forward(S, P, g) BY <1>1, <2>3 DEF Forward
    <2>6. Back(S2, P2, g) = Back(S, P, g) BY <1>2, <2>4 DEF Back
    <2> QED BY <2>5, <2>6, Zenon
  <1>4. CASE Writes(S, P, k, S2, P2)
    <2>1. \A s \in Stream : InFlight(S2, s) = IF s = Dst[k] THEN InFlight(S, s) + 1 ELSE InFlight(S, s)
      <3>1. \A s \in Stream \ {Dst[k]} : S2[s] = S[s] BY <1>4, WriteFacts
      <3>2. /\ S2[Dst[k]].q = Append(S[Dst[k]].q, P[k].x)
            /\ Len(Append(S[Dst[k]].q, P[k].x)) = Len(S[Dst[k]].q) + 1
        BY <1>0, <1>4, WriteFacts, Ends
      <3> QED BY <3>1, <3>2, Zenon DEF InFlight
    <2>2. \A l \in Pump : Moving(P2, l) = IF l = k THEN Moving(P, l) - 1 ELSE Moving(P, l)
      BY <1>4, WriteFacts DEF Moving
    <2>3. /\ InFlight(S2, "mp") = InFlight(S, "mp") + Bit(k = "mf")
          /\ InFlight(S2, "pu") = InFlight(S, "pu") + Bit(k = "pf")
          /\ InFlight(S2, "am") = InFlight(S, "am")
          /\ Moving(P2, "mf") = Moving(P, "mf") - Bit(k = "mf")
          /\ Moving(P2, "pf") = Moving(P, "pf") - Bit(k = "pf")
      BY <1>1, <2>1, <2>2 DEF Bit, Dst, Stream, Pump
    <2>4. /\ InFlight(S2, "pm") = InFlight(S, "pm") + Bit(k = "pb")
          /\ InFlight(S2, "ma") = InFlight(S, "ma") + Bit(k = "mb")
          /\ InFlight(S2, "up") = InFlight(S, "up")
          /\ Moving(P2, "mb") = Moving(P, "mb") - Bit(k = "mb")
          /\ Moving(P2, "pb") = Moving(P, "pb") - Bit(k = "pb")
      BY <1>2, <2>1, <2>2 DEF Bit, Dst, Stream, Pump
    <2>5. Forward(S2, P2, g) = Forward(S, P, g) BY <1>1, <2>3 DEF Forward
    <2>6. Back(S2, P2, g) = Back(S, P, g) BY <1>2, <2>4 DEF Back
    <2> QED BY <2>5, <2>6, Zenon
  <1> QED BY <1>3, <1>4, Zenon

-----------------------------------------------------------------------------
(* What is on its way to the agent                                         *)

LEMMA LineType ==
    ASSUME NEW S \in Streams, NEW P \in Pumps, NEW r \in Seq(Chunk), NEW d
    PROVE  /\ Line(S, P, r, d) \in Seq(Chunk)
           /\ Held(P, "mb") \in Seq(Chunk)
           /\ S["ma"].q \in Seq(Chunk) /\ S["pm"].q \in Seq(Chunk)
           /\ r \o S["ma"].q \in Seq(Chunk) /\ Held(P, "mb") \o S["pm"].q \in Seq(Chunk)
  <1>2. S["ma"].q \in Seq(Chunk) /\ S["pm"].q \in Seq(Chunk) BY Zenon DEF Streams, StreamState, Stream
  <1>3. Held(P, "mb") \in Seq(Chunk)
    <2>1. P["mb"].x \in Chunk BY Zenon DEF Pumps, PumpState, Pump
    <2>2. <<P["mb"].x>> \in Seq(Chunk) /\ <<>> \in Seq(Chunk) BY <2>1
    <2> QED BY <2>2, Zenon DEF Held
  <1>4. r \o S["ma"].q \in Seq(Chunk) /\ Held(P, "mb") \o S["pm"].q \in Seq(Chunk)
    BY <1>2, <1>3
  <1>5. (r \o S["ma"].q) \o (Held(P, "mb") \o S["pm"].q) \in Seq(Chunk)
    BY <1>4
  <1>6. <<>> \in Seq(Chunk) OBVIOUS
  <1>7. (r \o S["ma"].q) \o <<>> \in Seq(Chunk) BY <1>4, <1>6
  <1> QED BY <1>2, <1>3, <1>4, <1>5, <1>7, Zenon DEF Line

\* The reply is written before the first byte of data: what keeps that.
Replying(p) == p.pc \notin Unreplied \cup {"closed"}

LEMMA LineKeeps ==
    ASSUME NEW S, NEW P, NEW p, NEW r, NEW d, NEW S2, NEW P2, NEW p2, NEW r2,
           LineInv(S, P, p, r, d),
           Line(S2, P2, r2, d) = Line(S, P, r, d),
           Relaying(S2, P2, d) /\ ~S2["pm"].shut => Relaying(S, P, d) /\ ~S["pm"].shut,
           P2["pb"].pc = "off" => P["pb"].pc = "off",
           P2["pb"].pc = "write" => P2["pb"].x = "dat",
           Data(S2["up"].q), ~d => S2["ma"].q = <<>>,
           p2.pc \in Unreplied => p.pc \in Unreplied,
           Replying(p2) => Replying(p)
    PROVE  LineInv(S2, P2, p2, r2, d)
  BY Zenon DEF LineInv, Replying

LEMMA LineLoses ==
    ASSUME NEW S \in Streams, NEW P \in Pumps, NEW p, NEW r \in Seq(Chunk), NEW d,
           NEW S2 \in Streams, NEW P2 \in Pumps, NEW p2, NEW r2 \in Seq(Chunk),
           LineInv(S, P, p, r, d),
           NEW T \in Seq(Chunk), Line(S, P, r, d) = Line(S2, P2, r2, d) \o T,
           ~Relaying(S2, P2, d) \/ S2["pm"].shut,
           P2["pb"].pc = "off" => P["pb"].pc = "off",
           P2["pb"].pc = "write" => P2["pb"].x = "dat",
           Data(S2["up"].q), ~d => S2["ma"].q = <<>>,
           p2.pc \in Unreplied => p.pc \in Unreplied
    PROVE  LineInv(S2, P2, p2, r2, d)
  <1>1. Line(S2, P2, r2, d) \in Seq(Chunk) BY LineType, Zenon
  <1>2. OneReply(Line(S2, P2, r2, d)) BY <1>1, PartOfReply, Zenon DEF LineInv
  <1>3. /\ Len(Line(S2, P2, r2, d)) <= Len(Line(S, P, r, d))
        /\ Line(S, P, r, d) = <<>> => Line(S2, P2, r2, d) = <<>>
    BY <1>1
  <1>4. Len(Line(S, P, r, d)) <= 1 => Len(Line(S2, P2, r2, d)) <= 1
    <2>1. Len(Line(S2, P2, r2, d)) \in Nat /\ Len(Line(S, P, r, d)) \in Nat BY <1>1, LineType
    <2> QED BY <1>3, <2>1
  <1> QED BY <1>2, <1>3, <1>4, Zenon DEF LineInv

\* A chunk put into pm is the last of the line, if anybody still relays it.
LEMMA LineGrows ==
    ASSUME NEW S \in Streams, NEW P \in Pumps, NEW r \in Seq(Chunk), NEW d, NEW x \in Chunk,
           NEW S2, S2["ma"] = S["ma"], S2["pm"].q = Append(S["pm"].q, x),
           NEW P2, P2["mb"] = P["mb"]
    PROVE  /\ Relaying(S, P, d) => Line(S2, P2, r, d) = Append(Line(S, P, r, d), x)
           /\ ~Relaying(S, P, d) => Line(S2, P2, r, d) = Line(S, P, r, d)
  <1> DEFINE a == r \o S["ma"].q
             h == Held(P, "mb")
  <1>1. a \in Seq(Chunk) /\ h \in Seq(Chunk) /\ S["pm"].q \in Seq(Chunk)
        /\ h \o S["pm"].q \in Seq(Chunk)
    BY LineType, Zenon
  <1>2. Held(P2, "mb") = h /\ (Relaying(S2, P2, d) <=> Relaying(S, P, d)) BY Zenon DEF Held, Relaying
  <1>3. h \o Append(S["pm"].q, x) = Append(h \o S["pm"].q, x) BY <1>1, Push, Zenon
  <1>4. a \o Append(h \o S["pm"].q, x) = Append(a \o (h \o S["pm"].q), x) BY <1>1, Push, ZenonT(30)
  <1> QED BY <1>2, <1>3, <1>4, Zenon DEF Line

-----------------------------------------------------------------------------
(* A step of a copy loop                                                   *)

LEMMA PumpPhase ==
    ASSUME NEW P \in Pumps, NEW P2 \in Pumps, NEW k \in Pump, NEW m, NEW p, NEW d,
           PhaseInv(P, m, p, d),
           P[k].pc \in {"read", "write"}, P2[k].pc \in {"read", "write", "done"},
           \A l \in Pump \ {k} : P2[l] = P[l]
    PROVE  PhaseInv(P2, m, p, d)
  <1>1. \A l \in Pump : /\ P2[l].pc = "off" <=> P[l].pc = "off"
                        /\ P[l].pc \in {"off", "done"} => P2[l].pc = P[l].pc
    BY Zenon
  <1>2. {"mf", "mb", "pf", "pb"} \subseteq Pump BY Zenon DEF Pump
  <1> QED BY <1>1, <1>2, Zenon DEF PhaseInv

LEMMA PumpLine ==
    ASSUME NEW S \in Streams, NEW P \in Pumps, NEW m, NEW p, NEW r \in Seq(Chunk), NEW d \in BOOLEAN,
           LineInv(S, P, p, r, d), PhaseInv(P, m, p, d),
           NEW k \in Pump, NEW S2, NEW P2,
           Moves(S, P, k, S2, P2)
    PROVE  LineInv(S2, P2, p, r, d)
  <1>0. /\ S2 \in Streams /\ P2 \in Pumps
        /\ \A l \in Pump \ {k} : P2[l] = P[l]
        /\ P[k].pc \in {"read", "write"}
        /\ P2[k].pc \in {"read", "write", "done"}
        /\ \A t \in Stream : S2[t].shut = S[t].shut
        /\ \A t \in Stream \ {Src[k], Dst[k]} : S2[t] = S[t]
    BY MoveFacts
  <1>1. CASE k \in {"mf", "pf"}
    <2>1. \A t \in {"up", "pm", "ma"} : S2[t].q = S[t].q /\ S2[t].shut = S[t].shut
      BY <1>0, <1>1 DEF Src, Dst, Stream
    <2>2. P2["mb"] = P["mb"] /\ P2["pb"] = P["pb"] BY <1>0, <1>1, Zenon DEF Pump
    <2>3. Line(S2, P2, r, d) = Line(S, P, r, d) /\ (Relaying(S2, P2, d) <=> Relaying(S, P, d))
      BY <2>1, <2>2, Zenon DEF Line, Relaying, Held
    <2> QED BY <2>1, <2>2, <2>3, LineKeeps, Zenon DEF LineInv
  <1>2. CASE k = "mb"
    <2>1. P2["pb"] = P["pb"] /\ S2["up"].q = S["up"].q
      BY <1>0, <1>2, Zenon DEF Src, Dst, Stream, Pump
    <2>2. d
      BY <1>0, <1>2, Zenon DEF PhaseInv
    <2>3. CASE Reads(S, P, k, S2, P2)
      <3>1. /\ S["pm"].q # <<>> /\ S2["pm"].q = Tail(S["pm"].q) /\ S2["ma"] = S["ma"]
            /\ S2["pm"].shut = S["pm"].shut
            /\ P["mb"].pc = "read" /\ P2["mb"].pc = "write" /\ P2["mb"].x = Head(S["pm"].q)
        BY <1>2, <2>3, ReadFacts DEF Src, Stream
      <3>2. Relaying(S2, P2, d) <=> Relaying(S, P, d) BY <3>1, Zenon DEF Relaying
      <3>3. Held(P2, "mb") \o S2["pm"].q = Held(P, "mb") \o S["pm"].q
        <4>1. S["pm"].q \in Seq(Chunk) BY LineType, Zenon
        <4>2. <<Head(S["pm"].q)>> \o Tail(S["pm"].q) = S["pm"].q /\ <<>> \o S["pm"].q = S["pm"].q
          BY <3>1, <4>1, Pull, JoinEmpty, Zenon
        <4> QED BY <3>1, <4>2, Zenon DEF Held
      <3>4. Line(S2, P2, r, d) = Line(S, P, r, d) BY <3>1, <3>2, <3>3, Zenon DEF Line
      <3> QED BY <2>1, <2>2, <3>1, <3>2, <3>4, LineKeeps, Zenon DEF LineInv
    <2>4. CASE Writes(S, P, k, S2, P2)
      <3>1. /\ S2["ma"].q = Append(S["ma"].q, P["mb"].x) /\ S2["ma"].shut = S["ma"].shut
            /\ S2["pm"] = S["pm"] /\ ~S["ma"].shut
            /\ P["mb"].pc = "write" /\ P2["mb"].pc = "read" /\ P["mb"].x \in Chunk
        <4>1. Dst[k] = "ma" /\ "pm" \in Stream \ {"ma"} BY <1>2, Ends, Zenon DEF Stream
        <4>2. /\ S2[Dst[k]].q = Append(S[Dst[k]].q, P[k].x) /\ S2[Dst[k]].shut = S[Dst[k]].shut
              /\ ~S[Dst[k]].shut /\ P[k].pc = "write" /\ P2[k].pc = "read" /\ P[k].x \in Chunk
          BY <2>4, WriteFacts, Zenon
        <4>3. \A t \in Stream \ {Dst[k]} : S2[t] = S[t] BY <2>4, WriteFacts
        <4> QED BY <1>2, <4>1, <4>2, <4>3, Zenon
      <3>2. Relaying(S2, P2, d) /\ Relaying(S, P, d) BY <3>1, Zenon DEF Relaying
      <3>3. Line(S2, P2, r, d) = Line(S, P, r, d)
        <4> DEFINE x == P["mb"].x
        <4>1. r \in Seq(Chunk) /\ S["ma"].q \in Seq(Chunk) /\ S["pm"].q \in Seq(Chunk)
              /\ r \o S["ma"].q \in Seq(Chunk)
          BY LineType, Zenon
        <4>2. r \o Append(S["ma"].q, x) = Append(r \o S["ma"].q, x)
          BY <3>1, <4>1, Push, Zenon
        <4>3. (r \o S["ma"].q) \o (<<x>> \o S["pm"].q) = Append(r \o S["ma"].q, x) \o S["pm"].q
          BY <3>1, <4>1, Push, ZenonT(30)
        <4>4. <<>> \o S["pm"].q = S["pm"].q BY <4>1, JoinEmpty, Zenon
        <4>5. Held(P, "mb") = <<x>> /\ Held(P2, "mb") = <<>> BY <3>1, Zenon DEF Held
        <4> QED BY <3>1, <3>2, <4>2, <4>3, <4>4, <4>5, Zenon DEF Line
      <3> QED BY <2>1, <2>2, <3>1, <3>2, <3>3, LineKeeps, Zenon DEF LineInv
    <2>5. CASE Leaves(S, P, k, S2, P2)
      <3>1. S2["ma"].q = S["ma"].q /\ P2["mb"].pc = "done"
        <4>1. (\A t \in Stream : S2[t].q = S[t].q) /\ P2[k].pc = "done" BY <2>5, LeaveFacts
        <4> QED BY <1>2, <4>1, Zenon DEF Stream
      <3>2. ~Relaying(S2, P2, d) BY <2>2, <3>1, Zenon DEF Relaying
      <3>3. \E T \in Seq(Chunk) : Line(S, P, r, d) = Line(S2, P2, r, d) \o T
        <4> DEFINE a == r \o S["ma"].q
        <4>1. a \in Seq(Chunk) /\ Held(P, "mb") \o S["pm"].q \in Seq(Chunk) /\ <<>> \in Seq(Chunk)
          BY LineType
        <4>2. Line(S2, P2, r, d) = a
          BY <3>1, <3>2, <4>1, JoinEmpty, Zenon DEF Line
        <4>3. \E T \in Seq(Chunk) : Line(S, P, r, d) = a \o T BY <4>1, Zenon DEF Line
        <4> QED BY <4>2, <4>3, Zenon
      <3>4. /\ P2["pb"].pc = "write" => P2["pb"].x = "dat"
            /\ Data(S2["up"].q) /\ (~d => S2["ma"].q = <<>>)
            /\ P2["pb"].pc = "off" => P["pb"].pc = "off"
        BY <2>1, <2>2, Zenon DEF LineInv
      <3> QED BY <1>0, <3>2, <3>3, <3>4, LineLoses, ZenonT(30)
    <2> QED BY <2>3, <2>4, <2>5, Zenon DEF Moves
  <1>3. CASE k = "pb"
    <2>1. P2["mb"] = P["mb"] /\ S2["ma"] = S["ma"]
      BY <1>0, <1>3, Zenon DEF Src, Dst, Stream, Pump
    <2>2. Relaying(S2, P2, d) <=> Relaying(S, P, d) BY <2>1, Zenon DEF Relaying
    <2>3. CASE Reads(S, P, k, S2, P2)
      <3>1. /\ S["up"].q # <<>> /\ S2["up"].q = Tail(S["up"].q) /\ S2["pm"] = S["pm"]
            /\ P2["pb"].pc = "write" /\ P2["pb"].x = Head(S["up"].q)
        BY <1>3, <2>3, ReadFacts DEF Src, Stream
      <3>2. Data(S2["up"].q) /\ Head(S["up"].q) = "dat"
        <4>1. S["up"].q \in Seq(Chunk) BY Zenon DEF Streams, StreamState, Stream
        <4>2. Data(S["up"].q) BY Zenon DEF LineInv
        <4> QED BY <3>1, <4>1, <4>2 DEF Data
      <3>3. Line(S2, P2, r, d) = Line(S, P, r, d) BY <2>1, <2>2, <3>1, Zenon DEF Line, Held
      <3> QED BY <2>1, <2>2, <3>1, <3>2, <3>3, LineKeeps, ZenonT(30) DEF LineInv
    <2>4. CASE Writes(S, P, k, S2, P2)
      <3>1. /\ S2["pm"].q = Append(S["pm"].q, P["pb"].x) /\ S2["pm"].shut = S["pm"].shut
            /\ S2["up"] = S["up"] /\ ~S["pm"].shut
            /\ P["pb"].pc = "write" /\ P2["pb"].pc = "read" /\ P["pb"].x \in Chunk
        <4>1. Dst[k] = "pm" /\ "up" \in Stream \ {"pm"} BY <1>3, Ends, Zenon DEF Stream
        <4>2. /\ S2[Dst[k]].q = Append(S[Dst[k]].q, P[k].x) /\ S2[Dst[k]].shut = S[Dst[k]].shut
              /\ ~S[Dst[k]].shut /\ P[k].pc = "write" /\ P2[k].pc = "read" /\ P[k].x \in Chunk
          BY <2>4, WriteFacts, Zenon
        <4>3. \A t \in Stream \ {Dst[k]} : S2[t] = S[t] BY <2>4, WriteFacts
        <4> QED BY <1>3, <4>1, <4>2, <4>3, Zenon
      <3>2. P["pb"].x = "dat" BY <3>1, Zenon DEF LineInv
      <3>3. p.pc \in {"splice", "inspect"} BY <3>1, Zenon DEF PhaseInv
      <3>4. CASE Relaying(S, P, d)
        <4>1. Line(S2, P2, r, d) = Append(Line(S, P, r, d), "dat")
          BY <2>1, <3>1, <3>2, <3>4, LineGrows
        <4>2. Line(S, P, r, d) # <<>> /\ Line(S, P, r, d)[1] = "OK" /\ OneReply(Line(S, P, r, d))
          BY <3>1, <3>3, <3>4, Zenon DEF LineInv, Unreplied
        <4>3. Line(S, P, r, d) \in Seq(Chunk) BY LineType, Zenon
        <4>4. /\ OneReply(Line(S2, P2, r, d))
              /\ Line(S2, P2, r, d) # <<>> /\ Line(S2, P2, r, d)[1] = "OK"
          BY <4>1, <4>2, <4>3, MoreData, Zenon
        <4>5. p.pc \notin Unreplied BY <3>3, Zenon DEF Unreplied
        <4> QED BY <2>1, <3>1, <4>4, <4>5, Zenon DEF LineInv
      <3>5. CASE ~Relaying(S, P, d)
        <4>1. Line(S2, P2, r, d) = Line(S, P, r, d) BY <2>1, <3>1, <3>5, LineGrows
        <4> QED BY <2>1, <2>2, <3>1, <4>1, LineKeeps, ZenonT(30) DEF LineInv
      <3> QED BY <3>4, <3>5, Zenon
    <2>5. CASE Leaves(S, P, k, S2, P2)
      <3>1. S2["pm"].q = S["pm"].q /\ S2["pm"].shut = S["pm"].shut /\ S2["up"].q = S["up"].q
            /\ P2["pb"].pc = "done"
        <4>1. (\A t \in Stream : S2[t].q = S[t].q) /\ P2[k].pc = "done" BY <2>5, LeaveFacts
        <4> QED BY <1>0, <1>3, <4>1, Zenon DEF Stream
      <3>2. Line(S2, P2, r, d) = Line(S, P, r, d) BY <2>1, <2>2, <3>1, Zenon DEF Line, Held
      <3> QED BY <2>1, <2>2, <3>1, <3>2, LineKeeps, Zenon DEF LineInv
    <2> QED BY <2>3, <2>4, <2>5, Zenon DEF Moves
  <1> QED BY <1>1, <1>2, <1>3, Zenon DEF Pump

LEMMA PumpEnd ==
    ASSUME NEW S \in Streams, NEW P \in Pumps, NEW m, NEW p, NEW d \in BOOLEAN,
           NEW c \in BOOLEAN, NEW c2 \in BOOLEAN, c => c2,
           EndInv(S, P, c, d), PhaseInv(P, m, p, d),
           NEW k \in Pump, NEW S2, NEW P2, Moves(S, P, k, S2, P2),
           Leaves(S, P, k, S2, P2) => c2 \/ (S[Src[k]].q = <<>> /\ S[Src[k]].fin)
    PROVE  EndInv(S2, P2, c2, d)
  <1> SUFFICES ASSUME ~c2, NEW l \in Pump
               PROVE  /\ S2[Dst[l]].fin /\ (l = "mf" => d) => P2[l].pc = "done"
                      /\ P2[l].pc = "done" => S2[Src[l]].fin /\ S2[Src[l]].q = <<>>
    BY Zenon DEF EndInv
  <1>1. /\ S[Dst[l]].fin /\ (l = "mf" => d) => P[l].pc = "done"
        /\ S[Dst[k]].fin /\ (k = "mf" => d) => P[k].pc = "done"
        /\ P[l].pc = "done" => S[Src[l]].fin /\ S[Src[l]].q = <<>>
    BY Zenon DEF EndInv
  <1>2. P[k].pc \in {"read", "write"} /\ \A j \in Pump \ {k} : P2[j] = P[j] BY MoveFacts, Zenon
  <1>3. k = "mf" => d BY <1>2, Zenon DEF PhaseInv
  <1>4. /\ Src[l] \in Stream /\ Dst[l] \in Stream /\ Src[k] # Dst[k]
        /\ l # k => Src[l] # Src[k] /\ Dst[l] # Dst[k]
    BY Ends, Zenon
  <1>5. CASE Reads(S, P, k, S2, P2)
    <2>1. /\ \A t \in Stream \ {Src[k]} : S2[t] = S[t]
          /\ S2[Src[k]].fin = S[Src[k]].fin
      BY <1>5, ReadFacts
    <2>2. P2[k].pc = "write" BY <1>5, ReadFacts, Zenon
    <2>3. S2[Dst[l]].fin = S[Dst[l]].fin BY <1>4, <2>1, Zenon
    <2> QED BY <1>1, <1>2, <1>3, <1>4, <2>1, <2>2, <2>3, ZenonT(30)
  <1>6. CASE Writes(S, P, k, S2, P2)
    <2>1. /\ \A t \in Stream \ {Dst[k]} : S2[t] = S[t]
          /\ S2[Dst[k]].fin = S[Dst[k]].fin
      BY <1>6, WriteFacts
    <2>2. P2[k].pc = "read" BY <1>6, WriteFacts
    <2>3. ~S[Dst[k]].fin BY <1>1, <1>2, <1>3, Zenon
    <2> QED BY <1>1, <1>2, <1>4, <2>1, <2>2, <2>3, ZenonT(30)
  <1>7. CASE Leaves(S, P, k, S2, P2)
    <2>1. \A t \in Stream \ {Dst[k]} : S2[t] = S[t]
      BY <1>7, LeaveFacts
    <2>2. P2[k].pc = "done" /\ S2[Dst[k]].fin BY <1>7, LeaveFacts, Zenon
    <2>3. \A t \in Stream : S2[t].q = S[t].q BY <1>7, LeaveFacts
    <2>4. S[Src[k]].q = <<>> /\ S[Src[k]].fin BY <1>7, Zenon
    <2> QED BY <1>1, <1>2, <1>4, <2>1, <2>2, <2>3, <2>4, ZenonT(30)
  <1> QED BY <1>5, <1>6, <1>7, ZenonT(30) DEF Moves

LEMMA NoReqFacts ==
    ASSUME NEW s \in Seq(Chunk), NoReq(s)
    PROVE  /\ \A x \in Chunk : x # "req" => NoReq(Append(s, x))
           /\ s # <<>> => NoReq(Tail(s)) /\ Head(s) # "req"
  BY DEF NoReq

LEMMA PumpAsked ==
    ASSUME NEW S \in Streams, NEW P \in Pumps, NEW p, NEW n,
           AskedInv(S, P, p, n),
           NEW k \in Pump, NEW S2, NEW P2, Moves(S, P, k, S2, P2)
    PROVE  AskedInv(S2, P2, p, n)
  <1> SUFFICES ASSUME ~n.asked
               PROVE  /\ NoReq(S2["am"].q) /\ NoReq(S2["mp"].q)
                      /\ P2["mf"].pc = "write" => P2["mf"].x # "req"
    BY Zenon DEF AskedInv
  <1>1. /\ NoReq(S["am"].q) /\ NoReq(S["mp"].q)
        /\ P["mf"].pc = "write" => P["mf"].x # "req"
    BY Zenon DEF AskedInv
  <1>2. S["am"].q \in Seq(Chunk) /\ S["mp"].q \in Seq(Chunk) BY Zenon DEF Streams, StreamState, Stream
  <1>3. \A l \in Pump \ {k} : P2[l] = P[l] BY MoveFacts
  <1>5. CASE Reads(S, P, k, S2, P2)
    <2>1. /\ \A t \in Stream \ {Src[k]} : S2[t] = S[t]
          /\ S2[Src[k]].q = Tail(S[Src[k]].q) /\ S[Src[k]].q # <<>>
          /\ P2[k].x = Head(S[Src[k]].q)
      BY <1>5, ReadFacts
    <2>2. /\ S2["am"].q = S["am"].q \/ (S["am"].q # <<>> /\ S2["am"].q = Tail(S["am"].q))
          /\ S2["mp"].q = S["mp"].q \/ (S["mp"].q # <<>> /\ S2["mp"].q = Tail(S["mp"].q))
      BY <2>1, Zenon DEF Stream
    <2>3. P2["mf"] = P["mf"] \/ (S["am"].q # <<>> /\ P2["mf"].x = Head(S["am"].q))
      BY <1>3, <2>1 DEF Pump, Src
    <2> QED BY <1>1, <1>2, <2>2, <2>3, NoReqFacts, Zenon
  <1>6. CASE Writes(S, P, k, S2, P2)
    <2>1. /\ \A t \in Stream \ {Dst[k]} : S2[t] = S[t]
          /\ S2[Dst[k]].q = Append(S[Dst[k]].q, P[k].x)
          /\ P[k].x \in Chunk /\ P[k].pc = "write" /\ P2[k].pc = "read"
      BY <1>6, WriteFacts, ZenonT(30)
    <2>2. /\ S2["am"].q = S["am"].q
          /\ \/ S2["mp"].q = S["mp"].q
             \/ /\ S2["mp"].q = Append(S["mp"].q, P["mf"].x)
                /\ P["mf"].x \in Chunk /\ P["mf"].pc = "write"
      <3>1. "am" \in Stream /\ "mp" \in Stream BY Zenon DEF Stream
      <3>2. Dst[k] # "am" /\ (Dst[k] = "mp" => k = "mf") BY DEF Dst, Pump
      <3> QED BY <2>1, <3>1, <3>2, Zenon
    <2>3. P2["mf"] = P["mf"] \/ P2["mf"].pc = "read" BY <1>3, <2>1, Zenon DEF Pump
    <2> QED BY <1>1, <1>2, <2>2, <2>3, NoReqFacts, Zenon
  <1>7. CASE Leaves(S, P, k, S2, P2)
    <2>1. (\A t \in Stream : S2[t].q = S[t].q) /\ P2[k].pc = "done" BY <1>7, LeaveFacts
    <2> QED BY <1>1, <1>3, <2>1, Zenon DEF Stream, Pump
  <1> QED BY <1>5, <1>6, <1>7, Zenon DEF Moves

LEMMA PumpCount ==
    ASSUME NEW S \in Streams, NEW P \in Pumps, NEW m, NEW p, NEW n, NEW g \in GotState,
           NEW d \in BOOLEAN, NEW c \in BOOLEAN, NEW c2 \in BOOLEAN, c => c2,
           CountInv(S, P, c, p, n, g, d), PhaseInv(P, m, p, d),
           NEW k \in Pump, NEW S2, NEW P2, Moves(S, P, k, S2, P2),
           Leaves(S, P, k, S2, P2) => c2 \/ P[k].pc = "read"
    PROVE  CountInv(S2, P2, c2, p, n, g, d)
  <1>1. ~d => S2["am"].q = <<>>
    <2> SUFFICES ASSUME ~d PROVE S2["am"] = S["am"] BY Zenon DEF CountInv
    <2>1. P[k].pc \in {"read", "write"} BY MoveFacts, Zenon
    <2>2. k # "mf" BY <2>1, Zenon DEF PhaseInv
    <2>3. "am" \in Stream \ {Src[k], Dst[k]} BY <2>2 DEF Src, Dst, Stream, Pump
    <2> QED BY <2>3, MoveFacts
  <1>2. c2 \/ (Forward(S2, P2, g) = Forward(S, P, g) /\ Back(S2, P2, g) = Back(S, P, g))
    <2>1. CASE Reads(S, P, k, S2, P2) \/ Writes(S, P, k, S2, P2) BY <2>1, Conserved
    <2>2. CASE Leaves(S, P, k, S2, P2) /\ ~c2
      <3>1. \A t \in Stream : S2[t].q = S[t].q BY <2>2, LeaveFacts
      <3>2. P2[k].pc = "done" /\ \A l \in Pump \ {k} : P2[l] = P[l] BY <2>2, LeaveFacts
      <3>3. \A l \in Pump : Moving(P2, l) = Moving(P, l) BY <2>2, <3>2, Zenon DEF Moving
      <3>4. \A t \in Stream : InFlight(S2, t) = InFlight(S, t) BY <3>1, Zenon DEF InFlight
      <3> QED BY <3>3, <3>4, Zenon DEF Forward, Back, Stream, Pump
    <2> QED BY <2>1, <2>2, ZenonT(30) DEF Moves
  <1> QED BY <1>1, <1>2, Zenon DEF CountInv

LEMMA PumpBytes ==
    ASSUME NEW S \in Streams, NEW P \in Pumps, NEW g, BytesInv(S, P, g),
           NEW k \in Pump, NEW S2, NEW P2, Moves(S, P, k, S2, P2)
    PROVE  BytesInv(S2, P2, g)
  <1>1. /\ \A l \in Pump \ {k} : P2[l] = P[l]
        /\ P[k].pc \in {"read", "write"} /\ P2[k].pc \in {"read", "write", "done"}
    BY MoveFacts
  <1>2. CASE k = "pf" BY <1>1, <1>2, Zenon DEF BytesInv
  <1>3. CASE k # "pf"
    <2>1. P2["pf"] = P["pf"] BY <1>1, <1>3, Zenon DEF Pump
    <2>2. "pu" \in Stream \ {Src[k], Dst[k]} BY <1>3 DEF Src, Dst, Stream, Pump
    <2>3. S2["pu"] = S["pu"] BY <2>2, MoveFacts
    <2> QED BY <2>1, <2>3, Zenon DEF BytesInv
  <1> QED BY <1>2, <1>3, Zenon

\* A copy loop that reads, writes or ends (the cut from c to c2): it may end only at the
\* end of its source, or the flow is cut.
CopyOK(S, P, c, k, S2, P2, c2) ==
    /\ Moves(S, P, k, S2, P2) /\ (c => c2)
    /\ Leaves(S, P, k, S2, P2) =>
          c2 \/ (P[k].pc = "read" /\ S[Src[k]].q = <<>> /\ S[Src[k]].fin)

LEMMA PumpStep ==
    ASSUME NEW S, NEW P, NEW c, NEW m, NEW p, NEW n, NEW g, NEW d \in BOOLEAN,
           FlowType(S, P, c, m, p, n, g), FlowInv(S, P, c, m, p, n, g, d),
           NEW k \in Pump, NEW S2, NEW P2, NEW c2 \in BOOLEAN,
           CopyOK(S, P, c, k, S2, P2, c2)
    PROVE  FlowType(S2, P2, c2, m, p, n, g) /\ FlowInv(S2, P2, c2, m, p, n, g, d)
  <1> USE DEF CopyOK
  <1>0. S \in Streams /\ P \in Pumps /\ c \in BOOLEAN /\ g \in GotState BY ZenonT(30) DEF FlowType
  <1>1. FlowType(S2, P2, c2, m, p, n, g)
    <2>1. S2 \in Streams /\ P2 \in Pumps BY <1>0, MoveFacts, Zenon
    <2>2. Bounded(S2)
      <3>1. Bounded(S) /\ Src[k] \in Stream /\ Dst[k] \in Stream BY Ends, Zenon DEF FlowType
      <3>2. CASE Reads(S, P, k, S2, P2) BY <1>0, <3>1, <3>2, BoundedFacts, Zenon DEF Reads
      <3>3. CASE Writes(S, P, k, S2, P2)
        <4>1. P[k].x \in Chunk BY <1>0, Zenon DEF Pumps, PumpState
        <4> QED BY <1>0, <3>1, <3>3, <4>1, BoundedFacts, Zenon DEF Writes
      <3>4. CASE Leaves(S, P, k, S2, P2) BY <1>0, <3>1, <3>4, BoundedFacts, Zenon DEF Leaves
      <3> QED BY <3>2, <3>3, <3>4, Zenon DEF Moves
    <2> QED BY <2>1, <2>2, Zenon DEF FlowType
  <1>2. PhaseInv(P2, m, p, d)
    <2>1. /\ P2 \in Pumps /\ P[k].pc \in {"read", "write"} /\ P2[k].pc \in {"read", "write", "done"}
          /\ \A l \in Pump \ {k} : P2[l] = P[l]
      BY <1>0, MoveFacts
    <2> QED BY <1>0, <2>1, PumpPhase, ZenonT(30) DEF FlowInv
  <1>3. LineInv(S2, P2, p, g.agent, d)
    <2>1. g.agent \in Seq(Chunk) BY <1>0, Zenon DEF GotState
    <2> QED BY <1>0, <2>1, PumpLine, Zenon DEF FlowInv
  <1>4. BytesInv(S2, P2, g) BY <1>0, PumpBytes, Zenon DEF FlowInv
  <1>5. EndInv(S2, P2, c2, d) BY <1>0, PumpEnd, Zenon DEF FlowInv
  <1>6. AskedInv(S2, P2, p, n) BY <1>0, PumpAsked, Zenon DEF FlowInv
  <1>7. CountInv(S2, P2, c2, p, n, g, d) BY <1>0, PumpCount, ZenonT(30) DEF FlowInv
  <1> QED BY <1>1, <1>2, <1>3, <1>4, <1>5, <1>6, <1>7, ZenonT(30) DEF FlowInv

-----------------------------------------------------------------------------
(* Chunks that come and go                                                 *)

LEMMA OneMore ==
    ASSUME NEW i \in Int, NEW j \in Int
    PROVE  i = j + 0 => i + 1 = j + 1
  OBVIOUS

LEMMA PutCounts ==
    ASSUME NEW S \in Streams, NEW s \in Stream, NEW x \in Chunk, NEW t \in Stream
    PROVE  InFlight(Put(S, s, x), t) = InFlight(S, t) + Bit(t = s)
  <1>1. S[s].q \in Seq(Chunk) /\ S[t].q \in Seq(Chunk) BY Zenon DEF Streams, StreamState
  <1>2. Len(Append(S[s].q, x)) = Len(S[s].q) + 1 /\ Len(S[t].q) = Len(S[t].q) + 0 BY <1>1
  <1>3. CASE t = s BY <1>2, <1>3, PutFacts, Zenon DEF InFlight, Bit
  <1>4. CASE t # s
    <2>1. Put(S, s, x)[t] = S[t] BY <1>4, PutFacts
    <2> QED BY <1>2, <1>4, <2>1, Zenon DEF InFlight, Bit
  <1> QED BY <1>3, <1>4, Zenon

LEMMA TakeCounts ==
    ASSUME NEW S \in Streams, NEW s \in Stream, S[s].q # <<>>, NEW t \in Stream
    PROVE  InFlight(S, t) = InFlight(Take(S, s), t) + Bit(t = s)
  <1>1. S[s].q \in Seq(Chunk) /\ S[t].q \in Seq(Chunk) BY Zenon DEF Streams, StreamState
  <1>2. /\ Len(S[s].q) \in Int /\ Len(S[s].q) = Len(Tail(S[s].q)) + 1
        /\ Len(S[t].q) = Len(S[t].q) + 0
    BY <1>1
  <1>3. CASE t = s
    <2>1. Take(S, s)[s].q = Tail(S[s].q) BY TakeFacts, Zenon
    <2> QED BY <1>2, <1>3, <2>1, Zenon DEF InFlight, Bit
  <1>4. CASE t # s
    <2>1. Take(S, s)[t] = S[t] BY <1>4, TakeFacts, Zenon
    <2> QED BY <1>2, <1>4, <2>1, Zenon DEF InFlight, Bit
  <1> QED BY <1>3, <1>4, Zenon

\* A chunk put into a stream, taken from one, or delivered.
LEMMA PutSums ==
    ASSUME NEW S \in Streams, NEW P \in Pumps, NEW g \in GotState, NEW s \in Stream, NEW x \in Chunk
    PROVE  /\ Forward(Put(S, s, x), P, g) = Forward(S, P, g) + Bit(s \in {"am", "mp", "pu"})
           /\ Back(Put(S, s, x), P, g) = Back(S, P, g) + Bit(s \in {"up", "pm", "ma"})
  <1>1. \A t \in Stream : InFlight(Put(S, s, x), t) = InFlight(S, t) + Bit(t = s) BY PutCounts
  <1>2. Forward(Put(S, s, x), P, g) = Forward(S, P, g) + Bit(s \in {"am", "mp", "pu"})
    <2>1. PICK i1 \in Int, i2 \in Int, i3 \in Int, i4 \in Int, i5 \in Int, i6 \in Int :
             /\ i1 = InFlight(S, "am") /\ i2 = Moving(P, "mf") /\ i3 = InFlight(S, "mp")
             /\ i4 = Moving(P, "pf") /\ i5 = InFlight(S, "pu") /\ i6 = Len(g.up)
      BY Counts, Zenon
    <2>2. PICK a \in Int, b \in Int, u \in Int :
             /\ a = Bit("am" = s) /\ b = Bit("mp" = s) /\ u = Bit("pu" = s)
             /\ a + b + u = Bit(s \in {"am", "mp", "pu"})
      BY DEF Bit
    <2>3. Forward(S, P, g) = i1 + i2 + i3 + i4 + i5 + i6 BY <2>1, Zenon DEF Forward
    <2>4. Forward(Put(S, s, x), P, g) = (i1 + a) + i2 + (i3 + b) + i4 + (i5 + u) + i6
      <3>1. /\ InFlight(Put(S, s, x), "am") = i1 + a /\ InFlight(Put(S, s, x), "mp") = i3 + b
            /\ InFlight(Put(S, s, x), "pu") = i5 + u
        BY <1>1, <2>1, <2>2, Zenon DEF Stream
      <3> QED BY <2>1, <3>1, Zenon DEF Forward
    <2>5. Forward(Put(S, s, x), P, g) = Forward(S, P, g) + (a + b + u) BY <2>3, <2>4
    <2> QED BY <2>2, <2>5, Zenon
  <1>3. Back(Put(S, s, x), P, g) = Back(S, P, g) + Bit(s \in {"up", "pm", "ma"})
    <2>1. PICK i1 \in Int, i2 \in Int, i3 \in Int, i4 \in Int, i5 \in Int, i6 \in Int :
             /\ i1 = InFlight(S, "up") /\ i2 = Moving(P, "pb") /\ i3 = InFlight(S, "pm")
             /\ i4 = Moving(P, "mb") /\ i5 = InFlight(S, "ma") /\ i6 = Len(g.agent)
      BY Counts, Zenon
    <2>2. PICK a \in Int, b \in Int, u \in Int :
             /\ a = Bit("up" = s) /\ b = Bit("pm" = s) /\ u = Bit("ma" = s)
             /\ a + b + u = Bit(s \in {"up", "pm", "ma"})
      BY DEF Bit
    <2>3. Back(S, P, g) = i1 + i2 + i3 + i4 + i5 + i6 BY <2>1, Zenon DEF Back
    <2>4. Back(Put(S, s, x), P, g) = (i1 + a) + i2 + (i3 + b) + i4 + (i5 + u) + i6
      <3>1. /\ InFlight(Put(S, s, x), "up") = i1 + a /\ InFlight(Put(S, s, x), "pm") = i3 + b
            /\ InFlight(Put(S, s, x), "ma") = i5 + u
        BY <1>1, <2>1, <2>2, Zenon DEF Stream
      <3> QED BY <2>1, <3>1, Zenon DEF Back
    <2>5. Back(Put(S, s, x), P, g) = Back(S, P, g) + (a + b + u) BY <2>3, <2>4
    <2> QED BY <2>2, <2>5, Zenon
  <1> QED BY <1>2, <1>3, Zenon

LEMMA TakeSums ==
    ASSUME NEW S \in Streams, NEW P \in Pumps, NEW g \in GotState, NEW s \in Stream, S[s].q # <<>>
    PROVE  /\ Forward(S, P, g) = Forward(Take(S, s), P, g) + Bit(s \in {"am", "mp", "pu"})
           /\ Back(S, P, g) = Back(Take(S, s), P, g) + Bit(s \in {"up", "pm", "ma"})
  <1>0. Take(S, s) \in Streams BY TakeFacts, Zenon
  <1>1. \A t \in Stream : InFlight(S, t) = InFlight(Take(S, s), t) + Bit(t = s) BY TakeCounts
  <1>2. Forward(S, P, g) = Forward(Take(S, s), P, g) + Bit(s \in {"am", "mp", "pu"})
    <2>1. PICK i1 \in Int, i2 \in Int, i3 \in Int, i4 \in Int, i5 \in Int, i6 \in Int :
             /\ i1 = InFlight(Take(S, s), "am") /\ i2 = Moving(P, "mf") /\ i3 = InFlight(Take(S, s), "mp")
             /\ i4 = Moving(P, "pf") /\ i5 = InFlight(Take(S, s), "pu") /\ i6 = Len(g.up)
      BY <1>0, Counts, Zenon
    <2>2. PICK a \in Int, b \in Int, u \in Int :
             /\ a = Bit("am" = s) /\ b = Bit("mp" = s) /\ u = Bit("pu" = s)
             /\ a + b + u = Bit(s \in {"am", "mp", "pu"})
      BY DEF Bit
    <2>3. Forward(Take(S, s), P, g) = i1 + i2 + i3 + i4 + i5 + i6 BY <2>1, Zenon DEF Forward
    <2>4. Forward(S, P, g) = (i1 + a) + i2 + (i3 + b) + i4 + (i5 + u) + i6
      <3>1. /\ InFlight(S, "am") = i1 + a /\ InFlight(S, "mp") = i3 + b
            /\ InFlight(S, "pu") = i5 + u
        BY <1>1, <2>1, <2>2, Zenon DEF Stream
      <3> QED BY <2>1, <3>1, Zenon DEF Forward
    <2>5. Forward(S, P, g) = Forward(Take(S, s), P, g) + (a + b + u) BY <2>3, <2>4
    <2> QED BY <2>2, <2>5, Zenon
  <1>3. Back(S, P, g) = Back(Take(S, s), P, g) + Bit(s \in {"up", "pm", "ma"})
    <2>1. PICK i1 \in Int, i2 \in Int, i3 \in Int, i4 \in Int, i5 \in Int, i6 \in Int :
             /\ i1 = InFlight(Take(S, s), "up") /\ i2 = Moving(P, "pb") /\ i3 = InFlight(Take(S, s), "pm")
             /\ i4 = Moving(P, "mb") /\ i5 = InFlight(Take(S, s), "ma") /\ i6 = Len(g.agent)
      BY <1>0, Counts, Zenon
    <2>2. PICK a \in Int, b \in Int, u \in Int :
             /\ a = Bit("up" = s) /\ b = Bit("pm" = s) /\ u = Bit("ma" = s)
             /\ a + b + u = Bit(s \in {"up", "pm", "ma"})
      BY DEF Bit
    <2>3. Back(Take(S, s), P, g) = i1 + i2 + i3 + i4 + i5 + i6 BY <2>1, Zenon DEF Back
    <2>4. Back(S, P, g) = (i1 + a) + i2 + (i3 + b) + i4 + (i5 + u) + i6
      <3>1. /\ InFlight(S, "up") = i1 + a /\ InFlight(S, "pm") = i3 + b
            /\ InFlight(S, "ma") = i5 + u
        BY <1>1, <2>1, <2>2, Zenon DEF Stream
      <3> QED BY <2>1, <3>1, Zenon DEF Back
    <2>5. Back(S, P, g) = Back(Take(S, s), P, g) + (a + b + u) BY <2>3, <2>4
    <2> QED BY <2>2, <2>5, Zenon
  <1> QED BY <1>2, <1>3, Zenon

-----------------------------------------------------------------------------
(* The agent and the upstream: send, receive, hang up                      *)

\* Nothing on the way back has changed.
LEMMA LineFrame ==
    ASSUME NEW S, NEW P, NEW p, NEW r, NEW d, NEW S2, NEW P2, NEW p2,
           LineInv(S, P, p, r, d),
           S2["ma"].q = S["ma"].q, S2["ma"].shut = S["ma"].shut,
           S2["pm"].q = S["pm"].q, S2["pm"].shut = S["pm"].shut,
           Data(S2["up"].q), P2["mb"] = P["mb"], P2["pb"] = P["pb"],
           p2.pc \in Unreplied => p.pc \in Unreplied,
           Replying(p2) => Replying(p)
    PROVE  LineInv(S2, P2, p2, r, d)
  <1>1. Relaying(S2, P2, d) <=> Relaying(S, P, d) BY Zenon DEF Relaying
  <1>2. Line(S2, P2, r, d) = Line(S, P, r, d) BY <1>1, Zenon DEF Line, Held
  <1>3. /\ P["pb"].pc = "write" => P["pb"].x = "dat"
        /\ ~d => S["ma"].q = <<>>
    BY Zenon DEF LineInv
  <1> QED BY <1>1, <1>2, <1>3, LineKeeps, ZenonT(30)

\* What a writer that has not half-closed adds, ends no loop's reason to have ended.
LEMMA PutEnd ==
    ASSUME NEW S \in Streams, NEW P, NEW c, NEW d, EndInv(S, P, c, d),
           NEW s \in Stream, NEW x \in Chunk, c \/ ~S[s].fin
    PROVE  EndInv(Put(S, s, x), P, c, d)
  <1> DEFINE T == Put(S, s, x)
  <1>1. /\ T[s].fin = S[s].fin
        /\ \A t \in Stream \ {s} : T[t] = S[t]
    BY PutFacts, Zenon
  <1> HIDE DEF T
  <1> SUFFICES ASSUME ~c, NEW l \in Pump
               PROVE  /\ T[Dst[l]].fin /\ (l = "mf" => d) => P[l].pc = "done"
                      /\ P[l].pc = "done" => T[Src[l]].fin /\ T[Src[l]].q = <<>>
    BY Zenon DEF EndInv, T
  <1>2. /\ S[Dst[l]].fin /\ (l = "mf" => d) => P[l].pc = "done"
        /\ P[l].pc = "done" => S[Src[l]].fin /\ S[Src[l]].q = <<>>
    BY Zenon DEF EndInv
  <1>3. Src[l] \in Stream /\ Dst[l] \in Stream BY Ends, Zenon
  <1> QED BY <1>1, <1>2, <1>3, Zenon

LEMMA TakeEnd ==
    ASSUME NEW S \in Streams, NEW P, NEW c, NEW d, EndInv(S, P, c, d),
           NEW s \in Stream, S[s].q # <<>>
    PROVE  EndInv(Take(S, s), P, c, d)
  <1> DEFINE T == Take(S, s)
  <1>1. /\ T[s].fin = S[s].fin
        /\ \A t \in Stream \ {s} : T[t] = S[t]
    BY TakeFacts, Zenon
  <1> HIDE DEF T
  <1> SUFFICES ASSUME ~c, NEW l \in Pump
               PROVE  /\ T[Dst[l]].fin /\ (l = "mf" => d) => P[l].pc = "done"
                      /\ P[l].pc = "done" => T[Src[l]].fin /\ T[Src[l]].q = <<>>
    BY Zenon DEF EndInv, T
  <1>2. /\ S[Dst[l]].fin /\ (l = "mf" => d) => P[l].pc = "done"
        /\ P[l].pc = "done" => S[Src[l]].fin /\ S[Src[l]].q = <<>>
    BY Zenon DEF EndInv
  <1>3. Src[l] \in Stream /\ Dst[l] \in Stream BY Ends, Zenon
  <1> QED BY <1>1, <1>2, <1>3, Zenon

\* The agent sends a request or data.
LEMMA AgentSends ==
    ASSUME NEW S, NEW P, NEW c, NEW m, NEW p, NEW n, NEW g, NEW d \in BOOLEAN,
           FlowType(S, P, c, m, p, n, g), FlowInv(S, P, c, m, p, n, g, d),
           NEW s, s = IF d THEN "am" ELSE "mp", NEW x \in {"req", "dat"},
           ~S[s].fin, ~Full(S, s), x = "req" => ~n.asked,
           NEW n2, n2 = IF x = "req" THEN [n EXCEPT !.asked = TRUE] ELSE [n EXCEPT !.agent = @ + 1],
           NEW S2, S2 = Put(S, s, x)
    PROVE  FlowType(S2, P, c, m, p, n2, g) /\ FlowInv(S2, P, c, m, p, n2, g, d)
  <1>0. S \in Streams /\ P \in Pumps /\ c \in BOOLEAN /\ g \in GotState /\ n \in SentState
    BY Zenon DEF FlowType
  <1>1. s \in Stream /\ x \in Chunk BY Zenon DEF Stream, Chunk
  <1>2. /\ S2 \in Streams /\ S2[s].q = Append(S[s].q, x)
        /\ \A t \in Stream \ {s} : S2[t] = S[t]
    BY <1>0, <1>1, PutFacts
  <1>3. /\ n2 \in SentState /\ n2.up = n.up
        /\ x = "req" => n2.asked /\ n2.agent = n.agent
        /\ x = "dat" => n2.asked = n.asked /\ n2.agent = n.agent + 1
    <2>1. CASE x = "req" BY <1>0, <2>1, Zenon DEF SentState
    <2>2. CASE x = "dat" BY <1>0, <2>2 DEF SentState
    <2> QED BY <2>1, <2>2, Zenon
  <1>4. FlowType(S2, P, c, m, p, n2, g)
    BY <1>0, <1>1, <1>2, <1>3, BoundedFacts, Zenon DEF FlowType
  <1>5. S2["ma"] = S["ma"] /\ S2["pm"] = S["pm"] /\ S2["up"] = S["up"] /\ S2["pu"] = S["pu"]
    BY <1>2, Zenon DEF Stream
  <1>6. LineInv(S2, P, p, g.agent, d)
    <2>1. LineInv(S, P, p, g.agent, d) /\ Data(S["up"].q) BY Zenon DEF FlowInv, LineInv
    <2> QED BY <1>5, <2>1, LineFrame, Zenon
  <1>7. BytesInv(S2, P, g) BY <1>5, Zenon DEF FlowInv, BytesInv
  <1>8. EndInv(S2, P, c, d) BY <1>0, <1>1, PutEnd, Zenon DEF FlowInv
  <1>9. AskedInv(S2, P, p, n2)
    <2>1. CASE x = "req" BY <1>3, <2>1, Zenon DEF AskedInv
    <2>2. CASE x = "dat"
      <3>1. S["am"].q \in Seq(Chunk) /\ S["mp"].q \in Seq(Chunk)
        BY <1>0, Zenon DEF Streams, StreamState, Stream
      <3>2. \A t \in {"am", "mp"} : S2[t].q = S[t].q \/ S2[t].q = Append(S[t].q, "dat")
        BY <1>2, <2>2, Zenon DEF Stream
      <3>3. NoReq(S["am"].q) => NoReq(S2["am"].q) BY <1>1, <2>2, <3>1, <3>2, NoReqFacts, Zenon
      <3>4. NoReq(S["mp"].q) => NoReq(S2["mp"].q) BY <1>1, <2>2, <3>1, <3>2, NoReqFacts, Zenon
      <3> QED BY <1>3, <2>2, <3>3, <3>4, Zenon DEF FlowInv, AskedInv
    <2> QED BY <2>1, <2>2, Zenon
  <1>10. CountInv(S2, P, c, p, n2, g, d)
    <2>1. ~d => S2["am"].q = <<>> BY <1>2, Zenon DEF FlowInv, CountInv, Stream
    <2>2. /\ Back(S2, P, g) = Back(S, P, g)
      BY <1>5, Zenon DEF Back, InFlight
    <2>3. Forward(S2, P, g) = Forward(S, P, g) + 1
      <3>1. Bit(s \in {"am", "mp", "pu"}) = 1 BY Zenon DEF Bit
      <3> QED BY <1>0, <1>1, <3>1, PutSums
    <2>4. n2.agent + Bit(n2.asked) = (n.agent + Bit(n.asked)) + 1
      <3>1. n.agent \in Int BY <1>0 DEF SentState
      <3>2. CASE x = "req" BY <1>3, <3>1, <3>2 DEF Bit
      <3>3. CASE x = "dat" BY <1>3, <3>1, <3>3 DEF Bit
      <3> QED BY <3>2, <3>3, Zenon
    <2>5. \A b \in {0, 1} : Forward(S, P, g) + b = n.agent + Bit(n.asked) =>
                               Forward(S2, P, g) + b = n2.agent + Bit(n2.asked)
      <3>1. PICK i \in Int, j \in Int : i = Forward(S, P, g) /\ j = n.agent + Bit(n.asked)
        BY <1>0, Counts DEF SentState, Bit
      <3>2. Forward(S2, P, g) = i + 1 /\ n2.agent + Bit(n2.asked) = j + 1 BY <2>3, <2>4, <3>1, Zenon
      <3>3. \A b \in {0, 1} : i + b = j => (i + 1) + b = j + 1 OBVIOUS
      <3> QED BY <3>1, <3>2, <3>3, Zenon
    <2>6. Bit(p.pc \notin Unread) \in {0, 1} BY Zenon DEF Bit
    <2>7. CountInv(S, P, c, p, n, g, d) BY Zenon DEF FlowInv
    <2> QED BY <1>3, <2>1, <2>2, <2>5, <2>6, <2>7, Zenon DEF CountInv
  <1> QED BY <1>4, <1>6, <1>7, <1>8, <1>9, <1>10, Zenon DEF FlowInv

LEMMA UpGets ==
    ASSUME NEW S \in Streams, NEW P \in Pumps, NEW g \in GotState, NEW g2,
           Len(g2.up) = Len(g.up) + 1
    PROVE  Forward(S, P, g2) = Forward(S, P, g) + 1
  <1>1. PICK i1 \in Int, i2 \in Int, i3 \in Int, i4 \in Int, i5 \in Int, i6 \in Int :
           /\ i1 = InFlight(S, "am") /\ i2 = Moving(P, "mf") /\ i3 = InFlight(S, "mp")
           /\ i4 = Moving(P, "pf") /\ i5 = InFlight(S, "pu") /\ i6 = Len(g.up)
    BY Counts, Zenon
  <1>2. Forward(S, P, g) = i1 + i2 + i3 + i4 + i5 + i6 BY <1>1, Zenon DEF Forward
  <1>3. Forward(S, P, g2) = i1 + i2 + i3 + i4 + i5 + (i6 + 1) BY <1>1, Zenon DEF Forward
  <1> QED BY <1>2, <1>3

LEMMA AgentGets ==
    ASSUME NEW S \in Streams, NEW P \in Pumps, NEW g \in GotState, NEW g2,
           Len(g2.agent) = Len(g.agent) + 1
    PROVE  Back(S, P, g2) = Back(S, P, g) + 1
  <1>1. PICK i1 \in Int, i2 \in Int, i3 \in Int, i4 \in Int, i5 \in Int, i6 \in Int :
           /\ i1 = InFlight(S, "up") /\ i2 = Moving(P, "pb") /\ i3 = InFlight(S, "pm")
           /\ i4 = Moving(P, "mb") /\ i5 = InFlight(S, "ma") /\ i6 = Len(g.agent)
    BY Counts, Zenon
  <1>2. Back(S, P, g) = i1 + i2 + i3 + i4 + i5 + i6 BY <1>1, Zenon DEF Back
  <1>3. Back(S, P, g2) = i1 + i2 + i3 + i4 + i5 + (i6 + 1) BY <1>1, Zenon DEF Back
  <1> QED BY <1>2, <1>3

LEMMA DataFacts ==
    ASSUME NEW s \in Seq(Chunk), Data(s)
    PROVE  Data(Append(s, "dat")) /\ (s # <<>> => Data(Tail(s)) /\ Head(s) = "dat")
  <1>1. "dat" \in Chunk BY Zenon DEF Chunk
  <1>2. Data(Append(s, "dat")) BY <1>1 DEF Data
  <1>3. s # <<>> => Data(Tail(s)) /\ Head(s) = "dat" BY DEF Data
  <1> QED BY <1>2, <1>3, Zenon

\* The upstream sends data.
LEMMA UpstreamSends ==
    ASSUME NEW S, NEW P, NEW c, NEW m, NEW p, NEW n, NEW g, NEW d \in BOOLEAN,
           FlowType(S, P, c, m, p, n, g), FlowInv(S, P, c, m, p, n, g, d),
           ~S["up"].fin, ~Full(S, "up"),
           NEW n2, n2 = [n EXCEPT !.up = @ + 1],
           NEW S2, S2 = Put(S, "up", "dat")
    PROVE  FlowType(S2, P, c, m, p, n2, g) /\ FlowInv(S2, P, c, m, p, n2, g, d)
  <1>0. S \in Streams /\ P \in Pumps /\ c \in BOOLEAN /\ g \in GotState /\ n \in SentState
    BY Zenon DEF FlowType
  <1>1. "up" \in Stream /\ "dat" \in Chunk BY Zenon DEF Stream, Chunk
  <1>2. /\ S2 \in Streams /\ S2["up"].q = Append(S["up"].q, "dat")
        /\ \A t \in Stream \ {"up"} : S2[t] = S[t]
    BY <1>0, <1>1, PutFacts, Zenon
  <1>3. n2 \in SentState /\ n2.up = n.up + 1 /\ n2.asked = n.asked /\ n2.agent = n.agent
    BY <1>0 DEF SentState
  <1>4. FlowType(S2, P, c, m, p, n2, g)
    BY <1>0, <1>1, <1>2, <1>3, BoundedFacts, Zenon DEF FlowType
  <1>5. /\ S2["ma"] = S["ma"] /\ S2["pm"] = S["pm"] /\ S2["pu"] = S["pu"]
        /\ S2["am"] = S["am"] /\ S2["mp"] = S["mp"]
    BY <1>2, Zenon DEF Stream
  <1>6. LineInv(S2, P, p, g.agent, d)
    <2>1. LineInv(S, P, p, g.agent, d) /\ Data(S["up"].q) BY Zenon DEF FlowInv, LineInv
    <2>2. S["up"].q \in Seq(Chunk) BY <1>0, <1>1, Zenon DEF Streams, StreamState
    <2>3. Data(S2["up"].q) BY <1>2, <2>1, <2>2, DataFacts, Zenon
    <2> QED BY <1>5, <2>1, <2>3, LineFrame
  <1>7. BytesInv(S2, P, g) BY <1>5, Zenon DEF FlowInv, BytesInv
  <1>8. EndInv(S2, P, c, d) BY <1>0, <1>1, PutEnd, Zenon DEF FlowInv
  <1>9. AskedInv(S2, P, p, n2) BY <1>3, <1>5, Zenon DEF FlowInv, AskedInv
  <1>10. CountInv(S2, P, c, p, n2, g, d)
    <2>1. Forward(S2, P, g) = Forward(S, P, g) BY <1>5, Zenon DEF Forward, InFlight
    <2>2. Back(S2, P, g) = Back(S, P, g) + 1
      <3>1. Bit("up" \in {"up", "pm", "ma"}) = 1 BY Zenon DEF Bit
      <3> QED BY <1>0, <1>1, <3>1, PutSums
    <2>3. \A b \in {0, 1} : Back(S, P, g) = n.up + b => Back(S2, P, g) = n2.up + b
      <3>1. PICK i \in Int, j \in Int : i = Back(S, P, g) /\ j = n.up
        BY <1>0, Counts DEF SentState
      <3>2. Back(S2, P, g) = i + 1 /\ n2.up = j + 1 BY <1>3, <2>2, <3>1, Zenon
      <3>3. \A b \in {0, 1} : i = j + b => i + 1 = (j + 1) + b OBVIOUS
      <3> QED BY <3>1, <3>2, <3>3, Zenon
    <2>4. Bit(p.pc \notin Unreplied) \in {0, 1} BY Zenon DEF Bit
    <2>5. CountInv(S, P, c, p, n, g, d) BY Zenon DEF FlowInv
    <2> QED BY <1>3, <1>5, <2>1, <2>3, <2>4, <2>5, Zenon DEF CountInv
  <1> QED BY <1>4, <1>6, <1>7, <1>8, <1>9, <1>10, Zenon DEF FlowInv

\* The upstream reads.
LEMMA UpstreamReceives ==
    ASSUME NEW S, NEW P, NEW c, NEW m, NEW p, NEW n, NEW g, NEW d \in BOOLEAN,
           FlowType(S, P, c, m, p, n, g), FlowInv(S, P, c, m, p, n, g, d),
           S["pu"].q # <<>>, NEW g2, g2 = [g EXCEPT !.up = Append(@, Head(S["pu"].q))],
           NEW S2, S2 = Take(S, "pu")
    PROVE  FlowType(S2, P, c, m, p, n, g2) /\ FlowInv(S2, P, c, m, p, n, g2, d)
  <1>0. S \in Streams /\ P \in Pumps /\ c \in BOOLEAN /\ g \in GotState /\ n \in SentState
    BY Zenon DEF FlowType
  <1>1. "pu" \in Stream BY Zenon DEF Stream
  <1>2. /\ S2 \in Streams /\ Head(S["pu"].q) \in Chunk
        /\ \A t \in Stream \ {"pu"} : S2[t] = S[t]
    BY <1>0, <1>1, TakeFacts, Zenon
  <1>3. g2 \in GotState /\ g2.agent = g.agent /\ Len(g2.up) = Len(g.up) + 1
    <2>1. g.up \in Seq(Chunk) BY <1>0, Zenon DEF GotState
    <2>2. Append(g.up, Head(S["pu"].q)) \in Seq(Chunk)
          /\ Len(Append(g.up, Head(S["pu"].q))) = Len(g.up) + 1
      BY <1>2, <2>1
    <2> QED BY <1>0, <2>2, Zenon DEF GotState
  <1>4. FlowType(S2, P, c, m, p, n, g2) BY <1>0, <1>1, <1>2, <1>3, BoundedFacts, Zenon DEF FlowType
  <1>5. /\ S2["ma"] = S["ma"] /\ S2["pm"] = S["pm"] /\ S2["up"] = S["up"]
        /\ S2["am"] = S["am"] /\ S2["mp"] = S["mp"]
    BY <1>2, Zenon DEF Stream
  <1>6. LineInv(S2, P, p, g2.agent, d)
    <2>1. LineInv(S, P, p, g.agent, d) /\ Data(S["up"].q) BY Zenon DEF FlowInv, LineInv
    <2>2. LineInv(S2, P, p, g.agent, d) BY <1>5, <2>1, LineFrame, Zenon
    <2> QED BY <1>3, <2>2, Zenon
  <1>7. BytesInv(S2, P, g2) BY Zenon DEF FlowInv, BytesInv
  <1>8. EndInv(S2, P, c, d) BY <1>0, <1>1, TakeEnd, Zenon DEF FlowInv
  <1>9. AskedInv(S2, P, p, n) BY <1>5, Zenon DEF FlowInv, AskedInv
  <1>10. CountInv(S2, P, c, p, n, g2, d)
    <2>1. Back(S2, P, g2) = Back(S, P, g) BY <1>3, <1>5, Zenon DEF Back, InFlight
    <2>2. Forward(S, P, g) = Forward(S2, P, g) + 1
      <3>1. Bit("pu" \in {"am", "mp", "pu"}) = 1 BY Zenon DEF Bit
      <3> QED BY <1>0, <1>1, <3>1, TakeSums
    <2>3. Forward(S2, P, g2) = Forward(S, P, g)
      BY <1>0, <1>2, <1>3, <2>2, UpGets, ZenonT(30)
    <2> QED BY <1>5, <2>1, <2>3, Zenon DEF FlowInv, CountInv
  <1> QED BY <1>4, <1>6, <1>7, <1>8, <1>9, <1>10, Zenon DEF FlowInv

\* The agent reads.
Hears(g, x) == [g EXCEPT !.agent = Append(@, x)]

LEMMA AgentReceives ==
    ASSUME NEW S, NEW P, NEW c, NEW m, NEW p, NEW n, NEW g, NEW d \in BOOLEAN,
           FlowType(S, P, c, m, p, n, g), FlowInv(S, P, c, m, p, n, g, d),
           NEW s, s = IF d THEN "ma" ELSE "pm",
           S[s].q # <<>>, NEW g2, g2 = Hears(g, Head(S[s].q)),
           NEW S2, S2 = Take(S, s)
    PROVE  FlowType(S2, P, c, m, p, n, g2) /\ FlowInv(S2, P, c, m, p, n, g2, d)
  <1>0. S \in Streams /\ P \in Pumps /\ c \in BOOLEAN /\ g \in GotState /\ n \in SentState
    BY Zenon DEF FlowType
  <1>1. s \in Stream BY Zenon DEF Stream
  <1>2. /\ S2 \in Streams /\ Head(S[s].q) \in Chunk /\ S2[s].q = Tail(S[s].q)
        /\ S2[s].shut = S[s].shut
        /\ \A t \in Stream \ {s} : S2[t] = S[t]
    BY <1>0, <1>1, TakeFacts, ZenonT(30)
  <1>3. /\ g2 \in GotState /\ g2.up = g.up /\ Len(g2.agent) = Len(g.agent) + 1
        /\ g2.agent = Append(g.agent, Head(S[s].q)) /\ g.agent \in Seq(Chunk)
    <2>1. g.agent \in Seq(Chunk) BY <1>0, Zenon DEF GotState
    <2>2. Append(g.agent, Head(S[s].q)) \in Seq(Chunk)
          /\ Len(Append(g.agent, Head(S[s].q))) = Len(g.agent) + 1
      BY <1>2, <2>1
    <2> QED BY <1>0, <2>1, <2>2, Zenon DEF GotState, Hears
  <1>4. FlowType(S2, P, c, m, p, n, g2) BY <1>0, <1>1, <1>2, <1>3, BoundedFacts, ZenonT(30) DEF FlowType
  <1>5. /\ S2["up"] = S["up"] /\ S2["pu"] = S["pu"] /\ S2["am"] = S["am"] /\ S2["mp"] = S["mp"]
        /\ d => S2["pm"] = S["pm"]
        /\ ~d => S2["ma"] = S["ma"]
    BY <1>2, ZenonT(30) DEF Stream
  <1>6. LineInv(S2, P, p, g2.agent, d)
    <2>1. LineInv(S, P, p, g.agent, d) /\ PhaseInv(P, m, p, d) BY ZenonT(30) DEF FlowInv
    <2>2. Relaying(S2, P, d) <=> Relaying(S, P, d) BY <1>2, Zenon DEF Relaying
    <2>3. S["ma"].q \in Seq(Chunk) /\ S["pm"].q \in Seq(Chunk)
      BY <1>0, Zenon DEF Streams, StreamState, Stream
    <2>4. Line(S2, P, g2.agent, d) = Line(S, P, g.agent, d)
      <3>1. CASE d
        <4>0. S["ma"].q # <<>> /\ S2["ma"].q = Tail(S["ma"].q) /\ g2.agent = Append(g.agent, Head(S["ma"].q))
          BY <1>2, <1>3, <3>1, Zenon
        <4>1. g2.agent \o S2["ma"].q = g.agent \o S["ma"].q
          BY <1>3, <2>3, <4>0, Shift, Zenon
        <4> QED BY <1>5, <2>2, <3>1, <4>1, Zenon DEF Line
      <3>2. CASE ~d
        <4>1. P["mb"].pc = "off" BY <2>1, <3>2, ZenonT(30) DEF PhaseInv
        <4>2. Held(P, "mb") = <<>> BY <4>1, Zenon DEF Held
        <4>3. S2["ma"].q = <<>> /\ S["ma"].q = <<>> BY <1>5, <2>1, <3>2, ZenonT(30) DEF LineInv
        <4>4. Relaying(S, P, d) /\ Relaying(S2, P, d) BY <3>2, Zenon DEF Relaying
        <4>5. S2["pm"].q = Tail(S["pm"].q) /\ S["pm"].q # <<>> BY <1>2, <3>2, ZenonT(30)
        <4>6. S2["pm"].q \in Seq(Chunk) /\ g2.agent \in Seq(Chunk)
          BY <1>2, <1>3, Zenon DEF GotState, Streams, StreamState, Stream
        <4>7. Line(S2, P, g2.agent, d) = g2.agent \o S2["pm"].q
          <5>1. g2.agent \o <<>> = g2.agent /\ <<>> \o S2["pm"].q = S2["pm"].q
            BY <4>6, JoinEmpty, Zenon
          <5> QED BY <4>2, <4>3, <4>4, <5>1, Zenon DEF Line
        <4>8. Line(S, P, g.agent, d) = g.agent \o S["pm"].q
          <5>1. g.agent \o <<>> = g.agent /\ <<>> \o S["pm"].q = S["pm"].q
            BY <1>3, <2>3, JoinEmpty, Zenon
          <5> QED BY <4>2, <4>3, <4>4, <5>1, Zenon DEF Line
        <4>9. g2.agent \o S2["pm"].q = g.agent \o S["pm"].q
          <5>1. Append(g.agent, Head(S["pm"].q)) \o Tail(S["pm"].q) = g.agent \o S["pm"].q
            BY <1>3, <2>3, <4>5, Shift, ZenonT(30)
          <5> QED BY <1>3, <3>2, <4>5, <5>1, Zenon
        <4> QED BY <4>7, <4>8, <4>9, ZenonT(30)
      <3> QED BY <3>1, <3>2, Zenon
    <2>5. /\ S2["pm"].shut = S["pm"].shut
          /\ P["pb"].pc = "write" => P["pb"].x = "dat"
          /\ Data(S2["up"].q)
          /\ ~d => S2["ma"].q = <<>>
      BY <1>2, <1>5, <2>1, ZenonT(30) DEF LineInv
    <2> QED BY <2>1, <2>2, <2>4, <2>5, LineKeeps, ZenonT(30)
  <1>7. BytesInv(S2, P, g2) BY <1>3, <1>5, ZenonT(30) DEF FlowInv, BytesInv
  <1>8. EndInv(S2, P, c, d) BY <1>0, <1>1, TakeEnd, ZenonT(30) DEF FlowInv
  <1>9. AskedInv(S2, P, p, n) BY <1>5, Zenon DEF FlowInv, AskedInv
  <1>10. CountInv(S2, P, c, p, n, g2, d)
    <2>1. Forward(S2, P, g2) = Forward(S, P, g) BY <1>3, <1>5, ZenonT(30) DEF Forward, InFlight
    <2>2. Back(S, P, g) = Back(S2, P, g) + 1
      <3>1. Bit(s \in {"up", "pm", "ma"}) = 1 BY Zenon DEF Bit
      <3> QED BY <1>0, <1>1, <3>1, TakeSums
    <2>3. Back(S2, P, g2) = Back(S2, P, g) + 1
      <3>1. Len(g2.agent) = Len(g.agent) + 1 BY <1>3, Zenon
      <3> QED BY <1>0, <1>2, <3>1, AgentGets, Zenon
    <2>4. Back(S2, P, g2) = Back(S, P, g) BY <2>2, <2>3, Zenon
    <2> QED BY <1>5, <2>1, <2>4, Zenon DEF FlowInv, CountInv
  <1> QED BY <1>4, <1>6, <1>7, <1>8, <1>9, <1>10, ZenonT(30) DEF FlowInv

\* A half-close of the agent (of am, or of mp by one that has no mux) or the upstream.
Spoken(d) == {"up", IF d THEN "am" ELSE "mp"}

LEMMA HalfCloses ==
    ASSUME NEW S, NEW P, NEW c, NEW m, NEW p, NEW n, NEW g, NEW d \in BOOLEAN,
           FlowType(S, P, c, m, p, n, g), FlowInv(S, P, c, m, p, n, g, d),
           NEW w \in Spoken(d),
           NEW S2, S2 = CloseWrite(S, w)
    PROVE  FlowType(S2, P, c, m, p, n, g) /\ FlowInv(S2, P, c, m, p, n, g, d)
  <1> USE DEF Spoken
  <1>0. S \in Streams /\ P \in Pumps /\ c \in BOOLEAN /\ g \in GotState BY Zenon DEF FlowType
  <1>1. w \in Stream BY Zenon DEF Stream
  <1>2. /\ S2 \in Streams
        /\ \A t \in Stream : S2[t].q = S[t].q /\ S2[t].shut = S[t].shut
        /\ S2[w].fin /\ \A t \in Stream \ {w} : S2[t] = S[t]
    BY <1>0, <1>1, CloseWriteFacts
  <1>3. /\ S2["am"].q = S["am"].q /\ S2["mp"].q = S["mp"].q /\ S2["pu"].q = S["pu"].q
        /\ S2["up"].q = S["up"].q /\ S2["pm"].q = S["pm"].q /\ S2["ma"].q = S["ma"].q
        /\ S2["pm"].shut = S["pm"].shut /\ S2["ma"].shut = S["ma"].shut
    BY <1>2, Zenon DEF Stream
  <1>4. FlowType(S2, P, c, m, p, n, g) BY <1>0, <1>1, <1>2, BoundedFacts, ZenonT(30) DEF FlowType
  <1>6. LineInv(S2, P, p, g.agent, d)
    <2>1. LineInv(S, P, p, g.agent, d) /\ Data(S["up"].q) BY Zenon DEF FlowInv, LineInv
    <2> QED BY <1>3, <2>1, LineFrame, Zenon
  <1>7. BytesInv(S2, P, g) BY <1>3, Zenon DEF FlowInv, BytesInv
  <1>8. EndInv(S2, P, c, d)
    <2> SUFFICES ASSUME ~c, NEW l \in Pump
                 PROVE  /\ S2[Dst[l]].fin /\ (l = "mf" => d) => P[l].pc = "done"
                        /\ P[l].pc = "done" => S2[Src[l]].fin /\ S2[Src[l]].q = <<>>
      BY Zenon DEF EndInv
    <2>1. /\ S[Dst[l]].fin /\ (l = "mf" => d) => P[l].pc = "done"
          /\ P[l].pc = "done" => S[Src[l]].fin /\ S[Src[l]].q = <<>>
      BY Zenon DEF FlowInv, EndInv
    <2>2. Src[l] \in Stream /\ Dst[l] \in Stream BY Ends, Zenon
    <2>3. Dst[l] = w => l = "mf" /\ ~d BY DEF Dst, Pump
    <2> QED BY <1>2, <2>1, <2>2, <2>3, Zenon
  <1>9. AskedInv(S2, P, p, n) BY <1>3, Zenon DEF FlowInv, AskedInv
  <1>10. CountInv(S2, P, c, p, n, g, d)
    <2>1. Forward(S2, P, g) = Forward(S, P, g) /\ Back(S2, P, g) = Back(S, P, g)
      BY <1>3, Zenon DEF Forward, Back, InFlight
    <2> QED BY <1>3, <2>1, Zenon DEF FlowInv, CountInv
  <1> QED BY <1>4, <1>6, <1>7, <1>8, <1>9, <1>10, Zenon DEF FlowInv

-----------------------------------------------------------------------------
(* Closing a connection                                                    *)

LEMMA CloseLine ==
    ASSUME NEW S \in Streams, NEW P \in Pumps, NEW p, NEW q \in Seq(Chunk), NEW d,
           LineInv(S, P, p, q, d),
           NEW r \in Stream, NEW w \in Stream, r # w,
           NEW S2, S2 = Close(S, r, w)
    PROVE  LineInv(S2, P, p, q, d)
  <1>0. /\ S2 \in Streams /\ S2[r].q = <<>> /\ S2[r].shut
        /\ \A t \in Stream : t # r => S2[t].q = S[t].q /\ S2[t].shut = S[t].shut
    BY CloseShape
  <1>1. /\ P["pb"].pc = "write" => P["pb"].x = "dat"
        /\ ~d => S["ma"].q = <<>> /\ S2["ma"].q = <<>>
        /\ Data(S2["up"].q)
    <2>1. Data(<<>>) BY DEF Data
    <2>2. "ma" \in Stream /\ "up" \in Stream BY Zenon DEF Stream
    <2> QED BY <1>0, <2>1, <2>2, Zenon DEF LineInv
  <1>2. S["ma"].q \in Seq(Chunk) /\ S["pm"].q \in Seq(Chunk) /\ Held(P, "mb") \in Seq(Chunk)
    BY LineType, Zenon
  <1>3. "ma" \in Stream /\ "pm" \in Stream BY Zenon DEF Stream
  <1> DEFINE h == Held(P, "mb")
  <1>4. CASE r = "ma"
    <2>0. S2["ma"].q = <<>> /\ S2["ma"].shut /\ S2["pm"].q = S["pm"].q /\ S2["pm"].shut = S["pm"].shut
      BY <1>0, <1>3, <1>4, Zenon
    <2>1. CASE ~d
      <3>1. Relaying(S2, P, d) /\ Relaying(S, P, d) BY <2>1, Zenon DEF Relaying
      <3>2. Line(S2, P, q, d) = Line(S, P, q, d) BY <1>1, <2>0, <2>1, <3>1, Zenon DEF Line
      <3> QED BY <1>1, <2>0, <3>1, <3>2, LineKeeps, Zenon
    <2>2. CASE d
      <3>1. ~Relaying(S2, P, d) BY <2>0, <2>2, Zenon DEF Relaying
      <3>2. q \o <<>> = q /\ (q \o S["ma"].q) \o <<>> = q \o S["ma"].q
        <4>1. q \o S["ma"].q \in Seq(Chunk) BY <1>2
        <4> QED BY <4>1, JoinEmpty, Zenon
      <3>3. Line(S2, P, q, d) = q BY <2>0, <3>1, <3>2, Zenon DEF Line
      <3>4. PICK T \in Seq(Chunk) : Line(S, P, q, d) = q \o T
        <4>1. h \o S["pm"].q \in Seq(Chunk) BY <1>2
        <4> HIDE DEF h
        <4>2. (q \o S["ma"].q) \o (h \o S["pm"].q) = q \o (S["ma"].q \o (h \o S["pm"].q))
          <5>1. \A e \in Seq(Chunk) : q \o (S["ma"].q \o e) = (q \o S["ma"].q) \o e
            BY <1>2, Regroup, Zenon
          <5> QED BY <4>1, <5>1, Zenon
        <4> USE DEF h
        <4>3. S["ma"].q \o (h \o S["pm"].q) \in Seq(Chunk) BY <1>2, <4>1
        <4>4. CASE Relaying(S, P, d) BY <4>2, <4>3, <4>4, Zenon DEF Line
        <4>5. CASE ~Relaying(S, P, d) BY <1>2, <3>2, <4>5, Zenon DEF Line
        <4> QED BY <4>4, <4>5, Zenon
      <3>5. Line(S, P, q, d) = Line(S2, P, q, d) \o T BY <3>3, <3>4, Zenon
      <3> QED BY <1>0, <1>1, <3>1, <3>5, LineLoses, Zenon
    <2> QED BY <2>1, <2>2, Zenon
  <1>5. CASE r = "pm"
    <2>0. S2["pm"].q = <<>> /\ S2["pm"].shut /\ S2["ma"].q = S["ma"].q /\ S2["ma"].shut = S["ma"].shut
      BY <1>0, <1>3, <1>5, Zenon
    <2>1. Relaying(S2, P, d) <=> Relaying(S, P, d) BY <2>0, Zenon DEF Relaying
    <2>2. PICK T \in Seq(Chunk) : Line(S, P, q, d) = Line(S2, P, q, d) \o T
      <3> DEFINE a == q \o S["ma"].q
      <3>1. a \in Seq(Chunk) /\ <<>> \in Seq(Chunk) BY <1>2
      <3>2. a \o <<>> = a /\ h \o <<>> = h BY <1>2, <3>1, JoinEmpty, Zenon
      <3>3. a \o (h \o S["pm"].q) = (a \o h) \o S["pm"].q
        <4> HIDE DEF a, h
        <4>1. h \in Seq(Chunk) BY <1>2, Zenon DEF h
        <4>2. \A e \in Seq(Chunk) : a \o (h \o e) = (a \o h) \o e BY <3>1, <4>1, Regroup, Zenon
        <4> QED BY <1>2, <4>2, Zenon
      <3>4. CASE Relaying(S, P, d)
        <4>1. Line(S2, P, q, d) = a \o h BY <2>0, <2>1, <3>2, <3>4, Zenon DEF Line
        <4>2. Line(S, P, q, d) = a \o (h \o S["pm"].q) BY <3>4, Zenon DEF Line
        <4> QED BY <1>2, <3>3, <4>1, <4>2, Zenon
      <3>5. CASE ~Relaying(S, P, d)
        <4>1. Line(S2, P, q, d) = a \o <<>> BY <2>0, <2>1, <3>5, Zenon DEF Line
        <4>2. Line(S, P, q, d) = a \o <<>> BY <3>5, Zenon DEF Line
        <4> QED BY <3>1, <3>2, <4>1, <4>2, Zenon
      <3> QED BY <3>4, <3>5, Zenon
    <2> QED BY <1>0, <1>1, <2>0, <2>2, LineLoses, ZenonT(30)
  <1>6. CASE r \notin {"ma", "pm"}
    <2>1. /\ S2["ma"].q = S["ma"].q /\ S2["ma"].shut = S["ma"].shut
          /\ S2["pm"].q = S["pm"].q /\ S2["pm"].shut = S["pm"].shut
      BY <1>0, <1>3, <1>6, Zenon
    <2> QED BY <1>1, <2>1, LineFrame, Zenon
  <1> QED BY <1>4, <1>5, <1>6, Zenon

\* A close of the connection that reads r and writes w cuts the flow, unless all that
\* was sent has been read and the loop that wrote to the connection is over.
CloseOK(S, P, c, r, w, c2) ==
    ~c2 => ~c /\ S[r].q = <<>> /\ \A l \in Pump : Dst[l] = w => P[l].pc = "done"

LEMMA Closing ==
    ASSUME NEW S, NEW P, NEW c, NEW m, NEW p, NEW n, NEW g, NEW d \in BOOLEAN,
           FlowType(S, P, c, m, p, n, g), FlowInv(S, P, c, m, p, n, g, d),
           NEW r \in Stream, NEW w \in Stream, r # w,
           NEW S2, S2 = Close(S, r, w),
           NEW c2 \in BOOLEAN, CloseOK(S, P, c, r, w, c2)
    PROVE  FlowType(S2, P, c2, m, p, n, g) /\ FlowInv(S2, P, c2, m, p, n, g, d)
  <1> USE DEF CloseOK
  <1>0. S \in Streams /\ P \in Pumps /\ g \in GotState BY Zenon DEF FlowType
  <1>1. /\ S2 \in Streams /\ S2[r].q = <<>> /\ S2[w].fin
        /\ \A t \in Stream : t # r => S2[t].q = S[t].q
        /\ \A t \in Stream : t # w => S2[t].fin = S[t].fin
    BY <1>0, CloseShape
  <1>2. FlowType(S2, P, c2, m, p, n, g) BY <1>0, <1>1, BoundedFacts, Zenon DEF FlowType
  <1>3. LineInv(S2, P, p, g.agent, d)
    <2>1. g.agent \in Seq(Chunk) BY <1>0, Zenon DEF GotState
    <2>2. LineInv(S, P, p, g.agent, d) BY Zenon DEF FlowInv
    <2> QED BY <1>0, <2>1, <2>2, CloseLine, Zenon
  <1>4. \A t \in Stream : S2[t].q = S[t].q \/ S2[t].q = <<>> BY <1>1, Zenon
  <1>5. BytesInv(S2, P, g)
    <2>1. S2["pu"].q # <<>> => S["pu"].q # <<>> BY <1>4, Zenon DEF Stream
    <2> QED BY <2>1, Zenon DEF FlowInv, BytesInv
  <1>6. AskedInv(S2, P, p, n)
    <2>1. NoReq(<<>>) BY DEF NoReq
    <2>2. \A t \in {"am", "mp"} : NoReq(S[t].q) => NoReq(S2[t].q) BY <1>4, <2>1, Zenon DEF Stream
    <2> QED BY <2>2, Zenon DEF FlowInv, AskedInv
  <1>7. EndInv(S2, P, c2, d)
    <2> SUFFICES ASSUME ~c2, NEW l \in Pump
                 PROVE  /\ S2[Dst[l]].fin /\ (l = "mf" => d) => P[l].pc = "done"
                        /\ P[l].pc = "done" => S2[Src[l]].fin /\ S2[Src[l]].q = <<>>
      BY Zenon DEF EndInv
    <2>1. /\ S[Dst[l]].fin /\ (l = "mf" => d) => P[l].pc = "done"
          /\ P[l].pc = "done" => S[Src[l]].fin /\ S[Src[l]].q = <<>>
          /\ Dst[l] = w => P[l].pc = "done"
      BY Zenon DEF FlowInv, EndInv
    <2>2. Src[l] \in Stream /\ Dst[l] \in Stream BY Ends, Zenon
    <2> QED BY <1>1, <2>1, <2>2, Zenon
  <1>8. CountInv(S2, P, c2, p, n, g, d)
    <2>1. ~d => S2["am"].q = <<>> BY <1>4, Zenon DEF FlowInv, CountInv, Stream
    <2>2. CASE c2 BY <2>1, <2>2, Zenon DEF CountInv
    <2>3. CASE ~c2
      <3>1. \A t \in Stream : S2[t].q = S[t].q BY <1>1, <2>3, Zenon
      <3>2. Forward(S2, P, g) = Forward(S, P, g) /\ Back(S2, P, g) = Back(S, P, g)
        BY <3>1, Zenon DEF Forward, Back, InFlight, Stream
      <3> QED BY <2>1, <2>3, <3>2, Zenon DEF FlowInv, CountInv
    <2> QED BY <2>2, <2>3, Zenon
  <1> QED BY <1>2, <1>3, <1>5, <1>6, <1>7, <1>8, Zenon DEF FlowInv

LEMMA CutClosing ==
    ASSUME NEW S, NEW P, NEW c, NEW m, NEW p, NEW n, NEW g, NEW d \in BOOLEAN,
           FlowType(S, P, c, m, p, n, g), FlowInv(S, P, c, m, p, n, g, d),
           NEW r \in Stream, NEW w \in Stream, r # w,
           NEW S2, S2 = Close(S, r, w)
    PROVE  FlowType(S2, P, TRUE, m, p, n, g) /\ FlowInv(S2, P, TRUE, m, p, n, g, d)
  <1>1. CloseOK(S, P, c, r, w, TRUE) BY Zenon DEF CloseOK
  <1> QED BY <1>1, Closing, ZenonT(30)

-----------------------------------------------------------------------------
(* Steps of the relays' control                                            *)

\* The copy loops of P2 are those of P, except that some have been started.
Alike(P, P2) ==
    \A l \in Pump : /\ P2[l].pc = "done" <=> P[l].pc = "done"
                    /\ P2[l].pc = "write" <=> P[l].pc = "write"
                    /\ P[l].pc = "write" => P2[l].x = P[l].x
                    /\ P2[l].pc = "off" => P[l].pc = "off"

LEMMA Starts ==
    ASSUME NEW P \in Pumps, NEW ps \in SUBSET Pump, \A l \in ps : P[l].pc = "off",
           NEW P2, P2 = [l \in Pump |-> IF l \in ps THEN [pc |-> "read", x |-> "dat"] ELSE P[l]]
    PROVE  /\ P2 \in Pumps /\ Alike(P, P2)
           /\ \A l \in ps : P2[l].pc = "read"
           /\ \A l \in Pump : l \notin ps => P2[l] = P[l]
  <1>1. [pc |-> "read", x |-> "dat"] \in PumpState BY Zenon DEF PumpState, Chunk
  <1>2. P2 \in Pumps BY <1>1, Zenon DEF Pumps
  <1>3. \A l \in ps : P2[l].pc = "read" BY Zenon
  <1>4. \A l \in Pump : l \notin ps => P2[l] = P[l] BY Zenon
  <1>5. Alike(P, P2)
    <2> SUFFICES ASSUME NEW l \in Pump
                 PROVE  /\ P2[l].pc = "done" <=> P[l].pc = "done"
                        /\ P2[l].pc = "write" <=> P[l].pc = "write"
                        /\ P[l].pc = "write" => P2[l].x = P[l].x
                        /\ P2[l].pc = "off" => P[l].pc = "off"
      BY Zenon DEF Alike
    <2>1. CASE l \in ps
      <3>1. P2[l].pc = "read" /\ P[l].pc = "off" BY <1>3, <2>1, Zenon
      <3> QED BY <3>1, Zenon
    <2>2. CASE l \notin ps
      <3>1. P2[l] = P[l] BY <1>4, <2>2, Zenon
      <3> QED BY <3>1, Zenon
    <2> QED BY <2>1, <2>2, Zenon
  <1> QED BY <1>2, <1>3, <1>4, <1>5, Zenon

\* What starting both loops of the proxy's relay changes.
LEMMA ProxyStarts ==
    ASSUME Typed, NEW f \in Flow, pump' = started(f, {"pf", "pb"}),
           pump[f]["pf"].pc = "off", pump[f]["pb"].pc = "off"
    PROVE  /\ pump' = [pump EXCEPT ![f] = pump'[f]]
           /\ pump'[f] \in Pumps /\ Alike(pump[f], pump'[f])
           /\ pump'[f]["pf"].pc = "read" /\ pump'[f]["pb"].pc = "read"
           /\ pump'[f]["mf"] = pump[f]["mf"] /\ pump'[f]["mb"] = pump[f]["mb"]
  <1> DEFINE P2 == [l \in Pump |-> IF l \in {"pf", "pb"} THEN [pc |-> "read", x |-> "dat"] ELSE pump[f][l]]
  <1>1. pump'[f] = P2 /\ pump' = [pump EXCEPT ![f] = pump'[f]]
    <2>1. pump' = [pump EXCEPT ![f] = P2] BY Zenon DEF started
    <2> HIDE DEF P2
    <2> QED BY <2>1, Sets, Zenon
  <1>2. {"pf", "pb"} \in SUBSET Pump /\ {"mf", "mb"} \subseteq Pump BY Zenon DEF Pump
  <1>3. \A l \in {"pf", "pb"} : pump[f][l].pc = "off" BY Zenon
  <1>4. pump[f] \in Pumps BY Zenon DEF Typed
  <1>5. /\ pump'[f] \in Pumps /\ Alike(pump[f], pump'[f])
        /\ \A l \in {"pf", "pb"} : pump'[f][l].pc = "read"
        /\ \A l \in Pump : l \notin {"pf", "pb"} => pump'[f][l] = pump[f][l]
    <2>1. PICK P, Q, ps : P = pump[f] /\ Q = pump'[f] /\ ps = {"pf", "pb"} BY Zenon
    <2>2. P \in Pumps /\ ps \in SUBSET Pump /\ \A l \in ps : P[l].pc = "off"
      BY <1>2, <1>3, <1>4, <2>1, Zenon
    <2>3. Q = [l \in Pump |-> IF l \in ps THEN [pc |-> "read", x |-> "dat"] ELSE P[l]]
      BY <1>1, <2>1, ZenonT(30)
    <2>4. /\ Q \in Pumps /\ Alike(P, Q) /\ \A l \in ps : Q[l].pc = "read"
          /\ \A l \in Pump : l \notin ps => Q[l] = P[l]
      BY <2>2, <2>3, Starts
    <2> QED BY <2>1, <2>4, Zenon
  <1> HIDE DEF P2
  <1> QED BY <1>1, <1>2, <1>5, Zenon

LEMMA AlikeFacts ==
    ASSUME NEW S, NEW P, NEW P2, Alike(P, P2)
    PROVE  /\ \A c, d : EndInv(S, P, c, d) => EndInv(S, P2, c, d)
           /\ \A l \in Pump : Moving(P2, l) = Moving(P, l) /\ Held(P2, l) = Held(P, l)
           /\ \A d : Relaying(S, P2, d) <=> Relaying(S, P, d)
           /\ \A g : Forward(S, P2, g) = Forward(S, P, g) /\ Back(S, P2, g) = Back(S, P, g)
           /\ \A g : BytesInv(S, P, g) => BytesInv(S, P2, g)
  <1>1. \A c, d : EndInv(S, P, c, d) => EndInv(S, P2, c, d) BY Zenon DEF Alike, EndInv
  <1>2. \A l \in Pump : Moving(P2, l) = Moving(P, l) /\ Held(P2, l) = Held(P, l)
    BY Zenon DEF Alike, Moving, Held
  <1>3. "mf" \in Pump /\ "mb" \in Pump /\ "pf" \in Pump /\ "pb" \in Pump BY Zenon DEF Pump
  <1>4. \A d : Relaying(S, P2, d) <=> Relaying(S, P, d) BY <1>3, Zenon DEF Alike, Relaying
  <1>6. \A g : Forward(S, P2, g) = Forward(S, P, g) /\ Back(S, P2, g) = Back(S, P, g)
    BY <1>2, <1>3, Zenon DEF Forward, Back
  <1>7. \A g : BytesInv(S, P, g) => BytesInv(S, P2, g) BY <1>3, Zenon DEF Alike, BytesInv
  <1> QED BY <1>1, <1>2, <1>4, <1>6, <1>7, Zenon

LEMMA AlikeLine ==
    ASSUME NEW S, NEW P, NEW P2, Alike(P, P2), NEW r, NEW d
    PROVE  Line(S, P2, r, d) = Line(S, P, r, d)
  <1>1. "mb" \in Pump BY Zenon DEF Pump
  <1>2. Held(P2, "mb") = Held(P, "mb") /\ (Relaying(S, P2, d) <=> Relaying(S, P, d))
    BY <1>1, AlikeFacts, Zenon
  <1> QED BY <1>2, Zenon DEF Line

\* What a turn of handleConn (from p to p2, with the cut from c to c2) must not do: go
\* back behind its reply, or change what the counts of an uncut flow depend on.
TurnOK(c, p, n, c2, p2) ==
    /\ p2.pc \in Unreplied => p.pc \in Unreplied
    /\ Replying(p2) => Replying(p)
    /\ p2.pc \notin Unread \cup {"closed"} \/ p2.recs # {} => n.asked
    /\ ~c2 => /\ ~c /\ (p2.pc = "closed" => p2.recs # {})
              /\ p2.pc \in Unread <=> p.pc \in Unread
              /\ p2.pc \in Unreplied <=> p.pc \in Unreplied
              /\ p2.pc \notin Inspected /\ (p2.pc = "closed" => "passthrough" \in p2.recs) =>
                    p.pc \notin Inspected /\ (p.pc = "closed" => "passthrough" \in p.recs)

\* A step of the mux or of handleConn that touches no stream.
LEMMA Turns ==
    ASSUME NEW S, NEW P, NEW c, NEW m, NEW p, NEW n, NEW g, NEW d \in BOOLEAN,
           FlowType(S, P, c, m, p, n, g), FlowInv(S, P, c, m, p, n, g, d),
           NEW P2 \in Pumps, Alike(P, P2), NEW c2 \in BOOLEAN,
           NEW m2 \in {"none", "dial", "splice", "closed"}, NEW p2 \in PxState,
           PxInv(p2), PhaseInv(P2, m2, p2, d),
           TurnOK(c, p, n, c2, p2)
    PROVE  FlowType(S, P2, c2, m2, p2, n, g) /\ FlowInv(S, P2, c2, m2, p2, n, g, d)
  <1> USE DEF TurnOK
  <1>1. FlowType(S, P2, c2, m2, p2, n, g) BY Zenon DEF FlowType
  <1>2. LineInv(S, P2, p2, g.agent, d)
    <2>1. LineInv(S, P, p, g.agent, d) BY Zenon DEF FlowInv
    <2>2. /\ Line(S, P2, g.agent, d) = Line(S, P, g.agent, d)
          /\ Relaying(S, P2, d) <=> Relaying(S, P, d)
      <3>1. Line(S, P2, g.agent, d) = Line(S, P, g.agent, d) BY AlikeLine
      <3>2. Relaying(S, P2, d) <=> Relaying(S, P, d) BY AlikeFacts, Zenon
      <3> QED BY <3>1, <3>2, Zenon
    <2>3. /\ P2["pb"].pc = "off" => P["pb"].pc = "off"
          /\ P2["pb"].pc = "write" => P2["pb"].x = "dat"
      BY <2>1, Zenon DEF Alike, LineInv, Pump
    <2>4. Data(S["up"].q) /\ (~d => S["ma"].q = <<>>) BY <2>1, Zenon DEF LineInv
    <2> QED BY <2>1, <2>2, <2>3, <2>4, LineKeeps, Zenon
  <1>3. BytesInv(S, P2, g) BY AlikeFacts, Zenon DEF FlowInv
  <1>4. EndInv(S, P2, c2, d)
    <2>1. EndInv(S, P2, c, d) BY AlikeFacts, Zenon DEF FlowInv
    <2> QED BY <2>1, Zenon DEF EndInv
  <1>5. AskedInv(S, P2, p2, n)
    <2>1. P2["mf"].pc = "write" => P["mf"].pc = "write" /\ P2["mf"].x = P["mf"].x
      BY Zenon DEF Alike, Pump
    <2> QED BY <2>1, Zenon DEF FlowInv, AskedInv
  <1>6. CountInv(S, P2, c2, p2, n, g, d)
    <2>1. CountInv(S, P, c, p, n, g, d) BY Zenon DEF FlowInv
    <2>2. Forward(S, P2, g) = Forward(S, P, g) /\ Back(S, P2, g) = Back(S, P, g)
      BY AlikeFacts, Zenon
    <2>3. CASE c2 BY <2>1, <2>3, Zenon DEF CountInv
    <2>4. CASE ~c2
      <3>1. /\ Bit(p2.pc \notin Unread) = Bit(p.pc \notin Unread)
            /\ Bit(p2.pc \notin Unreplied) = Bit(p.pc \notin Unreplied)
        BY <2>4, Zenon DEF Bit
      <3> QED BY <2>1, <2>2, <2>4, <3>1, Zenon DEF CountInv
    <2> QED BY <2>3, <2>4, Zenon
  <1> QED BY <1>1, <1>2, <1>3, <1>4, <1>5, <1>6, Zenon DEF FlowInv

\* The reply is all there is in line.
Answers == {"OK", "ERR"}
FirstIs(S, P, r, d, S2, P2, x) ==
    Line(S, P, r, d) = <<>> =>
        /\ Relaying(S2, P2, d) <=> Relaying(S, P, d)
        /\ Relaying(S, P, d) => Line(S2, P2, r, d) = <<x>>
        /\ OneReply(Line(S2, P2, r, d)) /\ Len(Line(S2, P2, r, d)) <= 1

LEMMA ReplyLine ==
    ASSUME NEW S \in Streams, NEW P \in Pumps, NEW r \in Seq(Chunk), NEW d, 
           NEW x \in Answers, NEW S2, S2["ma"] = S["ma"], S2["pm"].q = Append(S["pm"].q, x),
           NEW P2, P2["mb"] = P["mb"]
    PROVE  FirstIs(S, P, r, d, S2, P2, x)
  <1> USE DEF FirstIs
  <1>1. x \in Chunk BY Zenon DEF Answers, Chunk
  <1>2. /\ Relaying(S, P, d) => Line(S2, P2, r, d) = Append(Line(S, P, r, d), x)
        /\ ~Relaying(S, P, d) => Line(S2, P2, r, d) = Line(S, P, r, d)
    BY <1>1, LineGrows
  <1> HAVE Line(S, P, r, d) = <<>>
  <1>3. CASE Relaying(S, P, d)
    <2>0. Line(S2, P2, r, d) = Append(Line(S, P, r, d), x) BY <1>2, <1>3, Zenon
    <2>1. Line(S2, P2, r, d) = Append(<<>>, x) BY <2>0, Zenon
    <2>2. Append(<<>>, x) = <<x>> OBVIOUS
    <2>3. Line(S2, P2, r, d) = <<x>> BY <2>1, <2>2, Zenon
    <2>4. Len(<<x>>) = 1 /\ <<x>>[1] = x BY Zenon
    <2>5. 2..Len(<<x>>) = {} BY <2>4
    <2>6. x = "OK" \/ <<x>> = <<"ERR">> BY Zenon DEF Answers
    <2>7. OneReply(<<x>>) BY <2>4, <2>5, <2>6, Zenon DEF OneReply
    <2>8. 1 <= 1 OBVIOUS
    <2>9. OneReply(Line(S2, P2, r, d)) BY <2>3, <2>7, Zenon
    <2>10. Len(Line(S2, P2, r, d)) <= 1 BY <2>3, <2>4, <2>8, Zenon
    <2>11. Relaying(S2, P2, d) <=> Relaying(S, P, d) BY Zenon DEF Relaying
    <2> QED BY <2>3, <2>9, <2>10, <2>11, Zenon
  <1>4. CASE ~Relaying(S, P, d)
    <2>1. Line(S2, P2, r, d) = <<>> BY <1>2, <1>4, Zenon
    <2>2. OneReply(<<>>) BY Zenon DEF OneReply
    <2>3. Len(<<>>) <= 1 OBVIOUS
    <2> QED BY <1>4, <2>1, <2>2, <2>3, Zenon DEF Relaying
  <1> QED BY <1>3, <1>4, Zenon

\* writeReply before the closes of a refusal: nothing was in line.
LEMMA Refusal ==
    ASSUME NEW S, NEW P, NEW m, NEW p, NEW n, NEW g, NEW d \in BOOLEAN,
           FlowType(S, P, TRUE, m, p, n, g), FlowInv(S, P, TRUE, m, p, n, g, d),
           p.pc = "closed", Line(S, P, g.agent, d) = <<>>, ~Full(S, "pm"),
           NEW S2, S2 = Put(S, "pm", "ERR")
    PROVE  FlowType(S2, P, TRUE, m, p, n, g) /\ FlowInv(S2, P, TRUE, m, p, n, g, d)
  <1>0. S \in Streams /\ P \in Pumps /\ g \in GotState BY Zenon DEF FlowType
  <1>1. "pm" \in Stream /\ "ERR" \in Chunk BY Zenon DEF Stream, Chunk
  <1>2. /\ S2 \in Streams /\ S2["pm"].q = Append(S["pm"].q, "ERR") /\ S2["pm"].shut = S["pm"].shut
        /\ \A t \in Stream \ {"pm"} : S2[t] = S[t]
    BY <1>0, <1>1, PutFacts, Zenon
  <1>3. /\ S2["ma"] = S["ma"] /\ S2["up"] = S["up"] /\ S2["pu"] = S["pu"]
        /\ S2["am"] = S["am"] /\ S2["mp"] = S["mp"]
    BY <1>2, Zenon DEF Stream
  <1>4. FlowType(S2, P, TRUE, m, p, n, g) BY <1>0, <1>1, <1>2, BoundedFacts, Zenon DEF FlowType
  <1>5. LineInv(S2, P, p, g.agent, d)
    <2>1. g.agent \in Seq(Chunk) BY <1>0, Zenon DEF GotState
    <2>2. OneReply(Line(S2, P, g.agent, d)) /\ Len(Line(S2, P, g.agent, d)) <= 1
      <3>1. "ERR" \in Answers BY Zenon DEF Answers
      <3>2. FirstIs(S, P, g.agent, d, S2, P, "ERR") BY <1>0, <1>2, <1>3, <2>1, <3>1, ReplyLine, ZenonT(30)
      <3> QED BY <3>2, Zenon DEF FirstIs
    <2>6. p.pc \notin Unreplied BY Zenon DEF Unreplied
    <2>7. LineInv(S, P, p, g.agent, d) BY Zenon DEF FlowInv
    <2> QED BY <1>3, <2>2, <2>6, <2>7, Zenon DEF LineInv
  <1>6. BytesInv(S2, P, g) BY <1>3, Zenon DEF FlowInv, BytesInv
  <1>7. EndInv(S2, P, TRUE, d) BY Zenon DEF EndInv
  <1>8. AskedInv(S2, P, p, n) BY <1>3, Zenon DEF FlowInv, AskedInv
  <1>9. CountInv(S2, P, TRUE, p, n, g, d) BY <1>3, Zenon DEF FlowInv, CountInv
  <1> QED BY <1>4, <1>5, <1>6, <1>7, <1>8, <1>9, Zenon DEF FlowInv

\* handleConn is over.
LEMMA PxCloses ==
    ASSUME NEW S, NEW P, NEW c, NEW m, NEW p, NEW n, NEW g, NEW d \in BOOLEAN,
           FlowType(S, P, c, m, p, n, g), FlowInv(S, P, c, m, p, n, g, d),
           p.pc # "none", P["pf"].pc \in {"off", "done"}, P["pb"].pc \in {"off", "done"},
           NEW p2 \in PxState, p2.pc = "closed", p2.ip = p.ip, p2.recs = p.recs,
           p.ip # NoIP => p2.host = p.host,
           NEW c2 \in BOOLEAN, c2 \/ (~c /\ p.pc \in {"splice", "inspect"})
    PROVE  FlowType(S, P, c2, m, p2, n, g) /\ FlowInv(S, P, c2, m, p2, n, g, d)
  <1>1. P \in Pumps /\ m \in {"none", "dial", "splice", "closed"} BY Zenon DEF FlowType
  <1>2. Alike(P, P) BY Zenon DEF Alike
  <1>3. PxInv(p) /\ PhaseInv(P, m, p, d) /\ AskedInv(S, P, p, n) BY Zenon DEF FlowInv
  <1>4. PxInv(p2) BY <1>3, Zenon DEF PxInv, Unread, Inspected
  <1>5. PhaseInv(P, m, p2, d) BY <1>3, Zenon DEF PhaseInv, Recorded
  <1>6. /\ p2.pc \notin Unreplied /\ ~Replying(p2) /\ p2.pc \notin Unread
    BY Zenon DEF Unreplied, Replying, Unread
  <1>7. p2.recs # {} => n.asked BY <1>3, Zenon DEF AskedInv
  <1>8. ~c2 => /\ ~c /\ p.pc \notin Unread /\ p.pc \notin Unreplied /\ p.pc # "closed"
               /\ p2.recs # {}
               /\ "passthrough" \in p2.recs => p.pc \notin Inspected
    <2> SUFFICES ASSUME ~c2
                 PROVE  /\ ~c /\ p.pc \notin Unread /\ p.pc \notin Unreplied /\ p.pc # "closed"
                        /\ p2.recs # {}
                        /\ "passthrough" \in p2.recs => p.pc \notin Inspected
      BY Zenon
    <2>1. ~c /\ p.pc \in {"splice", "inspect"} BY Zenon
    <2>2. p.pc \notin Unread /\ p.pc \notin Unreplied /\ p.pc # "closed"
      BY <2>1, Zenon DEF Unread, Unreplied
    <2>3. CASE p.pc = "splice" BY <1>3, <2>1, <2>2, <2>3, Zenon DEF PxInv, Inspected
    <2>4. CASE p.pc = "inspect"
      <3>1. p2.recs = {"allow"} BY <1>3, <2>4, Zenon DEF PxInv, Inspected
      <3>2. "passthrough" \notin {"allow"} /\ {"allow"} # {} OBVIOUS
      <3> QED BY <2>1, <2>2, <3>1, <3>2, Zenon
    <2> QED BY <2>1, <2>3, <2>4, Zenon
  <1>9. ~c2 => /\ ~c /\ (p2.pc = "closed" => p2.recs # {})
               /\ p2.pc \in Unread <=> p.pc \in Unread
               /\ p2.pc \in Unreplied <=> p.pc \in Unreplied
               /\ p2.pc \notin Inspected /\ (p2.pc = "closed" => "passthrough" \in p2.recs) =>
                     p.pc \notin Inspected /\ (p.pc = "closed" => "passthrough" \in p.recs)
    BY <1>6, <1>8, Zenon
  <1>10. (p2.pc \in Unreplied => p.pc \in Unreplied) /\ (Replying(p2) => Replying(p)) BY <1>6, Zenon
  <1>11. p2.pc \notin Unread \cup {"closed"} \/ p2.recs # {} => n.asked BY <1>7, Zenon
  <1>12. TurnOK(c, p, n, c2, p2) BY <1>9, <1>10, <1>11, Zenon DEF TurnOK
  <1> QED BY <1>1, <1>2, <1>4, <1>5, <1>12, Turns, ZenonT(90)

LEMMA CloseKeeps ==
    ASSUME NEW S \in Streams, NEW r \in Stream, NEW w \in Stream, r # w, NEW t \in Stream, t # r
    PROVE  Close(S, r, w)[t].q = S[t].q
  <1>1. CASE t = w BY <1>1, CloseFacts, ZenonT(30)
  <1>2. CASE t # w
    <2>1. \A x \in Stream \ {r, w} : Close(S, r, w)[x] = S[x] BY CloseFacts, Zenon
    <2>2. t \in Stream \ {r, w} BY <1>2, Zenon
    <2> QED BY <2>1, <2>2, Zenon
  <1> QED BY <1>1, <1>2, Zenon

\* The deferred closes of handleConn.
LEMMA ConnsClose ==
    ASSUME NEW S, NEW P, NEW c, NEW m, NEW p, NEW n, NEW g, NEW d \in BOOLEAN,
           FlowType(S, P, c, m, p, n, g), FlowInv(S, P, c, m, p, n, g, d),
           c \/ (P["pf"].pc = "done" /\ P["pb"].pc = "done"),
           NEW u \in BOOLEAN, NEW S2, S2 = closeConns(S, u)
    PROVE  FlowType(S2, P, c, m, p, n, g) /\ FlowInv(S2, P, c, m, p, n, g, d)
  <1>0. c \in BOOLEAN /\ S \in Streams BY Zenon DEF FlowType
  <1>1. {"up", "pu", "mp", "pm"} \subseteq Stream BY Zenon DEF Stream
  <1>2. ~c => S["mp"].q = <<>> /\ S["up"].q = <<>> BY Zenon DEF FlowInv, EndInv, Src, Pump
  <1>3. ~c => \A l \in Pump : Dst[l] \in {"pu", "pm"} => P[l].pc = "done" BY DEF Dst, Pump
  <1> DEFINE T == IF u THEN Close(S, "up", "pu") ELSE S
  <1>4. FlowType(T, P, c, m, p, n, g) /\ FlowInv(T, P, c, m, p, n, g, d)
    <2>1. CASE u
      <3>1. T = Close(S, "up", "pu") BY <2>1, Zenon
      <3> HIDE DEF T
      <3>2. CloseOK(S, P, c, "up", "pu", c) BY <1>2, <1>3, <2>1, Zenon DEF CloseOK
      <3>3. "up" \in Stream /\ "pu" \in Stream /\ "up" # "pu" BY <1>1, Zenon
      <3> QED BY <1>0, <3>1, <3>2, <3>3, Closing, ZenonT(30)
    <2>2. CASE ~u BY <2>2, Zenon
    <2> QED BY <2>1, <2>2, Zenon
  <1>5. T["mp"].q = S["mp"].q
    <2>0. "up" \in Stream /\ "pu" \in Stream /\ "mp" \in Stream /\ "up" # "pu" /\ "mp" # "up"
      BY DEF Stream
    <2>1. Close(S, "up", "pu")["mp"].q = S["mp"].q BY <1>0, <2>0, CloseKeeps
    <2> QED BY <2>1, Zenon
  <1>6. S2 = Close(T, "mp", "pm") BY Zenon DEF closeConns
  <1> HIDE DEF T
  <1>7. CloseOK(T, P, c, "mp", "pm", c) BY <1>2, <1>3, <1>5, Zenon DEF CloseOK
  <1>8. "mp" \in Stream /\ "pm" \in Stream /\ "mp" # "pm" BY <1>1, Zenon
  <1> QED BY <1>0, <1>4, <1>6, <1>7, <1>8, Closing, ZenonT(30)

\* The closes of serveHost, once both directions are over.
LEMMA MuxCloses ==
    ASSUME NEW S, NEW P, NEW c, NEW m, NEW p, NEW n, NEW g, NEW d \in BOOLEAN,
           FlowType(S, P, c, m, p, n, g), FlowInv(S, P, c, m, p, n, g, d),
           P["mf"].pc = "done", P["mb"].pc = "done",
           NEW S2, S2 = Close(Close(S, "am", "ma"), "pm", "mp")
    PROVE  FlowType(S2, P, c, m, p, n, g) /\ FlowInv(S2, P, c, m, p, n, g, d)
  <1>0. c \in BOOLEAN /\ S \in Streams BY Zenon DEF FlowType
  <1>1. {"am", "ma", "pm", "mp"} \subseteq Stream BY Zenon DEF Stream
  <1>2. ~c => S["am"].q = <<>> /\ S["pm"].q = <<>> BY Zenon DEF FlowInv, EndInv, Src, Pump
  <1>3. \A l \in Pump : Dst[l] \in {"ma", "mp"} => P[l].pc = "done" BY DEF Dst, Pump
  <1> DEFINE T == Close(S, "am", "ma")
  <1>4. FlowType(T, P, c, m, p, n, g) /\ FlowInv(T, P, c, m, p, n, g, d)
    <2>1. CloseOK(S, P, c, "am", "ma", c) BY <1>2, <1>3, Zenon DEF CloseOK
    <2>2. "am" \in Stream /\ "ma" \in Stream /\ "am" # "ma" BY <1>1, Zenon
    <2> QED BY <1>0, <2>1, <2>2, Closing, ZenonT(30)
  <1>5. T["pm"].q = S["pm"].q
    <2>0. "am" \in Stream /\ "ma" \in Stream /\ "pm" \in Stream /\ "am" # "ma" /\ "pm" # "am"
      BY DEF Stream
    <2>1. Close(S, "am", "ma")["pm"].q = S["pm"].q BY <1>0, <2>0, CloseKeeps
    <2> QED BY <2>1, Zenon
  <1> HIDE DEF T
  <1>6. S2 = Close(T, "pm", "mp") BY Zenon DEF T
  <1>7. CloseOK(T, P, c, "pm", "mp", c) BY <1>2, <1>3, <1>5, Zenon DEF CloseOK
  <1>8. "pm" \in Stream /\ "mp" \in Stream /\ "pm" # "mp" BY <1>1, Zenon
  <1> QED BY <1>0, <1>4, <1>6, <1>7, <1>8, Closing, ZenonT(30)

Refusable == {"accepted", "request", "check", "dial", "record", "passthrough"}

\* A refusal: at most "ERR", and the deferred closes.
LEMMA Refuses ==
    ASSUME NEW S, NEW P, NEW c, NEW m, NEW p, NEW n, NEW g, NEW d \in BOOLEAN,
           FlowType(S, P, c, m, p, n, g), FlowInv(S, P, c, m, p, n, g, d),
           p.pc \in Refusable,
           NEW u \in BOOLEAN, NEW S2,
           \/ S2 = closeConns(S, u)
           \/ ~Full(S, "pm") /\ S2 = closeConns(Put(S, "pm", "ERR"), u),
           NEW p2 \in PxState, p2.pc = "closed", p2.ip = p.ip, p2.recs = p.recs,
           p.ip # NoIP => p2.host = p.host
    PROVE  FlowType(S2, P, TRUE, m, p2, n, g) /\ FlowInv(S2, P, TRUE, m, p2, n, g, d)
  <1>0. PICK R : /\ S2 = closeConns(R, u)
                 /\ R = S \/ (~Full(S, "pm") /\ R = Put(S, "pm", "ERR"))
    BY Zenon
  <1>1. P["pf"].pc = "off" /\ P["pb"].pc = "off" BY Zenon DEF FlowInv, PhaseInv, Refusable
  <1>2. FlowType(S, P, TRUE, m, p2, n, g) /\ FlowInv(S, P, TRUE, m, p2, n, g, d)
    <2>1. p.pc # "none" /\ P["pf"].pc \in {"off", "done"} /\ P["pb"].pc \in {"off", "done"}
      BY <1>1, Zenon DEF Refusable
    <2> QED BY <2>1, PxCloses, Zenon
  <1>3. Line(S, P, g.agent, d) = <<>> BY Zenon DEF FlowInv, LineInv, Unreplied, Refusable
  <1>4. FlowType(R, P, TRUE, m, p2, n, g) /\ FlowInv(R, P, TRUE, m, p2, n, g, d)
    <2>1. CASE R = S BY <1>2, <2>1, Zenon
    <2>2. CASE ~Full(S, "pm") /\ R = Put(S, "pm", "ERR") BY <1>2, <1>3, <2>2, Refusal, Zenon
    <2> QED BY <1>0, <2>1, <2>2, Zenon
  <1> QED BY <1>0, <1>4, ConnsClose, Zenon

\* A return with no reply, before there are copy loops and after they are over.
LEMMA Returns ==
    ASSUME NEW S, NEW P, NEW c, NEW m, NEW p, NEW n, NEW g, NEW d \in BOOLEAN,
           FlowType(S, P, c, m, p, n, g), FlowInv(S, P, c, m, p, n, g, d),
           NEW c2 \in BOOLEAN,
           \/ c2 /\ p.pc \in {"reply", "terminate", "leaf", "hsClient", "hsUpstream"}
           \/ /\ c2 = c /\ p.pc \in {"splice", "inspect"}
              /\ P["pf"].pc = "done" /\ P["pb"].pc = "done",
           NEW u \in BOOLEAN, NEW S2, S2 = closeConns(S, u),
           NEW p2 \in PxState, p2.pc = "closed", p2.ip = p.ip, p2.recs = p.recs,
           p.ip # NoIP => p2.host = p.host
    PROVE  FlowType(S2, P, c2, m, p2, n, g) /\ FlowInv(S2, P, c2, m, p2, n, g, d)
  <1>1. P["pf"].pc \in {"off", "done"} /\ P["pb"].pc \in {"off", "done"} BY Zenon DEF FlowInv, PhaseInv
  <1>2. c2 \/ (~c /\ p.pc \in {"splice", "inspect"} /\ P["pf"].pc = "done" /\ P["pb"].pc = "done")
    BY Zenon DEF FlowType
  <1>3. p.pc # "none" BY Zenon
  <1>4. FlowType(S, P, c2, m, p2, n, g) /\ FlowInv(S, P, c2, m, p2, n, g, d)
    BY <1>1, <1>2, <1>3, PxCloses, ZenonT(30)
  <1> QED BY <1>2, <1>4, ConnsClose, Zenon

\* "OK", and the next stage of handleConn.
LEMMA RepliesOK ==
    ASSUME NEW S, NEW P, NEW c, NEW m, NEW p, NEW n, NEW g, NEW d \in BOOLEAN,
           FlowType(S, P, c, m, p, n, g), FlowInv(S, P, c, m, p, n, g, d),
           p.pc \in {"reply", "terminate"}, ~Full(S, "pm"),
           NEW S2, S2 = Put(S, "pm", "OK"),
           NEW P2 \in Pumps, Alike(P, P2), P2["mb"] = P["mb"],
           NEW p2 \in PxState, PxInv(p2), PhaseInv(P2, m, p2, d), p2.recs = p.recs,
           p2.pc = IF p.pc = "reply" THEN "splice" ELSE "leaf"
    PROVE  FlowType(S2, P2, c, m, p2, n, g) /\ FlowInv(S2, P2, c, m, p2, n, g, d)
  <1>0. S \in Streams /\ P \in Pumps /\ c \in BOOLEAN /\ g \in GotState /\ n \in SentState
    BY Zenon DEF FlowType
  <1>1. "pm" \in Stream /\ "OK" \in Chunk BY Zenon DEF Stream, Chunk
  <1>2. /\ S2 \in Streams /\ S2["pm"].q = Append(S["pm"].q, "OK") /\ S2["pm"].shut = S["pm"].shut
        /\ \A t \in Stream \ {"pm"} : S2[t] = S[t]
    BY <1>0, <1>1, PutFacts, Zenon
  <1>3. /\ S2["ma"] = S["ma"] /\ S2["up"] = S["up"] /\ S2["pu"] = S["pu"]
        /\ S2["am"] = S["am"] /\ S2["mp"] = S["mp"]
    BY <1>2, Zenon DEF Stream
  <1>4. FlowType(S2, P2, c, m, p2, n, g) BY <1>0, <1>1, <1>2, BoundedFacts, Zenon DEF FlowType
  <1>5. LineInv(S2, P2, p2, g.agent, d)
    <2>1. g.agent \in Seq(Chunk) BY <1>0, Zenon DEF GotState
    <2>2. LineInv(S, P, p, g.agent, d) BY Zenon DEF FlowInv
    <2>3. Line(S, P, g.agent, d) = <<>> BY <2>2, Zenon DEF LineInv, Unreplied
    <2>4. /\ Relaying(S2, P2, d) => Relaying(S, P, d)
          /\ Relaying(S, P, d) => Line(S2, P2, g.agent, d) = <<"OK">>
          /\ OneReply(Line(S2, P2, g.agent, d)) /\ Len(Line(S2, P2, g.agent, d)) <= 1
      <3>1. "OK" \in Answers BY Zenon DEF Answers
      <3>2. FirstIs(S, P, g.agent, d, S2, P2, "OK")
        <4>1. S2["ma"] = S["ma"] /\ S2["pm"].q = Append(S["pm"].q, "OK") BY <1>2, <1>3, Zenon
        <4>2. S \in Streams /\ P \in Pumps BY <1>0, Zenon
        <4> QED BY <2>1, <3>1, <4>1, <4>2, ReplyLine, ZenonT(30)
      <3> QED BY <2>3, <3>2, Zenon DEF FirstIs
    <2>5. <<"OK">> # <<>> /\ <<"OK">>[1] = "OK" BY Zenon
    <2>6. p2.pc \notin Unreplied BY Zenon DEF Unreplied
    <2>7. P2["pb"].pc = "write" => P2["pb"].x = "dat" BY <2>2, Zenon DEF Alike, LineInv, Pump
    <2>8. Relaying(S2, P2, d) => Line(S2, P2, g.agent, d) # <<>> /\ Line(S2, P2, g.agent, d)[1] = "OK"
      BY <2>4, <2>5, Zenon
    <2>9. Data(S2["up"].q) /\ (~d => S2["ma"].q = <<>>) BY <1>3, <2>2, Zenon DEF LineInv
    <2> QED BY <2>4, <2>6, <2>7, <2>8, <2>9, Zenon DEF LineInv
  <1>6. BytesInv(S2, P2, g)
    <2>1. BytesInv(S, P2, g) BY AlikeFacts, Zenon DEF FlowInv
    <2> QED BY <1>3, <2>1, Zenon DEF BytesInv
  <1>7. EndInv(S2, P2, c, d)
    <2>1. c \/ ~S["pm"].fin
      <3>1. "pb" \in Pump /\ Dst["pb"] = "pm" /\ "pb" # "mf" BY Zenon DEF Pump, Dst
      <3>2. P["pb"].pc = "off" BY Zenon DEF FlowInv, PhaseInv
      <3> QED BY <3>1, <3>2, Zenon DEF FlowInv, EndInv
    <2>2. EndInv(S, P, c, d) BY Zenon DEF FlowInv
    <2>3. EndInv(S2, P, c, d) BY <1>0, <1>1, <2>1, <2>2, PutEnd, Zenon
    <2> QED BY <2>3, AlikeFacts, Zenon
  <1>8. AskedInv(S2, P2, p2, n)
    <2>1. P2["mf"].pc = "write" => P["mf"].pc = "write" /\ P2["mf"].x = P["mf"].x
      BY Zenon DEF Alike, Pump
    <2>2. AskedInv(S, P, p, n) BY Zenon DEF FlowInv
    <2>3. n.asked BY <2>2, Zenon DEF AskedInv, Unread
    <2> QED BY <2>3, Zenon DEF AskedInv
  <1>9. CountInv(S2, P2, c, p2, n, g, d)
    <2>1. CountInv(S, P, c, p, n, g, d) BY Zenon DEF FlowInv
    <2>2. CASE p.pc = "terminate"
      <3>1. p2.pc \in Inspected /\ p2.pc # "closed" BY <2>2, Zenon DEF Inspected
      <3> QED BY <1>3, <2>1, <3>1, Zenon DEF CountInv
    <2>3. CASE p.pc = "reply"
      <3>1. p.pc \notin Inspected /\ p.pc \notin Unread /\ p.pc \in Unreplied
            /\ p2.pc \notin Inspected /\ p2.pc \notin Unread /\ p2.pc \notin Unreplied
            /\ p.pc # "closed" /\ p2.pc # "closed"
        BY <2>3, Zenon DEF Inspected, Unread, Unreplied
      <3>2. Forward(S2, P2, g) = Forward(S2, P, g) /\ Back(S2, P2, g) = Back(S2, P, g)
        BY AlikeFacts, Zenon
      <3>3. Forward(S2, P, g) = Forward(S, P, g) BY <1>3, Zenon DEF Forward, InFlight
      <3>4. Back(S2, P, g) = Back(S, P, g) + 1
        <4>1. Bit("pm" \in {"up", "pm", "ma"}) = 1 BY Zenon DEF Bit
        <4> QED BY <1>0, <1>1, <4>1, PutSums
      <3>5. Bit(p2.pc \notin Unread) = Bit(p.pc \notin Unread) BY <3>1, Zenon DEF Bit
      <3>6. Bit(p.pc \notin Unreplied) = 0 /\ Bit(p2.pc \notin Unreplied) = 1
        BY <3>1, Zenon DEF Bit
      <3>7. Back(S, P, g) = n.up + 0 => Back(S, P, g) + 1 = n.up + 1
        <4>1. n.up \in Int /\ Back(S, P, g) \in Int BY <1>0, Counts DEF SentState
        <4> QED BY <4>1, OneMore, Zenon
      <3>8. ~c => /\ Forward(S, P, g) + Bit(p.pc \notin Unread) = n.agent + Bit(n.asked)
                  /\ Back(S, P, g) = n.up + Bit(p.pc \notin Unreplied)
        BY <2>1, <3>1, Zenon DEF CountInv
      <3>9. ~c => /\ Forward(S2, P2, g) + Bit(p2.pc \notin Unread) = n.agent + Bit(n.asked)
                  /\ Back(S2, P2, g) = n.up + Bit(p2.pc \notin Unreplied)
        BY <3>2, <3>3, <3>4, <3>5, <3>6, <3>7, <3>8, Zenon
      <3> QED BY <1>3, <2>1, <3>1, <3>9, Zenon DEF CountInv
    <2> QED BY <2>2, <2>3, Zenon
  <1> QED BY <1>4, <1>5, <1>6, <1>7, <1>8, <1>9, Zenon DEF FlowInv

\* What was read of a stream did not come back to it.
LEMMA TakeAsked ==
    ASSUME NEW S \in Streams, NEW P, NEW p, NEW n, AskedInv(S, P, p, n),
           NEW s \in Stream, S[s].q # <<>>, NEW S2, S2 = Take(S, s)
    PROVE  AskedInv(S2, P, p, n)
  <1>1. S2[s].q = Tail(S[s].q) /\ \A t \in Stream \ {s} : S2[t] = S[t] BY TakeFacts, Zenon
  <1>2. \A t \in Stream : S[t].q \in Seq(Chunk) BY Zenon DEF Streams, StreamState
  <1>3. \A t \in Stream : NoReq(S[t].q) => NoReq(S2[t].q)
    <2> TAKE t \in Stream
    <2>1. CASE t = s BY <1>1, <1>2, <2>1, NoReqFacts, Zenon
    <2>2. CASE t # s BY <1>1, <2>2, Zenon
    <2> QED BY <2>1, <2>2, Zenon
  <1>4. "am" \in Stream /\ "mp" \in Stream BY Zenon DEF Stream
  <1> QED BY <1>3, <1>4, Zenon DEF AskedInv

\* readRequest takes the one request off the stream.
LEMMA ReadsRequest ==
    ASSUME NEW S, NEW P, NEW c, NEW m, NEW p, NEW n, NEW g, NEW d \in BOOLEAN,
           FlowType(S, P, c, m, p, n, g), FlowInv(S, P, c, m, p, n, g, d),
           p.pc = "request", S["mp"].q # <<>>, Head(S["mp"].q) = "req",
           NEW S2, S2 = Take(S, "mp"),
           NEW p2 \in PxState, p2.pc = "check", p2.host \in Host, p2.ip = p.ip, p2.recs = p.recs
    PROVE  FlowType(S2, P, c, m, p2, n, g) /\ FlowInv(S2, P, c, m, p2, n, g, d)
  <1>0. S \in Streams /\ P \in Pumps /\ c \in BOOLEAN /\ g \in GotState /\ n \in SentState
    BY Zenon DEF FlowType
  <1>1. "mp" \in Stream BY Zenon DEF Stream
  <1>2. S2 \in Streams /\ S2["mp"].q = Tail(S["mp"].q) /\ \A t \in Stream \ {"mp"} : S2[t] = S[t]
    BY <1>0, <1>1, TakeFacts, Zenon
  <1>3. /\ S2["ma"] = S["ma"] /\ S2["up"] = S["up"] /\ S2["pu"] = S["pu"]
        /\ S2["am"] = S["am"] /\ S2["pm"] = S["pm"]
    BY <1>2, Zenon DEF Stream
  <1>4. FlowType(S2, P, c, m, p2, n, g) BY <1>0, <1>1, <1>2, BoundedFacts, Zenon DEF FlowType
  <1>5. PxInv(p2)
    <2>1. p.ip = NoIP /\ p.recs = {} BY Zenon DEF FlowInv, PxInv, Unread
    <2> QED BY <2>1, Zenon DEF PxInv, Unread, Inspected
  <1>6. PhaseInv(P, m, p2, d) BY Zenon DEF FlowInv, PhaseInv
  <1>7. LineInv(S2, P, p2, g.agent, d)
    <2>1. LineInv(S, P, p, g.agent, d) /\ Data(S["up"].q) BY Zenon DEF FlowInv, LineInv
    <2>2. p.pc \in Unreplied /\ ~Replying(p2) BY Zenon DEF Unreplied, Replying
    <2> QED BY <1>3, <2>1, <2>2, LineFrame, Zenon
  <1>8. BytesInv(S2, P, g) BY <1>3, Zenon DEF FlowInv, BytesInv
  <1>9. EndInv(S2, P, c, d) BY <1>0, <1>1, TakeEnd, Zenon DEF FlowInv
  <1>10. n.asked
    <2>1. S["mp"].q \in Seq(Chunk) BY <1>0, <1>1, Zenon DEF Streams, StreamState
    <2>2. ~NoReq(S["mp"].q) BY <2>1, NoReqFacts, Zenon
    <2> QED BY <2>2, Zenon DEF FlowInv, AskedInv
  <1>11. AskedInv(S2, P, p2, n) BY <1>10, Zenon DEF AskedInv
  <1>12. CountInv(S2, P, c, p2, n, g, d)
    <2>1. CountInv(S, P, c, p, n, g, d) BY Zenon DEF FlowInv
    <2>2. /\ p.pc \notin Inspected /\ p.pc \in Unread /\ p.pc \in Unreplied /\ p.pc # "closed"
          /\ p2.pc \notin Unread /\ p2.pc \in Unreplied /\ p2.pc # "closed"
      BY Zenon DEF Inspected, Unread, Unreplied
    <2>3. Back(S2, P, g) = Back(S, P, g) BY <1>3, Zenon DEF Back, InFlight
    <2>4. Forward(S, P, g) = Forward(S2, P, g) + 1
      <3>1. Bit("mp" \in {"am", "mp", "pu"}) = 1 BY Zenon DEF Bit
      <3> QED BY <1>0, <1>1, <3>1, TakeSums, Zenon
    <2>5. Bit(p.pc \notin Unread) = 0 /\ Bit(p2.pc \notin Unread) = 1 BY <2>2, Zenon DEF Bit
    <2>6. Bit(p.pc \notin Unreplied) = Bit(p2.pc \notin Unreplied) BY <2>2, Zenon DEF Bit
    <2>7. (Forward(S2, P, g) + 1) + 0 = Forward(S2, P, g) + 1
      <3>1. Forward(S2, P, g) \in Int BY <1>0, <1>2, Counts, Zenon
      <3> QED BY <3>1
    <2>8. ~c => /\ Forward(S, P, g) + Bit(p.pc \notin Unread) = n.agent + Bit(n.asked)
                /\ Back(S, P, g) = n.up + Bit(p.pc \notin Unreplied)
      BY <2>1, <2>2, Zenon DEF CountInv
    <2>9. ~c => /\ Forward(S2, P, g) + Bit(p2.pc \notin Unread) = n.agent + Bit(n.asked)
                /\ Back(S2, P, g) = n.up + Bit(p2.pc \notin Unreplied)
      BY <2>3, <2>4, <2>5, <2>6, <2>7, <2>8, Zenon
    <2> QED BY <1>3, <2>1, <2>2, <2>9, Zenon DEF CountInv
  <1> QED BY <1>4, <1>5, <1>6, <1>7, <1>8, <1>9, <1>11, <1>12, Zenon DEF FlowInv

\* A handshake of terminate reads of the agent or of the upstream.
LEMMA Handshakes ==
    ASSUME NEW S, NEW P, NEW c, NEW m, NEW p, NEW n, NEW g, NEW d \in BOOLEAN,
           FlowType(S, P, c, m, p, n, g), FlowInv(S, P, c, m, p, n, g, d),
           p.pc \in {"hsClient", "hsUpstream"},
           NEW s \in {"mp", "up"}, S[s].q # <<>>, NEW S2, S2 = Take(S, s)
    PROVE  FlowType(S2, P, c, m, p, n, g) /\ FlowInv(S2, P, c, m, p, n, g, d)
  <1>0. S \in Streams /\ P \in Pumps /\ c \in BOOLEAN /\ g \in GotState BY Zenon DEF FlowType
  <1>1. s \in Stream BY Zenon DEF Stream
  <1>2. S2 \in Streams /\ S2[s].q = Tail(S[s].q) /\ \A t \in Stream \ {s} : S2[t] = S[t]
    BY <1>0, <1>1, TakeFacts, Zenon
  <1>3. S2["ma"] = S["ma"] /\ S2["pu"] = S["pu"] /\ S2["am"] = S["am"] /\ S2["pm"] = S["pm"]
    BY <1>2, Zenon DEF Stream
  <1>4. FlowType(S2, P, c, m, p, n, g) BY <1>0, <1>1, <1>2, BoundedFacts, Zenon DEF FlowType
  <1>5. LineInv(S2, P, p, g.agent, d)
    <2>1. LineInv(S, P, p, g.agent, d) /\ Data(S["up"].q) BY Zenon DEF FlowInv, LineInv
    <2>2. Data(S2["up"].q)
      <3>1. "up" \in Stream /\ S["up"].q \in Seq(Chunk) BY <1>0, Zenon DEF Stream, Streams, StreamState
      <3>2. CASE s = "up" BY <1>2, <2>1, <3>1, <3>2, DataFacts, Zenon
      <3>3. CASE s # "up" BY <1>2, <2>1, <3>1, <3>3, Zenon
      <3> QED BY <3>2, <3>3, Zenon
    <2> QED BY <1>3, <2>1, <2>2, LineFrame, Zenon
  <1>6. BytesInv(S2, P, g) BY <1>3, Zenon DEF FlowInv, BytesInv
  <1>7. EndInv(S2, P, c, d) BY <1>0, <1>1, TakeEnd, Zenon DEF FlowInv
  <1>8. AskedInv(S2, P, p, n) BY <1>0, <1>1, TakeAsked, Zenon DEF FlowInv
  <1>9. CountInv(S2, P, c, p, n, g, d) BY <1>3, Zenon DEF FlowInv, CountInv, Inspected
  <1> QED BY <1>4, <1>5, <1>6, <1>7, <1>8, <1>9, Zenon DEF FlowInv

-----------------------------------------------------------------------------
(* The steps of the agent, the upstream and the copy loops                 *)

LEMMA AgentActs ==
    ASSUME Typed, NEW f \in Flow, Good(f), AgentStep(f)
    PROVE  Touches(f) /\ Good(f)' /\ Slots(f)
  <1>a. PICK d \in BOOLEAN : d = (f \in plan.guest)
    <2>1. (f \in plan.guest) \in BOOLEAN OBVIOUS
    <2> QED BY <2>1, Zenon
  <1>0. /\ Out(f) = (IF d THEN "am" ELSE "mp") /\ In(f) = (IF d THEN "ma" ELSE "pm")
    BY <1>a, Zenon DEF Out, In
  <1>b. /\ FlowType(stream[f], pump[f], cut[f], mux[f], px[f], sent[f], got[f])
        /\ FlowInv(stream[f], pump[f], cut[f], mux[f], px[f], sent[f], got[f], d)
    BY <1>a, Zenon DEF Good
  <1>1. ASSUME NEW x \in {"req", "dat"}, x = "req" => ~sent[f].asked, send(f, Out(f), x, "agent")
        PROVE  Touches(f) /\ Good(f)' /\ Slots(f)
    <2> DEFINE n2 == IF x = "req" THEN [sent[f] EXCEPT !.asked = TRUE]
                                  ELSE [sent[f] EXCEPT !.agent = @ + 1]
    <2>1. /\ stream' = [stream EXCEPT ![f] = Put(stream[f], Out(f), x)]
          /\ ~stream[f][Out(f)].fin /\ ~Full(stream[f], Out(f))
          /\ UNCHANGED <<pump, cut, plan, got, muxVars, proxyVars>>
      BY <1>1, Zenon DEF send, SetStreams
    <2>2. sent' = [sent EXCEPT ![f] = n2] BY <1>1, Zenon DEF send
    <2>3. /\ stream'[f] = Put(stream[f], Out(f), x) /\ stream' = [stream EXCEPT ![f] = stream'[f]]
          /\ sent'[f] = n2 /\ sent' = [sent EXCEPT ![f] = sent'[f]]
          /\ cut' = [cut EXCEPT ![f] = cut'[f]] /\ got' = [got EXCEPT ![f] = got'[f]]
      <3> HIDE DEF n2
      <3> QED BY <2>1, <2>2, Zenon DEF Typed
    <2>4. Touches(f) /\ Slots(f) BY <2>1, <2>3, EnvFrame, Zenon
    <2>5. /\ FlowType(stream'[f], pump[f], cut[f], mux[f], px[f], sent'[f], got[f])
          /\ FlowInv(stream'[f], pump[f], cut[f], mux[f], px[f], sent'[f], got[f], d)
      BY <1>0, <1>b, <1>1, <2>1, <2>3, AgentSends
    <2>6. Good(f)' BY <1>a, <2>1, <2>5, Zenon DEF Good, muxVars, proxyVars
    <2> QED BY <2>4, <2>6, Zenon
  <1>2. ASSUME receive(f, In(f), "agent") PROVE Touches(f) /\ Good(f)' /\ Slots(f)
    <2> DEFINE g2 == [got[f] EXCEPT !.agent = Append(@, Head(stream[f][In(f)].q))]
    <2>1. /\ stream' = [stream EXCEPT ![f] = Take(stream[f], In(f))]
          /\ stream[f][In(f)].q # <<>>
          /\ UNCHANGED <<pump, cut, plan, sent, muxVars, proxyVars>>
      BY <1>2, Zenon DEF receive, SetStreams
    <2>2. got' = [got EXCEPT ![f] = g2] BY <1>2, Zenon DEF receive
    <2>3. /\ stream'[f] = Take(stream[f], In(f)) /\ stream' = [stream EXCEPT ![f] = stream'[f]]
          /\ got'[f] = g2 /\ got' = [got EXCEPT ![f] = got'[f]]
          /\ cut' = [cut EXCEPT ![f] = cut'[f]] /\ sent' = [sent EXCEPT ![f] = sent'[f]]
      <3> HIDE DEF g2
      <3> QED BY <2>1, <2>2, Zenon DEF Typed
    <2>4. Touches(f) /\ Slots(f) BY <2>1, <2>3, EnvFrame, Zenon
    <2>5. /\ FlowType(stream'[f], pump[f], cut[f], mux[f], px[f], sent[f], got'[f])
          /\ FlowInv(stream'[f], pump[f], cut[f], mux[f], px[f], sent[f], got'[f], d)
      <3>1. PICK s, S2, g3 : /\ s = In(f) /\ S2 = stream'[f] /\ g3 = got'[f] BY Zenon
      <3>2. /\ s = (IF d THEN "ma" ELSE "pm") /\ stream[f][s].q # <<>> /\ S2 = Take(stream[f], s)
            /\ g3 = Hears(got[f], Head(stream[f][s].q))
        BY <1>0, <2>1, <2>3, <3>1, Zenon DEF Hears
      <3>3. /\ FlowType(S2, pump[f], cut[f], mux[f], px[f], sent[f], g3)
            /\ FlowInv(S2, pump[f], cut[f], mux[f], px[f], sent[f], g3, d)
        BY <1>b, <3>2, AgentReceives, Zenon
      <3> QED BY <3>1, <3>3, Zenon
    <2>6. Good(f)' BY <1>a, <2>1, <2>5, Zenon DEF Good, muxVars, proxyVars
    <2> QED BY <2>4, <2>6, Zenon
  <1>3. ASSUME hangUp(f, In(f), Out(f)) PROVE Touches(f) /\ Good(f)' /\ Slots(f)
    <2>0. UNCHANGED <<pump, plan, sent, got, muxVars, proxyVars>> BY <1>3, Zenon DEF hangUp, envVars
    <2>1. sent' = [sent EXCEPT ![f] = sent'[f]] /\ got' = [got EXCEPT ![f] = got'[f]]
      BY <2>0, Zenon DEF Typed
    <2>2. CASE SetStreams(f, CloseWrite(stream[f], Out(f))) /\ cut' = cut
      <3>1. /\ stream'[f] = CloseWrite(stream[f], Out(f)) /\ stream' = [stream EXCEPT ![f] = stream'[f]]
            /\ cut' = [cut EXCEPT ![f] = cut'[f]]
        BY <2>2, Zenon DEF Typed, SetStreams
      <3>2. Touches(f) /\ Slots(f) BY <2>0, <2>1, <3>1, EnvFrame, Zenon
      <3>3. /\ FlowType(stream'[f], pump[f], cut[f], mux[f], px[f], sent[f], got[f])
            /\ FlowInv(stream'[f], pump[f], cut[f], mux[f], px[f], sent[f], got[f], d)
        <4>1. Out(f) \in Spoken(d) BY <1>0, Zenon DEF Spoken
        <4>2. stream'[f] = CloseWrite(stream[f], Out(f)) BY <3>1, Zenon
        <4> QED BY <1>b, <4>1, <4>2, HalfCloses, ZenonT(30)
      <3>4. Good(f)' BY <1>a, <2>0, <2>2, <3>3, Zenon DEF Good, muxVars, proxyVars
      <3> QED BY <3>2, <3>4, Zenon
    <2>3. CASE SetStreams(f, Close(stream[f], In(f), Out(f))) /\ cut' = [cut EXCEPT ![f] = TRUE]
      <3>1. /\ stream'[f] = Close(stream[f], In(f), Out(f)) /\ stream' = [stream EXCEPT ![f] = stream'[f]]
            /\ cut'[f] = TRUE /\ cut' = [cut EXCEPT ![f] = cut'[f]]
        BY <2>3, Zenon DEF Typed, SetStreams
      <3>2. Touches(f) /\ Slots(f) BY <2>0, <2>1, <3>1, EnvFrame, Zenon
      <3>3. In(f) \in Stream /\ Out(f) \in Stream /\ In(f) # Out(f) BY <1>0, Zenon DEF Stream
      <3>4. /\ FlowType(stream'[f], pump[f], TRUE, mux[f], px[f], sent[f], got[f])
            /\ FlowInv(stream'[f], pump[f], TRUE, mux[f], px[f], sent[f], got[f], d)
        <4>1. PICK r \in Stream, w \in Stream : r = In(f) /\ w = Out(f) /\ r # w BY <3>3, Zenon
        <4>2. stream'[f] = Close(stream[f], r, w) BY <3>1, <4>1, Zenon
        <4> QED BY <1>b, <4>1, <4>2, CutClosing, ZenonT(30)
      <3>5. Good(f)' BY <1>a, <2>0, <3>1, <3>4, Zenon DEF Good, muxVars, proxyVars
      <3> QED BY <3>2, <3>5, Zenon
    <2> QED BY <1>3, <2>2, <2>3, Zenon DEF hangUp
  <1> QED BY <1>1, <1>2, <1>3, Zenon DEF AgentStep

LEMMA UpstreamActs ==
    ASSUME Typed, NEW f \in Flow, Good(f), UpstreamStep(f)
    PROVE  Touches(f) /\ Good(f)' /\ Slots(f)
  <1>a. PICK d \in BOOLEAN :
           /\ d = (f \in plan.guest)
           /\ FlowType(stream[f], pump[f], cut[f], mux[f], px[f], sent[f], got[f])
           /\ FlowInv(stream[f], pump[f], cut[f], mux[f], px[f], sent[f], got[f], d)
    BY Kind, Zenon
  <1>f. /\ FlowType(stream[f], pump[f], cut[f], mux[f], px[f], sent[f], got[f])
        /\ FlowInv(stream[f], pump[f], cut[f], mux[f], px[f], sent[f], got[f], d)
    BY <1>a, Zenon
  <1>1. ASSUME send(f, "up", "dat", "up") PROVE Touches(f) /\ Good(f)' /\ Slots(f)
    <2> DEFINE n2 == [sent[f] EXCEPT !.up = @ + 1]
    <2>1. /\ stream' = [stream EXCEPT ![f] = Put(stream[f], "up", "dat")]
          /\ ~stream[f]["up"].fin /\ ~Full(stream[f], "up")
          /\ UNCHANGED <<pump, cut, plan, got, muxVars, proxyVars>>
      BY <1>1, Zenon DEF send, SetStreams
    <2>2. sent' = [sent EXCEPT ![f] = n2] BY <1>1, Zenon DEF send
    <2>3. /\ stream'[f] = Put(stream[f], "up", "dat") /\ stream' = [stream EXCEPT ![f] = stream'[f]]
          /\ sent'[f] = n2 /\ sent' = [sent EXCEPT ![f] = sent'[f]]
          /\ cut' = [cut EXCEPT ![f] = cut'[f]] /\ got' = [got EXCEPT ![f] = got'[f]]
      <3> HIDE DEF n2
      <3> QED BY <2>1, <2>2, Zenon DEF Typed
    <2>4. Touches(f) /\ Slots(f) BY <2>1, <2>3, EnvFrame, Zenon
    <2>5. /\ FlowType(stream'[f], pump[f], cut[f], mux[f], px[f], sent'[f], got[f])
          /\ FlowInv(stream'[f], pump[f], cut[f], mux[f], px[f], sent'[f], got[f], d)
      BY <1>f, <2>1, <2>3, UpstreamSends
    <2>6. Good(f)' BY <1>a, <2>1, <2>5, Zenon DEF Good, muxVars, proxyVars
    <2> QED BY <2>4, <2>6, Zenon
  <1>2. ASSUME receive(f, "pu", "up") PROVE Touches(f) /\ Good(f)' /\ Slots(f)
    <2> DEFINE g2 == [got[f] EXCEPT !.up = Append(@, Head(stream[f]["pu"].q))]
    <2>1. /\ stream' = [stream EXCEPT ![f] = Take(stream[f], "pu")]
          /\ stream[f]["pu"].q # <<>>
          /\ UNCHANGED <<pump, cut, plan, sent, muxVars, proxyVars>>
      BY <1>2, Zenon DEF receive, SetStreams
    <2>2. got' = [got EXCEPT ![f] = g2] BY <1>2, Zenon DEF receive
    <2>3. /\ stream'[f] = Take(stream[f], "pu") /\ stream' = [stream EXCEPT ![f] = stream'[f]]
          /\ got'[f] = g2 /\ got' = [got EXCEPT ![f] = got'[f]]
          /\ cut' = [cut EXCEPT ![f] = cut'[f]] /\ sent' = [sent EXCEPT ![f] = sent'[f]]
      <3> HIDE DEF g2
      <3> QED BY <2>1, <2>2, Zenon DEF Typed
    <2>4. Touches(f) /\ Slots(f) BY <2>1, <2>3, EnvFrame, Zenon
    <2>5. /\ FlowType(stream'[f], pump[f], cut[f], mux[f], px[f], sent[f], got'[f])
          /\ FlowInv(stream'[f], pump[f], cut[f], mux[f], px[f], sent[f], got'[f], d)
      <3>1. PICK S2, g3 : S2 = stream'[f] /\ g3 = got'[f] BY Zenon
      <3>2. /\ S2 = Take(stream[f], "pu")
            /\ g3 = [got[f] EXCEPT !.up = Append(@, Head(stream[f]["pu"].q))]
        BY <2>3, <3>1, Zenon
      <3>3. /\ FlowType(S2, pump[f], cut[f], mux[f], px[f], sent[f], g3)
            /\ FlowInv(S2, pump[f], cut[f], mux[f], px[f], sent[f], g3, d)
        BY <1>f, <2>1, <3>2, UpstreamReceives, Zenon
      <3> QED BY <3>1, <3>3, Zenon
    <2>6. Good(f)' BY <1>a, <2>1, <2>5, Zenon DEF Good, muxVars, proxyVars
    <2> QED BY <2>4, <2>6, Zenon
  <1>3. ASSUME hangUp(f, "pu", "up") PROVE Touches(f) /\ Good(f)' /\ Slots(f)
    <2>0. UNCHANGED <<pump, plan, sent, got, muxVars, proxyVars>> BY <1>3, Zenon DEF hangUp, envVars
    <2>1. sent' = [sent EXCEPT ![f] = sent'[f]] /\ got' = [got EXCEPT ![f] = got'[f]]
      BY <2>0, Zenon DEF Typed
    <2>2. CASE SetStreams(f, CloseWrite(stream[f], "up")) /\ cut' = cut
      <3>1. /\ stream'[f] = CloseWrite(stream[f], "up") /\ stream' = [stream EXCEPT ![f] = stream'[f]]
            /\ cut' = [cut EXCEPT ![f] = cut'[f]]
        BY <2>2, Zenon DEF Typed, SetStreams
      <3>2. Touches(f) /\ Slots(f) BY <2>0, <2>1, <3>1, EnvFrame, Zenon
      <3>3. /\ FlowType(stream'[f], pump[f], cut[f], mux[f], px[f], sent[f], got[f])
            /\ FlowInv(stream'[f], pump[f], cut[f], mux[f], px[f], sent[f], got[f], d)
        <4>1. "up" \in Spoken(d) BY Zenon DEF Spoken
        <4>2. stream'[f] = CloseWrite(stream[f], "up") BY <3>1, Zenon
        <4> QED BY <1>f, <4>1, <4>2, HalfCloses, ZenonT(30)
      <3>4. Good(f)' BY <1>a, <2>0, <2>2, <3>3, Zenon DEF Good, muxVars, proxyVars
      <3> QED BY <3>2, <3>4, Zenon
    <2>3. CASE SetStreams(f, Close(stream[f], "pu", "up")) /\ cut' = [cut EXCEPT ![f] = TRUE]
      <3>1. /\ stream'[f] = Close(stream[f], "pu", "up") /\ stream' = [stream EXCEPT ![f] = stream'[f]]
            /\ cut'[f] = TRUE /\ cut' = [cut EXCEPT ![f] = cut'[f]]
        BY <2>3, Zenon DEF Typed, SetStreams
      <3>2. Touches(f) /\ Slots(f) BY <2>0, <2>1, <3>1, EnvFrame, Zenon
      <3>3. "pu" \in Stream /\ "up" \in Stream /\ "pu" # "up" BY Zenon DEF Stream
      <3>4. /\ FlowType(stream'[f], pump[f], TRUE, mux[f], px[f], sent[f], got[f])
            /\ FlowInv(stream'[f], pump[f], TRUE, mux[f], px[f], sent[f], got[f], d)
        <4>1. stream'[f] = Close(stream[f], "pu", "up") BY <3>1, Zenon
        <4> QED BY <1>f, <3>3, <4>1, CutClosing, Zenon
      <3>5. Good(f)' BY <1>a, <2>0, <3>1, <3>4, Zenon DEF Good, muxVars, proxyVars
      <3> QED BY <3>2, <3>5, Zenon
    <2> QED BY <1>3, <2>2, <2>3, Zenon DEF hangUp
  <1> QED BY <1>1, <1>2, <1>3, Zenon DEF UpstreamStep

\* A step of a copy loop, of the mux or of the proxy.
LEMMA CopyActs ==
    ASSUME Typed, NEW f \in Flow, Good(f), NEW k \in Pump,
           \/ copyStep(f, k) \/ writeDeadline(f, k)
           \/ pump[f][k].pc = "write" /\ leave(f, k, TRUE),
           UNCHANGED <<muxVars, proxyVars, envVars>>
    PROVE  Touches(f) /\ Good(f)' /\ Slots(f)
  <1>a. PICK d \in BOOLEAN :
           /\ d = (f \in plan.guest)
           /\ FlowType(stream[f], pump[f], cut[f], mux[f], px[f], sent[f], got[f])
           /\ FlowInv(stream[f], pump[f], cut[f], mux[f], px[f], sent[f], got[f], d)
    BY Kind, Zenon
  <1>f. /\ FlowType(stream[f], pump[f], cut[f], mux[f], px[f], sent[f], got[f])
        /\ FlowInv(stream[f], pump[f], cut[f], mux[f], px[f], sent[f], got[f], d)
    BY <1>a, Zenon
  <1>b. pump[f] \in Pumps /\ cut[f] \in BOOLEAN /\ stream[f] \in Streams BY Zenon DEF Typed
  <1>1. ASSUME NEW early \in BOOLEAN, leave(f, k, early), pump[f][k].pc \in {"read", "write"}
        PROVE  /\ stream' = [stream EXCEPT ![f] = stream'[f]] /\ pump' = [pump EXCEPT ![f] = pump'[f]]
               /\ cut' = [cut EXCEPT ![f] = cut'[f]]
               /\ Leaves(stream[f], pump[f], k, stream'[f], pump'[f])
               /\ cut'[f] = (cut[f] \/ early)
    <2>1. /\ stream' = [stream EXCEPT ![f] = CloseWrite(stream[f], Dst[k])]
          /\ pump' = [pump EXCEPT ![f] = [pump[f] EXCEPT ![k].pc = "done"]]
          /\ cut' = [cut EXCEPT ![f] = cut[f] \/ early]
      BY <1>1, Zenon DEF leave, SetStreams
    <2>2. /\ stream'[f] = CloseWrite(stream[f], Dst[k]) /\ stream' = [stream EXCEPT ![f] = stream'[f]]
          /\ pump'[f] = [pump[f] EXCEPT ![k].pc = "done"] /\ pump' = [pump EXCEPT ![f] = pump'[f]]
          /\ cut'[f] = (cut[f] \/ early) /\ cut' = [cut EXCEPT ![f] = cut'[f]]
      BY <2>1, Zenon DEF Typed
    <2> QED BY <1>1, <2>2, Zenon DEF Leaves
  <1>2. /\ stream' = [stream EXCEPT ![f] = stream'[f]] /\ pump' = [pump EXCEPT ![f] = pump'[f]]
        /\ cut' = [cut EXCEPT ![f] = cut'[f]] /\ cut'[f] \in BOOLEAN /\ (cut[f] => cut'[f])
        /\ Moves(stream[f], pump[f], k, stream'[f], pump'[f])
        /\ Leaves(stream[f], pump[f], k, stream'[f], pump'[f]) =>
              \/ cut'[f]
              \/ /\ pump[f][k].pc = "read" /\ stream[f][Src[k]].q = <<>> /\ stream[f][Src[k]].fin
    <2>1. CASE pump[f][k].pc = "read" /\ stream[f][Src[k]].q = <<>> /\ stream[f][Src[k]].fin
               /\ leave(f, k, FALSE)
      BY <1>b, <1>1, <2>1, Zenon DEF Moves
    <2>2. CASE pump[f][k].pc \in {"read", "write"} /\ leave(f, k, TRUE)
      BY <1>b, <1>1, <2>2, Zenon DEF Moves
    <2>3. CASE /\ pump[f][k].pc = "read" /\ stream[f][Src[k]].q # <<>> /\ cut' = cut
               /\ pump' = [pump EXCEPT ![f][k] = [pc |-> "write", x |-> Head(stream[f][Src[k]].q)]]
               /\ SetStreams(f, Take(stream[f], Src[k]))
      <3>1. /\ stream'[f] = Take(stream[f], Src[k]) /\ stream' = [stream EXCEPT ![f] = stream'[f]]
            /\ cut'[f] = cut[f] /\ cut' = [cut EXCEPT ![f] = cut'[f]]
        BY <2>3, Zenon DEF Typed, SetStreams
      <3>2. /\ pump'[f] = [pump[f] EXCEPT ![k] = [pc |-> "write", x |-> Head(stream[f][Src[k]].q)]]
            /\ pump' = [pump EXCEPT ![f] = pump'[f]]
        BY <2>3, Zenon DEF Typed
      <3>3. Reads(stream[f], pump[f], k, stream'[f], pump'[f]) BY <2>3, <3>1, <3>2, Zenon DEF Reads
      <3>4. pump'[f][k].pc = "write"
        <4>1. pump'[f][k] = [pc |-> "write", x |-> Head(stream[f][Src[k]].q)]
          BY <1>b, <3>2, Zenon DEF Pumps
        <4>2. [pc |-> "write", x |-> Head(stream[f][Src[k]].q)].pc = "write" BY Zenon
        <4> QED BY <4>1, <4>2, Zenon
      <3>5. ~Leaves(stream[f], pump[f], k, stream'[f], pump'[f])
        <4>1. [pump[f] EXCEPT ![k].pc = "done"][k].pc = "done" BY <1>b, Zenon DEF Pumps, PumpState
        <4> QED BY <3>4, <4>1, Zenon DEF Leaves
      <3> QED BY <1>b, <3>1, <3>2, <3>3, <3>5, Zenon DEF Moves
    <2>4. CASE /\ pump[f][k].pc = "write" /\ ~stream[f][Dst[k]].shut /\ ~Full(stream[f], Dst[k])
               /\ cut' = cut /\ pump' = [pump EXCEPT ![f][k].pc = "read"]
               /\ SetStreams(f, Put(stream[f], Dst[k], pump[f][k].x))
      <3>1. /\ stream'[f] = Put(stream[f], Dst[k], pump[f][k].x)
            /\ stream' = [stream EXCEPT ![f] = stream'[f]]
            /\ cut'[f] = cut[f] /\ cut' = [cut EXCEPT ![f] = cut'[f]]
        BY <2>4, Zenon DEF Typed, SetStreams
      <3>2. /\ pump'[f] = [pump[f] EXCEPT ![k].pc = "read"]
            /\ pump' = [pump EXCEPT ![f] = pump'[f]]
        BY <2>4, Zenon DEF Typed
      <3>3. Writes(stream[f], pump[f], k, stream'[f], pump'[f]) BY <2>4, <3>1, <3>2, Zenon DEF Writes
      <3>4. pump'[f][k].pc = "read" BY <1>b, <3>2, Zenon DEF Pumps, PumpState
      <3>5. ~Leaves(stream[f], pump[f], k, stream'[f], pump'[f])
        <4>1. [pump[f] EXCEPT ![k].pc = "done"][k].pc = "done" BY <1>b, Zenon DEF Pumps, PumpState
        <4> QED BY <3>4, <4>1, Zenon DEF Leaves
      <3> QED BY <1>b, <3>1, <3>2, <3>3, <3>5, Zenon DEF Moves
    <2> QED BY <2>1, <2>2, <2>3, <2>4, Zenon DEF copyStep, read, readDeadline, write, writeDeadline
  <1>3. /\ FlowType(stream'[f], pump'[f], cut'[f], mux[f], px[f], sent[f], got[f])
        /\ FlowInv(stream'[f], pump'[f], cut'[f], mux[f], px[f], sent[f], got[f], d)
    <2>1. PICK S2, P2, c2 : S2 = stream'[f] /\ P2 = pump'[f] /\ c2 = cut'[f] BY Zenon
    <2>2. c2 \in BOOLEAN /\ CopyOK(stream[f], pump[f], cut[f], k, S2, P2, c2)
      BY <1>2, <2>1, Zenon DEF CopyOK
    <2>3. /\ FlowType(S2, P2, c2, mux[f], px[f], sent[f], got[f])
          /\ FlowInv(S2, P2, c2, mux[f], px[f], sent[f], got[f], d)
      BY <1>f, <2>2, PumpStep, ZenonT(30)
    <2> QED BY <2>1, <2>3, Zenon
  <1>4. Good(f)' BY <1>a, <1>3, Zenon DEF Good, muxVars, proxyVars, envVars
  <1>5. Touches(f)
    <2>1. /\ mux' = [mux EXCEPT ![f] = mux'[f]] /\ px' = [px EXCEPT ![f] = px'[f]]
          /\ sent' = [sent EXCEPT ![f] = sent'[f]] /\ got' = [got EXCEPT ![f] = got'[f]]
      BY Zenon DEF Typed, muxVars, proxyVars, envVars
    <2> QED BY <1>2, <2>1, Zenon DEF Touches, envVars
  <1>6. Slots(f) BY SameSlots, Zenon DEF muxVars, proxyVars, InMux, InProxy
  <1> QED BY <1>4, <1>5, <1>6, Zenon

=============================================================================
