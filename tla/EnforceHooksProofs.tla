-------------------------- MODULE EnforceHooksProofs --------------------------
(***************************************************************************)
(* Proofs about DestClass and EnforceHooks: for every sockaddr, every byte *)
(* order, and any number of cgroups and threads.                           *)
(***************************************************************************)
EXTENDS EnforceHooks, TLAPS

-----------------------------------------------------------------------------
(* The classifiers, for every address                                      *)

\* The masks of the C code name the ranges of the comments.
LEMMA Masks ==
    ASSUME NEW b \in Byte
    PROVE  /\ HighBits(b, 16) = 16 <=> b \in 16..31
           /\ HighBits(b, 64) = 64 <=> b \in 64..127
           /\ HighBits(b, 64) = 128 <=> b \in 128..191
           /\ HighBits(b, 2) = 252 <=> b \in 252..253
  <1>1. HighBits(b, 16) = 16 <=> b \in 16..31 BY DEF Byte, HighBits
  <1>2. HighBits(b, 64) = 64 <=> b \in 64..127 BY DEF Byte, HighBits
  <1>3. HighBits(b, 64) = 128 <=> b \in 128..191 BY DEF Byte, HighBits
  <1>4. HighBits(b, 2) = 252 <=> b \in 252..253 BY DEF Byte, HighBits
  <1> QED BY <1>1, <1>2, <1>3, <1>4

\* Membership in a block of one or two leading bytes.
LEMMA Blocks ==
    ASSUME NEW a, NEW s, NEW t
    PROVE  /\ InBlock(a, <<s>>) <=> a[1] \in s
           /\ InBlock(a, <<s, t>>) <=> a[1] \in s /\ a[2] \in t
  <1>1. InBlock(a, <<s>>) <=> a[1] \in s BY DEF InBlock
  <1>2. InBlock(a, <<s, t>>) <=> a[1] \in s /\ a[2] \in t BY DEF InBlock
  <1> QED BY <1>1, <1>2

LEMMA V4Agrees ==
    ASSUME NEW a, a[1] \in Byte, a[2] \in Byte
    PROVE  classify_v4(a) = V4Class(a)
  <1>1. /\ InBlock(a, Loopback4) <=> a[1] \in 127..127
        /\ InBlock(a, Link4) <=> a[1] \in 169..169 /\ a[2] \in 254..254
        /\ InBlock(a, <<10..10>>) <=> a[1] \in 10..10
        /\ InBlock(a, <<172..172, 16..31>>) <=> a[1] \in 172..172 /\ a[2] \in 16..31
        /\ InBlock(a, <<192..192, 168..168>>) <=> a[1] \in 192..192 /\ a[2] \in 168..168
        /\ InBlock(a, <<100..100, 64..127>>) <=> a[1] \in 100..100 /\ a[2] \in 64..127
    <2>1. InBlock(a, <<127..127>>) <=> a[1] \in 127..127 BY Blocks, Zenon
    <2>2. InBlock(a, <<169..169, 254..254>>) <=> a[1] \in 169..169 /\ a[2] \in 254..254
      BY SMT DEF InBlock
    <2>3. InBlock(a, <<10..10>>) <=> a[1] \in 10..10 BY Blocks, Zenon
    <2>4. InBlock(a, <<172..172, 16..31>>) <=> a[1] \in 172..172 /\ a[2] \in 16..31
      BY Blocks, Zenon
    <2>5. InBlock(a, <<192..192, 168..168>>) <=> a[1] \in 192..192 /\ a[2] \in 168..168
      BY SMT DEF InBlock
    <2>6. InBlock(a, <<100..100, 64..127>>) <=> a[1] \in 100..100 /\ a[2] \in 64..127
      BY Blocks, Zenon
    <2> QED BY <2>1, <2>2, <2>3, <2>4, <2>5, <2>6, Zenon DEF Loopback4, Link4
  <1>2. \A n \in Nat : \A b \in Byte : b \in n..n <=> b = n
    BY DEF Byte
  <1>3. /\ InBlock(a, Loopback4) <=> a[1] = 127
        /\ InBlock(a, Link4) <=> a[1] = 169 /\ a[2] = 254
        /\ InBlock(a, <<10..10>>) <=> a[1] = 10
        /\ InBlock(a, <<172..172, 16..31>>) <=> a[1] = 172 /\ HighBits(a[2], 16) = 16
        /\ InBlock(a, <<192..192, 168..168>>) <=> a[1] = 192 /\ a[2] = 168
        /\ InBlock(a, <<100..100, 64..127>>) <=> a[1] = 100 /\ HighBits(a[2], 64) = 64
    BY <1>1, <1>2, Masks
  <1>4. (\E blk \in Private4 : InBlock(a, blk)) <=>
            \/ InBlock(a, <<10..10>>) \/ InBlock(a, <<172..172, 16..31>>)
            \/ InBlock(a, <<192..192, 168..168>>) \/ InBlock(a, <<100..100, 64..127>>)
    BY SMT DEF Private4
  <1> DEFINE loop == a = Zero \/ a[1] = 127
             link == a[1] = 169 /\ a[2] = 254
             priv == \/ a[1] = 10
                     \/ a[1] = 172 /\ HighBits(a[2], 16) = 16
                     \/ a[1] = 192 /\ a[2] = 168
                     \/ a[1] = 100 /\ HighBits(a[2], 64) = 64
  <1>5. classify_v4(a) = IF loop THEN DST_LOOPBACK ELSE IF link THEN DST_LINKLOCAL
                         ELSE IF priv THEN DST_PRIVATE ELSE DST_PUBLIC
    BY DEF classify_v4
  <1>6. /\ (a = Zero \/ InBlock(a, Loopback4)) <=> loop
        /\ InBlock(a, Link4) <=> link
        /\ (\E blk \in Private4 : InBlock(a, blk)) <=> priv
    BY <1>3, <1>4
  <1>7. loop => ~link /\ ~priv
    <2>1. a = Zero => a[1] = 0 BY DEF Zero
    <2> QED BY <2>1
  <1>8. link => ~priv OBVIOUS
  <1> HIDE DEF loop, link, priv
  <1> QED BY <1>5, <1>6, <1>7, <1>8 DEF V4Class

\* A number loaded from memory and swapped to host order has the bytes of memory,
\* in either byte order.
LEMMA HostOrder ==
    ASSUME NEW m, NEW i \in Nat
    PROVE  /\ bpf_ntohl(load32(m, i)) = <<m[i], m[i + 1], m[i + 2], m[i + 3]>>
           /\ \A a, b, c, d : load32(m, i) = bpf_htonl(<<a, b, c, d>>) <=>
                 m[i] = a /\ m[i + 1] = b /\ m[i + 2] = c /\ m[i + 3] = d
           /\ load32(m, i) = Zero <=>
                 m[i] = 0 /\ m[i + 1] = 0 /\ m[i + 2] = 0 /\ m[i + 3] = 0
  BY EndianAssumption DEF bpf_ntohl, bpf_htonl, load32, swab32, Zero

LEMMA V6Agrees ==
    ASSUME NEW m \in [1..16 -> Byte]
    PROVE  classify_v6(m) = V6Class(m)
  <1> DEFINE w0 == load32(m, 1)
             w1 == load32(m, 5)
             w2 == load32(m, 9)
             w3 == load32(m, 13)
             loop == w0 = Zero /\ w1 = Zero /\ w2 = Zero /\ (w3 = Zero \/ w3 = bpf_htonl(<<0, 0, 0, 1>>))
             map  == w0 = Zero /\ w1 = Zero /\ w2 = bpf_htonl(<<0, 0, 255, 255>>)
             link == bpf_ntohl(w0)[1] = 254 /\ HighBits(bpf_ntohl(w0)[2], 64) = 128
             ula  == HighBits(bpf_ntohl(w0)[1], 2) = 252
  <1>0. \A i \in 1..16 : m[i] \in Byte OBVIOUS
  <1>1. /\ w0 = Zero <=> m[1] = 0 /\ m[2] = 0 /\ m[3] = 0 /\ m[4] = 0
        /\ w1 = Zero <=> m[5] = 0 /\ m[6] = 0 /\ m[7] = 0 /\ m[8] = 0
        /\ w2 = Zero <=> m[9] = 0 /\ m[10] = 0 /\ m[11] = 0 /\ m[12] = 0
        /\ w3 = Zero <=> m[13] = 0 /\ m[14] = 0 /\ m[15] = 0 /\ m[16] = 0
    BY HostOrder
  <1>2. /\ w3 = bpf_htonl(<<0, 0, 0, 1>>) <=> m[13] = 0 /\ m[14] = 0 /\ m[15] = 0 /\ m[16] = 1
        /\ w2 = bpf_htonl(<<0, 0, 255, 255>>) <=> m[9] = 0 /\ m[10] = 0 /\ m[11] = 255 /\ m[12] = 255
    BY HostOrder
  <1>3. /\ bpf_ntohl(w0) = <<m[1], m[2], m[3], m[4]>>
        /\ bpf_ntohl(w3) = <<m[13], m[14], m[15], m[16]>>
    BY HostOrder
  <1>4. loop <=> (\A i \in 1..15 : m[i] = 0) /\ m[16] <= 1
    <2>1. (\A i \in 1..15 : m[i] = 0) <=>
            /\ m[1] = 0 /\ m[2] = 0 /\ m[3] = 0 /\ m[4] = 0 /\ m[5] = 0 /\ m[6] = 0 /\ m[7] = 0
            /\ m[8] = 0 /\ m[9] = 0 /\ m[10] = 0 /\ m[11] = 0 /\ m[12] = 0 /\ m[13] = 0
            /\ m[14] = 0 /\ m[15] = 0
      OBVIOUS
    <2>2. m[16] <= 1 <=> m[16] = 0 \/ m[16] = 1 BY <1>0 DEF Byte
    <2> QED BY <1>1, <1>2, <2>1, <2>2
  <1>5. map <=> IsMapped(m)
    <2>1. (\A i \in 1..10 : m[i] = 0) <=>
            /\ m[1] = 0 /\ m[2] = 0 /\ m[3] = 0 /\ m[4] = 0 /\ m[5] = 0 /\ m[6] = 0 /\ m[7] = 0
            /\ m[8] = 0 /\ m[9] = 0 /\ m[10] = 0
      OBVIOUS
    <2> QED BY <1>1, <1>2, <2>1 DEF IsMapped
  <1>6. link <=> InBlock(m, Link6)
    <2>1. InBlock(m, Link6) <=> m[1] \in 254..254 /\ m[2] \in 128..191
      BY SMT DEF InBlock, Link6
    <2>2. m[1] \in 254..254 <=> m[1] = 254 BY <1>0 DEF Byte
    <2>3. HighBits(m[2], 64) = 128 <=> m[2] \in 128..191 BY <1>0, Masks
    <2>4. bpf_ntohl(w0)[1] = m[1] /\ bpf_ntohl(w0)[2] = m[2] BY <1>3
    <2> QED BY <2>1, <2>2, <2>3, <2>4
  <1>7. ula <=> InBlock(m, Unique6)
    <2>1. InBlock(m, Unique6) <=> m[1] \in 252..253 BY SMT DEF InBlock, Unique6
    <2>2. HighBits(m[1], 2) = 252 <=> m[1] \in 252..253 BY <1>0, Masks
    <2>3. bpf_ntohl(w0)[1] = m[1] BY <1>3
    <2> QED BY <2>1, <2>2, <2>3
  <1>8. classify_v4(bpf_ntohl(w3)) = V4Class(To4(m))
    <2>1. bpf_ntohl(w3) = To4(m) BY <1>3 DEF To4
    <2>2. To4(m)[1] \in Byte /\ To4(m)[2] \in Byte BY <1>0 DEF To4
    <2> QED BY <2>1, <2>2, V4Agrees
  <1>9. classify_v6(m) = IF loop THEN DST_LOOPBACK ELSE IF map THEN classify_v4(bpf_ntohl(w3))
                         ELSE IF link THEN DST_LINKLOCAL ELSE IF ula THEN DST_PRIVATE
                         ELSE DST_PUBLIC
    BY DEF classify_v6
  <1>10. /\ loop => ~map /\ ~link /\ ~ula
         /\ map => ~link /\ ~ula
         /\ link => ~ula
    <2>1. loop \/ map => m[1] = 0 BY <1>1
    <2>2. link => m[1] = 254 BY <1>3
    <2>3. ula => m[1] \in 252..253 BY <1>3, <1>0, Masks
    <2>4. ~(loop /\ map) BY <1>1, <1>2
    <2> HIDE DEF loop, map, link, ula
    <2> QED BY <2>1, <2>2, <2>3, <2>4
  <1> HIDE DEF loop, map, link, ula, w3
  <1> QED BY <1>4, <1>5, <1>6, <1>7, <1>8, <1>9, <1>10 DEF V6Class

\* Whatever sockaddr the connect hook is given, null or short ones included, and in
\* either byte order, classify_dest finds the block the address lies in.
THEOREM ClassifierCorrect == \A s \in Sockaddr : classify_dest(s) = RefClass(s)
  <1> SUFFICES ASSUME NEW s \in Sockaddr PROVE classify_dest(s) = RefClass(s) OBVIOUS
  <1>1. /\ s.null \in BOOLEAN /\ s.len \in Int /\ s.fam \in Nat
        /\ s.addr \in [1..16 -> Byte]
    BY DEF Sockaddr
  <1> DEFINE a == <<s.addr[1], s.addr[2], s.addr[3], s.addr[4]>>
  <1>2. classify_v4(bpf_ntohl(load32(s.addr, 1))) = V4Class(a)
    <2>1. bpf_ntohl(load32(s.addr, 1)) = a BY HostOrder
    <2>2. a[1] \in Byte /\ a[2] \in Byte BY <1>1
    <2> QED BY <2>1, <2>2, V4Agrees
  <1>3. classify_v6(s.addr) = V6Class(s.addr) BY <1>1, V6Agrees
  <1> HIDE DEF a
  <1>4. CASE s.null \/ (s.fam # AF_INET /\ s.fam # AF_INET6)
    BY <1>4 DEF classify_dest, RefClass
  <1>5. CASE ~s.null /\ s.fam = AF_INET
    <2>1. s.fam # AF_INET6 BY <1>5 DEF AF_INET, AF_INET6
    <2>2. RefClass(s) = IF s.len >= 16 THEN V4Class(a) ELSE DST_OTHER
      BY <1>5, <2>1 DEF RefClass, a
    <2>3. classify_dest(s) = IF s.len < 2 \/ s.len < 16 THEN DST_OTHER ELSE V4Class(a)
      BY <1>5, <1>2 DEF classify_dest
    <2> QED BY <2>2, <2>3, <1>1
  <1>6. CASE ~s.null /\ s.fam = AF_INET6
    <2>1. s.fam # AF_INET BY <1>6 DEF AF_INET, AF_INET6
    <2>2. RefClass(s) = IF s.len >= 24 THEN V6Class(s.addr) ELSE DST_OTHER
      BY <1>6, <2>1 DEF RefClass
    <2>3. classify_dest(s) = IF s.len < 2 \/ s.len < 24 THEN DST_OTHER ELSE V6Class(s.addr)
      BY <1>6, <2>1, <1>3 DEF classify_dest
    <2> QED BY <2>2, <2>3, <1>1
  <1> QED BY <1>1, <1>4, <1>5, <1>6

LEMMA Internal4 ==
    ASSUME NEW a, classify_v4(a) # DST_PUBLIC
    PROVE  internal4(a)
  BY DEF classify_v4, internal4, stdInternal4

\* The proxy refuses to dial, without an exception of its own, every address that the
\* connect hook would class as loopback, link-local or private: the proxy's dial
\* check (isInternalIP) is at least as strict as the kernel's classes, IPv4-mapped
\* forms included, so that being in the TCB gains it no internal destination.
THEOREM ProxyNoLaxerThanHook ==
    \A s \in Sockaddr :
        classify_dest(s) \in {DST_LOOPBACK, DST_LINKLOCAL, DST_PRIVATE} => ~checkDialAddr(IPOf(s), {})
  <1> SUFFICES ASSUME NEW s \in Sockaddr,
                      classify_dest(s) \in {DST_LOOPBACK, DST_LINKLOCAL, DST_PRIVATE}
               PROVE  isInternalIP(IPOf(s))
    BY DEF checkDialAddr
  <1> DEFINE m == s.addr
             a == <<m[1], m[2], m[3], m[4]>>
  <1>0. m \in [1..16 -> Byte] BY DEF Sockaddr
  <1>1. s.fam \in {AF_INET, AF_INET6}
    BY DEF classify_dest, DST_OTHER, DST_LOOPBACK, DST_LINKLOCAL, DST_PRIVATE
  <1>2. CASE s.fam = AF_INET
    <2>1. classify_dest(s) = classify_v4(a)
      <3>1. bpf_ntohl(load32(m, 1)) = a BY HostOrder
      <3> QED BY <3>1, <1>2
            DEF classify_dest, DST_OTHER, DST_LOOPBACK, DST_LINKLOCAL, DST_PRIVATE
    <2>2. internal4(a)
      BY <2>1, Internal4 DEF DST_PUBLIC, DST_LOOPBACK, DST_LINKLOCAL, DST_PRIVATE
    <2>3. IPOf(s) = IPv4(a) BY <1>2 DEF IPOf
    <2>4. IsMapped(IPv4(a)) BY DEF IsMapped, IPv4
    <2>5. To4(IPv4(a)) = a BY DEF To4, IPv4
    <2> QED BY <2>2, <2>3, <2>4, <2>5 DEF isInternalIP
  <1>3. CASE s.fam = AF_INET6
    <2>1. s.fam # AF_INET BY <1>3 DEF AF_INET, AF_INET6
    <2>2. classify_dest(s) = V6Class(m)
      BY <1>0, <1>3, <2>1, V6Agrees
         DEF classify_dest, DST_OTHER, DST_LOOPBACK, DST_LINKLOCAL, DST_PRIVATE
    <2>3. IPOf(s) = m BY <2>1 DEF IPOf
    <2>4. CASE IsMapped(m)
      <3>1. ~((\A i \in 1..15 : m[i] = 0) /\ m[16] <= 1) BY <2>4 DEF IsMapped
      <3>2. V6Class(m) = V4Class(To4(m))
        <4>1. ~InBlock(m, Link6) BY <2>4, SMT DEF InBlock, Link6, IsMapped
        <4>2. ~InBlock(m, Unique6) BY <2>4, SMT DEF InBlock, Unique6, IsMapped
        <4> QED BY <2>4, <3>1, <4>1, <4>2 DEF V6Class
      <3>3. classify_v4(To4(m)) = V4Class(To4(m))
        <4>1. To4(m)[1] \in Byte /\ To4(m)[2] \in Byte BY <1>0 DEF To4
        <4> QED BY <4>1, V4Agrees
      <3>4. classify_v4(To4(m)) # DST_PUBLIC
        BY <2>2, <3>2, <3>3 DEF DST_PUBLIC, DST_LOOPBACK, DST_LINKLOCAL, DST_PRIVATE
      <3>5. internal4(To4(m)) BY <3>4, Internal4
      <3> QED BY <2>3, <2>4, <3>5 DEF isInternalIP
    <2>5. CASE ~IsMapped(m)
      <3>0. m[1] \in Byte /\ m[2] \in Byte /\ m[16] \in Byte BY <1>0
      <3>1. \/ (\A i \in 1..15 : m[i] = 0) /\ m[16] <= 1
            \/ InBlock(m, Link6) \/ InBlock(m, Unique6)
        BY <2>2, <2>5 DEF V6Class, DST_PUBLIC, DST_LOOPBACK, DST_LINKLOCAL, DST_PRIVATE
      <3>2. m[16] <= 1 => m[16] \in {0, 1} BY <3>0 DEF Byte
      <3>3. InBlock(m, Link6) => m[1] = 254 /\ HighBits(m[2], 64) = 128
        <4>1. InBlock(m, Link6) => m[1] \in 254..254 /\ m[2] \in 128..191
          BY SMT DEF InBlock, Link6
        <4>2. m[1] \in 254..254 => m[1] = 254 BY <3>0 DEF Byte
        <4> QED BY <3>0, <4>1, <4>2, Masks
      <3>4. InBlock(m, Unique6) => HighBits(m[1], 2) = 252
        <4>1. InBlock(m, Unique6) => m[1] \in 252..253 BY SMT DEF InBlock, Unique6
        <4> QED BY <3>0, <4>1, Masks
      <3>5. stdInternal6(m) BY <3>1, <3>2, <3>3, <3>4 DEF stdInternal6
      <3> QED BY <2>3, <2>5, <3>5 DEF isInternalIP
    <2> QED BY <2>4, <2>5
  <1> QED BY <1>1, <1>2, <1>3

-----------------------------------------------------------------------------
(* The hooks: the inductive invariant.  A call that is under way has seen  *)
(* what it was let past for, and its history holds what is true now.       *)

InFlight == {"tcb", "policy", "flag", "grant"}

Now(c) == Facts(c, tcb_cgroups, egress_policy, enforce_flags, grant_once)

Running(c) ==
    /\ c.ret = 0 /\ c.verdict = 0 /\ c.won = FALSE /\ c.log = {}
    /\ c.cg \in Cgroup /\ c.hook \in Hook
    /\ c.hook \in GainHook => c.gain
    /\ c.pc # "tcb" => "stranger" \in c.was
    /\ c.pc = "policy" => c.hook = "connect"
    /\ c.pc \in {"flag", "grant"} /\ c.hook = "connect" => "outside" \in c.was
    /\ c.pc = "grant" => c.hook \in Grantable /\ "armed" \in c.was

CallOK(c) ==
    /\ c.cls = c.block
    /\ c.pc \in InFlight => Running(c) /\ Now(c) \subseteq c.was
    /\ c.pc = "done" => Justified(c) /\ Told(c)

HooksInv == TypeOK /\ \A t \in Thread : CallOK(thr[t])

\* What a history records, and that it depends on the call's identity alone.
LEMMA FactsOf ==
    ASSUME NEW c, NEW tcb, NEW pol, NEW flags, NEW grants
    PROVE  LET F == Facts(c, tcb, pol, flags, grants) IN
           /\ F \subseteq Fact
           /\ c.cg \in tcb => "tcb" \in F
           /\ c.cg \notin tcb => "stranger" \in F
           /\ c.hook \in flags => "armed" \in F
           /\ c.hook \notin flags => "observe" \in F
           /\ <<c.cg, c.hook>> \in grants => "granted" \in F
           /\ <<c.cg, c.hook>> \notin grants => "ungranted" \in F
           /\ c.hook = "connect" =>
                IF pol[c.cg] # None /\ c.block \notin pol[c.cg] THEN "outside" \in F ELSE "within" \in F
  BY DEF Facts, Fact

LEMMA FactsSame ==
    ASSUME NEW c, NEW d, c.cg = d.cg, c.hook = d.hook, c.block = d.block,
           NEW tcb, NEW pol, NEW flags, NEW grants
    PROVE  Facts(c, tcb, pol, flags, grants) = Facts(d, tcb, pol, flags, grants)
  BY DEF Facts

\* A call's history can grow.
LEMMA Remember ==
    ASSUME NEW c \in CallState, NEW F \in SUBSET Fact
    PROVE  LET d == [c EXCEPT !.was = @ \cup F] IN
           /\ d \in CallState
           /\ d.pc = c.pc /\ d.cg = c.cg /\ d.hook = c.hook /\ d.ret = c.ret /\ d.gain = c.gain
           /\ d.cls = c.cls /\ d.block = c.block /\ d.verdict = c.verdict /\ d.won = c.won
           /\ d.log = c.log /\ d.dropped = c.dropped /\ d.was = c.was \cup F
  BY DEF CallState

LEMMA RunningRemember ==
    ASSUME NEW c \in CallState, Running(c), NEW F \in SUBSET Fact
    PROVE  Running([c EXCEPT !.was = @ \cup F])
  BY Remember DEF Running

\* A map write during the calls: each call under way sees it.
LEMMA WitnessStep ==
    ASSUME NEW calls \in [Thread -> CallState], Witness(calls),
           \A t \in Thread : /\ calls[t].cls = calls[t].block
                             /\ calls[t].pc \in InFlight => Running(calls[t])
                             /\ calls[t].pc = "done" => Justified(calls[t]) /\ Told(calls[t])
    PROVE  /\ thr' \in [Thread -> CallState]
           /\ \A t \in Thread : CallOK(thr[t])'
  <1> DEFINE F(t) == Facts(calls[t], tcb_cgroups', egress_policy', enforce_flags', grant_once')
             seen(t) == IF calls[t].pc \in {"idle", "done"} THEN calls[t]
                        ELSE [calls[t] EXCEPT !.was = @ \cup F(t)]
  <1>1. thr' = [t \in Thread |-> seen(t)] BY DEF Witness
  <1>2. ASSUME NEW t \in Thread PROVE seen(t) \in CallState /\ CallOK(thr[t])'
    <2>1. F(t) \in SUBSET Fact BY FactsOf
    <2>2. calls[t] \in CallState OBVIOUS
    <2>3. thr'[t] = seen(t) BY <1>1
    <2>4. CASE calls[t].pc \in {"idle", "done"}
      <3>1. thr'[t] = calls[t] BY <2>3, <2>4
      <3>2. calls[t].pc \notin InFlight BY <2>4 DEF InFlight
      <3> QED BY <2>2, <2>3, <3>1, <3>2 DEF CallOK, Justified, Told
    <2>5. CASE calls[t].pc \notin {"idle", "done"}
      <3> DEFINE d == [calls[t] EXCEPT !.was = @ \cup F(t)]
      <3>1. thr'[t] = d BY <2>3, <2>5
      <3>2. calls[t].pc \in InFlight BY <2>2, <2>5 DEF InFlight, CallState
      <3>3. d \in CallState /\ d.pc = calls[t].pc /\ d.cg = calls[t].cg /\ d.hook = calls[t].hook
            /\ d.block = calls[t].block /\ d.cls = calls[t].cls /\ d.was = calls[t].was \cup F(t)
        BY <2>1, <2>2, Remember
      <3>4. Running(d) BY <2>1, <2>2, <3>2, RunningRemember
      <3> HIDE DEF d
      <3>5. F(t) = Facts(d, tcb_cgroups', egress_policy', enforce_flags', grant_once')
        BY <3>3, FactsSame
      <3>6. d.pc # "done" BY <3>2, <3>3 DEF InFlight
      <3>7. Now(thr[t])' = Facts(d, tcb_cgroups', egress_policy', enforce_flags', grant_once')
        BY <3>1 DEF Now
      <3>8. CallOK(thr[t])'
        BY <3>1, <3>3, <3>4, <3>5, <3>6, <3>7 DEF CallOK, Running
      <3> QED BY <2>5, <3>3, <3>8 DEF d
    <2> QED BY <2>4, <2>5
  <1> QED BY <1>1, <1>2

\* A step of one thread that writes no map.
LEMMA OneCall ==
    ASSUME HooksInv, NEW t \in Thread, NEW d \in CallState, CallOK(d),
           thr' = [thr EXCEPT ![t] = d], UNCHANGED maps
    PROVE  HooksInv'
  <1>1. thr \in [Thread -> CallState] BY DEF HooksInv, TypeOK
  <1>2. thr' \in [Thread -> CallState] BY <1>1
  <1>3. \A c : CallOK(c)' <=> CallOK(c)
    BY DEF CallOK, Running, Now, Justified, Told, maps
  <1>4. ASSUME NEW u \in Thread PROVE CallOK(thr[u])'
    <2>1. CASE u = t
      <3>1. thr'[u] = d BY <2>1, <1>1
      <3> QED BY <3>1 DEF CallOK, Running, Now, Justified, Told, maps
    <2>2. CASE u # t
      <3>1. thr'[u] = thr[u] BY <2>2, <1>1
      <3>2. CallOK(thr[u]) BY DEF HooksInv
      <3> QED BY <3>1, <3>2 DEF CallOK, Running, Now, Justified, Told, maps
    <2> QED BY <2>1, <2>2
  <1> QED BY <1>2, <1>4 DEF HooksInv, TypeOK, maps

\* The call a hook is entered with.
Fresh(c) ==
    /\ c \in CallState /\ c.pc = "idle" /\ c.cg \in Cgroup /\ c.hook \in Hook
    /\ c.cls = c.block /\ c.won = FALSE /\ c.log = {}

LEMMA EnterStep ==
    ASSUME HooksInv, NEW t \in Thread, NEW c, Fresh(c), Enter(t, c)
    PROVE  HooksInv'
  <1> DEFINE pc == IF c.ret # 0 \/ (c.hook \in GainHook /\ ~c.gain) THEN "done" ELSE "tcb"
             call == [c EXCEPT !.pc = pc, !.verdict = c.ret]
             F == Facts(call, tcb_cgroups, egress_policy, enforce_flags, grant_once)
             d == [call EXCEPT !.was = F]
  <1>0. pc \in {"done", "tcb"} OBVIOUS
  <1>1. c \in CallState /\ c.ret \in {0, EACCES} BY DEF Fresh, CallState
  <1>2. /\ thr' = [thr EXCEPT ![t] = d] /\ UNCHANGED maps
    BY DEF Enter
  <1>3. /\ call \in CallState /\ call.pc = pc /\ call.cg = c.cg /\ call.hook = c.hook
        /\ call.ret = c.ret /\ call.gain = c.gain /\ call.cls = c.cls /\ call.block = c.block
        /\ call.verdict = c.ret /\ call.won = c.won /\ call.log = c.log
    <2> HIDE DEF pc
    <2> QED BY <1>0, <1>1 DEF CallState
  <1> HIDE DEF call
  <1>4. F \in SUBSET Fact BY FactsOf
  <1> HIDE DEF F
  <1>5. /\ d \in CallState /\ d.pc = pc /\ d.cg = c.cg /\ d.hook = c.hook
        /\ d.ret = c.ret /\ d.gain = c.gain /\ d.cls = c.cls /\ d.block = c.block
        /\ d.verdict = c.ret /\ d.won = c.won /\ d.log = c.log /\ d.was = F
    <2> HIDE DEF pc
    <2> QED BY <1>3, <1>4 DEF CallState
  <1> HIDE DEF d
  <1>6. F = Now(d)
    <2>1. call.cg = d.cg /\ call.hook = d.hook /\ call.block = d.block BY <1>3, <1>5
    <2> QED BY <2>1, FactsSame DEF Now, F
  <1>7. CASE c.ret # 0 \/ (c.hook \in GainHook /\ ~c.gain)
    <2>1. d.pc = "done" /\ d.pc \notin InFlight BY <1>5, <1>7 DEF InFlight
    <2>2. d.verdict # EPERM BY <1>1, <1>5 DEF EPERM, EACCES
    <2>3. Justified(d)
      <3>1. d.ret # 0 => d.verdict = d.ret BY <1>5
      <3>2. d.verdict = 0 => d.hook \in GainHook /\ ~d.gain BY <1>5, <1>7
      <3> QED BY <2>2, <3>1, <3>2 DEF Justified
    <2>4. Told(d)
      <3>1. d.log = {} BY <1>5 DEF Fresh
      <3>2. ~(d.hook = "connect" /\ d.ret = 0) BY <1>5, <1>7 DEF GainHook
      <3> QED BY <2>2, <3>1, <3>2 DEF Told
    <2>5. d.cls = d.block BY <1>5 DEF Fresh
    <2>6. CallOK(d) BY <2>1, <2>3, <2>4, <2>5 DEF CallOK
    <2> QED BY <2>6, <1>2, <1>5, OneCall
  <1>8. CASE ~(c.ret # 0 \/ (c.hook \in GainHook /\ ~c.gain))
    <2>1. d.pc = "tcb" BY <1>5, <1>8
    <2>2. Running(d) BY <1>5, <1>8, <2>1 DEF Running, Fresh
    <2>3. d.cls = d.block BY <1>5 DEF Fresh
    <2>4. CallOK(d) BY <2>1, <2>2, <2>3, <1>5, <1>6 DEF CallOK
    <2> QED BY <2>4, <1>2, <1>5, OneCall
  <1> QED BY <1>7, <1>8

LEMMA IdleType ==
    /\ Idle \in CallState /\ Idle.pc = "idle" /\ Idle.won = FALSE /\ Idle.log = {}
    /\ Idle.cls = Idle.block /\ CallOK(Idle)
  <1>1. /\ Idle \in CallState /\ Idle.pc = "idle" /\ Idle.won = FALSE /\ Idle.log = {}
        /\ Idle.cls = Idle.block
    BY DEF Idle, CallState
  <1> QED BY <1>1 DEF CallOK, InFlight

LEMMA CallStep ==
    ASSUME HooksInv, NEW t \in Thread, Call(t)
    PROVE  HooksInv'
  <1>1. PICK cg \in Cgroup, ret \in {0, EACCES} :
            \/ enforce_bpf(t, cg, ret) \/ enforce_ptrace(t, cg, ret) \/ prov_socket_connect(t, cg, ret)
            \/ enforce_setuid(t, cg, ret) \/ enforce_capset(t, cg, ret)
    BY DEF Call
  <1>2. ASSUME NEW h \in Hook, NEW g \in BOOLEAN
        PROVE  /\ Fresh([Idle EXCEPT !.cg = cg, !.hook = h, !.ret = ret])
               /\ Fresh([Idle EXCEPT !.cg = cg, !.hook = h, !.ret = ret, !.gain = g])
    BY DEF Idle, CallState, Fresh
  <1>3. ASSUME NEW x \in DST
        PROVE  Fresh([Idle EXCEPT !.cg = cg, !.hook = "connect", !.ret = ret, !.cls = x, !.block = x])
    BY DEF Idle, CallState, Fresh, Hook
  <1>4. CASE enforce_bpf(t, cg, ret) BY <1>4, <1>2, EnterStep DEF enforce_bpf, Hook
  <1>5. CASE enforce_ptrace(t, cg, ret) BY <1>5, <1>2, EnterStep DEF enforce_ptrace, Hook
  <1>6. CASE enforce_setuid(t, cg, ret)
    <2>1. PICK g \in BOOLEAN :
            Enter(t, [Idle EXCEPT !.cg = cg, !.hook = "setuid", !.ret = ret, !.gain = g])
      BY <1>6, Zenon DEF enforce_setuid
    <2>2. "setuid" \in Hook BY DEF Hook
    <2>3. Fresh([Idle EXCEPT !.cg = cg, !.hook = "setuid", !.ret = ret, !.gain = g])
      BY <2>2, <1>2, Zenon
    <2> QED BY <2>1, <2>3, EnterStep, Zenon
  <1>7. CASE enforce_capset(t, cg, ret)
    <2>1. PICK g \in BOOLEAN :
            Enter(t, [Idle EXCEPT !.cg = cg, !.hook = "capset", !.ret = ret, !.gain = g])
      BY <1>7, Zenon DEF enforce_capset
    <2>2. "capset" \in Hook BY DEF Hook
    <2>3. Fresh([Idle EXCEPT !.cg = cg, !.hook = "capset", !.ret = ret, !.gain = g])
      BY <2>2, <1>2, Zenon
    <2> QED BY <2>1, <2>3, EnterStep, Zenon
  <1>8. CASE prov_socket_connect(t, cg, ret)
    <2>1. PICK s \in Dest :
            Enter(t, [Idle EXCEPT !.cg = cg, !.hook = "connect", !.ret = ret,
                                  !.cls = classify_dest(s), !.block = RefClass(s)])
      <3>1. PICK x \in {[cls |-> classify_dest(y), block |-> RefClass(y)] : y \in Dest} :
              Enter(t, [Idle EXCEPT !.cg = cg, !.hook = "connect", !.ret = ret,
                                    !.cls = x.cls, !.block = x.block])
        BY <1>8, Zenon DEF prov_socket_connect
      <3>2. PICK y \in Dest : x = [cls |-> classify_dest(y), block |-> RefClass(y)]
        BY <3>1, Zenon
      <3>3. x.cls = classify_dest(y) /\ x.block = RefClass(y) BY <3>2
      <3> QED BY <3>1, <3>3, Zenon
    <2>2. s \in Sockaddr BY HooksAssumption
    <2>3. classify_dest(s) = RefClass(s) BY <2>2, ClassifierCorrect
    <2>4. classify_dest(s) \in DST
      BY DEF classify_dest, classify_v4, classify_v6, DST, DST_OTHER, DST_PUBLIC, DST_LOOPBACK,
             DST_LINKLOCAL, DST_PRIVATE
    <2> QED BY <2>1, <2>3, <2>4, <1>3, EnterStep
  <1> QED BY <1>1, <1>4, <1>5, <1>6, <1>7, <1>8

\* What the steps of a call leave of it.
LEMMA Moved ==
    ASSUME NEW c \in CallState, NEW pc \in {"policy", "flag", "grant", "done"}
    PROVE  LET d == [c EXCEPT !.pc = pc] IN
           /\ d \in CallState /\ d.pc = pc /\ d.cg = c.cg /\ d.hook = c.hook /\ d.ret = c.ret
           /\ d.gain = c.gain /\ d.cls = c.cls /\ d.block = c.block /\ d.verdict = c.verdict
           /\ d.won = c.won /\ d.log = c.log /\ d.was = c.was
  BY DEF CallState

Ended(c, v, full, l) == [c EXCEPT !.pc = "done", !.verdict = v, !.dropped = full, !.log = l]

LEMMA EndedCall ==
    ASSUME NEW c \in CallState, NEW v \in {0, EPERM}, NEW full \in BOOLEAN, NEW l \in SUBSET Event
    PROVE  /\ Ended(c, v, full, l) \in CallState /\ Ended(c, v, full, l).pc = "done"
           /\ Ended(c, v, full, l).hook = c.hook /\ Ended(c, v, full, l).ret = c.ret
           /\ Ended(c, v, full, l).gain = c.gain /\ Ended(c, v, full, l).cls = c.cls
           /\ Ended(c, v, full, l).block = c.block /\ Ended(c, v, full, l).verdict = v
           /\ Ended(c, v, full, l).won = c.won /\ Ended(c, v, full, l).log = l
           /\ Ended(c, v, full, l).dropped = full /\ Ended(c, v, full, l).was = c.was
  BY DEF CallState, Ended

\* A call under way goes on to its next lookup.
LEMMA GoOn ==
    ASSUME HooksInv, NEW t \in Thread, NEW pc \in {"policy", "flag", "grant"},
           thr[t].pc \in InFlight, thr' = [thr EXCEPT ![t].pc = pc], UNCHANGED maps,
           "stranger" \in thr[t].was,
           pc = "policy" => thr[t].hook = "connect",
           pc \in {"flag", "grant"} /\ thr[t].hook = "connect" => "outside" \in thr[t].was,
           pc = "grant" => thr[t].hook \in Grantable /\ "armed" \in thr[t].was
    PROVE  HooksInv'
  <1> DEFINE c == thr[t]
             d == [c EXCEPT !.pc = pc]
  <1>1. c \in CallState /\ CallOK(c) BY DEF HooksInv, TypeOK
  <1>2. /\ d \in CallState /\ d.pc = pc /\ d.cg = c.cg /\ d.hook = c.hook /\ d.ret = c.ret
        /\ d.gain = c.gain /\ d.cls = c.cls /\ d.block = c.block /\ d.verdict = c.verdict
        /\ d.won = c.won /\ d.log = c.log /\ d.was = c.was
    <2> HIDE DEF c
    <2>1. c \in CallState /\ pc \in {"policy", "flag", "grant", "done"} BY <1>1
    <2> QED BY <2>1, Moved
  <1>3. thr' = [thr EXCEPT ![t] = d] BY DEF HooksInv, TypeOK
  <1> HIDE DEF d
  <1>4. Now(d) = Now(c) BY <1>2, FactsSame DEF Now
  <1>5. Running(c) /\ Now(c) \subseteq c.was /\ c.cls = c.block BY <1>1 DEF CallOK
  <1>6. Running(d) BY <1>2, <1>5 DEF Running
  <1>7. CallOK(d) BY <1>2, <1>4, <1>5, <1>6 DEF CallOK, InFlight
  <1> QED BY <1>2, <1>3, <1>7, OneCall

\* A call under way returns, with its event.
LEMMA Returns ==
    ASSUME HooksInv, NEW t \in Thread, thr[t].pc \in InFlight, UNCHANGED maps,
           NEW v \in {0, EPERM}, NEW dec \in {0, 1}, NEW mode \in {0, 1}, Finish(t, v, dec, mode),
           mode = 1 => dec = 1 /\ v = EPERM,
           v = EPERM => /\ mode = 1
                        /\ {"stranger", "armed"} \subseteq thr[t].was
                        /\ thr[t].hook = "connect" => "outside" \in thr[t].was
                        /\ thr[t].hook \in Grantable => "ungranted" \in thr[t].was,
           v = 0 => thr[t].was \cap {"tcb", "observe", "within"} # {}
    PROVE  HooksInv'
  <1> DEFINE c == thr[t]
  <1>1. c \in CallState /\ CallOK(c) BY DEF HooksInv, TypeOK
  <1>2. PICK full \in BOOLEAN :
          thr' = [thr EXCEPT ![t] = [@ EXCEPT !.pc = "done", !.verdict = v, !.dropped = full,
                    !.log = IF full THEN {} ELSE {[decision |-> dec, mode |-> mode]}]]
    BY DEF Finish
  <1> DEFINE l == IF full THEN {} ELSE {[decision |-> dec, mode |-> mode]}
             d == Ended(c, v, full, l)
  <1>3. l \in SUBSET Event BY DEF Event
  <1>4. thr' = [thr EXCEPT ![t] = d] BY <1>2 DEF HooksInv, TypeOK, Ended
  <1>5. /\ \A e \in l : e.decision = dec /\ e.mode = mode
        /\ l # {} \/ full
    <2>1. CASE full BY <2>1
    <2>2. CASE ~full
      <3>1. l = {[decision |-> dec, mode |-> mode]} BY <2>2
      <3> HIDE DEF l
      <3> QED BY <3>1
    <2> QED BY <2>1, <2>2
  <1> HIDE DEF l
  <1>6. /\ d \in CallState /\ d.pc = "done" /\ d.hook = c.hook /\ d.ret = c.ret
        /\ d.gain = c.gain /\ d.cls = c.cls /\ d.block = c.block /\ d.verdict = v
        /\ d.won = c.won /\ d.log = l /\ d.dropped = full /\ d.was = c.was
    <2> HIDE DEF c
    <2> QED BY <1>1, <1>3, EndedCall
  <1> HIDE DEF d
  <1>7. Running(c) /\ c.cls = c.block BY <1>1 DEF CallOK
  <1>8. EPERM # 0 BY DEF EPERM
  <1>9. Justified(d) BY <1>6, <1>7, <1>8 DEF Justified, Running
  <1>10. Told(d) BY <1>5, <1>6, <1>7, <1>8 DEF Told, Running
  <1>11. CallOK(d) BY <1>6, <1>7, <1>9, <1>10 DEF CallOK, InFlight
  <1> QED BY <1>4, <1>6, <1>11, OneCall

\* What a call under way knows of the maps as they are.
LEMMA Sees ==
    ASSUME HooksInv, NEW t \in Thread, thr[t].pc \in InFlight
    PROVE  LET c == thr[t] IN
           /\ c \in CallState /\ Running(c) /\ c.cls = c.block
           /\ c.cg \in tcb_cgroups => "tcb" \in c.was
           /\ c.cg \notin tcb_cgroups => "stranger" \in c.was
           /\ c.hook \in enforce_flags => "armed" \in c.was
           /\ c.hook \notin enforce_flags => "observe" \in c.was
           /\ <<c.cg, c.hook>> \in grant_once => "granted" \in c.was
           /\ <<c.cg, c.hook>> \notin grant_once => "ungranted" \in c.was
           /\ c.hook = "connect" =>
                IF egress_policy[c.cg] # None /\ c.block \notin egress_policy[c.cg]
                THEN "outside" \in c.was ELSE "within" \in c.was
  <1>1. thr[t] \in CallState /\ CallOK(thr[t]) BY DEF HooksInv, TypeOK
  <1>2. Running(thr[t]) /\ Now(thr[t]) \subseteq thr[t].was /\ thr[t].cls = thr[t].block
    BY <1>1 DEF CallOK
  <1> QED BY <1>1, <1>2, FactsOf DEF Now

LEMMA TcbStep ==
    ASSUME HooksInv, NEW t \in Thread, lookupTcb(t) PROVE HooksInv'
  <1> DEFINE c == thr[t]
  <1>1. c.pc = "tcb" /\ c.pc \in InFlight /\ UNCHANGED maps BY DEF lookupTcb, InFlight
  <1>2. /\ c \in CallState /\ Running(c)
        /\ c.cg \in tcb_cgroups => "tcb" \in c.was
        /\ c.cg \notin tcb_cgroups => "stranger" \in c.was
    BY <1>1, Sees
  <1>3. CASE c.hook = "connect" /\ c.cg \in tcb_cgroups
    <2>1. Finish(t, 0, 0, 0) BY <1>3 DEF lookupTcb
    <2>2. c.was \cap {"tcb", "observe", "within"} # {} BY <1>2, <1>3
    <2>3. 0 # EPERM BY DEF EPERM
    <2> QED BY <1>1, <2>1, <2>2, <2>3, Returns
  <1>4. CASE c.hook = "connect" /\ c.cg \notin tcb_cgroups
    <2>1. thr' = [thr EXCEPT ![t].pc = "policy"] BY <1>4 DEF lookupTcb
    <2> QED BY <1>1, <1>2, <1>4, <2>1, GoOn
  <1>5. CASE c.hook # "connect" /\ c.cg \notin tcb_cgroups
    <2>1. thr' = [thr EXCEPT ![t].pc = "flag"] BY <1>5 DEF lookupTcb
    <2> QED BY <1>1, <1>2, <1>5, <2>1, GoOn
  <1>6. CASE c.hook # "connect" /\ c.cg \in tcb_cgroups
    <2> DEFINE d == [c EXCEPT !.pc = "done"]
    <2>1. thr' = [thr EXCEPT ![t] = d] BY <1>6 DEF lookupTcb, HooksInv, TypeOK
    <2>2. /\ d \in CallState /\ d.pc = "done" /\ d.hook = c.hook /\ d.ret = c.ret
          /\ d.cls = c.cls /\ d.block = c.block /\ d.verdict = c.verdict
          /\ d.won = c.won /\ d.log = c.log /\ d.was = c.was
      <3> HIDE DEF c
      <3>1. c \in CallState /\ "done" \in {"policy", "flag", "grant", "done"} BY <1>2
      <3> QED BY <3>1, Moved
    <2> HIDE DEF d
    <2>3. c.cls = c.block BY <1>1, Sees
    <2>4. d.verdict = 0 /\ d.ret = 0 /\ d.log = {} /\ d.won = FALSE /\ EPERM # 0
      BY <1>2, <2>2 DEF Running, EPERM
    <2>5. Justified(d) BY <1>2, <1>6, <2>2, <2>4 DEF Justified
    <2>6. Told(d) BY <1>6, <2>2, <2>4 DEF Told
    <2>7. CallOK(d) BY <2>2, <2>3, <2>5, <2>6 DEF CallOK, InFlight
    <2> QED BY <1>1, <2>1, <2>2, <2>7, OneCall
  <1> QED BY <1>3, <1>4, <1>5, <1>6

LEMMA PolicyStep ==
    ASSUME HooksInv, NEW t \in Thread, lookupPolicy(t) PROVE HooksInv'
  <1> DEFINE c == thr[t]
             out == egress_policy[c.cg] # None /\ c.cls \notin egress_policy[c.cg]
  <1>1. c.pc = "policy" /\ c.pc \in InFlight /\ UNCHANGED maps BY DEF lookupPolicy, InFlight
  <1>2. /\ c \in CallState /\ Running(c) /\ c.hook = "connect" /\ "stranger" \in c.was
        /\ out => "outside" \in c.was
        /\ ~out => "within" \in c.was
    BY <1>1, Sees DEF Running
  <1>3. CASE out
    <2>1. thr' = [thr EXCEPT ![t].pc = "flag"] BY <1>3 DEF lookupPolicy
    <2> QED BY <1>1, <1>2, <1>3, <2>1, GoOn
  <1>4. CASE ~out
    <2>1. Finish(t, 0, 0, 0) BY <1>4 DEF lookupPolicy
    <2>2. c.was \cap {"tcb", "observe", "within"} # {} BY <1>2, <1>4
    <2>3. 0 # EPERM BY DEF EPERM
    <2> QED BY <1>1, <2>1, <2>2, <2>3, Returns
  <1> QED BY <1>3, <1>4

LEMMA FlagStep ==
    ASSUME HooksInv, NEW t \in Thread, lookupFlag(t) PROVE HooksInv'
  <1> DEFINE c == thr[t]
  <1>1. c.pc = "flag" /\ c.pc \in InFlight /\ UNCHANGED maps BY DEF lookupFlag, InFlight
  <1>2. /\ c \in CallState /\ "stranger" \in c.was
        /\ c.hook = "connect" => "outside" \in c.was
        /\ c.hook \in enforce_flags => "armed" \in c.was
        /\ c.hook \notin enforce_flags => "observe" \in c.was
    BY <1>1, Sees DEF Running
  <1>3. 0 # EPERM BY DEF EPERM
  <1>4. CASE c.hook \in enforce_flags /\ c.hook \in Grantable
    <2>1. thr' = [thr EXCEPT ![t].pc = "grant"] BY <1>4 DEF lookupFlag
    <2> QED BY <1>1, <1>2, <1>4, <2>1, GoOn
  <1>5. CASE c.hook \in enforce_flags /\ c.hook \notin Grantable
    <2>1. Finish(t, EPERM, 1, 1) BY <1>5 DEF lookupFlag
    <2> QED BY <1>1, <1>2, <1>3, <1>5, <2>1, Returns
  <1>6. CASE c.hook \notin enforce_flags
    <2>1. PICK dec \in {0, 1} : Finish(t, 0, dec, 0) BY <1>6 DEF lookupFlag
    <2>2. c.was \cap {"tcb", "observe", "within"} # {} BY <1>2, <1>6
    <2> QED BY <1>1, <1>3, <2>1, <2>2, Returns
  <1> QED BY <1>4, <1>5, <1>6

\* What the winner of a grant is left with.
Won(c, full) == [c EXCEPT !.pc = "done", !.won = TRUE, !.dropped = full,
                          !.log = IF full THEN {} ELSE {[decision |-> 0, mode |-> 1]}]

LEMMA WonCall ==
    ASSUME NEW c \in CallState, NEW full \in BOOLEAN, Running(c), c.hook \in Grantable
    PROVE  /\ Won(c, full) \in CallState /\ Won(c, full).pc = "done"
           /\ Won(c, full).cg = c.cg /\ Won(c, full).hook = c.hook /\ Won(c, full).gain = c.gain
           /\ Won(c, full).was = c.was
           /\ Won(c, full).cls = c.cls /\ Won(c, full).block = c.block
           /\ Won(c, full).verdict = 0 /\ Won(c, full).won
           /\ Justified(Won(c, full)) /\ Told(Won(c, full))
  <1> DEFINE l == IF full THEN {} ELSE {[decision |-> 0, mode |-> 1]}
             d == Won(c, full)
  <1>1. l \in SUBSET Event /\ \A e \in l : e.decision = 0 /\ e.mode = 1 BY DEF Event
  <1>2. d = [c EXCEPT !.pc = "done", !.won = TRUE, !.dropped = full, !.log = l] BY DEF Won
  <1> HIDE DEF l
  <1>3. /\ d \in CallState /\ d.pc = "done" /\ d.cg = c.cg /\ d.hook = c.hook /\ d.ret = c.ret
        /\ d.gain = c.gain /\ d.cls = c.cls /\ d.block = c.block /\ d.verdict = c.verdict
        /\ d.won = TRUE /\ d.log = l /\ d.was = c.was
    BY <1>1, <1>2 DEF CallState
  <1> HIDE DEF d
  <1>4. d.verdict = 0 /\ d.ret = 0 /\ EPERM # 0 BY <1>3 DEF Running, EPERM
  <1>5. Justified(d) BY <1>3, <1>4 DEF Justified
  <1>6. d.hook # "connect" BY <1>3 DEF Grantable
  <1>7. Told(d) BY <1>1, <1>3, <1>4, <1>6 DEF Told
  <1> QED BY <1>3, <1>4, <1>5, <1>7 DEF d

LEMMA GrantStep ==
    ASSUME HooksInv, NEW t \in Thread, try_consume_grant(t) PROVE HooksInv'
  <1> DEFINE c == thr[t]
             key == <<c.cg, c.hook>>
  <1>1. c.pc = "grant" /\ c.pc \in InFlight BY DEF try_consume_grant, InFlight
  <1>2. /\ c \in CallState /\ Running(c) /\ c.hook \in Grantable
        /\ {"stranger", "armed"} \subseteq c.was /\ c.cls = c.block
        /\ key \notin grant_once => "ungranted" \in c.was
    BY <1>1, Sees DEF Running
  <1>3. CASE key \notin grant_once
    <2>1. Finish(t, EPERM, 1, 1) /\ UNCHANGED maps BY <1>3 DEF try_consume_grant
    <2>2. 0 # EPERM /\ c.hook # "connect" BY <1>2 DEF EPERM, Grantable
    <2> QED BY <1>1, <1>2, <1>3, <2>1, <2>2, Returns
  <1>4. CASE key \in grant_once
    <2>1. PICK full \in BOOLEAN :
            Witness([thr EXCEPT ![t] = [@ EXCEPT !.pc = "done", !.won = TRUE, !.dropped = full,
                       !.log = IF full THEN {} ELSE {[decision |-> 0, mode |-> 1]}]])
      BY <1>4 DEF try_consume_grant
    <2> DEFINE calls == [thr EXCEPT ![t] = Won(c, full)]
    <2>2. thr \in [Thread -> CallState] BY DEF HooksInv, TypeOK
    <2>3. Witness(calls) BY <2>1, <2>2 DEF Won
    <2>4. /\ Won(c, full) \in CallState /\ Won(c, full).pc = "done"
          /\ Won(c, full).cls = Won(c, full).block
          /\ Justified(Won(c, full)) /\ Told(Won(c, full))
      BY <1>2, WonCall
    <2>5. calls \in [Thread -> CallState] BY <2>2, <2>4
    <2>6. ASSUME NEW u \in Thread
          PROVE  /\ calls[u].cls = calls[u].block
                 /\ calls[u].pc \in InFlight => Running(calls[u])
                 /\ calls[u].pc = "done" => Justified(calls[u]) /\ Told(calls[u])
      <3>1. CASE u = t
        <4>1. calls[u] = Won(c, full) BY <2>2, <3>1
        <4> QED BY <4>1, <2>4 DEF InFlight
      <3>2. CASE u # t
        <4>1. calls[u] = thr[u] BY <2>2, <3>2
        <4> QED BY <4>1 DEF HooksInv, CallOK
      <3> QED BY <3>1, <3>2
    <2> HIDE DEF calls
    <2>7. thr' \in [Thread -> CallState] /\ \A u \in Thread : CallOK(thr[u])'
      BY <2>3, <2>5, <2>6, WitnessStep
    <2> QED BY <1>4, <2>7 DEF try_consume_grant, HooksInv, TypeOK
  <1> QED BY <1>3, <1>4

LEMMA WriteStep ==
    ASSUME HooksInv, Writes PROVE HooksInv'
  <1>1. \A t \in Thread : /\ thr[t].cls = thr[t].block
                          /\ thr[t].pc \in InFlight => Running(thr[t])
                          /\ thr[t].pc = "done" => Justified(thr[t]) /\ Told(thr[t])
    BY DEF HooksInv, CallOK
  <1>2. thr \in [Thread -> CallState] BY DEF HooksInv, TypeOK
  <1>3. Witness(thr) BY DEF Writes, UpdateTcb, UpdatePolicy, ctlEnforceSet, UpdateGrant
  <1>4. thr' \in [Thread -> CallState] /\ \A t \in Thread : CallOK(thr[t])'
    BY <1>1, <1>2, <1>3, WitnessStep
  <1>5. /\ tcb_cgroups' \subseteq Cgroup /\ enforce_flags' \subseteq Hook
        /\ egress_policy' \in [Cgroup -> Manifest \cup {None}]
        /\ grant_once' \subseteq Cgroup \X Grantable
    BY DEF HooksInv, TypeOK, Writes, UpdateTcb, UpdatePolicy, ctlEnforceSet, UpdateGrant
  <1> QED BY <1>4, <1>5 DEF HooksInv, TypeOK

LEMMA HooksInit == Init => HooksInv
  <1> SUFFICES ASSUME Init PROVE HooksInv OBVIOUS
  <1>1. \A t \in Thread : thr[t] = Idle BY DEF Init
  <1> QED BY <1>1, IdleType DEF Init, HooksInv, TypeOK

LEMMA HooksStep == HooksInv /\ [Next]_vars => HooksInv'
  <1> SUFFICES ASSUME HooksInv, [Next]_vars PROVE HooksInv' OBVIOUS
  <1>1. CASE UNCHANGED vars
    <2>1. TypeOK' BY <1>1 DEF vars, maps, HooksInv, TypeOK
    <2>2. ASSUME NEW t \in Thread PROVE CallOK(thr[t])'
      <3>1. CallOK(thr[t]) BY DEF HooksInv
      <3> QED BY <1>1, <3>1 DEF vars, maps, CallOK, Running, Now, Justified, Told
    <2> QED BY <2>1, <2>2 DEF HooksInv
  <1>2. CASE Writes BY <1>2, WriteStep
  <1>3. ASSUME NEW t \in Thread, Call(t) PROVE HooksInv' BY <1>3, CallStep
  <1>4. ASSUME NEW t \in Thread, Steps(t) PROVE HooksInv'
    <2>1. CASE Return(t)
      <3>1. Idle \in CallState /\ CallOK(Idle) BY IdleType
      <3> QED BY <2>1, <3>1, OneCall DEF Return
    <2> QED BY <1>4, <2>1, TcbStep, PolicyStep, FlagStep, GrantStep DEF Steps
  <1> QED BY <1>1, <1>2, <1>3, <1>4 DEF Next

\* The hooks keep their types, and every call under way has seen, at some instant of
\* it, whatever it was let past for.
THEOREM HooksInvariant == Spec => []HooksInv
  BY HooksInit, HooksStep, PTL DEF Spec

\* Every map, and every call in progress, is of its type.
THEOREM HooksTypeCorrect == Spec => []TypeOK
  <1>1. HooksInv => TypeOK BY DEF HooksInv
  <1> QED BY <1>1, HooksInvariant, PTL

\* Each condition of a verdict held at some instant of the call, for any number of
\* threads and whatever the daemons rewrite meanwhile (the five hooks).
THEOREM VerdictsJustified == Spec => []VerdictJustified
  <1>1. HooksInv => VerdictJustified BY DEF HooksInv, CallOK, VerdictJustified
  <1> QED BY <1>1, HooksInvariant, PTL

\* An event tells the verdict of the call that left it (log_decision).
THEOREM EventsTell == Spec => []EventTellsVerdict
  <1>1. HooksInv => EventTellsVerdict BY DEF HooksInv, CallOK, EventTellsVerdict
  <1> QED BY <1>1, HooksInvariant, PTL

\* The hook's class is the block's, for every destination that is connected to.
THEOREM ClassesAgree == Spec => []ClassAgrees
  <1>1. HooksInv => ClassAgrees BY DEF HooksInv, CallOK, ClassAgrees
  <1> QED BY <1>1, HooksInvariant, PTL

\* The call that spends a grant.
LEMMA Spender ==
    ASSUME HooksInv, NEW t \in Thread, try_consume_grant(t), NEW k \in grant_once, k \notin grant_once'
    PROVE  LET c == thr'[t] IN
              /\ thr[t].pc = "grant" /\ c.pc = "done" /\ k = <<c.cg, c.hook>>
              /\ c.verdict = 0 /\ c.won /\ {"stranger", "armed", "granted"} \subseteq c.was
              /\ (c.hook = "ptrace" \/ c.gain)
  <1> DEFINE b == thr[t]
             key == <<b.cg, b.hook>>
  <1>1. b.pc = "grant" /\ b.pc \in InFlight BY DEF try_consume_grant, InFlight
  <1>2. key \in grant_once /\ k = key BY DEF try_consume_grant, maps
  <1>3. /\ b \in CallState /\ Running(b) /\ b.hook \in Grantable
        /\ {"stranger", "armed", "granted"} \subseteq b.was
    BY <1>1, <1>2, Sees DEF Running
  <1>4. PICK full \in BOOLEAN :
          Witness([thr EXCEPT ![t] = [@ EXCEPT !.pc = "done", !.won = TRUE, !.dropped = full,
                     !.log = IF full THEN {} ELSE {[decision |-> 0, mode |-> 1]}]])
    BY <1>2 DEF try_consume_grant
  <1> DEFINE calls == [thr EXCEPT ![t] = Won(b, full)]
  <1>5. thr \in [Thread -> CallState] BY DEF HooksInv, TypeOK
  <1>6. Witness(calls) BY <1>4, <1>5 DEF Won
  <1>7. calls[t] = Won(b, full) BY <1>5
  <1>8. /\ Won(b, full).pc = "done" /\ Won(b, full).cg = b.cg /\ Won(b, full).hook = b.hook
        /\ Won(b, full).gain = b.gain /\ Won(b, full).was = b.was
        /\ Won(b, full).verdict = 0 /\ Won(b, full).won
    BY <1>3, WonCall
  <1> HIDE DEF calls
  <1>9. thr'[t] = Won(b, full) BY <1>6, <1>7, <1>8 DEF Witness
  <1>10. b.hook = "ptrace" \/ b.gain BY <1>3 DEF Running, Grantable, GainHook
  <1> QED BY <1>1, <1>2, <1>3, <1>8, <1>9, <1>10

\* A grant leaves the map by a userspace write, or by a call of the cgroup and hook
\* it names that was about to be denied and is allowed (try_consume_grant).
THEOREM GrantsAvertDenies == Spec => SpentToAvertDeny
  <1> DEFINE Fair(k) ==
        \/ \E c \in Cgroup, h \in Grantable : k = <<c, h>> /\ UpdateGrant(c, h)
        \/ \E t \in Thread : LET c == thr'[t] IN
              /\ thr[t].pc = "grant" /\ c.pc = "done" /\ k = <<c.cg, c.hook>>
              /\ c.verdict = 0 /\ c.won /\ {"stranger", "armed", "granted"} \subseteq c.was
              /\ (c.hook = "ptrace" \/ c.gain)
  <1>1. HooksInv /\ [Next]_vars => [\A k \in grant_once \ grant_once' : Fair(k)]_vars
    <2> SUFFICES ASSUME HooksInv, [Next]_vars, NEW k \in grant_once, k \notin grant_once'
                 PROVE  Fair(k)
      OBVIOUS
    <2>1. CASE \E c \in Cgroup, h \in Grantable : UpdateGrant(c, h)
      <3>1. PICK c \in Cgroup, h \in Grantable : UpdateGrant(c, h) BY <2>1
      <3>2. k = <<c, h>> BY <3>1 DEF UpdateGrant
      <3> QED BY <3>1, <3>2, Zenon
    <2>2. CASE \E t \in Thread : try_consume_grant(t)
      <3>1. PICK t \in Thread : try_consume_grant(t) BY <2>2
      <3> QED BY <3>1, Spender
    <2>3. CASE grant_once' = grant_once BY <2>3
    <2>4. \/ \E c \in Cgroup, h \in Grantable : UpdateGrant(c, h)
          \/ \E t \in Thread : try_consume_grant(t)
          \/ grant_once' = grant_once
      <3>1. CASE UNCHANGED vars BY <3>1 DEF vars, maps
      <3>2. CASE Writes BY <3>2 DEF Writes, UpdateTcb, UpdatePolicy, ctlEnforceSet
      <3>3. ASSUME NEW t \in Thread, Call(t) PROVE grant_once' = grant_once
        <4>1. \A c : Enter(t, c) => grant_once' = grant_once BY DEF Enter, maps
        <4> QED BY <3>3, <4>1, Zenon DEF Call, enforce_bpf, enforce_ptrace, prov_socket_connect,
                                         enforce_setuid, enforce_capset
      <3>4. ASSUME NEW t \in Thread, Steps(t) PROVE grant_once' = grant_once \/ try_consume_grant(t)
        BY <3>4 DEF Steps, lookupTcb, lookupPolicy, lookupFlag, Return, maps
      <3> QED BY <3>1, <3>2, <3>3, <3>4 DEF Next
    <2> QED BY <2>1, <2>2, <2>3, <2>4
  <1> QED BY <1>1, HooksInvariant, PTL DEF Spec, SpentToAvertDeny

=============================================================================
