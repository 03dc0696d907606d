------------------------------ MODULE DestClass ------------------------------
(***************************************************************************)
(* The two classifiers of a connect destination: the BPF hook's            *)
(* (provenance.bpf.c: classify_dest, from the bytes of a sockaddr) and the *)
(* egress proxy's (proxy.go: isInternalIP, from the address it dials).     *)
(*                                                                         *)
(* A 32-bit number is the tuple of its bytes, most significant first; an   *)
(* address in memory is the sequence of its bytes in the order they lie    *)
(* there, which is network order.                                          *)
(***************************************************************************)
EXTENDS Integers, Sequences

CONSTANT LittleEndian  \* the byte order of the CPU the program is built for

ASSUME EndianAssumption == LittleEndian \in BOOLEAN

Byte == 0..255
U32  == Byte \X Byte \X Byte \X Byte

AF_INET  == 2
AF_INET6 == 10

\* The DST_* flags; a manifest's mask is a set of them.
DST_LOOPBACK  == "loopback"
DST_LINKLOCAL == "linklocal"
DST_PRIVATE   == "private"
DST_PUBLIC    == "public"
DST_OTHER     == "other"
DST           == {DST_LOOPBACK, DST_LINKLOCAL, DST_PRIVATE, DST_PUBLIC, DST_OTHER}

\* What a connect hook is given: a pointer that may be null, addrlen, and the
\* family and address at their offsets.  Bytes past len are whatever was there.
Sockaddr == [null : BOOLEAN, len : Int, fam : Nat, addr : [1..16 -> Byte]]

-----------------------------------------------------------------------------
(* provenance.bpf.c                                                        *)

swab32(x) == <<x[4], x[3], x[2], x[1]>>

bpf_ntohl(x) == IF LittleEndian THEN swab32(x) ELSE x
bpf_htonl(x) == IF LittleEndian THEN swab32(x) ELSE x

\* The number read from the four bytes at i.
load32(m, i) == IF LittleEndian THEN <<m[i + 3], m[i + 2], m[i + 1], m[i]>>
                                ELSE <<m[i], m[i + 1], m[i + 2], m[i + 3]>>

\* b & ~(k - 1), for k a power of two.
HighBits(b, k) == k * (b \div k)

Zero == <<0, 0, 0, 0>>

\* Variant: 172.16.0.0/12 is taken for a /16.
classifySlash16(a) ==
    IF a = Zero \/ a[1] = 127 THEN DST_LOOPBACK
    ELSE IF a[1] = 169 /\ a[2] = 254 THEN DST_LINKLOCAL
    ELSE IF \/ a[1] = 10
            \/ a[1] = 172 /\ a[2] = 16
            \/ a[1] = 192 /\ a[2] = 168
            \/ a[1] = 100 /\ HighBits(a[2], 64) = 64 THEN DST_PRIVATE
    ELSE DST_PUBLIC

classify_v4(a) ==
    IF a = Zero \/ a[1] = 127 THEN DST_LOOPBACK
    ELSE IF a[1] = 169 /\ a[2] = 254 THEN DST_LINKLOCAL
    ELSE IF \/ a[1] = 10
            \/ a[1] = 172 /\ HighBits(a[2], 16) = 16
            \/ a[1] = 192 /\ a[2] = 168
            \/ a[1] = 100 /\ HighBits(a[2], 64) = 64 THEN DST_PRIVATE
    ELSE DST_PUBLIC

classify_v6(m) ==
    LET w0 == load32(m, 1)
        w1 == load32(m, 5)
        w2 == load32(m, 9)
        w3 == load32(m, 13)
        b0 == bpf_ntohl(w0)[1]
        b1 == bpf_ntohl(w0)[2] IN
    IF w0 = Zero /\ w1 = Zero /\ w2 = Zero /\ (w3 = Zero \/ w3 = bpf_htonl(<<0, 0, 0, 1>>))
    THEN DST_LOOPBACK
    ELSE IF w0 = Zero /\ w1 = Zero /\ w2 = bpf_htonl(<<0, 0, 255, 255>>)
         THEN classify_v4(bpf_ntohl(w3))
    ELSE IF b0 = 254 /\ HighBits(b1, 64) = 128 THEN DST_LINKLOCAL
    ELSE IF HighBits(b0, 2) = 252 THEN DST_PRIVATE
    ELSE DST_PUBLIC

classify_dest(s) ==
    IF s.null \/ s.len < 2 THEN DST_OTHER
    ELSE IF s.fam = AF_INET
         THEN IF s.len < 16 THEN DST_OTHER ELSE classify_v4(bpf_ntohl(load32(s.addr, 1)))
    ELSE IF s.fam = AF_INET6
         THEN IF s.len < 24 THEN DST_OTHER ELSE classify_v6(s.addr)
    ELSE DST_OTHER

-----------------------------------------------------------------------------
(* proxy.go.  An IP is 16 bytes; an IPv4 address is its mapped form.       *)

IsMapped(ip) == (\A i \in 1..10 : ip[i] = 0) /\ ip[11] = 255 /\ ip[12] = 255

To4(ip)  == <<ip[13], ip[14], ip[15], ip[16]>>
IPv4(a)  == [i \in 1..16 |-> IF i <= 10 THEN 0 ELSE IF i <= 12 THEN 255 ELSE a[i - 12]]

\* net.IP's IsLoopback, IsPrivate, IsLinkLocalUnicast, IsMulticast (the link-local
\* multicast addresses are among those) and IsUnspecified, of an IPv4 address ...
stdInternal4(a) ==
    \/ a[1] = 127 \/ a = Zero
    \/ a[1] = 10
    \/ a[1] = 172 /\ HighBits(a[2], 16) = 16
    \/ a[1] = 192 /\ a[2] = 168
    \/ a[1] = 169 /\ a[2] = 254
    \/ HighBits(a[1], 16) = 224

\* ... and of any other.
stdInternal6(ip) ==
    \/ (\A i \in 1..15 : ip[i] = 0) /\ ip[16] \in {0, 1}
    \/ HighBits(ip[1], 2) = 252
    \/ ip[1] = 254 /\ HighBits(ip[2], 64) = 128
    \/ ip[1] = 255

\* Variant: the ranges the standard library does not know are left out.
stdOnly4(a) == stdInternal4(a)

\* isInternalIP of an IPv4 address.
internal4(a) ==
    \/ stdInternal4(a)
    \/ a[1] = 100 /\ HighBits(a[2], 64) = 64
    \/ HighBits(a[1], 16) = 240
    \/ a[1] = 198 /\ HighBits(a[2], 2) = 18
    \/ a[1] = 192 /\ a[2] = 0 /\ a[3] = 0

isNAT64(ip) == /\ ip[1] = 0 /\ ip[2] = 100 /\ ip[3] = 255 /\ ip[4] = 155
               /\ \A i \in 5..12 : ip[i] = 0
is6to4(ip)  == ip[1] = 32 /\ ip[2] = 2

isInternalIP(ip) ==
    IF IsMapped(ip) THEN internal4(To4(ip))
    ELSE \/ stdInternal6(ip)
         \/ ip[1] = 254 /\ HighBits(ip[2], 64) = 192
         \/ isNAT64(ip) /\ internal4(To4(ip))
         \/ is6to4(ip) /\ internal4(<<ip[3], ip[4], ip[5], ip[6]>>)

\* dialer.Control, on the address that is about to be connected to.
checkDialAddr(ip, allow) == ip \in allow \/ ~isInternalIP(ip)

-----------------------------------------------------------------------------
(* Reference: the address blocks the comments name, by the values of the   *)
(* leading bytes.                                                          *)

InBlock(a, blk) == \A i \in DOMAIN blk : a[i] \in blk[i]

Loopback4 == <<127..127>>
Private4  == {<<10..10>>, <<172..172, 16..31>>, <<192..192, 168..168>>, <<100..100, 64..127>>}
Link4     == <<169..169, 254..254>>
Link6     == <<254..254, 128..191>>
Unique6   == <<252..253>>

V4Class(a) ==
    CASE a = Zero \/ InBlock(a, Loopback4) -> DST_LOOPBACK
      [] InBlock(a, Link4) -> DST_LINKLOCAL
      [] \E blk \in Private4 : InBlock(a, blk) -> DST_PRIVATE
      [] OTHER -> DST_PUBLIC

V6Class(a) ==
    CASE (\A i \in 1..15 : a[i] = 0) /\ a[16] <= 1 -> DST_LOOPBACK
      [] IsMapped(a) -> V4Class(To4(a))
      [] InBlock(a, Link6) -> DST_LINKLOCAL
      [] InBlock(a, Unique6) -> DST_PRIVATE
      [] OTHER -> DST_PUBLIC

\* The class of a sockaddr, by the bytes that addrlen covers.
RefClass(s) ==
    CASE ~s.null /\ s.fam = AF_INET  /\ s.len >= 16 -> V4Class(<<s.addr[1], s.addr[2], s.addr[3], s.addr[4]>>)
      [] ~s.null /\ s.fam = AF_INET6 /\ s.len >= 24 -> V6Class(s.addr)
      [] OTHER -> DST_OTHER

\* The 16-byte form of the address a sockaddr holds.
IPOf(s) == IF s.fam = AF_INET THEN IPv4(<<s.addr[1], s.addr[2], s.addr[3], s.addr[4]>>) ELSE s.addr

=============================================================================
