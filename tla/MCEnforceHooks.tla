--------------------------- MODULE MCEnforceHooks ---------------------------
(***************************************************************************)
(* Small instances of EnforceHooks for TLC.  The destinations are the      *)
(* first and last addresses of every block the classifiers tell apart, and *)
(* their neighbours.                                                       *)
(***************************************************************************)
EXTENDS EnforceHooks, TLC

Pad(b, n) == [i \in 1..16 |-> IF i <= n THEN b[i] ELSE 0]

V4 == {<<0, 0, 0, 0>>, <<0, 0, 0, 1>>, <<10, 0, 0, 0>>, <<11, 0, 0, 0>>, <<9, 255, 255, 255>>,
       <<100, 63, 0, 0>>, <<100, 64, 0, 0>>, <<100, 127, 0, 9>>, <<100, 128, 0, 0>>,
       <<126, 9, 9, 9>>, <<127, 0, 0, 1>>, <<128, 0, 0, 0>>, <<169, 254, 169, 254>>,
       <<169, 253, 0, 0>>, <<172, 15, 0, 0>>, <<172, 16, 0, 0>>, <<172, 31, 255, 255>>,
       <<172, 32, 0, 0>>, <<192, 168, 1, 1>>, <<192, 167, 0, 0>>, <<192, 0, 0, 9>>,
       <<198, 18, 0, 0>>, <<198, 20, 0, 0>>, <<224, 0, 0, 1>>, <<240, 0, 0, 0>>,
       <<255, 255, 255, 255>>, <<1, 0, 0, 127>>, <<254, 169, 254, 169>>, <<8, 8, 8, 8>>}

Mapped(a)  == <<0, 0, 0, 0, 0, 0, 0, 0, 0, 0, 255, 255>> \o a
NAT64(a)   == <<0, 100, 255, 155, 0, 0, 0, 0, 0, 0, 0, 0>> \o a
SixToFour(a) == <<32, 2>> \o a \o <<0, 0, 0, 0, 0, 0, 0, 0, 0, 1>>

V6 == {Mapped(a) : a \in V4} \cup {NAT64(a) : a \in V4} \cup {SixToFour(a) : a \in V4}
      \cup {Pad(b, 2) : b \in {<<0, 0>>, <<252, 0>>, <<251, 255>>, <<253, 255>>, <<254, 0>>,
                               <<254, 127>>, <<254, 128>>, <<254, 191>>, <<254, 192>>,
                               <<255, 2>>, <<32, 1>>}}
      \cup {[Pad(<<>>, 0) EXCEPT ![16] = x] : x \in {1, 2}}
      \cup {[Pad(<<>>, 0) EXCEPT ![1] = 1, ![16] = 1]}

Sa(f, n, a) == [null |-> FALSE, fam |-> f, len |-> n, addr |-> a]

MCAddrs ==
    {Sa(AF_INET, n, Pad(a, 4)) : a \in V4, n \in {15, 16}}
    \cup {Sa(AF_INET6, n, a) : a \in V6, n \in {23, 24, 28}}
    \cup {[Sa(f, n, Pad(<<127, 0, 0, 1>>, 4)) EXCEPT !.null = b] :
            f \in {1, AF_INET, AF_INET6}, n \in {0, 1, 2, 16}, b \in BOOLEAN}

MCManifest == {{}, {DST_LOOPBACK}, {DST_LOOPBACK, DST_PUBLIC}}

=============================================================================
