-------------------------------- MODULE Splice --------------------------------
(***************************************************************************)
(* The byte relays between an agent and the internet.  An agent in a       *)
(* microVM reaches the egress proxy through the vsock multiplexer          *)
(* (fc-vsockmux/main.go); both relay a flow with two copy loops, one per   *)
(* direction, that end alone and half-close what they were writing to.     *)
(*                                                                         *)
(*     agent  --am-->  mux  --mp-->  proxy  --pu-->  upstream              *)
(*            <--ma--       <--pm--         <--up--                        *)
(*                                                                         *)
(* An agent of the other tiers is at the mux's end of mp and pm itself.    *)
(* A stream holds at most SocketBuf chunks: its writer blocks then.        *)
(***************************************************************************)
EXTENDS Integers, Sequences

CONSTANTS Flow, SocketBuf

ASSUME BufAssumption == SocketBuf \in Nat \ {0}

VARIABLES stream,  \* stream[f][s]: what is in flight, the writer's and the reader's end
          pump,    \* pump[f][p]: a copy loop
          cut      \* cut[f]: a deadline, an error or a refusal ended part of f early

spliceVars == <<stream, pump, cut>>

Stream == {"am", "mp", "pu", "up", "pm", "ma"}
Pump   == {"mf", "mb", "pf", "pb"}  \* the mux's and the proxy's, forward and back
Src    == [mf |-> "am", mb |-> "pm", pf |-> "mp", pb |-> "up"]
Dst    == [mf |-> "mp", mb |-> "ma", pf |-> "pu", pb |-> "pm"]
Chunk  == {"req", "dat", "OK", "ERR"}

StreamState == [q : Seq(Chunk), fin : BOOLEAN, shut : BOOLEAN]
PumpState   == [pc : {"off", "read", "write", "done"}, x : Chunk]

SpliceInit ==
    /\ stream = [f \in Flow |-> [s \in Stream |-> [q |-> <<>>, fin |-> FALSE, shut |-> FALSE]]]
    /\ pump = [f \in Flow |-> [p \in Pump |-> [pc |-> "off", x |-> "dat"]]]
    /\ cut = [f \in Flow |-> FALSE]

-----------------------------------------------------------------------------
(* Socket calls, on the streams S of one flow (the kernel's part).         *)

Full(S, s)       == Len(S[s].q) >= SocketBuf
Put(S, s, x)     == [S EXCEPT ![s].q = Append(@, x)]
Take(S, s)       == [S EXCEPT ![s].q = Tail(@)]
CloseWrite(S, s) == [S EXCEPT ![s].fin = TRUE]

\* Close of a connection that reads r and writes w: what was sent still arrives,
\* what was not read is lost.
Close(S, r, w) == [S EXCEPT ![r].q = <<>>, ![r].shut = TRUE, ![w].fin = TRUE]

SetStreams(f, S) == stream' = [stream EXCEPT ![f] = S]

-----------------------------------------------------------------------------
(* One copy loop: copyIdle and cp of the mux, cp of the proxy.             *)

\* Both loops of a relay are started.
started(f, ps) == [pump EXCEPT ![f] = [p \in Pump |-> IF p \in ps THEN [pc |-> "read", x |-> "dat"]
                                                                ELSE pump[f][p]]]

\* Variant: the relay is over when either direction is.
EndedOne(f, ps) == \E p \in ps : pump[f][p].pc = "done"

\* wg.Wait() has returned.
Ended(f, ps) == \A p \in ps : pump[f][p].pc = "done"

\* The loop ends and half-closes the connection it wrote to.
leave(f, p, early) ==
    /\ pump' = [pump EXCEPT ![f][p].pc = "done"]
    /\ SetStreams(f, CloseWrite(stream[f], Dst[p]))
    /\ cut' = [cut EXCEPT ![f] = @ \/ early]

\* src.Read returns bytes, or the end of the stream.
read(f, p) ==
    LET s == stream[f][Src[p]] IN
    /\ pump[f][p].pc = "read"
    /\ \/ /\ s.q # <<>>
          /\ pump' = [pump EXCEPT ![f][p] = [pc |-> "write", x |-> Head(s.q)]]
          /\ SetStreams(f, Take(stream[f], Src[p]))
          /\ cut' = cut
       \/ /\ s.q = <<>> /\ s.fin
          /\ leave(f, p, FALSE)

\* The read deadline: idleTimeout without a byte, or tunnelMax at any time.
readDeadline(f, p) == pump[f][p].pc = "read" /\ leave(f, p, TRUE)

\* dst.Write: blocks while the buffer is full, fails once its reader has closed.
write(f, p) ==
    /\ pump[f][p].pc = "write"
    /\ \/ /\ stream[f][Dst[p]].shut
          /\ leave(f, p, TRUE)
       \/ /\ ~stream[f][Dst[p]].shut /\ ~Full(stream[f], Dst[p])
          /\ SetStreams(f, Put(stream[f], Dst[p], pump[f][p].x))
          /\ pump' = [pump EXCEPT ![f][p].pc = "read"]
          /\ cut' = cut

\* dst.Write with a write deadline that passes.
writeDeadline(f, p) == /\ pump[f][p].pc = "write" /\ Full(stream[f], Dst[p])
                       /\ leave(f, p, TRUE)

copyStep(f, p) == read(f, p) \/ readDeadline(f, p) \/ write(f, p)

=============================================================================
