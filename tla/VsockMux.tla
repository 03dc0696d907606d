------------------------------- MODULE VsockMux -------------------------------
(***************************************************************************)
(* One leg of the host side of fc-vsockmux (serveHost): a connection from  *)
(* the microVM takes one of maxConnsPerLeg slots or is dropped, the fixed  *)
(* target is dialled, and the two are spliced with idle, total and write   *)
(* deadlines until both directions have ended.                             *)
(***************************************************************************)
EXTENDS Splice

CONSTANT maxConnsPerLeg

ASSUME LegAssumption == maxConnsPerLeg \in Nat \ {0}

VARIABLES mux,  \* mux[f]: where f's connection is
          leg   \* slots taken (len(sem))

muxVars == <<mux, leg>>

MuxInit == mux = [f \in Flow |-> "none"] /\ leg = 0

MuxGoto(f, pc) == mux' = [mux EXCEPT ![f] = pc]

\* acceptNext, then the slot: at the cap the connection is closed.
muxAccept(f) ==
    /\ mux[f] = "none"
    /\ \/ /\ leg < maxConnsPerLeg
          /\ leg' = leg + 1 /\ MuxGoto(f, "dial")
          /\ UNCHANGED spliceVars
       \/ /\ leg >= maxConnsPerLeg
          /\ leg' = leg /\ MuxGoto(f, "closed")
          /\ SetStreams(f, Close(stream[f], "am", "ma"))
          /\ cut' = [cut EXCEPT ![f] = TRUE] /\ pump' = pump

\* Variant: the slot is not given back when the dial fails.
muxDialErrLeaks(f) ==
    /\ mux[f] = "dial"
    /\ SetStreams(f, Close(stream[f], "am", "ma"))
    /\ cut' = [cut EXCEPT ![f] = TRUE]
    /\ leg' = leg /\ MuxGoto(f, "closed")
    /\ pump' = pump

muxDialErr(f) ==
    /\ mux[f] = "dial"
    /\ SetStreams(f, Close(stream[f], "am", "ma"))
    /\ cut' = [cut EXCEPT ![f] = TRUE]
    /\ leg' = leg - 1 /\ MuxGoto(f, "closed")
    /\ pump' = pump

\* net.DialTimeout succeeds: both copy loops start.
muxDial(f) ==
    /\ mux[f] = "dial"
    /\ pump' = started(f, {"mf", "mb"})
    /\ MuxGoto(f, "splice")
    /\ UNCHANGED <<stream, cut, leg>>

\* Variant: copyIdle without SetWriteDeadline.
muxCopyUntimed(f) ==
    /\ \E p \in {"mf", "mb"} : copyStep(f, p)
    /\ UNCHANGED muxVars

\* A step of copyIdle.
muxCopy(f) ==
    /\ \E p \in {"mf", "mb"} : copyStep(f, p) \/ writeDeadline(f, p)
    /\ UNCHANGED muxVars

\* wg.Wait returns: both connections are closed and the slot is given back.
muxClose(f) ==
    /\ mux[f] = "splice" /\ Ended(f, {"mf", "mb"})
    /\ SetStreams(f, Close(Close(stream[f], "am", "ma"), "pm", "mp"))
    /\ leg' = leg - 1 /\ MuxGoto(f, "closed")
    /\ UNCHANGED <<pump, cut>>

InMux(f) == mux[f] \in {"dial", "splice"}

=============================================================================
