----------------------------- MODULE AuditChain -----------------------------
(***************************************************************************)
(* One signed audit chain (collector/main.go: auditLog; router/audit.go    *)
(* and proxy/audit.go are its twins): transactional append with rollback,  *)
(* rotation of the live file into numbered segments with pruning, crash at *)
(* any step, reopening, and what the boot gate (verify.go) makes of the    *)
(* files.                                                                  *)
(*                                                                         *)
(* A record is a number, which stands for its hash: two records never have *)
(* the same one.  File 0 is nowhere, 1..MaxSeg are the sealed segments and *)
(* Live is the live file, so files are ordered as the verifier reads them. *)
(* Renames, unlinks and truncates are taken to be atomic and durable.      *)
(***************************************************************************)
EXTENDS Naturals, FiniteSets, FiniteSetsExt

CONSTANTS MaxRec,     \* bound: records ever made
          MaxSeg,     \* bound: segment numbers
          RotateLen,  \* rotateBytes, in records
          SegKeep,    \* segKeep
          Faults      \* second faults that may happen: see AllFaults

\* Failures of the calls that are to repair or undo something.
AllFaults == {"repair", "truncate", "unrename", "unlink"}

ASSUME ChainAssumption == /\ MaxRec \in Nat /\ MaxSeg \in Nat /\ RotateLen \in Nat \ {0} /\ SegKeep \in Nat \ {0}
                          /\ Faults \subseteq AllFaults

Rec  == 1..MaxRec
Seg  == 1..MaxSeg
Live == MaxSeg + 1
File == 1..Live

VARIABLES file,      \* where each record is, 0 for nowhere
          prev, seq, \* its prev_hash (0: genesis) and seq fields
          bad,       \* records on a line that does not parse
          torn,      \* files that end in an unterminated fragment
          made,      \* records made so far
          acked,     \* records whose append returned nil
          pc,        \* the writer: down, idle, sealed, prune, write, written
          fd,        \* the file a.f writes
          tip,       \* a.prevHash
          aseq,      \* a.seq
          segNext,   \* a.segNext
          todo       \* segments pruneSegments has yet to unlink

disk == <<file, prev, seq, bad, torn>>
vars == <<disk, made, acked, pc, fd, tip, aseq, segNext, todo>>

Init ==
    /\ file = [x \in Rec |-> 0]
    /\ prev = [x \in Rec |-> 0]
    /\ seq = [x \in Rec |-> 0]
    /\ bad = {} /\ torn = {} /\ made = 0 /\ acked = {}
    /\ pc = "down" /\ fd = Live /\ tip = 0 /\ aseq = 0 /\ segNext = 1 /\ todo = {}

OnDisk  == {x \in Rec : file[x] # 0}
In(f)   == {x \in Rec : file[x] = f}
Size(f) == Cardinality(In(f)) + IF f \in torn THEN 1 ELSE 0

listSegments == {n \in Seg : In(n) # {} \/ n \in torn}

\* Variant: numbers are not carried over the segments already there.
segNumFromCount == Cardinality(listSegments) + 1
nextSegNum == IF listSegments = {} THEN 1 ELSE Max(listSegments) + 1

\* The hash of the last line of f, 0 when there is none or it does not parse.
lastChainHash(f, frag) ==
    IF In(f) = {} \/ f \in frag \/ Max(In(f)) \in bad THEN 0 ELSE Max(In(f))

\* Variant: the live file alone.
liveTip(frag) == lastChainHash(Live, frag)

\* The live file's tip, else the newest segment's that has one.
lastChainTip(frag) ==
    LET known == {f \in File : lastChainHash(f, frag) # 0}
    IN IF known = {} THEN 0 ELSE lastChainHash(Max(known), frag)

-----------------------------------------------------------------------------
(* The writer                                                              *)

\* repairTornTail, seed prevHash from the chain's tip, restart seq, reopen.
openAuditLog ==
    /\ pc = "down"
    /\ torn' \in {torn \ {Live}} \cup (IF "repair" \in Faults THEN {torn} ELSE {})
    /\ tip' = lastChainTip(torn')
    /\ aseq' = 0 /\ segNext' = nextSegNum /\ fd' = Live /\ pc' = "idle"
    /\ UNCHANGED <<file, prev, seq, bad, made, acked, todo>>

\* append without a rotation: below the threshold, or its Sync or Rename failed
\* (the Rename must, when there is no live file: R1 keeps writing where it was).
appendNoRotate ==
    /\ pc = "idle" /\ made < MaxRec
    /\ pc' = "write"
    /\ UNCHANGED <<disk, made, acked, fd, tip, aseq, segNext, todo>>

\* rotate: Sync and Rename; a file of that name would be replaced.
rotateRename ==
    /\ pc = "idle" /\ made < MaxRec
    /\ Size(fd) >= RotateLen /\ fd = Live /\ segNext \in Seg
    /\ file' = [x \in Rec |-> CASE file[x] = Live -> segNext
                                [] file[x] = segNext -> 0
                                [] OTHER -> file[x]]
    /\ torn' = IF Live \in torn THEN (torn \ {Live}) \cup {segNext} ELSE torn \ {segNext}
    /\ fd' = segNext
    /\ pc' = "sealed"
    /\ UNCHANGED <<prev, seq, bad, made, acked, tip, aseq, segNext, todo>>

\* The new live file cannot be created: un-rename, and write on.
rotateOpenErr ==
    /\ pc = "sealed"
    /\ file' = [x \in Rec |-> IF file[x] = segNext THEN Live ELSE file[x]]
    /\ torn' = IF segNext \in torn THEN (torn \ {segNext}) \cup {Live} ELSE torn
    /\ fd' = Live
    /\ pc' = "write"
    /\ UNCHANGED <<prev, seq, bad, made, acked, tip, aseq, segNext, todo>>

\* Nor can the rename be undone: a.f goes on writing the sealed file.
unrenameErr ==
    /\ pc = "sealed" /\ "unrename" \in Faults
    /\ pc' = "write"
    /\ UNCHANGED <<disk, made, acked, fd, tip, aseq, segNext, todo>>

\* Variant: the newest are unlinked.
newestSegments == {n \in listSegments : Cardinality({m \in listSegments : m < n}) >= SegKeep}

\* What pruneSegments is to unlink: all but the newest SegKeep.
segsToPrune == {n \in listSegments : Cardinality({m \in listSegments : m > n}) >= SegKeep}

rotateOpen ==
    /\ pc = "sealed"
    /\ fd' = Live
    /\ segNext' = segNext + 1
    /\ todo' = segsToPrune
    /\ pc' = "prune"
    /\ UNCHANGED <<disk, made, acked, tip, aseq>>

\* os.Remove, oldest first; a failure is logged and the next one tried.
pruneOne(failed) ==
    /\ pc = "prune" /\ todo # {}
    /\ failed => "unlink" \in Faults
    /\ todo' = todo \ {Min(todo)}
    /\ IF failed THEN UNCHANGED <<file, torn>>
       ELSE /\ file' = [x \in Rec |-> IF file[x] = Min(todo) THEN 0 ELSE file[x]]
            /\ torn' = torn \ {Min(todo)}
    /\ UNCHANGED <<prev, seq, bad, made, acked, pc, fd, tip, aseq, segNext>>

pruned ==
    /\ pc = "prune" /\ todo = {}
    /\ pc' = "write"
    /\ UNCHANGED <<disk, made, acked, fd, tip, aseq, segNext, todo>>

\* The line and its newline are written.  On a fragment they make one line that
\* does not parse.
write ==
    /\ pc = "write"
    /\ LET x == made + 1 IN
       /\ made' = x
       /\ file' = [file EXCEPT ![x] = fd]
       /\ prev' = [prev EXCEPT ![x] = tip]
       /\ seq' = [seq EXCEPT ![x] = aseq + 1]
       /\ bad' = IF fd \in torn THEN bad \cup {x} ELSE bad
    /\ torn' = torn \ {fd}
    /\ pc' = "written"
    /\ UNCHANGED <<acked, fd, tip, aseq, segNext, todo>>

\* Write (or a Stat) fails, part of the line may be there: rollback to the old EOF.
writeErr ==
    /\ pc = "write"
    /\ torn' \in {torn} \cup (IF "truncate" \in Faults THEN {torn \cup {fd}} ELSE {})
    /\ pc' = "idle"
    /\ UNCHANGED <<file, prev, seq, bad, made, acked, fd, tip, aseq, segNext, todo>>

\* The disk without the last line: what a truncate to the old EOF leaves.
WithoutLast ==
    /\ file' = [file EXCEPT ![made] = 0]
    /\ bad' = bad \ {made}
    /\ torn' = IF made \in bad THEN torn \cup {fd} ELSE torn
    /\ UNCHANGED <<prev, seq>>

\* Sync succeeds: commit the in-memory tip and return nil.
syncOK ==
    /\ pc = "written"
    /\ acked' = acked \cup {made}
    /\ tip' = made
    /\ aseq' = aseq + 1
    /\ pc' = "idle"
    /\ UNCHANGED <<disk, made, fd, segNext, todo>>

\* Sync fails: rollback, or the truncate fails too and the line stays.
syncErr ==
    /\ pc = "written"
    /\ WithoutLast \/ ("truncate" \in Faults /\ UNCHANGED disk)
    /\ pc' = "idle"
    /\ UNCHANGED <<made, acked, fd, tip, aseq, segNext, todo>>

\* The process is killed or the power fails.  A line not yet synced is there, is
\* not, or is there in part.
Crash ==
    /\ pc # "down"
    /\ \/ UNCHANGED disk
       \/ pc = "written" /\ WithoutLast
       \/ /\ pc = "written"
          /\ file' = [file EXCEPT ![made] = 0] /\ bad' = bad \ {made}
          /\ torn' = torn \cup {fd}
          /\ UNCHANGED <<prev, seq>>
       \/ /\ pc = "write"
          /\ torn' = torn \cup {fd}
          /\ UNCHANGED <<file, prev, seq, bad>>
    /\ pc' = "down" /\ fd' = Live /\ tip' = 0 /\ aseq' = 0 /\ segNext' = 1 /\ todo' = {}
    /\ UNCHANGED <<made, acked>>

Next == \/ openAuditLog \/ appendNoRotate \/ rotateRename \/ rotateOpenErr \/ unrenameErr
        \/ rotateOpen \/ (\E failed \in BOOLEAN : pruneOne(failed)) \/ pruned
        \/ write \/ writeErr \/ syncOK \/ syncErr \/ Crash

Spec == Init /\ [][Next]_vars

-----------------------------------------------------------------------------
(* The verifier                                                            *)

\* verifySegmentedChain: the files of recs, segments in order and then the live
\* file, verified as one chain.  frag are the files that end in a fragment, junk
\* the lines that do not parse: only the last line of the live file may.  The
\* oldest segment is the anchor if older ones were pruned.
verifyFiles(recs, frag, junk) ==
    LET segs   == {n \in Seg : recs[n] # {} \/ n \in frag}
        Lines  == UNION {recs[f] : f \in File}
        Parsed == Lines \ junk
        Before(x) == {y \in Parsed : y < x}
        Linked(x, p) ==
            IF p # 0 THEN prev[x] = p /\ seq[x] \in {1, seq[p] + 1}
            ELSE \/ prev[x] = 0 /\ seq[x] = 1
                 \/ segs # {} /\ Min(segs) # 1 /\ x \in recs[Min(segs)] IN
    /\ \A f, g \in File : f < g => \A x \in recs[f], y \in recs[g] : x < y
    /\ frag \subseteq {Live}
    /\ \A x \in junk \cap Lines : x \in recs[Live] /\ x = Max(Lines) /\ Live \notin frag
    /\ \A x \in Parsed : Linked(x, IF Before(x) = {} THEN 0 ELSE Max(Before(x)))

verifySegmentedChain == verifyFiles([f \in File |-> In(f)], torn, bad)

-----------------------------------------------------------------------------
(* Properties                                                              *)

\* Type invariant.
TypeOK ==
    /\ file \in [Rec -> 0..Live]
    /\ prev \in [Rec -> 0..MaxRec]
    /\ seq \in [Rec -> 0..MaxRec]
    /\ bad \subseteq Rec /\ torn \subseteq File
    /\ made \in 0..MaxRec /\ acked \subseteq 1..made
    /\ pc \in {"down", "idle", "sealed", "prune", "write", "written"}
    /\ fd \in File /\ tip \in 0..made /\ aseq \in 0..made
    /\ segNext \in 1..Live /\ todo \subseteq Seg

\* The boot gate never refuses a chain this code wrote: whatever write, sync,
\* rename or create fails, and wherever a crash strikes, what is on disk verifies
\* (append's rollback, torn-tail repair, the link-continuous rotation seam).
BootGatePasses == verifySegmentedChain

\* What an acknowledged append wrote leaves the disk only by pruning, behind at
\* least SegKeep newer segments; no reopening, rollback or rename overwrites it.
AckedOnlyPruned ==
    [][\A x \in acked : file[x] # 0 /\ file'[x] = 0 =>
         Cardinality({n \in listSegments : n > file[x]}) >= SegKeep]_vars

\* The chain on disk is append-only up to pruning: it implements AppendOnlyLog.
Log == INSTANCE AppendOnlyLog WITH
         Record <- Rec,
         log <- {x \in OnDisk : pc = "written" => x # made}
ImplementsLog == Log!Spec

-----------------------------------------------------------------------------
(* What a comment in the source says and the code does not do              *)

\* main.go:1143-1144, of a failed unlink in pruneSegments: "at worst the footprint
\* cap is exceeded transiently and re-attempted on the next rotation".
UnlinkFailureCostsSpace == verifySegmentedChain

=============================================================================
