------------------------ MODULE ChainMonitorProofs -------------------------
(***************************************************************************)
(* Proofs about AuditChain and about the monitor that polls it, for any    *)
(* number of records and segments, any rotation length, retention and      *)
(* thresholds.                                                             *)
(*                                                                         *)
(* The chain: whatever second faults happen, acknowledged records are lost *)
(* by pruning only (AInv).  With none, what is on disk implements the      *)
(* append-only log and passes the boot gate (CInv: the records on disk are *)
(* linked, and the writer's tip is the last).                              *)
(*                                                                         *)
(* The monitor: it cannot be kept in the dark (GoodState: what the state   *)
(* file's two counters say of the polls without a verdict), and its pin    *)
(* only moves to a record that descends from it (PinInv: what was fetched  *)
(* had been written, and a record's link never changes again).  With no    *)
(* second fault, a snapshot whose two listings agree verifies (SnapInv)    *)
(* and a poll of a device at rest passes (QuietInv).                       *)
(***************************************************************************)
EXTENDS ChainMonitor, WellFoundedInduction, FiniteSetTheorems, TLAPS

-----------------------------------------------------------------------------
(* Least and greatest elements                                             *)

LEMMA LeastNat ==
    ASSUME NEW S \in SUBSET Nat, S # {}
    PROVE  \E x \in S : \A y \in S : x <= y
  <1> DEFINE R == OpToRel(<, Nat)
  <1>1. IsWellFoundedOn(R, Nat) BY NatLessThanWellFounded, Zenon
  <1>2. \A x, y \in Nat : <<y, x>> \in R <=> y < x BY Zenon DEF OpToRel
  <1> HIDE DEF R
  <1>3. PICK x \in S : \A y \in S : ~(<<y, x>> \in R) BY <1>1, WFMin, Zenon
  <1>4. x \in Nat /\ \A y \in S : y \in Nat /\ ~(y < x) BY <1>2, <1>3, Zenon
  <1> QED BY <1>3, <1>4

LEMMA MinOf ==
    ASSUME NEW S \in SUBSET Nat, S # {}
    PROVE  Min(S) \in S /\ \A y \in S : Min(S) <= y
  BY LeastNat, Zenon DEF Min

LEMMA MaxOf ==
    ASSUME NEW n \in Nat, NEW S \in SUBSET (0..n), S # {}
    PROVE  Max(S) \in S /\ \A y \in S : y <= Max(S)
  <1> DEFINE D == {n - x : x \in S}
  <1>1. D \in SUBSET Nat /\ D # {}
    <2>1. \A x \in S : n - x \in Nat OBVIOUS
    <2>2. PICK x : x \in S BY Zenon
    <2>3. n - x \in D BY <2>2, Zenon
    <2> QED BY <2>1, <2>3, Zenon
  <1>2. PICK d \in D : \A y \in D : d <= y BY <1>1, LeastNat, Zenon
  <1>3. PICK x \in S : d = n - x BY <1>2, Zenon
  <1>4. \A y \in S : n - y \in D BY Zenon
  <1>5. \A y \in S : x >= y
    <2> SUFFICES ASSUME NEW y \in S PROVE x >= y BY Zenon
    <2>1. n - x <= n - y BY <1>2, <1>3, <1>4, Zenon
    <2> QED BY <2>1
  <1>6. Max(S) \in S /\ \A y \in S : Max(S) >= y BY <1>3, <1>5, Zenon DEF Max
  <1> QED BY <1>6, Zenon

-----------------------------------------------------------------------------
(* Under any faults                                                        *)

LEMMA Sizes == /\ MaxRec \in Nat /\ MaxSeg \in Nat /\ SegKeep \in Nat /\ SegKeep # 0
               /\ Live \in Nat /\ Live # 0 /\ Live \notin Seg
               /\ \A f \in File : f \in Nat /\ f # 0 /\ (f # Live => f \in Seg)
               /\ \A n \in Seg : n \in File /\ n < Live
  BY ChainAssumption DEF Live, Seg, File

\* The numbers of the segments there are.
LEMMA Listed ==
    /\ listSegments \subseteq Seg
    /\ \A n \in Seg : n \in listSegments <=> n \in torn \/ \E x \in Rec : file[x] = n
  BY Zenon DEF listSegments, In

Below(n) == \A m \in listSegments : m < n

\* The segment number that comes next is free, or is that of the file a.f goes on
\* writing; what is to be unlinked has SegKeep newer segments.
NumberInv ==
    /\ pc \in {"idle", "write", "written", "prune"} =>
         \/ fd = Live /\ Below(segNext)
         \/ pc # "prune" /\ fd = segNext /\ segNext \in Seg /\ Below(segNext + 1)
    /\ pc = "sealed" => fd = segNext /\ segNext \in Seg /\ Below(segNext + 1)
    /\ pc = "prune" => \A n \in todo : Cardinality({m \in listSegments : m > n}) >= SegKeep

RecordInv ==
    /\ \A x \in Rec : file[x] # 0 => x <= made
    /\ pc \in {"sealed", "prune", "write"} => made < MaxRec
    /\ pc = "written" => made # 0 /\ made \notin acked /\ aseq < made /\ file[made] = fd

AInv == TypeOK /\ NumberInv /\ RecordInv

LEMMA AInit == Init => AInv
  <1> SUFFICES ASSUME Init PROVE AInv BY Zenon
  <1>1. TypeOK BY Sizes DEF Init, TypeOK, Rec, File, Seg, Live
  <1>2. NumberInv /\ RecordInv BY Zenon DEF Init, NumberInv, RecordInv
  <1> QED BY <1>1, <1>2, Zenon DEF AInv

\* A step that moves records to a.f, to the live file or off the disk.
LEMMA SegsGrow ==
    ASSUME TypeOK, TypeOK', \A x \in Rec : file'[x] \in {file[x], 0, fd, Live},
           torn' \subseteq torn \cup {fd, Live}
    PROVE  \A m \in listSegments' : m \in listSegments \/ m = fd
  <1> SUFFICES ASSUME NEW m \in listSegments', m # fd PROVE m \in listSegments BY Zenon
  <1>1. m \in Seg /\ (m \in torn' \/ \E x \in Rec : file'[x] = m) BY Zenon DEF listSegments, In
  <1>2. m # Live /\ m # 0 BY <1>1, Sizes, Zenon
  <1> QED BY <1>1, <1>2, Listed, Zenon

LEMMA LastHash ==
    ASSUME TypeOK, NEW f, NEW frag
    PROVE  /\ lastChainHash(f, frag) \in 0..MaxRec
           /\ lastChainHash(f, frag) # 0 => file[lastChainHash(f, frag)] = f /\ lastChainHash(f, frag) \in Rec
  <1>1. In(f) \subseteq Rec /\ In(f) \in SUBSET (0..MaxRec) /\ MaxRec \in Nat BY Sizes DEF In, Rec
  <1>2. CASE In(f) = {} BY <1>2, Sizes DEF lastChainHash
  <1>3. CASE In(f) # {}
    <2>1. Max(In(f)) \in In(f) BY <1>1, <1>3, MaxOf, Zenon
    <2> QED BY <1>1, <2>1, Sizes DEF lastChainHash, In
  <1> QED BY <1>2, <1>3, Zenon

LEMMA LastTip ==
    ASSUME TypeOK, NEW frag
    PROVE  /\ lastChainTip(frag) \in 0..MaxRec
           /\ lastChainTip(frag) # 0 => file[lastChainTip(frag)] # 0 /\ lastChainTip(frag) \in Rec
  <1> DEFINE known == {f \in File : lastChainHash(f, frag) # 0}
  <1>1. CASE known = {} BY <1>1, Sizes DEF lastChainTip
  <1>2. CASE known # {}
    <2>1. known \in SUBSET (0..Live) /\ Live \in Nat BY Sizes DEF File
    <2>2. Max(known) \in known BY <1>2, <2>1, MaxOf, Zenon
    <2>3. lastChainTip(frag) = lastChainHash(Max(known), frag) BY <1>2, Zenon DEF lastChainTip
    <2>4. Max(known) \in File /\ Max(known) # 0 BY <2>2, Sizes, Zenon
    <2> HIDE DEF known
    <2> QED BY <2>3, <2>4, LastHash, Zenon
  <1> QED BY <1>1, <1>2, Zenon

LEMMA NextNumber ==
    ASSUME TypeOK
    PROVE  nextSegNum \in 1..Live /\ Below(nextSegNum)
  <1>1. listSegments \in SUBSET (0..MaxSeg) /\ listSegments \subseteq Seg /\ MaxSeg \in Nat
    BY Sizes, Listed DEF Seg
  <1>2. CASE listSegments = {} BY <1>2, Sizes DEF nextSegNum, Below, Live
  <1>3. CASE listSegments # {}
    <2> DEFINE q == Max(listSegments)
    <2>1. q \in listSegments /\ \A y \in listSegments : y <= q BY <1>1, <1>3, MaxOf, Zenon
    <2>2. nextSegNum = q + 1 BY <1>3, Zenon DEF nextSegNum
    <2> HIDE DEF q
    <2>3. \A y \in listSegments : y \in Nat BY <1>1 DEF Seg
    <2>4. q \in 1..MaxSeg BY <1>1, <2>1, Zenon DEF Seg
    <2> QED BY <1>1, <2>1, <2>2, <2>3, <2>4 DEF Below, Live
  <1> QED BY <1>2, <1>3, Zenon

\* Each conjunct of the type invariant by its action.
LEMMA Typed ==
    ASSUME AInv, Next
    PROVE  TypeOK'
  <1>0. /\ file \in [Rec -> 0..Live] /\ prev \in [Rec -> 0..MaxRec] /\ seq \in [Rec -> 0..MaxRec]
        /\ bad \subseteq Rec /\ torn \subseteq File /\ made \in 0..MaxRec /\ acked \subseteq 1..made
        /\ fd \in File /\ tip \in 0..made /\ aseq \in 0..made /\ segNext \in 1..Live /\ todo \subseteq Seg
    BY Zenon DEF AInv, TypeOK
  <1>a. /\ Live \in File /\ Live \in 0..Live /\ 0 \in 0..Live /\ fd \in 0..Live /\ fd # 0
        /\ Live \in Nat /\ MaxRec \in Nat /\ MaxSeg \in Nat /\ Live = MaxSeg + 1 /\ Live \in 1..Live
    BY <1>0, Sizes DEF File, Live
  <1>1. CASE openAuditLog
    <2>1. /\ torn' \subseteq torn /\ tip' = lastChainTip(torn') /\ aseq' = 0 /\ segNext' = nextSegNum
          /\ fd' = Live /\ pc' = "idle" /\ UNCHANGED <<file, prev, seq, bad, made, acked, todo>>
      BY <1>1, Zenon DEF openAuditLog
    <2>2. lastChainTip(torn') \in 0..made
      <3> DEFINE t == lastChainTip(torn')
      <3>1. t \in 0..MaxRec /\ (t # 0 => file[t] # 0 /\ t \in Rec) BY LastTip, Zenon DEF AInv
      <3> HIDE DEF t
      <3>2. t <= made BY <1>0, <3>1 DEF AInv, RecordInv
      <3>3. t \in 0..made BY <1>0, <3>1, <3>2
      <3> QED BY <3>3, Zenon DEF t
    <2>3. nextSegNum \in 1..Live BY NextNumber, Zenon DEF AInv
    <2> QED BY <1>0, <1>a, <2>1, <2>2, <2>3 DEF TypeOK
  <1>2. CASE appendNoRotate \/ unrenameErr \/ pruned
    BY <1>0, <1>2, Zenon DEF appendNoRotate, unrenameErr, pruned, disk, TypeOK
  <1>3. CASE rotateRename
    <2>1. /\ segNext \in Seg /\ UNCHANGED <<prev, seq, bad, made, acked, tip, aseq, segNext, todo>>
          /\ fd' = segNext /\ pc' = "sealed" /\ torn' \subseteq torn \cup {segNext}
      BY <1>3, Zenon DEF rotateRename
    <2>2. segNext \in File /\ segNext \in 0..Live BY <2>1, <1>0, Sizes
    <2>3. file' \in [Rec -> 0..Live] BY <1>0, <1>3, <1>a, <2>2, Zenon DEF rotateRename
    <2> QED BY <1>0, <2>1, <2>2, <2>3, Zenon DEF TypeOK
  <1>4. CASE rotateOpenErr
    <2>1. file' \in [Rec -> 0..Live] BY <1>0, <1>4, <1>a, Zenon DEF rotateOpenErr
    <2>2. torn' \subseteq File BY <1>0, <1>4, <1>a, Zenon DEF rotateOpenErr
    <2> QED BY <1>0, <1>4, <1>a, <2>1, <2>2, Zenon DEF rotateOpenErr, TypeOK
  <1>5. CASE rotateOpen
    <2>1. segNext + 1 \in 1..Live BY <1>0, <1>5, <1>a DEF rotateOpen, AInv, NumberInv, Seg
    <2>2. segsToPrune \subseteq Seg BY Zenon DEF segsToPrune, listSegments
    <2> QED BY <1>0, <1>5, <1>a, <2>1, <2>2, Zenon DEF rotateOpen, TypeOK, disk
  <1>6. ASSUME NEW failed \in BOOLEAN, pruneOne(failed) PROVE TypeOK'
    <2>1. file' \in [Rec -> 0..Live] /\ torn' \subseteq File /\ todo' \subseteq Seg
      BY <1>0, <1>6, <1>a, Zenon DEF pruneOne
    <2> QED BY <1>0, <1>6, <2>1, Zenon DEF pruneOne, TypeOK
  <1>7. CASE write
    <2>1. made < MaxRec BY <1>7, Zenon DEF write, AInv, RecordInv
    <2>2. made + 1 \in Rec /\ made + 1 \in 0..MaxRec /\ aseq + 1 \in 0..MaxRec /\ tip \in 0..MaxRec
      BY <1>0, <1>a, <2>1 DEF Rec
    <2>3. /\ file' \in [Rec -> 0..Live] /\ prev' \in [Rec -> 0..MaxRec] /\ seq' \in [Rec -> 0..MaxRec]
          /\ bad' \subseteq Rec /\ torn' \subseteq File
      BY <1>0, <1>7, <1>a, <2>2, Zenon DEF write
    <2>4. acked \subseteq 1..(made + 1) /\ tip \in 0..(made + 1) /\ aseq \in 0..(made + 1)
      BY <1>0
    <2> QED BY <1>0, <1>7, <2>2, <2>3, <2>4, Zenon DEF write, TypeOK
  <1>8. CASE writeErr
    <2>1. torn' \subseteq File BY <1>0, <1>8, Zenon DEF writeErr
    <2> QED BY <1>0, <1>8, <2>1, Zenon DEF writeErr, TypeOK
  <1>b. ASSUME WithoutLast \/ UNCHANGED disk
        PROVE  /\ file' \in [Rec -> 0..Live] /\ prev' \in [Rec -> 0..MaxRec] /\ seq' \in [Rec -> 0..MaxRec]
               /\ bad' \subseteq Rec /\ torn' \subseteq File
    BY <1>0, <1>a, <1>b, Zenon DEF WithoutLast, disk
  <1>9. CASE syncOK
    <2>1. made # 0 /\ aseq < made BY <1>9, Zenon DEF syncOK, AInv, RecordInv
    <2>2. made \in 1..made /\ made \in 0..made /\ aseq + 1 \in 0..made BY <1>0, <2>1
    <2> QED BY <1>0, <1>9, <2>2, Zenon DEF syncOK, TypeOK, disk
  <1>10. CASE syncErr BY <1>0, <1>10, <1>b, Zenon DEF syncErr, TypeOK
  <1>11. CASE Crash
    <2>1. /\ file' \in [Rec -> 0..Live] /\ prev' \in [Rec -> 0..MaxRec] /\ seq' \in [Rec -> 0..MaxRec]
          /\ bad' \subseteq Rec /\ torn' \subseteq File
      <3>1. CASE UNCHANGED disk \/ WithoutLast BY <1>b, <3>1, Zenon
      <3>2. CASE /\ file' = [file EXCEPT ![made] = 0] /\ bad' = bad \ {made}
                 /\ torn' = torn \cup {fd} /\ UNCHANGED <<prev, seq>>
        BY <1>0, <1>a, <3>2, Zenon
      <3>3. CASE torn' = torn \cup {fd} /\ UNCHANGED <<file, prev, seq, bad>>
        BY <1>0, <3>3, Zenon
      <3> QED BY <1>11, <3>1, <3>2, <3>3, Zenon DEF Crash
    <2>2. 0 \in 0..made /\ 1 \in 1..Live BY <1>0, <1>a
    <2> QED BY <1>0, <1>11, <1>a, <2>1, <2>2, Zenon DEF Crash, TypeOK
  <1> QED BY <1>1, <1>2, <1>3, <1>4, <1>5, <1>6, <1>7, <1>8, <1>9, <1>10, <1>11, Zenon DEF Next

LEMMA Recorded ==
    ASSUME AInv, Next
    PROVE  RecordInv'
  <1>0. /\ file \in [Rec -> 0..Live] /\ made \in 0..MaxRec /\ acked \subseteq 1..made /\ aseq \in 0..made
        /\ MaxRec \in Nat
        /\ \A x \in Rec : file[x] # 0 => x <= made
        /\ pc \in {"sealed", "prune", "write"} => made < MaxRec
        /\ pc = "written" => made # 0 /\ made \notin acked /\ aseq < made /\ file[made] = fd
    BY Sizes, Zenon DEF AInv, TypeOK, RecordInv
  <1>1. CASE write
    <2>1. made + 1 \in Rec /\ made' = made + 1 BY <1>0, <1>1 DEF write, Rec
    <2>2. file' = [file EXCEPT ![made + 1] = fd] /\ UNCHANGED <<acked, aseq, fd>> /\ pc' = "written"
      BY <1>1, Zenon DEF write
    <2>3. \A x \in Rec : file'[x] # 0 => x <= made + 1
      <3> SUFFICES ASSUME NEW x \in Rec, file'[x] # 0, x # made + 1 PROVE x <= made + 1
        BY <1>0 DEF Rec
      <3>1. x <= made BY <1>0, <2>2, Zenon
      <3> QED BY <1>0, <3>1 DEF Rec
    <2>4. made + 1 \notin acked /\ aseq < made + 1 /\ made + 1 # 0 BY <1>0
    <2>5. file'[made + 1] = fd BY <1>0, <2>1, <2>2, Zenon
    <2> QED BY <2>1, <2>2, <2>3, <2>4, <2>5, Zenon DEF RecordInv
  <1>2. ASSUME made' = made, pc' # "written", pc' \in {"sealed", "prune", "write"} => made < MaxRec,
               \A x \in Rec : file'[x] # 0 => file[x] # 0
        PROVE  RecordInv'
    BY <1>0, <1>2, Zenon DEF RecordInv
  <1>3. CASE openAuditLog \/ appendNoRotate
    BY <1>0, <1>2, <1>3, Zenon DEF openAuditLog, appendNoRotate, disk
  <1>8. CASE rotateRename
    <2>1. \A x \in Rec : file'[x] # 0 => file[x] # 0 BY <1>0, <1>8, Sizes, Zenon DEF rotateRename
    <2>2. made' = made /\ made < MaxRec /\ pc' = "sealed" BY <1>8, Zenon DEF rotateRename
    <2> QED BY <1>2, <2>1, <2>2, Zenon
  <1>4. CASE rotateOpenErr
    <2>1. \A x \in Rec : file'[x] # 0 => file[x] # 0
      BY <1>0, <1>4, Sizes, Zenon DEF rotateOpenErr, AInv, NumberInv
    <2> QED BY <1>0, <1>2, <1>4, <2>1, Zenon DEF rotateOpenErr
  <1>5. CASE unrenameErr \/ rotateOpen \/ pruned \/ writeErr \/ syncOK
    BY <1>0, <1>2, <1>5, Zenon DEF unrenameErr, rotateOpen, pruned, writeErr, syncOK, disk
  <1>6. ASSUME NEW failed \in BOOLEAN, pruneOne(failed) PROVE RecordInv'
    BY <1>0, <1>2, <1>6, Zenon DEF pruneOne
  <1>7. CASE syncErr \/ Crash
    <2>1. \A x \in Rec : file'[x] # 0 => file[x] # 0
      BY <1>0, <1>7, Zenon DEF syncErr, Crash, WithoutLast, disk
    <2> QED BY <1>0, <1>2, <1>7, <2>1, Zenon DEF syncErr, Crash
  <1> QED BY <1>1, <1>3, <1>4, <1>5, <1>6, <1>7, <1>8, Zenon DEF Next

\* A segment unlinked oldest first leaves the newer ones of the others there.
LEMMA NewerStay ==
    ASSUME AInv, NEW failed \in BOOLEAN, pruneOne(failed), NEW n \in todo'
    PROVE  {m \in listSegments' : m > n} = {m \in listSegments : m > n}
  <1> DEFINE p == Min(todo)
  <1>1. todo \in SUBSET Nat /\ todo # {} /\ todo \subseteq Seg
    BY Sizes, Zenon DEF AInv, TypeOK, Seg, pruneOne
  <1>2. p \in todo /\ \A y \in todo : p <= y BY <1>1, MinOf, Zenon
  <1>3. n \in todo /\ n # p /\ p < n BY <1>1, <1>2 DEF pruneOne
  <1>4. /\ file \in [Rec -> 0..Live]
        /\ \/ UNCHANGED <<file, torn>>
           \/ /\ file' = [x \in Rec |-> IF file[x] = p THEN 0 ELSE file[x]] /\ torn' = torn \ {p}
    BY Zenon DEF pruneOne, AInv, TypeOK
  <1> HIDE DEF p
  <1>5. \A m \in Seg : m # p => (m \in listSegments' <=> m \in listSegments)
    BY <1>4, Sizes, Zenon DEF listSegments, In
  <1>6. \A m \in Seg : m > n => m # p BY <1>1, <1>2, <1>3 DEF Seg
  <1>7. listSegments \subseteq Seg /\ listSegments' \subseteq Seg BY Zenon DEF listSegments
  <1> QED BY <1>5, <1>6, <1>7, Zenon

LEMMA Numbered ==
    ASSUME AInv, Next
    PROVE  NumberInv'
  <1>0. /\ file \in [Rec -> 0..Live] /\ made \in 0..MaxRec /\ torn \subseteq File /\ segNext \in 1..Live
        /\ listSegments \subseteq Seg /\ listSegments' \subseteq Seg /\ fd \in File /\ Live \in Nat
        /\ \A n \in Seg : n \in Nat
    BY Sizes, Zenon DEF AInv, TypeOK, listSegments, Seg
  <1>1. TypeOK /\ TypeOK' BY Typed, Zenon DEF AInv
  <1>2. CASE openAuditLog
    <2>1. \A n \in Seg : n \in torn' <=> n \in torn BY <1>2, Sizes, Zenon DEF openAuditLog
    <2>2. listSegments' = listSegments BY <1>2, <2>1, Zenon DEF listSegments, In, openAuditLog
    <2>3. Below(nextSegNum) BY <1>1, NextNumber, Zenon
    <2> QED BY <1>2, <2>2, <2>3, Zenon DEF openAuditLog, NumberInv, Below
  \* a.f is where it was, and every other segment there was there before.
  <1>3. ASSUME UNCHANGED <<fd, segNext>>, pc \in {"idle", "write", "written", "sealed"},
               pc = "sealed" => listSegments' = listSegments,
               pc' \in {"idle", "write", "written"},
               \A m \in listSegments' : m \in listSegments \/ m = fd
        PROVE  NumberInv'
    <2>1. CASE fd = Live /\ Below(segNext) /\ pc # "sealed"
      <3>1. \A m \in listSegments' : m \in listSegments BY <1>0, <1>3, <2>1, Sizes, Zenon
      <3> QED BY <1>3, <2>1, <3>1, Zenon DEF NumberInv, Below
    <2>2. CASE fd = segNext /\ segNext \in Seg /\ Below(segNext + 1)
      <3>1. \A m \in listSegments' : m < segNext + 1 BY <1>0, <1>3, <2>2 DEF Below
      <3> QED BY <1>3, <2>2, <3>1, Zenon DEF NumberInv, Below
    <2> QED BY <1>3, <2>1, <2>2, Zenon DEF AInv, NumberInv
  <1>4. CASE appendNoRotate \/ unrenameErr \/ syncOK
    <2>1. listSegments' = listSegments
      BY <1>4, Zenon DEF appendNoRotate, unrenameErr, syncOK, disk, listSegments, In
    <2> QED BY <1>3, <1>4, <2>1, Zenon DEF appendNoRotate, unrenameErr, syncOK
  <1>5. CASE write \/ writeErr \/ syncErr
    <2>1. \A x \in Rec : file'[x] \in {file[x], 0, fd, Live}
      BY <1>0, <1>5, Zenon DEF write, writeErr, syncErr, WithoutLast, disk
    <2>2. torn' \subseteq torn \cup {fd, Live}
      BY <1>5, Zenon DEF write, writeErr, syncErr, WithoutLast, disk
    <2>3. \A m \in listSegments' : m \in listSegments \/ m = fd BY <1>1, <2>1, <2>2, SegsGrow, Zenon
    <2> QED BY <1>3, <1>5, <2>3, Zenon DEF write, writeErr, syncErr
  <1>6. CASE rotateRename
    <2>1. pc = "idle" /\ fd = Live /\ segNext \in Seg /\ fd' = segNext /\ segNext' = segNext /\ pc' = "sealed"
      BY <1>6, Zenon DEF rotateRename
    <2>2. Below(segNext)
      BY <2>1, <1>0, Sizes, Zenon DEF AInv, NumberInv
    <2>3. \A m \in listSegments' : m \in listSegments \/ m = segNext
      <3> SUFFICES ASSUME NEW m \in listSegments', m # segNext PROVE m \in listSegments BY Zenon
      <3>1. m \in Seg /\ (m \in torn' \/ \E x \in Rec : file'[x] = m) BY Zenon DEF listSegments, In
      <3>2. m # Live /\ m # 0 BY <3>1, Sizes, Zenon
      <3>3. (m \in torn' => m \in torn) BY <1>6, <3>2, Zenon DEF rotateRename
      <3>4. \A x \in Rec : file'[x] = m => file[x] = m BY <1>6, <3>2, Zenon DEF rotateRename
      <3> QED BY <3>1, <3>3, <3>4, Listed, Zenon
    <2>4. \A m \in listSegments' : m < segNext + 1 BY <1>0, <2>2, <2>3 DEF Below
    <2> QED BY <2>1, <2>4, Zenon DEF NumberInv, Below
  <1>7. CASE rotateOpenErr
    <2>1. pc = "sealed" /\ fd' = Live /\ segNext' = segNext /\ pc' = "write" /\ segNext \in Seg
          /\ Below(segNext + 1)
      BY <1>7, Zenon DEF rotateOpenErr, AInv, NumberInv
    <2>2. \A m \in listSegments' : m \in listSegments /\ m # segNext
      <3> SUFFICES ASSUME NEW m \in listSegments' PROVE m \in listSegments /\ m # segNext BY Zenon
      <3>1. m \in Seg /\ (m \in torn' \/ \E x \in Rec : file'[x] = m) BY Zenon DEF listSegments, In
      <3>2. m # Live /\ m # 0 /\ segNext # Live BY <2>1, <3>1, Sizes, Zenon
      <3>3. m \in torn' => m \in torn /\ m # segNext BY <1>7, <3>2, Zenon DEF rotateOpenErr
      <3>4. \A x \in Rec : file'[x] = m => file[x] = m /\ m # segNext
        BY <1>7, <3>2, Zenon DEF rotateOpenErr
      <3> QED BY <3>1, <3>3, <3>4, Listed, Zenon
    <2>3. \A m \in listSegments' : m < segNext BY <1>0, <2>1, <2>2 DEF Below
    <2> QED BY <2>1, <2>3, Zenon DEF NumberInv, Below
  <1>8. CASE rotateOpen
    <2>1. listSegments' = listSegments BY <1>8, Zenon DEF rotateOpen, disk, listSegments, In
    <2>2. Below(segNext + 1) BY <1>8, Zenon DEF rotateOpen, AInv, NumberInv
    <2>3. \A n \in todo' : Cardinality({m \in listSegments : m > n}) >= SegKeep
      BY <1>8, Zenon DEF rotateOpen, segsToPrune
    <2> QED BY <1>8, <2>1, <2>2, <2>3, Zenon DEF rotateOpen, NumberInv, Below
  <1>9. ASSUME NEW failed \in BOOLEAN, pruneOne(failed) PROVE NumberInv'
    <2>1. pc = "prune" /\ pc' = pc /\ UNCHANGED <<fd, segNext>> BY <1>9, Zenon DEF pruneOne
    <2>2. fd = Live /\ Below(segNext) /\ \A n \in todo : Cardinality({m \in listSegments : m > n}) >= SegKeep
      BY <2>1, Zenon DEF AInv, NumberInv
    <2>3. \A m \in listSegments' : m \in listSegments
      <3>1. \A x \in Rec : file'[x] \in {file[x], 0, fd, Live} BY <1>0, <1>9, Zenon DEF pruneOne
      <3>2. torn' \subseteq torn \cup {fd, Live} BY <1>9, Zenon DEF pruneOne
      <3>3. \A m \in listSegments' : m \in listSegments \/ m = fd BY <1>1, <3>1, <3>2, SegsGrow, Zenon
      <3> QED BY <1>0, <2>2, <3>3, Sizes, Zenon
    <2>4. \A n \in todo' : Cardinality({m \in listSegments' : m > n}) >= SegKeep
      <3> SUFFICES ASSUME NEW n \in todo' PROVE Cardinality({m \in listSegments' : m > n}) >= SegKeep
        BY Zenon
      <3>1. n \in todo BY <1>9, Zenon DEF pruneOne
      <3>2. {m \in listSegments' : m > n} = {m \in listSegments : m > n} BY <1>9, NewerStay, Zenon
      <3> QED BY <2>2, <3>1, <3>2, Zenon
    <2> QED BY <2>1, <2>2, <2>3, <2>4, Zenon DEF NumberInv, Below
  <1>10. CASE pruned
    <2>1. listSegments' = listSegments BY <1>10, Zenon DEF pruned, disk, listSegments, In
    <2> QED BY <1>10, <2>1, Zenon DEF pruned, AInv, NumberInv, Below
  <1>11. CASE Crash BY <1>11, Zenon DEF Crash, NumberInv
  <1> QED BY <1>2, <1>4, <1>5, <1>6, <1>7, <1>8, <1>9, <1>10, <1>11, Zenon DEF Next

LEMMA AStep == AInv /\ [Next]_vars => AInv'
  <1> SUFFICES ASSUME AInv, [Next]_vars PROVE AInv' BY Zenon
  <1>1. CASE Next BY <1>1, Typed, Recorded, Numbered, Zenon DEF AInv
  <1>2. CASE UNCHANGED vars
    <2>1. UNCHANGED <<file, prev, seq, bad, torn, made, acked, pc, fd, tip, aseq, segNext, todo>>
      BY <1>2, Zenon DEF vars, disk
    <2>2. TypeOK' BY <2>1, Zenon DEF AInv, TypeOK
    <2>3. listSegments' = listSegments BY <2>1, Zenon DEF listSegments, In
    <2>4. NumberInv' BY <2>1, <2>3, Zenon DEF AInv, NumberInv, Below
    <2>5. RecordInv' BY <2>1, Zenon DEF AInv, RecordInv
    <2> QED BY <2>2, <2>4, <2>5, Zenon DEF AInv
  <1> QED BY <1>1, <1>2, Zenon

\* The inductive invariant of the writer under any faults.
THEOREM ChainInvariant == Spec => []AInv
  BY AInit, AStep, PTL DEF Spec

\* Every state of the writer and its files is of its type, whatever fails.
THEOREM ChainTypeCorrect == Spec => []TypeOK
  <1>1. AInv => TypeOK BY Zenon DEF AInv
  <1> QED BY <1>1, ChainInvariant, PTL

\* What an acknowledged append wrote leaves the disk only by pruning, behind SegKeep
\* newer segments, for chains of any length and whatever second faults strike
\* (append, rotate, pruneSegments, openAuditLog).
THEOREM AckedStays == Spec => AckedOnlyPruned
  <1>1. AInv /\ [Next]_vars =>
          [\A x \in acked : file[x] # 0 /\ file'[x] = 0 =>
             Cardinality({n \in listSegments : n > file[x]}) >= SegKeep]_vars
    <2> SUFFICES ASSUME AInv, Next, NEW x \in acked, file[x] # 0, file'[x] = 0
                 PROVE  Cardinality({n \in listSegments : n > file[x]}) >= SegKeep
      BY Zenon
    <2>0. file \in [Rec -> 0..Live] /\ x \in Rec /\ x \in 1..made /\ made \in 0..MaxRec /\ fd # 0 /\ Live # 0
      BY Sizes DEF AInv, TypeOK, Rec
    <2>1. CASE rotateRename
      <3>1. file[x] = segNext /\ segNext \in Seg /\ segNext # 0
        BY <2>0, <2>1, Sizes, Zenon DEF rotateRename
      <3>2. segNext \in listSegments BY <2>0, <3>1, Listed, Zenon
      <3>3. Below(segNext) BY <2>1, <3>1, Sizes, Zenon DEF rotateRename, AInv, NumberInv
      <3> QED BY <3>1, <3>2, <3>3 DEF Below, Seg
    <2>2. ASSUME NEW failed \in BOOLEAN, pruneOne(failed)
          PROVE  Cardinality({n \in listSegments : n > file[x]}) >= SegKeep
      <3>1. file[x] = Min(todo) BY <2>0, <2>2, Zenon DEF pruneOne
      <3>2. todo \in SUBSET Nat /\ todo # {} BY <2>2, Sizes, Zenon DEF AInv, TypeOK, Seg, pruneOne
      <3>3. Min(todo) \in todo BY <3>2, MinOf, Zenon
      <3> QED BY <2>2, <3>1, <3>3, Zenon DEF pruneOne, AInv, NumberInv
    <2>3. CASE syncErr \/ Crash
      <3>1. x = made /\ pc = "written" BY <2>0, <2>3, Zenon DEF syncErr, Crash, WithoutLast, disk
      <3> QED BY <3>1, Zenon DEF AInv, RecordInv
    <2>4. CASE write BY <2>0, <2>4, Zenon DEF write
    <2>5. CASE rotateOpenErr BY <2>0, <2>5, Zenon DEF rotateOpenErr
    <2>6. CASE \/ openAuditLog \/ appendNoRotate \/ unrenameErr \/ rotateOpen \/ pruned \/ writeErr \/ syncOK
      BY <2>6, Zenon DEF openAuditLog, appendNoRotate, unrenameErr, rotateOpen, pruned, writeErr, syncOK, disk
    <2> QED BY <2>1, <2>2, <2>3, <2>4, <2>5, <2>6, Zenon DEF Next
  <1> QED BY <1>1, ChainInvariant, PTL DEF Spec, AckedOnlyPruned

-----------------------------------------------------------------------------
(* Without a second fault                                                  *)

Latest(t, S) == IF S = {} THEN t = 0 ELSE t \in S /\ \A y \in S : y <= t

\* No fragment outlives a reopening, and a.f is the live file but for a moment.
CleanInv ==
    /\ bad = {} /\ torn \subseteq {Live} /\ (pc # "down" => torn = {})
    /\ pc # "sealed" => fd = Live
    /\ pc \in {"sealed", "prune"} => \A x \in Rec : file[x] # Live

\* Later records are in later files.
OrderInv == \A x, y \in OnDisk : file[x] < file[y] => x < y

\* The writer's tip is the last record on disk (that it did not just write).
TipInv ==
    /\ pc \in {"idle", "sealed", "prune", "write"} => Latest(tip, OnDisk)
    /\ pc = "written" => /\ Latest(tip, OnDisk \ {made})
                         /\ prev[made] = tip /\ seq[made] = aseq + 1
    /\ pc # "down" => IF tip = 0 THEN aseq = 0 ELSE aseq \in {0, seq[tip]}

\* The first record there is, when older segments were pruned.
Anchored(y) == file[y] \in Seg /\ file[y] # 1 /\ (pc # "down" => file[y] < segNext)

Follows(y) == /\ prev[y] \in OnDisk /\ prev[y] < y /\ seq[y] \in {1, seq[prev[y]] + 1}
              /\ \A z \in OnDisk : z < y => z <= prev[y]
First(y)   == /\ \A z \in OnDisk : y <= z
              /\ (prev[y] = 0 /\ seq[y] = 1) \/ Anchored(y)

LinkInv == \A y \in OnDisk : Follows(y) \/ First(y)

\* Segments are unlinked from the oldest on.
PruneInv == pc = "prune" => \A n \in todo, m \in listSegments : m < n => m \in todo

CInv == AInv /\ CleanInv /\ OrderInv /\ TipInv /\ LinkInv /\ PruneInv

LEMMA CInit == Init => CInv
  <1> SUFFICES ASSUME Init PROVE CInv BY Zenon
  <1>1. AInv BY AInit, Zenon
  <1>2. OnDisk = {} BY Zenon DEF Init, OnDisk
  <1> QED
    BY <1>1, <1>2, Zenon DEF Init, CInv, CleanInv, OrderInv, TipInv, LinkInv, PruneInv

\* The last record on disk, when the files are in order and lines parse.
LEMMA TipOnOpen ==
    ASSUME TypeOK, OrderInv, bad = {}
    PROVE  Latest(lastChainTip({}), OnDisk)
  <1>0. file \in [Rec -> 0..Live] /\ Live \in Nat /\ MaxRec \in Nat BY Sizes, Zenon DEF TypeOK
  <1>1. \A f \in File : /\ In(f) \in SUBSET (0..MaxRec)
                        /\ In(f) = {} => lastChainHash(f, {}) = 0
                        /\ In(f) # {} => lastChainHash(f, {}) = Max(In(f))
    BY DEF lastChainHash, In, Rec
  <1>2. \A f \in File : In(f) # {} => /\ Max(In(f)) \in In(f) /\ Max(In(f)) # 0
                                      /\ \A y \in In(f) : y <= Max(In(f))
    <2> SUFFICES ASSUME NEW f \in File, In(f) # {}
                 PROVE  /\ Max(In(f)) \in In(f) /\ Max(In(f)) # 0
                        /\ \A y \in In(f) : y <= Max(In(f))
      BY Zenon
    <2>1. Max(In(f)) \in In(f) /\ \A y \in In(f) : y <= Max(In(f)) BY <1>0, <1>1, MaxOf, Zenon
    <2> QED BY <2>1 DEF In, Rec
  <1> DEFINE known == {f \in File : lastChainHash(f, {}) # 0}
  <1>3. known = {f \in File : In(f) # {}} BY <1>1, <1>2, Zenon
  <1>4. \A y \in OnDisk : file[y] \in known /\ y \in In(file[y])
    BY <1>0, <1>3 DEF OnDisk, In, File
  <1>5. CASE known = {}
    <2>1. OnDisk = {} BY <1>4, <1>5, Zenon
    <2> QED BY <1>5, <2>1, Zenon DEF lastChainTip, Latest
  <1>6. CASE known # {}
    <2> DEFINE g == Max(known)
               t == Max(In(g))
    <2>1. known \in SUBSET (0..Live) BY Sizes DEF File
    <2>2. g \in known /\ \A f \in known : f <= g BY <1>0, <1>6, <2>1, MaxOf, Zenon
    <2>3. g \in File /\ In(g) # {} BY <1>3, <2>2, Zenon
    <2>4. lastChainTip({}) = t BY <1>1, <1>6, <2>3, Zenon DEF lastChainTip
    <2>5. t \in In(g) /\ \A y \in In(g) : y <= t BY <1>2, <2>3, Zenon
    <2> HIDE DEF known, g, t
    <2>6. t \in OnDisk /\ file[t] = g BY <2>3, <2>5, Sizes, Zenon DEF In, OnDisk
    <2>7. ASSUME NEW y \in OnDisk PROVE y <= t
      <3>1. file[y] \in known /\ y \in In(file[y]) /\ file[y] <= g BY <1>4, <2>2, Zenon
      <3>2. CASE file[y] = g BY <2>5, <3>1, <3>2, Zenon
      <3>3. CASE file[y] # g
        <4>1. file[y] < file[t] BY <1>0, <2>6, <3>1, <3>3 DEF OnDisk
        <4>2. y < t BY <2>6, <4>1, Zenon DEF OrderInv
        <4> QED BY <4>2, <2>6 DEF OnDisk, Rec
      <3> QED BY <3>2, <3>3, Zenon
    <2> QED BY <2>4, <2>6, <2>7, Zenon DEF Latest
  <1> QED BY <1>5, <1>6, Zenon

\* The same records on disk in the same order, and a writer that stays at its tip.
LEMMA SameRecords ==
    ASSUME CInv, AInv', UNCHANGED <<prev, seq, made, tip, aseq>>,
           OnDisk' = OnDisk, OrderInv', CleanInv', PruneInv',
           pc \in {"idle", "sealed", "prune", "write"}, pc' \in {"idle", "sealed", "prune", "write"},
           \A y \in OnDisk : Anchored(y) => Anchored(y)'
    PROVE  CInv'
  <1>1. TipInv' BY Zenon DEF CInv, TipInv
  <1>2. LinkInv' BY Zenon DEF CInv, LinkInv, Follows, First
  <1> QED BY <1>1, <1>2, Zenon DEF CInv

\* A record is nowhere, in the live file or in a segment.
LEMMA Where ==
    ASSUME TypeOK, NEW x \in Rec
    PROVE  file[x] = 0 \/ file[x] = Live \/ file[x] \in Seg
  <1>1. file[x] \in 0..Live BY Zenon DEF TypeOK
  <1>2. Live = MaxSeg + 1 /\ MaxSeg \in Nat BY Sizes, Zenon DEF Live
  <1> QED BY <1>1, <1>2 DEF Seg

LEMMA OpenC ==
    ASSUME CInv, AInv', Faults = {}, openAuditLog
    PROVE  CInv'
  <1>1. /\ pc = "down" /\ torn' = torn \ {Live} /\ tip' = lastChainTip(torn')
        /\ aseq' = 0 /\ segNext' = nextSegNum /\ fd' = Live /\ pc' = "idle"
        /\ UNCHANGED <<file, prev, seq, bad, made, acked, todo>>
    BY Zenon DEF openAuditLog
  <1>2. torn' = {} BY <1>1, Zenon DEF CInv, CleanInv
  <1>3. CleanInv' BY <1>1, <1>2, Zenon DEF CInv, CleanInv
  <1>4. OnDisk' = OnDisk BY <1>1, Zenon DEF OnDisk
  <1>5. OrderInv' BY <1>1, <1>4, Zenon DEF CInv, OrderInv
  <1>6. Latest(tip', OnDisk) BY <1>1, <1>2, TipOnOpen, Zenon DEF CInv, AInv, CleanInv
  <1>7. TipInv' BY <1>1, <1>4, <1>6, Zenon DEF TipInv
  <1>8. \A y \in OnDisk : Anchored(y) => Anchored(y)'
    <2> SUFFICES ASSUME NEW y \in OnDisk, Anchored(y) PROVE Anchored(y)' BY Zenon
    <2>1. file[y] \in listSegments BY Listed, Zenon DEF OnDisk, Anchored
    <2>2. Below(nextSegNum) BY NextNumber, Zenon DEF CInv, AInv
    <2> QED BY <1>1, <2>1, <2>2, Zenon DEF Anchored, Below
  <1>9. LinkInv' BY <1>1, <1>4, <1>8, Zenon DEF CInv, LinkInv, Follows, First
  <1>10. PruneInv' BY <1>1, Zenon DEF PruneInv
  <1> QED BY <1>3, <1>5, <1>7, <1>9, <1>10, Zenon DEF CInv

LEMMA RotateC ==
    ASSUME CInv, AInv', Faults = {},
           appendNoRotate \/ rotateRename \/ rotateOpenErr \/ unrenameErr \/ rotateOpen \/ pruned \/ writeErr
    PROVE  OnDisk' = OnDisk /\ CInv'
  <1>0. /\ file \in [Rec -> 0..Live] /\ Live \in Nat /\ Live # 0 /\ Live \notin Seg /\ segNext \in 1..Live
        /\ \A n \in Seg : n \in Nat /\ n # 0 /\ n < Live
        /\ listSegments \subseteq Seg
    BY Sizes, Zenon DEF CInv, AInv, TypeOK, listSegments, Seg
  <1>1. CASE appendNoRotate \/ pruned \/ writeErr
    <2>1. /\ UNCHANGED <<file, prev, seq, bad, torn, made, tip, aseq, fd, segNext>>
          /\ pc \in {"idle", "prune", "write"} /\ pc' \in {"idle", "write"}
      BY <1>1, Zenon DEF appendNoRotate, pruned, writeErr, disk
    <2>2. OnDisk' = OnDisk BY <2>1, Zenon DEF OnDisk
    <2>3. OrderInv' /\ CleanInv' /\ PruneInv'
      BY <2>1, <2>2, Zenon DEF CInv, OrderInv, CleanInv, PruneInv
    <2>4. \A y \in OnDisk : Anchored(y) => Anchored(y)' BY <2>1, Zenon DEF Anchored
    <2> QED BY <2>1, <2>2, <2>3, <2>4, SameRecords, Zenon
  <1>2. CASE unrenameErr BY <1>2, Zenon DEF unrenameErr
  <1>3. CASE rotateRename
    <2>1. /\ pc = "idle" /\ fd = Live /\ segNext \in Seg /\ fd' = segNext /\ pc' = "sealed"
          /\ file' = [x \in Rec |-> CASE file[x] = Live -> segNext
                                      [] file[x] = segNext -> 0
                                      [] OTHER -> file[x]]
          /\ torn' = IF Live \in torn THEN (torn \ {Live}) \cup {segNext} ELSE torn \ {segNext}
          /\ UNCHANGED <<prev, seq, bad, made, acked, tip, aseq, segNext, todo>>
      BY <1>3, Zenon DEF rotateRename
    <2>2. Below(segNext) BY <1>0, <2>1, Zenon DEF CInv, AInv, NumberInv
    <2>3. \A x \in OnDisk : file[x] \in Seg => file[x] < segNext /\ file[x] # segNext
      <3> SUFFICES ASSUME NEW x \in OnDisk, file[x] \in Seg PROVE file[x] < segNext /\ file[x] # segNext
        BY Zenon
      <3>1. file[x] \in listSegments BY Listed, Zenon DEF OnDisk
      <3> QED BY <1>0, <2>1, <2>2, <3>1 DEF Below
    <2>4. \A x \in Rec : file[x] = 0 \/ file[x] = Live \/ file[x] \in Seg
      BY Where, Zenon DEF CInv, AInv
    <2>5. \A x \in OnDisk : file'[x] = IF file[x] = Live THEN segNext ELSE file[x]
      BY <2>1, <2>3, <2>4, Zenon DEF OnDisk
    <2>6. \A x \in Rec : file[x] = 0 => file'[x] = 0 BY <1>0, <2>1, Zenon
    <2>7. OnDisk' = OnDisk BY <1>0, <2>1, <2>5, <2>6, Zenon DEF OnDisk
    <2>8. OrderInv'
      <3> SUFFICES ASSUME NEW x \in OnDisk, NEW y \in OnDisk, file'[x] < file'[y] PROVE x < y
        BY <2>7, Zenon DEF OrderInv
      <3>1. file[x] # Live BY <1>0, <2>1, <2>3, <2>4, <2>5 DEF OnDisk
      <3>2. file[x] < file[y] BY <1>0, <2>1, <2>3, <2>4, <2>5, <3>1, Zenon DEF OnDisk
      <3> QED BY <3>2, Zenon DEF CInv, OrderInv
    <2>9. CleanInv'
      <3>1. torn = {} /\ bad = {} BY <2>1, Zenon DEF CInv, CleanInv
      <3>2. \A x \in Rec : file'[x] # Live BY <1>0, <2>1, Zenon
      <3> QED BY <2>1, <3>1, <3>2, Zenon DEF CleanInv
    <2>10. \A y \in OnDisk : Anchored(y) => Anchored(y)' BY <1>0, <2>1, <2>5, Zenon DEF Anchored
    <2>11. PruneInv' BY <2>1, Zenon DEF PruneInv
    <2> QED BY <2>1, <2>7, <2>8, <2>9, <2>10, <2>11, SameRecords, Zenon
  <1>4. CASE rotateOpenErr
    <2>1. /\ pc = "sealed" /\ fd' = Live /\ pc' = "write"
          /\ file' = [x \in Rec |-> IF file[x] = segNext THEN Live ELSE file[x]]
          /\ torn' = IF segNext \in torn THEN (torn \ {segNext}) \cup {Live} ELSE torn
          /\ UNCHANGED <<prev, seq, bad, made, acked, tip, aseq, segNext, todo>>
      BY <1>4, Zenon DEF rotateOpenErr
    <2>2. segNext \in Seg /\ Below(segNext + 1) /\ \A x \in Rec : file[x] # Live
      BY <2>1, Zenon DEF CInv, AInv, NumberInv, CleanInv
    <2>3. OnDisk' = OnDisk BY <1>0, <2>1, <2>2, Zenon DEF OnDisk
    <2>4. OrderInv'
      <3> SUFFICES ASSUME NEW x \in OnDisk, NEW y \in OnDisk, file'[x] < file'[y] PROVE x < y
        BY <2>3, Zenon DEF OrderInv
      <3>1. file[x] \in listSegments
        <4>1. x \in Rec /\ file[x] # 0 BY Zenon DEF OnDisk
        <4>2. file[x] \in Seg BY <2>2, <4>1, Where, Zenon DEF CInv, AInv
        <4> QED BY <4>1, <4>2, Listed, Zenon
      <3>2. file[x] < segNext + 1 /\ file[x] \in Nat BY <1>0, <2>2, <3>1, Zenon DEF Below
      <3>3. file[x] # segNext BY <1>0, <2>1, <2>2 DEF OnDisk
      <3>4. file[x] < file[y] BY <1>0, <2>1, <2>2, <3>2, <3>3 DEF OnDisk
      <3> QED BY <3>4, Zenon DEF CInv, OrderInv
    <2>5. CleanInv'
      <3>1. torn = {} /\ bad = {} BY <2>1, Zenon DEF CInv, CleanInv
      <3> QED BY <2>1, <3>1, Zenon DEF CleanInv
    <2>6. \A y \in OnDisk : Anchored(y) => Anchored(y)'
      <3> SUFFICES ASSUME NEW y \in OnDisk, Anchored(y) PROVE Anchored(y)' BY Zenon
      <3>1. file[y] < segNext /\ file[y] \in Nat BY <1>0, <2>1, Zenon DEF Anchored
      <3>2. file'[y] = file[y] BY <1>0, <2>1, <3>1 DEF OnDisk
      <3> QED BY <2>1, <3>1, <3>2, Zenon DEF Anchored
    <2>7. PruneInv' BY <2>1, Zenon DEF PruneInv
    <2> QED BY <2>1, <2>3, <2>4, <2>5, <2>6, <2>7, SameRecords, Zenon
  <1>5. CASE rotateOpen
    <2>1. /\ pc = "sealed" /\ fd' = Live /\ segNext' = segNext + 1 /\ todo' = segsToPrune /\ pc' = "prune"
          /\ UNCHANGED <<file, prev, seq, bad, torn, made, acked, tip, aseq>>
      BY <1>5, Zenon DEF rotateOpen, disk
    <2>2. OnDisk' = OnDisk /\ listSegments' = listSegments BY <2>1, Zenon DEF OnDisk, listSegments, In
    <2>3. OrderInv' /\ CleanInv' BY <2>1, <2>2, Zenon DEF CInv, OrderInv, CleanInv
    <2>4. \A y \in OnDisk : Anchored(y) => Anchored(y)' BY <1>0, <2>1 DEF Anchored
    <2>5. PruneInv'
      <3> SUFFICES ASSUME NEW n \in segsToPrune, NEW m \in listSegments, m < n PROVE m \in segsToPrune
        BY <2>1, <2>2, Zenon DEF PruneInv
      <3> DEFINE A == {q \in listSegments : q > n}
                 B == {q \in listSegments : q > m}
      <3>1. A \subseteq B BY <1>0 DEF segsToPrune
      <3>2. IsFiniteSet(B)
        <4>1. IsFiniteSet(Seg) BY FS_Interval, Sizes DEF Seg
        <4>2. B \subseteq Seg BY <1>0, Zenon
        <4> QED BY <4>1, <4>2, FS_Subset, Zenon
      <3>3. Cardinality(A) <= Cardinality(B) /\ Cardinality(A) \in Nat /\ Cardinality(B) \in Nat
        BY <3>1, <3>2, FS_Subset, FS_CardinalityType, Zenon
      <3>4. Cardinality(A) >= SegKeep BY Zenon DEF segsToPrune
      <3>5. Cardinality(B) >= SegKeep BY <3>3, <3>4, Sizes
      <3> QED BY <3>5, Zenon DEF segsToPrune
    <2> QED BY <2>1, <2>2, <2>3, <2>4, <2>5, SameRecords, Zenon
  <1> QED BY <1>1, <1>2, <1>3, <1>4, <1>5, Zenon

\* What unlinking the oldest segment leaves: a newer record, and only newer ones.
LEMMA Unlinked ==
    ASSUME CInv, Faults = {}, NEW failed \in BOOLEAN, pruneOne(failed)
    PROVE  LET p == Min(todo) IN
           /\ p \in todo /\ p \in Seg
           /\ OnDisk' = {y \in OnDisk : file[y] # p} /\ \A y \in OnDisk' : file'[y] = file[y]
           /\ \A y \in OnDisk' : file[y] > p /\ file[y] \in Seg /\ file[y] < segNext
           /\ \A x \in OnDisk \ OnDisk', y \in OnDisk' : x < y
           /\ OnDisk' # {}
  <1> DEFINE p == Min(todo)
  <1>0. /\ file \in [Rec -> 0..Live] /\ Live \in Nat /\ listSegments \subseteq Seg
        /\ \A n \in Seg : n \in Nat /\ n # 0 /\ n < Live
        /\ todo \in SUBSET Nat /\ todo # {} /\ todo \subseteq Seg
    BY Sizes, Zenon DEF CInv, AInv, TypeOK, listSegments, Seg, pruneOne
  <1>1. p \in todo /\ p \in Seg /\ \A y \in todo : p <= y BY <1>0, MinOf, Zenon
  <1>2. /\ pc = "prune" /\ torn = {}
        /\ file' = [x \in Rec |-> IF file[x] = p THEN 0 ELSE file[x]]
    BY Zenon DEF pruneOne, CInv, CleanInv
  <1> HIDE DEF p
  <1>3. OnDisk' = {y \in OnDisk : file[y] # p} /\ \A y \in OnDisk' : file'[y] = file[y]
    BY <1>0, <1>2, Zenon DEF OnDisk
  <1>4. ASSUME NEW y \in OnDisk PROVE file[y] \in listSegments /\ file[y] \in Seg /\ file[y] < segNext
    <2>1. y \in Rec /\ file[y] # 0 /\ file[y] # Live BY <1>2, Zenon DEF OnDisk, CInv, CleanInv
    <2>2. file[y] \in Seg BY <2>1, Where, Zenon DEF CInv, AInv
    <2>3. file[y] \in listSegments BY <2>1, <2>2, Listed, Zenon
    <2>4. Below(segNext) BY <1>2, Zenon DEF CInv, AInv, NumberInv
    <2> QED BY <2>2, <2>3, <2>4, Zenon DEF Below
  <1>5. ASSUME NEW y \in OnDisk' PROVE file[y] > p
    <2>1. y \in OnDisk /\ file[y] # p BY <1>3, Zenon
    <2>2. file[y] \in listSegments /\ file[y] \in Nat BY <1>0, <1>4, <2>1, Zenon
    <2>3. file[y] < p => file[y] \in todo BY <1>1, <1>2, <2>2, Zenon DEF CInv, PruneInv
    <2> QED BY <1>0, <1>1, <2>1, <2>2, <2>3
  <1>6. ASSUME NEW x \in OnDisk \ OnDisk', NEW y \in OnDisk' PROVE x < y
    <2>1. x \in OnDisk /\ y \in OnDisk /\ file[x] = p /\ file[y] > p BY <1>3, <1>5, Zenon
    <2>2. file[x] < file[y] BY <1>0, <1>1, <1>4, <2>1, Zenon
    <2> QED BY <2>1, <2>2, Zenon DEF CInv, OrderInv
  <1>7. OnDisk' # {}
    <2> DEFINE N == {m \in listSegments : m > p}
    <2>1. Cardinality(N) >= SegKeep BY <1>1, <1>2, Zenon DEF CInv, AInv, NumberInv
    <2>2. N # {} BY <2>1, FS_EmptySet, Sizes
    <2>3. PICK m \in listSegments : m > p BY <2>2, Zenon
    <2>4. m \in Seg /\ m # p BY <1>0, <1>1, <2>3
    <2>5. PICK y \in Rec : file[y] = m BY <1>2, <2>3, <2>4, Listed, Zenon
    <2>6. y \in OnDisk /\ file[y] # p BY <1>0, <2>4, <2>5, Zenon DEF OnDisk
    <2> QED BY <1>3, <2>6, Zenon
  <1> QED BY <1>1, <1>3, <1>4, <1>5, <1>6, <1>7, Zenon DEF p

LEMMA PruneC ==
    ASSUME CInv, AInv', Faults = {}, NEW failed \in BOOLEAN, pruneOne(failed)
    PROVE  CInv'
  <1> DEFINE p == Min(todo)
  <1>1. /\ pc = "prune" /\ pc' = pc /\ todo' = todo \ {p} /\ torn = {} /\ torn' = {}
        /\ UNCHANGED <<prev, seq, bad, made, acked, pc, fd, tip, aseq, segNext>>
        /\ file' = [x \in Rec |-> IF file[x] = p THEN 0 ELSE file[x]]
    BY Zenon DEF pruneOne, CInv, CleanInv
  <1>2. /\ p \in todo /\ p \in Seg
        /\ OnDisk' = {y \in OnDisk : file[y] # p} /\ \A y \in OnDisk' : file'[y] = file[y]
        /\ \A y \in OnDisk' : file[y] > p /\ file[y] \in Seg /\ file[y] < segNext
        /\ \A x \in OnDisk \ OnDisk', y \in OnDisk' : x < y
        /\ OnDisk' # {}
    BY Unlinked, Zenon
  <1> HIDE DEF p
  <1>3. \A y \in OnDisk : y \in Nat /\ y # 0 BY DEF OnDisk, Rec
  <1>4. CleanInv' BY <1>1, Sizes, Zenon DEF CInv, CleanInv
  <1>5. OrderInv' BY <1>2, Zenon DEF CInv, OrderInv
  <1>6. TipInv'
    <2>1. Latest(tip, OnDisk) BY <1>1, Zenon DEF CInv, TipInv
    <2>2. PICK y : y \in OnDisk' BY <1>2, Zenon
    <2>3. tip \in OnDisk /\ y <= tip /\ \A z \in OnDisk : z <= tip BY <1>2, <2>1, <2>2, Zenon DEF Latest
    <2>4. tip \in OnDisk' BY <1>2, <1>3, <2>2, <2>3
    <2>5. Latest(tip, OnDisk') BY <1>2, <2>3, <2>4, Zenon DEF Latest
    <2> QED BY <1>1, <2>5, Zenon DEF CInv, TipInv
  <1>7. LinkInv'
    <2> SUFFICES ASSUME NEW y \in OnDisk' PROVE Follows(y)' \/ First(y)' BY Zenon DEF LinkInv
    <2>0. y \in OnDisk BY <1>2, Zenon
    <2>1. Anchored(y)'
      <3>1. file[y] # 1 /\ file'[y] = file[y] BY <1>2 DEF Seg
      <3> QED BY <1>1, <1>2, <3>1, Zenon DEF Anchored
    <2>2. CASE Follows(y) /\ prev[y] \in OnDisk' BY <1>1, <1>2, <2>2, Zenon DEF Follows
    <2>3. CASE Follows(y) /\ prev[y] \notin OnDisk'
      <3>1. \A z \in OnDisk' : prev[y] < z /\ (z < y => z <= prev[y]) /\ z \in Nat /\ prev[y] \in Nat
        BY <1>2, <1>3, <2>3, Zenon DEF Follows
      <3>2. \A z \in OnDisk' : y <= z BY <1>3, <2>0, <3>1
      <3> QED BY <2>1, <3>2, Zenon DEF First
    <2>4. CASE First(y) BY <1>2, <2>1, <2>4, Zenon DEF First
    <2> QED BY <2>0, <2>2, <2>3, <2>4, Zenon DEF CInv, LinkInv
  <1>8. PruneInv'
    <2> SUFFICES ASSUME NEW n \in todo', NEW m \in listSegments', m < n PROVE m \in todo'
      BY Zenon DEF PruneInv
    <2>1. m \in Seg /\ \E x \in Rec : file'[x] = m BY <1>1, Zenon DEF listSegments, In
    <2>2. m # 0 /\ m # p /\ \E x \in Rec : file[x] = m BY <1>1, <2>1, Sizes, Zenon
    <2>3. m \in listSegments BY <2>1, <2>2, Listed, Zenon
    <2> QED BY <1>1, <2>2, <2>3, Zenon DEF CInv, PruneInv
  <1> QED BY <1>4, <1>5, <1>6, <1>7, <1>8, Zenon DEF CInv

LEMMA WriteC ==
    ASSUME CInv, AInv', Faults = {}, write
    PROVE  OnDisk' \ {made'} = OnDisk /\ CInv'
  <1> DEFINE x == made + 1
  <1>1. /\ pc = "write" /\ pc' = "written" /\ made' = x /\ torn' = torn \ {fd}
        /\ file' = [file EXCEPT ![x] = fd] /\ prev' = [prev EXCEPT ![x] = tip]
        /\ seq' = [seq EXCEPT ![x] = aseq + 1] /\ bad' = IF fd \in torn THEN bad \cup {x} ELSE bad
        /\ UNCHANGED <<acked, fd, tip, aseq, segNext, todo>>
    BY Zenon DEF write
  <1>2. torn = {} /\ bad = {} /\ fd = Live /\ made < MaxRec
    BY <1>1, Zenon DEF CInv, AInv, CleanInv, RecordInv
  <1>3. /\ made \in Nat /\ x \in Rec /\ tip \in 0..made
        /\ file \in [Rec -> 0..Live] /\ prev \in [Rec -> 0..MaxRec] /\ seq \in [Rec -> 0..MaxRec]
        /\ \A y \in OnDisk : y \in Rec /\ y \in Nat /\ y <= made /\ y # x
    <2>1. /\ made \in 0..MaxRec /\ MaxRec \in Nat /\ tip \in 0..made
          /\ file \in [Rec -> 0..Live] /\ prev \in [Rec -> 0..MaxRec] /\ seq \in [Rec -> 0..MaxRec]
      BY Sizes, Zenon DEF CInv, AInv, TypeOK
    <2>2. made \in Nat /\ x \in Rec BY <1>2, <2>1 DEF Rec
    <2>3. \A y \in OnDisk : y \in Rec /\ y <= made BY Zenon DEF CInv, AInv, RecordInv, OnDisk
    <2>4. \A y \in OnDisk : y \in Rec /\ y \in Nat /\ y <= made /\ y # x BY <2>2, <2>3 DEF Rec
    <2> QED BY <2>1, <2>2, <2>4, Zenon
  <1>4. Latest(tip, OnDisk) /\ IF tip = 0 THEN aseq = 0 ELSE aseq \in {0, seq[tip]}
    BY <1>1, Zenon DEF CInv, TipInv
  <1> HIDE DEF x
  <1>5. OnDisk' = OnDisk \cup {x} /\ x \notin OnDisk
    BY <1>1, <1>2, <1>3, Sizes, Zenon DEF OnDisk
  <1>6. /\ file'[x] = Live /\ prev'[x] = tip /\ seq'[x] = aseq + 1
        /\ \A y \in OnDisk : file'[y] = file[y] /\ prev'[y] = prev[y] /\ seq'[y] = seq[y]
    BY <1>1, <1>2, <1>3, Zenon
  <1>7. x \in Nat /\ \A y \in OnDisk : y < x BY <1>3 DEF x
  <1>8. CleanInv' BY <1>1, <1>2, Zenon DEF CInv, CleanInv
  <1>9. OrderInv'
    <2> SUFFICES ASSUME NEW y \in OnDisk', NEW z \in OnDisk', file'[y] < file'[z] PROVE y < z
      BY Zenon DEF OrderInv
    <2>1. CASE y = x
      <3>1. file'[z] \in 0..Live BY Zenon DEF AInv, TypeOK, OnDisk
      <3> QED BY <1>6, <2>1, <3>1, Sizes
    <2>2. CASE y # x /\ z = x BY <1>5, <1>7, <2>2, Zenon
    <2>3. CASE y # x /\ z # x BY <1>5, <1>6, <2>3, Zenon DEF CInv, OrderInv
    <2> QED BY <2>1, <2>2, <2>3, Zenon
  <1>10. TipInv'
    <2>1. OnDisk' \ {made'} = OnDisk BY <1>1, <1>5, Zenon
    <2>2. tip # 0 => seq'[tip] = seq[tip] BY <1>4, <1>6, Zenon DEF Latest
    <2>3. IF tip = 0 THEN aseq = 0 ELSE aseq \in {0, seq'[tip]} BY <1>4, <2>2, Zenon
    <2> QED BY <1>1, <1>4, <1>6, <2>1, <2>3, Zenon DEF TipInv
  <1>11. LinkInv'
    <2> SUFFICES ASSUME NEW y \in OnDisk' PROVE Follows(y)' \/ First(y)' BY Zenon DEF LinkInv
    <2>1. CASE y = x /\ OnDisk = {}
      <3>1. tip = 0 /\ aseq = 0 BY <1>4, <2>1, Zenon DEF Latest
      <3> QED BY <1>5, <1>6, <1>7, <2>1, <3>1 DEF First
    <2>2. CASE y = x /\ OnDisk # {}
      <3>1. tip \in OnDisk /\ tip # 0 /\ \A z \in OnDisk : z <= tip BY <1>4, <2>2 DEF Latest, OnDisk, Rec
      <3>2. aseq \in {0, seq[tip]} /\ seq'[tip] = seq[tip] BY <1>4, <1>6, <3>1, Zenon
      <3> QED BY <1>5, <1>6, <1>7, <2>2, <3>1, <3>2 DEF Follows
    <2>3. CASE y # x
      <3>1. y \in OnDisk /\ (Anchored(y) => Anchored(y)') BY <1>1, <1>5, <1>6, <2>3, Zenon DEF Anchored
      <3>2. CASE Follows(y)
        <4>1. \A z \in OnDisk' : z < y => z <= prev[y] BY <1>3, <1>5, <1>7, <3>1, <3>2 DEF Follows
        <4> QED BY <1>5, <1>6, <3>1, <3>2, <4>1, Zenon DEF Follows
      <3>3. CASE First(y)
        <4>1. \A z \in OnDisk' : y <= z BY <1>3, <1>5, <1>7, <3>1, <3>3 DEF First
        <4> QED BY <1>6, <3>1, <3>3, <4>1, Zenon DEF First
      <3> QED BY <3>1, <3>2, <3>3, Zenon DEF CInv, LinkInv
    <2> QED BY <2>1, <2>2, <2>3, Zenon
  <1>12. PruneInv' BY <1>1, Zenon DEF PruneInv
  <1> QED BY <1>1, <1>5, <1>8, <1>9, <1>10, <1>11, <1>12, Zenon DEF CInv

\* Taking back the line just written leaves the rest of the chain linked.
LEMMA TakenBack ==
    ASSUME CInv, pc = "written", file' = [file EXCEPT ![made] = 0], UNCHANGED <<prev, seq>>,
           pc' = "down" \/ segNext' = segNext
    PROVE  OnDisk' = OnDisk \ {made} /\ OrderInv' /\ LinkInv'
  <1>1. /\ file \in [Rec -> 0..Live] /\ made \in Rec
        /\ \A y \in OnDisk : y \in Rec /\ y \in Nat /\ y <= made
    BY DEF CInv, AInv, TypeOK, RecordInv, OnDisk, Rec
  <1>2. OnDisk' = OnDisk \ {made} /\ \A y \in OnDisk' : file'[y] = file[y] BY <1>1, Zenon DEF OnDisk
  <1>3. OrderInv' BY <1>2, Zenon DEF CInv, OrderInv
  <1>4. LinkInv'
    <2> SUFFICES ASSUME NEW y \in OnDisk' PROVE Follows(y)' \/ First(y)' BY Zenon DEF LinkInv
    <2>1. y \in OnDisk /\ y <= made /\ y \in Nat /\ y # made /\ made \in Nat BY <1>1, <1>2 DEF Rec
    <2>2. Anchored(y) => Anchored(y)' BY <1>2, Zenon DEF Anchored
    <2>3. CASE Follows(y)
      <3>1. prev[y] \in OnDisk /\ prev[y] < y BY <2>3, Zenon DEF Follows
      <3>2. prev[y] # made BY <1>1, <2>1, <3>1
      <3> QED BY <1>2, <2>3, <3>1, <3>2, Zenon DEF Follows
    <2>4. CASE First(y) BY <1>2, <2>2, <2>4, Zenon DEF First
    <2> QED BY <2>1, <2>3, <2>4, Zenon DEF CInv, LinkInv
  <1> QED BY <1>2, <1>3, <1>4, Zenon

LEMMA SyncC ==
    ASSUME CInv, AInv', Faults = {}, syncOK \/ syncErr
    PROVE  CInv'
  <1>0. pc = "written" /\ torn = {} /\ bad = {} /\ fd = Live
    BY Zenon DEF syncOK, syncErr, CInv, CleanInv
  <1>1. CASE syncOK
    <2>1. /\ pc' = "idle" /\ tip' = made /\ aseq' = aseq + 1
          /\ UNCHANGED <<file, prev, seq, bad, torn, made, fd, segNext, todo>>
      BY <1>1, Zenon DEF syncOK, disk
    <2>2. OnDisk' = OnDisk BY <2>1, Zenon DEF OnDisk
    <2>3. made # 0 /\ made \in OnDisk /\ seq[made] = aseq + 1 /\ \A y \in OnDisk : y <= made
      BY <1>0, Sizes DEF CInv, AInv, TypeOK, RecordInv, TipInv, OnDisk, Rec
    <2>4. Latest(made, OnDisk) BY <2>3, Zenon DEF Latest
    <2>5. TipInv' BY <2>1, <2>2, <2>3, <2>4, Zenon DEF TipInv
    <2>6. \A y \in OnDisk : Anchored(y) => Anchored(y)' BY <1>0, <2>1, Zenon DEF Anchored
    <2>7. LinkInv' BY <2>1, <2>2, <2>6, Zenon DEF CInv, LinkInv, Follows, First
    <2>8. OrderInv' BY <2>1, <2>2, Zenon DEF CInv, OrderInv
    <2>9. CleanInv' /\ PruneInv' BY <1>0, <2>1, Zenon DEF CleanInv, PruneInv
    <2> QED BY <2>5, <2>7, <2>8, <2>9, Zenon DEF CInv
  <1>2. CASE syncErr
    <2>1. /\ pc' = "idle" /\ UNCHANGED <<made, acked, fd, tip, aseq, segNext, todo, prev, seq>>
          /\ file' = [file EXCEPT ![made] = 0] /\ bad' = {} /\ torn' = {}
      BY <1>0, <1>2, Zenon DEF syncErr, WithoutLast
    <2>2. OnDisk' = OnDisk \ {made} /\ OrderInv' /\ LinkInv' BY <1>0, <2>1, TakenBack, Zenon
    <2>3. TipInv' BY <1>0, <2>1, <2>2, Zenon DEF CInv, TipInv
    <2>4. CleanInv' /\ PruneInv' BY <1>0, <2>1, Zenon DEF CleanInv, PruneInv
    <2> QED BY <2>2, <2>3, <2>4, Zenon DEF CInv
  <1> QED BY <1>1, <1>2, Zenon

LEMMA CrashC ==
    ASSUME CInv, AInv', Faults = {}, Crash
    PROVE  CInv'
  <1>1. pc # "down" /\ pc' = "down" /\ fd' = Live BY Zenon DEF Crash
  <1>2. torn = {} /\ bad = {} /\ (pc # "sealed" => fd = Live) BY <1>1, Zenon DEF CInv, CleanInv
  <1>3. bad' = {} /\ torn' \subseteq {Live} BY <1>2, Zenon DEF Crash, WithoutLast, disk
  <1>4. TipInv' /\ CleanInv' /\ PruneInv' BY <1>1, <1>3, Zenon DEF TipInv, CleanInv, PruneInv
  <1>5. CASE UNCHANGED <<file, prev, seq>>
    <2>1. OnDisk' = OnDisk BY <1>5, Zenon DEF OnDisk
    <2>2. \A y \in OnDisk : Anchored(y) => Anchored(y)' BY <1>1, <1>5, Zenon DEF Anchored
    <2>3. LinkInv' BY <1>5, <2>1, <2>2, Zenon DEF CInv, LinkInv, Follows, First
    <2>4. OrderInv' BY <1>5, <2>1, Zenon DEF CInv, OrderInv
    <2> QED BY <1>4, <2>3, <2>4, Zenon DEF CInv
  <1>6. CASE pc = "written" /\ file' = [file EXCEPT ![made] = 0] /\ UNCHANGED <<prev, seq>>
    BY <1>1, <1>4, <1>6, TakenBack, Zenon DEF CInv
  <1> QED BY <1>5, <1>6, Zenon DEF Crash, WithoutLast, disk

LEMMA CStep == Faults = {} /\ CInv /\ [Next]_vars => CInv'
  <1> SUFFICES ASSUME Faults = {}, CInv, [Next]_vars PROVE CInv' BY Zenon
  <1>0. AInv' BY AStep, Zenon DEF CInv
  <1>1. CASE Next BY <1>0, <1>1, OpenC, RotateC, PruneC, WriteC, SyncC, CrashC, Zenon DEF Next
  <1>2. CASE UNCHANGED vars
    <2>1. UNCHANGED <<file, prev, seq, bad, torn, made, acked, pc, fd, tip, aseq, segNext, todo>>
      BY <1>2, Zenon DEF vars, disk
    <2>2. OnDisk' = OnDisk /\ listSegments' = listSegments BY <2>1, Zenon DEF OnDisk, listSegments, In
    <2>3. CleanInv' /\ OrderInv' /\ PruneInv' BY <2>1, <2>2, Zenon DEF CInv, CleanInv, OrderInv, PruneInv
    <2>4. TipInv' BY <2>1, <2>2, Zenon DEF CInv, TipInv
    <2>5. LinkInv' BY <2>1, <2>2, Zenon DEF CInv, LinkInv, Follows, First, Anchored
    <2> QED BY <1>0, <2>3, <2>4, <2>5, Zenon DEF CInv
  <1> QED BY <1>1, <1>2, Zenon

\* The inductive invariant of the writer when no repair fails in its turn.
THEOREM CleanInvariant == ASSUME Faults = {} PROVE Spec => []CInv
  <1>1. CInv /\ [Next]_vars => CInv' BY CStep, Zenon
  <1> QED BY <1>1, CInit, PTL DEF Spec

-----------------------------------------------------------------------------
(* What the verifier finds                                                 *)

LEMMA InFiles ==
    ASSUME TypeOK
    PROVE  UNION {In(f) : f \in File} = OnDisk
  <1>1. \A x \in OnDisk : file[x] \in File /\ x \in In(file[x])
    BY Sizes DEF TypeOK, OnDisk, In, File
  <1>2. \A f \in File : In(f) \subseteq OnDisk BY Sizes, Zenon DEF In, OnDisk
  <1> QED BY <1>1, <1>2, Zenon

\* A chain whose records are linked passes.
LEMMA LinkedPasses == CInv => BootGatePasses
  <1> SUFFICES ASSUME CInv PROVE BootGatePasses BY Zenon
  <1> DEFINE recs == [f \in File |-> In(f)]
             segs == {n \in Seg : recs[n] # {} \/ n \in torn}
             Lines == UNION {recs[f] : f \in File}
             Parsed == Lines \ bad
             Before(x) == {y \in Parsed : y < x}
             Linked(x, p) ==
               IF p # 0 THEN prev[x] = p /\ seq[x] \in {1, seq[p] + 1}
               ELSE \/ prev[x] = 0 /\ seq[x] = 1
                    \/ segs # {} /\ Min(segs) # 1 /\ x \in recs[Min(segs)]
  <1>1. TypeOK /\ bad = {} /\ torn \subseteq {Live} /\ Live \notin Seg
    BY Sizes, Zenon DEF CInv, AInv, CleanInv
  <1>2. \A f \in File : recs[f] = In(f) BY Zenon
  <1>3. Lines = OnDisk /\ Parsed = OnDisk BY <1>1, <1>2, InFiles, Zenon
  <1>4. segs = {n \in Seg : In(n) # {}} BY <1>1, <1>2, Sizes, Zenon
  <1>5. \A f, g \in File : f < g => \A x \in recs[f], y \in recs[g] : x < y
    BY <1>2, Sizes DEF In, OnDisk, CInv, OrderInv
  <1>6. ASSUME NEW x \in OnDisk
        PROVE  Linked(x, IF Before(x) = {} THEN 0 ELSE Max(Before(x)))
    <2>0. /\ Before(x) = {y \in OnDisk : y < x} /\ x \in Rec
          /\ Before(x) \in SUBSET (0..MaxRec) /\ MaxRec \in Nat /\ \A y \in OnDisk : y \in Nat /\ y # 0
      BY <1>3, Sizes DEF OnDisk, Rec
    <2>1. CASE Follows(x)
      <3>1. prev[x] \in Before(x) /\ \A z \in Before(x) : z <= prev[x] BY <2>0, <2>1, Zenon DEF Follows
      <3>2. Max(Before(x)) \in Before(x) /\ \A z \in Before(x) : z <= Max(Before(x))
        BY <2>0, <3>1, MaxOf, Zenon
      <3> DEFINE g == Max(Before(x))
      <3>3. g \in Before(x) /\ prev[x] <= g /\ g <= prev[x] BY <3>1, <3>2, Zenon
      <3>4. prev[x] \in Nat /\ prev[x] # 0 /\ \A z \in Before(x) : z \in Nat BY <2>0, <3>1, Zenon
      <3> HIDE DEF g
      <3>5. g = prev[x] BY <3>3, <3>4
      <3> QED BY <2>1, <3>1, <3>4, <3>5, Zenon DEF Follows, g
    <2>2. CASE First(x) /\ ~Anchored(x)
      <3>1. Before(x) = {} BY <2>0, <2>2 DEF First
      <3> QED BY <2>2, <3>1, Zenon DEF First
    <2>3. CASE First(x) /\ Anchored(x)
      <3>1. Before(x) = {} BY <2>0, <2>3 DEF First
      <3>2. file[x] \in segs /\ file[x] \in Nat /\ file[x] # 1
        <4>1. file[x] \in Seg /\ file[x] # 1 BY <2>3, Zenon DEF Anchored
        <4>2. x \in In(file[x]) BY <2>0, Zenon DEF In
        <4>3. file[x] \in Nat BY <4>1 DEF Seg
        <4> HIDE DEF segs
        <4> QED BY <1>4, <4>1, <4>2, <4>3, Zenon
      <3>3. segs \in SUBSET Nat BY DEF Seg
      <3>4. Min(segs) \in segs /\ \A n \in segs : Min(segs) <= n BY <3>2, <3>3, MinOf, Zenon
      <3> DEFINE m == Min(segs)
      <3>5. PICK y \in Rec : file[y] = m BY <1>4, <3>4, Zenon DEF In
      <3> HIDE DEF m
      <3>6. m \in Seg /\ m <= file[x] /\ m \in Nat BY <3>2, <3>4 DEF m, Seg
      <3>7. y \in OnDisk BY <3>5, <3>6, Sizes, Zenon DEF OnDisk, Seg
      <3>8. m = file[x]
        <4>1. x <= y BY <2>3, <3>7, Zenon DEF First
        <4>2. ~(file[y] < file[x]) BY <2>0, <3>7, <4>1 DEF CInv, OrderInv
        <4> QED BY <3>2, <3>5, <3>6, <4>2
      <3>9. m \in File /\ x \in In(m) BY <2>0, <3>6, <3>8, Sizes, Zenon DEF In
      <3>10. segs # {} /\ m # 1 /\ x \in recs[m] BY <1>2, <3>2, <3>8, <3>9, Zenon
      <3> QED BY <3>1, <3>10, Zenon DEF m
    <2> QED BY <2>1, <2>2, <2>3, Zenon DEF CInv, LinkInv
  <1>7. \A x \in bad \cap Lines : x \in recs[Live] /\ x = Max(Lines) /\ Live \notin torn BY <1>1, Zenon
  <1>8. \A x \in Parsed : Linked(x, IF Before(x) = {} THEN 0 ELSE Max(Before(x))) BY <1>3, <1>6, Zenon
  <1> QED BY <1>1, <1>5, <1>7, <1>8, Zenon DEF BootGatePasses, verifySegmentedChain, verifyFiles

\* Whatever write, sync, rename or create fails and wherever a crash strikes, what
\* this code leaves on disk verifies, for chains of any length (append's rollback,
\* repairTornTail, rotate, pruneSegments against verifySegmentedChain).
THEOREM BootGateAlwaysPasses == ASSUME Faults = {} PROVE Spec => []BootGatePasses
  BY CleanInvariant, LinkedPasses, PTL

-----------------------------------------------------------------------------
(* The append-only log                                                     *)

LogBar == {x \in OnDisk : pc = "written" => x # made}

LEMMA LogStep ==
    ASSUME Faults = {}, CInv, Next
    PROVE  Log!Next \/ LogBar' = LogBar
  <1>0. AInv' BY AStep, Zenon DEF CInv
  <1>1. CASE openAuditLog BY <1>1, Zenon DEF openAuditLog, LogBar, OnDisk
  <1>2. CASE \/ appendNoRotate \/ rotateRename \/ rotateOpenErr \/ unrenameErr \/ rotateOpen
             \/ pruned \/ writeErr
    <2>1. OnDisk' = OnDisk BY <1>0, <1>2, RotateC, Zenon
    <2>2. pc # "written" /\ pc' # "written"
      BY <1>2, Zenon DEF appendNoRotate, rotateRename, rotateOpenErr, unrenameErr, rotateOpen, pruned, writeErr
    <2> QED BY <2>1, <2>2, Zenon DEF LogBar
  <1>3. ASSUME NEW failed \in BOOLEAN, pruneOne(failed) PROVE Log!Next
    <2>1. /\ OnDisk' = {y \in OnDisk : file[y] # Min(todo)}
          /\ \A x \in OnDisk \ OnDisk', y \in OnDisk' : x < y
          /\ OnDisk' # {}
      BY <1>3, Unlinked, Zenon
    <2>2. LogBar = OnDisk /\ LogBar' = OnDisk' BY <1>3, Zenon DEF pruneOne, LogBar
    <2>3. OnDisk' \subseteq OnDisk /\ \A y \in OnDisk : y \in Nat /\ y \in Rec BY <2>1 DEF OnDisk, Rec
    <2> DEFINE D == OnDisk'
               x == Min(D)
    <2>4. D \in SUBSET Nat /\ D # {} BY <2>1, <2>3, Zenon
    <2> HIDE DEF D
    <2>5. x \in D /\ \A y \in D : x <= y BY <2>4, MinOf, Zenon
    <2> HIDE DEF x
    <2>6. x \in LogBar /\ x \in Rec /\ x \in Nat BY <2>2, <2>3, <2>5, Zenon DEF D
    <2>7. \A y \in OnDisk : y >= x <=> y \in D
      <3> SUFFICES ASSUME NEW y \in OnDisk PROVE y >= x <=> y \in D BY Zenon
      <3>1. y \notin D => y < x BY <2>1, <2>5, Zenon DEF D
      <3> QED BY <2>3, <2>5, <2>6, <3>1
    <2>8. LogBar' = {y \in LogBar : y >= x} BY <2>2, <2>3, <2>7, Zenon DEF D
    <2> QED BY <2>6, <2>8, Zenon DEF Log!Next, Log!Append, Log!Prune, LogBar
  <1>4. CASE write
    <2>1. OnDisk' \ {made'} = OnDisk /\ pc = "write" /\ pc' = "written"
      BY <1>0, <1>4, WriteC, Zenon DEF write
    <2> QED BY <2>1, Zenon DEF LogBar
  <1>5. ASSUME pc = "written", OnDisk' = OnDisk, pc' # "written" PROVE Log!Next
    <2>1. made \in Rec /\ made \in OnDisk /\ made \in Nat /\ \A y \in OnDisk : y \in Nat /\ y <= made
      BY <1>5, Sizes DEF CInv, AInv, TypeOK, RecordInv, OnDisk, Rec
    <2>2. LogBar = OnDisk \ {made} /\ LogBar' = OnDisk BY <1>5, Zenon DEF LogBar
    <2>3. LogBar' = LogBar \cup {made} /\ \A y \in LogBar : y < made BY <2>1, <2>2
    <2> QED BY <2>1, <2>3, Zenon DEF Log!Next, Log!Append, Log!Prune, LogBar
  <1>6. ASSUME pc = "written", OnDisk' = OnDisk \ {made}, pc' # "written" PROVE LogBar' = LogBar
    BY <1>6, Zenon DEF LogBar
  <1>7. CASE syncOK BY <1>5, <1>7, Zenon DEF syncOK, OnDisk, disk
  <1>8. CASE syncErr
    <2>1. /\ pc = "written" /\ pc' = "idle" /\ UNCHANGED <<prev, seq, segNext>>
          /\ file' = [file EXCEPT ![made] = 0]
      BY <1>8, Zenon DEF syncErr, WithoutLast
    <2> QED BY <1>6, <2>1, TakenBack, Zenon
  <1>9. CASE Crash
    <2>1. pc' = "down" BY <1>9, Zenon DEF Crash
    <2>2. CASE UNCHANGED file
      <3>1. OnDisk' = OnDisk BY <2>2, Zenon DEF OnDisk
      <3> QED BY <1>5, <2>1, <3>1, Zenon DEF LogBar
    <2>3. CASE pc = "written" /\ file' = [file EXCEPT ![made] = 0] /\ UNCHANGED <<prev, seq>>
      BY <1>6, <2>1, <2>3, TakenBack, Zenon
    <2> QED BY <1>9, <2>2, <2>3, Zenon DEF Crash, WithoutLast, disk
  <1> QED BY <1>1, <1>2, <1>3, <1>4, <1>7, <1>8, <1>9, Zenon DEF Next

\* The chain on disk is an append-only log up to pruning from its beginning, for
\* chains of any length and a crash at any step: append, rotate, pruneSegments and
\* openAuditLog implement AppendOnlyLog.
THEOREM ChainRefinesLog == ASSUME Faults = {} PROVE Spec => ImplementsLog
  <1>1. Init => Log!Init BY Zenon DEF Init, Log!Init, OnDisk
  <1>2. CInv /\ [Next]_vars => [Log!Next]_LogBar
    <2> SUFFICES ASSUME CInv, [Next]_vars PROVE Log!Next \/ LogBar' = LogBar BY Zenon
    <2>1. CASE Next BY <2>1, LogStep, Zenon
    <2>2. CASE UNCHANGED vars BY <2>2, Zenon DEF vars, disk, LogBar, OnDisk
    <2> QED BY <2>1, <2>2, Zenon
  <1>3. CInv /\ [Next]_vars => [Log!Next]_{x \in OnDisk : pc = "written" => x # made}
    BY <1>2, Zenon DEF LogBar
  <1> QED BY <1>1, <1>3, CleanInvariant, PTL DEF Spec, ImplementsLog, Log!Spec


\* The device beside the monitor is the device alone.
LEMMA DeviceStep == [MonNext]_monVars => [Next]_vars
  BY Zenon DEF MonNext, monVars, Device, quoteVerified, quoteNewestSegment, quoteRefused, noQuote,
         listRemoteSegments, fetchSegment, fetchLive, fetchErr, relist, VerifyChain, saveState, notSaved

\* What is proved of the chain holds of it while it is being polled.
THEOREM DeviceUndisturbed == MonSpec => Spec
  BY DeviceStep, PTL DEF MonSpec, MonInit, Spec

LEMMA Mul ==
    ASSUME NEW a \in Nat, NEW b \in Nat, NEW t \in Nat
    PROVE  a * t \in Nat /\ (a + 1) * t = a * t + t /\ (a <= b => a * t <= b * t)
  <1>1. a * t \in Nat /\ (a + 1) * t = a * t + t BY Z3, Zenon
  <1>2. a <= b => a * t <= b * t BY Z3, Zenon
  <1> QED BY <1>1, <1>2, Zenon

-----------------------------------------------------------------------------
(* Types                                                                   *)

StateFile == [pin : 0..MaxRec, races : 0..maxConsecutiveRaces, misses : 0..MissedThreshold]

Fetching == {"newest", "list", "fetch", "again"}

Poll == [pc : Fetching \cup {"idle", "verify", "save"}, st : StateFile,
         quoted : BOOLEAN, head : 0..MaxRec,
         segs : SUBSET Seg, left : SUBSET Seg, got : [File -> SUBSET Rec], frag : SUBSET File,
         alert : BOOLEAN, verdict : {"none", "pass", "fail"},
         stirred : BOOLEAN, unrenamed : BOOLEAN]

MonType == st \in StateFile /\ mon \in Poll /\ silent \in Nat

LEMMA Thresholds ==
    /\ MissedThreshold \in Nat /\ MissedThreshold >= 1
    /\ maxConsecutiveRaces \in Nat /\ maxConsecutiveRaces >= 1
  BY MonitorAssumption

LEMMA AtMost ==
    ASSUME NEW n \in Nat, NEW max \in Nat
    PROVE  /\ atMost(n, max) \in 0..max
           /\ n <= max => atMost(n, max) = n
           /\ n >= max => atMost(n, max) = max
  <1>1. {n, max} \in SUBSET Nat /\ {n, max} # {} BY Zenon
  <1>2. Min({n, max}) \in {n, max} /\ \A y \in {n, max} : Min({n, max}) <= y BY <1>1, MinOf, Zenon
  <1> QED BY <1>2 DEF atMost

LEMMA NoPollType == NoPoll \in Poll /\ NoPoll.st \in StateFile
  <1>1. 0 \in 0..MaxRec /\ 0 \in 0..maxConsecutiveRaces /\ 0 \in 0..MissedThreshold
    BY Thresholds, Sizes
  <1>2. NoPoll.st \in StateFile BY <1>1, Zenon DEF NoPoll, StateFile
  <1>3. [f \in File |-> {}] \in [File -> SUBSET Rec] BY Zenon
  <1>4. NoPoll \in Poll BY <1>1, <1>2, <1>3, Zenon DEF NoPoll, Poll, Fetching
  <1> QED BY <1>2, <1>4, Zenon

LEMMA FetchedType ==
    ASSUME mon \in Poll
    PROVE  /\ Fetched \subseteq Rec /\ Tip \in 0..MaxRec
           /\ Fetched # {} => Tip \in Fetched /\ \A y \in Fetched : y <= Tip
  <1>1. \A f \in File : mon.got[f] \subseteq Rec BY Zenon DEF Poll
  <1>2. Fetched \subseteq Rec BY <1>1, Zenon DEF Fetched
  <1>3. Fetched \in SUBSET (0..MaxRec) /\ MaxRec \in Nat BY <1>2, Sizes DEF Rec
  <1>4. CASE Fetched = {} BY <1>2, <1>3, <1>4 DEF Tip
  <1>5. CASE Fetched # {}
    <2>1. Tip \in Fetched /\ \A y \in Fetched : y <= Tip BY <1>3, <1>5, MaxOf, Zenon DEF Tip
    <2> QED BY <1>2, <1>3, <2>1, Zenon
  <1> QED BY <1>4, <1>5, Zenon

LEMMA MonTyped ==
    ASSUME TypeOK, MonType, MonNext
    PROVE  MonType'
  <1>0. st \in StateFile /\ mon \in Poll /\ silent \in Nat /\ NoPoll \in Poll /\ mon.st \in StateFile
    BY NoPollType, Zenon DEF MonType, Poll
  <1>1. CASE Device
    <2>1. UNCHANGED <<st, silent>> BY <1>1, Zenon DEF Device
    <2>2. mon' \in Poll
      <3>1. CASE mon.pc \in {"idle", "save"} BY <1>0, <1>1, <3>1, Zenon DEF Device
      <3>2. CASE mon.pc \notin {"idle", "save"} BY <1>0, <1>1, <3>2, Zenon DEF Device, Poll
      <3> QED BY <3>1, <3>2, Zenon
    <2> QED BY <1>0, <2>1, <2>2, Zenon DEF MonType
  <1>2. CASE quoteVerified
    <2>1. lastChainHash(Live, torn) \in 0..MaxRec BY LastHash, Zenon
    <2>2. [st EXCEPT !.misses = 0] \in StateFile BY <1>0, Thresholds DEF StateFile
    <2> QED BY <1>0, <1>2, <2>1, <2>2, Zenon DEF quoteVerified, MonType, Poll, Fetching
  <1>3. CASE quoteNewestSegment
    <2> DEFINE known == {f \in listSegments : lastChainHash(f, torn) # 0}
               h == IF known = {} THEN 0 ELSE lastChainHash(Max(known), torn)
    <2>1. h \in 0..MaxRec BY LastHash, Sizes
    <2> HIDE DEF h
    <2>2. mon' = [mon EXCEPT !.pc = "list", !.head = h] /\ UNCHANGED <<st, silent>>
      BY <1>3, Zenon DEF quoteNewestSegment, h
    <2> QED BY <1>0, <2>1, <2>2, Zenon DEF MonType, Poll, Fetching
  <1>4. CASE quoteRefused
    <2>1. PICK n \in {0, 1} : mon' = [NoPoll EXCEPT !.pc = "list", !.alert = TRUE,
                               !.st = [st EXCEPT !.misses = atMost(@ + n, MissedThreshold)]]
      BY <1>4, Zenon DEF quoteRefused
    <2>2. st.misses + n \in Nat BY <1>0 DEF StateFile
    <2>3. atMost(st.misses + n, MissedThreshold) \in 0..MissedThreshold BY <2>2, AtMost, Thresholds, Zenon
    <2>4. [st EXCEPT !.misses = atMost(@ + n, MissedThreshold)] \in StateFile
      BY <1>0, <2>3, Zenon DEF StateFile
    <2> QED BY <1>0, <1>4, <2>1, <2>4, Zenon DEF quoteRefused, MonType, Poll, Fetching
  <1>5. CASE noQuote
    <2>2. st.misses + 1 \in Nat BY <1>0 DEF StateFile
    <2>3. atMost(st.misses + 1, MissedThreshold) \in 0..MissedThreshold BY <2>2, AtMost, Thresholds, Zenon
    <2>4. [st EXCEPT !.misses = atMost(@ + 1, MissedThreshold)] \in StateFile
      BY <1>0, <2>3, Zenon DEF StateFile
    <2>5. (st.misses + 1 >= MissedThreshold) \in BOOLEAN OBVIOUS
    <2> QED BY <1>0, <1>5, <2>4, <2>5, Zenon DEF noQuote, MonType, Poll, Fetching
  <1>6. CASE listRemoteSegments
    <2>1. listSegments \in SUBSET Seg BY Listed, Zenon
    <2> QED BY <1>0, <1>6, <2>1, Zenon DEF listRemoteSegments, MonType, Poll, Fetching
  <1>7. ASSUME NEW f \in File, Got(f), UNCHANGED <<st, silent>> PROVE MonType'
    <2>1. In(f) \in SUBSET Rec /\ torn \in SUBSET File BY Zenon DEF In, TypeOK
    <2>2. mon' \in Poll BY <1>0, <1>7, <2>1, Zenon DEF Got, Poll, Fetching
    <2> QED BY <1>0, <1>7, <2>2, Zenon DEF MonType
  <1>8. CASE fetchSegment
    <2>1. Min(mon.left) \in File BY <1>8, Listed, Sizes, Zenon DEF fetchSegment
    <2> QED BY <1>7, <1>8, <2>1, Zenon DEF fetchSegment
  <1>9. CASE fetchLive
    <2>1. Live \in File BY Sizes DEF File
    <2> QED BY <1>7, <1>9, <2>1, Zenon DEF fetchLive
  <1>10. ASSUME NEW new \in StateFile, NEW a \in BOOLEAN, NEW v \in {"none", "pass", "fail"},
                Over(new, a, v), UNCHANGED <<st, silent>>
         PROVE  MonType'
    <2>1. (mon.alert \/ a) \in BOOLEAN BY Zenon
    <2> QED BY <1>0, <1>10, <2>1, Zenon DEF Over, MonType, Poll
  <1>11. CASE fetchErr
    <2>1. mon.quoted \in BOOLEAN BY <1>0, Zenon DEF Poll
    <2> QED BY <1>0, <1>10, <1>11, <2>1, Zenon DEF fetchErr
  <1>12. CASE relist
    <2> DEFINE n == mon.st.races + 1
    <2>1. n \in Nat BY <1>0 DEF StateFile
    <2>2. atMost(n, maxConsecutiveRaces) \in 0..maxConsecutiveRaces BY <2>1, AtMost, Thresholds, Zenon
    <2>3. [mon.st EXCEPT !.races = atMost(n, maxConsecutiveRaces)] \in StateFile
      BY <1>0, <2>2, Zenon DEF StateFile
    <2>4. (n >= maxConsecutiveRaces) \in BOOLEAN OBVIOUS
    <2>5. CASE listSegments = mon.segs
      <3>1. mon' = [mon EXCEPT !.pc = "verify", !.st.races = 0] BY <1>12, <2>5, Zenon DEF relist
      <3>2. [mon.st EXCEPT !.races = 0] \in StateFile BY <1>0, Thresholds DEF StateFile
      <3> QED BY <1>0, <1>12, <3>1, <3>2, Zenon DEF relist, MonType, Poll
    <2>6. CASE listSegments # mon.segs
      BY <1>10, <1>12, <2>3, <2>4, <2>6, Zenon DEF relist
    <2> QED BY <2>5, <2>6, Zenon
  <1>13. CASE VerifyChain
    <2>1. [mon.st EXCEPT !.pin = Tip] \in StateFile BY <1>0, FetchedType, Zenon DEF StateFile
    <2> QED BY <1>0, <1>10, <1>13, <2>1, Zenon DEF VerifyChain
  <1>14. CASE saveState \/ notSaved BY <1>0, <1>14 DEF saveState, notSaved, MonType
  <1> QED BY <1>1, <1>2, <1>3, <1>4, <1>5, <1>6, <1>8, <1>9, <1>11, <1>12, <1>13, <1>14, Zenon DEF MonNext

-----------------------------------------------------------------------------
(* The counters                                                            *)

\* What counts of r raced and m missed polls allow of s silent ones: fewer than
\* MissedThreshold after each raced one; once races alert, only misses are silent.
GoodState(r, m, s) ==
    /\ m = MissedThreshold => s = 0
    /\ IF r = maxConsecutiveRaces THEN s <= m ELSE s <= r * MissedThreshold + m

PollInv ==
    /\ GoodState(st.races, st.misses, silent)
    /\ mon.pc \in Fetching =>
         /\ mon.verdict = "none" /\ mon.st.races = st.races
         /\ mon.quoted => mon.st.misses = 0
         /\ ~mon.quoted /\ ~mon.alert => mon.st.misses = st.misses + 1 /\ mon.st.misses < MissedThreshold
    /\ mon.pc = "verify" => mon.verdict = "none"
    /\ mon.pc = "save" =>
         GoodState(mon.st.races, mon.st.misses,
                   IF mon.alert \/ mon.verdict = "pass" THEN 0 ELSE silent + 1)

\* After an alert or a pass any counts will do.
LEMMA HeardIsGood ==
    ASSUME NEW r \in Nat, NEW m \in Nat
    PROVE  GoodState(r, m, 0)
  <1>1. r * MissedThreshold \in Nat BY Mul, Thresholds, Zenon
  <1> QED BY <1>1 DEF GoodState

\* One more silent poll, of one more raced, one more missed or both.
LEMMA SilentIsGood ==
    ASSUME NEW r \in 0..maxConsecutiveRaces, NEW m \in 0..MissedThreshold, NEW s \in Nat, GoodState(r, m, s)
    PROVE  /\ m + 1 < MissedThreshold => GoodState(r, m + 1, s + 1)
           /\ r + 1 < maxConsecutiveRaces => GoodState(r + 1, 0, s + 1)
           /\ m + 1 < MissedThreshold /\ r + 1 < maxConsecutiveRaces => GoodState(r + 1, m + 1, s + 1)
  <1> DEFINE T == MissedThreshold
             a == r * T
             b == (r + 1) * T
  <1>1. a \in Nat /\ b = a + T /\ T \in Nat /\ T >= 1 /\ r \in Nat /\ m \in Nat /\ m <= T
        /\ maxConsecutiveRaces \in Nat
    BY Mul, Thresholds
  <1>2. /\ m = T => s = 0
        /\ IF r = maxConsecutiveRaces THEN s <= m ELSE s <= a + m
    BY Zenon DEF GoodState
  <1> HIDE DEF a, b, T
  <1>3. ASSUME m + 1 < T
        PROVE  IF r = maxConsecutiveRaces THEN s + 1 <= m + 1 ELSE s + 1 <= a + (m + 1)
    BY <1>1, <1>2
  <1>4. ASSUME r + 1 < maxConsecutiveRaces PROVE s + 1 <= b + 0
    BY <1>1, <1>2, <1>4
  <1>5. ASSUME m + 1 < T, r + 1 < maxConsecutiveRaces PROVE s + 1 <= b + (m + 1)
    BY <1>1, <1>2, <1>5
  <1>6. m + 1 < T => GoodState(r, m + 1, s + 1) BY <1>1, <1>3 DEF GoodState, T, a
  <1>7. r + 1 < maxConsecutiveRaces => GoodState(r + 1, 0, s + 1) BY <1>1, <1>4 DEF GoodState, T, b
  <1>8. m + 1 < T /\ r + 1 < maxConsecutiveRaces => GoodState(r + 1, m + 1, s + 1)
    BY <1>1, <1>5 DEF GoodState, T, b
  <1> QED BY <1>6, <1>7, <1>8, Zenon DEF T

LEMMA PollStep ==
    ASSUME MonType, MonType', PollInv, MonNext
    PROVE  PollInv'
  <1>0. /\ st \in StateFile /\ mon \in Poll /\ silent \in Nat /\ NoPoll \in Poll /\ mon.st \in StateFile
        /\ NoPoll.pc = "idle"
    BY NoPollType, Zenon DEF MonType, Poll, NoPoll
  <1>1. CASE Device
    <2>1. UNCHANGED <<st, silent>> BY <1>1, Zenon DEF Device
    <2>2. /\ mon'.pc = mon.pc /\ mon'.st = mon.st /\ mon'.quoted = mon.quoted
          /\ mon'.alert = mon.alert /\ mon'.verdict = mon.verdict
      BY <1>0, <1>1, Zenon DEF Device, Poll
    <2> QED BY <2>1, <2>2, Zenon DEF PollInv
  <1>2. CASE quoteVerified
    <2>1. /\ mon'.pc \in Fetching /\ mon'.verdict = "none" /\ mon'.quoted
          /\ mon'.st.races = st.races /\ mon'.st.misses = 0
      BY <1>0, <1>2, Zenon DEF quoteVerified, Poll, StateFile, Fetching, NoPoll
    <2> QED BY <1>2, <2>1, Zenon DEF quoteVerified, PollInv, Fetching
  <1>3. CASE quoteNewestSegment \/ listRemoteSegments
    <2>1. /\ mon'.pc \in Fetching /\ mon.pc \in Fetching /\ mon'.st = mon.st /\ mon'.quoted = mon.quoted
          /\ mon'.alert = mon.alert /\ mon'.verdict = mon.verdict /\ UNCHANGED <<st, silent>>
      BY <1>0, <1>3, Zenon DEF quoteNewestSegment, listRemoteSegments, Poll, Fetching
    <2> QED BY <2>1, Zenon DEF PollInv, Fetching
  <1>4. CASE quoteRefused
    <2>1. PICK n \in {0, 1} : mon' = [NoPoll EXCEPT !.pc = "list", !.alert = TRUE,
                               !.st = [st EXCEPT !.misses = atMost(@ + n, MissedThreshold)]]
      BY <1>4, Zenon DEF quoteRefused
    <2>2. /\ mon'.pc = "list" /\ mon'.verdict = "none" /\ ~mon'.quoted /\ mon'.alert
          /\ mon'.st.races = st.races
      BY <1>0, <2>1, Zenon DEF Poll, StateFile, NoPoll
    <2> QED BY <1>4, <2>2, Zenon DEF quoteRefused, PollInv, Fetching
  <1>5. CASE noQuote
    <2> DEFINE m == st.misses + 1
    <2>1. /\ mon'.pc = "list" /\ mon'.verdict = "none" /\ ~mon'.quoted
          /\ mon'.alert = (m >= MissedThreshold)
          /\ mon'.st.races = st.races /\ mon'.st.misses = atMost(m, MissedThreshold)
      BY <1>0, <1>5, Zenon DEF noQuote, Poll, StateFile, NoPoll
    <2>2. m \in Nat BY <1>0 DEF StateFile
    <2> HIDE DEF m
    <2>3. m >= MissedThreshold => mon'.alert BY <2>1, Zenon
    <2>4. ~(m >= MissedThreshold) => mon'.st.misses = m /\ m < MissedThreshold
      BY <2>1, <2>2, AtMost, Thresholds
    <2>5. ~mon'.alert => mon'.st.misses = m /\ m < MissedThreshold BY <2>3, <2>4, Zenon
    <2> QED BY <1>5, <2>1, <2>5, Zenon DEF noQuote, PollInv, Fetching, m
  <1>6. CASE fetchSegment \/ fetchLive
    <2>1. PICK f : Got(f) BY <1>6, Zenon DEF fetchSegment, fetchLive
    <2>2. mon.pc = "fetch" /\ UNCHANGED <<st, silent>> BY <1>6, Zenon DEF fetchSegment, fetchLive
    <2>3. /\ mon'.pc \in {"fetch", "again"} /\ mon'.st = mon.st /\ mon'.quoted = mon.quoted
          /\ mon'.alert = mon.alert /\ mon'.verdict = mon.verdict
      BY <1>0, <2>1, <2>2, Zenon DEF Got, Poll
    <2> QED BY <2>2, <2>3, Zenon DEF PollInv, Fetching
  <1>7. ASSUME NEW new \in StateFile, NEW a \in BOOLEAN, NEW v \in {"none", "pass", "fail"},
               Over(new, a, v), UNCHANGED <<st, silent>>,
               GoodState(new.races, new.misses, IF (mon.alert \/ a) \/ v = "pass" THEN 0 ELSE silent + 1)
        PROVE  PollInv'
    <2>1. mon'.pc = "save" /\ mon'.st = new /\ mon'.alert = (mon.alert \/ a) /\ mon'.verdict = v
      BY <1>0, <1>7, Zenon DEF Over, Poll
    <2> QED BY <1>7, <2>1, Zenon DEF PollInv, Fetching
  <1>8. ASSUME NEW new \in StateFile PROVE GoodState(new.races, new.misses, 0)
    BY HeardIsGood DEF StateFile
  <1>9. /\ st.races \in 0..maxConsecutiveRaces /\ st.misses \in 0..MissedThreshold
        /\ GoodState(st.races, st.misses, silent)
    BY <1>0, Zenon DEF StateFile, PollInv
  <1>10. CASE fetchErr
    <2>0. mon.pc \in Fetching /\ Over(mon.st, mon.quoted, "none") /\ mon.quoted \in BOOLEAN /\ UNCHANGED <<st, silent>>
      BY <1>0, <1>10, Zenon DEF fetchErr, Fetching, Poll
    <2>1. CASE mon.alert \/ mon.quoted BY <1>0, <1>7, <1>8, <2>0, <2>1, Zenon
    <2>2. CASE ~mon.alert /\ ~mon.quoted
      <3>1. mon.st.races = st.races /\ mon.st.misses = st.misses + 1 /\ mon.st.misses < MissedThreshold
        BY <2>0, <2>2, Zenon DEF PollInv
      <3>2. GoodState(mon.st.races, mon.st.misses, silent + 1) BY <1>0, <1>9, <3>1, SilentIsGood, Zenon
      <3> QED BY <1>0, <1>7, <2>0, <2>2, <3>2, Zenon
    <2> QED BY <2>1, <2>2, Zenon
  <1>11. CASE relist /\ listSegments = mon.segs
    <2>1. mon' = [mon EXCEPT !.pc = "verify", !.st.races = 0] /\ mon.pc = "again" /\ UNCHANGED <<st, silent>>
      BY <1>11, Zenon DEF relist
    <2>2. mon'.pc = "verify" /\ mon'.verdict = mon.verdict BY <1>0, <2>1, Zenon DEF Poll
    <2> QED BY <2>1, <2>2, Zenon DEF PollInv, Fetching
  <1>12. CASE relist /\ listSegments # mon.segs
    <2> DEFINE n == mon.st.races + 1
               new == [mon.st EXCEPT !.races = atMost(n, maxConsecutiveRaces)]
    <2>0. mon.pc = "again" /\ Over(new, n >= maxConsecutiveRaces, "none") /\ UNCHANGED <<st, silent>>
      BY <1>12, Zenon DEF relist
    <2>1. n \in Nat /\ n = st.races + 1 /\ (n >= maxConsecutiveRaces) \in BOOLEAN
      BY <1>0, <2>0 DEF StateFile, PollInv, Fetching
    <2>2. atMost(n, maxConsecutiveRaces) \in 0..maxConsecutiveRaces
          /\ (n <= maxConsecutiveRaces => atMost(n, maxConsecutiveRaces) = n)
      BY <2>1, AtMost, Thresholds, Zenon
    <2>3. new \in StateFile /\ new.misses = mon.st.misses /\ new.races = atMost(n, maxConsecutiveRaces)
      BY <1>0, <2>2, Zenon DEF StateFile
    <2> HIDE DEF n, new
    <2>4. CASE mon.alert \/ n >= maxConsecutiveRaces BY <1>7, <1>8, <2>0, <2>1, <2>3, <2>4, Zenon
    <2>5. CASE ~mon.alert /\ ~(n >= maxConsecutiveRaces)
      <3>1. n < maxConsecutiveRaces /\ new.races = n BY <2>1, <2>2, <2>3, <2>5, Thresholds
      <3>2. /\ mon.quoted => mon.st.misses = 0
            /\ ~mon.quoted => mon.st.misses = st.misses + 1 /\ mon.st.misses < MissedThreshold
        BY <2>0, <2>5, Zenon DEF PollInv, Fetching
      <3>3. GoodState(new.races, new.misses, silent + 1)
        BY <1>0, <1>9, <2>1, <2>3, <3>1, <3>2, SilentIsGood, Zenon
      <3> QED BY <1>7, <2>0, <2>1, <2>3, <2>5, <3>3, Zenon
    <2> QED BY <2>4, <2>5, Zenon
  <1>13. CASE VerifyChain
    <2>1. [mon.st EXCEPT !.pin = Tip] \in StateFile BY <1>0, FetchedType, Zenon DEF StateFile
    <2> QED BY <1>0, <1>7, <1>8, <1>13, <2>1, Zenon DEF VerifyChain
  <1>14. CASE saveState BY <1>0, <1>14, Zenon DEF saveState, PollInv, Fetching
  <1>15. CASE notSaved BY <1>0, <1>15, Zenon DEF notSaved, PollInv, Fetching
  <1> QED
    BY <1>1, <1>2, <1>3, <1>4, <1>5, <1>6, <1>10, <1>11, <1>12, <1>13, <1>14, <1>15, Zenon DEF MonNext

-----------------------------------------------------------------------------
(* The pin                                                                 *)

\* DescendsFrom by records that have been made, whose links stay.
Descends(q, p) ==
    \E S \in SUBSET (1..made) : {p, q} \subseteq S /\ \A x \in S \ {p} : x > p /\ prev[x] \in S

PinInv ==
    /\ \A f \in File : mon.got[f] \subseteq 1..made
    /\ mon.pc \notin {"idle", "save"} => mon.st.pin = st.pin
    /\ mon.pc = "save" /\ mon.st.pin # st.pin /\ st.pin # 0 => Descends(mon.st.pin, st.pin)

LEMMA DescendsStays ==
    ASSUME AInv, [Next]_vars, NEW p, NEW q, Descends(q, p)
    PROVE  Descends(q, p)'
  <1>1. PICK S \in SUBSET (1..made) : {p, q} \subseteq S /\ \A x \in S \ {p} : x > p /\ prev[x] \in S
    BY Zenon DEF Descends
  <1>2. made \in 0..MaxRec /\ MaxRec \in Nat /\ prev \in [Rec -> 0..MaxRec]
    BY Sizes, Zenon DEF AInv, TypeOK
  <1>3. made' \in {made, made + 1} /\ \A x \in 1..made : prev'[x] = prev[x]
    <2>1. CASE write BY <1>2, <2>1 DEF write
    <2>2. CASE ~write
      BY <2>2, Zenon DEF Next, vars, disk, openAuditLog, appendNoRotate, rotateRename, rotateOpenErr, unrenameErr,
                  rotateOpen, pruneOne, pruned, writeErr, syncOK, syncErr, Crash, WithoutLast
    <2> QED BY <2>1, <2>2, Zenon
  <1>4. S \in SUBSET (1..made') BY <1>1, <1>2, <1>3
  <1>5. \A x \in S \ {p} : x > p /\ prev'[x] \in S BY <1>1, <1>3, Zenon
  <1> QED BY <1>1, <1>4, <1>5, Zenon DEF Descends

LEMMA MadeGrows ==
    ASSUME AInv, [Next]_vars
    PROVE  1..made \subseteq 1..made'
  <1>1. made \in Nat BY Sizes DEF AInv, TypeOK
  <1>2. made' \in {made, made + 1}
    BY Zenon DEF Next, vars, disk, openAuditLog, appendNoRotate, rotateRename, rotateOpenErr, unrenameErr,
           rotateOpen, pruneOne, pruned, write, writeErr, syncOK, syncErr, Crash, WithoutLast
  <1> QED BY <1>1, <1>2

\* A chain that verifies with p in it is linked from p to its tip.
LEMMA PassDescends ==
    ASSUME MonType, chainPasses, mon.st.pin # 0, made \in Nat,
           \A f \in File : mon.got[f] \subseteq 1..made
    PROVE  Descends(Tip, mon.st.pin)
  <1> DEFINE p == mon.st.pin
             S == {x \in Fetched : x >= p}
             Before(x) == {y \in Fetched : y < x}
  <1>1. p \in Fetched BY Zenon DEF chainPasses
  <1>2. /\ Fetched \subseteq Rec /\ Tip \in Fetched /\ \A y \in Fetched : y <= Tip
        /\ \A y \in Fetched : y \in Nat /\ y # 0
    BY <1>1, FetchedType DEF MonType, Rec
  <1>3. Fetched \subseteq 1..made BY Zenon DEF Fetched
  <1>4. \A x \in Fetched : Before(x) # {} /\ Max(Before(x)) # 0 => prev[x] = Max(Before(x))
    BY Zenon DEF chainPasses, verifyFiles, Fetched
  <1>5. ASSUME NEW x \in S \ {p} PROVE x > p /\ prev[x] \in S
    <2>1. x \in Fetched /\ x > p /\ x \in Nat /\ p \in Nat BY <1>1, <1>2
    <2>2. p \in Before(x) BY <1>1, <2>1, Zenon
    <2>3. Before(x) \in SUBSET (0..MaxRec) /\ MaxRec \in Nat
      <3>1. MaxRec \in Nat /\ \A y \in Rec : y \in 0..MaxRec BY Sizes DEF Rec
      <3>2. Before(x) \subseteq Rec BY <1>2, Zenon
      <3> QED BY <3>1, <3>2, Zenon
    <2>4. Max(Before(x)) \in Before(x) /\ \A y \in Before(x) : Max(Before(x)) >= y
      BY <2>2, <2>3, MaxOf, Zenon
    <2>5. Max(Before(x)) # 0 /\ Max(Before(x)) \in Fetched /\ Max(Before(x)) >= p
      BY <1>2, <2>2, <2>4, Zenon
    <2> QED BY <1>4, <2>1, <2>2, <2>5, Zenon
  <1>6. p \in S /\ Tip \in S BY <1>1, <1>2
  <1>7. S \in SUBSET (1..made) BY <1>3, Zenon
  <1> HIDE DEF S, p
  <1>8. Descends(Tip, p) BY <1>5, <1>6, <1>7, Zenon DEF Descends
  <1> QED BY <1>8, Zenon DEF p

LEMMA PinStep ==
    ASSUME AInv, MonType, MonType', PinInv, MonNext
    PROVE  PinInv'
  <1>0. /\ st \in StateFile /\ mon \in Poll /\ NoPoll \in Poll /\ mon.st \in StateFile /\ made \in Nat
        /\ NoPoll.pc = "idle" /\ NoPoll.got = [f \in File |-> {}]
        /\ \A f \in File : mon.got[f] \subseteq 1..made
    <2>1. st \in StateFile /\ mon \in Poll /\ NoPoll \in Poll BY NoPollType, Zenon DEF MonType
    <2>2. mon.st \in StateFile BY <2>1, Zenon DEF Poll
    <2>3. made \in Nat BY Sizes DEF AInv, TypeOK
    <2>4. NoPoll.pc = "idle" /\ NoPoll.got = [f \in File |-> {}] BY Zenon DEF NoPoll
    <2>5. \A f \in File : mon.got[f] \subseteq 1..made BY Zenon DEF PinInv
    <2> QED BY <2>1, <2>2, <2>3, <2>4, <2>5, Zenon
  <1>1. CASE Device
    <2>1. Next /\ UNCHANGED st BY <1>1, Zenon DEF Device
    <2>2. mon'.pc = mon.pc /\ mon'.st = mon.st /\ mon'.got = mon.got
      BY <1>0, <1>1, Zenon DEF Device, Poll
    <2>3. 1..made \subseteq 1..made' BY <2>1, MadeGrows, Zenon
    <2>4. \A f \in File : mon'.got[f] \subseteq 1..made' BY <1>0, <2>2, <2>3, Zenon
    <2>5. ASSUME Descends(mon.st.pin, st.pin) PROVE Descends(mon.st.pin, st.pin)'
      <3>1. PICK p : p = st.pin BY Zenon
      <3>2. PICK q : q = mon.st.pin BY Zenon
      <3>3. Descends(q, p) BY <2>5, <3>1, <3>2, Zenon
      <3>4. Descends(q, p)' BY <2>1, <3>3, DescendsStays, Zenon
      <3> QED BY <2>1, <2>2, <3>1, <3>2, <3>4, Zenon DEF Descends
    <2> QED BY <2>1, <2>2, <2>4, <2>5, Zenon DEF PinInv
  <1>2. CASE quoteVerified \/ quoteRefused \/ noQuote
    <2>1. mon'.pc \in Fetching /\ mon'.st.pin = st.pin /\ mon'.got = NoPoll.got /\ UNCHANGED <<vars, st>>
      <3>1. CASE quoteVerified BY <1>0, <3>1, Zenon DEF quoteVerified, Poll, StateFile, Fetching
      <3>2. CASE quoteRefused BY <1>0, <3>2 DEF quoteRefused, Poll, StateFile, Fetching
      <3>3. CASE noQuote BY <1>0, <3>3, Zenon DEF noQuote, Poll, StateFile, Fetching
      <3> QED BY <1>2, <3>1, <3>2, <3>3, Zenon
    <2> QED BY <1>0, <2>1, Zenon DEF PinInv, Fetching
  <1>3. CASE quoteNewestSegment \/ listRemoteSegments \/ (relist /\ listSegments = mon.segs)
    <2>1. /\ mon'.pc \notin {"idle", "save"} /\ mon.pc \notin {"idle", "save"}
          /\ mon'.st.pin = mon.st.pin /\ mon'.got = mon.got /\ UNCHANGED <<vars, st>>
      <3>1. CASE quoteNewestSegment
        <4>1. PICK h : mon' = [mon EXCEPT !.pc = "list", !.head = h] BY <3>1, Zenon DEF quoteNewestSegment
        <4> QED BY <1>0, <3>1, <4>1, Zenon DEF quoteNewestSegment, Poll
      <3>2. CASE listRemoteSegments BY <1>0, <3>2, Zenon DEF listRemoteSegments, Poll
      <3>3. CASE relist /\ listSegments = mon.segs
        <4>1. /\ mon' = [mon EXCEPT !.pc = "verify", !.st.races = 0] /\ mon.pc = "again"
              /\ UNCHANGED <<vars, st>>
          BY <3>3, Zenon DEF relist
        <4>2. mon'.pc = "verify" /\ mon'.st = [mon.st EXCEPT !.races = 0] /\ mon'.got = mon.got
          BY <1>0, <4>1, Zenon DEF Poll
        <4>3. mon'.st.pin = mon.st.pin BY <1>0, <4>2, Zenon DEF StateFile
        <4> QED BY <4>1, <4>2, <4>3, Zenon
      <3> QED BY <1>3, <3>1, <3>2, <3>3, Zenon
    <2>2. made' = made BY <2>1, Zenon DEF vars
    <2> QED BY <1>0, <2>1, <2>2, Zenon DEF PinInv
  <1>4. CASE fetchSegment \/ fetchLive
    <2>1. PICK f : Got(f) BY <1>4, Zenon DEF fetchSegment, fetchLive
    <2>2. mon.pc = "fetch" /\ UNCHANGED <<vars, st>> BY <1>4, Zenon DEF fetchSegment, fetchLive
    <2>3. mon'.pc \in {"fetch", "again"} /\ mon'.st = mon.st /\ made' = made
      BY <1>0, <2>1, <2>2, Zenon DEF Got, Poll, vars
    <2>4. \A g \in File : mon'.got[g] = IF g = f THEN In(f) ELSE mon.got[g]
      BY <1>0, <2>1, Zenon DEF Got, Poll
    <2>5. \A g \in File : In(g) \subseteq 1..made
      BY Sizes DEF AInv, RecordInv, In, Rec, TypeOK
    <2> QED BY <1>0, <2>2, <2>3, <2>4, <2>5, Zenon DEF PinInv
  <1>5. ASSUME NEW new \in StateFile, NEW a, NEW v, Over(new, a, v), UNCHANGED <<vars, st>>,
               new.pin # st.pin /\ st.pin # 0 => Descends(new.pin, st.pin)
        PROVE  PinInv'
    <2>1. mon'.pc = "save" /\ mon'.st = new /\ mon'.got = NoPoll.got BY <1>0, <1>5, Zenon DEF Over, Poll
    <2>2. made' = made /\ prev' = prev BY <1>5, Zenon DEF vars, disk
    <2> QED BY <1>0, <1>5, <2>1, <2>2, Zenon DEF PinInv, Descends
  <1>6. CASE fetchErr
    <2>1. mon.st.pin = st.pin BY <1>6, Zenon DEF PinInv, fetchErr
    <2> QED BY <1>0, <1>5, <1>6, <2>1, Zenon DEF fetchErr
  <1>7. CASE relist /\ listSegments # mon.segs
    <2> DEFINE n == mon.st.races + 1
               new == [mon.st EXCEPT !.races = atMost(n, maxConsecutiveRaces)]
    <2>1. Over(new, n >= maxConsecutiveRaces, "none") /\ UNCHANGED <<vars, st>> /\ mon.st.pin = st.pin
      BY <1>7, Zenon DEF relist, PinInv
    <2>2. n \in Nat BY <1>0 DEF StateFile
    <2>3. atMost(n, maxConsecutiveRaces) \in 0..maxConsecutiveRaces BY <2>2, AtMost, Thresholds, Zenon
    <2>4. new \in StateFile /\ new.pin = mon.st.pin BY <1>0, <2>3, Zenon DEF StateFile
    <2> QED BY <1>5, <2>1, <2>4, Zenon
  <1>8. CASE VerifyChain
    <2>1. mon.st.pin = st.pin /\ UNCHANGED <<vars, st>> BY <1>8, Zenon DEF PinInv, VerifyChain
    <2>2. CASE chainPasses
      <3> DEFINE new == [mon.st EXCEPT !.pin = Tip]
      <3>1. new \in StateFile /\ new.pin = Tip BY <1>0, FetchedType, Zenon DEF StateFile
      <3>2. st.pin # 0 => Descends(Tip, st.pin) BY <1>0, <2>1, <2>2, PassDescends, Zenon
      <3>3. Over(new, FALSE, "pass") BY <1>8, <2>2, Zenon DEF VerifyChain
      <3> QED BY <1>5, <2>1, <3>1, <3>2, <3>3, Zenon
    <2>3. CASE ~chainPasses BY <1>0, <1>5, <1>8, <2>1, <2>3, Zenon DEF VerifyChain
    <2> QED BY <2>2, <2>3, Zenon
  <1>9. CASE saveState \/ notSaved
    <2>1. mon' = NoPoll BY <1>9, Zenon DEF saveState, notSaved
    <2> QED BY <1>0, <2>1, Zenon DEF PinInv
  <1> QED BY <1>1, <1>2, <1>3, <1>4, <1>6, <1>7, <1>8, <1>9, Zenon DEF MonNext

-----------------------------------------------------------------------------
(* The theorems                                                            *)

MInv == AInv /\ MonType /\ PollInv /\ PinInv

LEMMA MInit == MonInit => MInv
  <1> SUFFICES ASSUME MonInit PROVE MInv BY Zenon
  <1>1. AInv BY AInit, Zenon DEF MonInit
  <1>2. MonType BY NoPollType, Zenon DEF MonInit, MonType
  <1>3. st.races = 0 /\ st.misses = 0 /\ silent = 0 /\ mon.pc = "idle" /\ mon.got = [f \in File |-> {}]
    BY Zenon DEF MonInit, NoPoll
  <1>4. PollInv BY <1>3, HeardIsGood, Zenon DEF PollInv, Fetching
  <1>5. PinInv BY <1>3, Zenon DEF PinInv
  <1> QED BY <1>1, <1>2, <1>4, <1>5, Zenon DEF MInv

LEMMA MStep == MInv /\ [MonNext]_monVars => MInv'
  <1> SUFFICES ASSUME MInv, [MonNext]_monVars PROVE MInv' BY Zenon
  <1>1. AInv' BY AStep, DeviceStep, Zenon DEF MInv
  <1>2. CASE MonNext
    <2>1. MonType' BY <1>2, MonTyped, Zenon DEF MInv, AInv
    <2> QED BY <1>1, <1>2, <2>1, PollStep, PinStep, Zenon DEF MInv
  <1>3. CASE UNCHANGED monVars
    <2>1. UNCHANGED <<st, mon, silent, made, prev>> BY <1>3, Zenon DEF monVars, vars, disk
    <2> QED BY <1>1, <2>1, Zenon DEF MInv, MonType, PollInv, PinInv, Descends
  <1> QED BY <1>2, <1>3, Zenon

\* The inductive invariant of the witness beside its device, under any faults.
THEOREM MonitorInvariant == MonSpec => []MInv
  BY MInit, MStep, PTL DEF MonSpec

\* Fewer than maxConsecutiveRaces * MissedThreshold polls in a row are saved with
\* neither a pass nor an alert, for any thresholds, whatever the device does
\* (attestPoll's and witnessChains' counters, kept by runOnce).
THEOREM NeverEvaded == MonSpec => []NotEvaded
  <1>1. MInv => NotEvaded
    <2> SUFFICES ASSUME MInv PROVE NotEvaded BY Zenon
    <2> DEFINE R == maxConsecutiveRaces
               T == MissedThreshold
               r == st.races
    <2>1. /\ r \in 0..R /\ st.misses \in 0..T /\ silent \in Nat /\ GoodState(r, st.misses, silent)
      BY Zenon DEF MInv, MonType, PollInv, StateFile
    <2>2. R \in Nat /\ R >= 1 /\ T \in Nat /\ T >= 1 BY Thresholds, Zenon
    <2>3. r * T \in Nat /\ (r + 1) * T = r * T + T BY <2>1, <2>2, Mul
    <2>4. 1 * T <= R * T /\ R * T \in Nat BY <2>2, Mul, Zenon
    <2>5. r < R => (r + 1) * T <= R * T
      <3>1. r + 1 \in Nat /\ (r < R => r + 1 <= R) BY <2>1, <2>2
      <3> QED BY <2>2, <3>1, Mul, Zenon
    <2>6. CASE r = R
      <3>1. silent <= st.misses /\ (st.misses = T => silent = 0) BY <2>1, <2>6, Zenon DEF GoodState
      <3> QED BY <2>1, <2>2, <2>4, <3>1 DEF NotEvaded
    <2>7. CASE r # R
      <3>1. silent <= r * T + st.misses /\ (st.misses = T => silent = 0)
        BY <2>1, <2>7, Zenon DEF GoodState
      <3>2. r < R BY <2>1, <2>2, <2>7
      <3> DEFINE a == r * T
                 b == (r + 1) * T
                 c == R * T
      <3>3. a \in Nat /\ b = a + T /\ b <= c /\ c \in Nat /\ silent <= a + st.misses
        BY <2>3, <2>4, <2>5, <3>1, <3>2, Zenon
      <3> HIDE DEF a, b, c
      <3>4. silent < a + T
        <4>1. CASE st.misses = T BY <2>2, <3>1, <3>3, <4>1
        <4>2. CASE st.misses # T BY <2>1, <2>2, <3>3, <4>2
        <4> QED BY <4>1, <4>2, Zenon
      <3>5. silent < c BY <2>1, <2>2, <3>3, <3>4
      <3> QED BY <3>5, Zenon DEF NotEvaded, c
    <2> QED BY <2>6, <2>7, Zenon
  <1> QED BY <1>1, MonitorInvariant, PTL

\* The saved pin only moves to a record that descends from it, under any faults of
\* the device and for any chain (--since and verifySegmentedChain in witnessChains).
THEOREM PinOnlyDescends == MonSpec => PinDescends
  <1>1. MInv /\ [MonNext]_monVars =>
          [st'.pin # st.pin /\ st.pin # 0 => DescendsFrom(st'.pin, st.pin)]_monVars
    <2> SUFFICES ASSUME MInv, MonNext, st'.pin # st.pin, st.pin # 0
                 PROVE  DescendsFrom(st'.pin, st.pin)
      BY Zenon
    <2>1. CASE saveState
      <3>1. Descends(st'.pin, st.pin) BY <2>1, Zenon DEF saveState, MInv, PinInv
      <3>2. 1..made \subseteq Rec BY Sizes DEF MInv, AInv, TypeOK, Rec
      <3> QED BY <3>1, <3>2, Zenon DEF Descends, DescendsFrom
    <2>2. CASE ~saveState
      BY <2>2, Zenon DEF MonNext, Device, quoteVerified, quoteNewestSegment, quoteRefused, noQuote,
                  listRemoteSegments, fetchSegment, fetchLive, fetchErr, relist, VerifyChain, notSaved
    <2> QED BY <2>1, <2>2, Zenon
  <1> QED BY <1>1, MonitorInvariant, PTL DEF MonSpec, PinDescends

-----------------------------------------------------------------------------
(* What a poll fetches, without a second fault                             *)

\* A step that touches no segment.
LEMMA SegsStay ==
    ASSUME TypeOK, \A x \in Rec : file'[x] = file[x] \/ {file[x], file'[x]} \subseteq {0, Live},
           torn \subseteq {Live}, torn' \subseteq {Live}
    PROVE  listSegments' = listSegments /\ \A f \in Seg : In(f)' = In(f)
  <1>1. \A f \in Seg : f # 0 /\ f # Live BY Sizes, Zenon DEF Seg
  <1>2. \A f \in Seg : In(f)' = In(f) BY <1>1, Zenon DEF In
  <1>3. \A f \in Seg : f \notin torn /\ f \notin torn' BY <1>1, Zenon
  <1> QED BY <1>2, <1>3, Zenon DEF listSegments

\* Segments only come with a number above all there are, and only go while a newer one
\* stays; what is in one does not change.
LEMMA SegsMove ==
    ASSUME Faults = {}, CInv, CInv', Next, ~(pc = "sealed" /\ pc' = "write")
    PROVE  /\ \A m \in listSegments : \E n \in listSegments' : m <= n
           /\ \/ \E n \in listSegments' : \A m \in listSegments : m < n
              \/ listSegments' \subseteq listSegments /\ \A f \in listSegments' : In(f)' = In(f)
  <1>0. /\ TypeOK /\ file \in [Rec -> 0..Live] /\ made \in 0..MaxRec /\ MaxRec \in Nat
        /\ torn \subseteq {Live} /\ torn' \subseteq {Live} /\ (pc # "down" => torn = {})
        /\ listSegments \subseteq Seg /\ listSegments' \subseteq Seg /\ \A n \in Seg : n \in Nat /\ n # 0 /\ n < Live
    BY Sizes, Zenon DEF CInv, AInv, TypeOK, CleanInv, listSegments, Seg
  <1>1. CASE rotateRename
    <2>1. Below(segNext) /\ segNext \in Seg /\ torn = {} /\ fd = Live
      BY <1>0, <1>1, Sizes, Zenon DEF rotateRename, CInv, AInv, NumberInv
    <2>2. PICK x \in Rec : file[x] = Live
      <3>1. Cardinality(In(Live)) # 0 BY <1>1, <2>1, ChainAssumption DEF rotateRename, Size
      <3>2. In(Live) # {} BY <3>1, FS_EmptySet, Zenon
      <3> QED BY <3>2, Zenon DEF In
    <2>3. file'[x] = segNext BY <1>1, <2>1, <2>2, Sizes, Zenon DEF rotateRename
    <2>4. segNext \in listSegments' BY <2>1, <2>3, Zenon DEF listSegments, In
    <2> QED BY <1>0, <2>1, <2>4 DEF Below
  <1>2. ASSUME NEW failed \in BOOLEAN, pruneOne(failed)
        PROVE  /\ \A m \in listSegments : \E n \in listSegments' : m <= n
               /\ listSegments' \subseteq listSegments /\ \A f \in listSegments' : In(f)' = In(f)
    <2> DEFINE p == Min(todo)
               newer == {n \in listSegments : n > p}
    <2>1. todo \in SUBSET Nat /\ todo # {} BY <1>0, <1>2, Zenon DEF pruneOne, TypeOK, Seg
    <2>2. p \in todo BY <2>1, MinOf, Zenon
    <2>3. Cardinality(newer) >= SegKeep BY <1>2, <2>2, Zenon DEF pruneOne, CInv, AInv, NumberInv
    <2>4. newer # {} BY <2>3, Sizes, FS_EmptySet
    <2>5. file' = [x \in Rec |-> IF file[x] = p THEN 0 ELSE file[x]] /\ torn' = torn \ {p}
      BY <1>2, Zenon DEF pruneOne
    <2>6. p \in Seg BY <1>0, <2>2, Zenon DEF TypeOK
    <2>7. PICK n \in listSegments : n > p BY <2>4, Zenon
    <2> HIDE DEF p, newer
    <2>8. \A f \in Seg : f # p => In(f)' = In(f) /\ (f \in listSegments' <=> f \in listSegments)
      BY <1>0, <2>5, Zenon DEF In, listSegments
    <2>9. p \notin listSegments' BY <1>0, <2>5, <2>6, Zenon DEF In, listSegments
    <2>10. n \in Seg /\ p \in Nat /\ n \in Nat /\ n # p BY <1>0, <2>6, <2>7
    <2>11. n \in listSegments' BY <2>7, <2>8, <2>10, Zenon
    <2>12. ASSUME NEW m \in listSegments PROVE \E k \in listSegments' : m <= k
      <3>1. CASE m = p BY <2>7, <2>10, <2>11, <3>1
      <3>2. CASE m # p
        <4>1. m \in listSegments' /\ m <= m BY <1>0, <2>8, <3>2
        <4> QED BY <4>1, Zenon
      <3> QED BY <3>1, <3>2, Zenon
    <2> QED BY <1>0, <2>8, <2>9, <2>12, Zenon
  <1>3. ASSUME \A x \in Rec : file'[x] = file[x] \/ {file[x], file'[x]} \subseteq {0, Live}
        PROVE  /\ \A m \in listSegments : \E n \in listSegments' : m <= n
               /\ listSegments' \subseteq listSegments /\ \A f \in listSegments' : In(f)' = In(f)
    <2>1. listSegments' = listSegments /\ \A f \in Seg : In(f)' = In(f) BY <1>0, <1>3, SegsStay, Zenon
    <2>2. \A m \in listSegments : m <= m BY <1>0
    <2> QED BY <1>0, <2>1, <2>2, Zenon
  <1>4. CASE write
    <2>1. fd = Live BY <1>4, Zenon DEF write, CInv, CleanInv
    <2>2. \A x \in Rec : x = made + 1 => file[x] = 0 BY <1>0 DEF CInv, AInv, RecordInv
    <2>3. \A x \in Rec : file'[x] = IF x = made + 1 THEN Live ELSE file[x]
      BY <1>0, <1>4, <2>1, Zenon DEF write
    <2> QED BY <1>3, <2>2, <2>3, Zenon
  <1>5. CASE syncErr \/ Crash
    <2>1. \A x \in Rec : file'[x] = file[x] \/ (pc = "written" /\ x = made /\ file'[x] = 0)
      BY <1>0, <1>5, Zenon DEF syncErr, Crash, WithoutLast, disk
    <2>2. pc = "written" => file[made] = Live BY Zenon DEF CInv, CleanInv, AInv, RecordInv
    <2> QED BY <1>3, <2>1, <2>2, Zenon
  <1>6. CASE openAuditLog \/ appendNoRotate \/ rotateOpen \/ pruned \/ writeErr \/ syncOK
    <2>1. file' = file
      BY <1>6, Zenon DEF openAuditLog, appendNoRotate, rotateOpen, pruned, writeErr, syncOK, disk
    <2> QED BY <1>3, <2>1, Zenon
  <1>7. ~rotateOpenErr /\ ~unrenameErr BY Zenon DEF rotateOpenErr, unrenameErr
  <1> QED BY <1>1, <1>2, <1>3, <1>4, <1>5, <1>6, <1>7, Zenon DEF Next

\* The device has rotated since the poll listed its segments.
Moved == \E n \in listSegments : \A m \in mon.segs : m < n

\* While nothing was rotated every segment that is left is one of the list, and its copy
\* is right; the live file, fetched last, then completes a snapshot of one instant.
SnapInv ==
    /\ mon.pc \in {"newest", "list"} => mon.got = [f \in File |-> {}] /\ mon.frag = {}
    /\ mon.pc \in {"fetch", "again"} /\ ~mon.unrenamed =>
         /\ \A m \in mon.segs : \E n \in listSegments : m <= n
         /\ ~Moved => listSegments \subseteq mon.segs
    /\ mon.pc = "fetch" /\ ~mon.unrenamed =>
         /\ mon.left \subseteq mon.segs /\ mon.frag = {}
         /\ \A f \in File : f \notin mon.segs \ mon.left => mon.got[f] = {}
         /\ ~Moved => \A f \in listSegments \ mon.left : mon.got[f] = In(f)
    /\ mon.pc = "again" /\ ~mon.unrenamed /\ listSegments = mon.segs =>
         verifyFiles(mon.got, mon.frag, bad)
    /\ SnapshotVerifies

\* While the disk has not changed, the copies and the quoted head are what it holds.
QuietInv ==
    ~mon.stirred =>
      /\ mon.pc = "newest" => lastChainHash(Live, torn) = 0
      /\ mon.pc \in {"list", "fetch", "again", "verify"} /\ mon.quoted /\ torn = {} =>
           mon.head = lastChainTip({})
      /\ mon.pc = "fetch" =>
           /\ mon.segs = listSegments /\ mon.left \subseteq mon.segs
           /\ mon.frag = {}
           /\ \A f \in File : mon.got[f] = IF f \in mon.segs \ mon.left THEN In(f) ELSE {}
      /\ mon.pc \in {"again", "verify"} => mon.got = [f \in File |-> In(f)] /\ mon.frag = torn

\* What verified verifies later too: records that are made keep their links.
LEMMA VerifyStays ==
    ASSUME AInv, bad = {}, bad' = {}, [Next]_vars, NEW recs, \A f \in File : recs[f] \subseteq 1..made,
           NEW frag, verifyFiles(recs, frag, bad)
    PROVE  verifyFiles(recs, frag, bad)'
  <1> DEFINE Lines == UNION {recs[f] : f \in File}
             Before(x) == {y \in Lines : y < x}
             pred(x) == IF Before(x) = {} THEN 0 ELSE Max(Before(x))
             segs == {n \in Seg : recs[n] # {} \/ n \in frag}
             Root(x) == segs # {} /\ Min(segs) # 1 /\ x \in recs[Min(segs)]
  <1>1. made \in 0..MaxRec /\ MaxRec \in Nat BY Sizes, Zenon DEF AInv, TypeOK
  <1>2. \A x \in 1..made : prev'[x] = prev[x] /\ seq'[x] = seq[x]
    <2>1. CASE write BY <1>1, <2>1 DEF write, AInv, TypeOK
    <2>2. CASE ~write
      BY <2>2, Zenon DEF Next, vars, disk, openAuditLog, appendNoRotate, rotateRename, rotateOpenErr, unrenameErr,
                  rotateOpen, pruneOne, pruned, writeErr, syncOK, syncErr, Crash, WithoutLast
    <2> QED BY <2>1, <2>2, Zenon
  <1>3. Lines \subseteq 1..made BY Zenon
  <1>4. \A x \in Lines : Before(x) \in SUBSET (0..MaxRec) BY <1>1, <1>3
  <1>5. \A x \in Lines : pred(x) # 0 => pred(x) \in 1..made
    <2> SUFFICES ASSUME NEW x \in Lines, Before(x) # {} PROVE Max(Before(x)) \in 1..made BY Zenon
    <2>1. Max(Before(x)) \in Before(x) BY <1>1, <1>4, MaxOf, Zenon
    <2> QED BY <1>3, <2>1, Zenon
  <1>6. /\ \A f, g \in File : f < g => \A x \in recs[f], y \in recs[g] : x < y
        /\ frag \subseteq {Live}
        /\ \A x \in Lines : IF pred(x) # 0 THEN prev[x] = pred(x) /\ seq[x] \in {1, seq[pred(x)] + 1}
                            ELSE (prev[x] = 0 /\ seq[x] = 1) \/ Root(x)
    <2>1. Lines \ bad = Lines BY Zenon
    <2> QED BY <2>1, Zenon DEF verifyFiles
  <1> HIDE DEF pred, Root
  <1>7. \A x \in Lines : IF pred(x) # 0 THEN prev'[x] = pred(x) /\ seq'[x] \in {1, seq'[pred(x)] + 1}
                         ELSE (prev'[x] = 0 /\ seq'[x] = 1) \/ Root(x)
    BY <1>2, <1>3, <1>5, <1>6, Zenon
  <1>8. Lines \ bad' = Lines /\ bad' \cap Lines = {} BY Zenon
  <1> QED BY <1>6, <1>7, <1>8, Zenon DEF verifyFiles, pred, Root

LEMMA VerifySame ==
    ASSUME NEW recs, NEW frag, mon'.got = recs, mon'.frag = frag, verifyFiles(recs, frag, bad)'
    PROVE  verifyFiles(mon.got, mon.frag, bad)'
  <1> DEFINE Lines(r) == UNION {r[f] : f \in File}
             Parsed(r) == Lines(r) \ bad'
             Before(r, x) == {y \in Parsed(r) : y < x}
             segs(r, k) == {n \in Seg : r[n] # {} \/ n \in k}
             Linked(r, k, x, p) ==
               IF p # 0 THEN prev'[x] = p /\ seq'[x] \in {1, seq'[p] + 1}
               ELSE \/ prev'[x] = 0 /\ seq'[x] = 1
                    \/ segs(r, k) # {} /\ Min(segs(r, k)) # 1 /\ x \in r[Min(segs(r, k))]
             Passes(r, k) ==
               /\ \A f, g \in File : f < g => \A x \in r[f], y \in r[g] : x < y
               /\ k \subseteq {Live}
               /\ \A x \in bad' \cap Lines(r) : x \in r[Live] /\ x = Max(Lines(r)) /\ Live \notin k
               /\ \A x \in Parsed(r) :
                    Linked(r, k, x, IF Before(r, x) = {} THEN 0 ELSE Max(Before(r, x)))
  <1>1. Passes(recs, frag) BY Zenon DEF verifyFiles
  <1>2. Passes(mon'.got, mon'.frag)
    <2> HIDE DEF Passes
    <2> QED BY <1>1, Zenon
  <1> QED BY <1>2, Zenon DEF verifyFiles

LEMMA SnapDevice ==
    ASSUME Faults = {}, CInv, CInv', MonType, PinInv, SnapInv, Device
    PROVE  SnapInv'
  <1>1. Next /\ bad = {} /\ bad' = {} /\ AInv BY Zenon DEF Device, CInv, CleanInv
  <1>2. mon'.pc = mon.pc /\ mon'.got = mon.got /\ mon'.frag = mon.frag /\ mon'.segs = mon.segs /\ mon'.left = mon.left
    BY Zenon DEF Device, MonType, Poll
  <1>3. mon.pc \notin {"idle", "save"} /\ ~mon'.unrenamed =>
          ~mon.unrenamed /\ ~(pc = "sealed" /\ pc' = "write")
    BY Zenon DEF Device, MonType, Poll
  <1>4. verifyFiles(mon.got, mon.frag, bad) => verifyFiles(mon.got, mon.frag, bad)'
    <2> SUFFICES ASSUME verifyFiles(mon.got, mon.frag, bad) PROVE verifyFiles(mon.got, mon.frag, bad)'
      BY Zenon
    <2>1. PICK recs, frag : recs = mon.got /\ frag = mon.frag BY Zenon
    <2>2. verifyFiles(recs, frag, bad) BY <2>1, Zenon
    <2>3. verifyFiles(recs, frag, bad)' BY <1>1, <2>1, <2>2, VerifyStays, Zenon DEF PinInv
    <2>4. mon'.got = recs /\ mon'.frag = frag BY <1>2, <2>1, Zenon
    <2> QED BY <2>3, <2>4, VerifySame, Zenon
  <1>5. mon.segs \subseteq Nat /\ listSegments \subseteq Nat /\ listSegments' \subseteq Nat
    BY DEF MonType, Poll, Seg, listSegments
  <1>6. ASSUME mon.pc \in {"fetch", "again"}, ~mon'.unrenamed
        PROVE  /\ \A m \in mon'.segs : \E n \in listSegments' : m <= n
               /\ ~Moved' => /\ ~Moved /\ listSegments' \subseteq listSegments
                             /\ \A f \in listSegments' : In(f)' = In(f)
    <2>1. ~mon.unrenamed /\ ~(pc = "sealed" /\ pc' = "write") BY <1>3, <1>6, Zenon
    <2>2. \A m \in mon.segs : \E n \in listSegments : m <= n BY <1>6, <2>1, Zenon DEF SnapInv
    <2>3. /\ \A m \in listSegments : \E n \in listSegments' : m <= n
          /\ \/ \E n \in listSegments' : \A m \in listSegments : m < n
             \/ listSegments' \subseteq listSegments /\ \A f \in listSegments' : In(f)' = In(f)
      BY <1>1, <2>1, SegsMove, Zenon
    <2>4. \A m \in mon.segs : \E n \in listSegments' : m <= n
      <3> SUFFICES ASSUME NEW m \in mon.segs PROVE \E n \in listSegments' : m <= n BY Zenon
      <3>1. PICK k \in listSegments : m <= k BY <2>2, Zenon
      <3>2. PICK n \in listSegments' : k <= n BY <2>3, Zenon
      <3> QED BY <1>5, <3>1, <3>2
    <2>5. ASSUME NEW n \in listSegments', \A m \in listSegments : m < n PROVE Moved'
      <3>1. \A m \in mon.segs : m < n
        <4> SUFFICES ASSUME NEW m \in mon.segs PROVE m < n BY Zenon
        <4>1. PICK k \in listSegments : m <= k BY <2>2, Zenon
        <4> QED BY <1>5, <2>5, <4>1
      <3> QED BY <1>2, <3>1, Zenon DEF Moved
    <2>6. Moved => Moved'
      <3> SUFFICES ASSUME Moved PROVE Moved' BY Zenon
      <3>1. PICK k \in listSegments : \A m \in mon.segs : m < k BY Zenon DEF Moved
      <3>2. PICK n \in listSegments' : k <= n BY <2>3, Zenon
      <3>3. \A m \in mon.segs : m < n BY <1>5, <3>1, <3>2
      <3> QED BY <1>2, <3>3, Zenon DEF Moved
    <2> QED BY <1>2, <2>3, <2>4, <2>5, <2>6, Zenon
  <1>7. mon.pc \in {"newest", "list"} => mon.got = [f \in File |-> {}] /\ mon.frag = {}
    BY Zenon DEF SnapInv
  <1>8. ASSUME mon.pc \in {"fetch", "again"}, ~mon'.unrenamed, ~Moved' PROVE listSegments' \subseteq mon.segs
    BY <1>3, <1>6, <1>8, Zenon DEF SnapInv
  <1>9. ASSUME mon.pc = "fetch", ~mon'.unrenamed
        PROVE  /\ mon.left \subseteq mon.segs /\ mon.frag = {}
               /\ \A f \in File : f \notin mon.segs \ mon.left => mon.got[f] = {}
               /\ ~Moved' => \A f \in listSegments' \ mon.left : mon.got[f] = In(f)'
    <2>1. /\ mon.left \subseteq mon.segs /\ mon.frag = {}
          /\ \A f \in File : f \notin mon.segs \ mon.left => mon.got[f] = {}
          /\ ~Moved => \A f \in listSegments \ mon.left : mon.got[f] = In(f)
      BY <1>3, <1>9, Zenon DEF SnapInv
    <2> QED BY <1>6, <1>9, <2>1, Zenon
  <1>10. ASSUME mon.pc = "again", ~mon'.unrenamed, listSegments' = mon.segs
         PROVE  verifyFiles(mon.got, mon.frag, bad)'
    <2>1. ~Moved' BY <1>2, <1>5, <1>10 DEF Moved
    <2>2. ~mon.unrenamed /\ ~Moved /\ listSegments' \subseteq listSegments
      BY <1>3, <1>6, <1>10, <2>1, Zenon
    <2>3. listSegments \subseteq mon.segs BY <1>10, <2>2, Zenon DEF SnapInv
    <2>4. listSegments = mon.segs BY <1>10, <2>2, <2>3, Zenon
    <2> QED BY <1>4, <1>10, <2>2, <2>4, Zenon DEF SnapInv
  <1>11. SnapshotVerifies' BY <1>2, <1>3, <1>4, Zenon DEF SnapInv, SnapshotVerifies
  <1> QED BY <1>2, <1>6, <1>7, <1>8, <1>9, <1>10, <1>11, Zenon DEF SnapInv

\* The live file completes the copies of a device that has not rotated.
LEMMA FetchedAll ==
    ASSUME CInv, mon \in Poll, listSegments = mon.segs, mon.left = {}, mon.frag = {},
           \A f \in File : f \notin mon.segs \ mon.left => mon.got[f] = {},
           \A f \in listSegments \ mon.left : mon.got[f] = In(f), Got(Live)
    PROVE  mon'.got = [f \in File |-> In(f)] /\ mon'.frag = torn
  <1>1. torn \subseteq {Live} /\ Live \in File /\ Live \notin Seg BY Sizes DEF CInv, CleanInv, File
  <1>2. mon'.got = [mon.got EXCEPT ![Live] = In(Live)] /\ mon'.frag = IF Live \in torn THEN {Live} ELSE {}
    BY Zenon DEF Got, Poll
  <1>3. mon.got \in [File -> SUBSET Rec] BY Zenon DEF Poll
  <1>4. ASSUME NEW f \in File, f # Live PROVE mon.got[f] = In(f)
    <2>1. f \in Seg BY <1>4, Sizes, Zenon DEF File, Seg, Live
    <2>2. CASE f \in listSegments BY <2>2, Zenon
    <2>3. CASE f \notin listSegments
      <3>1. In(f) = {} BY <2>1, <2>3, Zenon DEF listSegments
      <3> QED BY <2>3, <3>1, Zenon
    <2> QED BY <2>2, <2>3, Zenon
  <1>5. mon'.got = [f \in File |-> In(f)] BY <1>1, <1>2, <1>3, <1>4, Zenon
  <1>6. mon'.frag = torn BY <1>1, <1>2, Zenon
  <1> QED BY <1>5, <1>6, Zenon

LEMMA SnapPoll ==
    ASSUME CInv, MonType, SnapInv, MonNext, ~Device
    PROVE  SnapInv'
  <1>0. /\ mon \in Poll /\ NoPoll \in Poll /\ listSegments \subseteq Seg
        /\ NoPoll.pc = "idle" /\ NoPoll.got = [f \in File |-> {}] /\ NoPoll.frag = {}
        /\ torn \subseteq {Live} /\ Live \notin Seg /\ \A n \in Seg : n \in Nat
    <2>1. NoPoll.pc = "idle" /\ NoPoll.got = [f \in File |-> {}] /\ NoPoll.frag = {} BY Zenon DEF NoPoll
    <2>2. torn \subseteq {Live} BY Zenon DEF CInv, CleanInv
    <2> QED BY <2>1, <2>2, NoPollType, Sizes, Zenon DEF MonType, listSegments, Seg
  <1>1. UNCHANGED <<file, prev, seq, bad, torn>>
    <2>1. UNCHANGED vars
      BY Zenon DEF MonNext, quoteVerified, quoteNewestSegment, quoteRefused, noQuote, listRemoteSegments,
             fetchSegment, fetchLive, fetchErr, relist, VerifyChain, saveState, notSaved
    <2> QED BY <2>1, Zenon DEF vars, disk
  <1>2. listSegments' = listSegments /\ \A f : In(f)' = In(f) BY <1>1, Zenon DEF listSegments, In
  <1>3. ASSUME mon'.pc \notin {"newest", "list", "fetch", "again", "verify"} PROVE SnapInv'
    BY <1>3, Zenon DEF SnapInv, SnapshotVerifies
  <1>4. ASSUME mon'.pc \in {"newest", "list"}, mon'.got = [f \in File |-> {}], mon'.frag = {} PROVE SnapInv'
    BY <1>4, Zenon DEF SnapInv, SnapshotVerifies
  <1>5. CASE quoteVerified \/ quoteRefused \/ noQuote
    <2>1. mon'.pc \in {"newest", "list"} /\ mon'.got = NoPoll.got /\ mon'.frag = NoPoll.frag
      <3>1. CASE quoteVerified BY <1>0, <3>1, Zenon DEF quoteVerified, Poll
      <3>2. CASE quoteRefused BY <1>0, <3>2, Zenon DEF quoteRefused, Poll
      <3>3. CASE noQuote BY <1>0, <3>3, Zenon DEF noQuote, Poll
      <3> QED BY <1>5, <3>1, <3>2, <3>3, Zenon
    <2> QED BY <1>0, <1>4, <2>1, Zenon
  <1>6. CASE quoteNewestSegment
    <2>1. PICK h : mon' = [mon EXCEPT !.pc = "list", !.head = h] BY <1>6, Zenon DEF quoteNewestSegment
    <2>2. mon'.pc = "list" /\ mon'.got = mon.got /\ mon'.frag = mon.frag BY <1>0, <2>1, Zenon DEF Poll
    <2>3. mon.got = [f \in File |-> {}] /\ mon.frag = {} BY <1>6, Zenon DEF quoteNewestSegment, SnapInv
    <2> QED BY <1>4, <2>2, <2>3, Zenon
  <1>7. CASE listRemoteSegments
    <2>1. /\ mon'.pc = "fetch" /\ mon'.got = mon.got /\ mon'.frag = mon.frag
          /\ mon'.segs = listSegments /\ mon'.left = listSegments
      BY <1>0, <1>7, Zenon DEF listRemoteSegments, Poll
    <2>2. mon.got = [f \in File |-> {}] /\ mon.frag = {} BY <1>7, Zenon DEF listRemoteSegments, SnapInv
    <2>3. \A m \in mon'.segs : m \in listSegments' /\ m <= m BY <1>0, <1>2, <2>1
    <2>4. \A f \in File : mon'.got[f] = {} BY <2>1, <2>2, Zenon
    <2>5. \A m \in mon'.segs : \E n \in listSegments' : m <= n BY <2>3, Zenon
    <2>6. listSegments' = mon'.segs /\ mon'.left = mon'.segs /\ mon'.frag = {} BY <1>2, <2>1, <2>2, Zenon
    <2> QED BY <2>1, <2>4, <2>5, <2>6, Zenon DEF SnapInv, SnapshotVerifies
  <1>8. CASE fetchSegment
    <2> DEFINE g == Min(mon.left)
    <2>1. mon.pc = "fetch" /\ g \in listSegments /\ Got(g) /\ mon.left # {}
      BY <1>8, Zenon DEF fetchSegment
    <2>2. mon.left \in SUBSET Nat BY <1>0, Zenon DEF Poll, Seg
    <2>3. g \in mon.left BY <2>1, <2>2, MinOf, Zenon
    <2>4. g \in Seg /\ g # Live /\ g \notin torn /\ g \in File BY <1>0, <2>1, Sizes, Zenon DEF File, Seg
    <2> HIDE DEF g
    <2>5. /\ mon'.pc = "fetch" /\ mon'.left = mon.left \ {g} /\ mon'.frag = mon.frag
          /\ mon'.segs = mon.segs /\ mon'.unrenamed = mon.unrenamed
          /\ mon'.got = [mon.got EXCEPT ![g] = In(g)]
      BY <1>0, <2>1, <2>4, Zenon DEF Got, Poll
    <2>6. \A f \in File : mon'.got[f] = IF f = g THEN In(g) ELSE mon.got[f]
      BY <1>0, <2>5, Zenon DEF Poll
    <2>7. CASE mon.unrenamed BY <2>5, <2>7, Zenon DEF SnapInv, SnapshotVerifies
    <2>8. CASE ~mon.unrenamed
      <3>1. /\ \A m \in mon.segs : \E n \in listSegments : m <= n
            /\ ~Moved => listSegments \subseteq mon.segs
            /\ mon.left \subseteq mon.segs /\ mon.frag = {}
            /\ \A f \in File : f \notin mon.segs \ mon.left => mon.got[f] = {}
            /\ ~Moved => \A f \in listSegments \ mon.left : mon.got[f] = In(f)
        BY <2>1, <2>8, Zenon DEF SnapInv
      <3>2. Moved' <=> Moved BY <1>2, <2>5, Zenon DEF Moved
      <3>3. \A f \in File : f \notin mon'.segs \ mon'.left => mon'.got[f] = {}
        BY <2>3, <2>5, <2>6, <3>1, Zenon
      <3>4. ~Moved' => \A f \in listSegments' \ mon'.left : mon'.got[f] = In(f)'
        <4>1. listSegments \subseteq File BY <1>0, Sizes, Zenon DEF File, Seg
        <4> QED BY <1>2, <2>5, <2>6, <3>1, <3>2, <4>1, Zenon
      <3> QED BY <1>2, <2>5, <3>1, <3>2, <3>3, <3>4, Zenon DEF SnapInv, SnapshotVerifies
    <2> QED BY <2>7, <2>8, Zenon
  <1>9. CASE fetchLive
    <2>1. mon.pc = "fetch" /\ Got(Live) /\ mon.left = {} BY <1>9, Zenon DEF fetchLive
    <2>2. mon'.pc = "again" /\ mon'.segs = mon.segs /\ mon'.unrenamed = mon.unrenamed
      BY <1>0, <2>1, Zenon DEF Got, Poll
    <2>3. CASE mon.unrenamed BY <2>2, <2>3, Zenon DEF SnapInv, SnapshotVerifies
    <2>4. CASE ~mon.unrenamed
      <3>1. /\ \A m \in mon.segs : \E n \in listSegments : m <= n
            /\ ~Moved => listSegments \subseteq mon.segs
            /\ mon.frag = {}
            /\ \A f \in File : f \notin mon.segs \ mon.left => mon.got[f] = {}
            /\ ~Moved => \A f \in listSegments \ mon.left : mon.got[f] = In(f)
        BY <2>1, <2>4, Zenon DEF SnapInv
      <3>2. Moved' <=> Moved BY <1>2, <2>2, Zenon DEF Moved
      <3>3. ASSUME listSegments = mon.segs PROVE verifyFiles(mon.got, mon.frag, bad)'
        <4>1. ~Moved BY <1>0, <3>3 DEF Moved
        <4>2. mon'.got = [f \in File |-> In(f)] /\ mon'.frag = torn
          BY <1>0, <2>1, <3>1, <3>3, <4>1, FetchedAll, Zenon
        <4>3. verifyFiles([f \in File |-> In(f)], torn, bad)
          BY LinkedPasses, Zenon DEF BootGatePasses, verifySegmentedChain
        <4>4. PICK recs, frag : recs = [f \in File |-> In(f)] /\ frag = torn BY Zenon
        <4>5. verifyFiles(recs, frag, bad) BY <4>3, <4>4, Zenon
        <4>6. verifyFiles(recs, frag, bad)' BY <1>1, <4>5, Zenon DEF verifyFiles
        <4>7. mon'.got = recs /\ mon'.frag = frag BY <4>2, <4>4, Zenon
        <4> QED BY <4>6, <4>7, VerifySame, Zenon
      <3> QED BY <1>2, <2>2, <3>1, <3>2, <3>3, Zenon DEF SnapInv, SnapshotVerifies
    <2> QED BY <2>3, <2>4, Zenon
  <1>10. CASE relist
    <2>1. CASE listSegments = mon.segs
      <3>1. mon.pc = "again" /\ mon' = [mon EXCEPT !.pc = "verify", !.st.races = 0]
        BY <1>10, <2>1, Zenon DEF relist
      <3>2. mon'.pc = "verify" /\ mon'.got = mon.got /\ mon'.frag = mon.frag /\ mon'.unrenamed = mon.unrenamed
        BY <1>0, <3>1, Zenon DEF Poll
      <3>3. ASSUME ~mon'.unrenamed PROVE verifyFiles(mon.got, mon.frag, bad)'
        <4>1. PICK recs, frag : recs = mon.got /\ frag = mon.frag BY Zenon
        <4>2. verifyFiles(recs, frag, bad) BY <2>1, <3>1, <3>2, <3>3, <4>1, Zenon DEF SnapInv
        <4>3. verifyFiles(recs, frag, bad)' BY <1>1, <4>2, Zenon DEF verifyFiles
        <4>4. mon'.got = recs /\ mon'.frag = frag BY <3>2, <4>1, Zenon
        <4> QED BY <4>3, <4>4, VerifySame, Zenon
      <3> QED BY <3>2, <3>3, Zenon DEF SnapInv, SnapshotVerifies
    <2>2. CASE listSegments # mon.segs
      <3>1. mon'.pc = "save" BY <1>0, <1>10, <2>2, Zenon DEF relist, Over, Poll
      <3> QED BY <1>3, <3>1, Zenon
    <2> QED BY <2>1, <2>2, Zenon
  <1>11. CASE fetchErr \/ VerifyChain \/ saveState \/ notSaved
    <2>1. mon'.pc \in {"save", "idle"}
      BY <1>0, <1>11, Zenon DEF fetchErr, VerifyChain, saveState, notSaved, Over, Poll
    <2> QED BY <1>3, <2>1, Zenon
  <1> QED BY <1>5, <1>6, <1>7, <1>8, <1>9, <1>10, <1>11, Zenon DEF MonNext

LEMMA SameTip ==
    ASSUME UNCHANGED <<file, bad, torn>>
    PROVE  /\ listSegments' = listSegments /\ \A f : In(f)' = In(f)
           /\ lastChainHash(Live, torn)' = lastChainHash(Live, torn)
           /\ lastChainTip({})' = lastChainTip({})
  BY ZenonT(30) DEF listSegments, In, lastChainHash, lastChainTip

\* A disk without a fragment: the live file's tip, else the newest segment's, is the
\* tip a writer would resume from.
LEMMA QuotedTip ==
    ASSUME CInv, torn = {}
    PROVE  /\ lastChainHash(Live, torn) # 0 => lastChainHash(Live, torn) = lastChainTip({})
           /\ lastChainHash(Live, torn) = 0 =>
                LET known == {f \in listSegments : lastChainHash(f, torn) # 0} IN
                lastChainTip({}) = IF known = {} THEN 0 ELSE lastChainHash(Max(known), torn)
  <1> DEFINE known == {f \in File : lastChainHash(f, {}) # 0}
  <1>1. Live \in File /\ File \in SUBSET (0..Live) /\ Live \in Nat BY Sizes DEF File
  <1>2. ASSUME lastChainHash(Live, {}) # 0 PROVE lastChainTip({}) = lastChainHash(Live, {})
    <2>1. Live \in known /\ known \in SUBSET (0..Live) BY <1>1, <1>2, Zenon
    <2>2. Max(known) \in known /\ \A f \in known : f <= Max(known) BY <1>1, <2>1, MaxOf, Zenon
    <2> HIDE DEF known
    <2>3. PICK m : m = Max(known) BY Zenon
    <2>4. m \in 0..Live /\ Live <= m BY <2>1, <2>2, <2>3, Zenon
    <2>5. m = Live BY <1>1, <2>4
    <2> QED BY <2>1, <2>3, <2>5, Zenon DEF lastChainTip, known
  <1>3. ASSUME lastChainHash(Live, {}) = 0
        PROVE  known = {f \in listSegments : lastChainHash(f, {}) # 0}
    <2>1. \A f \in known : f # Live /\ In(f) # {} BY <1>3, Zenon DEF lastChainHash
    <2>2. \A f \in File : f # Live => f \in Seg BY Sizes, Zenon DEF File, Seg, Live
    <2>3. known \subseteq listSegments BY <2>1, <2>2, Zenon DEF listSegments
    <2>4. listSegments \subseteq File BY Sizes, Zenon DEF listSegments, File, Seg
    <2> QED BY <2>3, <2>4, Zenon
  <1> QED BY <1>2, <1>3, Zenon DEF lastChainTip

LEMMA QuietDevice ==
    ASSUME MonType, QuietInv, Device
    PROVE  QuietInv'
  <1>1. CASE mon.pc \in {"idle", "save"}
    <2>1. mon' = mon BY <1>1, Zenon DEF Device
    <2> QED BY <1>1, <2>1, Zenon DEF QuietInv
  <1>2. CASE mon.pc \notin {"idle", "save"} /\ mon'.stirred BY <1>2, Zenon DEF QuietInv
  <1>3. CASE mon.pc \notin {"idle", "save"} /\ ~mon'.stirred
    <2>1. /\ mon'.pc = mon.pc /\ mon'.got = mon.got /\ mon'.frag = mon.frag /\ mon'.segs = mon.segs
          /\ mon'.left = mon.left /\ mon'.quoted = mon.quoted /\ mon'.head = mon.head
      BY <1>3, Zenon DEF Device, MonType, Poll
    <2>2. ~mon.stirred /\ disk' = disk BY <1>3, Zenon DEF Device, MonType, Poll
    <2>3. UNCHANGED <<file, bad, torn>> BY <2>2, Zenon DEF disk
    <2> QED BY <2>1, <2>2, <2>3, SameTip, Zenon DEF QuietInv
  <1> QED BY <1>1, <1>2, <1>3, Zenon

LEMMA QuietPoll ==
    ASSUME CInv, MonType, SnapInv, QuietInv, MonNext, ~Device
    PROVE  QuietInv'
  <1>0. mon \in Poll /\ NoPoll \in Poll /\ listSegments \subseteq Seg /\ torn \subseteq {Live} /\ Live \notin Seg
    BY NoPollType, Sizes, Zenon DEF MonType, listSegments, CInv, CleanInv
  <1>1. UNCHANGED <<file, bad, torn>>
    <2>1. UNCHANGED vars
      BY Zenon DEF MonNext, quoteVerified, quoteNewestSegment, quoteRefused, noQuote, listRemoteSegments,
             fetchSegment, fetchLive, fetchErr, relist, VerifyChain, saveState, notSaved
    <2> QED BY <2>1, Zenon DEF vars, disk
  <1>2. /\ listSegments' = listSegments /\ \A f : In(f)' = In(f)
        /\ lastChainHash(Live, torn)' = lastChainHash(Live, torn)
        /\ lastChainTip({})' = lastChainTip({})
    BY <1>1, SameTip, Zenon
  <1>3. ASSUME mon'.pc \notin {"newest", "list", "fetch", "again", "verify"} PROVE QuietInv'
    BY <1>3, Zenon DEF QuietInv
  <1>4. ASSUME mon'.pc = "list", ~mon'.quoted PROVE QuietInv' BY <1>4, Zenon DEF QuietInv
  <1>5. CASE quoteVerified
    <2> DEFINE h == lastChainHash(Live, torn)
    <2>1. mon'.pc = (IF h = 0 THEN "newest" ELSE "list") /\ mon'.head = h
      BY <1>0, <1>5, Zenon DEF quoteVerified, Poll
    <2>2. h # 0 /\ torn = {} => h = lastChainTip({}) BY QuotedTip, Zenon
    <2> HIDE DEF h
    <2>3. CASE h = 0
      <3>1. lastChainHash(Live, torn)' = 0 BY <1>2, <2>3, Zenon DEF h
      <3> QED BY <2>1, <2>3, <3>1, Zenon DEF QuietInv
    <2>4. CASE h # 0
      <3>1. torn' = {} => mon'.head = lastChainTip({})' BY <1>1, <1>2, <2>1, <2>2, <2>4, Zenon
      <3> QED BY <2>1, <2>4, <3>1, Zenon DEF QuietInv
    <2> QED BY <2>3, <2>4, Zenon
  <1>6. CASE quoteRefused \/ noQuote
    <2>1. mon'.pc = "list" /\ mon'.quoted = NoPoll.quoted
      BY <1>0, <1>6, ZenonT(30) DEF quoteRefused, noQuote, Poll
    <2>2. ~NoPoll.quoted BY Zenon DEF NoPoll
    <2> QED BY <1>4, <2>1, <2>2, Zenon
  <1>7. CASE quoteNewestSegment
    <2> DEFINE known == {f \in listSegments : lastChainHash(f, torn) # 0}
    <2>1. PICK h : h = IF known = {} THEN 0 ELSE lastChainHash(Max(known), torn) BY Zenon
    <2>2. mon' = [mon EXCEPT !.pc = "list", !.head = h] /\ mon.pc = "newest"
      BY <1>7, <2>1, Zenon DEF quoteNewestSegment
    <2>3. mon'.pc = "list" /\ mon'.head = h /\ mon'.stirred = mon.stirred BY <1>0, <2>2, Zenon DEF Poll
    <2>4. ~mon.stirred /\ torn = {} => h = lastChainTip({})
      <3>1. ~mon.stirred => lastChainHash(Live, torn) = 0 BY <2>2, Zenon DEF QuietInv
      <3> QED BY <2>1, <3>1, QuotedTip, Zenon
    <2> HIDE DEF known
    <2>5. ~mon'.stirred /\ torn' = {} => mon'.head = lastChainTip({})' BY <1>1, <1>2, <2>3, <2>4, Zenon
    <2> QED BY <2>3, <2>5, Zenon DEF QuietInv
  <1>8. CASE listRemoteSegments
    <2>1. /\ mon'.pc = "fetch" /\ mon'.got = mon.got /\ mon'.frag = mon.frag /\ mon.pc = "list"
          /\ mon'.segs = listSegments /\ mon'.left = listSegments
          /\ mon'.head = mon.head /\ mon'.quoted = mon.quoted /\ mon'.stirred = mon.stirred
      BY <1>0, <1>8, Zenon DEF listRemoteSegments, Poll
    <2>2. mon'.got = [f \in File |-> {}] /\ mon'.frag = {} BY <2>1, Zenon DEF SnapInv
    <2>3. \A f \in File : mon'.got[f] = IF f \in mon'.segs \ mon'.left THEN In(f)' ELSE {}
      BY <2>1, <2>2, Zenon
    <2>4. ~mon'.stirred /\ mon'.quoted /\ torn' = {} => mon'.head = lastChainTip({})'
      BY <1>1, <1>2, <2>1, Zenon DEF QuietInv
    <2>5. mon'.segs = listSegments' /\ mon'.left \subseteq mon'.segs BY <1>2, <2>1, Zenon
    <2> QED BY <2>1, <2>2, <2>3, <2>4, <2>5, Zenon DEF QuietInv
  <1>9. CASE fetchSegment
    <2> DEFINE g == Min(mon.left)
    <2>1. mon.pc = "fetch" /\ g \in listSegments /\ Got(g) /\ mon.left # {}
      BY <1>9, Zenon DEF fetchSegment
    <2>2. mon.left \in SUBSET Nat BY <1>0 DEF Poll, Seg
    <2>3. g \in mon.left BY <2>1, <2>2, MinOf, Zenon
    <2>4. g # Live /\ g \notin torn BY <1>0, <2>1, Zenon
    <2> HIDE DEF g
    <2>5. /\ mon'.pc = "fetch" /\ mon'.left = mon.left \ {g} /\ mon'.frag = mon.frag
          /\ mon'.segs = mon.segs /\ mon'.head = mon.head /\ mon'.quoted = mon.quoted
          /\ mon'.stirred = mon.stirred /\ mon'.got = [mon.got EXCEPT ![g] = In(g)]
      BY <1>0, <2>1, <2>4, Zenon DEF Got, Poll
    <2>6. \A f \in File : mon'.got[f] = IF f = g THEN In(g) ELSE mon.got[f]
      BY <1>0, <2>5, Zenon DEF Poll
    <2>7. CASE mon.stirred BY <2>5, <2>7, Zenon DEF QuietInv
    <2>8. CASE ~mon.stirred
      <3>1. /\ mon.segs = listSegments /\ mon.left \subseteq mon.segs /\ mon.frag = {}
            /\ \A f \in File : mon.got[f] = IF f \in mon.segs \ mon.left THEN In(f) ELSE {}
            /\ mon.quoted /\ torn = {} => mon.head = lastChainTip({})
        BY <2>1, <2>8, Zenon DEF QuietInv
      <3>2. ASSUME NEW f \in File
            PROVE  mon'.got[f] = IF f \in mon'.segs \ mon'.left THEN In(f)' ELSE {}
        <4>1. CASE f = g BY <1>2, <2>3, <2>5, <2>6, <3>1, <4>1, Zenon
        <4>2. CASE f # g BY <1>2, <2>5, <2>6, <3>1, <4>2, Zenon
        <4> QED BY <4>1, <4>2, Zenon
      <3>3. mon'.quoted /\ torn' = {} => mon'.head = lastChainTip({})' BY <1>1, <1>2, <2>5, <3>1, Zenon
      <3>4. mon'.segs = listSegments' /\ mon'.left \subseteq mon'.segs /\ mon'.frag = {}
        BY <1>2, <2>5, <3>1, Zenon
      <3> QED BY <2>5, <3>2, <3>3, <3>4, Zenon DEF QuietInv
    <2> QED BY <2>7, <2>8, Zenon
  <1>10. CASE fetchLive
    <2>1. mon.pc = "fetch" /\ Got(Live) /\ mon.left = {} BY <1>10, Zenon DEF fetchLive
    <2>2. mon'.pc = "again" /\ mon'.head = mon.head /\ mon'.quoted = mon.quoted /\ mon'.stirred = mon.stirred
      BY <1>0, <2>1, Zenon DEF Got, Poll
    <2>3. CASE mon.stirred BY <2>2, <2>3, Zenon DEF QuietInv
    <2>4. CASE ~mon.stirred
      <3>1. /\ mon.segs = listSegments /\ mon.frag = {}
            /\ \A f \in File : mon.got[f] = IF f \in mon.segs \ mon.left THEN In(f) ELSE {}
            /\ mon.quoted /\ torn = {} => mon.head = lastChainTip({})
        BY <2>1, <2>4, Zenon DEF QuietInv
      <3>2. listSegments \subseteq File BY <1>0, Sizes, Zenon DEF File, Seg
      <3>3. mon'.got = [f \in File |-> In(f)] /\ mon'.frag = torn
        BY <1>0, <2>1, <3>1, <3>2, FetchedAll, Zenon
      <3>4. mon'.got = [f \in File |-> In(f)'] /\ mon'.frag = torn' BY <1>1, <1>2, <3>3, Zenon
      <3>5. mon'.quoted /\ torn' = {} => mon'.head = lastChainTip({})' BY <1>1, <1>2, <2>2, <3>1, Zenon
      <3> QED BY <2>2, <3>4, <3>5, Zenon DEF QuietInv
    <2> QED BY <2>3, <2>4, Zenon
  <1>11. CASE relist
    <2>1. CASE listSegments = mon.segs
      <3>1. mon.pc = "again" /\ mon' = [mon EXCEPT !.pc = "verify", !.st.races = 0]
        BY <1>11, <2>1, Zenon DEF relist
      <3>2. /\ mon'.pc = "verify" /\ mon'.got = mon.got /\ mon'.frag = mon.frag /\ mon'.stirred = mon.stirred
            /\ mon'.head = mon.head /\ mon'.quoted = mon.quoted
        BY <1>0, <3>1, Zenon DEF Poll
      <3>3. CASE mon.stirred BY <3>2, <3>3, Zenon DEF QuietInv
      <3>4. CASE ~mon.stirred
        <4>1. /\ mon.got = [f \in File |-> In(f)] /\ mon.frag = torn
              /\ mon.quoted /\ torn = {} => mon.head = lastChainTip({})
          BY <3>1, <3>4, Zenon DEF QuietInv
        <4>2. mon'.got = [f \in File |-> In(f)'] /\ mon'.frag = torn' BY <1>1, <1>2, <3>2, <4>1, Zenon
        <4>3. mon'.quoted /\ torn' = {} => mon'.head = lastChainTip({})' BY <1>1, <1>2, <3>2, <4>1, Zenon
        <4> QED BY <3>2, <4>2, <4>3, Zenon DEF QuietInv
      <3> QED BY <3>3, <3>4, Zenon
    <2>2. CASE listSegments # mon.segs
      <3>1. mon'.pc = "save" BY <1>0, <1>11, <2>2, Zenon DEF relist, Over, Poll
      <3> QED BY <1>3, <3>1, Zenon
    <2> QED BY <2>1, <2>2, Zenon
  <1>12. CASE fetchErr \/ VerifyChain \/ saveState \/ notSaved
    <2>1. mon'.pc \in {"save", "idle"}
      <3>1. NoPoll.pc = "idle" BY Zenon DEF NoPoll
      <3> QED BY <1>0, <1>12, <3>1, Zenon DEF fetchErr, VerifyChain, saveState, notSaved, Over, Poll
    <2> QED BY <1>3, <2>1, Zenon
  <1> QED BY <1>5, <1>6, <1>7, <1>8, <1>9, <1>10, <1>11, <1>12, Zenon DEF MonNext

SInv == CInv /\ MInv /\ SnapInv /\ QuietInv

LEMMA SInit == MonInit => SInv
  <1> SUFFICES ASSUME MonInit PROVE SInv BY Zenon
  <1>1. CInv /\ MInv BY CInit, MInit, Zenon DEF MonInit
  <1>2. mon.pc = "idle" BY Zenon DEF MonInit, NoPoll
  <1> QED BY <1>1, <1>2, Zenon DEF SInv, SnapInv, SnapshotVerifies, QuietInv

LEMMA SStep == Faults = {} /\ SInv /\ [MonNext]_monVars => SInv'
  <1> SUFFICES ASSUME Faults = {}, SInv, [MonNext]_monVars PROVE SInv' BY Zenon
  <1>1. CInv /\ MInv /\ SnapInv /\ QuietInv /\ MonType /\ PinInv BY Zenon DEF SInv, MInv
  <1>2. CInv' /\ MInv' BY <1>1, CStep, MStep, DeviceStep, Zenon
  <1>3. CASE Device BY <1>1, <1>2, <1>3, SnapDevice, QuietDevice, Zenon DEF SInv
  <1>4. CASE MonNext /\ ~Device BY <1>1, <1>2, <1>4, SnapPoll, QuietPoll, Zenon DEF SInv
  <1>5. CASE UNCHANGED monVars
    <2>1. UNCHANGED <<mon, file, prev, seq, bad, torn>> BY <1>5, Zenon DEF monVars, vars, disk
    <2>2. /\ listSegments' = listSegments /\ \A f : In(f)' = In(f)
          /\ lastChainHash(Live, torn)' = lastChainHash(Live, torn)
          /\ lastChainTip({})' = lastChainTip({})
      BY <2>1, SameTip, Zenon
    <2>3. QuietInv' BY <1>1, <2>1, <2>2, Zenon DEF QuietInv
    <2>4. ASSUME verifyFiles(mon.got, mon.frag, bad) PROVE verifyFiles(mon.got, mon.frag, bad)'
      <3>1. PICK recs, frag : recs = mon.got /\ frag = mon.frag BY Zenon
      <3>2. verifyFiles(recs, frag, bad) BY <2>4, <3>1, Zenon
      <3>3. verifyFiles(recs, frag, bad)' BY <2>1, <3>2, Zenon DEF verifyFiles
      <3> QED BY <2>1, <3>1, <3>3, VerifySame, Zenon
    <2>5. Moved' <=> Moved BY <2>1, <2>2, Zenon DEF Moved
    <2>6. SnapInv' BY <1>1, <2>1, <2>2, <2>4, <2>5, Zenon DEF SnapInv, SnapshotVerifies
    <2> QED BY <1>2, <2>3, <2>6, Zenon DEF SInv
  <1> QED BY <1>3, <1>4, <1>5, Zenon

\* The inductive invariant of the witness beside a device without a second fault.
THEOREM SnapshotInvariant == ASSUME Faults = {} PROVE MonSpec => []SInv
  BY SInit, SStep, PTL DEF MonSpec

\* The two listings of fetchChainToDir catch every rotation and prune between them:
\* copies that are taken one file at a time from a device that goes on appending,
\* rotating, pruning and crashing are a chain that verifies, for any number of records
\* and segments, unless a rotation was undone meanwhile.
THEOREM SnapshotsVerify == ASSUME Faults = {} PROVE MonSpec => []SnapshotVerifies
  <1>1. SInv => SnapshotVerifies BY Zenon DEF SInv, SnapInv
  <1> QED BY <1>1, SnapshotInvariant, PTL

\* On a disk at rest, without a fragment and with the pinned record still on it, the
\* three checks of verify-audit pass: links, quoted head and --since.
LEMMA RestPasses ==
    ASSUME SInv, mon.pc = "verify", ~mon.stirred, Live \notin torn, mon.st.pin \in OnDisk \cup {0}
    PROVE  chainPasses
  <1>1. CInv /\ TypeOK /\ OrderInv /\ bad = {} /\ torn = {} /\ mon \in Poll
    BY Zenon DEF SInv, CInv, AInv, CleanInv, MInv, MonType
  <1>2. mon.got = [f \in File |-> In(f)] /\ mon.frag = torn BY Zenon DEF SInv, QuietInv
  <1>3. verifyFiles(mon.got, mon.frag, bad)
    <2>1. verifyFiles([f \in File |-> In(f)], torn, bad)
      BY <1>1, LinkedPasses, Zenon DEF BootGatePasses, verifySegmentedChain
    <2>2. PICK recs, frag : recs = [f \in File |-> In(f)] /\ frag = torn BY Zenon
    <2>3. recs = mon.got /\ frag = mon.frag BY <1>2, <2>2, Zenon
    <2>4. verifyFiles(recs, frag, bad) BY <2>1, <2>2, Zenon
    <2> QED BY <2>3, <2>4, Zenon
  <1>4. Fetched = OnDisk
    <2>1. \A f \in File : mon.got[f] = In(f) BY <1>2, Zenon
    <2>2. UNION {mon.got[f] : f \in File} = UNION {In(f) : f \in File} BY <2>1, Zenon
    <2> QED BY <1>1, <2>2, InFiles, Zenon DEF Fetched
  <1>5. Latest(lastChainTip({}), OnDisk) BY <1>1, TipOnOpen, Zenon
  <1>6. mon.quoted => mon.head = lastChainTip({}) BY <1>1, Zenon DEF SInv, QuietInv
  <1>7. Tip = lastChainTip({})
    <2>1. PICK h : h = lastChainTip({}) BY Zenon
    <2>2. CASE OnDisk = {} BY <1>4, <1>5, <2>2, Zenon DEF Tip, Latest
    <2>3. CASE OnDisk # {}
      <3>1. h \in OnDisk /\ \A y \in OnDisk : y <= h BY <1>5, <2>1, <2>3, Zenon DEF Latest
      <3>2. Tip \in OnDisk /\ \A y \in OnDisk : y <= Tip BY <1>1, <1>4, <2>3, FetchedType, Zenon
      <3>3. \A y \in OnDisk : y \in Nat BY DEF OnDisk, Rec
      <3>4. PICK t : t = Tip BY Zenon
      <3>5. t \in OnDisk /\ h <= t /\ t <= h BY <3>1, <3>2, <3>4, Zenon
      <3>6. t = h BY <3>1, <3>3, <3>5
      <3> QED BY <2>1, <3>4, <3>6, Zenon
    <2> QED BY <2>2, <2>3, Zenon
  <1> QED BY <1>3, <1>4, <1>6, <1>7, Zenon DEF chainPasses

\* A chain alarm has a cause: the poll of a device at rest whose last append was not cut
\* short and which still has the pinned record passes, for any number of records and
\* segments and whichever file the tip is in (attestChainHeads, witnessChains).
THEOREM QuietPollsPass == ASSUME Faults = {} PROVE MonSpec => QuietPollPasses
  <1> DEFINE A == mon'.verdict = "fail" /\ mon.pc = "verify" =>
                    mon.stirred \/ Live \in torn \/ mon.st.pin \notin OnDisk \cup {0}
  <1>1. SInv /\ [MonNext]_monVars => [A]_monVars
    <2> SUFFICES ASSUME SInv, MonNext, mon'.verdict = "fail", mon.pc = "verify",
                        ~mon.stirred, Live \notin torn, mon.st.pin \in OnDisk \cup {0}
                 PROVE  FALSE
      BY Zenon
    <2>0. mon \in Poll /\ NoPoll \in Poll /\ NoPoll.verdict = "none"
      BY NoPollType, Zenon DEF SInv, MInv, MonType, NoPoll
    <2>1. mon.verdict = "none" BY Zenon DEF SInv, MInv, PollInv
    <2>2. CASE Device
      <3>1. mon'.verdict = mon.verdict BY <2>0, <2>2, Zenon DEF Device, Poll
      <3> QED BY <2>1, <3>1, Zenon
    <2>3. CASE VerifyChain
      <3>1. chainPasses BY RestPasses, Zenon
      <3>2. Over([mon.st EXCEPT !.pin = Tip], FALSE, "pass") BY <2>3, <3>1, Zenon DEF VerifyChain
      <3>3. mon'.verdict = "pass" BY <2>0, <3>2, Zenon DEF Over, Poll
      <3> QED BY <3>3, Zenon
    <2>4. CASE notSaved BY <2>0, <2>4, Zenon DEF notSaved
    <2> QED
      BY <2>2, <2>3, <2>4, Zenon
         DEF MonNext, quoteVerified, quoteNewestSegment, quoteRefused, noQuote, listRemoteSegments,
             fetchSegment, fetchLive, fetchErr, relist, saveState
  <1> QED BY <1>1, SnapshotInvariant, PTL DEF MonSpec, QuietPollPasses

=============================================================================
