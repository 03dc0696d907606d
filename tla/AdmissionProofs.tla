--------------------------- MODULE AdmissionProofs ---------------------------
(***************************************************************************)
(* Proofs about the two places where a request waits to be let through:    *)
(* the broker's approval gate (ApprovalGate) and the router's token bucket *)
(* (Router).                                                               *)
(*                                                                         *)
(* The gate: the flood caps and the exactness of their counters, that      *)
(* nothing executes without an approval, that an approval is of the        *)
(* request that was listed, and that the gate implements GateSpec, for any *)
(* requests, requesters, caps and restarts.                                *)
(*                                                                         *)
(* The router: the bound on the volume of paid calls, and that each is     *)
(* recorded first and has a token of its own, for any requests, providers, *)
(* rate and clock resolution.                                              *)
(***************************************************************************)
EXTENDS ApprovalGate, Router, FiniteSetTheorems, TLAPS

-----------------------------------------------------------------------------
(* The router                                                              *)

(***************************************************************************)
(* Why the bucket bounds the volume: every grant so far has been paid for, *)
(* either by the full bucket the stretch may start from or by the refills  *)
(* up to the last one.  What is still in the bucket is on top of that.     *)
(***************************************************************************)
Budget ==
    \A i \in 1..Len(grants) :
        /\ grants[i] <= last
        /\ tokens + (Len(grants) - i + 1) * TicksPerMin
             <= capacity + PaidRatePerMin * (last - grants[i])

\* A token already spent on a call is one that was handed out.
PaidTokens == \A x \in paid : x[1] \in 1..Len(grants)

VolumeInv == RouterTypeOK /\ Budget /\ VolumeBounded
CallInv   == RouterTypeOK /\ PaidTokens /\ PaidIsRecorded /\ OneCallPerToken

-----------------------------------------------------------------------------
(* Arithmetic                                                              *)

\* The capacity is a natural number that holds a token at least.
LEMMA CapacityNat == capacity \in Nat
  BY RouterAssumption DEF capacity

\* Refilling adds what the elapsed time is worth, up to the capacity.
LEMMA RefilledFacts ==
    ASSUME RouterTypeOK
    PROVE  /\ refilled \in 0..capacity
           /\ refilled <= tokens + PaidRatePerMin * (now - last)
  <1> DEFINE gain == (now - last) * PaidRatePerMin
  <1>1. now - last \in Nat /\ tokens \in Nat /\ tokens <= capacity
    BY CapacityNat DEF RouterTypeOK
  <1>2. gain \in Nat /\ gain = PaidRatePerMin * (now - last)
    BY <1>1, RouterAssumption
  <1>3. refilled = IF tokens + gain > capacity THEN capacity ELSE tokens + gain
    BY Zenon DEF refilled
  <1> HIDE DEF gain
  <1> QED BY <1>1, <1>2, <1>3, CapacityNat

\* What the refill is worth from one instant to another; time split at an instant in
\* between is worth the sum of its parts.
Earned(a, b) == PaidRatePerMin * (b - a)

LEMMA Worth ==
    ASSUME NEW a \in Nat, NEW b \in Nat, NEW c \in Nat
    PROVE  Earned(a, c) = Earned(a, b) + Earned(b, c) /\ Earned(a, c) \in Int
  <1>1. PaidRatePerMin \in Nat BY RouterAssumption, Zenon
  <1> QED BY <1>1 DEF Earned

\* A count of tokens in the bucket's unit.
LEMMA Units ==
    ASSUME NEW k \in Int
    PROVE  k * TicksPerMin \in Int /\ (k + 1) * TicksPerMin = k * TicksPerMin + TicksPerMin
  <1>1. TicksPerMin \in Nat BY RouterAssumption, Zenon
  <1> QED BY <1>1

-----------------------------------------------------------------------------
(* Type correctness                                                        *)

LEMMA TypeInit == RouterInit => RouterTypeOK
  <1> SUFFICES ASSUME RouterInit PROVE RouterTypeOK BY Zenon
  <1>1. req \in [Chat -> ReqState] BY DEF RouterInit, ReqState
  <1> QED BY <1>1, CapacityNat DEF RouterInit, RouterTypeOK

\* A request on its way: what the updates of handleChat's locals leave.
LEMMA Advanced ==
    ASSUME NEW r \in ReqState, NEW pc \in {"idle", "limit", "record", "call"}, NEW k \in Nat
    PROVE  /\ [r EXCEPT !.pc = pc] \in ReqState
           /\ [r EXCEPT !.pc = pc, !.token = k] \in ReqState
  BY Zenon DEF ReqState

LEMMA GotoTyped ==
    ASSUME RouterTypeOK, NEW q \in Chat, NEW pc \in {"idle", "limit", "record", "call"}, Goto(q, pc)
    PROVE  req' \in [Chat -> ReqState]
  <1>1. req \in [Chat -> ReqState] /\ req[q] \in ReqState BY Zenon DEF RouterTypeOK
  <1>2. [req[q] EXCEPT !.pc = pc] \in ReqState BY <1>1, Advanced, Zenon
  <1>3. req' = [req EXCEPT ![q] = [req[q] EXCEPT !.pc = pc]] BY Zenon DEF Goto
  <1> QED BY <1>1, <1>2, <1>3, Zenon

LEMMA TypeStep == RouterTypeOK /\ [RouterNext]_routerVars => RouterTypeOK'
  <1> SUFFICES ASSUME RouterTypeOK, [RouterNext]_routerVars PROVE RouterTypeOK' BY Zenon
  <1> USE DEF RouterTypeOK
  <1>0. capacity' = capacity BY Zenon DEF capacity
  <1>1. CASE UNCHANGED routerVars BY <1>1, <1>0, Zenon DEF routerVars
  <1>2. CASE Tick BY <1>2, <1>0 DEF Tick
  <1>3. ASSUME NEW q \in Chat, NEW tag \in {"", "local", "api"}, NEW len \in PromptLen,
               NEW p \in Provider, handleChat(q, tag, len, p)
        PROVE  RouterTypeOK'
    <2>1. decide(tag, len) \in {"local", "api"} BY Zenon DEF decide
    <2>2. req' \in [Chat -> ReqState] BY <1>3, <2>1, Zenon DEF handleChat, ReqState
    <2> QED BY <1>3, <2>2, <1>0, Zenon DEF handleChat
  <1>4. ASSUME NEW q \in Chat, allow(q) PROVE RouterTypeOK'
    <2>1. /\ refilled \in 0..capacity /\ capacity \in Nat /\ TicksPerMin \in Nat
      BY RefilledFacts, CapacityNat, RouterAssumption, Zenon
    <2>2. tokens' \in 0..capacity BY <1>4, <2>1 DEF allow
    <2>3. Len(grants) \in Nat OBVIOUS
    <2>4. req' \in [Chat -> ReqState]
      <3>0. req \in [Chat -> ReqState] BY Zenon
      <3>1. req[q] \in ReqState BY Zenon
      <3>2. CASE Goto(q, "idle") BY <3>1, <3>2, Advanced, Zenon DEF Goto
      <3>3. CASE Granted(q)
        <4>1. req' = [req EXCEPT ![q] = [req[q] EXCEPT !.pc = "record", !.token = Len(grants) + 1]]
          BY <3>3, Zenon DEF Granted
        <4>2. Len(grants) + 1 \in Nat BY <2>3
        <4>3. [req[q] EXCEPT !.pc = "record", !.token = Len(grants) + 1] \in ReqState
          BY <3>1, <4>2, Advanced, Zenon
        <4> HIDE DEF RouterTypeOK
        <4> QED BY <4>1, <4>3, <3>0, Zenon
      <3> QED BY <3>2, <3>3, <1>4, Zenon DEF allow
    <2>5. grants' \in Seq(Nat)
      <3>1. now \in Nat /\ grants \in Seq(Nat) BY Zenon
      <3>2. Append(grants, now) \in Seq(Nat) BY <3>1
      <3>3. grants' = grants \/ grants' = Append(grants, now) BY <1>4, Zenon DEF allow, Granted
      <3> QED BY <3>1, <3>2, <3>3, Zenon
    <2> QED BY <1>4, <2>2, <2>4, <2>5, <1>0 DEF allow
  <1>5. ASSUME NEW q \in Chat, recordRoute(q) PROVE RouterTypeOK'
    <2>1. req' \in [Chat -> ReqState] BY <1>5, GotoTyped, Zenon DEF recordRoute
    <2>2. Ticket(q) \in Nat \X Provider BY Zenon DEF Ticket, ReqState
    <2> QED BY <1>5, <2>1, <2>2, <1>0, Zenon DEF recordRoute
  <1>6. ASSUME NEW q \in Chat, proxyAPI(q) PROVE RouterTypeOK'
    <2>1. req' \in [Chat -> ReqState] BY <1>6, GotoTyped, Zenon DEF proxyAPI
    <2>2. Ticket(q) \in Nat \X Provider BY Zenon DEF Ticket, ReqState
    <2> QED BY <1>6, <2>1, <2>2, <1>0, Zenon DEF proxyAPI
  <1>7. ASSUME NEW q \in Chat, proxyLocal(q) PROVE RouterTypeOK'
    <2>1. req' \in [Chat -> ReqState] BY <1>7, GotoTyped, Zenon DEF proxyLocal
    <2> QED BY <1>7, <2>1, <1>0, Zenon DEF proxyLocal
  <1> QED BY <1>1, <1>2, <1>3, <1>4, <1>5, <1>6, <1>7, Zenon DEF RouterNext

\* The router's state keeps its types and the bucket stays within its capacity,
\* for every rate, resolution and set of concurrent requests.
THEOREM RouterTypeCorrect == RouterSpec => []RouterTypeOK
  BY TypeInit, TypeStep, PTL DEF RouterSpec

-----------------------------------------------------------------------------
(* The volume of paid requests                                             *)

LEMMA VolumeInit == RouterInit => VolumeInv
  BY TypeInit DEF RouterInit, VolumeInv, Budget, VolumeBounded

\* A refusal, or a grant: the two outcomes of allow as the bucket sees them.
LEMMA Refused ==
    ASSUME RouterTypeOK, Budget, VolumeBounded, last' = now, tokens' = refilled, grants' = grants
    PROVE  Budget' /\ VolumeBounded'
  <1>1. VolumeBounded' BY Zenon DEF VolumeBounded, capacity
  <1>2. ASSUME NEW i \in 1..Len(grants)
        PROVE  /\ grants[i] <= now
               /\ refilled + (Len(grants) - i + 1) * TicksPerMin
                    <= capacity + PaidRatePerMin * (now - grants[i])
    <2>1. /\ grants[i] \in Nat /\ last \in Nat /\ now \in Nat /\ last <= now
          /\ tokens \in Nat /\ Len(grants) - i + 1 \in Int
      BY CapacityNat DEF RouterTypeOK
    <2>2. /\ grants[i] <= last
          /\ tokens + (Len(grants) - i + 1) * TicksPerMin
               <= capacity + PaidRatePerMin * (last - grants[i])
      BY Zenon DEF Budget
    <2>3. /\ refilled \in Nat /\ refilled <= tokens + PaidRatePerMin * (now - last)
      BY RefilledFacts, CapacityNat
    <2> DEFINE g == grants[i]
               before == Earned(g, last)
               since  == Earned(last, now)
               all    == Earned(g, now)
               handed == (Len(grants) - i + 1) * TicksPerMin
    <2>4. g \in Nat /\ last \in Nat /\ now \in Nat BY <2>1, Zenon
    <2>5. handed \in Int BY <2>1, Units, Zenon
    <2>6. /\ g <= last /\ last <= now /\ tokens + handed <= capacity + before
          /\ refilled <= tokens + since
      BY <2>1, <2>2, <2>3, Zenon DEF Earned
    <2> SUFFICES g <= now /\ refilled + handed <= capacity + all BY Zenon DEF Earned
    <2> HIDE DEF g, handed
    <2>7. all = before + since /\ before \in Int /\ since \in Int
      BY <2>4, Worth, Zenon
    <2> HIDE DEF before, since, all
    <2> QED BY <2>1, <2>3, <2>4, <2>5, <2>6, <2>7, CapacityNat
  <1>3. Budget' BY <1>2, Zenon DEF Budget, capacity
  <1> QED BY <1>1, <1>3, Zenon

LEMMA Admitted ==
    ASSUME RouterTypeOK, Budget, VolumeBounded, last' = now, refilled >= TicksPerMin,
           tokens' = refilled - TicksPerMin, grants' = Append(grants, now)
    PROVE  Budget' /\ VolumeBounded'
  <1> DEFINE n == Len(grants)
  <1>1. /\ n \in Nat /\ Len(grants') = n + 1 /\ grants'[n + 1] = now
        /\ \A i \in 1..n : grants'[i] = grants[i] /\ grants[i] \in Nat
    BY DEF RouterTypeOK
  <1>2. /\ now \in Nat /\ last \in Nat /\ last <= now /\ tokens \in Nat
        /\ refilled \in Nat /\ refilled <= capacity /\ TicksPerMin \in Nat /\ capacity \in Nat
        /\ refilled <= tokens + PaidRatePerMin * (now - last)
    BY CapacityNat, RefilledFacts, RouterAssumption DEF RouterTypeOK
  <1>3. ASSUME NEW i \in 1..(n + 1)
        PROVE  /\ grants'[i] \in Nat /\ grants'[i] <= now
               /\ (refilled - TicksPerMin) + (n + 1 - i + 1) * TicksPerMin
                    <= capacity + PaidRatePerMin * (now - grants'[i])
    <2>1. CASE i = n + 1
      <3>1. (n + 1 - i + 1) * TicksPerMin = TicksPerMin BY <2>1, <1>1, <1>2
      <3>2. PaidRatePerMin * (now - grants'[i]) = 0 BY <2>1, <1>1, <1>2, RouterAssumption
      <3> QED BY <2>1, <3>1, <3>2, <1>1, <1>2
    <2>2. CASE i # n + 1
      <3>1. i \in 1..n /\ n - i + 1 \in Int BY <2>2, <1>1
      <3>2. /\ grants'[i] = grants[i] /\ grants[i] \in Nat /\ grants[i] <= last
            /\ tokens + (n - i + 1) * TicksPerMin
                 <= capacity + PaidRatePerMin * (last - grants[i])
        BY <3>1, <1>1, Zenon DEF Budget
      <3>3. /\ (n + 1 - i + 1) * TicksPerMin = (n - i + 1) * TicksPerMin + TicksPerMin
            /\ (n - i + 1) * TicksPerMin \in Int
        <4>1. n + 1 - i + 1 = (n - i + 1) + 1 BY <3>1, <1>1
        <4> QED BY <4>1, <3>1, Units, Zenon
      <3> DEFINE g == grants[i]
                 before == Earned(g, last)
                 since  == Earned(last, now)
                 all    == Earned(g, now)
                 handed == (n - i + 1) * TicksPerMin
                 next   == (n + 1 - i + 1) * TicksPerMin
      <3>4. /\ g \in Nat /\ g <= last /\ tokens + handed <= capacity + before
            /\ refilled <= tokens + since /\ next = handed + TicksPerMin /\ handed \in Int
        BY <3>2, <3>3, <1>2, Zenon DEF Earned
      <3> SUFFICES g <= now /\ (refilled - TicksPerMin) + next <= capacity + all BY <3>2, Zenon DEF Earned
      <3> HIDE DEF g, handed, next, n
      <3>5. all = before + since /\ before \in Int /\ since \in Int BY <3>4, <1>2, Worth
      <3> HIDE DEF before, since, all
      <3> QED BY <3>4, <3>5, <1>2
    <2> QED BY <2>1, <2>2, Zenon
  <1>4. Budget' BY <1>3, <1>1 DEF Budget, capacity
  <1>5. VolumeBounded'
    <2> SUFFICES ASSUME NEW i \in 1..(n + 1), NEW j \in i..(n + 1)
                 PROVE  (j - i + 1) * TicksPerMin
                          <= capacity + PaidRatePerMin * (grants'[j] - grants'[i])
      BY <1>1, Zenon DEF VolumeBounded, capacity
    <2>1. CASE j = n + 1
      <3>1. /\ refilled - TicksPerMin \in Nat
            /\ (n + 1 - i + 1) * TicksPerMin \in Int
            /\ PaidRatePerMin * (now - grants'[i]) \in Int
        <4>1. n + 1 - i + 1 \in Int /\ grants'[i] \in Nat BY <1>1, <1>3
        <4>2. (n + 1 - i + 1) * TicksPerMin \in Int BY <4>1, Units, Zenon
        <4>3. PaidRatePerMin * (now - grants'[i]) \in Int BY <4>1, <1>2, Worth, Zenon DEF Earned
        <4>4. refilled - TicksPerMin \in Nat BY <1>2
        <4> QED BY <4>2, <4>3, <4>4, Zenon
      <3> QED BY <2>1, <3>1, <1>1, <1>2, <1>3
    <2>2. CASE j # n + 1
      <3>1. i \in 1..n /\ j \in i..n /\ j \in 1..n BY <2>2, <1>1
      <3> QED BY <3>1, <1>1, Zenon DEF VolumeBounded
    <2> QED BY <2>1, <2>2, Zenon
  <1> QED BY <1>4, <1>5, Zenon

LEMMA VolumeStep == VolumeInv /\ [RouterNext]_routerVars => VolumeInv'
  <1> SUFFICES ASSUME VolumeInv, [RouterNext]_routerVars PROVE VolumeInv' BY Zenon
  <1>1. RouterTypeOK /\ Budget /\ VolumeBounded BY Zenon DEF VolumeInv
  <1>2. RouterTypeOK' BY <1>1, TypeStep, Zenon
  <1>3. CASE UNCHANGED <<tokens, last, grants>>
    BY <1>1, <1>2, <1>3, Zenon DEF VolumeInv, Budget, VolumeBounded, capacity
  <1>4. ASSUME NEW q \in Chat, allow(q) PROVE Budget' /\ VolumeBounded'
    BY <1>1, <1>4, Refused, Admitted, Zenon DEF allow, Granted
  <1>5. (\E q \in Chat : allow(q)) \/ UNCHANGED <<tokens, last, grants>>
    BY Zenon DEF RouterNext, routerVars, Tick, handleChat, recordRoute, proxyAPI, proxyLocal
  <1> QED BY <1>2, <1>3, <1>4, <1>5, Zenon DEF VolumeInv

\* However many requests race for the bucket, whatever the rate: the paid requests
\* let through between two instants are at most a full bucket plus what the time
\* between them refills (newRateLimiter, allow).
THEOREM VolumeHolds == RouterSpec => []VolumeBounded
  <1>1. VolumeInv => VolumeBounded BY Zenon DEF VolumeInv
  <1> QED BY <1>1, VolumeInit, VolumeStep, PTL DEF RouterSpec

-----------------------------------------------------------------------------
(* Paid calls: recorded first, and one for each token                      *)

LEMMA CallInit == RouterInit => CallInv
  <1> SUFFICES ASSUME RouterInit PROVE CallInv BY Zenon
  <1>1. \A q \in Chat : req[q].pc = "idle"
    <2>1. PICK p \in Provider :
            req = [q \in Chat |-> [pc |-> "idle", route |-> "local", provider |-> p, token |-> 0]]
      BY Zenon DEF RouterInit
    <2> QED BY <2>1, Zenon
  <1>2. PaidTokens /\ PaidIsRecorded BY <1>1, Zenon DEF RouterInit, PaidTokens, PaidIsRecorded
  <1>3. OneCallPerToken BY <1>1, Zenon DEF OneCallPerToken, Paying
  <1> QED BY <1>2, <1>3, TypeInit, Zenon DEF CallInv

\* A step that takes q off the way to a provider, or leaves it off, and pays nothing.
LEMMA Quits ==
    ASSUME CallInv, NEW q \in Chat, ~Paying(q)', \A r \in Chat \ {q} : req'[r] = req[r],
           paid' = paid, routed \subseteq routed', grants' = grants
    PROVE  PaidTokens' /\ PaidIsRecorded' /\ OneCallPerToken'
  <1>1. \A r \in Chat : Paying(r)' => r # q /\ req'[r] = req[r] /\ Paying(r)
    BY Zenon DEF Paying
  <1>2. PaidTokens' BY Zenon DEF CallInv, PaidTokens
  <1>3. PaidIsRecorded' BY <1>1, Zenon DEF CallInv, PaidIsRecorded, Ticket
  <1>4. OneCallPerToken' BY <1>1, Zenon DEF CallInv, OneCallPerToken
  <1> QED BY <1>2, <1>3, <1>4, Zenon

\* A token handed out is one that no request holds and no call was made on.
LEMMA GrantedOne ==
    ASSUME CallInv, NEW q \in Chat, Granted(q), paid' = paid, routed' = routed
    PROVE  PaidTokens' /\ PaidIsRecorded' /\ OneCallPerToken'
  <1> DEFINE n == Len(grants)
  <1>1. /\ n \in Nat /\ Len(grants') = n + 1
    BY DEF CallInv, RouterTypeOK, Granted
  <1>2. /\ \A r \in Chat \ {q} : req'[r] = req[r]
        /\ req'[q].pc = "record" /\ req'[q].token = n + 1
    BY Zenon DEF CallInv, RouterTypeOK, Granted, ReqState
  <1>3. \A r \in Chat \ {q} : Paying(r)' => Paying(r) /\ req'[r].token \in 1..n
    BY <1>2, Zenon DEF Paying, CallInv, OneCallPerToken
  <1>4. \A x \in paid : x[1] \in 1..n BY Zenon DEF CallInv, PaidTokens
  <1> HIDE DEF n
  <1>5. PaidTokens' BY <1>1, <1>4 DEF PaidTokens
  <1>6. PaidIsRecorded'
    <2>1. paid' \subseteq routed' BY Zenon DEF CallInv, PaidIsRecorded
    <2>2. ASSUME NEW r \in Chat, req'[r].pc = "call", Paying(r)' PROVE Ticket(r)' \in routed'
      <3>1. r # q BY <1>2, <2>2, Zenon
      <3> QED BY <3>1, <1>2, <1>3, <2>2, Zenon DEF CallInv, PaidIsRecorded, Ticket
    <2> QED BY <2>1, <2>2, Zenon DEF PaidIsRecorded
  <1>7. OneCallPerToken'
    <2> SUFFICES ASSUME NEW r \in Chat, Paying(r)'
                 PROVE  /\ req'[r].token \in 1..(n + 1)
                        /\ \A x \in paid : x[1] # req'[r].token
                        /\ \A o \in Chat \ {r} : Paying(o)' => req'[o].token # req'[r].token
      BY <1>1, Zenon DEF OneCallPerToken
    <2>1. CASE r = q BY <2>1, <1>1, <1>2, <1>3, <1>4
    <2>2. CASE r # q
      <3>1. Paying(r) /\ req'[r] = req[r] /\ req'[r].token \in 1..n BY <2>2, <1>2, <1>3, Zenon
      <3>2. \A x \in paid : x[1] # req'[r].token BY <3>1, Zenon DEF CallInv, OneCallPerToken
      <3>3. ASSUME NEW o \in Chat \ {r}, Paying(o)' PROVE req'[o].token # req'[r].token
        <4>1. CASE o = q BY <4>1, <3>1, <1>1, <1>2
        <4>2. CASE o # q BY <4>2, <3>1, <3>3, <1>2, <1>3, Zenon DEF CallInv, OneCallPerToken
        <4> QED BY <4>1, <4>2, Zenon
      <3> QED BY <3>1, <3>2, <3>3, <1>1
    <2> QED BY <2>1, <2>2, Zenon
  <1> QED BY <1>5, <1>6, <1>7, Zenon

LEMMA RecordedOne ==
    ASSUME CallInv, NEW q \in Chat, recordRoute(q), Paying(q)
    PROVE  PaidTokens' /\ PaidIsRecorded' /\ OneCallPerToken'
  <1>1. CASE Goto(q, "idle") /\ routed' = routed
    <2>1. ~Paying(q)' /\ \A r \in Chat \ {q} : req'[r] = req[r]
      BY <1>1, Zenon DEF CallInv, RouterTypeOK, Goto, Paying, ReqState
    <2> QED BY <1>1, <2>1, Quits, Zenon DEF recordRoute
  <1>2. CASE Goto(q, "call") /\ routed' = routed \cup {Ticket(q)}
    <2>1. /\ \A r \in Chat \ {q} : req'[r] = req[r]
          /\ req'[q].token = req[q].token /\ req'[q].provider = req[q].provider
      BY <1>2, Zenon DEF CallInv, RouterTypeOK, Goto, ReqState
    <2>2. \A r \in Chat : /\ Paying(r)' => Paying(r)
                         /\ req'[r].token = req[r].token /\ Ticket(r)' = Ticket(r)
      BY <2>1, Zenon DEF Paying, Ticket
    <2>3. PaidTokens' /\ OneCallPerToken'
      BY <2>2, Zenon DEF recordRoute, CallInv, PaidTokens, OneCallPerToken
    <2>4. PaidIsRecorded'
      BY <1>2, <2>1, <2>2, Zenon DEF recordRoute, CallInv, PaidIsRecorded
    <2> QED BY <2>3, <2>4, Zenon
  <1> QED BY <1>1, <1>2, Zenon DEF recordRoute

LEMMA CalledOne ==
    ASSUME CallInv, NEW q \in Chat, proxyAPI(q)
    PROVE  PaidTokens' /\ PaidIsRecorded' /\ OneCallPerToken'
  <1>1. Paying(q) /\ req[q].pc = "call" BY Zenon DEF proxyAPI, Paying
  <1>2. ~Paying(q)' /\ \A r \in Chat \ {q} : req'[r] = req[r]
    BY Zenon DEF proxyAPI, CallInv, RouterTypeOK, Goto, Paying, ReqState
  <1>3. paid' \subseteq paid \cup {Ticket(q)} /\ grants' = grants /\ routed' = routed
    BY Zenon DEF proxyAPI
  <1>4. Ticket(q) \in routed /\ Ticket(q)[1] = req[q].token /\ req[q].token \in 1..Len(grants)
    BY <1>1, Zenon DEF CallInv, PaidIsRecorded, Ticket, OneCallPerToken
  <1>5. PaidTokens' BY <1>3, <1>4, Zenon DEF CallInv, PaidTokens
  <1>6. \A r \in Chat : Paying(r)' => r # q /\ req'[r] = req[r] /\ Paying(r)
    BY <1>2, Zenon DEF Paying
  <1>7. PaidIsRecorded' BY <1>3, <1>4, <1>6, Zenon DEF CallInv, PaidIsRecorded, Ticket
  <1>8. OneCallPerToken'
    <2> SUFFICES ASSUME NEW r \in Chat, Paying(r)'
                 PROVE  /\ req'[r].token \in 1..Len(grants)
                        /\ \A x \in paid' : x[1] # req'[r].token
                        /\ \A o \in Chat \ {r} : Paying(o)' => req'[o].token # req'[r].token
      BY <1>3, Zenon DEF OneCallPerToken
    <2>1. r # q /\ req'[r] = req[r] /\ Paying(r) BY <1>6, Zenon
    <2>2. req[r].token # req[q].token BY <2>1, <1>1, Zenon DEF CallInv, OneCallPerToken
    <2>3. \A x \in paid' : x[1] # req'[r].token
      BY <2>1, <2>2, <1>3, <1>4, Zenon DEF CallInv, OneCallPerToken
    <2> QED BY <2>1, <2>3, <1>6, Zenon DEF CallInv, OneCallPerToken
  <1> QED BY <1>5, <1>7, <1>8, Zenon

LEMMA CallStep == CallInv /\ [RouterNext]_routerVars => CallInv'
  <1> SUFFICES ASSUME CallInv, [RouterNext]_routerVars
               PROVE  PaidTokens' /\ PaidIsRecorded' /\ OneCallPerToken'
    BY TypeStep, Zenon DEF CallInv
  <1>1. CASE UNCHANGED <<grants, req, routed, paid>>
    BY <1>1, Zenon DEF CallInv, PaidTokens, PaidIsRecorded, OneCallPerToken, Paying, Ticket
  <1>2. ASSUME NEW q \in Chat, NEW tag, NEW len, NEW p \in Provider, handleChat(q, tag, len, p)
        PROVE  PaidTokens' /\ PaidIsRecorded' /\ OneCallPerToken'
    <2>1. ~Paying(q)' /\ \A r \in Chat \ {q} : req'[r] = req[r]
      BY <1>2, Zenon DEF handleChat, CallInv, RouterTypeOK, Paying
    <2> QED BY <1>2, <2>1, Quits, Zenon DEF handleChat
  <1>3. ASSUME NEW q \in Chat, allow(q) PROVE PaidTokens' /\ PaidIsRecorded' /\ OneCallPerToken'
    <2>1. CASE Granted(q) BY <1>3, <2>1, GrantedOne, Zenon DEF allow
    <2>2. CASE Goto(q, "idle") /\ grants' = grants
      <3>1. ~Paying(q)' /\ \A r \in Chat \ {q} : req'[r] = req[r]
        BY <2>2, Zenon DEF CallInv, RouterTypeOK, Goto, Paying, ReqState
      <3> QED BY <1>3, <2>2, <3>1, Quits, Zenon DEF allow
    <2> QED BY <1>3, <2>1, <2>2, Zenon DEF allow
  <1>4. ASSUME NEW q \in Chat, recordRoute(q)
        PROVE  PaidTokens' /\ PaidIsRecorded' /\ OneCallPerToken'
    <2>1. CASE Paying(q) BY <1>4, <2>1, RecordedOne, Zenon
    <2>2. CASE ~Paying(q)
      <3>1. ~Paying(q)' /\ \A r \in Chat \ {q} : req'[r] = req[r]
        BY <1>4, <2>2, Zenon DEF recordRoute, CallInv, RouterTypeOK, Goto, Paying, ReqState
      <3>2. routed' = routed /\ paid' = paid /\ grants' = grants BY <1>4, <2>2, Zenon DEF recordRoute
      <3> QED BY <3>1, <3>2, Quits, Zenon
    <2> QED BY <2>1, <2>2, Zenon
  <1>5. ASSUME NEW q \in Chat, proxyAPI(q) PROVE PaidTokens' /\ PaidIsRecorded' /\ OneCallPerToken'
    BY <1>5, CalledOne, Zenon
  <1>6. ASSUME NEW q \in Chat, proxyLocal(q)
        PROVE  PaidTokens' /\ PaidIsRecorded' /\ OneCallPerToken'
    <2>1. ~Paying(q)' /\ \A r \in Chat \ {q} : req'[r] = req[r]
      BY <1>6, Zenon DEF proxyLocal, CallInv, RouterTypeOK, Goto, Paying, ReqState
    <2> QED BY <1>6, <2>1, Quits, Zenon DEF proxyLocal
  <1>7. CASE Tick BY <1>1, <1>7, Zenon DEF Tick
  <1> QED BY <1>1, <1>2, <1>3, <1>4, <1>5, <1>6, <1>7, Zenon DEF RouterNext, routerVars

\* No call is made to a paid provider that the chain does not already hold, whichever
\* appends fail and however the requests interleave (handleChat, recordRoute).
THEOREM PaidCallsRecorded == RouterSpec => []PaidIsRecorded
  <1>1. CallInv => PaidIsRecorded BY Zenon DEF CallInv
  <1> QED BY <1>1, CallInit, CallStep, PTL DEF RouterSpec

\* No two calls are made on one token: the bound on the tokens is one on the calls.
THEOREM TokensNotShared == RouterSpec => []OneCallPerToken
  <1>1. CallInv => OneCallPerToken BY Zenon DEF CallInv
  <1> QED BY <1>1, CallInit, CallStep, PTL DEF RouterSpec

-----------------------------------------------------------------------------
(* The approval gate                                                       *)

\* Where a request is decides what is known of its verdict, its channel and the
\* resolver that is about to send on it.
Position ==
    \A r \in Req :
        /\ r \in pend => st[r] \in {"registered", "waiting"} /\ verdict[r] = "none"
        /\ st[r] \in {"registered", "waiting"} /\ r \notin pend => verdict[r] \notin {"none", "busy"}
        /\ st[r] = "idle" => verdict[r] = "none"
        /\ st[r] = "returned" => verdict[r] # "none"

\* A value on its way to a request says what the verdict says.
ValueIsVerdict ==
    \A r \in Req :
        /\ \A b \in BOOLEAN : <<r, b>> \in sends =>
              verdict[r] # "none" /\ (b <=> verdict[r] = "approve")
        /\ chan[r] # None => verdict[r] # "none" /\ (chan[r] <=> verdict[r] = "approve")
        /\ ok[r] # None => verdict[r] # "none"

IInv == TypeOK /\ FloodCaps /\ Position /\ ValueIsVerdict /\ ApprovedOnly

PendingOf(c) == {r \in pend : CgOf[r] = c}

-----------------------------------------------------------------------------
\* The pending table is finite.
LEMMA PendFinite ==
  ASSUME TypeOK
  PROVE  IsFiniteSet(pend) /\ \A c : IsFiniteSet(PendingOf(c))
  <1>1. IsFiniteSet(pend)
    BY GateAssumption, FS_Subset, Zenon DEF TypeOK
  <1>2. \A c : PendingOf(c) \subseteq pend
    BY Zenon DEF PendingOf
  <1> QED
    BY <1>1, <1>2, FS_Subset, Zenon

\* Registering a request adds one to its requester's count and to no other.
LEMMA CountAdded ==
  ASSUME TypeOK, NEW r \in Req, r \notin pend, pend' = pend \cup {r}
  PROVE  /\ Cardinality(pend') = Cardinality(pend) + 1
         /\ Cardinality(PendingOf(CgOf[r])') = Cardinality(PendingOf(CgOf[r])) + 1
         /\ \A c \in Cgid \ {CgOf[r]} : PendingOf(c)' = PendingOf(c)
  <1>1. PendingOf(CgOf[r])' = PendingOf(CgOf[r]) \cup {r} /\ r \notin PendingOf(CgOf[r])
    BY Zenon DEF PendingOf
  <1>2. \A c \in Cgid \ {CgOf[r]} : PendingOf(c)' = PendingOf(c)
    BY Zenon DEF PendingOf
  <1> QED
    BY <1>1, <1>2, PendFinite, FS_AddElement, ZenonT(30)

\* Resolving one takes one off its requester's count and off no other.
LEMMA CountRemoved ==
  ASSUME TypeOK, NEW r \in pend, pend' = pend \ {r}
  PROVE  /\ Cardinality(pend') = Cardinality(pend) - 1
         /\ Cardinality(PendingOf(CgOf[r])') = Cardinality(PendingOf(CgOf[r])) - 1
         /\ Cardinality(PendingOf(CgOf[r])) > 0
         /\ \A c \in Cgid \ {CgOf[r]} : PendingOf(c)' = PendingOf(c)
  <1>1. PendingOf(CgOf[r])' = PendingOf(CgOf[r]) \ {r} /\ r \in PendingOf(CgOf[r])
    BY Zenon DEF PendingOf
  <1>2. \A c \in Cgid \ {CgOf[r]} : PendingOf(c)' = PendingOf(c)
    BY Zenon DEF PendingOf
  <1>3. Cardinality(PendingOf(CgOf[r])) \in Nat /\ Cardinality(PendingOf(CgOf[r])') \in Nat
    BY <1>1, PendFinite, FS_RemoveElement, FS_CardinalityType, Zenon
  <1>4. Cardinality(PendingOf(CgOf[r])') = Cardinality(PendingOf(CgOf[r])) - 1
    BY <1>1, PendFinite, FS_RemoveElement, Zenon
  <1>5. Cardinality(pend') = Cardinality(pend) - 1
    BY PendFinite, FS_RemoveElement, Zenon
  <1> QED
    BY <1>2, <1>3, <1>4, <1>5

\* The caps, said with PendingOf.
LEMMA FloodCapsAlt ==
  FloodCaps <=> /\ Cardinality(pend) <= MaxPending
                /\ \A c \in Cgid : /\ pendPerPar[c] = Cardinality(PendingOf(c))
                                   /\ pendPerPar[c] <= MaxPendingPar
  BY Zenon DEF FloodCaps, PendingOf

-----------------------------------------------------------------------------
\* The initial state satisfies the inductive invariant.
LEMMA InitIInv == Init => IInv
  <1> SUFFICES ASSUME Init PROVE IInv
    BY Zenon
  <1>1. TypeOK
    BY Zenon DEF Init, TypeOK
  <1>2. FloodCaps
    <2>1. \A c : {r \in {} : CgOf[r] = c} = {}
      BY Zenon
    <2> QED
      BY <2>1, FS_EmptySet, GateAssumption DEF Init, FloodCaps
  <1>3. Position /\ ValueIsVerdict /\ ApprovedOnly
    BY Zenon DEF Init, Position, ValueIsVerdict, ApprovedOnly
  <1> QED
    BY <1>1, <1>2, <1>3, Zenon DEF IInv

\* register keeps within the caps it checks.
LEMMA RegisterIInv ==
  ASSUME IInv, NEW r \in Req, register(r)
  PROVE  IInv'
  <1> USE DEF IInv, register
  <1>1. CgOf[r] \in Cgid /\ r \notin pend
    BY GateAssumption, Zenon DEF Position
  <1>2. TypeOK'
    BY <1>1 DEF TypeOK
  <1>3. FloodCaps'
    <2>1. Cardinality(pend') = Cardinality(pend) + 1
          /\ Cardinality(PendingOf(CgOf[r])') = Cardinality(PendingOf(CgOf[r])) + 1
          /\ \A c \in Cgid \ {CgOf[r]} : PendingOf(c)' = PendingOf(c)
      BY <1>1, CountAdded, Zenon
    <2>2. Cardinality(pend) \in Nat /\ pendPerPar \in [Cgid -> Nat]
      BY PendFinite, FS_CardinalityType, Zenon DEF TypeOK
    <2>3. Cardinality(pend) < MaxPending /\ pendPerPar[CgOf[r]] < MaxPendingPar
      BY <1>1, <2>2, GateAssumption DEF Full
    <2>4. pendPerPar' = [pendPerPar EXCEPT ![CgOf[r]] = @ + 1]
      BY Zenon
    <2>5. \A c \in Cgid : /\ pendPerPar'[c] = Cardinality(PendingOf(c)')
                          /\ pendPerPar'[c] <= MaxPendingPar
      <3> TAKE c \in Cgid
      <3>1. CASE c = CgOf[r]
        BY <3>1, <1>1, <2>1, <2>2, <2>3, <2>4, GateAssumption, FloodCapsAlt
      <3>2. CASE c # CgOf[r]
        BY <3>2, <1>1, <2>1, <2>2, <2>4, FloodCapsAlt, Zenon
      <3> QED
        BY <3>1, <3>2, Zenon
    <2>6. Cardinality(pend') <= MaxPending
      BY <2>1, <2>2, <2>3, GateAssumption
    <2> QED
      BY <2>5, <2>6, Zenon DEF FloodCaps, PendingOf
  <1>4. Position'
    BY Zenon DEF Position, TypeOK
  <1>5. ValueIsVerdict' /\ ApprovedOnly'
    BY Zenon DEF ValueIsVerdict, ApprovedOnly
  <1> QED
    BY <1>2, <1>3, <1>4, <1>5, Zenon

\* A step that leaves the pending table alone keeps the caps.
LEMMA TableUntouched ==
  ASSUME FloodCaps, UNCHANGED <<pend, pendPerPar>>
  PROVE  FloodCaps'
  BY Zenon DEF FloodCaps

\* A request refused at once has its verdict.
LEMMA BusyIInv ==
  ASSUME IInv, NEW r \in Req, registerBusy(r)
  PROVE  IInv'
  <1> USE DEF IInv, registerBusy
  <1>1. TypeOK'
    BY Zenon DEF TypeOK
  <1>2. verdict[r] = "none" /\ r \notin pend
    BY Zenon DEF Position
  <1>3. Position'
    BY <1>2, Zenon DEF Position, TypeOK
  <1>4. ValueIsVerdict'
    BY <1>2, Zenon DEF ValueIsVerdict, TypeOK
  <1>5. ApprovedOnly'
    BY <1>2, Zenon DEF ApprovedOnly, TypeOK, ValueIsVerdict
  <1> QED
    BY <1>1, <1>3, <1>4, <1>5, TableUntouched, Zenon

\* Whoever resolves a request takes it out of the table and decides it.
LEMMA ResolveIInv ==
  ASSUME IInv, NEW n, NEW v \in {"approve", "deny", "timeout"}, resolve(n, v),
         timer' \in [Req -> {"off", "armed", "fired"}],
         UNCHANGED <<st, id, pendNext, chan, ok, shown, restarts>>
  PROVE  IInv'
  <1>1. CASE UNCHANGED <<pend, pendPerPar, verdict, sends>>
    BY <1>1, TableUntouched, Zenon DEF IInv, TypeOK, Position, ValueIsVerdict, ApprovedOnly
  <1>2. ASSUME NEW r \in pend, pend' = pend \ {r},
               pendPerPar' = [pendPerPar EXCEPT ![CgOf[r]] = @ - 1],
               verdict' = [verdict EXCEPT ![r] = v],
               sends' = sends \cup {<<r, v = "approve">>}
        PROVE  IInv'
    <2>1. r \in Req /\ CgOf[r] \in Cgid /\ verdict[r] = "none" /\ st[r] \in {"registered", "waiting"}
      BY GateAssumption, Zenon DEF IInv, TypeOK, Position
    <2>2. /\ Cardinality(pend') = Cardinality(pend) - 1
          /\ Cardinality(PendingOf(CgOf[r])') = Cardinality(PendingOf(CgOf[r])) - 1
          /\ Cardinality(PendingOf(CgOf[r])) > 0
          /\ \A c \in Cgid \ {CgOf[r]} : PendingOf(c)' = PendingOf(c)
      BY <1>2, CountRemoved, Zenon DEF IInv
    <2>3. Cardinality(pend) \in Nat /\ pendPerPar \in [Cgid -> Nat]
      BY PendFinite, FS_CardinalityType, Zenon DEF IInv, TypeOK
    <2>4. pendPerPar[CgOf[r]] > 0
      BY <2>1, <2>2, FloodCapsAlt, Zenon DEF IInv
    <2>5. TypeOK'
      <3>1. pendPerPar' \in [Cgid -> Nat]
        BY <1>2, <2>1, <2>3, <2>4
      <3>2. sends' \subseteq Req \X BOOLEAN
        <4>1. PICK b \in BOOLEAN : b = (v = "approve")
          BY Zenon
        <4>2. sends' = sends \cup {<<r, b>>}
          BY <1>2, <4>1, Zenon
        <4> QED
          BY <4>2, <2>1 DEF IInv, TypeOK
      <3> QED
        BY <1>2, <2>1, <3>1, <3>2, Zenon DEF IInv, TypeOK
    <2>6. FloodCaps'
      <3>1. \A c \in Cgid : /\ pendPerPar'[c] = Cardinality(PendingOf(c)')
                            /\ pendPerPar'[c] <= MaxPendingPar
        <4> TAKE c \in Cgid
        <4>1. CASE c = CgOf[r]
          BY <4>1, <1>2, <2>1, <2>2, <2>3, <2>4, GateAssumption, FloodCapsAlt DEF IInv
        <4>2. CASE c # CgOf[r]
          BY <4>2, <1>2, <2>1, <2>2, <2>3, FloodCapsAlt, Zenon DEF IInv
        <4> QED
          BY <4>1, <4>2, Zenon
      <3>2. Cardinality(pend') <= MaxPending
        BY <2>2, <2>3, GateAssumption DEF IInv, FloodCaps
      <3> QED
        BY <3>1, <3>2, Zenon DEF FloodCaps, PendingOf
    <2>7. verdict'[r] = v /\ \A q \in Req \ {r} : verdict'[q] = verdict[q]
      BY <1>2, <2>1, Zenon DEF IInv, TypeOK
    <2>8. Position'
      BY <1>2, <2>1, <2>7, Zenon DEF IInv, Position
    <2>9. \A q \in Req, b \in BOOLEAN :
            <<q, b>> \in sends' => <<q, b>> \in sends \/ (q = r /\ b = (v = "approve"))
      BY <1>2, Zenon
    <2>10. ok[r] = None /\ chan[r] = None /\ \A b \in BOOLEAN : <<r, b>> \notin sends
      BY <2>1, Zenon DEF IInv, ValueIsVerdict
    <2>11. ValueIsVerdict'
      BY <2>7, <2>9, <2>10, Zenon DEF IInv, ValueIsVerdict
    <2>12. ApprovedOnly'
      BY <2>7, <2>10, Zenon DEF IInv, ApprovedOnly
    <2> QED
      BY <2>5, <2>6, <2>8, <2>11, <2>12, Zenon DEF IInv
  <1> QED
    BY <1>1, <1>2, Zenon DEF resolve

\* The timer is armed, or fires.
LEMMA TimerIInv ==
  ASSUME IInv, NEW r \in Req, armTimer(r) \/ timerFires(r)
  PROVE  IInv'
  <1>1. /\ UNCHANGED <<id, pend, pendNext, pendPerPar, verdict, chan, sends, ok, shown, restarts>>
        /\ timer' \in [Req -> {"off", "armed", "fired"}]
        /\ st' = st \/ (st[r] = "registered" /\ st' = [st EXCEPT ![r] = "waiting"])
    BY Zenon DEF armTimer, timerFires, IInv, TypeOK
  <1>2. TypeOK'
    BY <1>1 DEF IInv, TypeOK
  <1>3. Position'
    BY <1>1 DEF IInv, TypeOK, Position
  <1>4. ValueIsVerdict' /\ ApprovedOnly'
    BY <1>1, Zenon DEF IInv, ValueIsVerdict, ApprovedOnly
  <1> QED
    BY <1>1, <1>2, <1>3, <1>4, TableUntouched, Zenon DEF IInv

\* The value is delivered as it was decided.
LEMMA SendIInv ==
  ASSUME IInv, NEW r \in Req, NEW b \in BOOLEAN, send(r, b)
  PROVE  IInv'
  <1>1. /\ UNCHANGED <<st, id, pend, pendNext, pendPerPar, verdict, timer, ok, shown, restarts>>
        /\ <<r, b>> \in sends /\ chan' = [chan EXCEPT ![r] = b] /\ sends' = sends \ {<<r, b>>}
    BY Zenon DEF send
  <1>2. TypeOK'
    BY <1>1, Zenon DEF IInv, TypeOK
  <1>3. Position' /\ ApprovedOnly'
    BY <1>1, Zenon DEF IInv, Position, ApprovedOnly
  <1>4. chan'[r] = b /\ \A q \in Req \ {r} : chan'[q] = chan[q]
    BY <1>1, Zenon DEF IInv, TypeOK
  <1>5. verdict[r] # "none" /\ (b <=> verdict[r] = "approve")
    BY <1>1, Zenon DEF IInv, ValueIsVerdict
  <1>6. ValueIsVerdict'
    BY <1>1, <1>4, <1>5, Zenon DEF IInv, ValueIsVerdict
  <1> QED
    BY <1>1, <1>2, <1>3, <1>6, TableUntouched, Zenon DEF IInv

\* The goroutine returns what it received.
LEMMA ReceiveIInv ==
  ASSUME IInv, NEW r \in Req, receive(r)
  PROVE  IInv'
  <1>1. /\ UNCHANGED <<id, pend, pendNext, pendPerPar, verdict, chan, sends, shown, restarts>>
        /\ chan[r] # None /\ ok' = [ok EXCEPT ![r] = chan[r]]
        /\ st[r] = "waiting" /\ st' = [st EXCEPT ![r] = "returned"]
        /\ timer' = [timer EXCEPT ![r] = IF @ = "armed" THEN "off" ELSE @]
    BY Zenon DEF receive
  <1>2. TypeOK'
    BY <1>1, Zenon DEF IInv, TypeOK
  <1>3. verdict[r] # "none" /\ (chan[r] <=> verdict[r] = "approve")
    BY <1>1, Zenon DEF IInv, ValueIsVerdict
  <1>4. Position'
    BY <1>1, <1>3, Zenon DEF IInv, TypeOK, Position
  <1>5. ok'[r] = chan[r] /\ \A q \in Req \ {r} : ok'[q] = ok[q]
    BY <1>1, Zenon DEF IInv, TypeOK
  <1>6. ValueIsVerdict'
    BY <1>1, <1>3, <1>5, Zenon DEF IInv, ValueIsVerdict
  <1>7. ApprovedOnly'
    BY <1>1, <1>3, <1>5, Zenon DEF IInv, ApprovedOnly
  <1> QED
    BY <1>1, <1>2, <1>4, <1>6, <1>7, TableUntouched, Zenon DEF IInv

\* A restart forgets the table and its counters together.
LEMMA RestartIInv ==
  ASSUME IInv, BrokerRestart
  PROVE  IInv'
  <1> USE DEF BrokerRestart
  <1>1. TypeOK'
    BY DEF IInv, TypeOK
  <1>2. FloodCaps'
    <2>1. \A c : {r \in {} : CgOf[r] = c} = {}
      BY Zenon
    <2> QED
      BY <2>1, FS_EmptySet, GateAssumption DEF FloodCaps
  <1>3. Position'
    BY Zenon DEF IInv, TypeOK, Position
  <1>4. ValueIsVerdict' /\ ApprovedOnly'
    BY Zenon DEF IInv, ValueIsVerdict, ApprovedOnly
  <1> QED
    BY <1>1, <1>2, <1>3, <1>4, Zenon DEF IInv

\* Every step preserves the inductive invariant.
LEMMA NextIInv == IInv /\ [Next]_vars => IInv'
  <1> SUFFICES ASSUME IInv, [Next]_vars PROVE IInv'
    BY Zenon
  <1>1. ASSUME NEW r \in Req, Goroutine(r) PROVE IInv'
    <2>1. CASE timeout(r)
      <3>1. timer' \in [Req -> {"off", "armed", "fired"}]
        BY <2>1, Zenon DEF timeout, IInv, TypeOK
      <3> QED
        BY <2>1, <3>1, ResolveIInv, Zenon DEF timeout
    <2> QED
      BY <1>1, <2>1, RegisterIInv, BusyIInv, TimerIInv, ReceiveIInv, SendIInv, Zenon DEF Goroutine
  <1>2. ASSUME NEW n \in Ids, NEW v \in {"approve", "deny"}, handleApprove(n, v) PROVE IInv'
    <2>1. timer' \in [Req -> {"off", "armed", "fired"}]
      BY <1>2, Zenon DEF handleApprove, IInv, TypeOK
    <2> QED
      BY <1>2, <2>1, ResolveIInv, Zenon DEF handleApprove
  <1>3. CASE listPending
    <2>1. shown' \in [Ids -> {None} \cup Req]
      BY <1>3, Zenon DEF listPending, IInv, TypeOK
    <2> QED
      BY <1>3, <2>1, TableUntouched, Zenon DEF listPending, IInv, TypeOK, Position, ValueIsVerdict, ApprovedOnly
  <1>4. CASE UNCHANGED vars
    BY <1>4, TableUntouched, Zenon DEF vars, IInv, TypeOK, Position, ValueIsVerdict, ApprovedOnly
  <1> QED
    BY <1>1, <1>2, <1>3, <1>4, RestartIInv, Zenon DEF Next

\* The strengthening holds in every reachable state.
THEOREM Inductive == Spec => []IInv
  BY InitIInv, NextIInv, PTL DEF Spec

\* The gate's state keeps its types, each verdict channel holding one value at most.
THEOREM GateTypeCorrect == Spec => []TypeOK
  <1>1. IInv => TypeOK
    BY Zenon DEF IInv
  <1> QED
    BY Inductive, <1>1, PTL

\* The flood caps hold and their counters are exact.
THEOREM CapsHold == Spec => []FloodCaps
  <1>1. IInv => FloodCaps
    BY Zenon DEF IInv
  <1> QED
    BY Inductive, <1>1, PTL

\* finishGated executes only what was approved.
THEOREM OnlyApprovedExecutes == Spec => []ApprovedOnly
  <1>1. IInv => ApprovedOnly
    BY Zenon DEF IInv
  <1> QED
    BY Inductive, <1>1, PTL

-----------------------------------------------------------------------------
(* The gate implements GateSpec                                            *)

\* The abstract status is a function on the requests, decided by st and verdict.
LEMMA StatusValue ==
  ASSUME NEW q \in Req
  PROVE  /\ verdict[q] = "approve" => gateStatus[q] = "granted"
         /\ verdict[q] \in {"busy", "deny", "timeout"} => gateStatus[q] = "refused"
         /\ verdict[q] = "none" /\ st[q] = "idle" => gateStatus[q] = "idle"
         /\ verdict[q] = "none" /\ st[q] = "dead" => gateStatus[q] = "dropped"
         /\ verdict[q] = "none" /\ st[q] \notin {"idle", "dead"} => gateStatus[q] = "pending"
  BY Zenon DEF gateStatus

\* One request's status becomes s and no other changes.
LEMMA StatusStep ==
  ASSUME NEW r \in Req, NEW s, gateStatus'[r] = s,
         \A q \in Req \ {r} : verdict'[q] = verdict[q] /\ st'[q] = st[q]
  PROVE  gateStatus' = [gateStatus EXCEPT ![r] = s]
  BY ZenonT(30) DEF gateStatus

\* Steps that change neither verdicts nor goroutine positions stutter.
LEMMA StatusStutter ==
  ASSUME UNCHANGED <<verdict, st>>
  PROVE  gateStatus' = gateStatus
  BY Zenon DEF gateStatus

\* A resolve grants or refuses the one request it takes out of the table.
LEMMA ResolveSimulates ==
  ASSUME IInv, NEW n, NEW v \in {"approve", "deny", "timeout"}, resolve(n, v), st' = st
  PROVE  (\E r \in Req : Abs!Grant(r) \/ Abs!Refuse(r)) \/ gateStatus' = gateStatus
  <1>1. CASE verdict' = verdict
    BY <1>1, StatusStutter, Zenon
  <1>2. ASSUME NEW r \in pend, verdict' = [verdict EXCEPT ![r] = v]
        PROVE  \E q \in Req : Abs!Grant(q) \/ Abs!Refuse(q)
    <2>1. r \in Req /\ verdict[r] = "none" /\ st[r] \in {"registered", "waiting"}
      BY Zenon DEF IInv, TypeOK, Position
    <2>2. verdict'[r] = v /\ \A q \in Req \ {r} : verdict'[q] = verdict[q]
      BY <1>2, <2>1, Zenon DEF IInv, TypeOK
    <2>3. gateStatus[r] = "pending"
      BY <2>1, StatusValue, Zenon
    <2>4. gateStatus'[r] = IF v = "approve" THEN "granted" ELSE "refused"
      BY <2>1, <2>2, Zenon DEF gateStatus
    <2>5. gateStatus' = [gateStatus EXCEPT ![r] = IF v = "approve" THEN "granted" ELSE "refused"]
      BY <2>1, <2>2, <2>4, StatusStep, Zenon
    <2> QED
      BY <2>1, <2>3, <2>5, Zenon DEF Abs!Grant, Abs!Refuse
  <1> QED
    BY <1>1, <1>2, Zenon DEF resolve

\* Every step of the gate is a step of GateSpec or leaves the status alone.
LEMMA StepSimulates ==
  ASSUME IInv, [Next]_vars
  PROVE  Abs!Next \/ gateStatus' = gateStatus
  <1>1. ASSUME NEW r \in Req, register(r) PROVE Abs!Ask(r)
    <2>1. st[r] = "idle" /\ st' = [st EXCEPT ![r] = "registered"] /\ verdict' = verdict
      BY <1>1, Zenon DEF register
    <2>2. verdict[r] = "none"
      BY <2>1, Zenon DEF IInv, Position
    <2>3. st'[r] = "registered" /\ \A q \in Req \ {r} : st'[q] = st[q]
      BY <2>1, Zenon DEF IInv, TypeOK
    <2>4. gateStatus[r] = "idle" /\ gateStatus'[r] = "pending"
      BY <2>1, <2>2, <2>3, Zenon DEF gateStatus
    <2> QED
      BY <2>1, <2>3, <2>4, StatusStep, Zenon DEF Abs!Ask
  <1>2. ASSUME NEW r \in Req, registerBusy(r) PROVE Abs!Busy(r)
    <2>1. /\ st[r] = "idle" /\ st' = [st EXCEPT ![r] = "returned"]
          /\ verdict' = [verdict EXCEPT ![r] = "busy"]
      BY <1>2, Zenon DEF registerBusy
    <2>2. verdict[r] = "none"
      BY <2>1, Zenon DEF IInv, Position
    <2>3. /\ verdict'[r] = "busy"
          /\ \A q \in Req \ {r} : verdict'[q] = verdict[q] /\ st'[q] = st[q]
      BY <2>1, Zenon DEF IInv, TypeOK
    <2>4. gateStatus[r] = "idle" /\ gateStatus'[r] = "refused"
      BY <2>1, <2>2, <2>3, Zenon DEF gateStatus
    <2> QED
      BY <2>3, <2>4, StatusStep, Zenon DEF Abs!Busy
  <1>3. ASSUME NEW r \in Req, armTimer(r) PROVE gateStatus' = gateStatus
    <2>1. \A q \in Req : /\ verdict'[q] = verdict[q]
                         /\ st'[q] = st[q] \/ (st[q] = "registered" /\ st'[q] = "waiting")
      BY <1>3, Zenon DEF armTimer, IInv, TypeOK
    <2> QED
      BY <2>1, Zenon DEF gateStatus
  <1>4. ASSUME NEW r \in Req, receive(r) PROVE gateStatus' = gateStatus
    <2>1. verdict[r] # "none"
      BY <1>4, Zenon DEF receive, IInv, ValueIsVerdict
    <2>2. verdict' = verdict /\ \A q \in Req \ {r} : st'[q] = st[q]
      BY <1>4, Zenon DEF receive, IInv, TypeOK
    <2>3. verdict[r] \in {"busy", "approve", "deny", "timeout"}
      BY <2>1, Zenon DEF IInv, TypeOK
    <2> QED
      BY <2>2, <2>3, Zenon DEF gateStatus
  <1>5. ASSUME NEW r \in Req, Goroutine(r) PROVE Abs!Next \/ gateStatus' = gateStatus
    <2>1. CASE timeout(r)
      <3>1. resolve(id[r], "timeout") /\ st' = st
        BY <2>1, Zenon DEF timeout
      <3> QED
        BY <3>1, ResolveSimulates, Zenon DEF Abs!Next
    <2>2. CASE timerFires(r) \/ \E b \in BOOLEAN : send(r, b)
      BY <2>2, StatusStutter, Zenon DEF timerFires, send
    <2> QED
      BY <1>1, <1>2, <1>3, <1>4, <1>5, <2>1, <2>2, Zenon DEF Goroutine, Abs!Next
  <1>6. ASSUME NEW n \in Ids, NEW v \in {"approve", "deny"}, handleApprove(n, v)
        PROVE  Abs!Next \/ gateStatus' = gateStatus
    BY <1>6, ResolveSimulates, Zenon DEF handleApprove, Abs!Next
  <1>7. CASE BrokerRestart
    <2>1. /\ verdict' = verdict
          /\ \A q \in Req : st'[q] = IF st[q] \in {"registered", "waiting"} THEN "dead" ELSE st[q]
      BY <1>7, Zenon DEF BrokerRestart
    <2>2. \A q \in Req : st[q] = "returned" => verdict[q] # "none"
      BY Zenon DEF IInv, Position
    <2>3. ASSUME NEW q \in Req
          PROVE  gateStatus'[q] = IF gateStatus[q] = "pending" THEN "dropped" ELSE gateStatus[q]
      <3>1. verdict[q] \in {"none", "busy", "approve", "deny", "timeout"}
            /\ st[q] \in {"idle", "registered", "waiting", "returned", "dead"}
        BY Zenon DEF IInv, TypeOK
      <3> QED
        BY <2>1, <2>2, <3>1, Zenon DEF gateStatus
    <2>4. gateStatus' = [q \in Req |-> gateStatus'[q]]
      BY Zenon DEF gateStatus
    <2> QED
      BY <2>3, <2>4, Zenon DEF Abs!Next, Abs!Drop
  <1>8. CASE listPending \/ UNCHANGED vars
    BY <1>8, StatusStutter, Zenon DEF listPending, vars
  <1> QED
    BY <1>5, <1>6, <1>7, <1>8, Zenon DEF Next

\* The gate implements GateSpec: every verdict is final, and a request dropped by
\* a restart is never granted.
THEOREM Refines == Spec => GateImplements
  <1>1. Init => Abs!Init
    BY DEF Init, Abs!Init, gateStatus
  <1>2. IInv /\ [Next]_vars => [Abs!Next]_gateStatus
    BY StepSimulates, Zenon
  <1> QED
    BY Inductive, <1>1, <1>2, PTL DEF Spec, GateImplements, Abs!Spec

-----------------------------------------------------------------------------
(* The operator approves what was shown                                    *)

\* Until a restart a number belongs to one request, and is shown for that one.
NumberInv ==
    restarts = 0 =>
        /\ \A r \in Req : /\ id[r] \in 0..pendNext
                          /\ st[r] = "idle" => id[r] = 0
                          /\ r \in pend => id[r] # 0
        /\ \A r, q \in Req : id[r] = id[q] /\ id[r] # 0 => r = q
        /\ \A n \in Ids : shown[n] # None => id[shown[n]] = n

LEMMA NumberInit == Init => NumberInv
  BY DEF Init, NumberInv

\* register hands out a number above every one in use.
LEMMA RegisterNumber ==
  ASSUME IInv, NumberInv, NEW r \in Req, register(r), restarts = 0
  PROVE  NumberInv'
  <1>1. /\ id \in [Req -> Nat] /\ pendNext \in Nat
        /\ st \in [Req -> {"idle", "registered", "waiting", "returned", "dead"}]
        /\ shown \in [Ids -> {None} \cup Req] /\ None \notin Req
    BY GateAssumption, Zenon DEF IInv, TypeOK
  <1>2. /\ st[r] = "idle" /\ pendNext' = pendNext + 1 /\ shown' = shown /\ pend' = pend \cup {r}
        /\ id'[r] = pendNext + 1 /\ st'[r] = "registered"
        /\ \A q \in Req \ {r} : id'[q] = id[q] /\ st'[q] = st[q]
    BY <1>1, Zenon DEF register
  <1>3. /\ \A q \in Req : id[q] \in 0..pendNext /\ (st[q] = "idle" => id[q] = 0) /\ (q \in pend => id[q] # 0)
        /\ \A q, o \in Req : id[q] = id[o] /\ id[q] # 0 => q = o
        /\ \A n \in Ids : shown[n] # None => id[shown[n]] = n
    BY Zenon DEF NumberInv
  <1>4. \A q \in Req : /\ id'[q] \in 0..(pendNext + 1) /\ (st'[q] = "idle" => id'[q] = 0)
                       /\ (q \in pend' => id'[q] # 0)
    BY <1>1, <1>2, <1>3
  <1>5. \A q, o \in Req : id'[q] = id'[o] /\ id'[q] # 0 => q = o BY <1>1, <1>2, <1>3
  <1>6. ASSUME NEW n \in Ids, shown[n] # None PROVE id'[shown[n]] = n
    <2>1. n \in Nat /\ n # 0 BY GateAssumption, FS_CardinalityType DEF Ids
    <2>2. shown[n] \in Req /\ id[shown[n]] = n BY <1>1, <1>3, <1>6, Zenon
    <2> QED BY <1>2, <1>3, <2>1, <2>2, Zenon
  <1> QED BY <1>2, <1>4, <1>5, <1>6, Zenon DEF NumberInv

LEMMA NumberStep == IInv /\ NumberInv /\ [Next]_vars => NumberInv'
  <1> SUFFICES ASSUME IInv, NumberInv, [Next]_vars, restarts' = 0 PROVE NumberInv'
    BY Zenon DEF NumberInv
  <1>1. restarts = 0
    <2>1. restarts' = restarts \/ restarts' = restarts + 1
      BY Zenon DEF Next, Goroutine, register, registerBusy, armTimer, timerFires, timeout,
                   receive, send, handleApprove, listPending, BrokerRestart, vars
    <2>2. restarts \in Nat BY Zenon DEF IInv, TypeOK
    <2> QED BY <2>1, <2>2
  <1>2. CASE \E r \in Req : register(r) BY <1>1, <1>2, RegisterNumber, Zenon
  <1>3. CASE /\ UNCHANGED <<id, pendNext, shown>> /\ pend' \subseteq pend
             /\ \A r \in Req : st'[r] = "idle" => st[r] = "idle"
    BY <1>1, <1>3, Zenon DEF NumberInv, IInv, TypeOK
  <1>4. CASE listPending
    <2>1. UNCHANGED <<st, id, pend, pendNext>> BY <1>4, Zenon DEF listPending
    <2>2. ASSUME NEW n \in Ids, shown'[n] # None PROVE id[shown'[n]] = n
      <3>1. shown'[n] = IF \E r \in pend : id[r] = n THEN CHOOSE r \in pend : id[r] = n ELSE shown[n]
        BY <1>4, Zenon DEF listPending
      <3> QED BY <1>1, <2>2, <3>1, Zenon DEF NumberInv
    <2> QED BY <1>1, <2>1, <2>2, Zenon DEF NumberInv
  <1>5. ASSUME NEW r \in Req, \/ registerBusy(r) \/ armTimer(r) \/ timerFires(r) \/ timeout(r)
                              \/ receive(r) \/ \E b \in BOOLEAN : send(r, b)
        PROVE  NumberInv'
    <2>1. UNCHANGED <<id, pendNext, shown>> /\ pend' \subseteq pend
      BY <1>5, Zenon DEF registerBusy, armTimer, timerFires, timeout, resolve, receive, send
    <2>2. \A q \in Req : st'[q] = "idle" => st[q] = "idle"
      BY <1>5, Zenon DEF registerBusy, armTimer, timerFires, timeout, receive, send, IInv, TypeOK
    <2> QED BY <1>3, <2>1, <2>2, Zenon
  <1>6. ASSUME NEW n \in Ids, NEW v \in {"approve", "deny"}, handleApprove(n, v) PROVE NumberInv'
    BY <1>3, <1>6, Zenon DEF handleApprove, resolve
  <1>7. CASE UNCHANGED vars BY <1>3, <1>7, Zenon DEF vars
  <1>8. ~BrokerRestart BY <1>1 DEF BrokerRestart
  <1> QED BY <1>2, <1>4, <1>5, <1>6, <1>7, <1>8, Zenon DEF Next, Goroutine

\* Until a restart, ALLOW n approves the request that LIST showed under n, whatever
\* requests came and went in between (register: numbers are never used again).
THEOREM OperatorSeesWhatRuns == Spec => ApprovesWhatWasShown
  <1> DEFINE Seen == \A r \in Req :
                       verdict[r] # "approve" /\ verdict'[r] = "approve" /\ restarts = 0 =>
                         shown[id[r]] = r
  <1>1. IInv /\ NumberInv /\ [Next]_vars => [Seen]_vars
    <2> SUFFICES ASSUME IInv, NumberInv, Next, restarts = 0,
                        NEW r \in Req, verdict[r] # "approve", verdict'[r] = "approve"
                 PROVE  shown[id[r]] = r
      BY Zenon
    <2>1. PICK n \in Ids : handleApprove(n, "approve")
      <3>1. verdict \in [Req -> {"none", "busy", "approve", "deny", "timeout"}] BY Zenon DEF IInv, TypeOK
      <3> QED
        BY <3>1, Zenon DEF Next, Goroutine, register, registerBusy, armTimer, timerFires, timeout,
                           resolve, receive, send, handleApprove, listPending, BrokerRestart
    <2>2. PICK q \in pend : id[q] = n /\ verdict' = [verdict EXCEPT ![q] = "approve"]
      BY <2>1, Zenon DEF handleApprove, resolve
    <2>3. q = r BY <2>2, Zenon DEF IInv, TypeOK
    <2>4. n \in Nat /\ n # 0 BY GateAssumption, FS_CardinalityType DEF Ids
    <2>5. shown[n] # None BY <2>1, Zenon DEF handleApprove
    <2>6. shown[n] \in Req BY <2>5, Zenon DEF IInv, TypeOK
    <2>7. id[shown[n]] = n BY <2>5, Zenon DEF NumberInv
    <2> QED BY <2>2, <2>3, <2>4, <2>6, <2>7, Zenon DEF NumberInv
  <1>2. Spec => []NumberInv BY Inductive, NumberInit, NumberStep, PTL DEF Spec
  <1> QED BY <1>1, <1>2, Inductive, PTL DEF Spec, ApprovesWhatWasShown

=============================================================================
