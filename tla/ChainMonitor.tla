---------------------------- MODULE ChainMonitor ----------------------------
(***************************************************************************)
(* The off-box witness of one audit chain (chain-monitor/main.go), polling *)
(* while the device of AuditChain appends, rotates, fails and restarts: a  *)
(* quote with the chain's head in it, a fetch of the chain one file at a   *)
(* time between two listings, verify-audit with --since and --expect-tip,  *)
(* and the pin that is kept from one poll to the next.                     *)
(*                                                                         *)
(* No head is 0, as genesis: verify-audit makes no difference.  The AK's   *)
(* pin and the checks of the quote itself are an outcome of the poll.      *)
(***************************************************************************)
EXTENDS AuditChain

CONSTANTS MissedThreshold,       \* configured
          maxConsecutiveRaces

ASSUME MonitorAssumption == MissedThreshold \in Nat \ {0} /\ maxConsecutiveRaces \in Nat \ {0}

VARIABLES st,       \* the device's state file: pin, races, misses
          mon,      \* the poll under way
          silent    \* history: polls saved since one last gave a verdict or an alert

monVars == <<vars, st, mon, silent>>

NoPoll == [pc |-> "idle", st |-> [pin |-> 0, races |-> 0, misses |-> 0],
           quoted |-> FALSE, head |-> 0,
           segs |-> {}, left |-> {}, got |-> [f \in File |-> {}], frag |-> {},
           alert |-> FALSE, verdict |-> "none",
           stirred |-> FALSE,     \* history: the disk changed since the poll began
           unrenamed |-> FALSE]   \* history: a rotation was undone since then

MonInit == /\ Init
           /\ st = NoPoll.st /\ mon = NoPoll /\ silent = 0

atMost(n, max) == Min({n, max})

-----------------------------------------------------------------------------
(* attestPoll                                                              *)

\* The quote is fetched and verifies; attestChainHeads reads the live file's tip
\* without a lock ...
quoteVerified ==
    /\ mon.pc = "idle"
    /\ LET h == lastChainHash(Live, torn) IN
       mon' = [NoPoll EXCEPT !.pc = IF h = 0 THEN "newest" ELSE "list", !.head = h,
                             !.st = [st EXCEPT !.misses = 0], !.quoted = TRUE]
    /\ UNCHANGED <<vars, st, silent>>

\* Variant: an empty live file is genesis.
quoteGenesis ==
    /\ mon.pc = "newest"
    /\ mon' = [mon EXCEPT !.pc = "list"]
    /\ UNCHANGED <<vars, st, silent>>

\* ... and when there is none, the newest segment's that has one.
quoteNewestSegment ==
    /\ mon.pc = "newest"
    /\ LET known == {f \in listSegments : lastChainHash(f, torn) # 0} IN
       mon' = [mon EXCEPT !.pc = "list",
                          !.head = IF known = {} THEN 0 ELSE lastChainHash(Max(known), torn)]
    /\ UNCHANGED <<vars, st, silent>>

\* There is an answer, and the AK, the digest or the quote is not in order: an
\* alert, and a miss unless it was the digest's derivation that failed.
quoteRefused ==
    /\ mon.pc = "idle"
    /\ \E n \in {0, 1} :
         mon' = [NoPoll EXCEPT !.pc = "list", !.alert = TRUE,
                               !.st = [st EXCEPT !.misses = atMost(@ + n, MissedThreshold)]]
    /\ UNCHANGED <<vars, st, silent>>

noQuote ==
    /\ mon.pc = "idle"
    /\ mon' = [NoPoll EXCEPT !.pc = "list", !.alert = st.misses + 1 >= MissedThreshold,
                              !.st = [st EXCEPT !.misses = atMost(@ + 1, MissedThreshold)]]
    /\ UNCHANGED <<vars, st, silent>>

-----------------------------------------------------------------------------
(* witnessChains and fetchChainToDir                                       *)

listRemoteSegments ==
    /\ mon.pc = "list"
    /\ mon' = [mon EXCEPT !.pc = "fetch", !.segs = listSegments, !.left = listSegments]
    /\ UNCHANGED <<vars, st, silent>>

Got(f) == mon' = [mon EXCEPT !.got[f] = In(f), !.frag = IF f \in torn THEN @ \cup {f} ELSE @,
                             !.left = @ \ {f}, !.pc = IF f = Live THEN "again" ELSE @]

\* fetchOneInto, oldest segment first; one that is gone by now is an error.
fetchSegment ==
    /\ mon.pc = "fetch" /\ mon.left # {} /\ Min(mon.left) \in listSegments
    /\ Got(Min(mon.left))
    /\ UNCHANGED <<vars, st, silent>>

fetchLive ==
    /\ mon.pc = "fetch" /\ mon.left = {}
    /\ Got(Live)
    /\ UNCHANGED <<vars, st, silent>>

\* The chain's turn is over; the fetched files are removed.
Over(new, alerted, verdict) ==
    mon' = [NoPoll EXCEPT !.pc = "save", !.st = new, !.alert = mon.alert \/ alerted,
                          !.verdict = verdict]

\* A command fails: an alert if the device otherwise answered (with a quote that
\* was refused there is one already).
fetchErr ==
    /\ mon.pc \in {"list", "fetch", "again"}
    /\ Over(mon.st, mon.quoted, "none")
    /\ UNCHANGED <<vars, st, silent>>

\* Variant: the second listing is not compared.
relistIgnored ==
    /\ mon.pc = "again"
    /\ mon' = [mon EXCEPT !.pc = "verify", !.st.races = 0]
    /\ UNCHANGED <<vars, st, silent>>

\* Variant: a raced poll is skipped without being counted.
relistUncounted ==
    /\ mon.pc = "again"
    /\ IF listSegments = mon.segs
       THEN mon' = [mon EXCEPT !.pc = "verify", !.st.races = 0] ELSE Over(mon.st, FALSE, "none")
    /\ UNCHANGED <<vars, st, silent>>

\* The listing again: a snapshot that a rotation raced is counted and skipped, and
\* an alert when that happens too often in a row; another clears the count.
relist ==
    /\ mon.pc = "again"
    /\ LET n == mon.st.races + 1 IN
       IF listSegments = mon.segs
       THEN mon' = [mon EXCEPT !.pc = "verify", !.st.races = 0]
       ELSE Over([mon.st EXCEPT !.races = atMost(n, maxConsecutiveRaces)],
                 n >= maxConsecutiveRaces, "none")
    /\ UNCHANGED <<vars, st, silent>>

Fetched == (UNION {mon.got[f] : f \in File}) \ bad
Tip     == IF Fetched = {} THEN 0 ELSE Max(Fetched)

\* Variant: --since is left out when there is a head to compare with.
chainPassesSince ==
    /\ verifyFiles(mon.got, mon.frag, bad)
    /\ IF mon.quoted THEN Tip = mon.head ELSE mon.st.pin \in Fetched \cup {0}

\* verify-audit: one chain, its tip the quoted head, the pinned head in it.
chainPasses ==
    /\ verifyFiles(mon.got, mon.frag, bad)
    /\ mon.quoted => Tip = mon.head
    /\ mon.st.pin \in Fetched \cup {0}

\* A pass advances the pin to the tip, a failure alerts and keeps it.
VerifyChain ==
    /\ mon.pc = "verify"
    /\ IF chainPasses THEN Over([mon.st EXCEPT !.pin = Tip], FALSE, "pass")
                      ELSE Over(mon.st, TRUE, "fail")
    /\ UNCHANGED <<vars, st, silent>>

-----------------------------------------------------------------------------
(* runOnce                                                                 *)

saveState ==
    /\ mon.pc = "save"
    /\ st' = mon.st /\ mon' = NoPoll
    /\ silent' = IF mon.alert \/ mon.verdict = "pass" THEN 0 ELSE silent + 1
    /\ UNCHANGED vars

\* The monitor is stopped, or the save fails: the old state file stays.
notSaved ==
    /\ mon.pc # "idle"
    /\ mon' = NoPoll
    /\ UNCHANGED <<vars, st, silent>>

Device == /\ Next
          /\ mon' = IF mon.pc \in {"idle", "save"} THEN mon
                    ELSE [mon EXCEPT !.stirred = @ \/ disk' # disk,
                                     !.unrenamed = @ \/ (pc = "sealed" /\ pc' = "write")]
          /\ UNCHANGED <<st, silent>>

MonNext == \/ Device
           \/ quoteVerified \/ quoteNewestSegment \/ quoteRefused \/ noQuote
           \/ listRemoteSegments \/ fetchSegment \/ fetchLive \/ fetchErr
           \/ relist \/ VerifyChain \/ saveState \/ notSaved

MonSpec == MonInit /\ [][MonNext]_monVars

-----------------------------------------------------------------------------
(* Properties                                                              *)

\* Files fetched one by one from a device that goes on appending, rotating and
\* crashing are one chain whenever the two listings agree: the lists catch every
\* rotation and prune between them, unless a rotation was undone (fetchChainToDir).
SnapshotVerifies ==
    mon.pc = "verify" /\ ~mon.unrenamed => verifyFiles(mon.got, mon.frag, bad)

\* A chain alarm has a cause: the device wrote during the poll, its last append
\* was cut short, or the pinned record has left its disk.  A poll of a device at
\* rest passes, head, anchor and all (witnessChains, attestChainHeads).
QuietPollPasses ==
    [][mon'.verdict = "fail" /\ mon.pc = "verify" =>
         mon.stirred \/ Live \in torn \/ mon.st.pin \notin OnDisk \cup {0}]_monVars

\* q was appended to a chain that had p in it.
DescendsFrom(q, p) ==
    \E S \in SUBSET Rec : {p, q} \subseteq S /\ \A x \in S \ {p} : x > p /\ prev[x] \in S

\* The saved pin only moves to a record that descends from it: no rollback, crash
\* or mixture of files makes the witness follow a chain that lost what it had
\* witnessed (the --since ratchet of witnessChains, with and without a quote).
PinDescends ==
    [][st'.pin # st.pin /\ st.pin # 0 => DescendsFrom(st'.pin, st.pin)]_monVars

\* The witness cannot be kept in the dark: only so many polls in a row end with
\* neither a pass nor an alert, however rotation and silence alternate
\* (maxConsecutiveRaces, MissedThreshold).
NotEvaded == silent < maxConsecutiveRaces * MissedThreshold

=============================================================================
