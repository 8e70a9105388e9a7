----------------------------- MODULE ScanProofs -----------------------------
(* What holds of the tracker's library scan: of ScanGate, who may run one, *)
(* for any number of scans, of the kinds that claim the flag and of those  *)
(* that do not; and of Library, what one does, for any paths, contents and *)
(* requests.                                                               *)
EXTENDS ScanGate, Library, FiniteSetTheorems, TLAPS

-----------------------------------------------------------------------------
(* ScanGate: type correctness.                                             *)

LEMMA StepTyped ==
  ASSUME NEW t \in Scans, NEW from, NEW to \in Holding \cup {"idle", "refused", "done"},
         GateTypeOK, Step(t, from, to)
  PROVE  /\ pc' \in [Scans -> Holding \cup {"idle", "refused", "done"}]
         /\ pc[t] = from /\ pc'[t] = to
         /\ \A s \in Scans \ {t} : pc'[s] = pc[s]
  BY DEF GateTypeOK, Step

LEMMA PhaseOfPage ==
  ASSUME GateTypeOK
  PROVE  /\ {"error", "scanning", "loadingTracks", "ready"} \subseteq Phases
         /\ spa.at \in Phases
         /\ \A b : (IF b THEN "error" ELSE "loadingTracks") \in Phases
  BY DEF GateTypeOK, Phases

LEMMA GateTyped == GateTypeOK /\ [GateNext]_gateVars => GateTypeOK'
<1> SUFFICES ASSUME GateTypeOK, [GateNext]_gateVars PROVE GateTypeOK'
  OBVIOUS
<1> USE GateAssumption
<1>1. ASSUME NEW t \in Scans, Rescan(t)  PROVE GateTypeOK'
  BY <1>1, StepTyped DEF Rescan, Claim, GateTypeOK, Holding
<1>2. ASSUME NEW t \in Scans, RescanFromPage(t)  PROVE GateTypeOK'
  <2>1. pc' \in [Scans -> Holding \cup {"idle", "refused", "done"}]
    BY <1>2, StepTyped DEF RescanFromPage, Claim, Holding
  <2> QED  BY <1>2, <2>1 DEF RescanFromPage, Claim, GateTypeOK, Phases
<1>3. ASSUME NEW t \in Scans, Raise(t)  PROVE GateTypeOK'
  BY <1>3, StepTyped DEF Raise, GateTypeOK, Holding
<1>4. ASSUME NEW t \in Scans, LockDb(t)  PROVE GateTypeOK'
  BY <1>4, StepTyped DEF LockDb, GateTypeOK, Holding
<1>5. ASSUME NEW t \in Scans, Publish(t)  PROVE GateTypeOK'
  <2>1. last' \in Outcome
    BY <1>5 DEF Publish, GateTypeOK, Outcome
  <2> QED  BY <1>5, <2>1, StepTyped DEF Publish, GateTypeOK, Holding
<1>6. ASSUME NEW t \in Scans, UnlockDb(t)  PROVE GateTypeOK'
  BY <1>6, StepTyped DEF UnlockDb, GateTypeOK, Holding
<1>7. ASSUME NEW t \in Scans, Lower(t)  PROVE GateTypeOK'
  BY <1>7, StepTyped DEF Lower, GateTypeOK, Holding
<1>8. ASSUME Page  PROVE GateTypeOK'
  <2>1. PageOnly /\ \/ spa' = [spa EXCEPT !.down = TRUE]
                    \/ \E phase \in Phases : Go(phase)
    BY <1>8, PhaseOfPage, Zenon DEF Page, StatusBusy, StatusIdle, StatusReply,
       StatusFails, LoadTracks, LoadFails
  <2>2. spa' \in [at : Phases, down : BOOLEAN, of : Walks \cup {NoScan},
                since : SUBSET Walks]
    <3>1. CASE spa' = [spa EXCEPT !.down = TRUE]
      BY <3>1 DEF GateTypeOK
    <3>2. ASSUME NEW phase \in Phases, Go(phase)
          PROVE  spa' \in [at : Phases, down : BOOLEAN, of : Walks \cup {NoScan},
                since : SUBSET Walks]
      BY <3>2 DEF Go, GateTypeOK
    <3> QED  BY <2>1, <3>1, <3>2
  <2> QED  BY <2>1, <2>2 DEF PageOnly, GateTypeOK
<1>9. CASE UNCHANGED gateVars
  BY <1>9 DEF gateVars, GateTypeOK
<1> QED
  BY <1>1, <1>2, <1>3, <1>4, <1>5, <1>6, <1>7, <1>8, <1>9 DEF GateNext, RunScan

\* The flag, the connection, the published outcome, the stage of every scan
\* and the state of the page's machine keep their types.
THEOREM GateTypeCorrect == GateSpec => []GateTypeOK
<1>1. GateInit => GateTypeOK
  <2>1. NoScanYet \in Outcome
    BY DEF Outcome
  <2>2. ASSUME GateInit  PROVE /\ scanning \in BOOLEAN
                              /\ conn \in Scans \cup {NoScan}
                              /\ last \in Outcome
    BY <2>1, <2>2, Zenon DEF GateInit
  <2>3. ASSUME GateInit
        PROVE  spa \in [at : Phases, down : BOOLEAN, of : Walks \cup {NoScan},
                since : SUBSET Walks]
    BY <2>1, <2>3 DEF GateInit, Phases
  <2>4. ASSUME GateInit  PROVE pc \in [Scans -> Holding \cup {"idle", "refused", "done"}]
    BY <2>4 DEF GateInit
  <2> QED  BY <2>2, <2>3, <2>4 DEF GateTypeOK
<1> QED  BY <1>1, GateTyped, PTL DEF GateSpec

-----------------------------------------------------------------------------
(* The flag and its holders.  A scan that did not claim may lower the flag *)
(* over another's head, but none can leave it up behind itself.            *)

\* What a step of one scan does to the set of those that hold the flag.
LEMMA HoldersAfter ==
  ASSUME NEW t \in Scans, NEW from, NEW to \in Holding \cup {"idle", "refused", "done"},
         GateTypeOK, Step(t, from, to)
  PROVE  Holders' = IF to \in Holding THEN Holders \cup {t} ELSE Holders \ {t}
  BY StepTyped DEF Holders

LEMMA ClaimsAreKept == GateTypeOK /\ [GateNext]_gateVars /\ OnlyClaimed' => OnlyClaimed
<1> SUFFICES ASSUME GateTypeOK, [GateNext]_gateVars, OnlyClaimed',
                    NEW u \in Unclaimed
             PROVE  pc[u] = "idle"
  BY DEF OnlyClaimed
<1>1. u \in Scans /\ pc'[u] = "idle" /\ u \notin Walks
  BY GateAssumption DEF OnlyClaimed, Scans
<1>2. ASSUME NEW t \in Scans, RunScan(t)  PROVE pc[u] = "idle"
  BY <1>1, <1>2 DEF RunScan, Raise, LockDb, Publish, UnlockDb, Lower, Step, GateTypeOK
<1>3. ASSUME NEW t \in Scans, Rescan(t) \/ RescanFromPage(t)  PROVE pc[u] = "idle"
  BY <1>1, <1>3 DEF Rescan, RescanFromPage, Claim, Step, GateTypeOK
<1>4. ASSUME Page \/ UNCHANGED gateVars  PROVE pc[u] = "idle"
  BY <1>1, <1>4 DEF Page, StatusBusy, StatusIdle, StatusReply, StatusFails,
     LoadTracks, LoadFails, PageOnly, gateVars
<1> QED  BY <1>2, <1>3, <1>4 DEF GateNext

LEMMA FlagInductive ==
  GateTypeOK /\ FlagMeansScan /\ [GateNext]_gateVars => FlagMeansScan'
<1> SUFFICES ASSUME GateTypeOK, FlagMeansScan, [GateNext]_gateVars PROVE FlagMeansScan'
  OBVIOUS
<1>1. OnlyClaimed' => OnlyClaimed
  BY ClaimsAreKept
<1>2. ASSUME NEW t \in Scans, Claim(t)  PROVE FlagMeansScan'
  <2>1. CASE scanning
    BY <1>1, <1>2, <2>1, HoldersAfter DEF Claim, Step, FlagMeansScan, Holders, Holding
  <2>2. CASE ~scanning
    BY <1>1, <1>2, <2>2, HoldersAfter DEF Claim, FlagMeansScan, Holding
  <2> QED  BY <2>1, <2>2
<1>3. ASSUME NEW t \in Scans, Raise(t)  PROVE FlagMeansScan'
  <2>1. Holders' = Holders \cup {t}
    BY <1>3, HoldersAfter DEF Raise, Holding
  <2>2. scanning'
    BY <1>3 DEF Raise
  <2>3. CASE t \in Walks
    <3>1. t \in Holders
      BY <1>3, <2>3 DEF Raise, Step, Holders, Holding
    <3> QED  BY <1>1, <2>1, <2>2, <3>1 DEF FlagMeansScan
  <2>4. CASE t \in Unclaimed
    <3>1. ~OnlyClaimed'
      BY <1>3, <2>4, StepTyped DEF Raise, OnlyClaimed, Holding
    <3> QED  BY <2>1, <2>2, <3>1 DEF FlagMeansScan
  <2> QED  BY <2>3, <2>4 DEF Scans
<1>4. ASSUME NEW t \in Scans, LockDb(t) \/ Publish(t) \/ UnlockDb(t)
      PROVE  FlagMeansScan'
  <2>1. Holders' = Holders
    BY <1>4, HoldersAfter DEF LockDb, Publish, UnlockDb, Step, Holders, Holding
  <2>2. scanning' = scanning
    BY <1>4 DEF LockDb, Publish, UnlockDb
  <2> QED  BY <1>1, <2>1, <2>2 DEF FlagMeansScan
<1>5. ASSUME NEW t \in Scans, Lower(t)  PROVE FlagMeansScan'
  <2>1. Holders' = Holders \ {t} /\ t \in Holders /\ ~scanning'
    BY <1>5, HoldersAfter, ZenonT(60) DEF Lower, Step, Holders, Holding
  <2> QED  BY <1>1, <2>1 DEF FlagMeansScan
<1>6. ASSUME UNCHANGED <<scanning, pc>>  PROVE FlagMeansScan'
  BY <1>6 DEF FlagMeansScan, Holders, OnlyClaimed
<1>7. ASSUME Page \/ UNCHANGED gateVars  PROVE FlagMeansScan'
  BY <1>6, <1>7 DEF Page, StatusBusy, StatusIdle, StatusReply, StatusFails,
     LoadTracks, LoadFails, PageOnly, gateVars
<1> QED
  BY <1>2, <1>3, <1>4, <1>5, <1>7 DEF GateNext, RunScan, Rescan, RescanFromPage

\* Whatever claims, raises and scans at boot or after a fetch come in whatever
\* order: `scanning` is never left up with no task whose guard will lower it;
\* and if all scans claim it, it is a lock that exactly one of them holds.
THEOREM FlagHeld == GateSpec => []FlagMeansScan
<1>1. GateInit => FlagMeansScan
  BY DEF GateInit, FlagMeansScan, Holders, Holding
<1> QED  BY <1>1, FlagInductive, GateTypeCorrect, PTL DEF GateSpec

-----------------------------------------------------------------------------
(* The page that follows its own rescan.                                   *)

Told == {"published", "unlocked", "done"}

\* The rescan the page follows was accepted.  While all scans claim the flag,
\* what is published from there on is that rescan's outcome or, once it is
\* over, that of one in `since`: whoever holds the flag then came after it.
Followed ==
  spa.at = "rescanning" =>
    /\ spa.of \in Walks
    /\ pc[spa.of] \in Holding \cup {"done"}
    /\ OnlyClaimed =>
         /\ pc[spa.of] \in Told => last.scan \in {spa.of} \cup spa.since
         /\ pc[spa.of] = "done" => Holders \subseteq spa.since
         /\ spa.down => pc[spa.of] = "done"

\* The scan a page follows goes forward: it is over once it is done, and it
\* tells before it is.
LEMMA FollowedThroughScan ==
  ASSUME GateTypeOK, FlagMeansScan, Followed, spa.at = "rescanning",
         NEW t \in Scans, RunScan(t)
  PROVE  Followed'
<1> USE GateAssumption
<1>1. OnlyClaimed' => OnlyClaimed
  BY ClaimsAreKept DEF GateNext
<1>2. spa' = spa /\ spa.of \in Walks /\ spa.of \in Scans
  BY DEF RunScan, Raise, LockDb, Publish, UnlockDb, Lower, Followed, Scans
<1>3. /\ \A s \in Scans \ {t} : pc'[s] = pc[s]
      /\ pc'[t] \in {"raised", "walking", "published", "unlocked", "done"}
  BY DEF RunScan, Raise, LockDb, Publish, UnlockDb, Lower, Step, GateTypeOK
<1>4. pc'[spa.of] \in Holding \cup {"done"}
  BY <1>2, <1>3 DEF Followed, Holding
<1>5. OnlyClaimed' => t \in Walks /\ t \in Holders /\ t \notin Hvsc
  <2>1. OnlyClaimed' => t \notin Unclaimed
    BY <1>3 DEF OnlyClaimed
  <2>2. t \in Walks => t \in Holders
    BY DEF RunScan, Raise, LockDb, Publish, UnlockDb, Lower, Step, Holders, Holding
  <2> QED  BY <2>1, <2>2 DEF Scans
<1>6. OnlyClaimed' => (pc[spa.of] # "done" => t = spa.of)
  <2>1. pc[spa.of] # "done" => spa.of \in Holders
    BY <1>2 DEF Followed, Holders
  <2> QED  BY <1>1, <1>5, <2>1 DEF FlagMeansScan
<1>7. OnlyClaimed' => Holders' \subseteq Holders
  <2>1. Holders' \subseteq Holders \cup {t}
    BY <1>3 DEF Holders
  <2> QED  BY <1>5, <2>1
<1>8. pc[spa.of] = "done" => t # spa.of /\ pc'[spa.of] = "done"
  <2>1. pc[t] # "done"
    BY <1>2 DEF RunScan, Raise, LockDb, Publish, UnlockDb, Lower, Step
  <2> QED  BY <1>2, <1>3, <2>1
<1>9. ASSUME OnlyClaimed'
      PROVE  /\ pc'[spa.of] \in Told => last'.scan \in {spa.of} \cup spa.since
             /\ pc'[spa.of] = "done" => Holders' \subseteq spa.since
             /\ spa.down => pc'[spa.of] = "done"
  <2>1. CASE pc[spa.of] = "done"
    <3>1. t \in spa.since /\ Holders' \subseteq spa.since
      BY <1>1, <1>5, <1>7, <1>9, <2>1 DEF Followed
    <3>2. last'.scan \in {last.scan, t}
      BY <1>5, <1>9 DEF RunScan, Raise, LockDb, Publish, UnlockDb, Lower
    <3> QED  BY <1>1, <1>8, <1>9, <2>1, <3>1, <3>2 DEF Followed, Told
  <2>2. CASE pc[spa.of] # "done"
    <3>1. t = spa.of /\ ~spa.down
      BY <1>1, <1>6, <1>9, <2>2 DEF Followed
    <3>2. pc'[t] \in Told => last'.scan \in {spa.of} \cup spa.since
      <4>1. CASE Publish(t)
        BY <1>5, <1>9, <3>1, <4>1 DEF Publish
      <4>2. CASE ~Publish(t)
        <5>1. last' = last /\ (pc'[t] \in Told => pc[t] \in Told)
          BY <4>2 DEF RunScan, Raise, LockDb, UnlockDb, Lower, Step, GateTypeOK, Told
        <5> QED  BY <1>1, <1>9, <3>1, <5>1 DEF Followed
      <4> QED  BY <4>1, <4>2
    <3>3. pc'[t] = "done" => Holders' = {}
      <4>1. Holders = {t}
        BY <1>1, <1>5, <1>9 DEF FlagMeansScan
      <4> QED  BY <1>3, <4>1 DEF Holders, Holding
    <3> QED  BY <3>1, <3>2, <3>3
  <2> QED  BY <2>1, <2>2
<1> QED  BY <1>2, <1>4, <1>9 DEF Followed

LEMMA FollowedInductive ==
  GateTypeOK /\ FlagMeansScan /\ Followed /\ [GateNext]_gateVars => Followed'
<1> SUFFICES ASSUME GateTypeOK, FlagMeansScan, Followed,
                    [GateNext]_gateVars, (spa.at = "rescanning")'
             PROVE  Followed'
  BY DEF Followed
<1> USE GateAssumption
<1>1. OnlyClaimed' => OnlyClaimed
  BY ClaimsAreKept
<1>2. Walks \subseteq Scans
  BY DEF Scans
<1>3. ASSUME NEW t \in Scans, RunScan(t)  PROVE Followed'
  <2>1. spa.at = "rescanning"
    BY <1>3 DEF RunScan, Raise, LockDb, Publish, UnlockDb, Lower
  <2> QED  BY <1>3, <2>1, FollowedThroughScan
<1>4. ASSUME NEW t \in Scans, Rescan(t)  PROVE Followed'
  <2>1. /\ spa'.at = spa.at /\ spa'.of = spa.of /\ spa'.down = spa.down
        /\ spa.since \subseteq spa'.since /\ last' = last
    BY <1>4 DEF Rescan, Claim, GateTypeOK
  <2>2. spa.at = "rescanning" /\ spa.of \in Scans
    BY <1>2, <2>1 DEF Followed
  <2>3. pc[t] = "idle" /\ pc'[t] = (IF scanning THEN "refused" ELSE "claimed")
           /\ \A s \in Scans \ {t} : pc'[s] = pc[s]
    BY <1>4 DEF Rescan, Claim, Step, GateTypeOK
  <2>4. pc'[spa.of] = pc[spa.of]
    BY <2>2, <2>3 DEF Followed, Holding
  <2>5. OnlyClaimed' => (pc[spa.of] = "done" => Holders' \subseteq spa'.since)
    <3>1. CASE scanning
      <4>1. Holders' \subseteq Holders
        BY <2>3, <3>1 DEF Holders, Holding
      <4> QED  BY <1>1, <2>1, <2>2, <4>1 DEF Followed
    <3>2. CASE ~scanning
      <4>1. OnlyClaimed' => Holders = {}
        BY <1>1, <3>2 DEF FlagMeansScan
      <4>2. Holders' \subseteq Holders \cup {t}
        BY <2>3 DEF Holders
      <4>3. pc[spa.of] = "done" => t \in spa'.since
        BY <1>4, <2>2, <3>2 DEF Rescan, GateTypeOK
      <4> QED  BY <4>1, <4>2, <4>3
    <3> QED  BY <3>1, <3>2
  <2>6. /\ spa'.of \in Walks
        /\ pc'[spa'.of] \in Holding \cup {"done"}
        /\ OnlyClaimed' =>
             /\ pc'[spa'.of] \in Told => last'.scan \in {spa'.of} \cup spa'.since
             /\ spa'.down => pc'[spa'.of] = "done"
    BY <1>1, <2>1, <2>2, <2>4 DEF Followed
  <2> QED  BY <2>1, <2>4, <2>5, <2>6 DEF Followed
<1>5. ASSUME NEW t \in Scans, RescanFromPage(t)  PROVE Followed'
  <2>1. /\ ~scanning /\ t \in Walks /\ Claim(t)
        /\ spa' = [at |-> "rescanning", down |-> FALSE, of |-> t, since |-> {}]
    BY <1>5 DEF RescanFromPage
  <2>2. pc'[t] = "claimed"
    BY <2>1, StepTyped DEF Claim, Holding
  <2> QED  BY <2>1, <2>2 DEF Followed, Holding, Told
<1>6. ASSUME Page  PROVE Followed'
  <2>1. /\ UNCHANGED <<pc, last, scanning>>
        /\ spa'.of = spa.of /\ spa'.since = spa.since
    <3>1. PageOnly /\ \/ spa' = [spa EXCEPT !.down = TRUE]
                      \/ \E phase : Go(phase)
      BY <1>6, Zenon DEF Page, StatusBusy, StatusIdle, StatusReply, StatusFails,
         LoadTracks, LoadFails
    <3>2. ASSUME NEW phase, Go(phase)
          PROVE  spa'.of = spa.of /\ spa'.since = spa.since
      BY <3>2 DEF Go, GateTypeOK
    <3>3. ASSUME spa' = [spa EXCEPT !.down = TRUE]
          PROVE  spa'.of = spa.of /\ spa'.since = spa.since
      BY <3>3 DEF GateTypeOK
    <3> QED  BY <3>1, <3>2, <3>3, Zenon DEF PageOnly
  <2>2. spa.at = "rescanning"
    BY <1>6 DEF Page, StatusBusy, StatusIdle, StatusReply, StatusFails, LoadTracks,
       LoadFails, Go, GateTypeOK
  <2>3. OnlyClaimed' => OnlyClaimed
    BY <2>1 DEF OnlyClaimed
  <2>4. spa'.down => spa.down \/ ~scanning
    <3>1. ~scanning \/ \E phase : Go(phase)
      BY <1>6, Zenon DEF Page, StatusBusy, StatusIdle, StatusReply, StatusFails,
         LoadTracks, LoadFails
    <3> QED  BY <3>1 DEF Go, GateTypeOK
  <2>5. OnlyClaimed /\ ~scanning => pc[spa.of] = "done"
    BY <1>2, <2>2 DEF FlagMeansScan, Followed, Holders
  <2>6. Holders' = Holders
    BY <2>1 DEF Holders
  <2> QED  BY <2>1, <2>2, <2>3, <2>4, <2>5, <2>6 DEF Followed
<1>7. CASE UNCHANGED gateVars
  BY <1>7 DEF gateVars, Followed, OnlyClaimed, Holders
<1> QED  BY <1>3, <1>4, <1>5, <1>6, <1>7 DEF GateNext

LEMMA PageKept == GateSpec => []Followed
<1>1. GateInit => Followed
  BY DEF GateInit, Followed
<1> QED  BY <1>1, FollowedInductive, GateTypeCorrect, FlagHeld, PTL DEF GateSpec

\* While every scan claims the flag, a page that follows its own rescan leaves
\* "rescanning" only after that rescan is over, and the outcome it reads is
\* that one's or of one accepted after it was over.
THEOREM RescanIsFollowed == GateSpec => OutcomeBeforeIdle
<1> DEFINE Left == spa.at = "rescanning" /\ spa'.at \in {"loadingTracks", "error"}
                     /\ OnlyClaimed
                     => pc[spa.of] = "done" /\ last.scan \in {spa.of} \cup spa.since
<1>1. GateTypeOK /\ Followed /\ [GateNext]_gateVars => [Left]_gateVars
  <2> SUFFICES ASSUME GateTypeOK, Followed, GateNext, OnlyClaimed,
                      spa.at = "rescanning", spa'.at \in {"loadingTracks", "error"}
               PROVE  pc[spa.of] = "done" /\ last.scan \in {spa.of} \cup spa.since
    OBVIOUS
  <2>1. Page
    <3>1. ASSUME NEW t \in Scans, Rescan(t)  PROVE spa'.at = spa.at
      BY <3>1 DEF Rescan, GateTypeOK
    <3> QED  BY <3>1 DEF GateNext, RunScan, Raise, LockDb, Publish, UnlockDb, Lower,
             RescanFromPage
  <2>2. spa.down
    BY <2>1 DEF Page, StatusBusy, StatusIdle, StatusReply, StatusFails, LoadTracks,
       LoadFails, Go, GateTypeOK
  <2> QED  BY <2>2 DEF Followed, Told
<1> QED  BY <1>1, GateTypeCorrect, PageKept, PTL DEF GateSpec, OutcomeBeforeIdle

-----------------------------------------------------------------------------
(* Library: type correctness.                                              *)

Stages  == {"idle", "move", "update", "remove", "done"}
OpType  == [at : Stages, from : Paths \cup {NoFile}, to : Paths \cup {NoFile}, met : BOOLEAN]
ScanType == [on : BOOLEAN, left : SUBSET Paths, cands : SUBSET Paths,
             got : [Paths -> Contents \cup {NoFile}], clean : BOOLEAN]
BudgetType == [scans : 0..MaxScans, faults : 0..MaxFaults]

LEMMA LibTypes ==
  LibTypeOK <=>
    /\ disk \in [Paths -> Contents \cup {NoFile}]
    /\ index \in [Paths -> Row \cup {NoRow}]
    /\ nextId \in Nat
    /\ scan \in ScanType
    /\ budget \in BudgetType
    /\ op \in [Ops -> OpType]
    /\ calm \in BOOLEAN
  BY DEF LibTypeOK, ScanType, BudgetType, OpType, Stages

\* A request goes on to another stage.
LEMMA AtIs ==
  ASSUME op \in [Ops -> OpType], NEW r \in Ops, NEW where \in Stages
  PROVE  LET f == [op EXCEPT ![r].at = where] IN
         /\ f \in [Ops -> OpType]
         /\ f[r].at = where /\ f[r].from = op[r].from /\ f[r].to = op[r].to
         /\ f[r].met = op[r].met
         /\ \A q \in Ops \ {r} : f[q] = op[q]
  BY DEF OpType

LEMMA MeetIs ==
  ASSUME NEW f \in [Ops -> OpType], NEW ps
  PROVE  /\ Meet(ps, f) \in [Ops -> OpType]
         /\ \A q \in Ops : /\ Meet(ps, f)[q].at = f[q].at
                           /\ Meet(ps, f)[q].from = f[q].from
                           /\ Meet(ps, f)[q].to = f[q].to
                           /\ f[q].met => Meet(ps, f)[q].met
                           /\ q \in UsersOf(ps) => Meet(ps, f)[q].met
                           /\ q \notin UsersOf(ps) => Meet(ps, f)[q] = f[q]
<1> DEFINE g == [q \in Ops |-> IF q \in UsersOf(ps) THEN [f[q] EXCEPT !.met = TRUE] ELSE f[q]]
<1>1. ASSUME NEW q \in Ops
      PROVE  /\ g[q] \in OpType
             /\ g[q].at = f[q].at /\ g[q].from = f[q].from /\ g[q].to = f[q].to
             /\ f[q].met => g[q].met
             /\ q \in UsersOf(ps) => g[q].met
             /\ q \notin UsersOf(ps) => g[q] = f[q]
  <2>1. f[q] \in OpType
    OBVIOUS
  <2>2. CASE q \in UsersOf(ps)
    <3>1. g[q] = [f[q] EXCEPT !.met = TRUE]
      BY <2>2
    <3> HIDE DEF g
    <3> QED  BY <2>1, <2>2, <3>1 DEF OpType
  <2>3. CASE q \notin UsersOf(ps)
    <3>1. g[q] = f[q]
      BY <2>3
    <3> HIDE DEF g
    <3> QED  BY <2>1, <2>3, <3>1
  <2> QED  BY <2>2, <2>3
<1>2. g \in [Ops -> OpType]
  BY <1>1
<1>3. Meet(ps, f) = g
  BY DEF Meet
<1> HIDE DEF g
<1> QED  BY <1>1, <1>2, <1>3

\* What a step may say of itself changes the two histories only.
LEMMA DisturbIs ==
  ASSUME scan \in ScanType, calm \in BOOLEAN, NEW c, Disturb(c)
  PROVE  /\ scan' \in ScanType /\ calm' \in BOOLEAN
         /\ scan'.on = scan.on /\ scan'.left = scan.left
         /\ scan'.cands = scan.cands /\ scan'.got = scan.got
         /\ calm' => calm /\ ~c
         /\ scan'.on /\ scan'.clean => scan.clean /\ ~c
<1>1. calm' = (calm /\ ~c)
  BY DEF Disturb
<1>2. CASE scan.on
  <2> DEFINE b == scan.clean /\ ~c
  <2>1. scan' = [scan EXCEPT !.clean = b]
    BY <1>2, Zenon DEF Disturb
  <2>2. b \in BOOLEAN /\ (b => scan.clean /\ ~c)
    BY Zenon
  <2> HIDE DEF b
  <2>3. /\ scan' \in ScanType
        /\ scan'.on = scan.on /\ scan'.left = scan.left
        /\ scan'.cands = scan.cands /\ scan'.got = scan.got
        /\ scan'.clean = b
    BY <2>1, <2>2 DEF ScanType
  <2> QED  BY <1>1, <2>2, <2>3, Zenon
<1>3. CASE ~scan.on
  <2>1. scan' = scan
    BY <1>3, Zenon DEF Disturb
  <2> QED  BY <1>1, <1>3, <2>1, Zenon
<1> QED  BY <1>2, <1>3

LEMMA FaultTyped == budget \in BudgetType /\ Fault => budget' \in BudgetType
  BY LibraryAssumption DEF BudgetType, Fault

\* The paths of a request are those it was made for.
OpOK ==
  \A r \in Ops :
    /\ op[r].at \in {"move", "update"} =>
         op[r].from \in Paths /\ op[r].to \in Paths /\ op[r].from # op[r].to
    /\ op[r].at = "remove" => op[r].from \in Paths /\ op[r].to = NoFile

\* The rows a commit writes, and the ids it uses: those of the rows that were there,
\* and new ones, each once, from nextId on.
LEMMA CommitIs ==
  ASSUME LibTypeOK, Commit
  PROVE  /\ index' \in [Paths -> Row \cup {NoRow}]
         /\ nextId' \in Nat /\ nextId <= nextId'
         /\ Indexed' = {p \in Paths : scan.got[p] # NoFile}
         /\ \A p \in Indexed' : /\ index'[p].hash = scan.got[p]
                                /\ p \in Indexed => index'[p].id = index[p].id
                                /\ p \notin Indexed => /\ nextId <= index'[p].id
                                                       /\ index'[p].id < nextId'
         /\ \A p, q \in Indexed' \ Indexed : p # q => index'[p].id # index'[q].id
<1> DEFINE seen == {p \in Paths : scan.got[p] # NoFile}
           new == seen \ Indexed
           n == Cardinality(new)
           row(id, p) == IF p \in new THEN [id |-> id[p], hash |-> scan.got[p]]
                         ELSE IF p \in seen THEN [index[p] EXCEPT !.hash = scan.got[p]]
                         ELSE NoRow
<1>1. PICK id \in Fresh(new) : index' = [p \in Paths |-> row(id, p)] /\ nextId' = nextId + n
  BY DEF Commit
<1>2. n \in Nat
  <2>1. IsFiniteSet(new)
    BY LibraryAssumption, FS_Subset
  <2> QED  BY <2>1, FS_CardinalityType
<1>3. /\ id \in [new -> nextId .. (nextId + n - 1)]
      /\ \A a, b \in new : id[a] = id[b] => a = b
  BY DEF Fresh, Injection, IsInjective
<1>4. /\ index \in [Paths -> Row \cup {NoRow}] /\ nextId \in Nat
      /\ scan.got \in [Paths -> Contents \cup {NoFile}]
  BY LibTypes DEF ScanType
<1>5. ASSUME NEW p \in seen
      PROVE  /\ row(id, p) \in Row /\ row(id, p).hash = scan.got[p]
             /\ p \in Indexed => row(id, p).id = index[p].id
             /\ p \notin Indexed => /\ row(id, p).id = id[p] /\ id[p] \in Nat
                                    /\ nextId <= id[p] /\ id[p] < nextId'
  <2>1. scan.got[p] \in Contents
    BY <1>4
  <2>2. CASE p \in Indexed
    <3>1. index[p] \in Row
      BY <1>4, <2>2 DEF Indexed
    <3>2. row(id, p) = [index[p] EXCEPT !.hash = scan.got[p]]
      BY <2>2
    <3> HIDE DEF row
    <3> QED  BY <2>1, <2>2, <3>1, <3>2 DEF Row
  <2>3. CASE p \notin Indexed
    <3>1. p \in new /\ row(id, p) = [id |-> id[p], hash |-> scan.got[p]]
      BY <2>3
    <3>2. id[p] \in nextId .. (nextId + n - 1)
      BY <1>3, <3>1
    <3> HIDE DEF row, new, n
    <3> QED  BY <1>1, <1>2, <1>4, <2>1, <2>3, <3>1, <3>2 DEF Row
  <2> QED  BY <2>2, <2>3
<1>6. \A p \in Paths \ seen : row(id, p) = NoRow
  OBVIOUS
<1>7. \A p \in Paths : index'[p] = row(id, p)
  BY <1>1
<1>8. Indexed' = seen
  <2> HIDE DEF row
  <2>1. \A p \in seen : row(id, p) # NoRow
    BY <1>5, LibraryAssumption DEF Row
  <2> QED  BY <1>6, <1>7, <2>1 DEF Indexed
<1>9. index' \in [Paths -> Row \cup {NoRow}]
  <2> HIDE DEF row, seen
  <2> QED  BY <1>1, <1>5, <1>6
<1>10. \A p, q \in Indexed' \ Indexed : p # q => index'[p].id # index'[q].id
  <2>1. \A p \in seen \ Indexed : index'[p].id = id[p]
    BY <1>5, <1>7
  <2> QED  BY <1>3, <1>8, <2>1
<1> HIDE DEF row, n
<1> QED  BY <1>1, <1>2, <1>4, <1>5, <1>7, <1>8, <1>9, <1>10

LEMMA LibTyped == LibTypeOK /\ OpOK /\ [LibNext]_libVars => LibTypeOK' /\ OpOK'
<1> SUFFICES ASSUME LibTypeOK, OpOK, [LibNext]_libVars PROVE LibTypeOK' /\ OpOK'
  OBVIOUS
<1> USE LibraryAssumption
<1>1. /\ disk \in [Paths -> Contents \cup {NoFile}]
      /\ index \in [Paths -> Row \cup {NoRow}]
      /\ nextId \in Nat /\ scan \in ScanType /\ budget \in BudgetType
      /\ op \in [Ops -> OpType] /\ calm \in BOOLEAN
  BY LibTypes
<1>2. /\ Idle \in ScanType /\ NoOp \in OpType
      /\ {"idle", "move", "update", "remove", "done"} \subseteq Stages
  BY DEF Idle, ScanType, NoOp, OpType, Stages
<1>3. ASSUME disk' \in [Paths -> Contents \cup {NoFile}], index' \in [Paths -> Row \cup {NoRow}],
             nextId' \in Nat, scan' \in ScanType, budget' \in BudgetType,
             op' \in [Ops -> OpType], calm' \in BOOLEAN
      PROVE  LibTypeOK'
  BY <1>3 DEF LibTypeOK, ScanType, BudgetType, OpType, Stages
<1>4. UNCHANGED op => OpOK'
  BY DEF OpOK
<1>5. ASSUME NEW r \in Ops, NEW where \in Stages, At(r, where),
             where \in {"move", "update", "remove"} =>
               \/ where = op[r].at
               \/ where = "update" /\ op[r].at = "move"
      PROVE  op' \in [Ops -> OpType] /\ OpOK'
  <2>1. /\ op' \in [Ops -> OpType] /\ op'[r].at = where
        /\ op'[r].from = op[r].from /\ op'[r].to = op[r].to
        /\ \A q \in Ops \ {r} : op'[q] = op[q]
    BY <1>1, <1>5, AtIs DEF At
  <2> QED  BY <1>5, <2>1 DEF OpOK
<1>6. ASSUME ScanBegin  PROVE LibTypeOK' /\ OpOK'
  <2>1. scan' \in ScanType
    <3>1. scan' = [Idle EXCEPT !.on = TRUE, !.left = Paths]
      BY <1>6 DEF ScanBegin
    <3> QED  BY <1>2, <3>1 DEF ScanType
  <2>2. budget' \in BudgetType
    BY <1>1, <1>6 DEF ScanBegin, BudgetType
  <2> QED  BY <1>1, <1>3, <1>4, <1>6, <2>1, <2>2 DEF ScanBegin
<1>7. ASSUME NEW p \in Paths, Walk(p) \/ Resolve(p) \/ Unreadable(p)
      PROVE  LibTypeOK' /\ OpOK'
  <2>1. scan' \in ScanType
    <3>1. CASE Walk(p)
      BY <1>1, <3>1 DEF Walk, ScanType
    <3>2. CASE Resolve(p)
      BY <1>1, <3>2 DEF Resolve, ScanType
    <3>3. CASE Unreadable(p)
      BY <1>1, <3>3 DEF Unreadable, ScanType
    <3> QED  BY <1>7, <3>1, <3>2, <3>3
  <2>2. budget' \in BudgetType /\ UNCHANGED <<disk, index, nextId, op, calm>>
    BY <1>1, <1>7, FaultTyped DEF Walk, Resolve, Unreadable
  <2> QED  BY <1>1, <1>3, <1>4, <2>1, <2>2
<1>8. ASSUME Commit  PROVE LibTypeOK' /\ OpOK'
  <2>1. /\ index' \in [Paths -> Row \cup {NoRow}] /\ nextId' \in Nat
    BY <1>8, CommitIs
  <2>2. calm' \in BOOLEAN
    BY <1>8, Zenon DEF Commit
  <2>3. scan' = Idle /\ UNCHANGED <<disk, budget, op>>
    BY <1>8 DEF Commit
  <2> QED  BY <1>1, <1>2, <1>3, <1>4, <2>1, <2>2, <2>3
<1>9. ASSUME NEW r \in Ops, NEW a \in Paths, NEW b \in Paths, RenameCheck(r, a, b)
      PROVE  LibTypeOK' /\ OpOK'
  <2> DEFINE o == [NoOp EXCEPT !.at = "move", !.from = a, !.to = b]
  <2>1. o \in OpType /\ o.at = "move" /\ o.from = a /\ o.to = b /\ a # b
    BY <1>9 DEF RenameCheck, NoOp, OpType, Stages
  <2>2. op' = [op EXCEPT ![r] = o] /\ UNCHANGED <<disk, index, nextId, scan, budget, calm>>
    BY <1>9 DEF RenameCheck
  <2> HIDE DEF o
  <2>3. op' \in [Ops -> OpType] /\ OpOK'
    BY <1>1, <2>1, <2>2 DEF OpOK
  <2> QED  BY <1>1, <1>3, <2>2, <2>3
<1>10. ASSUME NEW r \in Ops, RenameMove(r)  PROVE LibTypeOK' /\ OpOK'
  <2>1. op[r].at = "move" /\ op[r].from \in Paths /\ op[r].to \in Paths
          /\ UNCHANGED <<index, nextId, budget>>
    BY <1>10 DEF RenameMove, OpOK
  <2>2. CASE disk[op[r].from] = NoFile
    <3>1. At(r, "done") /\ UNCHANGED <<disk, scan, calm>>
      BY <1>10, <2>2 DEF RenameMove
    <3> QED  BY <1>1, <1>2, <1>3, <1>5, <2>1, <3>1
  <2>3. CASE disk[op[r].from] # NoFile
    <3> DEFINE f == [op EXCEPT ![r].at = "update"]
    <3>1. /\ disk' = [disk EXCEPT ![op[r].from] = NoFile, ![op[r].to] = disk[op[r].from]]
          /\ \E met : /\ op' = IF met THEN Meet(InUse(r), f) ELSE f
                      /\ Disturb(scan.on \/ met \/ op[r].met)
      BY <1>10, <2>3 DEF RenameMove
    <3>2. disk' \in [Paths -> Contents \cup {NoFile}]
      BY <1>1, <2>1, <3>1
    <3>3. scan' \in ScanType /\ calm' \in BOOLEAN
      BY <1>1, <3>1, DisturbIs
    <3>4. /\ f \in [Ops -> OpType] /\ f[r].at = "update"
          /\ f[r].from = op[r].from /\ f[r].to = op[r].to
          /\ \A q \in Ops \ {r} : f[q] = op[q]
      BY <1>1, <1>2, AtIs
    <3> HIDE DEF f
    <3>5. op' \in [Ops -> OpType] /\ \A q \in Ops : /\ op'[q].at = f[q].at
                                                    /\ op'[q].from = f[q].from
                                                    /\ op'[q].to = f[q].to
      BY <3>1, <3>4, MeetIs
    <3>6. OpOK'
      BY <2>1, <3>4, <3>5 DEF OpOK
    <3> QED  BY <1>1, <1>3, <2>1, <3>2, <3>3, <3>5, <3>6
  <2> QED  BY <2>2, <2>3
<1>11. ASSUME NEW r \in Ops, RenameUpdate(r)  PROVE LibTypeOK' /\ OpOK'
  <2>1. op[r].at = "update" /\ op[r].from \in Paths /\ op[r].to \in Paths
          /\ At(r, "done") /\ UNCHANGED <<disk, nextId, scan, budget, calm>>
    BY <1>11 DEF RenameUpdate, OpOK
  <2>2. index' \in [Paths -> Row \cup {NoRow}]
    BY <1>1, <1>11, <2>1 DEF RenameUpdate
  <2> QED  BY <1>1, <1>2, <1>3, <1>5, <2>1, <2>2
<1>12. ASSUME NEW r \in Ops, NEW a \in Paths, DeleteFile(r, a)  PROVE LibTypeOK' /\ OpOK'
  <2> DEFINE met == UsersOf({a}) # {}
             o == [NoOp EXCEPT !.at = "remove", !.from = a, !.met = met]
             f == [op EXCEPT ![r] = o]
  <2>1. /\ disk' = [disk EXCEPT ![a] = NoFile] /\ op' = Meet({a}, f) /\ Disturb(met)
        /\ UNCHANGED <<index, nextId, budget>>
    BY <1>12 DEF DeleteFile
  <2>2. met \in BOOLEAN
    BY Zenon
  <2> HIDE DEF met
  <2>3. o \in OpType /\ o.at = "remove" /\ o.from = a /\ o.to = NoFile
    BY <2>2 DEF NoOp, OpType, Stages
  <2> HIDE DEF o
  <2>4. f \in [Ops -> OpType] /\ f[r] = o /\ \A q \in Ops \ {r} : f[q] = op[q]
    BY <1>1, <2>3
  <2> HIDE DEF f
  <2>5. op' \in [Ops -> OpType] /\ \A q \in Ops : /\ op'[q].at = f[q].at
                                                  /\ op'[q].from = f[q].from
                                                  /\ op'[q].to = f[q].to
    BY <2>1, <2>4, MeetIs
  <2>6. OpOK'
    BY <2>3, <2>4, <2>5 DEF OpOK
  <2>7. scan' \in ScanType /\ calm' \in BOOLEAN /\ disk' \in [Paths -> Contents \cup {NoFile}]
    BY <1>1, <2>1, DisturbIs
  <2> QED  BY <1>1, <1>3, <2>1, <2>5, <2>6, <2>7
<1>13. ASSUME NEW r \in Ops, DeleteRow(r)  PROVE LibTypeOK' /\ OpOK'
  <2>1. At(r, "done") /\ UNCHANGED <<disk, nextId, scan, budget, calm>>
    BY <1>13 DEF DeleteRow
  <2>2. index' \in [Paths -> Row \cup {NoRow}]
    BY <1>1, <1>13 DEF DeleteRow
  <2> QED  BY <1>1, <1>2, <1>3, <1>5, <2>1, <2>2
<1>14. ASSUME NEW r \in Ops, Abort(r)  PROVE LibTypeOK' /\ OpOK'
  <2>1. At(r, "done") /\ UNCHANGED <<disk, index, nextId>> /\ Fault /\ Disturb(TRUE)
    BY <1>14 DEF Abort
  <2>2. budget' \in BudgetType /\ scan' \in ScanType /\ calm' \in BOOLEAN
    BY <1>1, <2>1, FaultTyped, DisturbIs
  <2> QED  BY <1>1, <1>2, <1>3, <1>5, <2>1, <2>2
<1>15. ASSUME Crash  PROVE LibTypeOK' /\ OpOK'
  <2>1. /\ scan' = Idle /\ Fault /\ UNCHANGED <<disk, index, nextId>>
        /\ op' = [r \in Ops |-> IF r \in Busy THEN [op[r] EXCEPT !.at = "done"] ELSE op[r]]
    BY <1>15 DEF Crash
  <2>2. calm' \in BOOLEAN
    BY <1>15, Zenon DEF Crash
  <2>3. \A r \in Ops : [op[r] EXCEPT !.at = "done"] \in OpType
    BY <1>1 DEF OpType, Stages
  <2>4. op' \in [Ops -> OpType]
    BY <1>1, <2>1, <2>3
  <2>5. ASSUME NEW r \in Ops  PROVE op'[r].at \notin {"move", "update", "remove"}
    <3>1. CASE r \in Busy
      BY <1>1, <2>1, <3>1 DEF OpType
    <3>2. CASE r \notin Busy
      BY <2>1, <3>2 DEF Busy
    <3> QED  BY <3>1, <3>2
  <2>6. OpOK'
    BY <2>5 DEF OpOK
  <2>7. budget' \in BudgetType
    BY <1>1, <2>1, FaultTyped
  <2> QED  BY <1>1, <1>2, <1>3, <2>1, <2>2, <2>4, <2>6, <2>7
<1>16. ASSUME NEW p \in Paths, Outside(p)  PROVE LibTypeOK' /\ OpOK'
  <2>1. /\ \E c \in Contents \cup {NoFile} : disk' = [disk EXCEPT ![p] = c]
        /\ op' = Meet({p}, op) /\ Fault /\ Disturb(TRUE) /\ UNCHANGED <<index, nextId>>
    BY <1>16 DEF Outside
  <2>2. budget' \in BudgetType /\ scan' \in ScanType /\ calm' \in BOOLEAN
    BY <1>1, <2>1, FaultTyped, DisturbIs
  <2>3. disk' \in [Paths -> Contents \cup {NoFile}]
    BY <1>1, <2>1
  <2>4. op' \in [Ops -> OpType] /\ \A q \in Ops : /\ op'[q].at = op[q].at
                                                  /\ op'[q].from = op[q].from
                                                  /\ op'[q].to = op[q].to
    BY <1>1, <2>1, MeetIs
  <2>5. OpOK'
    BY <2>4 DEF OpOK
  <2> QED  BY <1>1, <1>3, <2>1, <2>2, <2>3, <2>4, <2>5
<1>17. CASE UNCHANGED libVars
  BY <1>1, <1>3, <1>4, <1>17 DEF libVars
<1> QED
  BY <1>6, <1>7, <1>8, <1>9, <1>10, <1>11, <1>12, <1>13, <1>14, <1>15, <1>16, <1>17
  DEF LibNext, ScanStep, Request

LEMMA LibStarts == LibInit => LibTypeOK /\ OpOK
<1> SUFFICES ASSUME LibInit PROVE LibTypeOK /\ OpOK
  OBVIOUS
<1> USE LibraryAssumption
<1>1. Cardinality(Paths) \in Nat
  BY FS_CardinalityType
<1>2. PICK id \in Injection(Paths, 1..Cardinality(Paths)) :
        index = [p \in Paths |-> IF disk[p] = NoFile THEN NoRow
                                 ELSE [id |-> id[p], hash |-> disk[p]]]
  BY DEF LibInit
<1>3. id \in [Paths -> 1..Cardinality(Paths)]
  BY DEF Injection
<1>4. disk \in [Paths -> Contents \cup {NoFile}]
  BY DEF LibInit
<1>5. index \in [Paths -> Row \cup {NoRow}]
  <2>1. \A p \in Paths : disk[p] # NoFile => [id |-> id[p], hash |-> disk[p]] \in Row
    BY <1>1, <1>3, <1>4 DEF Row
  <2> QED  BY <1>2, <2>1
<1>6. scan \in ScanType /\ budget \in BudgetType /\ nextId \in Nat /\ calm \in BOOLEAN
  BY <1>1 DEF LibInit, Idle, ScanType, BudgetType
<1>7. op \in [Ops -> OpType] /\ OpOK
  <2>1. NoOp \in OpType /\ NoOp.at = "idle"
    BY DEF NoOp, OpType, Stages
  <2>2. op = [r \in Ops |-> NoOp]
    BY DEF LibInit
  <2> QED  BY <2>1, <2>2 DEF OpOK
<1> QED  BY <1>4, <1>5, <1>6, <1>7, LibTypes

LEMMA LibTypesKept == LibSpec => [](LibTypeOK /\ OpOK)
  BY LibStarts, LibTyped, PTL DEF LibSpec

\* The files, the index and the requests are well typed whatever scan, requests, crashes
\* and other hands do; and so is every row a scan writes, in place or new.
THEOREM LibTypeCorrect == LibSpec => []LibTypeOK
  BY LibTypesKept, PTL

-----------------------------------------------------------------------------
(* The ids of the rows.                                                    *)

IdsOnce ==
  /\ \A p \in Indexed : index[p].id \in Nat /\ index[p].id < nextId
  /\ \A p, q \in Indexed : p # q => index[p].id # index[q].id

\* What a step may do to the ids.
KeepsIds ==
  /\ \A p \in Indexed \cap Indexed' : index'[p].id = index[p].id
  /\ \A p, q \in Indexed' :
       /\ p # q => index'[p].id # index'[q].id
       /\ index'[p].id >= nextId \/ \E o \in Indexed : index[o].id = index'[p].id

LEMMA IdsStep ==
  LibTypeOK /\ OpOK /\ IdsOnce /\ [LibNext]_libVars => IdsOnce' /\ KeepsIds
<1> SUFFICES ASSUME LibTypeOK, OpOK, IdsOnce, [LibNext]_libVars
             PROVE  IdsOnce' /\ KeepsIds
  OBVIOUS
<1>1. index \in [Paths -> Row \cup {NoRow}] /\ nextId \in Nat
  BY LibTypes
\* A step that only drops rows, or moves one to a path that had none.
<1>2. ASSUME UNCHANGED nextId,
             \A p \in Indexed' : p \in Indexed /\ index'[p] = index[p]
      PROVE  IdsOnce' /\ KeepsIds
  BY <1>1, <1>2 DEF IdsOnce, KeepsIds
<1>3. CASE UNCHANGED <<index, nextId>>
  BY <1>2, <1>3 DEF Indexed
<1>4. CASE Commit
  <2>1. /\ nextId' \in Nat /\ nextId <= nextId'
        /\ \A p \in Indexed' : /\ p \in Indexed => index'[p].id = index[p].id
                               /\ p \notin Indexed => /\ nextId <= index'[p].id
                                                      /\ index'[p].id < nextId'
        /\ \A p, q \in Indexed' \ Indexed : p # q => index'[p].id # index'[q].id
    BY <1>4, CommitIs
  <2>2. \A p \in Indexed' : index'[p].id \in Nat
    <3>1. index' \in [Paths -> Row \cup {NoRow}]
      BY <1>4, CommitIs
    <3> QED  BY <3>1 DEF Indexed, Row
  <2>3. \A p \in Indexed' : index'[p].id < nextId'
    BY <1>1, <2>1, <2>2 DEF IdsOnce
  <2>4. ASSUME NEW p \in Indexed', NEW q \in Indexed', p # q
        PROVE  index'[p].id # index'[q].id
    BY <1>1, <2>1, <2>2, <2>4 DEF IdsOnce
  <2>5. \A p \in Indexed' : index'[p].id >= nextId \/ \E o \in Indexed : index[o].id = index'[p].id
    BY <1>1, <2>1, <2>2
  <2> QED  BY <2>1, <2>2, <2>3, <2>4, <2>5 DEF IdsOnce, KeepsIds
<1>5. ASSUME NEW r \in Ops, RenameUpdate(r)  PROVE IdsOnce' /\ KeepsIds
  <2> DEFINE a == op[r].from
             b == op[r].to
  <2>1. a \in Paths /\ b \in Paths /\ a # b /\ UNCHANGED nextId
    BY <1>5 DEF RenameUpdate, OpOK
  <2>2. CASE index[a] = NoRow \/ index[b] # NoRow
    <3>1. index' = index
      BY <1>5, <2>2 DEF RenameUpdate
    <3> QED  BY <1>3, <2>1, <3>1
  <2>3. CASE index[a] # NoRow /\ index[b] = NoRow
    <3>1. index' = [index EXCEPT ![a] = NoRow, ![b] = index[a]]
      BY <1>5, <2>3 DEF RenameUpdate
    <3> HIDE DEF a, b
    <3>2. /\ a \in Indexed /\ b \notin Indexed /\ b \in Indexed' /\ index'[b] = index[a]
          /\ a \notin Indexed'
          /\ \A p \in Indexed' : p # b => p # a /\ p \in Indexed /\ index'[p] = index[p]
      BY <1>1, <2>1, <2>3, <3>1 DEF Indexed
    <3> QED  BY <1>1, <2>1, <3>2 DEF IdsOnce, KeepsIds
  <2> QED  BY <2>2, <2>3
<1>6. ASSUME NEW r \in Ops, DeleteRow(r)  PROVE IdsOnce' /\ KeepsIds
  <2>1. index' = [index EXCEPT ![op[r].from] = NoRow] /\ UNCHANGED nextId
    BY <1>6 DEF DeleteRow
  <2>2. \A p \in Indexed' : p \in Indexed /\ index'[p] = index[p]
    BY <1>1, <2>1 DEF Indexed
  <2> QED  BY <1>2, <2>1, <2>2
<1>7. ASSUME ~Commit, \A r \in Ops : ~RenameUpdate(r) /\ ~DeleteRow(r)
      PROVE  UNCHANGED <<index, nextId>>
  BY <1>7 DEF LibNext, ScanStep, Request, ScanBegin, Walk, Resolve, Unreadable, RenameCheck,
     RenameMove, DeleteFile, Abort, Crash, Outside, libVars
<1> QED  BY <1>3, <1>4, <1>5, <1>6, <1>7

\* A row keeps its id as long as its path is indexed, no id is ever given to a second
\* row, and one that is gone stays gone: whatever is committed, renamed, deleted or
\* undone, what queues and playing tabs hold stays the id of their file.
THEOREM IdsAreKept == LibSpec => IdsKeepTheirFile
<1>1. LibInit => IdsOnce
  <2> SUFFICES ASSUME LibInit PROVE IdsOnce
    OBVIOUS
  <2>1. PICK id \in Injection(Paths, 1..Cardinality(Paths)) :
          index = [p \in Paths |-> IF disk[p] = NoFile THEN NoRow
                                   ELSE [id |-> id[p], hash |-> disk[p]]]
    BY DEF LibInit
  <2>2. /\ id \in [Paths -> 1..Cardinality(Paths)]
        /\ \A a, b \in Paths : id[a] = id[b] => a = b
    BY DEF Injection, IsInjective
  <2>3. Cardinality(Paths) \in Nat /\ nextId = Cardinality(Paths) + 1
    BY LibraryAssumption, FS_CardinalityType DEF LibInit
  <2>4. \A p \in Indexed : index[p].id = id[p]
    BY <2>1 DEF Indexed
  <2> QED  BY <2>2, <2>3, <2>4 DEF IdsOnce, Indexed
<1>2. LibTypeOK /\ OpOK /\ IdsOnce /\ [LibNext]_libVars => IdsOnce' /\ [KeepsIds]_libVars
  BY IdsStep
<1> QED  BY <1>1, <1>2, LibTypesKept, PTL DEF LibSpec, IdsKeepTheirFile, KeepsIds

-----------------------------------------------------------------------------
(* The index and the disk.  The inductive invariant says what an unfinished *)
(* request still owes the index, and that those that meet know of it: only  *)
(* so does a quiet stretch leave every file with its row.                   *)

\* The request has touched the disk, and has the index still to do.
Touched(r) == op[r].at \in {"update", "remove"}

\* What a request that has met nobody knows of its files is still so.
OnDisk ==
  \A r \in Busy : ~op[r].met =>
    /\ op[r].at = "move" => disk[op[r].from] # NoFile /\ disk[op[r].to] = NoFile
    /\ op[r].at = "update" => disk[op[r].from] = NoFile /\ disk[op[r].to] # NoFile
    /\ op[r].at = "remove" => disk[op[r].from] = NoFile

\* Two requests that have touched the same file know it.
Apart ==
  \A r, q \in Ops :
    r # q /\ Touched(r) /\ Touched(q) /\ InUse(r) \cap InUse(q) # {} => op[r].met

\* Of a file that was moved, the row has still to follow, or a scan has seen to it.
RowFollows(r) ==
  LET a == op[r].from
      b == op[r].to
  IN  \/ index[a] # NoRow /\ index[a].hash = disk[b] /\ index[b] = NoRow
      \/ Agrees(a) /\ Agrees(b)

CalmMeans ==
  calm =>
    /\ Settled
    /\ \A p \in Paths : Agrees(p) \/ \E r \in Ops : Touched(r) /\ p \in InUse(r)
    /\ \A r \in Ops : op[r].at = "update" => RowFollows(r)

\* What an undisturbed scan has found is so, or is being deleted.
ScanSees ==
  scan.on =>
    /\ \A p \in scan.left \cup scan.cands : scan.got[p] = NoFile
    /\ scan.clean => \A p \in Paths \ (scan.left \cup scan.cands) :
         scan.got[p] = disk[p] \/ \E r \in Ops : op[r].at = "remove" /\ op[r].from = p

SyncInv == OnDisk /\ Apart /\ CalmMeans /\ ScanSees

Typed == LibTypeOK /\ OpOK

\* What the requests other than r may see of a step: their files meet, or nothing.
Others(r) ==
  \A q \in Ops \ {r} :
    /\ op'[q].at = op[q].at /\ op'[q].from = op[q].from /\ op'[q].to = op[q].to
    /\ op[q].met => op'[q].met

LEMMA BusyIs ==
  ASSUME NEW r \in Ops
  PROVE  /\ r \in Busy <=> op[r].at \in {"move", "update", "remove"}
         /\ r \in Busy' <=> op'[r].at \in {"move", "update", "remove"}
  BY DEF Busy

LEMMA RenameMoveIs ==
  ASSUME Typed, NEW r \in Ops, RenameMove(r), disk[op[r].from] # NoFile
  PROVE  LET a == op[r].from
             b == op[r].to
         IN /\ op[r].at = "move" /\ a \in Paths /\ b \in Paths /\ a # b /\ InUse(r) = {a, b}
            /\ disk'[a] = NoFile /\ disk'[b] = disk[a]
            /\ \A p \in Paths \ {a, b} : disk'[p] = disk[p]
            /\ UNCHANGED <<index, nextId>>
            /\ op'[r].at = "update" /\ op'[r].from = a /\ op'[r].to = b
            /\ op[r].met => op'[r].met
            /\ Others(r)
            /\ \A q \in Busy : q # r /\ InUse(q) \cap {a, b} # {} => op'[q].met /\ op'[r].met /\ ~calm'
            /\ (\A q \in Busy : q # r => InUse(q) \cap {a, b} = {})
                 => op'[r].met = op[r].met /\ \A q \in Ops \ {r} : op'[q] = op[q]
            /\ calm' => calm /\ ~scan.on /\ ~op[r].met
            /\ scan'.on => ~scan'.clean
            /\ scan'.on = scan.on /\ scan'.left = scan.left
            /\ scan'.cands = scan.cands /\ scan'.got = scan.got
<1> DEFINE a == op[r].from
           b == op[r].to
           f == [op EXCEPT ![r].at = "update"]
           met == UsersOf(InUse(r)) # {r}
<1>1. /\ disk \in [Paths -> Contents \cup {NoFile}] /\ op \in [Ops -> OpType]
      /\ scan \in ScanType /\ calm \in BOOLEAN
  BY LibTypes DEF Typed
<1>2. op[r].at = "move" /\ a \in Paths /\ b \in Paths /\ a # b /\ InUse(r) = {a, b}
  BY LibraryAssumption DEF RenameMove, Typed, OpOK, InUse
<1>3. /\ disk' = [disk EXCEPT ![a] = NoFile, ![b] = disk[a]]
      /\ op' = IF met THEN Meet(InUse(r), f) ELSE f
      /\ Disturb(scan.on \/ met \/ op[r].met)
      /\ UNCHANGED <<index, nextId>>
  BY DEF RenameMove
<1>4. /\ f \in [Ops -> OpType]
      /\ f[r].at = "update" /\ f[r].from = a /\ f[r].to = b /\ f[r].met = op[r].met
      /\ \A q \in Ops \ {r} : f[q] = op[q]
  BY <1>1, AtIs DEF Stages
<1>5. r \in UsersOf(InUse(r)) /\ UsersOf(InUse(r)) = {q \in Busy : InUse(q) \cap {a, b} # {}}
  BY <1>2, BusyIs DEF UsersOf
<1> HIDE DEF a, b, f
<1>6. disk'[a] = NoFile /\ disk'[b] = disk[a] /\ \A p \in Paths \ {a, b} : disk'[p] = disk[p]
  BY <1>1, <1>2, <1>3
<1>7. /\ scan'.on = scan.on /\ scan'.left = scan.left
      /\ scan'.cands = scan.cands /\ scan'.got = scan.got
      /\ calm' => calm /\ ~(scan.on \/ met \/ op[r].met)
      /\ scan'.on /\ scan'.clean => ~(scan.on \/ met \/ op[r].met)
  <2> HIDE DEF met
  <2> QED  BY <1>1, <1>3, DisturbIs
<1>8. /\ \A q \in Ops : /\ op'[q].at = f[q].at /\ op'[q].from = f[q].from /\ op'[q].to = f[q].to
                        /\ f[q].met => op'[q].met
      /\ met => \A q \in UsersOf(InUse(r)) : op'[q].met
  <2> HIDE DEF met
  <2>1. \A q \in UsersOf(InUse(r)) : q \in Ops
    BY DEF UsersOf, Busy
  <2> QED  BY <1>3, <1>4, <2>1, MeetIs
<1>9. Others(r) /\ op'[r].at = "update" /\ op'[r].from = a /\ op'[r].to = b
        /\ (op[r].met => op'[r].met)
  BY <1>4, <1>8 DEF Others
<1>10. ASSUME NEW q \in Busy, q # r, InUse(q) \cap {a, b} # {}
       PROVE  met /\ op'[q].met /\ op'[r].met
  BY <1>5, <1>8, <1>10
<1>11. ASSUME \A q \in Busy : q # r => InUse(q) \cap {a, b} = {}
       PROVE  op'[r].met = op[r].met /\ \A q \in Ops \ {r} : op'[q] = op[q]
  <2>1. ~met
    BY <1>5, <1>11
  <2> HIDE DEF met
  <2> QED  BY <1>3, <1>4, <2>1
<1> HIDE DEF met
<1>12. \A q \in Busy : q # r /\ InUse(q) \cap {a, b} # {} => op'[q].met /\ op'[r].met /\ ~calm'
  BY <1>7, <1>10
<1> QED  BY <1>2, <1>3, <1>6, <1>7, <1>9, <1>11, <1>12 DEF a, b

LEMMA DeleteFileIs ==
  ASSUME Typed, NEW r \in Ops, NEW a \in Paths, DeleteFile(r, a)
  PROVE  /\ op[r].at = "idle"
         /\ disk'[a] = NoFile /\ \A p \in Paths \ {a} : disk'[p] = disk[p]
         /\ UNCHANGED <<index, nextId>>
         /\ op'[r].at = "remove" /\ op'[r].from = a /\ op'[r].to = NoFile
         /\ Others(r)
         /\ \A q \in Busy : a \in InUse(q) =>
              op'[q].met /\ op'[r].met /\ ~calm' /\ ~(scan'.on /\ scan'.clean)
         /\ (\A q \in Busy : a \notin InUse(q))
              => ~op'[r].met /\ \A q \in Ops \ {r} : op'[q] = op[q]
         /\ calm' => calm
         /\ scan'.on /\ scan'.clean => scan.clean
         /\ scan'.on = scan.on /\ scan'.left = scan.left
         /\ scan'.cands = scan.cands /\ scan'.got = scan.got
<1> DEFINE met == UsersOf({a}) # {}
           o == [NoOp EXCEPT !.at = "remove", !.from = a, !.met = met]
           f == [op EXCEPT ![r] = o]
<1>1. /\ disk \in [Paths -> Contents \cup {NoFile}] /\ op \in [Ops -> OpType]
      /\ scan \in ScanType /\ calm \in BOOLEAN
  BY LibTypes DEF Typed
<1>2. /\ op[r].at = "idle" /\ disk' = [disk EXCEPT ![a] = NoFile]
      /\ op' = Meet({a}, f) /\ Disturb(met) /\ UNCHANGED <<index, nextId>>
  BY DEF DeleteFile
<1>3. met \in BOOLEAN
  BY Zenon
<1>4. UsersOf({a}) = {q \in Busy : a \in InUse(q)} /\ r \notin UsersOf({a})
  BY <1>2 DEF UsersOf, Busy
<1>5. (\A q \in Busy : a \in InUse(q) => met) /\ (\A q \in UsersOf({a}) : q \in Ops)
  BY <1>4 DEF Busy
<1>6. (\A q \in Busy : a \notin InUse(q)) => ~met /\ UsersOf({a}) = {}
  BY <1>4
<1> HIDE DEF met
<1>7. o \in OpType /\ o.at = "remove" /\ o.from = a /\ o.to = NoFile /\ o.met = met
  BY <1>3 DEF NoOp, OpType, Stages
<1> HIDE DEF o
<1>8. f \in [Ops -> OpType] /\ f[r] = o /\ \A q \in Ops \ {r} : f[q] = op[q]
  BY <1>1, <1>7
<1> HIDE DEF f
<1>9. /\ \A q \in Ops : /\ op'[q].at = f[q].at /\ op'[q].from = f[q].from
                        /\ op'[q].to = f[q].to /\ (f[q].met => op'[q].met)
                        /\ q \in UsersOf({a}) => op'[q].met
                        /\ q \notin UsersOf({a}) => op'[q] = f[q]
  BY <1>2, <1>8, MeetIs
<1>10. /\ scan'.on = scan.on /\ scan'.left = scan.left
       /\ scan'.cands = scan.cands /\ scan'.got = scan.got
       /\ calm' => calm /\ ~met
       /\ scan'.on /\ scan'.clean => scan.clean /\ ~met
  BY <1>1, <1>2, DisturbIs
<1>11. op'[r].at = "remove" /\ op'[r].from = a /\ op'[r].to = NoFile /\ op'[r].met = met /\ Others(r)
  BY <1>4, <1>7, <1>8, <1>9 DEF Others
<1>12. ASSUME NEW q \in Busy, a \in InUse(q)
       PROVE  op'[q].met /\ op'[r].met /\ ~calm' /\ ~(scan'.on /\ scan'.clean)
  BY <1>4, <1>5, <1>9, <1>10, <1>11, <1>12
<1>13. ASSUME \A q \in Busy : a \notin InUse(q)
       PROVE  ~op'[r].met /\ \A q \in Ops \ {r} : op'[q] = op[q]
  BY <1>6, <1>8, <1>9, <1>11, <1>13
<1>14. disk'[a] = NoFile /\ \A p \in Paths \ {a} : disk'[p] = disk[p]
  BY <1>1, <1>2
<1> QED  BY <1>2, <1>10, <1>11, <1>12, <1>13, <1>14

LEMMA OutsideIs ==
  ASSUME Typed, NEW p \in Paths, Outside(p)
  PROVE  /\ \A o \in Paths \ {p} : disk'[o] = disk[o]
         /\ \A q \in Ops : /\ op'[q].at = op[q].at /\ op'[q].from = op[q].from
                           /\ op'[q].to = op[q].to /\ (op[q].met => op'[q].met)
         /\ \A q \in Busy : p \in InUse(q) => op'[q].met
         /\ ~calm' /\ ~(scan'.on /\ scan'.clean)
         /\ scan'.on = scan.on /\ scan'.left = scan.left
         /\ scan'.cands = scan.cands /\ scan'.got = scan.got
<1>1. /\ disk \in [Paths -> Contents \cup {NoFile}] /\ op \in [Ops -> OpType]
      /\ scan \in ScanType /\ calm \in BOOLEAN
  BY LibTypes DEF Typed
<1>2. /\ \E c : disk' = [disk EXCEPT ![p] = c]
      /\ op' = Meet({p}, op) /\ Disturb(TRUE)
  BY DEF Outside
<1>3. \A q \in Busy : p \in InUse(q) => q \in Ops /\ q \in UsersOf({p})
  BY DEF UsersOf, Busy
<1>4. /\ \A q \in Ops : /\ op'[q].at = op[q].at /\ op'[q].from = op[q].from
                        /\ op'[q].to = op[q].to /\ (op[q].met => op'[q].met)
                        /\ q \in UsersOf({p}) => op'[q].met
  BY <1>1, <1>2, MeetIs
<1>5. /\ ~calm' /\ ~(scan'.on /\ scan'.clean)
      /\ scan'.on = scan.on /\ scan'.left = scan.left
      /\ scan'.cands = scan.cands /\ scan'.got = scan.got
  BY <1>1, <1>2, DisturbIs
<1>6. \A o \in Paths \ {p} : disk'[o] = disk[o]
  BY <1>1, <1>2
<1> QED  BY <1>3, <1>4, <1>5, <1>6

\* Request r is through: the rest keep their stage, their paths and their record.
LEMMA DoneIs ==
  ASSUME Typed, NEW r \in Ops, At(r, "done")
  PROVE  /\ op'[r].at = "done" /\ r \notin Busy' /\ ~Touched(r)'
         /\ \A q \in Ops \ {r} : op'[q] = op[q]
         /\ Busy' = Busy \ {r}
<1>1. op'[r].at = "done" /\ \A q \in Ops \ {r} : op'[q] = op[q]
  BY LibTypes, AtIs DEF Typed, At, Stages
<1> QED  BY <1>1 DEF Busy, Touched

\* A restart leaves no request under way.
LEMMA CrashIs ==
  ASSUME Typed, Crash
  PROVE  /\ Busy' = {} /\ \A r \in Ops : ~Touched(r)'
         /\ scan' = Idle /\ UNCHANGED <<disk, index>>
         /\ calm' => calm /\ \A r \in Ops : ~Touched(r)
<1>1. /\ op \in [Ops -> OpType]
      /\ op' = [r \in Ops |-> IF r \in Busy THEN [op[r] EXCEPT !.at = "done"] ELSE op[r]]
  BY LibTypes DEF Typed, Crash
<1>2. ASSUME NEW r \in Ops  PROVE op'[r].at \notin {"move", "update", "remove"}
  <2>1. CASE r \in Busy
    BY <1>1, <2>1 DEF OpType
  <2>2. CASE r \notin Busy
    BY <1>1, <2>2 DEF Busy
  <2> QED  BY <2>1, <2>2
<1>3. scan' = Idle /\ UNCHANGED <<disk, index>>
  BY DEF Crash
<1>4. calm' => calm /\ \A r \in Busy : op[r].at = "move"
  BY Zenon DEF Crash
<1>5. \A r \in Ops : Touched(r) => r \in Busy /\ op[r].at # "move"
  BY DEF Touched, Busy
<1> QED  BY <1>2, <1>3, <1>4, <1>5 DEF Busy, Touched

\* What a request that has met nobody knows of its files, one that goes on unmet and
\* whose files are left alone knows still.
LEMMA LeftAlone ==
  ASSUME Typed, OnDisk, NEW q \in Busy,
         op'[q].at = op[q].at, op'[q].from = op[q].from, op'[q].to = op[q].to, ~op[q].met,
         \A p \in InUse(q) : disk'[p] = disk[p]
  PROVE  /\ op'[q].at = "move" => disk'[op'[q].from] # NoFile /\ disk'[op'[q].to] = NoFile
         /\ op'[q].at = "update" => disk'[op'[q].from] = NoFile /\ disk'[op'[q].to] # NoFile
         /\ op'[q].at = "remove" => disk'[op'[q].from] = NoFile
<1>1. q \in Ops /\ op[q].at \in {"move", "update", "remove"}
  BY DEF Busy
<1>2. /\ op[q].from \in Paths /\ op[q].from \in InUse(q)
      /\ op[q].at \in {"move", "update"} => op[q].to \in Paths /\ op[q].to \in InUse(q)
  BY <1>1, LibraryAssumption DEF Typed, OpOK, InUse
<1> QED  BY <1>1, <1>2 DEF OnDisk

LEMMA OnDiskStep == Typed /\ OnDisk /\ [LibNext]_libVars => OnDisk'
<1> SUFFICES ASSUME Typed, OnDisk, [LibNext]_libVars PROVE OnDisk'
  OBVIOUS
<1>0. op \in [Ops -> OpType]
  BY LibTypes DEF Typed
<1>1. CASE UNCHANGED <<disk, op>>
  BY <1>1 DEF OnDisk, Busy
<1>2. ASSUME NEW r \in Ops, At(r, "done"), UNCHANGED disk  PROVE OnDisk'
  BY <1>2, DoneIs DEF OnDisk, Busy
<1>3. ASSUME NEW r \in Ops, NEW a \in Paths, NEW b \in Paths, RenameCheck(r, a, b)
      PROVE  OnDisk'
  <2> DEFINE o == [NoOp EXCEPT !.at = "move", !.from = a, !.to = b]
  <2>1. o.at = "move" /\ o.from = a /\ o.to = b
    BY DEF NoOp
  <2>2. op' = [op EXCEPT ![r] = o] /\ UNCHANGED disk /\ disk[a] # NoFile /\ disk[b] = NoFile
    BY <1>3 DEF RenameCheck
  <2> HIDE DEF o
  <2> QED  BY <1>0, <2>1, <2>2 DEF OnDisk, Busy
<1>4. ASSUME NEW r \in Ops, RenameMove(r), disk[op[r].from] # NoFile  PROVE OnDisk'
  <2> DEFINE a == op[r].from
             b == op[r].to
  <2>1. /\ disk'[a] = NoFile /\ disk'[b] = disk[a] /\ \A p \in Paths \ {a, b} : disk'[p] = disk[p]
        /\ op'[r].at = "update" /\ op'[r].from = a /\ op'[r].to = b /\ Others(r)
        /\ \A q \in Busy : q # r /\ InUse(q) \cap {a, b} # {} => op'[q].met
    BY <1>4, RenameMoveIs
  <2>2. ASSUME NEW q \in Busy', q # r, ~op'[q].met
        PROVE  q \in Busy /\ ~op[q].met /\ \A p \in InUse(q) : disk'[p] = disk[p]
    <3>1. q \in Ops /\ q \in Busy /\ ~op[q].met
      BY <2>1, <2>2 DEF Busy, Others
    <3>2. InUse(q) \subseteq Paths
      BY <1>0, <3>1 DEF InUse, OpType
    <3> QED  BY <2>1, <2>2, <3>1, <3>2
  <2>3. ASSUME NEW q \in Busy', ~op'[q].met
        PROVE  /\ op'[q].at = "move" => disk'[op'[q].from] # NoFile /\ disk'[op'[q].to] = NoFile
               /\ op'[q].at = "update" => disk'[op'[q].from] = NoFile /\ disk'[op'[q].to] # NoFile
               /\ op'[q].at = "remove" => disk'[op'[q].from] = NoFile
    <3>1. CASE q = r
      BY <1>4, <2>1, <3>1
    <3>2. CASE q # r
      BY <2>1, <2>2, <2>3, <3>2, LeftAlone DEF Others, Busy
    <3> QED  BY <3>1, <3>2
  <2> QED  BY <2>3 DEF OnDisk
<1>5. ASSUME NEW r \in Ops, NEW a \in Paths, DeleteFile(r, a)  PROVE OnDisk'
  <2>1. /\ disk'[a] = NoFile /\ \A p \in Paths \ {a} : disk'[p] = disk[p]
        /\ op'[r].at = "remove" /\ op'[r].from = a /\ Others(r)
        /\ \A q \in Busy : a \in InUse(q) => op'[q].met
    BY <1>5, DeleteFileIs
  <2>2. ASSUME NEW q \in Busy', q # r, ~op'[q].met
        PROVE  q \in Busy /\ ~op[q].met /\ \A p \in InUse(q) : disk'[p] = disk[p]
    <3>1. q \in Ops /\ q \in Busy /\ ~op[q].met
      BY <2>1, <2>2 DEF Busy, Others
    <3>2. InUse(q) \subseteq Paths
      BY <1>0, <3>1 DEF InUse, OpType
    <3> QED  BY <2>1, <2>2, <3>1, <3>2
  <2>3. ASSUME NEW q \in Busy', ~op'[q].met
        PROVE  /\ op'[q].at = "move" => disk'[op'[q].from] # NoFile /\ disk'[op'[q].to] = NoFile
               /\ op'[q].at = "update" => disk'[op'[q].from] = NoFile /\ disk'[op'[q].to] # NoFile
               /\ op'[q].at = "remove" => disk'[op'[q].from] = NoFile
    <3>1. CASE q = r
      BY <2>1, <3>1
    <3>2. CASE q # r
      BY <2>1, <2>2, <2>3, <3>2, LeftAlone DEF Others, Busy
    <3> QED  BY <3>1, <3>2
  <2> QED  BY <2>3 DEF OnDisk
<1>6. ASSUME NEW p \in Paths, Outside(p)  PROVE OnDisk'
  <2>1. /\ \A o \in Paths \ {p} : disk'[o] = disk[o]
        /\ \A q \in Ops : /\ op'[q].at = op[q].at /\ op'[q].from = op[q].from
                          /\ op'[q].to = op[q].to /\ (op[q].met => op'[q].met)
        /\ \A q \in Busy : p \in InUse(q) => op'[q].met
    BY <1>6, OutsideIs
  <2>2. ASSUME NEW q \in Busy', ~op'[q].met
        PROVE  q \in Busy /\ ~op[q].met /\ \A o \in InUse(q) : disk'[o] = disk[o]
    <3>1. q \in Ops /\ q \in Busy /\ ~op[q].met
      BY <2>1, <2>2 DEF Busy
    <3>2. InUse(q) \subseteq Paths
      BY <1>0, <3>1 DEF InUse, OpType
    <3> QED  BY <2>1, <2>2, <3>1, <3>2
  <2>3. ASSUME NEW q \in Busy', ~op'[q].met
        PROVE  /\ op'[q].at = "move" => disk'[op'[q].from] # NoFile /\ disk'[op'[q].to] = NoFile
               /\ op'[q].at = "update" => disk'[op'[q].from] = NoFile /\ disk'[op'[q].to] # NoFile
               /\ op'[q].at = "remove" => disk'[op'[q].from] = NoFile
    BY <2>1, <2>2, <2>3, LeftAlone DEF Busy
  <2> QED  BY <2>3 DEF OnDisk
<1>7. ASSUME Crash  PROVE OnDisk'
  BY <1>7, CrashIs DEF OnDisk
<1>8. ASSUME NEW r \in Ops, RenameMove(r), disk[op[r].from] = NoFile  PROVE OnDisk'
  BY <1>2, <1>8 DEF RenameMove
<1>9. ASSUME NEW r \in Ops, RenameUpdate(r) \/ DeleteRow(r) \/ Abort(r)  PROVE OnDisk'
  BY <1>2, <1>9 DEF RenameUpdate, DeleteRow, Abort
<1>10. ASSUME ScanStep \/ UNCHANGED libVars  PROVE OnDisk'
  BY <1>1, <1>10 DEF ScanStep, ScanBegin, Walk, Resolve, Unreadable, Commit, libVars
<1> QED  BY <1>3, <1>4, <1>5, <1>6, <1>7, <1>8, <1>9, <1>10 DEF LibNext, Request

\* Steps that only pass on what two requests know of each other.
LEMMA ApartGrows ==
  ASSUME Apart,
         \A r \in Ops : Touched(r)' =>
           /\ Touched(r) /\ op'[r].from = op[r].from /\ op'[r].to = op[r].to
           /\ op[r].met => op'[r].met
  PROVE  Apart'
  BY DEF Apart, InUse

\* Request r touches the files ps, and those it meets and itself know it.
LEMMA ApartMeets ==
  ASSUME Apart, NEW r \in Ops, NEW ps, Others(r), InUse(r)' = ps,
         \A q \in Busy : q # r /\ InUse(q) \cap ps # {} => op'[q].met /\ op'[r].met
  PROVE  Apart'
<1>1. \A q \in Ops \ {r} : /\ Touched(q)' <=> Touched(q)
                           /\ InUse(q)' = InUse(q)
                           /\ op[q].met => op'[q].met
                           /\ Touched(q) => q \in Busy
  BY DEF Others, Touched, InUse, Busy
<1>2. ASSUME NEW q \in Ops \ {r}, Touched(q), InUse(q) \cap ps # {}
      PROVE  op'[q].met /\ op'[r].met
  BY <1>1, <1>2
<1>3. ASSUME NEW q \in Ops, NEW s \in Ops, q # s, Touched(q)', Touched(s)',
             InUse(q)' \cap InUse(s)' # {}
      PROVE  op'[q].met
  <2>1. CASE q = r
    BY <1>1, <1>2, <1>3, <2>1
  <2>2. CASE s = r
    BY <1>1, <1>2, <1>3, <2>2
  <2>3. CASE q # r /\ s # r
    BY <1>1, <1>3, <2>3 DEF Apart
  <2> QED  BY <2>1, <2>2, <2>3
<1> QED  BY <1>3, Zenon DEF Apart

LEMMA ApartStep == Typed /\ Apart /\ [LibNext]_libVars => Apart'
<1> SUFFICES ASSUME Typed, Apart, [LibNext]_libVars PROVE Apart'
  OBVIOUS
<1>0. op \in [Ops -> OpType]
  BY LibTypes DEF Typed
<1>1. CASE UNCHANGED op
  BY <1>1, ApartGrows DEF Touched
<1>2. ASSUME NEW r \in Ops, At(r, "done")  PROVE Apart'
  BY <1>2, DoneIs, ApartGrows DEF Touched
<1>3. ASSUME NEW r \in Ops, NEW a \in Paths, NEW b \in Paths, RenameCheck(r, a, b)
      PROVE  Apart'
  <2>1. op'[r].at = "move" /\ \A q \in Ops \ {r} : op'[q] = op[q]
    BY <1>0, <1>3 DEF RenameCheck, NoOp
  <2> QED  BY <2>1, ApartGrows DEF Touched
<1>4. ASSUME NEW r \in Ops, RenameMove(r), disk[op[r].from] # NoFile  PROVE Apart'
  <2>1. /\ InUse(r) = {op[r].from, op[r].to} /\ op'[r].from = op[r].from /\ op'[r].to = op[r].to
        /\ Others(r)
        /\ \A q \in Busy : q # r /\ InUse(q) \cap {op[r].from, op[r].to} # {}
             => op'[q].met /\ op'[r].met
    BY <1>4, RenameMoveIs
  <2>2. InUse(r)' = InUse(r)
    BY <2>1 DEF InUse
  <2> QED  BY <2>1, <2>2, ApartMeets
<1>5. ASSUME NEW r \in Ops, NEW a \in Paths, DeleteFile(r, a)  PROVE Apart'
  <2>1. /\ op'[r].from = a /\ op'[r].to = NoFile /\ Others(r)
        /\ \A q \in Busy : a \in InUse(q) => op'[q].met /\ op'[r].met
    BY <1>5, DeleteFileIs
  <2>2. InUse(r)' = {a}
    BY <2>1, LibraryAssumption DEF InUse
  <2>3. \A q \in Busy : q # r /\ InUse(q) \cap {a} # {} => op'[q].met /\ op'[r].met
    BY <2>1
  <2> QED  BY <2>1, <2>2, <2>3, ApartMeets
<1>6. ASSUME NEW p \in Paths, Outside(p)  PROVE Apart'
  BY <1>6, OutsideIs, ApartGrows DEF Touched
<1>7. ASSUME Crash  PROVE Apart'
  BY <1>7, CrashIs, ApartGrows
<1>8. ASSUME NEW r \in Ops, \/ RenameMove(r) /\ disk[op[r].from] = NoFile
                            \/ RenameUpdate(r) \/ DeleteRow(r) \/ Abort(r)
      PROVE  Apart'
  BY <1>2, <1>8 DEF RenameMove, RenameUpdate, DeleteRow, Abort
<1>9. ASSUME ScanStep \/ UNCHANGED libVars  PROVE Apart'
  BY <1>1, <1>9 DEF ScanStep, ScanBegin, Walk, Resolve, Unreadable, Commit, libVars
<1> QED  BY <1>3, <1>4, <1>5, <1>6, <1>7, <1>8, <1>9 DEF LibNext, Request

LEMMA ScanSeesStep == Typed /\ ScanSees /\ [LibNext]_libVars => ScanSees'
<1> SUFFICES ASSUME Typed, ScanSees, [LibNext]_libVars PROVE ScanSees'
  OBVIOUS
<1>0. op \in [Ops -> OpType] /\ scan \in ScanType /\ calm \in BOOLEAN
  BY LibTypes DEF Typed
\* A scan that is left alone, by a step that leaves those who delete at it.
<1>1. ASSUME UNCHANGED <<scan, disk>>,
             \A r \in Ops : op[r].at = "remove" => op'[r].at = "remove" /\ op'[r].from = op[r].from
      PROVE  ScanSees'
  BY <1>1 DEF ScanSees
\* A scan that is disturbed.
<1>2. ASSUME scan'.on = scan.on, scan'.left = scan.left, scan'.cands = scan.cands,
             scan'.got = scan.got, ~(scan'.on /\ scan'.clean)
      PROVE  ScanSees'
  BY <1>2 DEF ScanSees
<1>3. ASSUME ~scan'.on  PROVE ScanSees'
  BY <1>3 DEF ScanSees
<1>4. CASE ScanBegin
  <2>1. scan' = [Idle EXCEPT !.on = TRUE, !.left = Paths]
    BY <1>4 DEF ScanBegin
  <2>2. scan'.left = Paths /\ scan'.cands = {} /\ \A p \in Paths : scan'.got[p] = NoFile
    BY <2>1 DEF Idle
  <2> QED  BY <2>2 DEF ScanSees
<1>5. ASSUME NEW p \in Paths, Walk(p)  PROVE ScanSees'
  <2>1. /\ scan'.on = scan.on /\ scan'.clean = scan.clean /\ scan'.got = scan.got
        /\ scan'.left = scan.left \ {p} /\ p \in scan.left
        /\ scan'.cands = IF disk[p] = NoFile THEN scan.cands ELSE scan.cands \cup {p}
        /\ UNCHANGED <<disk, op>>
    BY <1>0, <1>5 DEF Walk, ScanType
  <2>2. CASE disk[p] = NoFile
    <3>1. scan'.cands = scan.cands
      BY <2>1, <2>2
    <3> QED  BY <2>1, <2>2, <3>1 DEF ScanSees
  <2>3. CASE disk[p] # NoFile
    <3>1. scan'.left \cup scan'.cands = scan.left \cup scan.cands
      BY <2>1, <2>3
    <3> QED  BY <2>1, <3>1 DEF ScanSees
  <2> QED  BY <2>2, <2>3
<1>6. ASSUME NEW p \in Paths, Resolve(p)  PROVE ScanSees'
  <2>1. /\ scan'.on = scan.on /\ scan'.clean = scan.clean
        /\ scan'.got[p] = disk[p] /\ \A o \in Paths \ {p} : scan'.got[o] = scan.got[o]
        /\ scan'.left = scan.left /\ scan.left = {} /\ scan'.cands = scan.cands \ {p}
        /\ scan.cands \subseteq Paths
        /\ UNCHANGED <<disk, op>>
    BY <1>0, <1>6 DEF Resolve, ScanType
  <2> QED  BY <2>1 DEF ScanSees
<1>7. ASSUME NEW p \in Paths, Unreadable(p)  PROVE ScanSees'
  <2>1. /\ scan'.on = scan.on /\ ~scan'.clean /\ scan'.got = scan.got
        /\ scan'.left = scan.left \ {p} /\ scan'.cands = scan.cands \ {p}
    BY <1>0, <1>7 DEF Unreadable, ScanType
  <2> QED  BY <2>1 DEF ScanSees
<1>8. ASSUME Commit \/ Crash  PROVE ScanSees'
  BY <1>3, <1>8 DEF Commit, Crash, Idle
<1>9. ASSUME NEW r \in Ops, NEW a \in Paths, NEW b \in Paths, RenameCheck(r, a, b)
      PROVE  ScanSees'
  <2>1. op[r].at = "idle" /\ \A q \in Ops \ {r} : op'[q] = op[q]
    BY <1>0, <1>9 DEF RenameCheck
  <2> QED  BY <1>1, <1>9, <2>1 DEF RenameCheck
<1>10. ASSUME NEW r \in Ops, RenameMove(r), disk[op[r].from] # NoFile  PROVE ScanSees'
  BY <1>2, <1>10, RenameMoveIs
<1>11. ASSUME NEW r \in Ops, RenameMove(r), disk[op[r].from] = NoFile  PROVE ScanSees'
  <2>1. op[r].at = "move" /\ At(r, "done") /\ UNCHANGED <<disk, scan>>
    BY <1>11 DEF RenameMove
  <2> QED  BY <1>1, <2>1, DoneIs
<1>12. ASSUME NEW r \in Ops, RenameUpdate(r) \/ DeleteRow(r)  PROVE ScanSees'
  BY <1>3, <1>12 DEF RenameUpdate, DeleteRow
<1>13. ASSUME NEW r \in Ops, NEW a \in Paths, DeleteFile(r, a)  PROVE ScanSees'
  <2>1. /\ op[r].at = "idle" /\ \A p \in Paths \ {a} : disk'[p] = disk[p]
        /\ op'[r].at = "remove" /\ op'[r].from = a /\ Others(r)
        /\ scan'.on /\ scan'.clean => scan.clean
        /\ scan'.on = scan.on /\ scan'.left = scan.left
        /\ scan'.cands = scan.cands /\ scan'.got = scan.got
    BY <1>13, DeleteFileIs
  <2>2. \A q \in Ops : op[q].at = "remove" => op'[q].at = "remove" /\ op'[q].from = op[q].from
    BY <2>1 DEF Others
  <2> QED  BY <2>1, <2>2 DEF ScanSees
<1>14. ASSUME NEW r \in Ops, Abort(r)  PROVE ScanSees'
  BY <1>0, <1>2, <1>14, DisturbIs DEF Abort
<1>15. ASSUME NEW p \in Paths, Outside(p)  PROVE ScanSees'
  BY <1>2, <1>15, OutsideIs
<1>16. CASE UNCHANGED libVars
  BY <1>1, <1>16 DEF libVars
<1> QED  BY <1>4, <1>5, <1>6, <1>7, <1>8, <1>9, <1>10, <1>11, <1>12, <1>13, <1>14, <1>15, <1>16
         DEF LibNext, ScanStep, Request

\* Who is touched is under way; and where nobody is, the row is right.
LEMMA CalmHere ==
  ASSUME CalmMeans, calm
  PROVE  /\ \A r \in Ops : Touched(r) => r \in Busy
         /\ \A r \in Busy : r \in Ops /\ ~op[r].met
         /\ \A p \in Paths : (\A r \in Ops : Touched(r) => p \notin InUse(r)) => Agrees(p)
  BY DEF CalmMeans, Settled, Touched, Busy

\* After a clean commit every row is that of the file the scan has found, but for the
\* files that are being deleted.
LEMMA CommitAgrees ==
  ASSUME Typed, ScanSees, Commit, calm'
  PROVE  /\ Settled
         /\ \A p \in Paths : \/ Agrees(p)'
                             \/ \E r \in Ops : op[r].at = "remove" /\ op[r].from = p
<1>1. scan.on /\ scan.left = {} /\ scan.cands = {} /\ UNCHANGED <<disk, op>>
  BY DEF Commit
<1>2. scan.clean /\ Settled
  <2>1. calm' = (scan.clean /\ Settled)
    BY DEF Commit
  <2> QED  BY <2>1, Zenon
<1>3. /\ Indexed' = {p \in Paths : scan.got[p] # NoFile}
      /\ \A p \in Indexed' : index'[p].hash = scan.got[p]
  BY CommitIs DEF Typed
<1>4. ASSUME NEW p \in Paths, scan.got[p] = disk[p]  PROVE Agrees(p)'
  BY <1>1, <1>3, <1>4 DEF Agrees, Indexed
<1> QED  BY <1>1, <1>2, <1>4 DEF ScanSees

LEMMA CalmStep ==
  Typed /\ OnDisk /\ Apart /\ CalmMeans /\ ScanSees /\ [LibNext]_libVars => CalmMeans'
<1> SUFFICES ASSUME Typed, OnDisk, Apart, CalmMeans, ScanSees, [LibNext]_libVars, calm'
             PROVE  /\ Settled'
                    /\ \A p \in Paths : Agrees(p)' \/ \E r \in Ops : Touched(r)' /\ p \in InUse(r)'
                    /\ \A r \in Ops : op'[r].at = "update" => RowFollows(r)'
  BY DEF CalmMeans
<1> DEFINE Goal == /\ Settled'
                   /\ \A p \in Paths : Agrees(p)' \/ \E r \in Ops : Touched(r)' /\ p \in InUse(r)'
                   /\ \A r \in Ops : op'[r].at = "update" => RowFollows(r)'
<1>0. /\ op \in [Ops -> OpType] /\ scan \in ScanType /\ calm \in BOOLEAN
      /\ index \in [Paths -> Row \cup {NoRow}] /\ disk \in [Paths -> Contents \cup {NoFile}]
  BY LibTypes DEF Typed
<1>1. CASE UNCHANGED <<disk, index, op, calm>>
  BY <1>1 DEF CalmMeans, Settled, Busy, Touched, InUse, Agrees, RowFollows
<1>2. CASE Commit
  <2>1. /\ Settled /\ UNCHANGED <<disk, op>>
        /\ \A p \in Paths : \/ Agrees(p)'
                            \/ \E r \in Ops : op[r].at = "remove" /\ op[r].from = p
    BY <1>2, CommitAgrees DEF Commit
  <2>2. ASSUME NEW p \in Paths  PROVE Agrees(p)' \/ \E r \in Ops : Touched(r)' /\ p \in InUse(r)'
    BY <2>1, LibraryAssumption DEF Touched, InUse
  <2>3. ASSUME NEW r \in Ops, op'[r].at = "update"  PROVE RowFollows(r)'
    <3>1. op[r].at = "update" /\ ~op[r].met /\ Touched(r) /\ op'[r] = op[r]
      BY <2>1, <2>3 DEF Settled, Busy, Touched
    <3>2. op[r].from \in Paths /\ op[r].to \in Paths /\ op[r].from \in InUse(r) /\ op[r].to \in InUse(r)
      BY <3>1, LibraryAssumption DEF Typed, OpOK, InUse
    <3>3. ASSUME NEW q \in Ops, op[q].at = "remove"  PROVE op[q].from \notin InUse(r)
      <4>1. Touched(q) /\ q # r /\ op[q].from \in InUse(q)
        BY <3>1, <3>3, LibraryAssumption DEF Touched, InUse, Typed, OpOK
      <4> QED  BY <3>1, <4>1 DEF Apart
    <3>4. Agrees(op[r].from)' /\ Agrees(op[r].to)'
      BY <2>1, <3>2, <3>3
    <3> QED  BY <3>1, <3>4 DEF RowFollows
  <2>4. Settled'
    BY <2>1 DEF Settled, Busy
  <2> QED  BY <2>2, <2>3, <2>4
<1>3. ASSUME NEW r \in Ops, NEW a \in Paths, NEW b \in Paths, RenameCheck(r, a, b)
      PROVE  Goal
  <2> DEFINE o == [NoOp EXCEPT !.at = "move", !.from = a, !.to = b]
  <2>1. o.at = "move" /\ o.met = FALSE
    BY DEF NoOp
  <2>2. op' = [op EXCEPT ![r] = o] /\ op[r].at = "idle" /\ UNCHANGED <<disk, index, calm>>
    BY <1>3 DEF RenameCheck
  <2> HIDE DEF o
  <2>3. op'[r] = o /\ \A q \in Ops \ {r} : op'[q] = op[q]
    BY <1>0, <2>2
  <2>4. \A q \in Ops : Touched(q)' <=> Touched(q)
    BY <2>1, <2>2, <2>3 DEF Touched
  <2>5. \A q \in Ops : Touched(q) => op'[q] = op[q] /\ InUse(q)' = InUse(q)
    BY <2>2, <2>3 DEF Touched, InUse
  <2>6. \A p \in Paths : Agrees(p)' <=> Agrees(p)
    BY <2>2 DEF Agrees
  <2>7. Settled'
    BY <2>1, <2>2, <2>3 DEF CalmMeans, Settled, Busy
  <2>8. ASSUME NEW q \in Ops, op'[q].at = "update"  PROVE RowFollows(q)'
    <3>1. op'[q] = op[q] /\ RowFollows(q)
      BY <2>1, <2>2, <2>3, <2>8 DEF CalmMeans
    <3> QED  BY <2>2, <3>1 DEF RowFollows, Agrees
  <2> QED  BY <2>2, <2>4, <2>5, <2>6, <2>7, <2>8 DEF CalmMeans
<1>4. ASSUME NEW r \in Ops, RenameMove(r), disk[op[r].from] = NoFile  PROVE FALSE
  <2>1. calm /\ r \in Busy /\ op[r].at = "move"
    BY <1>4 DEF RenameMove, Busy
  <2> QED  BY <1>4, <2>1 DEF OnDisk, CalmMeans, Settled
<1>5. ASSUME NEW r \in Ops, RenameMove(r), disk[op[r].from] # NoFile  PROVE Goal
  <2> DEFINE a == op[r].from
             b == op[r].to
  <2>1. /\ op[r].at = "move" /\ a \in Paths /\ b \in Paths /\ a # b /\ InUse(r) = {a, b}
        /\ disk'[a] = NoFile /\ disk'[b] = disk[a]
        /\ \A p \in Paths \ {a, b} : disk'[p] = disk[p]
        /\ UNCHANGED <<index, nextId>>
        /\ op'[r].at = "update" /\ op'[r].from = a /\ op'[r].to = b
        /\ \A q \in Busy : q # r => InUse(q) \cap {a, b} = {}
        /\ calm /\ ~op[r].met
    BY <1>5, RenameMoveIs
  <2>2. op'[r].met = op[r].met /\ \A q \in Ops \ {r} : op'[q] = op[q]
    BY <1>5, <2>1, RenameMoveIs
  <2>3. ~Touched(r) /\ Touched(r)' /\ InUse(r)' = {a, b} /\ r \in Busy
    BY <2>1 DEF Touched, InUse, Busy
  <2>4. \A q \in Ops \ {r} : /\ Touched(q)' <=> Touched(q)
                             /\ InUse(q)' = InUse(q)
                             /\ Touched(q) => q \in Busy
    BY <2>2 DEF Touched, InUse, Busy
  <2>5. Settled'
    BY <2>1, <2>2 DEF CalmMeans, Settled, Busy
  <2>6. \A p \in Paths \ {a, b} : Agrees(p)' <=> Agrees(p)
    BY <2>1 DEF Agrees
  <2>7. ASSUME NEW p \in Paths
        PROVE  Agrees(p)' \/ \E q \in Ops : Touched(q)' /\ p \in InUse(q)'
    <3>1. CASE p \in {a, b}
      BY <2>3, <3>1
    <3>2. CASE p \notin {a, b}
      BY <2>1, <2>3, <2>4, <2>6, <3>2 DEF CalmMeans
    <3> QED  BY <3>1, <3>2
  <2>8. RowFollows(r)'
    <3>1. Agrees(a) /\ Agrees(b)
      BY <2>1, <2>3, <2>4, CalmHere
    <3>2. disk[a] # NoFile /\ disk[b] = NoFile
      BY <2>1, <2>3 DEF OnDisk
    <3>3. index[a] # NoRow /\ index[a].hash = disk[a] /\ index[b] = NoRow
      BY <3>1, <3>2 DEF Agrees
    <3> QED  BY <2>1, <3>3 DEF RowFollows
  <2>9. ASSUME NEW q \in Ops, q # r, op'[q].at = "update"  PROVE RowFollows(q)'
    <3>1. RowFollows(q) /\ op'[q] = op[q] /\ op[q].at = "update" /\ q \in Busy
      BY <2>1, <2>2, <2>9 DEF CalmMeans, Busy
    <3>2. op[q].from \in Paths \ {a, b} /\ op[q].to \in Paths \ {a, b}
      BY <2>1, <2>9, <3>1, LibraryAssumption DEF Typed, OpOK, InUse
    <3>3. /\ Agrees(op[q].from)' <=> Agrees(op[q].from)
          /\ Agrees(op[q].to)' <=> Agrees(op[q].to)
          /\ disk'[op[q].to] = disk[op[q].to]
      BY <2>1, <2>6, <3>1, <3>2
    <3> QED  BY <2>1, <3>1, <3>3 DEF RowFollows
  <2> QED  BY <2>5, <2>7, <2>8, <2>9
<1>6. ASSUME NEW r \in Ops, RenameUpdate(r) \/ DeleteRow(r)  PROVE Goal
  <2>1. /\ At(r, "done") /\ UNCHANGED <<disk, calm>> /\ Touched(r) /\ r \in Busy
    BY <1>6 DEF RenameUpdate, DeleteRow, Touched, Busy
  <2>2. op'[r].at = "done" /\ ~Touched(r)' /\ Busy' = Busy \ {r}
          /\ \A q \in Ops \ {r} : op'[q] = op[q]
    BY <2>1, DoneIs
  <2>3. calm /\ Settled /\ ~op[r].met
    BY <2>1 DEF CalmMeans, Settled
  <2>4. Settled'
    BY <2>1, <2>2, <2>3 DEF Settled, Busy
  \* The files of r are in order now, and nobody else who owes the index has them.
  <2>5. (\A p \in InUse(r) : Agrees(p)') /\ \A p \in Paths \ InUse(r) : index'[p] = index[p]
    <3>1. CASE DeleteRow(r)
      <4>1. op[r].from \in Paths /\ InUse(r) = {op[r].from} /\ disk[op[r].from] = NoFile
        BY <2>1, <2>3, <3>1, LibraryAssumption DEF Typed, OpOK, InUse, DeleteRow, OnDisk
      <4>2. index' = [index EXCEPT ![op[r].from] = NoRow]
        BY <3>1 DEF DeleteRow
      <4> QED  BY <1>0, <2>1, <4>1, <4>2 DEF Agrees
    <3>2. CASE RenameUpdate(r)
      <4> DEFINE a == op[r].from
                 b == op[r].to
      <4>1. /\ a \in Paths /\ b \in Paths /\ a # b /\ InUse(r) = {a, b}
            /\ disk[a] = NoFile /\ disk[b] # NoFile /\ RowFollows(r)
        BY <2>1, <2>3, <3>2, LibraryAssumption
           DEF Typed, OpOK, InUse, RenameUpdate, OnDisk, CalmMeans
      <4>2. CASE index[a] # NoRow /\ index[a].hash = disk[b] /\ index[b] = NoRow
        <5>1. index' = [index EXCEPT ![a] = NoRow, ![b] = index[a]]
          BY <3>2, <4>2 DEF RenameUpdate
        <5> HIDE DEF a, b
        <5>2. /\ index'[a] = NoRow /\ index'[b] = index[a]
              /\ \A p \in Paths \ {a, b} : index'[p] = index[p]
          BY <1>0, <4>1, <5>1
        <5> QED  BY <2>1, <4>1, <4>2, <5>2 DEF Agrees
      <4>3. CASE Agrees(a) /\ Agrees(b)
        <5>1. index[a] = NoRow
          BY <4>1, <4>3 DEF Agrees
        <5>2. index' = index
          BY <3>2, <5>1 DEF RenameUpdate
        <5> QED  BY <2>1, <4>1, <4>3, <5>2 DEF Agrees
      <4> QED  BY <4>1, <4>2, <4>3 DEF RowFollows
    <3> QED  BY <1>6, <3>1, <3>2
  <2>6. ASSUME NEW q \in Ops, q # r, Touched(q)
        PROVE  InUse(q) \cap InUse(r) = {} /\ Touched(q)' /\ InUse(q)' = InUse(q)
    BY <2>1, <2>2, <2>3, <2>6 DEF Apart, Touched, InUse
  <2>7. \A p \in Paths \ InUse(r) : Agrees(p)' <=> Agrees(p)
    BY <2>1, <2>5 DEF Agrees
  <2>8. ASSUME NEW p \in Paths
        PROVE  Agrees(p)' \/ \E q \in Ops : Touched(q)' /\ p \in InUse(q)'
    <3>1. CASE p \in InUse(r)
      BY <2>5, <3>1
    <3>2. CASE p \notin InUse(r)
      BY <2>3, <2>6, <2>7, <3>2 DEF CalmMeans
    <3> QED  BY <3>1, <3>2
  <2>9. ASSUME NEW q \in Ops, op'[q].at = "update"  PROVE RowFollows(q)'
    <3>1. q # r /\ op'[q] = op[q] /\ RowFollows(q) /\ op[q].at = "update"
      BY <2>2, <2>3, <2>9 DEF CalmMeans
    <3>2. op[q].from \in Paths \ InUse(r) /\ op[q].to \in Paths \ InUse(r)
      BY <2>6, <3>1, LibraryAssumption DEF Typed, OpOK, InUse, Touched
    <3>3. /\ Agrees(op[q].from)' <=> Agrees(op[q].from)
          /\ Agrees(op[q].to)' <=> Agrees(op[q].to)
          /\ index'[op[q].to] = index[op[q].to] /\ index'[op[q].from] = index[op[q].from]
          /\ disk'[op[q].to] = disk[op[q].to]
      BY <2>1, <2>5, <2>7, <3>1, <3>2
    <3> QED  BY <3>1, <3>3 DEF RowFollows
  <2> QED  BY <2>4, <2>8, <2>9
<1>7. ASSUME NEW r \in Ops, NEW a \in Paths, DeleteFile(r, a)  PROVE Goal
  <2>1. /\ op[r].at = "idle" /\ \A p \in Paths \ {a} : disk'[p] = disk[p]
        /\ UNCHANGED <<index, nextId>>
        /\ op'[r].at = "remove" /\ op'[r].from = a /\ op'[r].to = NoFile
        /\ \A q \in Busy : a \notin InUse(q)
        /\ calm
    BY <1>7, DeleteFileIs
  <2>2. ~op'[r].met /\ \A q \in Ops \ {r} : op'[q] = op[q]
    BY <1>7, <2>1, DeleteFileIs
  <2>3. ~Touched(r) /\ Touched(r)' /\ a \in InUse(r)'
    BY <2>1, LibraryAssumption DEF Touched, InUse
  <2>4. \A q \in Ops \ {r} : /\ Touched(q)' <=> Touched(q)
                             /\ InUse(q)' = InUse(q)
    BY <2>2 DEF Touched, InUse
  <2>5. Settled'
    BY <2>1, <2>2 DEF CalmMeans, Settled, Busy
  <2>6. \A p \in Paths \ {a} : Agrees(p)' <=> Agrees(p)
    BY <2>1 DEF Agrees
  <2>7. ASSUME NEW p \in Paths
        PROVE  Agrees(p)' \/ \E q \in Ops : Touched(q)' /\ p \in InUse(q)'
    <3>1. CASE p = a
      BY <2>3, <3>1
    <3>2. CASE p # a
      BY <2>1, <2>3, <2>4, <2>6, <3>2 DEF CalmMeans
    <3> QED  BY <3>1, <3>2
  <2>8. ASSUME NEW q \in Ops, op'[q].at = "update"  PROVE RowFollows(q)'
    <3>1. q # r /\ RowFollows(q) /\ op'[q] = op[q] /\ op[q].at = "update" /\ q \in Busy
      BY <2>1, <2>2, <2>8 DEF CalmMeans, Busy
    <3>2. op[q].from \in Paths \ {a} /\ op[q].to \in Paths \ {a}
      BY <2>1, <3>1, LibraryAssumption DEF Typed, OpOK, InUse
    <3>3. /\ Agrees(op[q].from)' <=> Agrees(op[q].from)
          /\ Agrees(op[q].to)' <=> Agrees(op[q].to)
          /\ disk'[op[q].to] = disk[op[q].to]
      BY <2>1, <2>6, <3>1, <3>2
    <3> QED  BY <2>1, <3>1, <3>3 DEF RowFollows
  <2> QED  BY <2>5, <2>7, <2>8
<1>8. ASSUME NEW r \in Ops, Abort(r)  PROVE FALSE
  BY <1>0, <1>8, DisturbIs DEF Abort
<1>9. ASSUME NEW p \in Paths, Outside(p)  PROVE FALSE
  BY <1>9, OutsideIs
<1>10. CASE Crash
  <2>1. /\ Busy' = {} /\ \A r \in Ops : ~Touched(r)' /\ ~Touched(r)
        /\ calm /\ UNCHANGED <<disk, index>>
    BY <1>10, CrashIs
  <2>2. \A p \in Paths : Agrees(p)'
    BY <2>1, CalmHere DEF Agrees
  <2> QED  BY <2>1, <2>2 DEF Settled, Touched
<1>11. ASSUME ScanStep, ~Commit  PROVE Goal
  BY <1>1, <1>11 DEF ScanStep, ScanBegin, Walk, Resolve, Unreadable
<1>12. CASE UNCHANGED libVars
  BY <1>1, <1>12 DEF libVars
<1> HIDE DEF Goal
<1>13. Goal
  BY <1>2, <1>3, <1>4, <1>5, <1>6, <1>7, <1>8, <1>9, <1>10, <1>11, <1>12
     DEF LibNext, Request, Goal
<1> QED  BY <1>13 DEF Goal

\* What a rename that nobody met has found at its source and at its destination is so
\* when it moves the file, and what it has made of them is so when it takes the row along.
LosesNothing ==
  \A r \in Ops : ~op[r].met =>
    /\ op[r].at = "move" /\ op'[r].at = "update" =>
         Range(disk) \subseteq Range(disk') \cup {NoFile}
    /\ op[r].at = "update" /\ op'[r].at = "done" =>
         disk[op[r].from] = NoFile /\ disk[op[r].to] # NoFile

\* Only the move of a request itself takes it from "move" to "update".
LEMMA MovedByItself ==
  ASSUME Typed, [LibNext]_libVars, NEW r \in Ops, op[r].at = "move", op'[r].at = "update"
  PROVE  RenameMove(r) /\ disk[op[r].from] # NoFile
<1>0. op \in [Ops -> OpType]
  BY LibTypes DEF Typed
<1>1. ASSUME NEW q \in Ops, RenameMove(q)  PROVE q = r /\ disk[op[r].from] # NoFile
  <2>1. CASE disk[op[q].from] = NoFile
    <3>1. At(q, "done")
      BY <1>1, <2>1 DEF RenameMove
    <3>2. op'[q].at = "done" /\ \A s \in Ops \ {q} : op'[s] = op[s]
      BY <3>1, DoneIs
    <3> QED  BY <3>2
  <2>2. CASE disk[op[q].from] # NoFile
    <3>1. Others(q)
      BY <1>1, <2>2, RenameMoveIs
    <3> QED  BY <2>2, <3>1 DEF Others
  <2> QED  BY <2>1, <2>2
<1>2. ASSUME NEW q \in Ops, \/ \E a, b \in Paths : RenameCheck(q, a, b)
                            \/ RenameUpdate(q) \/ DeleteRow(q) \/ Abort(q)
      PROVE  FALSE
  <2>1. CASE \E a, b \in Paths : RenameCheck(q, a, b)
    BY <1>0, <2>1 DEF RenameCheck, NoOp, OpType
  <2>2. CASE RenameUpdate(q) \/ DeleteRow(q) \/ Abort(q)
    <3>1. At(q, "done")
      BY <2>2 DEF RenameUpdate, DeleteRow, Abort
    <3> QED  BY <1>0, <3>1, AtIs DEF At, Stages
  <2> QED  BY <1>2, <2>1, <2>2
<1>3. ASSUME NEW q \in Ops, NEW a \in Paths, DeleteFile(q, a)  PROVE FALSE
  BY <1>3, DeleteFileIs DEF Others
<1>4. ASSUME NEW p \in Paths, Outside(p)  PROVE FALSE
  BY <1>0, <1>4, MeetIs DEF Outside
<1>5. CASE Crash
  BY <1>0, <1>5, CrashIs, BusyIs DEF Crash
<1>6. CASE ScanStep \/ UNCHANGED libVars
  BY <1>6 DEF ScanStep, ScanBegin, Walk, Resolve, Unreadable, Commit, libVars
<1> QED  BY <1>1, <1>2, <1>3, <1>4, <1>5, <1>6 DEF LibNext, Request

LEMMA MovesStep == Typed /\ OnDisk /\ [LibNext]_libVars => LosesNothing
<1> SUFFICES ASSUME Typed, OnDisk, [LibNext]_libVars, NEW r \in Ops, ~op[r].met
             PROVE  /\ op[r].at = "move" /\ op'[r].at = "update" =>
                         Range(disk) \subseteq Range(disk') \cup {NoFile}
                    /\ op[r].at = "update" =>
                         disk[op[r].from] = NoFile /\ disk[op[r].to] # NoFile
  BY DEF LosesNothing
<1>0. disk \in [Paths -> Contents \cup {NoFile}]
  BY LibTypes DEF Typed
<1>1. ASSUME op[r].at = "move", op'[r].at = "update"
      PROVE  Range(disk) \subseteq Range(disk') \cup {NoFile}
  <2> DEFINE a == op[r].from
             b == op[r].to
  <2>1. RenameMove(r) /\ disk[a] # NoFile
    BY <1>1, MovedByItself
  <2>2. /\ a \in Paths /\ b \in Paths
        /\ disk'[b] = disk[a] /\ \A p \in Paths \ {a, b} : disk'[p] = disk[p]
    BY <2>1, RenameMoveIs
  <2>3. disk[b] = NoFile
    BY <1>1, BusyIs DEF OnDisk
  <2>4. DOMAIN disk = Paths /\ DOMAIN disk' = Paths
    BY <1>0, <2>1 DEF RenameMove
  <2>5. ASSUME NEW p \in Paths
        PROVE  disk[p] = NoFile \/ \E o \in Paths : disk'[o] = disk[p]
    BY <2>2, <2>3
  <2> QED  BY <2>4, <2>5 DEF Range
<1>2. op[r].at = "update" => disk[op[r].from] = NoFile /\ disk[op[r].to] # NoFile
  BY BusyIs DEF OnDisk
<1> QED  BY <1>1, <1>2

LEMMA SyncInit == LibInit => SyncInv
<1> SUFFICES ASSUME LibInit PROVE SyncInv
  OBVIOUS
<1>1. scan = Idle /\ Busy = {} /\ \A r \in Ops : op[r].at = "idle"
  BY DEF LibInit, NoOp, Busy
<1>2. \A p \in Paths : Agrees(p)
  <2>1. PICK id \in Injection(Paths, 1..Cardinality(Paths)) :
          index = [p \in Paths |-> IF disk[p] = NoFile THEN NoRow
                                   ELSE [id |-> id[p], hash |-> disk[p]]]
    BY DEF LibInit
  <2>2. id \in [Paths -> 1..Cardinality(Paths)] /\ disk \in [Paths -> Contents \cup {NoFile}]
    BY DEF Injection, IsInjective, LibInit
  <2>3. IsFiniteSet(Paths) /\ Cardinality(Paths) \in Nat
    BY LibraryAssumption, FS_CardinalityType
  <2>4. ASSUME NEW p \in Paths, disk[p] # NoFile
        PROVE  index[p] # NoRow /\ index[p].hash = disk[p]
    <3>1. index[p] = [id |-> id[p], hash |-> disk[p]] /\ id[p] \in Nat /\ disk[p] \in Contents
      BY <2>1, <2>2, <2>3, <2>4
    <3> QED  BY <3>1, LibraryAssumption
  <2> QED  BY <2>1, <2>4 DEF Agrees
<1> QED  BY <1>1, <1>2 DEF SyncInv, OnDisk, Apart, CalmMeans, ScanSees, Settled, Touched, Idle

LEMMA SyncInvKept == LibSpec => [](Typed /\ SyncInv)
<1>1. Typed /\ SyncInv /\ [LibNext]_libVars => SyncInv'
  BY OnDiskStep, ApartStep, CalmStep, ScanSeesStep DEF SyncInv
<1> QED  BY <1>1, SyncInit, LibTypesKept, PTL DEF LibSpec, Typed

\* Once a scan has run that nothing disturbed, the index says of every file what is on
\* disk, and renames and deletes keep it so, also when a scan comes between what they do
\* to the file and what they do to its row; whatever has gone wrong before.
THEOREM SyncKept == LibSpec => []SyncWhenCalm
<1>1. SyncInv => SyncWhenCalm
  <2> SUFFICES ASSUME SyncInv, calm, NEW p \in Paths
               PROVE  Agrees(p) \/ \E r \in Busy : p \in InUse(r)
    BY DEF SyncWhenCalm
  <2> QED  BY DEF SyncInv, CalmMeans, Touched, Busy
<1> QED  BY <1>1, SyncInvKept, PTL

\* Whatever else goes on, also while a scan runs and after any disturbance: a rename
\* whose files nobody else has touched since it looked finds its destination as empty
\* as it was then, so that no contents are lost, and its file where it put it.
THEOREM NoFileIsLost == LibSpec => MovesLoseNothing
<1>1. Typed /\ SyncInv /\ [LibNext]_libVars => [LosesNothing]_libVars
  BY MovesStep DEF SyncInv
<1> QED  BY <1>1, SyncInvKept, PTL DEF LibSpec, MovesLoseNothing, LosesNothing
=============================================================================
