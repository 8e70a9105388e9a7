------------------------------ MODULE ScanGate ------------------------------
(***************************************************************************)
(* The `scanning` flag of the tracker backend, the tasks that raise it and *)
(* the page that polls it.                                                 *)
(*                                                                         *)
(* A POST to rescan a walked root claims the flag with a compare-exchange  *)
(* and answers 202.  The boot scan, the scan at the end of fetch-missing   *)
(* and an HVSC reindex raise it without asking.  Every one of them runs in *)
(* a blocking task that raises it (again), takes the one database          *)
(* connection, scans, publishes what it found, and lets go: of the         *)
(* connection first, of the flag last.  A client that goes away cancels    *)
(* none of this, so a request that is given up is no action here.          *)
(***************************************************************************)
CONSTANTS Walks,     \* the requests to rescan a walked root
          Unclaimed, \* the other scans: at boot, after a fetch, of HVSC
          Hvsc,      \* those that index HVSC, which publish no outcome
          NoScan

ASSUME GateAssumption ==
  /\ Walks \cap Unclaimed = {}
  /\ Hvsc \subseteq Unclaimed
  /\ NoScan \notin Walks \cup Unclaimed

VARIABLES scanning,  \* ScanProgress.scanning
          conn,      \* the scan that has locked the connection
          last,      \* ScanProgress.last: the scan it is of, and if it failed
          pc,        \* where each scan is
          spa        \* the page: the state of scanMachine, whether its
                     \* /status has found the flag down, and the rescan it has
                     \* posted; `since` (a history): the rescans accepted
                     \* between the end of that one and the page's notice of it

gateVars == <<scanning, conn, last, pc, spa>>

Scans    == Walks \cup Unclaimed
Holding  == {"claimed", "raised", "walking", "published", "unlocked"}
NoScanYet == [scan |-> NoScan, failed |-> FALSE]
Outcome  == [scan : Scans \ Hvsc, failed : BOOLEAN] \cup {NoScanYet}
Phases   == {"booting", "scanning", "loadingTracks", "ready", "rescanning", "error"}

GateTypeOK ==
  /\ scanning \in BOOLEAN
  /\ conn \in Scans \cup {NoScan}
  /\ last \in Outcome
  /\ pc \in [Scans -> Holding \cup {"idle", "refused", "done"}]
  /\ spa \in [at : Phases, down : BOOLEAN, of : Walks \cup {NoScan},
            since : SUBSET Walks]

GateInit ==
  /\ scanning = FALSE
  /\ conn = NoScan
  /\ last = NoScanYet
  /\ pc = [t \in Scans |-> "idle"]
  /\ spa = [at |-> "booting", down |-> FALSE, of |-> NoScan, since |-> {}]

-----------------------------------------------------------------------------
(* The scans *)

Step(t, from, to) == pc[t] = from /\ pc' = [pc EXCEPT ![t] = to]

\* Mutant: the flag is tested when the request comes and raised by the task.
ClaimLate(t) ==
  /\ Step(t, "idle", IF scanning THEN "refused" ELSE "claimed")
  /\ UNCHANGED <<scanning, conn, last>>

\* rescan_root of a walked root: the flag is claimed or the request refused.
Claim(t) ==
  /\ Step(t, "idle", IF scanning THEN "refused" ELSE "claimed")
  /\ scanning' = TRUE
  /\ UNCHANGED <<conn, last>>

\* Another client asks, perhaps while the page, its own rescan over, has yet to poll.
Rescan(t) ==
  /\ t \in Walks
  /\ Claim(t)
  /\ spa' = IF ~scanning /\ spa.at = "rescanning" /\ pc[spa.of] = "done"
              THEN [spa EXCEPT !.since = @ \cup {t}] ELSE spa

\* The blocking task begins: ScanFlagGuard::set.
Raise(t) ==
  /\ Step(t, IF t \in Walks THEN "claimed" ELSE "idle", "raised")
  /\ scanning' = TRUE
  /\ UNCHANGED <<conn, last, spa>>

LockDb(t) ==
  /\ conn = NoScan
  /\ Step(t, "raised", "walking")
  /\ conn' = t
  /\ UNCHANGED <<scanning, last, spa>>

\* Mutant: the outcome is left to the request, which was answered long ago.
PublishNowhere(t) ==
  /\ Step(t, "walking", "published")
  /\ UNCHANGED <<scanning, conn, last, spa>>

\* Mutant: an HVSC reindex publishes an outcome, too.
PublishAny(t) ==
  /\ Step(t, "walking", "published")
  /\ \E f \in BOOLEAN : last' = [scan |-> t, failed |-> f]
  /\ UNCHANGED <<scanning, conn, spa>>

\* The scan ends, well or not, and says so while it holds all it holds.
Publish(t) ==
  /\ Step(t, "walking", "published")
  /\ \E f \in BOOLEAN :
       last' = IF t \in Hvsc THEN last ELSE [scan |-> t, failed |-> f]
  /\ UNCHANGED <<scanning, conn, spa>>

UnlockDb(t) ==
  /\ Step(t, "published", "unlocked")
  /\ conn' = NoScan
  /\ UNCHANGED <<scanning, last, spa>>

\* Mutant: the flag is lowered after the await, which a client that leaves skips.
LowerIfAwaited(t) ==
  /\ Step(t, "unlocked", "done")
  /\ scanning' \in {FALSE, scanning}
  /\ UNCHANGED <<conn, last, spa>>

\* Drop of the guard.
Lower(t) ==
  /\ Step(t, "unlocked", "done")
  /\ scanning' = FALSE
  /\ UNCHANGED <<conn, last, spa>>

-----------------------------------------------------------------------------
(* The page *)

Go(phase) == spa' = [spa EXCEPT !.at = phase, !.down = FALSE]
PageOnly  == UNCHANGED <<scanning, conn, last, pc>>
Polling   == spa.at \in {"booting", "scanning", "rescanning"} /\ ~spa.down

\* /status while a scan runs: answered from the counters.
StatusBusy == Polling /\ scanning /\ spa.at = "booting" /\ Go("scanning") /\ PageOnly

\* /status has read the flag down, and goes on to count rows ...
StatusIdle == Polling /\ ~scanning /\ spa' = [spa EXCEPT !.down = TRUE] /\ PageOnly

\* ... which waits for the connection; last_scan is read after that.
StatusReply ==
  /\ spa.down
  /\ conn = NoScan
  /\ Go(IF spa.at = "rescanning" /\ last.failed THEN "error" ELSE "loadingTracks")
  /\ PageOnly

\* Only the first /status must not fail: the polls go on after an error.
StatusFails ==
  \/ spa.at = "booting" /\ Go("error") /\ PageOnly
  \/ spa.at \in {"scanning", "rescanning"} /\ spa.down /\ Go(spa.at) /\ PageOnly

\* The library is shaped from the database, or that request fails.
LoadTracks == spa.at = "loadingTracks" /\ conn = NoScan /\ Go("ready") /\ PageOnly
LoadFails  == spa.at = "loadingTracks" /\ Go("error") /\ PageOnly

\* RESCAN, the POST and its answer: followed when accepted, an error if not.
RescanFromPage(t) ==
  /\ spa.at \in {"ready", "error"}
  /\ t \in Walks
  /\ Claim(t)
  /\ spa' = [at |-> IF scanning THEN "error" ELSE "rescanning", down |-> FALSE,
             of |-> t, since |-> {}]

-----------------------------------------------------------------------------
RunScan(t) == Raise(t) \/ LockDb(t) \/ Publish(t) \/ UnlockDb(t) \/ Lower(t)
Page == StatusBusy \/ StatusIdle \/ StatusReply \/ StatusFails \/ LoadTracks \/ LoadFails

GateNext ==
  \/ \E t \in Scans : Rescan(t) \/ RescanFromPage(t) \/ RunScan(t)
  \/ Page

\* What was claimed runs, what runs ends (a scan does only finite work), and
\* the page's timers fire.  Nobody has to ask for a scan.
GateFairness ==
  /\ \A t \in Scans : WF_gateVars(Raise(t) /\ t \in Walks)
  /\ \A t \in Scans : WF_gateVars(LockDb(t) \/ Publish(t) \/ UnlockDb(t) \/ Lower(t))
  /\ WF_gateVars(StatusBusy) /\ SF_gateVars(StatusReply)
  /\ WF_gateVars(StatusIdle) /\ WF_gateVars(LoadTracks)

GateSpec == GateInit /\ [][GateNext]_gateVars /\ GateFairness

-----------------------------------------------------------------------------
(* Properties *)

Holders == {t \in Scans : pc[t] \in Holding}
OnlyClaimed == \A t \in Unclaimed : pc[t] = "idle"

\* The flag is never up with nobody left to lower it, whoever gave up waiting
\* (the guard lives in the task that cannot be cancelled).  And as long as every scan
\* claims the flag there is one at a time, and the flag is up from the claim until
\* that scan is over.
FlagMeansScan ==
  /\ scanning => Holders # {}
  /\ OnlyClaimed => /\ \A s, t \in Holders : s = t
                    /\ scanning <=> Holders # {}

\* A page that follows its own rescan leaves "rescanning" only when that one is
\* over, and the outcome it reads, which it takes for that rescan's, is its
\* own or that of a rescan accepted after its own was over: never one from
\* before, nor one published meanwhile (all scans claiming).
OutcomeBeforeIdle ==
  [][spa.at = "rescanning" /\ spa'.at \in {"loadingTracks", "error"} /\ OnlyClaimed
       => pc[spa.of] = "done" /\ last.scan \in {spa.of} \cup spa.since]_gateVars

\* What came of a rescan surfaces where the page follows it.  It does not when
\* another client's was accepted and over between two of its polls: that one's
\* outcome is taken for its own.
OwnOutcome ==
  [][spa.at = "rescanning" /\ spa'.at \in {"loadingTracks", "error"} /\ OnlyClaimed
       => last.scan = spa.of]_gateVars

\* The page does not poll for ever: it comes to rest, whatever scans run.
PageSettles == []<>(spa.at \in {"ready", "error"})

=============================================================================
