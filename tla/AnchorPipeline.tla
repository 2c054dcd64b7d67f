------------------------------ MODULE AnchorPipeline ------------------------------
(***************************************************************************)
(* From signed GPS pings to Merkle roots on the chain, for one trip:       *)
(* MerkleBatcher and BatchScheduler close windows and queue jobs, the      *)
(* anchor worker writes them to chain/contracts/TripLogAnchor.sol and      *)
(* marks the rows of gps_batches (PgBatchStore).                           *)
(*                                                                         *)
(* A root stands for the set of pings it commits to, and a ping for its    *)
(* timestamp.  Left out: finality and reorganisations (the worker  *)
(* waits for confirmations), pings with a timestamp ahead of the sweep,    *)
(* which a later sweep drains, and the contract's administration.          *)
(***************************************************************************)
EXTENDS Integers, SequencesExt

CONSTANTS
  Sweep,       \* sweeps that may run at the same time
  MaxTs,       \* bound: the last ping's timestamp
  InOrder,     \* TRUE: pings reach the archive in the order of their time
  MaxAttempts, \* MAX_ATTEMPTS of a job
  MaxFaults  \* bound: crashes, and calls of the node that fail

ASSUME AnchorAssumption ==
  /\ MaxTs \in Nat \ {0} /\ MaxAttempts \in Nat \ {0} /\ MaxFaults \in Nat
  /\ InOrder \in BOOLEAN

VARIABLES
  archive,  \* gps_pings: signed pings
  rows,     \* gps_batches, oldest first
  sweep,    \* sweeps under way
  jobs,     \* the anchor queue in the order of arrival, finished jobs included
  worker,   \* the one worker
  chain,    \* _batches of TripLogAnchor
  faults

anchorVars == <<archive, rows, sweep, jobs, worker, chain, faults>>

Ts == 1 .. MaxTs
Unanchored == -1
Window(b) == <<b.from, b.to>>
Batch(pings) == [from |-> Min(pings), to |-> Max(pings), pings |-> pings]
NoBatch == [from |-> 0, to |-> 0, pings |-> {}]
Quiet == [pc |-> "idle", seen |-> {}, batch |-> NoBatch]
Resting == [pc |-> "idle", job |-> 0, index |-> Unanchored]

AnchorInit ==
  /\ archive = {}
  /\ rows = <<>>
  /\ sweep = [s \in Sweep |-> Quiet]
  /\ jobs = <<>>
  /\ worker = Resting
  /\ chain = <<>>
  /\ faults = 0

\* A signed ping reaches the archive; an offline device replays old ones.
Ping(t) ==
  /\ t \notin archive
  /\ InOrder => \A u \in archive : u < t
  /\ archive' = archive \cup {t}
  /\ UNCHANGED <<rows, sweep, jobs, worker, chain, faults>>

--------------------------------------------------------------------------------
\* --- BatchScheduler.run, MerkleBatcher.closeWindow --------------------------
SetSweep(s, q) == sweep' = [sweep EXCEPT ![s] = q]

Drain(s) ==
  /\ sweep[s].pc = "idle" /\ archive # {}
  /\ SetSweep(s, [Quiet EXCEPT !.pc = "drained", !.seen = archive])
  /\ UNCHANGED <<archive, rows, jobs, worker, chain, faults>>

\* lastBatchToTs: MAX(to_ts) over all rows, anchored or not.
LastTo == IF rows = <<>> THEN 0 ELSE Max({rows[i].batch.to : i \in DOMAIN rows})

MutUsable(pings) == {t \in pings : t > LastTo + 1}
Usable(pings) == {t \in pings : t > LastTo}

CloseWindow(s) ==
  /\ sweep[s].pc = "drained"
  /\ LET pings == Usable(sweep[s].seen)
     IN SetSweep(s, IF pings = {} THEN Quiet
                  ELSE [sweep[s] EXCEPT !.pc = "save", !.batch = Batch(pings)])
  /\ UNCHANGED <<archive, rows, jobs, worker, chain, faults>>

NewRow(b) == [batch |-> b, index |-> Unanchored]

SaveBatch(s) ==
  /\ sweep[s].pc = "save"
  /\ rows' = Append(rows, NewRow(sweep[s].batch))
  /\ SetSweep(s, [sweep[s] EXCEPT !.pc = "add"])
  /\ UNCHANGED <<archive, jobs, worker, chain, faults>>

\* queue.add: one job for each window; another with its id is ignored.
AddJob(s) ==
  LET b == sweep[s].batch IN
  /\ sweep[s].pc = "add"
  /\ jobs' = IF \E i \in DOMAIN jobs : Window(jobs[i].batch) = Window(b) THEN jobs
             ELSE Append(jobs, [batch |-> b, state |-> "waiting", attempts |-> 0])
  /\ SetSweep(s, Quiet)
  /\ UNCHANGED <<archive, rows, worker, chain, faults>>

SweepDies(s) ==
  /\ sweep[s].pc # "idle"
  /\ faults < MaxFaults
  /\ faults' = faults + 1
  /\ SetSweep(s, Quiet)
  /\ UNCHANGED <<archive, rows, jobs, worker, chain>>

--------------------------------------------------------------------------------
\* --- createAnchorWorker: one job at a time ----------------------------------
Current == jobs[worker.job]
Finish(state) == jobs' = [jobs EXCEPT ![worker.job].state = state]

\* Waiting jobs are taken in the order they were added; one that has failed
\* backs off, and which is next then depends on time.
Untried(i) == jobs[i].state = "waiting" /\ jobs[i].attempts = 0

TakeJob(i) ==
  /\ worker.pc = "idle" /\ jobs[i].state = "waiting"
  /\ \A h \in 1 .. i - 1 : ~Untried(h)
  /\ jobs' = [jobs EXCEPT ![i].state = "active"]
  /\ worker' = [pc |-> "submit", job |-> i, index |-> Unanchored]
  /\ UNCHANGED <<archive, rows, sweep, chain, faults>>

\* anchorBatch
Overlaps(b) == chain # <<>> /\ b.from <= Last(chain).to

AnchorBatch ==
  /\ worker.pc = "submit"
  /\ ~Overlaps(Current.batch)
  /\ chain' = Append(chain, Current.batch)
  /\ worker' = [worker EXCEPT !.pc = "mark", !.index = Len(chain)]
  /\ UNCHANGED <<archive, rows, sweep, jobs, faults>>

\* The contract reverts.  The worker swallows it if the message names
\* TimeOverlap; the ABI it calls with does not declare that error, so a client
\* may also report it by its selector, and the job fails after its attempts.
\* Either way it is over.
AfterOverlap == Resting

OverlapReverts ==
  /\ worker.pc = "submit"
  /\ Overlaps(Current.batch)
  /\ Finish("done") \/ Finish("failed")
  /\ worker' = AfterOverlap
  /\ UNCHANGED <<archive, rows, sweep, chain, faults>>

\* markAnchored: the oldest row of the trip that is not anchored, if any.
MarkIndex == worker.index
Pending == {i \in DOMAIN rows : rows[i].index = Unanchored}

MarkAnchored ==
  /\ worker.pc = "mark"
  /\ rows' = IF Pending = {} THEN rows ELSE [rows EXCEPT ![Min(Pending)].index = MarkIndex]
  /\ Finish("done")
  /\ worker' = Resting
  /\ UNCHANGED <<archive, sweep, chain, faults>>

\* The node or the database does not answer, or the worker dies: the job is
\* tried again, until its attempts are used up.
Retried(job) ==
  [job EXCEPT !.attempts = @ + 1,
              !.state = IF job.attempts + 1 < MaxAttempts THEN "waiting" ELSE "failed"]

JobFails ==
  /\ worker.pc # "idle"
  /\ faults < MaxFaults
  /\ faults' = faults + 1
  /\ jobs' = [jobs EXCEPT ![worker.job] = Retried(@)]
  /\ worker' = Resting
  /\ UNCHANGED <<archive, rows, sweep, chain>>

ProceedSweep(s) == Drain(s) \/ CloseWindow(s) \/ SaveBatch(s) \/ AddJob(s)
ProceedWorker ==
  \/ \E i \in DOMAIN jobs : TakeJob(i)
  \/ AnchorBatch \/ OverlapReverts \/ MarkAnchored

AnchorNext ==
  \/ \E t \in Ts : Ping(t)
  \/ \E s \in Sweep : ProceedSweep(s) \/ SweepDies(s)
  \/ ProceedWorker
  \/ JobFails

AnchorSpec == AnchorInit /\ [][AnchorNext]_anchorVars

\* The sweep runs every hour, and the worker runs as long as there are jobs.
FairAnchorSpec ==
  /\ AnchorSpec
  /\ \A s \in Sweep : WF_anchorVars(ProceedSweep(s))
  /\ WF_anchorVars(ProceedWorker)

--------------------------------------------------------------------------------
Batches == [from: 0 .. MaxTs, to: 0 .. MaxTs, pings: SUBSET Ts]
Index == -1 .. MaxTs - 1

AnchorTypeOK ==
  /\ archive \subseteq Ts
  /\ \A i \in DOMAIN rows : rows[i] \in [batch: Batches, index: Index]
  /\ sweep \in [Sweep -> [pc: {"idle", "drained", "save", "add"}, seen: SUBSET Ts, batch: Batches]]
  /\ \A i \in DOMAIN jobs :
       jobs[i] \in [batch: Batches, state: {"waiting", "active", "done", "failed"},
                    attempts: 0 .. MaxAttempts]
  /\ worker \in [pc: {"idle", "submit", "mark"}, job: 0 .. Len(jobs), index: Index]
  /\ \A i \in DOMAIN chain : chain[i] \in Batches
  /\ faults \in 0 .. MaxFaults

Proved(t) == \E i \in DOMAIN chain : t \in chain[i].pings

\* The pings that are never proved are those that came too late, when a later
\* one was in a saved window already, those of a process that died half way,
\* and nothing else: the jobs of one sweep at a time do not refuse each other.
Late(t) == t <= LastTo /\ \A i \in DOMAIN rows : t \notin rows[i].batch.pings
PunctualPingProved ==
  \A t \in Ts : t \in archive ~> (Proved(t) \/ Late(t) \/ faults > 0)
================================================================================
