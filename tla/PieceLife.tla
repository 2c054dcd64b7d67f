--------------------------------- MODULE PieceLife ---------------------------------
(***************************************************************************)
(* The life of a piece: the godown's scanner page with its offline queue   *)
(* (custody/scanner/pwa/scanner.js), the append-only scan log              *)
(* (doublescan/lifecycle-index.ts, db/lifecycle.store.pg.ts), the fork     *)
(* detector and the public verify page that read it                        *)
(* (doublescan/fork-detector.ts, verify-page-api.ts).                      *)
(*                                                                         *)
(* The page is one browser tab for one manifest, Home.  It is on a network *)
(* that may lose a request or its answer; it may be reloaded at any time,  *)
(* and what is not in IndexedDB by then is gone.  A verification awaits    *)
(* the log and the chain several times.                                    *)
(*                                                                         *)
(* Time is what the detector makes of it: before the delivery, up to a     *)
(* minute after it, later.  The server stamps a scan when it arrives.      *)
(*                                                                         *)
(* The routes that the page calls are not in the repository: a batch that  *)
(* arrives is handed to recordScanBatch, or refused.  The page's nonces    *)
(* stay on the page: the server reads another field, clientNonce, so that  *)
(* a batch that is sent again is a set of new rows.                        *)
(*                                                                         *)
(* A verification by a partner and a report are sightings like the public  *)
(* one.  Left out: the camera, sounds and wording, the rate limiter,       *)
(* coarsened places and dates, the alert sink and an alert's narrative.    *)
(***************************************************************************)
EXTENDS Integers, Sequences, FiniteSets, SequencesExt

CONSTANTS
  Piece,       \* the pieces of manifest Home
  Fabricated,  \* well-formed codes that were never issued
  Watched,     \* bound: the codes that are scanned elsewhere, verified, swept and reported
  Home, Other, \* manifests
  Elsewhere,   \* bound: the manifests and contexts of the scans that are not the page's
  Request,     \* verifications and sweeps in flight
  None,
  BatchSize,   \* scans per flush (50 in the code)
  MaxScans,    \* bound: scans on the page
  MaxScanned,  \* bound: other scans recorded
  MaxCalls,    \* bound: verifications and sweeps
  MaxFailures  \* bound: lost requests or answers, and reloads

ASSUME PieceAssumption ==
  /\ Piece \cap Fabricated = {} /\ Home # Other
  /\ Watched \subseteq Piece \cup Fabricated
  /\ Elsewhere \subseteq {Home, Other} \X {"LOADING", "UNLOADING"}
  /\ BatchSize \in Nat \ {0}
  /\ {MaxScans, MaxScanned, MaxCalls, MaxFailures} \subseteq Nat

VARIABLES
  custody,  \* the status of each manifest on the chain
  delivered, \* Home's deliveredAt: not set, recent, or more than a minute ago
  log,      \* table scan_events
  page,     \* the scanner page: seen, queue, the batch being sent and whether the server
            \* has taken it, puts under way, nonces used
  stored,   \* its IndexedDB
  posts,    \* requests that the page has given up and that may still arrive
  req,      \* verifications and sweeps
  calls, failures

server == <<custody, delivered, log>>
pieceVars == <<server, page, stored, posts, req, calls, failures>>

Manifests == {Home, Other}
NotSending == <<>>

Idle == [pc |-> "idle", piece |-> None, answers |-> FALSE, history |-> {}, todo |-> {},
         active |-> 0, verdict |-> "none", late |-> FALSE, cloned |-> FALSE]

\* A row of scan_events; late is a sighting more than a minute after the delivery.
Event(scanner, p, m, context) ==
  [scanner |-> scanner, piece |-> p, manifest |-> m, context |-> context,
   late |-> context = "SIGHTING" /\ delivered = "long ago"]

PieceInit ==
  /\ custody = [m \in Manifests |-> "InCustody"]
  /\ delivered = "no"
  /\ log = {}
  /\ page = [seen |-> {}, queue |-> <<>>, sending |-> NotSending, taken |-> FALSE,
             saving |-> {}, nonce |-> 0]
  /\ stored = {}
  /\ posts = {}
  /\ req = [r \in Request |-> Idle]
  /\ calls = 0 /\ failures = 0

--------------------------------------------------------------------------------
\* --- the log ------------------------------------------------------------------
\* append, of scans without a clientNonce: always rows of their own.  Rows that differ
\* in nothing that is kept here are one.
append(items) == log' = log \cup {Event("page", i.piece, Home, "UNLOADING") : i \in items}

History(p) == {e \in log : e.piece = p}

\* distinctPieces
Scanned(m, context) == {e.piece : e \in {f \in log : f.manifest = m /\ f.context = context}}

\* recordScan, of any label against any manifest, outside this page.
RecordScan(p, m, context) ==
  /\ Cardinality({e \in log : e.scanner = "other" /\ e.manifest # None}) < MaxScanned
  /\ log' = log \cup {Event("other", p, m, context)}
  /\ UNCHANGED <<custody, delivered, page, stored, posts, req, calls, failures>>

\* The receiver confirms: delivered or short (ReleaseGate).
Close(m) ==
  /\ custody[m] = "InCustody"
  /\ custody' = [custody EXCEPT ![m] =
       IF m = Home /\ Piece \subseteq Scanned(Home, "UNLOADING") THEN "Delivered" ELSE "Short"]
  /\ delivered' = IF m = Home THEN "recently" ELSE delivered
  /\ UNCHANGED <<log, page, stored, posts, req, calls, failures>>

\* The operator escalates, in any state; the time of the delivery stays.  Of Other it
\* matters only whether it is in custody: Close stands for its dispute too.
markDisputed ==
  /\ custody[Home] # "Disputed"
  /\ custody' = [custody EXCEPT ![Home] = "Disputed"]
  /\ UNCHANGED <<delivered, log, page, stored, posts, req, calls, failures>>

MinutePasses ==
  /\ delivered = "recently"
  /\ delivered' = "long ago"
  /\ UNCHANGED <<custody, log, page, stored, posts, req, calls, failures>>

--------------------------------------------------------------------------------
\* --- the scanner page -----------------------------------------------------------
MutScan(p) ==
  /\ page.nonce < MaxScans
  /\ p \in Piece \ page.seen
  /\ LET item == [nonce |-> 1, piece |-> p] IN
       page' = [page EXCEPT !.seen = @ \cup {p}, !.queue = Append(@, item),
                            !.saving = @ \cup {item}, !.nonce = @ + 1]
  /\ UNCHANGED <<server, stored, posts, req, calls, failures>>

\* handlePayload and enqueue, up to the wait for the database: a piece seen before or
\* not on the manifest is only flagged on the screen.
Scan(p) ==
  /\ page.nonce < MaxScans
  /\ p \in Piece \ page.seen
  /\ LET item == [nonce |-> page.nonce + 1, piece |-> p] IN
       page' = [page EXCEPT !.seen = @ \cup {p}, !.queue = Append(@, item),
                            !.saving = @ \cup {item}, !.nonce = @ + 1]
  /\ UNCHANGED <<server, stored, posts, req, calls, failures>>

\* The put of an item reaches IndexedDB.
Save(item) ==
  /\ item \in page.saving
  /\ stored' = stored \cup {item}
  /\ page' = [page EXCEPT !.saving = @ \ {item}]
  /\ UNCHANGED <<server, posts, req, calls, failures>>

Flushing == page.sending # NotSending

Batch == SubSeq(page.queue, 1, IF Len(page.queue) < BatchSize THEN Len(page.queue) ELSE BatchSize)

MutFlush ==
  /\ ~Flushing /\ page.queue # <<>>
  /\ page' = [page EXCEPT !.sending = Batch,
                          !.queue = SubSeq(@, Len(Batch) + 1, Len(@))]
  /\ UNCHANGED <<server, stored, posts, req, calls, failures>>

\* flush, on the timer, on "online", after a scan and on finish: the head of the queue
\* is posted and stays queued.
Flush ==
  /\ ~Flushing /\ page.queue # <<>>
  /\ page' = [page EXCEPT !.sending = Batch]
  /\ UNCHANGED <<server, stored, posts, req, calls, failures>>

\* The server takes the batch that the page waits for: recordScanBatch, one transaction.
Arrive ==
  /\ Flushing /\ ~page.taken
  /\ append(ToSet(page.sending))
  /\ page' = [page EXCEPT !.taken = TRUE]
  /\ UNCHANGED <<custody, delivered, stored, posts, req, calls, failures>>

\* It refuses it, as often as it likes: an answer that is not ok leaves the batch at the
\* head of the queue.
Refuse ==
  /\ Flushing /\ ~page.taken
  /\ page' = [page EXCEPT !.sending = NotSending, !.taken = FALSE]
  /\ UNCHANGED <<server, stored, posts, req, calls, failures>>

\* A request that the page has given up arrives after all.
ArriveLate(post) ==
  /\ append(ToSet(post.batch))
  /\ posts' = posts \ {post}
  /\ UNCHANGED <<custody, delivered, page, stored, req, calls, failures>>

\* The answer is ok: the batch leaves IndexedDB and the head of the queue.
MutFlushed ==
  /\ Flushing /\ page.taken
  /\ stored' = stored \ ToSet(page.sending)
  /\ page' = [page EXCEPT !.sending = NotSending, !.taken = FALSE]
  /\ UNCHANGED <<server, posts, req, calls, failures>>

Flushed ==
  /\ Flushing /\ page.taken
  /\ stored' = stored \ ToSet(page.sending)
  /\ page' = [page EXCEPT !.sending = NotSending, !.taken = FALSE,
                          !.queue = SubSeq(@, Len(page.sending) + 1, Len(@))]
  /\ UNCHANGED <<server, posts, req, calls, failures>>

\* The page waits no more for what it sends.
GiveUp ==
  /\ failures < MaxFailures /\ failures' = failures + 1
  /\ \/ UNCHANGED posts
     \/ /\ Flushing /\ ~page.taken
        /\ posts' = posts \cup {[batch |-> page.sending, number |-> failures]}

\* The request or its answer is lost: the page keeps its queue.
LosePost ==
  /\ Flushing
  /\ GiveUp
  /\ page' = [page EXCEPT !.sending = NotSending, !.taken = FALSE]
  /\ UNCHANGED <<server, stored, req, calls>>

\* loadQueue after a reload: only what IndexedDB holds is seen.
Reload ==
  /\ GiveUp
  /\ page' = [page EXCEPT !.seen = {i.piece : i \in stored}, !.queue = SetToSeq(stored),
                          !.sending = NotSending, !.taken = FALSE, !.saving = {}]
  /\ UNCHANGED <<server, stored, req, calls>>

--------------------------------------------------------------------------------
\* --- ForkDetector.analyze and VerifyPageApi.verify -----------------------------
Become(r, q) == req' = [req EXCEPT ![r] = q]

Step(r, pc) ==
  /\ req[r].pc = pc
  /\ UNCHANGED <<server, page, stored, posts, calls, failures>>

HomeOf(p) == IF p \in Piece THEN Home ELSE None

\* Scans of a loading or unloading under a manifest that is not the piece's.
Foreign(p, history) ==
  {e \in history : e.manifest \notin {None, HomeOf(p)}
                   /\ e.context \in {"LOADING", "UNLOADING"}}

\* Sightings more than a minute after the delivery.
AfterClosure(history) == {e \in history : e.late}

Begin(r, q) ==
  /\ req[r].pc = "idle"
  /\ calls < MaxCalls /\ calls' = calls + 1
  /\ Become(r, [q EXCEPT !.pc = "history", !.cloned = Foreign(q.piece, History(q.piece)) # {}])
  /\ UNCHANGED <<custody, delivered, page, stored, posts, failures>>

\* verify: the scan is recorded first.
BeginVerify(r, p) ==
  /\ Begin(r, [Idle EXCEPT !.piece = p, !.answers = TRUE, !.late = (delivered = "long ago")])
  /\ log' = log \cup {Event("other", p, None, "SIGHTING")}

\* report: a sighting that nothing analyses.
report(p) ==
  /\ calls < MaxCalls /\ calls' = calls + 1
  /\ log' = log \cup {Event("other", p, None, "SIGHTING")}
  /\ UNCHANGED <<custody, delivered, page, stored, posts, req, failures>>

\* sweep, for one of the pieces scanned lately.
BeginSweep(r, p) ==
  /\ History(p) # {}
  /\ Begin(r, [Idle EXCEPT !.piece = p])
  /\ UNCHANGED log

\* finish: a verification answers with the verdict, a sweep is over.
Verdict(r, v) ==
  Become(r, IF req[r].answers
              THEN [req[r] EXCEPT !.pc = "answer", !.verdict = v, !.history = {}]
              ELSE Idle)

\* The history is read and judged as far as it goes by itself.
ReadHistory(r) ==
  /\ Step(r, "history")
  /\ LET p == req[r].piece
         history == History(p) IN
       CASE HomeOf(p) = None -> Verdict(r, "UNKNOWN_PIECE")
         [] HomeOf(p) # None /\ Foreign(p, history) # {} -> Verdict(r, "NOT_ON_MANIFEST")
         [] OTHER -> Become(r, [req[r] EXCEPT !.pc = "active", !.history = history,
                                  !.todo = {e.manifest : e \in history} \ {None}])

\* activeAmong: one manifest after the other is looked up on the chain.
CountActive(r) ==
  /\ Step(r, "active")
  /\ \/ \E m \in req[r].todo :
          Become(r, [req[r] EXCEPT !.todo = @ \ {m},
                       !.active = @ + IF custody[m] = "InCustody" THEN 1 ELSE 0])
     \/ /\ req[r].todo = {}
        /\ IF req[r].active > 1 THEN Verdict(r, "DUPLICATE_LIFE")
           ELSE Become(r, [req[r] EXCEPT !.pc = "home"])

\* Delivered or short: a disputed manifest is not closed, whatever it was before.
HomeClosed == custody[Home] \in {"Delivered", "Short"}

SyncHome(r) ==
  /\ Step(r, "home")
  /\ IF HomeClosed THEN Become(r, [req[r] EXCEPT !.pc = "missing"])
     ELSE Verdict(r, "CLEAN")

MutJudgeMissing(r) ==
  /\ Step(r, "missing")
  /\ Verdict(r, IF /\ AfterClosure(req[r].history) # {}
                   /\ ~\E e \in log : e.piece = req[r].piece /\ e.manifest = Home
                THEN "POST_CLOSURE_SIGHTING" ELSE "CLEAN")

\* wasMissingAtDelivery reads every unloading scan there is by now.
JudgeMissing(r) ==
  /\ Step(r, "missing")
  /\ Verdict(r, IF /\ AfterClosure(req[r].history) # {}
                   /\ req[r].piece \notin Scanned(Home, "UNLOADING")
                THEN "POST_CLOSURE_SIGHTING" ELSE "CLEAN")

\* The public answer; a clean piece's custody is looked up once more.
Status(q) ==
  CASE q.verdict = "UNKNOWN_PIECE" -> "UNKNOWN"
    [] q.verdict = "CLEAN" -> IF HomeClosed THEN "GENUINE_DELIVERED"
                              ELSE "GENUINE_IN_TRANSIT"
    [] OTHER -> "FLAGGED"

Answer(r) ==
  /\ Step(r, "answer")
  /\ Become(r, Idle)

PageNext ==
  \/ \E p \in Piece : Scan(p)
  \/ \E item \in page.saving : Save(item)
  \/ \E post \in posts : ArriveLate(post)
  \/ Flush \/ Arrive \/ Refuse \/ Flushed \/ LosePost \/ Reload

PieceNext ==
  \/ PageNext
  \/ \E p \in Piece \cap Watched, at \in Elsewhere : RecordScan(p, at[1], at[2])
  \/ \E m \in Manifests : Close(m)
  \/ markDisputed \/ MinutePasses
  \/ \E r \in Request, p \in Watched : BeginSweep(r, p) \/ BeginVerify(r, p)
  \/ \E p \in Watched : report(p)
  \/ \E r \in Request :
       ReadHistory(r) \/ CountActive(r) \/ SyncHome(r) \/ JudgeMissing(r) \/ Answer(r)

PieceSpec == PieceInit /\ [][PieceNext]_pieceVars

\* The page's timer fires as long as it is open, a request is answered, and only a
\* bounded number is lost.  The answer may be a refusal.
FairPieceSpec ==
  /\ PieceSpec
  /\ WF_pieceVars(Flush) /\ WF_pieceVars(Flushed)
  /\ WF_pieceVars(Arrive \/ Refuse)
--------------------------------------------------------------------------------
\* Everything is of its kind, and no two scans of the page that wait to be sent or saved
\* have the nonce by which IndexedDB knows them in common.
PieceTypeOK ==
  /\ custody \in [Manifests -> {"InCustody", "Delivered", "Short", "Disputed"}]
  /\ delivered \in {"no", "recently", "long ago"}
  /\ HomeClosed => delivered # "no"
  /\ page.seen \subseteq Piece
  /\ LET items == stored \cup page.saving \cup ToSet(page.queue) IN
       /\ items \subseteq [nonce : 1..page.nonce, piece : Piece]
       /\ \A i, j \in items : i.nonce = j.nonce => i = j
  /\ \A r \in Request : req[r].pc \in
       {"idle", "history", "active", "home", "missing", "answer"}

\* What the page counts as scanned is in the log or still in its queue: no lost request,
\* late answer or reload makes it count a scan that is nowhere.
\* (scanner.js: enqueue, flush, loadQueue)
ScanIsKept ==
  \A p \in page.seen :
    p \in Scanned(Home, "UNLOADING") \cup {i.piece : i \in ToSet(page.queue)}

\* What the page counts as scanned reaches the log in the end, unless a reload made the
\* page forget it or the server goes on refusing for ever: a batch that is refused stays
\* at the head of the queue, and nothing behind it is sent.  (scanner.js: flush)
EveryScanArrives ==
  \/ []<><<Refuse>>_pieceVars
  \/ \A p \in Piece :
       p \in page.seen ~> p \in Scanned(Home, "UNLOADING") \/ p \notin page.seen

\* The public page calls a label genuine only if it was issued, if no scan had put it on
\* another manifest by the time it was scanned, and, if it was scanned more than a minute
\* after the delivery, if it was unloaded or its manifest is disputed, which ends the
\* watch for missing pieces: scans, deliveries and other verifications in between change
\* nothing about that.  (fork-detector.ts: analyze, verify-page-api.ts: verify)
GenuineMeansOneLife ==
  [][\A r \in Request :
       req[r].pc = "answer" /\ req'[r] = Idle /\ Status(req[r]) \notin {"UNKNOWN", "FLAGGED"} =>
         /\ req[r].piece \in Piece
         /\ ~req[r].cloned
         /\ req[r].late =>
              req[r].piece \in Scanned(Home, "UNLOADING") \/ custody[Home] = "Disputed"]_pieceVars
===================================================================================
