------------------------------- MODULE ScanJobs -------------------------------
(***************************************************************************)
(* The life of a web scan: internal/server (handleSubmitScan, runScan and  *)
(* the handlers that read) over the three stores of internal/server/store. *)
(*                                                                         *)
(* Each scan has one goroutine running runScan and one browser that        *)
(* submits, waits, polls and opens the report and the graph.  Every store  *)
(* call is a step of its own, because every other goroutine can run        *)
(* between two of them.  The memory store changes a shared ScanJob in      *)
(* place and without a lock, so its two assignments are two steps, in      *)
(* either order.  A call of a database may fail, reads included.  The      *)
(* process may die between any two steps.                                  *)
(*                                                                         *)
(* A definition named X_Y is X with a plausible mistake Y.                 *)
(***************************************************************************)
EXTENDS Naturals

CONSTANTS
    Ids,          \* scan identifiers; generateID never repeats one
    Servers,      \* the deployments: [db, mode] records
    StoreFails,   \* whether a call of a database store may return an error
    MaxCrashes    \* bound on the number of crashes

Server == [db : {"memory", "sqlite", "dynamo"}, mode : {"local", "lambda"}]

ASSUME ScanJobsAssumption ==
    /\ Servers \subseteq Server
    /\ StoreFails \in BOOLEAN
    /\ MaxCrashes \in Nat

VARIABLES
    server,    \* how the server was started
    jobs,      \* jobs[id]: the ScanJob, or NoJob
    graphs,    \* graphs[id]: graph_nodes and graph_edges hold the scan's rows
    scan,      \* scan[id]: where runScan is
    page,      \* page[id]: what the browser shows
    rows,      \* rows[id]: whether the first query of LoadGraph found nodes
    served,    \* served[id]: what the graph page got
    lost,      \* the scans one of whose store writes failed
    misread,   \* the scans a page of which met a failing read
    crashes

vars == <<server, jobs, graphs, scan, page, rows, served, lost, misread, crashes>>

NoJob == [status |-> "none", error |-> FALSE, result |-> FALSE]

Job == [status : {"none", "queued", "running", "complete", "failed"},
        error : BOOLEAN, result : BOOLEAN]

TypeOK ==
    /\ server \in Server
    /\ jobs \in [Ids -> Job]
    /\ graphs \in [Ids -> BOOLEAN]
    /\ scan \in [Ids -> {"none", "start", "crawl", "save", "status", "result",
                         "error", "failed", "graph", "done", "killed"}]
    /\ page \in [Ids -> {"landing", "refused", "waiting", "redirected", "scanning",
                         "reload", "results", "blank", "failed", "notfound",
                         "timeout"}]
    /\ rows \in [Ids -> {"unread", "none", "some"}]
    /\ served \in [Ids -> {"nothing", "empty", "whole", "links only", "error"}]
    /\ lost \subseteq Ids /\ misread \subseteq Ids
    /\ crashes \in 0 .. MaxCrashes

Init ==
    /\ server \in Servers
    /\ jobs = [id \in Ids |-> NoJob]
    /\ graphs = [id \in Ids |-> FALSE]
    /\ scan = [id \in Ids |-> "none"]
    /\ page = [id \in Ids |-> "landing"]
    /\ rows = [id \in Ids |-> "unread"]
    /\ served = [id \in Ids |-> "nothing"]
    /\ lost = {} /\ misread = {}
    /\ crashes = 0

-----------------------------------------------------------------------------
(* The stores.                                                             *)

Final == {"complete", "failed"}

\* The memory store's calls cannot fail.
CallFails == StoreFails /\ server.db # "memory"

\* One UPDATE or UpdateItem: it happens whole or returns an error, which
\* runScan ignores.
Write(id, job) ==
    \/ jobs' = [jobs EXCEPT ![id] = job] /\ UNCHANGED lost
    \/ /\ CallFails
       /\ lost' = lost \union {id}
       /\ UNCHANGED jobs

UpdateStatus(id, status) == Write(id, [jobs[id] EXCEPT !.status = status])

SaveError(id) ==
    Write(id, [jobs[id] EXCEPT !.error = TRUE, !.status = "failed"])

\* The result column is forgotten.
SaveResult_StatusOnly(id) == Write(id, [jobs[id] EXCEPT !.status = "complete"])

SaveResult(id) ==
    Write(id, [jobs[id] EXCEPT !.result = TRUE, !.status = "complete"])

-----------------------------------------------------------------------------
(* POST /scan.                                                             *)

\* Create, then the goroutine: the browser is redirected at once in local
\* mode, and waits for the scan to return in Lambda mode.
Submit_AlwaysAsync(id) ==
    /\ page[id] = "landing"
    /\ jobs' = [jobs EXCEPT ![id].status = "queued"]
    /\ scan' = [scan EXCEPT ![id] = "start"]
    /\ page' = [page EXCEPT ![id] = "redirected"]
    /\ UNCHANGED <<server, graphs, rows, served, lost, misread, crashes>>

Submit(id) ==
    /\ page[id] = "landing"
    /\ \/ /\ jobs' = [jobs EXCEPT ![id].status = "queued"]
          /\ scan' = [scan EXCEPT ![id] = "start"]
          /\ page' = [page EXCEPT ![id] =
                        IF server.mode = "lambda" THEN "waiting" ELSE "redirected"]
       \/ /\ CallFails
          /\ page' = [page EXCEPT ![id] = "refused"]
          /\ UNCHANGED <<jobs, scan>>
    /\ UNCHANGED <<server, graphs, rows, served, lost, misread, crashes>>

Redirect(id) ==
    /\ page[id] = "waiting" /\ scan[id] = "done"
    /\ page' = [page EXCEPT ![id] = "redirected"]
    /\ UNCHANGED <<server, jobs, graphs, scan, rows, served, lost, misread, crashes>>

-----------------------------------------------------------------------------
(* runScan.                                                                *)

Start(id) ==
    /\ scan[id] = "start"
    /\ UpdateStatus(id, "running")
    /\ scan' = [scan EXCEPT ![id] = "crawl"]
    /\ UNCHANGED <<server, graphs, page, rows, served, misread, crashes>>

\* CrawlURL returns an error.
CrawlFails(id) ==
    /\ scan[id] = "crawl" /\ server.db # "memory"
    /\ SaveError(id)
    /\ scan' = [scan EXCEPT ![id] = "done"]
    /\ UNCHANGED <<server, graphs, page, rows, served, misread, crashes>>

\* job.Error = errMsg; job.Status = "failed", seen in either order.
SetError(id) ==
    /\ server.db = "memory" /\ scan[id] \in {"crawl", "error"}
    /\ jobs' = [jobs EXCEPT ![id].error = TRUE]
    /\ scan' = [scan EXCEPT ![id] = IF @ = "crawl" THEN "failed" ELSE "done"]
    /\ UNCHANGED <<server, graphs, page, rows, served, lost, misread, crashes>>

SetFailed(id) ==
    /\ server.db = "memory" /\ scan[id] \in {"crawl", "failed"}
    /\ jobs' = [jobs EXCEPT ![id].status = "failed"]
    /\ scan' = [scan EXCEPT ![id] = IF @ = "crawl" THEN "error" ELSE "done"]
    /\ UNCHANGED <<server, graphs, page, rows, served, lost, misread, crashes>>

\* The result goes to the graph store alone.
CrawlEnds_NoSave(id) ==
    /\ scan[id] = "crawl"
    /\ scan' = [scan EXCEPT ![id] = "graph"]
    /\ UNCHANGED <<server, jobs, graphs, page, rows, served, lost, misread, crashes>>

CrawlEnds(id) ==
    /\ scan[id] = "crawl"
    /\ scan' = [scan EXCEPT ![id] = "save"]
    /\ UNCHANGED <<server, jobs, graphs, page, rows, served, lost, misread, crashes>>

\* The two database stores write the result and the status in one call.
Save(id) ==
    /\ scan[id] = "save" /\ server.db # "memory"
    /\ SaveResult(id)
    /\ scan' = [scan EXCEPT ![id] = "graph"]
    /\ UNCHANGED <<server, graphs, page, rows, served, misread, crashes>>

\* job.Result = result; job.Status = "complete", seen in either order.
SetResult(id) ==
    /\ server.db = "memory" /\ scan[id] \in {"save", "result"}
    /\ jobs' = [jobs EXCEPT ![id].result = TRUE]
    /\ scan' = [scan EXCEPT ![id] = IF @ = "save" THEN "status" ELSE "graph"]
    /\ UNCHANGED <<server, graphs, page, rows, served, lost, misread, crashes>>

SetStatus(id) ==
    /\ server.db = "memory" /\ scan[id] \in {"save", "status"}
    /\ jobs' = [jobs EXCEPT ![id].status = "complete"]
    /\ scan' = [scan EXCEPT ![id] = IF @ = "save" THEN "result" ELSE "graph"]
    /\ UNCHANGED <<server, graphs, page, rows, served, lost, misread, crashes>>

\* Only SQLite is a GraphStore.  SaveGraph is one transaction; its failure
\* is logged.
SaveGraph(id) ==
    /\ scan[id] = "graph"
    /\ \/ server.db = "sqlite" /\ graphs' = [graphs EXCEPT ![id] = TRUE]
       \/ (server.db = "sqlite" => StoreFails) /\ UNCHANGED graphs
    /\ scan' = [scan EXCEPT ![id] = "done"]
    /\ UNCHANGED <<server, jobs, page, rows, served, lost, misread, crashes>>

RunScan(id) ==
    \/ Start(id) \/ CrawlFails(id) \/ SetError(id) \/ SetFailed(id) \/ CrawlEnds(id)
    \/ Save(id) \/ SetResult(id) \/ SetStatus(id) \/ SaveGraph(id)

-----------------------------------------------------------------------------
(* The browser.                                                            *)

\* The page is named after the status.
PageFor_Status(job) == job.status

\* handleScanPage: GET /scan/{id}.  A page whose result or error text is not
\* there yet has neither.
PageFor(job) ==
    CASE job.status = "none" -> "notfound"
      [] job.status \in {"queued", "running"} -> "scanning"
      [] job.status = "complete" -> IF job.result THEN "results" ELSE "blank"
      [] job.status = "failed" -> IF job.error THEN "failed" ELSE "blank"

\* Any error of store.Get is answered like a scan that is not stored, with a
\* page that does not poll.
GetPage(id) ==
    /\ page[id] \notin {"landing", "refused", "waiting", "timeout"}
    /\ \/ page' = [page EXCEPT ![id] = PageFor(jobs[id])] /\ UNCHANGED misread
       \/ /\ CallFails
          /\ page' = [page EXCEPT ![id] = "notfound"]
          /\ misread' = misread \union {id}
    /\ UNCHANGED <<server, jobs, graphs, scan, rows, served, lost, crashes>>

\* The page polls handleScanStatus and reloads on an end; anything else, the
\* "not_found" of a failing read included, keeps it polling.
PollEnds_OnComplete == {"complete"}
PollEnds            == Final

Poll(id) ==
    /\ page[id] = "scanning"
    /\ jobs[id].status \in PollEnds
    /\ page' = [page EXCEPT ![id] = "reload"]
    /\ UNCHANGED <<server, jobs, graphs, scan, rows, served, lost, misread, crashes>>

\* handleGraphAPI: LoadGraph runs one query for the nodes and one for the
\* edges; an error of either, or of the Get before them, is the answer.
ReadNodes(id) ==
    /\ page[id] = "results" /\ rows[id] = "unread"
    /\ server.db = "sqlite"
    /\ \/ /\ rows' = [rows EXCEPT ![id] = IF graphs[id] THEN "some" ELSE "none"]
          /\ UNCHANGED served
       \/ /\ CallFails
          /\ served' = [served EXCEPT ![id] = "error"]
          /\ UNCHANGED rows
    /\ UNCHANGED <<server, jobs, graphs, scan, page, lost, misread, crashes>>

ReadEdges(id) ==
    /\ rows[id] # "unread"
    /\ rows' = [rows EXCEPT ![id] = "unread"]
    /\ \E got \in (IF CallFails THEN {"error"} ELSE {}) \union
                 {CASE rows[id] = "some" -> "whole"
                    [] rows[id] = "none" /\ graphs[id] -> "links only"
                    [] OTHER -> "empty"} :
         served' = [served EXCEPT ![id] = got]
    /\ UNCHANGED <<server, jobs, graphs, scan, page, lost, misread, crashes>>

\* Without a GraphStore the graph is the one of job.Result: a live graph in
\* memory, and no longer a graph.Graph once decoded from JSON.
ReadResultGraph(id) ==
    /\ page[id] = "results" /\ server.db # "sqlite"
    /\ served' = [served EXCEPT ![id] =
          CASE jobs[id].status = "none" -> "error"
            [] ~jobs[id].result -> "empty"
            [] server.db = "memory" -> "whole"
            [] OTHER -> "error"]
    /\ UNCHANGED <<server, jobs, graphs, scan, page, rows, lost, misread, crashes>>

-----------------------------------------------------------------------------
(* Failures.                                                               *)

\* Scans that were running are run again.
Kill_Resumes(id) == IF scan[id] \in {"none", "done"} THEN scan[id] ELSE "start"

Kill(id) == IF scan[id] \in {"none", "done"} THEN scan[id] ELSE "killed"

\* A recovery that fails the jobs it finds, without looking at their status.
Survivors_Failed ==
    [id \in Ids |-> IF jobs[id] = NoJob THEN NoJob
                    ELSE [status |-> "failed", error |-> TRUE, result |-> FALSE]]

Survivors == IF server.db = "memory" THEN [id \in Ids |-> NoJob] ELSE jobs

\* The server process dies and is started again: the goroutines and the
\* memory store are gone, the databases are not, and nothing resumes a scan.
Crash ==
    /\ server.mode = "local" /\ crashes < MaxCrashes
    /\ crashes' = crashes + 1
    /\ scan' = [id \in Ids |-> Kill(id)]
    /\ jobs' = Survivors
    /\ rows' = [id \in Ids |-> "unread"]
    /\ UNCHANGED <<server, graphs, page, served, lost, misread>>

\* Lambda stops an invocation that takes too long.
LambdaTimeout(id) ==
    /\ server.mode = "lambda" /\ page[id] = "waiting"
    /\ scan' = [scan EXCEPT ![id] = Kill(id)]
    /\ page' = [page EXCEPT ![id] = "timeout"]
    /\ UNCHANGED <<server, jobs, graphs, rows, served, lost, misread, crashes>>

-----------------------------------------------------------------------------
Serve(id) == RunScan(id) \/ Redirect(id) \/ ReadEdges(id)

Browse(id) == GetPage(id) \/ Poll(id) \/ ReadNodes(id) \/ ReadResultGraph(id)

Next ==
    \/ \E id \in Ids : Submit(id) \/ Serve(id) \/ Browse(id) \/ LambdaTimeout(id)
    \/ Crash

\* A goroutine runs until it is killed, CrawlURL returns (it has a timeout),
\* and the page follows redirects, polls every two seconds and reloads.  Not
\* every poll fails for ever.
Fairness ==
    \A id \in Ids :
      /\ WF_vars(Serve(id))
      /\ WF_vars(page[id] \in {"redirected", "reload"} /\ GetPage(id))
      /\ WF_vars(Poll(id))

Spec == Init /\ [][Next]_vars /\ Fairness

-----------------------------------------------------------------------------
(* Properties.                                                             *)

\* In a database store complete comes with the result and failed with the error.
RowIsWhole ==
    server.db # "memory" =>
      \A id \in Ids :
        /\ jobs[id].result <=> jobs[id].status = "complete"
        /\ jobs[id].error <=> jobs[id].status = "failed"

\* A stored graph belongs to a scan that has ended well, unless the write of
\* its result was the one that failed.
GraphHasReport ==
    \A id \in Ids : graphs[id] => jobs[id].status = "complete" \/ id \in lost

\* Nobody sees the row of a database store half done, although four calls of
\* runScan, each of which may fail, change the row and the graph: complete comes
\* with the result, failed with the error and never both, and a stored graph
\* belongs to a scan that has ended well or whose result could not be written.
\* (The memory store assigns the two one by one, and promises neither.)
WholeOutcome == RowIsWhole /\ GraphHasReport

\* In Lambda mode the scan runs inside the request, so the polling page is
\* not used: the first page after the redirect shows how the scan ended.
LambdaNeverPolls ==
    \A id \in Ids :
      server.mode = "lambda" /\ id \notin lost => page[id] # "scanning"

\* A report, once it has been shown, is what anyone who opens its address
\* sees, whatever crashes and failed writes came before or after: a read that
\* fails is the only other answer.
ShownStaysShown ==
    server.db # "memory" =>
      \A id \in Ids :
        /\ page[id] = "results" => PageFor(jobs[id]) = "results"
        /\ page[id] = "failed" => PageFor(jobs[id]) = "failed"

\* The redirect and the pages can be relied on: a report that was shown stays
\* shown to everyone, and Lambda, which scans inside the request, never sends a
\* browser to poll (handleSubmitScan, handleScanPage).
ReportIsShareable == ShownStaysShown /\ LambdaNeverPolls

Life == INSTANCE JobLife WITH
    Ids      <- Ids,
    status   <- [id \in Ids |-> jobs[id].status],
    durable  <- server.db # "memory",
    restarts <- crashes

\* The statuses that readers see behave as JobLife says: whatever fails, ends
\* late or crashes, and although no write of runScan looks at the row it
\* replaces, a status only moves forward, one scan at a time, and a scan
\* vanishes only with the process that held it in memory.
StatusForward == Life!LifeSpec

\* Whoever submits a scan is shown how it ended, unless the process died, a
\* write was lost, or the read of the page failed: that one is told that there
\* is no such scan, by a page that asks no more, although the scan is stored
\* (handlers.go:99-103).
EveryScanAnswered ==
    \A id \in Ids :
      (page[id] \in {"waiting", "redirected"}) ~>
        \/ page[id] \in {"results", "blank", "failed", "timeout"}
        \/ scan[id] = "killed" \/ crashes > 0 \/ id \in lost
        \/ page[id] = "notfound" /\ id \in misread

\* "scan request -> score -> build graph -> store to SQLite -> respond": a
\* browser that has been shown the report gets the whole graph.
GraphAfterReport == \A id \in Ids : served[id] \in {"nothing", "whole"}
=============================================================================
