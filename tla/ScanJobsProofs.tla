---------------------------- MODULE ScanJobsProofs ----------------------------
(***************************************************************************)
(* Proofs about the life of a web scan, for any number of scans, any       *)
(* deployment, failing writes and any number of crashes: what is stored of *)
(* a scan is never half of it, a report that was shown stays what everyone *)
(* is shown, and statuses live as JobLife says.                            *)
(*                                                                         *)
(* None of these is inductive by itself: runScan looks at no row before it *)
(* writes, so each of them rests on where its goroutine is.  Sound says    *)
(* what is stored when, and what the browser can have been shown by then.  *)
(***************************************************************************)
EXTENDS ScanJobs, TLAPS

\* What the row of a scan holds while its goroutine is at each step.
RowAt(id) ==
    /\ scan[id] = "none" => jobs[id] = NoJob
    /\ scan[id] = "start" => jobs[id].status = "queued"
    /\ scan[id] \in {"crawl", "save", "status", "failed"} => jobs[id].status \in {"queued", "running"}
    /\ scan[id] \in {"status", "result", "failed", "error"} => server.db = "memory"
    /\ scan[id] = "result" => jobs[id].status = "complete"
    /\ scan[id] = "error" => jobs[id].status = "failed"
    /\ scan[id] = "graph" => jobs[id].status = "complete" \/ id \in lost
    /\ scan[id] = "done" /\ id \notin lost /\ (server.db # "memory" \/ server.mode = "lambda")
         => jobs[id].status \in Final

\* How far a scan has come when its graph is stored or a page of it is shown.
ShownAt(id) ==
    /\ page[id] \in {"landing", "refused"} <=> scan[id] = "none"
    /\ server.mode = "lambda" =>
         page[id] \in {"landing", "refused", "waiting", "timeout"} \/ scan[id] = "done"
    /\ graphs[id] => scan[id] = "done" /\ server.db = "sqlite"

\* The properties, for one scan and by its row.
Promised(id) ==
    /\ server.db # "memory" =>
         /\ jobs[id].result <=> jobs[id].status = "complete"
         /\ jobs[id].error <=> jobs[id].status = "failed"
         /\ page[id] = "results" => jobs[id].status = "complete" /\ jobs[id].result
         /\ page[id] = "failed" => jobs[id].status = "failed"
    /\ graphs[id] => jobs[id].status = "complete" \/ id \in lost
    /\ server.mode = "lambda" /\ id \notin lost => page[id] # "scanning"

Sound(id) == RowAt(id) /\ ShownAt(id) /\ Promised(id)

Inv == TypeOK /\ \A id \in Ids : Sound(id)

-----------------------------------------------------------------------------
(* The helpers of the actions *)

LEMMA PageForRow ==
    ASSUME NEW job \in Job
    PROVE  /\ PageFor(job) \in {"notfound", "scanning", "results", "blank", "failed"}
           /\ PageFor(job) = "results" <=> job.status = "complete" /\ job.result
           /\ PageFor(job) = "failed" <=> job.status = "failed" /\ job.error
           /\ PageFor(job) = "scanning" <=> job.status \in {"queued", "running"}
  BY DEF PageFor, Job

\* One scan steps: nothing of the others changes.
Alone(id) ==
    /\ server' = server
    /\ \A i \in Ids \ {id} :
         /\ jobs'[i] = jobs[i] /\ graphs'[i] = graphs[i]
         /\ scan'[i] = scan[i] /\ page'[i] = page[i]
         /\ i \in lost' <=> i \in lost

LEMMA StepKeeps ==
    ASSUME Inv, NEW id \in Ids, Alone(id), TypeOK', Sound(id)'
    PROVE  Inv'
  <1>1. ASSUME NEW i \in Ids \ {id}
        PROVE  Sound(i)'
    <2>1. Sound(i)
      BY DEF Inv
    <2> QED
      BY <2>1 DEF Alone, Sound, RowAt, ShownAt, Promised
  <1> QED
    BY <1>1 DEF Inv

LEMMA WriteRow ==
    ASSUME TypeOK, NEW id \in Ids, NEW job \in Job, Write(id, job)
    PROVE  /\ jobs' \in [Ids -> Job] /\ lost' \subseteq Ids
           /\ \A i \in Ids \ {id} : jobs'[i] = jobs[i] /\ (i \in lost' <=> i \in lost)
           /\ \/ jobs'[id] = job /\ lost' = lost
              \/ jobs'[id] = jobs[id] /\ id \in lost' /\ server.db # "memory"
  BY DEF TypeOK, Write, CallFails

-----------------------------------------------------------------------------
(* runScan *)

LEMMA StartKeeps ==
    ASSUME Inv, NEW id \in Ids, Start(id)
    PROVE  Inv'
  <1> DEFINE job == [jobs[id] EXCEPT !.status = "running"]
  <1>1. TypeOK /\ Sound(id) /\ scan[id] = "start" /\ jobs[id] \in Job
    BY DEF Inv, Start, TypeOK
  <1>2. job \in Job /\ job.status = "running" /\ job.error = jobs[id].error /\ job.result = jobs[id].result
    BY <1>1 DEF Job
  <1>3. Write(id, job)
    BY DEF Start, UpdateStatus
  <1> HIDE DEF job
  <1>4. Alone(id) /\ TypeOK'
    BY <1>1, <1>2, <1>3, WriteRow DEF Start, TypeOK, Alone
  <1>5. \/ jobs'[id] = job /\ lost' = lost
        \/ jobs'[id] = jobs[id] /\ id \in lost' /\ server.db # "memory"
    BY <1>1, <1>2, <1>3, WriteRow
  <1>6. /\ scan'[id] = "crawl" /\ page'[id] = page[id]
        /\ graphs'[id] = graphs[id] /\ server' = server
    BY <1>1 DEF Start, TypeOK
  <1>7. Sound(id)'
    BY <1>1, <1>2, <1>5, <1>6 DEF Sound, RowAt, ShownAt, Promised, Final
  <1> QED
    BY <1>4, <1>7, StepKeeps

LEMMA CrawlFailsKeeps ==
    ASSUME Inv, NEW id \in Ids, CrawlFails(id)
    PROVE  Inv'
  <1> DEFINE job == [jobs[id] EXCEPT !.error = TRUE, !.status = "failed"]
  <1>1. TypeOK /\ Sound(id) /\ scan[id] = "crawl" /\ jobs[id] \in Job
    BY DEF Inv, CrawlFails, TypeOK
  <1>2. job \in Job /\ job.status = "failed" /\ job.error /\ job.result = jobs[id].result
    BY <1>1 DEF Job
  <1>3. Write(id, job)
    BY DEF CrawlFails, SaveError
  <1> HIDE DEF job
  <1>4. Alone(id) /\ TypeOK'
    BY <1>1, <1>2, <1>3, WriteRow DEF CrawlFails, TypeOK, Alone
  <1>5. \/ jobs'[id] = job /\ lost' = lost
        \/ jobs'[id] = jobs[id] /\ id \in lost' /\ server.db # "memory"
    BY <1>1, <1>2, <1>3, WriteRow
  <1>6. /\ scan'[id] = "done" /\ page'[id] = page[id]
        /\ graphs'[id] = graphs[id] /\ server' = server
    BY <1>1 DEF CrawlFails, TypeOK
  <1>7. Sound(id)'
    BY <1>1, <1>2, <1>5, <1>6 DEF Sound, RowAt, ShownAt, Promised, Final
  <1> QED
    BY <1>4, <1>7, StepKeeps

LEMMA SaveKeeps ==
    ASSUME Inv, NEW id \in Ids, Save(id)
    PROVE  Inv'
  <1> DEFINE job == [jobs[id] EXCEPT !.result = TRUE, !.status = "complete"]
  <1>1. TypeOK /\ Sound(id) /\ scan[id] = "save" /\ jobs[id] \in Job
    BY DEF Inv, Save, TypeOK
  <1>2. job \in Job /\ job.status = "complete" /\ job.result /\ job.error = jobs[id].error
    BY <1>1 DEF Job
  <1>3. Write(id, job)
    BY DEF Save, SaveResult
  <1> HIDE DEF job
  <1>4. Alone(id) /\ TypeOK'
    BY <1>1, <1>2, <1>3, WriteRow DEF Save, TypeOK, Alone
  <1>5. \/ jobs'[id] = job /\ lost' = lost
        \/ jobs'[id] = jobs[id] /\ id \in lost' /\ server.db # "memory"
    BY <1>1, <1>2, <1>3, WriteRow
  <1>6. /\ scan'[id] = "graph" /\ page'[id] = page[id]
        /\ graphs'[id] = graphs[id] /\ server' = server
    BY <1>1 DEF Save, TypeOK
  <1>7. Sound(id)'
    BY <1>1, <1>2, <1>5, <1>6 DEF Sound, RowAt, ShownAt, Promised, Final
  <1> QED
    BY <1>4, <1>7, StepKeeps

\* The memory store's two assignments: complete may be read without a result.
LEMMA MemorySaveKeeps ==
    ASSUME Inv, NEW id \in Ids, SetResult(id) \/ SetStatus(id)
    PROVE  Inv'
  <1>1. TypeOK /\ Sound(id) /\ jobs[id] \in Job /\ server.db = "memory"
    BY DEF Inv, SetResult, SetStatus, TypeOK
  <1>2. CASE SetResult(id)
    <2>1. jobs'[id] \in Job /\ jobs'[id].status = jobs[id].status
      BY <1>1, <1>2 DEF SetResult, TypeOK, Job
    <2>2. Alone(id) /\ TypeOK'
      BY <1>1, <1>2, <2>1 DEF SetResult, TypeOK, Alone
    <2>3. /\ scan'[id] = IF scan[id] = "save" THEN "status" ELSE "graph"
          /\ scan[id] \in {"save", "result"} /\ page'[id] = page[id]
          /\ graphs'[id] = graphs[id] /\ server' = server /\ lost' = lost
      BY <1>1, <1>2 DEF SetResult, TypeOK
    <2>4. Sound(id)'
      BY <1>1, <2>1, <2>3 DEF Sound, RowAt, ShownAt, Promised
    <2> QED
      BY <2>2, <2>4, StepKeeps
  <1>3. CASE SetStatus(id)
    <2>1. jobs'[id] \in Job /\ jobs'[id].status = "complete"
      BY <1>1, <1>3 DEF SetStatus, TypeOK, Job
    <2>2. Alone(id) /\ TypeOK'
      BY <1>1, <1>3, <2>1 DEF SetStatus, TypeOK, Alone
    <2>3. /\ scan'[id] = IF scan[id] = "save" THEN "result" ELSE "graph"
          /\ scan[id] \in {"save", "status"} /\ page'[id] = page[id]
          /\ graphs'[id] = graphs[id] /\ server' = server /\ lost' = lost
      BY <1>1, <1>3 DEF SetStatus, TypeOK
    <2>4. Sound(id)'
      BY <1>1, <2>1, <2>3 DEF Sound, RowAt, ShownAt, Promised
    <2> QED
      BY <2>2, <2>4, StepKeeps
  <1> QED
    BY <1>2, <1>3

\* Nor is a failure of the memory store's scans one step.
LEMMA MemoryFailKeeps ==
    ASSUME Inv, NEW id \in Ids, SetError(id) \/ SetFailed(id)
    PROVE  Inv'
  <1>1. TypeOK /\ Sound(id) /\ jobs[id] \in Job /\ server.db = "memory"
    BY DEF Inv, SetError, SetFailed, TypeOK
  <1>2. CASE SetError(id)
    <2>1. jobs'[id] \in Job /\ jobs'[id].status = jobs[id].status
      BY <1>1, <1>2 DEF SetError, TypeOK, Job
    <2>2. Alone(id) /\ TypeOK'
      BY <1>1, <1>2, <2>1 DEF SetError, TypeOK, Alone
    <2>3. /\ scan'[id] = IF scan[id] = "crawl" THEN "failed" ELSE "done"
          /\ scan[id] \in {"crawl", "error"} /\ page'[id] = page[id]
          /\ graphs'[id] = graphs[id] /\ server' = server /\ lost' = lost
      BY <1>1, <1>2 DEF SetError, TypeOK
    <2>4. Sound(id)'
      BY <1>1, <2>1, <2>3 DEF Sound, RowAt, ShownAt, Promised, Final
    <2> QED
      BY <2>2, <2>4, StepKeeps
  <1>3. CASE SetFailed(id)
    <2>1. jobs'[id] \in Job /\ jobs'[id].status = "failed"
      BY <1>1, <1>3 DEF SetFailed, TypeOK, Job
    <2>2. Alone(id) /\ TypeOK'
      BY <1>1, <1>3, <2>1 DEF SetFailed, TypeOK, Alone
    <2>3. /\ scan'[id] = IF scan[id] = "crawl" THEN "error" ELSE "done"
          /\ scan[id] \in {"crawl", "failed"} /\ page'[id] = page[id]
          /\ graphs'[id] = graphs[id] /\ server' = server /\ lost' = lost
      BY <1>1, <1>3 DEF SetFailed, TypeOK
    <2>4. Sound(id)'
      BY <1>1, <2>1, <2>3 DEF Sound, RowAt, ShownAt, Promised, Final
    <2> QED
      BY <2>2, <2>4, StepKeeps
  <1> QED
    BY <1>2, <1>3

LEMMA GoesOnKeeps ==
    ASSUME Inv, NEW id \in Ids, CrawlEnds(id) \/ SaveGraph(id)
    PROVE  Inv'
  <1>1. TypeOK /\ Sound(id)
    BY DEF Inv
  <1>2. CASE CrawlEnds(id)
    <2>1. Alone(id) /\ TypeOK'
      BY <1>1, <1>2 DEF CrawlEnds, TypeOK, Alone
    <2>2. scan[id] = "crawl" /\ scan'[id] = "save" /\ UNCHANGED <<server, jobs, graphs, page, lost>>
      BY <1>1, <1>2 DEF CrawlEnds, TypeOK
    <2>3. Sound(id)'
      BY <1>1, <2>2 DEF Sound, RowAt, ShownAt, Promised
    <2> QED
      BY <2>1, <2>3, StepKeeps
  <1>3. CASE SaveGraph(id)
    <2>1. Alone(id) /\ TypeOK'
      BY <1>1, <1>3 DEF SaveGraph, TypeOK, Alone
    <2>2. /\ scan[id] = "graph" /\ scan'[id] = "done" /\ UNCHANGED <<server, jobs, page, lost>>
          /\ graphs'[id] = graphs[id] \/ server.db = "sqlite"
      BY <1>1, <1>3 DEF SaveGraph, TypeOK
    <2>3. Sound(id)'
      BY <1>1, <2>2 DEF Sound, RowAt, ShownAt, Promised, Final
    <2> QED
      BY <2>1, <2>3, StepKeeps
  <1> QED
    BY <1>2, <1>3

-----------------------------------------------------------------------------
(* The browser *)

LEMMA SubmitKeeps ==
    ASSUME Inv, NEW id \in Ids, Submit(id)
    PROVE  Inv'
  <1>1. /\ TypeOK /\ Sound(id) /\ page[id] = "landing"
        /\ scan[id] = "none" /\ jobs[id] = NoJob /\ jobs[id] \in Job
    BY DEF Inv, Submit, TypeOK, Sound, RowAt, ShownAt
  <1>2. ~jobs[id].result /\ ~jobs[id].error /\ jobs[id].status = "none" /\ ~graphs[id]
    BY <1>1 DEF NoJob, Sound, ShownAt
  <1>3. CASE scan' = scan
    <2>1. /\ UNCHANGED <<server, jobs, graphs, scan, rows, served, lost, misread, crashes>>
          /\ page' = [page EXCEPT ![id] = "refused"]
      BY <1>1, <1>3 DEF Submit, TypeOK
    <2>2. Alone(id) /\ TypeOK' /\ page'[id] = "refused"
      BY <1>1, <2>1 DEF TypeOK, Alone
    <2>3. Sound(id)'
      BY <1>1, <1>2, <2>1, <2>2 DEF Sound, RowAt, ShownAt, Promised
    <2> QED
      BY <2>2, <2>3, StepKeeps
  <1>4. CASE scan' # scan
    <2>1. /\ jobs' = [jobs EXCEPT ![id].status = "queued"]
          /\ scan' = [scan EXCEPT ![id] = "start"]
          /\ page' = [page EXCEPT ![id] =
                        IF server.mode = "lambda" THEN "waiting" ELSE "redirected"]
          /\ UNCHANGED <<server, graphs, rows, served, lost, misread, crashes>>
      BY <1>4 DEF Submit
    <2>2. /\ jobs'[id] \in Job /\ jobs'[id].status = "queued"
          /\ jobs'[id].result = jobs[id].result /\ jobs'[id].error = jobs[id].error
      BY <1>1, <2>1 DEF TypeOK, Job
    <2>3. Alone(id) /\ TypeOK'
      BY <1>1, <2>1, <2>2 DEF TypeOK, Alone
    <2>4. /\ scan'[id] = "start"
          /\ page'[id] = IF server.mode = "lambda" THEN "waiting" ELSE "redirected"
      BY <1>1, <2>1 DEF TypeOK
    <2>5. Sound(id)'
      BY <1>1, <1>2, <2>1, <2>2, <2>4 DEF Sound, RowAt, ShownAt, Promised
    <2> QED
      BY <2>3, <2>5, StepKeeps
  <1> QED
    BY <1>3, <1>4

LEMMA GetPageKeeps ==
    ASSUME Inv, NEW id \in Ids, GetPage(id)
    PROVE  Inv'
  <1>1. TypeOK /\ Sound(id) /\ jobs[id] \in Job /\ page'[id] \in {PageFor(jobs[id]), "notfound"}
    BY DEF Inv, GetPage, TypeOK
  <1>2. /\ page'[id] \in {"notfound", "scanning", "results", "blank", "failed"}
        /\ page'[id] = "results" => jobs[id].status = "complete" /\ jobs[id].result
        /\ page'[id] = "failed" => jobs[id].status = "failed"
        /\ page'[id] = "scanning" => jobs[id].status \in {"queued", "running"}
    BY <1>1, PageForRow
  <1>3. Alone(id) /\ TypeOK'
    <2>1. UNCHANGED <<server, jobs, graphs, scan, rows, served, lost, crashes>>
      BY DEF GetPage
    <2>2. misread' \subseteq Ids
      <3>1. misread' = misread \/ misread' = misread \union {id}
        BY DEF GetPage
      <3> QED
        BY <1>1, <3>1 DEF TypeOK
    <2>3. page' = [page EXCEPT ![id] = page'[id]]
      BY <1>1 DEF GetPage, TypeOK
    <2> QED
      <3>1. page' \in [Ids -> {"landing", "refused", "waiting", "redirected", "scanning",
                               "reload", "results", "blank", "failed", "notfound",
                               "timeout"}]
        BY <1>1, <1>2, <2>3 DEF TypeOK
      <3>2. TypeOK'
        BY <1>1, <2>1, <2>2, <3>1 DEF TypeOK
      <3>3. Alone(id)
        BY <1>1, <2>1, <2>3 DEF TypeOK, Alone
      <3> QED
        BY <3>2, <3>3
  <1>4. Sound(id)'
    BY <1>1, <1>2 DEF GetPage, TypeOK, Sound, RowAt, ShownAt, Promised, Final
  <1> QED
    BY <1>3, <1>4, StepKeeps

\* A redirect, a poll that ends, a time limit: another page, no other row.
LEMMA PageKeeps ==
    ASSUME Inv, NEW id \in Ids, Redirect(id) \/ Poll(id) \/ LambdaTimeout(id)
    PROVE  Inv'
  <1>1. TypeOK /\ Sound(id)
    BY DEF Inv
  <1>2. Alone(id) /\ TypeOK'
    BY <1>1 DEF Redirect, Poll, LambdaTimeout, Kill, TypeOK, Alone
  <1>3. UNCHANGED <<server, jobs, graphs, lost>>
    BY DEF Redirect, Poll, LambdaTimeout
  <1>4. \/ /\ page[id] = "waiting" /\ scan[id] = "done"
           /\ page'[id] = "redirected" /\ scan'[id] = scan[id]
        \/ page[id] = "scanning" /\ page'[id] = "reload" /\ scan'[id] = scan[id]
        \/ /\ page[id] = "waiting" /\ page'[id] = "timeout"
           /\ \/ scan[id] \in {"none", "done"} /\ scan'[id] = scan[id]
              \/ scan[id] \notin {"none", "done"} /\ scan'[id] = "killed"
    BY <1>1 DEF Redirect, Poll, LambdaTimeout, Kill, TypeOK
  <1>5. Sound(id)'
    BY <1>1, <1>3, <1>4 DEF Sound, RowAt, ShownAt, Promised
  <1> QED
    BY <1>2, <1>5, StepKeeps

LEMMA ReadKeeps ==
    ASSUME Inv, NEW id \in Ids, ReadNodes(id) \/ ReadEdges(id) \/ ReadResultGraph(id)
    PROVE  Inv'
  <1>1. TypeOK /\ UNCHANGED <<server, jobs, graphs, scan, page, lost, misread, crashes>>
    BY DEF Inv, ReadNodes, ReadEdges, ReadResultGraph
  <1>2. rows' \in [Ids -> {"unread", "none", "some"}]
    BY <1>1 DEF TypeOK, ReadNodes, ReadEdges, ReadResultGraph
  <1>3. PICK got \in {"nothing", "empty", "whole", "links only", "error"} :
            served' = served \/ served' = [served EXCEPT ![id] = got]
    BY DEF ReadNodes, ReadEdges, ReadResultGraph
  <1>4. TypeOK'
    BY <1>1, <1>2, <1>3 DEF TypeOK
  <1> QED
    BY <1>1, <1>4 DEF Inv, Sound, RowAt, ShownAt, Promised

\* A crash of the server takes the memory store with it, and a database keeps
\* every row as the goroutine left it.
LEMMA CrashKeeps ==
    ASSUME Inv, Crash
    PROVE  Inv'
  <1>1. TypeOK /\ server.mode = "local" /\ server' = server
    BY DEF Inv, Crash
  <1>2. /\ NoJob \in Job /\ NoJob.status = "none" /\ jobs' \in [Ids -> Job]
        /\ \A i \in Ids : jobs'[i] = IF server.db = "memory" THEN NoJob ELSE jobs[i]
    BY <1>1 DEF Crash, Survivors, TypeOK, NoJob, Job
  <1>3. \A i \in Ids : scan'[i] = IF scan[i] \in {"none", "done"} THEN scan[i] ELSE "killed"
    BY <1>1 DEF Crash, Kill, TypeOK
  <1>4. TypeOK'
    <2>1. crashes' \in 0 .. MaxCrashes
      <3>1. crashes \in 0 .. MaxCrashes /\ MaxCrashes \in Nat
        BY <1>1, ScanJobsAssumption DEF TypeOK
      <3>2. crashes < MaxCrashes /\ crashes' = crashes + 1
        BY DEF Crash
      <3> QED
        BY <3>1, <3>2
    <2>2. scan' \in [Ids -> {"none", "start", "crawl", "save", "status", "result",
                             "error", "failed", "graph", "done", "killed"}]
      BY <1>1 DEF Crash, Kill, TypeOK
    <2>3. rows' = [i \in Ids |-> "unread"] /\ UNCHANGED <<server, graphs, page, served, lost, misread>>
      BY DEF Crash
    <2> QED
      BY <1>1, <1>2, <2>1, <2>2, <2>3 DEF TypeOK
  <1>5. ASSUME NEW i \in Ids
        PROVE  Sound(i)'
    <2>1. Sound(i)
      BY DEF Inv
    <2>2. server.mode # "lambda"
      BY <1>1
    <2>3. graphs[i] => server.db = "sqlite"
      BY <2>1 DEF Sound, ShownAt
    <2>4. UNCHANGED <<server, graphs, page, lost>>
      BY DEF Crash
    <2>5. CASE server.db = "memory"
      <3>1. jobs'[i] = NoJob
        BY <1>2, <2>5
      <3> QED
        BY <1>2, <1>3, <2>1, <2>2, <2>3, <2>4, <2>5, <3>1 DEF Sound, RowAt, ShownAt, Promised
    <2>6. CASE server.db # "memory"
      <3>1. jobs'[i] = jobs[i]
        BY <1>2, <2>6
      <3> QED
        BY <1>3, <2>1, <2>2, <2>4, <2>6, <3>1 DEF Sound, RowAt, ShownAt, Promised
    <2> QED
      BY <2>5, <2>6
  <1> QED
    BY <1>4, <1>5 DEF Inv

-----------------------------------------------------------------------------
(* The theorems *)

LEMMA InvInit == Init => Inv
  <1>1. NoJob \in Job
    BY DEF NoJob, Job
  <1> QED
    BY <1>1, ScanJobsAssumption DEF Init, Inv, TypeOK, Sound, RowAt, ShownAt, Promised, NoJob

LEMMA InvNext == Inv /\ [Next]_vars => Inv'
  <1> SUFFICES ASSUME Inv, [Next]_vars PROVE Inv'
    OBVIOUS
  <1>1. ASSUME NEW id \in Ids, RunScan(id)
        PROVE  Inv'
    BY <1>1, StartKeeps, CrawlFailsKeeps, MemoryFailKeeps, SaveKeeps, MemorySaveKeeps, GoesOnKeeps DEF RunScan
  <1>2. ASSUME NEW id \in Ids, Browse(id) \/ Redirect(id) \/ ReadEdges(id) \/ LambdaTimeout(id)
        PROVE  Inv'
    BY <1>2, GetPageKeeps, PageKeeps, ReadKeeps DEF Browse
  <1>3. CASE UNCHANGED vars
    BY <1>3 DEF vars, Inv, TypeOK, Sound, RowAt, ShownAt, Promised
  <1> QED
    BY <1>1, <1>2, <1>3, SubmitKeeps, CrashKeeps DEF Next, Serve

LEMMA InvHolds == Spec => []Inv
  BY InvInit, InvNext, PTL DEF Spec

\* Every reachable state of the scans is well typed.
THEOREM JobsTyped == Spec => []TypeOK
  <1>1. Inv => TypeOK
    BY DEF Inv
  <1> QED
    BY InvHolds, <1>1, PTL

\* runScan's four calls change the row and the graph one by one, each may fail
\* and the process may die between them, and yet nobody reads a row of a database
\* store half done.
THEOREM OutcomeIsWhole == Spec => []WholeOutcome
  <1>1. Inv => WholeOutcome
    BY DEF Inv, Sound, Promised, WholeOutcome, RowIsWhole, GraphHasReport
  <1> QED
    BY InvHolds, <1>1, PTL

\* Whatever fails or crashes, a report that handleScanPage showed once is shown
\* to everyone from then on, and Lambda never sends a browser to poll.
THEOREM ReportStays == Spec => []ReportIsShareable
  <1>1. Inv => ReportIsShareable
    <2> SUFFICES ASSUME Inv PROVE ReportIsShareable
      OBVIOUS
    <2>1. LambdaNeverPolls
      BY DEF Inv, Sound, Promised, LambdaNeverPolls
    <2>2. ASSUME server.db # "memory", NEW id \in Ids
          PROVE  /\ page[id] = "results" => PageFor(jobs[id]) = "results"
                 /\ page[id] = "failed" => PageFor(jobs[id]) = "failed"
      <3>1. jobs[id] \in Job /\ Promised(id)
        BY DEF Inv, TypeOK, Sound
      <3> QED
        BY <2>2, <3>1, PageForRow DEF Promised
    <2> QED
      BY <2>1, <2>2 DEF ReportIsShareable, ShownStaysShown
  <1> QED
    BY InvHolds, <1>1, PTL

-----------------------------------------------------------------------------
(* ScanJobs implements JobLife *)

Status == [id \in Ids |-> jobs[id].status]

\* A write of one row is a change of one status.
LEMMA WriteBecomes ==
    ASSUME TypeOK, NEW id \in Ids, NEW job \in Job, Write(id, job)
    PROVE  Status' = Status \/ Status' = [Status EXCEPT ![id] = job.status]
  <1>1. jobs \in [Ids -> Job]
    BY DEF TypeOK
  <1>2. CASE jobs' = [jobs EXCEPT ![id] = job]
    <2>1. \A i \in Ids : jobs'[i].status = IF i = id THEN job.status ELSE jobs[i].status
      BY <1>1, <1>2
    <2> QED
      BY <2>1 DEF Status
  <1>3. CASE jobs' = jobs
    BY <1>3 DEF Status
  <1> QED
    BY <1>2, <1>3 DEF Write

\* So is a change of one row's status in place.
LEMMA FieldBecomes ==
    ASSUME jobs \in [Ids -> Job], NEW id \in Ids, NEW new,
           jobs' = [jobs EXCEPT ![id].status = new]
    PROVE  Status' = [Status EXCEPT ![id] = new]
  <1>1. \A i \in Ids : jobs'[i].status = IF i = id THEN new ELSE jobs[i].status
    BY DEF Job
  <1> QED
    BY <1>1 DEF Status

LEMMA LifeStep ==
    ASSUME Inv, Next
    PROVE  [Life!LifeNext]_Life!life
  <1>1. TypeOK /\ jobs \in [Ids -> Job] /\ \A id \in Ids : Sound(id) /\ jobs[id] \in Job
    BY DEF Inv, TypeOK
  <1>2. \A id \in Ids : Status[id] = jobs[id].status
    BY DEF Status
  <1>3. ASSUME NEW id \in Ids, NEW new, Status' = [Status EXCEPT ![id] = new],
               server' = server, crashes' = crashes,
               \/ Status[id] = "none" /\ new = "queued"
               \/ Status[id] = "queued" /\ new = "running"
               \/ Status[id] \in {"queued", "running"} /\ new \in Final
        PROVE  Life!LifeNext
    <2>1. Life!Becomes(id, new)
      BY <1>3 DEF Life!Becomes, Status
    <2> QED
      BY <1>3, <2>1 DEF Life!LifeNext, Life!Enqueue, Life!Run, Life!End, Final, Status
  <1>4. ASSUME Status' = Status, server' = server, crashes' = crashes
        PROVE  UNCHANGED Life!life
    BY <1>4 DEF Life!life, Status
  <1>5. ASSUME NEW id \in Ids, Submit(id)
        PROVE  [Life!LifeNext]_Life!life
    <2>1. /\ server' = server /\ crashes' = crashes
          /\ jobs' = [jobs EXCEPT ![id].status = "queued"] \/ jobs' = jobs
      BY <1>5 DEF Submit
    <2>2. Status[id] = "none"
      BY <1>1, <1>2, <1>5 DEF Submit, Sound, RowAt, ShownAt, NoJob
    <2>3. CASE jobs' = [jobs EXCEPT ![id].status = "queued"]
      BY <1>1, <1>3, <2>1, <2>2, <2>3, FieldBecomes
    <2>4. CASE jobs' = jobs
      BY <1>4, <2>1, <2>4 DEF Status
    <2> QED
      BY <2>1, <2>3, <2>4
  <1>6. ASSUME NEW id \in Ids, Start(id)
        PROVE  [Life!LifeNext]_Life!life
    <2> DEFINE job == [jobs[id] EXCEPT !.status = "running"]
    <2>1. job \in Job /\ job.status = "running" /\ Status[id] = "queued"
      BY <1>1, <1>2, <1>6 DEF Job, Start, Sound, RowAt
    <2>2. Write(id, job) /\ server' = server /\ crashes' = crashes
      BY <1>6 DEF Start, UpdateStatus
    <2> HIDE DEF job
    <2> QED
      BY <1>1, <1>3, <1>4, <2>1, <2>2, WriteBecomes
  <1>7. ASSUME NEW id \in Ids, CrawlFails(id)
        PROVE  [Life!LifeNext]_Life!life
    <2> DEFINE job == [jobs[id] EXCEPT !.error = TRUE, !.status = "failed"]
    <2>1. job \in Job /\ job.status = "failed" /\ Status[id] \in {"queued", "running"}
      BY <1>1, <1>2, <1>7 DEF Job, CrawlFails, Sound, RowAt
    <2>2. Write(id, job) /\ server' = server /\ crashes' = crashes
      BY <1>7 DEF CrawlFails, SaveError
    <2> HIDE DEF job
    <2> QED
      BY <1>1, <1>3, <1>4, <2>1, <2>2, WriteBecomes DEF Final
  <1>8. ASSUME NEW id \in Ids, Save(id)
        PROVE  [Life!LifeNext]_Life!life
    <2> DEFINE job == [jobs[id] EXCEPT !.result = TRUE, !.status = "complete"]
    <2>1. job \in Job /\ job.status = "complete" /\ Status[id] \in {"queued", "running"}
      BY <1>1, <1>2, <1>8 DEF Job, Save, Sound, RowAt
    <2>2. Write(id, job) /\ server' = server /\ crashes' = crashes
      BY <1>8 DEF Save, SaveResult
    <2> HIDE DEF job
    <2> QED
      BY <1>1, <1>3, <1>4, <2>1, <2>2, WriteBecomes DEF Final
  <1>9. ASSUME NEW id \in Ids, SetResult(id)
        PROVE  [Life!LifeNext]_Life!life
    <2>1. /\ server' = server /\ crashes' = crashes
          /\ jobs' = [jobs EXCEPT ![id].result = TRUE]
      BY <1>9 DEF SetResult
    <2>2. \A i \in Ids : jobs'[i].status = jobs[i].status
      BY <1>1, <2>1 DEF Job
    <2>3. Status' = Status
      BY <2>2 DEF Status
    <2> QED
      BY <1>4, <2>1, <2>3
  <1>10. ASSUME NEW id \in Ids, SetStatus(id)
         PROVE  [Life!LifeNext]_Life!life
    <2>1. Status[id] \in {"queued", "running"}
      BY <1>1, <1>2, <1>10 DEF SetStatus, Sound, RowAt
    <2>2. /\ server' = server /\ crashes' = crashes
          /\ jobs' = [jobs EXCEPT ![id].status = "complete"]
      BY <1>10 DEF SetStatus
    <2> QED
      BY <1>1, <1>3, <2>1, <2>2, FieldBecomes DEF Final
  <1>13. ASSUME NEW id \in Ids, SetError(id)
         PROVE  [Life!LifeNext]_Life!life
    <2>1. /\ server' = server /\ crashes' = crashes
          /\ jobs' = [jobs EXCEPT ![id].error = TRUE]
      BY <1>13 DEF SetError
    <2>2. \A i \in Ids : jobs'[i].status = jobs[i].status
      BY <1>1, <2>1 DEF Job
    <2>3. Status' = Status
      BY <2>2 DEF Status
    <2> QED
      BY <1>4, <2>1, <2>3
  <1>14. ASSUME NEW id \in Ids, SetFailed(id)
         PROVE  [Life!LifeNext]_Life!life
    <2>1. Status[id] \in {"queued", "running"}
      BY <1>1, <1>2, <1>14 DEF SetFailed, Sound, RowAt
    <2>2. /\ server' = server /\ crashes' = crashes
          /\ jobs' = [jobs EXCEPT ![id].status = "failed"]
      BY <1>14 DEF SetFailed
    <2> QED
      BY <1>1, <1>3, <2>1, <2>2, FieldBecomes DEF Final
  <1>11. ASSUME Crash
         PROVE  Life!LifeNext
    <2>1. server' = server /\ crashes' = crashes + 1 /\ jobs' = Survivors
      BY <1>11 DEF Crash
    <2>2. Status' = IF server.db # "memory" THEN Status ELSE [id \in Ids |-> "none"]
      <3>1. CASE server.db = "memory"
        BY <2>1, <3>1 DEF Survivors, NoJob, Status
      <3>2. CASE server.db # "memory"
        BY <2>1, <3>2 DEF Survivors, Status
      <3> QED
        BY <3>1, <3>2
    <2>3. Life!Restart
      BY <2>1, <2>2 DEF Life!Restart, Status
    <2> QED
      BY <2>3 DEF Life!LifeNext
  <1>12. ASSUME NEW id \in Ids,
                \/ CrawlEnds(id) \/ SaveGraph(id) \/ Redirect(id) \/ ReadEdges(id)
                \/ Browse(id) \/ LambdaTimeout(id)
         PROVE  [Life!LifeNext]_Life!life
    <2>1. UNCHANGED <<server, jobs, crashes>>
      BY <1>12 DEF CrawlEnds, SaveGraph, Redirect, ReadEdges, Browse, GetPage, Poll,
                   ReadNodes, ReadResultGraph, LambdaTimeout
    <2> QED
      BY <1>4, <2>1 DEF Status
  <1> QED
    BY <1>5, <1>6, <1>7, <1>8, <1>9, <1>10, <1>11, <1>12, <1>13, <1>14 DEF Next, Serve, RunScan

\* What readers see of the scans implements JobLife: no write that comes late,
\* fails or follows a crash takes a scan back, although not one call of runScan
\* looks at the status it replaces.
THEOREM ImplementsJobLife == Spec => StatusForward
  <1>1. Init => Life!LifeInit
    BY DEF Init, Life!LifeInit, NoJob
  <1>2. Inv /\ [Next]_vars => [Life!LifeNext]_Life!life
    <2> SUFFICES ASSUME Inv, [Next]_vars PROVE [Life!LifeNext]_Life!life
      OBVIOUS
    <2>1. CASE UNCHANGED vars
      BY <2>1 DEF vars, Life!life
    <2> QED
      BY <2>1, LifeStep
  <1> QED
    BY InvHolds, <1>1, <1>2, PTL DEF Spec, StatusForward, Life!LifeSpec
=============================================================================
