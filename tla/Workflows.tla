------------------------------ MODULE Workflows ------------------------------
(***************************************************************************)
(* The scan of workflows as one of the questions of Analysis: what stands  *)
(* for its constant WorkflowScan, and the property of the answers.         *)
(***************************************************************************)
EXTENDS Analysis, Actions

Summarised(graph) == IF graph = Fails THEN Fails ELSE [graph |-> graph, summary |-> ComputePinningSummary(graph)]

ScanAndSummarise(files, github) == Summarised(ScanWorkflows(files, github))

-----------------------------------------------------------------------------
(* Properties *)

\* The graph of a scan of workflows hangs together: every edge joins two nodes
\* and every node is reached from a workflow; and if no chain of references is
\* longer than the depth limit, every action reached has an edge to everything
\* it uses, however the chains cross.  A longer chain may cost an action its
\* children for good, if it is first met next to the limit.
\* (Scanner.processActionRef)
ActionsAreExpanded ==
    Answered("actions") =>
        LET nodes == DOMAIN reply.graph.nodes
            pairs == {<<e.from, e.to>> : e \in ToSet(reply.graph.edges)}
            tops  == {<<"workflow", request.files[i].path>> : i \in DOMAIN request.files}
            wid(r) == <<"workflow", r.repo, r.path, r.ref>>
            github(uses) == {r \in ToSet(uses) : r.kind = "github"}
            started == UNION {github(ParseWorkflow(request.files[i].raw).actions) : i \in DOMAIN request.files}
            action(r) == ResolveAction(r, request.github)
            file(r)   == FileContent(request.github, r.repo, r.path, action(r).sha)
            steps(r)  == IF action(r) = Fails THEN {}
                         ELSE IF action(r).type # "composite" THEN {} ELSE github(ExtractCompositeActions(action(r).yaml))
            jobs(r)   == IF action(r) = Fails \/ ~r.workflow THEN {} ELSE github(ParseWorkflow(file(r)).actions)
            uses(r)   == steps(r) \union jobs(r)
            refs      == LET next(s) == s \union UNION {uses(r) : r \in s} IN next(next(next(started)))
            chain(s)  == /\ s[1] \in started
                         /\ \A i \in 1..(Len(s) - 1) : s[i + 1] \in uses(s[i])
                         /\ IsInjective(SubSeq(s, 1, Len(s) - 1))
        IN  /\ \A p \in pairs : p[1] \in nodes /\ p[2] \in nodes
            /\ nodes = Downstream(pairs, tops)
            /\ (\A s \in [1..(MaxActionDepth + 1) -> refs] : ~chain(s)) =>
                   /\ \A r \in started : \E top \in tops : <<top, ActionID(r)>> \in pairs
                   /\ \A r \in refs : \A u \in steps(r) : <<ActionID(r), ActionID(u)>> \in pairs
                   /\ \A r \in refs : \A u \in jobs(r) : <<wid(r), ActionID(u)>> \in pairs
=============================================================================
