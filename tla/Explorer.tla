------------------------------ MODULE Explorer ------------------------------
(***************************************************************************)
(* The terminal explorer of a dependency graph (internal/tui): the list,   *)
(* as a tree or flat, with its cursor, filter, search and panels; the      *)
(* graph view with its three zoom levels; the walker.  One action per key. *)
(*                                                                         *)
(* The list on screen is a copy: it is computed from the mode, the nodes   *)
(* that are expanded, the filter and the query, and every handler that     *)
(* changes one of them has to compute it again and to put the cursor back. *)
(* Positions count from 0, as in the code.  Text, colours and the drawing  *)
(* are left out, and the width of the terminal with them.                  *)
(***************************************************************************)
EXTENDS Lists

CONSTANTS
    Graphs,     \* what may be explored: [nodes |-> id :> [type, name, score, risk], edges |-> pairs]
    Matches,    \* from a query to the nodes whose name or ID contains it
    Heights,    \* lines of the terminal
    PathDepth,  \* edges of the longest path the paths panel looks for; 10 in the code
    MaxTrail,   \* bound: how deep the walker is followed into a cycle
    Diverges,   \* a recursion that never returns, which ends the program
    None        \* no node, no panel, no view yet

\* An edge is added between nodes of the graph, by the crawler, by the scan of
\* workflows and by BuildFromScanResult.
ASSUME GraphsAreClosed ==
    \A g \in Graphs :
        /\ IsFiniteSet(DOMAIN g.nodes)
        /\ g.edges \in Seq((DOMAIN g.nodes) \X (DOMAIN g.nodes))
        /\ \A n \in DOMAIN g.nodes : {g.nodes[n].type, g.nodes[n].name, g.nodes[n].score} \subseteq Int

ASSUME ExplorerAssumption ==
    /\ PathDepth \in Nat /\ Heights \subseteq Nat
    /\ \A g \in Graphs : None \notin DOMAIN g.nodes /\ Diverges \notin Seq(DOMAIN g.nodes)

VARIABLES
    graph,
    roots,      \* of the graph, in the order they had when the explorer was made
    run,        \* "running", "quit" or "crashed"
    mode,       \* "tree", "flat", "graph" or "walker"
    height,
    list,       \* [visible, cursor, offset]
    expanded,
    search,     \* [on, query]: the field and the query it gives are always the same text
    filter,     \* "", "HIGH" or "CRITICAL"
    inspecting,
    paths,      \* the paths shown, or None
    view,       \* of the graph: [zoom, selected, visible]; made when first entered, then kept
    walker      \* [current, children, cursor, path]; likewise

vars == <<graph, roots, run, mode, height, list, expanded, search, filter, inspecting, paths, view, walker>>

NoQuery == ""

-----------------------------------------------------------------------------
(* The graph, as the views read it. *)

Neighbors(g, n) ==
    LET out == Picked(g.edges, {i \in DOMAIN g.edges : g.edges[i][1] = n}) IN [i \in DOMAIN out |-> out[i][2]]

ByTypeAndName(g, m, n) ==
    \/ g.nodes[m].type < g.nodes[n].type
    \/ g.nodes[m].type = g.nodes[n].type /\ g.nodes[m].name < g.nodes[n].name

\* Workflows, the last of the types, come first among the roots.
RootsFirst(g, m, n) ==
    \/ g.nodes[m].type > g.nodes[n].type
    \/ g.nodes[m].type = g.nodes[n].type /\ g.nodes[m].name < g.nodes[n].name

WorstFirst(g, m, n) ==
    \/ g.nodes[m].score < g.nodes[n].score
    \/ g.nodes[m].score = g.nodes[n].score /\ ByTypeAndName(g, m, n)

\* The orders sort.Slice leaves the IDs of a map in: those the comparison does
\* not tell apart, as two versions of one package, come in a new order each time.
Sorted(ids, before) == {s \in SetToSeqs(ids) : \A i, j \in DOMAIN s : i < j => <<s[j], s[i]>> \notin before}

FindRoots(g) ==
    LET ids == DOMAIN g.nodes \ {e[2] : e \in Range(g.edges)}
    IN  Sorted(ids, {p \in ids \X ids : RootsFirst(g, p[1], p[2])})

\* The list sorted is the same every time, and so is what sort.Slice makes of
\* it; how it leaves the children it does not tell apart is not said.
SortedNeighbors(g, n) ==
    LET all   == Neighbors(g, n)
        order == CHOOSE p \in Bijection(DOMAIN all, DOMAIN all) :
                     \A i, j \in DOMAIN all : i < j => ~ByTypeAndName(g, all[p[j]], all[p[i]])
    IN  [k \in DOMAIN all |-> all[order[k]]]

PassesFilter(g, f, n) ==
    \/ f = ""
    \/ f = "HIGH" /\ g.nodes[n].risk \in {"HIGH", "CRITICAL"}
    \/ f = "CRITICAL" /\ g.nodes[n].risk = "CRITICAL"

\* hasFilteredDescendant, over the children still to be looked at.  Nothing
\* remembers the nodes it is in: meeting one again never returns.
FilteredAmong(g, f) ==
    LET among[at \in Seq(DOMAIN g.nodes) \X SUBSET DOMAIN g.nodes] ==
            LET c     == Head(at[1])
                below == among[<<Neighbors(g, c), at[2] \union {c}>>]
            IN  IF at[1] = <<>> THEN "no"
                ELSE IF PassesFilter(g, f, c) THEN "yes"
                ELSE IF c \in at[2] THEN "diverges"
                ELSE IF below = "no" THEN among[<<Tail(at[1]), at[2]>>] ELSE below
    IN  among

\* A node is kept by the filter for itself or for what is below it.
Kept(g, f, n) ==
    IF PassesFilter(g, f, n) THEN "yes" ELSE FilteredAmong(g, f)[<<Neighbors(g, n), {n}>>]

\* The rows of siblings, each followed by those of its children if it is
\* expanded.  A node expanded inside itself never ends.
RowsOf(g, f, open) ==
    LET rows[at \in Seq(DOMAIN g.nodes) \X SUBSET DOMAIN g.nodes] ==
            LET n     == Head(at[1])
                keep  == Kept(g, f, n)
                rest  == rows[<<Tail(at[1]), at[2]>>]
                below == IF n \notin open THEN <<>>
                         ELSE IF n \in at[2] THEN Diverges
                         ELSE rows[<<SortedNeighbors(g, n), at[2] \union {n}>>]
            IN  IF at[1] = <<>> THEN <<>>
                ELSE IF keep = "diverges" \/ rest = Diverges THEN Diverges
                ELSE IF keep = "no" THEN rest
                ELSE IF below = Diverges THEN Diverges
                ELSE <<n>> \o below \o rest
    IN  rows

TreeRows(g, top, f, open) == RowsOf(g, f, open)[<<top, {}>>]

FlatRows(g, f) ==
    LET ids == {n \in DOMAIN g.nodes : PassesFilter(g, f, n)}
    IN  Sorted(ids, {p \in ids \X ids : WorstFirst(g, p[1], p[2])})

Matching(q, n) == q = NoQuery \/ n \in Matches[q]

ApplySearchFilter(q, rows) == Picked(rows, {i \in DOMAIN rows : Matching(q, rows[i])})

\* The lists rebuildVisible may make: one of the tree, of the flat list one for
\* each order.
Rows(g, top, m, open, f, q) ==
    LET all == IF m = "tree" THEN {TreeRows(g, top, f, open)} ELSE FlatRows(g, f)
    IN  {IF rows = Diverges THEN Diverges ELSE ApplySearchFilter(q, rows) : rows \in all}

PathsFrom(g, dst) ==
    LET from[path \in Seq(DOMAIN g.nodes)] ==
            IF Last(path) = dst /\ Len(path) > 1 THEN {path}
            ELSE IF Len(path) > PathDepth THEN {}
            ELSE UNION {from[Append(path, n)] : n \in Range(Neighbors(g, Last(path))) \ Range(path)}
    IN  from

ComputePaths(g, top, dst) == UNION {PathsFrom(g, dst)[<<root>>] : root \in Range(top)}

-----------------------------------------------------------------------------
(* The cursor and the lines on screen. *)

ContentHeight(h, on) == Max({1, h - 2 - (IF on THEN 1 ELSE 0)})

EnsureVisible(cursor, offset, lines) ==
    LET above == IF cursor < offset THEN cursor ELSE offset
        below == IF cursor >= above + lines THEN cursor - lines + 1 ELSE above
    IN  Max({0, below})

\* The list with the cursor at a row, and the offset that brings it on screen.
At(rows, cursor, lines) ==
    [visible |-> rows, cursor |-> cursor, offset |-> EnsureVisible(cursor, list.offset, lines)]

Clamp(rows, lines) == At(rows, Max({0, Min({list.cursor, Len(rows) - 1})}), lines)

Top(rows) == [visible |-> rows, cursor |-> 0, offset |-> 0]

\* What a handler leaves when it has rebuilt the list.
Redraw(rows, placed) ==
    IF rows = Diverges
    THEN run' = "crashed" /\ UNCHANGED list
    ELSE list' = placed /\ UNCHANGED run

UnderCursor == list.visible[list.cursor + 1]

OnARow == list.cursor < Len(list.visible)

Init ==
    /\ graph \in Graphs
    /\ roots \in FindRoots(graph)
    /\ run = "running"
    /\ mode = "tree"
    /\ height \in Heights
    /\ \E rows \in Rows(graph, roots, "tree", {}, "", NoQuery) : list = Top(rows)
    /\ expanded = {}
    /\ search = [on |-> FALSE, query |-> NoQuery]
    /\ filter = ""
    /\ inspecting = None
    /\ paths = None
    /\ view = None
    /\ walker = None

\* tea.WindowSizeMsg, in whatever mode.
Resize ==
    /\ run = "running"
    /\ \E h \in Heights \ {height} :
        /\ height' = h
        /\ list' = Clamp(list.visible, ContentHeight(h, search.on))
    /\ UNCHANGED <<graph, roots, run, mode, expanded, search, filter, inspecting, paths, view, walker>>

-----------------------------------------------------------------------------
(* Keys of the tree and of the flat list. *)

Browsing == run = "running" /\ mode \in {"tree", "flat"} /\ ~search.on /\ paths = None

Lines == ContentHeight(height, search.on)

MoveTo(cursor) ==
    /\ Browsing
    /\ cursor # list.cursor
    /\ list' = At(list.visible, cursor, Lines)
    /\ UNCHANGED <<graph, roots, run, mode, height, expanded, search, filter, inspecting, paths, view, walker>>

Up == MoveTo(Max({0, list.cursor - 1}))

Down == list.cursor < Len(list.visible) - 1 /\ MoveTo(list.cursor + 1)

PageUp == MoveTo(Max({0, list.cursor - Lines \div 2}))

PageDown == MoveTo(Max({0, Min({list.cursor + Lines \div 2, Len(list.visible) - 1})}))

\* Enter on a row of the tree that has children.
Expand ==
    /\ Browsing
    /\ OnARow
    /\ mode = "tree"
    /\ Neighbors(graph, UnderCursor) # <<>>
    /\ expanded' = SymDiff(expanded, {UnderCursor})
    /\ \E rows \in Rows(graph, roots, mode, expanded', filter, search.query) : Redraw(rows, Clamp(rows, Lines))
    /\ UNCHANGED <<graph, roots, mode, height, search, filter, inspecting, paths, view, walker>>

\* "i" on any row; Enter on a leaf or in the flat list does the same.
Inspect ==
    /\ Browsing
    /\ OnARow
    /\ inspecting' = IF inspecting = UnderCursor THEN None ELSE UnderCursor
    /\ UNCHANGED <<graph, roots, run, mode, height, list, expanded, search, filter, paths, view, walker>>

CloseInspect ==
    /\ Browsing
    /\ inspecting # None
    /\ inspecting' = None
    /\ UNCHANGED <<graph, roots, run, mode, height, list, expanded, search, filter, paths, view, walker>>

Tab ==
    /\ Browsing
    /\ mode' = IF mode = "tree" THEN "flat" ELSE "tree"
    /\ \E rows \in Rows(graph, roots, mode', expanded, filter, search.query) : Redraw(rows, Top(rows))
    /\ UNCHANGED <<graph, roots, height, expanded, search, filter, inspecting, paths, view, walker>>

NextFilter == [f \in {"", "HIGH", "CRITICAL"} |->
    CASE f = "" -> "HIGH" [] f = "HIGH" -> "CRITICAL" [] f = "CRITICAL" -> ""]

\* "f" that leaves the list as it was.
CycleFilter_Stale ==
    /\ Browsing
    /\ filter' = NextFilter[filter]
    /\ UNCHANGED <<graph, roots, run, mode, height, list, expanded, search, inspecting, paths, view, walker>>

CycleFilter ==
    /\ Browsing
    /\ filter' = NextFilter[filter]
    /\ \E rows \in Rows(graph, roots, mode, expanded, filter', search.query) : Redraw(rows, Clamp(rows, Lines))
    /\ UNCHANGED <<graph, roots, mode, height, expanded, search, inspecting, paths, view, walker>>

ShowPaths ==
    /\ Browsing
    /\ OnARow
    /\ paths' = ComputePaths(graph, roots, UnderCursor)
    /\ UNCHANGED <<graph, roots, run, mode, height, list, expanded, search, filter, inspecting, view, walker>>

ClosePaths ==
    /\ run = "running"
    /\ paths # None
    /\ paths' = None
    /\ UNCHANGED <<graph, roots, run, mode, height, list, expanded, search, filter, inspecting, view, walker>>

\* "q" everywhere but in the search field, where it is a letter.
Quit ==
    /\ run = "running"
    /\ ~search.on
    /\ run' = "quit"
    /\ UNCHANGED <<graph, roots, mode, height, list, expanded, search, filter, inspecting, paths, view, walker>>

-----------------------------------------------------------------------------
(* The search field. *)

StartSearch ==
    /\ Browsing
    /\ search' = [search EXCEPT !.on = TRUE]
    /\ UNCHANGED <<graph, roots, run, mode, height, list, expanded, filter, inspecting, paths, view, walker>>

Searching == run = "running" /\ search.on

Searched(on, query, rows, placed) ==
    /\ Searching
    /\ search' = [on |-> on, query |-> query]
    /\ Redraw(rows, placed)
    /\ UNCHANGED <<graph, roots, mode, height, expanded, filter, inspecting, paths, view, walker>>

\* The list follows the field at every letter.
Type ==
    \E q \in DOMAIN Matches \union {NoQuery} :
        /\ q # search.query
        /\ \E rows \in Rows(graph, roots, mode, expanded, filter, q) :
               Searched(TRUE, q, rows, Clamp(rows, ContentHeight(height, TRUE)))

ConfirmSearch ==
    \E rows \in Rows(graph, roots, mode, expanded, filter, search.query) :
        Searched(FALSE, search.query, rows, Top(rows))

CancelSearch ==
    \E rows \in Rows(graph, roots, mode, expanded, filter, NoQuery) :
        Searched(FALSE, NoQuery, rows, Clamp(rows, ContentHeight(height, FALSE)))

-----------------------------------------------------------------------------
(* The graph view. *)

Selected(v) == IF v.selected < Len(v.visible) THEN v.visible[v.selected + 1] ELSE None

\* By score only: nodes of the same score come in any order.
InScoreOrder(g, ids) ==
    {s \in SetToSeqs(ids) :
        \A i, j \in DOMAIN s : i < j => g.nodes[s[i]].score <= g.nodes[s[j]].score}

RiskNodes(g) == InScoreOrder(g, {n \in DOMAIN g.nodes : g.nodes[n].risk \in {"HIGH", "CRITICAL"}})

Around(g, ids) ==
    ids \union {e[2] : e \in {x \in Range(g.edges) : x[1] \in ids}}
        \union {e[1] : e \in {x \in Range(g.edges) : x[2] \in ids}}

NeighborhoodNodes(g, centre) == InScoreOrder(g, Around(g, Around(g, {centre})))

ClusterNodes(g) ==
    LET ids == DOMAIN g.nodes IN Sorted(ids, {p \in ids \X ids : ByTypeAndName(g, p[1], p[2])})

ZoomedTo(g, zoom, centre) ==
    CASE zoom = "risk"         -> RiskNodes(g)
      [] zoom = "neighborhood" -> NeighborhoodNodes(g, centre)
      [] zoom = "cluster"      -> ClusterNodes(g)

ClampSelection(visible, selected) == Max({0, Min({selected, Len(visible) - 1})})

\* selectByID that only clamps the old position.
SelectByID_Position(visible, id, selected) == ClampSelection(visible, selected)

SelectByID(visible, id, selected) ==
    IF Contains(visible, id) THEN CHOOSE i \in 0..Len(visible) - 1 : visible[i + 1] = id
    ELSE ClampSelection(visible, selected)

Graphing == run = "running" /\ mode = "graph"

KeepTheRest == UNCHANGED <<graph, roots, run, mode, height, list, expanded, search, filter, inspecting, paths>>

EnterGraph ==
    /\ Browsing
    /\ mode' = "graph"
    /\ IF view # None THEN UNCHANGED view
       ELSE \E visible \in RiskNodes(graph) :
                view' = [zoom |-> "risk", selected |-> 0, visible |-> visible]
    /\ UNCHANGED <<graph, roots, run, height, list, expanded, search, filter, inspecting, paths, walker>>

Select(position) ==
    /\ Graphing
    /\ position # view.selected
    /\ view' = [view EXCEPT !.selected = position]
    /\ KeepTheRest /\ UNCHANGED walker

SelectNext == Graphing /\ Select(ClampSelection(view.visible, view.selected + 1))

SelectPrev == Graphing /\ Select(ClampSelection(view.visible, view.selected - 1))

Zoom(to) ==
    \E visible \in ZoomedTo(graph, to, Selected(view)) :
        /\ view' = [zoom |-> to, visible |-> visible,
                    selected |-> SelectByID(visible, Selected(view), ClampSelection(visible, view.selected))]
        /\ KeepTheRest /\ UNCHANGED walker

ZoomIn == Graphing /\ view.zoom = "risk" /\ Selected(view) # None /\ Zoom("neighborhood")

ZoomOut == Graphing /\ view.zoom # "risk" /\ Zoom("risk")

\* "-" at the overview shows everything.
SetZoomCluster == Graphing /\ view.zoom = "risk" /\ Zoom("cluster")

\* Back to the tree, from the graph view or from the walker.
BackToTree ==
    /\ run = "running"
    /\ mode \in {"graph", "walker"}
    /\ mode' = "tree"
    /\ \E rows \in Rows(graph, roots, "tree", expanded, filter, search.query) : Redraw(rows, Clamp(rows, Lines))
    /\ UNCHANGED <<graph, roots, height, expanded, search, filter, inspecting, paths, view, walker>>

-----------------------------------------------------------------------------
(* The walker. *)

\* The lists of children the walker may make: the roots are looked for anew.
ChildrenOf(n) == IF n = None THEN FindRoots(graph) ELSE {SortedNeighbors(graph, n)}

EnterWalker ==
    /\ Browsing
    /\ mode' = "walker"
    /\ IF walker # None THEN UNCHANGED walker
       ELSE \E children \in ChildrenOf(None) :
                walker' = [current |-> None, children |-> children, cursor |-> 0, path |-> <<>>]
    /\ UNCHANGED <<graph, roots, run, height, list, expanded, search, filter, inspecting, paths, view>>

Walk(to) ==
    /\ run = "running"
    /\ mode = "walker"
    /\ walker' = to
    /\ KeepTheRest /\ UNCHANGED view

WalkerUp == mode = "walker" /\ walker.cursor > 0 /\ Walk([walker EXCEPT !.cursor = @ - 1])

WalkerDown ==
    mode = "walker" /\ walker.cursor < Len(walker.children) - 1 /\ Walk([walker EXCEPT !.cursor = @ + 1])

DrillIn ==
    /\ mode = "walker"
    /\ walker.cursor < Len(walker.children)
    /\ Len(walker.path) < MaxTrail
    /\ LET child == walker.children[walker.cursor + 1]
       IN  \E children \in ChildrenOf(child) :
               Walk([current |-> child, children |-> children, cursor |-> 0,
                     path |-> Append(walker.path, walker.current)])

GoUp ==
    /\ mode = "walker"
    /\ walker.path # <<>>
    /\ \E children \in ChildrenOf(Last(walker.path)) :
           Walk([current |-> Last(walker.path), children |-> children, cursor |-> 0, path |-> Front(walker.path)])

Next ==
    \/ Resize \/ Quit
    \/ Up \/ Down \/ PageUp \/ PageDown
    \/ Expand \/ Inspect \/ CloseInspect \/ Tab \/ CycleFilter \/ ShowPaths \/ ClosePaths
    \/ StartSearch \/ Type \/ ConfirmSearch \/ CancelSearch
    \/ EnterGraph \/ SelectNext \/ SelectPrev \/ ZoomIn \/ ZoomOut \/ SetZoomCluster
    \/ EnterWalker \/ WalkerUp \/ WalkerDown \/ DrillIn \/ GoUp
    \/ BackToTree

Spec == Init /\ [][Next]_vars

-----------------------------------------------------------------------------
(* What the explorer promises, in terms of the graph alone. *)

Successors(n) == {e[2] : e \in {x \in Range(graph.edges) : x[1] = n}}

\* What is in every set of nodes that holds ids and is closed under the pairs.
Closure(pairs, ids) ==
    {n \in DOMAIN graph.nodes : \A s \in SUBSET DOMAIN graph.nodes :
        ids \subseteq s /\ (\A p \in pairs : p[1] \in s => p[2] \in s) => n \in s}

Reach(ids) == Closure(Range(graph.edges), ids)

Cyclic == \E n \in DOMAIN graph.nodes : n \in Reach(Successors(n))

\* Worth a row in the tree: it or something below it passes the filter.
Worth(n) == \E m \in Reach({n}) : PassesFilter(graph, filter, m)

\* Reached through expanded nodes and worth a row.
Opened(ids) == Closure({e \in Range(graph.edges) : e[1] \in expanded /\ Worth(e[2])}, ids)

Roots == DOMAIN graph.nodes \ UNION {Successors(n) : n \in DOMAIN graph.nodes}

Due ==
    LET shown == IF mode = "tree" THEN Opened({n \in Roots : Worth(n)})
                 ELSE {n \in DOMAIN graph.nodes : PassesFilter(graph, filter, n)}
    IN  {n \in shown : Matching(search.query, n)}

ListIsDue == mode \in {"tree", "flat"} => Range(list.visible) = Due

CursorOnARow ==
    /\ list.cursor \in 0..Max({0, Len(list.visible) - 1})
    /\ list.offset \in 0..list.cursor

\* Every path of distinct nodes from a root to the node under the cursor.
PathsAreComplete ==
    paths # None =>
        paths = {s \in UNION {[1..k -> DOMAIN graph.nodes] : k \in 2..PathDepth + 1} :
                    /\ s[1] \in Roots
                    /\ s[Len(s)] = UnderCursor
                    /\ IsInjective(s)
                    /\ \A i \in 1..Len(s) - 1 : s[i + 1] \in Successors(s[i])}

TrailIsReal ==
    walker # None =>
        LET trail == Append(walker.path, walker.current) IN
        /\ trail[1] = None
        /\ \A i \in 1..Len(trail) - 1 :
               trail[i + 1] \in (IF i = 1 THEN Roots ELSE Successors(trail[i]))
        /\ Range(walker.children) = (IF Len(trail) = 1 THEN Roots ELSE Successors(walker.current))
        /\ walker.cursor \in 0..Max({0, Len(walker.children) - 1})

\* Whatever keys are pressed, in whatever order: the list shows the nodes the
\* mode, the expanded nodes, the filter and the query call for, the cursor is on
\* a row of it, the paths panel shows the paths of the node under the cursor,
\* the walker's trail leads from a root along edges to the node it is at, and
\* the explorer falls only over a graph with a cycle (rebuildVisible and
\* clampCursor after each change, computePaths, WalkerModel.Back).
ScreenIsCurrent ==
    /\ run = "crashed" => Cyclic
    /\ run # "crashed" => ListIsDue /\ CursorOnARow /\ PathsAreComplete /\ TrailIsReal

\* Zooming never moves the selection off a node that is still on screen
\* (selectByID after rebuildVisible, which has clamped the old position).
ZoomKeepsSelection ==
    [][(view # None /\ view' # None /\ view'.zoom # view.zoom)
        => (Contains(view'.visible, Selected(view)) => Selected(view') = Selected(view))]_vars
=============================================================================
