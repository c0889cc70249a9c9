-------------------------------- MODULE Index --------------------------------
(***************************************************************************)
(* The manifest indexer: RunIndex of internal/scanner/indexer.go over the  *)
(* SQLite tables of internal/cache/index.go and internal/cache/db.go.      *)
(*                                                                         *)
(* One action per database write or file access.  The user edits, removes  *)
(* and hides manifests at any time; the process may be killed between any  *)
(* two steps, its context cancelled between two walk entries, and any      *)
(* write may fail.  `depscope cache prune' (Prune of internal/cache/db.go) *)
(* may take versions away at any time.  Every run is a process and a       *)
(* connection of its own, and so is every prune.                           *)
(*                                                                         *)
(* A definition named X_Y is X with a plausible mistake Y: TLC is shown to *)
(* find each of them with the properties below.                            *)
(***************************************************************************)
EXTENDS Naturals, Sequences, FiniteSets

CONSTANTS
    Paths,      \* manifest paths under the indexed root
    Order,      \* the order in which filepath.WalkDir meets them
    Pkgs,       \* (ProjectID, VersionKey) pairs
    Projects,   \* ProjectIDs
    ProjectOf,  \* the ProjectID of a pair
    Contents,   \* what a manifest, with its companion lockfile, can say
    PkgsOf,     \* parseManifestPackages of a content
    EdgesOf,    \* extractDependencyEdges of a content: <<parent, child>>
    MtimeKept,  \* an edit may leave the manifest's mtime (in seconds) alone
    DbFails,    \* a database call may return an error
    Killed,     \* the process may die or be cancelled
    MaxRuns,    \* bound: runs of the indexer
    MaxEdits    \* bound: changes the user makes

ASSUME IndexAssumption ==
    /\ Order \in Seq(Paths)
    /\ \A p \in Paths : \E i \in 1..Len(Order) : Order[i] = p
    /\ \A i, j \in 1..Len(Order) : Order[i] = Order[j] => i = j
    /\ Contents # {}
    /\ ProjectOf \in [Pkgs -> Projects]
    /\ PkgsOf \in [Contents -> SUBSET Pkgs]
    /\ EdgesOf \in [Contents -> SUBSET (Pkgs \X Pkgs)]
    /\ {MtimeKept, DbFails, Killed} \subseteq BOOLEAN
    /\ MaxRuns \in Nat /\ MaxEdits \in Nat

VARIABLES
    files,      \* the disk: what is at each path
    edits,      \* changes made so far; a new mtime is one more than that
    rows,       \* index_manifests: the id and mtime stored for a path
    nextId,     \* its AUTOINCREMENT counter
    links,      \* manifest_packages, with their rowids
    projects,   \* projects
    vrow,       \* project_versions: a version's rowid, 0 where it has no row
    drow,       \* version_dependencies: an edge's rowid, likewise
    pruned,     \* (history) versions that cache prune took, not stored since
    runs,       \* index_runs: rows inserted so far, the last one's id
    lastId,     \* last_insert_rowid of the run's connection
    pc,         \* where RunIndex is
    at,         \* the walk's position in Order
    force,      \* opts.Force
    mtime,      \* info.ModTime().Unix() of the current entry
    read,       \* the content parsed for the current entry
    mid,        \* m.ID, the manifest id the links are written under
    todo,       \* packages, then edge parents, then edges left to insert
    walked,     \* currentPaths
    clean,      \* res.Errors = 0
    ended,      \* how the last run ended
    quiet,      \* (history) nothing changed on disk since the run started
    gone        \* (history) paths that were not readable during the run

tables  == <<rows, nextId, links, projects, vrow, drow, pruned, runs>>
disk    == <<files, edits>>
process == <<lastId, pc, at, force, mtime, read, mid, todo, walked, clean, ended>>
history == <<quiet, gone>>
vars    == <<disk, tables, process, history>>

NoRow   == [id |-> 0, mtime |-> 0]
Ids     == {rows[p].id : p \in Paths} \ {0}
Indexed == {p \in Paths : rows[p] # NoRow}
Path    == Order[at]

versions == {p \in Pkgs : vrow[p] # 0}
deps     == {e \in Pkgs \X Pkgs : drow[e] # 0}

TypeOK ==
    /\ files \in [Paths -> [state : {"file", "absent", "hidden"},
                            mtime : 1..MaxEdits + 1, content : Contents]]
    /\ edits \in 0..MaxEdits
    /\ rows \in [Paths -> [id : Nat, mtime : 0..MaxEdits + 1]]
    /\ nextId \in Nat \ {0}
    /\ links \subseteq [row : Nat \ {0}, manifest : Nat \ {0}, pkg : Pkgs]
    /\ \A p, q \in Indexed : rows[p].id = rows[q].id => p = q
    /\ \A k, l \in links : k.row = l.row \/ <<k.manifest, k.pkg>> = <<l.manifest, l.pkg>> => k = l
    /\ projects \subseteq Projects
    /\ vrow \in [Pkgs -> Nat] /\ \A p, q \in versions : vrow[p] = vrow[q] => p = q
    /\ drow \in [Pkgs \X Pkgs -> Nat] /\ \A d, e \in deps : drow[d] = drow[e] => d = e
    /\ runs \in 0..MaxRuns /\ lastId \in Nat /\ mid \in Nat
    /\ pc \in {"idle", "walk", "read", "clear", "add", "parents", "edges", "prune", "finish"}
    /\ at \in 1..Len(Order) + 1
    /\ mtime \in 0..MaxEdits + 1 /\ read \in Contents
    /\ todo \subseteq Pkgs \union (Pkgs \X Pkgs)
    /\ walked \subseteq Paths /\ gone \subseteq Paths /\ pruned \subseteq Pkgs \ versions
    /\ {force, clean, quiet} \subseteq BOOLEAN
    /\ ended \in {"never", "complete", "cut"}

Init ==
    /\ files \in [Paths -> [state : {"file", "absent", "hidden"}, mtime : {1}, content : Contents]]
    /\ edits = 0
    /\ rows = [p \in Paths |-> NoRow] /\ nextId = 1
    /\ links = {} /\ projects = {}
    /\ vrow = [p \in Pkgs |-> 0] /\ drow = [e \in Pkgs \X Pkgs |-> 0]
    /\ runs = 0 /\ lastId = 0 /\ mid = 0
    /\ pc = "idle" /\ at = 1 /\ force = FALSE
    /\ mtime = 0 /\ read = (CHOOSE c \in Contents : TRUE) /\ todo = {} /\ walked = {}
    /\ clean = TRUE /\ ended = "never" /\ quiet = TRUE /\ gone = {} /\ pruned = {}

-----------------------------------------------------------------------------
(* The user: a change is to a manifest or to its lockfile (which RunIndex  *)
(* reads as a companion and whose mtime it never looks at), the making or  *)
(* the removal of one, or of the permissions of its directory.             *)
Change(p, state, content, moved) ==
    /\ edits < MaxEdits
    /\ <<state, content>> # <<files[p].state, files[p].content>>
    /\ edits' = edits + 1
    /\ files' = [files EXCEPT ![p] =
           [state |-> state, content |-> content,
            mtime |-> IF moved THEN edits + 2 ELSE @.mtime]]
    /\ quiet' = FALSE
    /\ gone' = IF state = "file" THEN gone ELSE gone \union {p}
    /\ UNCHANGED <<tables, process>>

Edit(p) ==
    /\ files[p].state = "file"
    /\ \E c \in Contents, moved \in {TRUE, ~MtimeKept} : Change(p, "file", c, moved)

Appear(p) ==
    /\ files[p].state = "absent"
    /\ \E c \in Contents : Change(p, "file", c, TRUE)

Remove(p) == files[p].state = "file" /\ Change(p, "absent", files[p].content, FALSE)
Hide(p)   == files[p].state = "file" /\ Change(p, "hidden", files[p].content, FALSE)
Unhide(p) == files[p].state = "hidden" /\ Change(p, "file", files[p].content, FALSE)

-----------------------------------------------------------------------------
(* StartIndexRun: its INSERT is the connection's first, so the run's id is *)
(* what last_insert_rowid answers until the next row is inserted.          *)
Start ==
    /\ pc = "idle" /\ runs < MaxRuns
    /\ runs' = runs + 1
    /\ lastId' = runs + 1
    /\ pc' = "walk" /\ at' = 1 /\ walked' = {} /\ clean' = TRUE
    /\ force' \in BOOLEAN
    /\ ended' = "cut"
    /\ quiet' = TRUE
    /\ gone' = {p \in Paths : files[p].state # "file"}
    /\ UNCHANGED <<disk, rows, nextId, links, projects, vrow, drow, pruned, mtime, read, mid, todo>>

Stop(how) ==
    /\ pc' = "idle"
    /\ ended' = how
    /\ UNCHANGED <<disk, tables, lastId, at, force, mtime, read, mid, todo, walked, clean, history>>

\* ctx.Done() at a walk entry ends WalkDir, and RunIndex, with an error.
Cancel_Prunes ==
    /\ Killed /\ pc = "walk"
    /\ pc' = "prune"
    /\ UNCHANGED <<disk, tables, lastId, at, force, mtime, read, mid, todo, walked, clean, ended, history>>
Cancel == Killed /\ pc = "walk" /\ Stop("cut")

Kill == Killed /\ pc # "idle" /\ Stop("cut")

-----------------------------------------------------------------------------
(* One entry of the walk.  NextEntry ends the callback for the current one. *)
NextEntry(ok) ==
    /\ at' = at + 1
    /\ pc' = "walk"
    /\ clean' = (clean /\ ok)

\* Nothing is there, or it is under a directory that cannot be read.
PassOver ==
    /\ pc = "walk" /\ at <= Len(Order)
    /\ files[Path].state # "file"
    /\ NextEntry(TRUE)
    /\ UNCHANGED <<disk, tables, lastId, force, mtime, read, mid, todo, walked, ended, history>>

Unchanged == ~force /\ rows[Path] # NoRow /\ rows[Path].mtime = files[Path].mtime

Skip ==
    /\ pc = "walk" /\ at <= Len(Order)
    /\ files[Path].state = "file"
    /\ Unchanged
    /\ walked' = walked \union {Path}
    /\ NextEntry(TRUE)
    /\ UNCHANGED <<disk, tables, lastId, force, mtime, read, mid, todo, ended, history>>

\* The mtime is taken before the content is read.  (A file that goes away
\* before d.Info() counts as an error, as one that goes before ReadFile.)
Look ==
    /\ pc = "walk" /\ at <= Len(Order)
    /\ files[Path].state = "file"
    /\ ~Unchanged \/ DbFails
    /\ walked' = walked \union {Path}
    /\ mtime' = files[Path].mtime
    /\ pc' = "read"
    /\ UNCHANGED <<disk, tables, lastId, at, force, read, mid, todo, clean, ended, history>>

\* os.ReadFile fails, or the upsert or the clearing does.
GiveUp ==
    /\ \/ pc = "read" /\ (files[Path].state # "file" \/ DbFails)
       \/ pc = "clear" /\ DbFails
    /\ NextEntry(FALSE)
    /\ UNCHANGED <<disk, tables, lastId, force, mtime, read, mid, todo, walked, ended, history>>

\* What UpsertIndexManifest leaves in the current path's row.
Stored_NoMtime(id) == [id |-> id, mtime |-> IF rows[Path] = NoRow THEN mtime ELSE rows[Path].mtime]
Stored_RunId(id) == [id |-> runs, mtime |-> mtime]
Stored(id) == [id |-> id, mtime |-> mtime]

\* What LastInsertId answers after it.
LastInsertId_Late(new) == lastId
LastInsertId(new) == IF new THEN nextId ELSE lastId

\* UpsertIndexManifest.  An INSERT takes the next id; an UPDATE inserts no
\* row, so LastInsertId still answers the id of the connection's last
\* INSERT, which is never 0, and m.ID becomes that.
Upsert ==
    LET new == rows[Path] = NoRow IN
    /\ pc = "read" /\ files[Path].state = "file"
    /\ read' = files[Path].content
    /\ rows' = [rows EXCEPT ![Path] = Stored(IF new THEN nextId ELSE @.id)]
    /\ nextId' = IF new THEN nextId + 1 ELSE nextId
    /\ lastId' = LastInsertId(new)
    /\ mid' = lastId'
    /\ pc' = "clear"
    /\ UNCHANGED <<disk, links, projects, vrow, drow, pruned, runs, at, force,
                   mtime, todo, walked, clean, ended, history>>

\* ClearManifestPackages(m.ID)
Clear ==
    /\ pc = "clear"
    /\ links' = {l \in links : l.manifest # mid}
    /\ todo' = PkgsOf[read]
    /\ pc' = "add"
    /\ UNCHANGED <<disk, rows, nextId, projects, vrow, drow, pruned, runs, lastId, at,
                   force, mtime, read, mid, walked, clean, ended, history>>

-----------------------------------------------------------------------------
(* Rows of tables without a key of their own number get the rowid above    *)
(* the greatest in use.  (Rows of projects are never deleted.)             *)
NextRow(used) == 1 + (CHOOSE r \in used \union {0} : \A u \in used : u <= r)

LinkRow    == NextRow({l.row : l \in links})
VersionRow == NextRow({vrow[p] : p \in versions})
DepRow     == NextRow({drow[e] : e \in deps})

\* UpsertProject, UpsertVersion: an update inserts nothing.
LastId(pkg, upto) ==
    IF upto # "project" /\ pkg \notin versions THEN VersionRow
    ELSE IF ProjectOf[pkg] \notin projects THEN Cardinality(projects) + 1
    ELSE lastId

\* UpsertVersion stores a version, or renews the row it has.
StoreVersion(pkg) ==
    /\ vrow' = IF pkg \in versions THEN vrow ELSE [vrow EXCEPT ![pkg] = VersionRow]
    /\ pruned' = pruned \ {pkg}

\* An error of an upsert ends the work on the package: "upto" is the last
\* of its three writes that succeeds.  A link to an id no manifest has breaks
\* the foreign key, which OR IGNORE does not excuse.
Linked_Anyway(upto) == mid \in Ids
Linked(upto) == upto = "link" /\ mid \in Ids

\* UpsertProject, UpsertVersion and AddManifestPackage of one package.
AddPackage(pkg, upto) ==
    LET insert == Linked(upto) /\ ~ \E l \in links : l.manifest = mid /\ l.pkg = pkg IN
    /\ pc = "add" /\ pkg \in todo
    /\ upto # "link" => DbFails
    /\ todo' = todo \ {pkg}
    /\ projects' = IF upto = "none" THEN projects ELSE projects \union {ProjectOf[pkg]}
    /\ IF upto \in {"version", "link"} THEN StoreVersion(pkg) ELSE UNCHANGED <<vrow, pruned>>
    /\ links' = IF insert THEN links \union {[row |-> LinkRow, manifest |-> mid, pkg |-> pkg]}
                ELSE links
    /\ lastId' = IF upto = "none" THEN lastId
                 ELSE IF insert THEN LinkRow ELSE LastId(pkg, upto)
    /\ clean' = (clean /\ Linked(upto))
    /\ UNCHANGED <<disk, rows, nextId, drow, runs, pc, at, force, mtime, read, mid,
                   walked, ended, history>>

\* extractDependencyEdges opens the lockfile again, so it may find in it
\* what the manifest's packages were not parsed from.
Reread ==
    /\ pc = "add" /\ todo = {}
    /\ read' = IF files[Path].state = "file" THEN files[Path].content ELSE read
    /\ todo' = IF files[Path].state = "file" THEN {e[1] : e \in EdgesOf[read']} ELSE {}
    /\ pc' = IF todo' = {} THEN "edges" ELSE "parents"
    /\ UNCHANGED <<disk, tables, lastId, at, force, mtime, mid, walked, clean, ended, history>>

\* The projects and versions the edges start at; errors are ignored.
AddParent(pkg, upto) ==
    /\ pc = "parents" /\ pkg \in todo
    /\ upto # "version" => DbFails
    /\ projects' = IF upto = "none" THEN projects ELSE projects \union {ProjectOf[pkg]}
    /\ IF upto = "version" THEN StoreVersion(pkg) ELSE UNCHANGED <<vrow, pruned>>
    /\ lastId' = IF upto = "none" THEN lastId ELSE LastId(pkg, upto)
    /\ todo' = IF todo = {pkg} THEN EdgesOf[read] ELSE todo \ {pkg}
    /\ pc' = IF todo = {pkg} THEN "edges" ELSE pc
    /\ UNCHANGED <<disk, rows, nextId, links, drow, runs, at, force, mtime, read, mid,
                   walked, clean, ended, history>>

\* AddVersionDependency: the parent's version is a foreign key.
Stands_Unchecked(e) == TRUE
Stands(e) == e[1] \in versions

AddEdge(e, ok) ==
    LET insert == ok /\ Stands(e) /\ e \notin deps IN
    /\ pc = "edges" /\ e \in todo
    /\ ~ok => DbFails
    /\ drow' = IF insert THEN [drow EXCEPT ![e] = DepRow] ELSE drow
    /\ lastId' = IF insert THEN DepRow ELSE lastId
    /\ clean' = (clean /\ ok /\ Stands(e))
    /\ todo' = todo \ {e}
    /\ UNCHANGED <<disk, rows, nextId, links, projects, vrow, pruned, runs, pc, at,
                   force, mtime, read, mid, walked, ended, history>>

EntryDone ==
    /\ pc = "edges" /\ todo = {}
    /\ NextEntry(TRUE)
    /\ UNCHANGED <<disk, tables, lastId, force, mtime, read, mid, todo, walked, ended, history>>

-----------------------------------------------------------------------------
EndWalk ==
    /\ pc = "walk" /\ at = Len(Order) + 1
    /\ pc' = "prune"
    /\ UNCHANGED <<disk, tables, lastId, at, force, mtime, read, mid, todo, walked, clean,
                   ended, history>>

\* PruneDeletedManifests: the manifests the walk did not meet ...
Stale_None == {}
Stale == Indexed \ walked

\* ... with the links that ON DELETE CASCADE takes along.
Orphaned_Kept(p) == {}
Orphaned(p) == {l \in links : l.manifest = rows[p].id}

PruneOne(p) ==
    /\ pc = "prune" /\ p \in Stale
    /\ rows' = [rows EXCEPT ![p] = NoRow]
    /\ links' = links \ Orphaned(p)
    /\ UNCHANGED <<disk, nextId, projects, vrow, drow, pruned, runs, process, history>>

\* All are deleted, or listing or deleting them fails, which is counted.
EndPrune ==
    /\ pc = "prune"
    /\ Stale = {} \/ DbFails
    /\ pc' = "finish"
    /\ clean' = (clean /\ Stale = {})
    /\ UNCHANGED <<disk, tables, lastId, at, force, mtime, read, mid, todo, walked, ended, history>>

\* FinishIndexRun, which may fail too: the run is then never marked finished.
Finish ==
    /\ pc = "finish"
    /\ \E how \in {"complete"} \union {h \in {"cut"} : DbFails} : Stop(how)

Run == \/ Start \/ Cancel \/ Kill \/ PassOver \/ Skip \/ Look \/ GiveUp \/ Upsert \/ Clear
       \/ \E pkg \in Pkgs, upto \in {"none", "project", "version", "link"} : AddPackage(pkg, upto)
       \/ Reread
       \/ \E pkg \in Pkgs, upto \in {"none", "project", "version"} : AddParent(pkg, upto)
       \/ \E e \in Pkgs \X Pkgs, ok \in BOOLEAN : AddEdge(e, ok)
       \/ EntryDone \/ EndWalk
       \/ \E p \in Paths : PruneOne(p)
       \/ EndPrune \/ Finish

-----------------------------------------------------------------------------
\* `depscope cache prune', in one transaction: the versions no command has
\* used for the time given, which any may be, with the edges that start at
\* them.  The links of the manifests stay, and so do the rowids of what is
\* left, VACUUM or not, because every table has a key of its own.
CachePrune(taken) ==
    /\ taken # {}
    /\ vrow' = [p \in Pkgs |-> IF p \in taken THEN 0 ELSE vrow[p]]
    /\ drow' = [e \in Pkgs \X Pkgs |-> IF e[1] \in taken THEN 0 ELSE drow[e]]
    /\ pruned' = pruned \union taken
    /\ UNCHANGED <<disk, rows, nextId, links, projects, runs, process, history>>

User == \E p \in Paths : Edit(p) \/ Appear(p) \/ Remove(p) \/ Hide(p) \/ Unhide(p)

Next == Run \/ User \/ \E taken \in SUBSET versions : CachePrune(taken)

Spec == Init /\ [][Next]_vars

-----------------------------------------------------------------------------
(* A link's manifest has a row, and an edge's parent a version: no error,  *)
(* kill, deletion of a manifest or pruning of the cache leaves a           *)
(* manifest_packages or version_dependencies row dangling.                 *)
ForeignKeys ==
    /\ \A l \in links : l.manifest \in Ids
    /\ \A e \in deps : e[1] \in versions

(* The schema ties no link to project_versions.  Yet every package linked  *)
(* to a manifest has its project stored, and its version too unless cache  *)
(* prune has taken that since it was last written, whichever writes of     *)
(* RunIndex fail.                                                          *)
VersionBehindLink ==
    \A l \in links : ProjectOf[l.pkg] \in projects /\ l.pkg \in versions \union pruned

(* A manifest that could be read during the whole of a run is not pruned   *)
(* by it, even when the run is cancelled in the middle of the walk.        *)
PruneSafe ==
    [][\A p \in Indexed : rows'[p] = NoRow => p \in gone]_vars

(* After a run that ended without an error, over a tree nobody touched     *)
(* meanwhile, the manifests in the index are those on disk, stored with    *)
(* the mtimes they have there.                                             *)
IndexMatchesTree ==
    ended = "complete" /\ pc = "idle" /\ clean /\ quiet =>
        \A p \in Paths : IF files[p].state = "file" THEN rows[p] # NoRow /\ rows[p].mtime = files[p].mtime
                         ELSE rows[p] = NoRow

Exact(p) ==
    {l.pkg : l \in {k \in links : k.manifest = rows[p].id}} =
        IF files[p].state = "file" THEN PkgsOf[files[p].content] ELSE {}

(* The first run on a new database, when it ends without an error and the  *)
(* tree stands still, links to each manifest the packages it declares.     *)
FirstRunExact ==
    runs = 1 /\ ended = "complete" /\ pc = "idle" /\ clean /\ quiet =>
        \A p \in Paths : Exact(p)

(* Every run does, once it ends without an error over a tree that stands   *)
(* still.  (design: 'If changed or new -> parse, upsert packages'.)        *)
RunIsExact ==
    ended = "complete" /\ pc = "idle" /\ clean /\ quiet => \A p \in Paths : Exact(p)
=============================================================================
