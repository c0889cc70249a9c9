----------------------------- MODULE IndexProofs -----------------------------
(***************************************************************************)
(* Proofs about the manifest indexer, for any tree, any packages, failing  *)
(* database calls, edits at any time and runs killed at any step: no row   *)
(* is left dangling, a linked package has its version and project, and a   *)
(* manifest that can be read is never pruned; the tables are well formed;  *)
(* after a clean run over a quiet tree the manifests stored are those on   *)
(* disk, with their mtimes; and the first run on a new database links to   *)
(* each the packages it declares.  Cache prune may run at any time.        *)
(*                                                                         *)
(* The first two are about the tables and rest on the ids of manifests: no *)
(* two share one, and AUTOINCREMENT never gives one again.  The third is   *)
(* about the walk: what lies behind it was met or could not be read.  That *)
(* the tables are well formed needs a fact about finite sets of numbers,   *)
(* which is proved by taking a smallest counterexample: a set of sets      *)
(* without a greatest number would have a minimal member.  The last two    *)
(* are about the entries behind the walk: what was stored for them still   *)
(* stands.                                                                 *)
(***************************************************************************)
EXTENDS Index, FiniteSetTheorems, TLAPS

Entry == {"read", "clear", "add", "parents", "edges"}

\* Types, as far as the proofs need them.
Typed ==
    /\ files \in [Paths -> [state : {"file", "absent", "hidden"},
                            mtime : Nat, content : Contents]]
    /\ edits \in Nat /\ mtime \in Nat
    /\ rows \in [Paths -> [id : Nat, mtime : Nat]]
    /\ nextId \in Nat \ {0}
    /\ at \in 1 .. Len(Order) + 1

\* The manifests in the table have ids of their own, all given out already.
KeysGiven ==
    /\ \A p \in Indexed : rows[p].id # 0 /\ rows[p].id < nextId
    /\ \A p, q \in Indexed : rows[p].id = rows[q].id => p = q

\* The rowids of versions and of edges: every row has one of its own.
RowsGiven ==
    /\ vrow \in [Pkgs -> Nat] /\ drow \in [Pkgs \X Pkgs -> Nat]
    /\ IsFiniteSet(versions) /\ IsFiniteSet(deps)
    /\ \A p, q \in versions : vrow[p] = vrow[q] => p = q
    /\ \A d, e \in deps : drow[d] = drow[e] => d = e
    /\ pruned \subseteq Pkgs \ versions

\* How far the walk has come.
WalkedSoFar ==
    /\ pc \in Entry => at <= Len(Order) /\ Path \in walked
    /\ pc \in {"prune", "finish"} => at = Len(Order) + 1
    /\ pc # "idle" =>
         /\ \A p \in Paths : files[p].state # "file" => p \in gone
         /\ \A i \in 1 .. at - 1 : Order[i] \in walked \union gone

Inv == Typed /\ KeysGiven /\ RowsGiven /\ WalkedSoFar /\ ForeignKeys /\ VersionBehindLink

-----------------------------------------------------------------------------
LEMMA OrderIsAWalk ==
    /\ Len(Order) \in Nat
    /\ \A i \in 1 .. Len(Order) : Order[i] \in Paths
    /\ \A p \in Paths : \E i \in 1 .. Len(Order) : Order[i] = p
  BY IndexAssumption

\* The id of a manifest in the table is in Ids, and 0 is not.
LEMMA IdsOfIndexed ==
    ASSUME Typed, KeysGiven
    PROVE  \A k : k \in Ids <=> \E p \in Indexed : rows[p].id = k
  <1>1. \A p \in Paths : rows[p].id # 0 <=> rows[p] # NoRow
    BY DEF Typed, KeysGiven, Indexed, NoRow
  <1> QED
    BY <1>1 DEF Ids, Indexed

LEMMA RowsStay ==
    ASSUME UNCHANGED <<vrow, drow, pruned>>
    PROVE  versions' = versions /\ deps' = deps /\ (RowsGiven => RowsGiven')
  <1>1. versions' = versions /\ deps' = deps
    BY DEF versions, deps
  <1> QED
    BY <1>1 DEF RowsGiven

\* Where no table changes, what holds of the tables does not.
TablesRest == UNCHANGED <<rows, nextId, links, projects, vrow, drow, pruned>>

LEMMA TablesStay ==
    ASSUME Inv, TablesRest
    PROVE  KeysGiven' /\ RowsGiven' /\ ForeignKeys' /\ VersionBehindLink'
  <1>1. RowsGiven' /\ versions' = versions /\ deps' = deps
    BY RowsStay DEF Inv, TablesRest
  <1> QED
    BY <1>1 DEF Inv, TablesRest, KeysGiven, ForeignKeys, VersionBehindLink, Ids, Indexed

-----------------------------------------------------------------------------
(* The user and the walk *)

\* gone hears of whatever cannot be read any more.
LEMMA UserKeeps ==
    ASSUME Inv, User
    PROVE  Inv'
  <1>1. PICK p \in Paths, state \in {"file", "absent", "hidden"}, content \in Contents,
             moved \in {TRUE, FALSE, ~MtimeKept} : Change(p, state, content, moved)
    <2>1. PICK p \in Paths : Edit(p) \/ Appear(p) \/ Remove(p) \/ Hide(p) \/ Unhide(p)
      BY DEF User
    <2>2. files[p].content \in Contents
      BY DEF Inv, Typed
    <2>3. CASE Edit(p) \/ Appear(p)
      BY <2>3 DEF Edit, Appear
    <2>4. CASE Remove(p) \/ Hide(p) \/ Unhide(p)
      BY <2>2, <2>4 DEF Remove, Hide, Unhide
    <2> QED
      BY <2>1, <2>3, <2>4
  <1>2. TablesRest /\ UNCHANGED <<pc, at, walked, mtime>>
    BY <1>1 DEF Change, tables, process, TablesRest
  <1>3. Typed'
    BY <1>1, <1>2 DEF Inv, Typed, Change, TablesRest
  <1>4. WalkedSoFar'
    <2>1. \A q \in Paths : files'[q].state # "file" => q \in gone' \/ files[q].state # "file"
      BY <1>1 DEF Change, Inv, Typed
    <2>2. gone \subseteq gone'
      BY <1>1 DEF Change
    <2> QED
      BY <1>2, <2>1, <2>2 DEF Inv, WalkedSoFar, Path, Entry
  <1> QED
    BY <1>2, <1>3, <1>4, TablesStay DEF Inv

\* The callback for one entry ends after it was met or passed over.
LEMMA NextEntryKeeps ==
    ASSUME Inv, NEW ok, NextEntry(ok), TablesRest, UNCHANGED <<files, edits, mtime, gone>>,
           pc # "idle", at <= Len(Order), walked \subseteq walked',
           Path \in walked' \union gone
    PROVE  Inv'
  <1>1. at' = at + 1 /\ pc' = "walk"
    BY DEF NextEntry
  <1>2. Typed'
    BY <1>1, OrderIsAWalk DEF Inv, Typed, TablesRest
  <1>3. WalkedSoFar'
    BY <1>1, OrderIsAWalk DEF Inv, Typed, WalkedSoFar, Path, Entry
  <1> QED
    BY <1>2, <1>3, TablesStay DEF Inv

LEMMA WalkKeeps ==
    ASSUME Inv, PassOver \/ Skip \/ GiveUp \/ EntryDone
    PROVE  Inv'
  <1>1. TablesRest /\ UNCHANGED <<files, edits, mtime, gone>> /\ walked \subseteq walked'
    BY DEF PassOver, Skip, GiveUp, EntryDone, TablesRest, tables, disk, history
  <1>2. pc # "idle" /\ at <= Len(Order) /\ \E ok : NextEntry(ok)
    BY DEF PassOver, Skip, GiveUp, EntryDone, Inv, WalkedSoFar, Entry
  <1>3. Path \in Paths
    BY <1>2, OrderIsAWalk DEF Inv, Typed, Path
  <1>4. Path \in walked' \union gone
    BY <1>2, <1>3 DEF PassOver, Skip, GiveUp, EntryDone, Inv, WalkedSoFar, Entry
  <1> QED
    BY <1>1, <1>2, <1>4, NextEntryKeeps

\* The steps that write to no table and end no entry.
LEMMA ControlKeeps ==
    ASSUME Inv, Start \/ Cancel \/ Kill \/ Look \/ Reread \/ EndWalk \/ EndPrune \/ Finish
    PROVE  Inv'
  <1>1. TablesRest /\ UNCHANGED <<files, edits>>
    BY DEF Start, Cancel, Kill, Look, Reread, EndWalk, EndPrune, Finish, Stop,
           TablesRest, tables, disk
  <1>2. Typed'
    BY <1>1, OrderIsAWalk
    DEF Start, Cancel, Kill, Look, Reread, EndWalk, EndPrune, Finish, Stop,
        Inv, Typed, TablesRest, Path
  <1>3. WalkedSoFar'
    <2>1. CASE Start
      BY <1>1, <2>1 DEF Start, WalkedSoFar, Entry
    <2>2. CASE Cancel \/ Kill \/ Finish
      BY <2>2 DEF Cancel, Kill, Finish, Stop, WalkedSoFar, Entry
    <2>3. CASE Look
      BY <1>1, <2>3 DEF Look, Inv, WalkedSoFar, Entry, Path, history
    <2>4. CASE Reread
      BY <1>1, <2>4 DEF Reread, Inv, WalkedSoFar, Entry, Path, history
    <2>5. CASE EndWalk \/ EndPrune
      BY <1>1, <2>5 DEF EndWalk, EndPrune, Inv, WalkedSoFar, Entry, history
    <2> QED
      BY <2>1, <2>2, <2>3, <2>4, <2>5
  <1> QED
    BY <1>1, <1>2, <1>3, TablesStay DEF Inv

-----------------------------------------------------------------------------
(* A finite set of numbers has a greatest one *)

HasGreatest(S) == \E m \in S : \A n \in S : n <= m

LEMMA FiniteHasGreatest ==
    ASSUME NEW S \in SUBSET Nat, IsFiniteSet(S), S # {}
    PROVE  HasGreatest(S)
  <1> DEFINE Bad == {T \in SUBSET S : T # {} /\ ~HasGreatest(T)}
  <1>1. SUFFICES ASSUME Bad # {} PROVE FALSE
    BY DEF Bad
  <1>2. FiniteSubsetsOf(S) = SUBSET S
    BY FS_FiniteSubsetsOfFinite
  <1>3. IsWellFoundedOn(StrictSubsetOrdering(S), SUBSET S)
    BY <1>2, FS_StrictSubsetOrderingWellFounded
  <1>4. Bad \subseteq SUBSET S
    OBVIOUS
  <1>5. \E T \in Bad : \A U \in Bad : ~(<<U, T>> \in StrictSubsetOrdering(S))
    <2> HIDE DEF Bad
    <2> QED
      BY <1>1, <1>3, <1>4, WFMin
  <1>6. PICK T \in Bad : \A U \in Bad : ~(<<U, T>> \in StrictSubsetOrdering(S))
    BY <1>5
  <1>7. T \subseteq Nat /\ T # {} /\ ~HasGreatest(T)
    OBVIOUS
  <1>8. PICK x \in T : TRUE
    BY <1>7
  <1>9. T \ {x} \notin Bad
    <2>1. <<T \ {x}, T>> \in StrictSubsetOrdering(S)
      BY <1>6, <1>8 DEF StrictSubsetOrdering
    <2> QED
      BY <1>6, <2>1
  <1>10. T \ {x} # {}
    BY <1>7, <1>8 DEF HasGreatest
  <1>11. PICK m \in T \ {x} : \A n \in T \ {x} : n <= m
    BY <1>9, <1>10 DEF HasGreatest
  <1>12. CASE x <= m
    BY <1>7, <1>11, <1>12 DEF HasGreatest
  <1>13. CASE m <= x
    <2>1. \A n \in T : n <= x
      BY <1>7, <1>8, <1>11, <1>13
    <2> QED
      BY <1>7, <1>8, <2>1 DEF HasGreatest
  <1> QED
    BY <1>7, <1>8, <1>11, <1>12, <1>13

\* The next rowid is a number above all in use.
LEMMA NextRowIsNew ==
    ASSUME NEW used \in SUBSET Nat, IsFiniteSet(used)
    PROVE  NextRow(used) \in Nat \ {0} /\ \A u \in used : u < NextRow(used)
  <1>1. used \union {0} \in SUBSET Nat /\ IsFiniteSet(used \union {0}) /\ used \union {0} # {}
    BY FS_AddElement
  <1>2. \E r \in used \union {0} : \A u \in used : u <= r
    BY <1>1, FiniteHasGreatest DEF HasGreatest
  <1> DEFINE top == CHOOSE r \in used \union {0} : \A u \in used : u <= r
  <1>3. top \in used \union {0} /\ \A u \in used : u <= top
    BY <1>2
  <1>4. NextRow(used) = 1 + top
    BY DEF NextRow
  <1> HIDE DEF top
  <1> QED
    BY <1>1, <1>3, <1>4


LEMMA VersionRowIsNew ==
    ASSUME RowsGiven
    PROVE  VersionRow \in Nat \ {0} /\ \A p \in versions : vrow[p] < VersionRow
  <1> DEFINE used == {vrow[p] : p \in versions}
  <1>1. used \in SUBSET Nat /\ IsFiniteSet(used)
    <2>1. versions \subseteq Pkgs
      BY DEF versions
    <2>2. used = {[p \in versions |-> vrow[p]][k] : k \in versions}
      OBVIOUS
    <2>3. [p \in versions |-> vrow[p]] \in Surjection(versions, used)
      BY DEF Surjection
    <2> QED
      BY <2>1, <2>3, FS_Surjection DEF RowsGiven
  <1>2. VersionRow = NextRow(used) /\ \A p \in versions : vrow[p] \in used
    BY DEF VersionRow
  <1> HIDE DEF used
  <1> QED
    BY <1>1, <1>2, NextRowIsNew

LEMMA DepRowIsNew ==
    ASSUME RowsGiven
    PROVE  DepRow \in Nat \ {0} /\ \A e \in deps : drow[e] < DepRow
  <1> DEFINE used == {drow[e] : e \in deps}
  <1>1. used \in SUBSET Nat /\ IsFiniteSet(used)
    <2>1. deps \subseteq Pkgs \X Pkgs
      BY DEF deps
    <2>2. used = {[e \in deps |-> drow[e]][k] : k \in deps}
      OBVIOUS
    <2>3. [e \in deps |-> drow[e]] \in Surjection(deps, used)
      BY DEF Surjection
    <2> QED
      BY <2>1, <2>3, FS_Surjection DEF RowsGiven
  <1>2. DepRow = NextRow(used) /\ \A e \in deps : drow[e] \in used
    BY DEF DepRow
  <1> HIDE DEF used
  <1> QED
    BY <1>1, <1>2, NextRowIsNew

\* A version stored is in the table, under a rowid of its own.
LEMMA StoreVersionKeeps ==
    ASSUME RowsGiven, NEW pkg \in Pkgs, StoreVersion(pkg), drow' = drow
    PROVE  RowsGiven' /\ versions' = versions \union {pkg} /\ deps' = deps
  <1>1. deps' = deps
    BY DEF deps
  <1>2. pruned' = pruned \ {pkg}
    BY DEF StoreVersion
  <1>3. CASE pkg \in versions
    <2>1. vrow' = vrow /\ versions' = versions
      BY <1>3 DEF StoreVersion, versions
    <2> QED
      BY <1>1, <1>2, <1>3, <2>1 DEF RowsGiven
  <1>4. CASE pkg \notin versions
    <2>1. vrow' = [vrow EXCEPT ![pkg] = VersionRow]
      BY <1>4 DEF StoreVersion
    <2>2. VersionRow \in Nat \ {0} /\ \A p \in versions : vrow[p] < VersionRow
      BY VersionRowIsNew
    <2>3. vrow' \in [Pkgs -> Nat] /\ vrow'[pkg] = VersionRow
            /\ \A p \in Pkgs \ {pkg} : vrow'[p] = vrow[p]
      BY <2>1, <2>2 DEF RowsGiven
    <2>4. versions' = versions \union {pkg}
      BY <2>2, <2>3 DEF versions
    <2>5. IsFiniteSet(versions')
      BY <2>4, FS_AddElement DEF RowsGiven
    <2>6. \A p \in versions : p \in Pkgs \ {pkg} /\ vrow[p] \in Nat /\ vrow[p] # VersionRow
      BY <1>4, <2>2 DEF versions, RowsGiven
    <2>7. \A p, q \in versions' : vrow'[p] = vrow'[q] => p = q
      BY <2>3, <2>4, <2>6 DEF RowsGiven
    <2> QED
      BY <1>1, <1>2, <2>3, <2>4, <2>5, <2>7 DEF RowsGiven
  <1> QED
    BY <1>3, <1>4

-----------------------------------------------------------------------------
(* The tables *)

\* A new manifest takes the next id, a known one keeps its own.
LEMMA UpsertKeeps ==
    ASSUME Inv, Upsert
    PROVE  Inv'
  <1>1. Typed /\ KeysGiven /\ ForeignKeys /\ at <= Len(Order) /\ Path \in Paths
    BY OrderIsAWalk DEF Inv, Upsert, Typed, WalkedSoFar, Entry, Path
  <1> DEFINE id == IF rows[Path] = NoRow THEN nextId ELSE rows[Path].id
  <1>2. /\ rows' = [rows EXCEPT ![Path] = [id |-> id, mtime |-> mtime]]
        /\ nextId' = IF rows[Path] = NoRow THEN nextId + 1 ELSE nextId
        /\ pc' = "clear"
        /\ UNCHANGED <<files, edits, mtime, at, walked, gone, links, projects, pruned, vrow, drow>>
        /\ RowsGiven' /\ versions' = versions /\ deps' = deps
    BY RowsStay DEF Inv, Upsert, Stored, disk, history
  <1>3. id \in Nat \ {0} /\ id < nextId'
    BY <1>1, <1>2 DEF Typed, KeysGiven, Indexed
  <1>4. \A p \in Paths \ {Path} : rows'[p] = rows[p]
    BY <1>1, <1>2 DEF Typed
  <1>5. rows'[Path].id = id /\ rows'[Path] # NoRow
    BY <1>1, <1>2, <1>3 DEF Typed, NoRow
  <1>6. Indexed' = Indexed \union {Path}
    BY <1>1, <1>4, <1>5 DEF Indexed
  <1>7. \A p \in Indexed \ {Path} : rows[p].id # id
    BY <1>1 DEF Typed, KeysGiven, Indexed
  <1> HIDE DEF id
  <1>8. Typed'
    BY <1>1, <1>2, <1>3 DEF Typed
  <1>9. KeysGiven'
    <2>1. \A p \in Indexed' : rows'[p].id # 0 /\ rows'[p].id < nextId'
      BY <1>1, <1>2, <1>3, <1>4, <1>5, <1>6 DEF KeysGiven, Typed, Indexed
    <2>2. \A p, q \in Indexed' : rows'[p].id = rows'[q].id => p = q
      BY <1>1, <1>4, <1>5, <1>6, <1>7 DEF KeysGiven, Indexed
    <2> QED
      BY <2>1, <2>2 DEF KeysGiven
  <1>10. ForeignKeys'
    <2>1. ASSUME NEW k \in Ids
          PROVE  k \in Ids'
      <3>1. PICK p \in Indexed : rows[p].id = k
        BY <1>1, IdsOfIndexed
      <3>2. p \in Indexed' /\ rows'[p].id = k
        BY <1>2, <1>4, <1>5, <1>6, <3>1 DEF Indexed, id
      <3> QED
        BY <1>8, <1>9, <3>2, IdsOfIndexed DEF Ids, Indexed, KeysGiven
    <2> QED
      BY <1>1, <1>2, <2>1 DEF ForeignKeys
  <1>11. WalkedSoFar'
    BY <1>2 DEF Inv, Upsert, WalkedSoFar, Entry, Path
  <1> QED
    BY <1>2, <1>8, <1>9, <1>10, <1>11 DEF Inv, VersionBehindLink

\* The writes of one entry that follow: the manifests stay.
LEMMA EntryKeeps ==
    ASSUME Inv, pc \in Entry, pc' \in Entry,
           UNCHANGED <<files, edits, mtime, at, walked, gone, rows, nextId>>,
           RowsGiven', ForeignKeys', VersionBehindLink'
    PROVE  Inv'
  BY DEF Inv, Typed, KeysGiven, Indexed, WalkedSoFar, Path, Entry

LEMMA ClearKeeps ==
    ASSUME Inv, Clear
    PROVE  Inv'
  <1>1. RowsGiven' /\ ForeignKeys' /\ VersionBehindLink'
    <2>1. RowsGiven' /\ versions' = versions /\ deps' = deps
      BY RowsStay DEF Inv, Clear
    <2> QED
      BY <2>1 DEF Inv, Clear, ForeignKeys, VersionBehindLink, Ids
  <1> QED
    BY <1>1, EntryKeeps DEF Clear, Entry, disk, history

\* The link is written last, after its version and its project, and only to a
\* manifest that is there.
LEMMA AddPackageKeeps ==
    ASSUME Inv, NEW pkg \in Pkgs, NEW upto \in {"none", "project", "version", "link"},
           AddPackage(pkg, upto)
    PROVE  Inv'
  <1>1. /\ projects \subseteq projects' /\ UNCHANGED <<rows, drow>>
        /\ upto = "link" => ProjectOf[pkg] \in projects' /\ StoreVersion(pkg)
        /\ StoreVersion(pkg) \/ UNCHANGED <<vrow, pruned>>
        /\ pruned \ pruned' \subseteq {pkg}
    BY DEF AddPackage, StoreVersion
  <1>2. /\ RowsGiven' /\ deps' = deps /\ versions \subseteq versions'
        /\ versions \union pruned \subseteq versions' \union pruned'
        /\ upto = "link" => pkg \in versions'
    <2>1. CASE StoreVersion(pkg)
      BY <1>1, <2>1, StoreVersionKeeps DEF Inv
    <2>2. CASE UNCHANGED <<vrow, pruned>> /\ ~StoreVersion(pkg)
      BY <1>1, <2>2, RowsStay DEF Inv
    <2> QED
      BY <1>1, <2>1, <2>2
  <1>3. ASSUME NEW l \in links', l \notin links
        PROVE  upto = "link" /\ l.pkg = pkg /\ l.manifest = mid /\ mid \in Ids
    BY <1>3 DEF AddPackage, Linked
  <1>4. ForeignKeys' /\ VersionBehindLink'
    BY <1>1, <1>2, <1>3 DEF Inv, ForeignKeys, VersionBehindLink, Ids
  <1> QED
    BY <1>2, <1>4, EntryKeeps DEF AddPackage, Entry, disk, history

LEMMA AddParentKeeps ==
    ASSUME Inv, NEW pkg \in Pkgs, NEW upto \in {"none", "project", "version"},
           AddParent(pkg, upto)
    PROVE  Inv'
  <1>1. /\ projects \subseteq projects' /\ UNCHANGED <<rows, links, drow>>
        /\ StoreVersion(pkg) \/ UNCHANGED <<vrow, pruned>>
        /\ pruned \ pruned' \subseteq {pkg}
    BY DEF AddParent, StoreVersion
  <1>2. /\ RowsGiven' /\ deps' = deps /\ versions \subseteq versions'
        /\ versions \union pruned \subseteq versions' \union pruned'
    <2>1. CASE StoreVersion(pkg)
      BY <1>1, <2>1, StoreVersionKeeps DEF Inv
    <2>2. CASE UNCHANGED <<vrow, pruned>>
      BY <1>1, <2>2, RowsStay DEF Inv
    <2> QED
      BY <1>1, <2>1, <2>2
  <1>3. ForeignKeys' /\ VersionBehindLink'
    BY <1>1, <1>2 DEF Inv, ForeignKeys, VersionBehindLink, Ids
  <1> QED
    BY <1>2, <1>3, EntryKeeps DEF AddParent, Entry, disk, history

\* An edge follows its parent's version.
LEMMA AddEdgeKeeps ==
    ASSUME Inv, NEW e \in Pkgs \X Pkgs, NEW ok \in BOOLEAN, AddEdge(e, ok)
    PROVE  Inv'
  <1>1. /\ UNCHANGED <<rows, links, projects, vrow, pruned>> /\ versions' = versions
        /\ \/ drow' = drow
           \/ drow' = [drow EXCEPT ![e] = DepRow] /\ e[1] \in versions /\ e \notin deps
    BY DEF AddEdge, Stands, versions
  <1>2. RowsGiven' /\ deps' \subseteq deps \union {e} /\ (e \in deps' => e \in deps \/ e[1] \in versions)
    <2>1. CASE drow' = drow
      BY <1>1, <2>1, RowsStay DEF Inv
    <2>2. CASE drow' = [drow EXCEPT ![e] = DepRow] /\ e[1] \in versions /\ e \notin deps
      <3>1. DepRow \in Nat \ {0} /\ \A d \in deps : drow[d] < DepRow
        BY DepRowIsNew DEF Inv
      <3>2. drow' \in [Pkgs \X Pkgs -> Nat] /\ drow'[e] = DepRow
              /\ \A d \in (Pkgs \X Pkgs) \ {e} : drow'[d] = drow[d]
        BY <2>2, <3>1 DEF Inv, RowsGiven
      <3>3. deps' = deps \union {e}
        BY <3>1, <3>2 DEF deps
      <3>4. IsFiniteSet(deps')
        BY <3>3, FS_AddElement DEF Inv, RowsGiven
      <3>5. \A d \in deps : d \in (Pkgs \X Pkgs) \ {e} /\ drow[d] \in Nat /\ drow[d] # DepRow
        BY <2>2, <3>1 DEF deps, Inv, RowsGiven
      <3>6. \A c, d \in deps' : drow'[c] = drow'[d] => c = d
        BY <3>2, <3>3, <3>5 DEF Inv, RowsGiven
      <3> QED
        BY <1>1, <2>2, <3>2, <3>3, <3>4, <3>6 DEF Inv, RowsGiven
    <2> QED
      BY <1>1, <2>1, <2>2
  <1>3. ForeignKeys' /\ VersionBehindLink'
    BY <1>1, <1>2 DEF Inv, ForeignKeys, VersionBehindLink, Ids
  <1> QED
    BY <1>2, <1>3, EntryKeeps DEF AddEdge, Entry, disk, history

\* ON DELETE CASCADE takes the links of the manifest along, and no others,
\* because no other manifest has its id.
LEMMA PruneKeeps ==
    ASSUME Inv, NEW p \in Paths, PruneOne(p)
    PROVE  Inv'
  <1>1. Typed /\ KeysGiven /\ ForeignKeys /\ p \in Indexed
    BY DEF Inv, PruneOne, Stale
  <1>2. /\ rows' = [rows EXCEPT ![p] = NoRow] /\ links' = links \ Orphaned(p)
        /\ UNCHANGED <<files, edits, mtime, at, walked, gone, pc, nextId, projects, pruned, vrow, drow>>
        /\ RowsGiven' /\ versions' = versions /\ deps' = deps
    BY RowsStay DEF Inv, PruneOne, disk, process, history
  <1>3. Indexed' = Indexed \ {p} /\ \A q \in Indexed' : rows'[q] = rows[q]
    BY <1>1, <1>2 DEF Typed, Indexed
  <1>4. Typed'
    BY <1>1, <1>2 DEF Typed, NoRow
  <1>5. KeysGiven'
    BY <1>1, <1>2, <1>3 DEF KeysGiven
  <1>6. ForeignKeys'
    <2>1. ASSUME NEW l \in links'
          PROVE  l.manifest \in Ids'
      <3>1. l \in links /\ l.manifest # rows[p].id
        BY <1>2 DEF Orphaned
      <3>2. PICK q \in Indexed : rows[q].id = l.manifest
        BY <1>1, <3>1, IdsOfIndexed DEF ForeignKeys
      <3>3. q \in Paths /\ rows'[q].id = l.manifest /\ l.manifest # 0
        BY <1>1, <1>3, <3>1, <3>2 DEF KeysGiven, Indexed
      <3> QED
        BY <3>3 DEF Ids
    <2> QED
      BY <1>1, <1>2, <2>1 DEF ForeignKeys
  <1>7. WalkedSoFar'
    BY <1>2 DEF Inv, WalkedSoFar, Path
  <1> QED
    BY <1>2, <1>4, <1>5, <1>6, <1>7 DEF Inv, VersionBehindLink

\* Cache prune takes the edges of the versions it takes, and remembers them.
LEMMA CachePruneRows ==
    ASSUME Inv, NEW taken \in SUBSET versions, CachePrune(taken)
    PROVE  /\ RowsGiven' /\ versions' = versions \ taken /\ pruned' = pruned \union taken
           /\ \A e \in deps' : e \in deps /\ e[1] \notin taken
  <1>1. /\ vrow' = [p \in Pkgs |-> IF p \in taken THEN 0 ELSE vrow[p]]
        /\ drow' = [e \in Pkgs \X Pkgs |-> IF e[1] \in taken THEN 0 ELSE drow[e]]
        /\ pruned' = pruned \union taken
    BY DEF CachePrune
  <1>2. RowsGiven /\ taken \subseteq Pkgs
    BY DEF Inv, versions
  <1>3. vrow' \in [Pkgs -> Nat] /\ drow' \in [Pkgs \X Pkgs -> Nat]
    BY <1>1, <1>2 DEF RowsGiven
  <1>4. versions' = versions \ taken /\ \A p \in versions' : vrow'[p] = vrow[p]
    BY <1>1, <1>2 DEF versions
  <1>5. \A e \in deps' : e \in deps /\ e[1] \notin taken /\ drow'[e] = drow[e]
    BY <1>1 DEF deps
  <1>6. IsFiniteSet(versions') /\ IsFiniteSet(deps')
    BY <1>2, <1>4, <1>5, FS_Subset DEF RowsGiven
  <1>7. \A p, q \in versions' : vrow'[p] = vrow'[q] => p = q
    BY <1>2, <1>4 DEF RowsGiven
  <1>8. \A d, e \in deps' : drow'[d] = drow'[e] => d = e
    BY <1>2, <1>5 DEF RowsGiven
  <1>9. pruned' \subseteq Pkgs \ versions'
    BY <1>1, <1>2, <1>4 DEF RowsGiven
  <1>10. RowsGiven'
    BY <1>3, <1>6, <1>7, <1>8, <1>9 DEF RowsGiven
  <1> QED
    BY <1>1, <1>4, <1>5, <1>10

LEMMA CachePruneKeeps ==
    ASSUME Inv, NEW taken \in SUBSET versions, CachePrune(taken)
    PROVE  Inv'
  <1>1. UNCHANGED <<files, edits, mtime, at, walked, gone, pc, rows, nextId, links, projects>>
    BY DEF CachePrune, disk, process, history
  <1>2. Typed' /\ KeysGiven' /\ WalkedSoFar'
    BY <1>1 DEF Inv, Typed, KeysGiven, Indexed, WalkedSoFar, Path
  <1>3. ForeignKeys' /\ VersionBehindLink'
    BY <1>1, CachePruneRows DEF Inv, ForeignKeys, VersionBehindLink, Ids
  <1> QED
    BY <1>2, <1>3, CachePruneRows DEF Inv

-----------------------------------------------------------------------------
(* The theorems *)

LEMMA InvInit == Init => Inv
  <1> SUFFICES ASSUME Init PROVE Inv
    OBVIOUS
  <1>1. Typed
    BY OrderIsAWalk DEF Init, Typed, NoRow
  <1>2. Indexed = {}
    BY DEF Init, Indexed
  <1>3. versions = {} /\ deps = {} /\ RowsGiven
    <2>1. versions = {} /\ deps = {}
      BY DEF Init, versions, deps
    <2> QED
      BY <2>1, FS_EmptySet DEF Init, RowsGiven
  <1> QED
    BY <1>1, <1>2, <1>3 DEF Init, Inv, KeysGiven, WalkedSoFar, Entry, ForeignKeys, VersionBehindLink

LEMMA InvNext == Inv /\ [Next]_vars => Inv'
  <1> SUFFICES ASSUME Inv, [Next]_vars PROVE Inv'
    OBVIOUS
  <1>1. CASE Run
    BY <1>1, ControlKeeps, WalkKeeps, UpsertKeeps, ClearKeeps, AddPackageKeeps,
       AddParentKeeps, AddEdgeKeeps, PruneKeeps DEF Run
  <1>2. CASE UNCHANGED vars
    <2>1. TablesRest /\ UNCHANGED <<files, edits, mtime, at, walked, gone, pc>>
      BY <1>2 DEF vars, disk, tables, process, history, TablesRest
    <2> QED
      BY <2>1, TablesStay DEF Inv, Typed, WalkedSoFar, Path, TablesRest
  <1> QED
    BY <1>1, <1>2, UserKeeps, CachePruneKeeps DEF Next

LEMMA InvHolds == Spec => []Inv
  BY InvInit, InvNext, PTL DEF Spec

\* No failing write, kill or pruning leaves a row of manifest_packages or of
\* version_dependencies without what it refers to.
THEOREM KeysStand == Spec => []ForeignKeys
  <1>1. Inv => ForeignKeys
    BY DEF Inv
  <1> QED
    BY InvHolds, <1>1, PTL

\* A package is linked to a manifest only once its version and its project
\* are stored, which no key of the schema asks for; the project stays, and the
\* version is missing only if cache prune took it after it was last written.
THEOREM LinkedAreStored == Spec => []VersionBehindLink
  <1>1. Inv => VersionBehindLink
    BY DEF Inv
  <1> QED
    BY InvHolds, <1>1, PTL

\* PruneDeletedManifests deletes no manifest that could be read all along:
\* the only step that empties a row comes after the whole of the walk.
THEOREM PruneIsSafe == Spec => PruneSafe
  <1>1. Inv /\ [Next]_vars =>
          [\A p \in Indexed : rows'[p] = NoRow => p \in gone]_vars
    <2> SUFFICES ASSUME Inv, Next, NEW p \in Indexed, rows'[p] = NoRow
                 PROVE  p \in gone
      OBVIOUS
    <2>1. Typed /\ p \in Paths /\ rows[p] # NoRow /\ rows[p].id # 0
      BY DEF Inv, Indexed, KeysGiven
    <2>2. CASE \E q \in Paths : PruneOne(q)
      <3>1. PICK q \in Paths : PruneOne(q)
        BY <2>2
      <3>2. p = q
        BY <2>1, <3>1 DEF PruneOne, Typed
      <3>3. p \notin walked /\ pc = "prune"
        BY <3>1, <3>2 DEF PruneOne, Stale
      <3>4. at = Len(Order) + 1 /\ \A i \in 1 .. at - 1 : Order[i] \in walked \union gone
        BY <3>3 DEF Inv, WalkedSoFar
      <3>5. PICK i \in 1 .. Len(Order) : Order[i] = p
        BY <2>1, OrderIsAWalk
      <3>6. i \in 1 .. at - 1
        BY <3>4, <3>5, OrderIsAWalk
      <3> QED
        BY <3>3, <3>4, <3>5, <3>6
    <2>3. CASE Upsert
      <3>1. rows'[p] = rows[p] \/ rows'[p].id \in {nextId, rows[p].id}
        BY <2>1, <2>3 DEF Upsert, Stored, Typed
      <3> QED
        BY <2>1, <3>1 DEF NoRow, Typed
    <2>4. CASE UNCHANGED rows
      BY <2>1, <2>4
    <2>5. (\E q \in Paths : PruneOne(q)) \/ Upsert \/ UNCHANGED rows
      BY DEF Next, Run, User, Edit, Appear, Remove, Hide, Unhide, Change,
             Start, Cancel, Kill, Stop, PassOver, Skip, Look, GiveUp, Clear, AddPackage,
             Reread, AddParent, AddEdge, EntryDone, EndWalk, EndPrune, Finish, tables, CachePrune
    <2> QED
      BY <2>2, <2>3, <2>4, <2>5
  <1> QED
    BY InvHolds, <1>1, PTL DEF Spec, PruneSafe

-----------------------------------------------------------------------------
(* The types, in four parts *)

DiskTyped ==
    /\ files \in [Paths -> [state : {"file", "absent", "hidden"},
                            mtime : 1..MaxEdits + 1, content : Contents]]
    /\ edits \in 0..MaxEdits

TablesTyped ==
    /\ rows \in [Paths -> [id : Nat, mtime : 0..MaxEdits + 1]]
    /\ nextId \in Nat \ {0}
    /\ links \subseteq [row : Nat \ {0}, manifest : Nat \ {0}, pkg : Pkgs]
    /\ \A k, l \in links : k.row = l.row \/ <<k.manifest, k.pkg>> = <<l.manifest, l.pkg>> => k = l
    /\ projects \subseteq Projects
    /\ runs \in 0..MaxRuns

ProcessTyped ==
    /\ lastId \in Nat /\ mid \in Nat
    /\ pc \in {"idle", "walk", "read", "clear", "add", "parents", "edges", "prune", "finish"}
    /\ at \in 1..Len(Order) + 1
    /\ mtime \in 0..MaxEdits + 1 /\ read \in Contents
    /\ todo \subseteq Pkgs \union (Pkgs \X Pkgs)
    /\ walked \subseteq Paths /\ gone \subseteq Paths
    /\ ended \in {"never", "complete", "cut"}

FlagsTyped == {force, clean, quiet} \subseteq BOOLEAN

\* Tables grow by a row at a time, so they stay finite and the next rowid is a
\* number.
FiniteTables == IsFiniteSet(links) /\ IsFiniteSet(projects)

TypeInv == DiskTyped /\ TablesTyped /\ ProcessTyped /\ FlagsTyped /\ FiniteTables

LEMMA TypesAreParts ==
    ASSUME KeysGiven, RowsGiven, TypeInv
    PROVE  TypeOK
  BY DEF KeysGiven, RowsGiven, TypeInv, DiskTyped, TablesTyped, ProcessTyped, FlagsTyped, TypeOK

LEMMA Assumed ==
    /\ MaxRuns \in Nat /\ MaxEdits \in Nat
    /\ ProjectOf \in [Pkgs -> Projects]
    /\ PkgsOf \in [Contents -> SUBSET Pkgs]
    /\ EdgesOf \in [Contents -> SUBSET (Pkgs \X Pkgs)]
    /\ Contents # {}
    /\ \A i, j \in 1..Len(Order) : Order[i] = Order[j] => i = j
  BY IndexAssumption

LEMMA LinkRowIsNew ==
    ASSUME TablesTyped, FiniteTables
    PROVE  LinkRow \in Nat \ {0} /\ \A l \in links : l.row < LinkRow
  <1> DEFINE used == {l.row : l \in links}
  <1>1. used \in SUBSET Nat /\ IsFiniteSet(used)
    <2>1. used = {[l \in links |-> l.row][k] : k \in links}
      OBVIOUS
    <2>2. [l \in links |-> l.row] \in Surjection(links, used)
      BY DEF Surjection
    <2> QED
      BY <2>2, FS_Surjection DEF TablesTyped, FiniteTables
  <1>2. LinkRow = NextRow(used) /\ \A l \in links : l.row \in used
    BY DEF LinkRow
  <1> HIDE DEF used
  <1> QED
    BY <1>1, <1>2, NextRowIsNew

LEMMA LastIdIsNumber ==
    ASSUME RowsGiven, TypeInv, NEW pkg, NEW upto
    PROVE  LastId(pkg, upto) \in Nat
  BY FS_CardinalityType, VersionRowIsNew DEF TypeInv, FiniteTables, ProcessTyped, LastId

LEMMA TypesInit == Init => TypeInv
  <1> SUFFICES ASSUME Init PROVE TypeInv
    OBVIOUS
  <1>1. DiskTyped
    BY Assumed DEF Init, DiskTyped
  <1>2. TablesTyped
    BY Assumed DEF Init, TablesTyped, NoRow
  <1>3. ProcessTyped
    <2>1. read \in Contents
      BY Assumed DEF Init
    <2> QED
      BY <2>1, Assumed, OrderIsAWalk DEF Init, ProcessTyped
  <1>4. FlagsTyped
    BY DEF Init, FlagsTyped
  <1>5. FiniteTables
    BY FS_EmptySet DEF Init, FiniteTables
  <1> QED
    BY <1>1, <1>2, <1>3, <1>4, <1>5 DEF TypeInv

\* The user: every change moves the clock on, and there are MaxEdits of them.
LEMMA UserTypes ==
    ASSUME TypeInv, User
    PROVE  TypeInv'
  <1>1. UNCHANGED <<tables, process>> /\ gone' \subseteq gone \union Paths /\ quiet' \in BOOLEAN
    BY DEF User, Edit, Appear, Remove, Hide, Unhide, Change
  <1>2. TablesTyped' /\ ProcessTyped' /\ FlagsTyped' /\ FiniteTables'
    BY <1>1 DEF TypeInv, TablesTyped, ProcessTyped, FlagsTyped, FiniteTables, tables, process
  <1>3. ASSUME NEW p \in Paths, NEW state \in {"file", "absent", "hidden"},
               NEW content \in Contents, NEW moved \in BOOLEAN, Change(p, state, content, moved)
        PROVE  DiskTyped'
    <2>1. files[p].mtime \in 1..MaxEdits + 1 /\ edits + 2 \in 1..MaxEdits + 1
            /\ edits + 1 \in 0..MaxEdits
      BY <1>3, Assumed DEF TypeInv, DiskTyped, Change
    <2> QED
      BY <1>3, <2>1 DEF TypeInv, DiskTyped, Change
  <1>4. DiskTyped'
    <2>1. PICK p \in Paths : Edit(p) \/ Appear(p) \/ Remove(p) \/ Hide(p) \/ Unhide(p)
      BY DEF User
    <2>2. files[p].content \in Contents /\ {TRUE, ~MtimeKept} \subseteq BOOLEAN
      BY DEF TypeInv, DiskTyped
    <2> QED
      BY <1>3, <2>1, <2>2 DEF Edit, Appear, Remove, Hide, Unhide
  <1> QED
    BY <1>2, <1>4 DEF TypeInv

\* clean' is a conjunction, and the other flags are chosen or kept.
LEMMA FlagsKeep ==
    ASSUME FlagsTyped, Next
    PROVE  FlagsTyped'
  <1>1. force' \in BOOLEAN
    BY DEF FlagsTyped, Next, Run, User, Edit, Appear, Remove, Hide, Unhide, Change, process,
           Start, Cancel, Kill, Stop, PassOver, Skip, Look, GiveUp, Upsert, Clear, AddPackage,
           Reread, AddParent, AddEdge, EntryDone, EndWalk, PruneOne, EndPrune, Finish, CachePrune
  <1>2. quiet' \in BOOLEAN
    BY DEF FlagsTyped, Next, Run, User, Edit, Appear, Remove, Hide, Unhide, Change, history,
           Start, Cancel, Kill, Stop, PassOver, Skip, Look, GiveUp, Upsert, Clear, AddPackage,
           Reread, AddParent, AddEdge, EntryDone, EndWalk, PruneOne, EndPrune, Finish, CachePrune
  <1>3. clean' \in BOOLEAN
    BY DEF FlagsTyped, Next, Run, User, Edit, Appear, Remove, Hide, Unhide, Change, process,
           Start, Cancel, Kill, Stop, PassOver, Skip, Look, GiveUp, Upsert, Clear, AddPackage,
           Reread, AddParent, AddEdge, EntryDone, EndWalk, PruneOne, EndPrune, Finish, NextEntry,
           CachePrune
  <1> QED
    BY <1>1, <1>2, <1>3 DEF FlagsTyped

\* The steps that write to no table but index_runs.
LEMMA ControlTypes ==
    ASSUME Inv, TypeInv, FlagsTyped',
           Start \/ Cancel \/ Kill \/ PassOver \/ Skip \/ Look \/ GiveUp \/ Reread \/ EntryDone
             \/ EndWalk \/ EndPrune \/ Finish
    PROVE  TypeInv'
  <1>1. UNCHANGED <<disk, rows, nextId, links, projects>>
    BY DEF Start, Cancel, Kill, Stop, PassOver, Skip, Look, GiveUp, Reread, EntryDone,
           EndWalk, EndPrune, Finish, tables
  <1>2. DiskTyped' /\ FiniteTables'
    BY <1>1 DEF TypeInv, DiskTyped, FiniteTables, disk
  <1>3. CASE Start
    <2>1. runs' \in 0..MaxRuns /\ runs' \in Nat
      BY <1>3, Assumed DEF Start, TypeInv, TablesTyped
    <2>2. TablesTyped'
      BY <1>1, <2>1 DEF TypeInv, TablesTyped
    <2>3. ProcessTyped'
      BY <1>3, <2>1, OrderIsAWalk DEF Start, TypeInv, ProcessTyped
    <2> QED
      BY <1>2, <2>2, <2>3 DEF TypeInv
  <1>4. CASE ~Start
    <2>1. TablesTyped'
      BY <1>1, <1>4 DEF TypeInv, TablesTyped, Cancel, Kill, Stop, PassOver, Skip, Look, GiveUp,
                        Reread, EntryDone, EndWalk, EndPrune, Finish, tables
    <2>2. CASE Cancel \/ Kill \/ Finish
      BY <2>2, <1>2, <2>1 DEF Cancel, Kill, Finish, Stop, TypeInv, ProcessTyped, history
    <2>3. CASE PassOver \/ Skip \/ Look
      <3> at <= Len(Order)
        BY <2>3 DEF PassOver, Skip, Look
      <3>1. Path \in Paths
        BY OrderIsAWalk DEF TypeInv, ProcessTyped, Path
      <3> files[Path].mtime \in 0..MaxEdits + 1
        BY <3>1, Assumed DEF TypeInv, DiskTyped
      <3>2. ProcessTyped'
        BY <2>3, <3>1, OrderIsAWalk
        DEF PassOver, Skip, Look, NextEntry, TypeInv, ProcessTyped, history
      <3> QED
        BY <1>2, <2>1, <3>2 DEF TypeInv
    <2>4. CASE Reread
      <3>1. at <= Len(Order) /\ Path \in Paths /\ files[Path].content \in Contents
        BY <2>4, OrderIsAWalk
        DEF Reread, Inv, WalkedSoFar, Entry, TypeInv, ProcessTyped, DiskTyped, Path
      <3>2. read' \in Contents
        BY <2>4, <3>1 DEF Reread, TypeInv, ProcessTyped
      <3>3. \A e \in EdgesOf[read'] : e[1] \in Pkgs
        BY <3>2, Assumed
      <3>4. todo' \subseteq Pkgs
        BY <2>4, <3>3 DEF Reread
      <3>5. ProcessTyped'
        BY <2>4, <3>2, <3>4 DEF Reread, TypeInv, ProcessTyped, history
      <3> QED
        BY <1>2, <2>1, <3>5 DEF TypeInv
    <2>5. CASE GiveUp \/ EntryDone
      <3>1. at <= Len(Order)
        BY <2>5 DEF GiveUp, EntryDone, Inv, WalkedSoFar, Entry
      <3>2. ProcessTyped'
        BY <2>5, <3>1, OrderIsAWalk
        DEF GiveUp, EntryDone, NextEntry, TypeInv, ProcessTyped, history
      <3> QED
        BY <1>2, <2>1, <3>2 DEF TypeInv
    <2>6. CASE EndWalk \/ EndPrune
      BY <2>6, <1>2, <2>1 DEF EndWalk, EndPrune, TypeInv, ProcessTyped, history
    <2> QED
      BY <1>4, <2>2, <2>3, <2>4, <2>5, <2>6
  <1> QED
    BY <1>3, <1>4

\* A new row takes the next id, and the manifest's mtime.
LEMMA UpsertTypes ==
    ASSUME Inv, TypeInv, FlagsTyped', Upsert
    PROVE  TypeInv'
  <1>1. Path \in Paths
    BY OrderIsAWalk DEF Upsert, Inv, WalkedSoFar, Entry, Typed, Path
  <1>2. nextId' \in Nat \ {0} /\ lastId' \in Nat /\ mid' \in Nat
    BY DEF Upsert, LastInsertId, TypeInv, TablesTyped, ProcessTyped
  <1>3. rows' \in [Paths -> [id : Nat, mtime : 0..MaxEdits + 1]]
    <2> DEFINE id == IF rows[Path] = NoRow THEN nextId ELSE rows[Path].id
    <2>1. id \in Nat
      BY <1>1 DEF TypeInv, TablesTyped
    <2>2. rows' = [rows EXCEPT ![Path] = [id |-> id, mtime |-> mtime]]
      BY DEF Upsert, Stored
    <2> HIDE DEF id
    <2> QED
      BY <2>1, <2>2 DEF TypeInv, TablesTyped, ProcessTyped
  <1>4. TablesTyped'
    BY <1>2, <1>3 DEF Upsert, TypeInv, TablesTyped
  <1>5. read' \in Contents
    BY <1>1 DEF Upsert, TypeInv, DiskTyped
  <1>6. ProcessTyped'
    BY <1>2, <1>5 DEF Upsert, TypeInv, ProcessTyped, history
  <1>7. DiskTyped' /\ FiniteTables'
    BY DEF Upsert, TypeInv, DiskTyped, FiniteTables, disk
  <1> QED
    BY <1>4, <1>6, <1>7 DEF TypeInv

LEMMA ClearTypes ==
    ASSUME TypeInv, FlagsTyped', Clear
    PROVE  TypeInv'
  <1>1. TablesTyped'
    BY DEF Clear, TypeInv, TablesTyped
  <1>2. ProcessTyped'
    BY Assumed DEF Clear, TypeInv, ProcessTyped, history
  <1>3. links' \in SUBSET links
    BY DEF Clear
  <1>4. DiskTyped' /\ FiniteTables'
    BY <1>3, FS_Subset DEF Clear, TypeInv, DiskTyped, FiniteTables, disk
  <1> QED
    BY <1>1, <1>2, <1>4 DEF TypeInv

\* A link is new in its row and in its pair of manifest and package, and its
\* manifest is in the table, so it is not 0.
LEMMA AddPackageTypes ==
    ASSUME Inv, TypeInv, FlagsTyped',
           NEW pkg \in Pkgs, NEW upto \in {"none", "project", "version", "link"},
           AddPackage(pkg, upto)
    PROVE  TypeInv'
  <1> DEFINE link == [row |-> LinkRow, manifest |-> mid, pkg |-> pkg]
  <1>1. LinkRow \in Nat \ {0} /\ \A l \in links : l.row < LinkRow
    BY LinkRowIsNew DEF TypeInv
  <1>2. \/ links' = links
        \/ /\ links' = links \union {link} /\ mid \in Ids
           /\ ~ \E l \in links : l.manifest = mid /\ l.pkg = pkg
    BY DEF AddPackage, Linked
  <1>3. projects' \in {projects, projects \union {ProjectOf[pkg]}}
    BY DEF AddPackage
  <1>4. mid \in Ids => mid \in Nat \ {0}
    BY DEF Ids, TypeInv, ProcessTyped
  <1>5. \A k, l \in links' : k.row = l.row \/ <<k.manifest, k.pkg>> = <<l.manifest, l.pkg>> => k = l
    BY <1>1, <1>2 DEF TypeInv, TablesTyped
  <1>6. links' \subseteq [row : Nat \ {0}, manifest : Nat \ {0}, pkg : Pkgs]
    BY <1>1, <1>2, <1>4 DEF TypeInv, TablesTyped
  <1>7. TablesTyped'
    BY <1>3, <1>5, <1>6, Assumed DEF AddPackage, TypeInv, TablesTyped
  <1>8. lastId' \in Nat
    BY <1>1, LastIdIsNumber DEF Inv, AddPackage, TypeInv, ProcessTyped
  <1>9. ProcessTyped'
    BY <1>8 DEF AddPackage, TypeInv, ProcessTyped, history
  <1>10. FiniteTables'
    <2> HIDE DEF link
    <2> QED
      BY <1>2, <1>3, FS_AddElement DEF AddPackage, TypeInv, FiniteTables
  <1>11. DiskTyped'
    BY DEF AddPackage, TypeInv, DiskTyped, disk
  <1> QED
    BY <1>7, <1>9, <1>10, <1>11 DEF TypeInv

LEMMA AddParentTypes ==
    ASSUME Inv, TypeInv, FlagsTyped',
           NEW pkg \in Pkgs, NEW upto \in {"none", "project", "version"}, AddParent(pkg, upto)
    PROVE  TypeInv'
  <1>1. projects' \in {projects, projects \union {ProjectOf[pkg]}}
    BY DEF AddParent
  <1>2. TablesTyped'
    BY <1>1, Assumed DEF AddParent, TypeInv, TablesTyped
  <1>3. lastId' \in Nat
    BY LastIdIsNumber DEF Inv, AddParent, TypeInv, ProcessTyped
  <1>4. ProcessTyped'
    BY <1>3, Assumed DEF AddParent, TypeInv, ProcessTyped, history
  <1>5. FiniteTables'
    BY <1>1, FS_AddElement DEF AddParent, TypeInv, FiniteTables
  <1>6. DiskTyped'
    BY DEF AddParent, TypeInv, DiskTyped, disk
  <1> QED
    BY <1>2, <1>4, <1>5, <1>6 DEF TypeInv

LEMMA AddEdgeTypes ==
    ASSUME Inv, TypeInv, FlagsTyped', NEW e \in Pkgs \X Pkgs, NEW ok \in BOOLEAN, AddEdge(e, ok)
    PROVE  TypeInv'
  <1>1. lastId' \in Nat
    BY DepRowIsNew DEF Inv, AddEdge, TypeInv, ProcessTyped
  <1>2. ProcessTyped'
    BY <1>1 DEF AddEdge, TypeInv, ProcessTyped, history
  <1>3. TablesTyped' /\ FiniteTables' /\ DiskTyped'
    BY DEF AddEdge, TypeInv, TablesTyped, FiniteTables, DiskTyped, disk
  <1> QED
    BY <1>2, <1>3 DEF TypeInv

LEMMA CachePruneTypes ==
    ASSUME TypeInv, NEW taken, CachePrune(taken)
    PROVE  TypeInv'
  BY DEF CachePrune, TypeInv, DiskTyped, TablesTyped, ProcessTyped, FlagsTyped, FiniteTables,
         disk, process, history

LEMMA PruneTypes ==
    ASSUME TypeInv, FlagsTyped', NEW p \in Paths, PruneOne(p)
    PROVE  TypeInv'
  <1>1. links' \in SUBSET links
    BY DEF PruneOne
  <1>2. rows' \in [Paths -> [id : Nat, mtime : 0..MaxEdits + 1]]
    BY Assumed DEF PruneOne, TypeInv, TablesTyped, NoRow
  <1>3. TablesTyped'
    BY <1>1, <1>2 DEF PruneOne, TypeInv, TablesTyped
  <1>4. ProcessTyped'
    BY DEF PruneOne, TypeInv, ProcessTyped, process, history
  <1>5. DiskTyped' /\ FiniteTables'
    BY <1>1, FS_Subset DEF PruneOne, TypeInv, DiskTyped, FiniteTables, disk
  <1> QED
    BY <1>3, <1>4, <1>5 DEF TypeInv

LEMMA TypesNext == Inv /\ TypeInv /\ [Next]_vars => TypeInv'
  <1> SUFFICES ASSUME Inv, TypeInv, [Next]_vars PROVE TypeInv'
    OBVIOUS
  <1>1. CASE UNCHANGED vars
    BY <1>1 DEF vars, disk, tables, process, history, TypeInv, DiskTyped, TablesTyped,
                ProcessTyped, FlagsTyped, FiniteTables
  <1>2. CASE Next
    <2>1. FlagsTyped'
      BY <1>2, FlagsKeep DEF TypeInv
    <2>2. CASE User
      BY <2>2, UserTypes
    <2>3. CASE Run
      BY <2>1, <2>3, ControlTypes, UpsertTypes, ClearTypes, AddPackageTypes, AddParentTypes,
         AddEdgeTypes, PruneTypes DEF Run
    <2> QED
      BY <1>2, <2>2, <2>3, CachePruneTypes DEF Next
  <1> QED
    BY <1>1, <1>2

LEMMA BothHold == Spec => [](Inv /\ TypeInv)
  BY InvInit, InvNext, TypesInit, TypesNext, PTL DEF Spec

\* The tables keep their keys - no two manifests share an id, no two links a
\* row, nor a manifest and a package - and rowids, mtimes and the process's own
\* state stay in range, however many packages the manifests name.
THEOREM TypesHold == Spec => []TypeOK
  <1>1. Inv /\ TypeInv => TypeOK
    BY TypesAreParts DEF Inv
  <1> QED
    BY BothHold, <1>1, PTL

-----------------------------------------------------------------------------
(* What stands behind the walk *)

\* Nobody touched the tree during the run, and nothing went wrong in it so far.
Undisturbed == quiet /\ clean

OnDisk(p) == files[p].state = "file"

Synced(p) == OnDisk(p) => rows[p] # NoRow /\ rows[p].mtime = files[p].mtime

\* The entries behind the walk are stored as they are on disk.
TreeInv ==
    /\ pc # "idle" => ended = "cut"
    /\ pc # "idle" /\ quiet => \A p \in gone : ~OnDisk(p)
    /\ pc # "idle" /\ Undisturbed =>
         /\ \A p \in walked : OnDisk(p)
         /\ \A i \in 1 .. at - 1 : Synced(Order[i])
         /\ pc \in Entry => mtime = files[Path].mtime
         /\ pc \in Entry \ {"read"} => Synced(Path)
         /\ pc = "finish" => Stale = {}
    /\ IndexMatchesTree

\* The packages linked to a manifest.
LinkedTo(p) == {l.pkg : l \in {k \in links : k.manifest = rows[p].id}}

Declared(p) == IF OnDisk(p) THEN PkgsOf[files[p].content] ELSE {}

\* Entries that the walk has yet to store.
Ahead == {Order[i] : i \in {j \in 1 .. Len(Order) : j > at \/ (j = at /\ pc \in {"walk", "read"})}}

\* On the first run every manifest is new, so m.ID is the id of its own row, and
\* the entries behind the walk have the links they declare.
FirstInv ==
    /\ runs = 0 => pc = "idle" /\ \A p \in Paths : rows[p] = NoRow
    /\ runs = 1 /\ pc # "idle" =>
         /\ \A p \in Ahead : rows[p] = NoRow
         /\ Indexed \subseteq walked
         /\ pc \in {"clear", "add"} => rows[Path] # NoRow /\ mid = rows[Path].id
         /\ Undisturbed =>
              /\ \A i \in 1 .. at - 1 : LinkedTo(Order[i]) = Declared(Order[i])
              /\ pc \in {"clear", "add"} => read = files[Path].content
              /\ pc = "add" => LinkedTo(Path) \union todo = Declared(Path)
              /\ pc \in {"parents", "edges"} => LinkedTo(Path) = Declared(Path)
    /\ FirstRunExact

-----------------------------------------------------------------------------
(* The manifests stored are those on disk *)

LEMMA TreeInit == Init => TreeInv
  BY DEF Init, TreeInv, IndexMatchesTree

\* An edit ends the quiet, and a new run starts with nothing behind it.
LEMMA TreeOutside ==
    ASSUME TreeInv, User \/ Start \/ Cancel \/ Kill
    PROVE  TreeInv'
  <1>1. CASE User
    <2>1. quiet' = FALSE /\ UNCHANGED <<pc, ended>>
      BY <1>1 DEF User, Edit, Appear, Remove, Hide, Unhide, Change, process
    <2> QED
      BY <2>1 DEF TreeInv, IndexMatchesTree, Undisturbed
  <1>2. CASE Start
    <2>1. /\ pc' = "walk" /\ at' = 1 /\ walked' = {} /\ ended' = "cut" /\ files' = files
          /\ gone' = {p \in Paths : files[p].state # "file"}
      BY <1>2 DEF Start, disk
    <2> QED
      BY <2>1 DEF TreeInv, IndexMatchesTree, Entry, OnDisk
  <1>3. CASE Cancel \/ Kill
    BY <1>3 DEF Cancel, Kill, Stop, TreeInv, IndexMatchesTree
  <1> QED
    BY <1>1, <1>2, <1>3

\* The callback ends with its entry stored as it is on disk, or counts an error.
LEMMA NextEntryTree ==
    ASSUME Inv, TreeInv, NEW ok \in BOOLEAN, NextEntry(ok), pc # "idle", at <= Len(Order),
           UNCHANGED <<files, rows, ended, quiet, gone>>,
           ok /\ Undisturbed => Synced(Path) /\ \A p \in walked' : OnDisk(p)
    PROVE  TreeInv'
  <1>1. at' = at + 1 /\ pc' = "walk" /\ (clean' => clean /\ ok)
    BY DEF NextEntry
  <1>2. 1 .. at' - 1 = (1 .. at - 1) \union {at}
    BY <1>1, OrderIsAWalk DEF Inv, Typed
  <1>3. ASSUME Undisturbed'
        PROVE  \A i \in 1 .. at' - 1 : Synced(Order[i])'
    <2>1. Undisturbed /\ ok
      BY <1>1, <1>3 DEF Undisturbed
    <2> QED
      BY <1>2, <2>1 DEF TreeInv, Synced, OnDisk, Path
  <1>4. Undisturbed' => \A p \in walked' : OnDisk(p)'
    BY <1>1 DEF Undisturbed, OnDisk
  <1> QED
    BY <1>1, <1>3, <1>4 DEF TreeInv, IndexMatchesTree, Entry, OnDisk

LEMMA WalkTree ==
    ASSUME Inv, TreeInv, PassOver \/ Skip \/ GiveUp \/ EntryDone
    PROVE  TreeInv'
  <1>1. UNCHANGED <<files, rows, ended, quiet, gone>> /\ pc # "idle" /\ at <= Len(Order)
    BY DEF PassOver, Skip, GiveUp, EntryDone, disk, tables, history, Inv, WalkedSoFar, Entry
  <1>2. CASE PassOver
    <2>1. NextEntry(TRUE) /\ ~OnDisk(Path) /\ walked' = walked
      BY <1>2 DEF PassOver, OnDisk
    <2> QED
      BY <1>1, <2>1, NextEntryTree DEF Synced, TreeInv
  <1>3. CASE Skip
    <2>1. NextEntry(TRUE) /\ OnDisk(Path) /\ walked' = walked \union {Path} /\ Synced(Path)
      BY <1>3 DEF Skip, OnDisk, Synced, Unchanged
    <2> QED
      BY <1>1, <2>1, NextEntryTree DEF TreeInv
  <1>4. CASE GiveUp
    BY <1>1, <1>4, NextEntryTree DEF GiveUp
  <1>5. CASE EntryDone
    <2>1. NextEntry(TRUE) /\ walked' = walked /\ pc = "edges"
      BY <1>5 DEF EntryDone
    <2> QED
      BY <1>1, <2>1, NextEntryTree DEF TreeInv, Entry
  <1> QED
    BY <1>2, <1>3, <1>4, <1>5

LEMMA LookTree ==
    ASSUME TreeInv, Look
    PROVE  TreeInv'
  <1>1. /\ UNCHANGED <<files, rows, at, clean, ended, quiet, gone>>
        /\ pc = "walk" /\ pc' = "read" /\ mtime' = files[Path].mtime
        /\ OnDisk(Path) /\ walked' = walked \union {Path}
    BY DEF Look, disk, tables, history, OnDisk
  <1> QED
    BY <1>1 DEF TreeInv, IndexMatchesTree, Undisturbed, Synced, OnDisk, Path, Entry

\* The row that UpsertIndexManifest leaves has the mtime seen before the read.
LEMMA UpsertTree ==
    ASSUME Inv, TreeInv, Upsert
    PROVE  TreeInv'
  <1> DEFINE id == IF rows[Path] = NoRow THEN nextId ELSE rows[Path].id
  <1>1. /\ UNCHANGED <<files, at, clean, ended, quiet, gone, walked, mtime>>
        /\ pc = "read" /\ pc' = "clear"
        /\ rows' = [rows EXCEPT ![Path] = [id |-> id, mtime |-> mtime]]
    BY DEF Upsert, Stored, disk, history
  <1>2. Path \in Paths
    BY OrderIsAWalk DEF Upsert, Inv, WalkedSoFar, Entry, Typed, Path
  <1>3. id # 0
    BY <1>2 DEF Inv, Typed, KeysGiven, Indexed
  <1> HIDE DEF id
  <1>4. rows'[Path] # NoRow /\ rows'[Path].mtime = mtime /\ \A p \in Paths \ {Path} : rows'[p] = rows[p]
    BY <1>1, <1>2, <1>3 DEF Inv, Typed, NoRow
  <1>5. ASSUME Undisturbed'
        PROVE  Synced(Path)' /\ \A i \in 1 .. at - 1 : Synced(Order[i])'
    <2>1. Undisturbed /\ mtime = files[Path].mtime
      BY <1>1, <1>5 DEF Undisturbed, TreeInv, Entry
    <2>2. Synced(Path)'
      BY <1>1, <1>4, <2>1 DEF Synced, OnDisk, Path
    <2>3. \A i \in 1 .. at - 1 : Order[i] \in Paths
      BY OrderIsAWalk DEF Inv, Typed
    <2> QED
      BY <1>1, <1>4, <2>1, <2>2, <2>3 DEF TreeInv, Synced, OnDisk, Path
  <1> QED
    BY <1>1, <1>5 DEF TreeInv, IndexMatchesTree, Undisturbed, OnDisk, Path, Entry

\* What follows it leaves the rows alone.
LEMMA EntryTree ==
    ASSUME TreeInv,
           \/ Clear \/ Reread
           \/ \E pkg \in Pkgs, upto \in {"none", "project", "version", "link"} : AddPackage(pkg, upto)
           \/ \E pkg \in Pkgs, upto \in {"none", "project", "version"} : AddParent(pkg, upto)
           \/ \E e \in Pkgs \X Pkgs, ok \in BOOLEAN : AddEdge(e, ok)
    PROVE  TreeInv'
  <1>1. /\ UNCHANGED <<files, rows, at, ended, quiet, gone, walked, mtime>>
        /\ pc \in Entry \ {"read"} /\ pc' \in Entry \ {"read"} /\ (clean' => clean)
    <2>1. UNCHANGED <<files, rows, at, ended, quiet, gone, walked, mtime>>
      BY DEF Clear, Reread, AddPackage, AddParent, AddEdge, disk, tables, history
    <2>2. clean' => clean
      BY DEF Clear, Reread, AddPackage, AddParent, AddEdge
    <2>3. pc \in Entry \ {"read"} /\ pc' \in Entry \ {"read"}
      BY DEF Clear, Reread, AddPackage, AddParent, AddEdge, Entry
    <2> QED
      BY <2>1, <2>2, <2>3
  <1> QED
    BY <1>1 DEF TreeInv, IndexMatchesTree, Undisturbed, Synced, OnDisk, Path, Entry

\* Over a quiet tree what the walk did not meet is not there to be read.
LEMMA PruneTree ==
    ASSUME Inv, TreeInv, EndWalk \/ (\E p \in Paths : PruneOne(p)) \/ EndPrune
    PROVE  TreeInv'
  <1>1. CASE EndWalk
    BY <1>1 DEF EndWalk, TreeInv, IndexMatchesTree, Undisturbed, Synced, OnDisk, Entry,
                disk, tables, history
  <1>2. CASE EndPrune
    <2>1. /\ UNCHANGED <<files, rows, at, ended, quiet, gone, walked>>
          /\ pc = "prune" /\ pc' = "finish" /\ (clean' => clean /\ Stale = {})
      BY <1>2 DEF EndPrune, disk, tables, history
    <2> QED
      BY <2>1 DEF TreeInv, IndexMatchesTree, Undisturbed, Synced, OnDisk, Entry, Stale, Indexed
  <1>3. CASE \E p \in Paths : PruneOne(p)
    <2>1. PICK p \in Paths : PruneOne(p)
      BY <1>3
    <2>2. /\ UNCHANGED <<files, at, ended, quiet, gone, walked, pc, clean>> /\ pc = "prune"
          /\ rows' = [rows EXCEPT ![p] = NoRow] /\ p \notin walked
      BY <2>1 DEF PruneOne, disk, process, history, Stale
    <2>3. p \in gone
      <3>1. at = Len(Order) + 1 /\ \A i \in 1 .. at - 1 : Order[i] \in walked \union gone
        BY <2>2 DEF Inv, WalkedSoFar
      <3>2. PICK i \in 1 .. Len(Order) : Order[i] = p
        BY OrderIsAWalk
      <3>3. i \in 1 .. at - 1
        BY <3>1, <3>2, OrderIsAWalk
      <3> QED
        BY <2>2, <3>1, <3>2, <3>3
    <2>4. quiet => ~OnDisk(p)
      BY <2>2, <2>3 DEF TreeInv
    <2>5. \A q \in Paths \ {p} : rows'[q] = rows[q]
      BY <2>2 DEF Inv, Typed
    <2>6. ASSUME Undisturbed', NEW i \in 1 .. at - 1
          PROVE  Synced(Order[i])'
      <3>1. Order[i] \in Paths
        BY OrderIsAWalk DEF Inv, Typed
      <3>2. Undisturbed
        BY <2>2, <2>6 DEF Undisturbed
      <3> QED
        BY <2>2, <2>4, <2>5, <3>1, <3>2 DEF TreeInv, Synced, OnDisk, Undisturbed
    <2> QED
      BY <2>2, <2>6 DEF TreeInv, IndexMatchesTree, Undisturbed, OnDisk, Entry
  <1> QED
    BY <1>1, <1>2, <1>3

\* A clean run ends with nothing ahead of the walk and nothing left to prune.
LEMMA FinishTree ==
    ASSUME Inv, TypeInv, TreeInv, Finish
    PROVE  TreeInv'
  <1>1. UNCHANGED <<files, rows, clean, quiet>> /\ pc = "finish" /\ pc' = "idle"
    BY DEF Finish, Stop, disk, tables, history
  <1>2. ASSUME Undisturbed, NEW p \in Paths
        PROVE  IF OnDisk(p) THEN rows[p] # NoRow /\ rows[p].mtime = files[p].mtime
               ELSE rows[p] = NoRow
    <2>1. at = Len(Order) + 1
      BY <1>1 DEF Inv, WalkedSoFar
    <2>2. PICK i \in 1 .. Len(Order) : Order[i] = p
      BY OrderIsAWalk
    <2>3. Synced(p)
      BY <1>1, <1>2, <2>1, <2>2, OrderIsAWalk DEF TreeInv
    <2>4. p \in Indexed => p \in walked
      BY <1>1, <1>2 DEF TreeInv, Stale
    <2>5. p \in walked => OnDisk(p)
      BY <1>1, <1>2 DEF TreeInv
    <2> QED
      BY <2>3, <2>4, <2>5 DEF Synced, Indexed
  <1>3. IndexMatchesTree'
    BY <1>1, <1>2 DEF IndexMatchesTree, OnDisk, Undisturbed
  <1> QED
    BY <1>1, <1>3 DEF TreeInv

LEMMA CachePruneTree ==
    ASSUME TreeInv, NEW taken, CachePrune(taken)
    PROVE  TreeInv'
  BY DEF CachePrune, disk, process, history, TreeInv, IndexMatchesTree, Undisturbed, Synced,
         OnDisk, Path, Stale, Indexed

LEMMA TreeNext == Inv /\ TypeInv /\ TreeInv /\ [Next]_vars => TreeInv'
  <1> SUFFICES ASSUME Inv, TypeInv, TreeInv, [Next]_vars PROVE TreeInv'
    OBVIOUS
  <1>1. CASE Next
    BY <1>1, TreeOutside, WalkTree, LookTree, UpsertTree, EntryTree, PruneTree, FinishTree,
       CachePruneTree DEF Next, Run
  <1>2. CASE UNCHANGED vars
    BY <1>2 DEF vars, disk, tables, process, history, TreeInv, IndexMatchesTree, Undisturbed,
                Synced, OnDisk, Path, Stale, Indexed
  <1> QED
    BY <1>1, <1>2

LEMMA TreeHolds == Spec => []TreeInv
  BY BothHold, TreeInit, TreeNext, PTL DEF Spec

\* After a clean run over a tree nobody touched meanwhile, the manifests in the
\* index are those on disk with their mtimes, whatever earlier runs, cut short
\* or failing, had left there.
THEOREM IndexIsTheTree == Spec => []IndexMatchesTree
  <1>1. TreeInv => IndexMatchesTree
    BY DEF TreeInv
  <1> QED
    BY TreeHolds, <1>1, PTL

-----------------------------------------------------------------------------
(* The first run links what the manifests declare *)

LEMMA NoRowNoLinks ==
    ASSUME Inv, NEW p, rows[p] = NoRow
    PROVE  LinkedTo(p) = {}
  <1>1. \A l \in links : l.manifest # 0
    BY DEF Inv, ForeignKeys, Ids
  <1> QED
    BY <1>1 DEF LinkedTo, NoRow

LEMMA FirstInit == Init => FirstInv
  BY DEF Init, FirstInv, FirstRunExact, NoRow

LEMMA FirstOutside ==
    ASSUME TypeInv, FirstInv, User \/ Start \/ Cancel \/ Kill
    PROVE  FirstInv'
  <1>1. CASE User
    <2>1. quiet' = FALSE /\ UNCHANGED <<pc, ended, runs, rows, at, walked, mid>>
      BY <1>1 DEF User, Edit, Appear, Remove, Hide, Unhide, Change, process, tables
    <2> QED
      BY <2>1 DEF FirstInv, FirstRunExact, Undisturbed, Ahead, Indexed, Path
  <1>2. CASE Start
    <2>1. /\ runs' = runs + 1 /\ runs \in Nat
          /\ pc' = "walk" /\ at' = 1 /\ pc = "idle" /\ UNCHANGED rows
      BY <1>2, Assumed DEF Start, TypeInv, TablesTyped
    <2>2. runs' = 1 => \A p \in Paths : rows[p] = NoRow
      BY <2>1 DEF FirstInv
    <2>3. Ahead' \subseteq Paths
      BY OrderIsAWalk DEF Ahead
    <2> QED
      BY <2>1, <2>2, <2>3 DEF FirstInv, FirstRunExact, Indexed
  <1>3. CASE Cancel \/ Kill
    BY <1>3 DEF Cancel, Kill, Stop, FirstInv, FirstRunExact, tables
  <1> QED
    BY <1>1, <1>2, <1>3

\* On the first run the entry that ends was not there, or has its links.
LEMMA NextEntryFirst ==
    ASSUME Inv, FirstInv, NEW ok \in BOOLEAN, NextEntry(ok), pc # "idle", at <= Len(Order),
           UNCHANGED <<files, rows, links, runs, quiet>>, walked \subseteq walked',
           runs = 1 /\ Undisturbed /\ ok => LinkedTo(Path) = Declared(Path)
    PROVE  FirstInv'
  <1>1. at' = at + 1 /\ pc' = "walk" /\ (clean' => clean /\ ok)
    BY DEF NextEntry
  <1>2. at \in Nat /\ 1 .. at' - 1 = (1 .. at - 1) \union {at}
    BY <1>1, OrderIsAWalk DEF Inv, Typed
  <1>3. Ahead' \subseteq Ahead
    BY <1>1, <1>2, OrderIsAWalk DEF Ahead
  <1>4. ASSUME runs' = 1, Undisturbed', NEW i \in 1 .. at' - 1
        PROVE  (LinkedTo(Order[i]) = Declared(Order[i]))'
    <2>1. Undisturbed /\ ok
      BY <1>1, <1>4 DEF Undisturbed
    <2>2. LinkedTo(Order[i]) = Declared(Order[i])
      BY <1>2, <1>4, <2>1 DEF FirstInv, Path
    <2> QED
      BY <2>2 DEF LinkedTo, Declared, OnDisk
  <1> QED
    BY <1>1, <1>3, <1>4 DEF FirstInv, FirstRunExact, Indexed

LEMMA WalkFirst ==
    ASSUME Inv, FirstInv, PassOver \/ Skip \/ GiveUp \/ EntryDone
    PROVE  FirstInv'
  <1>1. /\ UNCHANGED <<files, rows, links, runs, quiet>> /\ walked \subseteq walked'
        /\ pc # "idle" /\ at <= Len(Order)
    BY DEF PassOver, Skip, GiveUp, EntryDone, disk, tables, history, Inv, WalkedSoFar, Entry
  <1>2. at \in 1 .. Len(Order)
    BY <1>1, OrderIsAWalk DEF Inv, Typed
  <1>3. runs = 1 /\ pc = "walk" => rows[Path] = NoRow
    BY <1>2 DEF FirstInv, Ahead, Path
  <1>4. CASE PassOver
    <2>1. NextEntry(TRUE) /\ ~OnDisk(Path) /\ pc = "walk"
      BY <1>4 DEF PassOver, OnDisk
    <2>2. runs = 1 => LinkedTo(Path) = Declared(Path)
      BY <1>3, <2>1, NoRowNoLinks DEF Declared
    <2> QED
      BY <1>1, <2>1, <2>2, NextEntryFirst
  <1>5. CASE Skip
    <2>1. NextEntry(TRUE) /\ runs # 1
      BY <1>3, <1>5 DEF Skip, Unchanged
    <2> QED
      BY <1>1, <2>1, NextEntryFirst
  <1>6. CASE GiveUp
    BY <1>1, <1>6, NextEntryFirst DEF GiveUp
  <1>7. CASE EntryDone
    <2>1. NextEntry(TRUE) /\ pc = "edges"
      BY <1>7 DEF EntryDone
    <2> QED
      BY <1>1, <2>1, NextEntryFirst DEF FirstInv
  <1> QED
    BY <1>4, <1>5, <1>6, <1>7

\* Steps that leave the tables alone and stay at the entry, or end the walk.
LEMMA StayFirst ==
    ASSUME Inv, FirstInv,
           \/ Look \/ Reread \/ EndWalk \/ EndPrune
           \/ \E pkg \in Pkgs, upto \in {"none", "project", "version"} : AddParent(pkg, upto)
           \/ \E e \in Pkgs \X Pkgs, ok \in BOOLEAN : AddEdge(e, ok)
    PROVE  FirstInv'
  <1>1. UNCHANGED <<files, rows, links, runs, quiet, at, mid>> /\ walked \subseteq walked'
    BY DEF Look, Reread, EndWalk, EndPrune, AddParent, AddEdge, disk, tables, history
  <1>2. clean' => clean
    BY DEF Look, Reread, EndWalk, EndPrune, AddParent, AddEdge
  <1>3. pc # "idle" /\ pc' # "idle" /\ Ahead' \subseteq Ahead
    BY DEF Look, Reread, EndWalk, EndPrune, AddParent, AddEdge, Ahead
  <1>4. /\ pc' \notin {"clear", "add"}
        /\ pc' \in {"parents", "edges"} => pc \in {"parents", "edges"} \/ (pc = "add" /\ todo = {})
    BY DEF Look, Reread, EndWalk, EndPrune, AddParent, AddEdge
  <1> QED
    BY <1>1, <1>2, <1>3, <1>4
    DEF FirstInv, FirstRunExact, Undisturbed, LinkedTo, Declared, OnDisk, Indexed, Path

\* The entries behind the walk are other manifests.
LEMMA BehindIsOther ==
    ASSUME Inv, pc \in Entry, NEW i \in 1 .. at - 1
    PROVE  Path \in Paths /\ Order[i] \in Paths /\ Order[i] # Path
  BY OrderIsAWalk, Assumed DEF Inv, Typed, WalkedSoFar, Path

\* The manifest is new, so LastInsertId answers the id it was given.
LEMMA UpsertFirst ==
    ASSUME Inv, FirstInv, Upsert
    PROVE  FirstInv'
  <1>1. /\ UNCHANGED <<files, links, runs, at, walked, clean, quiet>>
        /\ pc = "read" /\ pc' = "clear" /\ read' = files[Path].content
    BY DEF Upsert, disk, history
  <1>2. at \in 1 .. Len(Order) /\ Path \in Paths /\ Path \in walked
    BY <1>1, OrderIsAWalk DEF Inv, Typed, WalkedSoFar, Entry, Path
  <1>3. \A p \in Paths \ {Path} : rows'[p] = rows[p]
    BY <1>2 DEF Upsert, Inv, Typed
  <1>4. ASSUME runs = 1
        PROVE  rows'[Path] # NoRow /\ mid' = rows'[Path].id
    <2>1. rows[Path] = NoRow
      BY <1>1, <1>2, <1>4 DEF FirstInv, Ahead, Path
    <2>2. rows'[Path] = [id |-> nextId, mtime |-> mtime]
      BY <1>2, <2>1 DEF Upsert, Stored, Inv, Typed
    <2>3. mid' = nextId
      BY <2>1 DEF Upsert, LastInsertId
    <2> QED
      BY <2>2, <2>3 DEF NoRow, Inv, Typed
  <1>5. \A p \in Ahead' : p \in Ahead /\ p \in Paths /\ p # Path
    BY <1>1, <1>2, OrderIsAWalk, Assumed DEF Ahead, Path
  <1>6. runs = 1 => \A p \in Ahead' : rows'[p] = NoRow
    BY <1>1, <1>3, <1>5 DEF FirstInv
  <1>7. runs = 1 => Indexed' \subseteq walked
    BY <1>1, <1>2, <1>3 DEF FirstInv, Indexed
  <1>8. ASSUME runs = 1, Undisturbed, NEW i \in 1 .. at - 1
        PROVE  (LinkedTo(Order[i]) = Declared(Order[i]))'
    <2>1. rows'[Order[i]] = rows[Order[i]]
      BY <1>1, <1>3, BehindIsOther DEF Entry
    <2>2. LinkedTo(Order[i]) = Declared(Order[i])
      BY <1>1, <1>8 DEF FirstInv
    <2> QED
      BY <1>1, <2>1, <2>2 DEF LinkedTo, Declared, OnDisk
  <1> QED
    BY <1>1, <1>4, <1>6, <1>7, <1>8 DEF FirstInv, FirstRunExact, Undisturbed, Path

\* The links of the entries behind are those of other ids.
LEMMA BehindKeeps ==
    ASSUME Inv, FirstInv, runs = 1, pc \in {"clear", "add"}, Undisturbed,
           UNCHANGED <<files, rows>>, NEW i \in 1 .. at - 1,
           \A l : l.manifest # mid => (l \in links' <=> l \in links),
           \A l \in links' : l.manifest \in Ids
    PROVE  (LinkedTo(Order[i]) = Declared(Order[i]))'
  <1> DEFINE p == Order[i]
  <1>1. p \in Paths /\ Path \in Paths /\ p # Path
    BY BehindIsOther DEF Entry
  <1>2. rows[Path] # NoRow /\ mid = rows[Path].id /\ LinkedTo(p) = Declared(p)
    BY DEF FirstInv
  <1>3. mid # 0
    BY <1>1, <1>2 DEF Inv, KeysGiven, Indexed
  <1>4. rows[p].id # mid
    <2>1. CASE rows[p] = NoRow
      BY <1>3, <2>1 DEF NoRow
    <2>2. CASE rows[p] # NoRow
      BY <1>1, <1>2, <2>2 DEF Inv, KeysGiven, Indexed
    <2> QED
      BY <2>1, <2>2
  <1>5. LinkedTo(p)' = LinkedTo(p)
    BY <1>4 DEF LinkedTo
  <1> QED
    BY <1>2, <1>5 DEF Declared, OnDisk

\* m.ID's old links go, and its packages are to be added.
LEMMA ClearFirst ==
    ASSUME Inv, TreeInv, FirstInv, Clear
    PROVE  FirstInv'
  <1>1. /\ UNCHANGED <<files, rows, runs, at, walked, clean, quiet, mid, read>>
        /\ pc = "clear" /\ pc' = "add" /\ todo' = PkgsOf[read]
        /\ links' = {l \in links : l.manifest # mid}
    BY DEF Clear, disk, history
  <1>2. Path \in walked
    BY <1>1 DEF Inv, WalkedSoFar, Entry
  <1>3. Ahead' = Ahead
    BY <1>1 DEF Ahead
  <1>4. ASSUME runs = 1, Undisturbed
        PROVE  (LinkedTo(Path) \union todo = Declared(Path))'
    <2>1. mid = rows[Path].id /\ read = files[Path].content /\ OnDisk(Path)
      BY <1>1, <1>2, <1>4 DEF FirstInv, TreeInv
    <2>2. LinkedTo(Path)' = {}
      BY <1>1, <2>1 DEF LinkedTo, Path
    <2> QED
      BY <1>1, <2>1, <2>2 DEF Declared, OnDisk, Path
  <1>5. ASSUME runs = 1, Undisturbed, NEW i \in 1 .. at - 1
        PROVE  (LinkedTo(Order[i]) = Declared(Order[i]))'
    <2>1. \A l \in links' : l.manifest \in Ids
      BY <1>1 DEF Inv, ForeignKeys
    <2> QED
      BY <1>1, <1>5, <2>1, BehindKeeps
  <1> QED
    BY <1>1, <1>3, <1>4, <1>5 DEF FirstInv, FirstRunExact, Undisturbed, Indexed, Path

\* A package leaves the list when it is linked, or an error is counted.
LEMMA AddPackageFirst ==
    ASSUME Inv, FirstInv, NEW pkg \in Pkgs, NEW upto \in {"none", "project", "version", "link"},
           AddPackage(pkg, upto)
    PROVE  FirstInv'
  <1>1. /\ UNCHANGED <<files, rows, runs, at, walked, quiet, mid, read, pc>>
        /\ pc = "add" /\ todo' = todo \ {pkg} /\ pkg \in todo
    BY DEF AddPackage, disk, history
  <1>2. clean' => clean /\ Linked(upto)
    BY DEF AddPackage
  <1>3. \/ links' = links
        \/ links' = links \union {[row |-> LinkRow, manifest |-> mid, pkg |-> pkg]} /\ mid \in Ids
    BY DEF AddPackage, Linked
  <1>4. Ahead' = Ahead
    BY <1>1 DEF Ahead
  <1>5. ASSUME runs = 1, Undisturbed'
        PROVE  (LinkedTo(Path) \union todo = Declared(Path))'
    <2>1. mid = rows[Path].id /\ LinkedTo(Path) \union todo = Declared(Path)
      BY <1>1, <1>2, <1>5 DEF FirstInv, Undisturbed
    <2>2. \E l \in links' : l.manifest = mid /\ l.pkg = pkg
      <3> DEFINE link == [row |-> LinkRow, manifest |-> mid, pkg |-> pkg]
      <3>1. Linked(upto)
        BY <1>2, <1>5 DEF Undisturbed
      <3>2. (\E l \in links : l.manifest = mid /\ l.pkg = pkg) => links' = links
        BY DEF AddPackage
      <3>3. ~(\E l \in links : l.manifest = mid /\ l.pkg = pkg) => links' = links \union {link}
        BY <3>1 DEF AddPackage
      <3>4. link.manifest = mid /\ link.pkg = pkg
        OBVIOUS
      <3> HIDE DEF link
      <3> QED
        BY <3>2, <3>3, <3>4
    <2>3. LinkedTo(Path)' = LinkedTo(Path) \union {pkg}
      BY <1>1, <1>3, <2>1, <2>2 DEF LinkedTo, Path
    <2> QED
      BY <1>1, <2>1, <2>3 DEF Declared, OnDisk, Path
  <1>6. ASSUME runs = 1, Undisturbed', NEW i \in 1 .. at - 1
        PROVE  (LinkedTo(Order[i]) = Declared(Order[i]))'
    <2>1. Undisturbed
      BY <1>1, <1>2, <1>6 DEF Undisturbed
    <2>2. \A l \in links' : l.manifest \in Ids
      BY <1>3 DEF Inv, ForeignKeys
    <2>3. \A l : l.manifest # mid => (l \in links' <=> l \in links)
      BY <1>3
    <2> QED
      BY <1>1, <1>6, <2>1, <2>2, <2>3, BehindKeeps
  <1> QED
    BY <1>1, <1>2, <1>4, <1>5, <1>6 DEF FirstInv, FirstRunExact, Undisturbed, Indexed, Path

\* The first run has nothing to prune: it met all it stored.
LEMMA PruneFirst ==
    ASSUME TypeInv, FirstInv, NEW p \in Paths, PruneOne(p)
    PROVE  FirstInv'
  <1>1. pc = "prune" /\ pc' = pc /\ runs' = runs /\ p \in Indexed \ walked
    BY DEF PruneOne, Stale, process
  <1>2. runs # 0 /\ runs # 1
    BY <1>1 DEF FirstInv
  <1> QED
    BY <1>1, <1>2 DEF FirstInv, FirstRunExact

LEMMA FinishFirst ==
    ASSUME Inv, FirstInv, Finish
    PROVE  FirstInv'
  <1>1. UNCHANGED <<files, rows, links, runs, clean, quiet>> /\ pc = "finish" /\ pc' = "idle"
    BY DEF Finish, Stop, disk, tables, history
  <1>2. ASSUME runs = 1, Undisturbed, NEW p \in Paths
        PROVE  Exact(p)
    <2>1. at = Len(Order) + 1
      BY <1>1 DEF Inv, WalkedSoFar
    <2>2. PICK i \in 1 .. Len(Order) : Order[i] = p
      BY OrderIsAWalk
    <2>3. LinkedTo(p) = Declared(p)
      BY <1>1, <1>2, <2>1, <2>2, OrderIsAWalk DEF FirstInv
    <2> QED
      BY <2>3 DEF Exact, LinkedTo, Declared, OnDisk
  <1>3. FirstRunExact'
    BY <1>1, <1>2 DEF FirstRunExact, Undisturbed, Exact
  <1>4. runs # 0
    BY <1>1 DEF FirstInv
  <1> QED
    BY <1>1, <1>3, <1>4 DEF FirstInv

\* Cache prune leaves manifests and links as they are.
LEMMA CachePruneFirst ==
    ASSUME FirstInv, NEW taken, CachePrune(taken)
    PROVE  FirstInv'
  BY DEF CachePrune, disk, process, history, FirstInv, FirstRunExact, Undisturbed, LinkedTo,
         Declared, OnDisk, Exact, Ahead, Indexed, Path

LEMMA FirstNext == Inv /\ TypeInv /\ TreeInv /\ FirstInv /\ [Next]_vars => FirstInv'
  <1> SUFFICES ASSUME Inv, TypeInv, TreeInv, FirstInv, [Next]_vars PROVE FirstInv'
    OBVIOUS
  <1>1. CASE Next
    BY <1>1, FirstOutside, WalkFirst, StayFirst, UpsertFirst, ClearFirst, AddPackageFirst,
       PruneFirst, FinishFirst, CachePruneFirst DEF Next, Run
  <1>2. CASE UNCHANGED vars
    BY <1>2 DEF vars, disk, tables, process, history, FirstInv, FirstRunExact, Undisturbed,
                LinkedTo, Declared, OnDisk, Exact, Ahead, Indexed, Path
  <1> QED
    BY <1>1, <1>2

LEMMA FirstHolds == Spec => []FirstInv
  BY BothHold, TreeHolds, FirstInit, FirstNext, PTL DEF Spec

\* The first run on a new database, when it ends without an error over a tree
\* that stands still, links to each manifest exactly the packages it declares.
THEOREM FirstRunIsExact == Spec => []FirstRunExact
  <1>1. FirstInv => FirstRunExact
    BY DEF FirstInv
  <1> QED
    BY FirstHolds, <1>1, PTL
=============================================================================
