----------------------------- MODULE DecodeStore -----------------------------
(***************************************************************************)
(* DecodeStore (runtime/decode_store.py): decoder states on disk.  A state *)
(* is staged as row pages, shared with other states, and a manifest;       *)
(* commit writes an index of all published states and returns its head,    *)
(* which the caller keeps: the disk never nominates one.  Files are synced *)
(* when written, their names only when commit syncs the directory: a crash *)
(* may lose the names of the others.  A row page is named by its prefix,   *)
(* so staging other rows under a path that is known (it raises, and leaves *)
(* their pages as orphans) is left out.                                    *)
(***************************************************************************)
EXTENDS Naturals, Sequences, FiniteSets, Functions

CONSTANTS
  Path,         \* executed token paths that are staged
  MaxNodes, MaxStaged, MaxPages, MaxFiles,   \* limits of the store
  MaxRevision,  \* bound of revisions
  MaxCreated,   \* bound: files ever created
  NoHead          \* no head, no commit under way

ASSUME StoreAssumption ==
  /\ MaxNodes \in Nat /\ MaxStaged \in Nat /\ MaxPages \in Nat /\ MaxFiles \in Nat
  /\ MaxRevision \in Nat /\ MaxCreated \in Nat
  /\ Path \subseteq Seq(Nat)
  /\ NoHead \notin [revision : Nat, file : Nat] \cup [tickets : SUBSET Nat, head : [revision : Nat, file : Nat]]

VARIABLES
  disk,      \* file -> its content
  synced,    \* files whose names survive a crash
  created,   \* names drawn so far
  open,      \* a process holds the writer lock
  nodes, pages, staged, pending, head,    \* the store's memory
  commit,    \* a commit between its index and its publication
  heads      \* heads that commit has returned

memory == <<nodes, pages, staged, pending, head>>
storeVars == <<disk, synced, created, open, nodes, pages, staged, pending, head, commit, heads>>

Nothing == <<>>

StoreInit ==
  /\ disk = Nothing /\ synced = {} /\ created = 0 /\ open = TRUE
  /\ nodes = Nothing /\ pages = Nothing /\ staged = Nothing /\ pending = Nothing
  /\ head = NoHead /\ commit = NoHead /\ heads = {}

Rows(path) == {SubSeq(path, 1, n) : n \in 1 .. Len(path)}
AllPages == [p \in DOMAIN pages \cup DOMAIN pending |-> IF p \in DOMAIN pending THEN pending[p] ELSE pages[p]]
Merge(f, g) == [x \in DOMAIN f \cup DOMAIN g |-> IF x \in DOMAIN g THEN g[x] ELSE f[x]]

Ready == open /\ commit = NoHead
\* _disk_bound: orphans count.
Room(files) == Cardinality(DOMAIN disk) + files <= MaxFiles /\ created + files <= MaxCreated

-----------------------------------------------------------------------------
(* stage.                                                                  *)

Known(path) == path \in DOMAIN nodes \/ \E t \in DOMAIN staged : staged[t].path = path
NewRows(path) == Rows(path) \ DOMAIN AllPages
NodeCount(path) == Cardinality(DOMAIN nodes \cup {staged[t].path : t \in DOMAIN staged} \cup {path})

\* The new pages, in some order, under the next names.
Named(rows) ==
  {f \in [rows -> created + 1 .. created + Cardinality(rows)] : IsInjective(f)}

PageFiles(f) == [file \in Range(f) |-> [kind |-> "page", row |-> CHOOSE r \in DOMAIN f : f[r] = file]]

\* All bounds are asked before anything is written; a known path adds nothing.
Stageable(path) ==
  /\ Ready /\ ~Known(path) /\ Cardinality(DOMAIN staged) < MaxStaged
  /\ NodeCount(path) <= MaxNodes
  /\ Cardinality(DOMAIN AllPages \cup Rows(path)) <= MaxPages
  /\ Room(Cardinality(NewRows(path)) + 1)

StageState(path) ==
  /\ Stageable(path)
  /\ LET f == CHOOSE g \in Named(NewRows(path)) : TRUE
         ticket == created + Cardinality(NewRows(path)) + 1
     IN /\ disk' = Merge(Merge(disk, PageFiles(f)), [t \in {ticket} |-> [kind |-> "node", path |-> path]])
        /\ created' = ticket
        /\ staged' = Merge(staged, [t \in {ticket} |-> [path |-> path]])
        /\ pending' = Merge(pending, f)
  /\ UNCHANGED <<synced, open, nodes, pages, head, commit, heads>>

\* A write fails: the pages before it and what was written of the file itself
\* stay as orphans, and no ticket escapes.
StageFails(path) ==
  /\ Stageable(path)
  /\ \E n \in 0 .. Len(path), torn \in {0, 1} :
       LET rows == {r \in NewRows(path) : Len(r) <= n}
           f == CHOOSE g \in Named(rows) : TRUE
           last == created + Cardinality(rows)
       IN /\ disk' = Merge(Merge(disk, PageFiles(f)),
                           [file \in last + 1 .. last + torn |-> [kind |-> "torn"]])
          /\ created' = last + torn
  /\ UNCHANGED <<memory, synced, open, commit, heads>>

-----------------------------------------------------------------------------
(* discard, commit and rollback.                                           *)

\* A staged state may use pages that a discarded one brought: the pool is
\* kept as long as anything is staged.
Kept(left, published) == IF left = {} THEN Nothing ELSE Restrict(pending, DOMAIN pending \ published)

Discarded(tickets, published) ==
  LET left == DOMAIN staged \ tickets IN
  staged' = Restrict(staged, left) /\ pending' = Kept(left, published)

\* Also what a commit does that a limit refuses.
Discard(tickets) ==
  /\ Ready /\ tickets # {} /\ Discarded(tickets, DOMAIN pages)
  /\ UNCHANGED <<disk, synced, created, open, nodes, pages, head, commit, heads>>

NextRevision == IF head = NoHead THEN 0 ELSE head.revision + 1
\* What the index of a commit of these tickets publishes.
IndexNodes(tickets) ==
  Merge(nodes, [p \in {staged[t].path : t \in tickets} |-> CHOOSE t \in tickets : staged[t].path = p])
IndexPages(tickets) ==
  Merge(pages, Restrict(AllPages, UNION {Rows(staged[t].path) : t \in tickets}))

\* Manifests are read back against the pool and the index is written.
CommitWrites(tickets) ==
  /\ Ready /\ tickets # {}
  /\ \A t \in tickets : Rows(staged[t].path) \subseteq DOMAIN AllPages
  /\ NextRevision < MaxRevision /\ Room(1)
  /\ created' = created + 1
  /\ disk' = Merge(disk, [f \in {created + 1} |->
       [kind |-> "index", nodes |-> IndexNodes(tickets), pages |-> IndexPages(tickets)]])
  /\ commit' = [tickets |-> tickets, head |-> [revision |-> NextRevision, file |-> created + 1]]
  /\ UNCHANGED <<memory, synced, open, heads>>

\* Mutant of CommitPublishes: the directory is not synced.
CommitUnsynced ==
  /\ open /\ commit # NoHead
  /\ UNCHANGED synced
  /\ nodes' = disk[commit.head.file].nodes /\ pages' = disk[commit.head.file].pages
  /\ head' = commit.head /\ heads' = heads \cup {commit.head}
  /\ Discarded(commit.tickets, DOMAIN pages') /\ commit' = NoHead
  /\ UNCHANGED <<disk, created, open>>

\* The directory is synced; the only publication point.
CommitPublishes ==
  /\ open /\ commit # NoHead
  /\ synced' = DOMAIN disk
  /\ nodes' = disk[commit.head.file].nodes /\ pages' = disk[commit.head.file].pages
  /\ head' = commit.head /\ heads' = heads \cup {commit.head}
  /\ Discarded(commit.tickets, DOMAIN pages') /\ commit' = NoHead
  /\ UNCHANGED <<disk, created, open>>

\* Mutant of CommitFails: the states are in memory already.
CommitFailsLate ==
  /\ open /\ commit # NoHead
  /\ nodes' = disk[commit.head.file].nodes
  /\ Discarded(commit.tickets, DOMAIN pages) /\ commit' = NoHead
  /\ UNCHANGED <<disk, synced, created, open, pages, head, heads>>

\* The sync fails: the index is an orphan and the tickets are gone.
CommitFails ==
  /\ open /\ commit # NoHead
  /\ Discarded(commit.tickets, DOMAIN pages) /\ commit' = NoHead
  /\ UNCHANGED <<disk, synced, created, open, nodes, pages, head, heads>>

\* _restore_head: to nothing, or to a head that is not ahead of this one.
Trusted(previous) ==
  head # NoHead /\ (previous.revision < head.revision \/ previous = head)

RestoreHead(previous) ==
  /\ Ready /\ staged' = Nothing /\ pending' = Nothing
  /\ IF previous = NoHead THEN nodes' = Nothing /\ pages' = Nothing /\ head' = NoHead
     ELSE IF Trusted(previous)
          THEN /\ nodes' = disk[previous.file].nodes /\ pages' = disk[previous.file].pages
               /\ head' = previous
          ELSE UNCHANGED <<nodes, pages, head>>
  /\ UNCHANGED <<disk, synced, created, open, commit, heads>>

-----------------------------------------------------------------------------
(* close, crash and open.                                                  *)

Forgets ==
  /\ open' = FALSE /\ commit' = NoHead /\ head' = NoHead
  /\ nodes' = Nothing /\ pages' = Nothing /\ staged' = Nothing /\ pending' = Nothing

CloseStore == Ready /\ Forgets /\ UNCHANGED <<disk, synced, created, heads>>

Crash ==
  /\ \E lost \in SUBSET (DOMAIN disk \ synced) : disk' = Restrict(disk, DOMAIN disk \ lost)
  /\ Forgets /\ UNCHANGED <<synced, created, heads>>

\* With a head the caller kept; without one the directory has to be new.
OpenStore(h) ==
  /\ ~open /\ open' = TRUE /\ head' = h
  /\ nodes' = disk[h.file].nodes /\ pages' = disk[h.file].pages
  /\ UNCHANGED <<disk, synced, created, staged, pending, commit, heads>>

-----------------------------------------------------------------------------
StoreNext ==
  \/ \E path \in Path : StageState(path) \/ StageFails(path)
  \/ \E tickets \in SUBSET DOMAIN staged : Discard(tickets) \/ CommitWrites(tickets)
  \/ CommitPublishes \/ CommitFails
  \/ (\E h \in heads \cup {NoHead} : RestoreHead(h)) \/ (\E h \in heads : OpenStore(h))
  \/ CloseStore \/ Crash

StoreSpec == StoreInit /\ [][StoreNext]_storeVars
-----------------------------------------------------------------------------
(* Properties.                                                             *)

StoreTypeOK ==
  /\ DOMAIN disk \subseteq 1 .. created /\ created \in 0 .. MaxCreated
  /\ synced \subseteq DOMAIN disk /\ Cardinality(DOMAIN disk) <= MaxFiles
  /\ open \in BOOLEAN /\ Cardinality(DOMAIN staged) <= MaxStaged
  /\ DOMAIN nodes \subseteq Path /\ DOMAIN pages \subseteq UNION {Rows(p) : p \in Path}
  /\ Cardinality(DOMAIN nodes) <= MaxNodes /\ Cardinality(DOMAIN AllPages) <= MaxPages
  /\ \A h \in heads : h.revision \in 0 .. MaxRevision - 1

\* Every page of an index is on disk under its name.
Readable(index) ==
  /\ \A p \in DOMAIN index.nodes : /\ index.nodes[p] \in DOMAIN disk
                                   /\ disk[index.nodes[p]] = [kind |-> "node", path |-> p]
                                   /\ Rows(p) \subseteq DOMAIN index.pages
  /\ \A r \in DOMAIN index.pages : /\ index.pages[r] \in DOMAIN disk
                                   /\ disk[index.pages[r]] = [kind |-> "page", row |-> r]

\* A head that commit has returned can be opened, and all its states read, at
\* any later time: after crashes, failed commits, rollbacks and other heads.
HeadsReadable ==
  \A h \in heads : h.file \in DOMAIN disk /\ disk[h.file].kind = "index" /\ Readable(disk[h.file])

\* A state that is staged can be committed: the rows it shares are there,
\* though the state that brought them was discarded or published meanwhile.
StagedIsBacked ==
  \A t \in DOMAIN staged :
    Rows(staged[t].path) \subseteq DOMAIN AllPages /\ \A r \in Rows(staged[t].path) : AllPages[r] \in DOMAIN disk

\* No name dangles: published heads and staged states find every file they name.
NothingDangles == StoreTypeOK /\ HeadsReadable /\ StagedIsBacked

\* What can be looked up is what the head says, whatever is staged or failed.
OnlyPublished ==
  open => IF head = NoHead THEN nodes = Nothing /\ pages = Nothing
          ELSE nodes = disk[head.file].nodes /\ pages = disk[head.file].pages
=============================================================================
