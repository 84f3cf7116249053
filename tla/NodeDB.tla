------------------------------- MODULE NodeDB -------------------------------
(***************************************************************************)
(* The nodes table of the metadata database (src/db/node.go), as the       *)
(* values its functions take and return.  A caller module keeps the table  *)
(* in one variable and applies InsertNode inside its own steps.            *)
(*                                                                         *)
(* A row is [id, node]: the id SQLite's autoincrement gave it and the node *)
(* (its server and local index, one model value).  The rows of other       *)
(* testnets are left out: every query here filters them away.              *)
(*                                                                         *)
(* locked records a transaction InsertNode abandoned after a failed Exec   *)
(* that had taken SQLite's write lock: it is never committed nor rolled    *)
(* back, so its connection keeps the lock for the life of the process.     *)
(***************************************************************************)
EXTENDS Integers, Sequences

\* The table as the earlier inserts of seq left it, ids 1, 2, ...
NewNodeDB(seq) ==
  [rows |-> [i \in DOMAIN seq |-> [id |-> i, node |-> seq[i]]],
   nextId |-> Len(seq) + 1,
   locked |-> FALSE]

(* What InsertNode(node) returns: the table after it, the id and whether   *)
(* the error is non-nil.                                                   *)
Result(ndb, id, err) == [db |-> ndb, id |-> id, err |-> err]

\* db.Begin() or tx.Prepare(...) fails: -1 and the error; nothing written.
InsertFailsEarly(ndb) == Result(ndb, -1, TRUE)

(* stmt.Exec fails: "return -1, nil".  The transaction stays open; if the  *)
(* failed INSERT had taken the write lock, the lock stays taken.           *)
InsertExecFails(ndb) ==
  {Result([ndb EXCEPT !.locked = l], -1, FALSE) : l \in {ndb.locked, TRUE}}

(* Exec succeeds, tx.Commit() (its error ignored), res.LastInsertId(): the *)
(* new row has the next id.                                                *)
InsertCommits(ndb, node) ==
  Result([ndb EXCEPT !.rows = Append(@, [id |-> ndb.nextId, node |-> node]),
                     !.nextId = @ + 1],
         ndb.nextId, FALSE)

(* Exec succeeds but tx.Commit() fails, and its error is dropped: the      *)
(* transaction is rolled back when its connection closes, so the row is   *)
(* gone, yet LastInsertId gives the id Exec assigned and InsertNode        *)
(* returns (id, nil).  Whether that id is handed out again depends on the *)
(* table's AUTOINCREMENT, which is declared outside src/: either.         *)
InsertCommitFails(ndb) ==
  {Result([ndb EXCEPT !.nextId = n], ndb.nextId, FALSE) : n \in {ndb.nextId, ndb.nextId + 1}}

\* Whether the InsertNode that returned r added its row to ndb.
Stored(ndb, r) == Len(r.db.rows) > Len(ndb.rows)

(* Every outcome of InsertNode.  While an abandoned transaction holds the  *)
(* write lock, the INSERT of any other connection fails ("database is      *)
(* locked"), which takes the Exec error path.                              *)
InsertNode(ndb, node) ==
  IF ndb.locked
  THEN {InsertFailsEarly(ndb)} \cup InsertExecFails(ndb)
  ELSE {InsertCommits(ndb, node), InsertFailsEarly(ndb)} \cup InsertExecFails(ndb)
       \cup InsertCommitFails(ndb)

(* GetAllNodesByTestNet: SELECT without ORDER BY, which SQLite answers in  *)
(* rowid order, i.e. by id.  The nodes, in that order.                     *)
RECURSIVE ByIdFrom(_, _)
ByIdFrom(rs, above) ==
  LET later == {i \in DOMAIN rs : rs[i].id > above}
  IN IF later = {} THEN << >>
     ELSE LET i == CHOOSE i \in later : \A j \in later : rs[i].id <= rs[j].id
          IN <<rs[i].node>> \o ByIdFrom(rs, rs[i].id)

GetAllNodesByTestNet(ndb) == ByIdFrom(ndb.rows, 0)

=============================================================================
