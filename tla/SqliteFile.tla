------------------------------ MODULE SqliteFile ------------------------------
(***************************************************************************)
(* A database file of the vendored SQLite 3.7.13, in its default rollback  *)
(* journal mode without a busy handler, shared by the connections of       *)
(* several processes.  Operators only: a file is a record, its content a   *)
(* value.                                                                  *)
(*                                                                         *)
(*   disk     the committed content                                        *)
(*   owner    the process whose connection holds RESERVED, or NoOwner      *)
(*   work     what the owner sees: disk with its uncommitted writes        *)
(*   pending  the owner holds PENDING, after an END that met a reader      *)
(*   intx     the processes between BEGIN and END (autocommit off)         *)
(*   shared   the readers and processes that hold SHARED; the SHARED lock  *)
(*            below RESERVED is not listed                                 *)
(*                                                                         *)
(* EXCLUSIVE is held only within a commit, which is one step: the journal  *)
(* makes it atomic, and a reader arriving meanwhile is one arriving later. *)
(***************************************************************************)
EXTENDS FiniteSets

CONSTANT NoOwner

NewFile(c) ==
    [disk |-> c, work |-> c, owner |-> NoOwner, pending |-> FALSE,
     intx |-> {}, shared |-> {}]

\* What a connection of p reads.
Seen(f, p) == IF f.owner = p THEN f.work ELSE f.disk

\* SHARED is granted unless another connection holds PENDING.
Readable(f, p) == f.pending => f.owner = p

\* RESERVED is granted on top of it unless another connection holds it.
Writable(f, p) == Readable(f, p) /\ f.owner \in {NoOwner, p}

\* A write statement of the connection of p, which leaves content c, perhaps
\* the same as before.
Written(f, p, c) == [f EXCEPT !.owner = p, !.work = c]

\* A write transaction needs EXCLUSIVE, whether or not it has changed a page,
\* and a reader prevents that.
Committable(f, p) == f.owner = p => f.shared \subseteq {p}

Committed(f, p) ==
    IF f.owner = p
    THEN [f EXCEPT !.disk = f.work, !.owner = NoOwner, !.pending = FALSE]
    ELSE f

\* Mutant of RolledBack: the cached pages of the transaction survive it.
RolledBackDirty(f, p) ==
    IF f.owner = p
    THEN [f EXCEPT !.owner = NoOwner, !.pending = FALSE]
    ELSE f

\* The file as the last commit left it.
RolledBack(f, p) ==
    IF f.owner = p
    THEN [f EXCEPT !.work = f.disk, !.owner = NoOwner, !.pending = FALSE]
    ELSE f

\* The end of a write statement: autocommit commits it, or rolls it back when
\* a reader prevents that; within BEGIN ... END nothing happens.
StatementEnds(f, p) == p \in f.intx \/ Committable(f, p)

AfterStatement(f, p) == IF p \in f.intx THEN f ELSE Committed(f, p)

Begun(f, p) == [f EXCEPT !.intx = @ \cup {p}]

\* COMMIT; when a reader prevents it the transaction stays open.
Ended(f, p) == [Committed(f, p) EXCEPT !.intx = @ \ {p}]

EndRefused(f, p) == [f EXCEPT !.pending = TRUE]

\* The connection is closed, or its process dies.
Closed(f, p) ==
    [RolledBack(f, p) EXCEPT !.intx = @ \ {p}, !.shared = @ \ {p}]

Sharing(f, r) == [f EXCEPT !.shared = @ \cup {r}]

Unsharing(f, r) == [f EXCEPT !.shared = @ \ {r}]
===============================================================================
