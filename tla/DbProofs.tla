------------------------------- MODULE DbProofs -------------------------------
(***************************************************************************)
(* Proofs about SqliteFile and Db, for every set of processes and threads, *)
(* every calendar and every starting point.                                *)
(***************************************************************************)
EXTENDS Db, TLAPS

(***************************************************************************)
(* A database file.  C is the set of its contents, X the set of those that *)
(* read it, and R(a, b), as a set of pairs, how a content may grow.        *)
(***************************************************************************)

Files(C, X) ==
    [disk : C, work : C, owner : Procs \cup {NoOwner}, pending : BOOLEAN,
     intx : SUBSET Procs, shared : SUBSET X]

\* The owner has only added to the committed content.
FileInv(f, C, X, R) ==
    /\ f \in Files(C, X)
    /\ f.pending => f.owner # NoOwner
    /\ f.owner = NoOwner => f.work = f.disk
    /\ <<f.disk, f.work>> \in R

PreOrder(R, C) ==
    /\ \A c \in C : <<c, c>> \in R
    /\ \A a, b, c \in C : <<a, b>> \in R /\ <<b, c>> \in R => <<a, c>> \in R

\* What a statement of process p makes of file f; or a rollback.
FileWrite(f, g, p, C, R) ==
    \/ g \in {f, Sharing(f, p), Unsharing(f, p), Begun(f, p), AfterStatement(f, p), Ended(f, p)}
    \/ ~Committable(f, p) /\ g = EndRefused(f, p)
    \/ /\ Writable(f, p)
       /\ \E c \in C :
             /\ <<Seen(f, p), c>> \in R
             /\ g \in {Written(f, p, c), AfterStatement(Written(f, p, c), p)}

FileStep(f, g, p, C, R) ==
    FileWrite(f, g, p, C, R) \/ g \in {RolledBack(f, p), Closed(f, p)}

\* A new file, and the locks that leave its content alone.
LEMMA NewFileInv ==
    ASSUME NEW C, NEW X, NEW R, PreOrder(R, C), NEW c \in C
    PROVE  FileInv(NewFile(c), C, X, R)
BY DEF FileInv, Files, NewFile, PreOrder

LEMMA LockInv ==
    ASSUME NEW C, NEW X, NEW R, NEW f, FileInv(f, C, X, R), NEW x \in X, NEW p \in Procs
    PROVE  /\ FileInv(Sharing(f, x), C, X, R) /\ Sharing(f, x).disk = f.disk
           /\ FileInv(Unsharing(f, x), C, X, R) /\ Unsharing(f, x).disk = f.disk
           /\ FileInv(Begun(f, p), C, X, R) /\ Begun(f, p).disk = f.disk
           /\ ~Committable(f, p) =>
                /\ FileInv(EndRefused(f, p), C, X, R)
                /\ EndRefused(f, p).disk = f.disk
<1>1. FileInv(Sharing(f, x), C, X, R) /\ Sharing(f, x).disk = f.disk
  BY DEF FileInv, Files, Sharing
<1>2. FileInv(Unsharing(f, x), C, X, R) /\ Unsharing(f, x).disk = f.disk
  BY DEF FileInv, Files, Unsharing
<1>3. FileInv(Begun(f, p), C, X, R) /\ Begun(f, p).disk = f.disk
  BY DEF FileInv, Files, Begun
<1>4. ASSUME ~Committable(f, p)
      PROVE  FileInv(EndRefused(f, p), C, X, R) /\ EndRefused(f, p).disk = f.disk
  BY <1>4, DbAssumption DEF FileInv, Files, Committable, EndRefused
<1> QED BY <1>1, <1>2, <1>3, <1>4

\* A write keeps what the writer saw, and disk is not touched before a commit.
LEMMA WrittenInv ==
    ASSUME NEW C, NEW X, NEW R, PreOrder(R, C), NEW f, FileInv(f, C, X, R),
           NEW p \in Procs, Writable(f, p), NEW c \in C, <<Seen(f, p), c>> \in R
    PROVE  FileInv(Written(f, p, c), C, X, R) /\ Written(f, p, c).disk = f.disk
<1>1. /\ Written(f, p, c) \in Files(C, X)
      /\ Written(f, p, c).disk = f.disk
      /\ Written(f, p, c).work = c
      /\ Written(f, p, c).owner = p
      /\ Written(f, p, c).pending = f.pending
  BY DEF FileInv, Files, Written
<1>2. <<f.disk, c>> \in R
  BY DEF FileInv, Files, PreOrder, Seen, Writable
<1> QED BY <1>1, <1>2, DbAssumption DEF FileInv

LEMMA CommittedInv ==
    ASSUME NEW C, NEW X, NEW R, PreOrder(R, C), NEW f, FileInv(f, C, X, R), NEW p \in Procs
    PROVE  /\ FileInv(Committed(f, p), C, X, R)
           /\ <<f.disk, Committed(f, p).disk>> \in R
BY DbAssumption DEF FileInv, Files, Committed, PreOrder

LEMMA RolledBackInv ==
    ASSUME NEW C, NEW X, NEW R, PreOrder(R, C), NEW f, FileInv(f, C, X, R), NEW p \in Procs
    PROVE  FileInv(RolledBack(f, p), C, X, R) /\ RolledBack(f, p).disk = f.disk
BY DbAssumption DEF FileInv, Files, RolledBack, PreOrder

LEMMA AfterStatementInv ==
    ASSUME NEW C, NEW X, NEW R, PreOrder(R, C), NEW f, FileInv(f, C, X, R), NEW p \in Procs
    PROVE  /\ FileInv(AfterStatement(f, p), C, X, R)
           /\ <<f.disk, AfterStatement(f, p).disk>> \in R
<1>1. AfterStatement(f, p) \in {f, Committed(f, p)}
  BY DEF AfterStatement
<1>2. <<f.disk, f.disk>> \in R
  BY DEF FileInv, Files, PreOrder
<1>3. /\ FileInv(Committed(f, p), C, X, R)
      /\ <<f.disk, Committed(f, p).disk>> \in R
  BY CommittedInv
<1> QED BY <1>1, <1>2, <1>3

\* The end of a transaction and of a connection also change intx and shared.
LEMMA EndedInv ==
    ASSUME NEW C, NEW X, NEW R, PreOrder(R, C), NEW f, FileInv(f, C, X, R), NEW p \in Procs
    PROVE  /\ FileInv(Ended(f, p), C, X, R)
           /\ <<f.disk, Ended(f, p).disk>> \in R
<1> DEFINE g == Committed(f, p)
<1>1. FileInv(g, C, X, R) /\ <<f.disk, g.disk>> \in R
  BY CommittedInv
<1>2. Ended(f, p) = [g EXCEPT !.intx = @ \ {p}]
  BY DEF Ended
<1> HIDE DEF g
<1> QED BY <1>1, <1>2 DEF FileInv, Files

LEMMA ClosedInv ==
    ASSUME NEW C, NEW X, NEW R, PreOrder(R, C), NEW f, FileInv(f, C, X, R), NEW p \in Procs
    PROVE  FileInv(Closed(f, p), C, X, R) /\ Closed(f, p).disk = f.disk
<1> DEFINE g == RolledBack(f, p)
<1>1. FileInv(g, C, X, R) /\ g.disk = f.disk
  BY RolledBackInv
<1>2. Closed(f, p) = [g EXCEPT !.intx = @ \ {p}, !.shared = @ \ {p}]
  BY DEF Closed
<1> HIDE DEF g
<1> QED BY <1>1, <1>2 DEF FileInv, Files

\* No statement breaks a file or takes back what is committed in it.
LEMMA FileStepInv ==
    ASSUME NEW C, NEW X, NEW R, PreOrder(R, C), NEW f, FileInv(f, C, X, R),
           NEW p \in Procs, p \in X, NEW g, FileStep(f, g, p, C, R)
    PROVE  FileInv(g, C, X, R) /\ <<f.disk, g.disk>> \in R
<1>1. f.disk \in C /\ <<f.disk, f.disk>> \in R
  BY DEF FileInv, Files, PreOrder
<1>2. CASE g \in {f, Sharing(f, p), Unsharing(f, p), Begun(f, p), AfterStatement(f, p),
                  Ended(f, p), RolledBack(f, p), Closed(f, p)}
  <2>1. CASE g = f
    BY <1>1, <2>1
  <2>2. CASE g \in {Sharing(f, p), Unsharing(f, p), Begun(f, p)}
    BY <1>1, <2>2, LockInv
  <2>3. CASE g = AfterStatement(f, p)
    BY <2>3, AfterStatementInv
  <2>4. CASE g = Ended(f, p)
    BY <2>4, EndedInv
  <2>5. CASE g = RolledBack(f, p)
    BY <1>1, <2>5, RolledBackInv
  <2>6. CASE g = Closed(f, p)
    BY <1>1, <2>6, ClosedInv
  <2> QED BY <1>2, <2>1, <2>2, <2>3, <2>4, <2>5, <2>6
<1>3. CASE ~Committable(f, p) /\ g = EndRefused(f, p)
  BY <1>1, <1>3, LockInv
<1>4. ASSUME Writable(f, p), NEW c \in C, <<Seen(f, p), c>> \in R,
             g \in {Written(f, p, c), AfterStatement(Written(f, p, c), p)}
      PROVE  FileInv(g, C, X, R) /\ <<f.disk, g.disk>> \in R
  <2> DEFINE w == Written(f, p, c)
  <2>1. FileInv(w, C, X, R) /\ w.disk = f.disk
    BY <1>4, WrittenInv
  <2>2. g \in {w, AfterStatement(w, p)}
    BY <1>4
  <2> HIDE DEF w
  <2>3. /\ FileInv(AfterStatement(w, p), C, X, R)
        /\ <<w.disk, AfterStatement(w, p).disk>> \in R
    BY <2>1, AfterStatementInv
  <2>4. CASE g = w
    BY <1>1, <2>1, <2>4
  <2>5. CASE g = AfterStatement(w, p)
    BY <2>1, <2>3, <2>5
  <2> QED BY <2>2, <2>4, <2>5
<1> QED BY <1>2, <1>3, <1>4 DEF FileStep, FileWrite

\* A statement of p leaves what another process q sees, its reservation and
\* its transaction, but for what p commits.
LEMMA FileStepOther ==
    ASSUME NEW C, NEW X, NEW R, PreOrder(R, C), NEW f, FileInv(f, C, X, R),
           NEW p \in Procs, p \in X, NEW g, FileStep(f, g, p, C, R),
           NEW q \in Procs, q # p
    PROVE  /\ f.owner = q <=> g.owner = q
           /\ f.owner = q => g.work = f.work /\ g.disk = f.disk
           /\ q \in f.intx <=> q \in g.intx
           /\ <<Seen(f, q), Seen(g, q)>> \in R
<1>1. FileInv(g, C, X, R) /\ <<f.disk, g.disk>> \in R
  BY FileStepInv
<1> SUFFICES /\ f.owner = q <=> g.owner = q
             /\ f.owner = q => g.work = f.work /\ g.disk = f.disk
             /\ q \in f.intx <=> q \in g.intx
  BY <1>1 DEF Seen, FileInv, Files, PreOrder
<1>2. CASE g \in {f, Sharing(f, p), Unsharing(f, p), Begun(f, p), AfterStatement(f, p),
                  RolledBack(f, p)}
  <2> USE DbAssumption DEF FileInv, Files
  <2>1. CASE g \in {f, Sharing(f, p), Unsharing(f, p)}
    BY <2>1 DEF Sharing, Unsharing
  <2>2. CASE g = Begun(f, p)
    BY <2>2 DEF Begun
  <2>3. CASE g = AfterStatement(f, p)
    BY <2>3 DEF AfterStatement, Committed
  <2>4. CASE g = RolledBack(f, p)
    BY <2>4 DEF RolledBack
  <2> QED BY <1>2, <2>1, <2>2, <2>3, <2>4
<1>3. CASE g = Ended(f, p)
  <2> DEFINE h == Committed(f, p)
  <2>1. h \in Files(C, X) /\ g = [h EXCEPT !.intx = @ \ {p}]
    BY <1>3, CommittedInv DEF Ended, FileInv
  <2>2. /\ f.owner = q <=> h.owner = q
        /\ f.owner = q => h.work = f.work /\ h.disk = f.disk
        /\ h.intx = f.intx
    BY DbAssumption DEF Committed, FileInv, Files
  <2> HIDE DEF h
  <2> QED BY <2>1, <2>2 DEF Files
<1>4. CASE g = Closed(f, p)
  <2> DEFINE h == RolledBack(f, p)
  <2>1. h \in Files(C, X) /\ g = [h EXCEPT !.intx = @ \ {p}, !.shared = @ \ {p}]
    BY <1>4, RolledBackInv DEF Closed, FileInv
  <2>2. /\ f.owner = q <=> h.owner = q
        /\ f.owner = q => h.work = f.work /\ h.disk = f.disk
        /\ h.intx = f.intx
    BY DbAssumption DEF RolledBack, FileInv, Files
  <2> HIDE DEF h
  <2> QED BY <2>1, <2>2 DEF Files
<1>5. CASE g = EndRefused(f, p)
  BY <1>5 DEF EndRefused, FileInv, Files
<1>6. ASSUME Writable(f, p), NEW c \in C,
             g \in {Written(f, p, c), AfterStatement(Written(f, p, c), p)}
      PROVE  /\ f.owner # q /\ g.owner # q
             /\ q \in f.intx <=> q \in g.intx
  <2> DEFINE w == Written(f, p, c)
  <2>1. w \in Files(C, X) /\ w.owner = p /\ w.intx = f.intx
    BY DEF Written, FileInv, Files
  <2>2. g \in {w, AfterStatement(w, p)} /\ f.owner # q
    BY <1>6, DbAssumption DEF Writable
  <2> HIDE DEF w
  <2>3. g.owner \in {p, NoOwner} /\ g.intx = f.intx
    BY <2>1, <2>2 DEF AfterStatement, Committed, Files
  <2> QED BY <2>2, <2>3, DbAssumption
<1> QED BY <1>2, <1>3, <1>4, <1>5, <1>6 DEF FileStep, FileWrite

\* The locks of a file where only p is at work; x hold SHARED besides.
HeldBy(f, p, x) == f.owner \in {NoOwner, p} /\ f.shared \subseteq {p} \cup x

LEMMA FileStepHeld ==
    ASSUME NEW C, NEW X, NEW R, PreOrder(R, C), NEW f, FileInv(f, C, X, R),
           NEW p \in Procs, p \in X, NEW g, FileStep(f, g, p, C, R), NEW x, HeldBy(f, p, x)
    PROVE  HeldBy(g, p, x)
<1>1. g.owner \in {NoOwner, p}
  <2>1. g.owner \in Procs \cup {NoOwner}
    <3>1. FileInv(g, C, X, R) /\ <<f.disk, g.disk>> \in R
      BY FileStepInv
    <3> QED BY <3>1 DEF FileInv, Files
  <2>2. ASSUME NEW q \in Procs, q # p PROVE g.owner # q
    <3>1. /\ f.owner = q <=> g.owner = q
          /\ f.owner = q => g.work = f.work /\ g.disk = f.disk
          /\ q \in f.intx <=> q \in g.intx
          /\ <<Seen(f, q), Seen(g, q)>> \in R
      BY <2>2, FileStepOther
    <3> QED BY <2>2, <3>1, DbAssumption DEF HeldBy
  <2> QED BY <2>1, <2>2
<1> SUFFICES g.shared \subseteq f.shared \cup {p}
  BY <1>1 DEF HeldBy
<1>2. CASE g \in {f, Sharing(f, p), Unsharing(f, p), Begun(f, p), AfterStatement(f, p),
                  RolledBack(f, p), EndRefused(f, p)}
  <2>1. f \in Files(C, X)
    BY DEF FileInv
  <2>2. CASE g \in {f, Sharing(f, p), Unsharing(f, p)}
    BY <2>1, <2>2 DEF Sharing, Unsharing, Files
  <2>3. CASE g \in {Begun(f, p), EndRefused(f, p)}
    BY <2>1, <2>3 DEF Begun, EndRefused, Files
  <2>4. CASE g \in {AfterStatement(f, p), RolledBack(f, p)}
    BY <2>1, <2>4 DEF AfterStatement, Committed, RolledBack, Files
  <2> QED BY <1>2, <2>2, <2>3, <2>4
<1>3. CASE g = Ended(f, p)
  <2> DEFINE h == Committed(f, p)
  <2>1. h \in Files(C, X) /\ g = [h EXCEPT !.intx = @ \ {p}]
    BY <1>3, CommittedInv DEF Ended, FileInv
  <2>2. h.shared = f.shared
    BY DEF Committed, FileInv, Files
  <2> HIDE DEF h
  <2> QED BY <2>1, <2>2 DEF Files
<1>4. CASE g = Closed(f, p)
  <2> DEFINE h == RolledBack(f, p)
  <2>1. h \in Files(C, X) /\ g = [h EXCEPT !.intx = @ \ {p}, !.shared = @ \ {p}]
    BY <1>4, RolledBackInv DEF Closed, FileInv
  <2>2. h.shared = f.shared
    BY DEF RolledBack, FileInv, Files
  <2> HIDE DEF h
  <2> QED BY <2>1, <2>2 DEF Files
<1>5. ASSUME NEW c \in C,
             g \in {Written(f, p, c), AfterStatement(Written(f, p, c), p)}
      PROVE  g.shared = f.shared
  <2> DEFINE w == Written(f, p, c)
  <2>1. w \in Files(C, X) /\ w.shared = f.shared
    BY DEF Written, FileInv, Files
  <2>2. g \in {w, AfterStatement(w, p)}
    BY <1>5
  <2> HIDE DEF w
  <2> QED BY <2>1, <2>2 DEF AfterStatement, Committed, Files
<1> QED BY <1>2, <1>3, <1>4, <1>5 DEF FileStep, FileWrite

\* What each statement of p makes of the transaction, the lock and the view of p.
LEMMA Locks ==
    ASSUME NEW C, NEW X, NEW R, NEW f, FileInv(f, C, X, R), NEW p \in Procs
    PROVE  /\ \A g \in {f, Sharing(f, p), Unsharing(f, p), EndRefused(f, p)} :
                 g.owner = f.owner /\ g.intx = f.intx /\ Seen(g, p) = Seen(f, p)
           /\ LET g == Begun(f, p) IN
                 g.owner = f.owner /\ g.intx = f.intx \cup {p} /\ Seen(g, p) = Seen(f, p)
           /\ LET g == AfterStatement(f, p) IN
                 /\ g.owner = p => p \in g.intx
                 /\ g.intx = f.intx /\ Seen(g, p) = Seen(f, p)
           /\ LET g == Ended(f, p) IN
                 g.owner # p /\ g.intx = f.intx \ {p} /\ Seen(g, p) = Seen(f, p)
           /\ LET g == Closed(f, p) IN
                 /\ g.owner # p /\ g.intx = f.intx \ {p}
                 /\ f.owner # p => Seen(g, p) = Seen(f, p)
<1>1. f \in Files(C, X) /\ p # NoOwner /\ (f.owner = NoOwner => f.work = f.disk)
  BY DbAssumption DEF FileInv
<1>2. \A g \in {f, Sharing(f, p), Unsharing(f, p), EndRefused(f, p)} :
        g.owner = f.owner /\ g.intx = f.intx /\ Seen(g, p) = Seen(f, p)
  BY <1>1 DEF Files, Seen, Sharing, Unsharing, EndRefused
<1>3. LET g == Begun(f, p) IN
        g.owner = f.owner /\ g.intx = f.intx \cup {p} /\ Seen(g, p) = Seen(f, p)
  BY <1>1 DEF Files, Seen, Begun
<1>4. LET g == Committed(f, p) IN
        g.owner # p /\ g.intx = f.intx /\ Seen(g, p) = Seen(f, p) /\ g \in Files(C, X)
  BY <1>1 DEF Files, Seen, Committed
<1>5. LET g == RolledBack(f, p) IN
        /\ g.owner # p /\ g.intx = f.intx /\ g \in Files(C, X)
        /\ f.owner # p => Seen(g, p) = Seen(f, p)
  BY <1>1 DEF Files, Seen, RolledBack
<1>6. LET g == AfterStatement(f, p) IN
        /\ g.owner = p => p \in g.intx
        /\ g.intx = f.intx /\ Seen(g, p) = Seen(f, p)
  BY <1>4 DEF AfterStatement
<1>7. LET g == Ended(f, p) IN
        g.owner # p /\ g.intx = f.intx \ {p} /\ Seen(g, p) = Seen(f, p)
  BY <1>4 DEF Ended, Seen, Files
<1>8. LET g == Closed(f, p) IN
        /\ g.owner # p /\ g.intx = f.intx \ {p}
        /\ f.owner # p => Seen(g, p) = Seen(f, p)
  BY <1>5 DEF Closed, Seen, Files
<1> QED BY <1>2, <1>3, <1>6, <1>7, <1>8

LEMMA WriteLocks ==
    ASSUME NEW C, NEW X, NEW R, NEW f, FileInv(f, C, X, R), NEW p \in Procs,
           NEW c \in C
    PROVE  LET w == Written(f, p, c)
               g == AfterStatement(w, p)
           IN  /\ w.owner = p /\ w.intx = f.intx /\ Seen(w, p) = c
               /\ g.owner = p => p \in g.intx
               /\ g.intx = f.intx /\ Seen(g, p) = c
<1> DEFINE w == Written(f, p, c)
<1>1. p # NoOwner
  BY DbAssumption
<1>2. /\ w \in Files(C, X)
      /\ w.owner = p /\ w.intx = f.intx /\ w.work = c /\ Seen(w, p) = c
  BY DEF FileInv, Files, Written, Seen
<1> HIDE DEF w
<1>3. LET g == AfterStatement(w, p) IN
        /\ g.owner = p => p \in g.intx
        /\ g.intx = w.intx /\ Seen(g, p) = c
  <2>1. CASE p \in w.intx
    BY <1>2, <2>1 DEF AfterStatement
  <2>2. CASE p \notin w.intx
    BY <1>1, <1>2, <2>2 DEF AfterStatement, Committed, Seen, Files
  <2> QED BY <2>1, <2>2
<1> QED BY <1>2, <1>3 DEF w

\* Every statement that creates an object succeeds on such a file.
LEMMA CreateDone ==
    ASSUME NEW C, NEW X, NEW R, NEW f, FileInv(f, C, X, R), NEW p \in Procs,
           HeldBy(f, p, {}), NEW o, o \notin made
    PROVE  CreateOutcome(f, o, p, TRUE) = "done"
<1> DEFINE w == Written(f, p, Seen(f, p))
<1>1. Readable(f, p) /\ Writable(f, p)
  BY DEF FileInv, HeldBy, Readable, Writable
<1>2. w.shared = f.shared
  BY DEF Written, FileInv, Files
<1>3. StatementEnds(w, p)
  BY <1>2 DEF HeldBy, StatementEnds, Committable
<1> QED BY <1>1, <1>3 DEF CreateOutcome

(***************************************************************************)
(* The two files and their tables.                                         *)
(***************************************************************************)

\* Rows, counts and statuses are only ever added.
RowsGrow == {r \in (SUBSET Minutes) \X (SUBSET Minutes) : r[1] \subseteq r[2]}

StatGrows == {r \in Content \X Content :
                 /\ \A c \in Cells : r[1].count[c] <= r[2].count[c]
                 /\ r[1].complete \subseteq r[2].complete}

\* The part of it that leaves every count alone.
StatMarks == {r \in StatGrows : r[1].count = r[2].count}

MainInv == FileInv(main, SUBSET Minutes, Procs, RowsGrow)

StatInv(X) == FileInv(stat, Content, X, StatGrows)

LEMMA RowsGrowOrder == PreOrder(RowsGrow, SUBSET Minutes)
BY DEF PreOrder, RowsGrow

LEMMA StatGrowsOrder == PreOrder(StatGrows, Content)
<1>1. ASSUME NEW c \in Content PROVE <<c, c>> \in StatGrows
  BY DEF Content, StatGrows
<1>2. ASSUME NEW a \in Content, NEW b \in Content, NEW c \in Content,
             <<a, b>> \in StatGrows, <<b, c>> \in StatGrows
      PROVE  <<a, c>> \in StatGrows
  <2>1. a.complete \subseteq c.complete
    BY <1>2 DEF StatGrows
  <2>2. ASSUME NEW q \in Cells PROVE a.count[q] <= c.count[q]
    <3>1. a.count[q] \in Nat /\ b.count[q] \in Nat /\ c.count[q] \in Nat
      BY DEF Content
    <3>2. a.count[q] <= b.count[q] /\ b.count[q] <= c.count[q]
      BY <1>2 DEF StatGrows
    <3> QED BY <3>1, <3>2
  <2> QED BY <2>1, <2>2 DEF StatGrows
<1> QED BY <1>1, <1>2 DEF PreOrder

\* One more record in the row of minute m, and the marking of full rows.
LEMMA CountedGrows ==
    ASSUME NEW s \in Content, NEW l \in Levels, NEW m \in Minutes
    PROVE  /\ [s EXCEPT !.count = CountedIn(s.count, l, m)] \in Content
           /\ <<s, [s EXCEPT !.count = CountedIn(s.count, l, m)]>> \in StatGrows
<1>1. Cell(l, m) \in Cells
  BY DEF Cells, Cell
<1>2. s.count \in [Cells -> Nat]
  BY DEF Content
<1>3. CountedIn(s.count, l, m) \in [Cells -> Nat]
  BY <1>1, <1>2 DEF CountedIn
<1>4. \A c \in Cells : s.count[c] <= CountedIn(s.count, l, m)[c]
  BY <1>1, <1>2 DEF CountedIn
<1> QED BY <1>3, <1>4 DEF Content, StatGrows

LEMMA MarkedMarks ==
    ASSUME NEW s \in Content, NEW l
    PROVE  /\ [s EXCEPT !.complete = MarkedIn(s.count, @, l)] \in Content
           /\ <<s, [s EXCEPT !.complete = MarkedIn(s.count, @, l)]>> \in StatMarks
<1>1. MarkedIn(s.count, s.complete, l) \in SUBSET Cells
  BY DEF MarkedIn, Matching, Content
<1>2. s.complete \subseteq MarkedIn(s.count, s.complete, l)
  BY DEF MarkedIn
<1> QED BY <1>1, <1>2 DEF Content, StatGrows, StatMarks

\* What a process sees of a file is a content.
LEMMA SeenType ==
    ASSUME NEW C, NEW X, NEW R, NEW f, FileInv(f, C, X, R), NEW p
    PROVE  Seen(f, p) \in C
BY DEF FileInv, Files, Seen

(***************************************************************************)
(* Where the threads are.                                                  *)
(***************************************************************************)

\* Where db_insert_hist is past db_open.
Inserting == {"check", "exec", "refused_main"} \cup Trigger

ThreadsInv ==
    /\ at \in [Threads -> Steps]
    /\ arg \in [Threads -> Minutes \cup {NoMinute}]
    /\ \A t \in Threads : at[t] \in Inserting => arg[t] \in Minutes

LEMMA GotoInv ==
    ASSUME ThreadsInv, NEW t \in Threads, NEW s \in Steps, Goto(t, s),
           s \in Inserting => arg[t] \in Minutes
    PROVE  ThreadsInv'
<1>1. at' \in [Threads -> Steps]
  BY DEF ThreadsInv, Goto
<1>2. arg' \in [Threads -> Minutes \cup {NoMinute}]
  BY DEF ThreadsInv, Goto
<1>3. ASSUME NEW u \in Threads, at'[u] \in Inserting PROVE arg'[u] \in Minutes
  <2>1. CASE u = t
    <3>1. at'[t] = s
      BY DEF ThreadsInv, Goto
    <3>2. s # "ret"
      BY <1>3, <2>1, <3>1 DEF Inserting, Trigger, Levels
    <3>3. arg'[t] = arg[t]
      BY <3>2 DEF ThreadsInv, Goto
    <3> QED BY <1>3, <2>1, <3>1, <3>3
  <2>2. CASE u # t
    BY <1>3, <2>2 DEF ThreadsInv, Goto
  <2> QED BY <2>1, <2>2
<1> QED BY <1>1, <1>2, <1>3 DEF ThreadsInv

LEMMA GotoIs ==
    ASSUME ThreadsInv, NEW t \in Threads, NEW s, Goto(t, s)
    PROVE  /\ at'[t] = s /\ (s # "ret" => arg'[t] = arg[t]) /\ (s = "ret" => arg'[t] = NoMinute)
           /\ \A u \in Threads \ {t} : at'[u] = at[u] /\ arg'[u] = arg[u]
BY DEF ThreadsInv, Goto

LEMMA OpenedInv ==
    ASSUME ThreadsInv, NEW t \in Threads, Opened(t)
    PROVE  ThreadsInv'
<1> DEFINE s == IF arg[t] = NoMinute THEN "ret" ELSE "check"
<1>1. Goto(t, s) /\ s \in Steps
  BY DEF Opened, Steps
<1>2. s \in Inserting => arg[t] \in Minutes
  BY DEF ThreadsInv, Inserting, Trigger, Levels
<1> HIDE DEF s
<1> QED BY <1>1, <1>2, GotoInv

LEMMA NextTableMain ==
    ASSUME NEW o \in Tables(MainTables), NEW last
    PROVE  NextTable(MainTables, o, last) \in Tables(MainTables) \cup {last}
<1> DEFINE i == CHOOSE i \in DOMAIN MainTables : MainTables[i] = o
<1>1. DOMAIN MainTables = 1..4 /\ Len(MainTables) = 4
  BY DEF MainTables
<1>2. i \in 1..4
  BY <1>1 DEF Tables
<1>3. NextTable(MainTables, o, last) = IF i = 4 THEN last ELSE MainTables[i + 1]
  BY <1>1 DEF NextTable
<1> HIDE DEF i
<1>4. i # 4 => i + 1 \in DOMAIN MainTables
  BY <1>1, <1>2
<1> QED BY <1>3, <1>4 DEF Tables

LEMMA NextTableStat ==
    ASSUME NEW o \in Tables(StatCreation), NEW last
    PROVE  NextTable(StatCreation, o, last) \in Tables(StatCreation) \cup {last}
<1> DEFINE i == CHOOSE i \in DOMAIN StatCreation : StatCreation[i] = o
<1>1. DOMAIN StatCreation = 1..4 /\ Len(StatCreation) = 4
  BY DEF StatCreation
<1>2. i \in 1..4
  BY <1>1 DEF Tables
<1>3. NextTable(StatCreation, o, last) = IF i = 4 THEN last ELSE StatCreation[i + 1]
  BY <1>1 DEF NextTable
<1> HIDE DEF i
<1>4. i # 4 => i + 1 \in DOMAIN StatCreation
  BY <1>1, <1>2
<1> QED BY <1>3, <1>4 DEF Tables

LEMMA TablesAre ==
    /\ Tables(MainTables) = {"t_history", "t_param", "t_sensor", "t_tariffv2"}
    /\ Tables(StatCreation) = {"t_year", "t_month", "t_day", "t_hour"}
<1>1. DOMAIN MainTables = 1..4 /\ DOMAIN StatCreation = 1..4
  BY DEF MainTables, StatCreation
<1>2. Tables(MainTables) = {MainTables[1], MainTables[2], MainTables[3], MainTables[4]}
  BY <1>1 DEF Tables
<1>3. Tables(StatCreation) = {StatCreation[1], StatCreation[2], StatCreation[3], StatCreation[4]}
  BY <1>1 DEF Tables
<1> QED BY <1>2, <1>3 DEF MainTables, StatCreation

\* The tables of a file that are created before table o.
Before(creation, o) ==
    {creation[j] : j \in {j \in DOMAIN creation : \A k \in 1..j : creation[k] # o}}

LEMMA Creation ==
    ASSUME NEW creation \in {MainTables, StatCreation}, NEW o \in Tables(creation), NEW last
    PROVE  LET next == NextTable(creation, o, last)
           IN  /\ o \notin Before(creation, o)
               /\ \/ next = last /\ Before(creation, o) \cup {o} = Tables(creation)
                  \/ /\ next \in Tables(creation)
                     /\ Before(creation, next) = Before(creation, o) \cup {o}
<1>1. /\ DOMAIN creation = 1..4 /\ Len(creation) = 4
      /\ \A i, j \in 1..4 : creation[i] = creation[j] => i = j
  BY DEF MainTables, StatCreation
<1> DEFINE i == CHOOSE i \in DOMAIN creation : creation[i] = o
<1>2. i \in 1..4 /\ creation[i] = o
  BY <1>1 DEF Tables
<1>3. NextTable(creation, o, last) = IF i = 4 THEN last ELSE creation[i + 1]
  BY <1>1 DEF NextTable
<1> HIDE DEF i
<1>4. ASSUME NEW n \in 1..4
      PROVE  Before(creation, creation[n]) = {creation[j] : j \in 1..(n - 1)}
  <2>1. \A j \in 1..4 : (\A k \in 1..j : creation[k] # creation[n]) <=> j \in 1..(n - 1)
    BY <1>1
  <2>2. {j \in 1..4 : \A k \in 1..j : creation[k] # creation[n]} = 1..(n - 1)
    BY <2>1
  <2> QED BY <1>1, <2>2 DEF Before
<1>5. o \notin Before(creation, o)
  BY <1>1, <1>2, <1>4
<1>6. Before(creation, o) \cup {o} = {creation[j] : j \in 1..i}
  <2>1. 1..i = 1..(i - 1) \cup {i}
    BY <1>2
  <2> QED BY <1>2, <1>4, <2>1
<1>7. CASE i = 4
  BY <1>1, <1>3, <1>5, <1>6, <1>7 DEF Tables
<1>8. CASE i # 4
  <2>1. i + 1 \in 1..4 /\ (i + 1) - 1 = i
    BY <1>2, <1>8
  <2>2. Before(creation, creation[i + 1]) = {creation[j] : j \in 1..i}
    BY <1>4, <2>1
  <2>3. creation[i + 1] \in Tables(creation)
    BY <1>1, <2>1 DEF Tables
  <2> QED BY <1>3, <1>5, <1>6, <1>8, <2>2, <2>3
<1> QED BY <1>7, <1>8

LEMMA FirstTables ==
    /\ MainTables[1] = "t_history" /\ Before(MainTables, "t_history") = {}
    /\ StatCreation[1] = "t_year" /\ Before(StatCreation, "t_year") = {}
BY DEF MainTables, StatCreation, Before

Transacting == {"b_main", "b_stat", "e_main", "e_stat"}

\* The next step of a thread: only db_insert_hist gets into its own steps, and
\* only db_close and the transaction functions into theirs.
StepOK(t, s) ==
    /\ s \in Steps
    /\ s \in Inserting => at[t] \in Inserting
    /\ s \in Closing => at[t] \in Closing
    /\ s \in Transacting => at[t] \in Transacting
    /\ Goto(t, s)

LEMMA OpenGoes ==
    ASSUME NEW t \in Threads, Open(t)
    PROVE  Opened(t) \/ \E s : StepOK(t, s)
<1> USE DEF StepOK, Steps, Inserting, Trigger, Levels, Closing, Transacting
<1>1. CASE OpenCheckMain(t) BY <1>1 DEF OpenCheckMain
<1>2. CASE OpenMain(t)
  <2>1. MainTables[1] = "t_history"
    BY DEF MainTables
  <2> QED BY <1>2, <2>1, TablesAre DEF OpenMain
<1>3. CASE CreateMainTable(t)
  <2>1. at[t] \in Tables(MainTables)
    BY <1>3 DEF CreateMainTable
  <2>2. NextTable(MainTables, at[t], "o_fn") \in Tables(MainTables) \cup {"o_fn"}
    BY <2>1, NextTableMain
  <2>3. \/ Goto(t, NextTable(MainTables, at[t], "o_fn"))
        \/ Goto(t, "refused_create") \/ Opened(t)
    BY <1>3 DEF CreateMainTable, CreateOutcome
  <2> QED BY <2>2, <2>3, TablesAre
<1>4. CASE OpenRegister(t)
  BY <1>4 DEF OpenRegister, TriggerExists, TriggerMade, CreateOutcome
<1>5. CASE OpenTrigger(t) BY <1>5 DEF OpenTrigger
<1>6. CASE OpenCheckStat(t) BY <1>6 DEF OpenCheckStat
<1>7. CASE OpenStat(t)
  <2>1. StatCreation[1] = "t_year"
    BY DEF StatCreation
  <2> QED BY <1>7, <2>1, TablesAre DEF OpenStat
<1>8. CASE CreateStatTable(t)
  <2>1. at[t] \in Tables(StatCreation)
    BY <1>8 DEF CreateStatTable
  <2>2. NextTable(StatCreation, at[t], "o_done") \in Tables(StatCreation) \cup {"o_done"}
    BY <2>1, NextTableStat
  <2>3. \/ Goto(t, NextTable(StatCreation, at[t], "o_done"))
        \/ Goto(t, "refused_screate") \/ Opened(t)
    BY <1>8 DEF CreateStatTable, CreateOutcome
  <2> QED BY <2>2, <2>3, TablesAre
<1>9. CASE OpenDone(t) BY <1>9 DEF OpenDone
<1> QED BY <1>1, <1>2, <1>3, <1>4, <1>5, <1>6, <1>7, <1>8, <1>9 DEF Open

LEMMA InsertGoes ==
    ASSUME NEW t \in Threads, Insert(t)
    PROVE  \E s : StepOK(t, s)
<1> USE DEF StepOK, Steps, Inserting, Trigger, Levels, Closing, Transacting
<1>1. CASE InsertCheck(t) BY <1>1 DEF InsertCheck
<1>2. CASE InsertFails(t) BY <1>2 DEF InsertFails
<1>3. CASE InsertExec(t) BY <1>3 DEF InsertExec
<1>4. CASE InsertRetry(t) BY <1>4 DEF InsertRetry
<1>5. CASE CountStat(t) BY <1>5 DEF CountStat, StatExec, NextLevel
<1>6. CASE RefusedStat(t) BY <1>6 DEF RefusedStat
<1>7. CASE InsertEnds(t) BY <1>7 DEF InsertEnds
<1> QED BY <1>1, <1>2, <1>3, <1>4, <1>5, <1>6, <1>7 DEF Insert

LEMMA OtherGoes ==
    ASSUME NEW t \in Threads, MarkStat(t) \/ Transaction(t) \/ Close(t)
    PROVE  \E s : StepOK(t, s)
<1> USE DEF StepOK, Steps, Inserting, Trigger, Levels, Closing, Transacting
<1>1. CASE MarkStat(t) BY <1>1 DEF MarkStat, StatExec
<1>2. CASE Transaction(t)
  BY <1>2 DEF Transaction, BeginMain, BeginStat, EndMain, EndStat
<1>3. CASE Close(t) BY <1>3 DEF Close, CloseMain, CloseStat, CloseReset
<1> QED BY <1>1, <1>2, <1>3

\* Where each statement is.
LEMMA OpenAt ==
    ASSUME NEW t
    PROVE  /\ OpenCheckMain(t) => at[t] = "o_main"
           /\ OpenMain(t) => at[t] = "o_open"
           /\ CreateMainTable(t) => at[t] \in Tables(MainTables)
           /\ OpenRegister(t) => at[t] = "o_fn"
           /\ OpenTrigger(t) => at[t] = "o_trigger"
           /\ OpenCheckStat(t) => at[t] = "o_stat"
           /\ OpenStat(t) => at[t] = "o_sopen"
           /\ CreateStatTable(t) => at[t] \in Tables(StatCreation)
           /\ OpenDone(t) => at[t] \in {"refused_create", "refused_screate", "o_done"}
BY DEF OpenCheckMain, OpenMain, CreateMainTable, OpenRegister, OpenTrigger, OpenCheckStat,
       OpenStat, CreateStatTable, OpenDone

LEMMA InsertAt ==
    ASSUME NEW t
    PROVE  /\ InsertCheck(t) => at[t] = "check"
           /\ InsertFails(t) => at[t] = "exec"
           /\ InsertExec(t) => at[t] = "exec"
           /\ InsertRetry(t) => at[t] = "refused_main"
           /\ CountStat(t) => at[t] \in Levels
           /\ RefusedStat(t) => at[t] \in {"refused_stat", "refused_status"}
           /\ InsertEnds(t) => at[t] = "commit"
           /\ MarkStat(t) => at[t] \in {"s_hour", "s_day"}
BY DEF InsertCheck, InsertFails, InsertExec, InsertRetry, CountStat, RefusedStat, InsertEnds,
       MarkStat

LEMMA TransactionAt ==
    ASSUME NEW t
    PROVE  /\ BeginMain(t) => at[t] = "b_main"
           /\ BeginStat(t) => at[t] = "b_stat"
           /\ EndMain(t) => at[t] = "e_main"
           /\ EndStat(t) => at[t] = "e_stat"
           /\ CloseMain(t) => at[t] = "c_main"
           /\ CloseStat(t) => at[t] = "c_stat"
           /\ CloseReset(t) => at[t] \in {"c_null", "c_snull"}
BY DEF BeginMain, BeginStat, EndMain, EndStat, CloseMain, CloseStat, CloseReset

\* Which statement a step of db.c is.
LEMMA StepIs ==
    ASSUME NEW t, DbStep(t)
    PROVE  /\ at[t] # "ret"
           /\ at[t] = "o_main" => OpenCheckMain(t)
           /\ at[t] = "o_open" => OpenMain(t)
           /\ at[t] \in Tables(MainTables) => CreateMainTable(t)
           /\ at[t] = "o_fn" => OpenRegister(t)
           /\ at[t] = "o_trigger" => OpenTrigger(t)
           /\ at[t] = "o_stat" => OpenCheckStat(t)
           /\ at[t] = "o_sopen" => OpenStat(t)
           /\ at[t] \in Tables(StatCreation) => CreateStatTable(t)
           /\ at[t] \in {"refused_create", "refused_screate", "o_done"} => OpenDone(t)
           /\ at[t] \in Inserting \cup {"refused_status"} => Insert(t)
           /\ at[t] \in {"s_hour", "s_day"} => MarkStat(t)
           /\ at[t] \in {"b_main", "b_stat", "e_main", "e_stat"} => Transaction(t)
           /\ at[t] = "c_main" => CloseMain(t)
           /\ at[t] = "c_stat" => CloseStat(t)
           /\ at[t] \in {"c_null", "c_snull"} => CloseReset(t)
<1>1. CASE Open(t)
  BY <1>1, OpenAt, TablesAre DEF Open, Inserting, Trigger, Levels
<1>2. CASE Insert(t) \/ MarkStat(t)
  BY <1>2, InsertAt, TablesAre DEF Insert, Inserting, Trigger, Levels
<1>3. CASE Transaction(t) \/ Close(t)
  BY <1>3, TransactionAt, TablesAre DEF Transaction, Close, Inserting, Trigger, Levels
<1> QED BY <1>1, <1>2, <1>3 DEF DbStep

\* A thread in db.c stays at a step of it, with its minute; the others stay
\* where they are.
LEMMA DbStepThreads ==
    ASSUME ThreadsInv, NEW t \in Threads, DbStep(t)
    PROVE  /\ ThreadsInv'
           /\ \A u \in Threads \ {t} : at'[u] = at[u] /\ arg'[u] = arg[u]
<1>1. Opened(t) \/ \E s : StepOK(t, s)
  BY OpenGoes, InsertGoes, OtherGoes DEF DbStep
<1>2. ASSUME NEW s, StepOK(t, s) PROVE ThreadsInv'
  <2>1. s \in Inserting => arg[t] \in Minutes
    BY <1>2 DEF StepOK, ThreadsInv
  <2> QED BY <1>2, <2>1, GotoInv DEF StepOK
<1>3. \E s : Goto(t, s)
  BY <1>1 DEF StepOK, Opened
<1> QED BY <1>1, <1>2, <1>3, OpenedInv, GotoIs

\* So does one that enters it.
LEMMA CallThreads ==
    ASSUME ThreadsInv, NEW t \in Threads, NEW m \in Minutes \cup {NoMinute},
           NEW s \in Steps \ Inserting, Call(t, s, m)
    PROVE  ThreadsInv'
BY DEF ThreadsInv, Call

(***************************************************************************)
(* What a step of db.c makes of the two files.                             *)
(***************************************************************************)

\* A CREATE statement writes the schema, which is no part of the content.
LEMMA CreateStep ==
    ASSUME NEW C, NEW R, NEW f, NEW p, Seen(f, p) \in C, <<Seen(f, p), Seen(f, p)>> \in R,
           NEW o, NEW open
    PROVE  FileWrite(f, AfterCreate(f, p, CreateOutcome(f, o, p, open)), p, C, R)
<1> DEFINE outcome == CreateOutcome(f, o, p, open)
<1>1. outcome \in {"done", "reserved", "refused"}
  BY DEF CreateOutcome
<1>2. outcome = "done" => Writable(f, p)
  BY DEF CreateOutcome
<1>3. CASE outcome = "done"
  <2>1. AfterCreate(f, p, outcome) = AfterStatement(Written(f, p, Seen(f, p)), p)
    BY <1>3 DEF AfterCreate
  <2> QED BY <1>2, <1>3, <2>1 DEF FileWrite
<1>4. CASE outcome = "reserved"
  BY <1>4 DEF AfterCreate, FileWrite
<1>5. CASE outcome = "refused"
  BY <1>5 DEF AfterCreate, FileWrite
<1> QED BY <1>1, <1>3, <1>4, <1>5

LEMMA StatExecStep ==
    ASSUME NEW R, NEW t \in Threads, NEW o, NEW c \in Content,
           <<Seen(stat, ProcOf[t]), c>> \in R,
           NEW s, NEW u, NEW r, StatExec(t, o, c, s, u, r)
    PROVE  FileWrite(stat, stat', ProcOf[t], Content, R)
<1> DEFINE p == ProcOf[t]
<1> DEFINE w == Written(stat, p, c)
<1>1. \/ Writable(stat, p) /\ stat' = AfterStatement(w, p)
      \/ stat' \in {stat, Sharing(stat, p)}
  BY DEF StatExec
<1> QED BY <1>1 DEF FileWrite

\* Only a new row of the history and the schema are written to eagleowl.db.
LEMMA DbStepMain ==
    ASSUME MainInv, ThreadsInv, NEW t \in Threads, DbStep(t)
    PROVE  FileStep(main, main', ProcOf[t], SUBSET Minutes, RowsGrow)
<1> DEFINE p == ProcOf[t]
<1> DEFINE Goal == FileStep(main, main', p, SUBSET Minutes, RowsGrow)
<1>0. p \in Procs
  BY DbAssumption
<1>1. ASSUME main' \in {main, Sharing(main, p), Unsharing(main, p), Begun(main, p),
                        AfterStatement(main, p), Ended(main, p),
                        RolledBack(main, p), Closed(main, p)}
      PROVE  Goal
  BY <1>1 DEF FileStep, FileWrite
<1>2. CASE Open(t)
  <2>1. \A o, open : FileStep(main, AfterCreate(main, p, CreateOutcome(main, o, p, open)),
                              p, SUBSET Minutes, RowsGrow)
    BY <1>0, CreateStep, SeenType, RowsGrowOrder DEF MainInv, FileStep, PreOrder
  <2>2. CASE CreateMainTable(t)
    BY <2>1, <2>2 DEF CreateMainTable
  <2>3. CASE OpenRegister(t)
    <3>1. CASE TriggerExists(t)
      BY <1>1, <3>1 DEF TriggerExists
    <3>2. CASE TriggerMade(t)
      BY <2>1, <3>2 DEF TriggerMade
    <3>3. CASE UNCHANGED main
      BY <1>1, <3>3
    <3> QED BY <2>3, <3>1, <3>2, <3>3 DEF OpenRegister
  <2>4. CASE OpenTrigger(t) \/ OpenDone(t)
    BY <1>1, <2>4 DEF OpenTrigger, OpenDone
  <2>5. CASE OpenCheckMain(t) \/ OpenMain(t) \/ OpenCheckStat(t) \/ OpenStat(t)
             \/ CreateStatTable(t)
    BY <1>1, <2>5 DEF OpenCheckMain, OpenMain, OpenCheckStat, OpenStat, CreateStatTable
  <2> QED BY <1>2, <2>2, <2>3, <2>4, <2>5 DEF Open
<1>3. CASE Insert(t)
  <2>1. CASE InsertExec(t)
    <3> DEFINE rows == Seen(main, p)
    <3>1. rows \in SUBSET Minutes /\ <<rows, rows>> \in RowsGrow
      BY SeenType, RowsGrowOrder DEF MainInv, PreOrder
    <3>2. arg[t] \in Minutes
      BY <2>1 DEF InsertExec, ThreadsInv, Inserting
    <3>3. /\ rows \cup {arg[t]} \in SUBSET Minutes
          /\ <<rows, rows \cup {arg[t]}>> \in RowsGrow
      BY <3>1, <3>2 DEF RowsGrow
    <3>4. CASE main' = Sharing(main, p)
      BY <1>1, <3>4
    <3>5. CASE Writable(main, p) /\ main' = AfterStatement(Written(main, p, rows), p)
      BY <3>1, <3>5 DEF FileStep, FileWrite
    <3>6. CASE Writable(main, p) /\ main' = Written(main, p, rows \cup {arg[t]})
      BY <3>3, <3>6 DEF FileStep, FileWrite
    <3> QED BY <2>1, <3>4, <3>5, <3>6 DEF InsertExec
  <2>2. CASE InsertRetry(t) \/ InsertEnds(t)
    BY <1>1, <2>2 DEF InsertRetry, InsertEnds
  <2>3. CASE InsertCheck(t) \/ InsertFails(t) \/ CountStat(t) \/ RefusedStat(t)
    BY <1>1, <2>3 DEF InsertCheck, InsertFails, CountStat, StatExec, RefusedStat
  <2> QED BY <1>3, <2>1, <2>2, <2>3 DEF Insert
<1>4. CASE MarkStat(t)
  BY <1>1, <1>4 DEF MarkStat, StatExec
<1>5. CASE Transaction(t)
  <2>1. CASE BeginMain(t) \/ BeginStat(t) \/ EndStat(t)
    BY <1>1, <2>1 DEF BeginMain, BeginStat, EndStat
  <2>2. CASE EndMain(t)
    BY <1>1, <2>2 DEF EndMain, FileStep, FileWrite
  <2> QED BY <1>5, <2>1, <2>2 DEF Transaction
<1>6. CASE Close(t)
  BY <1>1, <1>6 DEF Close, CloseMain, CloseStat, CloseReset
<1> QED BY <1>2, <1>3, <1>4, <1>5, <1>6 DEF DbStep

\* Only the count of a row, its status and the schema are written to
\* eagleowl_stat.db; only update_stat_db counts, only db_close rolls back.
LEMMA DbStepMarks ==
    ASSUME NEW X, StatInv(X), NEW t \in Threads, DbStep(t), ~CountStat(t), ~CloseStat(t)
    PROVE  FileWrite(stat, stat', ProcOf[t], Content, StatMarks)
<1> DEFINE p == ProcOf[t]
<1> DEFINE s == Seen(stat, p)
<1> DEFINE Goal == FileWrite(stat, stat', p, Content, StatMarks)
<1>0. p \in Procs /\ s \in Content
  BY DbAssumption, SeenType DEF StatInv
<1>1. ASSUME stat' \in {stat, Sharing(stat, p), Unsharing(stat, p), Begun(stat, p),
                        Ended(stat, p)}
      PROVE  Goal
  BY <1>1 DEF FileWrite
<1>2. CASE Open(t)
  <2>1. <<s, s>> \in StatMarks
    BY <1>0, StatGrowsOrder DEF StatMarks, PreOrder
  <2>2. CASE CreateStatTable(t)
    <3>1. PICK o, open : stat' = AfterCreate(stat, p, CreateOutcome(stat, o, p, open))
      BY <2>2 DEF CreateStatTable
    <3> QED BY <1>0, <2>1, <3>1, CreateStep
  <2>3. CASE OpenDone(t)
    BY <1>1, <2>3 DEF OpenDone
  <2>4. CASE OpenRegister(t)
    BY <1>1, <2>4 DEF OpenRegister
  <2>5. CASE OpenCheckMain(t) \/ OpenMain(t) \/ OpenCheckStat(t) \/ OpenStat(t)
             \/ CreateMainTable(t) \/ OpenTrigger(t)
    BY <1>1, <2>5 DEF OpenCheckMain, OpenMain, OpenCheckStat, OpenStat, CreateMainTable,
                      OpenTrigger
  <2> QED BY <1>2, <2>2, <2>3, <2>4, <2>5 DEF Open
<1>3. CASE Insert(t)
  BY <1>1, <1>3 DEF Insert, RefusedStat, InsertCheck, InsertFails, InsertExec, InsertRetry,
                    InsertEnds
<1>4. CASE MarkStat(t)
  <2> DEFINE l == IF at[t] = "s_hour" THEN "hour" ELSE "day"
  <2> DEFINE c == [s EXCEPT !.complete = MarkedIn(s.count, @, l)]
  <2>1. c \in Content /\ <<s, c>> \in StatMarks
    BY <1>0, MarkedMarks
  <2>2. StatExec(t, TableOf[l], c, IF l = "hour" THEN "s_day" ELSE "ret",
                 "ret", "refused_status")
    BY <1>4 DEF MarkStat
  <2> HIDE DEF c
  <2> QED BY <2>1, <2>2, StatExecStep
<1>5. CASE Transaction(t)
  <2>1. CASE BeginMain(t) \/ BeginStat(t) \/ EndMain(t)
    BY <1>1, <2>1 DEF BeginMain, BeginStat, EndMain
  <2>2. CASE EndStat(t)
    BY <1>1, <2>2 DEF EndStat, FileWrite
  <2> QED BY <1>5, <2>1, <2>2 DEF Transaction
<1>6. CASE Close(t)
  BY <1>1, <1>6 DEF Close, CloseMain, CloseReset
<1> QED BY <1>2, <1>3, <1>4, <1>5, <1>6 DEF DbStep

LEMMA DbStepStat ==
    ASSUME NEW X, StatInv(X), ThreadsInv, NEW t \in Threads, DbStep(t)
    PROVE  FileStep(stat, stat', ProcOf[t], Content, StatGrows)
<1> DEFINE p == ProcOf[t]
<1> DEFINE s == Seen(stat, p)
<1>1. CASE CountStat(t)
  <2> DEFINE l == at[t]
  <2> DEFINE c == [s EXCEPT !.count = CountedIn(s.count, l, arg[t])]
  <2>1. l \in Levels /\ arg[t] \in Minutes /\ s \in Content
    BY <1>1, SeenType DEF CountStat, ThreadsInv, Inserting, Trigger, StatInv
  <2>2. c \in Content /\ <<s, c>> \in StatGrows
    BY <2>1, CountedGrows
  <2>3. StatExec(t, TableOf[l], c, IF l = "year" THEN "commit" ELSE NextLevel(l),
                 "commit", "refused_stat")
    BY <1>1 DEF CountStat
  <2> HIDE DEF c
  <2> QED BY <2>2, <2>3, StatExecStep DEF FileStep
<1>2. CASE CloseStat(t)
  BY <1>2 DEF CloseStat, FileStep, FileWrite
<1>3. CASE ~CountStat(t) /\ ~CloseStat(t)
  <2>1. FileWrite(stat, stat', p, Content, StatMarks)
    BY <1>3, DbStepMarks
  <2> QED BY <2>1 DEF FileStep, FileWrite, StatMarks
<1> QED BY <1>1, <1>2, <1>3

(***************************************************************************)
(* The library as a whole.                                                 *)
(***************************************************************************)

Pointers == {"null", "open", "freed"}

HandlesInv ==
    /\ made \subseteq Schema
    /\ hdl \in [Procs -> [main : Pointers, stat : Pointers, fn : BOOLEAN]]
    /\ retries \in 0..MaxRetries

\* The inductive invariant of db.c; X are the readers of eagleowl_stat.db.
DbInv(X) == MainInv /\ StatInv(X) /\ ThreadsInv /\ HandlesInv

LEMMA DbInvType == ASSUME NEW X, DbInv(X) PROVE DbTypeOK
<1>1. FileOK(main) /\ main.disk \subseteq Minutes /\ main.work \subseteq Minutes
  BY DEF DbInv, MainInv, FileInv, Files, FileOK
<1>2. FileOK(stat) /\ stat.disk \in Content /\ stat.work \in Content
  BY DEF DbInv, StatInv, FileInv, Files, FileOK
<1> QED BY <1>1, <1>2 DEF DbInv, ThreadsInv, HandlesInv, DbTypeOK, Pointers

LEMMA DbInitInv == ASSUME NEW X, DbInit PROVE DbInv(X)
<1>1. MainInv
  BY NewFileInv, RowsGrowOrder DEF DbInit, MainInv
<1>2. EmptyStat \in Content
  BY DEF EmptyStat, EmptyCount, Content
<1>3. StatInv(X)
  BY <1>2, NewFileInv, StatGrowsOrder DEF DbInit, StatInv
<1>4. ThreadsInv
  BY DEF DbInit, ThreadsInv, Steps, Inserting, Trigger, Levels
<1>5. HandlesInv
  <2>1. made \subseteq Schema
    BY DEF DbInit
  <2> QED BY <2>1, DbAssumption DEF DbInit, HandlesInv, Pointers
<1> QED BY <1>1, <1>3, <1>4, <1>5 DEF DbInv

\* The only objects that a step makes are the two files, the trigger and the
\* table whose CREATE statement runs.
LEMMA DbStepMade ==
    ASSUME NEW t \in Threads, DbStep(t)
    PROVE  \/ made' = made
           \/ \E o \in {"db", "trigger", "stat_db", at[t]} :
                 /\ made' = made \cup {o}
                 /\ o = at[t] => o \in Tables(MainTables) \cup Tables(StatCreation)
<1>1. CASE Open(t)
  BY <1>1 DEF Open, OpenCheckMain, OpenMain, CreateMainTable, OpenRegister,
              TriggerExists, TriggerMade, OpenTrigger, OpenCheckStat, OpenStat,
              CreateStatTable, OpenDone
<1>2. CASE Insert(t) \/ MarkStat(t)
  BY <1>2 DEF Insert, InsertCheck, InsertFails, InsertExec, InsertRetry, CountStat,
              RefusedStat, InsertEnds, MarkStat, StatExec
<1>3. CASE Transaction(t) \/ Close(t)
  BY <1>3 DEF Transaction, BeginMain, BeginStat, EndMain, EndStat, Close, CloseMain,
              CloseStat, CloseReset
<1> QED BY <1>1, <1>2, <1>3 DEF DbStep

\* A thread only changes the pointers of its own process.
LEMMA DbStepHdl ==
    ASSUME NEW t \in Threads, DbStep(t)
    PROVE  \/ hdl' = hdl
           \/ \E x \in Pointers, b \in BOOLEAN :
                 hdl' \in {[hdl EXCEPT ![ProcOf[t]].main = x, ![ProcOf[t]].fn = b],
                           [hdl EXCEPT ![ProcOf[t]].fn = b],
                           [hdl EXCEPT ![ProcOf[t]].main = x],
                           [hdl EXCEPT ![ProcOf[t]].stat = x]}
<1> USE DEF Pointers
<1>1. CASE Open(t)
  BY <1>1 DEF Open, OpenCheckMain, OpenMain, CreateMainTable, OpenRegister, OpenTrigger,
              OpenCheckStat, OpenStat, CreateStatTable, OpenDone
<1>2. CASE Insert(t) \/ MarkStat(t)
  BY <1>2 DEF Insert, InsertCheck, InsertFails, InsertExec, InsertRetry, CountStat,
              RefusedStat, InsertEnds, MarkStat, StatExec
<1>3. CASE Transaction(t)
  BY <1>3 DEF Transaction, BeginMain, BeginStat, EndMain, EndStat
<1>4. CASE Close(t)
  BY <1>4 DEF Close, CloseMain, CloseStat, CloseReset
<1> QED BY <1>1, <1>2, <1>3, <1>4 DEF DbStep

LEMMA DbStepHandles ==
    ASSUME HandlesInv, NEW t \in Threads, DbStep(t)
    PROVE  /\ HandlesInv'
           /\ made \subseteq made'
           /\ \A p \in Procs \ {ProcOf[t]} : hdl'[p] = hdl[p]
<1> DEFINE p == ProcOf[t]
<1>0. p \in Procs
  BY DbAssumption
<1>1. made' \subseteq Schema /\ made \subseteq made'
  BY DbStepMade DEF HandlesInv, Schema
<1> DEFINE H == [Procs -> [main : Pointers, stat : Pointers, fn : BOOLEAN]]
<1>2. hdl' \in H /\ \A q \in Procs \ {p} : hdl'[q] = hdl[q]
  <2>1. hdl \in H
    BY DEF HandlesInv
  <2>2. ASSUME NEW x \in Pointers, NEW b \in BOOLEAN
        PROVE  /\ [hdl EXCEPT ![p].main = x, ![p].fn = b] \in H
               /\ [hdl EXCEPT ![p].fn = b] \in H
               /\ [hdl EXCEPT ![p].main = x] \in H
               /\ [hdl EXCEPT ![p].stat = x] \in H
    BY <1>0, <2>1
  <2>3. hdl' \in H
    <3> SUFFICES ASSUME hdl' # hdl PROVE hdl' \in H
      BY <2>1
    <3>1. PICK x \in Pointers, b \in BOOLEAN :
             hdl' \in {[hdl EXCEPT ![p].main = x, ![p].fn = b], [hdl EXCEPT ![p].fn = b],
                       [hdl EXCEPT ![p].main = x], [hdl EXCEPT ![p].stat = x]}
      BY DbStepHdl
    <3> HIDE DEF H
    <3> QED BY <2>2, <3>1
  <2>4. ASSUME NEW q \in Procs \ {p} PROVE hdl'[q] = hdl[q]
    BY <2>1, <2>4, DbStepHdl
  <2> QED BY <2>3, <2>4
<1>3. retries' \in 0..MaxRetries
  <2>1. CASE InsertEnds(t)
    BY <2>1, DbAssumption DEF InsertEnds, HandlesInv
  <2>2. CASE ~InsertEnds(t)
    <3> SUFFICES retries' = retries
      BY DEF HandlesInv
    <3>1. CASE Open(t)
      BY <3>1 DEF Open, OpenCheckMain, OpenMain, CreateMainTable, OpenRegister, OpenTrigger,
                  OpenCheckStat, OpenStat, CreateStatTable, OpenDone
    <3>2. CASE Insert(t) \/ MarkStat(t)
      BY <2>2, <3>2 DEF Insert, InsertCheck, InsertFails, InsertExec, InsertRetry,
                        CountStat, RefusedStat, MarkStat, StatExec
    <3>3. CASE Transaction(t) \/ Close(t)
      BY <3>3 DEF Transaction, BeginMain, BeginStat, EndMain, EndStat, Close, CloseMain,
                  CloseStat, CloseReset
    <3> QED BY <3>1, <3>2, <3>3 DEF DbStep
  <2> QED BY <2>1, <2>2
<1> QED BY <1>1, <1>2, <1>3 DEF HandlesInv

\* Nothing committed is taken back.
Keeps(f, g, R) == <<f.disk, g.disk>> \in R

\* A step of db.c keeps its invariant and what is committed.
LEMMA DbStepInv ==
    ASSUME NEW X, Procs \subseteq X, DbInv(X), NEW t \in Threads, DbStep(t)
    PROVE  /\ DbInv(X)'
           /\ Keeps(main, main', RowsGrow) /\ Keeps(stat, stat', StatGrows)
<1>1. ProcOf[t] \in Procs
  BY DbAssumption
<1>2. MainInv' /\ Keeps(main, main', RowsGrow)
  <2>1. FileStep(main, main', ProcOf[t], SUBSET Minutes, RowsGrow)
    BY DbStepMain DEF DbInv
  <2>2. FileInv(main', SUBSET Minutes, Procs, RowsGrow)
           /\ <<main.disk, main'.disk>> \in RowsGrow
    BY <1>1, <2>1, FileStepInv, RowsGrowOrder DEF DbInv, MainInv
  <2> QED BY <2>2 DEF MainInv, Keeps, RowsGrow
<1>3. StatInv(X)' /\ Keeps(stat, stat', StatGrows)
  <2>1. FileStep(stat, stat', ProcOf[t], Content, StatGrows)
    BY DbStepStat DEF DbInv
  <2>2. FileInv(stat', Content, X, StatGrows)
           /\ <<stat.disk, stat'.disk>> \in StatGrows
    BY <1>1, <2>1, FileStepInv, StatGrowsOrder DEF DbInv, StatInv
  <2> QED BY <2>2 DEF StatInv, Keeps, StatGrows, Content, FileInv, Files
<1> QED BY <1>2, <1>3, DbStepThreads, DbStepHandles DEF DbInv

\* So does a call, and the death of a process.
LEMMA CallInv ==
    ASSUME NEW X, DbInv(X), NEW t \in Threads, NEW m \in Minutes \cup {NoMinute},
           NEW s \in Steps \ Inserting, Call(t, s, m)
    PROVE  /\ DbInv(X)'
           /\ UNCHANGED <<main, stat>>
<1>1. ThreadsInv'
  BY CallThreads DEF DbInv
<1> QED BY <1>1 DEF Call, DbInv, MainInv, StatInv, HandlesInv

LEMMA DbDiesInv ==
    ASSUME NEW X, DbInv(X), NEW p \in Procs, DbDies(p)
    PROVE  /\ DbInv(X)'
           /\ Keeps(main, main', RowsGrow) /\ Keeps(stat, stat', StatGrows)
<1>1. MainInv' /\ Keeps(main, main', RowsGrow)
  <2>1. FileInv(main', SUBSET Minutes, Procs, RowsGrow) /\ main'.disk = main.disk
    BY ClosedInv, RowsGrowOrder DEF DbInv, MainInv, DbDies
  <2>2. <<main.disk, main.disk>> \in RowsGrow
    BY RowsGrowOrder DEF DbInv, MainInv, FileInv, Files, PreOrder
  <2> QED BY <2>1, <2>2 DEF MainInv, Keeps
<1>2. StatInv(X)' /\ Keeps(stat, stat', StatGrows)
  <2>1. FileInv(stat', Content, X, StatGrows) /\ stat'.disk = stat.disk
    BY ClosedInv, StatGrowsOrder DEF DbInv, StatInv, DbDies
  <2>2. <<stat.disk, stat.disk>> \in StatGrows
    BY StatGrowsOrder DEF DbInv, StatInv, FileInv, Files, PreOrder
  <2> QED BY <2>1, <2>2 DEF StatInv, Keeps
<1>3. ThreadsInv'
  BY DEF DbInv, DbDies, ThreadsInv, Steps, Inserting, Trigger, Levels
<1>4. HandlesInv'
  BY DEF DbInv, DbDies, HandlesInv, Pointers
<1> QED BY <1>1, <1>2, <1>3, <1>4 DEF DbInv

(***************************************************************************)
(* The mutex of the connection to eagleowl.db.                             *)
(***************************************************************************)

\* One thread at most is within the trigger, its process has eagleowl.db.
MutexInv ==
    \A t \in Threads : at[t] \in Trigger =>
        main.owner = ProcOf[t] /\ \A u \in Threads : at[u] \in Trigger => u = t

\* The way into the trigger, and what happens within it.
LEMMA IntoTrigger ==
    ASSUME ThreadsInv, NEW t \in Threads, DbStep(t), at'[t] \in Trigger
    PROVE  \/ at[t] \in Trigger /\ main' = main
           \/ /\ MainMutexFree(ProcOf[t]) /\ Writable(main, ProcOf[t])
              /\ \E c : main' = Written(main, ProcOf[t], c)
              /\ at'[t] \in {"hour", "commit"}
<1> USE GotoIs DEF Trigger, Levels
<1>1. CASE Open(t)
  <2>1. \/ at'[t] \in {"ret", "check"}
        \/ \E s : StepOK(t, s)
    BY <1>1, OpenGoes DEF Opened
  <2>2. at'[t] \notin {"ret", "check"}
    OBVIOUS
  <2>3. at[t] \in Inserting
    BY <2>1, <2>2 DEF StepOK, Inserting
  <2> QED BY <1>1, <2>3, OpenAt, TablesAre DEF Open, Inserting
<1>2. CASE Insert(t)
  <2>1. CASE InsertExec(t)
    <3> DEFINE p == ProcOf[t]
    <3> DEFINE rows == Seen(main, p)
    <3>1. MainMutexFree(p)
      BY <2>1 DEF InsertExec
    <3>2. \/ Goto(t, "refused_main") \/ Goto(t, "ret")
          \/ /\ Writable(main, p) /\ main' = Written(main, p, rows \cup {arg[t]})
             /\ Goto(t, IF "trigger" \in made THEN "hour" ELSE "commit")
      BY <2>1 DEF InsertExec
    <3> HIDE DEF rows
    <3>3. \A s : Goto(t, s) => at'[t] = s
      BY GotoIs
    <3> QED BY <3>1, <3>2, <3>3
  <2>2. CASE CountStat(t)
    BY <2>2 DEF CountStat, StatExec
  <2>3. CASE RefusedStat(t)
    <3>1. at'[t] = IF at[t] = "refused_stat" THEN "commit" ELSE "ret"
      BY <2>3 DEF RefusedStat
    <3> QED BY <2>3, <3>1 DEF RefusedStat
  <2>4. CASE InsertCheck(t) \/ InsertFails(t) \/ InsertRetry(t) \/ InsertEnds(t)
    BY <2>4 DEF InsertCheck, InsertFails, InsertRetry, InsertEnds
  <2> QED BY <1>2, <2>1, <2>2, <2>3, <2>4 DEF Insert
<1>3. CASE MarkStat(t) \/ Transaction(t) \/ Close(t)
  <2>1. PICK s : StepOK(t, s)
    BY <1>3, OtherGoes
  <2>2. at[t] \in Inserting
    BY <2>1 DEF StepOK, Inserting
  <2> QED BY <1>3, <2>2, InsertAt, TransactionAt
          DEF Transaction, Close, Inserting
<1> QED BY <1>1, <1>2, <1>3 DEF DbStep

\* While another thread of the process is within the trigger, no step changes
\* which connection has eagleowl.db.
LEMMA OwnerStays ==
    ASSUME MainInv, NEW t \in Threads, DbStep(t), at[t] \notin Trigger,
           ~MainMutexFree(ProcOf[t])
    PROVE  main'.owner = main.owner
<1> DEFINE p == ProcOf[t]
<1>1. CASE main' \in {main, Unsharing(main, p)}
  BY <1>1 DEF MainInv, FileInv, Files, Unsharing
<1>2. CASE Open(t)
  BY <1>1, <1>2 DEF Open, OpenCheckMain, OpenMain, CreateMainTable, OpenRegister, OpenTrigger,
                    OpenCheckStat, OpenStat, CreateStatTable, OpenDone
<1>3. CASE Insert(t)
  BY <1>1, <1>3 DEF Insert, InsertCheck, InsertFails, InsertExec, InsertRetry, CountStat,
                    StatExec, RefusedStat, InsertEnds, Trigger
<1>4. CASE MarkStat(t) \/ Transaction(t) \/ Close(t)
  BY <1>1, <1>4 DEF MarkStat, StatExec, Transaction, BeginMain, BeginStat, EndMain, EndStat,
                    Close, CloseMain, CloseStat, CloseReset
<1> QED BY <1>2, <1>3, <1>4 DEF DbStep

LEMMA MutexStep ==
    ASSUME MainInv, ThreadsInv, MutexInv, NEW t \in Threads, DbStep(t)
    PROVE  MutexInv'
<1> DEFINE p == ProcOf[t]
<1>0. p \in Procs /\ NoOwner \notin Procs
  BY DbAssumption
<1>1. \A u \in Threads \ {t} : at'[u] = at[u]
  BY DbStepThreads
<1>2. ASSUME NEW q \in Procs, q # p PROVE main.owner = q <=> main'.owner = q
  <2>1. FileStep(main, main', p, SUBSET Minutes, RowsGrow)
    BY DbStepMain
  <2>2. PreOrder(RowsGrow, SUBSET Minutes) /\ FileInv(main, SUBSET Minutes, Procs, RowsGrow)
    BY RowsGrowOrder DEF MainInv
  <2>3. p \in Procs
    BY <1>0
  <2>4. /\ main.owner = q <=> main'.owner = q
        /\ <<Seen(main, q), Seen(main', q)>> \in RowsGrow
    BY <1>2, <2>1, <2>2, <2>3, FileStepOther
  <2> QED BY <2>4
<1>3. ASSUME NEW u \in Threads \ {t}, at[u] \in Trigger
      PROVE  main'.owner = ProcOf[u] /\ at'[t] \notin Trigger
  <2>1. main.owner = ProcOf[u] /\ at[t] \notin Trigger
    BY <1>3 DEF MutexInv
  <2>2. CASE ProcOf[u] = p
    <3>1. ~MainMutexFree(p)
      BY <1>3, <2>2 DEF MainMutexFree
    <3> QED BY <2>1, <3>1, OwnerStays, IntoTrigger
  <2>3. CASE ProcOf[u] # p
    <3>1. ProcOf[u] \in Procs
      BY DbAssumption
    <3>2. main'.owner = ProcOf[u]
      BY <1>2, <2>1, <2>3, <3>1
    <3>3. ~Writable(main, p)
      BY <1>0, <2>1, <2>3, DbAssumption DEF Writable
    <3> QED BY <2>1, <3>2, <3>3, IntoTrigger
  <2> QED BY <2>2, <2>3
<1>4. ASSUME at'[t] \in Trigger PROVE main'.owner = p
  <2>1. CASE at[t] \in Trigger /\ main' = main
    BY <2>1 DEF MutexInv
  <2>2. ASSUME NEW c, main' = Written(main, p, c) PROVE main'.owner = p
    BY <2>2 DEF MainInv, FileInv, Files, Written
  <2> QED BY <1>4, <2>1, <2>2, IntoTrigger
<1> QED BY <1>1, <1>3, <1>4 DEF MutexInv

(***************************************************************************)
(* What a step of db.c makes of the transactions and of what its process   *)
(* sees.                                                                   *)
(***************************************************************************)

\* A lock that p keeps after the step is the one it had, or that of a
\* transaction.
KeepsLock(f, g, p) ==
    \/ g.owner = f.owner /\ f.intx \subseteq g.intx
    \/ g.owner = p => p \in g.intx

\* The view of eagleowl.db gets a new row, or is rolled back.
LEMMA MainChange ==
    ASSUME MainInv, ThreadsInv, NEW t \in Threads, DbStep(t)
    PROVE  LET p == ProcOf[t] IN
           /\ at[t] \notin {"b_main", "e_main", "c_main"} => main'.intx = main.intx
           /\ \/ at'[t] \in Trigger
              \/ at[t] \in Trigger /\ (main'.owner = p => p \in main'.intx)
              \/ at[t] \notin Trigger /\ KeepsLock(main, main', p)
           /\ \/ Seen(main', p) = Seen(main, p)
              \/ InsertExec(t) /\ arg[t] \notin Seen(main, p) /\ Writable(main, p)
              \/ InsertEnds(t) /\ ~StatementEnds(main, p)
              \/ CloseMain(t) /\ main.owner = p
<1> DEFINE p == ProcOf[t]
<1> DEFINE rows == Seen(main, p)
<1> DEFINE Goal ==
      /\ at[t] \notin {"b_main", "e_main", "c_main"} => main'.intx = main.intx
      /\ \/ at'[t] \in Trigger
         \/ at[t] \in Trigger /\ (main'.owner = p => p \in main'.intx)
         \/ at[t] \notin Trigger /\ KeepsLock(main, main', p)
      /\ \/ Seen(main', p) = rows
         \/ InsertExec(t) /\ arg[t] \notin rows /\ Writable(main, p)
         \/ InsertEnds(t) /\ ~StatementEnds(main, p)
         \/ CloseMain(t) /\ main.owner = p
<1>0. /\ p \in Procs /\ FileInv(main, SUBSET Minutes, Procs, RowsGrow)
      /\ rows \in SUBSET Minutes
  BY DbAssumption, SeenType DEF MainInv
<1>1. ASSUME main' \in {main, Sharing(main, p), Unsharing(main, p), EndRefused(main, p)}
      PROVE  /\ main'.owner = main.owner /\ main'.intx = main.intx
             /\ Seen(main', p) = rows
  BY <1>0, <1>1, Locks
<1>2. ASSUME main' \in {main, Sharing(main, p), Unsharing(main, p), EndRefused(main, p)},
             at[t] \in Trigger => at'[t] \in Trigger
      PROVE  Goal
  BY <1>1, <1>2 DEF KeepsLock
<1>3. ASSUME main' = AfterStatement(Written(main, p, rows), p),
             at[t] \notin Trigger
      PROVE  Goal
  <2>1. /\ main'.owner = p => p \in main'.intx
        /\ main'.intx = main.intx /\ Seen(main', p) = rows
    BY <1>0, <1>3, WriteLocks
  <2>2. KeepsLock(main, main', p)
    BY <2>1 DEF KeepsLock
  <2>3. at[t] \notin Trigger
    BY <1>3
  <2> QED BY <2>1, <2>2, <2>3
<1>4. CASE Open(t)
  <2>1. at[t] \notin Trigger
    BY <1>4, OpenAt, TablesAre DEF Open, Trigger, Levels
  <2>2. ASSUME NEW o, NEW open, main' = AfterCreate(main, p, CreateOutcome(main, o, p, open))
        PROVE  Goal
    <3>1. CreateOutcome(main, o, p, open) \in {"done", "reserved", "refused"}
      BY DEF CreateOutcome
    <3>2. CASE CreateOutcome(main, o, p, open) = "done"
      BY <1>3, <2>1, <2>2, <3>2 DEF AfterCreate
    <3>3. CASE CreateOutcome(main, o, p, open) \in {"reserved", "refused"}
      BY <1>2, <2>1, <2>2, <3>3 DEF AfterCreate
    <3> QED BY <3>1, <3>2, <3>3
  <2>3. CASE CreateMainTable(t)
    BY <2>2, <2>3 DEF CreateMainTable
  <2>4. CASE OpenRegister(t)
    <3>1. \/ main' \in {main, Sharing(main, p)}
          \/ TriggerMade(t)
      BY <2>4 DEF OpenRegister, TriggerExists
    <3> QED BY <1>2, <2>1, <2>2, <3>1 DEF TriggerMade
  <2>5. CASE OpenTrigger(t) \/ OpenDone(t)
    BY <1>2, <2>1, <2>5 DEF OpenTrigger, OpenDone
  <2>6. CASE OpenCheckMain(t) \/ OpenMain(t) \/ OpenCheckStat(t) \/ OpenStat(t)
             \/ CreateStatTable(t)
    BY <1>2, <2>1, <2>6 DEF OpenCheckMain, OpenMain, OpenCheckStat, OpenStat, CreateStatTable
  <2> QED BY <1>4, <2>3, <2>4, <2>5, <2>6 DEF Open
<1>5. CASE InsertExec(t)
  <2>1. at[t] = "exec" /\ at[t] \notin Trigger /\ arg[t] \in Minutes
    BY <1>5 DEF InsertExec, ThreadsInv, Inserting, Trigger, Levels
  <2>2. CASE main' = Sharing(main, p)
    BY <1>2, <2>1, <2>2
  <2>3. CASE main' = AfterStatement(Written(main, p, rows), p)
    BY <1>3, <2>1, <2>3
  <2>4. CASE /\ Writable(main, p) /\ arg[t] \notin rows
             /\ main' = Written(main, p, rows \cup {arg[t]})
             /\ Goto(t, IF "trigger" \in made THEN "hour" ELSE "commit")
    <3>1. main'.intx = main.intx
      BY <1>0, <2>4 DEF Written, FileInv, Files
    <3>2. at'[t] \in Trigger
      BY <2>4, GotoIs DEF Trigger, Levels
    <3> QED BY <1>5, <2>4, <3>1, <3>2
  <2> QED BY <1>5, <2>2, <2>3, <2>4 DEF InsertExec
<1>6. CASE InsertEnds(t)
  <2>1. at[t] = "commit" /\ at[t] \in Trigger
    BY <1>6 DEF InsertEnds, Trigger
  <2>2. CASE StatementEnds(main, p)
    <3>1. main' = AfterStatement(main, p)
      BY <1>6, <2>2 DEF InsertEnds
    <3> QED BY <1>0, <2>1, <3>1, Locks
  <2>3. CASE ~StatementEnds(main, p)
    <3>1. main' = RolledBack(main, p)
      BY <1>6, <2>3 DEF InsertEnds
    <3>2. main'.owner # p /\ main'.intx = main.intx
      BY <1>0, <3>1, DbAssumption DEF RolledBack, FileInv, Files
    <3> QED BY <1>6, <2>1, <2>3, <3>2
  <2> QED BY <2>2, <2>3
<1>7. CASE CountStat(t) \/ RefusedStat(t)
  <2>1. main' = main
    BY <1>7 DEF CountStat, StatExec, RefusedStat
  <2>2. at[t] \in Trigger => at'[t] \in Trigger
    BY <1>7, GotoIs DEF CountStat, StatExec, RefusedStat, Trigger, Levels, NextLevel
  <2> QED BY <1>2, <2>1, <2>2
<1>8. CASE InsertCheck(t) \/ InsertFails(t) \/ InsertRetry(t) \/ MarkStat(t)
  <2>1. main' \in {main, Unsharing(main, p)}
    BY <1>8 DEF InsertCheck, InsertFails, InsertRetry, MarkStat, StatExec
  <2>2. at[t] \notin Trigger
    BY <1>8, InsertAt DEF Trigger, Levels
  <2> QED BY <1>2, <2>1, <2>2
<1>9. CASE Transaction(t)
  <2>1. at[t] \notin Trigger
    BY <1>9, TransactionAt DEF Transaction, Trigger, Levels
  <2>2. CASE BeginMain(t)
    <3>1. at[t] = "b_main" /\ main' \in {main, Begun(main, p)}
      BY <2>2 DEF BeginMain
    <3>2. /\ main'.owner = main.owner /\ main.intx \subseteq main'.intx
          /\ Seen(main', p) = rows
      BY <1>0, <1>1, <3>1, Locks
    <3> QED BY <2>1, <3>1, <3>2 DEF KeepsLock
  <2>3. CASE EndMain(t)
    <3>1. at[t] = "e_main" /\ main' \in {main, EndRefused(main, p), Ended(main, p)}
      BY <2>3 DEF EndMain
    <3>2. CASE main' = Ended(main, p)
      <4>1. main'.owner # p /\ Seen(main', p) = rows
        BY <1>0, <3>2, Locks
      <4> QED BY <2>1, <3>1, <4>1 DEF KeepsLock
    <3> QED BY <1>2, <2>1, <3>1, <3>2
  <2>4. CASE BeginStat(t) \/ EndStat(t)
    BY <1>2, <2>1, <2>4 DEF BeginStat, EndStat
  <2> QED BY <1>9, <2>2, <2>3, <2>4 DEF Transaction
<1>10. CASE Close(t)
  <2>1. at[t] \notin Trigger
    BY <1>10, TransactionAt DEF Close, Trigger, Levels
  <2>2. CASE main' = main
    BY <1>2, <2>1, <2>2
  <2>3. CASE CloseMain(t) /\ main' = Closed(main, p)
    <3>1. /\ at[t] = "c_main" /\ main'.owner # p
          /\ main.owner # p => Seen(main', p) = rows
      BY <1>0, <2>3, Locks DEF CloseMain
    <3> QED BY <2>1, <2>3, <3>1 DEF KeepsLock
  <2> QED BY <1>10, <2>2, <2>3 DEF Close, CloseMain, CloseStat, CloseReset
<1> QED
  BY <1>4, <1>5, <1>6, <1>7, <1>8, <1>9, <1>10 DEF DbStep, Insert

\* The view of eagleowl_stat.db is counted in, marked or rolled back.
LEMMA StatChange ==
    ASSUME NEW X, StatInv(X), ThreadsInv, NEW t \in Threads, DbStep(t)
    PROVE  LET p == ProcOf[t] IN
           /\ at[t] \notin {"b_stat", "e_stat", "c_stat"} => stat'.intx = stat.intx
           /\ KeepsLock(stat, stat', p)
           /\ \/ Seen(stat', p) = Seen(stat, p)
              \/ CountStat(t)
              \/ MarkStat(t)
              \/ CloseStat(t) /\ stat.owner = p
<1> DEFINE p == ProcOf[t]
<1> DEFINE s == Seen(stat, p)
<1> DEFINE Goal ==
      /\ at[t] \notin {"b_stat", "e_stat", "c_stat"} => stat'.intx = stat.intx
      /\ KeepsLock(stat, stat', p)
      /\ \/ Seen(stat', p) = s
         \/ CountStat(t)
         \/ MarkStat(t)
         \/ CloseStat(t) /\ stat.owner = p
<1>0. p \in Procs /\ FileInv(stat, Content, X, StatGrows) /\ s \in Content
  BY DbAssumption, SeenType DEF StatInv
<1>1. ASSUME stat' \in {stat, Sharing(stat, p), Unsharing(stat, p), EndRefused(stat, p)}
      PROVE  Goal
  <2>1. stat'.owner = stat.owner /\ stat'.intx = stat.intx /\ Seen(stat', p) = s
    BY <1>0, <1>1, Locks
  <2> QED BY <2>1 DEF KeepsLock
<1>2. ASSUME NEW c \in Content,
             stat' = AfterStatement(Written(stat, p, c), p)
      PROVE  stat'.intx = stat.intx /\ KeepsLock(stat, stat', p) /\ Seen(stat', p) = c
  <2>1. /\ stat'.owner = p => p \in stat'.intx
        /\ stat'.intx = stat.intx /\ Seen(stat', p) = c
    BY <1>0, <1>2, WriteLocks
  <2> QED BY <2>1 DEF KeepsLock
<1>3. CASE CreateStatTable(t)
  <2>1. PICK o, open : stat' = AfterCreate(stat, p, CreateOutcome(stat, o, p, open))
    BY <1>3 DEF CreateStatTable
  <2>2. CreateOutcome(stat, o, p, open) \in {"done", "reserved", "refused"}
    BY DEF CreateOutcome
  <2>3. CASE CreateOutcome(stat, o, p, open) = "done"
    <3>1. stat' = AfterStatement(Written(stat, p, s), p)
      BY <2>1, <2>3 DEF AfterCreate
    <3> QED BY <1>0, <1>2, <3>1
  <2>4. CASE CreateOutcome(stat, o, p, open) \in {"reserved", "refused"}
    BY <1>1, <2>1, <2>4 DEF AfterCreate
  <2> QED BY <2>2, <2>3, <2>4
<1>4. CASE Open(t) /\ ~CreateStatTable(t)
  <2>1. stat' \in {stat, Unsharing(stat, p)}
    BY <1>4 DEF Open, OpenCheckMain, OpenMain, CreateMainTable, OpenRegister, OpenTrigger,
                OpenCheckStat, OpenStat, OpenDone
  <2> QED BY <1>1, <2>1
<1>5. ASSUME NEW o, NEW c \in Content, NEW x, NEW y, NEW z,
             StatExec(t, o, c, x, y, z)
      PROVE  stat'.intx = stat.intx /\ KeepsLock(stat, stat', p)
  <2>1. \/ stat' \in {stat, Sharing(stat, p)}
        \/ stat' = AfterStatement(Written(stat, p, c), p)
    BY <1>5 DEF StatExec
  <2>2. CASE stat' \in {stat, Sharing(stat, p)}
    BY <1>0, <2>2, Locks DEF KeepsLock
  <2>3. CASE stat' = AfterStatement(Written(stat, p, c), p)
    BY <1>2, <2>3
  <2> QED BY <2>1, <2>2, <2>3
<1>6. CASE CountStat(t)
  <2> DEFINE c == [s EXCEPT !.count = CountedIn(s.count, at[t], arg[t])]
  <2>1. at[t] \in Levels /\ arg[t] \in Minutes
    BY <1>6 DEF CountStat, ThreadsInv, Inserting, Trigger
  <2>2. c \in Content
    BY <1>0, <2>1, CountedGrows
  <2>3. \E o, x, y, z : StatExec(t, o, c, x, y, z)
    BY <1>6 DEF CountStat
  <2> HIDE DEF c
  <2>4. stat'.intx = stat.intx /\ KeepsLock(stat, stat', p)
    BY <1>5, <2>2, <2>3
  <2> QED BY <1>6, <2>4
<1>7. CASE MarkStat(t)
  <2> DEFINE l == IF at[t] = "s_hour" THEN "hour" ELSE "day"
  <2> DEFINE c == [s EXCEPT !.complete = MarkedIn(s.count, @, l)]
  <2>1. c \in Content
    BY <1>0, MarkedMarks
  <2>2. \E o, x, y, z : StatExec(t, o, c, x, y, z)
    BY <1>7 DEF MarkStat
  <2> HIDE DEF c
  <2>3. stat'.intx = stat.intx /\ KeepsLock(stat, stat', p)
    BY <1>5, <2>1, <2>2
  <2> QED BY <1>7, <2>3
<1>8. CASE Insert(t) /\ ~CountStat(t)
  <2>1. stat' \in {stat, Unsharing(stat, p)}
    BY <1>8 DEF Insert, RefusedStat, InsertCheck, InsertFails, InsertExec, InsertRetry,
                InsertEnds
  <2> QED BY <1>1, <2>1
<1>9. CASE Transaction(t)
  <2>1. CASE BeginStat(t)
    <3>1. at[t] = "b_stat" /\ stat' \in {stat, Begun(stat, p)}
      BY <2>1 DEF BeginStat
    <3>2. CASE stat' = Begun(stat, p)
      <4>1. /\ stat'.owner = stat.owner /\ stat.intx \subseteq stat'.intx
            /\ Seen(stat', p) = s
        BY <1>0, <3>2, Locks
      <4> QED BY <3>1, <4>1 DEF KeepsLock
    <3> QED BY <1>1, <3>1, <3>2
  <2>2. CASE EndStat(t)
    <3>1. at[t] = "e_stat" /\ stat' \in {stat, EndRefused(stat, p), Ended(stat, p)}
      BY <2>2 DEF EndStat
    <3>2. CASE stat' = Ended(stat, p)
      <4>1. stat'.owner # p /\ Seen(stat', p) = s
        BY <1>0, <3>2, Locks
      <4> QED BY <3>1, <4>1 DEF KeepsLock
    <3> QED BY <1>1, <3>1, <3>2
  <2>3. CASE BeginMain(t) \/ EndMain(t)
    BY <1>1, <2>3 DEF BeginMain, EndMain
  <2> QED BY <1>9, <2>1, <2>2, <2>3 DEF Transaction
<1>10. CASE Close(t)
  <2>1. CASE stat' = stat
    BY <1>1, <2>1
  <2>2. CASE CloseStat(t) /\ stat' = Closed(stat, p)
    <3>1. /\ at[t] = "c_stat" /\ stat'.owner # p
          /\ stat.owner # p => Seen(stat', p) = s
      BY <1>0, <2>2, Locks DEF CloseStat
    <3> QED BY <2>2, <3>1 DEF KeepsLock
  <2> QED BY <1>10, <2>1, <2>2 DEF Close, CloseMain, CloseStat, CloseReset
<1> QED
  BY <1>3, <1>4, <1>6, <1>7, <1>8, <1>9, <1>10 DEF DbStep
===============================================================================
