------------------------- MODULE GeneralLedgerProofs -------------------------
(***************************************************************************)
(* The theorems of the general ledger, for every chart of accounts,        *)
(* calendar and amount.  Three inductive invariants, one after the other:  *)
(*   IInv         which rows are posted, of the flags of the gltrans rows; *)
(*   CalendarInv  which periods and years are closed, of the period flags; *)
(*   BInv         the books: rows of a sequence add up to nothing and are  *)
(*                posted together, and the trial balance tallies with them. *)
(* The procedures that only carry balances forward are one relation,       *)
(* Carried; the loops are unrolled into chains of their turns.             *)
(* How balances follow from period to period, and what closed periods keep *)
(* of them, is proved in GeneralLedgerChains.                              *)
(***************************************************************************)
EXTENDS GeneralLedger, Sums, TLAPS

IsSeq(s) == s \in Seq({s[i] : i \in DOMAIN s})

\* A row has the fields of a gltrans row.
IsRow(r) == r = [sequence |-> r.sequence, accnt |-> r.accnt, amount |-> r.amount,
                 period |-> r.period, posted |-> r.posted, deleted |-> r.deleted,
                 rec |-> r.rec]

\* A record has the tables of the database.
IsDB(d) == d = [gl |-> d.gl, sl |-> d.sl, ilp |-> d.ilp, gs |-> d.gs, tb |-> d.tb,
                periods |-> d.periods, closed |-> d.closed, frozen |-> d.frozen,
                yearclosed |-> d.yearclosed, raised |-> d.raised]

Sound(gl, pers) ==
    /\ IsSeq(gl)
    /\ \A i \in DOMAIN gl : /\ IsRow(gl[i])
                            /\ gl[i].posted => gl[i].period \in pers /\ ~gl[i].deleted

Good(d) == IsDB(d) /\ IsSeq(d.gs) /\ Sound(d.gl, d.periods)

\* The periods shut keep their posted rows from gl to hl.
Kept(gl, hl, shut) ==
    \A p \in shut : /\ PostedIn(hl, p) = PostedIn(gl, p)
                    /\ \A i \in PostedIn(gl, p) : /\ hl[i].accnt = gl[i].accnt
                                                  /\ hl[i].amount = gl[i].amount

\* The inductive invariant: PostedInPeriod with the shape of the tables.
IInv == IsSeq(glseries) /\ Sound(gltrans, periods)

\* What every step does: it preserves the invariant, and the postings of
\* every period closed before and after it.
Preserved == IInv' /\ Kept(gltrans, gltrans', closed \cap closed')

\* A database with the balances, the periods and the closed ones of the state.
AsIs(d) == Good(d) /\ d.tb = trialbal /\ d.periods = periods /\ d.closed = closed

\* What most procedures do: they leave the balances and the periods alone, or
\* post into the balances as they are.
Routine ==
    /\ Preserved
    /\ \/ UNCHANGED <<trialbal, periods, closed>>
       \/ \E d, seqs, priv, n : /\ AsIs(d) /\ Kept(gltrans, d.gl, closed)
                                /\ Commit(postIntoTrialBalance(d, seqs, priv), n)

LEMMA SeqDomain ==
    ASSUME NEW s, IsSeq(s)
    PROVE  Len(s) \in Nat /\ DOMAIN s = 1..Len(s)
BY DEF IsSeq

LEMMA SeqShape ==
    ASSUME NEW n \in Nat, NEW u, DOMAIN u = 1..n, u = [i \in 1..n |-> u[i]]
    PROVE  IsSeq(u)
BY DEF IsSeq

LEMMA ConcatShape ==
    ASSUME NEW s, NEW t, IsSeq(s), IsSeq(t)
    PROVE  /\ IsSeq(s \o t)
           /\ DOMAIN (s \o t) = 1..(Len(s) + Len(t))
           /\ \A i \in 1..Len(s) : (s \o t)[i] = s[i]
           /\ \A i \in 1..Len(t) : (s \o t)[Len(s) + i] = t[i]
<1> DEFINE S == {s[i] : i \in DOMAIN s} \cup {t[i] : i \in DOMAIN t}
<1>1. s \in Seq(S) /\ t \in Seq(S) BY DEF IsSeq
<1> HIDE DEF S
<1>2. s \o t \in Seq(S) BY <1>1
<1>3. \A u : u \in Seq(S) => IsSeq(u) BY DEF IsSeq
<1>4. IsSeq(s \o t) BY <1>2, <1>3
<1>5. /\ DOMAIN (s \o t) = 1..(Len(s) + Len(t))
      /\ \A i \in 1..Len(s) : (s \o t)[i] = s[i]
      /\ \A i \in 1..Len(t) : (s \o t)[Len(s) + i] = t[i]
  BY <1>1
<1> QED BY <1>4, <1>5

LEMMA AppendShape ==
    ASSUME NEW s, NEW x, IsSeq(s)
    PROVE  IsSeq(Append(s, x))
<1> DEFINE R == {s[i] : i \in DOMAIN s}
           S == R \cup {x}
<1>1. s \in Seq(R) BY DEF IsSeq
<1> HIDE DEF R
<1>2. s \in Seq(S) /\ x \in S BY <1>1
<1> HIDE DEF S
<1>3. Append(s, x) \in Seq(S) BY <1>2
<1>4. \A u : u \in Seq(S) => IsSeq(u) BY DEF IsSeq
<1> QED BY <1>3, <1>4

LEMMA PairShape ==
    ASSUME NEW x, NEW y, NEW s, s = <<x, y>>
    PROVE  IsSeq(s) /\ DOMAIN s = 1..2 /\ s[1] = x /\ s[2] = y
<1>1. s \in Seq({x, y}) /\ Len(s) = 2 OBVIOUS
<1>2. DOMAIN s = 1..2 /\ s[1] = x /\ s[2] = y BY <1>1
<1>3. {s[i] : i \in DOMAIN s} = {x, y} BY <1>2
<1> QED BY <1>1, <1>2, <1>3 DEF IsSeq

\* New rows that are not posted keep the ledger sound and closed periods as
\* they were.
LEMMA Extending ==
    ASSUME NEW gl, NEW rows, NEW pers, NEW shut, Sound(gl, pers), IsSeq(rows),
           \A i \in DOMAIN rows : IsRow(rows[i]) /\ ~rows[i].posted
    PROVE  Sound(gl \o rows, pers) /\ Kept(gl, gl \o rows, shut)
<1> DEFINE hl == gl \o rows
<1>1. IsSeq(hl) /\ DOMAIN hl = 1..(Len(gl) + Len(rows))
      /\ (\A i \in 1..Len(gl) : hl[i] = gl[i])
      /\ (\A i \in 1..Len(rows) : hl[Len(gl) + i] = rows[i])
  BY ConcatShape DEF Sound
<1>2. /\ Len(gl) \in Nat /\ DOMAIN gl = 1..Len(gl)
      /\ Len(rows) \in Nat /\ DOMAIN rows = 1..Len(rows)
  BY SeqDomain DEF Sound
<1> HIDE DEF hl
<1>3. ASSUME NEW i \in DOMAIN hl
      PROVE  \/ i \in DOMAIN gl /\ hl[i] = gl[i]
             \/ i \notin DOMAIN gl /\ IsRow(hl[i]) /\ ~hl[i].posted
  <2>1. CASE i \in 1..Len(gl) BY <2>1, <1>1, <1>2
  <2>2. CASE i \notin 1..Len(gl)
    <3>1. i - Len(gl) \in 1..Len(rows) /\ i = Len(gl) + (i - Len(gl))
      BY <2>2, <1>1, <1>2, <1>3
    <3> QED BY <3>1, <2>2, <1>1, <1>2
  <2> QED BY <2>1, <2>2
<1>4. Sound(hl, pers) BY <1>1, <1>3 DEF Sound
<1>5. \A p : PostedIn(hl, p) = PostedIn(gl, p)
  <2> SUFFICES ASSUME NEW p, NEW i PROVE i \in PostedIn(hl, p) <=> i \in PostedIn(gl, p)
    OBVIOUS
  <2> QED BY <1>1, <1>2, <1>3 DEF PostedIn
<1>6. \A p : \A i \in PostedIn(gl, p) : hl[i] = gl[i]
  BY <1>1, <1>2 DEF PostedIn
<1> QED BY <1>4, <1>5, <1>6 DEF Kept, hl

\* postIntoTrialBalance posts only rows whose period is open, and touches no
\* other table.
LEMMA Posting ==
    ASSUME NEW d, NEW seqs, NEW priv, NEW e, Good(d),
           e = postIntoTrialBalance(d, seqs, priv)
    PROVE  /\ Good(e) /\ Kept(d.gl, e.gl, d.closed)
           /\ e.periods = d.periods /\ e.closed = d.closed
<1> DEFINE ids == Pending(d, seqs, priv)
           done == FoldLeft(PostRow, d, InSequence(ids))
           gl == [i \in DOMAIN d.gl |-> [d.gl[i] EXCEPT !.posted = @ \/ i \in ids]]
<1>1. e = [WithBalances(d, done) EXCEPT !.gl = gl] BY DEF postIntoTrialBalance
<1> HIDE DEF done
<1>2. /\ IsDB(e) /\ e.gl = gl /\ e.gs = d.gs
      /\ e.periods = d.periods /\ e.closed = d.closed
  BY <1>1 DEF WithBalances, Good, IsDB
<1>3. \A i \in ids : /\ i \in DOMAIN d.gl /\ ~d.gl[i].posted /\ ~d.gl[i].deleted
                     /\ d.gl[i].period \in d.periods \ d.closed
  BY DEF Pending, Postable
<1>4. IsSeq(gl) /\ DOMAIN gl = DOMAIN d.gl
  <2>1. Len(d.gl) \in Nat /\ DOMAIN d.gl = 1..Len(d.gl)
    BY SeqDomain DEF Good, Sound
  <2>2. DOMAIN gl = 1..Len(d.gl) /\ gl = [i \in 1..Len(d.gl) |-> gl[i]] BY <2>1
  <2> QED BY <2>1, <2>2, SeqShape
<1>5. ASSUME NEW i \in DOMAIN d.gl
      PROVE  /\ IsRow(gl[i])
             /\ gl[i].period = d.gl[i].period /\ gl[i].deleted = d.gl[i].deleted
             /\ gl[i].accnt = d.gl[i].accnt /\ gl[i].amount = d.gl[i].amount
             /\ gl[i].posted <=> d.gl[i].posted \/ i \in ids
  <2>1. IsRow(d.gl[i]) BY <1>5 DEF Good, Sound
  <2>2. gl[i] = [d.gl[i] EXCEPT !.posted = @ \/ i \in ids] BY <1>5
  <2> HIDE DEF ids, gl
  <2> QED BY <2>1, <2>2 DEF IsRow
<1> HIDE DEF ids, gl
<1>6. Sound(gl, d.periods) BY <1>3, <1>4, <1>5 DEF Good, Sound
<1>7. Kept(d.gl, gl, d.closed) BY <1>3, <1>4, <1>5 DEF Kept, PostedIn
<1> QED BY <1>2, <1>6, <1>7 DEF Good

\* What a committed step must show of the tables it writes.
LEMMA Committed ==
    ASSUME NEW d, NEW seq, Commit(d, seq), Good(d),
           Kept(gltrans, d.gl, closed \cap d.closed)
    PROVE  Preserved
BY DEF Commit, IInv, Kept, PostedIn, Preserved, Good

LEMMA DBGood == IInv => Good(DB) /\ DB.gl = gltrans /\ DB.gs = glseries
                        /\ DB.periods = periods /\ DB.closed = closed
                        /\ DB.tb = trialbal
BY DEF Good, IsDB, DB, IInv

\* Replacing the other tables leaves the transactions and the periods.
LEMMA Replacing ==
    ASSUME NEW d, NEW e, NEW v, Good(d),
           \/ e = [d EXCEPT !.sl = v]
           \/ e = [d EXCEPT !.ilp = v]
           \/ e = [d EXCEPT !.yearclosed = v]
           \/ e = [d EXCEPT !.frozen = v]
           \/ e = WithBalances(d, v)
           \/ IsSeq(v) /\ e = [d EXCEPT !.gs = v]
    PROVE  Good(e) /\ e.gl = d.gl /\ e.periods = d.periods /\ e.closed = d.closed
BY DEF Good, IsDB, WithBalances

\* Closing, opening and creating periods leave the transactions.
LEMMA Flagging ==
    ASSUME NEW d, NEW e, NEW v, Good(d),
           \/ e = [d EXCEPT !.closed = v] 
           \/ d.periods \subseteq v /\ e = [d EXCEPT !.periods = v]
    PROVE  Good(e) /\ e.gl = d.gl
BY DEF Good, IsDB, Sound

LEMMA Writing ==
    ASSUME NEW d, NEW k, NEW row, Good(d)
    PROVE  LET e == Write(d, k, row)
           IN  Good(e) /\ e.gl = d.gl /\ e.periods = d.periods /\ e.closed = d.closed
<1> DEFINE x == [tb |-> [j \in DOMAIN d.tb \cup {k} |-> IF j = k THEN row ELSE d.tb[j]],
                 raised |-> d.raised \/ ~MayAlter(d, k, row)]
           e == WithBalances(d, x)
<1>1. Write(d, k, row) = e BY DEF Write
<1> HIDE DEF x
<1>2. Good(e) /\ e.gl = d.gl /\ e.periods = d.periods /\ e.closed = d.closed
  BY Replacing
<1> QED BY <1>1, <1>2

LEMMA Forwarding ==
    ASSUME NEW d, NEW a, NEW p, Good(d)
    PROVE  LET e == forwardUpdateTrialBalance(d, a, p)
           IN  Good(e) /\ e.gl = d.gl /\ e.periods = d.periods /\ e.closed = d.closed
<1> DEFINE x == Finish(FoldLeft(VisitPeriod, Start(d, a, p), SlotsAfter(p)), p)
           e == WithBalances(d, x)
<1>1. forwardUpdateTrialBalance(d, a, p) = e BY DEF forwardUpdateTrialBalance
<1> HIDE DEF x
<1>2. Good(e) /\ e.gl = d.gl /\ e.periods = d.periods /\ e.closed = d.closed
  BY Replacing
<1> QED BY <1>1, <1>2

LEMMA KeptSelf == \A gl, shut : Kept(gl, gl, shut)
BY DEF Kept

LEMMA KeptTwice ==
    ASSUME NEW f, NEW g, NEW h, NEW shut, Kept(f, g, shut), Kept(g, h, shut)
    PROVE  Kept(f, h, shut)
BY DEF Kept

LEMMA KeptLess ==
    ASSUME NEW f, NEW g, NEW shut, NEW less, Kept(f, g, shut), less \subseteq shut
    PROVE  Kept(f, g, less)
BY DEF Kept

\* Rows written by any of the posting procedures are unposted gltrans rows.
LEMMA NewRow == \A seq, a, amt, p, rec :
                    IsRow(GLRow(seq, a, amt, p, rec)) /\ ~GLRow(seq, a, amt, p, rec).posted
BY DEF IsRow, GLRow

\* Chosen rows form a sequence.
LEMMA ChosenShape ==
    ASSUME NEW s, NEW ids, IsSeq(s), ids \subseteq DOMAIN s
    PROVE  /\ IsSeq(Chosen(s, ids))
           /\ Cardinality(ids) \in Nat /\ DOMAIN Chosen(s, ids) = 1..Cardinality(ids)
<1>1. IsFiniteSet(ids)
  BY SeqDomain, FS_Interval, FS_Subset
<1>2. Cardinality(ids) \in Nat BY <1>1, FS_CardinalityType
<1> DEFINE u == [n \in 1..Cardinality(ids) |-> s[InSequence(ids)[n]]]
<1>3. Chosen(s, ids) = u BY DEF Chosen
<1>4. DOMAIN u = 1..Cardinality(ids) /\ u = [n \in 1..Cardinality(ids) |-> u[n]]
  OBVIOUS
<1> HIDE DEF u
<1> QED BY <1>2, <1>3, <1>4, SeqShape

\* A function of new rows over the positions of a sequence.
LEMMA RowsShape ==
    ASSUME NEW n \in Nat, NEW rows, DOMAIN rows = 1..n,
           rows = [i \in 1..n |-> rows[i]],
           \A i \in 1..n : \E seq, a, amt, p, rec : rows[i] = GLRow(seq, a, amt, p, rec)
    PROVE  IsSeq(rows) /\ \A i \in DOMAIN rows : IsRow(rows[i]) /\ ~rows[i].posted
BY SeqShape, NewRow

\* Appending unposted rows, the common first half of the posting procedures.
LEMMA Appending ==
    ASSUME NEW d, NEW rows, NEW e, Good(d), IsDB(e), IsSeq(e.gs),
           IsSeq(rows), \A i \in DOMAIN rows : IsRow(rows[i]) /\ ~rows[i].posted,
           e.gl = d.gl \o rows, e.periods = d.periods, e.closed = d.closed
    PROVE  Good(e) /\ Kept(d.gl, e.gl, d.closed)
BY Extending DEF Good

\* Then posting a sequence and committing.
LEMMA PostingStep ==
    ASSUME IInv, NEW d, NEW seqs, NEW priv, NEW seq, Good(d),
           Kept(gltrans, d.gl, closed \cap d.closed),
           Commit(postIntoTrialBalance(d, seqs, priv), seq)
    PROVE  Preserved
<1> DEFINE e == postIntoTrialBalance(d, seqs, priv)
<1>1. Good(e) /\ Kept(d.gl, e.gl, d.closed) /\ e.closed = d.closed
  BY Posting
<1> HIDE DEF e
<1>2. Kept(d.gl, e.gl, closed \cap d.closed) BY <1>1, KeptLess
<1>3. Kept(gltrans, e.gl, closed \cap e.closed) BY <1>1, <1>2, KeptTwice
<1> QED BY <1>1, <1>3, Committed DEF e

LEMMA AsIsNow == IInv => AsIs(DB) /\ DB.gl = gltrans
BY DBGood DEF AsIs

LEMMA AsIsReplaced ==
    ASSUME NEW d, NEW e, NEW v, AsIs(d),
           \/ e = [d EXCEPT !.sl = v]
           \/ e = [d EXCEPT !.ilp = v]
           \/ e = [d EXCEPT !.yearclosed = v]
           \/ e = [d EXCEPT !.frozen = v]
           \/ IsSeq(v) /\ e = [d EXCEPT !.gs = v]
    PROVE  AsIs(e) /\ e.gl = d.gl
<1>1. Good(e) /\ e.gl = d.gl /\ e.periods = d.periods /\ e.closed = d.closed
  BY Replacing DEF AsIs
<1>2. e.tb = d.tb
  BY DEF AsIs, Good, IsDB
<1> QED BY <1>1, <1>2 DEF AsIs

LEMMA AsIsAppended ==
    ASSUME NEW d, AsIs(d), NEW rows, IsSeq(rows),
           \A i \in DOMAIN rows : IsRow(rows[i]) /\ ~rows[i].posted,
           NEW gl, gl = d.gl \o rows, NEW e, e = [d EXCEPT !.gl = gl]
    PROVE  AsIs(e) /\ Kept(d.gl, e.gl, closed)
<1>1. /\ IsDB(e) /\ IsSeq(e.gs) /\ e.gl = gl /\ e.tb = d.tb
      /\ e.periods = d.periods /\ e.closed = d.closed
  BY DEF AsIs, Good, IsDB
<1>2. Good(e) /\ Kept(d.gl, e.gl, d.closed)
  BY <1>1, Appending DEF AsIs
<1> QED BY <1>1, <1>2 DEF AsIs

\* The two ends of a routine step: posting, and no posting.
LEMMA RoutinePosting ==
    ASSUME IInv, NEW d, NEW seqs, NEW priv, NEW n, AsIs(d), Kept(gltrans, d.gl, closed),
           Commit(postIntoTrialBalance(d, seqs, priv), n)
    PROVE  Routine
<1>1. Preserved
  BY PostingStep, KeptLess DEF AsIs
<1> QED BY <1>1 DEF Routine

LEMMA RoutineCommit ==
    ASSUME IInv, NEW d, NEW n, AsIs(d), Kept(gltrans, d.gl, closed), Commit(d, n)
    PROVE  Routine
<1>1. Preserved
  BY Committed, KeptLess DEF AsIs
<1>2. UNCHANGED <<trialbal, periods, closed>>
  BY DEF AsIs, Commit
<1> QED BY <1>1, <1>2 DEF Routine

\* A step that leaves the transactions too.
LEMMA RoutineQuiet ==
    ASSUME IInv, NEW d, NEW n, AsIs(d), d.gl = gltrans, Commit(d, n)
    PROVE  Routine
BY KeptSelf, RoutineCommit

LEMMA EntryStep ==
    ASSUME IInv, NEW cr, NEW db, NEW amt, NEW p, NEW post, NEW onlyGL, NEW priv,
           InsertGLTransaction(cr, db, amt, p, post, onlyGL, priv)
    PROVE  Routine
<1> DEFINE seq == fetchGLSequence
           x == GLRow(seq, cr, amt, p, FALSE)
           y == GLRow(seq, db, -amt, p, FALSE)
           rows == <<x, y>>
           gl == DB.gl \o rows
           sl == DB.sl \o <<SLRow(seq, cr, amt, p), SLRow(seq, db, -amt, p)>>
           d == [DB EXCEPT !.gl = gl]
           c == [DB EXCEPT !.sl = sl]
           noted == d.ilp \cup {seq}
           e == [d EXCEPT !.ilp = noted]
<1>1. \/ Commit(c, seq) \/ Commit(postIntoTrialBalance(d, {seq}, priv), seq)
      \/ Commit(e, seq)
  BY DEF InsertGLTransaction
<1>2. IsRow(x) /\ ~x.posted /\ IsRow(y) /\ ~y.posted BY NewRow
<1> HIDE DEF x, y, sl, seq
<1>3. IsSeq(rows) /\ \A i \in DOMAIN rows : IsRow(rows[i]) /\ ~rows[i].posted
  <2> HIDE DEF rows
  <2> QED BY <1>2, PairShape DEF rows
<1> HIDE DEF rows
<1>4. AsIs(c) /\ c.gl = gltrans BY AsIsReplaced, AsIsNow
<1>5. AsIs(d) /\ Kept(gltrans, d.gl, closed)
  <2>1. gl = DB.gl \o rows /\ d = [DB EXCEPT !.gl = gl]
    OBVIOUS
  <2> HIDE DEF gl, d
  <2> QED BY <1>3, <2>1, AsIsAppended, AsIsNow
<1> HIDE DEF c, d, gl, noted
<1>6. CASE Commit(c, seq) BY <1>4, <1>6, RoutineQuiet
<1>7. CASE Commit(e, seq)
  <2>1. AsIs(e) /\ e.gl = d.gl BY <1>5, AsIsReplaced
  <2> HIDE DEF e
  <2> QED BY <1>5, <1>7, <2>1, RoutineCommit
<1>8. CASE Commit(postIntoTrialBalance(d, {seq}, priv), seq)
  BY <1>5, <1>8, RoutinePosting
<1> QED BY <1>1, <1>6, <1>7, <1>8

LEMMA DistributionStep ==
    ASSUME IInv, Distribution
    PROVE  Routine
<1> SUFFICES ASSUME NEW seq,
                    \/ \E priv \in BOOLEAN : PostItemLocSeries(seq, priv)
                    \/ DeleteItemLocSeries(seq)
             PROVE  Routine
  BY DEF Distribution
<1> DEFINE left == DB.ilp \ {seq}
           d == [DB EXCEPT !.ilp = left]
<1>1. \/ \E priv \in BOOLEAN : Commit(postIntoTrialBalance(d, {seq}, priv), sequence)
      \/ Commit(d, sequence)
  BY DEF PostItemLocSeries, DeleteItemLocSeries
<1> HIDE DEF left
<1>2. AsIs(d) /\ d.gl = gltrans BY AsIsNow, AsIsReplaced
<1> HIDE DEF d
<1>3. Kept(gltrans, d.gl, closed) BY <1>2, KeptSelf
<1> QED BY <1>1, <1>2, <1>3, RoutinePosting, RoutineCommit

\* A step that leaves the transactions and closes no fewer periods.
LEMMA QuietStep ==
    ASSUME IInv, NEW d, NEW seq, Good(d), d.gl = gltrans, Commit(d, seq)
    PROVE  Preserved
BY KeptSelf, Committed

LEMMA SeriesButShape ==
    ASSUME IInv, NEW seq
    PROVE  IsSeq(SeriesBut(seq))
BY ChosenShape DEF SeriesBut, IInv

\* The common end of the series posters, whatever rows they post.
LEMMA PostedSeriesStep ==
    ASSUME IInv, NEW seq, NEW rows, NEW priv, NEW n \in Nat, DOMAIN rows = 1..n,
           Commit(PostedSeries(seq, rows, priv), sequence)
    PROVE  Routine
<1> DEFINE new == [i \in DOMAIN rows |->
                     SLRow(seq, rows[i].accnt, rows[i].amount, rows[i].period)]
           ledger == [i \in DOMAIN rows |->
                     GLRow(seq, rows[i].accnt, rows[i].amount, rows[i].period, FALSE)]
           d == [DB EXCEPT !.gs = SeriesBut(seq)]
           sl == d.sl \o new
           gl == d.gl \o ledger
           c == [d EXCEPT !.sl = sl]
           e == [d EXCEPT !.gl = gl]
<1>1. Commit(postIntoTrialBalance(IF UseJournals THEN c ELSE e, {seq}, priv), sequence)
  BY DEF PostedSeries
<1>2. AsIs(d) /\ d.gl = gltrans
  BY AsIsReplaced, SeriesButShape, AsIsNow
<1>3. IsSeq(ledger) /\ \A i \in DOMAIN ledger : IsRow(ledger[i]) /\ ~ledger[i].posted
  <2>1. DOMAIN ledger = 1..n /\ ledger = [i \in 1..n |-> ledger[i]] OBVIOUS
  <2>2. \A i \in 1..n : \E s, a, amt, p, rec : ledger[i] = GLRow(s, a, amt, p, rec)
    OBVIOUS
  <2> HIDE DEF ledger
  <2> QED BY <2>1, <2>2, RowsShape
<1> HIDE DEF d, sl, ledger
<1>4. AsIs(c) /\ c.gl = gltrans BY <1>2, AsIsReplaced
<1>5. AsIs(e) /\ Kept(gltrans, e.gl, closed)
  <2>1. gl = d.gl \o ledger /\ e = [d EXCEPT !.gl = gl]
    OBVIOUS
  <2> HIDE DEF gl, e
  <2> QED BY <1>2, <1>3, <2>1, AsIsAppended
<1> HIDE DEF c, e, gl
<1>6. CASE UseJournals BY <1>1, <1>4, <1>6, KeptSelf, RoutinePosting
<1>7. CASE ~UseJournals BY <1>1, <1>5, <1>7, RoutinePosting
<1> QED BY <1>6, <1>7

\* The rows a series poster takes are numbered from one.
LEMMA SeriesShape ==
    ASSUME IInv, NEW seq
    PROVE  IsSeq(SeriesOf(seq))
BY ChosenShape DEF SeriesOf, IInv

LEMMA NonZeroShape ==
    ASSUME NEW s, IsSeq(s)
    PROVE  IsSeq(NonZero(s))
BY ChosenShape DEF NonZero

LEMMA NoSummStep ==
    ASSUME IInv, NEW seq, NEW priv, PostGLSeriesNoSumm(seq, priv)
    PROVE  Routine
<1> DEFINE rows == NonZero(SeriesOf(seq))
<1>1. Commit(PostedSeries(seq, rows, priv), sequence)
  BY DEF PostGLSeriesNoSumm
<1>2. Len(rows) \in Nat /\ DOMAIN rows = 1..Len(rows)
  BY SeriesShape, NonZeroShape, SeqDomain
<1> HIDE DEF rows
<1> QED BY <1>1, <1>2, PostedSeriesStep

LEMMA InsertSeriesStep ==
    ASSUME IInv, NEW seq, NEW a, NEW amt, NEW p, NEW priv,
           InsertIntoGLSeries(seq, a, amt, p, priv)
    PROVE  Routine
<1> DEFINE row == [sequence |-> seq, accnt |-> a, amount |-> amt, period |-> p]
           gs == Append(DB.gs, row)
           d == [DB EXCEPT !.gs = gs]
           next == IF seq \in OpenSeries THEN sequence ELSE seq
<1>1. Commit(d, next) BY DEF InsertIntoGLSeries
<1>2. IsSeq(gs)
  <2> HIDE DEF row
  <2> QED BY DBGood, AppendShape DEF IInv
<1> HIDE DEF gs, next
<1>3. AsIs(d) /\ d.gl = gltrans BY <1>2, AsIsNow, AsIsReplaced
<1> HIDE DEF d
<1> QED BY <1>1, <1>3, RoutineQuiet

LEMMA DropSeriesStep ==
    ASSUME IInv, NEW seq, DropGLSeries(seq)
    PROVE  Routine
<1> DEFINE d == [DB EXCEPT !.gs = SeriesBut(seq)]
<1>1. Commit(d, sequence) BY DEF DropGLSeries
<1>2. AsIs(d) /\ d.gl = gltrans BY AsIsNow, SeriesButShape, AsIsReplaced
<1> HIDE DEF d
<1> QED BY <1>1, <1>2, RoutineQuiet

\* postGLSeries adds the discrepancy row and sums the groups.
LEMMA PostGLSeriesStep ==
    ASSUME IInv, NEW seq, NEW priv, PostGLSeries(seq, priv)
    PROVE  Routine
<1> DEFINE series == SeriesOf(seq)
           delta == SumOf(series, EveryRow)
           x == [sequence |-> seq, accnt |-> DiscrepancyAccount, amount |-> -delta,
                 period |-> Max({series[i].period : i \in DOMAIN series})]
           whole == IF delta = 0 THEN series ELSE Append(series, x)
           rows == Grouped(NonZero(whole))
<1>1. Commit(PostedSeries(seq, rows, priv), sequence)
  BY DEF PostGLSeries
<1>2. IsSeq(whole)
  <2>1. IsSeq(series) BY SeriesShape
  <2> HIDE DEF series, x, delta
  <2>2. IsSeq(Append(series, x)) BY <2>1, AppendShape
  <2> QED BY <2>1, <2>2
<1> HIDE DEF whole
<1>3. IsSeq(NonZero(whole)) BY <1>2, NonZeroShape
<1>4. PICK n \in Nat : DOMAIN rows = 1..n
  <2> DEFINE s == NonZero(whole)
             ids == {i \in DOMAIN s : \A j \in DOMAIN s :
                       SameGroup(s[i], s[j]) => i <= j}
             leads == Chosen(s, ids)
  <2>1. DOMAIN rows = DOMAIN leads BY DEF Grouped
  <2>2. ids \subseteq DOMAIN s OBVIOUS
  <2> HIDE DEF s, ids, rows
  <2> QED BY <1>3, <2>1, <2>2, ChosenShape DEF s
<1> HIDE DEF rows
<1> QED BY <1>1, <1>4, PostedSeriesStep

LEMMA DeleteSeriesStep ==
    ASSUME IInv, NEW seq, NEW priv, DeleteGLSeries(seq, priv)
    PROVE  Preserved
<1> DEFINE ids == Live(seq)
           done == FoldLeft(UnpostRow, DB, InSequence(ids))
           gl == [i \in DOMAIN gltrans |->
                    IF i \in ids THEN [gltrans[i] EXCEPT !.posted = FALSE, !.deleted = TRUE]
                    ELSE gltrans[i]]
           b == WithBalances(DB, done)
           d == [b EXCEPT !.gl = gl]
           sl == [j \in DOMAIN sltrans |->
                    IF sltrans[j].glsequence = seq
                    THEN [sltrans[j] EXCEPT !.posted = FALSE, !.glsequence = 0]
                    ELSE sltrans[j]]
           e == [d EXCEPT !.sl = sl]
<1>1. Commit(e, sequence) BY DEF DeleteGLSeries
<1>2. \A i \in ids : i \in DOMAIN gltrans /\ gltrans[i].period \in periods \ closed
  BY DEF DeleteGLSeries, Live, Postable, DB
<1>3. Sound(gl, periods) /\ Kept(gltrans, gl, closed)
  <2> HIDE DEF ids
  <2>1. Len(gltrans) \in Nat /\ DOMAIN gltrans = 1..Len(gltrans)
    BY SeqDomain DEF IInv, Sound
  <2>2. DOMAIN gl = 1..Len(gltrans) /\ gl = [i \in 1..Len(gltrans) |-> gl[i]] BY <2>1
  <2>3. ASSUME NEW i \in DOMAIN gltrans
        PROVE  /\ IsRow(gl[i]) /\ gl[i].period = gltrans[i].period
               /\ i \notin ids => gl[i] = gltrans[i]
               /\ i \in ids => ~gl[i].posted
    <3>1. IsRow(gltrans[i]) BY <2>3 DEF IInv, Sound
    <3>2. CASE i \in ids
      <4>1. gl[i] = [gltrans[i] EXCEPT !.posted = FALSE, !.deleted = TRUE] BY <3>2
      <4> HIDE DEF gl
      <4> QED BY <3>1, <3>2, <4>1 DEF IsRow
    <3>3. CASE i \notin ids
      <4>1. gl[i] = gltrans[i] BY <3>3
      <4> HIDE DEF gl
      <4> QED BY <3>1, <3>3, <4>1
    <3> QED BY <3>2, <3>3
  <2> HIDE DEF gl
  <2>4. IsSeq(gl) BY <2>1, <2>2, SeqShape
  <2>5. DOMAIN gl = DOMAIN gltrans BY <2>1, <2>2
  <2>6. Sound(gl, periods) BY <2>3, <2>4, <2>5 DEF Sound, IInv
  <2>7. Kept(gltrans, gl, closed) BY <1>2, <2>3, <2>5 DEF Kept, PostedIn
  <2> QED BY <2>6, <2>7
<1> HIDE DEF ids, done, sl, gl
<1>4. /\ Good(b) /\ b.periods = periods /\ b.closed = closed
  BY Replacing, DBGood
<1> HIDE DEF b
<1>5. Good(d) /\ d.gl = gl /\ d.closed = closed
  BY <1>3, <1>4 DEF Good, IsDB
<1> HIDE DEF d
<1>6. Good(e) /\ e.gl = gl /\ e.closed = closed BY <1>5, Replacing
<1> HIDE DEF e
<1>7. Kept(gltrans, e.gl, closed \cap e.closed) BY <1>3, <1>6
<1> QED BY <1>1, <1>6, <1>7, Committed

LEMMA ReverseStep ==
    ASSUME IInv, NEW seq, NEW p, NEW priv, ReverseGLSeries(seq, p, priv)
    PROVE  Routine
<1> DEFINE new == fetchGLSequence
           neg == Negated(gltrans, seq, new, p)
           slneg == Negated(sltrans, seq, new, p)
           rows == [i \in DOMAIN neg |-> GLRow(new, neg[i].accnt, neg[i].amount, p, FALSE)]
           gl == DB.gl \o rows
           sl == DB.sl \o [i \in DOMAIN slneg |->
                             SLRow(new, slneg[i].accnt, slneg[i].amount, p)]
           d == [DB EXCEPT !.gl = gl]
           c == [DB EXCEPT !.sl = sl]
<1>1. Commit(c, new) \/ Commit(postIntoTrialBalance(d, {new}, priv), new)
  BY DEF ReverseGLSeries
<1>2. PICK n \in Nat : DOMAIN neg = 1..n
  <2> DEFINE ids == {i \in DOMAIN gltrans : gltrans[i].sequence = seq}
             chosen == Chosen(gltrans, ids)
  <2>1. DOMAIN neg = DOMAIN chosen BY DEF Negated
  <2>2. ids \subseteq DOMAIN gltrans OBVIOUS
  <2> HIDE DEF ids, neg
  <2> QED BY <2>1, <2>2, ChosenShape DEF IInv, Sound
<1>3. IsSeq(rows) /\ \A i \in DOMAIN rows : IsRow(rows[i]) /\ ~rows[i].posted
  <2> HIDE DEF neg, new
  <2>1. DOMAIN rows = 1..n /\ rows = [i \in 1..n |-> rows[i]] BY <1>2
  <2>2. \A i \in 1..n : \E s, a, amt, q, rec : rows[i] = GLRow(s, a, amt, q, rec)
    BY <1>2
  <2> HIDE DEF rows
  <2> QED BY <2>1, <2>2, RowsShape
<1> HIDE DEF new, sl, rows
<1>4. AsIs(c) /\ c.gl = gltrans BY AsIsReplaced, AsIsNow
<1>5. AsIs(d) /\ Kept(gltrans, d.gl, closed)
  <2>1. gl = DB.gl \o rows /\ d = [DB EXCEPT !.gl = gl]
    OBVIOUS
  <2> HIDE DEF gl, d
  <2> QED BY <1>3, <2>1, AsIsAppended, AsIsNow
<1> HIDE DEF c, d, gl
<1>6. CASE Commit(c, new) BY <1>4, <1>6, RoutineQuiet
<1>7. CASE Commit(postIntoTrialBalance(d, {new}, priv), new)
  BY <1>5, <1>7, RoutinePosting
<1> QED BY <1>1, <1>6, <1>7

\* The common end of both postJournals.
LEMMA PostedJournalsStep ==
    ASSUME IInv, NEW ids, NEW p, NEW rec, NEW priv,
           Commit(PostedJournals(ids, p, rec, priv), fetchGLSequence)
    PROVE  Routine
<1> DEFINE new == fetchGLSequence
           pos == {n \in DOMAIN AccountOrder : JournalSum(ids, AccountOrder[n]) # 0}
           accts == Chosen(AccountOrder, pos)
           rows == [i \in DOMAIN accts |->
                      GLRow(new, accts[i], JournalSum(ids, accts[i]), p, rec)]
           sl == Taken(ids, new)
           d == [DB EXCEPT !.sl = sl]
           gl == d.gl \o rows
           e == [d EXCEPT !.gl = gl]
<1>1. Commit(postIntoTrialBalance(e, {new}, priv), new)
  BY DEF PostedJournals
<1> HIDE DEF sl, new
<1>2. PICK n \in Nat : DOMAIN accts = 1..n
  <2>1. IsSeq(AccountOrder) BY LedgerAssumption DEF IsSeq
  <2>2. pos \subseteq DOMAIN AccountOrder OBVIOUS
  <2> HIDE DEF pos
  <2> QED BY <2>1, <2>2, ChosenShape
<1>3. IsSeq(rows) /\ \A i \in DOMAIN rows : IsRow(rows[i]) /\ ~rows[i].posted
  <2> HIDE DEF accts
  <2>1. DOMAIN rows = 1..n /\ rows = [i \in 1..n |-> rows[i]] BY <1>2
  <2>2. \A i \in 1..n : \E s, a, amt, q, r : rows[i] = GLRow(s, a, amt, q, r)
    BY <1>2
  <2> HIDE DEF rows
  <2> QED BY <2>1, <2>2, RowsShape
<1> HIDE DEF rows
<1>4. AsIs(d) /\ d.gl = gltrans
  BY AsIsReplaced, AsIsNow
<1> HIDE DEF d
<1>5. AsIs(e) /\ Kept(gltrans, e.gl, closed)
  <2>1. gl = d.gl \o rows /\ e = [d EXCEPT !.gl = gl]
    OBVIOUS
  <2> HIDE DEF gl, e
  <2> QED BY <1>3, <1>4, <2>1, AsIsAppended
<1> HIDE DEF e, gl
<1> QED BY <1>1, <1>5, RoutinePosting

LEMMA JournalsStep ==
    ASSUME IInv, Journals
    PROVE  Routine
<1>1. ASSUME NEW seq, NEW priv, PostJournals(seq, priv) PROVE Routine
  <2> DEFINE ids == {j \in DOMAIN sltrans : sltrans[j].sequence = seq /\ ~sltrans[j].posted}
  <2>1. Commit(PostedJournals(ids, Today, TRUE, priv), fetchGLSequence)
    BY <1>1 DEF PostJournals
  <2> HIDE DEF ids
  <2> QED BY <2>1, PostedJournalsStep
<1>2. ASSUME NEW from, NEW to, NEW p, NEW priv, PostJournalsBySource(from, to, p, priv)
      PROVE  Routine
  <2> DEFINE ids == {j \in DOMAIN sltrans : sltrans[j].period \in from..to /\ ~sltrans[j].posted}
  <2>1. Commit(PostedJournals(ids, p, FALSE, priv), fetchGLSequence)
    BY <1>2 DEF PostJournalsBySource
  <2> HIDE DEF ids
  <2> QED BY <2>1, PostedJournalsStep
<1> QED BY <1>1, <1>2 DEF Journals

LEMMA ForwardAccountStep ==
    ASSUME IInv, NEW a, ForwardUpdateAccount(a)
    PROVE  Preserved
<1> DEFINE first == Min(periods)
           dirty == Min(DirtySlots(DB, a))
           zero == Write(DB, <<a, first>>, Row(0, 0, 0, 0, FALSE))
           d == forwardUpdateTrialBalance(DB, a, dirty)
           e == forwardUpdateTrialBalance(zero, a, first)
<1>1. Commit(d, sequence) \/ Commit(e, sequence) BY DEF ForwardUpdateAccount
<1> HIDE DEF first, dirty
<1>2. Good(d) /\ d.gl = gltrans BY DBGood, Forwarding
<1>3. Good(zero) /\ zero.gl = gltrans BY DBGood, Writing
<1> HIDE DEF zero
<1>4. Good(e) /\ e.gl = gltrans BY <1>3, Forwarding
<1> HIDE DEF d, e
<1> QED BY <1>1, <1>2, <1>4, QuietStep

LEMMA CloseStep ==
    ASSUME IInv, NEW p, CloseAccountingPeriod(p)
    PROVE  Preserved
<1> DEFINE x == FoldLeft(CloseAccount, DB, [n \in DOMAIN AccountOrder |-> <<AccountOrder[n], p>>])
           b == WithBalances(DB, x)
           shut == b.closed \cup {p}
           d == [b EXCEPT !.closed = shut]
<1>1. Commit(d, sequence) BY DEF CloseAccountingPeriod
<1> HIDE DEF x
<1>2. Good(b) /\ b.gl = gltrans BY DBGood, Replacing
<1> HIDE DEF b, shut
<1>3. Good(d) /\ d.gl = gltrans BY <1>2, Flagging
<1> HIDE DEF d
<1> QED BY <1>1, <1>3, QuietStep

LEMMA OpenStep ==
    ASSUME IInv, NEW p, NEW priv, OpenAccountingPeriod(p, priv)
    PROVE  Preserved
<1> DEFINE left == DB.closed \ {p}
           d == [DB EXCEPT !.closed = left]
           seqs == UnpostedIn(p)
<1>1. Commit(postIntoTrialBalance(d, seqs, priv), sequence)
  BY DEF OpenAccountingPeriod, Reopen
<1> HIDE DEF left, seqs
<1>2. Good(d) /\ d.gl = gltrans BY DBGood, Flagging
<1> HIDE DEF d
<1> QED BY <1>1, <1>2, KeptSelf, PostingStep

LEMMA ThawStep ==
    ASSUME IInv, NEW p, NEW priv, ThawAccountingPeriod(p, priv)
    PROVE  Routine
<1> DEFINE left == DB.frozen \ {p}
           d == [DB EXCEPT !.frozen = left]
           seqs == UnpostedIn(p)
<1>1. Commit(postIntoTrialBalance(d, seqs, priv), sequence)
  BY DEF ThawAccountingPeriod
<1> HIDE DEF left, seqs
<1>2. AsIs(d) /\ d.gl = gltrans BY AsIsNow, AsIsReplaced
<1> HIDE DEF d
<1> QED BY <1>1, <1>2, KeptSelf, RoutinePosting

LEMMA FreezeStep ==
    ASSUME IInv, NEW p, FreezeAccountingPeriod(p)
    PROVE  Routine
<1> DEFINE more == DB.frozen \cup {p}
           d == [DB EXCEPT !.frozen = more]
<1>1. Commit(d, sequence) BY DEF FreezeAccountingPeriod
<1> HIDE DEF more
<1>2. AsIs(d) /\ d.gl = gltrans BY AsIsNow, AsIsReplaced
<1> HIDE DEF d
<1> QED BY <1>1, <1>2, RoutineQuiet

LEMMA CreateStep ==
    ASSUME IInv, NEW p, NEW priv, CreateAccountingPeriod(p, priv)
    PROVE  Preserved
<1> DEFINE more == DB.periods \cup {p}
           c == [DB EXCEPT !.periods = more]
           seqs == UnpostedIn(p)
           d == postIntoTrialBalance(c, seqs, priv)
           seen == Chosen(AccountOrder, {n \in DOMAIN AccountOrder :
                                           RowSlots(d, AccountOrder[n]) # {}})
           last == [n \in DOMAIN seen |-> <<seen[n], Max(RowSlots(d, seen[n]))>>]
           x == FoldLeft(ForwardRow, d, last)
           e == WithBalances(d, x)
<1>1. Commit(e, sequence) BY DEF CreateAccountingPeriod
<1> HIDE DEF x
<1>2. Good(c) /\ c.gl = gltrans /\ c.closed = closed
  <2>1. DB.periods \subseteq more OBVIOUS
  <2>2. c.closed = closed BY DBGood DEF Good, IsDB
  <2> HIDE DEF more
  <2> QED BY <2>1, <2>2, DBGood, Flagging
<1> HIDE DEF c, seqs
<1>3. Good(d) /\ Kept(gltrans, d.gl, closed) /\ d.closed = closed
  BY <1>2, Posting
<1> HIDE DEF d
<1>4. Good(e) /\ e.gl = d.gl /\ e.closed = closed BY <1>3, Replacing
<1> HIDE DEF e
<1>5. Kept(gltrans, e.gl, closed \cap e.closed) BY <1>3, <1>4
<1> QED BY <1>1, <1>4, <1>5, Committed

LEMMA DeleteStep ==
    ASSUME IInv, NEW p, DeleteAccountingPeriod(p)
    PROVE  Preserved
<1>1. /\ gltrans' = gltrans /\ glseries' = glseries /\ periods' = periods \ {p}
      /\ closed' = closed
  BY DEF DeleteAccountingPeriod, Removed, Commit, DB
<1>2. \A i \in DOMAIN gltrans : gltrans[i].posted => gltrans[i].period # p
  BY DEF DeleteAccountingPeriod, PostedInto
<1> QED BY <1>1, <1>2, KeptSelf DEF IInv, Sound, Preserved

LEMMA CloseYearStep ==
    ASSUME IInv, NEW y, CloseAccountingYearPeriod(y)
    PROVE  Preserved
<1> DEFINE x == updateRetainedEarnings(DB, y).d
           b == WithBalances(DB, x)
           shut == b.yearclosed \cup {y}
           d == [b EXCEPT !.yearclosed = shut]
<1>1. Commit(d, sequence) BY DEF CloseAccountingYearPeriod
<1> HIDE DEF x
<1>2. Good(b) /\ b.gl = gltrans BY DBGood, Replacing
<1> HIDE DEF b, shut
<1>3. Good(d) /\ d.gl = gltrans BY <1>2, Replacing
<1> HIDE DEF d
<1> QED BY <1>1, <1>3, QuietStep

LEMMA OpenYearStep ==
    ASSUME IInv, NEW y, OpenAccountingYearPeriod(y)
    PROVE  Routine
<1> DEFINE left == DB.yearclosed \ {y}
           d == [DB EXCEPT !.yearclosed = left]
<1>1. Commit(d, sequence) BY DEF OpenAccountingYearPeriod
<1> HIDE DEF left
<1>2. AsIs(d) /\ d.gl = gltrans BY AsIsNow, AsIsReplaced
<1> HIDE DEF d
<1> QED BY <1>1, <1>2, RoutineQuiet

LEMMA StepPreserves == IInv /\ [Next]_vars => Preserved
<1> SUFFICES ASSUME IInv, [Next]_vars PROVE Preserved
  OBVIOUS
<1>0. Routine => Preserved
  BY DEF Routine
<1>1. CASE Entry BY <1>0, <1>1, EntryStep DEF Entry
<1>7. CASE Distribution BY <1>0, <1>7, DistributionStep
<1>2. CASE Series
  BY <1>0, <1>2, InsertSeriesStep, PostGLSeriesStep, NoSummStep, DropSeriesStep DEF Series
<1>3. CASE Correction
  BY <1>0, <1>3, DeleteSeriesStep, ReverseStep DEF Correction
<1>4. CASE Journals BY <1>0, <1>4, JournalsStep
<1>5. CASE Calendar
  BY <1>0, <1>5, CloseStep, FreezeStep, DeleteStep, OpenStep, ThawStep, CreateStep,
     CloseYearStep, OpenYearStep, ForwardAccountStep DEF Calendar, Create
<1>6. CASE UNCHANGED vars
  BY <1>6, KeptSelf DEF vars, IInv, Preserved
<1> QED BY <1>1, <1>2, <1>3, <1>4, <1>5, <1>6, <1>7 DEF Next

LEMMA InitSound == Init => IInv
BY DEF Init, IInv, Sound, IsSeq

LEMMA Invariant == Spec => []IInv
<1>1. IInv /\ [Next]_vars => IInv' BY StepPreserves DEF Preserved
<1> QED BY InitSound, <1>1, PTL DEF Spec

\* Whatever is posted, reversed, deleted, closed, reopened or renumbered, a
\* posted transaction lies in a period that exists.
THEOREM PostedInPeriodHolds == Spec => []PostedInPeriod
<1>1. IInv => PostedInPeriod BY DEF IInv, Sound, PostedInPeriod
<1> QED BY Invariant, <1>1, PTL

\* No procedure posts into a period, or takes a posting back from it, while
\* the period stays closed.
THEOREM ClosedPostingsFixedHolds == Spec => ClosedPostingsFixed
<1>1. IInv /\ [Next]_vars =>
        [\A p \in closed \cap closed' : PostedIn(gltrans', p) = PostedIn(gltrans, p)]_vars
  BY StepPreserves DEF Preserved, Kept
<1> QED BY Invariant, <1>1, PTL DEF Spec, ClosedPostingsFixed

-----------------------------------------------------------------------------
(* The order in which accounting periods and years are closed, for every    *)
(* calendar whose users create periods in date order (Orderly).             *)

\* The periods there are at the start begin with the first slot and leave none
\* out.
FirstOnes == \A p \in InitialPeriods, q \in Slots : q < p => q \in InitialPeriods

\* No slot before a period is without one: what Orderly gives.
NoHole == \A p \in periods, q \in Slots : q < p => q \in periods

\* The inductive invariant.  closeAccountingPeriod looks only at the period
\* just before, which says something of all earlier ones because of NoHole.
CalendarInv ==
    /\ periods \subseteq Slots /\ closed \subseteq periods /\ yearclosed \subseteq Years
    /\ NoHole
    /\ ClosedInOrder

-----------------------------------------------------------------------------
(* Procedures that leave the calendar alone.                               *)

\* A database with the calendar of the present state.
SameCalendar(d) ==
    IsDB(d) /\ d.periods = periods /\ d.closed = closed /\ d.yearclosed = yearclosed

CalendarKept == periods' = periods /\ closed' = closed /\ yearclosed' = yearclosed

LEMMA DBSame == SameCalendar(DB)
BY DEF SameCalendar, IsDB, DB

LEMMA OtherTables ==
    ASSUME NEW d, NEW e, NEW v, SameCalendar(d),
           \/ e = [d EXCEPT !.gl = v]
           \/ e = [d EXCEPT !.sl = v]
           \/ e = [d EXCEPT !.ilp = v]
           \/ e = [d EXCEPT !.gs = v]
           \/ e = [d EXCEPT !.frozen = v]
           \/ e = WithBalances(d, v)
    PROVE  SameCalendar(e)
BY DEF SameCalendar, IsDB, WithBalances

LEMMA BalanceFields ==
    ASSUME NEW d, NEW v, NEW e, IsDB(d), e = WithBalances(d, v)
    PROVE  /\ IsDB(e) /\ e.periods = d.periods /\ e.closed = d.closed
           /\ e.yearclosed = d.yearclosed
BY DEF WithBalances, IsDB

\* postIntoTrialBalance writes ledger rows and balances.
LEMMA PostingFields ==
    ASSUME NEW d, NEW seqs, NEW priv, IsDB(d)
    PROVE  LET e == postIntoTrialBalance(d, seqs, priv)
           IN  IsDB(e) /\ e.periods = d.periods /\ e.closed = d.closed
               /\ e.yearclosed = d.yearclosed
<1> DEFINE ids == Pending(d, seqs, priv)
           done == FoldLeft(PostRow, d, InSequence(ids))
           gl == [i \in DOMAIN d.gl |-> [d.gl[i] EXCEPT !.posted = @ \/ i \in ids]]
           b == WithBalances(d, done)
           e == [b EXCEPT !.gl = gl]
<1>1. postIntoTrialBalance(d, seqs, priv) = e BY DEF postIntoTrialBalance
<1> HIDE DEF done, gl
<1>2. /\ IsDB(b) /\ b.periods = d.periods /\ b.closed = d.closed
      /\ b.yearclosed = d.yearclosed
  BY BalanceFields
<1> HIDE DEF b
<1>3. /\ IsDB(e) /\ e.periods = d.periods /\ e.closed = d.closed
      /\ e.yearclosed = d.yearclosed
  BY <1>2 DEF IsDB
<1> HIDE DEF e
<1> QED BY <1>1, <1>3

LEMMA PostingSame ==
    ASSUME NEW d, NEW seqs, NEW priv, SameCalendar(d)
    PROVE  SameCalendar(postIntoTrialBalance(d, seqs, priv))
BY PostingFields DEF SameCalendar

LEMMA CommitSame ==
    ASSUME NEW d, NEW seq, SameCalendar(d), Commit(d, seq)
    PROVE  CalendarKept
BY DEF Commit, SameCalendar, CalendarKept

LEMMA EntryKeeps ==
    ASSUME NEW cr, NEW db, NEW amt, NEW p, NEW post, NEW onlyGL, NEW priv,
           InsertGLTransaction(cr, db, amt, p, post, onlyGL, priv)
    PROVE  CalendarKept
<1> DEFINE seq == fetchGLSequence
           gl == DB.gl \o <<GLRow(seq, cr, amt, p, FALSE), GLRow(seq, db, -amt, p, FALSE)>>
           sl == DB.sl \o <<SLRow(seq, cr, amt, p), SLRow(seq, db, -amt, p)>>
           d == [DB EXCEPT !.gl = gl]
           c == [DB EXCEPT !.sl = sl]
           noted == d.ilp \cup {seq}
           e == [d EXCEPT !.ilp = noted]
<1>1. \/ Commit(c, seq) \/ Commit(postIntoTrialBalance(d, {seq}, priv), seq)
      \/ Commit(e, seq)
  BY DEF InsertGLTransaction
<1> HIDE DEF sl, gl, seq
<1>2. SameCalendar(c) /\ SameCalendar(d) BY DBSame, OtherTables
<1> HIDE DEF c, d, noted
<1>3. SameCalendar(e) BY <1>2, OtherTables
<1> HIDE DEF e
<1> QED BY <1>1, <1>2, <1>3, PostingSame, CommitSame

LEMMA DistributionKeeps ==
    ASSUME Distribution
    PROVE  CalendarKept
<1> SUFFICES ASSUME NEW seq,
                    \/ \E priv \in BOOLEAN : PostItemLocSeries(seq, priv)
                    \/ DeleteItemLocSeries(seq)
             PROVE  CalendarKept
  BY DEF Distribution
<1> DEFINE left == DB.ilp \ {seq}
           d == [DB EXCEPT !.ilp = left]
<1>1. \/ \E priv \in BOOLEAN : Commit(postIntoTrialBalance(d, {seq}, priv), sequence)
      \/ Commit(d, sequence)
  BY DEF PostItemLocSeries, DeleteItemLocSeries
<1> HIDE DEF left
<1>2. SameCalendar(d) BY DBSame, OtherTables
<1> HIDE DEF d
<1> QED BY <1>1, <1>2, PostingSame, CommitSame

LEMMA PostedSeriesKeeps ==
    ASSUME NEW seq, NEW rows, NEW priv,
           Commit(PostedSeries(seq, rows, priv), sequence)
    PROVE  CalendarKept
<1> DEFINE new == [i \in DOMAIN rows |->
                     SLRow(seq, rows[i].accnt, rows[i].amount, rows[i].period)]
           ledger == [i \in DOMAIN rows |->
                     GLRow(seq, rows[i].accnt, rows[i].amount, rows[i].period, FALSE)]
           d == [DB EXCEPT !.gs = SeriesBut(seq)]
           sl == d.sl \o new
           gl == d.gl \o ledger
           c == [d EXCEPT !.sl = sl]
           e == [d EXCEPT !.gl = gl]
<1>1. Commit(postIntoTrialBalance(IF UseJournals THEN c ELSE e, {seq}, priv), sequence)
  BY DEF PostedSeries
<1>2. SameCalendar(d) BY DBSame, OtherTables
<1> HIDE DEF d, sl, gl
<1>3. SameCalendar(c) /\ SameCalendar(e) BY <1>2, OtherTables
<1> HIDE DEF c, e
<1> QED BY <1>1, <1>3, PostingSame, CommitSame

LEMMA SeriesKeeps ==
    ASSUME Series
    PROVE  CalendarKept
<1>1. ASSUME NEW seq, NEW a, NEW amt, NEW p, NEW priv,
             InsertIntoGLSeries(seq, a, amt, p, priv)
      PROVE  CalendarKept
  <2> DEFINE gs == Append(DB.gs, [sequence |-> seq, accnt |-> a, amount |-> amt,
                                  period |-> p])
             d == [DB EXCEPT !.gs = gs]
             next == IF seq \in OpenSeries THEN sequence ELSE seq
  <2>1. Commit(d, next) BY <1>1 DEF InsertIntoGLSeries
  <2> HIDE DEF gs, next
  <2>2. SameCalendar(d) BY DBSame, OtherTables
  <2> HIDE DEF d
  <2> QED BY <2>1, <2>2, CommitSame
<1>2. ASSUME NEW seq, NEW priv, PostGLSeries(seq, priv) PROVE CalendarKept
  <2>1. \E rows : Commit(PostedSeries(seq, rows, priv), sequence)
    BY <1>2 DEF PostGLSeries
  <2> QED BY <2>1, PostedSeriesKeeps
<1>3. ASSUME NEW seq, NEW priv, PostGLSeriesNoSumm(seq, priv) PROVE CalendarKept
  <2>1. \E rows : Commit(PostedSeries(seq, rows, priv), sequence)
    BY <1>3 DEF PostGLSeriesNoSumm
  <2> QED BY <2>1, PostedSeriesKeeps
<1>4. ASSUME NEW seq, DropGLSeries(seq) PROVE CalendarKept
  <2> DEFINE d == [DB EXCEPT !.gs = SeriesBut(seq)]
  <2>1. Commit(d, sequence) BY <1>4 DEF DropGLSeries
  <2>2. SameCalendar(d) BY DBSame, OtherTables
  <2> HIDE DEF d
  <2> QED BY <2>1, <2>2, CommitSame
<1> QED BY <1>1, <1>2, <1>3, <1>4 DEF Series

LEMMA CorrectionKeeps ==
    ASSUME Correction
    PROVE  CalendarKept
<1>1. ASSUME NEW seq, NEW priv, DeleteGLSeries(seq, priv) PROVE CalendarKept
  <2> DEFINE ids == Live(seq)
             done == FoldLeft(UnpostRow, DB, InSequence(ids))
             gl == [i \in DOMAIN gltrans |->
                      IF i \in ids THEN [gltrans[i] EXCEPT !.posted = FALSE, !.deleted = TRUE]
                      ELSE gltrans[i]]
             b == WithBalances(DB, done)
             d == [b EXCEPT !.gl = gl]
             sl == [j \in DOMAIN sltrans |->
                      IF sltrans[j].glsequence = seq
                      THEN [sltrans[j] EXCEPT !.posted = FALSE, !.glsequence = 0]
                      ELSE sltrans[j]]
             e == [d EXCEPT !.sl = sl]
  <2>1. Commit(e, sequence) BY <1>1 DEF DeleteGLSeries
  <2> HIDE DEF ids, done, sl, gl
  <2>2. SameCalendar(b) BY DBSame, OtherTables
  <2> HIDE DEF b
  <2>3. SameCalendar(d) BY <2>2, OtherTables
  <2> HIDE DEF d
  <2>4. SameCalendar(e) BY <2>3, OtherTables
  <2> HIDE DEF e
  <2> QED BY <2>1, <2>4, CommitSame
<1>2. ASSUME NEW seq, NEW p, NEW priv, ReverseGLSeries(seq, p, priv) PROVE CalendarKept
  <2> DEFINE new == fetchGLSequence
             neg == Negated(gltrans, seq, new, p)
             slneg == Negated(sltrans, seq, new, p)
             gl == DB.gl \o [i \in DOMAIN neg |->
                               GLRow(new, neg[i].accnt, neg[i].amount, p, FALSE)]
             sl == DB.sl \o [i \in DOMAIN slneg |->
                               SLRow(new, slneg[i].accnt, slneg[i].amount, p)]
             d == [DB EXCEPT !.gl = gl]
             c == [DB EXCEPT !.sl = sl]
  <2>1. Commit(c, new) \/ Commit(postIntoTrialBalance(d, {new}, priv), new)
    BY <1>2 DEF ReverseGLSeries
  <2> HIDE DEF gl, sl, new
  <2>2. SameCalendar(c) /\ SameCalendar(d) BY DBSame, OtherTables
  <2> HIDE DEF c, d
  <2> QED BY <2>1, <2>2, PostingSame, CommitSame
<1> QED BY <1>1, <1>2 DEF Correction

LEMMA JournalsKeep ==
    ASSUME Journals
    PROVE  CalendarKept
<1>1. ASSUME NEW ids, NEW p, NEW rec, NEW priv,
             Commit(PostedJournals(ids, p, rec, priv), fetchGLSequence)
      PROVE  CalendarKept
  <2> DEFINE new == fetchGLSequence
             accts == Chosen(AccountOrder, {n \in DOMAIN AccountOrder :
                                              JournalSum(ids, AccountOrder[n]) # 0})
             rows == [i \in DOMAIN accts |->
                        GLRow(new, accts[i], JournalSum(ids, accts[i]), p, rec)]
             sl == Taken(ids, new)
             d == [DB EXCEPT !.sl = sl]
             gl == d.gl \o rows
             e == [d EXCEPT !.gl = gl]
  <2>1. Commit(postIntoTrialBalance(e, {new}, priv), new)
    BY <1>1 DEF PostedJournals
  <2> HIDE DEF sl, new, rows
  <2>2. SameCalendar(d) BY DBSame, OtherTables
  <2> HIDE DEF d, gl
  <2>3. SameCalendar(e) BY <2>2, OtherTables
  <2> HIDE DEF e
  <2> QED BY <2>1, <2>3, PostingSame, CommitSame
<1>2. ASSUME NEW seq, NEW priv, PostJournals(seq, priv) PROVE CalendarKept
  <2>1. \E ids : Commit(PostedJournals(ids, Today, TRUE, priv), fetchGLSequence)
    BY <1>2 DEF PostJournals
  <2> QED BY <2>1, <1>1
<1>3. ASSUME NEW from, NEW to, NEW p, NEW priv, PostJournalsBySource(from, to, p, priv)
      PROVE  CalendarKept
  <2>1. \E ids : Commit(PostedJournals(ids, p, FALSE, priv), fetchGLSequence)
    BY <1>3 DEF PostJournalsBySource
  <2> QED BY <2>1, <1>1
<1> QED BY <1>2, <1>3 DEF Journals

LEMMA WriteSame ==
    ASSUME NEW d, NEW k, NEW row, SameCalendar(d)
    PROVE  SameCalendar(Write(d, k, row))
<1> DEFINE x == [tb |-> [j \in DOMAIN d.tb \cup {k} |-> IF j = k THEN row ELSE d.tb[j]],
                 raised |-> d.raised \/ ~MayAlter(d, k, row)]
           e == WithBalances(d, x)
<1>1. Write(d, k, row) = e BY DEF Write
<1> HIDE DEF x
<1>2. SameCalendar(e) BY OtherTables
<1> QED BY <1>1, <1>2

LEMMA ForwardSame ==
    ASSUME NEW d, NEW a, NEW p, SameCalendar(d)
    PROVE  SameCalendar(forwardUpdateTrialBalance(d, a, p))
<1> DEFINE x == Finish(FoldLeft(VisitPeriod, Start(d, a, p), SlotsAfter(p)), p)
           e == WithBalances(d, x)
<1>1. forwardUpdateTrialBalance(d, a, p) = e BY DEF forwardUpdateTrialBalance
<1> HIDE DEF x
<1>2. SameCalendar(e) BY OtherTables
<1> QED BY <1>1, <1>2

LEMMA ForwardUpdateKeeps ==
    ASSUME NEW a, ForwardUpdateAccount(a)
    PROVE  CalendarKept
<1> DEFINE zero == Write(DB, <<a, Min(periods)>>, Row(0, 0, 0, 0, FALSE))
<1>1. \/ \E p : Commit(forwardUpdateTrialBalance(DB, a, p), sequence)
      \/ \E p : Commit(forwardUpdateTrialBalance(zero, a, p), sequence)
  BY DEF ForwardUpdateAccount
<1>2. SameCalendar(zero) BY DBSame, WriteSame
<1> HIDE DEF zero
<1> QED BY <1>1, <1>2, DBSame, ForwardSame, CommitSame

LEMMA ThawKeeps ==
    ASSUME NEW p, NEW priv, FreezeAccountingPeriod(p) \/ ThawAccountingPeriod(p, priv)
    PROVE  CalendarKept
<1> DEFINE more == DB.frozen \cup {p}
           left == DB.frozen \ {p}
           seqs == UnpostedIn(p)
           c == [DB EXCEPT !.frozen = more]
           d == [DB EXCEPT !.frozen = left]
<1>1. Commit(c, sequence) \/ Commit(postIntoTrialBalance(d, seqs, priv), sequence)
  BY DEF FreezeAccountingPeriod, ThawAccountingPeriod
<1> HIDE DEF more, left, seqs
<1>2. SameCalendar(c) /\ SameCalendar(d) BY DBSame, OtherTables
<1> HIDE DEF c, d
<1> QED BY <1>1, <1>2, PostingSame, CommitSame

-----------------------------------------------------------------------------
(* Procedures that write the calendar.                                     *)

LEMMA CloseFields ==
    ASSUME NEW p, CloseAccountingPeriod(p)
    PROVE  periods' = periods /\ closed' = closed \cup {p} /\ yearclosed' = yearclosed
<1> DEFINE x == FoldLeft(CloseAccount, DB, [n \in DOMAIN AccountOrder |-> <<AccountOrder[n], p>>])
           b == WithBalances(DB, x)
           shut == b.closed \cup {p}
           d == [b EXCEPT !.closed = shut]
<1>1. Commit(d, sequence) BY DEF CloseAccountingPeriod
<1> HIDE DEF x
<1>2. SameCalendar(b) BY DBSame, OtherTables
<1> HIDE DEF b
<1>3. /\ IsDB(d) /\ d.periods = periods /\ d.closed = closed \cup {p}
      /\ d.yearclosed = yearclosed
  BY <1>2 DEF SameCalendar, IsDB
<1> HIDE DEF d
<1> QED BY <1>1, <1>3 DEF Commit

LEMMA OpenFields ==
    ASSUME NEW p, NEW priv, OpenAccountingPeriod(p, priv)
    PROVE  periods' = periods /\ closed' = closed \ {p} /\ yearclosed' = yearclosed
<1> DEFINE left == DB.closed \ {p}
           d == [DB EXCEPT !.closed = left]
           e == postIntoTrialBalance(d, UnpostedIn(p), priv)
<1>1. Commit(e, sequence) BY DEF OpenAccountingPeriod, Reopen
<1>2. left = closed \ {p} BY DEF DB
<1> HIDE DEF left
<1>3. IsDB(d) /\ d.periods = periods /\ d.closed = left /\ d.yearclosed = yearclosed
  BY DBSame DEF SameCalendar, IsDB
<1> HIDE DEF d
<1>4. e.periods = periods /\ e.closed = left /\ e.yearclosed = yearclosed
  BY <1>3, PostingFields
<1> HIDE DEF e
<1> QED BY <1>1, <1>2, <1>4 DEF Commit

LEMMA CreateFields ==
    ASSUME NEW p, NEW priv, CreateAccountingPeriod(p, priv)
    PROVE  periods' = periods \cup {p} /\ closed' = closed /\ yearclosed' = yearclosed
<1> DEFINE more == DB.periods \cup {p}
           c == [DB EXCEPT !.periods = more]
           seqs == UnpostedIn(p)
           d == postIntoTrialBalance(c, seqs, priv)
           seen == Chosen(AccountOrder, {n \in DOMAIN AccountOrder :
                                           RowSlots(d, AccountOrder[n]) # {}})
           last == [n \in DOMAIN seen |-> <<seen[n], Max(RowSlots(d, seen[n]))>>]
           x == FoldLeft(ForwardRow, d, last)
           e == WithBalances(d, x)
<1>1. Commit(e, sequence) BY DEF CreateAccountingPeriod
<1> HIDE DEF x
<1>2. more = periods \cup {p} BY DEF DB
<1> HIDE DEF more
<1>3. IsDB(c) /\ c.periods = more /\ c.closed = closed /\ c.yearclosed = yearclosed
  BY DBSame DEF SameCalendar, IsDB
<1> HIDE DEF c, seqs
<1>4. IsDB(d) /\ d.periods = more /\ d.closed = closed /\ d.yearclosed = yearclosed
  BY <1>3, PostingFields
<1> HIDE DEF d
<1>5. e.periods = more /\ e.closed = closed /\ e.yearclosed = yearclosed
  BY <1>4 DEF WithBalances, IsDB
<1> HIDE DEF e
<1> QED BY <1>1, <1>2, <1>5 DEF Commit

LEMMA DeleteFields ==
    ASSUME NEW p, DeleteAccountingPeriod(p)
    PROVE  periods' = periods \ {p} /\ closed' = closed /\ yearclosed' = yearclosed
BY DEF DeleteAccountingPeriod, Removed, Commit, DB

LEMMA CloseYearFields ==
    ASSUME NEW y, CloseAccountingYearPeriod(y)
    PROVE  periods' = periods /\ closed' = closed /\ yearclosed' = yearclosed \cup {y}
<1> DEFINE b == WithBalances(DB, updateRetainedEarnings(DB, y).d)
           shut == b.yearclosed \cup {y}
           d == [b EXCEPT !.yearclosed = shut]
<1>1. Commit(d, sequence) BY DEF CloseAccountingYearPeriod
<1>2. SameCalendar(b) BY DBSame, OtherTables
<1> HIDE DEF b
<1>3. d.periods = periods /\ d.closed = closed /\ d.yearclosed = yearclosed \cup {y}
  BY <1>2 DEF SameCalendar, IsDB
<1> HIDE DEF d
<1> QED BY <1>1, <1>3 DEF Commit

LEMMA OpenYearFields ==
    ASSUME NEW y, OpenAccountingYearPeriod(y)
    PROVE  periods' = periods /\ closed' = closed /\ yearclosed' = yearclosed \ {y}
BY DEF OpenAccountingYearPeriod, Commit, DB

-----------------------------------------------------------------------------
(* The invariant.                                                          *)

LEMMA YearNumbers ==
    /\ \A s \in Slots : s \in Int /\ s >= 1 /\ YearOf[s] \in Nat
    /\ \A y \in Years : y \in Nat
    /\ \A s \in Slots : s # 1 => s - 1 \in Slots
BY LedgerAssumption DEF Slots, Years

\* With no hole the initial period, if there is any, is the first slot.
LEMMA InitialFirst ==
    ASSUME CalendarInv, NEW p \in periods, Initial(p)
    PROVE  \A q \in Slots : q >= p
<1>1. 1 \in Slots /\ \A q \in Slots : q \in Int /\ 1 <= q
  BY LedgerAssumption DEF Slots
<1>2. 1 \in periods
  BY <1>1 DEF CalendarInv, NoHole
<1>3. \A x \in periods : (\A y \in periods : x =< y) => x = 1
  BY <1>1, <1>2 DEF CalendarInv
<1>4. Min(periods) = 1
  BY <1>1, <1>2, <1>3 DEF Min, CalendarInv
<1> QED BY <1>1, <1>4 DEF Initial

LEMMA CloseCalendar ==
    ASSUME CalendarInv, NEW p \in Slots, CloseAccountingPeriod(p)
    PROVE  CalendarInv'
<1>1. periods' = periods /\ closed' = closed \cup {p} /\ yearclosed' = yearclosed
  BY CloseFields
<1>2. p \in periods /\ (~Initial(p) => p - 1 \in closed)
  BY DEF CloseAccountingPeriod
<1>3. ASSUME NEW q \in periods, q < p PROVE q \in closed
  <2>1. q \in Slots /\ q \in Int /\ p \in Int
    BY YearNumbers DEF CalendarInv
  <2>2. p - 1 \in closed
    BY <1>2, <1>3, <2>1, InitialFirst
  <2>3. q < p - 1 \/ q = p - 1
    BY <1>3, <2>1
  <2> QED BY <2>2, <2>3 DEF CalendarInv, ClosedInOrder
<1>4. ClosedInOrder'
  BY <1>1, <1>3 DEF ClosedInOrder, CalendarInv
<1> QED BY <1>1, <1>2, <1>4 DEF CalendarInv, NoHole

LEMMA OpenCalendar ==
    ASSUME CalendarInv, NEW p \in Slots, NEW priv, OpenAccountingPeriod(p, priv)
    PROVE  CalendarInv'
<1>1. periods' = periods /\ closed' = closed \ {p} /\ yearclosed' = yearclosed
  BY OpenFields
<1>2. (\A q \in closed : q <= p) /\ YearOf[p] \notin yearclosed
  BY DEF OpenAccountingPeriod
<1>3. ASSUME NEW r \in closed', NEW q \in periods', q < r PROVE q \in closed'
  <2>1. r <= p /\ r \in Int /\ q \in Int /\ p \in Int
    BY <1>1, <1>2, YearNumbers DEF CalendarInv
  <2>2. q # p /\ q \in closed
    BY <1>1, <1>3, <2>1 DEF CalendarInv, ClosedInOrder
  <2> QED BY <1>1, <2>2
<1>4. ASSUME NEW y \in yearclosed', NEW q \in periods', YearOf[q] = y PROVE q \in closed'
  BY <1>1, <1>2, <1>4 DEF CalendarInv, ClosedInOrder
<1>5. ClosedInOrder'
  BY <1>1, <1>3, <1>4 DEF ClosedInOrder, CalendarInv
<1> QED BY <1>1, <1>5 DEF CalendarInv, NoHole

LEMMA CreateCalendar ==
    ASSUME Orderly, CalendarInv, NEW p \in Slots, NEW priv, Create(p, priv)
    PROVE  CalendarInv'
<1>1. periods' = periods \cup {p} /\ closed' = closed /\ yearclosed' = yearclosed
  BY CreateFields DEF Create
<1>2. /\ p = 1 \/ p - 1 \in periods
      /\ YearOf[p] \notin yearclosed
      /\ p \notin periods
  BY DEF Create, InOrder, CreateAccountingPeriod
<1>3. ASSUME NEW q \in Slots, q < p PROVE q \in periods
  <2>1. q \in Int /\ p \in Int /\ q >= 1 /\ p - 1 \in periods
    BY <1>2, <1>3, YearNumbers
  <2>2. q < p - 1 \/ q = p - 1
    BY <1>3, <2>1
  <2> QED BY <2>1, <2>2 DEF CalendarInv, NoHole
<1>4. NoHole'
  BY <1>1, <1>3 DEF NoHole, CalendarInv
<1>5. \A r \in closed : ~(p < r)
  BY <1>2 DEF CalendarInv, NoHole
<1>6. ClosedInOrder'
  BY <1>1, <1>2, <1>5 DEF ClosedInOrder, CalendarInv
<1> QED BY <1>1, <1>4, <1>6 DEF CalendarInv

LEMMA DeleteCalendar ==
    ASSUME CalendarInv, NEW p \in Slots, DeleteAccountingPeriod(p)
    PROVE  CalendarInv'
<1>1. periods' = periods \ {p} /\ closed' = closed /\ yearclosed' = yearclosed
  BY DeleteFields
<1>2. p \in periods \ closed /\ \A q \in periods : q <= p
  BY DEF DeleteAccountingPeriod
<1>3. NoHole'
  <2> SUFFICES ASSUME NEW r \in periods', NEW q \in Slots, q < r PROVE q \in periods'
    BY DEF NoHole
  <2>1. q \in periods /\ r <= p /\ r \in Int /\ q \in Int /\ p \in Int
    BY <1>1, <1>2, YearNumbers DEF CalendarInv, NoHole
  <2> QED BY <1>1, <2>1
<1>4. ClosedInOrder'
  BY <1>1 DEF ClosedInOrder, CalendarInv
<1> QED BY <1>1, <1>2, <1>3, <1>4 DEF CalendarInv

LEMMA YearCalendar ==
    ASSUME CalendarInv, NEW y \in Years,
           CloseAccountingYearPeriod(y) \/ OpenAccountingYearPeriod(y)
    PROVE  CalendarInv'
<1>1. CASE CloseAccountingYearPeriod(y)
  <2>1. periods' = periods /\ closed' = closed /\ yearclosed' = yearclosed \cup {y}
    BY <1>1, CloseYearFields
  <2>2. /\ \A p \in periods : YearOf[p] = y => p \in closed
        /\ \A x \in Years : x < y => x \in yearclosed
    BY <1>1 DEF CloseAccountingYearPeriod
  <2> QED BY <2>1, <2>2 DEF CalendarInv, ClosedInOrder, NoHole
<1>2. CASE OpenAccountingYearPeriod(y)
  <2>1. periods' = periods /\ closed' = closed /\ yearclosed' = yearclosed \ {y}
    BY <1>2, OpenYearFields
  <2>2. \A x \in yearclosed : x <= y
    BY <1>2 DEF OpenAccountingYearPeriod
  <2>3. ASSUME NEW z \in yearclosed', NEW x \in Years, x < z PROVE x \in yearclosed'
    <3>1. z <= y /\ z \in Nat /\ x \in Nat /\ y \in Nat
      BY <2>1, <2>2, YearNumbers DEF CalendarInv
    <3>2. x # y /\ x \in yearclosed
      BY <2>1, <2>3, <3>1 DEF CalendarInv, ClosedInOrder
    <3> QED BY <2>1, <3>2
  <2> QED BY <2>1, <2>3 DEF CalendarInv, ClosedInOrder, NoHole
<1> QED BY <1>1, <1>2

LEMMA KeptCalendar ==
    ASSUME CalendarInv, CalendarKept
    PROVE  CalendarInv'
BY DEF CalendarInv, CalendarKept, NoHole, ClosedInOrder

LEMMA NextCalendar ==
    ASSUME Orderly, CalendarInv, [Next]_vars
    PROVE  CalendarInv'
<1>1. CASE Entry
  BY <1>1, EntryKeeps, KeptCalendar DEF Entry
<1>2. CASE Distribution
  BY <1>2, DistributionKeeps, KeptCalendar
<1>3. CASE Series
  BY <1>3, SeriesKeeps, KeptCalendar
<1>4. CASE Correction
  BY <1>4, CorrectionKeeps, KeptCalendar
<1>5. CASE Journals
  BY <1>5, JournalsKeep, KeptCalendar
<1>6. CASE Calendar
  BY <1>6, CloseCalendar, OpenCalendar, CreateCalendar, DeleteCalendar, YearCalendar,
     ThawKeeps, ForwardUpdateKeeps, KeptCalendar DEF Calendar
<1>7. CASE UNCHANGED vars
  BY <1>7, KeptCalendar DEF vars, CalendarKept
<1> QED BY <1>1, <1>2, <1>3, <1>4, <1>5, <1>6, <1>7 DEF Next

\* Periods close in order, reopen in the opposite order, and a closed year has
\* only closed periods and closed years before it, whatever users close, open,
\* create and delete, as long as they create periods in date order.
THEOREM ClosedInOrderHolds ==
    ASSUME Orderly, FirstOnes
    PROVE  Spec => []ClosedInOrder
<1>1. Init => CalendarInv
  BY FirstOnes, LedgerAssumption DEF Init, CalendarInv, FirstOnes, NoHole, ClosedInOrder
<1>2. CalendarInv /\ [Next]_vars => CalendarInv'
  BY Orderly, NextCalendar
<1>3. CalendarInv => ClosedInOrder
  BY DEF CalendarInv
<1> QED BY <1>1, <1>2, <1>3, PTL DEF Spec

-----------------------------------------------------------------------------
(* Positions in their order, and sums over chosen rows.                    *)

\* A set of positions can be put in order.
LEMMA InSequenceExists ==
  ASSUME NEW n \in Nat, NEW T, T \subseteq 1..n
  PROVE  \E f \in [1..Cardinality(T) -> T] : \A i, j \in DOMAIN f : i < j => f[i] < f[j]
<1> DEFINE Ordered(S) == \E f \in [1..Cardinality(S) -> S] :
                            \A i, j \in DOMAIN f : i < j => f[i] < f[j]
           Bad == {S \in SUBSET T : ~Ordered(S)}
<1> SUFFICES ASSUME T \in Bad PROVE FALSE
  OBVIOUS
<1>0. IsFiniteSet(T)
  <2>1. IsFiniteSet(1..n)
    BY FS_Interval
  <2> QED
    BY <2>1, FS_Subset
<1>1. PICK S \in Bad : \A U \in Bad : U \subseteq S => U = S
  <2>1. Bad \subseteq SUBSET T /\ Bad # {}
    OBVIOUS
  <2> HIDE DEF Bad
  <2> QED
    BY ONLY <1>0, <2>1, LeastSubset
<1>2. IsFiniteSet(S) /\ S \subseteq 1..n
  BY <1>0, FS_Subset
<1>3. S # {}
  <2> SUFFICES ASSUME S = {} PROVE Ordered(S)
    BY <1>1
  <2>1. Cardinality(S) = 0
    BY FS_EmptySet
  <2> DEFINE f == [i \in 1..0 |-> 0]
  <2>2. f \in [1..Cardinality(S) -> S] /\ \A i, j \in DOMAIN f : i < j => f[i] < f[j]
    BY <2>1
  <2> QED
    BY <2>2
<1>4. PICK x \in S : \A y \in S : y <= x
  <2>1. n \in Nat /\ S \subseteq 1..n /\ S # {}
    BY <1>2, <1>3
  <2> HIDE DEF Bad
  <2> QED
    BY ONLY <2>1, LargestNumber
<1> DEFINE U == S \ {x}
           c == Cardinality(S)
<1>5. c \in Nat /\ c >= 1 /\ Cardinality(U) = c - 1
  <2>1. IsFiniteSet(U) /\ Cardinality(U) = c - 1 /\ c \in Nat
    BY <1>2, <1>4, FS_RemoveElement, FS_CardinalityType
  <2>2. Cardinality(U) \in Nat
    BY <2>1, FS_CardinalityType
  <2> QED
    BY <2>1, <2>2
<1>6. Ordered(U)
  <2>1. U \in SUBSET T /\ U \subseteq S /\ U # S
    BY <1>1, <1>4
  <2>2. U \notin Bad
    BY <1>1, <2>1
  <2> HIDE DEF Ordered, U
  <2> QED
    BY <2>1, <2>2
<1>7. PICK g \in [1..(c - 1) -> U] : \A i, j \in 1..(c - 1) : i < j => g[i] < g[j]
  BY <1>5, <1>6
<1> HIDE DEF c
<1> DEFINE f == [i \in 1..c |-> IF i = c THEN x ELSE g[i]]
<1>8. \A i \in 1..c : i # c => i \in 1..(c - 1) /\ g[i] \in U /\ f[i] = g[i]
  BY <1>5, <1>7
<1>9. f[c] = x
  BY <1>5
<1>10. f \in [1..c -> S]
  BY <1>4, <1>8, <1>9
<1>11. ASSUME NEW i \in 1..c, NEW j \in 1..c, i < j PROVE f[i] < f[j]
  <2>1. i # c
    BY <1>5, <1>11
  <2>2. CASE j = c
    <3>1. f[i] \in S /\ f[i] # x
      BY <1>8, <2>1
    <3>2. f[i] \in Int /\ x \in Int
      <4>1. f[i] \in 1..n /\ x \in 1..n
        BY <1>2, <1>4, <3>1
      <4> QED
        BY <4>1
    <3>3. f[i] <= x
      BY <1>4, <3>1
    <3> QED
      BY <1>9, <2>2, <3>1, <3>2, <3>3
  <2>3. CASE j # c
    BY <1>7, <1>8, <1>11, <2>1, <2>3
  <2> QED
    BY <2>2, <2>3
<1> HIDE DEF f
<1>12. Ordered(S)
  BY <1>10, <1>11 DEF c
<1> QED
  BY <1>1, <1>12

\* Every position of a set occurs once when they are taken in sequence.
LEMMA InSequenceIs ==
  ASSUME NEW n \in Nat, NEW T, T \subseteq 1..n
  PROVE  /\ IsFiniteSet(T) /\ Cardinality(T) \in Nat
         /\ InSequence(T) \in [1..Cardinality(T) -> T]
         /\ \A i, j \in 1..Cardinality(T) : InSequence(T)[i] = InSequence(T)[j] => i = j
         /\ \A t \in T : \E i \in 1..Cardinality(T) : InSequence(T)[i] = t
<1> DEFINE f == InSequence(T)
           c == Cardinality(T)
<1>1. IsFiniteSet(T) /\ c \in Nat
  <2>1. IsFiniteSet(1..n)
    BY FS_Interval
  <2> QED
    BY <2>1, FS_Subset, FS_CardinalityType
<1>2. f \in [1..c -> T] /\ \A i, j \in 1..c : i < j => f[i] < f[j]
  <2>1. f \in [1..c -> T] /\ \A i, j \in DOMAIN f : i < j => f[i] < f[j]
    BY InSequenceExists DEF InSequence
  <2> QED
    BY <2>1
<1> HIDE DEF f
<1>3. \A i, j \in 1..c : f[i] = f[j] => i = j
  <2> SUFFICES ASSUME NEW i \in 1..c, NEW j \in 1..c, f[i] = f[j], i # j PROVE FALSE
    OBVIOUS
  <2>1. f[i] \in T /\ f[j] \in T
    BY <1>2
  <2>2. f[i] \in Int /\ f[j] \in Int
    <3>1. f[i] \in 1..n /\ f[j] \in 1..n
      BY <2>1
    <3> QED
      BY <3>1
  <2>3. i \in Int /\ j \in Int /\ (i < j \/ j < i)
    BY <1>1
  <2> QED
    BY <1>2, <2>2, <2>3
<1>4. f \in Injection(1..c, T)
  BY <1>2, <1>3 DEF Injection, IsInjective
<1>5. Cardinality(1..c) = c
  BY <1>1, FS_Interval
<1>6. f \in Surjection(1..c, T)
  BY <1>1, <1>4, <1>5, FS_Injection
<1> QED
  BY <1>1, <1>2, <1>3, <1>6 DEF Surjection, f


\* The amounts of the rows of a sequence, and their total over some positions.
AmountsOf(s) == [i \in DOMAIN s |-> s[i].amount]
Total(s, T) == SumFunctionOnSet(AmountsOf(s), T)

\* A sequence of rows whose amounts are integers.
IsRows(s) == IsSeq(s) /\ \A i \in DOMAIN s : s[i].amount \in Int

LEMMA TotalOfAll == \A s : SumOf(s, EveryRow) = Total(s, DOMAIN s)
<1> SUFFICES ASSUME NEW s PROVE SumOf(s, EveryRow) = Total(s, DOMAIN s)
  OBVIOUS
<1>1. {i \in DOMAIN s : EveryRow(s[i])} = DOMAIN s
  BY DEF EveryRow
<1> QED
  BY <1>1 DEF SumOf, Total, AmountsOf

\* Positions of a sequence are finitely many numbers.
LEMMA PositionsFinite ==
  ASSUME NEW s, IsSeq(s), NEW T, T \subseteq DOMAIN s
  PROVE  IsFiniteSet(T) /\ \A t \in T : t \in Int
<1>1. Len(s) \in Nat /\ DOMAIN s = 1..Len(s)
  BY SeqDomain
<1>2. IsFiniteSet(DOMAIN s)
  BY <1>1, FS_Interval
<1>3. IsFiniteSet(T)
  BY ONLY <1>2, T \subseteq DOMAIN s, FS_Subset
<1>4. \A t \in T : t \in 1..Len(s)
  BY <1>1
<1> QED
  BY <1>1, <1>3, <1>4

LEMMA TotalInt ==
  ASSUME NEW s, IsRows(s), NEW T, T \subseteq DOMAIN s
  PROVE  Total(s, T) \in Int
<1>1. IsFiniteSet(T)
  BY PositionsFinite DEF IsRows
<1>2. \A t \in T : AmountsOf(s)[t] \in Int
  BY DEF IsRows, AmountsOf
<1> QED
  BY ONLY <1>1, <1>2, SumInt DEF Total

\* What the chosen rows add up to.
LEMMA TotalChosen ==
  ASSUME NEW s, IsRows(s), NEW ids, ids \subseteq DOMAIN s
  PROVE  /\ IsRows(Chosen(s, ids))
         /\ Total(Chosen(s, ids), DOMAIN Chosen(s, ids)) = Total(s, ids)
<1> DEFINE n == Cardinality(ids)
           h == InSequence(ids)
           c == Chosen(s, ids)
           f == AmountsOf(c)
           g == AmountsOf(s)
<1>1. /\ n \in Nat /\ h \in [1..n -> ids]
      /\ \A i, j \in 1..n : h[i] = h[j] => i = j
      /\ \A t \in ids : \E i \in 1..n : h[i] = t
  <2>1. Len(s) \in Nat /\ DOMAIN s = 1..Len(s)
    BY SeqDomain DEF IsRows
  <2>2. ids \subseteq 1..Len(s)
    BY <2>1
  <2> QED
    BY ONLY <2>1, <2>2, InSequenceIs
<1>2. IsSeq(c) /\ DOMAIN c = 1..n
  BY ChosenShape DEF IsRows
<1>3. \A i \in 1..n : c[i] = s[h[i]]
  BY DEF Chosen
<1> HIDE DEF h, n, c
<1>4. \A i \in 1..n : h[i] \in ids /\ c[i].amount \in Int
  BY <1>1, <1>3 DEF IsRows
<1>5. IsRows(c)
  BY <1>2, <1>4 DEF IsRows
<1>6. \A i \in 1..n : f[i] \in Int /\ g[h[i]] = f[i]
  BY <1>2, <1>3, <1>4 DEF AmountsOf
<1>7. IsFiniteSet(1..n)
  BY <1>1, FS_Interval
<1>8. ids = {h[i] : i \in 1..n}
  BY <1>1
<1> HIDE DEF f, g
<1>9. SumFunctionOnSet(f, 1..n) = SumFunctionOnSet(g, {h[i] : i \in 1..n})
  BY ONLY <1>1, <1>6, <1>7, SumRenamed
<1>10. Total(c, DOMAIN c) = Total(s, ids)
  BY <1>2, <1>8, <1>9 DEF Total, f, g
<1> QED
  BY <1>5, <1>10 DEF c

\* Rows without an amount add nothing.
LEMMA TotalNonZero ==
  ASSUME NEW s, IsRows(s)
  PROVE  /\ IsRows(NonZero(s))
         /\ Total(NonZero(s), DOMAIN NonZero(s)) = Total(s, DOMAIN s)
<1> DEFINE ids == {i \in DOMAIN s : s[i].amount # 0}
           f == AmountsOf(s)
           D == DOMAIN s
<1>1. /\ IsRows(NonZero(s))
      /\ Total(NonZero(s), DOMAIN NonZero(s)) = Total(s, ids)
  <2>1. ids \subseteq DOMAIN s
    OBVIOUS
  <2>2. NonZero(s) = Chosen(s, ids)
    BY DEF NonZero
  <2> HIDE DEF ids
  <2> QED
    BY <2>1, <2>2, TotalChosen
<1>2. IsFiniteSet(D)
  BY PositionsFinite DEF IsRows
<1>3. /\ ids \in SUBSET D
      /\ \A i \in ids : f[i] \in Int /\ f[i] = f[i]
      /\ \A i \in D \ ids : f[i] = 0
  BY DEF IsRows, AmountsOf
<1> HIDE DEF ids, f, D
<1>4. SumFunctionOnSet(f, D) = SumFunctionOnSet(f, ids)
  BY ONLY <1>2, <1>3, SumOfSome
<1> QED
  BY <1>1, <1>4 DEF Total, f, D

\* A row has the fields of a glseries row.
IsEntry(r) == r = [sequence |-> r.sequence, accnt |-> r.accnt, amount |-> r.amount,
                   period |-> r.period]

\* The rows one per group of postGLSeries add up to what was grouped.
LEMMA TotalGrouped ==
  ASSUME NEW s, IsRows(s), \A i \in DOMAIN s : IsEntry(s[i])
  PROVE  /\ IsRows(Grouped(s))
         /\ Total(Grouped(s), DOMAIN Grouped(s)) = Total(s, DOMAIN s)
         /\ \A i \in DOMAIN Grouped(s) : \E j \in DOMAIN s :
              /\ Grouped(s)[i].accnt = s[j].accnt
              /\ Grouped(s)[i].period = s[j].period
<1> DEFINE D == DOMAIN s
           ids == {i \in D : \A j \in D : SameGroup(s[i], s[j]) => i <= j}
           n == Cardinality(ids)
           h == InSequence(ids)
           leads == Chosen(s, ids)
           part == [k \in ids |-> {j \in D : SameGroup(s[k], s[j])}]
           g == [k \in ids |-> Total(s, part[k])]
           rows == Grouped(s)
<1>1. /\ n \in Nat /\ h \in [1..n -> ids]
      /\ \A i, j \in 1..n : h[i] = h[j] => i = j
      /\ \A t \in ids : \E i \in 1..n : h[i] = t
  <2>1. Len(s) \in Nat /\ DOMAIN s = 1..Len(s)
    BY SeqDomain DEF IsRows
  <2>2. ids \subseteq 1..Len(s)
    BY <2>1
  <2> HIDE DEF ids
  <2> QED
    BY ONLY <2>1, <2>2, InSequenceIs
<1>2. DOMAIN leads = 1..n /\ \A i \in 1..n : leads[i] = s[h[i]]
  BY DEF Chosen
<1>3. DOMAIN rows = 1..n
  BY <1>2 DEF Grouped
<1>4. \A i \in 1..n : h[i] \in ids
  BY <1>1
<1>5. ASSUME NEW i \in 1..n
      PROVE  rows[i] = [s[h[i]] EXCEPT !.amount = g[h[i]]]
  <2>1. rows[i] = [leads[i] EXCEPT !.amount = SumOf(s, LAMBDA r : SameGroup(leads[i], r))]
    BY <1>2 DEF Grouped
  <2>2. SumOf(s, LAMBDA r : SameGroup(leads[i], r)) = g[h[i]]
    <3>1. {j \in DOMAIN s : SameGroup(leads[i], s[j])} = part[h[i]]
      BY <1>2, <1>4
    <3>2. g[h[i]] = Total(s, part[h[i]])
      BY <1>4
    <3> HIDE DEF part, g, leads
    <3>3. SumOf(s, LAMBDA r : SameGroup(leads[i], r)) = Total(s, part[h[i]])
      BY <3>1 DEF SumOf, Total, AmountsOf
    <3> QED
      BY <3>2, <3>3
  <2> HIDE DEF g
  <2> QED
    BY <1>2, <2>1, <2>2
<1>6. \A i \in D : s[i].amount \in Int
  BY DEF IsRows
<1>7. \A k \in ids : part[k] \subseteq D /\ g[k] \in Int
  <2>1. ASSUME NEW k \in ids PROVE part[k] \subseteq D /\ g[k] \in Int
    <3>1. part[k] \subseteq D
      OBVIOUS
    <3>2. g[k] = Total(s, part[k])
      OBVIOUS
    <3> HIDE DEF part, g
    <3> QED
      BY <3>1, <3>2, TotalInt
  <2> QED
    BY <2>1
\* Every row has one lead, the first row of its group.
<1>8. \A j \in D : \E k \in ids : j \in part[k] /\ \A m \in ids : j \in part[m] => m = k
  <2> SUFFICES ASSUME NEW j \in D
               PROVE  \E k \in ids : j \in part[k] /\ \A m \in ids : j \in part[m] => m = k
    OBVIOUS
  <2> DEFINE group == {m \in D : SameGroup(s[j], s[m])}
  <2>1. group \subseteq Nat /\ group # {}
    <3>1. D = 1..Len(s) /\ Len(s) \in Nat
      BY SeqDomain DEF IsRows
    <3>2. j \in group
      BY DEF SameGroup
    <3> QED
      BY <3>1, <3>2
  <2>2. PICK k \in group : \A m \in group : k <= m
    <3> HIDE DEF group
    <3> QED
      BY ONLY <2>1, LeastNumber
  <2>3. k \in D /\ SameGroup(s[j], s[k])
    BY <2>2
  <2>4. \A m \in D : SameGroup(s[k], s[m]) => k <= m
    BY <2>2, <2>3 DEF SameGroup
  <2>5. k \in ids /\ j \in part[k]
    BY <2>3, <2>4 DEF SameGroup
  <2>6. ASSUME NEW m \in ids, j \in part[m] PROVE m = k
    <3>1. m \in D /\ SameGroup(s[m], s[k]) /\ SameGroup(s[k], s[m])
      BY <2>3, <2>6 DEF SameGroup
    <3>2. m <= k /\ k <= m
      BY <2>3, <2>4, <3>1
    <3>3. m \in Int /\ k \in Int
      BY <2>1, <2>3, <3>1, PositionsFinite DEF IsRows
    <3> QED
      BY <3>2, <3>3
  <2> QED
    BY <2>5, <2>6
<1> DEFINE key == [j \in D |-> CHOOSE k \in ids : j \in part[k]]
<1>9. \A j \in D : key[j] \in ids /\ \A k \in ids : j \in part[k] <=> key[j] = k
  <2> HIDE DEF ids, part
  <2> QED
    BY <1>8
<1>10. IsFiniteSet(D) /\ IsFiniteSet(ids) /\ ids \subseteq D
  BY PositionsFinite DEF IsRows
<1>11. Total(s, D) = SumFunctionOnSet(g, ids)
  <2> DEFINE f == AmountsOf(s)
  <2>1. \A j \in D : f[j] \in Int
    BY <1>6 DEF AmountsOf
  <2>2. \A k \in ids : g[k] = SumFunctionOnSet(f, part[k])
    BY DEF Total
  <2>3. \A k \in ids : part[k] = {j \in D : key[j] = k}
    <3> HIDE DEF key, D, ids, g
    <3>1. \A k \in ids : part[k] \subseteq D
      BY <1>7
    <3> HIDE DEF part
    <3> QED
      BY <1>9, <3>1
  <2> HIDE DEF f, part, key, g, D, ids
  <2>4. \A j \in D : key[j] \in ids
    BY <1>9
  <2>5. SumFunctionOnSet(f, D) = SumFunctionOnSet(g, ids)
    BY ONLY <1>10, <2>1, <2>2, <2>3, <2>4, SumOfParts
  <2> QED
    BY <2>5 DEF f, Total
<1> HIDE DEF g, part, key, ids, rows
<1>12. ASSUME NEW i \in 1..n
       PROVE  /\ rows[i].amount = g[h[i]] /\ g[h[i]] \in Int
              /\ h[i] \in D
              /\ rows[i].accnt = s[h[i]].accnt /\ rows[i].period = s[h[i]].period
  <2> DEFINE r == s[h[i]]
  <2>1. rows[i] = [r EXCEPT !.amount = g[h[i]]]
    BY <1>5
  <2>2. h[i] \in D /\ IsEntry(r)
    BY <1>4, <1>10
  <2> HIDE DEF r
  <2>3. rows[i].amount = g[h[i]] /\ rows[i].accnt = r.accnt /\ rows[i].period = r.period
    BY <2>1, <2>2 DEF IsEntry
  <2> QED
    BY <1>4, <1>7, <2>2, <2>3 DEF r
<1>13. IsRows(rows)
  <2> DEFINE u == [i \in 1..n |-> rows[i]]
  <2>1. rows = u
    BY <1>2, <1>3 DEF Grouped, rows
  <2> HIDE DEF h, leads, n
  <2>2. IsSeq(rows)
    BY ONLY <1>1, <1>3, <2>1, SeqShape
  <2> QED
    BY <1>3, <1>12, <2>2 DEF IsRows
<1>14. Total(rows, DOMAIN rows) = SumFunctionOnSet(g, ids)
  <2> DEFINE f == AmountsOf(rows)
  <2> HIDE DEF h, n
  <2>1. \A i \in 1..n : f[i] \in Int /\ g[h[i]] = f[i]
    BY <1>3, <1>12 DEF AmountsOf
  <2>2. IsFiniteSet(1..n)
    BY <1>1, FS_Interval
  <2>3. ids = {h[i] : i \in 1..n}
    BY <1>1
  <2> HIDE DEF f
  <2>4. SumFunctionOnSet(f, 1..n) = SumFunctionOnSet(g, {h[i] : i \in 1..n})
    BY ONLY <1>1, <2>1, <2>2, SumRenamed
  <2> QED
    BY <1>3, <2>3, <2>4 DEF f, Total
<1> HIDE DEF h, n, leads
<1> QED
  BY <1>3, <1>11, <1>12, <1>13, <1>14 DEF rows

\* The ledger rows that postJournals writes, one per account with an amount.
JournalAccounts(ids) ==
    Chosen(AccountOrder, {n \in DOMAIN AccountOrder : JournalSum(ids, AccountOrder[n]) # 0})

\* Those rows add up to the journals they stand for.
LEMMA TotalJournals ==
  ASSUME IsRows(sltrans), \A j \in DOMAIN sltrans : sltrans[j].accnt \in Accounts,
         NEW ids, ids \subseteq DOMAIN sltrans,
         NEW rows, NEW n \in Nat, DOMAIN rows = 1..n, n = Len(JournalAccounts(ids)),
         \A i \in 1..n : rows[i].amount = JournalSum(ids, JournalAccounts(ids)[i])
  PROVE  /\ \A i \in 1..n : rows[i].amount \in Int /\ JournalAccounts(ids)[i] \in Accounts
         /\ Total(rows, DOMAIN rows) = Total(sltrans, ids)
<1> DEFINE K == DOMAIN AccountOrder
           part == [k \in K |-> {j \in ids : sltrans[j].accnt = AccountOrder[k]}]
           g == [k \in K |-> Total(sltrans, part[k])]
           some == {k \in K : JournalSum(ids, AccountOrder[k]) # 0}
           c == Cardinality(some)
           h == InSequence(some)
           accts == JournalAccounts(ids)
           key == [j \in ids |-> CHOOSE k \in K : AccountOrder[k] = sltrans[j].accnt]
<1>1. IsSeq(AccountOrder) /\ K = 1..Len(AccountOrder) /\ Len(AccountOrder) \in Nat
  <2>1. IsSeq(AccountOrder)
    BY LedgerAssumption DEF IsSeq
  <2> QED
    BY <2>1, SeqDomain
<1>2. \A k \in K : AccountOrder[k] \in Accounts
  BY <1>1, LedgerAssumption
<1>3. \A a \in Accounts : \E k \in K : AccountOrder[k] = a
  BY DEF Accounts, ToSet
<1>4. ASSUME NEW k \in K
      PROVE  /\ part[k] \subseteq DOMAIN sltrans /\ g[k] \in Int
             /\ JournalSum(ids, AccountOrder[k]) = g[k]
  <2> DEFINE T == {j \in ids : sltrans[j].accnt = AccountOrder[k]}
             s == Chosen(sltrans, T)
  <2>1. T \subseteq DOMAIN sltrans /\ part[k] = T /\ g[k] = Total(sltrans, part[k])
    OBVIOUS
  <2>2. JournalSum(ids, AccountOrder[k]) = SumOf(s, EveryRow)
    BY DEF JournalSum
  <2> HIDE DEF T, part, g
  <2>3. IsRows(s) /\ Total(s, DOMAIN s) = Total(sltrans, T)
    BY <2>1, TotalChosen
  <2>4. Total(sltrans, T) \in Int
    BY <2>1, TotalInt
  <2> QED
    BY <2>1, <2>2, <2>3, <2>4, TotalOfAll
<1>5. \A j \in ids : key[j] \in K /\ \A k \in K : (j \in part[k]) <=> (key[j] = k)
  <2> SUFFICES ASSUME NEW j \in ids
               PROVE  key[j] \in K /\ \A k \in K : (j \in part[k]) <=> (key[j] = k)
    OBVIOUS
  <2>1. \E k \in K : AccountOrder[k] = sltrans[j].accnt
    BY <1>3
  <2>2. key[j] \in K /\ AccountOrder[key[j]] = sltrans[j].accnt
    BY <2>1
  <2>3. \A k \in K : (j \in part[k]) <=> (AccountOrder[k] = sltrans[j].accnt)
    OBVIOUS
  <2> HIDE DEF key, part
  <2>4. \A k, m \in K : AccountOrder[k] = AccountOrder[m] => k = m
    BY LedgerAssumption
  <2> QED
    BY <2>2, <2>3, <2>4
<1>6. IsFiniteSet(K) /\ IsFiniteSet(ids)
  <2>1. IsFiniteSet(K)
    BY <1>1, FS_Interval
  <2> QED
    BY <2>1, PositionsFinite DEF IsRows
<1>7. Total(sltrans, ids) = SumFunctionOnSet(g, K)
  <2> DEFINE f == AmountsOf(sltrans)
  <2>1. \A j \in ids : f[j] \in Int
    BY DEF AmountsOf, IsRows
  <2>2. \A k \in K : g[k] = SumFunctionOnSet(f, part[k])
    BY DEF Total
  <2>3. \A k \in K : part[k] = {j \in ids : key[j] = k}
    <3>1. \A k \in K : part[k] \subseteq ids
      OBVIOUS
    <3> HIDE DEF key, K, g, part
    <3> QED
      BY <1>5, <3>1
  <2> HIDE DEF f, part, key, g, K
  <2>4. \A j \in ids : key[j] \in K
    BY <1>5
  <2>5. SumFunctionOnSet(f, ids) = SumFunctionOnSet(g, K)
    BY ONLY <1>6, <2>1, <2>2, <2>3, <2>4, SumOfParts
  <2> QED
    BY <2>5 DEF f, Total
<1> HIDE DEF part, key, g
<1>8. some \in SUBSET K /\ \A k \in K \ some : g[k] = 0
  BY <1>4
<1>9. SumFunctionOnSet(g, K) = SumFunctionOnSet(g, some)
  <2>1. \A k \in some : g[k] \in Int /\ g[k] = g[k]
    BY <1>4, <1>8
  <2> HIDE DEF some, K
  <2> QED
    BY ONLY <1>6, <1>8, <2>1, SumOfSome
<1>10. /\ c \in Nat /\ h \in [1..c -> some]
       /\ \A i, j \in 1..c : h[i] = h[j] => i = j
       /\ \A t \in some : \E i \in 1..c : h[i] = t
  <2>1. some \subseteq 1..Len(AccountOrder)
    BY <1>1
  <2> HIDE DEF some, K
  <2> QED
    BY ONLY <1>1, <2>1, InSequenceIs
<1>11. IsSeq(accts) /\ DOMAIN accts = 1..c /\ \A i \in 1..c : accts[i] = AccountOrder[h[i]]
  <2>1. some \subseteq DOMAIN AccountOrder
    OBVIOUS
  <2>2. accts = Chosen(AccountOrder, some)
    BY DEF JournalAccounts
  <2> HIDE DEF some, accts
  <2> QED
    BY <1>1, <2>1, <2>2, ChosenShape DEF Chosen
<1>12. n = c
  <2>1. DOMAIN accts = 1..n
    BY <1>11, SeqDomain
  <2> HIDE DEF accts, c
  <2> QED
    BY <1>10, <1>11, <2>1
<1>13. \A i \in 1..n : h[i] \in K /\ rows[i].amount = g[h[i]] /\ g[h[i]] \in Int
                       /\ accts[i] \in Accounts
  <2> HIDE DEF h, c, accts
  <2>1. \A i \in 1..n : h[i] \in K
    BY <1>8, <1>10, <1>12
  <2> QED
    BY <1>2, <1>4, <1>11, <1>12, <2>1 DEF accts
<1>14. Total(rows, DOMAIN rows) = SumFunctionOnSet(g, some)
  <2> DEFINE f == AmountsOf(rows)
  <2> HIDE DEF h, c, K, accts
  <2>1. \A i \in 1..n : f[i] \in Int /\ g[h[i]] = f[i]
    BY <1>13 DEF AmountsOf
  <2>2. IsFiniteSet(1..n)
    BY FS_Interval
  <2> HIDE DEF f, some
  <2>3. some = {h[i] : i \in 1..n}
    BY <1>10, <1>12
  <2>4. \A i, j \in 1..n : h[i] = h[j] => i = j
    BY <1>10, <1>12
  <2>5. SumFunctionOnSet(f, 1..n) = SumFunctionOnSet(g, {h[i] : i \in 1..n})
    <3> DEFINE I == 1..n
    <3>1. /\ \A i \in I : f[i] \in Int /\ g[h[i]] = f[i]
          /\ \A i, j \in I : h[i] = h[j] => i = j
          /\ IsFiniteSet(I)
      BY <2>1, <2>2, <2>4
    <3> HIDE DEF I
    <3>2. SumFunctionOnSet(f, I) = SumFunctionOnSet(g, {h[i] : i \in I})
      BY ONLY <3>1, SumRenamed
    <3> QED
      BY <3>2 DEF I
  <2> QED
    BY <2>3, <2>5 DEF f, Total
<1> HIDE DEF h, c, some, K, accts
<1> QED
  BY <1>7, <1>9, <1>13, <1>14 DEF accts

\* Rows appended to others leave the totals of those, and bring their own.
LEMMA TotalAppended ==
  ASSUME NEW s, IsRows(s), NEW t, IsRows(t)
  PROVE  /\ IsRows(s \o t)
         /\ \A T \in SUBSET DOMAIN s : Total(s \o t, T) = Total(s, T)
         /\ Total(s \o t, DOMAIN (s \o t) \ DOMAIN s) = Total(t, DOMAIN t)
<1> DEFINE u == s \o t
           m == Len(s)
           n == Len(t)
           f == AmountsOf(u)
           g == AmountsOf(t)
           h == [i \in 1..n |-> m + i]
           D == DOMAIN s
           New == DOMAIN u \ D
<1>1. /\ IsSeq(u) /\ DOMAIN u = 1..(m + n)
      /\ m \in Nat /\ n \in Nat /\ D = 1..m /\ DOMAIN t = 1..n
      /\ \A i \in 1..m : u[i] = s[i]
      /\ \A i \in 1..n : u[m + i] = t[i]
  BY ConcatShape, SeqDomain DEF IsRows
<1> HIDE DEF u, m, n
<1>2. New = {h[i] : i \in 1..n}
  <2>1. \A x \in New : x - m \in 1..n /\ h[x - m] = x
    BY <1>1
  <2>2. \A i \in 1..n : h[i] \in New
    BY <1>1
  <2> HIDE DEF h, New
  <2> QED
    BY <2>1, <2>2
<1>3. \A i \in D : u[i].amount \in Int /\ u[i].amount = s[i].amount
  BY <1>1 DEF IsRows
<1>4. \A i \in 1..n : h[i] \in New /\ u[h[i]].amount \in Int /\ u[h[i]].amount = t[i].amount
  BY <1>1 DEF IsRows
<1>5. IsRows(u)
  <2>1. \A i \in DOMAIN u : i \in D \/ i \in New
    OBVIOUS
  <2>2. \A i \in New : u[i].amount \in Int
    <3> HIDE DEF h, New
    <3> QED
      BY <1>2, <1>4
  <2> QED
    BY <1>1, <1>3, <2>1, <2>2 DEF IsRows
<1>6. \A i \in D : f[i] = AmountsOf(s)[i]
  BY <1>1, <1>3 DEF AmountsOf
<1>7. \A i \in 1..n : g[i] \in Int /\ f[h[i]] = g[i]
  BY <1>1, <1>4 DEF AmountsOf, IsRows
<1>8. \A i, j \in 1..n : h[i] = h[j] => i = j
  BY <1>1
<1>9. IsFiniteSet(1..n)
  <2>1. n \in Nat
    BY <1>1
  <2> QED
    BY ONLY <2>1, FS_Interval
<1> HIDE DEF f, g, h, New, D
<1>10. SumFunctionOnSet(g, 1..n) = SumFunctionOnSet(f, {h[i] : i \in 1..n})
  <2> DEFINE I == 1..n
  <2>1. /\ \A i \in I : g[i] \in Int /\ f[h[i]] = g[i]
        /\ \A i, j \in I : h[i] = h[j] => i = j
        /\ IsFiniteSet(I)
    BY <1>7, <1>8, <1>9
  <2> HIDE DEF I
  <2>2. SumFunctionOnSet(g, I) = SumFunctionOnSet(f, {h[i] : i \in I})
    BY ONLY <2>1, SumRenamed
  <2> QED
    BY <2>2 DEF I
<1>11. Total(u, New) = Total(t, DOMAIN t)
  BY <1>1, <1>2, <1>10 DEF Total, f, g
<1>12. ASSUME NEW T \in SUBSET D PROVE Total(u, T) = Total(s, T)
  <2>1. IsFiniteSet(T)
    BY PositionsFinite DEF IsRows, D
  <2>2. \A i \in T : f[i] = AmountsOf(s)[i]
    BY <1>6
  <2> QED
    BY ONLY <2>1, <2>2, SumEqual DEF Total, f
<1> QED
  BY <1>5, <1>11, <1>12 DEF u, New, D

\* A credit and its debit cancel.
LEMMA TotalPair ==
  ASSUME NEW x, NEW y, x.amount \in Int, y.amount = -x.amount, NEW s, s = <<x, y>>
  PROVE  IsRows(s) /\ Total(s, DOMAIN s) = 0
<1>1. IsSeq(s) /\ DOMAIN s = 1..2 /\ s[1] = x /\ s[2] = y
  BY PairShape
<1> DEFINE f == AmountsOf(s)
<1>2. f[1] = x.amount /\ f[2] = y.amount
  BY <1>1 DEF AmountsOf
<1> HIDE DEF f
<1>3. IsFiniteSet({}) /\ IsFiniteSet({1})
  BY FS_EmptySet, FS_Singleton
<1>4. SumFunctionOnSet(f, {}) = 0
  BY SumOfNone
<1>5. SumFunctionOnSet(f, {} \cup {1}) = f[1] + SumFunctionOnSet(f, {})
  BY <1>2, <1>3, SumWith
<1>6. SumFunctionOnSet(f, {1} \cup {2}) = f[2] + SumFunctionOnSet(f, {1})
  <2>1. 2 \notin {1} /\ \A i \in {1} \cup {2} : f[i] \in Int
    BY <1>2
  <2> QED
    BY ONLY <1>3, <2>1, SumWith
<1>7. {} \cup {1} = {1} /\ {1} \cup {2} = 1..2
  OBVIOUS
<1>8. Total(s, DOMAIN s) = 0
  <2>1. SumFunctionOnSet(f, {1}) = x.amount
    BY ONLY <1>2, <1>4, <1>5, <1>7, x.amount \in Int
  <2>2. SumFunctionOnSet(f, 1..2) = -x.amount + x.amount
    BY ONLY <2>1, <1>2, <1>6, <1>7, y.amount = -x.amount
  <2>3. -x.amount + x.amount = 0
    BY ONLY x.amount \in Int
  <2>4. SumFunctionOnSet(f, DOMAIN s) = 0
    BY ONLY <2>2, <2>3, <1>1
  <2> QED
    BY ONLY <2>4 DEF Total, f
<1>9. \A i \in 1..2 : i = 1 \/ i = 2
  OBVIOUS
<1> QED
  BY <1>1, <1>8, <1>9 DEF IsRows

\* Rows with the signs turned add up to the opposite.
LEMMA TotalNegated ==
  ASSUME NEW s, IsRows(s), NEW t, DOMAIN t = DOMAIN s,
         \A i \in DOMAIN s : t[i].amount = -s[i].amount
  PROVE  Total(t, DOMAIN t) = -Total(s, DOMAIN s)
<1> DEFINE f == AmountsOf(s)
           g == AmountsOf(t)
           h == [i \in DOMAIN s |-> 0]
           D == DOMAIN s
<1>1. IsFiniteSet(D)
  BY PositionsFinite DEF IsRows
<1>2. \A i \in D : f[i] \in Int /\ g[i] \in Int /\ h[i] = f[i] + g[i]
  BY DEF AmountsOf, IsRows
<1>3. \A i \in D : h[i] = 0
  OBVIOUS
<1> HIDE DEF f, g, h, D
<1>4. SumFunctionOnSet(h, D) = SumFunctionOnSet(f, D) + SumFunctionOnSet(g, D)
  BY ONLY <1>1, <1>2, SumPlus
<1>5. SumFunctionOnSet(h, D) = 0
  BY ONLY <1>1, <1>3, SumZero
<1>6. SumFunctionOnSet(f, D) \in Int /\ SumFunctionOnSet(g, D) \in Int
  BY ONLY <1>1, <1>2, SumInt
<1>7. SumFunctionOnSet(g, D) = -SumFunctionOnSet(f, D)
  BY <1>4, <1>5, <1>6
<1> QED
  BY <1>7 DEF Total, f, g, D

-----------------------------------------------------------------------------
(* The books: the tables of a database d whose last sequence is n.         *)

\* The tables hold rows of their kind, of sequences fetched so far.
Typed(d, n) ==
    /\ IsDB(d)
    /\ IsSeq(d.gl) /\ \A i \in DOMAIN d.gl : d.gl[i] \in
         [sequence : 1..n, accnt : Accounts, amount : Int, period : Slots,
          posted : BOOLEAN, deleted : BOOLEAN, rec : BOOLEAN]
    /\ IsSeq(d.sl) /\ \A i \in DOMAIN d.sl : d.sl[i] \in
         [sequence : 1..n, accnt : Accounts, amount : Int, period : Slots,
          posted : BOOLEAN, glsequence : 0..n]
    /\ IsSeq(d.gs) /\ \A i \in DOMAIN d.gs : d.gs[i] \in
         [sequence : 1..n, accnt : Accounts, amount : Int, period : Slots]
    /\ d.ilp \subseteq 1..n
    /\ d.periods \subseteq Slots /\ d.closed \subseteq d.periods
    /\ d.frozen \subseteq d.periods /\ d.yearclosed \subseteq Years

OfSequence(gl, q) == {i \in DOMAIN gl : gl[i].sequence = q}

\* The rows of a sequence add up to nothing and have the same flags.
Whole(gl) ==
    /\ \A q \in Int : Total(gl, OfSequence(gl, q)) = 0
    /\ \A i, j \in DOMAIN gl : gl[i].sequence = gl[j].sequence =>
         gl[i].posted = gl[j].posted /\ gl[i].deleted = gl[j].deleted

Waits(r) == ~r.posted /\ ~r.deleted

\* The rows of a sequence that wait to be posted wait for the same period.
OnePeriod(gl) ==
    \A i, j \in DOMAIN gl : gl[i].sequence = gl[j].sequence /\ Waits(gl[i]) /\ Waits(gl[j])
                              => gl[i].period = gl[j].period

\* A series that is still open has no ledger row.
Fresh(d) ==
    \A i \in DOMAIN d.gs, j \in DOMAIN d.gl : d.gs[i].sequence # d.gl[j].sequence

\* What posting seqs requires in place of OnePeriod: a sequence with rows in
\* several periods is one of seqs and all its periods take postings.
Linked(d, seqs, priv) ==
    \A i, j \in DOMAIN d.gl :
        d.gl[i].sequence = d.gl[j].sequence /\ Waits(d.gl[i]) /\ Waits(d.gl[j]) =>
          \/ d.gl[i].period = d.gl[j].period
          \/ /\ d.gl[i].sequence \in seqs
             /\ Postable(d, d.gl[i].period, priv) /\ Postable(d, d.gl[j].period, priv)

Ready(d, n, seqs, priv) == Typed(d, n) /\ Whole(d.gl) /\ Linked(d, seqs, priv) /\ Fresh(d)

Ledger(d, n) == Typed(d, n) /\ Whole(d.gl) /\ OnePeriod(d.gl) /\ Fresh(d)

\* Posting leaves every other table, and of the ledger all but the flag.
LEMMA PostedTables ==
  ASSUME NEW d, NEW n \in Nat, Typed(d, n), NEW seqs, NEW priv, NEW e,
         e = postIntoTrialBalance(d, seqs, priv)
  PROVE  /\ IsDB(e) /\ e.sl = d.sl /\ e.ilp = d.ilp /\ e.gs = d.gs
         /\ e.periods = d.periods /\ e.closed = d.closed /\ e.frozen = d.frozen
         /\ e.yearclosed = d.yearclosed
         /\ IsSeq(e.gl) /\ DOMAIN e.gl = DOMAIN d.gl
         /\ \A i \in DOMAIN d.gl :
              e.gl[i] = [d.gl[i] EXCEPT !.posted = @ \/ i \in Pending(d, seqs, priv)]
<1> DEFINE ids == Pending(d, seqs, priv)
           done == FoldLeft(PostRow, d, InSequence(ids))
           gl == [i \in DOMAIN d.gl |-> [d.gl[i] EXCEPT !.posted = @ \/ i \in ids]]
<1>1. e = [WithBalances(d, done) EXCEPT !.gl = gl]
  BY DEF postIntoTrialBalance
<1> HIDE DEF done, ids
<1>2. IsSeq(gl) /\ DOMAIN gl = DOMAIN d.gl
  <2>1. Len(d.gl) \in Nat /\ DOMAIN d.gl = 1..Len(d.gl)
    BY SeqDomain DEF Typed
  <2>2. DOMAIN gl = 1..Len(d.gl) /\ gl = [i \in 1..Len(d.gl) |-> gl[i]]
    BY <2>1
  <2> HIDE DEF gl
  <2> QED
    BY <2>1, <2>2, SeqShape
<1>3. \A i \in DOMAIN d.gl : gl[i] = [d.gl[i] EXCEPT !.posted = @ \/ i \in ids]
  OBVIOUS
<1> HIDE DEF gl
<1>4. /\ IsDB(e) /\ e.sl = d.sl /\ e.ilp = d.ilp /\ e.gs = d.gs /\ e.gl = gl
      /\ e.periods = d.periods /\ e.closed = d.closed /\ e.frozen = d.frozen
      /\ e.yearclosed = d.yearclosed
  BY <1>1 DEF WithBalances, Typed, IsDB
<1> QED
  BY <1>2, <1>3, <1>4 DEF ids

\* A sequence is posted whole or not at all.
LEMMA PostingLedger ==
  ASSUME NEW d, NEW n \in Nat, NEW seqs, NEW priv \in BOOLEAN, Ready(d, n, seqs, priv)
  PROVE  Ledger(postIntoTrialBalance(d, seqs, priv), n)
<1> DEFINE e == postIntoTrialBalance(d, seqs, priv)
           ids == Pending(d, seqs, priv)
<1>1. /\ IsDB(e) /\ e.sl = d.sl /\ e.ilp = d.ilp /\ e.gs = d.gs
      /\ e.periods = d.periods /\ e.closed = d.closed /\ e.frozen = d.frozen
      /\ e.yearclosed = d.yearclosed
      /\ IsSeq(e.gl) /\ DOMAIN e.gl = DOMAIN d.gl
      /\ \A i \in DOMAIN d.gl : e.gl[i] = [d.gl[i] EXCEPT !.posted = @ \/ i \in ids]
  BY PostedTables DEF Ready
<1> HIDE DEF e
<1>2. ASSUME NEW i \in DOMAIN d.gl
      PROVE  /\ e.gl[i].sequence = d.gl[i].sequence /\ e.gl[i].accnt = d.gl[i].accnt
             /\ e.gl[i].amount = d.gl[i].amount /\ e.gl[i].period = d.gl[i].period
             /\ e.gl[i].deleted = d.gl[i].deleted
             /\ e.gl[i].posted = (d.gl[i].posted \/ i \in ids)
             /\ e.gl[i] \in [sequence : 1..n, accnt : Accounts, amount : Int, period : Slots,
                             posted : BOOLEAN, deleted : BOOLEAN, rec : BOOLEAN]
             /\ i \in ids <=> /\ d.gl[i].sequence \in seqs /\ Waits(d.gl[i])
                              /\ Postable(d, d.gl[i].period, priv)
  <2>1. d.gl[i] \in [sequence : 1..n, accnt : Accounts, amount : Int, period : Slots,
                     posted : BOOLEAN, deleted : BOOLEAN, rec : BOOLEAN]
    BY DEF Ready, Typed
  <2>2. e.gl[i] = [d.gl[i] EXCEPT !.posted = @ \/ i \in ids]
    BY <1>1
  <2>3. i \in ids <=> /\ d.gl[i].sequence \in seqs /\ Waits(d.gl[i])
                      /\ Postable(d, d.gl[i].period, priv)
    BY DEF Pending, Waits
  <2> HIDE DEF ids
  <2> QED
    BY <2>1, <2>2, <2>3
<1> HIDE DEF ids
<1>3. Typed(e, n)
  BY <1>1, <1>2 DEF Ready, Typed
<1>4. ASSUME NEW i \in DOMAIN d.gl, NEW j \in DOMAIN d.gl,
             d.gl[i].sequence = d.gl[j].sequence, i \in ids
      PROVE  j \in ids
  <2>1. Waits(d.gl[j])
    BY <1>2, <1>4 DEF Waits, Ready, Whole
  <2>2. Postable(d, d.gl[j].period, priv)
    BY <1>2, <1>4, <2>1 DEF Ready, Linked
  <2> QED
    BY <1>2, <1>4, <2>1, <2>2
<1>5. Whole(e.gl)
  <2>1. \A q : OfSequence(e.gl, q) = OfSequence(d.gl, q)
    BY <1>1, <1>2 DEF OfSequence
  <2>2. AmountsOf(e.gl) = AmountsOf(d.gl)
    BY <1>1, <1>2 DEF AmountsOf
  <2>3. ASSUME NEW i \in DOMAIN d.gl, NEW j \in DOMAIN d.gl,
               d.gl[i].sequence = d.gl[j].sequence
        PROVE  e.gl[i].posted = e.gl[j].posted /\ e.gl[i].deleted = e.gl[j].deleted
    <3>1. d.gl[i].posted = d.gl[j].posted /\ d.gl[i].deleted = d.gl[j].deleted
      BY <2>3 DEF Ready, Whole
    <3>2. i \in ids <=> j \in ids
      BY <1>4, <2>3
    <3> QED
      BY <1>2, <3>1, <3>2
  <2>4. \A i \in DOMAIN d.gl : e.gl[i].sequence = d.gl[i].sequence
    BY <1>2
  <2>5. \A q \in Int : Total(e.gl, OfSequence(e.gl, q)) = 0
    BY <2>1, <2>2 DEF Ready, Whole, Total
  <2> QED
    BY <1>1, <2>3, <2>4, <2>5 DEF Whole
<1>6. OnePeriod(e.gl)
  <2> SUFFICES ASSUME NEW i \in DOMAIN e.gl, NEW j \in DOMAIN e.gl,
                      e.gl[i].sequence = e.gl[j].sequence,
                      Waits(e.gl[i]), Waits(e.gl[j])
               PROVE  e.gl[i].period = e.gl[j].period
    BY DEF OnePeriod
  <2>1. /\ i \notin ids /\ j \notin ids /\ Waits(d.gl[i]) /\ Waits(d.gl[j])
        /\ d.gl[i].sequence = d.gl[j].sequence
    BY <1>1, <1>2 DEF Waits
  <2>2. d.gl[i].period = d.gl[j].period
    BY <1>1, <1>2, <2>1 DEF Ready, Linked
  <2> QED
    BY <1>1, <1>2, <2>2
<1>7. Fresh(e)
  BY <1>1, <1>2 DEF Ready, Fresh
<1> QED
  BY <1>3, <1>5, <1>6, <1>7 DEF Ledger, e

-----------------------------------------------------------------------------
(* Carrying balances forward moves no debit and no credit.                 *)

TBTyped(tb) == DOMAIN tb \subseteq Keys /\ \A k \in DOMAIN tb : tb[k] \in TBRows

\* What the carrying procedures need of a database.
Base(d) == IsDB(d) /\ TBTyped(d.tb) /\ d.periods \subseteq Slots /\ IsRows(d.gl)

\* e has more rows than d, without movements, and other balances.
Carried(d, e) ==
    /\ e = WithBalances(d, e)
    /\ TBTyped(e.tb) /\ DOMAIN d.tb \subseteq DOMAIN e.tb
    /\ \A k \in DOMAIN d.tb : e.tb[k].debits = d.tb[k].debits
                              /\ e.tb[k].credits = d.tb[k].credits
    /\ \A k \in DOMAIN e.tb \ DOMAIN d.tb : e.tb[k].debits = 0 /\ e.tb[k].credits = 0

LEMMA CarriedSelf == ASSUME NEW d, Base(d) PROVE Carried(d, d)
BY DEF Base, Carried, WithBalances, IsDB

LEMMA CarriedFields ==
  ASSUME NEW d, NEW e, Base(d), Carried(d, e)
  PROVE  /\ Base(e) /\ e.gl = d.gl /\ e.sl = d.sl /\ e.ilp = d.ilp /\ e.gs = d.gs
         /\ e.periods = d.periods /\ e.closed = d.closed /\ e.frozen = d.frozen
         /\ e.yearclosed = d.yearclosed
<1> DEFINE t == e.tb
           r == e.raised
<1>1. e = [d EXCEPT !.tb = t, !.raised = r]
  BY DEF Carried, WithBalances
<1> HIDE DEF t, r
<1>2. /\ IsDB(e) /\ e.gl = d.gl /\ e.sl = d.sl /\ e.ilp = d.ilp /\ e.gs = d.gs
      /\ e.periods = d.periods /\ e.closed = d.closed /\ e.frozen = d.frozen
      /\ e.yearclosed = d.yearclosed
  BY <1>1 DEF Base, IsDB
<1> QED
  BY <1>2 DEF Base, Carried

LEMMA CarriedTwice ==
  ASSUME NEW c, NEW d, NEW e, Base(c), Carried(c, d), Carried(d, e)
  PROVE  Carried(c, e)
<1> DEFINE t == e.tb
           r == e.raised
           u == d.tb
           q == d.raised
<1>1. e = [d EXCEPT !.tb = t, !.raised = r] /\ d = [c EXCEPT !.tb = u, !.raised = q]
  BY DEF Carried, WithBalances
<1> HIDE DEF t, r, u, q
<1>2. e = [c EXCEPT !.tb = t, !.raised = r]
  BY <1>1 DEF Base, IsDB
<1>3. e = WithBalances(c, e)
  BY <1>2 DEF WithBalances, t, r
<1>4. /\ TBTyped(e.tb) /\ DOMAIN c.tb \subseteq DOMAIN e.tb
      /\ \A k \in DOMAIN c.tb : e.tb[k].debits = c.tb[k].debits
                                /\ e.tb[k].credits = c.tb[k].credits
      /\ \A k \in DOMAIN e.tb \ DOMAIN c.tb : e.tb[k].debits = 0 /\ e.tb[k].credits = 0
  BY DEF Carried
<1> QED
  BY <1>3, <1>4 DEF Carried

\* Every row is made of its parts.
LEMMA RowTyped ==
  ASSUME NEW b \in Int, NEW x \in Int, NEW c \in Int, NEW y \in Int, NEW dirty \in BOOLEAN
  PROVE  /\ Row(b, x, c, y, dirty) \in TBRows
         /\ Row(b, x, c, y, dirty).debits = x /\ Row(b, x, c, y, dirty).credits = c
         /\ Row(b, x, c, y, dirty).ending = b - x + c
BY DEF Row, TBRows

\* Writing the trial balance row k of d.
LEMMA WriteTable ==
  ASSUME NEW d, IsDB(d), NEW k, NEW row
  PROVE  LET e == Write(d, k, row)
         IN  /\ IsDB(e) /\ e = WithBalances(d, e)
             /\ DOMAIN e.tb = DOMAIN d.tb \cup {k} /\ e.tb[k] = row
             /\ \A j \in DOMAIN d.tb : j # k => e.tb[j] = d.tb[j]
<1> DEFINE t == [j \in DOMAIN d.tb \cup {k} |-> IF j = k THEN row ELSE d.tb[j]]
           r == d.raised \/ ~MayAlter(d, k, row)
           e == Write(d, k, row)
<1>1. e = [d EXCEPT !.tb = t, !.raised = r]
  BY DEF Write, WithBalances
<1>2. /\ DOMAIN t = DOMAIN d.tb \cup {k} /\ t[k] = row
      /\ \A j \in DOMAIN d.tb : j # k => t[j] = d.tb[j]
  OBVIOUS
<1> HIDE DEF t, r, e
<1>3. IsDB(e) /\ e.tb = t /\ e.raised = r
  BY <1>1 DEF IsDB
<1>4. e = WithBalances(d, e)
  BY <1>1, <1>3 DEF WithBalances
<1> QED
  BY <1>2, <1>3, <1>4 DEF e

\* A row written with the movements it had.
LEMMA WriteCarries ==
  ASSUME NEW d, Base(d), NEW k \in Keys, NEW row \in TBRows,
         k \in DOMAIN d.tb => row.debits = d.tb[k].debits /\ row.credits = d.tb[k].credits,
         k \notin DOMAIN d.tb => row.debits = 0 /\ row.credits = 0
  PROVE  Carried(d, Write(d, k, row))
<1> DEFINE e == Write(d, k, row)
<1>1. /\ e = WithBalances(d, e)
      /\ DOMAIN e.tb = DOMAIN d.tb \cup {k} /\ e.tb[k] = row
      /\ \A j \in DOMAIN d.tb : j # k => e.tb[j] = d.tb[j]
  BY WriteTable DEF Base
<1> HIDE DEF e
<1>2. TBTyped(e.tb)
  BY <1>1 DEF TBTyped, Base
<1>3. Carried(d, e)
  BY <1>1, <1>2 DEF Carried
<1> QED
  BY <1>3 DEF e

LEMMA ProfitLossInt == ASSUME NEW gl, IsRows(gl), NEW y PROVE ProfitLoss(gl, y) \in Int
<1> DEFINE T == {i \in DOMAIN gl : /\ gl[i].accnt \in RevExp /\ gl[i].posted /\ ~gl[i].deleted
                                   /\ YearOf[gl[i].period] = y}
<1>1. ProfitLoss(gl, y) = Total(gl, T)
  BY DEF ProfitLoss, SumOf, Total, AmountsOf
<1>2. T \subseteq DOMAIN gl
  OBVIOUS
<1> HIDE DEF T
<1> QED
  BY <1>1, <1>2, TotalInt

\* What holds of the loop of forwardUpdateTrialBalance over account a at every
\* turn, started from the database d with the row of slot p.
Carrying(s, d, a, p) ==
    /\ s = [d |-> s.d, accnt |-> s.accnt, ending |-> s.ending, year |-> s.year,
            stopped |-> s.stopped]
    /\ Carried(d, s.d) /\ <<a, p>> \in DOMAIN s.d.tb
    /\ s.accnt = a /\ s.ending \in Int

LEMMA StartCarrying ==
  ASSUME NEW d, Base(d), NEW a, NEW p, <<a, p>> \in DOMAIN d.tb
  PROVE  Carrying(Start(d, a, p), d, a, p)
<1>1. d.tb[<<a, p>>] \in TBRows
  BY DEF Base, TBTyped
<1>2. d.tb[<<a, p>>].ending \in Int
  BY <1>1 DEF TBRows
<1> QED
  BY <1>2, CarriedSelf DEF Start, Carrying

\* The row that the turn for slot q writes.
CarriedRow(s, a, q, new) ==
    LET carried == IF new THEN 0 ELSE s.ending
        k       == <<a, q>>
    IN  IF k \in DOMAIN s.d.tb
        THEN Rebased(s.d.tb[k], carried + s.d.tb[k].yearend, FALSE)
        ELSE Row(carried, 0, 0, 0, FALSE)

\* One turn from s to t, given what x became of the database at the turn of
\* the year.
Turn(t, s, a, q, x, new, y) ==
    \/ t = s
    \/ t = [s EXCEPT !.stopped = TRUE]
    \/ q \in s.d.periods /\ t = [s EXCEPT !.d = Write(x, <<a, q>>, CarriedRow(s, a, q, new)),
                                          !.ending = CarriedRow(s, a, q, new).ending, !.year = y]

LEMMA VisitCarries ==
  ASSUME NEW d, Base(d), NEW a \in Accounts, NEW p, NEW s, Carrying(s, d, a, p),
         NEW q, NEW x, Carried(s.d, x), NEW new, new \in BOOLEAN, NEW y, NEW t,
         Turn(t, s, a, q, x, new, y)
  PROVE  Carrying(t, d, a, p)
<1> DEFINE row == CarriedRow(s, a, q, new)
           carried == IF new THEN 0 ELSE s.ending
<1>1. /\ row = (IF <<a, q>> \in DOMAIN s.d.tb
                THEN Rebased(s.d.tb[<<a, q>>], carried + s.d.tb[<<a, q>>].yearend, FALSE)
                ELSE Row(carried, 0, 0, 0, FALSE))
      /\ carried \in Int
  BY DEF CarriedRow, Carrying
<1>2. \/ t = s
      \/ t = [s EXCEPT !.stopped = TRUE]
      \/ q \in s.d.periods /\ t = [s EXCEPT !.d = Write(x, <<a, q>>, row),
                                            !.ending = row.ending, !.year = y]
  BY DEF Turn
<1> HIDE DEF row, carried
<1> DEFINE k == <<a, q>>
<1>3. CASE t = s
  BY <1>3
<1>4. CASE t = [s EXCEPT !.stopped = TRUE]
  <2> DEFINE c == s.d
             z == TRUE
  <2>1. s = [d |-> c, accnt |-> s.accnt, ending |-> s.ending, year |-> s.year,
             stopped |-> s.stopped]
    BY DEF Carrying
  <2>2. t = [s EXCEPT !.stopped = z]
    BY <1>4
  <2> HIDE DEF c, z
  <2>3. t = [d |-> t.d, accnt |-> t.accnt, ending |-> t.ending, year |-> t.year,
             stopped |-> t.stopped]
        /\ t.d = c /\ t.accnt = s.accnt /\ t.ending = s.ending
    BY <2>1, <2>2
  <2> QED
    BY <2>3 DEF Carrying, c
<1>5. CASE q \in s.d.periods /\ t = [s EXCEPT !.d = Write(x, k, row),
                                              !.ending = row.ending, !.year = y]
  <2>1. Base(s.d) /\ s.d.periods = d.periods
    BY CarriedFields DEF Carrying
  <2>2. Base(x)
    BY <2>1, CarriedFields
  <2>3. k \in Keys
    BY <1>5, <2>1 DEF Base, Keys
  <2>4. carried \in Int
    BY <1>1
  <2>5. /\ row \in TBRows
        /\ k \in DOMAIN s.d.tb => row.debits = s.d.tb[k].debits /\ row.credits = s.d.tb[k].credits
        /\ k \notin DOMAIN s.d.tb => row.debits = 0 /\ row.credits = 0
    <3>1. CASE k \in DOMAIN s.d.tb
      <4> DEFINE old == s.d.tb[k]
      <4>1. old \in TBRows
        BY <2>1, <3>1 DEF Base, TBTyped
      <4>2. row = Row(carried + old.yearend, old.debits, old.credits, old.yearend, FALSE)
        BY <1>1, <3>1 DEF Rebased
      <4> HIDE DEF old
      <4>3. /\ old.yearend \in Int /\ old.debits \in Int /\ old.credits \in Int
            /\ carried + old.yearend \in Int /\ FALSE \in BOOLEAN
        BY <2>4, <4>1 DEF TBRows
      <4>4. row \in TBRows /\ row.debits = old.debits /\ row.credits = old.credits
        BY ONLY <4>2, <4>3 DEF Row, TBRows
      <4> QED
        BY <3>1, <4>4 DEF old
    <3>2. CASE k \notin DOMAIN s.d.tb
      <4>1. row = Row(carried, 0, 0, 0, FALSE)
        BY <1>1, <3>2
      <4>2. row \in TBRows /\ row.debits = 0 /\ row.credits = 0
        BY ONLY <2>4, <4>1 DEF Row, TBRows
      <4> QED
        BY <3>2, <4>2
    <3> QED
      BY <3>1, <3>2
  <2> HIDE DEF k
  <2>6. /\ k \in DOMAIN x.tb => row.debits = x.tb[k].debits /\ row.credits = x.tb[k].credits
        /\ k \notin DOMAIN x.tb => row.debits = 0 /\ row.credits = 0
    BY <2>5 DEF Carried
  <2> DEFINE e == Write(x, k, row)
  <2>7. Carried(x, e)
    BY <2>2, <2>3, <2>5, <2>6, WriteCarries
  <2> HIDE DEF e
  <2>8. Carried(d, e)
    BY <2>1, <2>7, CarriedTwice DEF Carrying
  <2>9. <<a, p>> \in DOMAIN e.tb
    BY <2>7 DEF Carried, Carrying
  <2>10. row.ending \in Int
    BY <2>5 DEF TBRows
  <2>11. t = [s EXCEPT !.d = e, !.ending = row.ending, !.year = y]
    BY <1>5 DEF e
  <2>12. /\ t = [d |-> t.d, accnt |-> t.accnt, ending |-> t.ending, year |-> t.year,
                 stopped |-> t.stopped]
         /\ t.d = e /\ t.accnt = s.accnt /\ t.ending = row.ending
    <3> DEFINE c == s.d
    <3>1. s = [d |-> c, accnt |-> s.accnt, ending |-> s.ending, year |-> s.year,
               stopped |-> s.stopped]
      BY DEF Carrying
    <3> HIDE DEF c
    <3> QED
      BY <2>11, <3>1
  <2> QED
    BY <2>8, <2>9, <2>10, <2>12 DEF Carrying
<1> QED
  BY <1>2, <1>3, <1>4, <1>5 DEF k

-----------------------------------------------------------------------------
(* What FoldLeft of the community modules computes for a loop: the last of  *)
(* the values that start with the base and follow from one another by the   *)
(* loop's turn.  FoldLeft is a recursive function on the subsets of the     *)
(* positions, so the first thing to show is that there is such a function   *)
(* and that it is unique, as Sums does for sums.  The operator of a turn is *)
(* no parameter a lemma can have; the loop's name is.                       *)

TurnOf(loop, x, y) ==
    CASE loop = "equity" -> VisitEquity(x, y)
      [] loop = "period" -> VisitPeriod(x, y)
      [] loop = "post" -> PostRow(x, y)
      [] loop = "unpost" -> UnpostRow(x, y)
      [] loop = "close" -> CloseAccount(x, y)
      [] loop = "forward" -> ForwardRow(x, y)

\* The position that the fold takes last.
LastOf(S) == CHOOSE x \in S : \A y \in S : x >= y

\* One unfolding of the recursion that the fold solves: the folds of s over
\* the subsets of S, from those in g.
Unrolled(loop, b, s, S, g) == [T \in SUBSET S |->
    IF T = {} THEN b ELSE TurnOf(loop, g[T \ {LastOf(T)}], s[LastOf(T)])]

\* The fold over the positions in S.
FoldOver(loop, b, s, S) == (CHOOSE g : g = Unrolled(loop, b, s, S, g))[S]

\* A set of positions has a last one.
LEMMA LastIsIn ==
  ASSUME NEW n \in Nat, NEW S, S \subseteq 1..n, S # {}
  PROVE  LastOf(S) \in S /\ \A y \in S : y <= LastOf(S)
<1>1. PICK x \in S : \A y \in S : y <= x
  BY LargestNumber
<1>2. \A y \in S : x >= y
  BY <1>1
<1>3. LastOf(S) \in S /\ \A y \in S : LastOf(S) >= y
  BY <1>2 DEF LastOf
<1> QED
  BY <1>3

\* Of every set of positions the fold takes a member last.
Positions(N) ==
    IsFiniteSet(N) /\ \A S \in SUBSET N : S # {} => LastOf(S) \in S

LEMMA PositionsOfSeq == \A n \in Nat : Positions(1..n)
<1> SUFFICES ASSUME NEW n \in Nat PROVE Positions(1..n)
  OBVIOUS
<1>1. IsFiniteSet(1..n)
  BY FS_Interval
<1>2. ASSUME NEW S, S \subseteq 1..n, S # {} PROVE LastOf(S) \in S
  BY <1>2, LastIsIn
<1> QED
  BY <1>1, <1>2 DEF Positions

\* Solutions of the recursion agree where both are defined.
LEMMA UnrolledAgree ==
  ASSUME NEW T, Positions(T), NEW loop, NEW b, NEW s,
         NEW S, NEW g, g = Unrolled(loop, b, s, S, g), T \subseteq S,
         NEW U, NEW h, h = Unrolled(loop, b, s, U, h), T \subseteq U
  PROVE  g[T] = h[T]
<1> DEFINE Bad == {t \in SUBSET T : g[t] # h[t]}
<1> SUFFICES ASSUME T \in Bad PROVE FALSE
  OBVIOUS
<1>1. PICK t \in Bad : \A u \in Bad : u \subseteq t => u = t
  <2>1. Bad \subseteq SUBSET T /\ Bad # {} /\ IsFiniteSet(T)
    BY DEF Positions
  <2> HIDE DEF Bad
  <2> QED
    BY <2>1, LeastSubset
<1>2. t # {}
  BY <1>1 DEF Unrolled
<1>3. LastOf(t) \in t
  BY <1>1, <1>2 DEF Positions
<1>4. g[t \ {LastOf(t)}] = h[t \ {LastOf(t)}]
  BY <1>1, <1>3
<1>5. /\ g[t] = TurnOf(loop, g[t \ {LastOf(t)}], s[LastOf(t)])
      /\ h[t] = TurnOf(loop, h[t \ {LastOf(t)}], s[LastOf(t)])
  BY <1>1, <1>2 DEF Unrolled
<1> QED
  BY <1>1, <1>4, <1>5

\* Any solution on a larger set gives the fold, once there is one on the set.
LEMMA FoldBySolution ==
  ASSUME NEW S, Positions(S), NEW T \in SUBSET S, NEW loop, NEW b,
         NEW s,
         NEW g, g = Unrolled(loop, b, s, S, g), NEW h, h = Unrolled(loop, b, s, T, h)
  PROVE  FoldOver(loop, b, s, T) = g[T]
<1> DEFINE k == CHOOSE k : k = Unrolled(loop, b, s, T, k)
<1>1. k = Unrolled(loop, b, s, T, k)
  OBVIOUS
<1>2. FoldOver(loop, b, s, T) = k[T]
  BY DEF FoldOver
<1> HIDE DEF k
<1>3. Positions(T)
  BY FS_Subset DEF Positions
<1>4. k[T] = g[T]
  BY <1>1, <1>3, UnrolledAgree
<1> QED
  BY <1>2, <1>4

\* The recursion has a solution on every set of positions.
LEMMA UnrolledExists ==
  ASSUME NEW W, Positions(W), NEW loop, NEW b, NEW s
  PROVE  \E g : g = Unrolled(loop, b, s, W, g)
<1> DEFINE Bad == {S \in SUBSET W : ~\E g : g = Unrolled(loop, b, s, S, g)}
<1> SUFFICES ASSUME W \in Bad PROVE FALSE
  OBVIOUS
<1>1. PICK S \in Bad : \A u \in Bad : u \subseteq S => u = S
  <2>1. Bad \subseteq SUBSET W /\ Bad # {} /\ IsFiniteSet(W)
    BY DEF Positions
  <2> HIDE DEF Bad
  <2> QED
    BY <2>1, LeastSubset
<1> DEFINE h == [T \in SUBSET S |->
                   IF T = {} THEN b
                   ELSE TurnOf(loop, FoldOver(loop, b, s, T \ {LastOf(T)}), s[LastOf(T)])]
<1>2. ASSUME NEW T \in SUBSET S, T # S
      PROVE  h[T] = FoldOver(loop, b, s, T)
  <2>1. PICK g : g = Unrolled(loop, b, s, T, g)
    BY <1>1, <1>2
  <2>2. Positions(T)
    BY FS_Subset DEF Positions
  <2>3. FoldOver(loop, b, s, T) = g[T]
    BY <2>1, <2>2, FoldBySolution
  <2>4. CASE T = {}
    BY <2>1, <2>3, <2>4 DEF Unrolled
  <2>5. CASE T # {}
    <3> DEFINE u == T \ {LastOf(T)}
    <3>1. LastOf(T) \in T
      BY <2>2, <2>5 DEF Positions
    <3>2. u \in SUBSET T /\ u \in SUBSET W /\ u # S /\ u \subseteq S
      BY <3>1
    <3>3. PICK k : k = Unrolled(loop, b, s, u, k)
      BY <1>1, <3>2
    <3> HIDE DEF u
    <3>4. FoldOver(loop, b, s, u) = g[u]
      BY <2>1, <2>2, <3>2, <3>3, FoldBySolution
    <3>5. g[T] = TurnOf(loop, g[u], s[LastOf(T)])
      BY <2>1, <2>5 DEF Unrolled, u
    <3>6. h[T] = TurnOf(loop, FoldOver(loop, b, s, u), s[LastOf(T)])
      BY <2>5 DEF u
    <3> QED
      BY <2>3, <3>4, <3>5, <3>6
  <2> QED
    BY <2>4, <2>5
<1>3. \A T \in SUBSET S :
        T # {} => h[T \ {LastOf(T)}] = FoldOver(loop, b, s, T \ {LastOf(T)})
  BY <1>1, <1>2 DEF Positions
<1>4. h = Unrolled(loop, b, s, S, h)
  BY <1>3 DEF Unrolled
<1> QED
  BY <1>1, <1>4

\* The last position of the first i is i.
LEMMA LastOfFirst ==
  ASSUME NEW i \in Nat, i > 0
  PROVE  LastOf(1..i) = i /\ (1..i) \ {i} = 1..(i - 1)
<1>1. 1..i \subseteq 1..i /\ 1..i # {} /\ i \in 1..i
  OBVIOUS
<1>2. LastOf(1..i) \in 1..i /\ \A y \in 1..i : y <= LastOf(1..i)
  BY <1>1, LastIsIn
<1>3. LastOf(1..i) = i
  BY <1>1, <1>2
<1> QED
  BY <1>3

\* The fold is the last value of a chain from the base by Op.
LEMMA FoldChain ==
  ASSUME NEW n \in Nat, NEW loop, NEW b, NEW s
  PROVE  \E g : /\ g[0] = b
                /\ \A i \in 1..n : g[i] = TurnOf(loop, g[i - 1], s[i])
                /\ FoldOver(loop, b, s, 1..n) = g[n]
<1>1. PICK it : it = Unrolled(loop, b, s, 1..n, it)
  BY PositionsOfSeq, UnrolledExists
<1> DEFINE g == [i \in 0..n |-> it[1..i]]
<1>2. g[0] = b
  <2>1. 1..0 = {}
    OBVIOUS
  <2> QED
    BY <1>1, <2>1 DEF Unrolled
<1>3. ASSUME NEW i \in 1..n
      PROVE  g[i] = TurnOf(loop, g[i - 1], s[i])
  <2>1. 1..i \subseteq 1..n /\ 1..i # {}
    OBVIOUS
  <2>2. it[1..i] = TurnOf(loop, it[(1..i) \ {LastOf(1..i)}], s[LastOf(1..i)])
    BY <1>1, <2>1 DEF Unrolled
  <2>3. it[1..i] = TurnOf(loop, it[1..(i - 1)], s[i])
    <3>1. LastOf(1..i) = i /\ (1..i) \ {i} = 1..(i - 1)
      BY LastOfFirst
    <3> QED
      BY <2>2, <3>1
  <2>4. i - 1 \in 0..n
    OBVIOUS
  <2> QED
    BY <2>3, <2>4
<1>4. FoldOver(loop, b, s, 1..n) = g[n]
  <2>1. FoldOver(loop, b, s, 1..n) = it[1..n]
    BY <1>1, PositionsOfSeq, FoldBySolution
  <2> QED
    BY <2>1
<1> HIDE DEF g
<1> QED
  BY <1>2, <1>3, <1>4

EquityUnrolled(b, s, S, g) == [T \in SUBSET S |->
    IF T = {} THEN b ELSE VisitEquity(g[T \ {LastOf(T)}], s[LastOf(T)])]

EquityLoop(b, s) == FoldLeft(VisitEquity, b, s)

LEMMA EquityChain ==
  ASSUME NEW n \in Nat, NEW b, NEW s, DOMAIN s = 1..n
  PROVE  \E g : /\ g[0] = b /\ \A i \in 1..n : g[i] = VisitEquity(g[i - 1], s[i])
                /\ EquityLoop(b, s) = g[n]
<1> DEFINE k == CHOOSE g : g = EquityUnrolled(b, s, 1..n, g)
<1>1. EquityLoop(b, s) = k[1..n]
  BY DEF EquityLoop, FoldLeft, MapThenFoldSet, Max, EquityUnrolled, LastOf
<1>2. \A x, y : TurnOf("equity", x, y) = VisitEquity(x, y)
  BY DEF TurnOf
<1>3. \A g : EquityUnrolled(b, s, 1..n, g) = Unrolled("equity", b, s, 1..n, g)
  BY <1>2 DEF EquityUnrolled, Unrolled
<1>4. k = Unrolled("equity", b, s, 1..n, k)
  <2>1. \E g : g = EquityUnrolled(b, s, 1..n, g)
    BY <1>3, PositionsOfSeq, UnrolledExists
  <2> QED
    BY <1>3, <2>1
<1> HIDE DEF k
<1>5. k[1..n] = FoldOver("equity", b, s, 1..n)
  BY <1>4, PositionsOfSeq, FoldBySolution
<1> QED
  BY <1>1, <1>2, <1>5, FoldChain

PeriodUnrolled(b, s, S, g) == [T \in SUBSET S |->
    IF T = {} THEN b ELSE VisitPeriod(g[T \ {LastOf(T)}], s[LastOf(T)])]

PeriodLoop(b, s) == FoldLeft(VisitPeriod, b, s)

LEMMA PeriodChain ==
  ASSUME NEW n \in Nat, NEW b, NEW s, DOMAIN s = 1..n
  PROVE  \E g : /\ g[0] = b /\ \A i \in 1..n : g[i] = VisitPeriod(g[i - 1], s[i])
                /\ PeriodLoop(b, s) = g[n]
<1> DEFINE k == CHOOSE g : g = PeriodUnrolled(b, s, 1..n, g)
<1>1. PeriodLoop(b, s) = k[1..n]
  BY DEF PeriodLoop, FoldLeft, MapThenFoldSet, Max, PeriodUnrolled, LastOf
<1>2. \A x, y : TurnOf("period", x, y) = VisitPeriod(x, y)
  BY DEF TurnOf
<1>3. \A g : PeriodUnrolled(b, s, 1..n, g) = Unrolled("period", b, s, 1..n, g)
  BY <1>2 DEF PeriodUnrolled, Unrolled
<1>4. k = Unrolled("period", b, s, 1..n, k)
  <2>1. \E g : g = PeriodUnrolled(b, s, 1..n, g)
    BY <1>3, PositionsOfSeq, UnrolledExists
  <2> QED
    BY <1>3, <2>1
<1> HIDE DEF k
<1>5. k[1..n] = FoldOver("period", b, s, 1..n)
  BY <1>4, PositionsOfSeq, FoldBySolution
<1> QED
  BY <1>1, <1>2, <1>5, FoldChain

PostUnrolled(b, s, S, g) == [T \in SUBSET S |->
    IF T = {} THEN b ELSE PostRow(g[T \ {LastOf(T)}], s[LastOf(T)])]

PostLoop(b, s) == FoldLeft(PostRow, b, s)

LEMMA PostChain ==
  ASSUME NEW n \in Nat, NEW b, NEW s, DOMAIN s = 1..n
  PROVE  \E g : /\ g[0] = b /\ \A i \in 1..n : g[i] = PostRow(g[i - 1], s[i])
                /\ PostLoop(b, s) = g[n]
<1> DEFINE k == CHOOSE g : g = PostUnrolled(b, s, 1..n, g)
<1>1. PostLoop(b, s) = k[1..n]
  BY DEF PostLoop, FoldLeft, MapThenFoldSet, Max, PostUnrolled, LastOf
<1>2. \A x, y : TurnOf("post", x, y) = PostRow(x, y)
  BY DEF TurnOf
<1>3. \A g : PostUnrolled(b, s, 1..n, g) = Unrolled("post", b, s, 1..n, g)
  BY <1>2 DEF PostUnrolled, Unrolled
<1>4. k = Unrolled("post", b, s, 1..n, k)
  <2>1. \E g : g = PostUnrolled(b, s, 1..n, g)
    BY <1>3, PositionsOfSeq, UnrolledExists
  <2> QED
    BY <1>3, <2>1
<1> HIDE DEF k
<1>5. k[1..n] = FoldOver("post", b, s, 1..n)
  BY <1>4, PositionsOfSeq, FoldBySolution
<1> QED
  BY <1>1, <1>2, <1>5, FoldChain

UnpostUnrolled(b, s, S, g) == [T \in SUBSET S |->
    IF T = {} THEN b ELSE UnpostRow(g[T \ {LastOf(T)}], s[LastOf(T)])]

UnpostLoop(b, s) == FoldLeft(UnpostRow, b, s)

LEMMA UnpostChain ==
  ASSUME NEW n \in Nat, NEW b, NEW s, DOMAIN s = 1..n
  PROVE  \E g : /\ g[0] = b /\ \A i \in 1..n : g[i] = UnpostRow(g[i - 1], s[i])
                /\ UnpostLoop(b, s) = g[n]
<1> DEFINE k == CHOOSE g : g = UnpostUnrolled(b, s, 1..n, g)
<1>1. UnpostLoop(b, s) = k[1..n]
  BY DEF UnpostLoop, FoldLeft, MapThenFoldSet, Max, UnpostUnrolled, LastOf
<1>2. \A x, y : TurnOf("unpost", x, y) = UnpostRow(x, y)
  BY DEF TurnOf
<1>3. \A g : UnpostUnrolled(b, s, 1..n, g) = Unrolled("unpost", b, s, 1..n, g)
  BY <1>2 DEF UnpostUnrolled, Unrolled
<1>4. k = Unrolled("unpost", b, s, 1..n, k)
  <2>1. \E g : g = UnpostUnrolled(b, s, 1..n, g)
    BY <1>3, PositionsOfSeq, UnrolledExists
  <2> QED
    BY <1>3, <2>1
<1> HIDE DEF k
<1>5. k[1..n] = FoldOver("unpost", b, s, 1..n)
  BY <1>4, PositionsOfSeq, FoldBySolution
<1> QED
  BY <1>1, <1>2, <1>5, FoldChain

CloseUnrolled(b, s, S, g) == [T \in SUBSET S |->
    IF T = {} THEN b ELSE CloseAccount(g[T \ {LastOf(T)}], s[LastOf(T)])]

CloseLoop(b, s) == FoldLeft(CloseAccount, b, s)

LEMMA CloseChain ==
  ASSUME NEW n \in Nat, NEW b, NEW s, DOMAIN s = 1..n
  PROVE  \E g : /\ g[0] = b /\ \A i \in 1..n : g[i] = CloseAccount(g[i - 1], s[i])
                /\ CloseLoop(b, s) = g[n]
<1> DEFINE k == CHOOSE g : g = CloseUnrolled(b, s, 1..n, g)
<1>1. CloseLoop(b, s) = k[1..n]
  BY DEF CloseLoop, FoldLeft, MapThenFoldSet, Max, CloseUnrolled, LastOf
<1>2. \A x, y : TurnOf("close", x, y) = CloseAccount(x, y)
  BY DEF TurnOf
<1>3. \A g : CloseUnrolled(b, s, 1..n, g) = Unrolled("close", b, s, 1..n, g)
  BY <1>2 DEF CloseUnrolled, Unrolled
<1>4. k = Unrolled("close", b, s, 1..n, k)
  <2>1. \E g : g = CloseUnrolled(b, s, 1..n, g)
    BY <1>3, PositionsOfSeq, UnrolledExists
  <2> QED
    BY <1>3, <2>1
<1> HIDE DEF k
<1>5. k[1..n] = FoldOver("close", b, s, 1..n)
  BY <1>4, PositionsOfSeq, FoldBySolution
<1> QED
  BY <1>1, <1>2, <1>5, FoldChain

ForwardUnrolled(b, s, S, g) == [T \in SUBSET S |->
    IF T = {} THEN b ELSE ForwardRow(g[T \ {LastOf(T)}], s[LastOf(T)])]

ForwardLoop(b, s) == FoldLeft(ForwardRow, b, s)

LEMMA ForwardChain ==
  ASSUME NEW n \in Nat, NEW b, NEW s, DOMAIN s = 1..n
  PROVE  \E g : /\ g[0] = b /\ \A i \in 1..n : g[i] = ForwardRow(g[i - 1], s[i])
                /\ ForwardLoop(b, s) = g[n]
<1> DEFINE k == CHOOSE g : g = ForwardUnrolled(b, s, 1..n, g)
<1>1. ForwardLoop(b, s) = k[1..n]
  BY DEF ForwardLoop, FoldLeft, MapThenFoldSet, Max, ForwardUnrolled, LastOf
<1>2. \A x, y : TurnOf("forward", x, y) = ForwardRow(x, y)
  BY DEF TurnOf
<1>3. \A g : ForwardUnrolled(b, s, 1..n, g) = Unrolled("forward", b, s, 1..n, g)
  BY <1>2 DEF ForwardUnrolled, Unrolled
<1>4. k = Unrolled("forward", b, s, 1..n, k)
  <2>1. \E g : g = ForwardUnrolled(b, s, 1..n, g)
    BY <1>3, PositionsOfSeq, UnrolledExists
  <2> QED
    BY <1>3, <2>1
<1> HIDE DEF k
<1>5. k[1..n] = FoldOver("forward", b, s, 1..n)
  BY <1>4, PositionsOfSeq, FoldBySolution
<1> QED
  BY <1>1, <1>2, <1>5, FoldChain

-----------------------------------------------------------------------------
(* The loops over the periods after one.                                   *)

LEMMA LaterSlots ==
  ASSUME NEW p \in Slots
  PROVE  NSlots - p \in Nat /\ DOMAIN SlotsAfter(p) = 1..(NSlots - p)
<1>1. NSlots \in Nat /\ p \in 1..NSlots
  BY LedgerAssumption DEF Slots
<1> QED
  BY <1>1 DEF SlotsAfter

LEMMA FinishCarries ==
  ASSUME NEW d, Base(d), NEW a, NEW p, NEW s, Carrying(s, d, a, p)
  PROVE  Carried(d, Finish(s, p))
<1> DEFINE c == s.d
           k == <<a, p>>
           row == [c.tb[k] EXCEPT !.dirty = FALSE]
           e == Write(c, k, row)
<1>1. Carried(d, c) /\ k \in DOMAIN c.tb /\ s.accnt = a
  BY DEF Carrying
<1>2. Finish(s, p) = c \/ Finish(s, p) = e
  BY <1>1 DEF Finish
<1>3. Base(c)
  BY <1>1, CarriedFields
<1>4. c.tb[k] \in TBRows /\ k \in Keys
  BY <1>1, <1>3 DEF Base, TBTyped
<1> HIDE DEF c, k
<1>5. row \in TBRows /\ row.debits = c.tb[k].debits /\ row.credits = c.tb[k].credits
  BY <1>4 DEF TBRows
<1> HIDE DEF row
<1>6. Carried(c, e)
  BY <1>1, <1>3, <1>4, <1>5, WriteCarries
<1> HIDE DEF e
<1>7. Carried(d, e)
  BY <1>1, <1>6, CarriedTwice
<1> QED
  BY <1>1, <1>2, <1>7

LEMMA VisitEquityCarries ==
  ASSUME NEW d, Base(d), NEW a \in Accounts, NEW p, NEW s, Carrying(s, d, a, p), NEW q
  PROVE  Carrying(VisitEquity(s, q), d, a, p)
<1> DEFINE new == a \in RevExp /\ YearOf[q] # s.year
           x == s.d
<1>1. s.accnt = a
  BY DEF Carrying
<1>2. Turn(VisitEquity(s, q), s, a, q, x, new, YearOf[q])
  BY <1>1 DEF VisitEquity, Visit, NoCrossing, Turn, CarriedRow
<1>3. Carried(s.d, x)
  <2>1. Base(s.d)
    BY CarriedFields DEF Carrying
  <2> QED
    BY <2>1, CarriedSelf
<1>4. new \in BOOLEAN
  OBVIOUS
<1> HIDE DEF new, x
<1> QED
  BY <1>2, <1>3, <1>4, VisitCarries

\* The equity account is settled from a period on.
LEMMA EquityCarries ==
  ASSUME NEW d, Base(d), NEW a \in Accounts, NEW p \in Slots, <<a, p>> \in DOMAIN d.tb
  PROVE  Carried(d, Finish(FoldLeft(VisitEquity, Start(d, a, p), SlotsAfter(p)), p))
<1> DEFINE n == NSlots - p
           b == Start(d, a, p)
           s == SlotsAfter(p)
<1>1. n \in Nat /\ DOMAIN s = 1..n
  BY LaterSlots
<1> HIDE DEF n, b, s
<1>2. PICK g : /\ g[0] = b /\ \A i \in 1..n : g[i] = VisitEquity(g[i - 1], s[i])
               /\ EquityLoop(b, s) = g[n]
  BY ONLY <1>1, EquityChain
<1> DEFINE Z == {i \in 0..n : Carrying(g[i], d, a, p)}
<1>3. 0 \in Z
  BY <1>1, <1>2, StartCarrying DEF b
<1>4. ASSUME NEW i \in 1..n, i - 1 \in Z PROVE i \in Z
  <2>1. Carrying(g[i - 1], d, a, p)
    BY <1>4
  <2>2. Carrying(VisitEquity(g[i - 1], s[i]), d, a, p)
    BY <2>1, VisitEquityCarries
  <2>3. i \in 0..n /\ g[i] = VisitEquity(g[i - 1], s[i])
    BY <1>1, <1>2
  <2> QED
    BY <2>2, <2>3
<1>5. n \in Z
  <2> HIDE DEF Z
  <2>1. \A i \in 0..n : i \in Z
    BY ONLY <1>1, <1>3, <1>4, Counting
  <2> QED
    BY <1>1, <2>1
<1>6. Carrying(EquityLoop(b, s), d, a, p)
  BY <1>2, <1>5
<1>7. FoldLeft(VisitEquity, b, s) = EquityLoop(b, s)
  BY DEF EquityLoop
<1>8. Carried(d, Finish(FoldLeft(VisitEquity, b, s), p))
  BY <1>6, <1>7, FinishCarries
<1> QED
  BY <1>8 DEF b, s

\* The retained earnings of a year, which change no movement.
LEMMA RetainCarries ==
  ASSUME NEW d, Base(d), NEW y
  PROVE  Carried(d, updateRetainedEarnings(d, y).d)
<1> DEFINE a == YearEndEquityAccount
           p == FirstSlot(y + 1)
           k == <<a, p>>
           pl == ProfitLoss(d.gl, y)
           row == Row(d.tb[k].beginning - d.tb[k].yearend + pl,
                      d.tb[k].debits, d.tb[k].credits, pl, d.tb[k].dirty)
           w == Write(d, k, row)
           e == Finish(FoldLeft(VisitEquity, Start(w, a, p), SlotsAfter(p)), p)
<1>1. CASE ~CanRetain(d, y)
  BY <1>1, CarriedSelf DEF updateRetainedEarnings
<1>2. CASE CanRetain(d, y)
  <2>1. updateRetainedEarnings(d, y).d = e
    BY <1>2 DEF updateRetainedEarnings
  <2>2. p \in Slots /\ k \in DOMAIN d.tb
    BY <1>2 DEF CanRetain, Base
  <2>3. a \in Accounts
    BY LedgerAssumption
  <2>4. pl \in Int
    BY ProfitLossInt DEF Base
  <2>5. k \in Keys /\ d.tb[k] \in TBRows
    BY <2>2 DEF Base, TBTyped
  <2> HIDE DEF k, pl, a, p
  <2>6. row \in TBRows /\ row.debits = d.tb[k].debits /\ row.credits = d.tb[k].credits
    BY <2>4, <2>5 DEF Row, TBRows
  <2> HIDE DEF row
  <2>7. Carried(d, w)
    BY <2>2, <2>5, <2>6, WriteCarries
  <2> HIDE DEF w
  <2>8. Base(w) /\ k \in DOMAIN w.tb
    BY <2>2, <2>7, CarriedFields DEF Carried
  <2>9. Carried(w, e)
    BY <2>2, <2>3, <2>8, EquityCarries DEF k
  <2> HIDE DEF e
  <2>10. Carried(d, e)
    BY <2>7, <2>9, CarriedTwice
  <2> QED
    BY <2>1, <2>10
<1> QED
  BY <1>1, <1>2

LEMMA VisitPeriodCarries ==
  ASSUME NEW d, Base(d), NEW a \in Accounts, NEW p, NEW s, Carrying(s, d, a, p), NEW q
  PROVE  Carrying(VisitPeriod(s, q), d, a, p)
<1> DEFINE new == a \in RevExp /\ YearOf[q] # s.year
           year == updateRetainedEarnings(s.d, s.year)
           crossed == IF new /\ s.year \in s.d.yearclosed THEN year
                      ELSE [d |-> s.d, ok |-> TRUE]
           x == crossed.d
<1>1. s.accnt = a
  BY DEF Carrying
<1>2. Turn(VisitPeriod(s, q), s, a, q, x, new, YearOf[q])
  BY <1>1 DEF VisitPeriod, Visit, Turn, CarriedRow
<1>3. Carried(s.d, x)
  <2>1. Base(s.d)
    BY CarriedFields DEF Carrying
  <2>2. x = s.d \/ x = year.d
    OBVIOUS
  <2> HIDE DEF x
  <2> QED
    BY <2>1, <2>2, CarriedSelf, RetainCarries
<1>4. new \in BOOLEAN
  OBVIOUS
<1> HIDE DEF new, x
<1> QED
  BY <1>2, <1>3, <1>4, VisitCarries

\* An account is carried forward from a period on.
LEMMA ForwardCarries ==
  ASSUME NEW d, Base(d), NEW a \in Accounts, NEW p \in Slots, <<a, p>> \in DOMAIN d.tb
  PROVE  Carried(d, forwardUpdateTrialBalance(d, a, p))
<1> DEFINE n == NSlots - p
           b == Start(d, a, p)
           s == SlotsAfter(p)
           x == Finish(FoldLeft(VisitPeriod, b, s), p)
<1>1. n \in Nat /\ DOMAIN s = 1..n
  BY LaterSlots
<1>0. forwardUpdateTrialBalance(d, a, p) = WithBalances(d, x)
  BY DEF forwardUpdateTrialBalance
<1> HIDE DEF n, b, s
<1>2. PICK g : /\ g[0] = b /\ \A i \in 1..n : g[i] = VisitPeriod(g[i - 1], s[i])
               /\ PeriodLoop(b, s) = g[n]
  BY ONLY <1>1, PeriodChain
<1> DEFINE Z == {i \in 0..n : Carrying(g[i], d, a, p)}
<1>3. 0 \in Z
  BY <1>1, <1>2, StartCarrying DEF b
<1>4. ASSUME NEW i \in 1..n, i - 1 \in Z PROVE i \in Z
  <2>1. Carrying(g[i - 1], d, a, p)
    BY <1>4
  <2>2. Carrying(VisitPeriod(g[i - 1], s[i]), d, a, p)
    BY <2>1, VisitPeriodCarries
  <2>3. i \in 0..n /\ g[i] = VisitPeriod(g[i - 1], s[i])
    BY <1>1, <1>2
  <2> QED
    BY <2>2, <2>3
<1>5. n \in Z
  <2> HIDE DEF Z
  <2>1. \A i \in 0..n : i \in Z
    BY ONLY <1>1, <1>3, <1>4, Counting
  <2> QED
    BY <1>1, <2>1
<1>6. Carrying(PeriodLoop(b, s), d, a, p)
  BY <1>2, <1>5
<1>7. Carried(d, x)
  <2>1. FoldLeft(VisitPeriod, b, s) = PeriodLoop(b, s)
    BY DEF PeriodLoop
  <2> QED
    BY <1>6, <2>1, FinishCarries
<1> HIDE DEF x
<1>8. x = WithBalances(d, x)
  BY <1>7 DEF Carried
<1> QED
  BY <1>0, <1>7, <1>8

-----------------------------------------------------------------------------
(* The trial balance tallies with the posted rows.                         *)

KeyOf(r) == <<r.accnt, r.period>>

\* The posted rows of an account and period, the credits or the debits.
CountedRows(gl, k, credit) ==
    {i \in DOMAIN gl : gl[i].posted /\ KeyOf(gl[i]) = k /\ (gl[i].amount > 0) = credit}
CountedIn(gl, k, credit) == Total(gl, CountedRows(gl, k, credit))

TallyOf(tb, gl) ==
    /\ \A k \in DOMAIN tb : /\ tb[k].credits = CountedIn(gl, k, TRUE)
                            /\ tb[k].debits = -CountedIn(gl, k, FALSE)
    /\ \A i \in DOMAIN gl : gl[i].posted => KeyOf(gl[i]) \in DOMAIN tb

LedgerRows == [sequence : Int, accnt : Accounts, amount : Int, period : Slots,
               posted : BOOLEAN, deleted : BOOLEAN, rec : BOOLEAN]
GLTyped(gl) == IsSeq(gl) /\ \A i \in DOMAIN gl : gl[i] \in LedgerRows

LEMMA RowsOfLedger == ASSUME NEW gl, GLTyped(gl) PROVE IsRows(gl)
BY DEF GLTyped, LedgerRows, IsRows

LEMMA CountedInt ==
  ASSUME NEW gl, IsRows(gl), NEW k, NEW credit
  PROVE  CountedIn(gl, k, credit) \in Int
<1>1. CountedRows(gl, k, credit) \subseteq DOMAIN gl
  BY DEF CountedRows
<1> QED
  BY <1>1, TotalInt DEF CountedIn

\* Nothing is counted where nothing is posted.
LEMMA CountedNone ==
  ASSUME NEW gl, NEW k, \A i \in DOMAIN gl : gl[i].posted => KeyOf(gl[i]) # k, NEW credit
  PROVE  CountedIn(gl, k, credit) = 0
<1>1. CountedRows(gl, k, credit) = {}
  BY DEF CountedRows
<1> QED
  BY <1>1, SumOfNone DEF CountedIn, Total

\* Ledgers with the same accounts, periods and amounts.
SameLines(gl, hl) ==
    /\ DOMAIN hl = DOMAIN gl
    /\ \A j \in DOMAIN gl : /\ hl[j].accnt = gl[j].accnt /\ hl[j].period = gl[j].period
                            /\ hl[j].amount = gl[j].amount

\* Posting row i counts it for its account and period, on the side of its sign.
LEMMA CountedMore ==
  ASSUME NEW gl, IsRows(gl), NEW hl, SameLines(gl, hl), NEW i \in DOMAIN gl,
         ~gl[i].posted, hl[i].posted,
         \A j \in DOMAIN gl : j # i => hl[j].posted = gl[j].posted,
         NEW k, NEW credit \in BOOLEAN
  PROVE  CountedIn(hl, k, credit) =
           IF KeyOf(gl[i]) = k /\ (gl[i].amount > 0) = credit
           THEN CountedIn(gl, k, credit) + gl[i].amount ELSE CountedIn(gl, k, credit)
<1> DEFINE f == AmountsOf(gl)
           S == CountedRows(gl, k, credit)
           T == CountedRows(hl, k, credit)
<1>1. AmountsOf(hl) = f
  BY DEF AmountsOf, SameLines
<1>2. IsFiniteSet(S) /\ S \subseteq DOMAIN gl /\ i \notin S
  <2>1. S \subseteq DOMAIN gl /\ i \notin S
    BY DEF CountedRows
  <2> HIDE DEF S
  <2> QED
    BY <2>1, PositionsFinite DEF IsRows
<1>3. T = IF KeyOf(gl[i]) = k /\ (gl[i].amount > 0) = credit THEN S \cup {i} ELSE S
  <2>1. \A j \in DOMAIN gl : KeyOf(hl[j]) = KeyOf(gl[j]) /\ hl[j].amount = gl[j].amount
    BY DEF SameLines, KeyOf
  <2>2. DOMAIN hl = DOMAIN gl
    BY DEF SameLines
  <2>3. ASSUME NEW j
        PROVE  j \in T <=> \/ j \in S
                           \/ j = i /\ KeyOf(gl[i]) = k /\ (gl[i].amount > 0) = credit
    <3>1. CASE j = i
      BY <2>1, <2>2, <3>1 DEF CountedRows
    <3>2. CASE j # i
      BY <2>1, <2>2, <3>2 DEF CountedRows
    <3> QED
      BY <3>1, <3>2
  <2> DEFINE P == KeyOf(gl[i]) = k /\ (gl[i].amount > 0) = credit
  <2>4. \A j : j \in T <=> j \in S \/ (j = i /\ P)
    BY <2>3
  <2> HIDE DEF S, T, P
  <2>5. T = IF P THEN S \cup {i} ELSE S
    <3>1. P => \A j : j \in T <=> j \in S \cup {i}
      BY <2>4
    <3>2. ~P => \A j : j \in T <=> j \in S
      BY <2>4
    <3>3. P => T = S \cup {i}
      BY <3>1
    <3>4. ~P => T = S
      BY <3>2
    <3> QED
      BY <3>3, <3>4
  <2> QED
    BY <2>5 DEF P
<1>4. \A j \in S \cup {i} : f[j] \in Int
  BY <1>2 DEF IsRows, AmountsOf
<1>5. f[i] = gl[i].amount
  BY DEF AmountsOf
<1> HIDE DEF f, S, T
<1>6. SumFunctionOnSet(f, S \cup {i}) = f[i] + SumFunctionOnSet(f, S)
  BY ONLY <1>2, <1>4, SumWith
<1>7. SumFunctionOnSet(f, S) \in Int /\ f[i] \in Int
  <2>1. \A j \in S : f[j] \in Int
    BY <1>4
  <2>2. SumFunctionOnSet(f, S) \in Int
    BY ONLY <1>2, <2>1, SumInt
  <2> QED
    BY <1>4, <2>2
<1>8. /\ CountedIn(gl, k, credit) = SumFunctionOnSet(f, S)
      /\ CountedIn(hl, k, credit) = SumFunctionOnSet(f, T)
  BY <1>1 DEF CountedIn, Total, f, S, T
<1> QED
  BY <1>3, <1>5, <1>6, <1>7, <1>8

\* What is counted depends on the flag and the lines only.
LEMMA CountedSame ==
  ASSUME NEW gl, NEW hl, SameLines(gl, hl), \A j \in DOMAIN gl : hl[j].posted = gl[j].posted,
         NEW k, NEW credit
  PROVE  CountedIn(hl, k, credit) = CountedIn(gl, k, credit)
<1>1. AmountsOf(hl) = AmountsOf(gl)
  BY DEF AmountsOf, SameLines
<1>2. CountedRows(hl, k, credit) = CountedRows(gl, k, credit)
  <2>1. \A j \in DOMAIN gl : KeyOf(hl[j]) = KeyOf(gl[j])
    BY DEF SameLines, KeyOf
  <2> QED
    BY <2>1 DEF CountedRows, SameLines
<1> QED
  BY <1>1, <1>2 DEF CountedIn, Total

LEMMA TallySame ==
  ASSUME NEW tb, NEW gl, NEW hl, TallyOf(tb, gl), SameLines(gl, hl),
         \A j \in DOMAIN gl : hl[j].posted = gl[j].posted
  PROVE  TallyOf(tb, hl)
<1>1. \A k, credit : CountedIn(hl, k, credit) = CountedIn(gl, k, credit)
  BY CountedSame
<1>2. \A j \in DOMAIN gl : KeyOf(hl[j]) = KeyOf(gl[j])
  BY DEF SameLines, KeyOf
<1> QED
  BY <1>1, <1>2 DEF TallyOf, SameLines

\* The opposite of nothing, which the provers find in this form.
LEMMA MinusOfOne == \A x \in Int : x + 1 = 1 => -x = 0
OBVIOUS

LEMMA MinusZero == \A x : x = 0 => -x = 0
<1> SUFFICES ASSUME NEW x, x = 0 PROVE -x = 0
  OBVIOUS
<1>1. x \in Int /\ x + 1 = 1
  OBVIOUS
<1> QED
  BY ONLY <1>1, MinusOfOne

\* Carrying forward keeps the tally.
LEMMA TallyCarried ==
  ASSUME NEW d, NEW e, Carried(d, e), NEW gl, TallyOf(d.tb, gl)
  PROVE  TallyOf(e.tb, gl)
<1> SUFFICES ASSUME NEW k \in DOMAIN e.tb
             PROVE  /\ e.tb[k].credits = CountedIn(gl, k, TRUE)
                    /\ e.tb[k].debits = -CountedIn(gl, k, FALSE)
  BY DEF TallyOf, Carried
<1>1. CASE k \in DOMAIN d.tb
  BY <1>1 DEF TallyOf, Carried
<1>2. CASE k \notin DOMAIN d.tb
  <2>1. \A i \in DOMAIN gl : gl[i].posted => KeyOf(gl[i]) # k
    BY <1>2 DEF TallyOf
  <2>2. CountedIn(gl, k, TRUE) = 0 /\ CountedIn(gl, k, FALSE) = 0
    BY <2>1, CountedNone
  <2>3. e.tb[k].debits = 0 /\ e.tb[k].credits = 0
    BY <1>2 DEF Carried
  <2>4. -CountedIn(gl, k, FALSE) = 0
    BY <2>2, MinusZero
  <2> QED
    BY <2>2, <2>3, <2>4
<1> QED
  BY <1>1, <1>2

\* The rows of other accounts and periods count the same in both ledgers, and
\* a posted row is of a key of the table or of k.
OthersSame(gl, hl, k) ==
    \A j : \A credit \in BOOLEAN :
        j # k => CountedIn(hl, j, credit) = CountedIn(gl, j, credit)
PostedAmong(hl, tb, k) ==
    \A i \in DOMAIN hl : hl[i].posted => KeyOf(hl[i]) \in DOMAIN tb \cup {k}

\* A row written with the change of what is counted keeps the tally.
LEMMA TallyWritten ==
  ASSUME NEW d, IsDB(d), NEW gl, NEW hl, TallyOf(d.tb, gl), NEW k, NEW row,
         OthersSame(gl, hl, k),
         row.credits = CountedIn(hl, k, TRUE), row.debits = -CountedIn(hl, k, FALSE),
         PostedAmong(hl, d.tb, k)
  PROVE  TallyOf(Write(d, k, row).tb, hl)
<1> DEFINE e == Write(d, k, row)
<1>1. /\ DOMAIN e.tb = DOMAIN d.tb \cup {k} /\ e.tb[k] = row
      /\ \A j \in DOMAIN d.tb : j # k => e.tb[j] = d.tb[j]
  BY WriteTable
<1> HIDE DEF e
<1>2. \A j \in DOMAIN e.tb : j # k => /\ e.tb[j].credits = CountedIn(hl, j, TRUE)
                                      /\ e.tb[j].debits = -CountedIn(hl, j, FALSE)
  BY <1>1 DEF TallyOf, OthersSame
<1>3. TallyOf(e.tb, hl)
  BY <1>1, <1>2 DEF TallyOf, PostedAmong
<1> QED
  BY <1>3 DEF e

\* A database whose balances tally with its ledger.
Tallied(d) == Base(d) /\ GLTyped(d.gl) /\ TallyOf(d.tb, d.gl)

LEMMA ForwardIfShouldCarries ==
  ASSUME NEW d, Base(d), NEW a \in Accounts, NEW p \in Slots, <<a, p>> \in DOMAIN d.tb
  PROVE  Carried(d, ForwardIfShould(d, a, p))
BY ForwardCarries, CarriedSelf DEF ForwardIfShould

\* One row of a ledger replaced.
LEMMA ReplacedRow ==
  ASSUME NEW gl, GLTyped(gl), NEW i \in DOMAIN gl, NEW r \in LedgerRows,
         NEW hl, hl = [gl EXCEPT ![i] = r]
  PROVE  /\ GLTyped(hl) /\ DOMAIN hl = DOMAIN gl /\ hl[i] = r
         /\ \A j \in DOMAIN gl : j # i => hl[j] = gl[j]
<1>1. Len(gl) \in Nat /\ DOMAIN gl = 1..Len(gl)
  BY SeqDomain DEF GLTyped
<1>2. DOMAIN hl = 1..Len(gl) /\ hl = [j \in 1..Len(gl) |-> hl[j]]
  BY <1>1
<1>3. IsSeq(hl)
  BY ONLY <1>1, <1>2, SeqShape
<1>4. hl[i] = r /\ \A j \in DOMAIN gl : j # i => hl[j] = gl[j]
  OBVIOUS
<1>5. GLTyped(hl)
  BY <1>1, <1>2, <1>3, <1>4 DEF GLTyped
<1> QED
  BY <1>1, <1>2, <1>4, <1>5

\* The trial balance row that posting and taking back start from: its counts
\* are those of the ledger, nothing if there is no row.
LEMMA OldRow ==
  ASSUME NEW d, Tallied(d), NEW k,
         NEW old, old = (IF k \in DOMAIN d.tb THEN d.tb[k] ELSE Row(0, 0, 0, 0, TRUE))
  PROVE  /\ old \in TBRows
         /\ old.credits = CountedIn(d.gl, k, TRUE)
         /\ old.debits = -CountedIn(d.gl, k, FALSE)
<1>1. CASE k \in DOMAIN d.tb
  BY <1>1 DEF Tallied, Base, TBTyped, TallyOf
<1>2. CASE k \notin DOMAIN d.tb
  <2>1. old = Row(0, 0, 0, 0, TRUE)
    BY <1>2
  <2>2. old \in TBRows /\ old.credits = 0 /\ old.debits = 0
    BY ONLY <2>1 DEF Row, TBRows
  <2>3. \A i \in DOMAIN d.gl : d.gl[i].posted => KeyOf(d.gl[i]) # k
    BY <1>2 DEF Tallied, TallyOf
  <2>4. CountedIn(d.gl, k, TRUE) = 0 /\ CountedIn(d.gl, k, FALSE) = 0
    BY <2>3, CountedNone
  <2> QED
    BY <2>2, <2>4, MinusZero
<1> QED
  BY <1>1, <1>2

\* A row written and its account carried forward leave the ledger.
LEMMA RowForwarded ==
  ASSUME NEW d, Base(d), NEW a \in Accounts, NEW p \in Slots, NEW row \in TBRows,
         NEW w, w = Write(d, <<a, p>>, row), NEW f, f = ForwardIfShould(w, a, p)
  PROVE  /\ Carried(w, f) /\ Base(f) /\ f.gl = d.gl /\ f.periods = d.periods
<1> DEFINE k == <<a, p>>
<1>1. k \in Keys
  BY DEF Keys
<1>2. /\ IsDB(w) /\ w = WithBalances(d, w)
      /\ DOMAIN w.tb = DOMAIN d.tb \cup {k} /\ w.tb[k] = row
      /\ \A j \in DOMAIN d.tb : j # k => w.tb[j] = d.tb[j]
  <2>1. w = Write(d, k, row) /\ IsDB(d)
    BY DEF Base
  <2> HIDE DEF k
  <2> QED
    BY ONLY <2>1, WriteTable
<1> HIDE DEF k
<1>3. Base(w) /\ w.periods = d.periods /\ w.gl = d.gl
  <2>1. TBTyped(w.tb)
    BY <1>1, <1>2 DEF TBTyped, Base
  <2>2. w.periods = d.periods /\ w.gl = d.gl
    <3> DEFINE t == w.tb
               r == w.raised
    <3>1. w = [d EXCEPT !.tb = t, !.raised = r]
      BY <1>2 DEF WithBalances
    <3> HIDE DEF t, r
    <3> QED
      BY <3>1 DEF Base, IsDB
  <2> QED
    BY <1>2, <2>1, <2>2 DEF Base
<1>4. Carried(w, f)
  BY <1>2, <1>3, ForwardIfShouldCarries DEF k
<1> QED
  BY <1>3, <1>4, CarriedFields

\* The movements of a row are those of the ledger.
RowCounts(row, gl, k) ==
    row.credits = CountedIn(gl, k, TRUE) /\ row.debits = -CountedIn(gl, k, FALSE)

\* The end of posting and of taking back: the row k written with the counts
\* of the new ledger, the account carried forward, and the ledger replaced.
RowDone(d, a, p, row, hl) ==
    [ForwardIfShould(Write(d, <<a, p>>, row), a, p) EXCEPT !.gl = hl]

LEMMA RowTallies ==
  ASSUME NEW d, Tallied(d), NEW a \in Accounts, NEW p \in Slots,
         NEW row \in TBRows, NEW hl, GLTyped(hl),
         OthersSame(d.gl, hl, <<a, p>>),
         RowCounts(row, hl, <<a, p>>),
         PostedAmong(hl, d.tb, <<a, p>>)
  PROVE  /\ Tallied(RowDone(d, a, p, row, hl)) /\ RowDone(d, a, p, row, hl).gl = hl
         /\ RowDone(d, a, p, row, hl).periods = d.periods
<1> DEFINE k == <<a, p>>
           w == Write(d, k, row)
           f == ForwardIfShould(w, a, p)
           e == RowDone(d, a, p, row, hl)
<1>0. e = [f EXCEPT !.gl = hl]
  BY DEF RowDone
<1>1. TallyOf(w.tb, hl)
  <2>1. IsDB(d) /\ TallyOf(d.tb, d.gl)
    BY DEF Tallied, Base
  <2> HIDE DEF w
  <2> QED
    BY <2>1, TallyWritten DEF w, RowCounts
<1>2. Base(d)
  BY DEF Tallied
<1> HIDE DEF w, f, e
<1>3. Carried(w, f) /\ Base(f) /\ f.periods = d.periods
  BY <1>2, RowForwarded DEF w, f
<1>4. TallyOf(f.tb, hl)
  BY <1>1, <1>3, TallyCarried
<1>5. IsDB(e) /\ e.gl = hl /\ e.tb = f.tb /\ e.periods = f.periods
  BY <1>0, <1>3 DEF Base, IsDB
<1>6. IsRows(hl)
  BY RowsOfLedger
<1> QED
  BY <1>3, <1>4, <1>5, <1>6 DEF Tallied, Base, e

\* postIntoTrialBalance's turn for row i.
LEMMA PostRowTallies ==
  ASSUME NEW d, Tallied(d), NEW i \in DOMAIN d.gl, ~d.gl[i].posted
  PROVE  /\ Tallied(PostRow(d, i)) /\ PostRow(d, i).periods = d.periods
         /\ PostRow(d, i).gl = [d.gl EXCEPT ![i] = [d.gl[i] EXCEPT !.posted = TRUE]]
<1> DEFINE r == d.gl[i]
           a == r.accnt
           p == r.period
           k == <<a, p>>
           m == r.amount
           s == [r EXCEPT !.posted = TRUE]
           hl == [d.gl EXCEPT ![i] = s]
           old == IF k \in DOMAIN d.tb THEN d.tb[k] ELSE Row(0, 0, 0, 0, TRUE)
           row == IF m > 0
                  THEN Row(old.beginning, old.debits, old.credits + m, old.yearend, TRUE)
                  ELSE Row(old.beginning, old.debits - m, old.credits, old.yearend, TRUE)
           f == ForwardIfShould(Write(d, k, row), a, p)
           e == [f EXCEPT !.gl = hl]
<1>1. r \in LedgerRows /\ GLTyped(d.gl) /\ IsRows(d.gl) /\ Base(d)
  BY RowsOfLedger DEF Tallied, GLTyped
<1>2. a \in Accounts /\ p \in Slots /\ m \in Int
  BY <1>1 DEF LedgerRows
<1>3. /\ s \in LedgerRows /\ s.accnt = a /\ s.period = p /\ s.amount = m /\ s.posted
  BY <1>1 DEF LedgerRows
<1>4. /\ GLTyped(hl) /\ DOMAIN hl = DOMAIN d.gl /\ hl[i] = s
      /\ \A j \in DOMAIN d.gl : j # i => hl[j] = d.gl[j]
  <2> HIDE DEF s, hl
  <2> QED
    BY <1>1, <1>3, ReplacedRow DEF hl
<1>5. /\ old \in TBRows
      /\ old.credits = CountedIn(d.gl, k, TRUE)
      /\ old.debits = -CountedIn(d.gl, k, FALSE)
  <2> HIDE DEF k, old
  <2> QED
    BY OldRow DEF old
<1>6. /\ row \in TBRows
      /\ m > 0 => row.credits = old.credits + m /\ row.debits = old.debits
      /\ ~(m > 0) => row.credits = old.credits /\ row.debits = old.debits - m
  <2> HIDE DEF old, m
  <2>1. /\ old.beginning \in Int /\ old.debits \in Int /\ old.credits \in Int
        /\ old.yearend \in Int /\ m \in Int
    BY <1>2, <1>5 DEF TBRows
  <2> QED
    BY ONLY <2>1 DEF Row, TBRows
<1>7. f.gl = d.gl
  <2> HIDE DEF row, f
  <2> QED
    BY <1>1, <1>2, <1>6, RowForwarded DEF f
<1>8. PostRow(d, i) = e
  <2>1. PostRow(d, i) = [f EXCEPT !.gl[i].posted = TRUE]
    BY DEF PostRow
  <2> HIDE DEF f
  <2> QED
    BY <1>7, <2>1
<1>9. SameLines(d.gl, hl)
  <2> HIDE DEF s, hl
  <2> QED
    BY <1>3, <1>4 DEF SameLines
<1>10. ASSUME NEW j, NEW credit \in BOOLEAN
       PROVE  CountedIn(hl, j, credit) =
                IF k = j /\ (m > 0) = credit
                THEN CountedIn(d.gl, j, credit) + m ELSE CountedIn(d.gl, j, credit)
  <2> HIDE DEF hl, s
  <2>1. hl[i].posted /\ \A n \in DOMAIN d.gl : n # i => hl[n].posted = d.gl[n].posted
    BY <1>3, <1>4
  <2>2. KeyOf(d.gl[i]) = k
    BY DEF KeyOf
  <2> QED
    BY <1>1, <1>9, <2>1, <2>2, CountedMore
<1>11. CountedIn(d.gl, k, TRUE) \in Int /\ CountedIn(d.gl, k, FALSE) \in Int
  BY <1>1, CountedInt
<1>12. row.credits = CountedIn(hl, k, TRUE) /\ row.debits = -CountedIn(hl, k, FALSE)
  <2>1. /\ CountedIn(hl, k, TRUE) = IF m > 0 THEN CountedIn(d.gl, k, TRUE) + m
                                    ELSE CountedIn(d.gl, k, TRUE)
        /\ CountedIn(hl, k, FALSE) = IF m > 0 THEN CountedIn(d.gl, k, FALSE)
                                     ELSE CountedIn(d.gl, k, FALSE) + m
    <3> HIDE DEF hl, k, m
    <3>1. (m > 0) \in BOOLEAN
      OBVIOUS
    <3> QED
      BY <1>10, <3>1
  <2> DEFINE c == CountedIn(d.gl, k, TRUE)
             b == CountedIn(d.gl, k, FALSE)
             x == CountedIn(hl, k, TRUE)
             y == CountedIn(hl, k, FALSE)
  <2>2. /\ x = (IF m > 0 THEN c + m ELSE c) /\ y = (IF m > 0 THEN b ELSE b + m)
        /\ old.credits = c /\ old.debits = -b /\ c \in Int /\ b \in Int /\ m \in Int
    BY <1>2, <1>5, <1>11, <2>1
  <2> HIDE DEF c, b, x, y, m, row, old
  <2>3. row.credits = x /\ row.debits = -y
    <3>1. CASE m > 0
      BY ONLY <1>6, <2>2, <3>1
    <3>2. CASE ~(m > 0)
      BY ONLY <1>6, <2>2, <3>2
    <3> QED
      BY <3>1, <3>2
  <2> QED
    BY <2>3 DEF x, y
<1>13. OthersSame(d.gl, hl, k)
  <2> HIDE DEF hl, k, m
  <2> QED
    BY <1>10 DEF OthersSame
<1>14. PostedAmong(hl, d.tb, k)
  <2> HIDE DEF hl, s
  <2>1. KeyOf(hl[i]) = k
    BY <1>3, <1>4 DEF KeyOf
  <2> QED
    BY <1>4, <2>1 DEF Tallied, TallyOf, PostedAmong
<1> HIDE DEF hl, row, a, p
<1>15. Tallied(e) /\ e.gl = hl /\ e.periods = d.periods
  <2>1. e = RowDone(d, a, p, row, hl)
    BY DEF RowDone
  <2>2. /\ a \in Accounts /\ p \in Slots /\ row \in TBRows /\ GLTyped(hl) /\ Tallied(d)
        /\ OthersSame(d.gl, hl, <<a, p>>)
        /\ RowCounts(row, hl, <<a, p>>)
        /\ PostedAmong(hl, d.tb, <<a, p>>)
    BY <1>2, <1>4, <1>6, <1>12, <1>13, <1>14 DEF RowCounts
  <2> HIDE DEF e, f
  <2>3. /\ Tallied(RowDone(d, a, p, row, hl)) /\ RowDone(d, a, p, row, hl).gl = hl
        /\ RowDone(d, a, p, row, hl).periods = d.periods
    <3> HIDE DEF k, m, s, old, r
    <3> QED
      BY ONLY <2>2, RowTallies
  <2> QED
    BY ONLY <2>1, <2>3
<1> QED
  BY <1>8, <1>15 DEF hl

\* deleteGlSeries's turn for row i.
LEMMA UnpostRowTallies ==
  ASSUME NEW d, Tallied(d), NEW i \in DOMAIN d.gl, d.gl[i].posted
  PROVE  /\ Tallied(UnpostRow(d, i)) /\ UnpostRow(d, i).periods = d.periods
         /\ UnpostRow(d, i).gl =
              [d.gl EXCEPT ![i] = [d.gl[i] EXCEPT !.posted = FALSE, !.deleted = TRUE]]
<1> DEFINE r == d.gl[i]
           a == r.accnt
           p == r.period
           k == <<a, p>>
           m == r.amount
           s == [r EXCEPT !.posted = FALSE, !.deleted = TRUE]
           hl == [d.gl EXCEPT ![i] = s]
           old == d.tb[k]
           row == IF m > 0
                  THEN Row(old.beginning, old.debits, old.credits - m, old.yearend, TRUE)
                  ELSE Row(old.beginning, old.debits + m, old.credits, old.yearend, TRUE)
           f == ForwardIfShould(Write(d, k, row), a, p)
           e == [f EXCEPT !.gl = hl]
<1>1. r \in LedgerRows /\ GLTyped(d.gl) /\ IsRows(d.gl) /\ Base(d)
  BY RowsOfLedger DEF Tallied, GLTyped
<1>2. a \in Accounts /\ p \in Slots /\ m \in Int
  BY <1>1 DEF LedgerRows
<1>3. /\ s \in LedgerRows /\ s.accnt = a /\ s.period = p /\ s.amount = m /\ ~s.posted
  BY <1>1 DEF LedgerRows
<1>4. /\ GLTyped(hl) /\ DOMAIN hl = DOMAIN d.gl /\ hl[i] = s
      /\ \A j \in DOMAIN d.gl : j # i => hl[j] = d.gl[j]
  <2> HIDE DEF s, hl
  <2> QED
    BY <1>1, <1>3, ReplacedRow DEF hl
<1>5. /\ old \in TBRows
      /\ old.credits = CountedIn(d.gl, k, TRUE)
      /\ old.debits = -CountedIn(d.gl, k, FALSE)
  <2>1. k = KeyOf(d.gl[i])
    BY DEF KeyOf
  <2> HIDE DEF k, old
  <2>2. k \in DOMAIN d.tb
    BY <2>1 DEF Tallied, TallyOf
  <2> QED
    BY <2>2 DEF Tallied, TallyOf, Base, TBTyped, old
<1>6. /\ row \in TBRows
      /\ m > 0 => row.credits = old.credits - m /\ row.debits = old.debits
      /\ ~(m > 0) => row.credits = old.credits /\ row.debits = old.debits + m
  <2> HIDE DEF old, m
  <2>1. /\ old.beginning \in Int /\ old.debits \in Int /\ old.credits \in Int
        /\ old.yearend \in Int /\ m \in Int
    BY <1>2, <1>5 DEF TBRows
  <2> QED
    BY ONLY <2>1 DEF Row, TBRows
<1>7. f.gl = d.gl
  <2> HIDE DEF row, f
  <2> QED
    BY <1>1, <1>2, <1>6, RowForwarded DEF f
<1>8. UnpostRow(d, i) = e
  <2>1. UnpostRow(d, i) = [f EXCEPT !.gl[i].posted = FALSE, !.gl[i].deleted = TRUE]
    BY DEF UnpostRow
  <2> HIDE DEF f
  <2>2. [f EXCEPT !.gl[i].posted = FALSE, !.gl[i].deleted = TRUE] = e
    BY ONLY <1>7, <1>1 DEF GLTyped
  <2> QED
    BY <2>1, <2>2
<1>9. SameLines(hl, d.gl) /\ IsRows(hl)
  <2> HIDE DEF s, hl
  <2>1. IsRows(hl)
    BY <1>4, RowsOfLedger
  <2> QED
    BY <1>3, <1>4, <2>1 DEF SameLines
<1>10. ASSUME NEW j, NEW credit \in BOOLEAN
       PROVE  CountedIn(d.gl, j, credit) =
                IF k = j /\ (m > 0) = credit
                THEN CountedIn(hl, j, credit) + m ELSE CountedIn(hl, j, credit)
  <2>1. KeyOf(hl[i]) = k /\ hl[i].amount = m
    <3> HIDE DEF hl, s
    <3> QED
      BY <1>3, <1>4 DEF KeyOf
  <2> HIDE DEF hl, s
  <2>2. ~hl[i].posted /\ \A n \in DOMAIN hl : n # i => d.gl[n].posted = hl[n].posted
    BY <1>3, <1>4
  <2>3. i \in DOMAIN hl
    BY <1>4
  <2> HIDE DEF k, m
  <2> QED
    BY <1>9, <2>1, <2>2, <2>3, CountedMore
<1>11. CountedIn(hl, k, TRUE) \in Int /\ CountedIn(hl, k, FALSE) \in Int
  <2> HIDE DEF hl
  <2> QED
    BY <1>9, CountedInt
<1>12. row.credits = CountedIn(hl, k, TRUE) /\ row.debits = -CountedIn(hl, k, FALSE)
  <2>1. /\ CountedIn(d.gl, k, TRUE) = IF m > 0 THEN CountedIn(hl, k, TRUE) + m
                                    ELSE CountedIn(hl, k, TRUE)
        /\ CountedIn(d.gl, k, FALSE) = IF m > 0 THEN CountedIn(hl, k, FALSE)
                                     ELSE CountedIn(hl, k, FALSE) + m
    <3> HIDE DEF hl, k, m
    <3>1. (m > 0) \in BOOLEAN
      OBVIOUS
    <3> QED
      BY <1>10, <3>1
  <2> DEFINE c == CountedIn(d.gl, k, TRUE)
             b == CountedIn(d.gl, k, FALSE)
             x == CountedIn(hl, k, TRUE)
             y == CountedIn(hl, k, FALSE)
  <2>2. /\ c = (IF m > 0 THEN x + m ELSE x) /\ b = (IF m > 0 THEN y ELSE y + m)
        /\ old.credits = c /\ old.debits = -b /\ x \in Int /\ y \in Int /\ m \in Int
    BY <1>2, <1>5, <1>11, <2>1
  <2> HIDE DEF c, b, x, y, m, row, old
  <2>3. row.credits = x /\ row.debits = -y
    <3>1. CASE m > 0
      BY ONLY <1>6, <2>2, <3>1
    <3>2. CASE ~(m > 0)
      BY ONLY <1>6, <2>2, <3>2
    <3> QED
      BY <3>1, <3>2
  <2> QED
    BY <2>3 DEF x, y
<1>13. OthersSame(d.gl, hl, k)
  <2> HIDE DEF hl, k, m
  <2> QED
    BY <1>10 DEF OthersSame
<1>14. PostedAmong(hl, d.tb, k)
  <2> HIDE DEF hl, s
  <2>1. KeyOf(hl[i]) = k
    BY <1>3, <1>4 DEF KeyOf
  <2> QED
    BY <1>4, <2>1 DEF Tallied, TallyOf, PostedAmong
<1> HIDE DEF hl, row, a, p
<1>15. Tallied(e) /\ e.gl = hl /\ e.periods = d.periods
  <2>1. e = RowDone(d, a, p, row, hl)
    BY DEF RowDone
  <2>2. /\ a \in Accounts /\ p \in Slots /\ row \in TBRows /\ GLTyped(hl) /\ Tallied(d)
        /\ OthersSame(d.gl, hl, <<a, p>>)
        /\ RowCounts(row, hl, <<a, p>>)
        /\ PostedAmong(hl, d.tb, <<a, p>>)
    BY <1>2, <1>4, <1>6, <1>12, <1>13, <1>14 DEF RowCounts
  <2> HIDE DEF e, f
  <2>3. /\ Tallied(RowDone(d, a, p, row, hl)) /\ RowDone(d, a, p, row, hl).gl = hl
        /\ RowDone(d, a, p, row, hl).periods = d.periods
    <3> HIDE DEF k, m, s, old, r
    <3> QED
      BY ONLY <2>2, RowTallies
  <2> QED
    BY ONLY <2>1, <2>3
<1> QED
  BY <1>8, <1>15 DEF hl

-----------------------------------------------------------------------------
(* Posting and taking back row by row.                                     *)

\* After m turns of a loop over the rows at order that sets their flag: the
\* balances tally, and those rows have the flag.
Among(order, m, j) == \E t \in 1..m : order[t] = j
Turned(s, d, order, m, flag) ==
    /\ Tallied(s) /\ s.periods = d.periods /\ SameLines(d.gl, s.gl)
    /\ \A j \in DOMAIN d.gl :
         s.gl[j].posted = IF Among(order, m, j) THEN flag ELSE d.gl[j].posted

LEMMA TurnedFirst ==
  ASSUME NEW d, Tallied(d), NEW order, NEW flag
  PROVE  Turned(d, d, order, 0, flag)
<1>1. \A j : ~Among(order, 0, j)
  BY DEF Among
<1> QED
  BY <1>1 DEF Turned, SameLines

LEMMA TurnedNext ==
  ASSUME NEW d, NEW order, NEW flag, NEW n \in Nat, NEW m \in 1..n, NEW s,
         Turned(s, d, order, m - 1, flag), NEW u, Tallied(u), u.periods = s.periods,
         order[m] \in DOMAIN d.gl, NEW r, r.posted = flag,
         r.accnt = s.gl[order[m]].accnt, r.period = s.gl[order[m]].period,
         r.amount = s.gl[order[m]].amount, u.gl = [s.gl EXCEPT ![order[m]] = r]
  PROVE  Turned(u, d, order, m, flag)
<1> DEFINE i == order[m]
<1>1. \A j : Among(order, m, j) <=> j = i \/ Among(order, m - 1, j)
  BY DEF Among
<1>2. /\ DOMAIN s.gl = DOMAIN d.gl /\ DOMAIN u.gl = DOMAIN d.gl /\ u.gl[i] = r
      /\ \A j \in DOMAIN d.gl : j # i => u.gl[j] = s.gl[j]
  BY DEF Turned, SameLines
<1> HIDE DEF i
<1>3. SameLines(d.gl, u.gl)
  <2>1. ASSUME NEW j \in DOMAIN d.gl
        PROVE  /\ u.gl[j].accnt = d.gl[j].accnt /\ u.gl[j].period = d.gl[j].period
               /\ u.gl[j].amount = d.gl[j].amount
    <3>1. CASE j = i
      BY <1>2, <3>1 DEF Turned, SameLines, i
    <3>2. CASE j # i
      BY <1>2, <3>2 DEF Turned, SameLines
    <3> QED
      BY <3>1, <3>2
  <2> QED
    BY <1>2, <2>1 DEF SameLines
<1>4. ASSUME NEW j \in DOMAIN d.gl
      PROVE  u.gl[j].posted = IF Among(order, m, j) THEN flag ELSE d.gl[j].posted
  <2>1. CASE j = i
    BY <1>1, <1>2, <2>1
  <2>2. CASE j # i
    <3>1. u.gl[j].posted = s.gl[j].posted
      BY <1>2, <2>2
    <3>2. s.gl[j].posted = IF Among(order, m - 1, j) THEN flag ELSE d.gl[j].posted
      BY DEF Turned
    <3> QED
      BY <1>1, <2>2, <3>1, <3>2
  <2> QED
    BY <2>1, <2>2
<1> QED
  BY <1>3, <1>4 DEF Turned

\* A loop of PostRow over distinct unposted rows.
LEMMA PostLoopTurns ==
  ASSUME NEW d, Tallied(d), NEW n, n \in Nat, NEW order, DOMAIN order = 1..n,
         \A i \in 1..n : order[i] \in DOMAIN d.gl /\ ~d.gl[order[i]].posted,
         \A i, j \in 1..n : order[i] = order[j] => i = j
  PROVE  Turned(PostLoop(d, order), d, order, n, TRUE)
<1>1. PICK g : /\ g[0] = d /\ \A i \in 1..n : g[i] = PostRow(g[i - 1], order[i])
               /\ PostLoop(d, order) = g[n]
  BY ONLY n \in Nat, DOMAIN order = 1..n, PostChain
<1> DEFINE flag == TRUE
           Z == {i \in 0..n : Turned(g[i], d, order, i, flag)}
<1>2. flag = TRUE
  OBVIOUS
<1> HIDE DEF flag
<1>3. 0 \in Z
  BY <1>1, TurnedFirst
<1>4. ASSUME NEW m \in 1..n, m - 1 \in Z PROVE m \in Z
  <2> DEFINE s == g[m - 1]
             u == g[m]
             i == order[m]
             r == [s.gl[i] EXCEPT !.posted = TRUE]
  <2>1. Turned(s, d, order, m - 1, flag) /\ u = PostRow(s, i)
    BY <1>1, <1>4
  <2>2. ~Among(order, m - 1, i)
    BY DEF Among
  <2>3. i \in DOMAIN d.gl /\ i \in DOMAIN s.gl /\ ~s.gl[i].posted /\ Tallied(s)
    BY <2>1, <2>2 DEF Turned, SameLines
  <2> HIDE DEF s, u, i
  <2>4. Tallied(u) /\ u.periods = s.periods /\ u.gl = [s.gl EXCEPT ![i] = r]
    BY <2>1, <2>3, PostRowTallies
  <2>5. /\ r.posted = flag /\ r.accnt = s.gl[i].accnt /\ r.period = s.gl[i].period
        /\ r.amount = s.gl[i].amount
    <3>1. s.gl[i] \in LedgerRows
      BY <2>3 DEF Tallied, GLTyped
    <3> QED
      BY <1>2, <3>1 DEF LedgerRows
  <2> HIDE DEF r
  <2>6. Turned(u, d, order, m, flag)
    BY <2>1, <2>3, <2>4, <2>5, TurnedNext DEF i
  <2> QED
    BY <2>6 DEF u
<1>5. n \in Z
  <2> HIDE DEF Z
  <2>1. \A i \in 0..n : i \in Z
    BY ONLY n \in Nat, <1>3, <1>4, Counting
  <2> QED
    BY <2>1
<1> QED
  BY <1>1, <1>2, <1>5

\* A loop of UnpostRow over distinct posted rows.
LEMMA UnpostLoopTurns ==
  ASSUME NEW d, Tallied(d), NEW n, n \in Nat, NEW order, DOMAIN order = 1..n,
         \A i \in 1..n : order[i] \in DOMAIN d.gl /\ d.gl[order[i]].posted,
         \A i, j \in 1..n : order[i] = order[j] => i = j
  PROVE  Turned(UnpostLoop(d, order), d, order, n, FALSE)
<1>1. PICK g : /\ g[0] = d /\ \A i \in 1..n : g[i] = UnpostRow(g[i - 1], order[i])
               /\ UnpostLoop(d, order) = g[n]
  BY ONLY n \in Nat, DOMAIN order = 1..n, UnpostChain
<1> DEFINE flag == FALSE
           Z == {i \in 0..n : Turned(g[i], d, order, i, flag)}
<1>2. flag = FALSE
  OBVIOUS
<1> HIDE DEF flag
<1>3. 0 \in Z
  BY <1>1, TurnedFirst
<1>4. ASSUME NEW m \in 1..n, m - 1 \in Z PROVE m \in Z
  <2> DEFINE s == g[m - 1]
             u == g[m]
             i == order[m]
             r == [s.gl[i] EXCEPT !.posted = FALSE, !.deleted = TRUE]
  <2>1. Turned(s, d, order, m - 1, flag) /\ u = UnpostRow(s, i)
    BY <1>1, <1>4
  <2>2. ~Among(order, m - 1, i)
    BY DEF Among
  <2>3. i \in DOMAIN d.gl /\ i \in DOMAIN s.gl /\ s.gl[i].posted /\ Tallied(s)
    BY <2>1, <2>2 DEF Turned, SameLines
  <2> HIDE DEF s, u, i
  <2>4. Tallied(u) /\ u.periods = s.periods /\ u.gl = [s.gl EXCEPT ![i] = r]
    BY <2>1, <2>3, UnpostRowTallies
  <2>5. /\ r.posted = flag /\ r.accnt = s.gl[i].accnt /\ r.period = s.gl[i].period
        /\ r.amount = s.gl[i].amount
    <3>1. s.gl[i] \in LedgerRows
      BY <2>3 DEF Tallied, GLTyped
    <3> QED
      BY <1>2, <3>1 DEF LedgerRows
  <2> HIDE DEF r
  <2>6. Turned(u, d, order, m, flag)
    BY <2>1, <2>3, <2>4, <2>5, TurnedNext DEF i
  <2> QED
    BY <2>6 DEF u
<1>5. n \in Z
  <2> HIDE DEF Z
  <2>1. \A i \in 0..n : i \in Z
    BY ONLY n \in Nat, <1>3, <1>4, Counting
  <2> QED
    BY <2>1
<1> QED
  BY <1>1, <1>2, <1>5

\* The rows ids of gl have the flag in hl, and the order runs through ids.
Marked(gl, hl, ids, flag) ==
    \A j \in DOMAIN gl : hl[j].posted = IF j \in ids THEN flag ELSE gl[j].posted
RunsThrough(order, n, ids) == \A j : j \in ids <=> Among(order, n, j)

\* The balances a loop leaves tally with a ledger in which the rows ids have
\* its flag and the others what they had.
LEMMA TurnedTallies ==
  ASSUME NEW d, NEW n, NEW ids, NEW order, NEW flag, NEW s, Turned(s, d, order, n, flag),
         RunsThrough(order, n, ids),
         NEW e, IsDB(e), e.tb = s.tb, e.periods = d.periods, GLTyped(e.gl),
         SameLines(d.gl, e.gl), Marked(d.gl, e.gl, ids, flag)
  PROVE  Tallied(e)
<1>1. SameLines(s.gl, e.gl)
  BY DEF Turned, SameLines
<1>2. \A j \in DOMAIN s.gl : e.gl[j].posted = s.gl[j].posted
  BY DEF Turned, SameLines, Marked, RunsThrough
<1>3. TallyOf(e.tb, e.gl)
  BY <1>1, <1>2, TallySame DEF Turned, Tallied
<1>4. TBTyped(e.tb) /\ e.periods \subseteq Slots
  BY DEF Turned, Tallied, Base
<1> QED
  BY <1>3, <1>4, RowsOfLedger DEF Tallied, Base

\* The order of a set of positions goes through each of them once.
LEMMA OrderOf ==
  ASSUME NEW gl, IsSeq(gl), NEW ids, ids \subseteq DOMAIN gl,
         NEW order, order = InSequence(ids), NEW n, n = Cardinality(ids)
  PROVE  /\ n \in Nat /\ DOMAIN order = 1..n
         /\ \A i \in 1..n : order[i] \in ids
         /\ \A i, j \in 1..n : order[i] = order[j] => i = j
         /\ RunsThrough(order, n, ids)
<1>1. Len(gl) \in Nat /\ DOMAIN gl = 1..Len(gl)
  BY SeqDomain
<1>2. /\ n \in Nat /\ order \in [1..n -> ids]
      /\ \A i, j \in 1..n : order[i] = order[j] => i = j
      /\ \A t \in ids : \E i \in 1..n : order[i] = t
  BY <1>1, InSequenceIs
<1>3. RunsThrough(order, n, ids)
  BY <1>2 DEF Among, RunsThrough
<1> QED
  BY <1>2, <1>3

\* postIntoTrialBalance keeps the balances and the ledger together.
LEMMA PostingTally ==
  ASSUME NEW d, NEW n \in Nat, Typed(d, n), Tallied(d), NEW seqs, NEW priv,
         NEW e, e = postIntoTrialBalance(d, seqs, priv)
  PROVE  Tallied(e)
<1> DEFINE ids == Pending(d, seqs, priv)
           order == InSequence(ids)
           m == Cardinality(ids)
           gl == [i \in DOMAIN d.gl |-> [d.gl[i] EXCEPT !.posted = @ \/ i \in ids]]
           s == PostLoop(d, order)
           flag == TRUE
<1>1. /\ IsDB(e) /\ e.periods = d.periods /\ IsSeq(e.gl) /\ DOMAIN e.gl = DOMAIN d.gl
      /\ \A i \in DOMAIN d.gl : e.gl[i] = [d.gl[i] EXCEPT !.posted = @ \/ i \in ids]
  BY PostedTables
<1>2. e.tb = s.tb
  <2> DEFINE done == FoldLeft(PostRow, d, InSequence(ids))
  <2>1. e = [WithBalances(d, done) EXCEPT !.gl = gl] /\ IsDB(d)
    BY DEF postIntoTrialBalance, Typed
  <2>2. done = s
    BY DEF PostLoop
  <2> HIDE DEF done, s, gl
  <2>3. e.tb = done.tb
    BY <2>1 DEF WithBalances, IsDB
  <2> QED
    BY <2>2, <2>3
<1>3. \A i \in ids : i \in DOMAIN d.gl /\ ~d.gl[i].posted
  BY DEF Pending
<1>4. flag = TRUE
  OBVIOUS
<1> HIDE DEF ids, gl, s, flag
<1>5. IsSeq(d.gl) /\ ids \subseteq DOMAIN d.gl
  BY <1>3 DEF Typed
<1> HIDE DEF order, m
<1>6. /\ m \in Nat /\ DOMAIN order = 1..m
      /\ \A i \in 1..m : order[i] \in ids
      /\ \A i, j \in 1..m : order[i] = order[j] => i = j
      /\ RunsThrough(order, m, ids)
  BY <1>5, OrderOf DEF order, m
<1>7. Turned(s, d, order, m, flag)
  BY <1>3, <1>4, <1>6, PostLoopTurns DEF s
<1>8. ASSUME NEW i \in DOMAIN d.gl
      PROVE  /\ e.gl[i] \in LedgerRows
             /\ e.gl[i].accnt = d.gl[i].accnt /\ e.gl[i].period = d.gl[i].period
             /\ e.gl[i].amount = d.gl[i].amount
             /\ e.gl[i].posted = IF i \in ids THEN flag ELSE d.gl[i].posted
  <2>1. d.gl[i] \in LedgerRows
    BY DEF Tallied, GLTyped
  <2>2. e.gl[i] = [d.gl[i] EXCEPT !.posted = @ \/ i \in ids]
    BY <1>1
  <2> QED
    BY <1>4, <2>1, <2>2 DEF LedgerRows
<1>9. GLTyped(e.gl) /\ SameLines(d.gl, e.gl) /\ Marked(d.gl, e.gl, ids, flag)
  BY <1>1, <1>8 DEF GLTyped, SameLines, Marked
<1> QED
  BY <1>1, <1>2, <1>6, <1>7, <1>9, TurnedTallies

\* A ledger with the rows ids taken back.
TakenBack(gl, ids) ==
    [i \in DOMAIN gl |->
       IF i \in ids THEN [gl[i] EXCEPT !.posted = FALSE, !.deleted = TRUE] ELSE gl[i]]
PostedRows(gl, ids) == ids \subseteq DOMAIN gl /\ \A i \in ids : gl[i].posted

\* So does taking posted rows back.
LEMMA DeletingTally ==
  ASSUME NEW d, Tallied(d), NEW ids, PostedRows(d.gl, ids),
         NEW e, IsDB(e), e.tb = UnpostLoop(d, InSequence(ids)).tb, e.periods = d.periods,
         e.gl = TakenBack(d.gl, ids)
  PROVE  Tallied(e)
<1> DEFINE order == InSequence(ids)
           m == Cardinality(ids)
           s == UnpostLoop(d, order)
           flag == FALSE
<1>0. e.gl = [i \in DOMAIN d.gl |->
                IF i \in ids THEN [d.gl[i] EXCEPT !.posted = FALSE, !.deleted = TRUE]
                ELSE d.gl[i]]
  BY DEF TakenBack
<1>1. /\ IsSeq(d.gl) /\ e.tb = s.tb /\ flag = FALSE
      /\ ids \subseteq DOMAIN d.gl /\ \A i \in ids : d.gl[i].posted
  BY DEF Tallied, GLTyped, PostedRows
<1> HIDE DEF order, m, s, flag
<1>2. /\ m \in Nat /\ DOMAIN order = 1..m
      /\ \A i \in 1..m : order[i] \in ids
      /\ \A i, j \in 1..m : order[i] = order[j] => i = j
      /\ RunsThrough(order, m, ids)
  BY <1>1, OrderOf DEF order, m
<1>3. Turned(s, d, order, m, flag)
  BY <1>1, <1>2, UnpostLoopTurns DEF s
<1>4. ASSUME NEW i \in DOMAIN d.gl
      PROVE  /\ e.gl[i] \in LedgerRows
             /\ e.gl[i].accnt = d.gl[i].accnt /\ e.gl[i].period = d.gl[i].period
             /\ e.gl[i].amount = d.gl[i].amount
             /\ e.gl[i].posted = IF i \in ids THEN flag ELSE d.gl[i].posted
  <2>1. d.gl[i] \in LedgerRows
    BY DEF Tallied, GLTyped
  <2>2. CASE i \in ids
    <3>1. e.gl[i] = [d.gl[i] EXCEPT !.posted = FALSE, !.deleted = TRUE]
      BY <1>0, <2>2
    <3> QED
      BY <1>1, <2>1, <2>2, <3>1 DEF LedgerRows
  <2>3. CASE i \notin ids
    <3>1. e.gl[i] = d.gl[i]
      BY <1>0, <2>3
    <3> QED
      BY <2>1, <2>3, <3>1
  <2> QED
    BY <2>2, <2>3
<1>5. GLTyped(e.gl) /\ SameLines(d.gl, e.gl) /\ Marked(d.gl, e.gl, ids, flag)
  <2>1. Len(d.gl) \in Nat /\ DOMAIN d.gl = 1..Len(d.gl)
    BY <1>1, SeqDomain
  <2>2. DOMAIN e.gl = 1..Len(d.gl) /\ e.gl = [i \in 1..Len(d.gl) |-> e.gl[i]]
    BY <1>0, <2>1
  <2>3. IsSeq(e.gl)
    BY ONLY <2>1, <2>2, SeqShape
  <2> QED
    BY <1>4, <2>1, <2>2, <2>3 DEF GLTyped, SameLines, Marked
<1> QED
  BY <1>1, <1>2, <1>3, <1>5, TurnedTallies

-----------------------------------------------------------------------------
(* The loops over accounts of the calendar procedures.                     *)

\* A row restarted from another beginning keeps its movements.
LEMMA RebasedTyped ==
  ASSUME NEW row \in TBRows, NEW b \in Int, NEW dirty \in BOOLEAN
  PROVE  /\ Rebased(row, b, dirty) \in TBRows
         /\ Rebased(row, b, dirty).debits = row.debits
         /\ Rebased(row, b, dirty).credits = row.credits
<1>1. row.debits \in Int /\ row.credits \in Int /\ row.yearend \in Int
  BY DEF TBRows
<1> QED
  BY <1>1, RowTyped DEF Rebased

\* A row without movements.
LEMMA StillRow ==
  ASSUME NEW b \in Int, NEW dirty \in BOOLEAN, NEW row, row = Row(b, 0, 0, 0, dirty)
  PROVE  row \in TBRows /\ row.debits = 0 /\ row.credits = 0
<1>1. 0 \in Int /\ b - 0 + 0 \in Int
  OBVIOUS
<1> QED
  BY <1>1 DEF Row, TBRows

\* An account's turn of closeAccountingPeriod.
LEMMA CloseAccountCarries ==
  ASSUME NEW d, Base(d), NEW k \in Keys, k[2] + 1 \in Slots
  PROVE  Carried(d, CloseAccount(d, k))
<1> DEFINE a == k[1]
           p == k[2]
           next == <<a, p + 1>>
           w == Write(d, k, Rebased(d.tb[k], d.tb[k].beginning, FALSE))
           settled == IF k \in DOMAIN d.tb THEN forwardUpdateTrialBalance(w, a, p)
                      ELSE Write(d, k, Row(0, 0, 0, 0, FALSE))
           ending == IF k \in DOMAIN d.tb
                     THEN d.tb[k].beginning - d.tb[k].debits + d.tb[k].credits ELSE 0
           carried == IF a \in RevExp /\ YearOf[p] # YearOf[p + 1] THEN 0 ELSE ending
           row == IF next \in DOMAIN settled.tb
                  THEN Rebased(settled.tb[next], carried + settled.tb[next].yearend,
                               settled.tb[next].dirty)
                  ELSE Row(carried, 0, 0, 0, TRUE)
<1>0. CloseAccount(d, k) = Write(settled, next, row)
  BY DEF CloseAccount
<1>1. a \in Accounts /\ p \in Slots /\ k = <<a, p>> /\ next \in Keys
  BY DEF Keys
<1>2. k \in DOMAIN d.tb => d.tb[k] \in TBRows
  BY DEF Base, TBTyped
<1> HIDE DEF a, p
<1>3. Carried(d, settled)
  <2>1. CASE k \in DOMAIN d.tb
    <3>1. d.tb[k].beginning \in Int
      BY <1>2, <2>1 DEF TBRows
    <3> DEFINE first == Rebased(d.tb[k], d.tb[k].beginning, FALSE)
    <3>2. /\ first \in TBRows /\ first.debits = d.tb[k].debits
          /\ first.credits = d.tb[k].credits
      BY <1>2, <2>1, <3>1, RebasedTyped
    <3>3. w = Write(d, k, first) /\ IsDB(d)
      BY DEF Base
    <3> HIDE DEF first, w
    <3>4. Carried(d, w)
      BY <2>1, <3>2, <3>3, WriteCarries
    <3>5. k \in DOMAIN w.tb
      BY ONLY <3>3, WriteTable
    <3>6. Carried(w, forwardUpdateTrialBalance(w, a, p))
      BY <1>1, <3>4, <3>5, CarriedFields, ForwardCarries
    <3>7. settled = forwardUpdateTrialBalance(w, a, p)
      BY <2>1
    <3> HIDE DEF settled
    <3> QED
      BY <3>4, <3>6, <3>7, CarriedTwice
  <2>2. CASE k \notin DOMAIN d.tb
    <3> DEFINE zero == Row(0, 0, 0, 0, FALSE)
    <3>1. zero \in TBRows /\ zero.debits = 0 /\ zero.credits = 0
      BY DEF Row, TBRows
    <3>2. settled = Write(d, k, zero)
      BY <2>2
    <3> HIDE DEF zero, settled
    <3> QED
      BY <2>2, <3>1, <3>2, WriteCarries
  <2> QED
    BY <2>1, <2>2
<1>4. carried \in Int
  <2>1. ending \in Int
    BY <1>2 DEF TBRows
  <2> HIDE DEF ending
  <2> QED
    BY <2>1
<1> HIDE DEF settled, carried, next
<1>5. Base(settled)
  BY <1>3, CarriedFields
<1>6. /\ row \in TBRows
      /\ next \in DOMAIN settled.tb => /\ row.debits = settled.tb[next].debits
                                       /\ row.credits = settled.tb[next].credits
      /\ next \notin DOMAIN settled.tb => row.debits = 0 /\ row.credits = 0
  <2>1. CASE next \in DOMAIN settled.tb
    <3> DEFINE old == settled.tb[next]
    <3>1. old \in TBRows
      BY <1>5, <2>1 DEF Base, TBTyped
    <3>2. old.yearend \in Int /\ old.dirty \in BOOLEAN
      BY <3>1 DEF TBRows
    <3>3. row = Rebased(old, carried + old.yearend, old.dirty)
      BY <2>1
    <3> HIDE DEF old, row
    <3>4. carried + old.yearend \in Int
      BY <1>4, <3>2
    <3>5. row \in TBRows /\ row.debits = old.debits /\ row.credits = old.credits
      BY <3>1, <3>2, <3>3, <3>4, RebasedTyped
    <3> QED
      BY <2>1, <3>5 DEF old
  <2>2. CASE next \notin DOMAIN settled.tb
    <3>1. row = Row(carried, 0, 0, 0, TRUE)
      BY <2>2
    <3> HIDE DEF row
    <3> QED
      BY <1>4, <2>2, <3>1, StillRow
  <2> QED
    BY <2>1, <2>2
<1> HIDE DEF row
<1>7. Carried(settled, Write(settled, next, row))
  BY <1>1, <1>5, <1>6, WriteCarries
<1> QED
  BY <1>0, <1>3, <1>7, CarriedTwice

\* The loop of closeAccountingPeriod over all accounts.
LEMMA CloseLoopCarries ==
  ASSUME NEW d, Base(d), NEW n, n \in Nat, NEW s, DOMAIN s = 1..n,
         \A i \in 1..n : s[i] \in Keys /\ s[i][2] + 1 \in Slots
  PROVE  Carried(d, CloseLoop(d, s))
<1>1. PICK g : /\ g[0] = d /\ \A i \in 1..n : g[i] = CloseAccount(g[i - 1], s[i])
               /\ CloseLoop(d, s) = g[n]
  BY ONLY n \in Nat, DOMAIN s = 1..n, CloseChain
<1> DEFINE Z == {i \in 0..n : Carried(d, g[i])}
<1>2. 0 \in Z
  BY <1>1, CarriedSelf
<1>3. ASSUME NEW i \in 1..n, i - 1 \in Z PROVE i \in Z
  <2> DEFINE c == g[i - 1]
             k == s[i]
  <2>1. Carried(d, c) /\ g[i] = CloseAccount(c, k) /\ k \in Keys /\ k[2] + 1 \in Slots
    BY <1>1, <1>3
  <2> HIDE DEF c, k
  <2>2. Carried(c, CloseAccount(c, k))
    BY <2>1, CarriedFields, CloseAccountCarries
  <2>3. Carried(d, g[i])
    BY <2>1, <2>2, CarriedTwice
  <2> QED
    BY <2>3
<1>4. n \in Z
  <2> HIDE DEF Z
  <2>1. \A i \in 0..n : i \in Z
    BY ONLY n \in Nat, <1>2, <1>3, Counting
  <2> QED
    BY <2>1
<1> QED
  BY <1>1, <1>4

\* The loop of createAccountingPeriod over accounts that have a row.
LEMMA ForwardLoopCarries ==
  ASSUME NEW d, Base(d), NEW n, n \in Nat, NEW s, DOMAIN s = 1..n,
         \A i \in 1..n : s[i] \in DOMAIN d.tb
  PROVE  Carried(d, ForwardLoop(d, s))
<1>1. PICK g : /\ g[0] = d /\ \A i \in 1..n : g[i] = ForwardRow(g[i - 1], s[i])
               /\ ForwardLoop(d, s) = g[n]
  BY ONLY n \in Nat, DOMAIN s = 1..n, ForwardChain
<1> DEFINE Z == {i \in 0..n : Carried(d, g[i])}
<1>2. 0 \in Z
  BY <1>1, CarriedSelf
<1>3. ASSUME NEW i \in 1..n, i - 1 \in Z PROVE i \in Z
  <2> DEFINE c == g[i - 1]
             k == s[i]
             a == k[1]
             p == k[2]
  <2>1. Carried(d, c) /\ g[i] = ForwardRow(c, k) /\ k \in DOMAIN d.tb
    BY <1>1, <1>3
  <2> HIDE DEF c, k
  <2>2. Base(c) /\ k \in DOMAIN c.tb /\ k \in Keys
    BY <2>1, CarriedFields DEF Carried, Base, TBTyped
  <2>3. a \in Accounts /\ p \in Slots /\ k = <<a, p>>
    BY <2>2 DEF Keys
  <2>4. g[i] = forwardUpdateTrialBalance(c, a, p)
    BY <2>1 DEF ForwardRow
  <2> HIDE DEF a, p
  <2>5. Carried(c, forwardUpdateTrialBalance(c, a, p))
    BY <2>2, <2>3, ForwardCarries
  <2>6. Carried(d, g[i])
    BY <2>1, <2>4, <2>5, CarriedTwice
  <2> QED
    BY <2>6
<1>4. n \in Z
  <2> HIDE DEF Z
  <2>1. \A i \in 0..n : i \in Z
    BY ONLY n \in Nat, <1>2, <1>3, Counting
  <2> QED
    BY <2>1
<1> QED
  BY <1>1, <1>4

\* The last period in which an account has a row.
LEMMA LastSlot ==
  ASSUME NEW S, S \subseteq Slots, S # {}
  PROVE  Max(S) \in S /\ Min(S) \in S
<1>1. NSlots \in Nat /\ Slots = 1..NSlots
  BY LedgerAssumption DEF Slots
<1>2. S \subseteq 1..NSlots /\ S \subseteq Nat
  BY <1>1
<1>3. PICK x \in S : \A y \in S : y <= x
  BY <1>1, <1>2, LargestNumber
<1>4. PICK z \in S : \A y \in S : z <= y
  BY <1>2, LeastNumber
<1>5. \A y \in S : x >= y
  BY <1>2, <1>3
<1> QED
  BY <1>4, <1>5 DEF Max, Min

-----------------------------------------------------------------------------
(* The books before and after a step.                                      *)

Books(d, n) == Ledger(d, n) /\ Tallied(d)

\* The tables by themselves, of sequences up to n.
GLOf(gl, n) == IsSeq(gl) /\ \A i \in DOMAIN gl : gl[i] \in
    [sequence : 1..n, accnt : Accounts, amount : Int, period : Slots,
     posted : BOOLEAN, deleted : BOOLEAN, rec : BOOLEAN]
SLOf(sl, n) == IsSeq(sl) /\ \A i \in DOMAIN sl : sl[i] \in
    [sequence : 1..n, accnt : Accounts, amount : Int, period : Slots,
     posted : BOOLEAN, glsequence : 0..n]
GSOf(gs, n) == IsSeq(gs) /\ \A i \in DOMAIN gs : gs[i] \in
    [sequence : 1..n, accnt : Accounts, amount : Int, period : Slots]
CalendarOf(d) == /\ d.periods \subseteq Slots /\ d.closed \subseteq d.periods
                 /\ d.frozen \subseteq d.periods /\ d.yearclosed \subseteq Years

LEMMA TypedParts ==
  \A d, n : Typed(d, n) <=> /\ IsDB(d) /\ GLOf(d.gl, n) /\ SLOf(d.sl, n) /\ GSOf(d.gs, n)
                            /\ d.ilp \subseteq 1..n /\ CalendarOf(d)
BY DEF Typed, GLOf, SLOf, GSOf, CalendarOf

\* Tables of sequences up to n are tables of sequences up to m.
LEMMA MoreSequences ==
  ASSUME NEW n \in Nat, NEW m \in Nat, n <= m
  PROVE  /\ \A gl : GLOf(gl, n) => GLOf(gl, m)
         /\ \A sl : SLOf(sl, n) => SLOf(sl, m)
         /\ \A gs : GSOf(gs, n) => GSOf(gs, m)
         /\ \A S : S \subseteq 1..n => S \subseteq 1..m
<1>1. 1..n \subseteq 1..m /\ 0..n \subseteq 0..m
  OBVIOUS
<1> DEFINE A == 1..n
           B == 1..m
           C == 0..n
           D == 0..m
<1>2. A \subseteq B /\ C \subseteq D
  BY <1>1
<1>3. /\ \A gl : GLOf(gl, n) => IsSeq(gl) /\ \A i \in DOMAIN gl : gl[i] \in
           [sequence : A, accnt : Accounts, amount : Int, period : Slots,
            posted : BOOLEAN, deleted : BOOLEAN, rec : BOOLEAN]
      /\ \A sl : SLOf(sl, n) => IsSeq(sl) /\ \A i \in DOMAIN sl : sl[i] \in
           [sequence : A, accnt : Accounts, amount : Int, period : Slots,
            posted : BOOLEAN, glsequence : C]
      /\ \A gs : GSOf(gs, n) => IsSeq(gs) /\ \A i \in DOMAIN gs : gs[i] \in
           [sequence : A, accnt : Accounts, amount : Int, period : Slots]
  BY DEF GLOf, SLOf, GSOf
<1>4. /\ \A gl : GLOf(gl, m) <=> IsSeq(gl) /\ \A i \in DOMAIN gl : gl[i] \in
           [sequence : B, accnt : Accounts, amount : Int, period : Slots,
            posted : BOOLEAN, deleted : BOOLEAN, rec : BOOLEAN]
      /\ \A sl : SLOf(sl, m) <=> IsSeq(sl) /\ \A i \in DOMAIN sl : sl[i] \in
           [sequence : B, accnt : Accounts, amount : Int, period : Slots,
            posted : BOOLEAN, glsequence : D]
      /\ \A gs : GSOf(gs, m) <=> IsSeq(gs) /\ \A i \in DOMAIN gs : gs[i] \in
           [sequence : B, accnt : Accounts, amount : Int, period : Slots]
  BY DEF GLOf, SLOf, GSOf
<1>5. \A S : S \subseteq A => S \subseteq B
  BY <1>2
<1>6. \A S : S \subseteq 1..n => S \subseteq 1..m
  BY <1>5
<1> HIDE DEF A, B, C, D
<1>7. \A gl : GLOf(gl, n) => GLOf(gl, m)
  <2> SUFFICES ASSUME NEW gl, GLOf(gl, n) PROVE GLOf(gl, m)
    OBVIOUS
  <2>1. ASSUME NEW i \in DOMAIN gl
        PROVE  gl[i] \in [sequence : B, accnt : Accounts, amount : Int, period : Slots,
                          posted : BOOLEAN, deleted : BOOLEAN, rec : BOOLEAN]
    BY <1>2, <1>3
  <2> QED
    BY <1>3, <1>4, <2>1
<1>8. \A sl : SLOf(sl, n) => SLOf(sl, m)
  <2> SUFFICES ASSUME NEW sl, SLOf(sl, n) PROVE SLOf(sl, m)
    OBVIOUS
  <2>1. ASSUME NEW i \in DOMAIN sl
        PROVE  sl[i] \in [sequence : B, accnt : Accounts, amount : Int, period : Slots,
                          posted : BOOLEAN, glsequence : D]
    BY <1>2, <1>3
  <2> QED
    BY <1>3, <1>4, <2>1
<1>9. \A gs : GSOf(gs, n) => GSOf(gs, m)
  <2> SUFFICES ASSUME NEW gs, GSOf(gs, n) PROVE GSOf(gs, m)
    OBVIOUS
  <2>1. ASSUME NEW i \in DOMAIN gs
        PROVE  gs[i] \in [sequence : B, accnt : Accounts, amount : Int, period : Slots]
    BY <1>2, <1>3
  <2> QED
    BY <1>3, <1>4, <2>1
<1> QED
  BY <1>6, <1>7, <1>8, <1>9

\* Posting starts from books whose waiting rows are linked.
LEMMA PostBooks ==
  ASSUME NEW d, NEW n \in Nat, NEW seqs, NEW priv \in BOOLEAN,
         Ready(d, n, seqs, priv), Tallied(d)
  PROVE  Books(postIntoTrialBalance(d, seqs, priv), n)
BY PostingLedger, PostingTally DEF Ready, Books

LEMMA BooksReady ==
  ASSUME NEW d, NEW n, Ledger(d, n), NEW seqs, NEW priv
  PROVE  Ready(d, n, seqs, priv)
BY DEF Ledger, Ready, OnePeriod, Linked

\* The rows that a posting procedure adds: of one sequence, and not posted.
Added(rows, q) ==
    IsSeq(rows) /\ \A i \in DOMAIN rows : /\ rows[i] \in LedgerRows
                                          /\ rows[i].sequence = q /\ Waits(rows[i])
Unused(gl, q) == \A j \in DOMAIN gl : gl[j].sequence # q

Balanced(rows) == Total(rows, DOMAIN rows) = 0

\* hl is gl with the rows, in some positions of its own.
Extended(gl, hl, rows) ==
    /\ DOMAIN gl \subseteq DOMAIN hl
    /\ \A i \in DOMAIN gl : hl[i] = gl[i]
    /\ \A i \in DOMAIN hl \ DOMAIN gl : \E j \in DOMAIN rows : hl[i] = rows[j]
    /\ \A T \in SUBSET DOMAIN gl : Total(hl, T) = Total(gl, T)

LEMMA AddedRows ==
  ASSUME NEW gl, GLTyped(gl), Whole(gl), NEW q \in Int, Unused(gl, q),
         NEW rows, Added(rows, q), Balanced(rows), NEW hl, hl = gl \o rows
  PROVE  GLTyped(hl) /\ Whole(hl) /\ Extended(gl, hl, rows)
<1>1. /\ IsSeq(hl) /\ DOMAIN hl = 1..(Len(gl) + Len(rows))
      /\ \A i \in 1..Len(gl) : hl[i] = gl[i]
      /\ \A i \in 1..Len(rows) : hl[Len(gl) + i] = rows[i]
      /\ Len(gl) \in Nat /\ DOMAIN gl = 1..Len(gl)
      /\ Len(rows) \in Nat /\ DOMAIN rows = 1..Len(rows)
  BY ConcatShape, SeqDomain DEF GLTyped, Added
<1>2. IsRows(gl) /\ IsRows(rows)
  BY RowsOfLedger DEF GLTyped, LedgerRows, IsRows, Added
<1>3. /\ \A T \in SUBSET DOMAIN gl : Total(hl, T) = Total(gl, T)
      /\ Total(hl, DOMAIN hl \ DOMAIN gl) = 0
  BY <1>2, TotalAppended DEF Balanced
<1>4. /\ DOMAIN gl \subseteq DOMAIN hl /\ \A i \in DOMAIN gl : hl[i] = gl[i]
  BY <1>1
<1>5. ASSUME NEW i \in DOMAIN hl \ DOMAIN gl
      PROVE  \E j \in DOMAIN rows : hl[i] = rows[j]
  <2>1. i - Len(gl) \in 1..Len(rows) /\ i = Len(gl) + (i - Len(gl))
    BY <1>1
  <2> QED
    BY <1>1, <2>1
<1>6. GLTyped(hl)
  BY <1>1, <1>4, <1>5 DEF GLTyped, Added
<1>7. ASSUME NEW i \in DOMAIN hl
      PROVE  /\ i \in DOMAIN gl => hl[i] = gl[i] /\ hl[i].sequence # q
             /\ i \notin DOMAIN gl => /\ hl[i].sequence = q /\ Waits(hl[i])
                                      /\ hl[i].posted \in BOOLEAN /\ hl[i].deleted \in BOOLEAN
  BY <1>4, <1>5, <1>6 DEF Added, Unused, GLTyped, LedgerRows
<1>8. ASSUME NEW x \in Int
      PROVE  Total(hl, OfSequence(hl, x)) = 0
  <2>1. CASE x = q
    <3>1. OfSequence(hl, x) = DOMAIN hl \ DOMAIN gl
      BY <1>7, <2>1 DEF OfSequence
    <3> QED
      BY <1>3, <3>1
  <2>2. CASE x # q
    <3>1. OfSequence(hl, x) = OfSequence(gl, x)
      BY <1>4, <1>7, <2>2 DEF OfSequence
    <3>2. OfSequence(gl, x) \in SUBSET DOMAIN gl
      BY DEF OfSequence
    <3>3. Total(hl, OfSequence(gl, x)) = Total(gl, OfSequence(gl, x))
      BY <1>3, <3>2
    <3>4. Total(gl, OfSequence(gl, x)) = 0
      BY DEF Whole
    <3> QED
      BY <3>1, <3>3, <3>4
  <2> QED
    BY <2>1, <2>2
<1>9. ASSUME NEW i \in DOMAIN hl, NEW j \in DOMAIN hl, hl[i].sequence = hl[j].sequence
      PROVE  hl[i].posted = hl[j].posted /\ hl[i].deleted = hl[j].deleted
  <2>1. CASE i \in DOMAIN gl
    <3>1. j \in DOMAIN gl
      BY <1>7, <1>9, <2>1
    <3> QED
      BY <1>4, <1>9, <2>1, <3>1 DEF Whole
  <2>2. CASE i \notin DOMAIN gl
    <3>1. j \notin DOMAIN gl
      BY <1>7, <1>9, <2>2
    <3>2. /\ ~hl[i].posted /\ ~hl[j].posted /\ ~hl[i].deleted /\ ~hl[j].deleted
          /\ hl[i].posted \in BOOLEAN /\ hl[i].deleted \in BOOLEAN
          /\ hl[j].posted \in BOOLEAN /\ hl[j].deleted \in BOOLEAN
      BY <1>7, <2>2, <3>1 DEF Waits
    <3> QED
      BY <3>2
  <2> QED
    BY <2>1, <2>2
<1>10. Whole(hl)
  BY <1>8, <1>9 DEF Whole
<1> QED
  BY <1>3, <1>4, <1>5, <1>6, <1>10 DEF Extended

\* Rows that are not posted count in no balance.
LEMMA AddedTally ==
  ASSUME NEW tb, NEW gl, TallyOf(tb, gl), NEW hl, DOMAIN gl \subseteq DOMAIN hl,
         \A i \in DOMAIN gl : hl[i] = gl[i],
         \A i \in DOMAIN hl \ DOMAIN gl : ~hl[i].posted,
         \A T \in SUBSET DOMAIN gl : Total(hl, T) = Total(gl, T)
  PROVE  TallyOf(tb, hl)
<1>1. ASSUME NEW k, NEW credit
      PROVE  CountedIn(hl, k, credit) = CountedIn(gl, k, credit)
  <2>1. CountedRows(hl, k, credit) = CountedRows(gl, k, credit)
    BY DEF CountedRows
  <2>2. CountedRows(gl, k, credit) \in SUBSET DOMAIN gl
    BY DEF CountedRows
  <2> QED
    BY <2>1, <2>2 DEF CountedIn
<1>2. ASSUME NEW k \in DOMAIN tb
      PROVE  tb[k].credits = CountedIn(hl, k, TRUE) /\ tb[k].debits = -CountedIn(hl, k, FALSE)
  <2>1. /\ CountedIn(hl, k, TRUE) = CountedIn(gl, k, TRUE)
        /\ CountedIn(hl, k, FALSE) = CountedIn(gl, k, FALSE)
    BY <1>1
  <2> QED
    BY <2>1 DEF TallyOf
<1>3. \A i \in DOMAIN hl : hl[i].posted => KeyOf(hl[i]) \in DOMAIN tb
  BY DEF TallyOf
<1> QED
  BY <1>2, <1>3 DEF TallyOf

\* What the books need of the tables outside the ledger, for sequences up to m.
Aside(d, m) == IsDB(d) /\ SLOf(d.sl, m) /\ GSOf(d.gs, m) /\ d.ilp \subseteq 1..m
SameBalances(d, e) ==
    /\ e.tb = d.tb /\ e.periods = d.periods /\ e.closed = d.closed /\ e.frozen = d.frozen
    /\ e.yearclosed = d.yearclosed
SameDate(rows) == \A i, j \in DOMAIN rows : rows[i].period = rows[j].period
AllPostable(d, rows, priv) == \A i \in DOMAIN rows : Postable(d, rows[i].period, priv)
FewerSeries(d, e, q) ==
    \A i \in DOMAIN e.gs : /\ e.gs[i].sequence # q
                           /\ \E j \in DOMAIN d.gs : e.gs[i].sequence = d.gs[j].sequence

\* The books with the rows of one more sequence, not posted yet.
LEMMA AddedBooks ==
  ASSUME NEW d, NEW n \in Nat, Books(d, n), NEW m \in Nat, n <= m,
         NEW q \in 1..m, Unused(d.gl, q), NEW rows, Added(rows, q),
         Balanced(rows),
         NEW e, Aside(e, m), SameBalances(d, e), FewerSeries(d, e, q), e.gl = d.gl \o rows
  PROVE  /\ Typed(e, m) /\ Whole(e.gl) /\ Fresh(e) /\ Tallied(e)
         /\ SameDate(rows) => OnePeriod(e.gl)
         /\ \A priv : AllPostable(e, rows, priv) => Linked(e, {q}, priv)
<1> DEFINE gl == d.gl
           hl == e.gl
<1>1. /\ Typed(d, n) /\ Whole(gl) /\ OnePeriod(gl) /\ Fresh(d) /\ Tallied(d) /\ GLTyped(gl)
      /\ GLOf(gl, n) /\ CalendarOf(d) /\ q \in Int
  BY TypedParts DEF Books, Ledger, Tallied
<1> HIDE DEF gl, hl
<1>2. /\ GLTyped(hl) /\ Whole(hl) /\ DOMAIN gl \subseteq DOMAIN hl
      /\ \A i \in DOMAIN gl : hl[i] = gl[i]
      /\ \A i \in DOMAIN hl \ DOMAIN gl : \E j \in DOMAIN rows : hl[i] = rows[j]
      /\ \A T \in SUBSET DOMAIN gl : Total(hl, T) = Total(gl, T)
  <2>1. /\ Unused(gl, q) /\ hl = gl \o rows /\ Added(rows, q)
        /\ Balanced(rows) /\ q \in Int /\ GLTyped(gl) /\ Whole(gl)
    BY <1>1 DEF gl, hl
  <2>2. GLTyped(hl) /\ Whole(hl) /\ Extended(gl, hl, rows)
    BY ONLY <2>1, AddedRows
  <2> QED
    BY <2>2 DEF Extended
<1>3. ASSUME NEW i \in DOMAIN hl \ DOMAIN gl
      PROVE  /\ hl[i] \in LedgerRows /\ hl[i].sequence = q /\ Waits(hl[i])
             /\ \E j \in DOMAIN rows : hl[i] = rows[j]
  BY <1>2 DEF Added
<1>4. GLOf(hl, m)
  <2>1. GLOf(gl, m)
    BY <1>1, MoreSequences
  <2>2. ASSUME NEW i \in DOMAIN hl
        PROVE  hl[i] \in [sequence : 1..m, accnt : Accounts, amount : Int, period : Slots,
                          posted : BOOLEAN, deleted : BOOLEAN, rec : BOOLEAN]
    <3>1. CASE i \in DOMAIN gl
      BY <1>2, <2>1, <3>1 DEF GLOf
    <3>2. CASE i \notin DOMAIN gl
      <4>1. hl[i] \in LedgerRows /\ hl[i].sequence \in 1..m
        BY <1>3, <3>2
      <4> QED
        BY ONLY <4>1 DEF LedgerRows
    <3> QED
      BY <3>1, <3>2
  <2> QED
    BY <1>2, <2>2 DEF GLOf, GLTyped
<1>5. Typed(e, m)
  <2>1. CalendarOf(e)
    BY <1>1 DEF CalendarOf, SameBalances
  <2> QED
    BY <1>4, <2>1, TypedParts DEF Aside, hl
<1>6. Fresh(e)
  <2> SUFFICES ASSUME NEW i \in DOMAIN e.gs, NEW j \in DOMAIN e.gl
               PROVE  e.gs[i].sequence # e.gl[j].sequence
    BY DEF Fresh
  <2>1. CASE j \in DOMAIN gl
    <3>1. PICK k \in DOMAIN d.gs : e.gs[i].sequence = d.gs[k].sequence
      BY DEF FewerSeries
    <3>2. d.gs[k].sequence # gl[j].sequence
      BY <1>1, <2>1 DEF Fresh, gl
    <3>3. hl[j] = gl[j]
      BY <1>2, <2>1
    <3> QED
      BY <3>1, <3>2, <3>3 DEF hl
  <2>2. CASE j \notin DOMAIN gl
    BY <1>3, <2>2 DEF FewerSeries, hl
  <2> QED
    BY <2>1, <2>2
<1>7. Tallied(e)
  <2>1. TallyOf(d.tb, gl) /\ IsDB(e) /\ TBTyped(d.tb) /\ d.periods \subseteq Slots
    BY <1>1 DEF Tallied, Base, Aside, gl
  <2>2. TallyOf(d.tb, hl)
    BY <1>2, <1>3, <2>1, AddedTally DEF Waits
  <2>3. IsRows(hl)
    BY <1>2, RowsOfLedger
  <2> QED
    BY <1>2, <2>1, <2>2, <2>3 DEF Tallied, Base, SameBalances, hl
<1>8. \A i \in DOMAIN gl : hl[i].sequence # q
  BY <1>2 DEF Unused, gl
<1>9. ASSUME SameDate(rows) PROVE OnePeriod(hl)
  <2> SUFFICES ASSUME NEW i \in DOMAIN hl, NEW j \in DOMAIN hl,
                      hl[i].sequence = hl[j].sequence, Waits(hl[i]), Waits(hl[j])
               PROVE  hl[i].period = hl[j].period
    BY DEF OnePeriod
  <2>1. CASE i \in DOMAIN gl
    <3>1. j \in DOMAIN gl
      BY <1>3, <1>8, <2>1
    <3> QED
      BY <1>1, <1>2, <2>1, <3>1 DEF OnePeriod
  <2>2. CASE i \notin DOMAIN gl
    <3>1. j \notin DOMAIN gl
      BY <1>3, <1>8, <2>2
    <3> QED
      BY <1>3, <1>9, <2>2, <3>1 DEF SameDate
  <2> QED
    BY <2>1, <2>2
<1>10. ASSUME NEW priv, AllPostable(e, rows, priv) PROVE Linked(e, {q}, priv)
  <2> SUFFICES ASSUME NEW i \in DOMAIN hl, NEW j \in DOMAIN hl,
                      hl[i].sequence = hl[j].sequence, Waits(hl[i]), Waits(hl[j])
               PROVE  \/ hl[i].period = hl[j].period
                      \/ /\ hl[i].sequence \in {q}
                         /\ Postable(e, hl[i].period, priv) /\ Postable(e, hl[j].period, priv)
    BY DEF Linked, hl
  <2>1. CASE i \in DOMAIN gl
    <3>1. j \in DOMAIN gl
      BY <1>3, <1>8, <2>1
    <3> QED
      BY <1>1, <1>2, <2>1, <3>1 DEF OnePeriod
  <2>2. CASE i \notin DOMAIN gl
    <3>1. j \notin DOMAIN gl
      BY <1>3, <1>8, <2>2
    <3> QED
      BY <1>3, <1>10, <2>2, <3>1 DEF AllPostable
  <2> QED
    BY <2>1, <2>2
<1> QED
  BY <1>2, <1>5, <1>6, <1>7, <1>9, <1>10 DEF hl

\* The books then posted.
LEMMA AddedPosted ==
  ASSUME NEW d, NEW n \in Nat, Books(d, n), NEW m \in Nat, n <= m,
         NEW q \in 1..m, Unused(d.gl, q), NEW rows, Added(rows, q),
         Balanced(rows),
         NEW e, Aside(e, m), SameBalances(d, e), FewerSeries(d, e, q), e.gl = d.gl \o rows,
         NEW priv \in BOOLEAN, SameDate(rows) \/ AllPostable(e, rows, priv)
  PROVE  Books(postIntoTrialBalance(e, {q}, priv), m)
<1>1. /\ Typed(e, m) /\ Whole(e.gl) /\ Fresh(e) /\ Tallied(e)
      /\ SameDate(rows) => OnePeriod(e.gl)
      /\ AllPostable(e, rows, priv) => Linked(e, {q}, priv)
  BY AddedBooks
<1>2. Linked(e, {q}, priv)
  <2>1. CASE SameDate(rows)
    BY <1>1, <2>1 DEF OnePeriod, Linked
  <2>2. CASE AllPostable(e, rows, priv)
    BY <1>1, <2>2
  <2> QED
    BY <2>1, <2>2
<1>3. Ready(e, m, {q}, priv)
  BY <1>1, <1>2 DEF Ready
<1> QED
  BY <1>1, <1>3, PostBooks

-----------------------------------------------------------------------------
(* The inductive invariant.                                                *)

BInv == sequence \in 0..MaxSequence /\ Books(DB, sequence)

\* Books depend on the tables only.
LEMMA SameTables ==
  ASSUME NEW d, NEW e, NEW n, Books(d, n), IsDB(e), SameBalances(d, e),
         e.gl = d.gl, e.sl = d.sl, e.gs = d.gs, e.ilp = d.ilp
  PROVE  Books(e, n)
<1>1. Typed(e, n)
  BY TypedParts DEF Books, Ledger, SameBalances, CalendarOf
<1>2. Whole(e.gl) /\ OnePeriod(e.gl) /\ Fresh(e)
  BY DEF Books, Ledger, Fresh
<1>3. Tallied(e)
  BY DEF Books, Tallied, Base, SameBalances
<1> QED
  BY <1>1, <1>2, <1>3 DEF Books, Ledger

LEMMA CommitBooks ==
  ASSUME NEW d, NEW n \in 0..MaxSequence, Books(d, n), Commit(d, n)
  PROVE  BInv'
<1>1. PICK e : e = DB'
  OBVIOUS
<1>2. /\ IsDB(e) /\ SameBalances(d, e)
      /\ e.gl = d.gl /\ e.sl = d.sl /\ e.gs = d.gs /\ e.ilp = d.ilp
  BY <1>1 DEF IsDB, SameBalances, DB, Commit
<1>3. Books(e, n)
  BY <1>2, SameTables
<1>4. sequence' = n
  BY DEF Commit
<1> QED
  BY <1>1, <1>3, <1>4 DEF BInv

LEMMA Now ==
  ASSUME BInv
  PROVE  /\ sequence \in Nat /\ sequence \in 0..MaxSequence /\ Books(DB, sequence)
         /\ IsDB(DB) /\ Aside(DB, sequence) /\ Base(DB) /\ GLTyped(gltrans)
         /\ IsRows(gltrans) /\ SLOf(sltrans, sequence) /\ GSOf(glseries, sequence)
         /\ DB.gl = gltrans /\ DB.sl = sltrans /\ DB.gs = glseries /\ DB.ilp = itemlocpost
         /\ DB.tb = trialbal /\ DB.periods = periods /\ DB.closed = closed
         /\ DB.frozen = frozen /\ DB.yearclosed = yearclosed /\ DB.raised = FALSE
<1>1. MaxSequence \in Nat
  BY LedgerAssumption
<1>2. sequence \in Nat /\ sequence \in 0..MaxSequence /\ Books(DB, sequence)
  BY <1>1 DEF BInv
<1>3. IsDB(DB) /\ Aside(DB, sequence) /\ Tallied(DB)
  BY <1>2, TypedParts DEF Books, Ledger, Aside
<1>4. /\ DB.gl = gltrans /\ DB.sl = sltrans /\ DB.gs = glseries /\ DB.ilp = itemlocpost
      /\ DB.tb = trialbal /\ DB.periods = periods /\ DB.closed = closed
      /\ DB.frozen = frozen /\ DB.yearclosed = yearclosed /\ DB.raised = FALSE
  BY DEF DB
<1>5. SLOf(sltrans, sequence) /\ GSOf(glseries, sequence) /\ GLTyped(gltrans) /\ Base(DB)
  BY <1>3, <1>4 DEF Aside, Tallied
<1> QED
  BY <1>2, <1>3, <1>4, <1>5, RowsOfLedger

\* A sequence just fetched is nowhere in the tables.
LEMMA NewSequence ==
  ASSUME BInv, CanFetch, NEW q, q = fetchGLSequence
  PROVE  /\ q \in Nat /\ q \in Int /\ q \in 1..q /\ sequence <= q /\ q \in 0..MaxSequence
         /\ Unused(gltrans, q) /\ Aside(DB, q) /\ FewerSeries(DB, DB, q)
         /\ SLOf(sltrans, q) /\ GSOf(glseries, q) /\ itemlocpost \subseteq 1..q
<1>1. MaxSequence \in Nat
  BY LedgerAssumption
<1>2. /\ sequence \in Nat /\ q = sequence + 1
  BY Now DEF fetchGLSequence
<1>3. q \in Nat /\ q \in Int /\ q \in 1..q /\ sequence <= q /\ q \in 0..MaxSequence
  BY <1>1, <1>2 DEF CanFetch
<1>4. \A x \in 1..sequence : x # q
  BY <1>2
<1>5. Unused(gltrans, q)
  <2>1. GLOf(gltrans, sequence)
    BY Now, TypedParts DEF Books, Ledger
  <2> QED
    BY <1>4, <2>1 DEF GLOf, Unused
<1>6. FewerSeries(DB, DB, q)
  BY <1>4, Now DEF GSOf, FewerSeries
<1>7. /\ SLOf(sltrans, q) /\ GSOf(glseries, q) /\ itemlocpost \subseteq 1..q
  BY <1>2, <1>3, Now, MoreSequences DEF Aside
<1>8. Aside(DB, q)
  BY <1>7, Now DEF Aside
<1> QED
  BY <1>3, <1>5, <1>6, <1>7, <1>8

\* A step that touches neither the ledger nor the balances.
LEMMA QuietBooks ==
  ASSUME NEW d, NEW n \in Nat, Books(d, n), NEW m \in Nat, n <= m,
         NEW e, Aside(e, m), SameBalances(d, e), e.gl = d.gl, Fresh(e)
  PROVE  Books(e, m)
<1>1. GLOf(d.gl, m) /\ CalendarOf(e)
  BY TypedParts, MoreSequences DEF Books, Ledger, CalendarOf, SameBalances
<1>2. Typed(e, m)
  BY <1>1, TypedParts DEF Aside
<1>3. Whole(e.gl) /\ OnePeriod(e.gl)
  BY DEF Books, Ledger
<1>4. Tallied(e)
  BY DEF Books, Tallied, Base, SameBalances, Aside
<1> QED
  BY <1>2, <1>3, <1>4 DEF Books, Ledger

\* The tables that the procedures replace before they post.
OtherThan(d, e, gl, sl, gs, ilp) ==
    /\ IsDB(e) /\ SameBalances(d, e)
    /\ e.gl = gl /\ e.sl = sl /\ e.gs = gs /\ e.ilp = ilp

LEMMA TablesReplaced ==
  ASSUME NEW d, IsDB(d), NEW gl, NEW sl, NEW gs, NEW ilp
  PROVE  /\ OtherThan(d, d, d.gl, d.sl, d.gs, d.ilp)
         /\ OtherThan(d, [d EXCEPT !.gl = gl], gl, d.sl, d.gs, d.ilp)
         /\ OtherThan(d, [d EXCEPT !.gl = gl, !.ilp = ilp], gl, d.sl, d.gs, ilp)
         /\ OtherThan(d, [d EXCEPT !.sl = sl], d.gl, sl, d.gs, d.ilp)
         /\ OtherThan(d, [d EXCEPT !.sl = sl, !.gl = gl], gl, sl, d.gs, d.ilp)
         /\ OtherThan(d, [d EXCEPT !.ilp = ilp], d.gl, d.sl, d.gs, ilp)
         /\ OtherThan(d, [d EXCEPT !.gs = gs], d.gl, d.sl, gs, d.ilp)
         /\ OtherThan(d, [d EXCEPT !.gs = gs, !.sl = sl], d.gl, sl, gs, d.ilp)
         /\ OtherThan(d, [d EXCEPT !.gs = gs, !.gl = gl], gl, d.sl, gs, d.ilp)
<1>1. OtherThan(d, d, d.gl, d.sl, d.gs, d.ilp)
  BY DEF IsDB, OtherThan, SameBalances
<1>2. OtherThan(d, [d EXCEPT !.gl = gl], gl, d.sl, d.gs, d.ilp)
  BY DEF IsDB, OtherThan, SameBalances
<1>3. OtherThan(d, [d EXCEPT !.gl = gl, !.ilp = ilp], gl, d.sl, d.gs, ilp)
  <2> DEFINE e == [d EXCEPT !.gl = gl, !.ilp = ilp]
  <2>1. e = [d EXCEPT !.gl = gl, !.ilp = ilp]
    OBVIOUS
  <2> HIDE DEF e
  <2>2. OtherThan(d, e, gl, d.sl, d.gs, ilp)
    BY <2>1 DEF IsDB, OtherThan, SameBalances
  <2> QED
    BY <2>2 DEF e
<1>4. OtherThan(d, [d EXCEPT !.sl = sl], d.gl, sl, d.gs, d.ilp)
  BY DEF IsDB, OtherThan, SameBalances
<1>5. OtherThan(d, [d EXCEPT !.sl = sl, !.gl = gl], gl, sl, d.gs, d.ilp)
  <2> DEFINE e == [d EXCEPT !.sl = sl, !.gl = gl]
  <2>1. e = [d EXCEPT !.sl = sl, !.gl = gl]
    OBVIOUS
  <2> HIDE DEF e
  <2>2. OtherThan(d, e, gl, sl, d.gs, d.ilp)
    BY <2>1 DEF IsDB, OtherThan, SameBalances
  <2> QED
    BY <2>2 DEF e
<1>6. OtherThan(d, [d EXCEPT !.ilp = ilp], d.gl, d.sl, d.gs, ilp)
  BY DEF IsDB, OtherThan, SameBalances
<1>7. OtherThan(d, [d EXCEPT !.gs = gs], d.gl, d.sl, gs, d.ilp)
  BY DEF IsDB, OtherThan, SameBalances
<1>8. OtherThan(d, [d EXCEPT !.gs = gs, !.sl = sl], d.gl, sl, gs, d.ilp)
  <2> DEFINE e == [d EXCEPT !.gs = gs, !.sl = sl]
  <2>1. e = [d EXCEPT !.gs = gs, !.sl = sl]
    OBVIOUS
  <2> HIDE DEF e
  <2>2. OtherThan(d, e, d.gl, sl, gs, d.ilp)
    BY <2>1 DEF IsDB, OtherThan, SameBalances
  <2> QED
    BY <2>2 DEF e
<1>9. OtherThan(d, [d EXCEPT !.gs = gs, !.gl = gl], gl, d.sl, gs, d.ilp)
  <2> DEFINE e == [d EXCEPT !.gs = gs, !.gl = gl]
  <2>1. e = [d EXCEPT !.gs = gs, !.gl = gl]
    OBVIOUS
  <2> HIDE DEF e
  <2>2. OtherThan(d, e, gl, d.sl, gs, d.ilp)
    BY <2>1 DEF IsDB, OtherThan, SameBalances
  <2> QED
    BY <2>2 DEF e
<1> QED
  BY <1>1, <1>2, <1>3, <1>4, <1>5, <1>6, <1>7, <1>8, <1>9

\* Appended journals.
LEMMA AppendedJournals ==
  ASSUME NEW sl, NEW m, SLOf(sl, m), NEW rows, SLOf(rows, m)
  PROVE  SLOf(sl \o rows, m)
<1> DEFINE hl == sl \o rows
<1>1. /\ IsSeq(hl) /\ DOMAIN hl = 1..(Len(sl) + Len(rows))
      /\ \A i \in 1..Len(sl) : hl[i] = sl[i]
      /\ \A i \in 1..Len(rows) : hl[Len(sl) + i] = rows[i]
      /\ Len(sl) \in Nat /\ DOMAIN sl = 1..Len(sl)
      /\ Len(rows) \in Nat /\ DOMAIN rows = 1..Len(rows)
  BY ConcatShape, SeqDomain DEF SLOf
<1> HIDE DEF hl
<1>2. ASSUME NEW i \in DOMAIN hl
      PROVE  (\E j \in DOMAIN sl : hl[i] = sl[j]) \/ (\E j \in DOMAIN rows : hl[i] = rows[j])
  <2>1. CASE i \in DOMAIN sl
    BY <1>1, <2>1
  <2>2. CASE i \notin DOMAIN sl
    <3>1. i - Len(sl) \in 1..Len(rows) /\ i = Len(sl) + (i - Len(sl))
      BY <1>1, <2>2
    <3> QED
      BY <1>1, <3>1
  <2> QED
    BY <2>1, <2>2
<1>3. SLOf(hl, m)
  BY <1>1, <1>2 DEF SLOf
<1> QED
  BY <1>3 DEF hl

LEMMA EntryBooks ==
  ASSUME BInv, NEW cr \in Accounts, NEW db \in Accounts, NEW amt \in Int, NEW p \in Slots,
         NEW post \in BOOLEAN, NEW onlyGL \in BOOLEAN, NEW priv \in BOOLEAN,
         InsertGLTransaction(cr, db, amt, p, post, onlyGL, priv)
  PROVE  BInv'
<1> DEFINE q == fetchGLSequence
           x == GLRow(q, cr, amt, p, FALSE)
           y == GLRow(q, db, -amt, p, FALSE)
           rows == <<x, y>>
           z == SLRow(q, cr, amt, p)
           w == SLRow(q, db, -amt, p)
           lines == <<z, w>>
           hl == DB.gl \o rows
           jl == DB.sl \o lines
           waits == DB.ilp \cup {q}
           e == [DB EXCEPT !.gl = hl]
           f == [DB EXCEPT !.gl = hl, !.ilp = waits]
           g == [DB EXCEPT !.sl = jl]
<1>1. CanFetch
  BY DEF InsertGLTransaction
<1>2. \/ Commit(g, q)
      \/ Commit(postIntoTrialBalance(e, {q}, priv), q)
      \/ Commit(f, q)
  <2>1. [e EXCEPT !.ilp = @ \cup {q}] = f
    BY DEF DB
  <2> QED
    BY <2>1 DEF InsertGLTransaction
<1>3. PICK k : k = q
  OBVIOUS
<1>4. /\ k \in Nat /\ k \in Int /\ k \in 1..k /\ sequence <= k /\ k \in 0..MaxSequence
      /\ Unused(gltrans, k) /\ Aside(DB, k) /\ FewerSeries(DB, DB, k)
      /\ SLOf(sltrans, k) /\ GSOf(glseries, k) /\ itemlocpost \subseteq 1..k
  BY <1>1, <1>3, NewSequence
<1>5. /\ x \in LedgerRows /\ x.sequence = k /\ Waits(x) /\ x.period = p /\ x.amount = amt
      /\ y \in LedgerRows /\ y.sequence = k /\ Waits(y) /\ y.period = p /\ y.amount = -amt
  BY <1>3, <1>4 DEF GLRow, LedgerRows, Waits
<1>6. z \in [sequence : 1..k, accnt : Accounts, amount : Int, period : Slots,
             posted : BOOLEAN, glsequence : 0..k]
      /\ w \in [sequence : 1..k, accnt : Accounts, amount : Int, period : Slots,
                posted : BOOLEAN, glsequence : 0..k]
  BY <1>3, <1>4 DEF SLRow
<1> HIDE DEF x, y, z, w
<1>7. /\ IsSeq(rows) /\ DOMAIN rows = 1..2 /\ rows[1] = x /\ rows[2] = y
      /\ IsSeq(lines) /\ DOMAIN lines = 1..2 /\ lines[1] = z /\ lines[2] = w
  BY PairShape
<1>8. Balanced(rows)
  BY <1>5, TotalPair DEF Balanced
<1> HIDE DEF rows, lines
<1>9. Added(rows, k) /\ SameDate(rows)
  <2>1. ASSUME NEW i \in DOMAIN rows PROVE rows[i] = x \/ rows[i] = y
    BY <1>7
  <2> QED
    BY <1>5, <1>7, <2>1 DEF Added, SameDate
<1>10. /\ OtherThan(DB, e, hl, sltrans, glseries, itemlocpost)
       /\ OtherThan(DB, f, hl, sltrans, glseries, waits)
       /\ OtherThan(DB, g, gltrans, jl, glseries, itemlocpost)
  <2>1. /\ IsDB(DB) /\ DB.gl = gltrans /\ DB.sl = sltrans /\ DB.gs = glseries
        /\ DB.ilp = itemlocpost
    BY Now
  <2> HIDE DEF q, hl, jl, waits, e, f, g
  <2>2. /\ OtherThan(DB, e, hl, DB.sl, DB.gs, DB.ilp)
        /\ OtherThan(DB, f, hl, DB.sl, DB.gs, waits)
        /\ OtherThan(DB, g, DB.gl, jl, DB.gs, DB.ilp)
    BY <2>1, TablesReplaced, Zenon DEF e, f, g
  <2> QED
    BY <2>1, <2>2
<1>11. SLOf(lines, k)
  <2>1. ASSUME NEW i \in DOMAIN lines PROVE lines[i] = z \/ lines[i] = w
    BY <1>7
  <2> QED
    BY <1>6, <1>7, <2>1 DEF SLOf
<1>12. /\ sequence \in Nat /\ Books(DB, sequence)
       /\ DB.gl = gltrans /\ DB.gs = glseries
       /\ hl = gltrans \o rows /\ jl = sltrans \o lines /\ waits = itemlocpost \cup {q}
  BY Now
<1> HIDE DEF e, f, g, q, hl, jl, waits
<1>13. CASE Commit(postIntoTrialBalance(e, {q}, priv), q)
  <2>1. Aside(e, k) /\ FewerSeries(DB, e, k)
    BY <1>4, <1>10, <1>12 DEF Aside, FewerSeries, OtherThan
  <2>2. Unused(DB.gl, k) /\ e.gl = DB.gl \o rows /\ SameBalances(DB, e)
    BY <1>4, <1>10, <1>12 DEF OtherThan
  <2>3. Books(postIntoTrialBalance(e, {k}, priv), k)
    BY <1>4, <1>8, <1>9, <1>12, <2>1, <2>2, AddedPosted
  <2> QED
    BY <1>3, <1>4, <1>13, <2>3, CommitBooks
<1>14. CASE Commit(f, q)
  <2>1. Aside(f, k) /\ FewerSeries(DB, f, k)
    BY <1>3, <1>4, <1>10, <1>12 DEF Aside, FewerSeries, OtherThan
  <2>2. Unused(DB.gl, k) /\ f.gl = DB.gl \o rows /\ SameBalances(DB, f)
    BY <1>4, <1>10, <1>12 DEF OtherThan
  <2>3. Books(f, k)
    BY <1>4, <1>8, <1>9, <1>12, <2>1, <2>2, AddedBooks DEF Books, Ledger
  <2> QED
    BY <1>3, <1>4, <1>14, <2>3, CommitBooks
<1>15. CASE Commit(g, q)
  <2>1. SLOf(g.sl, k)
    BY <1>4, <1>10, <1>11, <1>12, AppendedJournals DEF OtherThan
  <2>2. Aside(g, k) /\ Fresh(g) /\ g.gl = DB.gl /\ SameBalances(DB, g)
    BY <1>4, <1>10, <1>12, <2>1 DEF Aside, Fresh, Books, Ledger, OtherThan
  <2>3. Books(g, k)
    BY <1>4, <1>12, <2>2, QuietBooks
  <2> QED
    BY <1>3, <1>4, <1>15, <2>3, CommitBooks
<1> QED
  BY <1>2, <1>13, <1>14, <1>15

\* Posting books, and committing them.
LEMMA PostedBooks ==
  ASSUME NEW d, NEW n \in 0..MaxSequence, Books(d, n), NEW seqs, NEW priv \in BOOLEAN,
         Commit(postIntoTrialBalance(d, seqs, priv), n)
  PROVE  BInv'
<1>1. n \in Nat /\ Ledger(d, n) /\ Tallied(d)
  BY LedgerAssumption DEF Books
<1>2. Books(postIntoTrialBalance(d, seqs, priv), n)
  BY <1>1, BooksReady, PostBooks
<1> QED
  BY <1>2, CommitBooks

LEMMA DistributionBooks ==
  ASSUME BInv, Distribution
  PROVE  BInv'
<1>1. PICK seq \in itemlocpost : \/ \E priv \in BOOLEAN : PostItemLocSeries(seq, priv)
                                 \/ DeleteItemLocSeries(seq)
  BY DEF Distribution
<1> DEFINE waits == DB.ilp \ {seq}
           e == [DB EXCEPT !.ilp = waits]
<1>2. OtherThan(DB, e, gltrans, sltrans, glseries, waits)
  <2> HIDE DEF waits
  <2> QED
    BY Now, TablesReplaced, Zenon
<1>3. \/ \E priv \in BOOLEAN : Commit(postIntoTrialBalance(e, {seq}, priv), sequence)
      \/ Commit(e, sequence)
  BY <1>1 DEF PostItemLocSeries, DeleteItemLocSeries
<1>4. waits \subseteq 1..sequence
  BY Now DEF Aside
<1> HIDE DEF e, waits
<1>5. /\ sequence \in Nat /\ sequence <= sequence /\ sequence \in 0..MaxSequence
      /\ Books(DB, sequence)
  BY Now
<1>6. Aside(e, sequence) /\ SameBalances(DB, e) /\ e.gl = DB.gl /\ Fresh(e)
  BY <1>2, <1>4, <1>5, Now DEF OtherThan, Aside, Fresh, Books, Ledger
<1>7. Books(e, sequence)
  BY <1>5, <1>6, QuietBooks
<1> QED
  BY <1>3, <1>5, <1>7, CommitBooks, PostedBooks

\* The chosen rows are rows of the sequence.
LEMMA ChosenRows ==
  ASSUME NEW s, IsSeq(s), NEW ids, ids \subseteq DOMAIN s
  PROVE  /\ IsSeq(Chosen(s, ids))
         /\ \A i \in DOMAIN Chosen(s, ids) : \E j \in ids : Chosen(s, ids)[i] = s[j]
<1> DEFINE n == Cardinality(ids)
           order == InSequence(ids)
<1>1. n \in Nat /\ IsSeq(Chosen(s, ids)) /\ DOMAIN Chosen(s, ids) = 1..n
  BY ChosenShape
<1>2. DOMAIN order = 1..n /\ \A i \in 1..n : order[i] \in ids
  BY OrderOf
<1>3. \A i \in 1..n : Chosen(s, ids)[i] = s[order[i]]
  BY DEF Chosen
<1> HIDE DEF n, order
<1> QED
  BY <1>1, <1>2, <1>3

LEMMA SeriesButRows ==
  ASSUME BInv, NEW seq, NEW gs, gs = SeriesBut(seq)
  PROVE  /\ GSOf(gs, sequence)
         /\ \A i \in DOMAIN gs : /\ gs[i].sequence # seq
                                 /\ \E j \in DOMAIN glseries : gs[i] = glseries[j]
<1> DEFINE ids == {i \in DOMAIN glseries : glseries[i].sequence # seq}
<1>1. GSOf(glseries, sequence) /\ IsSeq(glseries)
  BY Now DEF GSOf
<1>2. gs = Chosen(glseries, ids) /\ ids \subseteq DOMAIN glseries
  BY DEF SeriesBut
<1>3. \A j \in ids : j \in DOMAIN glseries /\ glseries[j].sequence # seq
  OBVIOUS
<1> HIDE DEF ids
<1>4. IsSeq(gs) /\ \A i \in DOMAIN gs : \E j \in ids : gs[i] = glseries[j]
  BY <1>1, <1>2, ChosenRows
<1> QED
  BY <1>1, <1>3, <1>4 DEF GSOf

LEMMA DropSeriesBooks ==
  ASSUME BInv, NEW seq, DropGLSeries(seq)
  PROVE  BInv'
<1> DEFINE gs == SeriesBut(seq)
           e == [DB EXCEPT !.gs = gs]
<1>1. Commit(e, sequence)
  BY DEF DropGLSeries
<1>2. /\ GSOf(gs, sequence)
      /\ \A i \in DOMAIN gs : \E j \in DOMAIN glseries : gs[i] = glseries[j]
  BY SeriesButRows
<1> HIDE DEF gs
<1>3. OtherThan(DB, e, gltrans, sltrans, gs, itemlocpost)
  BY Now, TablesReplaced, Zenon
<1> HIDE DEF e
<1>4. /\ sequence \in Nat /\ sequence <= sequence /\ sequence \in 0..MaxSequence
      /\ Books(DB, sequence)
  BY Now
<1>5. Aside(e, sequence) /\ SameBalances(DB, e) /\ e.gl = DB.gl
  BY <1>2, <1>3, Now DEF OtherThan, Aside
<1>6. Fresh(e)
  BY <1>2, <1>3, <1>4, Now DEF OtherThan, Fresh, Books, Ledger
<1>7. Books(e, sequence)
  BY <1>4, <1>5, <1>6, QuietBooks
<1> QED
  BY <1>1, <1>4, <1>7, CommitBooks

LEMMA InsertSeriesBooks ==
  ASSUME BInv, NEW seq \in 1..MaxSequence, NEW a \in Accounts, NEW amt \in Int,
         NEW p \in Slots, NEW priv, InsertIntoGLSeries(seq, a, amt, p, priv)
  PROVE  BInv'
<1> DEFINE row == [sequence |-> seq, accnt |-> a, amount |-> amt, period |-> p]
           gs == Append(DB.gs, row)
           e == [DB EXCEPT !.gs = gs]
           m == IF seq \in OpenSeries THEN sequence ELSE seq
<1>1. Commit(e, m)
  BY DEF InsertIntoGLSeries
<1>2. /\ m \in Nat /\ sequence <= m /\ m \in 0..MaxSequence /\ seq \in 1..m
      /\ GSOf(glseries, m) /\ Aside(DB, m) /\ Unused(gltrans, seq)
  <2>1. CASE seq \in OpenSeries
    <3>1. PICK i \in DOMAIN glseries : glseries[i].sequence = seq
      BY <2>1 DEF OpenSeries
    <3>2. seq \in 1..sequence
      BY <3>1, Now DEF GSOf
    <3>3. Unused(gltrans, seq)
      BY <3>1, Now DEF Books, Ledger, Fresh, Unused
    <3> QED
      BY <2>1, <3>2, <3>3, Now
  <2>2. CASE seq \notin OpenSeries
    <3>1. CanFetch /\ seq = fetchGLSequence
      BY <2>2 DEF InsertIntoGLSeries
    <3> QED
      BY <2>2, <3>1, NewSequence
  <2> QED
    BY <2>1, <2>2
<1>3. /\ row \in [sequence : 1..m, accnt : Accounts, amount : Int, period : Slots]
      /\ row.sequence = seq
  BY <1>2
<1> HIDE DEF row, m
<1>4. gs = Append(glseries, row)
  BY Now
<1>5. GSOf(gs, m) /\ \A i \in DOMAIN gs : gs[i] = row \/ \E j \in DOMAIN glseries : gs[i] = glseries[j]
  <2>1. IsSeq(glseries) /\ IsSeq(gs)
    BY <1>2, <1>4, AppendShape DEF GSOf
  <2>2. Len(glseries) \in Nat /\ DOMAIN glseries = 1..Len(glseries)
    BY <2>1, SeqDomain
  <2> DEFINE R == {glseries[i] : i \in DOMAIN glseries}
  <2>3. glseries \in Seq(R)
    BY <2>1 DEF IsSeq
  <2> HIDE DEF R
  <2>4. glseries \in Seq(R \cup {row}) /\ row \in R \cup {row}
    BY <2>3
  <2>5. /\ DOMAIN gs = 1..(Len(glseries) + 1)
        /\ \A i \in 1..Len(glseries) : gs[i] = glseries[i]
        /\ gs[Len(glseries) + 1] = row
    BY ONLY <1>4, <2>4
  <2>6. \A i \in DOMAIN gs : gs[i] = row \/ \E j \in DOMAIN glseries : gs[i] = glseries[j]
    <3> SUFFICES ASSUME NEW i \in DOMAIN gs
                 PROVE  gs[i] = row \/ \E j \in DOMAIN glseries : gs[i] = glseries[j]
      OBVIOUS
    <3>1. i = Len(glseries) + 1 \/ i \in 1..Len(glseries)
      BY <2>2, <2>5
    <3> QED
      BY <2>2, <2>5, <3>1
  <2> HIDE DEF gs
  <2> QED
    BY <1>2, <1>3, <2>1, <2>6 DEF GSOf
<1> HIDE DEF gs
<1>6. OtherThan(DB, e, gltrans, sltrans, gs, itemlocpost)
  BY Now, TablesReplaced, Zenon
<1> HIDE DEF e
<1>7. sequence \in Nat /\ Books(DB, sequence)
  BY Now
<1>8. Aside(e, m) /\ SameBalances(DB, e) /\ e.gl = DB.gl
  BY <1>2, <1>5, <1>6, Now DEF OtherThan, Aside
<1>9. Fresh(e)
  BY <1>2, <1>3, <1>5, <1>6, <1>7, Now DEF OtherThan, Fresh, Books, Ledger, Unused
<1>10. Books(e, m)
  BY <1>2, <1>7, <1>8, <1>9, QuietBooks
<1> QED
  BY <1>1, <1>2, <1>10, CommitBooks

\* Rows of an account, an amount and a period, as the posting procedures
\* take them.
EntryRows(rows) ==
    IsRows(rows) /\ \A i \in DOMAIN rows : rows[i].accnt \in Accounts /\ rows[i].period \in Slots

\* The ledger rows and the journals made of them.
LedgerOf(rows, q, rec) ==
    [i \in DOMAIN rows |-> GLRow(q, rows[i].accnt, rows[i].amount, rows[i].period, rec)]
JournalsOf(rows, q) ==
    [i \in DOMAIN rows |-> SLRow(q, rows[i].accnt, rows[i].amount, rows[i].period)]

LEMMA LedgerMade ==
  ASSUME NEW rows, EntryRows(rows), NEW q \in Int, NEW rec \in BOOLEAN,
         NEW gl, gl = LedgerOf(rows, q, rec)
  PROVE  /\ Added(gl, q) /\ DOMAIN gl = DOMAIN rows
         /\ Total(gl, DOMAIN gl) = Total(rows, DOMAIN rows)
         /\ \A i \in DOMAIN gl : gl[i].period = rows[i].period
<1>1. Len(rows) \in Nat /\ DOMAIN rows = 1..Len(rows)
  BY SeqDomain DEF EntryRows, IsRows
<1>2. DOMAIN gl = 1..Len(rows) /\ gl = [i \in 1..Len(rows) |-> gl[i]]
  BY <1>1 DEF LedgerOf
<1>3. IsSeq(gl)
  BY ONLY <1>1, <1>2, SeqShape
<1>4. ASSUME NEW i \in DOMAIN gl
      PROVE  /\ gl[i] \in LedgerRows /\ gl[i].sequence = q /\ Waits(gl[i])
             /\ gl[i].amount = rows[i].amount /\ gl[i].period = rows[i].period
  <2>1. /\ rows[i].accnt \in Accounts /\ rows[i].amount \in Int /\ rows[i].period \in Slots
        /\ gl[i] = GLRow(q, rows[i].accnt, rows[i].amount, rows[i].period, rec)
    BY <1>1, <1>2 DEF EntryRows, IsRows, LedgerOf
  <2> QED
    BY <2>1 DEF GLRow, LedgerRows, Waits
<1>5. DOMAIN gl = DOMAIN rows
  BY <1>1, <1>2
<1>6. AmountsOf(gl) = AmountsOf(rows)
  <2> QED
    BY <1>4, <1>5 DEF AmountsOf
<1>7. Total(gl, DOMAIN gl) = Total(rows, DOMAIN rows)
  BY <1>5, <1>6 DEF Total
<1> QED
  BY <1>3, <1>4, <1>5, <1>7 DEF Added

LEMMA JournalsMade ==
  ASSUME NEW rows, EntryRows(rows), NEW m \in Nat, NEW q \in 1..m,
         NEW sl, sl = JournalsOf(rows, q)
  PROVE  SLOf(sl, m)
<1>1. Len(rows) \in Nat /\ DOMAIN rows = 1..Len(rows)
  BY SeqDomain DEF EntryRows, IsRows
<1>2. DOMAIN sl = 1..Len(rows) /\ sl = [i \in 1..Len(rows) |-> sl[i]]
  BY <1>1 DEF JournalsOf
<1>3. IsSeq(sl)
  BY ONLY <1>1, <1>2, SeqShape
<1>4. ASSUME NEW i \in DOMAIN sl
      PROVE  sl[i] \in [sequence : 1..m, accnt : Accounts, amount : Int, period : Slots,
                        posted : BOOLEAN, glsequence : 0..m]
  <2>1. /\ rows[i].accnt \in Accounts /\ rows[i].amount \in Int /\ rows[i].period \in Slots
        /\ sl[i] = SLRow(q, rows[i].accnt, rows[i].amount, rows[i].period)
    BY <1>1, <1>2 DEF EntryRows, IsRows, JournalsOf
  <2>2. 0 \in 0..m /\ q \in 1..m
    OBVIOUS
  <2> QED
    BY <2>1, <2>2 DEF SLRow
<1> QED
  BY <1>3, <1>4 DEF SLOf

\* The end both series posters share.
LEMMA PostedSeriesBooks ==
  ASSUME BInv, NEW seq \in OpenSeries, NEW rows, EntryRows(rows), Balanced(rows),
         NEW priv \in BOOLEAN, AllPostable(DB, rows, priv),
         Commit(PostedSeries(seq, rows, priv), sequence)
  PROVE  BInv'
<1> DEFINE gs == SeriesBut(seq)
           d == [DB EXCEPT !.gs = gs]
           lines == JournalsOf(rows, seq)
           new == LedgerOf(rows, seq, FALSE)
           jl == d.sl \o lines
           hl == d.gl \o new
           e == [d EXCEPT !.gl = hl]
           f == [d EXCEPT !.sl = jl]
<1>1. PostedSeries(seq, rows, priv) = IF UseJournals
                                      THEN postIntoTrialBalance(f, {seq}, priv)
                                      ELSE postIntoTrialBalance(e, {seq}, priv)
  BY DEF PostedSeries, JournalsOf, LedgerOf
<1>2. /\ GSOf(gs, sequence)
      /\ \A i \in DOMAIN gs : /\ gs[i].sequence # seq
                              /\ \E j \in DOMAIN glseries : gs[i] = glseries[j]
  BY SeriesButRows
<1> HIDE DEF gs
<1>3. OtherThan(DB, d, gltrans, sltrans, gs, itemlocpost)
  BY Now, TablesReplaced, Zenon
<1> HIDE DEF d, jl, hl, lines, new
<1>4. /\ OtherThan(d, e, hl, sltrans, gs, itemlocpost)
      /\ OtherThan(d, f, gltrans, jl, gs, itemlocpost)
      /\ hl = gltrans \o new /\ jl = sltrans \o lines
  <2>1. /\ IsDB(d) /\ d.gl = gltrans /\ d.sl = sltrans /\ d.gs = gs /\ d.ilp = itemlocpost
    BY <1>3 DEF OtherThan
  <2>2. /\ OtherThan(d, e, hl, d.sl, d.gs, d.ilp)
        /\ OtherThan(d, f, d.gl, jl, d.gs, d.ilp)
    BY <2>1, TablesReplaced, Zenon
  <2> QED
    BY <2>1, <2>2 DEF hl, jl
<1> HIDE DEF e, f
<1>5. /\ sequence \in Nat /\ sequence <= sequence /\ sequence \in 0..MaxSequence
      /\ Books(DB, sequence) /\ DB.gl = gltrans
  BY Now
<1>6. seq \in 1..sequence /\ Unused(gltrans, seq)
  <2>1. PICK i \in DOMAIN glseries : glseries[i].sequence = seq
    BY DEF OpenSeries
  <2> QED
    BY <2>1, Now DEF GSOf, Books, Ledger, Fresh, Unused
<1>7. CASE UseJournals
  <2>1. SLOf(jl, sequence)
    <3>1. SLOf(lines, sequence)
      BY <1>5, <1>6, JournalsMade DEF lines
    <3> QED
      BY <1>4, <3>1, Now, AppendedJournals
  <2>2. /\ Aside(f, sequence) /\ SameBalances(DB, f) /\ f.gl = DB.gl
    BY <1>2, <1>3, <1>4, <1>5, <2>1, Now DEF OtherThan, SameBalances, Aside
  <2>3. Fresh(f)
    BY <1>2, <1>4, <1>5, Now DEF OtherThan, Fresh, Books, Ledger
  <2>4. Books(f, sequence)
    BY <1>5, <2>2, <2>3, QuietBooks
  <2>5. Commit(postIntoTrialBalance(f, {seq}, priv), sequence)
    BY <1>1, <1>7
  <2> QED
    BY <1>5, <2>4, <2>5, PostedBooks
<1>8. CASE ~UseJournals
  <2>1. /\ Added(new, seq) /\ DOMAIN new = DOMAIN rows
        /\ Total(new, DOMAIN new) = Total(rows, DOMAIN rows)
        /\ \A i \in DOMAIN new : new[i].period = rows[i].period
    <3> DEFINE rec == FALSE
    <3>1. rec \in BOOLEAN /\ new = LedgerOf(rows, seq, rec) /\ EntryRows(rows)
      BY DEF new
    <3>2. seq \in Int
      BY <1>5, <1>6
    <3> HIDE DEF rec
    <3> QED
      BY ONLY <3>1, <3>2, LedgerMade
  <2>2. Balanced(new)
    BY <2>1 DEF Balanced
  <2>3. /\ Aside(e, sequence) /\ SameBalances(DB, e) /\ e.gl = DB.gl \o new
    BY <1>2, <1>3, <1>4, <1>5, Now DEF OtherThan, SameBalances, Aside
  <2>4. FewerSeries(DB, e, seq)
    BY <1>2, <1>4, Now DEF FewerSeries, OtherThan
  <2>5. AllPostable(e, new, priv)
    BY <2>1, <2>3 DEF AllPostable, Postable, SameBalances
  <2>6. Unused(DB.gl, seq)
    BY <1>5, <1>6
  <2>7. Books(postIntoTrialBalance(e, {seq}, priv), sequence)
    BY <1>5, <1>6, <2>1, <2>2, <2>3, <2>4, <2>5, <2>6, AddedPosted
  <2>8. Commit(postIntoTrialBalance(e, {seq}, priv), sequence)
    BY <1>1, <1>8
  <2> QED
    BY <1>5, <2>7, <2>8, CommitBooks
<1> QED
  BY <1>7, <1>8

\* postGLSeriesNoSumm: the rows with an amount, which balance.
SumOfRows(s) == SumOf(s, EveryRow)

LEMMA SumOfRowsIs == \A s : SumOfRows(s) = Total(s, DOMAIN s)
BY TotalOfAll DEF SumOfRows

LEMMA SeriesEntries ==
  ASSUME BInv, NEW seq, NEW s, s = SeriesOf(seq)
  PROVE  /\ EntryRows(s) /\ IsSeq(s)
         /\ \A i \in DOMAIN s : s[i] \in
              [sequence : 1..sequence, accnt : Accounts, amount : Int, period : Slots]
         /\ \A i \in DOMAIN s : s[i].sequence = seq
<1> DEFINE ids == {i \in DOMAIN glseries : glseries[i].sequence = seq}
<1>1. GSOf(glseries, sequence) /\ IsSeq(glseries)
  BY Now DEF GSOf
<1>2. s = Chosen(glseries, ids) /\ ids \subseteq DOMAIN glseries
  BY DEF SeriesOf
<1>3. \A j \in ids : j \in DOMAIN glseries /\ glseries[j].sequence = seq
  OBVIOUS
<1> HIDE DEF ids
<1>4. IsSeq(s) /\ \A i \in DOMAIN s : \E j \in ids : s[i] = glseries[j]
  BY <1>1, <1>2, ChosenRows
<1>5. \A i \in DOMAIN s : /\ s[i].sequence = seq
                           /\ s[i] \in [sequence : 1..sequence, accnt : Accounts,
                                        amount : Int, period : Slots]
  BY <1>1, <1>3, <1>4 DEF GSOf
<1>6. \A i \in DOMAIN s : /\ s[i].accnt \in Accounts /\ s[i].amount \in Int
                           /\ s[i].period \in Slots
  BY <1>5
<1> QED
  BY <1>4, <1>5, <1>6 DEF EntryRows, IsRows

LEMMA NonZeroRows ==
  ASSUME NEW s, IsSeq(s), NEW t, t = NonZero(s)
  PROVE  \A i \in DOMAIN t : \E j \in DOMAIN s : t[i] = s[j]
<1> DEFINE ids == {i \in DOMAIN s : s[i].amount # 0}
<1>1. t = Chosen(s, ids) /\ ids \subseteq DOMAIN s
  BY DEF NonZero
<1> HIDE DEF ids
<1> QED
  BY <1>1, ChosenRows

LEMMA NoSummBooks ==
  ASSUME BInv, NEW seq \in OpenSeries, NEW priv \in BOOLEAN, PostGLSeriesNoSumm(seq, priv)
  PROVE  BInv'
<1> DEFINE s == SeriesOf(seq)
           rows == NonZero(s)
<1>1. /\ SumOfRows(rows) = 0 /\ AllPostable(DB, rows, priv)
      /\ Commit(PostedSeries(seq, rows, priv), sequence)
  BY DEF PostGLSeriesNoSumm, SumOfRows, AllPostable
<1>2. EntryRows(s) /\ IsSeq(s) /\ IsRows(s)
  BY SeriesEntries DEF EntryRows
<1> HIDE DEF s
<1>3. IsRows(rows) /\ \A i \in DOMAIN rows : \E j \in DOMAIN s : rows[i] = s[j]
  BY <1>2, TotalNonZero, NonZeroRows
<1> HIDE DEF rows
<1>4. EntryRows(rows)
  BY <1>2, <1>3 DEF EntryRows
<1>5. Balanced(rows)
  BY <1>1, SumOfRowsIs DEF Balanced
<1> QED
  BY <1>1, <1>4, <1>5, PostedSeriesBooks

\* A row appended to others.
GrownBy(t, s, x) ==
    /\ IsRows(t)
    /\ \A i \in DOMAIN t : t[i] = x \/ \E j \in DOMAIN s : t[i] = s[j]
    /\ Total(t, DOMAIN t) = Total(s, DOMAIN s) + x.amount

LEMMA TotalWithOne ==
  ASSUME NEW s, IsRows(s), NEW x, x.amount \in Int, NEW t, t = Append(s, x)
  PROVE  GrownBy(t, s, x)
<1> DEFINE n == Len(s)
           D == DOMAIN s
           f == AmountsOf(t)
           z == n + 1
<1>1. n \in Nat /\ D = 1..n /\ IsSeq(t) /\ IsSeq(s)
  BY SeqDomain, AppendShape DEF IsRows
<1>2. DOMAIN t = 1..(n + 1) /\ (\A i \in 1..n : t[i] = s[i]) /\ t[n + 1] = x
  <2> DEFINE R == {s[i] : i \in DOMAIN s}
  <2>1. s \in Seq(R)
    BY <1>1 DEF IsSeq
  <2> HIDE DEF R
  <2>2. s \in Seq(R \cup {x}) /\ x \in R \cup {x}
    BY <2>1
  <2> QED
    BY ONLY <2>2, t = Append(s, x) DEF n
<1> HIDE DEF n
<1>3. /\ DOMAIN t = D \cup {z} /\ z \notin D /\ t[z] = x
      /\ \A i \in D : t[i] = s[i]
  BY <1>1, <1>2
<1> HIDE DEF z
<1>4. \A i \in D : s[i].amount \in Int
  BY DEF IsRows
<1> HIDE DEF D
<1>5. IsRows(t)
  BY <1>1, <1>3, <1>4 DEF IsRows
<1>6. /\ \A i \in D \cup {z} : f[i] \in Int
      /\ \A i \in D : f[i] = AmountsOf(s)[i]
      /\ f[z] = x.amount
  BY <1>3, <1>4 DEF AmountsOf, D
<1>7. IsFiniteSet(D)
  BY <1>1, PositionsFinite DEF D
<1> HIDE DEF f
<1>8. SumFunctionOnSet(f, D \cup {z}) = f[z] + SumFunctionOnSet(f, D)
  BY <1>3, <1>6, <1>7, SumWith
<1>9. SumFunctionOnSet(f, D) = SumFunctionOnSet(AmountsOf(s), D)
  BY <1>6, <1>7, SumEqual
<1>10. Total(s, D) \in Int
  BY TotalInt DEF D
<1>11. Total(t, DOMAIN t) = x.amount + Total(s, D)
  BY <1>3, <1>6, <1>8, <1>9 DEF Total, f
<1> QED
  BY <1>3, <1>5, <1>10, <1>11 DEF D, GrownBy

\* postGLSeries: the rows with what they lack booked to the discrepancy
\* account, one per account, date and sign.
LEMMA PostGLSeriesBooks ==
  ASSUME BInv, NEW seq \in OpenSeries, NEW priv \in BOOLEAN, PostGLSeries(seq, priv)
  PROVE  BInv'
<1> DEFINE s == SeriesOf(seq)
           delta == SumOfRows(s)
           latest == Max({s[i].period : i \in DOMAIN s})
           extra == [sequence |-> seq, accnt |-> DiscrepancyAccount,
                     amount |-> -delta, period |-> latest]
           whole == IF delta = 0 THEN s ELSE Append(s, extra)
           kept == NonZero(whole)
           rows == Grouped(kept)
<1>1. /\ delta # 0 => DiscrepancyAccount # NoAccount
      /\ AllPostable(DB, rows, priv)
      /\ Commit(PostedSeries(seq, rows, priv), sequence)
  BY DEF PostGLSeries, SumOfRows, AllPostable
<1>2. /\ EntryRows(s) /\ IsSeq(s) /\ IsRows(s)
      /\ \A i \in DOMAIN s : IsEntry(s[i])
  <2>1. /\ EntryRows(s) /\ IsSeq(s)
        /\ \A i \in DOMAIN s : s[i] \in
             [sequence : 1..sequence, accnt : Accounts, amount : Int, period : Slots]
    BY SeriesEntries
  <2> HIDE DEF s
  <2> QED
    BY <2>1 DEF EntryRows, IsEntry
<1>3. delta = Total(s, DOMAIN s) /\ delta \in Int
  <2> HIDE DEF s
  <2> QED
    BY <1>2, SumOfRowsIs, TotalInt
<1>4. DOMAIN s # {}
  <2>1. PICK j \in DOMAIN glseries : glseries[j].sequence = seq
    BY DEF OpenSeries
  <2> DEFINE ids == {i \in DOMAIN glseries : glseries[i].sequence = seq}
  <2>2. j \in ids /\ ids \subseteq DOMAIN glseries /\ s = Chosen(glseries, ids)
    BY <2>1 DEF SeriesOf
  <2>3. IsSeq(glseries)
    BY Now DEF GSOf
  <2> HIDE DEF ids, s
  <2> DEFINE n == Cardinality(ids)
             order == InSequence(ids)
  <2>4. n \in Nat /\ DOMAIN s = 1..n
    BY <2>2, <2>3, ChosenShape
  <2>5. RunsThrough(order, n, ids)
    BY <2>2, <2>3, OrderOf
  <2>6. Among(order, n, j)
    BY <2>2, <2>5 DEF RunsThrough
  <2> HIDE DEF n, order
  <2> QED
    BY <2>4, <2>6 DEF Among
<1>5. latest \in Slots
  <2> DEFINE S == {s[i].period : i \in DOMAIN s}
  <2>1. S \subseteq Slots /\ S # {} /\ latest = Max(S)
    <3> HIDE DEF s
    <3> QED
      BY <1>2, <1>4 DEF EntryRows
  <2> HIDE DEF S, latest
  <2> QED
    BY <2>1, LastSlot
<1> HIDE DEF s, delta, latest
<1>6. /\ IsRows(whole) /\ Total(whole, DOMAIN whole) = 0
      /\ \A i \in DOMAIN whole : /\ IsEntry(whole[i]) /\ whole[i].accnt \in Accounts
                                 /\ whole[i].period \in Slots
  <2>1. CASE delta = 0
    BY <1>2, <1>3, <2>1 DEF EntryRows
  <2>2. CASE delta # 0
    <3>1. DiscrepancyAccount \in Accounts
      BY <1>1, <2>2, LedgerAssumption
    <3>2. /\ extra.amount = -delta /\ extra.amount \in Int /\ IsEntry(extra)
          /\ extra.accnt \in Accounts /\ extra.period \in Slots
      BY <1>3, <1>5, <3>1 DEF IsEntry
    <3>3. whole = Append(s, extra)
      BY <2>2
    <3> HIDE DEF extra, whole
    <3>4. /\ IsRows(whole)
          /\ \A i \in DOMAIN whole : whole[i] = extra \/ \E j \in DOMAIN s : whole[i] = s[j]
          /\ Total(whole, DOMAIN whole) = Total(s, DOMAIN s) + extra.amount
      <4>1. IsRows(s) /\ extra.amount \in Int /\ whole = Append(s, extra)
        BY <1>2, <3>2, <3>3
      <4>2. GrownBy(whole, s, extra)
        BY ONLY <4>1, TotalWithOne
      <4> QED
        BY <4>2 DEF GrownBy
    <3>5. Total(whole, DOMAIN whole) = 0
      BY <1>3, <3>2, <3>4
    <3> QED
      BY <1>2, <3>2, <3>4, <3>5 DEF EntryRows
  <2> QED
    BY <2>1, <2>2
<1> HIDE DEF whole
<1>7. /\ IsRows(kept) /\ Total(kept, DOMAIN kept) = 0
      /\ \A i \in DOMAIN kept : \E j \in DOMAIN whole : kept[i] = whole[j]
  <2>1. IsSeq(whole)
    BY <1>6 DEF IsRows
  <2> QED
    BY <1>6, <2>1, TotalNonZero, NonZeroRows
<1>8. \A i \in DOMAIN kept : /\ IsEntry(kept[i]) /\ kept[i].accnt \in Accounts
                             /\ kept[i].period \in Slots
  BY <1>6, <1>7
<1> HIDE DEF kept
<1>9. /\ IsRows(rows) /\ Total(rows, DOMAIN rows) = Total(kept, DOMAIN kept)
      /\ \A i \in DOMAIN rows : \E j \in DOMAIN kept :
           rows[i].accnt = kept[j].accnt /\ rows[i].period = kept[j].period
  BY <1>7, <1>8, TotalGrouped
<1> HIDE DEF rows
<1>10. EntryRows(rows)
  BY <1>8, <1>9 DEF EntryRows
<1>11. Balanced(rows)
  BY <1>7, <1>9 DEF Balanced
<1> QED
  BY <1>1, <1>10, <1>11, PostedSeriesBooks

\* The procedures on open series.
LEMMA SeriesBooks ==
  ASSUME BInv, Series
  PROVE  BInv'
<1>1. CASE \E seq \in 1..MaxSequence, row \in SeriesRows, p \in Slots, priv \in BOOLEAN :
             InsertIntoGLSeries(seq, row[1], row[2], p, priv)
  <2>1. PICK seq \in 1..MaxSequence, row \in SeriesRows, p \in Slots, priv \in BOOLEAN :
          InsertIntoGLSeries(seq, row[1], row[2], p, priv)
    BY <1>1
  <2>2. row[1] \in Accounts /\ row[2] \in Int
    BY LedgerAssumption
  <2> QED
    BY <2>1, <2>2, InsertSeriesBooks
<1>2. CASE \E seq \in OpenSeries, priv \in BOOLEAN : PostGLSeries(seq, priv)
  BY <1>2, PostGLSeriesBooks
<1>3. CASE \E seq \in OpenSeries, priv \in BOOLEAN : PostGLSeriesNoSumm(seq, priv)
  BY <1>3, NoSummBooks
<1>4. CASE \E seq \in OpenSeries : DropGLSeries(seq)
  BY <1>4, DropSeriesBooks
<1> QED
  BY <1>1, <1>2, <1>3, <1>4 DEF Series

LiveIn(gl, seq) == {i \in DOMAIN gl : gl[i].sequence = seq /\ ~gl[i].deleted}

\* Taking a posted sequence back: all of its rows, since they share flags.
LEMMA TakenBackLedger ==
  ASSUME NEW gl, NEW n, GLOf(gl, n), Whole(gl), OnePeriod(gl), NEW seq,
         NEW ids, ids = LiveIn(gl, seq), ids # {}, NEW hl, hl = TakenBack(gl, ids)
  PROVE  /\ GLOf(hl, n) /\ Whole(hl) /\ OnePeriod(hl) /\ DOMAIN hl = DOMAIN gl
         /\ \A i \in DOMAIN gl : hl[i].sequence = gl[i].sequence
<1>1. \A i \in DOMAIN gl : gl[i].sequence = seq <=> i \in ids
  <2>1. PICK k \in DOMAIN gl : gl[k].sequence = seq /\ ~gl[k].deleted
    BY DEF LiveIn
  <2> SUFFICES ASSUME NEW i \in DOMAIN gl, gl[i].sequence = seq PROVE ~gl[i].deleted
    BY DEF LiveIn
  <2>2. gl[i].deleted = gl[k].deleted
    BY <2>1 DEF Whole
  <2> QED
    BY <2>1, <2>2
<1>2. DOMAIN hl = DOMAIN gl
  BY DEF TakenBack
<1>3. ASSUME NEW i \in DOMAIN gl
      PROVE  /\ hl[i] \in [sequence : 1..n, accnt : Accounts, amount : Int, period : Slots,
                           posted : BOOLEAN, deleted : BOOLEAN, rec : BOOLEAN]
             /\ hl[i].sequence = gl[i].sequence /\ hl[i].amount = gl[i].amount
             /\ hl[i].period = gl[i].period
             /\ i \in ids => hl[i].posted = FALSE /\ hl[i].deleted = TRUE /\ hl[i].deleted
             /\ i \notin ids => hl[i].posted = gl[i].posted /\ hl[i].deleted = gl[i].deleted
  <2>1. gl[i] \in [sequence : 1..n, accnt : Accounts, amount : Int, period : Slots,
                   posted : BOOLEAN, deleted : BOOLEAN, rec : BOOLEAN]
    BY DEF GLOf
  <2>2. CASE i \in ids
    <3>1. hl[i] = [gl[i] EXCEPT !.posted = FALSE, !.deleted = TRUE]
      BY <2>2 DEF TakenBack
    <3> QED
      BY ONLY <2>1, <2>2, <3>1
  <2>3. CASE i \notin ids
    <3>1. hl[i] = gl[i]
      BY <2>3 DEF TakenBack
    <3> QED
      BY <2>1, <2>3, <3>1
  <2> QED
    BY <2>2, <2>3
<1>4. IsSeq(hl)
  <2>1. Len(gl) \in Nat /\ DOMAIN gl = 1..Len(gl)
    BY SeqDomain DEF GLOf
  <2>2. DOMAIN hl = 1..Len(gl) /\ hl = [i \in 1..Len(gl) |-> hl[i]]
    BY <2>1 DEF TakenBack
  <2> QED
    BY ONLY <2>1, <2>2, SeqShape
<1>5. GLOf(hl, n)
  BY <1>2, <1>3, <1>4 DEF GLOf
<1>6. Whole(hl)
  <2>1. AmountsOf(hl) = AmountsOf(gl)
    BY <1>2, <1>3 DEF AmountsOf
  <2>2. ASSUME NEW q \in Int PROVE Total(hl, OfSequence(hl, q)) = 0
    <3>1. OfSequence(hl, q) = OfSequence(gl, q)
      BY <1>2, <1>3 DEF OfSequence
    <3>2. Total(gl, OfSequence(gl, q)) = 0
      BY DEF Whole
    <3> QED
      BY <2>1, <3>1, <3>2 DEF Total
  <2>3. ASSUME NEW i \in DOMAIN gl, NEW j \in DOMAIN gl, hl[i].sequence = hl[j].sequence
        PROVE  hl[i].posted = hl[j].posted /\ hl[i].deleted = hl[j].deleted
    <3>1. gl[i].sequence = gl[j].sequence
      BY <1>3, <2>3
    <3>2. i \in ids <=> j \in ids
      BY <1>1, <3>1
    <3>3. gl[i].posted = gl[j].posted /\ gl[i].deleted = gl[j].deleted
      BY <3>1 DEF Whole
    <3> QED
      BY <1>3, <3>2, <3>3
  <2> QED
    BY <1>2, <2>2, <2>3 DEF Whole
<1>7. OnePeriod(hl)
  <2>1. \A i \in DOMAIN gl : Waits(hl[i]) => Waits(gl[i])
    BY <1>3 DEF Waits
  <2> SUFFICES ASSUME NEW i \in DOMAIN gl, NEW j \in DOMAIN gl,
                      hl[i].sequence = hl[j].sequence, Waits(hl[i]), Waits(hl[j])
               PROVE  hl[i].period = hl[j].period
    BY <1>2 DEF OnePeriod
  <2>2. /\ hl[i].period = gl[i].period /\ hl[j].period = gl[j].period
        /\ gl[i].sequence = gl[j].sequence /\ Waits(gl[i]) /\ Waits(gl[j])
    BY <1>3, <2>1
  <2>3. gl[i].period = gl[j].period
    BY <2>2 DEF OnePeriod
  <2> QED
    BY <2>2, <2>3
<1> QED
  BY <1>2, <1>3, <1>5, <1>6, <1>7

\* A database with the balances of another.
LEMMA BalanceTables ==
  ASSUME NEW d, IsDB(d), NEW v, NEW e, e = WithBalances(d, v)
  PROVE  /\ IsDB(e) /\ e.gl = d.gl /\ e.sl = d.sl /\ e.gs = d.gs /\ e.ilp = d.ilp
         /\ e.tb = v.tb /\ e.periods = d.periods /\ e.closed = d.closed
         /\ e.frozen = d.frozen /\ e.yearclosed = d.yearclosed
BY DEF WithBalances, IsDB

LEMMA DeleteSeriesBooks ==
  ASSUME BInv, NEW seq, NEW priv, DeleteGLSeries(seq, priv)
  PROVE  BInv'
<1> DEFINE ids == Live(seq)
           done == UnpostLoop(DB, InSequence(ids))
           b == WithBalances(DB, done)
           gl == TakenBack(gltrans, ids)
           d == [b EXCEPT !.gl = gl]
           sl == [j \in DOMAIN sltrans |->
                    IF sltrans[j].glsequence = seq
                    THEN [sltrans[j] EXCEPT !.posted = FALSE, !.glsequence = 0]
                    ELSE sltrans[j]]
           e == [d EXCEPT !.sl = sl]
<1>1. Commit(e, sequence)
  BY DEF DeleteGLSeries, UnpostLoop, TakenBack
<1>2. ids # {} /\ PostedRows(gltrans, ids) /\ ids = LiveIn(gltrans, seq)
  BY DEF DeleteGLSeries, Live, LiveIn, PostedRows
<1>3. SLOf(sl, sequence)
  <2>1. SLOf(sltrans, sequence) /\ 0 \in 0..sequence
    BY Now
  <2>2. Len(sltrans) \in Nat /\ DOMAIN sltrans = 1..Len(sltrans)
    BY <2>1, SeqDomain DEF SLOf
  <2>3. DOMAIN sl = 1..Len(sltrans) /\ sl = [j \in 1..Len(sltrans) |-> sl[j]]
    BY <2>2
  <2>4. ASSUME NEW j \in DOMAIN sltrans
        PROVE  sl[j] \in [sequence : 1..sequence, accnt : Accounts, amount : Int,
                          period : Slots, posted : BOOLEAN, glsequence : 0..sequence]
    <3>1. sltrans[j] \in [sequence : 1..sequence, accnt : Accounts, amount : Int,
                          period : Slots, posted : BOOLEAN, glsequence : 0..sequence]
      BY <2>1 DEF SLOf
    <3>2. \/ sl[j] = sltrans[j]
          \/ sl[j] = [sltrans[j] EXCEPT !.posted = FALSE, !.glsequence = 0]
      OBVIOUS
    <3> HIDE DEF sl
    <3> QED
      BY ONLY <2>1, <3>1, <3>2
  <2> HIDE DEF sl
  <2>5. IsSeq(sl)
    BY ONLY <2>2, <2>3, SeqShape
  <2> QED
    BY <2>2, <2>3, <2>4, <2>5 DEF SLOf
<1>4. gl = TakenBack(gltrans, ids)
  OBVIOUS
<1> HIDE DEF ids, done, gl, sl
<1>5. /\ IsDB(e) /\ e.gl = gl /\ e.sl = sl /\ e.gs = glseries /\ e.ilp = itemlocpost
      /\ e.tb = done.tb /\ e.periods = periods /\ e.closed = closed /\ e.frozen = frozen
      /\ e.yearclosed = yearclosed
  <2>1. /\ IsDB(b) /\ b.sl = sltrans /\ b.gs = glseries /\ b.ilp = itemlocpost
        /\ b.tb = done.tb /\ b.periods = periods /\ b.closed = closed /\ b.frozen = frozen
        /\ b.yearclosed = yearclosed
    <3> HIDE DEF b
    <3>1. /\ IsDB(DB) /\ b = WithBalances(DB, done)
      BY Now DEF b
    <3> QED
      BY ONLY <3>1, BalanceTables DEF DB
  <2> HIDE DEF b
  <2>2. /\ IsDB(d) /\ d.sl = sltrans /\ d.gs = glseries /\ d.ilp = itemlocpost /\ d.gl = gl
        /\ d.tb = done.tb /\ d.periods = periods /\ d.closed = closed /\ d.frozen = frozen
        /\ d.yearclosed = yearclosed
    BY <2>1 DEF IsDB
  <2> HIDE DEF d
  <2> QED
    BY <2>2 DEF IsDB
<1> HIDE DEF e
<1>6. /\ sequence \in Nat /\ sequence \in 0..MaxSequence /\ Typed(DB, sequence)
      /\ Whole(gltrans) /\ OnePeriod(gltrans) /\ Fresh(DB) /\ Tallied(DB)
      /\ GLOf(gltrans, sequence)
  BY Now, TypedParts DEF Books, Ledger
<1>7. /\ GLOf(gl, sequence) /\ Whole(gl) /\ OnePeriod(gl) /\ DOMAIN gl = DOMAIN gltrans
      /\ \A i \in DOMAIN gltrans : gl[i].sequence = gltrans[i].sequence
  BY <1>2, <1>4, <1>6, TakenBackLedger
<1>8. Tallied(e)
  <2>1. /\ DB.gl = gltrans /\ e.periods = DB.periods /\ e.tb = done.tb /\ e.gl = gl
    BY <1>5, Now
  <2> HIDE <1>1
  <2> QED
    BY <1>2, <1>4, <1>5, <1>6, <2>1, DeletingTally DEF done
<1>9. Typed(e, sequence)
  <2>1. CalendarOf(e) /\ GSOf(e.gs, sequence) /\ e.ilp \subseteq 1..sequence
    BY <1>5, <1>6, TypedParts, Now DEF CalendarOf, Aside
  <2> QED
    BY <1>3, <1>5, <1>7, <2>1, TypedParts
<1>10. Fresh(e)
  BY <1>5, <1>6, <1>7, Now DEF Fresh
<1>11. Books(e, sequence)
  BY <1>5, <1>7, <1>8, <1>9, <1>10 DEF Books, Ledger
<1> QED
  BY <1>1, <1>6, <1>11, CommitBooks

\* The copy of a sequence with the signs turned, all of one date.
LEMMA NegatedRows ==
  ASSUME NEW s, IsRows(s), \A i \in DOMAIN s : s[i].accnt \in Accounts,
         NEW seq, NEW q, NEW p \in Slots, NEW t, t = Negated(s, seq, q, p)
  PROVE  /\ EntryRows(t) /\ \A i \in DOMAIN t : t[i].period = p
         /\ Total(t, DOMAIN t) = -Total(s, OfSequence(s, seq))
<1> DEFINE ids == OfSequence(s, seq)
           rows == Chosen(s, ids)
<1>1. t = [i \in DOMAIN rows |-> [sequence |-> q, accnt |-> rows[i].accnt,
                                  amount |-> -rows[i].amount, period |-> p]]
  BY DEF Negated, OfSequence
<1>2. ids \subseteq DOMAIN s
  BY DEF OfSequence
<1> HIDE DEF ids, rows
<1>3. /\ IsRows(rows) /\ Total(rows, DOMAIN rows) = Total(s, ids)
      /\ \A i \in DOMAIN rows : \E j \in ids : rows[i] = s[j]
  BY <1>2, TotalChosen, ChosenRows DEF rows, IsRows
<1>4. Len(rows) \in Nat /\ DOMAIN rows = 1..Len(rows)
  BY <1>3, SeqDomain DEF IsRows
<1>5. DOMAIN t = 1..Len(rows) /\ t = [i \in 1..Len(rows) |-> t[i]]
  BY <1>1, <1>4
<1>6. IsSeq(t)
  BY ONLY <1>4, <1>5, SeqShape
<1>7. ASSUME NEW i \in DOMAIN t
      PROVE  /\ t[i].accnt \in Accounts /\ t[i].amount = -rows[i].amount
             /\ t[i].amount \in Int /\ t[i].period = p
  <2>1. rows[i].amount \in Int /\ rows[i].accnt \in Accounts
    BY <1>2, <1>3, <1>4, <1>5 DEF IsRows
  <2>2. t[i] = [sequence |-> q, accnt |-> rows[i].accnt, amount |-> -rows[i].amount,
                period |-> p]
    BY <1>1, <1>4, <1>5
  <2> QED
    BY <2>1, <2>2
<1>8. Total(t, DOMAIN t) = -Total(rows, DOMAIN rows)
  <2>1. DOMAIN t = DOMAIN rows /\ \A i \in DOMAIN rows : t[i].amount = -rows[i].amount
    BY <1>4, <1>5, <1>7
  <2> QED
    BY ONLY <1>3, <2>1, TotalNegated
<1>9. EntryRows(t)
  BY <1>6, <1>7 DEF EntryRows, IsRows
<1> QED
  BY <1>3, <1>7, <1>8, <1>9 DEF ids

LEMMA ReverseBooks ==
  ASSUME BInv, NEW seq \in Int, NEW p \in Slots, NEW priv \in BOOLEAN,
         ReverseGLSeries(seq, p, priv)
  PROVE  BInv'
<1> DEFINE q == fetchGLSequence
           t == Negated(gltrans, seq, q, p)
           u == Negated(sltrans, seq, q, p)
           new == LedgerOf(t, q, FALSE)
           lines == JournalsOf(u, q)
           hl == DB.gl \o new
           jl == DB.sl \o lines
           e == [DB EXCEPT !.gl = hl]
           f == [DB EXCEPT !.sl = jl]
<1>1. CanFetch
  BY DEF ReverseGLSeries
<1>2. PICK k : k = q
  OBVIOUS
<1>3. /\ k \in Nat /\ k \in Int /\ k \in 1..k /\ sequence <= k /\ k \in 0..MaxSequence
      /\ Unused(gltrans, k) /\ Aside(DB, k) /\ FewerSeries(DB, DB, k)
      /\ SLOf(sltrans, k) /\ GSOf(glseries, k) /\ itemlocpost \subseteq 1..k
  BY <1>1, <1>2, NewSequence
<1>4. /\ EntryRows(t) /\ \A i \in DOMAIN t : t[i].period = p
      /\ Total(t, DOMAIN t) = -Total(gltrans, OfSequence(gltrans, seq))
  <2>1. IsRows(gltrans) /\ \A i \in DOMAIN gltrans : gltrans[i].accnt \in Accounts
    BY Now DEF GLTyped, LedgerRows
  <2> QED
    BY <2>1, NegatedRows
<1>5. EntryRows(u) /\ \A i \in DOMAIN u : u[i].period = p
  <2>1. IsRows(sltrans) /\ \A i \in DOMAIN sltrans : sltrans[i].accnt \in Accounts
    BY Now DEF SLOf, IsRows
  <2> QED
    BY <2>1, NegatedRows
<1>6. \/ Commit(postIntoTrialBalance(e, {q}, priv), q)
      \/ Commit(f, q)
  <2> DEFINE rows == [i \in DOMAIN t |-> GLRow(q, t[i].accnt, t[i].amount, p, FALSE)]
             made == [i \in DOMAIN u |-> SLRow(q, u[i].accnt, u[i].amount, p)]
  <2>1. rows = new
    <3> HIDE DEF t
    <3> QED
      BY <1>4 DEF LedgerOf
  <2>2. made = lines
    <3> HIDE DEF u
    <3> QED
      BY <1>5 DEF JournalsOf
  <2>3. \/ Commit(postIntoTrialBalance([DB EXCEPT !.gl = @ \o rows], {q}, priv), q)
        \/ Commit([DB EXCEPT !.sl = @ \o made], q)
    BY DEF ReverseGLSeries
  <2> HIDE DEF rows, made, new, lines
  <2> QED
    BY <2>1, <2>2, <2>3
<1>7. Total(gltrans, OfSequence(gltrans, seq)) = 0
  BY Now DEF Books, Ledger, Whole
<1>8. Total(t, DOMAIN t) = 0
  <2> DEFINE z == Total(gltrans, OfSequence(gltrans, seq))
  <2>1. z = 0 /\ Total(t, DOMAIN t) = -z
    BY <1>4, <1>7
  <2> HIDE DEF z, t
  <2> QED
    BY <2>1, MinusZero
<1> HIDE DEF t, u
<1>9. /\ Added(new, k) /\ Balanced(new) /\ SameDate(new)
  <2> DEFINE rec == FALSE
  <2>1. rec \in BOOLEAN /\ new = LedgerOf(t, k, rec) /\ EntryRows(t) /\ k \in Int
    BY <1>2, <1>3, <1>4
  <2> HIDE DEF rec, new
  <2>2. /\ Added(new, k) /\ DOMAIN new = DOMAIN t
        /\ Total(new, DOMAIN new) = Total(t, DOMAIN t)
        /\ \A i \in DOMAIN new : new[i].period = t[i].period
    BY ONLY <2>1, LedgerMade
  <2> QED
    BY <1>4, <1>8, <2>2 DEF Balanced, SameDate
<1>10. SLOf(lines, k)
  BY <1>2, <1>3, <1>5, JournalsMade
<1> HIDE DEF new, lines
<1>11. /\ OtherThan(DB, e, hl, sltrans, glseries, itemlocpost)
       /\ OtherThan(DB, f, gltrans, jl, glseries, itemlocpost)
  <2>1. /\ IsDB(DB) /\ DB.gl = gltrans /\ DB.sl = sltrans /\ DB.gs = glseries
        /\ DB.ilp = itemlocpost
    BY Now
  <2> HIDE DEF hl, jl, e, f
  <2>2. /\ OtherThan(DB, e, hl, DB.sl, DB.gs, DB.ilp)
        /\ OtherThan(DB, f, DB.gl, jl, DB.gs, DB.ilp)
    BY <2>1, TablesReplaced, Zenon DEF e, f
  <2> QED
    BY <2>1, <2>2
<1>12. /\ sequence \in Nat /\ Books(DB, sequence)
       /\ DB.gl = gltrans /\ DB.gs = glseries
       /\ hl = gltrans \o new /\ jl = sltrans \o lines
  BY Now
<1> HIDE DEF e, f, q, hl, jl
<1>13. CASE Commit(postIntoTrialBalance(e, {q}, priv), q)
  <2>1. Aside(e, k) /\ FewerSeries(DB, e, k)
    BY <1>3, <1>11, <1>12 DEF Aside, FewerSeries, OtherThan
  <2>2. Unused(DB.gl, k) /\ e.gl = DB.gl \o new /\ SameBalances(DB, e)
    BY <1>3, <1>11, <1>12 DEF OtherThan
  <2>3. Books(postIntoTrialBalance(e, {k}, priv), k)
    BY <1>3, <1>9, <1>12, <2>1, <2>2, AddedPosted
  <2> QED
    BY <1>2, <1>3, <1>13, <2>3, CommitBooks
<1>14. CASE Commit(f, q)
  <2>1. SLOf(f.sl, k)
    BY <1>3, <1>10, <1>11, <1>12, AppendedJournals DEF OtherThan
  <2>2. Aside(f, k) /\ Fresh(f) /\ f.gl = DB.gl /\ SameBalances(DB, f)
    BY <1>3, <1>11, <1>12, <2>1 DEF Aside, Fresh, Books, Ledger, OtherThan
  <2>3. Books(f, k)
    BY <1>3, <1>12, <2>2, QuietBooks
  <2> QED
    BY <1>2, <1>3, <1>14, <2>3, CommitBooks
<1> QED
  BY <1>6, <1>13, <1>14

LEMMA CorrectionBooks ==
  ASSUME BInv, Correction
  PROVE  BInv'
<1>1. PICK seq \in 1..sequence, priv \in BOOLEAN :
        \/ DeleteGLSeries(seq, priv)
        \/ \E p \in Slots : ReverseGLSeries(seq, p, priv)
  BY DEF Correction
<1>2. seq \in Int
  BY Now
<1> QED
  BY <1>1, <1>2, DeleteSeriesBooks, ReverseBooks

\* Journals marked posted by the sequence that took them.
LEMMA TakenJournals ==
  ASSUME NEW m \in Nat, SLOf(sltrans, m), NEW q \in 1..m, NEW ids,
         NEW sl, sl = Taken(ids, q)
  PROVE  SLOf(sl, m)
<1>1. Len(sltrans) \in Nat /\ DOMAIN sltrans = 1..Len(sltrans)
  BY SeqDomain DEF SLOf
<1>2. DOMAIN sl = 1..Len(sltrans) /\ sl = [j \in 1..Len(sltrans) |-> sl[j]]
  BY <1>1 DEF Taken
<1>3. ASSUME NEW j \in DOMAIN sltrans
      PROVE  sl[j] \in [sequence : 1..m, accnt : Accounts, amount : Int,
                        period : Slots, posted : BOOLEAN, glsequence : 0..m]
  <2>1. sltrans[j] \in [sequence : 1..m, accnt : Accounts, amount : Int,
                        period : Slots, posted : BOOLEAN, glsequence : 0..m]
    BY DEF SLOf
  <2>2. \/ sl[j] = sltrans[j]
        \/ sl[j] = [sltrans[j] EXCEPT !.posted = TRUE, !.glsequence = q]
    BY DEF Taken
  <2>3. q \in 0..m
    OBVIOUS
  <2> QED
    BY ONLY <2>1, <2>2, <2>3
<1>4. IsSeq(sl)
  BY ONLY <1>1, <1>2, SeqShape
<1> QED
  BY <1>1, <1>2, <1>3, <1>4 DEF SLOf

\* The ledger rows that journals become.
LEMMA JournalRows ==
  ASSUME BInv, NEW ids, ids \subseteq DOMAIN sltrans, Balances(ids),
         NEW q \in Int, NEW p \in Slots, NEW rec \in BOOLEAN, NEW accts,
         accts = JournalAccounts(ids), NEW rows,
         rows = [i \in DOMAIN accts |-> GLRow(q, accts[i], JournalSum(ids, accts[i]), p, rec)]
  PROVE  Added(rows, q) /\ Balanced(rows) /\ SameDate(rows)
<1> DEFINE n == Len(accts)
<1>1. IsRows(sltrans) /\ \A j \in DOMAIN sltrans : sltrans[j].accnt \in Accounts
  BY Now DEF SLOf, IsRows
<1>2. n \in Nat /\ DOMAIN accts = 1..n
  <2> DEFINE some == {k \in DOMAIN AccountOrder : JournalSum(ids, AccountOrder[k]) # 0}
  <2>1. IsSeq(AccountOrder) /\ some \subseteq DOMAIN AccountOrder
    BY LedgerAssumption DEF IsSeq
  <2>2. accts = Chosen(AccountOrder, some)
    BY DEF JournalAccounts
  <2> HIDE DEF some
  <2>3. IsSeq(accts)
    BY <2>1, <2>2, ChosenRows
  <2> QED
    BY <2>3, SeqDomain
<1>3. DOMAIN rows = 1..n /\ rows = [i \in 1..n |-> rows[i]]
  BY <1>2
<1>4. ASSUME NEW i \in 1..n
      PROVE  /\ rows[i].amount = JournalSum(ids, JournalAccounts(ids)[i])
             /\ rows[i].sequence = q /\ Waits(rows[i]) /\ rows[i].period = p
             /\ rows[i].accnt = JournalAccounts(ids)[i]
             /\ rows[i].posted = FALSE /\ rows[i].deleted = FALSE /\ rows[i].rec = rec
             /\ rows[i] = [sequence |-> rows[i].sequence, accnt |-> rows[i].accnt,
                           amount |-> rows[i].amount, period |-> rows[i].period,
                           posted |-> rows[i].posted, deleted |-> rows[i].deleted,
                           rec |-> rows[i].rec]
  <2> DEFINE amt == JournalSum(ids, accts[i])
  <2>1. rows[i] = GLRow(q, accts[i], amt, p, rec)
    BY <1>2
  <2>2. amt = JournalSum(ids, JournalAccounts(ids)[i])
    OBVIOUS
  <2> HIDE DEF amt
  <2> QED
    BY ONLY <2>1, <2>2, accts = JournalAccounts(ids) DEF GLRow, Waits
<1>5. IsSeq(rows)
  BY ONLY <1>2, <1>3, SeqShape
<1>6. /\ \A i \in 1..n : rows[i].amount \in Int /\ JournalAccounts(ids)[i] \in Accounts
      /\ Total(rows, DOMAIN rows) = Total(sltrans, ids)
  <2>1. \A i \in 1..n : rows[i].amount = JournalSum(ids, JournalAccounts(ids)[i])
    BY <1>4
  <2>2. n = Len(JournalAccounts(ids))
    OBVIOUS
  <2> HIDE DEF n
  <2> QED
    BY ONLY <1>1, <1>2, <1>3, <2>1, <2>2, ids \subseteq DOMAIN sltrans, TotalJournals
<1>7. Total(sltrans, ids) = 0
  <2> DEFINE c == Chosen(sltrans, ids)
  <2>1. SumOfRows(c) = 0
    BY DEF Balances, SumOfRows
  <2>2. Total(c, DOMAIN c) = Total(sltrans, ids)
    BY <1>1, TotalChosen
  <2> HIDE DEF c
  <2> QED
    BY <2>1, <2>2, SumOfRowsIs
<1>8. ASSUME NEW i \in 1..n PROVE rows[i] \in LedgerRows
  <2> DEFINE x == rows[i]
  <2>1. /\ x = [sequence |-> x.sequence, accnt |-> x.accnt, amount |-> x.amount,
                period |-> x.period, posted |-> x.posted, deleted |-> x.deleted,
                rec |-> x.rec]
        /\ x.sequence \in Int /\ x.accnt \in Accounts /\ x.amount \in Int
        /\ x.period \in Slots /\ x.posted \in BOOLEAN /\ x.deleted \in BOOLEAN
        /\ x.rec \in BOOLEAN
    BY <1>4, <1>6
  <2> HIDE DEF x
  <2>2. x \in LedgerRows
    BY ONLY <2>1 DEF LedgerRows
  <2> QED
    BY <2>2 DEF x
<1>9. Added(rows, q)
  BY <1>3, <1>4, <1>5, <1>8 DEF Added
<1>10. SameDate(rows)
  BY ONLY <1>3, <1>4 DEF SameDate
<1> QED
  BY <1>6, <1>7, <1>9, <1>10 DEF Balanced

LEMMA PostedJournalsBooks ==
  ASSUME BInv, CanFetch, NEW ids, ids \subseteq DOMAIN sltrans, Balances(ids),
         NEW p \in Slots, NEW rec \in BOOLEAN, NEW priv \in BOOLEAN,
         Commit(PostedJournals(ids, p, rec, priv), fetchGLSequence)
  PROVE  BInv'
<1> DEFINE q == fetchGLSequence
           accts == JournalAccounts(ids)
           rows == [i \in DOMAIN accts |-> GLRow(q, accts[i], JournalSum(ids, accts[i]), p, rec)]
           sl == Taken(ids, q)
           d == [DB EXCEPT !.sl = sl]
           hl == d.gl \o rows
           e == [d EXCEPT !.gl = hl]
<1>1. Commit(postIntoTrialBalance(e, {q}, priv), q)
  BY DEF PostedJournals, JournalAccounts
<1>2. PICK k : k = q
  OBVIOUS
<1>3. /\ k \in Nat /\ k \in Int /\ k \in 1..k /\ sequence <= k /\ k \in 0..MaxSequence
      /\ Unused(gltrans, k) /\ Aside(DB, k) /\ FewerSeries(DB, DB, k)
      /\ SLOf(sltrans, k) /\ GSOf(glseries, k) /\ itemlocpost \subseteq 1..k
  BY <1>2, NewSequence
<1>4. Added(rows, k) /\ Balanced(rows) /\ SameDate(rows)
  <2> HIDE DEF accts
  <2>1. rows = [i \in DOMAIN accts |-> GLRow(k, accts[i], JournalSum(ids, accts[i]), p, rec)]
    BY <1>2
  <2> HIDE DEF rows
  <2> QED
    BY <1>3, <2>1, JournalRows DEF accts
<1>5. SLOf(sl, k)
  BY <1>2, <1>3, TakenJournals
<1> HIDE DEF rows, sl
<1>6. OtherThan(DB, d, gltrans, sl, glseries, itemlocpost)
  BY Now, TablesReplaced, Zenon
<1> HIDE DEF d, hl
<1>7. OtherThan(d, e, hl, sl, glseries, itemlocpost) /\ hl = gltrans \o rows
  <2>1. /\ IsDB(d) /\ d.gl = gltrans /\ d.sl = sl /\ d.gs = glseries /\ d.ilp = itemlocpost
    BY <1>6 DEF OtherThan
  <2>2. OtherThan(d, e, hl, d.sl, d.gs, d.ilp)
    BY <2>1, TablesReplaced, Zenon
  <2> QED
    BY <2>1, <2>2 DEF hl
<1>8. sequence \in Nat /\ Books(DB, sequence) /\ DB.gl = gltrans /\ DB.gs = glseries
  BY Now
<1> HIDE DEF e, q
<1>9. Aside(e, k) /\ FewerSeries(DB, e, k)
  BY <1>3, <1>5, <1>7, <1>8 DEF Aside, FewerSeries, OtherThan
<1>10. Unused(DB.gl, k) /\ e.gl = DB.gl \o rows /\ SameBalances(DB, e)
  BY <1>3, <1>6, <1>7, <1>8 DEF OtherThan, SameBalances
<1>11. Books(postIntoTrialBalance(e, {k}, priv), k)
  BY <1>3, <1>4, <1>8, <1>9, <1>10, AddedPosted
<1> QED
  BY <1>1, <1>2, <1>3, <1>11, CommitBooks

LEMMA JournalsBooks ==
  ASSUME BInv, Journals
  PROVE  BInv'
<1>1. PICK priv \in BOOLEAN : \/ \E seq \in 1..sequence : PostJournals(seq, priv)
                              \/ \E from, to, p \in Slots : PostJournalsBySource(from, to, p, priv)
  BY DEF Journals
<1>2. TRUE \in BOOLEAN /\ FALSE \in BOOLEAN
  OBVIOUS
<1>3. CASE \E seq \in 1..sequence : PostJournals(seq, priv)
  <2>1. PICK seq \in 1..sequence : PostJournals(seq, priv)
    BY <1>3
  <2> DEFINE ids == {j \in DOMAIN sltrans : sltrans[j].sequence = seq /\ ~sltrans[j].posted}
             rec == TRUE
  <2>2. /\ CanFetch /\ Balances(ids) /\ Today \in Slots /\ ids \subseteq DOMAIN sltrans
        /\ Commit(PostedJournals(ids, Today, rec, priv), fetchGLSequence) /\ rec \in BOOLEAN
    BY <2>1 DEF PostJournals
  <2> HIDE DEF ids, rec
  <2> QED
    BY <2>2, PostedJournalsBooks
<1>4. CASE \E from, to, p \in Slots : PostJournalsBySource(from, to, p, priv)
  <2>1. PICK from \in Slots, to \in Slots, p \in Slots : PostJournalsBySource(from, to, p, priv)
    BY <1>4
  <2> DEFINE ids == {j \in DOMAIN sltrans : sltrans[j].period \in from..to /\ ~sltrans[j].posted}
             rec == FALSE
  <2>2. /\ CanFetch /\ Balances(ids) /\ ids \subseteq DOMAIN sltrans
        /\ Commit(PostedJournals(ids, p, rec, priv), fetchGLSequence) /\ rec \in BOOLEAN
    BY <2>1 DEF PostJournalsBySource
  <2> HIDE DEF ids, rec
  <2> QED
    BY <2>2, PostedJournalsBooks
<1> QED
  BY <1>1, <1>3, <1>4

-----------------------------------------------------------------------------
(* The calendar procedures.                                                *)

\* Balances carried forward.
LEMMA CarriedBooks ==
  ASSUME NEW d, NEW n, Books(d, n), NEW e, Carried(d, e)
  PROVE  Books(e, n) /\ IsDB(e) /\ e.periods = d.periods /\ e.closed = d.closed
         /\ e.frozen = d.frozen /\ e.yearclosed = d.yearclosed
<1>1. Base(d) /\ GLTyped(d.gl) /\ TallyOf(d.tb, d.gl)
  BY DEF Books, Tallied
<1>2. /\ Base(e) /\ e.gl = d.gl /\ e.sl = d.sl /\ e.ilp = d.ilp /\ e.gs = d.gs
      /\ e.periods = d.periods /\ e.closed = d.closed /\ e.frozen = d.frozen
      /\ e.yearclosed = d.yearclosed
  BY <1>1, CarriedFields
<1>3. Typed(e, n)
  BY <1>2, TypedParts DEF Books, Ledger, CalendarOf, Base
<1>4. Whole(e.gl) /\ OnePeriod(e.gl) /\ Fresh(e)
  BY <1>2 DEF Books, Ledger, Fresh
<1>5. Tallied(e)
  BY <1>1, <1>2, TallyCarried DEF Tallied
<1> QED
  BY <1>2, <1>3, <1>4, <1>5 DEF Books, Ledger, Base

\* The ledger and its balances with another calendar.
SameLedger(d, e) == /\ IsDB(e) /\ e.gl = d.gl /\ e.sl = d.sl /\ e.gs = d.gs /\ e.ilp = d.ilp
                    /\ e.tb = d.tb

LEMMA CalendarChanged ==
  ASSUME NEW d, NEW n, Books(d, n), NEW e, SameLedger(d, e), CalendarOf(e)
  PROVE  Books(e, n)
<1>1. Typed(e, n)
  BY TypedParts DEF Books, Ledger, SameLedger
<1>2. Whole(e.gl) /\ OnePeriod(e.gl) /\ Fresh(e)
  BY DEF Books, Ledger, Fresh, SameLedger
<1>3. Tallied(e)
  BY DEF Books, Tallied, Base, SameLedger, CalendarOf
<1> QED
  BY <1>1, <1>2, <1>3 DEF Books, Ledger

LEMMA PeriodsReplaced ==
  ASSUME NEW d, IsDB(d), NEW v, NEW e, e = [d EXCEPT !.periods = v]
  PROVE  /\ SameLedger(d, e)
         /\ e.periods = v /\ e.closed = d.closed /\ e.frozen = d.frozen
         /\ e.yearclosed = d.yearclosed
BY DEF IsDB, SameLedger

LEMMA ClosedReplaced ==
  ASSUME NEW d, IsDB(d), NEW v, NEW e, e = [d EXCEPT !.closed = v]
  PROVE  /\ SameLedger(d, e)
         /\ e.periods = d.periods /\ e.closed = v /\ e.frozen = d.frozen
         /\ e.yearclosed = d.yearclosed
BY DEF IsDB, SameLedger

LEMMA FrozenReplaced ==
  ASSUME NEW d, IsDB(d), NEW v, NEW e, e = [d EXCEPT !.frozen = v]
  PROVE  /\ SameLedger(d, e)
         /\ e.periods = d.periods /\ e.closed = d.closed /\ e.frozen = v
         /\ e.yearclosed = d.yearclosed
BY DEF IsDB, SameLedger

LEMMA YearsReplaced ==
  ASSUME NEW d, IsDB(d), NEW v, NEW e, e = [d EXCEPT !.yearclosed = v]
  PROVE  /\ SameLedger(d, e)
         /\ e.periods = d.periods /\ e.closed = d.closed /\ e.frozen = d.frozen
         /\ e.yearclosed = v
BY DEF IsDB, SameLedger

\* The calendar as it is.
LEMMA CalendarNow ==
  ASSUME BInv
  PROVE  /\ periods \subseteq Slots /\ closed \subseteq periods /\ frozen \subseteq periods
         /\ yearclosed \subseteq Years
BY Now, TypedParts DEF Books, Ledger, CalendarOf

LEMMA FreezeBooks ==
  ASSUME BInv, NEW p, FreezeAccountingPeriod(p)
  PROVE  BInv'
<1> DEFINE v == DB.frozen \cup {p}
           e == [DB EXCEPT !.frozen = v]
<1>1. Commit(e, sequence) /\ p \in periods
  BY DEF FreezeAccountingPeriod
<1>2. e = [DB EXCEPT !.frozen = v] /\ v = frozen \cup {p}
  BY Now
<1> HIDE DEF e, v
<1>3. SameLedger(DB, e) /\ CalendarOf(e)
  <2>1. IsDB(DB) /\ e = [DB EXCEPT !.frozen = v]
    BY <1>2, Now
  <2>2. /\ SameLedger(DB, e) /\ e.periods = DB.periods
        /\ e.closed = DB.closed /\ e.frozen = v /\ e.yearclosed = DB.yearclosed
    BY ONLY <2>1, FrozenReplaced
  <2>3. /\ SameLedger(DB, e) /\ e.periods = periods
        /\ e.closed = closed /\ e.frozen = v /\ e.yearclosed = yearclosed
    BY <2>2, Now
  <2> QED
    BY <1>1, <1>2, <2>3, CalendarNow DEF CalendarOf
<1> QED
  BY <1>1, <1>3, Now, CalendarChanged, CommitBooks

LEMMA ThawBooks ==
  ASSUME BInv, NEW p, NEW priv \in BOOLEAN, ThawAccountingPeriod(p, priv)
  PROVE  BInv'
<1> DEFINE v == DB.frozen \ {p}
           e == [DB EXCEPT !.frozen = v]
<1>1. Commit(postIntoTrialBalance(e, UnpostedIn(p), priv), sequence)
  BY DEF ThawAccountingPeriod
<1>2. e = [DB EXCEPT !.frozen = v] /\ v \subseteq frozen
  BY Now
<1> HIDE DEF e, v
<1>3. SameLedger(DB, e) /\ CalendarOf(e)
  <2>1. IsDB(DB) /\ e = [DB EXCEPT !.frozen = v]
    BY <1>2, Now
  <2>2. /\ SameLedger(DB, e) /\ e.periods = DB.periods
        /\ e.closed = DB.closed /\ e.frozen = v /\ e.yearclosed = DB.yearclosed
    BY ONLY <2>1, FrozenReplaced
  <2>3. /\ SameLedger(DB, e) /\ e.periods = periods
        /\ e.closed = closed /\ e.frozen = v /\ e.yearclosed = yearclosed
    BY <2>2, Now
  <2> QED
    BY <1>2, <2>3, CalendarNow DEF CalendarOf
<1> QED
  BY <1>1, <1>3, Now, CalendarChanged, PostedBooks

LEMMA OpenBooks ==
  ASSUME BInv, NEW p, NEW priv \in BOOLEAN, OpenAccountingPeriod(p, priv)
  PROVE  BInv'
<1> DEFINE v == DB.closed \ {p}
           e == [DB EXCEPT !.closed = v]
<1>1. Commit(postIntoTrialBalance(e, UnpostedIn(p), priv), sequence)
  BY DEF OpenAccountingPeriod, Reopen
<1>2. e = [DB EXCEPT !.closed = v] /\ v \subseteq closed
  BY Now
<1> HIDE DEF e, v
<1>3. SameLedger(DB, e) /\ CalendarOf(e)
  <2>1. IsDB(DB) /\ e = [DB EXCEPT !.closed = v]
    BY <1>2, Now
  <2>2. /\ SameLedger(DB, e) /\ e.periods = DB.periods
        /\ e.closed = v /\ e.frozen = DB.frozen /\ e.yearclosed = DB.yearclosed
    BY ONLY <2>1, ClosedReplaced
  <2>3. /\ SameLedger(DB, e) /\ e.periods = periods
        /\ e.closed = v /\ e.frozen = frozen /\ e.yearclosed = yearclosed
    BY <2>2, Now
  <2> QED
    BY <1>2, <2>3, CalendarNow DEF CalendarOf
<1> QED
  BY <1>1, <1>3, Now, CalendarChanged, PostedBooks

LEMMA OpenYearBooks ==
  ASSUME BInv, NEW y, OpenAccountingYearPeriod(y)
  PROVE  BInv'
<1> DEFINE v == DB.yearclosed \ {y}
           e == [DB EXCEPT !.yearclosed = v]
<1>1. Commit(e, sequence)
  BY DEF OpenAccountingYearPeriod
<1>2. e = [DB EXCEPT !.yearclosed = v] /\ v \subseteq yearclosed
  BY Now
<1> HIDE DEF e, v
<1>3. SameLedger(DB, e) /\ CalendarOf(e)
  <2>1. IsDB(DB) /\ e = [DB EXCEPT !.yearclosed = v]
    BY <1>2, Now
  <2>2. /\ SameLedger(DB, e) /\ e.periods = DB.periods
        /\ e.closed = DB.closed /\ e.frozen = DB.frozen /\ e.yearclosed = v
    BY ONLY <2>1, YearsReplaced
  <2>3. /\ SameLedger(DB, e) /\ e.periods = periods
        /\ e.closed = closed /\ e.frozen = frozen /\ e.yearclosed = v
    BY <2>2, Now
  <2> QED
    BY <1>2, <2>3, CalendarNow DEF CalendarOf
<1> QED
  BY <1>1, <1>3, Now, CalendarChanged, CommitBooks

LEMMA CloseYearBooks ==
  ASSUME BInv, NEW y, CloseAccountingYearPeriod(y)
  PROVE  BInv'
<1> DEFINE x == updateRetainedEarnings(DB, y).d
           b == WithBalances(DB, x)
           v == b.yearclosed \cup {y}
           e == [b EXCEPT !.yearclosed = v]
<1>1. Commit(e, sequence) /\ y \in Years
  BY DEF CloseAccountingYearPeriod
<1>2. Carried(DB, x)
  BY Now, RetainCarries
<1> HIDE DEF x
<1>3. b = x
  BY <1>2 DEF Carried
<1>4. /\ Books(b, sequence) /\ IsDB(b) /\ b.periods = periods /\ b.closed = closed
      /\ b.frozen = frozen /\ b.yearclosed = yearclosed
  BY <1>2, <1>3, Now, CarriedBooks
<1>5. e = [b EXCEPT !.yearclosed = v] /\ v = yearclosed \cup {y}
  BY <1>4
<1> HIDE DEF b, e, v
<1>6. SameLedger(b, e) /\ CalendarOf(e)
  <2>1. IsDB(b) /\ e = [b EXCEPT !.yearclosed = v]
    BY <1>4, <1>5
  <2>2. /\ SameLedger(b, e) /\ e.periods = b.periods
        /\ e.closed = b.closed /\ e.frozen = b.frozen /\ e.yearclosed = v
    BY ONLY <2>1, YearsReplaced
  <2>3. /\ SameLedger(b, e) /\ e.periods = periods
        /\ e.closed = closed /\ e.frozen = frozen /\ e.yearclosed = v
    BY <1>4, <2>2
  <2> QED
    BY <1>1, <1>5, <2>3, CalendarNow DEF CalendarOf
<1> QED
  BY <1>1, <1>4, <1>6, Now, CalendarChanged, CommitBooks

\* Balances carried forward, and committed.
LEMMA CarriedCommitted ==
  ASSUME BInv, NEW e, Carried(DB, e), Commit(e, sequence)
  PROVE  BInv'
BY Now, CarriedBooks, CommitBooks

LEMMA ForwardBooks ==
  ASSUME BInv, NEW a \in Accounts, ForwardUpdateAccount(a)
  PROVE  BInv'
<1>0. Base(DB) /\ DB.tb = trialbal /\ TBTyped(trialbal) /\ IsDB(DB)
  BY Now DEF Base
<1>1. CASE /\ DirtySlots(DB, a) # {}
           /\ Commit(forwardUpdateTrialBalance(DB, a, Min(DirtySlots(DB, a))), sequence)
  <2> DEFINE S == DirtySlots(DB, a)
             p == Min(S)
  <2>1. S \subseteq Slots /\ S # {} /\ \A q \in S : <<a, q>> \in DOMAIN DB.tb
    BY <1>1 DEF DirtySlots, RowSlots
  <2>2. Commit(forwardUpdateTrialBalance(DB, a, p), sequence)
    BY <1>1
  <2> HIDE DEF S
  <2>3. p \in S
    BY <2>1, LastSlot
  <2> HIDE DEF p
  <2>4. p \in Slots /\ <<a, p>> \in DOMAIN DB.tb
    BY <2>1, <2>3
  <2>5. Carried(DB, forwardUpdateTrialBalance(DB, a, p))
    BY <1>0, <2>4, ForwardCarries
  <2> QED
    BY <2>2, <2>5, CarriedCommitted
<1>2. CASE /\ RowSlots(DB, a) = {} /\ periods # {}
           /\ Commit(forwardUpdateTrialBalance(
                Write(DB, <<a, Min(periods)>>, Row(0, 0, 0, 0, FALSE)), a, Min(periods)),
                sequence)
  <2> DEFINE p == Min(periods)
             k == <<a, p>>
             zero == Row(0, 0, 0, 0, FALSE)
             w == Write(DB, k, zero)
  <2>1. p \in Slots
    BY <1>2, LastSlot, CalendarNow
  <2>2. zero \in TBRows /\ zero.debits = 0 /\ zero.credits = 0
    BY DEF Row, TBRows
  <2>3. Commit(forwardUpdateTrialBalance(w, a, p), sequence)
    BY <1>2
  <2> HIDE DEF p, zero
  <2>4. k \in Keys /\ k \notin DOMAIN DB.tb
    BY <1>2, <2>1 DEF RowSlots, Keys
  <2>5. Carried(DB, w)
    BY <1>0, <2>2, <2>4, WriteCarries
  <2>6. k \in DOMAIN w.tb
    BY <1>0, WriteTable
  <2> HIDE DEF w
  <2>7. Base(w)
    BY <1>0, <2>5, CarriedFields
  <2>8. Carried(w, forwardUpdateTrialBalance(w, a, p))
    BY <2>1, <2>6, <2>7, ForwardCarries
  <2>9. Carried(DB, forwardUpdateTrialBalance(w, a, p))
    BY <1>0, <2>5, <2>8, CarriedTwice
  <2> QED
    BY <2>3, <2>9, CarriedCommitted
<1> QED
  BY <1>1, <1>2 DEF ForwardUpdateAccount

LEMMA CloseBooks ==
  ASSUME BInv, NEW p \in Slots, CloseAccountingPeriod(p)
  PROVE  BInv'
<1> DEFINE n == Len(AccountOrder)
           s == [i \in DOMAIN AccountOrder |-> <<AccountOrder[i], p>>]
           x == CloseLoop(DB, s)
           b == WithBalances(DB, x)
           v == b.closed \cup {p}
           e == [b EXCEPT !.closed = v]
<1>1. Commit(e, sequence) /\ p \in periods /\ p + 1 \in periods
  BY DEF CloseAccountingPeriod, CloseLoop
<1>2. n \in Nat /\ DOMAIN AccountOrder = 1..n /\ \A i \in 1..n : AccountOrder[i] \in Accounts
  BY LedgerAssumption
<1>3. /\ DOMAIN s = 1..n
      /\ \A i \in 1..n : s[i] \in Keys /\ s[i][2] + 1 \in Slots
  <2>1. p + 1 \in Slots
    BY <1>1, CalendarNow
  <2>2. ASSUME NEW i \in 1..n PROVE s[i] \in Keys /\ s[i][2] + 1 \in Slots
    <3>1. s[i] = <<AccountOrder[i], p>> /\ AccountOrder[i] \in Accounts
      BY <1>2
    <3> QED
      BY <2>1, <3>1 DEF Keys
  <2> QED
    BY <1>2, <2>2
<1> HIDE DEF n, s
<1>4. Carried(DB, x)
  <2>1. Base(DB)
    BY Now
  <2> QED
    BY <1>2, <1>3, <2>1, CloseLoopCarries
<1> HIDE DEF x
<1>5. b = x
  BY <1>4 DEF Carried
<1>6. /\ Books(b, sequence) /\ IsDB(b) /\ b.periods = periods /\ b.closed = closed
      /\ b.frozen = frozen /\ b.yearclosed = yearclosed
  BY <1>4, <1>5, Now, CarriedBooks
<1>7. e = [b EXCEPT !.closed = v] /\ v = closed \cup {p}
  BY <1>6
<1> HIDE DEF b, e, v
<1>8. SameLedger(b, e) /\ CalendarOf(e)
  <2>1. IsDB(b) /\ e = [b EXCEPT !.closed = v]
    BY <1>6, <1>7
  <2>2. /\ SameLedger(b, e) /\ e.periods = b.periods
        /\ e.closed = v /\ e.frozen = b.frozen /\ e.yearclosed = b.yearclosed
    BY ONLY <2>1, ClosedReplaced
  <2> QED
    BY <1>1, <1>6, <1>7, <2>2, CalendarNow DEF CalendarOf
<1> QED
  BY <1>1, <1>6, <1>8, Now, CalendarChanged, CommitBooks

LEMMA CreateBooks ==
  ASSUME BInv, NEW p \in Slots, NEW priv \in BOOLEAN, CreateAccountingPeriod(p, priv)
  PROVE  BInv'
<1> DEFINE v == DB.periods \cup {p}
           c == [DB EXCEPT !.periods = v]
           d == postIntoTrialBalance(c, UnpostedIn(p), priv)
           has == {n \in DOMAIN AccountOrder : RowSlots(d, AccountOrder[n]) # {}}
           seen == Chosen(AccountOrder, has)
           last == [n \in DOMAIN seen |-> <<seen[n], Max(RowSlots(d, seen[n]))>>]
           x == ForwardLoop(d, last)
           e == WithBalances(d, x)
           m == Len(seen)
<1>1. Commit(e, sequence)
  BY DEF CreateAccountingPeriod, ForwardLoop
<1>2. c = [DB EXCEPT !.periods = v] /\ v = periods \cup {p}
  BY Now
<1> HIDE DEF c, v
<1>3. SameLedger(DB, c) /\ CalendarOf(c)
  <2>1. IsDB(DB) /\ c = [DB EXCEPT !.periods = v]
    BY <1>2, Now
  <2>2. /\ SameLedger(DB, c) /\ c.periods = v
        /\ c.closed = DB.closed /\ c.frozen = DB.frozen /\ c.yearclosed = DB.yearclosed
    BY ONLY <2>1, PeriodsReplaced
  <2>3. /\ SameLedger(DB, c) /\ c.periods = v
        /\ c.closed = closed /\ c.frozen = frozen /\ c.yearclosed = yearclosed
    BY <2>2, Now
  <2> QED
    BY <1>2, <2>3, CalendarNow DEF CalendarOf
<1>4. Books(c, sequence)
  BY <1>3, Now, CalendarChanged
<1>5. Books(d, sequence)
  <2>1. sequence \in Nat /\ Ledger(c, sequence) /\ Tallied(c)
    BY <1>4, Now DEF Books
  <2> QED
    BY <2>1, BooksReady, PostBooks
<1> HIDE DEF d
<1>6. Base(d)
  BY <1>5 DEF Books, Tallied
<1>7. /\ IsSeq(seen) /\ m \in Nat /\ DOMAIN seen = 1..m
      /\ \A i \in 1..m : \E j \in has : seen[i] = AccountOrder[j]
  <2>1. IsSeq(AccountOrder) /\ has \subseteq DOMAIN AccountOrder
    BY LedgerAssumption DEF IsSeq
  <2> HIDE DEF has
  <2>2. /\ IsSeq(seen)
        /\ \A i \in DOMAIN seen : \E j \in has : seen[i] = AccountOrder[j]
    BY <2>1, ChosenRows
  <2> HIDE DEF seen
  <2> QED
    BY <2>2, SeqDomain
<1>8. DOMAIN last = 1..m /\ \A i \in 1..m : last[i] \in DOMAIN d.tb
  <2> SUFFICES ASSUME NEW i \in 1..m PROVE last[i] \in DOMAIN d.tb
    <3> HIDE DEF seen
    <3> QED
      BY <1>7
  <2> DEFINE a == seen[i]
             S == RowSlots(d, a)
  <2>1. S # {}
    BY <1>7
  <2>2. last[i] = <<a, Max(S)>>
    <3> HIDE DEF seen
    <3> QED
      BY <1>7
  <2> HIDE DEF a, last
  <2>3. S \subseteq Slots /\ \A q \in S : <<a, q>> \in DOMAIN d.tb
    BY DEF RowSlots
  <2> HIDE DEF S
  <2>4. Max(S) \in S
    BY <2>1, <2>3, LastSlot
  <2> QED
    BY <2>2, <2>3, <2>4
<1> HIDE DEF last, m
<1>9. Carried(d, x)
  BY <1>6, <1>7, <1>8, ForwardLoopCarries
<1> HIDE DEF x
<1>10. e = x
  BY <1>9 DEF Carried
<1>11. Books(e, sequence)
  BY <1>5, <1>9, <1>10, CarriedBooks
<1> QED
  BY <1>1, <1>11, Now, CommitBooks

LEMMA DeletePeriodBooks ==
  ASSUME BInv, NEW p, DeleteAccountingPeriod(p)
  PROVE  BInv'
<1> DEFINE e == Removed(p)
           v == periods \ {p}
           w == frozen \ {p}
           D == {j \in DOMAIN trialbal : j[2] # p}
           tb == [k \in D |-> trialbal[k]]
<1>1. Commit(e, sequence) /\ p \notin closed /\ ~PostedInto(p)
  BY DEF DeleteAccountingPeriod
<1>2. e = [DB EXCEPT !.periods = v, !.frozen = w, !.tb = tb]
  BY DEF Removed, DB
<1>3. /\ DOMAIN tb = D /\ \A k \in D : tb[k] = trialbal[k]
      /\ v \subseteq periods /\ closed \subseteq v /\ w \subseteq v
  BY <1>1, CalendarNow
<1>4. /\ IsDB(e) /\ e.gl = gltrans /\ e.sl = sltrans /\ e.gs = glseries /\ e.ilp = itemlocpost
      /\ e.periods = v /\ e.closed = closed /\ e.frozen = w /\ e.yearclosed = yearclosed
      /\ e.tb = tb
  <2> HIDE DEF e, v, w, tb
  <2>1. e = [DB EXCEPT !.periods = v, !.frozen = w, !.tb = tb]
    BY <1>2
  <2>2. /\ IsDB(e) /\ e.gl = DB.gl /\ e.sl = DB.sl /\ e.gs = DB.gs /\ e.ilp = DB.ilp
        /\ e.periods = v /\ e.closed = DB.closed /\ e.frozen = w
        /\ e.yearclosed = DB.yearclosed /\ e.tb = tb
    <3>1. IsDB(DB)
      BY Now
    <3> QED
      BY ONLY <2>1, <3>1 DEF IsDB
  <2> QED
    BY <2>2, Now
<1> HIDE DEF e, tb, v, w
<1>5. /\ Typed(DB, sequence) /\ Whole(gltrans) /\ OnePeriod(gltrans) /\ Fresh(DB)
      /\ GLTyped(gltrans) /\ TBTyped(trialbal) /\ TallyOf(trialbal, gltrans)
      /\ IsRows(gltrans)
  BY Now DEF Books, Ledger, Tallied, Base
<1>6. CalendarOf(e)
  BY <1>3, <1>4, CalendarNow DEF CalendarOf
<1>7. Typed(e, sequence)
  BY <1>4, <1>5, <1>6, TypedParts, Now
<1>8. TBTyped(e.tb)
  BY <1>3, <1>4, <1>5 DEF TBTyped
<1>9. TallyOf(tb, gltrans)
  <2>1. ASSUME NEW i \in DOMAIN gltrans, gltrans[i].posted
        PROVE  KeyOf(gltrans[i]) \in D
    <3>1. gltrans[i].period # p
      BY <1>1, <2>1 DEF PostedInto
    <3>2. KeyOf(gltrans[i]) \in DOMAIN trialbal /\ KeyOf(gltrans[i])[2] = gltrans[i].period
      BY <1>5, <2>1 DEF TallyOf, KeyOf
    <3> QED
      BY <3>1, <3>2
  <2> QED
    BY <1>3, <1>5, <2>1 DEF TallyOf
<1>10. Tallied(e)
  BY <1>4, <1>5, <1>6, <1>8, <1>9 DEF Tallied, Base, CalendarOf
<1>11. Fresh(e)
  BY <1>4, <1>5, Now DEF Fresh
<1>12. Books(e, sequence)
  BY <1>4, <1>5, <1>7, <1>10, <1>11 DEF Books, Ledger
<1> QED
  BY <1>1, <1>12, Now, CommitBooks

\* The procedures on periods, years and balances.
LEMMA CalendarBooks ==
  ASSUME BInv, Calendar
  PROVE  BInv'
<1>1. CASE \E p \in Slots :
          \/ CloseAccountingPeriod(p)
          \/ FreezeAccountingPeriod(p)
          \/ DeleteAccountingPeriod(p)
          \/ \E priv \in BOOLEAN : \/ OpenAccountingPeriod(p, priv)
                                   \/ ThawAccountingPeriod(p, priv)
                                   \/ Create(p, priv)
  BY <1>1, CloseBooks, FreezeBooks, DeletePeriodBooks, OpenBooks, ThawBooks, CreateBooks
     DEF Create
<1>2. CASE \E y \in Years : CloseAccountingYearPeriod(y) \/ OpenAccountingYearPeriod(y)
  BY <1>2, CloseYearBooks, OpenYearBooks
<1>3. CASE \E a \in Accounts : ForwardUpdateAccount(a)
  BY <1>3, ForwardBooks
<1> QED
  BY <1>1, <1>2, <1>3 DEF Calendar

-----------------------------------------------------------------------------
(* The theorems.                                                           *)

LEMMA EmptyBooks ==
  ASSUME Init
  PROVE  BInv
<1>0. /\ gltrans = <<>> /\ sltrans = <<>> /\ glseries = <<>> /\ itemlocpost = {}
      /\ trialbal = [k \in {} |-> 0] /\ periods = InitialPeriods
      /\ closed = {} /\ frozen = {} /\ yearclosed = {} /\ sequence = 0
  BY DEF Init
<1> DEFINE none == <<>>
<1>1. none \in Seq({}) /\ DOMAIN none = {} /\ {none[i] : i \in DOMAIN none} = {}
  OBVIOUS
<1>2. IsSeq(none)
  BY <1>1 DEF IsSeq
<1>3. gltrans = none /\ sltrans = none /\ glseries = none /\ DOMAIN none = {}
  BY <1>0, <1>1
<1>4. DOMAIN trialbal = {}
  BY <1>0
<1> HIDE DEF none
<1>5. IsDB(DB) /\ DB.gl = none /\ DB.sl = none /\ DB.gs = none /\ DB.ilp = {}
      /\ DB.tb = trialbal /\ DB.periods = InitialPeriods /\ DB.closed = {} /\ DB.frozen = {}
      /\ DB.yearclosed = {}
  BY <1>0, <1>3 DEF DB, IsDB
<1>6. sequence = 0 /\ 0 \in 0..MaxSequence
  BY <1>0, LedgerAssumption
<1>7. CalendarOf(DB)
  BY <1>5, LedgerAssumption DEF CalendarOf
<1>8. Typed(DB, sequence)
  BY <1>2, <1>3, <1>5, <1>7, TypedParts DEF GLOf, SLOf, GSOf
<1>9. Whole(DB.gl)
  <2>1. \A q : OfSequence(none, q) = {}
    BY <1>3 DEF OfSequence
  <2>2. \A q \in Int : Total(none, OfSequence(none, q)) = 0
    BY <2>1, SumOfNone DEF Total
  <2> QED
    BY <1>3, <1>5, <2>2 DEF Whole
<1>10. OnePeriod(DB.gl) /\ Fresh(DB)
  BY <1>3, <1>5 DEF OnePeriod, Fresh
<1>11. Tallied(DB)
  <2>1. GLTyped(DB.gl) /\ TBTyped(DB.tb) /\ TallyOf(DB.tb, DB.gl)
    BY <1>2, <1>3, <1>4, <1>5 DEF GLTyped, TBTyped, TallyOf
  <2> QED
    BY <1>5, <1>7, <2>1, RowsOfLedger DEF Tallied, Base, CalendarOf
<1> QED
  BY <1>6, <1>8, <1>9, <1>10, <1>11 DEF BInv, Books, Ledger

LEMMA NextBooks ==
  ASSUME BInv, [Next]_vars
  PROVE  BInv'
<1>1. CASE Entry
  <2>1. PICK pair \in EntryPairs, amt \in Amounts, p \in Slots, post \in BOOLEAN,
             onlyGL \in BOOLEAN, priv \in BOOLEAN :
          InsertGLTransaction(pair[1], pair[2], amt, p, post, onlyGL, priv)
    BY <1>1 DEF Entry
  <2>2. pair[1] \in Accounts /\ pair[2] \in Accounts /\ amt \in Int
    BY LedgerAssumption
  <2> QED
    BY <2>1, <2>2, EntryBooks
<1>2. CASE Distribution
  BY <1>2, DistributionBooks
<1>3. CASE Series
  BY <1>3, SeriesBooks
<1>4. CASE Correction
  BY <1>4, CorrectionBooks
<1>5. CASE Journals
  BY <1>5, JournalsBooks
<1>6. CASE Calendar
  BY <1>6, CalendarBooks
<1>7. CASE UNCHANGED vars
  <2>1. DB' = DB /\ sequence' = sequence
    BY <1>7 DEF vars, DB
  <2> QED
    BY <2>1 DEF BInv
<1> QED
  BY <1>1, <1>2, <1>3, <1>4, <1>5, <1>6, <1>7 DEF Next

LEMMA BooksKept == Spec => []BInv
<1>1. Init => BInv
  BY EmptyBooks
<1>2. BInv /\ [Next]_vars => BInv'
  BY NextBooks
<1> QED
  BY <1>1, <1>2, PTL DEF Spec

\* Every table of the ledger holds rows of its kind, however entries, series,
\* journals and calendar procedures follow each other.
THEOREM TypeOKHolds == Spec => []TypeOK
<1>1. ASSUME BInv PROVE TypeOK
  <2>1. /\ sequence \in Nat /\ sequence \in 0..MaxSequence /\ MaxSequence \in Nat
        /\ GLOf(gltrans, sequence) /\ SLOf(sltrans, sequence) /\ GSOf(glseries, sequence)
        /\ TBTyped(trialbal) /\ itemlocpost \subseteq 1..sequence
    BY <1>1, Now, TypedParts, LedgerAssumption DEF Books, Ledger, Base
  <2>2. /\ GLOf(gltrans, MaxSequence) /\ SLOf(sltrans, MaxSequence)
    BY <2>1, MoreSequences
  <2>3. \A i \in DOMAIN gltrans : gltrans[i] \in GLRows
    BY <2>2 DEF GLOf, GLRows
  <2>4. \A i \in DOMAIN sltrans : sltrans[i] \in SLRows
    BY <2>2 DEF SLOf, SLRows
  <2>5. \A i \in DOMAIN glseries : glseries[i].sequence \in 1..sequence
    BY <2>1 DEF GSOf
  <2> QED
    BY <1>1, <2>1, <2>3, <2>4, <2>5, CalendarNow DEF TypeOK, TBTyped
<1> QED
  BY <1>1, BooksKept, PTL

\* The debits and credits of the trial balance rows that postIntoTrialBalance
\* and deleteGlSeries write, and the carrying procedures keep, are the posted
\* transactions of their account and period, for any chart of accounts, any
\* number of periods and any amounts.
THEOREM TallyHolds == Spec => []Tally
<1>1. ASSUME BInv PROVE Tally
  <2>1. TallyOf(trialbal, gltrans)
    BY <1>1, Now DEF Books, Tallied
  <2>2. ASSUME NEW k
        PROVE  Counted(k, 1) = CountedIn(gltrans, k, TRUE)
               /\ Counted(k, -1) = CountedIn(gltrans, k, FALSE)
    <3>1. {i \in DOMAIN gltrans :
             /\ gltrans[i].posted /\ <<gltrans[i].accnt, gltrans[i].period>> = k
             /\ (gltrans[i].amount > 0) = (1 = 1)} = CountedRows(gltrans, k, TRUE)
      BY DEF CountedRows, KeyOf
    <3>2. {i \in DOMAIN gltrans :
             /\ gltrans[i].posted /\ <<gltrans[i].accnt, gltrans[i].period>> = k
             /\ (gltrans[i].amount > 0) = (-1 = 1)} = CountedRows(gltrans, k, FALSE)
      BY DEF CountedRows, KeyOf
    <3> QED
      BY <3>1, <3>2 DEF Counted, SumOf, CountedIn, Total, AmountsOf
  <2> QED
    BY <2>1, <2>2 DEF Tally, TallyOf, KeyOf
<1> QED
  BY <1>1, BooksKept, PTL

\* Double entry: the posted transactions of every sequence sum to zero,
\* because postIntoTrialBalance posts all rows of a sequence or none.
THEOREM SequencesBalanceHolds == Spec => []SequencesBalance
<1>1. ASSUME BInv PROVE SequencesBalance
  <2> SUFFICES ASSUME NEW seq \in 1..sequence
               PROVE  SumOf(gltrans, LAMBDA r : r.posted /\ r.sequence = seq) = 0
    BY DEF SequencesBalance
  <2> DEFINE T == {i \in DOMAIN gltrans : gltrans[i].posted /\ gltrans[i].sequence = seq}
  <2>1. SumOf(gltrans, LAMBDA r : r.posted /\ r.sequence = seq) = Total(gltrans, T)
    BY DEF SumOf, Total, AmountsOf
  <2>2. Whole(gltrans) /\ seq \in Int
    BY <1>1, Now DEF Books, Ledger
  <2>3. T = {} \/ T = OfSequence(gltrans, seq)
    BY <2>2 DEF Whole, OfSequence
  <2> HIDE DEF T
  <2>4. Total(gltrans, T) = 0
    BY <2>2, <2>3, SumOfNone DEF Whole, Total
  <2> QED
    BY <2>1, <2>4
<1> QED
  BY <1>1, BooksKept, PTL

=============================================================================
