---------------------------- MODULE GeneralLedger ----------------------------
(***************************************************************************)
(* The general ledger of the xTuple database: the stored procedures that   *)
(* write journal pairs, series, subledger journals, trial balances and     *)
(* accounting periods.  Each procedure runs in a transaction of its own and *)
(* is one action here.  A RAISE EXCEPTION rolls the transaction back, so an *)
(* action is enabled only when its procedure runs to a state-changing end.  *)
(*                                                                         *)
(* Dates are abstracted to period slots 1..NSlots: slot s stands for every *)
(* date between its start and its end, s + 1 starts the day after s ends,  *)
(* and createAccountingPeriod turns a slot into a row of "period".          *)
(* Fiscal years exist throughout; YearOf[s] is the year slot s lies in.     *)
(*                                                                         *)
(* The procedures are operators on a record d holding the tables, since    *)
(* they call each other; d.raised is TRUE once a trigger has raised.        *)
(***************************************************************************)
EXTENDS Integers, Sequences, FiniteSets, SequencesExt

CONSTANTS
    AccountOrder,         \* the chart of accounts, ORDER BY accnt_id
    RevExp,               \* accounts with accnt_type IN ('E', 'R')
    YearEndEquityAccount, \* metric of that name
    DiscrepancyAccount,   \* metric GLSeriesDiscrepancyAccount, or NoAccount
    NoAccount,            \* no such metric
    ForwardAccounts,      \* accounts with accnt_forwardupdate
    ManualForwardUpdate,  \* metric: post-time forward update is on
    UseJournals,          \* metric: post to the subledger (sltrans) first
    NSlots,               \* number of period slots
    YearOf,               \* slot -> fiscal year number
    Today,                \* the slot of CURRENT_DATE
    Orderly,              \* whether users create periods in date order
    InitialPeriods,       \* periods defined, open and empty, at the start
    EntryPairs,           \* <<credit, debit>> account pairs the callers pass
    Amounts,              \* amounts the callers pass
    SeriesRows,           \* <<account, amount>> pairs callers add to a series
    Freezable,            \* bound: slots users freeze
    MaxSequence,          \* bound: calls of fetchGLSequence
    MaxSeries,            \* bound: rows of glseries at any time
    MaxLedger             \* bound: rows of gltrans

Accounts == ToSet(AccountOrder)
Slots == 1..NSlots
Years == {YearOf[s] : s \in Slots}

ASSUME LedgerAssumption ==
    /\ AccountOrder \in Seq(Accounts)
    /\ \A i, j \in DOMAIN AccountOrder : AccountOrder[i] = AccountOrder[j] => i = j
    /\ RevExp \subseteq Accounts
    /\ ForwardAccounts \subseteq Accounts
    /\ YearEndEquityAccount \in Accounts \ RevExp
    /\ NoAccount \notin Accounts
    /\ DiscrepancyAccount \in Accounts \cup {NoAccount}
    /\ ManualForwardUpdate \in BOOLEAN
    /\ UseJournals \in BOOLEAN
    /\ Orderly \in BOOLEAN
    /\ NSlots \in Nat \ {0}
    /\ YearOf \in [Slots -> Nat]
    /\ \A s, t \in Slots : s <= t => YearOf[s] <= YearOf[t]
    /\ Today \in Int
    /\ InitialPeriods \subseteq Slots
    /\ EntryPairs \subseteq Accounts \X Accounts
    /\ Amounts \subseteq Int
    /\ SeriesRows \subseteq Accounts \X Int
    /\ MaxSequence \in Nat
    /\ Freezable \subseteq Slots

VARIABLES
    gltrans,     \* rows of gltrans in insertion order
    sltrans,     \* rows of sltrans in insertion order
    itemlocpost, \* sequences an inventory transaction still has to post
    glseries,    \* rows of glseries in insertion order
    trialbal,    \* <<account, slot>> -> row, for the rows there are
    periods,     \* slots that are rows of period
    closed,      \* period_closed
    frozen,      \* period_freeze
    yearclosed,  \* yearperiod_closed
    sequence     \* last value of the G/L sequence

vars == <<gltrans, sltrans, itemlocpost, glseries, trialbal, periods, closed, frozen,
          yearclosed, sequence>>

\* The positions ids in their order.
InSequence(ids) ==
    CHOOSE order \in [1..Cardinality(ids) -> ids] :
        \A m, n \in DOMAIN order : m < n => order[m] < order[n]

\* The rows of s at the positions ids, in their order.
Chosen(s, ids) == [n \in 1..Cardinality(ids) |-> s[InSequence(ids)[n]]]

\* The sum of the amounts of the rows of s that satisfy Sel.
SumOf(s, Sel(_)) ==
    SumFunctionOnSet([i \in DOMAIN s |-> s[i].amount], {i \in DOMAIN s : Sel(s[i])})

-----------------------------------------------------------------------------
(* Trial balances.                                                         *)

Keys == Accounts \X Slots

Row(beginning, debits, credits, yearend, dirty) ==
    [beginning |-> beginning, debits |-> debits, credits |-> credits,
     ending |-> beginning - debits + credits,
     yearend |-> yearend, dirty |-> dirty]

\* A row restarted from a beginning balance, its movements kept.
Rebased(row, beginning, dirty) ==
    Row(beginning, row.debits, row.credits, row.yearend, dirty)

\* The row trigger: in a closed period only rows of the year-end equity
\* account, and rows whose beginning equals their ending, may be written.
MayAlter(d, k, row) ==
    \/ k[2] \notin d.closed
    \/ k[1] = YearEndEquityAccount
    \/ row.beginning = row.ending

\* d with the trial balance, and the trigger's verdict, of e.
WithBalances(d, e) == [d EXCEPT !.tb = e.tb, !.raised = e.raised]

Write(d, k, row) ==
    WithBalances(d, [tb |-> [j \in DOMAIN d.tb \cup {k} |-> IF j = k THEN row ELSE d.tb[j]],
                     raised |-> d.raised \/ ~MayAlter(d, k, row)])

\* The loop of forwardUpdateTrialBalance over the periods after slot p: what
\* it starts with, its turn for slot q, and what follows it.  CrossYear stands
\* for updateRetainedEarnings, whose failure ends the loop and leaves the
\* first row dirty.
Start(d, a, p) ==
    [d |-> d, accnt |-> a, ending |-> d.tb[<<a, p>>].ending,
     year |-> YearOf[p], stopped |-> FALSE]

Visit(s, q, CrossYear(_, _)) ==
    LET k       == <<s.accnt, q>>
        newYear == s.accnt \in RevExp /\ YearOf[q] # s.year
        crossed == IF newYear /\ s.year \in s.d.yearclosed
                   THEN CrossYear(s.d, s.year)
                   ELSE [d |-> s.d, ok |-> TRUE]
        carried == IF newYear THEN 0 ELSE s.ending
        row     == IF k \in DOMAIN s.d.tb
                   THEN Rebased(s.d.tb[k], carried + s.d.tb[k].yearend, FALSE)
                   ELSE Row(carried, 0, 0, 0, FALSE)
    IN  IF s.stopped \/ q \notin s.d.periods THEN s
        ELSE IF crossed.ok
        THEN [s EXCEPT !.d = Write(crossed.d, k, row),
                       !.ending = row.ending, !.year = YearOf[q]]
        ELSE [s EXCEPT !.stopped = TRUE]

SlotsAfter(p) == [i \in 1..(NSlots - p) |-> p + i]

Finish(s, p) ==
    LET k == <<s.accnt, p>>
    IN  IF s.stopped THEN s.d ELSE Write(s.d, k, [s.d.tb[k] EXCEPT !.dirty = FALSE])

FirstSlot(y) == CHOOSE s \in Slots :
                   YearOf[s] = y /\ \A t \in Slots : YearOf[t] = y => s <= t

\* (mutant) every account counts as revenue or expense
ProfitLossOfAll(gl, y) ==
    SumOf(gl, LAMBDA r : r.posted /\ ~r.deleted /\ YearOf[r.period] = y)

\* The year's profit or loss: posted revenue and expense transactions.
ProfitLoss(gl, y) ==
    SumOf(gl, LAMBDA r : /\ r.accnt \in RevExp /\ r.posted /\ ~r.deleted
                         /\ YearOf[r.period] = y)

\* updateRetainedEarnings needs the next year, its first period and the
\* equity account's trial balance there (-4, -8, -9).
CanRetain(d, y) ==
    /\ y + 1 \in Years
    /\ FirstSlot(y + 1) \in d.periods
    /\ <<YearEndEquityAccount, FirstSlot(y + 1)>> \in DOMAIN d.tb

\* The equity account is never revenue or expense: its own carry crosses no year.
NoCrossing(d, y) == [d |-> d, ok |-> TRUE]
VisitEquity(s, q) == Visit(s, q, NoCrossing)

updateRetainedEarnings(d, y) ==
    LET k   == <<YearEndEquityAccount, FirstSlot(y + 1)>>
        pl  == ProfitLoss(d.gl, y)
        row == Row(d.tb[k].beginning - d.tb[k].yearend + pl,
                   d.tb[k].debits, d.tb[k].credits, pl, d.tb[k].dirty)
    IN  IF CanRetain(d, y)
        THEN [d |-> Finish(FoldLeft(VisitEquity, Start(Write(d, k, row), k[1], k[2]),
                                    SlotsAfter(k[2])), k[2]),
              ok |-> TRUE]
        ELSE [d |-> d, ok |-> FALSE]

VisitPeriod(s, q) == Visit(s, q, updateRetainedEarnings)

forwardUpdateTrialBalance(d, a, p) ==
    WithBalances(d, Finish(FoldLeft(VisitPeriod, Start(d, a, p), SlotsAfter(p)), p))

\* The tail of postIntoTrialBalance and deleteGlSeries.
ForwardIfShould(d, a, p) ==
    IF ManualForwardUpdate /\ a \in ForwardAccounts
    THEN forwardUpdateTrialBalance(d, a, p) ELSE d

-----------------------------------------------------------------------------
(* Posting gltrans into the trial balance.                                 *)

\* (mutant) closed periods are forgotten
PostableClosedToo(d, p, priv) == p \in d.periods /\ (p \notin d.frozen \/ priv)

\* A frozen period takes postings from holders of PostFrozenPeriod only.
Postable(d, p, priv) == p \in d.periods \ d.closed /\ (p \notin d.frozen \/ priv)

Pending(d, seqs, priv) ==
    {i \in DOMAIN d.gl : /\ d.gl[i].sequence \in seqs
                         /\ ~d.gl[i].posted /\ ~d.gl[i].deleted
                         /\ Postable(d, d.gl[i].period, priv)}

\* One gltrans row into its trial balance row; the row is marked posted only
\* after the forward update has run.
PostRow(d, i) ==
    LET r   == d.gl[i]
        k   == <<r.accnt, r.period>>
        old == IF k \in DOMAIN d.tb THEN d.tb[k] ELSE Row(0, 0, 0, 0, TRUE)
        row == IF r.amount > 0
               THEN Row(old.beginning, old.debits, old.credits + r.amount, old.yearend, TRUE)
               ELSE Row(old.beginning, old.debits - r.amount, old.credits, old.yearend, TRUE)
    IN  [ForwardIfShould(Write(d, k, row), r.accnt, r.period)
           EXCEPT !.gl[i].posted = TRUE]

\* postIntoTrialBalance for each of a set of sequences.
postIntoTrialBalance(d, seqs, priv) ==
    LET ids  == Pending(d, seqs, priv)
        done == FoldLeft(PostRow, d, InSequence(ids))
    IN  [WithBalances(d, done) EXCEPT
           !.gl = [i \in DOMAIN d.gl |-> [d.gl[i] EXCEPT !.posted = @ \/ i \in ids]]]

GLRow(seq, a, amt, p, rec) ==
    [sequence |-> seq, accnt |-> a, amount |-> amt, period |-> p,
     posted |-> FALSE, deleted |-> FALSE, rec |-> rec]

SLRow(seq, a, amt, p) ==
    [sequence |-> seq, accnt |-> a, amount |-> amt, period |-> p,
     posted |-> FALSE, glsequence |-> 0]

-----------------------------------------------------------------------------
(* The tables as one record, and committing it.                            *)

DB == [gl |-> gltrans, sl |-> sltrans, ilp |-> itemlocpost, gs |-> glseries, tb |-> trialbal,
       periods |-> periods, closed |-> closed, frozen |-> frozen,
       yearclosed |-> yearclosed, raised |-> FALSE]

Commit(d, seq) ==
    /\ ~d.raised
    /\ Len(d.gl) <= MaxLedger
    /\ gltrans' = d.gl
    /\ sltrans' = d.sl
    /\ itemlocpost' = d.ilp
    /\ glseries' = d.gs
    /\ trialbal' = d.tb
    /\ periods' = d.periods
    /\ closed' = d.closed
    /\ frozen' = d.frozen
    /\ yearclosed' = d.yearclosed
    /\ sequence' = seq

fetchGLSequence == sequence + 1
CanFetch == sequence < MaxSequence

Init ==
    /\ gltrans = <<>> /\ sltrans = <<>> /\ glseries = <<>> /\ itemlocpost = {}
    /\ trialbal = [k \in {} |-> 0]
    /\ periods = InitialPeriods
    /\ closed = {} /\ frozen = {} /\ yearclosed = {}
    /\ sequence = 0

-----------------------------------------------------------------------------
(* Journal entries and G/L series.                                         *)

\* insertGLTransaction: credit one account, debit another.  Inventory passes
\* post = FALSE and notes the sequence in itemlocpost.
InsertGLTransaction(cr, db, amt, p, post, onlyGL, priv) ==
    LET seq == fetchGLSequence
        d   == [DB EXCEPT !.gl = @ \o <<GLRow(seq, cr, amt, p, FALSE),
                                         GLRow(seq, db, -amt, p, FALSE)>>]
    IN  /\ amt # 0
        /\ CanFetch
        /\ Postable(DB, p, priv)
        /\ IF UseJournals /\ ~onlyGL
           THEN Commit([DB EXCEPT !.sl = @ \o <<SLRow(seq, cr, amt, p),
                                                SLRow(seq, db, -amt, p)>>], seq)
           ELSE Commit(IF post THEN postIntoTrialBalance(d, {seq}, priv)
                       ELSE [d EXCEPT !.ilp = @ \cup {seq}], seq)

\* postItemLocSeries: post what the inventory transaction put off.
PostItemLocSeries(seq, priv) ==
    /\ seq \in itemlocpost
    /\ Commit(postIntoTrialBalance([DB EXCEPT !.ilp = @ \ {seq}], {seq}, priv), sequence)

\* deleteItemlocSeries of a failed distribution: nothing posts the sequence.
DeleteItemLocSeries(seq) ==
    /\ seq \in itemlocpost
    /\ Commit([DB EXCEPT !.ilp = @ \ {seq}], sequence)

\* The rows of glseries of one sequence, and the others.
SeriesOf(seq) ==
    Chosen(glseries, {i \in DOMAIN glseries : glseries[i].sequence = seq})
SeriesBut(seq) ==
    Chosen(glseries, {i \in DOMAIN glseries : glseries[i].sequence # seq})
NonZero(s) == Chosen(s, {i \in DOMAIN s : s[i].amount # 0})
EveryRow(r) == TRUE
OpenSeries == {glseries[i].sequence : i \in DOMAIN glseries}

\* insertIntoGLSeries: add a row to a series, the sequence fetched by the caller.
InsertIntoGLSeries(seq, a, amt, p, priv) ==
    /\ seq \in OpenSeries \/ (CanFetch /\ seq = fetchGLSequence)
    /\ Len(glseries) < MaxSeries
    /\ Postable(DB, p, priv)
    /\ Commit([DB EXCEPT !.gs = Append(@, [sequence |-> seq, accnt |-> a,
                                           amount |-> amt, period |-> p])],
              IF seq \in OpenSeries THEN sequence ELSE seq)

\* The end both series posters share: rows become journals or ledger rows,
\* the series is deleted and its sequence posted.
PostedSeries(seq, rows, priv) ==
    LET sl == [i \in DOMAIN rows |-> SLRow(seq, rows[i].accnt, rows[i].amount, rows[i].period)]
        gl == [i \in DOMAIN rows |-> GLRow(seq, rows[i].accnt, rows[i].amount, rows[i].period, FALSE)]
        d  == [DB EXCEPT !.gs = SeriesBut(seq)]
    IN  postIntoTrialBalance(IF UseJournals THEN [d EXCEPT !.sl = @ \o sl]
                             ELSE [d EXCEPT !.gl = @ \o gl], {seq}, priv)

\* GROUP BY account, date and sign: rows of one group, and one row per group.
SameGroup(r, q) == r.accnt = q.accnt /\ r.period = q.period /\ (r.amount > 0) = (q.amount > 0)
Grouped(s) ==
    LET leads == Chosen(s, {i \in DOMAIN s : \A j \in DOMAIN s :
                              SameGroup(s[i], s[j]) => i <= j})
    IN  [i \in DOMAIN leads |->
           [leads[i] EXCEPT !.amount = SumOf(s, LAMBDA r : SameGroup(leads[i], r))]]

\* postGLSeries: balance the series against the discrepancy account, sum it
\* per account, date and sign, and post it.
PostGLSeries(seq, priv) ==
    LET series == SeriesOf(seq)
        delta  == SumOf(series, EveryRow)
        latest == Max({series[i].period : i \in DOMAIN series})
        whole  == IF delta = 0 THEN series
                  ELSE Append(series, [sequence |-> seq, accnt |-> DiscrepancyAccount,
                                       amount |-> -delta, period |-> latest])
        rows   == Grouped(NonZero(whole))
    IN  /\ seq \in OpenSeries
        /\ delta # 0 => DiscrepancyAccount # NoAccount
        /\ \A i \in DOMAIN rows : Postable(DB, rows[i].period, priv)
        /\ Commit(PostedSeries(seq, rows, priv), sequence)

\* (mutant) the balance is not checked
PostUnbalancedSeries(seq, priv) ==
    LET rows == NonZero(SeriesOf(seq))
    IN  /\ seq \in OpenSeries
        /\ \A i \in DOMAIN rows : Postable(DB, rows[i].period, priv)
        /\ Commit(PostedSeries(seq, rows, priv), sequence)

\* postGLSeriesNoSumm: post a series that balances, row by row.
PostGLSeriesNoSumm(seq, priv) ==
    LET rows == NonZero(SeriesOf(seq))
    IN  /\ seq \in OpenSeries
        /\ SumOf(rows, EveryRow) = 0
        /\ \A i \in DOMAIN rows : Postable(DB, rows[i].period, priv)
        /\ Commit(PostedSeries(seq, rows, priv), sequence)

\* deleteglseries(INTEGER): drop a series that was not posted.
DropGLSeries(seq) ==
    /\ seq \in OpenSeries
    /\ Commit([DB EXCEPT !.gs = SeriesBut(seq)], sequence)

-----------------------------------------------------------------------------
(* Undoing posted sequences, and posting subledger journals.               *)

Live(seq) == {i \in DOMAIN gltrans : gltrans[i].sequence = seq /\ ~gltrans[i].deleted}

\* (mutant) the row is posted a second time instead of taken back
UnpostTwice(d, i) == [PostRow(d, i) EXCEPT !.gl[i].posted = FALSE, !.gl[i].deleted = TRUE]

\* One row of a deleted sequence taken back out of its trial balance.
UnpostRow(d, i) ==
    LET r   == d.gl[i]
        k   == <<r.accnt, r.period>>
        old == d.tb[k]
        row == IF r.amount > 0
               THEN Row(old.beginning, old.debits, old.credits - r.amount, old.yearend, TRUE)
               ELSE Row(old.beginning, old.debits + r.amount, old.credits, old.yearend, TRUE)
    IN  [ForwardIfShould(Write(d, k, row), r.accnt, r.period)
           EXCEPT !.gl[i].posted = FALSE, !.gl[i].deleted = TRUE]

\* deleteGlSeries(INTEGER, TEXT): every live row of the sequence must be
\* posted, unreconciled, in an open period and have a trial balance row.
\* Journals posted into the ledger by the sequence become unposted again.
DeleteGLSeries(seq, priv) ==
    LET ids  == Live(seq)
        done == FoldLeft(UnpostRow, DB, InSequence(ids))
        gl   == [i \in DOMAIN gltrans |->
                   IF i \in ids THEN [gltrans[i] EXCEPT !.posted = FALSE, !.deleted = TRUE]
                   ELSE gltrans[i]]
        d    == [WithBalances(DB, done) EXCEPT !.gl = gl]
    IN  /\ ids # {}
        /\ \A i \in ids : /\ Postable(DB, gltrans[i].period, priv)
                          /\ gltrans[i].posted /\ ~gltrans[i].rec
                          /\ <<gltrans[i].accnt, gltrans[i].period>> \in DOMAIN trialbal
        /\ Commit([d EXCEPT
             !.sl = [j \in DOMAIN sltrans |->
                       IF sltrans[j].glsequence = seq
                       THEN [sltrans[j] EXCEPT !.posted = FALSE, !.glsequence = 0]
                       ELSE sltrans[j]]], sequence)

Negated(s, seq, newseq, p) ==
    LET rows == Chosen(s, {i \in DOMAIN s : s[i].sequence = seq})
    IN  [i \in DOMAIN rows |-> [sequence |-> newseq, accnt |-> rows[i].accnt,
                                amount |-> -rows[i].amount, period |-> p]]

\* reverseGLSeries: a copy of the sequence, deleted rows too, with the signs
\* turned and a date of the caller's choice, posted if that date is postable.
ReverseGLSeries(seq, p, priv) ==
    LET new  == fetchGLSequence
        gl   == Negated(gltrans, seq, new, p)
        sl   == Negated(sltrans, seq, new, p)
        inGL == gl # <<>>
    IN  /\ CanFetch
        /\ inGL \/ sl # <<>>
        /\ Commit(IF inGL
                  THEN postIntoTrialBalance(
                         [DB EXCEPT !.gl = @ \o [i \in DOMAIN gl |->
                            GLRow(new, gl[i].accnt, gl[i].amount, p, FALSE)]], {new}, priv)
                  ELSE [DB EXCEPT !.sl = @ \o [i \in DOMAIN sl |->
                            SLRow(new, sl[i].accnt, sl[i].amount, p)]], new)

\* (mutant) every unposted journal is marked, whichever were summed
TakenAll(ids, seq) ==
    [j \in DOMAIN sltrans |->
       IF ~sltrans[j].posted THEN [sltrans[j] EXCEPT !.posted = TRUE, !.glsequence = seq]
       ELSE sltrans[j]]

Taken(ids, seq) ==
    [j \in DOMAIN sltrans |->
       IF j \in ids THEN [sltrans[j] EXCEPT !.posted = TRUE, !.glsequence = seq]
       ELSE sltrans[j]]

JournalSum(ids, a) ==
    SumOf(Chosen(sltrans, {j \in ids : sltrans[j].accnt = a}), EveryRow)

\* Both postJournals: the chosen unposted journals, if they balance, become
\* one ledger row per account dated p, and are marked posted by it.
PostedJournals(ids, p, rec, priv) ==
    LET new   == fetchGLSequence
        accts == Chosen(AccountOrder, {n \in DOMAIN AccountOrder :
                                         JournalSum(ids, AccountOrder[n]) # 0})
        rows  == [i \in DOMAIN accts |-> GLRow(new, accts[i], JournalSum(ids, accts[i]), p, rec)]
        d     == [DB EXCEPT !.sl = Taken(ids, new)]
    IN  postIntoTrialBalance([d EXCEPT !.gl = @ \o rows], {new}, priv)

Balances(ids) == SumOf(Chosen(sltrans, ids), EveryRow) = 0

\* postJournals(INTEGER): one sequence, dated today.
PostJournals(seq, priv) ==
    LET ids == {j \in DOMAIN sltrans : sltrans[j].sequence = seq /\ ~sltrans[j].posted}
    IN  /\ CanFetch
        /\ ids # {}
        /\ Balances(ids)
        /\ Today \notin closed
        /\ Today \in frozen => priv
        /\ Today \in Slots
        /\ Commit(PostedJournals(ids, Today, TRUE, priv), fetchGLSequence)

\* postJournals(TEXT, DATE, DATE, DATE): every journal of a source dated
\* between two slots.  Only a frozen period is refused.
PostJournalsBySource(from, to, p, priv) ==
    LET ids == {j \in DOMAIN sltrans : sltrans[j].period \in from..to /\ ~sltrans[j].posted}
    IN  /\ CanFetch
        /\ ids # {}
        /\ Balances(ids)
        /\ p \in frozen => priv
        /\ Commit(PostedJournals(ids, p, FALSE, priv), fetchGLSequence)

-----------------------------------------------------------------------------
(* Trial balance maintenance and accounting periods.                       *)

RowSlots(d, a) == {p \in Slots : <<a, p>> \in DOMAIN d.tb}
DirtySlots(d, a) == {p \in RowSlots(d, a) : d.tb[<<a, p>>].dirty}

\* forwardUpdateAccount: carry from the account's first dirty row, or start
\* it with a zero row in the first period.
ForwardUpdateAccount(a) ==
    LET first == Min(periods)
    IN  \/ /\ DirtySlots(DB, a) # {}
           /\ Commit(forwardUpdateTrialBalance(DB, a, Min(DirtySlots(DB, a))), sequence)
        \/ /\ RowSlots(DB, a) = {} /\ periods # {}
           /\ Commit(forwardUpdateTrialBalance(
                Write(DB, <<a, first>>, Row(0, 0, 0, 0, FALSE)), a, first), sequence)

\* The period trigger keeps period_initial on the first period.
Initial(p) == p = Min(periods)

\* One account of closeAccountingPeriod, k = <<account, period>>: settle its
\* row, carry it forward, and write the beginning balance of the next period.
CloseAccount(d, k) ==
    LET a       == k[1]
        p       == k[2]
        next    == <<a, p + 1>>
        has     == k \in DOMAIN d.tb
        settled == IF has
                   THEN forwardUpdateTrialBalance(
                          Write(d, k, Rebased(d.tb[k], d.tb[k].beginning, FALSE)), a, p)
                   ELSE Write(d, k, Row(0, 0, 0, 0, FALSE))
        ending  == IF has THEN d.tb[k].beginning - d.tb[k].debits + d.tb[k].credits ELSE 0
        carried == IF a \in RevExp /\ YearOf[p] # YearOf[p + 1] THEN 0 ELSE ending
    IN  Write(settled, next,
              IF next \in DOMAIN settled.tb
              THEN Rebased(settled.tb[next], carried + settled.tb[next].yearend,
                           settled.tb[next].dirty)
              ELSE Row(carried, 0, 0, 0, TRUE))

\* closeAccountingPeriod.  The initial period skips the checks on itself and
\* on its predecessor.
CloseAccountingPeriod(p) ==
    /\ p \in periods
    /\ ~Initial(p) => p \notin closed /\ p - 1 \in closed
    /\ p + 1 \in periods
    /\ p < Today
    /\ Commit([WithBalances(DB, FoldLeft(CloseAccount, DB, [n \in DOMAIN AccountOrder |->
                                                                <<AccountOrder[n], p>>]))
                 EXCEPT !.closed = @ \cup {p}], sequence)

\* The sequences with an unposted transaction dated p.
UnpostedIn(p) == {gltrans[i].sequence : i \in {j \in DOMAIN gltrans :
                      gltrans[j].period = p /\ ~gltrans[j].posted}}

Reopen(p, priv) ==
    Commit(postIntoTrialBalance([DB EXCEPT !.closed = @ \ {p}], UnpostedIn(p), priv), sequence)

\* (mutant) the year may be closed
OpenInClosedYear(p, priv) ==
    p \in closed /\ (\A q \in closed : q <= p) /\ Reopen(p, priv)

\* (mutant) later periods may be closed
OpenBeforeClosed(p, priv) == p \in closed /\ YearOf[p] \notin yearclosed /\ Reopen(p, priv)

\* openAccountingPeriod: reopen the last closed period of an open year and
\* post what waited for it.
OpenAccountingPeriod(p, priv) ==
    /\ p \in closed
    /\ \A q \in closed : q <= p
    /\ YearOf[p] \notin yearclosed
    /\ Reopen(p, priv)

FreezeAccountingPeriod(p) ==
    /\ p \in (periods \cap Freezable) \ frozen
    /\ Commit([DB EXCEPT !.frozen = @ \cup {p}], sequence)

\* thawAccountingPeriod: unfreeze an open period and post what waited for it.
ThawAccountingPeriod(p, priv) ==
    /\ p \in frozen \ closed
    /\ Commit(postIntoTrialBalance([DB EXCEPT !.frozen = @ \ {p}],
                                   UnpostedIn(p), priv), sequence)

\* (mutant) no account is forwarded into the new period
CreateWithoutForward(p, priv) ==
    /\ p \in Slots \ periods
    /\ Commit(postIntoTrialBalance([DB EXCEPT !.periods = @ \cup {p}],
                                   UnpostedIn(p), priv), sequence)

ForwardRow(d, k) == forwardUpdateTrialBalance(d, k[1], k[2])

\* createAccountingPeriod: post what waited for the period, then carry each
\* account from its last trial balance row.
CreateAccountingPeriod(p, priv) ==
    LET d    == postIntoTrialBalance([DB EXCEPT !.periods = @ \cup {p}],
                                     UnpostedIn(p), priv)
        seen == Chosen(AccountOrder, {n \in DOMAIN AccountOrder :
                                        RowSlots(d, AccountOrder[n]) # {}})
        last == [n \in DOMAIN seen |-> <<seen[n], Max(RowSlots(d, seen[n]))>>]
    IN  /\ p \in Slots \ periods
        /\ Commit(WithBalances(d, FoldLeft(ForwardRow, d, last)), sequence)

Removed(p) ==
    [DB EXCEPT !.periods = @ \ {p},
               !.frozen = @ \ {p},
               !.tb = [k \in {j \in DOMAIN @ : j[2] # p} |-> trialbal[k]]]
PostedInto(p) == \E i \in DOMAIN gltrans : gltrans[i].period = p /\ gltrans[i].posted

\* (mutant) the period may be closed
DeleteClosedPeriod(p) ==
    /\ p \in periods /\ ~PostedInto(p) /\ \A q \in periods : q <= p
    /\ Commit(Removed(p), sequence)

\* (mutant) the period may have posted transactions
DeletePostedPeriod(p) ==
    /\ p \in periods \ closed /\ \A q \in periods : q <= p
    /\ Commit(Removed(p), sequence)

\* deleteAccountingPeriod: the last period, open and without posted
\* transactions, goes with its trial balance rows.
DeleteAccountingPeriod(p) ==
    /\ p \in periods \ closed
    /\ ~PostedInto(p)
    /\ \A q \in periods : q <= p
    /\ Commit(Removed(p), sequence)

\* closeAccountingYearPeriod: the year's periods and the years before are
\* closed, and its result reaches the equity account.
CloseAccountingYearPeriod(y) ==
    LET result == updateRetainedEarnings(DB, y)
    IN  /\ y \in Years \ yearclosed
        /\ \A p \in periods : YearOf[p] = y => p \in closed
        /\ \A x \in Years : x < y => x \in yearclosed
        /\ \A s \in Slots : YearOf[s] = y => s < Today
        /\ result.ok
        /\ Commit([WithBalances(DB, result.d) EXCEPT !.yearclosed = @ \cup {y}], sequence)

\* openAccountingYearPeriod
OpenAccountingYearPeriod(y) ==
    /\ y \in yearclosed
    /\ \A x \in yearclosed : x <= y
    /\ Commit([DB EXCEPT !.yearclosed = @ \ {y}], sequence)

-----------------------------------------------------------------------------

Entry ==
    \E pair \in EntryPairs, amt \in Amounts, p \in Slots :
        \E post, onlyGL, priv \in BOOLEAN :
            InsertGLTransaction(pair[1], pair[2], amt, p, post, onlyGL, priv)

Distribution ==
    \E seq \in itemlocpost :
        \/ \E priv \in BOOLEAN : PostItemLocSeries(seq, priv)
        \/ DeleteItemLocSeries(seq)

Series ==
    \/ \E seq \in 1..MaxSequence, row \in SeriesRows, p \in Slots,
          priv \in BOOLEAN : InsertIntoGLSeries(seq, row[1], row[2], p, priv)
    \/ \E seq \in OpenSeries, priv \in BOOLEAN :
          \/ PostGLSeries(seq, priv)
          \/ PostGLSeriesNoSumm(seq, priv)
    \/ \E seq \in OpenSeries : DropGLSeries(seq)

Correction ==
    \E seq \in 1..sequence, priv \in BOOLEAN :
        \/ DeleteGLSeries(seq, priv)
        \/ \E p \in Slots : ReverseGLSeries(seq, p, priv)

Journals ==
    \E priv \in BOOLEAN :
        \/ \E seq \in 1..sequence : PostJournals(seq, priv)
        \/ \E from, to, p \in Slots : PostJournalsBySource(from, to, p, priv)

\* Users who create periods in date order, from the first one on, in fiscal
\* years still open, while no transaction waits for them.
InOrder(p) ==
    /\ p = 1 \/ p - 1 \in periods
    /\ YearOf[p] \notin yearclosed
    /\ \A i \in DOMAIN gltrans : gltrans[i].period = p => gltrans[i].deleted

Create(p, priv) == (Orderly => InOrder(p)) /\ CreateAccountingPeriod(p, priv)

Calendar ==
    \/ \E p \in Slots :
          \/ CloseAccountingPeriod(p)
          \/ FreezeAccountingPeriod(p)
          \/ DeleteAccountingPeriod(p)
          \/ \E priv \in BOOLEAN : \/ OpenAccountingPeriod(p, priv)
                                   \/ ThawAccountingPeriod(p, priv)
                                   \/ Create(p, priv)
    \/ \E y \in Years : CloseAccountingYearPeriod(y) \/ OpenAccountingYearPeriod(y)
    \/ \E a \in Accounts : ForwardUpdateAccount(a)

Next == Entry \/ Distribution \/ Series \/ Correction \/ Journals \/ Calendar

Spec == Init /\ [][Next]_vars

-----------------------------------------------------------------------------
(* Properties.                                                             *)

GLRows == [sequence : 1..MaxSequence, accnt : Accounts, amount : Int, period : Slots,
           posted : BOOLEAN, deleted : BOOLEAN, rec : BOOLEAN]
SLRows == [sequence : 1..MaxSequence, accnt : Accounts, amount : Int, period : Slots,
           posted : BOOLEAN, glsequence : 0..MaxSequence]
TBRows == [beginning : Int, debits : Int, credits : Int, ending : Int,
           yearend : Int, dirty : BOOLEAN]

\* Every table holds rows of its kind, and flags belong to rows that exist.
TypeOK ==
    /\ \A i \in DOMAIN gltrans : gltrans[i] \in GLRows
    /\ \A i \in DOMAIN sltrans : sltrans[i] \in SLRows
    /\ \A i \in DOMAIN glseries : glseries[i].sequence \in 1..sequence
    /\ DOMAIN trialbal \subseteq Keys
    /\ \A k \in DOMAIN trialbal : trialbal[k] \in TBRows
    /\ periods \subseteq Slots /\ closed \subseteq periods /\ frozen \subseteq periods
    /\ yearclosed \subseteq Years
    /\ sequence \in 0..MaxSequence /\ itemlocpost \subseteq 1..sequence

Counted(k, sign) ==
    SumOf(gltrans, LAMBDA r : /\ r.posted /\ <<r.accnt, r.period>> = k
                              /\ (r.amount > 0) = (sign = 1))

\* The movements of a trial balance row are exactly the posted transactions
\* of its account and period, and a posted transaction has such a row, over
\* every mix of posting, deleting, reversing, closing and reopening.
Tally ==
    /\ \A k \in DOMAIN trialbal : /\ trialbal[k].credits = Counted(k, 1)
                                  /\ trialbal[k].debits = -Counted(k, -1)
    /\ \A i \in DOMAIN gltrans : gltrans[i].posted =>
         <<gltrans[i].accnt, gltrans[i].period>> \in DOMAIN trialbal

\* Double entry: what is posted under one sequence sums to zero, whichever of
\* its rows waited for a period to open or to thaw.
SequencesBalance ==
    \A seq \in 1..sequence :
        SumOf(gltrans, LAMBDA r : r.posted /\ r.sequence = seq) = 0

\* A posted transaction lies in a period that exists and is not deleted.
PostedInPeriod ==
    \A i \in DOMAIN gltrans :
        gltrans[i].posted => gltrans[i].period \in periods /\ ~gltrans[i].deleted

Before(p) == {q \in periods : q < p}

\* What the row of account a carries into slot p.
CarriedInto(a, p) ==
    LET q == Max(Before(p))
    IN  IF \/ Before(p) = {}
           \/ <<a, q>> \notin DOMAIN trialbal
           \/ a \in RevExp /\ YearOf[q] # YearOf[p]
        THEN 0 ELSE trialbal[<<a, q>>].ending

Settled(a, p) == \A q \in DirtySlots(DB, a) : q > p

\* An account with no dirty row up to a period begins that period with what
\* the period before ended with (revenue and expense begin a year with zero),
\* plus the retained earnings credited to it.
CleanChain ==
    \A k \in DOMAIN trialbal :
        Settled(k[1], k[2]) =>
            trialbal[k].beginning = CarriedInto(k[1], k[2]) + trialbal[k].yearend

\* The trial balance balances: with every earlier year closed and every
\* account settled, the endings of a period sum to zero over all accounts.
TrialBalances ==
    \A p \in periods :
        (/\ \A y \in Years : y < YearOf[p] => y \in yearclosed
         /\ \A a \in Accounts : Settled(a, p) /\ (RowSlots(DB, a) # {} => p \in RowSlots(DB, a)))
        => SumFunctionOnSet([k \in DOMAIN trialbal |-> trialbal[k].ending],
                            {k \in DOMAIN trialbal : k[2] = p}) = 0

\* A closed year's result sits in the equity account of the next year.
RetainedEarningsCurrent ==
    \A y \in yearclosed :
        LET k == <<YearEndEquityAccount, FirstSlot(y + 1)>>
        IN  k \in DOMAIN trialbal => trialbal[k].yearend = ProfitLoss(gltrans, y)

\* Close, open, delete and the year procedures together keep the calendar in
\* order: no open period precedes a closed one, and a closed year follows
\* closed years and holds no open period.
ClosedInOrder ==
    /\ \A p \in closed, q \in periods : q < p => q \in closed
    /\ \A y \in yearclosed : /\ \A p \in periods : YearOf[p] = y => p \in closed
                             /\ \A x \in Years : x < y => x \in yearclosed

PostedIn(gl, p) == {i \in DOMAIN gl : gl[i].period = p /\ gl[i].posted}

\* While a period stays closed, no transaction dated in it becomes posted and
\* none is taken back, whatever its sequence does in other periods.
ClosedPostingsFixed ==
    [][\A p \in closed \cap closed' : PostedIn(gltrans', p) = PostedIn(gltrans, p)]_vars

\* A step that leaves a period closed leaves the balances of its rows alone,
\* except for the year-end equity account.
ClosedRowsFixed ==
    [][\A k \in DOMAIN trialbal :
         k[2] \in closed \cap closed' /\ k[1] # YearEndEquityAccount =>
            k \in DOMAIN trialbal' /\ trialbal'[k].beginning = trialbal[k].beginning
                                   /\ trialbal'[k].ending = trialbal[k].ending]_vars

MarkedBy(q) == {j \in DOMAIN sltrans : sltrans[j].posted /\ sltrans[j].glsequence = q}
LedgerHas(q, a) == SumOf(gltrans, LAMBDA r : r.sequence = q /\ ~r.deleted /\ r.accnt = a)

JournalsInLedger ==
    \A j \in DOMAIN sltrans : sltrans[j].posted =>
        LET q == sltrans[j].glsequence
        IN  \A a \in Accounts : LedgerHas(q, a) = JournalSum(MarkedBy(q), a)

\* A journal is in the ledger once: while it is marked posted, the rows of its
\* ledger sequence make up, account by account, what the journals marked by
\* that sequence do, and it is offered for posting again only when those rows
\* are deleted.
JournalsOnce ==
    [][/\ JournalsInLedger'
       /\ \A j \in DOMAIN sltrans : sltrans[j].posted /\ ~sltrans'[j].posted =>
            \A i \in Live(sltrans[j].glsequence) : gltrans'[i].deleted]_vars

=============================================================================
