-------------------------- MODULE GeneralLedgerChains --------------------------
(***************************************************************************)
(* How balances hang together from period to period, for every chart of    *)
(* accounts, calendar and amount, when periods are created in date order.  *)
(*                                                                         *)
(* The balances of closed periods stay as they are.  The inductive         *)
(* invariant is Standing: those of GeneralLedgerProofs, and ClosedBooks:   *)
(* every account but the year-end equity account has a clean row in each   *)
(* closed period, and the next period's row carries it on.  Carrying an    *)
(* account forward over closed periods therefore writes what is there      *)
(* already, and a posting, which goes into a period after all the closed   *)
(* ones, never comes near them.                                            *)
(*                                                                         *)
(* Balances are carried without a break.  The invariant is WovenBooks:     *)
(* every row restarts or is tied to the row before it, unless that one is  *)
(* dirty.  Inside a procedure the tie of the row written last is missing   *)
(* for a while; Woven names the keys still open, and each lemma says which *)
(* ones a step opens and closes.                                           *)
(*                                                                         *)
(* The result of a closed year stays with the year-end equity account.     *)
(* The invariant is EarnedBooks: the equity account has its row in every   *)
(* closed period, and a closed year is credited as soon as the next one    *)
(* has begun.  EquityEarly says that the equity account is carried into a  *)
(* new period before some revenue or expense account, which is the one     *)
(* that credits it.                                                        *)
(*                                                                         *)
(* From the three together: each account ends a period with its share of   *)
(* what has been posted up to it (Share), a closed year's revenue and      *)
(* expense being the equity account's share, and the shares add up to all  *)
(* that has been posted.                                                   *)
(***************************************************************************)
EXTENDS GeneralLedgerProofs

-----------------------------------------------------------------------------
(* Which rows carrying balances forward writes.                            *)

\* Not a row that carrying account a forward from slot p writes: neither one
\* of the year-end equity account nor one of a later period.
Apart(k, a, p) == k[1] # YearEndEquityAccount /\ ~(k[1] = a /\ k[2] > p)

\* From the balances tb to ub: new rows are of periods that exist, and the
\* rows apart from the loop of a from p are as they were.
Spared(tb, ub, pers, a, p) ==
    /\ DOMAIN tb \subseteq DOMAIN ub
    /\ \A k \in DOMAIN ub \ DOMAIN tb : k[2] \in pers
    /\ \A k \in DOMAIN ub : Apart(k, a, p) => k \in DOMAIN tb /\ ub[k] = tb[k]

LEMMA SparedSelf == \A tb, pers, a, p : Spared(tb, tb, pers, a, p)
BY DEF Spared

LEMMA SparedTwice ==
  ASSUME NEW tb, NEW ub, NEW vb, NEW pers, NEW a, NEW p,
         Spared(tb, ub, pers, a, p), Spared(ub, vb, pers, a, p)
  PROVE  Spared(tb, vb, pers, a, p)
<1>1. DOMAIN tb \subseteq DOMAIN vb
  BY DEF Spared
<1>2. ASSUME NEW k \in DOMAIN vb, k \notin DOMAIN tb PROVE k[2] \in pers
  BY <1>2 DEF Spared
<1>3. ASSUME NEW k \in DOMAIN vb, Apart(k, a, p) PROVE k \in DOMAIN tb /\ vb[k] = tb[k]
  BY <1>3 DEF Spared
<1> QED
  BY <1>1, <1>2, <1>3 DEF Spared

\* A row that is not apart is written.
LEMMA WriteSpares ==
  ASSUME NEW d, IsDB(d), NEW k, NEW row, NEW a, NEW p, NEW pers,
         k \in DOMAIN d.tb \/ k[2] \in pers, ~Apart(k, a, p)
  PROVE  Spared(d.tb, Write(d, k, row).tb, pers, a, p)
<1> DEFINE e == Write(d, k, row)
<1>1. /\ DOMAIN e.tb = DOMAIN d.tb \cup {k}
      /\ \A j \in DOMAIN d.tb : j # k => e.tb[j] = d.tb[j]
  BY WriteTable
<1> HIDE DEF e
<1>2. Spared(d.tb, e.tb, pers, a, p)
  BY <1>1 DEF Spared
<1> QED
  BY <1>2 DEF e

\* What the equity account's loop spares, the others' loops spare too.
LEMMA EquitySpares ==
  ASSUME NEW tb, NEW ub, NEW pers, NEW q, Spared(tb, ub, pers, YearEndEquityAccount, q)
  PROVE  \A a, p : Spared(tb, ub, pers, a, p)
<1> TAKE a, p
<1>1. \A k : Apart(k, a, p) => Apart(k, YearEndEquityAccount, q)
  BY DEF Apart
<1> QED
  BY <1>1 DEF Spared

\* What a turn for slot q makes of s: nothing, if the loop stopped or there is
\* no such period; a stop, at the turn of a year; or the row it carries into.
NewYear(s, a, q) == a \in RevExp /\ YearOf[q] # s.year
TurnRow(s, a, q) == CarriedRow(s, a, q, NewYear(s, a, q))
Idle(t, s, q) == t = s /\ (s.stopped \/ q \notin s.d.periods)
Halted(t, s, a, q) == t.d = s.d /\ t.stopped /\ NewYear(s, a, q)
Wrote(t, s, a, q) ==
    /\ q \in s.d.periods /\ ~s.stopped /\ ~t.stopped
    /\ t.ending = TurnRow(s, a, q).ending /\ t.year = YearOf[q]
    /\ \E x : /\ Carried(s.d, x) /\ \A b, p : Spared(s.d.tb, x.tb, s.d.periods, b, p)
              /\ t.d = Write(x, <<a, q>>, TurnRow(s, a, q))
Turns(t, s, a, q) == Idle(t, s, q) \/ Halted(t, s, a, q) \/ Wrote(t, s, a, q)

\* The two forms of a turn, on a record of the loop.
LEMMA StoppedTurn ==
  ASSUME NEW s, NEW d, NEW a, NEW p, Carrying(s, d, a, p),
         NEW t, t = [s EXCEPT !.stopped = TRUE]
  PROVE  t.d = s.d /\ t.stopped
<1> DEFINE c == s.d
<1>1. s = [d |-> c, accnt |-> s.accnt, ending |-> s.ending, year |-> s.year,
           stopped |-> s.stopped]
  BY DEF Carrying
<1> HIDE DEF c
<1>2. t.d = c /\ t.stopped
  BY <1>1
<1> QED
  BY <1>2 DEF c

GoneOn(t, s, e, ending, year) == t = [s EXCEPT !.d = e, !.ending = ending, !.year = year]

LEMMA WrittenTurn ==
  ASSUME NEW s, NEW d, NEW a, NEW p, Carrying(s, d, a, p), NEW e, NEW ending, NEW year,
         NEW t, GoneOn(t, s, e, ending, year)
  PROVE  t.d = e /\ t.ending = ending /\ t.year = year /\ t.stopped = s.stopped
<1> DEFINE c == s.d
<1>1. s = [d |-> c, accnt |-> s.accnt, ending |-> s.ending, year |-> s.year,
           stopped |-> s.stopped]
  BY DEF Carrying
<1> HIDE DEF c
<1> QED
  BY <1>1 DEF GoneOn

\* A turn spares what is apart from the loop.
LEMMA TurnSpares ==
  ASSUME NEW d, Base(d), NEW a \in Accounts, NEW p \in Int, NEW s, Carrying(s, d, a, p),
         Spared(d.tb, s.d.tb, d.periods, a, p),
         NEW q \in Int, q > p, NEW t, Turns(t, s, a, q)
  PROVE  Spared(d.tb, t.d.tb, d.periods, a, p)
<1>1. CASE Wrote(t, s, a, q)
  <2>1. PICK x : /\ Carried(s.d, x) /\ \A b, r : Spared(s.d.tb, x.tb, s.d.periods, b, r)
                 /\ t.d = Write(x, <<a, q>>, TurnRow(s, a, q))
    BY <1>1 DEF Wrote
  <2> DEFINE k == <<a, q>>
             row == TurnRow(s, a, q)
             c == s.d
  <2>2. Carried(d, c)
    BY DEF Carrying
  <2>3. Base(c) /\ c.periods = d.periods
    BY <2>2, CarriedFields
  <2>4. ~Apart(k, a, p) /\ k[2] \in d.periods
    BY <1>1, <2>3 DEF Apart, Wrote
  <2>5. t.d = Write(x, k, row) /\ Spared(c.tb, x.tb, d.periods, a, p) /\ Carried(c, x)
        /\ Spared(d.tb, c.tb, d.periods, a, p)
    BY <2>1, <2>3
  <2> HIDE DEF k, row, c
  <2>6. IsDB(x)
    BY <2>3, <2>5, CarriedFields DEF Base
  <2>7. Spared(x.tb, t.d.tb, d.periods, a, p)
    BY <2>4, <2>5, <2>6, WriteSpares
  <2> QED
    BY <2>5, <2>7, SparedTwice
<1>2. CASE Idle(t, s, q) \/ Halted(t, s, a, q)
  <2>1. t.d = s.d
    BY <1>2 DEF Idle, Halted
  <2> QED
    BY <2>1
<1> QED
  BY <1>1, <1>2 DEF Turns

\* The turns of the equity account's own loop.
LEMMA EquityTurns ==
  ASSUME NEW d, Base(d), NEW a, NEW p, NEW s, Carrying(s, d, a, p), NEW q
  PROVE  Turns(VisitEquity(s, q), s, a, q)
<1> DEFINE row == TurnRow(s, a, q)
           e == Write(s.d, <<a, q>>, row)
           t == VisitEquity(s, q)
<1>1. \/ (s.stopped \/ q \notin s.d.periods) /\ t = s
      \/ /\ q \in s.d.periods /\ ~s.stopped
         /\ t = [s EXCEPT !.d = e, !.ending = row.ending, !.year = YearOf[q]]
  BY DEF VisitEquity, Visit, NoCrossing, TurnRow, NewYear, CarriedRow, Carrying
<1>2. Carried(s.d, s.d) /\ \A b, r : Spared(s.d.tb, s.d.tb, s.d.periods, b, r)
  BY CarriedFields, CarriedSelf, SparedSelf DEF Carrying
<1>3. e = Write(s.d, <<a, q>>, TurnRow(s, a, q)) /\ row = TurnRow(s, a, q)
  OBVIOUS
<1> HIDE DEF row, e, t
<1>4. CASE (s.stopped \/ q \notin s.d.periods) /\ t = s
  BY <1>4 DEF Idle, Turns, t
<1>5. CASE /\ q \in s.d.periods /\ ~s.stopped
           /\ t = [s EXCEPT !.d = e, !.ending = row.ending, !.year = YearOf[q]]
  <2> DEFINE ending == row.ending
             last == YearOf[q]
  <2>0. GoneOn(t, s, e, ending, last)
    BY <1>5 DEF GoneOn
  <2> HIDE DEF ending, last
  <2>3. t.d = e /\ t.ending = ending /\ t.year = last /\ t.stopped = s.stopped
    BY <2>0, WrittenTurn
  <2>1. t.d = e /\ t.ending = row.ending /\ t.year = YearOf[q] /\ t.stopped = s.stopped
    BY <2>3 DEF ending, last
  <2>2. Wrote(t, s, a, q)
    BY <1>2, <1>3, <1>5, <2>1 DEF Wrote
  <2> QED
    BY <2>2 DEF Turns, t
<1> QED
  BY <1>1, <1>4, <1>5

\* The slots after p.
LEMMA SlotsAfterP ==
  ASSUME NEW p \in Slots, NEW i \in 1..(NSlots - p)
  PROVE  SlotsAfter(p)[i] = p + i /\ p + i \in Int /\ p + i > p
<1>1. NSlots \in Nat /\ p \in 1..NSlots
  BY LedgerAssumption DEF Slots
<1> QED
  BY <1>1 DEF SlotsAfter

\* The loop over the equity account's later periods.
LEMMA EquityLoopSpares ==
  ASSUME NEW d, Base(d), NEW p \in Slots, <<YearEndEquityAccount, p>> \in DOMAIN d.tb
  PROVE  Spared(d.tb, Finish(FoldLeft(VisitEquity, Start(d, YearEndEquityAccount, p),
                                      SlotsAfter(p)), p).tb,
                d.periods, YearEndEquityAccount, p)
<1> DEFINE a == YearEndEquityAccount
           n == NSlots - p
           b == Start(d, a, p)
           s == SlotsAfter(p)
<1>0. a \in Accounts /\ p \in Int
  BY LedgerAssumption DEF Slots
<1>1. n \in Nat /\ DOMAIN s = 1..n
  BY LaterSlots
<1>11. \A i \in 1..n : s[i] \in Int /\ s[i] > p
  BY SlotsAfterP
<1>2. Carrying(b, d, a, p) /\ b.d = d
  BY StartCarrying DEF Start
<1> HIDE DEF n, b, s
<1>3. PICK g : /\ g[0] = b /\ \A i \in 1..n : g[i] = VisitEquity(g[i - 1], s[i])
               /\ EquityLoop(b, s) = g[n]
  BY ONLY <1>1, EquityChain, SMTT(60)
<1> DEFINE Z == {i \in 0..n : /\ Carrying(g[i], d, a, p)
                              /\ Spared(d.tb, g[i].d.tb, d.periods, a, p)}
<1>4. 0 \in Z
  BY <1>1, <1>2, <1>3, SparedSelf
<1>5. ASSUME NEW i \in 1..n, i - 1 \in Z PROVE i \in Z
  <2> DEFINE t == g[i - 1]
             q == s[i]
  <2>1. Carrying(t, d, a, p) /\ Spared(d.tb, t.d.tb, d.periods, a, p)
    BY <1>5
  <2>2. g[i] = VisitEquity(t, q) /\ q \in Int /\ q > p /\ i \in 0..n
    BY <1>1, <1>11, <1>3
  <2> HIDE DEF t, q
  <2>3. Carrying(VisitEquity(t, q), d, a, p)
    BY <1>0, <2>1, VisitEquityCarries
  <2>4. Turns(VisitEquity(t, q), t, a, q)
    BY <2>1, EquityTurns
  <2>6. Spared(d.tb, VisitEquity(t, q).d.tb, d.periods, a, p)
    BY <1>0, <2>1, <2>2, <2>4, TurnSpares
  <2> QED
    BY <2>2, <2>3, <2>6
<1>6. n \in Z
  <2> HIDE DEF Z
  <2>1. \A i \in 0..n : i \in Z
    BY ONLY <1>1, <1>4, <1>5, Counting
  <2> QED
    BY <1>1, <2>1
<1> DEFINE f == EquityLoop(b, s)
           c == f.d
           k == <<a, p>>
           e == Finish(f, p)
<1>7. Carrying(f, d, a, p) /\ Spared(d.tb, c.tb, d.periods, a, p)
  BY <1>3, <1>6
<1>8. e = c \/ e = Write(c, k, [c.tb[k] EXCEPT !.dirty = FALSE])
  BY <1>7 DEF Finish, Carrying
<1> HIDE DEF f, c
<1>9. IsDB(c) /\ k \in DOMAIN c.tb /\ ~Apart(k, a, p)
  BY <1>7, CarriedFields DEF c, Carrying, Base, Apart
<1>10. Spared(d.tb, e.tb, d.periods, a, p)
  <2> HIDE DEF k, e
  <2>1. CASE e = c
    BY <1>7, <2>1
  <2>2. CASE e = Write(c, k, [c.tb[k] EXCEPT !.dirty = FALSE])
    <3>1. Spared(c.tb, e.tb, d.periods, a, p)
      BY <1>9, <2>2, WriteSpares
    <3> QED
      BY <1>7, <3>1, SparedTwice
  <2> QED
    BY <1>8, <2>1, <2>2
<1> QED
  BY <1>10 DEF e, f, b, s, EquityLoop

\* The retained earnings of a year go to the equity account only.
LEMMA RetainSpares ==
  ASSUME NEW d, Base(d), NEW y
  PROVE  \A a, p : Spared(d.tb, updateRetainedEarnings(d, y).d.tb, d.periods, a, p)
<1> DEFINE E == YearEndEquityAccount
           q == FirstSlot(y + 1)
           k == <<E, q>>
           pl == ProfitLoss(d.gl, y)
           row == Row(d.tb[k].beginning - d.tb[k].yearend + pl,
                      d.tb[k].debits, d.tb[k].credits, pl, d.tb[k].dirty)
           w == Write(d, k, row)
           e == Finish(FoldLeft(VisitEquity, Start(w, E, q), SlotsAfter(q)), q)
<1>1. CASE ~CanRetain(d, y)
  BY <1>1, SparedSelf DEF updateRetainedEarnings
<1>2. CASE CanRetain(d, y)
  <2>1. updateRetainedEarnings(d, y).d = e
    BY <1>2 DEF updateRetainedEarnings
  <2>2. q \in Slots /\ k \in DOMAIN d.tb
    BY <1>2 DEF CanRetain, Base
  <2>3. pl \in Int
    BY ProfitLossInt DEF Base
  <2>4. k \in Keys /\ d.tb[k] \in TBRows /\ IsDB(d) /\ ~Apart(k, E, q)
    BY <2>2 DEF Base, TBTyped, Apart
  <2> HIDE DEF k, pl, q
  <2>5. row \in TBRows /\ row.debits = d.tb[k].debits /\ row.credits = d.tb[k].credits
    BY <2>3, <2>4 DEF Row, TBRows
  <2> HIDE DEF row
  <2>6. Carried(d, w)
    BY <2>2, <2>4, <2>5, WriteCarries
  <2>7. Spared(d.tb, w.tb, d.periods, E, q)
    BY <2>2, <2>4, WriteSpares
  <2> HIDE DEF w
  <2>8. Base(w) /\ k \in DOMAIN w.tb /\ w.periods = d.periods
    BY <2>2, <2>6, CarriedFields DEF Carried
  <2>9. Spared(w.tb, e.tb, w.periods, E, q)
    BY <2>2, <2>8, EquityLoopSpares DEF k
  <2> HIDE DEF e
  <2>10. Spared(d.tb, e.tb, d.periods, E, q)
    BY <2>7, <2>8, <2>9, SparedTwice
  <2> QED
    BY <2>1, <2>10, EquitySpares
<1> QED
  BY <1>1, <1>2

\* The turns of the loop over any account.
LEMMA PeriodTurns ==
  ASSUME NEW d, Base(d), NEW a, NEW p, NEW s, Carrying(s, d, a, p), NEW q
  PROVE  Turns(VisitPeriod(s, q), s, a, q)
<1> DEFINE row == TurnRow(s, a, q)
           year == updateRetainedEarnings(s.d, s.year)
           none == [d |-> s.d, ok |-> TRUE]
           crossed == IF NewYear(s, a, q) /\ s.year \in s.d.yearclosed THEN year ELSE none
           e == Write(crossed.d, <<a, q>>, row)
           t == VisitPeriod(s, q)
<1>1. \/ (s.stopped \/ q \notin s.d.periods) /\ t = s
      \/ NewYear(s, a, q) /\ t = [s EXCEPT !.stopped = TRUE]
      \/ /\ q \in s.d.periods /\ ~s.stopped
         /\ t = [s EXCEPT !.d = e, !.ending = row.ending, !.year = YearOf[q]]
  BY DEF VisitPeriod, Visit, TurnRow, NewYear, CarriedRow, Carrying
<1>2. Base(s.d)
  BY CarriedFields DEF Carrying
<1>3. /\ Carried(s.d, crossed.d)
      /\ \A b, r : Spared(s.d.tb, crossed.d.tb, s.d.periods, b, r)
  <2>1. crossed.d = s.d \/ crossed.d = year.d
    OBVIOUS
  <2> HIDE DEF crossed
  <2> QED
    BY <1>2, <2>1, CarriedSelf, SparedSelf, RetainCarries, RetainSpares
<1>4. e = Write(crossed.d, <<a, q>>, TurnRow(s, a, q)) /\ row = TurnRow(s, a, q)
  OBVIOUS
<1> HIDE DEF row, e, t, crossed
<1>5. CASE (s.stopped \/ q \notin s.d.periods) /\ t = s
  BY <1>5 DEF Idle, Turns, t
<1>6. CASE NewYear(s, a, q) /\ t = [s EXCEPT !.stopped = TRUE]
  <2>1. t.d = s.d /\ t.stopped
    BY <1>6, StoppedTurn
  <2> QED
    BY <1>6, <2>1 DEF Halted, Turns, t
<1>7. CASE /\ q \in s.d.periods /\ ~s.stopped
           /\ t = [s EXCEPT !.d = e, !.ending = row.ending, !.year = YearOf[q]]
  <2> DEFINE ending == row.ending
             last == YearOf[q]
  <2>0. GoneOn(t, s, e, ending, last)
    BY <1>7 DEF GoneOn
  <2> HIDE DEF ending, last
  <2>3. t.d = e /\ t.ending = ending /\ t.year = last /\ t.stopped = s.stopped
    BY <2>0, WrittenTurn
  <2>1. t.d = e /\ t.ending = row.ending /\ t.year = YearOf[q] /\ t.stopped = s.stopped
    BY <2>3 DEF ending, last
  <2>2. Wrote(t, s, a, q)
    BY <1>3, <1>4, <1>7, <2>1 DEF Wrote
  <2> QED
    BY <2>2 DEF Turns, t
<1> QED
  BY <1>1, <1>5, <1>6, <1>7

\* From the balances tb to ub, what carrying account a forward from slot p may
\* do: the rows apart stay, and the row of p may be marked clean.
Moved(tb, ub, pers, a, p) ==
    /\ DOMAIN tb \subseteq DOMAIN ub
    /\ \A k \in DOMAIN ub \ DOMAIN tb : k[2] \in pers
    /\ \A k \in DOMAIN ub : Apart(k, a, p) =>
         /\ k \in DOMAIN tb
         /\ ub[k] = tb[k] \/ (k = <<a, p>> /\ ub[k] = [tb[k] EXCEPT !.dirty = FALSE])

LEMMA ForwardMoves ==
  ASSUME NEW d, Base(d), NEW a \in Accounts, NEW p \in Slots, <<a, p>> \in DOMAIN d.tb
  PROVE  Moved(d.tb, forwardUpdateTrialBalance(d, a, p).tb, d.periods, a, p)
<1> DEFINE n == NSlots - p
           b == Start(d, a, p)
           s == SlotsAfter(p)
           f == PeriodLoop(b, s)
           c == f.d
           k == <<a, p>>
           e == Finish(f, p)
<1>0. p \in Int
  BY DEF Slots
<1>1. n \in Nat /\ DOMAIN s = 1..n
  BY LaterSlots
<1>11. \A i \in 1..n : s[i] \in Int /\ s[i] > p
  BY SlotsAfterP
<1>2. Carrying(b, d, a, p) /\ b.d = d
  BY StartCarrying DEF Start
<1>3. forwardUpdateTrialBalance(d, a, p).tb = e.tb
  <2> DEFINE x == Finish(FoldLeft(VisitPeriod, b, s), p)
  <2>1. x = e
    BY DEF PeriodLoop
  <2>2. forwardUpdateTrialBalance(d, a, p) = WithBalances(d, x)
    BY DEF forwardUpdateTrialBalance
  <2> HIDE DEF x, e, b, s
  <2> QED
    BY <2>1, <2>2 DEF WithBalances, Base, IsDB
<1> HIDE DEF n, b, s
<1>4. PICK g : /\ g[0] = b /\ \A i \in 1..n : g[i] = VisitPeriod(g[i - 1], s[i])
               /\ PeriodLoop(b, s) = g[n]
  BY ONLY <1>1, PeriodChain, SMTT(60)
<1> DEFINE Z == {i \in 0..n : /\ Carrying(g[i], d, a, p)
                              /\ Spared(d.tb, g[i].d.tb, d.periods, a, p)}
<1>5. 0 \in Z
  BY <1>1, <1>2, <1>4, SparedSelf
<1>6. ASSUME NEW i \in 1..n, i - 1 \in Z PROVE i \in Z
  <2> DEFINE t == g[i - 1]
             q == s[i]
  <2>1. Carrying(t, d, a, p) /\ Spared(d.tb, t.d.tb, d.periods, a, p)
    BY <1>6
  <2>2. g[i] = VisitPeriod(t, q) /\ q \in Int /\ q > p /\ i \in 0..n
    BY <1>1, <1>11, <1>4
  <2> HIDE DEF t, q
  <2>3. Carrying(VisitPeriod(t, q), d, a, p)
    BY <2>1, VisitPeriodCarries
  <2>4. Turns(VisitPeriod(t, q), t, a, q)
    BY <2>1, PeriodTurns
  <2>5. Spared(d.tb, VisitPeriod(t, q).d.tb, d.periods, a, p)
    BY <1>0, <2>1, <2>2, <2>4, TurnSpares
  <2> QED
    BY <2>2, <2>3, <2>5
<1>7. n \in Z
  <2> HIDE DEF Z
  <2>1. \A i \in 0..n : i \in Z
    BY ONLY <1>1, <1>5, <1>6, Counting
  <2> QED
    BY <1>1, <2>1
<1>8. Carrying(f, d, a, p) /\ Spared(d.tb, c.tb, d.periods, a, p)
  BY <1>4, <1>7
<1>9. e = c \/ e = Write(c, k, [c.tb[k] EXCEPT !.dirty = FALSE])
  BY <1>8 DEF Finish, Carrying
<1> HIDE DEF f, c
<1>10. IsDB(c) /\ k \in DOMAIN c.tb /\ k \in DOMAIN d.tb
  BY <1>8, CarriedFields DEF c, Carrying, Base
<1> HIDE DEF e
<1>13. ASSUME e = c PROVE Moved(d.tb, e.tb, d.periods, a, p)
  BY <1>8, <1>13 DEF Spared, Moved
<1>12. ASSUME e = Write(c, k, [c.tb[k] EXCEPT !.dirty = FALSE])
       PROVE  Moved(d.tb, e.tb, d.periods, a, p)
  <2> DEFINE row == [c.tb[k] EXCEPT !.dirty = FALSE]
  <2>1. /\ DOMAIN e.tb = DOMAIN c.tb \cup {k} /\ e.tb[k] = row
        /\ \A j \in DOMAIN c.tb : j # k => e.tb[j] = c.tb[j]
    BY <1>10, <1>12, WriteTable
  <2> HIDE DEF k
  <2>2. ASSUME NEW j \in DOMAIN e.tb, Apart(j, a, p)
        PROVE  /\ j \in DOMAIN d.tb
               /\ e.tb[j] = d.tb[j] \/ (j = k /\ e.tb[j] = [d.tb[j] EXCEPT !.dirty = FALSE])
    <3>1. j \in DOMAIN c.tb
      BY <1>10, <2>1, <2>2
    <3>2. j \in DOMAIN d.tb /\ c.tb[j] = d.tb[j]
      BY <1>8, <2>2, <3>1 DEF Spared
    <3> QED
      BY <2>1, <3>1, <3>2
  <2>3. /\ DOMAIN d.tb \subseteq DOMAIN e.tb
        /\ \A j \in DOMAIN e.tb \ DOMAIN d.tb : j[2] \in d.periods
    BY <1>8, <1>10, <2>1 DEF Spared
  <2> QED
    BY <2>2, <2>3 DEF Moved, k
<1> QED
  BY <1>3, <1>9, <1>13, <1>12

-----------------------------------------------------------------------------
(* The chain of balances through the closed periods.                       *)

Others == Accounts \ {YearEndEquityAccount}

\* What account a carries from slot p into the next one.
Crosses(a, p) == a \in RevExp /\ YearOf[p] # YearOf[p + 1]
CarriedOn(tb, a, p) == IF Crosses(a, p) THEN 0 ELSE tb[<<a, p>>].ending

\* The row after slot p begins with what it carries; there is none only where
\* a year begins with nothing.
Follows(tb, a, p) ==
    IF <<a, p + 1>> \in DOMAIN tb
    THEN tb[<<a, p + 1>>].beginning = CarriedOn(tb, a, p) + tb[<<a, p + 1>>].yearend
    ELSE Crosses(a, p)

\* A settled row: it is clean, and ends with its beginning and its movements.
Even(row) == row.ending = row.beginning - row.debits + row.credits
SettledRow(tb, a, p) == <<a, p>> \in DOMAIN tb /\ ~tb[<<a, p>>].dirty /\ Even(tb[<<a, p>>])

\* The slots shut hold settled rows of account a, each followed by the next
\* period's.
ChainOf(tb, shut, pers, a) ==
    \A p \in shut : SettledRow(tb, a, p) /\ (p + 1 \in pers => Follows(tb, a, p))

\* The rows of account a in the slots shut stay as they are.
Held(tb, ub, shut, a) ==
    \A p \in shut : <<a, p>> \in DOMAIN tb => <<a, p>> \in DOMAIN ub /\ ub[<<a, p>>] = tb[<<a, p>>]

\* Row k of ub begins as it did in tb; a new one begins with nothing.
BeginsAs(tb, ub, k) ==
    IF k \in DOMAIN tb
    THEN ub[k].beginning = tb[k].beginning /\ ub[k].yearend = tb[k].yearend
    ELSE ub[k].beginning = 0 /\ ub[k].yearend = 0

\* Balances that leave the slots shut of account a alone, and the beginning of
\* the slot after.
Steady(tb, ub, shut, a) ==
    /\ DOMAIN tb \subseteq DOMAIN ub
    /\ Held(tb, ub, shut, a)
    /\ \A p \in shut : <<a, p + 1>> \in DOMAIN ub => BeginsAs(tb, ub, <<a, p + 1>>)

LEMMA HeldSelf == \A tb, shut, a : Held(tb, tb, shut, a)
BY DEF Held

LEMMA HeldTwice ==
  ASSUME NEW tb, NEW ub, NEW vb, NEW shut, NEW a, Held(tb, ub, shut, a), Held(ub, vb, shut, a)
  PROVE  Held(tb, vb, shut, a)
BY DEF Held

LEMMA SteadySelf == \A tb, shut, a : Steady(tb, tb, shut, a)
BY DEF Steady, Held, BeginsAs

LEMMA SteadyTwice ==
  ASSUME NEW tb, NEW ub, NEW vb, NEW shut, NEW a,
         Steady(tb, ub, shut, a), Steady(ub, vb, shut, a)
  PROVE  Steady(tb, vb, shut, a)
<1>1. DOMAIN tb \subseteq DOMAIN vb /\ Held(tb, vb, shut, a)
  BY HeldTwice DEF Steady
<1>2. ASSUME NEW p \in shut, <<a, p + 1>> \in DOMAIN vb PROVE BeginsAs(tb, vb, <<a, p + 1>>)
  <2> DEFINE k == <<a, p + 1>>
  <2>1. BeginsAs(ub, vb, k) /\ (k \in DOMAIN ub => BeginsAs(tb, ub, k))
        /\ DOMAIN tb \subseteq DOMAIN ub
    BY <1>2 DEF Steady
  <2> HIDE DEF k
  <2>2. BeginsAs(tb, vb, k)
    BY <2>1 DEF BeginsAs
  <2> QED
    BY <2>2 DEF k
<1> QED
  BY <1>1, <1>2 DEF Steady

\* Such balances keep the chain.
LEMMA SteadyKeeps ==
  ASSUME NEW tb, NEW ub, NEW shut, NEW pers, NEW a,
         Steady(tb, ub, shut, a), ChainOf(tb, shut, pers, a)
  PROVE  ChainOf(ub, shut, pers, a) /\ Held(tb, ub, shut, a)
<1> SUFFICES ASSUME NEW p \in shut
             PROVE  SettledRow(ub, a, p) /\ (p + 1 \in pers => Follows(ub, a, p))
  BY DEF ChainOf, Steady
<1> DEFINE k == <<a, p>>
           next == <<a, p + 1>>
<1>1. SettledRow(tb, a, p) /\ k \in DOMAIN ub /\ ub[k] = tb[k]
  BY DEF ChainOf, Steady, Held, SettledRow
<1>2. SettledRow(ub, a, p)
  BY <1>1 DEF SettledRow
<1>3. ASSUME p + 1 \in pers PROVE Follows(ub, a, p)
  <2>1. Follows(tb, a, p) /\ CarriedOn(ub, a, p) = CarriedOn(tb, a, p)
    BY <1>1, <1>3 DEF ChainOf, CarriedOn
  <2>2. /\ next \in DOMAIN ub => BeginsAs(tb, ub, next)
        /\ next \in DOMAIN tb => next \in DOMAIN ub
    BY DEF Steady
  <2>3. CASE next \in DOMAIN tb
    BY <2>1, <2>2, <2>3 DEF Follows, BeginsAs
  <2>4. CASE next \notin DOMAIN tb
    <3>1. Crosses(a, p) /\ CarriedOn(ub, a, p) = 0
      BY <2>1, <2>4 DEF Follows, CarriedOn
    <3> QED
      BY <2>2, <2>4, <3>1 DEF Follows, BeginsAs
  <2> QED
    BY <2>3, <2>4
<1> QED
  BY <1>2, <1>3

\* Slots before p.
AllBefore(shut, p) == \A c \in shut : c \in Int /\ c < p

\* Carrying account a forward from a slot after those shut is steady for every
\* account; carrying the equity account is so from anywhere.
LEMMA MovedSteady ==
  ASSUME NEW tb, TBTyped(tb), NEW ub, NEW pers, NEW a, NEW p \in Int,
         Moved(tb, ub, pers, a, p),
         NEW shut, a = YearEndEquityAccount \/ AllBefore(shut, p),
         NEW b \in Others
  PROVE  Steady(tb, ub, shut, b)
<1>1. ASSUME NEW c \in shut
      PROVE  Apart(<<b, c>>, a, p) /\ Apart(<<b, c + 1>>, a, p) /\ <<b, c>> # <<a, p>>
  BY DEF AllBefore, Apart, Others
<1>2. Held(tb, ub, shut, b)
  BY <1>1 DEF Held, Moved
<1>3. ASSUME NEW c \in shut, <<b, c + 1>> \in DOMAIN ub
      PROVE  BeginsAs(tb, ub, <<b, c + 1>>)
  <2> DEFINE k == <<b, c + 1>>
  <2>1. /\ k \in DOMAIN tb
        /\ ub[k] = tb[k] \/ ub[k] = [tb[k] EXCEPT !.dirty = FALSE]
    BY <1>1, <1>3 DEF Moved
  <2> HIDE DEF k
  <2>2. tb[k] \in TBRows
    BY <2>1 DEF TBTyped
  <2>3. ub[k].beginning = tb[k].beginning /\ ub[k].yearend = tb[k].yearend
    BY <2>1, <2>2 DEF TBRows
  <2>4. BeginsAs(tb, ub, k)
    BY <2>1, <2>3 DEF BeginsAs
  <2> QED
    BY <2>4 DEF k
<1> QED
  BY <1>2, <1>3 DEF Steady, Moved

\* So is writing a row after those shut that begins as it did.
LEMMA WriteSteady ==
  ASSUME NEW d, IsDB(d), NEW a, NEW p \in Int, NEW row, NEW shut,
         a = YearEndEquityAccount \/ AllBefore(shut, p),
         NEW e, e = Write(d, <<a, p>>, row), BeginsAs(d.tb, e.tb, <<a, p>>),
         NEW b \in Others
  PROVE  Steady(d.tb, e.tb, shut, b)
<1> DEFINE k == <<a, p>>
<1>1. /\ DOMAIN e.tb = DOMAIN d.tb \cup {k}
      /\ \A j \in DOMAIN d.tb : j # k => e.tb[j] = d.tb[j]
  BY WriteTable
<1>2. \A c \in shut : <<b, c>> # k
  BY DEF AllBefore, Others
<1>3. \A j \in DOMAIN e.tb : BeginsAs(d.tb, e.tb, j)
  BY <1>1 DEF BeginsAs
<1> HIDE DEF k
<1>4. Held(d.tb, e.tb, shut, b)
  BY <1>1, <1>2 DEF Held
<1> QED
  BY <1>1, <1>3, <1>4 DEF Steady

-----------------------------------------------------------------------------
(* Posting is steady.                                                      *)

\* Every row lies in a period that exists.
Within(tb, pers) == \A k \in DOMAIN tb : k[2] \in pers

LEMMA MovedWithin ==
  ASSUME NEW tb, NEW ub, NEW pers, NEW a, NEW p, Moved(tb, ub, pers, a, p), Within(tb, pers)
  PROVE  Within(ub, pers)
BY DEF Moved, Within

LEMMA WriteWithin ==
  ASSUME NEW d, IsDB(d), NEW k, NEW row, NEW pers, Within(d.tb, pers),
         k \in DOMAIN d.tb \/ k[2] \in pers
  PROVE  Within(Write(d, k, row).tb, pers)
<1> DEFINE e == Write(d, k, row)
<1>1. DOMAIN e.tb = DOMAIN d.tb \cup {k}
  BY WriteTable
<1> HIDE DEF e
<1>2. Within(e.tb, pers)
  BY <1>1 DEF Within
<1> QED
  BY <1>2 DEF e

\* gltrans rows with the accounts, amounts and periods of transactions.
IsLine(r) == IsRow(r) /\ r.accnt \in Accounts /\ r.amount \in Int /\ r.period \in Slots
Lines(gl) == IsSeq(gl) /\ \A i \in DOMAIN gl : IsLine(gl[i])

LEMMA LinesAreRows == ASSUME NEW gl, Lines(gl) PROVE IsRows(gl)
BY DEF Lines, IsLine, IsRows

\* A row whose marks change stays such a row.
Remarked(s, r, posted, deleted) == s = [r EXCEPT !.posted = posted, !.deleted = deleted]

LEMMA MarkedLine ==
  ASSUME NEW r, IsLine(r), NEW posted, NEW deleted, NEW s, Remarked(s, r, posted, deleted)
  PROVE  IsLine(s) /\ s.accnt = r.accnt /\ s.period = r.period /\ s.amount = r.amount
<1> DEFINE q == r.sequence
           a == r.accnt
           m == r.amount
           p == r.period
           rec == r.rec
           was == r.posted
           del == r.deleted
<1>1. r = [sequence |-> q, accnt |-> a, amount |-> m, period |-> p,
           posted |-> was, deleted |-> del, rec |-> rec]
  BY DEF IsLine, IsRow
<1>2. a \in Accounts /\ m \in Int /\ p \in Slots
  BY DEF IsLine
<1> HIDE DEF q, a, m, p, rec, was, del
<1>3. s = [sequence |-> q, accnt |-> a, amount |-> m, period |-> p,
           posted |-> posted, deleted |-> deleted, rec |-> rec]
  BY ONLY <1>1, Remarked(s, r, posted, deleted) DEF Remarked
<1>4. /\ s.sequence = q /\ s.accnt = a /\ s.amount = m /\ s.period = p
      /\ s.posted = posted /\ s.deleted = deleted /\ s.rec = rec
  BY ONLY <1>3
<1>5. r.accnt = a /\ r.amount = m /\ r.period = p
  BY ONLY <1>1
<1>6. IsRow(s)
  BY ONLY <1>3, <1>4 DEF IsRow
<1> QED
  BY <1>2, <1>4, <1>5, <1>6 DEF IsLine

LEMMA PostedLine ==
  ASSUME NEW r, IsLine(r), NEW s, s = [r EXCEPT !.posted = TRUE]
  PROVE  IsLine(s) /\ s.accnt = r.accnt /\ s.period = r.period /\ s.amount = r.amount
<1> DEFINE del == r.deleted
           flag == TRUE
<1>1. Remarked(s, r, flag, del)
  BY DEF IsLine, IsRow, Remarked
<1> HIDE DEF del, flag
<1> QED
  BY <1>1, MarkedLine

\* One row of them replaced.
SameBut(gl, hl, i) == \A j \in DOMAIN gl : j # i => hl[j] = gl[j]

LEMMA ReplacedLine ==
  ASSUME NEW gl, Lines(gl), NEW i \in DOMAIN gl, NEW r, IsLine(r), r.accnt = gl[i].accnt,
         r.period = gl[i].period, r.amount = gl[i].amount,
         NEW hl, hl = [gl EXCEPT ![i] = r]
  PROVE  Lines(hl) /\ SameLines(gl, hl) /\ SameBut(gl, hl, i)
<1>1. Len(gl) \in Nat /\ DOMAIN gl = 1..Len(gl)
  BY SeqDomain DEF Lines
<1>2. DOMAIN hl = 1..Len(gl) /\ hl = [j \in 1..Len(gl) |-> hl[j]]
  BY <1>1
<1>3. IsSeq(hl)
  BY ONLY <1>1, <1>2, SeqShape
<1>4. hl[i] = r /\ \A j \in DOMAIN gl : j # i => hl[j] = gl[j]
  OBVIOUS
<1> QED
  BY <1>1, <1>2, <1>3, <1>4 DEF Lines, SameLines, SameBut

\* A database whose rows lie in its periods, and whose ledger has such rows.
Ledgered(d) == Base(d) /\ Lines(d.gl) /\ Within(d.tb, d.periods)

\* From d to e: the ledger keeps its lines, and the balances are steady.
Stepped(d, e, shut) ==
    /\ Ledgered(e) /\ SameLines(d.gl, e.gl) /\ e.periods = d.periods
    /\ DOMAIN d.tb \subseteq DOMAIN e.tb
    /\ \A b \in Others : Steady(d.tb, e.tb, shut, b)

\* A row of a period after those shut, written with the beginning it had, and
\* its account carried forward: the end of posting and of taking back.
LEMMA RowSteady ==
  ASSUME NEW d, Ledgered(d), NEW a \in Accounts, NEW p \in Slots, p \in d.periods,
         NEW row \in TBRows, BeginsAs(d.tb, Write(d, <<a, p>>, row).tb, <<a, p>>),
         NEW shut, AllBefore(shut, p), NEW hl, Lines(hl), SameLines(d.gl, hl)
  PROVE  Stepped(d, RowDone(d, a, p, row, hl), shut)
<1> DEFINE k == <<a, p>>
           w == Write(d, k, row)
           f == ForwardIfShould(w, a, p)
           e == RowDone(d, a, p, row, hl)
<1>1. p \in Int /\ Base(d) /\ IsDB(d) /\ k \in Keys /\ k[2] \in d.periods
  BY DEF Slots, Ledgered, Base, Keys
<1>2. Carried(w, f) /\ Base(f) /\ f.gl = d.gl /\ f.periods = d.periods
  <2> HIDE DEF w, f, k
  <2> QED
    BY <1>1, RowForwarded DEF w, f, k
<1>3. e = [f EXCEPT !.gl = hl]
  BY DEF RowDone
<1>4. ASSUME NEW b \in Others PROVE Steady(d.tb, w.tb, shut, b)
  <2> HIDE DEF w
  <2> QED
    BY <1>1, WriteSteady DEF w
<1>5. k \in DOMAIN w.tb /\ IsDB(w) /\ Within(w.tb, d.periods)
  <2> HIDE DEF k
  <2>1. k \in DOMAIN w.tb /\ IsDB(w)
    BY <1>1, WriteTable
  <2>2. Within(w.tb, d.periods)
    BY <1>1, WriteWithin DEF Ledgered
  <2> QED
    BY <2>1, <2>2
<1>6. TBTyped(w.tb)
  BY <1>1, WriteTable DEF Base, TBTyped
<1>7. Base(w) /\ w.periods = d.periods
  <2>1. w = WithBalances(d, w)
    BY <1>1, WriteTable
  <2> HIDE DEF w
  <2>2. w.gl = d.gl /\ w.periods = d.periods
    BY <1>1, <2>1, BalanceFields DEF WithBalances, IsDB
  <2> QED
    BY <1>1, <1>5, <1>6, <2>2 DEF Base
<1>8. Moved(w.tb, f.tb, d.periods, a, p)
  <2>1. f = w \/ f = forwardUpdateTrialBalance(w, a, p)
    BY DEF ForwardIfShould
  <2> HIDE DEF w, f
  <2>2. ASSUME f = w PROVE Moved(w.tb, f.tb, d.periods, a, p)
    BY <2>2 DEF Moved
  <2>3. Moved(w.tb, forwardUpdateTrialBalance(w, a, p).tb, w.periods, a, p)
    BY <1>5, <1>7, ForwardMoves
  <2> QED
    BY <1>7, <2>1, <2>2, <2>3
<1> HIDE DEF w, f, e
<1>9. IsDB(e) /\ e.gl = hl /\ e.tb = f.tb /\ e.periods = d.periods
  BY <1>2, <1>3 DEF Base, IsDB
<1>10. Within(e.tb, d.periods)
  BY <1>5, <1>8, <1>9, MovedWithin
<1>11. Ledgered(e)
  BY <1>2, <1>9, <1>10, LinesAreRows DEF Ledgered, Base
<1>12. ASSUME NEW b \in Others PROVE Steady(d.tb, e.tb, shut, b)
  <2>1. Steady(w.tb, f.tb, shut, b)
    BY <1>1, <1>7, <1>8, MovedSteady DEF Base
  <2> QED
    BY <1>4, <1>9, <2>1, SteadyTwice
<1>13. DOMAIN d.tb \subseteq DOMAIN e.tb
  <2>1. DOMAIN d.tb \subseteq DOMAIN w.tb
    BY <1>1, WriteTable DEF w
  <2> QED
    BY <1>8, <1>9, <2>1 DEF Moved
<1>14. Stepped(d, e, shut)
  BY <1>9, <1>11, <1>12, <1>13 DEF Stepped
<1> QED
  BY <1>14 DEF e

\* Row k as postings and corrections write it: dirty, and begun as before.
Entered(d, k, row) ==
    row \in TBRows /\ Even(row) /\ row.dirty /\ BeginsAs(d.tb, Write(d, k, row).tb, k)

\* A row that keeps the beginning of the row there was, if any.
LEMMA OldBegins ==
  ASSUME NEW d, Base(d), NEW k,
         NEW old, old = (IF k \in DOMAIN d.tb THEN d.tb[k] ELSE Row(0, 0, 0, 0, TRUE)),
         NEW debits \in Int, NEW credits \in Int,
         NEW row, row = Row(old.beginning, debits, credits, old.yearend, TRUE)
  PROVE  Entered(d, k, row)
<1>1. old \in TBRows
  <2>1. Row(0, 0, 0, 0, TRUE) \in TBRows
    BY DEF Row, TBRows
  <2>2. k \in DOMAIN d.tb => d.tb[k] \in TBRows
    BY DEF Base, TBTyped
  <2> QED
    BY <2>1, <2>2
<1>2. old.beginning \in Int /\ old.yearend \in Int
  BY <1>1 DEF TBRows
<1>3. /\ row \in TBRows /\ Even(row) /\ row.dirty
      /\ row.beginning = old.beginning /\ row.yearend = old.yearend
  BY ONLY debits \in Int, credits \in Int, <1>2,
          row = Row(old.beginning, debits, credits, old.yearend, TRUE) DEF Row, TBRows, Even
<1>4. Write(d, k, row).tb[k] = row
  BY ONLY Base(d), WriteTable DEF Base
<1>5. k \notin DOMAIN d.tb => old.beginning = 0 /\ old.yearend = 0
  BY DEF Row
<1> QED
  BY <1>3, <1>4, <1>5 DEF BeginsAs, Entered

\* The movements of a trial balance row are integers.
LEMMA OldMovements ==
  ASSUME NEW d, Base(d), NEW k,
         NEW old, old = (IF k \in DOMAIN d.tb THEN d.tb[k] ELSE Row(0, 0, 0, 0, TRUE))
  PROVE  old.debits \in Int /\ old.credits \in Int
<1>1. k \in DOMAIN d.tb => d.tb[k] \in TBRows
  BY DEF Base, TBTyped
<1> QED
  BY <1>1 DEF Row, TBRows

\* A turn of postIntoTrialBalance or deleteGlSeries for row i, from d to e.
RowTurn(d, e, i) ==
    LET a == d.gl[i].accnt
        p == d.gl[i].period
    IN  \E row, hl : /\ Entered(d, <<a, p>>, row) /\ Lines(hl) /\ SameLines(d.gl, hl)
                     /\ SameBut(d.gl, hl, i) /\ e = RowDone(d, a, p, row, hl)

LEMMA TurnSteady ==
  ASSUME NEW d, Ledgered(d), NEW i \in DOMAIN d.gl, d.gl[i].period \in d.periods,
         NEW shut, AllBefore(shut, d.gl[i].period), NEW e, RowTurn(d, e, i)
  PROVE  Stepped(d, e, shut)
<1> DEFINE a == d.gl[i].accnt
           p == d.gl[i].period
<1>1. a \in Accounts /\ p \in Slots /\ p \in d.periods /\ AllBefore(shut, p)
  BY DEF Ledgered, Lines, IsLine
<1>2. PICK row, hl : /\ Entered(d, <<a, p>>, row) /\ Lines(hl) /\ SameLines(d.gl, hl)
                     /\ e = RowDone(d, a, p, row, hl)
  BY DEF RowTurn
<1> HIDE DEF a, p
<1> QED
  BY <1>1, <1>2, RowSteady DEF Entered

\* postIntoTrialBalance's turn for row i.
LEMMA PostRowIs ==
  ASSUME NEW d, Ledgered(d), NEW i \in DOMAIN d.gl, d.gl[i].period \in d.periods
  PROVE  RowTurn(d, PostRow(d, i), i)
<1> DEFINE r == d.gl[i]
           a == r.accnt
           p == r.period
           k == <<a, p>>
           m == r.amount
           s == [r EXCEPT !.posted = TRUE]
           hl == [d.gl EXCEPT ![i] = s]
           old == IF k \in DOMAIN d.tb THEN d.tb[k] ELSE Row(0, 0, 0, 0, TRUE)
           row == IF m > 0
                  THEN Row(old.beginning, old.debits, old.credits + m, old.yearend, TRUE)
                  ELSE Row(old.beginning, old.debits - m, old.credits, old.yearend, TRUE)
           f == ForwardIfShould(Write(d, k, row), a, p)
           e == [f EXCEPT !.gl = hl]
<1>1. IsLine(r) /\ Lines(d.gl) /\ Base(d) /\ a \in Accounts /\ p \in Slots /\ m \in Int
  BY DEF Ledgered, Lines, IsLine
<1>2. IsLine(s) /\ s.accnt = a /\ s.period = p /\ s.amount = m
  <2>1. s = [r EXCEPT !.posted = TRUE]
    OBVIOUS
  <2> HIDE DEF s, r
  <2> QED
    BY <1>1, <2>1, PostedLine
<1>3. Lines(hl) /\ SameLines(d.gl, hl) /\ SameBut(d.gl, hl, i)
  <2> HIDE DEF s, hl
  <2> QED
    BY <1>1, <1>2, ReplacedLine DEF hl
<1>4. Entered(d, k, row) /\ row \in TBRows
  <2>1. old.debits \in Int /\ old.credits \in Int
    BY <1>1, OldMovements
  <2>2. old = (IF k \in DOMAIN d.tb THEN d.tb[k] ELSE Row(0, 0, 0, 0, TRUE))
    OBVIOUS
  <2> HIDE DEF old, k, m
  <2>3. \/ row = Row(old.beginning, old.debits, old.credits + m, old.yearend, TRUE)
        \/ row = Row(old.beginning, old.debits - m, old.credits, old.yearend, TRUE)
    OBVIOUS
  <2> HIDE DEF row
  <2>4. old.credits + m \in Int /\ old.debits - m \in Int
    BY <1>1, <2>1
  <2> QED
    BY <1>1, <2>1, <2>2, <2>3, <2>4, OldBegins DEF Entered
<1>5. PostRow(d, i) = RowDone(d, a, p, row, hl)
  <2>1. f.gl = d.gl
    <3> HIDE DEF row, f, a, p
    <3> QED
      BY <1>1, <1>4, RowForwarded DEF f
  <2>2. PostRow(d, i) = [f EXCEPT !.gl[i].posted = TRUE]
    BY DEF PostRow
  <2>3. PostRow(d, i) = e
    <3> HIDE DEF f
    <3> QED
      BY <2>1, <2>2
  <2> QED
    BY <2>3, Zenon DEF RowDone
<1> HIDE DEF row, hl, e, f
<1> QED
  BY <1>1, <1>3, <1>4, <1>5 DEF RowTurn

LEMMA PostRowSteady ==
  ASSUME NEW d, Ledgered(d), NEW i \in DOMAIN d.gl, d.gl[i].period \in d.periods,
         NEW shut, AllBefore(shut, d.gl[i].period)
  PROVE  Stepped(d, PostRow(d, i), shut)
BY PostRowIs, TurnSteady

\* deleteGlSeries's turn for row i, which has a trial balance row.
LEMMA UnpostRowIs ==
  ASSUME NEW d, Ledgered(d), NEW i \in DOMAIN d.gl, d.gl[i].period \in d.periods,
         <<d.gl[i].accnt, d.gl[i].period>> \in DOMAIN d.tb
  PROVE  RowTurn(d, UnpostRow(d, i), i)
<1> DEFINE r == d.gl[i]
           a == r.accnt
           p == r.period
           k == <<a, p>>
           m == r.amount
           s == [r EXCEPT !.posted = FALSE, !.deleted = TRUE]
           hl == [d.gl EXCEPT ![i] = s]
           old == d.tb[k]
           row == IF m > 0
                  THEN Row(old.beginning, old.debits, old.credits - m, old.yearend, TRUE)
                  ELSE Row(old.beginning, old.debits + m, old.credits, old.yearend, TRUE)
           f == ForwardIfShould(Write(d, k, row), a, p)
           e == [f EXCEPT !.gl = hl]
<1>1. IsLine(r) /\ Lines(d.gl) /\ Base(d) /\ a \in Accounts /\ p \in Slots /\ m \in Int
  BY DEF Ledgered, Lines, IsLine
<1>2. IsLine(s) /\ s.accnt = a /\ s.period = p /\ s.amount = m
  <2> DEFINE was == FALSE
             del == TRUE
  <2>1. Remarked(s, r, was, del)
    BY DEF Remarked
  <2> HIDE DEF s, r, was, del
  <2> QED
    BY <1>1, <2>1, MarkedLine
<1>3. Lines(hl) /\ SameLines(d.gl, hl) /\ SameBut(d.gl, hl, i)
  <2> HIDE DEF s, hl
  <2> QED
    BY <1>1, <1>2, ReplacedLine DEF hl
<1>4. Entered(d, k, row) /\ row \in TBRows
  <2>0. old = (IF k \in DOMAIN d.tb THEN d.tb[k] ELSE Row(0, 0, 0, 0, TRUE))
    OBVIOUS
  <2> HIDE DEF old, k, m
  <2>1. old.debits \in Int /\ old.credits \in Int
    BY <1>1, <2>0, OldMovements
  <2>3. \/ row = Row(old.beginning, old.debits, old.credits - m, old.yearend, TRUE)
        \/ row = Row(old.beginning, old.debits + m, old.credits, old.yearend, TRUE)
    OBVIOUS
  <2> HIDE DEF row
  <2>4. old.credits - m \in Int /\ old.debits + m \in Int
    BY <1>1, <2>1
  <2> QED
    BY <1>1, <2>0, <2>1, <2>3, <2>4, OldBegins DEF Entered
<1>5. UnpostRow(d, i) = RowDone(d, a, p, row, hl)
  <2>1. f.gl = d.gl
    <3> HIDE DEF row, f, a, p
    <3> QED
      BY <1>1, <1>4, RowForwarded DEF f
  <2>2. UnpostRow(d, i) = [f EXCEPT !.gl[i].posted = FALSE, !.gl[i].deleted = TRUE]
    BY DEF UnpostRow
  <2>3. UnpostRow(d, i) = e
    <3> HIDE DEF f
    <3>1. [f EXCEPT !.gl[i].posted = FALSE, !.gl[i].deleted = TRUE] = e
      BY ONLY <2>1, <1>1 DEF Lines
    <3> QED
      BY <2>2, <3>1
  <2> QED
    BY <2>3, Zenon DEF RowDone
<1> HIDE DEF row, hl, e, f
<1> QED
  BY <1>1, <1>3, <1>4, <1>5 DEF RowTurn

LEMMA UnpostRowSteady ==
  ASSUME NEW d, Ledgered(d), NEW i \in DOMAIN d.gl, d.gl[i].period \in d.periods,
         <<d.gl[i].accnt, d.gl[i].period>> \in DOMAIN d.tb,
         NEW shut, AllBefore(shut, d.gl[i].period)
  PROVE  Stepped(d, UnpostRow(d, i), shut)
BY UnpostRowIs, TurnSteady

LEMMA SteppedSelf == ASSUME NEW d, Ledgered(d), NEW shut PROVE Stepped(d, d, shut)
<1>1. SameLines(d.gl, d.gl)
  BY DEF SameLines
<1> QED
  BY <1>1, SteadySelf DEF Stepped

LEMMA SteppedTwice ==
  ASSUME NEW d, NEW e, NEW f, NEW shut, Stepped(d, e, shut), Stepped(e, f, shut)
  PROVE  Stepped(d, f, shut)
<1>1. SameLines(d.gl, f.gl)
  BY DEF Stepped, SameLines
<1>2. ASSUME NEW b \in Others PROVE Steady(d.tb, f.tb, shut, b)
  BY SteadyTwice DEF Stepped
<1>3. DOMAIN d.tb \subseteq DOMAIN f.tb
  BY DEF Stepped
<1> QED
  BY <1>1, <1>2, <1>3 DEF Stepped

\* The row i of d is of a period that exists, after those shut.
Ripe(d, i, shut) ==
    i \in DOMAIN d.gl /\ d.gl[i].period \in d.periods /\ AllBefore(shut, d.gl[i].period)
HasBalance(d, i) == <<d.gl[i].accnt, d.gl[i].period>> \in DOMAIN d.tb

LEMMA StillRipe ==
  ASSUME NEW d, NEW e, NEW shut, Stepped(d, e, shut), NEW i, Ripe(d, i, shut)
  PROVE  Ripe(e, i, shut) /\ (HasBalance(d, i) => HasBalance(e, i))
BY DEF Stepped, SameLines, Ripe, HasBalance

LEMMA PostLoopSteady ==
  ASSUME NEW d, Ledgered(d), NEW n, n \in Nat, NEW order, DOMAIN order = 1..n, NEW shut,
         \A i \in 1..n : Ripe(d, order[i], shut)
  PROVE  Stepped(d, PostLoop(d, order), shut)
<1>1. PICK g : /\ g[0] = d /\ \A i \in 1..n : g[i] = PostRow(g[i - 1], order[i])
               /\ PostLoop(d, order) = g[n]
  BY ONLY n \in Nat, DOMAIN order = 1..n, PostChain
<1> DEFINE Z == {i \in 0..n : Stepped(d, g[i], shut)}
<1>2. 0 \in Z
  BY <1>1, SteppedSelf
<1>3. ASSUME NEW m \in 1..n, m - 1 \in Z PROVE m \in Z
  <2> DEFINE s == g[m - 1]
             u == g[m]
             i == order[m]
  <2>1. Stepped(d, s, shut) /\ u = PostRow(s, i) /\ Ripe(d, i, shut)
    BY <1>1, <1>3
  <2> HIDE DEF s, u, i
  <2>2. Ripe(s, i, shut) /\ Ledgered(s)
    BY <2>1, StillRipe DEF Stepped
  <2>3. Stepped(s, u, shut)
    BY <2>1, <2>2, PostRowSteady DEF Ripe
  <2>4. Stepped(d, u, shut)
    BY <2>1, <2>3, SteppedTwice
  <2> QED
    BY <2>4 DEF u
<1>4. n \in Z
  <2> HIDE DEF Z
  <2>1. \A i \in 0..n : i \in Z
    BY ONLY n \in Nat, <1>2, <1>3, Counting
  <2> QED
    BY <2>1
<1> QED
  BY <1>1, <1>4

LEMMA UnpostLoopSteady ==
  ASSUME NEW d, Ledgered(d), NEW n, n \in Nat, NEW order, DOMAIN order = 1..n, NEW shut,
         \A i \in 1..n : Ripe(d, order[i], shut) /\ HasBalance(d, order[i])
  PROVE  Stepped(d, UnpostLoop(d, order), shut)
<1>1. PICK g : /\ g[0] = d /\ \A i \in 1..n : g[i] = UnpostRow(g[i - 1], order[i])
               /\ UnpostLoop(d, order) = g[n]
  BY ONLY n \in Nat, DOMAIN order = 1..n, UnpostChain
<1> DEFINE Z == {i \in 0..n : Stepped(d, g[i], shut)}
<1>2. 0 \in Z
  BY <1>1, SteppedSelf
<1>3. ASSUME NEW m \in 1..n, m - 1 \in Z PROVE m \in Z
  <2> DEFINE s == g[m - 1]
             u == g[m]
             i == order[m]
  <2>1. Stepped(d, s, shut) /\ u = UnpostRow(s, i) /\ Ripe(d, i, shut) /\ HasBalance(d, i)
    BY <1>1, <1>3
  <2> HIDE DEF s, u, i
  <2>2. Ripe(s, i, shut) /\ Ledgered(s) /\ HasBalance(s, i)
    BY <2>1, StillRipe DEF Stepped
  <2>3. Stepped(s, u, shut)
    BY <2>1, <2>2, UnpostRowSteady DEF Ripe, HasBalance
  <2>4. Stepped(d, u, shut)
    BY <2>1, <2>3, SteppedTwice
  <2> QED
    BY <2>4 DEF u
<1>4. n \in Z
  <2> HIDE DEF Z
  <2>1. \A i \in 0..n : i \in Z
    BY ONLY n \in Nat, <1>2, <1>3, Counting
  <2> QED
    BY <2>1
<1> QED
  BY <1>1, <1>4

\* The periods shut come before every period that is open.
OpenLater(d) == \A c \in d.closed, p \in d.periods \ d.closed : c \in Int /\ c < p

\* The balances posting leaves, with the ledger and the periods as they are.
Ends(d, e) == Within(e.tb, d.periods) /\ \A b \in Others : Steady(d.tb, e.tb, d.closed, b)

LEMMA PostingSteady ==
  ASSUME NEW d, Ledgered(d), OpenLater(d), NEW seqs, NEW priv,
         NEW e, e = postIntoTrialBalance(d, seqs, priv)
  PROVE  Ends(d, e)
<1> DEFINE ids == Pending(d, seqs, priv)
           order == InSequence(ids)
           m == Cardinality(ids)
           gl == [i \in DOMAIN d.gl |-> [d.gl[i] EXCEPT !.posted = @ \/ i \in ids]]
           s == PostLoop(d, order)
           shut == d.closed
<1>1. e.tb = s.tb
  <2> DEFINE done == FoldLeft(PostRow, d, InSequence(ids))
  <2>1. e = [WithBalances(d, done) EXCEPT !.gl = gl] /\ IsDB(d)
    BY DEF postIntoTrialBalance, Ledgered, Base
  <2>2. done = s
    BY DEF PostLoop
  <2> HIDE DEF done, s, gl
  <2>3. e.tb = done.tb
    BY <2>1 DEF WithBalances, IsDB
  <2> QED
    BY <2>2, <2>3
<1>2. \A i \in ids : i \in DOMAIN d.gl /\ d.gl[i].period \in d.periods \ d.closed
  BY DEF Pending, Postable
<1>3. \A i \in ids : Ripe(d, i, shut)
  BY <1>2 DEF Ripe, AllBefore, OpenLater
<1> HIDE DEF ids, gl, s, order, m
<1>4. IsSeq(d.gl) /\ ids \subseteq DOMAIN d.gl
  BY <1>2 DEF Ledgered, Lines
<1>5. /\ m \in Nat /\ DOMAIN order = 1..m
      /\ \A i \in 1..m : order[i] \in ids
  BY <1>4, OrderOf DEF order, m
<1> HIDE DEF shut
<1>6. Stepped(d, s, shut)
  BY <1>3, <1>5, PostLoopSteady DEF s
<1> QED
  BY <1>1, <1>6 DEF Stepped, Ledgered, Ends, shut

-----------------------------------------------------------------------------
(* The closed periods from one state to the next.                          *)

\* The invariant: rows lie in periods that exist, and in the closed periods
\* every account but the year-end equity account has its chain.
ClosedBooks ==
    /\ Within(trialbal, periods)
    /\ \A a \in Others : ChainOf(trialbal, closed, periods, a)

Standing == IInv /\ CalendarInv /\ BInv /\ ClosedBooks

\* What a step does: it keeps the invariant, and the rows of the periods
\* closed before and after it.
Continued ==
    /\ ClosedBooks'
    /\ \A a \in Others : Held(trialbal, trialbal', closed \cap closed', a)

LEMMA ClosedBefore ==
  ASSUME CalendarInv
  PROVE  \A c \in closed, p \in periods \ closed : c \in Int /\ c < p
<1> SUFFICES ASSUME NEW c \in closed, NEW p \in periods \ closed PROVE c \in Int /\ c < p
  OBVIOUS
<1>1. c \in Int /\ p \in Int
  BY DEF CalendarInv, Slots
<1>2. ~(p < c) /\ p # c
  BY DEF CalendarInv, ClosedInOrder
<1> QED
  BY <1>1, <1>2

LEMMA FewerClosed ==
  ASSUME NEW tb, NEW shut, NEW less, less \subseteq shut, NEW pers, NEW a,
         ChainOf(tb, shut, pers, a)
  PROVE  ChainOf(tb, less, pers, a)
BY DEF ChainOf

LEMMA HeldLess ==
  ASSUME NEW tb, NEW ub, NEW shut, NEW less, less \subseteq shut, NEW a, Held(tb, ub, shut, a)
  PROVE  Held(tb, ub, less, a)
BY DEF Held

\* A step that posts into the balances, with periods closed as before or fewer.
LEMMA EndsContinue ==
  ASSUME ClosedBooks, NEW d, d.tb = trialbal, d.periods = periods, d.closed \subseteq closed,
         NEW e, Ends(d, e), trialbal' = e.tb, periods' = d.periods, closed' = d.closed
  PROVE  Continued
<1>1. ASSUME NEW a \in Others
      PROVE  ChainOf(e.tb, d.closed, periods, a) /\ Held(trialbal, e.tb, d.closed, a)
  <2>1. ChainOf(trialbal, d.closed, periods, a)
    BY FewerClosed DEF ClosedBooks
  <2> QED
    BY <2>1, SteadyKeeps DEF Ends
<1>2. ClosedBooks'
  BY <1>1 DEF ClosedBooks, Ends
<1>3. closed \cap closed' = d.closed
  OBVIOUS
<1> QED
  BY <1>1, <1>2, <1>3 DEF Continued

LEMMA PostedLines ==
  ASSUME NEW d, Good(d), NEW seqs, NEW priv, NEW e, e = postIntoTrialBalance(d, seqs, priv),
         GLTyped(e.gl)
  PROVE  Lines(d.gl)
<1> DEFINE ids == Pending(d, seqs, priv)
           done == FoldLeft(PostRow, d, InSequence(ids))
           gl == [i \in DOMAIN d.gl |-> [d.gl[i] EXCEPT !.posted = @ \/ i \in ids]]
<1>1. e = [WithBalances(d, done) EXCEPT !.gl = gl]
  BY DEF postIntoTrialBalance
<1> HIDE DEF done, ids
<1>2. gl = [i \in DOMAIN d.gl |-> [d.gl[i] EXCEPT !.posted = @ \/ i \in ids]]
  OBVIOUS
<1> HIDE DEF gl
<1>3. e.gl = gl
  BY <1>1 DEF WithBalances, Good, IsDB
<1>4. ASSUME NEW i \in DOMAIN d.gl PROVE IsLine(d.gl[i])
  <2> DEFINE r == d.gl[i]
             s == gl[i]
             flag == (r.posted \/ i \in ids)
  <2>1. s \in LedgerRows
    BY <1>2, <1>3 DEF GLTyped
  <2>2. s = [r EXCEPT !.posted = flag] /\ IsRow(r)
    BY <1>2 DEF Good, Sound
  <2> HIDE DEF r, s, flag
  <2>3. s.accnt = r.accnt /\ s.amount = r.amount /\ s.period = r.period
    BY <2>2 DEF IsRow
  <2>4. IsLine(r)
    BY <2>1, <2>2, <2>3 DEF IsLine, LedgerRows
  <2> QED
    BY <2>4 DEF r
<1> QED
  BY <1>4 DEF Lines, Good, Sound

\* A posting into the balances as they are, with periods closed as before or
\* fewer of them.
LEMMA PostingContinues ==
  ASSUME Standing, BInv', NEW d, Good(d), d.tb = trialbal, d.periods = periods,
         d.closed \subseteq closed, \A c \in d.closed, p \in periods \ d.closed : c < p,
         NEW seqs, NEW priv, NEW n, Commit(postIntoTrialBalance(d, seqs, priv), n)
  PROVE  Continued
<1> DEFINE e == postIntoTrialBalance(d, seqs, priv)
<1>1. gltrans' = e.gl /\ trialbal' = e.tb /\ periods' = e.periods /\ closed' = e.closed
  BY DEF Commit
<1>2. e.periods = d.periods /\ e.closed = d.closed
  BY Posting
<1>3. GLTyped(gltrans') /\ TBTyped(trialbal) /\ periods \subseteq Slots
  BY Now DEF Standing, Books, Tallied, Base, BInv, DB, CalendarInv
<1>4. e = postIntoTrialBalance(d, seqs, priv)
  OBVIOUS
<1> HIDE DEF e
<1>5. Lines(d.gl)
  BY <1>1, <1>3, <1>4, PostedLines
<1>6. Ledgered(d)
  BY <1>3, <1>5, LinesAreRows DEF Ledgered, Base, Good, Standing, ClosedBooks
<1>7. OpenLater(d)
  <2>1. d.closed \subseteq Slots
    BY <1>3 DEF Standing, CalendarInv
  <2>2. \A c \in d.closed, p \in d.periods \ d.closed : c < p
    OBVIOUS
  <2>3. Slots \subseteq Int
    BY DEF Slots
  <2> QED
    BY <2>1, <2>2, <2>3 DEF OpenLater
<1>8. Ends(d, e)
  BY <1>4, <1>6, <1>7, PostingSteady
<1> QED
  BY <1>1, <1>2, <1>8, EndsContinue DEF Standing

LEMMA RoutineContinues ==
  ASSUME Standing, BInv', Routine
  PROVE  Continued
<1>1. CASE UNCHANGED <<trialbal, periods, closed>>
  BY <1>1, HeldSelf DEF Continued, ClosedBooks, Standing
<1>2. CASE \E d, seqs, priv, n : /\ AsIs(d) /\ Kept(gltrans, d.gl, closed)
                                 /\ Commit(postIntoTrialBalance(d, seqs, priv), n)
  <2>1. PICK d, seqs, priv, n : AsIs(d) /\ Commit(postIntoTrialBalance(d, seqs, priv), n)
    BY <1>2
  <2>2. \A c \in d.closed, p \in periods \ d.closed : c < p
    BY <2>1, ClosedBefore DEF AsIs, Standing
  <2>3. Good(d) /\ d.tb = trialbal /\ d.periods = periods /\ d.closed \subseteq closed
    BY <2>1 DEF AsIs
  <2> QED
    BY <2>1, <2>2, <2>3, PostingContinues
<1> QED
  BY <1>1, <1>2 DEF Routine

\* openAccountingPeriod: the period reopened was the last one closed.
LEMMA OpenContinues ==
  ASSUME Standing, BInv', NEW p, NEW priv, OpenAccountingPeriod(p, priv)
  PROVE  Continued
<1> DEFINE left == DB.closed \ {p}
           d == [DB EXCEPT !.closed = left]
           seqs == UnpostedIn(p)
<1>1. Commit(postIntoTrialBalance(d, seqs, priv), sequence)
      /\ p \in closed /\ \A q \in closed : q <= p
  BY DEF OpenAccountingPeriod, Reopen
<1>2. left = closed \ {p}
  BY DBGood DEF Standing
<1> HIDE DEF left, seqs
<1>3. Good(d) /\ d.tb = trialbal /\ d.periods = periods /\ d.closed = left
  <2>1. Good(DB) /\ DB.periods = periods /\ DB.tb = trialbal
    BY DBGood DEF Standing
  <2>2. d = [DB EXCEPT !.closed = left]
    OBVIOUS
  <2> HIDE DEF d
  <2>3. SameLedger(DB, d) /\ d.periods = DB.periods /\ d.closed = left
    BY <2>1, <2>2, ClosedReplaced DEF Good
  <2> QED
    BY <2>1, <2>2, <2>3, Flagging DEF SameLedger
<1> HIDE DEF d
<1>4. \A c \in left, q \in periods \ left : c < q
  <2> SUFFICES ASSUME NEW c \in left, NEW q \in periods \ left PROVE c < q
    OBVIOUS
  <2>1. c \in Int /\ q \in Int /\ p \in Int
    BY <1>1, <1>2 DEF Standing, CalendarInv, Slots
  <2>2. CASE q = p
    BY <1>1, <1>2, <2>1, <2>2
  <2>3. CASE q # p
    BY <1>2, <2>3, ClosedBefore DEF Standing
  <2> QED
    BY <2>2, <2>3
<1> QED
  BY <1>1, <1>2, <1>3, <1>4, PostingContinues

LEMMA LedgerLines ==
  ASSUME Standing PROVE Lines(gltrans)
<1>1. Sound(gltrans, periods) /\ GLTyped(gltrans)
  BY Now DEF Standing, IInv
<1>2. ASSUME NEW i \in DOMAIN gltrans PROVE IsLine(gltrans[i])
  BY <1>1 DEF Sound, GLTyped, LedgerRows, IsLine
<1> QED
  BY <1>1, <1>2 DEF Lines, Sound

\* A step that takes m rows of open periods back.
TakesBack(m, order) ==
    /\ m \in Nat /\ DOMAIN order = 1..m
    /\ \A i \in 1..m : Ripe(DB, order[i], closed) /\ HasBalance(DB, order[i])
    /\ trialbal' = UnpostLoop(DB, order).tb /\ periods' = periods /\ closed' = closed

\* deleteGlSeries takes rows of open periods back.
LEMMA DeleteSeriesIs ==
  ASSUME Standing, NEW seq, NEW priv, DeleteGLSeries(seq, priv)
  PROVE  \E m, order : TakesBack(m, order)
<1> DEFINE ids == Live(seq)
           order == InSequence(ids)
           m == Cardinality(ids)
           done == UnpostLoop(DB, order)
           b == WithBalances(DB, done)
           gl == TakenBack(gltrans, ids)
           d == [b EXCEPT !.gl = gl]
           sl == [j \in DOMAIN sltrans |->
                    IF sltrans[j].glsequence = seq
                    THEN [sltrans[j] EXCEPT !.posted = FALSE, !.glsequence = 0]
                    ELSE sltrans[j]]
           e == [d EXCEPT !.sl = sl]
<1>1. Commit(e, sequence)
  BY DEF DeleteGLSeries, UnpostLoop, TakenBack
<1>2. /\ DB.gl = gltrans /\ DB.periods = periods /\ DB.closed = closed /\ DB.tb = trialbal
      /\ IsDB(DB) /\ Base(DB) /\ GLTyped(gltrans) /\ DB.frozen = frozen
  BY Now DEF Standing
<1>3. \A i \in ids : i \in DOMAIN gltrans /\ Postable(DB, gltrans[i].period, priv)
                     /\ <<gltrans[i].accnt, gltrans[i].period>> \in DOMAIN trialbal
  BY DEF DeleteGLSeries, Live
<1> HIDE DEF ids, order, m, done, gl, sl
<1>4. e.tb = done.tb /\ e.periods = periods /\ e.closed = closed
  <2>1. IsDB(b) /\ b.tb = done.tb /\ b.periods = periods /\ b.closed = closed
    <3> HIDE DEF b
    <3>1. IsDB(DB) /\ b = WithBalances(DB, done)
      BY <1>2 DEF b
    <3>2. /\ IsDB(b) /\ b.tb = done.tb /\ b.periods = DB.periods /\ b.closed = DB.closed
      BY ONLY <3>1, BalanceTables
    <3> QED
      BY <1>2, <3>2
  <2> HIDE DEF b
  <2>2. IsDB(d) /\ d.tb = done.tb /\ d.periods = periods /\ d.closed = closed
    BY <2>1 DEF IsDB
  <2> HIDE DEF d
  <2> QED
    BY <2>2 DEF IsDB
<1> HIDE DEF e
<1>5. trialbal' = done.tb /\ periods' = periods /\ closed' = closed
  BY <1>1, <1>4 DEF Commit
<1>8. ASSUME NEW i \in ids PROVE Ripe(DB, i, closed) /\ HasBalance(DB, i)
  <2>1. gltrans[i].period \in periods \ closed
    BY <1>2, <1>3 DEF Postable
  <2>2. AllBefore(closed, gltrans[i].period)
    BY <2>1, ClosedBefore DEF Standing, AllBefore
  <2> QED
    BY <1>2, <1>3, <2>1, <2>2 DEF Ripe, HasBalance
<1>9. IsSeq(gltrans) /\ ids \subseteq DOMAIN gltrans
  BY <1>2, <1>3 DEF GLTyped
<1>10. m \in Nat /\ DOMAIN order = 1..m /\ \A i \in 1..m : order[i] \in ids
  BY <1>9, OrderOf DEF order, m
<1>11. \A i \in 1..m : Ripe(DB, order[i], closed) /\ HasBalance(DB, order[i])
  BY <1>8, <1>10
<1>12. TakesBack(m, order)
  BY <1>5, <1>10, <1>11 DEF TakesBack, done
<1> QED
  BY <1>12

LEMMA DeleteSeriesContinues ==
  ASSUME Standing, NEW seq, NEW priv, DeleteGLSeries(seq, priv)
  PROVE  Continued
<1>1. PICK m, order : TakesBack(m, order)
  BY DeleteSeriesIs
<1>2. /\ DB.gl = gltrans /\ DB.periods = periods /\ DB.closed = closed /\ DB.tb = trialbal
      /\ Base(DB)
  BY Now DEF Standing
<1>3. Ledgered(DB)
  BY <1>2, LedgerLines DEF Ledgered, Standing, ClosedBooks
<1> DEFINE done == UnpostLoop(DB, order)
<1>4. Stepped(DB, done, closed)
  <2>1. /\ m \in Nat /\ DOMAIN order = 1..m
        /\ \A i \in 1..m : Ripe(DB, order[i], closed) /\ HasBalance(DB, order[i])
    BY <1>1 DEF TakesBack
  <2> HIDE <1>1
  <2> QED
    BY <1>3, <2>1, UnpostLoopSteady
<1>5. trialbal' = done.tb /\ periods' = periods /\ closed' = closed
  BY <1>1 DEF TakesBack
<1> HIDE DEF done
<1>6. Ends(DB, done)
  BY <1>2, <1>4 DEF Stepped, Ends, Ledgered
<1> QED
  BY <1>2, <1>5, <1>6, EndsContinue DEF Standing

\* deleteAccountingPeriod takes the rows of the last period, which is open.
LEMMA DeleteContinues ==
  ASSUME Standing, NEW p, DeleteAccountingPeriod(p)
  PROVE  Continued
<1> DEFINE D == {j \in DOMAIN trialbal : j[2] # p}
           tb == [k \in D |-> trialbal[k]]
<1>1. /\ p \notin closed /\ trialbal' = tb /\ periods' = periods \ {p} /\ closed' = closed
  BY DEF DeleteAccountingPeriod, Removed, Commit, DB
<1>2. DOMAIN tb = D /\ \A k \in D : tb[k] = trialbal[k]
  OBVIOUS
<1> HIDE DEF tb
<1>3. Within(tb, periods \ {p})
  BY <1>2 DEF Standing, ClosedBooks, Within
<1>4. ASSUME NEW a \in Others
      PROVE  ChainOf(tb, closed, periods \ {p}, a) /\ Held(trialbal, tb, closed, a)
  <2>1. ASSUME NEW c \in closed
        PROVE  /\ SettledRow(tb, a, c) /\ tb[<<a, c>>] = trialbal[<<a, c>>]
               /\ c + 1 \in periods \ {p} => Follows(tb, a, c)
    <3>1. SettledRow(trialbal, a, c) /\ (c + 1 \in periods => Follows(trialbal, a, c))
      BY DEF Standing, ClosedBooks, ChainOf
    <3>2. <<a, c>> \in D
      BY <1>1, <3>1 DEF SettledRow
    <3>3. SettledRow(tb, a, c) /\ tb[<<a, c>>] = trialbal[<<a, c>>]
      BY <1>2, <3>1, <3>2 DEF SettledRow
    <3>4. ASSUME c + 1 \in periods \ {p} PROVE Follows(tb, a, c)
      <4>1. <<a, c + 1>> \in D <=> <<a, c + 1>> \in DOMAIN trialbal
        BY <3>4
      <4>2. CarriedOn(tb, a, c) = CarriedOn(trialbal, a, c)
        BY <3>3 DEF CarriedOn
      <4> QED
        BY <1>2, <3>1, <3>4, <4>1, <4>2 DEF Follows
    <3> QED
      BY <3>3, <3>4
  <2> QED
    BY <2>1 DEF ChainOf, Held, SettledRow
<1>5. closed \cap closed' = closed
  BY <1>1
<1> QED
  BY <1>1, <1>3, <1>4, <1>5 DEF Continued, ClosedBooks

\* What is spared by every loop is steady.
LEMMA SparedSteady ==
  ASSUME NEW tb, NEW ub, NEW pers, \A a, p : Spared(tb, ub, pers, a, p), NEW shut
  PROVE  (Within(tb, pers) => Within(ub, pers)) /\ \A b \in Others : Steady(tb, ub, shut, b)
<1>1. Spared(tb, ub, pers, YearEndEquityAccount, 0)
  OBVIOUS
<1>2. \A k : k[1] \in Others => Apart(k, YearEndEquityAccount, 0)
  BY DEF Apart, Others
<1>3. Within(tb, pers) => Within(ub, pers)
  BY <1>1 DEF Spared, Within
<1>4. ASSUME NEW b \in Others PROVE Steady(tb, ub, shut, b)
  <2>1. \A q : <<b, q>> \in DOMAIN ub => <<b, q>> \in DOMAIN tb /\ ub[<<b, q>>] = tb[<<b, q>>]
    BY <1>1, <1>2 DEF Spared
  <2>2. DOMAIN tb \subseteq DOMAIN ub
    BY <1>1 DEF Spared
  <2> QED
    BY <2>1, <2>2 DEF Steady, Held, BeginsAs
<1> QED
  BY <1>3, <1>4

\* closeAccountingYearPeriod writes the equity account only.
LEMMA CloseYearIs ==
  ASSUME Standing, NEW y, CloseAccountingYearPeriod(y)
  PROVE  /\ trialbal' = updateRetainedEarnings(DB, y).d.tb
         /\ periods' = periods /\ closed' = closed
<1> DEFINE x == updateRetainedEarnings(DB, y).d
           b == WithBalances(DB, x)
           v == b.yearclosed \cup {y}
           e == [b EXCEPT !.yearclosed = v]
<1>1. Commit(e, sequence)
  BY DEF CloseAccountingYearPeriod
<1>2. /\ DB.periods = periods /\ DB.closed = closed /\ DB.tb = trialbal
      /\ IsDB(DB) /\ Base(DB)
  BY Now DEF Standing
<1> HIDE DEF x
<1>4. /\ IsDB(b) /\ b.tb = x.tb /\ b.periods = periods /\ b.closed = closed
  <2> HIDE DEF b
  <2>1. IsDB(DB) /\ b = WithBalances(DB, x)
    BY <1>2 DEF b
  <2>2. IsDB(b) /\ b.tb = x.tb /\ b.periods = DB.periods /\ b.closed = DB.closed
    BY ONLY <2>1, BalanceTables
  <2> QED
    BY <1>2, <2>2
<1> HIDE DEF b, v
<1>5. e.tb = x.tb /\ e.periods = periods /\ e.closed = closed
  BY <1>4 DEF IsDB
<1> HIDE DEF e
<1> QED
  BY <1>1, <1>5 DEF Commit, x

LEMMA CloseYearContinues ==
  ASSUME Standing, NEW y, CloseAccountingYearPeriod(y)
  PROVE  Continued
<1> DEFINE x == updateRetainedEarnings(DB, y).d
<1>1. trialbal' = x.tb /\ periods' = periods /\ closed' = closed
  BY CloseYearIs
<1>2. /\ DB.periods = periods /\ DB.closed = closed /\ DB.tb = trialbal /\ Base(DB)
  BY Now DEF Standing
<1>3. \A a, p : Spared(DB.tb, x.tb, DB.periods, a, p)
  BY <1>2, RetainSpares
<1> HIDE DEF x
<1>4. Ends(DB, x)
  BY <1>2, <1>3, SparedSteady DEF Ends, Standing, ClosedBooks
<1> QED
  BY <1>1, <1>2, <1>4, EndsContinue DEF Standing

\* Carrying account a forward from a slot after the closed ones.
LEMMA MovedEnds ==
  ASSUME NEW d, Base(d), Within(d.tb, d.periods), NEW a \in Accounts, NEW p \in Slots,
         <<a, p>> \in DOMAIN d.tb, a = YearEndEquityAccount \/ AllBefore(d.closed, p),
         NEW e, e = forwardUpdateTrialBalance(d, a, p)
  PROVE  Ends(d, e)
<1>1. Moved(d.tb, e.tb, d.periods, a, p) /\ p \in Int
  BY ForwardMoves DEF Slots
<1>2. Within(e.tb, d.periods)
  BY <1>1, MovedWithin
<1>3. ASSUME NEW b \in Others PROVE Steady(d.tb, e.tb, d.closed, b)
  BY <1>1, MovedSteady DEF Base
<1> QED
  BY <1>2, <1>3 DEF Ends

LEMMA EndsTwice ==
  ASSUME NEW d, NEW e, NEW f, Ends(d, e), Ends(e, f), e.periods = d.periods, e.closed = d.closed
  PROVE  Ends(d, f)
BY SteadyTwice DEF Ends

\* forwardUpdateAccount carries a forward from slot p of w: from a row that is
\* not settled, or from a first row that it adds to an account without rows.
ForwardsFrom(a, p, w) ==
    /\ p \in periods /\ <<a, p>> \in DOMAIN w.tb /\ Carried(DB, w)
    /\ \/ w = DB /\ trialbal[<<a, p>>].dirty
       \/ RowSlots(DB, a) = {} /\ w = Write(DB, <<a, p>>, Row(0, 0, 0, 0, FALSE))
    /\ LET e == forwardUpdateTrialBalance(w, a, p)
       IN  trialbal' = e.tb /\ periods' = e.periods /\ closed' = e.closed

LEMMA ForwardAccountIs ==
  ASSUME Standing, NEW a \in Accounts, ForwardUpdateAccount(a)
  PROVE  \E p, w : ForwardsFrom(a, p, w)
<1>0. /\ DB.periods = periods /\ DB.closed = closed /\ DB.tb = trialbal
      /\ IsDB(DB) /\ Base(DB) /\ Within(DB.tb, DB.periods) /\ periods \subseteq Slots
  BY Now, CalendarNow DEF Standing, ClosedBooks
<1>1. CASE /\ DirtySlots(DB, a) # {}
           /\ Commit(forwardUpdateTrialBalance(DB, a, Min(DirtySlots(DB, a))), sequence)
  <2> DEFINE S == DirtySlots(DB, a)
             p == Min(S)
             e == forwardUpdateTrialBalance(DB, a, p)
  <2>1. /\ S \subseteq Slots /\ S # {}
        /\ \A q \in S : <<a, q>> \in DOMAIN DB.tb /\ DB.tb[<<a, q>>].dirty
    BY <1>1 DEF DirtySlots, RowSlots
  <2>2. Commit(e, sequence)
    BY <1>1
  <2> HIDE DEF S
  <2>3. p \in S
    BY <2>1, LastSlot
  <2>4. trialbal' = e.tb /\ periods' = e.periods /\ closed' = e.closed
    BY <2>2 DEF Commit
  <2> HIDE DEF p
  <2>5. p \in Slots /\ <<a, p>> \in DOMAIN DB.tb /\ DB.tb[<<a, p>>].dirty
    BY <2>1, <2>3
  <2>6. p \in periods
    BY <1>0, <2>5 DEF Within
  <2>7. Carried(DB, DB)
    BY <1>0, CarriedSelf
  <2>8. ForwardsFrom(a, p, DB)
    BY <1>0, <2>4, <2>5, <2>6, <2>7 DEF ForwardsFrom
  <2> QED
    BY <2>8
<1>2. CASE /\ RowSlots(DB, a) = {} /\ periods # {}
           /\ Commit(forwardUpdateTrialBalance(
                Write(DB, <<a, Min(periods)>>, Row(0, 0, 0, 0, FALSE)), a, Min(periods)),
                sequence)
  <2> DEFINE p == Min(periods)
             k == <<a, p>>
             zero == Row(0, 0, 0, 0, FALSE)
             w == Write(DB, k, zero)
             e == forwardUpdateTrialBalance(w, a, p)
  <2>1. p \in Slots /\ p \in periods
    BY <1>0, <1>2, LastSlot
  <2>2. zero \in TBRows /\ zero.debits = 0 /\ zero.credits = 0
    BY DEF Row, TBRows
  <2>3. Commit(e, sequence)
    BY <1>2
  <2>4. trialbal' = e.tb /\ periods' = e.periods /\ closed' = e.closed
    BY <2>3 DEF Commit
  <2>9. w = Write(DB, <<a, p>>, Row(0, 0, 0, 0, FALSE))
    OBVIOUS
  <2> HIDE DEF p, zero
  <2>5. k \in Keys /\ k \notin DOMAIN DB.tb
    BY <1>2, <2>1 DEF RowSlots, Keys
  <2>6. Carried(DB, w)
    BY <1>0, <2>2, <2>5, WriteCarries
  <2>7. k \in DOMAIN w.tb
    <3> HIDE DEF k
    <3> QED
      BY <1>0, WriteTable
  <2> HIDE DEF w
  <2>8. ForwardsFrom(a, p, w)
    BY <1>2, <2>1, <2>4, <2>6, <2>7, <2>9 DEF ForwardsFrom
  <2> QED
    BY <2>8
<1> QED
  BY <1>1, <1>2 DEF ForwardUpdateAccount

LEMMA ForwardContinues ==
  ASSUME Standing, NEW a \in Accounts, ForwardUpdateAccount(a)
  PROVE  Continued
<1>0. /\ DB.periods = periods /\ DB.closed = closed /\ DB.tb = trialbal
      /\ IsDB(DB) /\ Base(DB) /\ Within(DB.tb, DB.periods) /\ periods \subseteq Slots
  BY Now, CalendarNow DEF Standing, ClosedBooks
<1>1. PICK p, w : ForwardsFrom(a, p, w)
  BY ForwardAccountIs
<1> DEFINE k == <<a, p>>
           zero == Row(0, 0, 0, 0, FALSE)
           e == forwardUpdateTrialBalance(w, a, p)
<1>2. /\ p \in periods /\ p \in Slots /\ p \in Int /\ k \in DOMAIN w.tb /\ Carried(DB, w)
      /\ \/ w = DB /\ trialbal[k].dirty
         \/ RowSlots(DB, a) = {} /\ w = Write(DB, k, zero)
  <2>1. p \in periods /\ k \in DOMAIN w.tb /\ Carried(DB, w)
    BY <1>1 DEF ForwardsFrom
  <2>2. \/ w = DB /\ trialbal[k].dirty
        \/ RowSlots(DB, a) = {} /\ w = Write(DB, k, zero)
    BY <1>1 DEF ForwardsFrom
  <2>3. p \in Slots /\ p \in Int
    BY <1>0, <2>1 DEF Slots
  <2> QED
    BY <2>1, <2>2, <2>3
<1>3. trialbal' = e.tb /\ periods' = e.periods /\ closed' = e.closed
  BY <1>1 DEF ForwardsFrom
<1>4. zero.beginning = 0 /\ zero.yearend = 0
  BY DEF Row
<1> HIDE DEF zero
<1>5. Base(w) /\ w.periods = DB.periods /\ w.closed = DB.closed
  BY <1>0, <1>2, CarriedFields
<1>6. a = YearEndEquityAccount \/ AllBefore(closed, p)
  <2> SUFFICES ASSUME a \in Others PROVE AllBefore(closed, p)
    BY DEF Others
  <2>1. \A c \in closed : c \in Slots /\ SettledRow(trialbal, a, c)
    BY DEF Standing, ClosedBooks, ChainOf, CalendarInv
  <2>2. CASE trialbal[k].dirty
    <3>1. p \notin closed
      BY <2>1, <2>2 DEF SettledRow
    <3> QED
      BY <1>2, <3>1, ClosedBefore DEF Standing, AllBefore
  <2>3. CASE RowSlots(DB, a) = {}
    <3>1. closed = {}
      BY <1>0, <2>1, <2>3 DEF RowSlots, SettledRow
    <3> QED
      BY <3>1 DEF AllBefore
  <2> QED
    BY <1>2, <2>2, <2>3
<1>7. Ends(DB, w)
  <2>1. CASE w = DB
    BY <1>0, <2>1, SteadySelf DEF Ends
  <2>2. CASE RowSlots(DB, a) = {} /\ w = Write(DB, k, zero)
    <3>1. k[2] \in DB.periods /\ k \notin DOMAIN DB.tb
      BY <1>0, <1>2, <2>2 DEF RowSlots
    <3>2. w.tb[k] = zero /\ Within(w.tb, DB.periods)
      <4> HIDE DEF k
      <4> QED
        BY <1>0, <2>2, <3>1, WriteTable, WriteWithin
    <3>3. BeginsAs(DB.tb, w.tb, k)
      BY <1>4, <3>1, <3>2 DEF BeginsAs
    <3>4. ASSUME NEW b \in Others PROVE Steady(DB.tb, w.tb, DB.closed, b)
      BY <1>0, <1>2, <1>6, <2>2, <3>3, WriteSteady
    <3> QED
      BY <3>2, <3>4 DEF Ends
  <2> QED
    BY <1>2, <2>1, <2>2
<1>8. Ends(w, e)
  BY <1>0, <1>2, <1>5, <1>6, <1>7, MovedEnds DEF Ends
<1>9. e.periods = periods /\ e.closed = closed
  <2>1. Carried(w, e)
    BY <1>0, <1>2, <1>5, ForwardCarries
  <2> QED
    BY <1>0, <1>5, <2>1, CarriedFields
<1> HIDE DEF e
<1>10. Ends(DB, e)
  BY <1>5, <1>7, <1>8, EndsTwice
<1> QED
  BY <1>0, <1>3, <1>9, <1>10, EndsContinue DEF Standing

-----------------------------------------------------------------------------
(* Carrying an account forward over its own closed periods.                *)

\* A chain with gaps: the row after a slot of gaps may be missing.
Loose(tb, shut, pers, a, gaps) ==
    \A c \in shut :
        /\ SettledRow(tb, a, c)
        /\ c + 1 \in pers => \/ Follows(tb, a, c)
                             \/ c \in gaps /\ <<a, c + 1>> \notin DOMAIN tb

LEMMA LooseChain ==
  ASSUME NEW tb, NEW shut, NEW pers, NEW a
  PROVE  ChainOf(tb, shut, pers, a) <=> Loose(tb, shut, pers, a, {})
BY DEF ChainOf, Loose

\* The rows of the slots shut are there, and the same.
Exact(tb, ub, shut, a) ==
    \A c \in shut : /\ <<a, c>> \in DOMAIN tb /\ <<a, c>> \in DOMAIN ub
                    /\ ub[<<a, c>>] = tb[<<a, c>>]

LEMMA ExactHeld ==
  ASSUME NEW tb, NEW ub, NEW shut, NEW a, Exact(tb, ub, shut, a)
  PROVE  Held(tb, ub, shut, a)
BY DEF Exact, Held

LEMMA ExactTwice ==
  ASSUME NEW tb, NEW ub, NEW vb, NEW shut, NEW a, Exact(tb, ub, shut, a), Exact(ub, vb, shut, a)
  PROVE  Exact(tb, vb, shut, a)
BY DEF Exact

\* Of the rows of account a, only the one of slot q is written.
Alike(tb, ub, a, c) ==
    /\ <<a, c>> \in DOMAIN ub <=> <<a, c>> \in DOMAIN tb
    /\ <<a, c>> \in DOMAIN tb => ub[<<a, c>>] = tb[<<a, c>>]
OnlyRow(tb, ub, a, q, row) ==
    /\ <<a, q>> \in DOMAIN ub /\ ub[<<a, q>>] = row
    /\ \A c : c # q => Alike(tb, ub, a, c)
SameRows(tb, ub, a) == \A c : Alike(tb, ub, a, c)

LEMMA SameFollows ==
  ASSUME NEW tb, NEW ub, NEW a, NEW c, Alike(tb, ub, a, c), Alike(tb, ub, a, c + 1),
         SettledRow(tb, a, c)
  PROVE  SettledRow(ub, a, c) /\ (Follows(tb, a, c) => Follows(ub, a, c))
<1>1. <<a, c>> \in DOMAIN ub /\ ub[<<a, c>>] = tb[<<a, c>>]
  BY DEF Alike, SettledRow
<1>2. CarriedOn(ub, a, c) = CarriedOn(tb, a, c)
  BY <1>1 DEF CarriedOn
<1> QED
  BY <1>1, <1>2 DEF Alike, SettledRow, Follows

LEMMA SameLoose ==
  ASSUME NEW tb, NEW ub, NEW a, SameRows(tb, ub, a), NEW shut, NEW pers, NEW gaps,
         Loose(tb, shut, pers, a, gaps)
  PROVE  Loose(ub, shut, pers, a, gaps) /\ Exact(tb, ub, shut, a)
<1> SUFFICES ASSUME NEW c \in shut
             PROVE  /\ SettledRow(ub, a, c)
                    /\ c + 1 \in pers => \/ Follows(ub, a, c)
                                         \/ c \in gaps /\ <<a, c + 1>> \notin DOMAIN ub
                    /\ <<a, c>> \in DOMAIN tb /\ <<a, c>> \in DOMAIN ub
                    /\ ub[<<a, c>>] = tb[<<a, c>>]
  BY DEF Loose, Exact
<1>1. SettledRow(tb, a, c) /\ Alike(tb, ub, a, c) /\ Alike(tb, ub, a, c + 1)
  BY DEF Loose, SameRows
<1>2. SettledRow(ub, a, c) /\ (Follows(tb, a, c) => Follows(ub, a, c))
  BY <1>1, SameFollows
<1> QED
  BY <1>1, <1>2 DEF Loose, Alike, SettledRow

\* The row written after slot r, itself not shut, carries on from slot r.
LEMMA NextRow ==
  ASSUME NEW tb, NEW ub, NEW a, NEW r \in Int, NEW row, OnlyRow(tb, ub, a, r + 1, row),
         NEW shut, shut \subseteq Int, r + 1 \notin shut, NEW pers, NEW gaps, gaps \subseteq {r},
         Loose(tb, shut, pers, a, gaps),
         r \in shut => row.beginning = CarriedOn(tb, a, r) + row.yearend
  PROVE  Loose(ub, shut, pers, a, {}) /\ Exact(tb, ub, shut, a)
<1> SUFFICES ASSUME NEW c \in shut
             PROVE  /\ SettledRow(ub, a, c) /\ (c + 1 \in pers => Follows(ub, a, c))
                    /\ <<a, c>> \in DOMAIN tb /\ <<a, c>> \in DOMAIN ub
                    /\ ub[<<a, c>>] = tb[<<a, c>>]
  BY DEF Loose, Exact
<1>1. c # r + 1 /\ c \in Int
  OBVIOUS
<1>2. SettledRow(tb, a, c) /\ Alike(tb, ub, a, c)
  BY <1>1 DEF Loose, OnlyRow
<1>3. /\ <<a, c>> \in DOMAIN tb /\ <<a, c>> \in DOMAIN ub
      /\ ub[<<a, c>>] = tb[<<a, c>>]
  BY <1>2 DEF SettledRow, Alike
<1>4. SettledRow(ub, a, c)
  BY <1>2, <1>3 DEF SettledRow
<1>5. CASE c = r
  <2>1. CarriedOn(ub, a, c) = CarriedOn(tb, a, c)
    BY <1>3 DEF CarriedOn
  <2> QED
    BY <1>3, <1>4, <1>5, <2>1 DEF Follows, OnlyRow
<1>6. CASE c # r
  <2>1. c + 1 # r + 1 /\ c \notin gaps
    BY <1>1, <1>6
  <2>2. Alike(tb, ub, a, c + 1)
    BY <2>1 DEF OnlyRow
  <2>3. c + 1 \in pers => Follows(tb, a, c)
    BY <2>1 DEF Loose
  <2> QED
    BY <1>2, <1>3, <1>4, <2>2, <2>3, SameFollows
<1> QED
  BY <1>5, <1>6

\* A turn of account a's loop that writes, writes one row of the account.
LEMMA WroteOnly ==
  ASSUME NEW d, Base(d), NEW a \in Others, NEW p, NEW s, Carrying(s, d, a, p), NEW q, NEW t,
         Wrote(t, s, a, q)
  PROVE  OnlyRow(s.d.tb, t.d.tb, a, q, TurnRow(s, a, q))
<1>1. PICK x : /\ Carried(s.d, x) /\ \A b, r : Spared(s.d.tb, x.tb, s.d.periods, b, r)
               /\ t.d = Write(x, <<a, q>>, TurnRow(s, a, q))
  BY DEF Wrote
<1> DEFINE row == TurnRow(s, a, q)
           c == s.d
           k == <<a, q>>
<1>2. Carried(d, c)
  BY DEF Carrying
<1>3. IsDB(x)
  BY <1>1, <1>2, CarriedFields DEF Base
<1>4. Spared(c.tb, x.tb, c.periods, YearEndEquityAccount, 0)
  BY <1>1
<1>5. \A j : Apart(<<a, j>>, YearEndEquityAccount, 0)
  BY DEF Apart, Others
<1>6. ASSUME NEW j PROVE Alike(c.tb, x.tb, a, j)
  BY <1>4, <1>5 DEF Spared, Alike
<1>7. t.d = Write(x, k, row)
  BY <1>1
<1> HIDE DEF row, c
<1>8. /\ DOMAIN t.d.tb = DOMAIN x.tb \cup {k} /\ t.d.tb[k] = row
      /\ \A j \in DOMAIN x.tb : j # k => t.d.tb[j] = x.tb[j]
  <2> HIDE DEF k
  <2> QED
    BY <1>3, <1>7, WriteTable
<1>9. ASSUME NEW j, j # q PROVE Alike(c.tb, t.d.tb, a, j)
  <2>1. <<a, j>> # k
    BY <1>9
  <2> HIDE DEF k
  <2>2. Alike(x.tb, t.d.tb, a, j)
    BY <1>8, <2>1 DEF Alike
  <2> QED
    BY <1>6, <2>2 DEF Alike
<1>10. OnlyRow(c.tb, t.d.tb, a, q, row)
  BY <1>8, <1>9 DEF OnlyRow
<1> QED
  BY <1>10 DEF row, c

\* The loop is in step at slot r: it carries what the closed row of r ends with.
InStep(s, tb, shut, a, r) ==
    \/ s.stopped
    \/ r \notin shut
    \/ s.ending = tb[<<a, r>>].ending /\ s.year = YearOf[r]

\* A settled row written again with its own beginning is the same row.
LEMMA SettledAgain ==
  ASSUME NEW row \in TBRows, ~row.dirty, Even(row), NEW n, n = row.beginning
  PROVE  Rebased(row, n, FALSE) = row
<1> DEFINE b == row.beginning
           x == row.debits
           c == row.credits
           e == row.ending
           y == row.yearend
           f == row.dirty
<1>1. row = [beginning |-> b, debits |-> x, credits |-> c, ending |-> e,
             yearend |-> y, dirty |-> f]
  BY DEF TBRows
<1>2. e = b - x + c /\ f = FALSE /\ n = b
  BY DEF Even, TBRows
<1> HIDE DEF b, x, c, e, y, f
<1>3. row.debits = x /\ row.credits = c /\ row.yearend = y
  BY ONLY <1>1
<1> QED
  BY ONLY <1>1, <1>2, <1>3 DEF Rebased, Row

\* The loop over account a at slot r, started from the balances tb.
Traced(s, tb, shut, pers, a, r, gaps) ==
    /\ Exact(tb, s.d.tb, shut, a)
    /\ Loose(s.d.tb, shut, pers, a, gaps)
    /\ InStep(s, tb, shut, a, r)

\* The turn after slot r writes a row that begins with what slot r carries.
Begins(s, a, r) ==
    LET k       == <<a, r + 1>>
        carried == CarriedOn(s.d.tb, a, r)
        row     == TurnRow(s, a, r + 1)
    IN  /\ carried \in Int
        /\ row.beginning = carried + row.yearend
        /\ k \in DOMAIN s.d.tb =>
             row = Rebased(s.d.tb[k], carried + s.d.tb[k].yearend, FALSE)

LEMMA TurnBegins ==
  ASSUME NEW d, Base(d), NEW a, NEW p, NEW s, Carrying(s, d, a, p), NEW r,
         s.ending = s.d.tb[<<a, r>>].ending, s.year = YearOf[r]
  PROVE  Begins(s, a, r)
<1> DEFINE k == <<a, r + 1>>
           carried == CarriedOn(s.d.tb, a, r)
           row == TurnRow(s, a, r + 1)
           old == s.d.tb[k]
<1>1. carried = (IF NewYear(s, a, r + 1) THEN 0 ELSE s.ending) /\ carried \in Int
  BY DEF CarriedOn, Crosses, NewYear, Carrying
<1>2. row = (IF k \in DOMAIN s.d.tb THEN Rebased(old, carried + old.yearend, FALSE)
             ELSE Row(carried, 0, 0, 0, FALSE))
  BY <1>1 DEF TurnRow, CarriedRow
<1>3. k \in DOMAIN s.d.tb => old \in TBRows
  BY CarriedFields DEF Carrying, Base, TBTyped
<1> HIDE DEF k, carried, row, old, Begins
<1>4. CASE k \in DOMAIN s.d.tb
  <2>1. row = Rebased(old, carried + old.yearend, FALSE)
    BY <1>2, <1>4
  <2>2. row.beginning = carried + row.yearend
    BY <2>1 DEF Rebased, Row
  <2> QED
    BY <1>1, <2>1, <2>2 DEF k, carried, row, old, Begins
<1>5. CASE k \notin DOMAIN s.d.tb
  <2>1. row = Row(carried, 0, 0, 0, FALSE)
    BY <1>2, <1>5
  <2>2. row.beginning = carried + row.yearend
    BY <1>1, <2>1 DEF Row
  <2> QED
    BY <1>1, <1>5, <2>2 DEF k, carried, row, old, Begins
<1> QED
  BY <1>4, <1>5

\* One turn, from slot r to the next.
LEMMA TraceTurn ==
  ASSUME NEW d, Base(d), NEW a \in Others, NEW p, NEW s, Carrying(s, d, a, p),
         NEW shut, shut \subseteq d.periods, NEW r \in Int, NEW gaps, gaps \subseteq {r},
         Traced(s, d.tb, shut, d.periods, a, r, gaps),
         gaps # {} => ~s.stopped /\ r \in shut,
         r + 1 \in shut => r \in shut,
         NEW t, Turns(t, s, a, r + 1)
  PROVE  Traced(t, d.tb, shut, d.periods, a, r + 1, {})
<1> DEFINE q == r + 1
           k == <<a, q>>
           tb == s.d.tb
           pers == d.periods
<1>1. s.d.periods = d.periods /\ TBTyped(tb) /\ pers \subseteq Slots
  BY CarriedFields DEF Carrying, Base
<1>2. Exact(d.tb, tb, shut, a) /\ Loose(tb, shut, pers, a, gaps)
      /\ InStep(s, d.tb, shut, a, r)
  BY DEF Traced
<1>3. ~s.stopped /\ r \in shut =>
        /\ s.ending = tb[<<a, r>>].ending /\ s.year = YearOf[r]
  BY <1>2 DEF InStep, Exact
<1>4. CASE Idle(t, s, q)
  <2>1. t = s /\ (s.stopped \/ q \notin pers)
    BY <1>1, <1>4 DEF Idle
  <2>2. InStep(t, d.tb, shut, a, q)
    BY <2>1 DEF InStep
  <2>3. Loose(tb, shut, pers, a, {})
    BY <1>2, <2>1 DEF Loose
  <2> QED
    BY <1>2, <2>1, <2>2, <2>3 DEF Traced
<1>5. CASE Halted(t, s, a, q)
  <2>1. t.d = s.d /\ t.stopped /\ NewYear(s, a, q)
    BY <1>5 DEF Halted
  <2>2. InStep(t, d.tb, shut, a, q)
    BY <2>1 DEF InStep
  <2>3. ASSUME NEW c \in shut, c + 1 \in pers, c \in gaps, <<a, c + 1>> \notin DOMAIN tb
        PROVE  Follows(tb, a, c)
    <3>1. c = r /\ ~s.stopped
      BY <2>3
    <3>2. Crosses(a, c)
      BY <1>3, <2>1, <2>3, <3>1 DEF NewYear, Crosses
    <3> QED
      BY <2>3, <3>2 DEF Follows
  <2>4. Loose(tb, shut, pers, a, {})
    BY <1>2, <2>3 DEF Loose
  <2> QED
    BY <1>2, <2>1, <2>2, <2>4 DEF Traced
<1>6. CASE Wrote(t, s, a, q)
  <2> DEFINE row == TurnRow(s, a, q)
             ub == t.d.tb
             carried == CarriedOn(tb, a, r)
  <2>1. OnlyRow(tb, ub, a, q, row)
    BY <1>6, WroteOnly
  <2>2. ~s.stopped /\ ~t.stopped /\ t.ending = row.ending /\ t.year = YearOf[q] /\ q \in pers
    BY <1>1, <1>6 DEF Wrote
  <2>3. r \in shut =>
          /\ carried \in Int
          /\ row.beginning = carried + row.yearend
          /\ k \in DOMAIN tb => row = Rebased(tb[k], carried + tb[k].yearend, FALSE)
    <3>1. r \in shut => Begins(s, a, r)
      BY <1>3, <2>2, TurnBegins
    <3> QED
      BY <3>1 DEF Begins
  <2> HIDE DEF row, ub
  <2>4. CASE q \notin shut
    <3>1. shut \subseteq Int
      BY <1>1 DEF Slots
    <3>2. Loose(ub, shut, pers, a, {}) /\ Exact(tb, ub, shut, a)
      BY <1>2, <2>1, <2>3, <2>4, <3>1, NextRow
    <3>3. Exact(d.tb, ub, shut, a)
      BY <1>2, <3>2, ExactTwice
    <3>4. InStep(t, d.tb, shut, a, q)
      BY <2>4 DEF InStep
    <3> QED
      BY <3>2, <3>3, <3>4 DEF Traced, ub
  <2>5. CASE q \in shut
    <3>1. SettledRow(tb, a, q) /\ r \in shut
      BY <1>2, <2>5 DEF Loose
    <3>2. k \in DOMAIN tb /\ tb[k] \in TBRows /\ ~tb[k].dirty /\ Even(tb[k])
      BY <1>1, <3>1 DEF SettledRow, TBTyped
    <3>3. tb[k].beginning = carried + tb[k].yearend
      BY <1>2, <2>2, <3>1, <3>2 DEF Loose, Follows
    <3>4. row = tb[k]
      BY <2>3, <3>1, <3>2, <3>3, SettledAgain
    <3>5. SameRows(tb, ub, a)
      <4>1. ASSUME NEW c PROVE Alike(tb, ub, a, c)
        <5>1. CASE c = q
          BY <2>1, <3>2, <3>4, <5>1 DEF OnlyRow, Alike
        <5>2. CASE c # q
          BY <2>1, <5>2 DEF OnlyRow
        <5> QED
          BY <5>1, <5>2
      <4> QED
        BY <4>1 DEF SameRows
    <3>6. Loose(tb, shut, pers, a, {})
      BY <1>2, <3>2 DEF Loose
    <3>7. Loose(ub, shut, pers, a, {}) /\ Exact(tb, ub, shut, a)
      BY <3>5, <3>6, SameLoose
    <3>8. Exact(d.tb, ub, shut, a)
      BY <1>2, <3>7, ExactTwice
    <3>9. InStep(t, d.tb, shut, a, q)
      <4>1. tb[k] = d.tb[k]
        BY <1>2, <2>5 DEF Exact
      <4> QED
        BY <2>2, <3>4, <4>1 DEF InStep
    <3> QED
      BY <3>7, <3>8, <3>9 DEF Traced, ub
  <2> QED
    BY <2>4, <2>5
<1> QED
  BY <1>4, <1>5, <1>6 DEF Turns

\* The slots shut after p follow each other from p on.
Backed(shut, p) == \A c \in shut : c > p => c - 1 \in shut

\* Before the first turn the row after slot p may be missing.
GapsAt(i, p) == IF i = 0 THEN {p} ELSE {}

LEMMA FirstTraced ==
  ASSUME NEW d, Base(d), NEW a, NEW p, NEW shut,
         Loose(d.tb, shut, d.periods, a, {p})
  PROVE  Traced(Start(d, a, p), d.tb, shut, d.periods, a, p, {p}) /\ ~Start(d, a, p).stopped
<1> DEFINE s == Start(d, a, p)
<1>1. s.d = d /\ ~s.stopped /\ s.ending = d.tb[<<a, p>>].ending /\ s.year = YearOf[p]
  BY DEF Start
<1> HIDE DEF s
<1>2. Exact(d.tb, d.tb, shut, a)
  BY DEF Exact, Loose, SettledRow
<1>3. Traced(s, d.tb, shut, d.periods, a, p, {p})
  BY <1>1, <1>2 DEF Traced, InStep
<1> QED
  BY <1>1, <1>3 DEF s

\* A settled row marked clean is the same row.
LEMMA CleanAgain ==
  ASSUME NEW row \in TBRows, ~row.dirty
  PROVE  [row EXCEPT !.dirty = FALSE] = row
<1> DEFINE b == row.beginning
           x == row.debits
           c == row.credits
           e == row.ending
           y == row.yearend
           f == row.dirty
           flag == FALSE
<1>1. row = [beginning |-> b, debits |-> x, credits |-> c, ending |-> e,
             yearend |-> y, dirty |-> f]
  BY DEF TBRows
<1>2. f = flag
  BY DEF TBRows
<1> HIDE DEF b, x, c, e, y, f, flag
<1>3. [row EXCEPT !.dirty = flag] = row
  BY ONLY <1>1, <1>2
<1> QED
  BY ONLY <1>3 DEF flag

LEMMA Retrace ==
  ASSUME NEW d, Base(d), NEW a \in Others, NEW p \in Slots,
         NEW shut, shut \subseteq d.periods, p \in shut, Backed(shut, p),
         Loose(d.tb, shut, d.periods, a, {p}),
         NEW e, e = forwardUpdateTrialBalance(d, a, p)
  PROVE  Loose(e.tb, shut, d.periods, a, {}) /\ Exact(d.tb, e.tb, shut, a)
<1> DEFINE n == NSlots - p
           b == Start(d, a, p)
           s == SlotsAfter(p)
           f == PeriodLoop(b, s)
           c == f.d
           k == <<a, p>>
           x == Finish(f, p)
           pers == d.periods
<1>0. p \in Int /\ a \in Accounts /\ k \in DOMAIN d.tb /\ pers \subseteq Slots
  <2>1. p \in Int
    BY DEF Slots
  <2>2. k \in DOMAIN d.tb
    BY DEF Loose, SettledRow
  <2> QED
    BY <2>1, <2>2 DEF Others, Base
<1>1. n \in Nat /\ DOMAIN s = 1..n
  BY LaterSlots
<1>11. \A i \in 1..n : s[i] = p + i
  BY SlotsAfterP
<1>2. Carrying(b, d, a, p) /\ Traced(b, d.tb, shut, pers, a, p, {p}) /\ ~b.stopped
  BY <1>0, StartCarrying, FirstTraced
<1>3. e.tb = x.tb
  <2> DEFINE y == Finish(FoldLeft(VisitPeriod, b, s), p)
  <2>1. y = x
    BY DEF PeriodLoop
  <2>2. e = WithBalances(d, y)
    BY DEF forwardUpdateTrialBalance
  <2> HIDE DEF x, y, b, s
  <2> QED
    BY <2>1, <2>2 DEF WithBalances, Base, IsDB
<1>14. n = NSlots - p
  OBVIOUS
<1> HIDE DEF n, b, s
<1>4. PICK g : /\ g[0] = b /\ \A i \in 1..n : g[i] = VisitPeriod(g[i - 1], s[i])
               /\ PeriodLoop(b, s) = g[n]
  BY ONLY <1>1, PeriodChain, SMTT(60)
<1> DEFINE Z == {i \in 0..n : /\ Carrying(g[i], d, a, p)
                              /\ Traced(g[i], d.tb, shut, pers, a, p + i, GapsAt(i, p))
                              /\ i = 0 => ~g[i].stopped}
<1>5. 0 \in Z
  BY <1>0, <1>1, <1>2, <1>4 DEF GapsAt
<1>6. ASSUME NEW i \in 1..n, i - 1 \in Z PROVE i \in Z
  <2> DEFINE t == g[i - 1]
             u == g[i]
             r == p + (i - 1)
             gaps == GapsAt(i - 1, p)
  <2>1. /\ Carrying(t, d, a, p) /\ Traced(t, d.tb, shut, pers, a, r, gaps)
        /\ i - 1 = 0 => ~t.stopped
    BY <1>6
  <2>2. r \in Int /\ r + 1 = p + i /\ r >= p /\ GapsAt(i, p) = {} /\ i \in 0..n /\ i # 0
    BY <1>0, <1>1 DEF GapsAt
  <2>3. gaps \subseteq {r} /\ (gaps # {} => i - 1 = 0 /\ r = p)
    BY <1>0, <1>1 DEF GapsAt
  <2>4. u = VisitPeriod(t, r + 1)
    BY <1>4, <1>11, <2>2
  <2>5. r + 1 \in shut => r \in shut
    <3>1. r + 1 \in Int /\ r + 1 > p /\ (r + 1) - 1 = r
      BY <1>0, <2>2
    <3> HIDE DEF r
    <3> QED
      BY <3>1 DEF Backed
  <2> HIDE DEF t, u, r, gaps
  <2>6. Carrying(u, d, a, p)
    BY <1>0, <2>1, <2>4, VisitPeriodCarries
  <2>7. Turns(u, t, a, r + 1)
    BY <2>1, <2>4, PeriodTurns
  <2>8. gaps # {} => ~t.stopped /\ r \in shut
    BY <2>1, <2>3
  <2>9. Traced(u, d.tb, shut, pers, a, r + 1, {})
    BY <2>1, <2>2, <2>3, <2>5, <2>7, <2>8, TraceTurn
  <2> QED
    BY <2>2, <2>6, <2>9 DEF u
<1>7. n \in Z
  <2> HIDE DEF Z
  <2>1. \A i \in 0..n : i \in Z
    BY ONLY <1>1, <1>5, <1>6, Counting
  <2> QED
    BY <1>1, <2>1
<1>8. /\ Carrying(f, d, a, p) /\ Exact(d.tb, c.tb, shut, a)
      /\ Loose(c.tb, shut, pers, a, GapsAt(n, p))
  BY <1>4, <1>7 DEF Traced
<1>9. x = c \/ x = Write(c, k, [c.tb[k] EXCEPT !.dirty = FALSE])
  BY <1>8 DEF Finish, Carrying
<1> HIDE DEF f, c
<1>10. IsDB(c) /\ TBTyped(c.tb)
  BY <1>8, CarriedFields DEF c, Carrying, Base
<1>12. Loose(c.tb, shut, pers, a, {})
  <2>1. n = 0 => p + 1 \notin pers
    <3>1. NSlots \in Nat
      BY LedgerAssumption
    <3> QED
      BY <1>0, <1>14, <3>1 DEF Slots
  <2> QED
    BY <1>8, <2>1 DEF GapsAt, Loose
<1>13. SameRows(c.tb, x.tb, a)
  <2>1. CASE x = c
    BY <2>1 DEF SameRows, Alike
  <2>2. CASE x = Write(c, k, [c.tb[k] EXCEPT !.dirty = FALSE])
    <3>1. k \in DOMAIN c.tb /\ c.tb[k] \in TBRows /\ ~c.tb[k].dirty
      BY <1>10, <1>12 DEF Loose, SettledRow, TBTyped
    <3> HIDE DEF x, k
    <3>2. x = Write(c, k, c.tb[k])
      BY <2>2, <3>1, CleanAgain
    <3>3. /\ DOMAIN x.tb = DOMAIN c.tb \cup {k} /\ x.tb[k] = c.tb[k]
          /\ \A j \in DOMAIN c.tb : j # k => x.tb[j] = c.tb[j]
      BY <1>10, <3>2, WriteTable
    <3> QED
      BY <3>1, <3>3 DEF SameRows, Alike
  <2> QED
    BY <1>9, <2>1, <2>2
<1> HIDE DEF x
<1>15. Loose(x.tb, shut, pers, a, {}) /\ Exact(c.tb, x.tb, shut, a)
  BY <1>12, <1>13, SameLoose
<1>16. Exact(d.tb, x.tb, shut, a)
  BY <1>8, <1>15, ExactTwice
<1> QED
  BY <1>3, <1>15, <1>16

-----------------------------------------------------------------------------
(* Closing a period, account by account.                                   *)

\* The two parts of an account's turn: its row settled and carried forward,
\* and the row of the next period.
EndingAt(d, a, p) ==
    LET k == <<a, p>>
    IN  IF k \in DOMAIN d.tb
        THEN d.tb[k].beginning - d.tb[k].debits + d.tb[k].credits ELSE 0
Settling(d, a, p) ==
    LET k == <<a, p>>
    IN  IF k \in DOMAIN d.tb
        THEN forwardUpdateTrialBalance(
               Write(d, k, Rebased(d.tb[k], d.tb[k].beginning, FALSE)), a, p)
        ELSE Write(d, k, Row(0, 0, 0, 0, FALSE))
NextOf(x, a, p, ending) ==
    LET next    == <<a, p + 1>>
        carried == IF Crosses(a, p) THEN 0 ELSE ending
    IN  IF next \in DOMAIN x.tb
        THEN Rebased(x.tb[next], carried + x.tb[next].yearend, x.tb[next].dirty)
        ELSE Row(carried, 0, 0, 0, TRUE)

LEMMA CloseParts ==
  ASSUME NEW d, NEW a, NEW p
  PROVE  LET x == Settling(d, a, p)
         IN  CloseAccount(d, <<a, p>>)
               = Write(x, <<a, p + 1>>, NextOf(x, a, p, EndingAt(d, a, p)))
BY DEF CloseAccount, Settling, NextOf, EndingAt, Crosses

\* How the row is settled: written as row, then perhaps carried forward.
SettledBy(d, w, row, a, p) ==
    LET k == <<a, p>>
    IN  /\ w = Write(d, k, row) /\ row \in TBRows /\ Even(row) /\ ~row.dirty
        /\ row.ending = EndingAt(d, a, p)
        /\ BeginsAs(d.tb, w.tb, k) /\ Carried(d, w)
        /\ IF k \in DOMAIN d.tb
           THEN /\ row = Rebased(d.tb[k], d.tb[k].beginning, FALSE)
                /\ Settling(d, a, p) = forwardUpdateTrialBalance(w, a, p)
           ELSE Settling(d, a, p) = w

LEMMA RebasedEven ==
  ASSUME NEW old \in TBRows, NEW row, row = Rebased(old, old.beginning, FALSE)
  PROVE  /\ row \in TBRows /\ Even(row) /\ ~row.dirty
         /\ row.beginning = old.beginning /\ row.yearend = old.yearend
         /\ row.debits = old.debits /\ row.credits = old.credits
         /\ row.ending = old.beginning - old.debits + old.credits
<1>1. /\ old.beginning \in Int /\ old.debits \in Int /\ old.credits \in Int
      /\ old.yearend \in Int
  BY DEF TBRows
<1>2. row = Row(old.beginning, old.debits, old.credits, old.yearend, FALSE)
  BY DEF Rebased
<1> QED
  BY ONLY <1>1, <1>2 DEF Row, TBRows, Even

LEMMA SettlingParts ==
  ASSUME NEW d, Base(d), NEW a \in Accounts, NEW p \in Slots
  PROVE  \E w, row : SettledBy(d, w, row, a, p)
<1> DEFINE k == <<a, p>>
<1>1. k \in Keys /\ IsDB(d)
  BY DEF Keys, Base
<1>2. CASE k \in DOMAIN d.tb
  <2> DEFINE old == d.tb[k]
             row == Rebased(old, old.beginning, FALSE)
             w == Write(d, k, row)
  <2>1. old \in TBRows
    BY <1>2 DEF Base, TBTyped
  <2>2. row = Rebased(old, old.beginning, FALSE)
    OBVIOUS
  <2>3. Settling(d, a, p) = forwardUpdateTrialBalance(w, a, p)
    BY <1>2 DEF Settling
  <2>4. EndingAt(d, a, p) = old.beginning - old.debits + old.credits
    BY <1>2 DEF EndingAt
  <2>5. old = d.tb[k] /\ w = Write(d, k, row)
    OBVIOUS
  <2> HIDE DEF row, old, w, k
  <2>6. /\ row \in TBRows /\ Even(row) /\ ~row.dirty
        /\ row.beginning = old.beginning /\ row.yearend = old.yearend
        /\ row.debits = old.debits /\ row.credits = old.credits
        /\ row.ending = old.beginning - old.debits + old.credits
    BY ONLY <2>1, <2>2, RebasedEven
  <2>7. Carried(d, w)
    BY <1>1, <1>2, <2>5, <2>6, WriteCarries
  <2>8. BeginsAs(d.tb, w.tb, k)
    <3>1. w.tb[k] = row
      BY <1>1, <2>5, WriteTable
    <3> QED
      BY <1>2, <2>5, <2>6, <3>1 DEF BeginsAs
  <2>9. SettledBy(d, w, row, a, p)
    BY <1>2, <2>2, <2>3, <2>4, <2>5, <2>6, <2>7, <2>8 DEF SettledBy, k
  <2> QED
    BY <2>9
<1>3. CASE k \notin DOMAIN d.tb
  <2> DEFINE row == Row(0, 0, 0, 0, FALSE)
             w == Write(d, k, row)
  <2>1. /\ row \in TBRows /\ Even(row) /\ ~row.dirty
        /\ row.beginning = 0 /\ row.yearend = 0
        /\ row.debits = 0 /\ row.credits = 0 /\ row.ending = 0
    BY DEF Row, TBRows, Even
  <2>2. Settling(d, a, p) = w
    BY <1>3 DEF Settling
  <2>3. EndingAt(d, a, p) = 0
    BY <1>3 DEF EndingAt
  <2>4. w = Write(d, k, row)
    OBVIOUS
  <2> HIDE DEF row, w, k
  <2>5. Carried(d, w)
    BY <1>1, <1>3, <2>1, <2>4, WriteCarries
  <2>6. BeginsAs(d.tb, w.tb, k)
    <3>1. w.tb[k] = row
      BY <1>1, <2>4, WriteTable
    <3> QED
      BY <1>3, <2>1, <3>1 DEF BeginsAs
  <2>7. SettledBy(d, w, row, a, p)
    BY <1>3, <2>1, <2>2, <2>3, <2>4, <2>5, <2>6 DEF SettledBy, k
  <2> QED
    BY <2>7
<1> QED
  BY <1>2, <1>3

\* What a turn for account a does to the rows of another account: nothing.
LEMMA WriteOthers ==
  ASSUME NEW d, IsDB(d), NEW k, NEW row, NEW b, k[1] # b, NEW e, e = Write(d, k, row)
  PROVE  SameRows(d.tb, e.tb, b)
<1>1. /\ DOMAIN e.tb = DOMAIN d.tb \cup {k}
      /\ \A j \in DOMAIN d.tb : j # k => e.tb[j] = d.tb[j]
  BY WriteTable
<1>2. \A c : <<b, c>> # k
  OBVIOUS
<1> QED
  BY ONLY <1>1, <1>2 DEF SameRows, Alike

LEMMA MovedOthers ==
  ASSUME NEW tb, NEW ub, NEW pers, NEW a, NEW p, Moved(tb, ub, pers, a, p),
         NEW b \in Others, b # a
  PROVE  SameRows(tb, ub, b)
<1>1. \A c : Apart(<<b, c>>, a, p) /\ <<b, c>> # <<a, p>>
  BY DEF Apart, Others
<1> QED
  BY <1>1 DEF Moved, SameRows, Alike

LEMMA SameRowsTwice ==
  ASSUME NEW tb, NEW ub, NEW vb, NEW a, SameRows(tb, ub, a), SameRows(ub, vb, a)
  PROVE  SameRows(tb, vb, a)
BY DEF SameRows, Alike

LEMMA SettlingRest ==
  ASSUME NEW d, Base(d), NEW a \in Accounts, NEW p \in Slots, p \in d.periods,
         Within(d.tb, d.periods), NEW x, x = Settling(d, a, p)
  PROVE  /\ Carried(d, x) /\ Within(x.tb, d.periods)
         /\ \A b \in Others : b # a => SameRows(d.tb, x.tb, b)
<1>1. PICK w, row : SettledBy(d, w, row, a, p)
  BY SettlingParts
<1> DEFINE k == <<a, p>>
<1>2. w = Write(d, k, row) /\ Carried(d, w)
  BY <1>1 DEF SettledBy
<1>3. k[1] = a /\ k[2] \in d.periods /\ IsDB(d)
  BY DEF Base
<1>4. x = w \/ x = forwardUpdateTrialBalance(w, a, p)
  BY <1>1 DEF SettledBy
<1>5. k = <<a, p>>
  OBVIOUS
<1> HIDE DEF k
<1>6. k \in DOMAIN w.tb
  BY <1>2, <1>3, WriteTable
<1>7. Within(w.tb, d.periods)
  BY <1>2, <1>3, WriteWithin
<1>8. ASSUME NEW b \in Others, b # a PROVE SameRows(d.tb, w.tb, b)
  BY <1>2, <1>3, <1>8, WriteOthers
<1>9. Base(w) /\ w.periods = d.periods
  BY <1>2, CarriedFields
<1>10. CASE x = w
  BY <1>2, <1>7, <1>8, <1>10
<1>11. CASE x = forwardUpdateTrialBalance(w, a, p)
  <2>1. Carried(w, x)
    BY <1>5, <1>6, <1>9, <1>11, ForwardCarries
  <2>2. Moved(w.tb, x.tb, d.periods, a, p)
    BY <1>5, <1>6, <1>9, <1>11, ForwardMoves
  <2>3. Carried(d, x)
    BY <1>2, <2>1, CarriedTwice
  <2>4. Within(x.tb, d.periods)
    BY <1>7, <2>2, MovedWithin
  <2>5. ASSUME NEW b \in Others, b # a PROVE SameRows(d.tb, x.tb, b)
    BY <1>8, <2>2, <2>5, MovedOthers, SameRowsTwice
  <2> QED
    BY <2>3, <2>4, <2>5
<1> QED
  BY <1>4, <1>10, <1>11

\* The row of the period after p, as closing p writes it.
NextRowIs(x, a, p, ending, row) ==
    /\ row.beginning = (IF Crosses(a, p) THEN 0 ELSE ending) + row.yearend
    /\ <<a, p + 1>> \in DOMAIN x.tb =>
         row = Rebased(x.tb[<<a, p + 1>>],
                       (IF Crosses(a, p) THEN 0 ELSE ending) + x.tb[<<a, p + 1>>].yearend,
                       x.tb[<<a, p + 1>>].dirty)

LEMMA NextOfIs ==
  ASSUME NEW x, NEW a, NEW p, NEW ending \in Int
  PROVE  NextRowIs(x, a, p, ending, NextOf(x, a, p, ending))
<1> DEFINE next == <<a, p + 1>>
           carried == IF Crosses(a, p) THEN 0 ELSE ending
           row == NextOf(x, a, p, ending)
           old == x.tb[next]
<1>1. row = IF next \in DOMAIN x.tb THEN Rebased(old, carried + old.yearend, old.dirty)
            ELSE Row(carried, 0, 0, 0, TRUE)
  BY DEF NextOf
<1>2. carried \in Int
  OBVIOUS
<1> HIDE DEF row, carried
<1>3. row.beginning = carried + row.yearend
  <2>1. CASE next \in DOMAIN x.tb
    <3>1. row = Rebased(old, carried + old.yearend, old.dirty)
      BY <1>1, <2>1
    <3> HIDE DEF old
    <3> QED
      BY <3>1 DEF Rebased, Row
  <2>2. CASE next \notin DOMAIN x.tb
    <3>1. row = Row(carried, 0, 0, 0, TRUE)
      BY <1>1, <2>2
    <3> QED
      BY <1>2, <3>1 DEF Row
  <2> QED
    BY <2>1, <2>2
<1>4. next \in DOMAIN x.tb => row = Rebased(old, carried + old.yearend, old.dirty)
  BY <1>1
<1> QED
  BY <1>3, <1>4 DEF NextRowIs, carried, row

\* The row written after slot p, which follows the slots shut, makes slot p
\* one of them.
LEMMA CloseNext ==
  ASSUME NEW tb, NEW ub, NEW a, NEW p \in Int, NEW row, OnlyRow(tb, ub, a, p + 1, row),
         NEW shut, AllBefore(shut, p), NEW pers, ChainOf(tb, shut, pers, a),
         SettledRow(tb, a, p), row.beginning = CarriedOn(tb, a, p) + row.yearend
  PROVE  ChainOf(ub, shut \cup {p}, pers, a) /\ Held(tb, ub, shut, a)
<1>1. ASSUME NEW c \in shut \cup {p}
      PROVE  /\ SettledRow(ub, a, c) /\ (c + 1 \in pers => Follows(ub, a, c))
             /\ <<a, c>> \in DOMAIN ub /\ ub[<<a, c>>] = tb[<<a, c>>]
  <2>1. c \in Int /\ c <= p /\ c # p + 1 /\ (c # p => c \in shut /\ c + 1 # p + 1)
    BY DEF AllBefore
  <2>2. SettledRow(tb, a, c) /\ Alike(tb, ub, a, c)
    BY <2>1 DEF ChainOf, OnlyRow
  <2>3. /\ <<a, c>> \in DOMAIN tb /\ <<a, c>> \in DOMAIN ub
        /\ ub[<<a, c>>] = tb[<<a, c>>]
    BY <2>2 DEF SettledRow, Alike
  <2>4. SettledRow(ub, a, c)
    BY <2>2, <2>3 DEF SettledRow
  <2>5. CASE c = p
    <3>1. CarriedOn(ub, a, c) = CarriedOn(tb, a, c)
      BY <2>3 DEF CarriedOn
    <3> QED
      BY <2>3, <2>4, <2>5, <3>1 DEF Follows, OnlyRow
  <2>6. CASE c # p
    <3>1. Alike(tb, ub, a, c + 1)
      BY <2>1, <2>6 DEF OnlyRow
    <3>2. c + 1 \in pers => Follows(tb, a, c)
      BY <2>1, <2>6 DEF ChainOf
    <3> QED
      BY <2>2, <2>3, <2>4, <3>1, <3>2, SameFollows
  <2> QED
    BY <2>5, <2>6
<1>2. ChainOf(ub, shut \cup {p}, pers, a)
  BY <1>1 DEF ChainOf
<1>3. Held(tb, ub, shut, a)
  BY <1>1 DEF Held
<1> QED
  BY <1>2, <1>3

\* A write, as the account whose row it is sees it.
LEMMA WriteOnly ==
  ASSUME NEW x, IsDB(x), NEW a, NEW q, NEW row, NEW e, e = Write(x, <<a, q>>, row)
  PROVE  OnlyRow(x.tb, e.tb, a, q, row)
<1> DEFINE k == <<a, q>>
<1>1. k = <<a, q>> /\ e = Write(x, k, row)
  OBVIOUS
<1> HIDE DEF k
<1>2. /\ DOMAIN e.tb = DOMAIN x.tb \cup {k} /\ e.tb[k] = row
      /\ \A j \in DOMAIN x.tb : j # k => e.tb[j] = x.tb[j]
  BY <1>1, WriteTable
<1>3. ASSUME NEW c, c # q PROVE Alike(x.tb, e.tb, a, c)
  <2> DEFINE j == <<a, c>>
  <2>1. j # k
    BY <1>1, <1>3
  <2> HIDE DEF j
  <2>2. (j \in DOMAIN e.tb <=> j \in DOMAIN x.tb)
        /\ (j \in DOMAIN x.tb => e.tb[j] = x.tb[j])
    BY <1>2, <2>1
  <2> QED
    BY <2>2 DEF Alike, j
<1> QED
  BY <1>1, <1>2, <1>3 DEF OnlyRow

\* A row written as it is.
LEMMA OnlySame ==
  ASSUME NEW tb, NEW ub, NEW a, NEW q, NEW row, OnlyRow(tb, ub, a, q, row),
         <<a, q>> \in DOMAIN tb, row = tb[<<a, q>>]
  PROVE  SameRows(tb, ub, a)
<1>1. ASSUME NEW c PROVE Alike(tb, ub, a, c)
  <2>1. CASE c = q
    BY <2>1 DEF OnlyRow, Alike
  <2>2. CASE c # q
    BY <2>2 DEF OnlyRow
  <2> QED
    BY <2>1, <2>2
<1> QED
  BY <1>1 DEF SameRows

\* An account's turn leaves the rows of the others alone.
LEMMA CloseOther ==
  ASSUME NEW d, Base(d), NEW a \in Accounts, NEW p \in Slots, p \in d.periods,
         p + 1 \in d.periods, Within(d.tb, d.periods),
         NEW e, e = CloseAccount(d, <<a, p>>)
  PROVE  /\ Carried(d, e) /\ Within(e.tb, d.periods)
         /\ \A b \in Others : b # a => SameRows(d.tb, e.tb, b)
<1> DEFINE x == Settling(d, a, p)
           k == <<a, p + 1>>
           row == NextOf(x, a, p, EndingAt(d, a, p))
<1>1. e = Write(x, k, row)
  BY CloseParts
<1>2. k[1] = a /\ k[2] \in d.periods
  OBVIOUS
<1> HIDE DEF k, row
<1>3. Carried(d, e)
  <2> DEFINE j == <<a, p>>
  <2>1. j \in Keys /\ j[2] + 1 \in Slots /\ e = CloseAccount(d, j)
    BY DEF Keys, Base
  <2> HIDE DEF j
  <2> QED
    BY <2>1, CloseAccountCarries
<1>4. /\ Carried(d, x) /\ Within(x.tb, d.periods)
      /\ \A b \in Others : b # a => SameRows(d.tb, x.tb, b)
  BY SettlingRest
<1> HIDE DEF x
<1>5. IsDB(x)
  BY <1>4, CarriedFields DEF Base
<1>6. Within(e.tb, d.periods)
  BY <1>1, <1>2, <1>4, <1>5, WriteWithin
<1>7. ASSUME NEW b \in Others, b # a PROVE SameRows(d.tb, e.tb, b)
  <2>1. SameRows(x.tb, e.tb, b)
    BY <1>1, <1>2, <1>5, <1>7, WriteOthers
  <2> QED
    BY <1>4, <1>7, <2>1, SameRowsTwice
<1> QED
  BY <1>3, <1>6, <1>7

\* The period is closed for the first time: its row is settled, the ones of
\* the closed periods before it stay, and the next row follows it.
LEMMA SettlingFirst ==
  ASSUME NEW d, Base(d), NEW a \in Others, NEW p \in Slots, p \in d.periods,
         NEW shut, AllBefore(shut, p), ChainOf(d.tb, shut, d.periods, a),
         NEW x, x = Settling(d, a, p)
  PROVE  /\ ChainOf(x.tb, shut, d.periods, a) /\ Held(d.tb, x.tb, shut, a)
         /\ SettledRow(x.tb, a, p) /\ x.tb[<<a, p>>].ending = EndingAt(d, a, p)
         /\ EndingAt(d, a, p) \in Int
<1> DEFINE k == <<a, p>>
<1>0. a \in Accounts /\ p \in Int /\ IsDB(d)
  BY DEF Others, Slots, Base
<1>1. PICK w, row : SettledBy(d, w, row, a, p)
  BY <1>0, SettlingParts
<1>2. /\ w = Write(d, k, row) /\ BeginsAs(d.tb, w.tb, k) /\ Carried(d, w)
      /\ row \in TBRows /\ Even(row) /\ ~row.dirty /\ row.ending = EndingAt(d, a, p)
      /\ x = w \/ x = forwardUpdateTrialBalance(w, a, p)
  BY <1>1 DEF SettledBy
<1>3. Base(w) /\ w.periods = d.periods
  BY <1>2, CarriedFields
<1>4. k \in DOMAIN w.tb /\ w.tb[k] = row
  <2> HIDE DEF k
  <2> QED
    BY <1>0, <1>2, WriteTable
<1>5. Steady(d.tb, w.tb, shut, a)
  BY <1>0, <1>2, WriteSteady
<1>6. CASE x = w
  BY <1>2, <1>4, <1>5, <1>6, SteadyKeeps DEF SettledRow, TBRows
<1>7. CASE x = forwardUpdateTrialBalance(w, a, p)
  <2>1. Moved(w.tb, x.tb, d.periods, a, p)
    BY <1>0, <1>3, <1>4, <1>7, ForwardMoves
  <2>2. Steady(w.tb, x.tb, shut, a)
    BY <1>0, <1>3, <2>1, MovedSteady DEF Base
  <2>3. Steady(d.tb, x.tb, shut, a)
    BY <1>5, <2>2, SteadyTwice
  <2>4. ChainOf(x.tb, shut, d.periods, a) /\ Held(d.tb, x.tb, shut, a)
    BY <2>3, SteadyKeeps
  <2>5. k \in DOMAIN x.tb /\ x.tb[k] = row
    <3>1. Apart(k, a, p)
      BY <1>0 DEF Apart, Others
    <3>2. /\ k \in DOMAIN x.tb
          /\ x.tb[k] = row \/ x.tb[k] = [row EXCEPT !.dirty = FALSE]
      BY <1>4, <2>1, <3>1 DEF Moved
    <3> QED
      BY <1>2, <3>2, CleanAgain
  <2> QED
    BY <1>2, <2>4, <2>5 DEF SettledRow, TBRows
<1> QED
  BY <1>2, <1>6, <1>7

LEMMA CloseFirst ==
  ASSUME NEW d, Base(d), NEW a \in Others, NEW p \in Slots, p \in d.periods,
         p + 1 \in d.periods, Within(d.tb, d.periods),
         NEW shut, AllBefore(shut, p), ChainOf(d.tb, shut, d.periods, a),
         NEW e, e = CloseAccount(d, <<a, p>>)
  PROVE  ChainOf(e.tb, shut \cup {p}, d.periods, a) /\ Held(d.tb, e.tb, shut, a)
<1> DEFINE x == Settling(d, a, p)
           ending == EndingAt(d, a, p)
           row == NextOf(x, a, p, ending)
<1>0. a \in Accounts /\ p \in Int
  BY DEF Others, Slots
<1>1. e = Write(x, <<a, p + 1>>, row)
  BY CloseParts
<1>2. /\ ChainOf(x.tb, shut, d.periods, a) /\ Held(d.tb, x.tb, shut, a)
      /\ SettledRow(x.tb, a, p) /\ x.tb[<<a, p>>].ending = ending /\ ending \in Int
  BY SettlingFirst
<1>3. IsDB(x)
  BY <1>0, SettlingRest, CarriedFields DEF Base
<1> HIDE DEF x, ending
<1>7. NextRowIs(x, a, p, ending, row)
  BY <1>2, NextOfIs
<1>4. row.beginning = CarriedOn(x.tb, a, p) + row.yearend
  BY <1>2, <1>7 DEF NextRowIs, CarriedOn
<1> HIDE DEF row
<1>5. OnlyRow(x.tb, e.tb, a, p + 1, row)
  BY <1>1, <1>3, WriteOnly
<1>6. ChainOf(e.tb, shut \cup {p}, d.periods, a) /\ Held(x.tb, e.tb, shut, a)
  BY <1>0, <1>2, <1>4, <1>5, CloseNext
<1> QED
  BY <1>2, <1>6, HeldTwice

\* The initial period is closed once more: nothing changes in the closed ones.
LEMMA SettlingAgain ==
  ASSUME NEW d, Base(d), NEW a \in Others, NEW p \in Slots,
         NEW shut, shut \subseteq d.periods, p \in shut, Backed(shut, p),
         ChainOf(d.tb, shut, d.periods, a),
         NEW x, x = Settling(d, a, p)
  PROVE  /\ Loose(x.tb, shut, d.periods, a, {}) /\ Exact(d.tb, x.tb, shut, a)
         /\ x.tb[<<a, p>>].ending = EndingAt(d, a, p) /\ EndingAt(d, a, p) \in Int
<1> DEFINE k == <<a, p>>
           old == d.tb[k]
<1>0. a \in Accounts /\ p \in Int /\ IsDB(d)
  BY DEF Others, Slots, Base
<1>1. PICK w, row : SettledBy(d, w, row, a, p)
  BY <1>0, SettlingParts
<1>2. k \in DOMAIN d.tb /\ ~old.dirty /\ Even(old) /\ old \in TBRows
  BY DEF ChainOf, SettledRow, Base, TBTyped
<1>3. /\ w = Write(d, k, row) /\ Carried(d, w)
      /\ row.ending = EndingAt(d, a, p) /\ row.ending \in Int
      /\ row = Rebased(old, old.beginning, FALSE)
      /\ x = forwardUpdateTrialBalance(w, a, p)
  BY <1>1, <1>2 DEF SettledBy, TBRows
<1>4. Base(w) /\ w.periods = d.periods
  BY <1>3, CarriedFields
<1>5. row = old
  <2> HIDE DEF old
  <2> QED
    BY <1>2, <1>3, SettledAgain
<1>6. SameRows(d.tb, w.tb, a)
  <2>1. OnlyRow(d.tb, w.tb, a, p, row)
    BY <1>0, <1>3, WriteOnly
  <2> QED
    BY <1>2, <1>5, <2>1, OnlySame
<1>7. Loose(w.tb, shut, d.periods, a, {}) /\ Exact(d.tb, w.tb, shut, a)
  BY <1>6, LooseChain, SameLoose
<1>8. Loose(w.tb, shut, d.periods, a, {p})
  BY <1>7 DEF Loose
<1>9. Loose(x.tb, shut, d.periods, a, {}) /\ Exact(w.tb, x.tb, shut, a)
  BY <1>3, <1>4, <1>8, Retrace
<1>10. Exact(d.tb, x.tb, shut, a)
  BY <1>7, <1>9, ExactTwice
<1>11. x.tb[k] = old
  BY <1>10 DEF Exact
<1> QED
  BY <1>3, <1>5, <1>9, <1>10, <1>11

LEMMA CloseAgain ==
  ASSUME NEW d, Base(d), NEW a \in Others, NEW p \in Slots, p + 1 \in d.periods,
         p \in d.periods, Within(d.tb, d.periods),
         NEW shut, shut \subseteq d.periods, p \in shut, Backed(shut, p),
         ChainOf(d.tb, shut, d.periods, a),
         NEW e, e = CloseAccount(d, <<a, p>>)
  PROVE  ChainOf(e.tb, shut, d.periods, a) /\ Held(d.tb, e.tb, shut, a)
<1> DEFINE x == Settling(d, a, p)
           ending == EndingAt(d, a, p)
           row == NextOf(x, a, p, ending)
           next == <<a, p + 1>>
           pers == d.periods
<1>0. a \in Accounts /\ p \in Int /\ shut \subseteq Int
  BY DEF Others, Slots, Base
<1>1. e = Write(x, next, row)
  BY CloseParts
<1>2. /\ Loose(x.tb, shut, pers, a, {}) /\ Exact(d.tb, x.tb, shut, a)
      /\ x.tb[<<a, p>>].ending = ending /\ ending \in Int
  BY SettlingAgain
<1>3. IsDB(x) /\ TBTyped(x.tb)
  BY <1>0, SettlingRest, CarriedFields DEF Base
<1> HIDE DEF x, ending
<1>4. NextRowIs(x, a, p, ending, row)
  BY <1>2, NextOfIs
<1>5. row.beginning = CarriedOn(x.tb, a, p) + row.yearend
  BY <1>2, <1>4 DEF NextRowIs, CarriedOn
<1>6. next \in DOMAIN x.tb =>
        row = Rebased(x.tb[next], CarriedOn(x.tb, a, p) + x.tb[next].yearend, x.tb[next].dirty)
  BY <1>2, <1>4 DEF NextRowIs, CarriedOn
<1> HIDE DEF row
<1>7. OnlyRow(x.tb, e.tb, a, p + 1, row)
  BY <1>1, <1>3, WriteOnly
<1>8. Loose(e.tb, shut, pers, a, {}) /\ Exact(x.tb, e.tb, shut, a)
  <2>1. CASE p + 1 \notin shut
    <3> DEFINE none == {}
               q == p + 1
    <3>1. none \subseteq {p} /\ p \in Int /\ shut \subseteq Int
      BY <1>0
    <3>2. Loose(x.tb, shut, pers, a, none)
      BY <1>2
    <3> HIDE DEF pers, none
    <3> QED
      BY ONLY <1>5, <1>7, <2>1, <3>1, <3>2, NextRow
  <2>2. CASE p + 1 \in shut
    <3> DEFINE old == x.tb[next]
               n == CarriedOn(x.tb, a, p) + old.yearend
    <3>1. next \in DOMAIN x.tb /\ ~old.dirty /\ Even(old) /\ old \in TBRows
      BY <1>2, <1>3, <2>2 DEF Loose, SettledRow, TBTyped
    <3>2. old.beginning = n
      BY <1>2, <3>1 DEF Loose, Follows
    <3>3. row = Rebased(old, n, old.dirty) /\ old.dirty = FALSE
      BY <1>6, <3>1 DEF TBRows
    <3> HIDE DEF old, n
    <3>4. row = old
      BY <3>1, <3>2, <3>3, SettledAgain
    <3>5. SameRows(x.tb, e.tb, a)
      BY <1>7, <3>1, <3>4, OnlySame DEF old
    <3> QED
      BY <1>2, <3>5, SameLoose
  <2> QED
    BY <2>1, <2>2
<1>9. Exact(d.tb, e.tb, shut, a)
  BY <1>2, <1>8, ExactTwice
<1> QED
  BY <1>8, <1>9, LooseChain, ExactHeld

\* Slot p follows the slots shut, or is one of them that the later ones follow.
Closable(shut, p) == AllBefore(shut, p) \/ (p \in shut /\ Backed(shut, p))

\* What an account's turn does to the chain of account b.
LEMMA CloseTurn ==
  ASSUME NEW d, Base(d), NEW a \in Accounts, NEW p \in Slots, p \in d.periods,
         p + 1 \in d.periods, Within(d.tb, d.periods),
         NEW shut, shut \subseteq d.periods, Closable(shut, p),
         NEW b \in Others, ChainOf(d.tb, shut, d.periods, b),
         NEW e, e = CloseAccount(d, <<a, p>>)
  PROVE  /\ ChainOf(e.tb, shut, d.periods, b) /\ Held(d.tb, e.tb, shut, b)
         /\ a = b \/ ChainOf(d.tb, shut \cup {p}, d.periods, b)
              => ChainOf(e.tb, shut \cup {p}, d.periods, b)
<1> DEFINE more == shut \cup {p}
           pers == d.periods
<1>0. shut \subseteq more
  OBVIOUS
<1>1. CASE a = b /\ AllBefore(shut, p)
  <2>1. ChainOf(e.tb, more, pers, b) /\ Held(d.tb, e.tb, shut, b)
    BY <1>1, CloseFirst
  <2>2. ChainOf(e.tb, shut, pers, b)
    BY <1>0, <2>1, FewerClosed
  <2> QED
    BY <2>1, <2>2
<1>2. CASE a = b /\ p \in shut /\ Backed(shut, p)
  <2>1. ChainOf(e.tb, shut, pers, b) /\ Held(d.tb, e.tb, shut, b)
    BY <1>2, CloseAgain
  <2>2. more = shut
    BY <1>2
  <2> QED
    BY <2>1, <2>2
<1>3. CASE a # b
  <2>1. SameRows(d.tb, e.tb, b)
    BY <1>3, CloseOther
  <2>2. \A s : ChainOf(d.tb, s, pers, b) =>
          ChainOf(e.tb, s, pers, b) /\ Exact(d.tb, e.tb, s, b)
    BY <2>1, LooseChain, SameLoose
  <2> QED
    BY <1>3, <2>2, ExactHeld
<1> QED
  BY <1>1, <1>2, <1>3 DEF Closable

\* After m turns of the loop.
Closing(d, e, shut, p, m) ==
    /\ Carried(d, e) /\ Within(e.tb, d.periods)
    /\ \A b \in Others :
         /\ ChainOf(e.tb, shut, d.periods, b) /\ Held(d.tb, e.tb, shut, b)
         /\ (\E j \in 1..m : AccountOrder[j] = b) => ChainOf(e.tb, shut \cup {p}, d.periods, b)

LEMMA ClosingTurn ==
  ASSUME NEW d, Base(d), NEW p \in Slots, p \in d.periods, p + 1 \in d.periods,
         NEW shut, shut \subseteq d.periods, Closable(shut, p),
         NEW m \in Nat, NEW n \in Nat, m + 1 = n, NEW c, Closing(d, c, shut, p, m),
         AccountOrder[n] \in Accounts, NEW e, e = CloseAccount(c, <<AccountOrder[n], p>>)
  PROVE  Closing(d, e, shut, p, n)
<1> DEFINE a == AccountOrder[n]
           pers == d.periods
<1>1. Base(c) /\ c.periods = pers /\ Carried(d, c) /\ Within(c.tb, c.periods)
  BY CarriedFields DEF Closing
<1>2. \A j \in 1..n : j \in 1..m \/ j = n
  OBVIOUS
<1>3. Carried(c, e) /\ Within(e.tb, pers)
  BY <1>1, CloseOther
<1>4. Carried(d, e)
  BY <1>1, <1>3, CarriedTwice
<1>5. ASSUME NEW b \in Others
      PROVE  /\ ChainOf(e.tb, shut, pers, b) /\ Held(d.tb, e.tb, shut, b)
             /\ (\E j \in 1..n : AccountOrder[j] = b) => ChainOf(e.tb, shut \cup {p}, pers, b)
  <2>1. /\ ChainOf(c.tb, shut, pers, b) /\ Held(d.tb, c.tb, shut, b)
        /\ (\E j \in 1..m : AccountOrder[j] = b) => ChainOf(c.tb, shut \cup {p}, pers, b)
    BY DEF Closing
  <2>2. /\ ChainOf(e.tb, shut, pers, b) /\ Held(c.tb, e.tb, shut, b)
        /\ a = b \/ ChainOf(c.tb, shut \cup {p}, pers, b)
             => ChainOf(e.tb, shut \cup {p}, pers, b)
    BY <1>1, <2>1, CloseTurn
  <2>3. Held(d.tb, e.tb, shut, b)
    BY <2>1, <2>2, HeldTwice
  <2> QED
    BY <1>2, <2>1, <2>2, <2>3
<1> QED
  BY <1>3, <1>4, <1>5 DEF Closing

LEMMA CloseLoopCloses ==
  ASSUME NEW d, Base(d), Within(d.tb, d.periods), NEW p \in Slots, p \in d.periods,
         p + 1 \in d.periods, NEW shut, shut \subseteq d.periods, Closable(shut, p),
         \A b \in Others : ChainOf(d.tb, shut, d.periods, b),
         NEW n \in Nat, \A i \in 1..n : AccountOrder[i] \in Accounts,
         NEW s, DOMAIN s = 1..n, \A i \in 1..n : s[i] = <<AccountOrder[i], p>>
  PROVE  Closing(d, CloseLoop(d, s), shut, p, n)
<1>0. n \in Nat /\ DOMAIN s = 1..n
  OBVIOUS
<1>1. PICK g : /\ g[0] = d /\ \A i \in 1..n : g[i] = CloseAccount(g[i - 1], s[i])
               /\ CloseLoop(d, s) = g[n]
  BY ONLY <1>0, CloseChain, SMTT(60)
<1> DEFINE Z == {i \in 0..n : Closing(d, g[i], shut, p, i)}
<1>2. 0 \in Z
  <2>1. Closing(d, d, shut, p, 0)
    BY CarriedSelf, HeldSelf DEF Closing
  <2> QED
    BY <1>1, <2>1
<1>3. ASSUME NEW i \in 1..n, i - 1 \in Z PROVE i \in Z
  <2> DEFINE c == g[i - 1]
             m == i - 1
             e == g[i]
  <2>1. /\ Closing(d, c, shut, p, m) /\ e = CloseAccount(c, <<AccountOrder[i], p>>)
        /\ m \in Nat /\ i \in Nat /\ m + 1 = i /\ AccountOrder[i] \in Accounts
    BY <1>1, <1>3
  <2> HIDE DEF c, m, e
  <2>2. Closing(d, e, shut, p, i)
    BY <2>1, ClosingTurn
  <2> QED
    BY <2>2 DEF e
<1>4. n \in Z
  <2> HIDE DEF Z
  <2>1. \A i \in 0..n : i \in Z
    BY ONLY <1>0, <1>2, <1>3, Counting
  <2> QED
    BY <2>1
<1> QED
  BY <1>1, <1>4

\* After a closed period that is not the first, the one before is closed.
LEMMA BackedClosed ==
  ASSUME CalendarInv, NEW p \in Slots
  PROVE  Backed(closed, p)
<1>1. ASSUME NEW c \in closed, c > p PROVE c - 1 \in closed
  <2>1. c \in Slots /\ c \in Int /\ p \in Int /\ c \in periods
    BY DEF Slots, CalendarInv
  <2>2. c - 1 \in Slots /\ c - 1 < c
    BY <1>1, <2>1, LedgerAssumption DEF Slots
  <2>3. c - 1 \in periods
    BY <2>1, <2>2 DEF CalendarInv, NoHole
  <2> QED
    BY <2>1, <2>2, <2>3 DEF CalendarInv, ClosedInOrder
<1> QED
  BY <1>1 DEF Backed

\* closeAccountingPeriod.
LEMMA CloseContinues ==
  ASSUME Standing, NEW p \in Slots, CloseAccountingPeriod(p)
  PROVE  Continued
<1> DEFINE n == Len(AccountOrder)
           s == [i \in DOMAIN AccountOrder |-> <<AccountOrder[i], p>>]
           x == CloseLoop(DB, s)
           b == WithBalances(DB, x)
           v == b.closed \cup {p}
           e == [b EXCEPT !.closed = v]
<1>1. Commit(e, sequence) /\ p \in periods /\ p + 1 \in periods
  BY DEF CloseAccountingPeriod, CloseLoop
<1>2. /\ n \in Nat /\ DOMAIN AccountOrder = 1..n /\ \A i \in 1..n : AccountOrder[i] \in Accounts
      /\ \A a \in Accounts : \E i \in 1..n : AccountOrder[i] = a
  <2>1. n \in Nat /\ DOMAIN AccountOrder = 1..n /\ \A i \in 1..n : AccountOrder[i] \in Accounts
    BY LedgerAssumption
  <2>2. \A a \in Accounts : \E i \in DOMAIN AccountOrder : AccountOrder[i] = a
    BY DEF Accounts, ToSet
  <2> QED
    BY <2>1, <2>2
<1>3. DOMAIN s = 1..n /\ \A i \in 1..n : s[i] = <<AccountOrder[i], p>>
  BY <1>2
<1>4. /\ DB.periods = periods /\ DB.closed = closed /\ DB.tb = trialbal
      /\ IsDB(DB) /\ Base(DB) /\ closed \subseteq periods /\ periods \subseteq Slots
      /\ Within(trialbal, periods) /\ \A a \in Others : ChainOf(trialbal, closed, periods, a)
  BY Now, CalendarNow DEF Standing, ClosedBooks
<1>5. Closable(closed, p)
  <2>1. CASE p \notin closed
    BY <1>1, <2>1, ClosedBefore DEF Standing, Closable, AllBefore
  <2>2. CASE p \in closed
    BY <2>2, BackedClosed DEF Standing, Closable
  <2> QED
    BY <2>1, <2>2
<1> HIDE DEF n, s
<1>6. Closing(DB, x, closed, p, n)
  BY <1>1, <1>2, <1>3, <1>4, <1>5, CloseLoopCloses
<1> HIDE DEF x
<1>7. e.tb = x.tb /\ e.periods = periods /\ e.closed = closed \cup {p}
  <2>1. IsDB(b) /\ b.tb = x.tb /\ b.periods = periods /\ b.closed = closed
    <3> HIDE DEF b
    <3>1. IsDB(DB) /\ b = WithBalances(DB, x)
      BY <1>4 DEF b
    <3>2. IsDB(b) /\ b.tb = x.tb /\ b.periods = DB.periods /\ b.closed = DB.closed
      BY ONLY <3>1, BalanceTables
    <3> QED
      BY <1>4, <3>2
  <2>2. v = closed \cup {p}
    BY <2>1
  <2> HIDE DEF b, v
  <2>3. e.tb = b.tb /\ e.periods = b.periods /\ e.closed = v
    BY <2>1 DEF IsDB
  <2> QED
    BY <2>1, <2>2, <2>3
<1> HIDE DEF e
<1>8. trialbal' = x.tb /\ periods' = periods /\ closed' = closed \cup {p}
  BY <1>1, <1>7 DEF Commit
<1>9. ASSUME NEW a \in Others
      PROVE  ChainOf(x.tb, closed \cup {p}, periods, a) /\ Held(trialbal, x.tb, closed, a)
  <2>1. \E i \in 1..n : AccountOrder[i] = a
    BY <1>2 DEF Others
  <2> QED
    BY <1>4, <1>6, <2>1 DEF Closing
<1>10. Within(x.tb, periods)
  BY <1>4, <1>6 DEF Closing
<1>11. closed \cap closed' = closed
  BY <1>8
<1> QED
  BY <1>8, <1>9, <1>10, <1>11 DEF Continued, ClosedBooks

-----------------------------------------------------------------------------
(* Creating a period: every account is carried on from its last row.       *)

\* The slot from which the account of k is carried forward: a closed one, or
\* one after them all.  Only the account's own next row may be missing.
Placed(shut, gaps, k) ==
    /\ Backed(shut, k[2])
    /\ k[1] \in Others => /\ gaps \subseteq {k[2]}
                          /\ k[2] \in shut \/ (gaps = {} /\ AllBefore(shut, k[2]))

LEMMA LooseMore ==
  ASSUME NEW tb, NEW shut, NEW pers, NEW a, NEW gaps, Loose(tb, shut, pers, a, {})
  PROVE  Loose(tb, shut, pers, a, gaps)
BY DEF Loose

LEMMA ForwardTurn ==
  ASSUME NEW d, Base(d), NEW a \in Accounts, NEW p \in Slots, <<a, p>> \in DOMAIN d.tb,
         NEW shut, shut \subseteq d.periods, NEW gaps, Placed(shut, gaps, <<a, p>>),
         NEW b \in Others, Loose(d.tb, shut, d.periods, b, gaps),
         NEW e, e = forwardUpdateTrialBalance(d, a, p)
  PROVE  /\ Loose(e.tb, shut, d.periods, b, gaps) /\ Held(d.tb, e.tb, shut, b)
         /\ a = b \/ Loose(d.tb, shut, d.periods, b, {}) => Loose(e.tb, shut, d.periods, b, {})
<1> DEFINE pers == d.periods
<1>0. p \in Int /\ TBTyped(d.tb)
  BY DEF Slots, Base
<1>1. Moved(d.tb, e.tb, pers, a, p)
  BY ForwardMoves
<1>2. CASE a # b
  <2>1. SameRows(d.tb, e.tb, b)
    BY <1>1, <1>2, MovedOthers
  <2>2. /\ Loose(e.tb, shut, pers, b, gaps) /\ Exact(d.tb, e.tb, shut, b)
        /\ Loose(d.tb, shut, pers, b, {}) => Loose(e.tb, shut, pers, b, {})
    BY <2>1, SameLoose
  <2> QED
    BY <1>2, <2>2, ExactHeld
<1>3. CASE a = b /\ p \in shut
  <2>1. gaps \subseteq {p} /\ Backed(shut, p)
    BY <1>3 DEF Placed
  <2>2. Loose(d.tb, shut, pers, a, {p})
    BY <1>3, <2>1 DEF Loose
  <2>3. Loose(e.tb, shut, pers, a, {}) /\ Exact(d.tb, e.tb, shut, a)
    BY <1>3, <2>1, <2>2, Retrace
  <2> QED
    BY <1>3, <2>3, ExactHeld, LooseMore
<1>4. CASE a = b /\ p \notin shut
  <2>1. gaps = {} /\ AllBefore(shut, p)
    BY <1>4 DEF Placed
  <2>2. ChainOf(d.tb, shut, pers, b)
    BY <2>1, LooseChain
  <2>3. Steady(d.tb, e.tb, shut, b)
    BY <1>0, <1>1, <2>1, MovedSteady
  <2>4. ChainOf(e.tb, shut, pers, b) /\ Held(d.tb, e.tb, shut, b)
    BY <2>2, <2>3, SteadyKeeps
  <2> QED
    BY <2>1, <2>4, LooseChain
<1> QED
  BY <1>2, <1>3, <1>4

\* After m turns of the loop over the rows s.
Growing(d, e, shut, gaps, s, m) ==
    /\ Carried(d, e) /\ Within(e.tb, d.periods)
    /\ \A b \in Others :
         /\ Loose(e.tb, shut, d.periods, b, gaps) /\ Held(d.tb, e.tb, shut, b)
         /\ (\E j \in 1..m : s[j][1] = b) => Loose(e.tb, shut, d.periods, b, {})

LEMMA GrowingTurn ==
  ASSUME NEW d, Base(d), NEW shut, shut \subseteq d.periods, NEW gaps, NEW s,
         NEW m \in Nat, NEW n \in Nat, m + 1 = n, NEW c, Growing(d, c, shut, gaps, s, m),
         s[n] \in DOMAIN d.tb, Placed(shut, gaps, s[n]), NEW e, e = ForwardRow(c, s[n])
  PROVE  Growing(d, e, shut, gaps, s, n)
<1> DEFINE k == s[n]
           a == k[1]
           p == k[2]
           pers == d.periods
<1>1. Base(c) /\ c.periods = pers /\ Carried(d, c) /\ Within(c.tb, pers)
  BY CarriedFields DEF Growing
<1>2. k \in DOMAIN c.tb /\ k \in Keys
  BY <1>1 DEF Carried, Base, TBTyped
<1>3. \A j \in 1..n : j \in 1..m \/ j = n
  OBVIOUS
<1>4. e = forwardUpdateTrialBalance(c, a, p)
  BY DEF ForwardRow
<1>5. a = s[n][1] /\ Placed(shut, gaps, k)
  OBVIOUS
<1> HIDE DEF k
<1>6. a \in Accounts /\ p \in Slots /\ k = <<a, p>>
  BY <1>2 DEF Keys
<1>7. <<a, p>> \in DOMAIN c.tb /\ Placed(shut, gaps, <<a, p>>)
  BY <1>2, <1>5, <1>6
<1> HIDE DEF a, p
<1>8. Carried(c, e)
  BY <1>1, <1>4, <1>6, <1>7, ForwardCarries
<1>9. Carried(d, e)
  BY <1>1, <1>8, CarriedTwice
<1>10. Within(e.tb, pers)
  <2>1. Moved(c.tb, e.tb, pers, a, p)
    BY <1>1, <1>4, <1>6, <1>7, ForwardMoves
  <2> QED
    BY <1>1, <2>1, MovedWithin
<1>11. ASSUME NEW b \in Others
       PROVE  /\ Loose(e.tb, shut, pers, b, gaps) /\ Held(d.tb, e.tb, shut, b)
              /\ (\E j \in 1..n : s[j][1] = b) => Loose(e.tb, shut, pers, b, {})
  <2>1. /\ Loose(c.tb, shut, pers, b, gaps) /\ Held(d.tb, c.tb, shut, b)
        /\ (\E j \in 1..m : s[j][1] = b) => Loose(c.tb, shut, pers, b, {})
    BY DEF Growing
  <2>2. /\ Loose(e.tb, shut, pers, b, gaps) /\ Held(c.tb, e.tb, shut, b)
        /\ a = b \/ Loose(c.tb, shut, pers, b, {}) => Loose(e.tb, shut, pers, b, {})
    BY <1>1, <1>4, <1>6, <1>7, <2>1, ForwardTurn
  <2>3. Held(d.tb, e.tb, shut, b)
    BY <2>1, <2>2, HeldTwice
  <2> QED
    BY <1>3, <1>5, <2>1, <2>2, <2>3
<1> QED
  BY <1>9, <1>10, <1>11 DEF Growing

LEMMA ForwardLoopGrows ==
  ASSUME NEW d, Base(d), Within(d.tb, d.periods), NEW shut, shut \subseteq d.periods, NEW gaps,
         \A b \in Others : Loose(d.tb, shut, d.periods, b, gaps),
         NEW n \in Nat, NEW s, DOMAIN s = 1..n,
         \A i \in 1..n : s[i] \in DOMAIN d.tb /\ Placed(shut, gaps, s[i])
  PROVE  Growing(d, ForwardLoop(d, s), shut, gaps, s, n)
<1>0. n \in Nat /\ DOMAIN s = 1..n
  OBVIOUS
<1>1. PICK g : /\ g[0] = d /\ \A i \in 1..n : g[i] = ForwardRow(g[i - 1], s[i])
               /\ ForwardLoop(d, s) = g[n]
  BY ONLY <1>0, ForwardChain, SMTT(60)
<1> DEFINE Z == {i \in 0..n : Growing(d, g[i], shut, gaps, s, i)}
<1>2. 0 \in Z
  <2>1. Growing(d, d, shut, gaps, s, 0)
    BY CarriedSelf, HeldSelf DEF Growing
  <2> QED
    BY <1>1, <2>1
<1>3. ASSUME NEW i \in 1..n, i - 1 \in Z PROVE i \in Z
  <2> DEFINE c == g[i - 1]
             m == i - 1
             e == g[i]
  <2>1. /\ Growing(d, c, shut, gaps, s, m) /\ e = ForwardRow(c, s[i])
        /\ m \in Nat /\ i \in Nat /\ m + 1 = i
        /\ s[i] \in DOMAIN d.tb /\ Placed(shut, gaps, s[i])
    BY <1>1, <1>3
  <2> HIDE DEF c, m, e
  <2>2. Growing(d, e, shut, gaps, s, i)
    BY <2>1, GrowingTurn
  <2> QED
    BY <2>2 DEF e
<1>4. n \in Z
  <2> HIDE DEF Z
  <2>1. \A i \in 0..n : i \in Z
    BY ONLY <1>0, <1>2, <1>3, Counting
  <2> QED
    BY <2>1
<1> QED
  BY <1>1, <1>4

\* Nothing to post, nothing changed.
LEMMA PostNothing ==
  ASSUME NEW d, Base(d), NEW seqs, NEW priv, Pending(d, seqs, priv) = {},
         NEW e, e = postIntoTrialBalance(d, seqs, priv)
  PROVE  e.tb = d.tb
<1> DEFINE none == {}
           order == InSequence(none)
           gl == [i \in DOMAIN d.gl |-> [d.gl[i] EXCEPT !.posted = @ \/ i \in none]]
           done == PostLoop(d, order)
           b == WithBalances(d, done)
<1>1. e = [b EXCEPT !.gl = gl]
  BY DEF postIntoTrialBalance, PostLoop
<1> HIDE DEF none
<1>2. 0 \in Nat /\ DOMAIN order = 1..0
  <2>1. IsSeq(d.gl) /\ none \subseteq DOMAIN d.gl /\ order = InSequence(none)
    BY DEF Base, IsRows, none
  <2>2. Cardinality(none) = 0
    BY FS_EmptySet DEF none
  <2> HIDE DEF order
  <2> QED
    BY <2>1, <2>2, OrderOf
<1> HIDE DEF order
<1>3. done = d
  <2>1. PICK g : /\ g[0] = d /\ \A i \in 1..0 : g[i] = PostRow(g[i - 1], order[i])
                 /\ PostLoop(d, order) = g[0]
    BY ONLY <1>2, PostChain
  <2> QED
    BY <2>1
<1> HIDE DEF done, gl
<1>4. IsDB(b) /\ b.tb = d.tb
  <2>1. IsDB(d) /\ b = WithBalances(d, done)
    BY DEF Base
  <2> HIDE DEF b
  <2> QED
    BY <1>3, <2>1, BalanceTables
<1> HIDE DEF b
<1> QED
  BY <1>1, <1>4 DEF IsDB

\* The calendar in which period p is created in order.
LEMMA CreatedLast ==
  ASSUME Standing, Orderly, NEW p \in Slots, NEW priv, Create(p, priv)
  PROVE  /\ p \notin periods /\ p \in Int
         /\ \A q \in periods : q \in Int /\ q < p
         /\ p - 1 \in closed => periods = closed
         /\ \A i \in DOMAIN gltrans : gltrans[i].period = p => gltrans[i].deleted
<1>1. /\ p \notin periods
      /\ \A i \in DOMAIN gltrans : gltrans[i].period = p => gltrans[i].deleted
  BY DEF Create, InOrder, CreateAccountingPeriod
<1>2. p \in Int /\ periods \subseteq Slots /\ closed \subseteq periods
      /\ \A q \in periods : q \in Int
  BY DEF Standing, CalendarInv, Slots
<1>3. ASSUME NEW q \in periods PROVE q \in Int /\ q < p
  <2>1. ~(p < q) /\ q # p /\ q \in Int
    BY <1>1, <1>2, <1>3 DEF Standing, CalendarInv, NoHole
  <2> QED
    BY <1>2, <2>1
<1>4. ASSUME p - 1 \in closed, NEW q \in periods PROVE q \in closed
  <2>1. q \in Int /\ q < p
    BY <1>3, <1>4
  <2>2. q = p - 1 \/ q < p - 1
    BY <1>2, <2>1
  <2> QED
    BY <1>4, <2>2 DEF Standing, CalendarInv, ClosedInOrder
<1> QED
  BY <1>1, <1>2, <1>3, <1>4

\* The only row that may be missing after a closed one is that of period p.
GapOf(p) == closed \cap {p - 1}
Spaced(tb, p) ==
    /\ Within(tb, periods \cup {p})
    /\ p - 1 \in closed => Within(tb, periods)
    /\ \A b \in Others : /\ Held(trialbal, tb, closed, b)
                         /\ Loose(tb, closed, periods \cup {p}, b, GapOf(p))

LEMMA CreateSpaced ==
  ASSUME Standing, Orderly, NEW p \in Slots, NEW priv, Create(p, priv),
         NEW c, Base(c), c.gl = gltrans, c.tb = trialbal, c.closed = closed,
         c.periods = periods \cup {p},
         NEW d, d = postIntoTrialBalance(c, UnpostedIn(p), priv)
  PROVE  Spaced(d.tb, p)
<1> DEFINE pers == periods \cup {p}
<1>1. /\ p \notin periods /\ p \in Int
      /\ \A q \in periods : q \in Int /\ q < p
      /\ p - 1 \in closed => periods = closed
      /\ \A i \in DOMAIN gltrans : gltrans[i].period = p => gltrans[i].deleted
  BY CreatedLast
<1>2. closed \subseteq periods /\ Within(trialbal, periods)
      /\ \A b \in Others : ChainOf(trialbal, closed, periods, b)
  BY DEF Standing, CalendarInv, ClosedBooks
<1>3. CASE p - 1 \notin closed
  <2>1. Ledgered(c)
    BY <1>2, LedgerLines DEF Ledgered, Within
  <2>2. OpenLater(c)
    <3>1. ASSUME NEW x \in closed, NEW q \in pers \ closed PROVE x \in Int /\ x < q
      <4>1. CASE q = p
        BY <1>1, <1>2, <4>1
      <4>2. CASE q # p
        BY <4>2, <3>1, ClosedBefore DEF Standing
      <4> QED
        BY <4>1, <4>2
    <3> QED
      BY <3>1 DEF OpenLater
  <2>3. Ends(c, d)
    BY <2>1, <2>2, PostingSteady
  <2>4. ASSUME NEW b \in Others
        PROVE  Held(trialbal, d.tb, closed, b) /\ Loose(d.tb, closed, pers, b, {})
    <3>1. ASSUME NEW x \in closed, x + 1 \in pers PROVE x + 1 \in periods
      BY <1>1, <1>2, <1>3, <3>1
    <3>2. ChainOf(trialbal, closed, pers, b)
      BY <1>2, <3>1 DEF ChainOf
    <3>3. Steady(trialbal, d.tb, closed, b)
      BY <2>3 DEF Ends
    <3> QED
      BY <3>2, <3>3, SteadyKeeps, LooseChain
  <2>5. Within(d.tb, pers)
    BY <2>3 DEF Ends
  <2>6. GapOf(p) = {}
    BY <1>3 DEF GapOf
  <2> QED
    BY <1>3, <2>4, <2>5, <2>6 DEF Spaced
<1>4. CASE p - 1 \in closed
  <2>1. Pending(c, UnpostedIn(p), priv) = {}
    BY <1>1, <1>4 DEF Pending, Postable
  <2>2. d.tb = trialbal
    BY <2>1, PostNothing
  <2>3. ASSUME NEW b \in Others PROVE Loose(trialbal, closed, pers, b, GapOf(p))
    <3>1. ASSUME NEW x \in closed, x + 1 \in pers, ~Follows(trialbal, b, x)
          PROVE  x \in GapOf(p) /\ <<b, x + 1>> \notin DOMAIN trialbal
      <4>1. x + 1 \notin periods /\ x \in Int
        BY <1>1, <1>2, <3>1 DEF ChainOf
      <4>2. x + 1 = p
        BY <3>1, <4>1
      <4>3. x = p - 1
        BY <1>1, <4>1, <4>2
      <4>4. <<b, x + 1>> \notin DOMAIN trialbal
        BY <1>2, <4>1 DEF Within
      <4> QED
        BY <4>3, <4>4, <3>1 DEF GapOf
    <3> QED
      BY <1>2, <3>1 DEF Loose, ChainOf
  <2>4. Within(trialbal, pers)
    BY <1>2 DEF Within
  <2> QED
    BY <1>2, <2>2, <2>3, <2>4, HeldSelf DEF Spaced
<1> QED
  BY <1>3, <1>4

LEMMA LargestSlot ==
  ASSUME NEW S, S \subseteq Slots, S # {}
  PROVE  \A y \in S : y <= Max(S)
<1>1. NSlots \in Nat /\ Slots = 1..NSlots
  BY LedgerAssumption DEF Slots
<1>2. S \subseteq 1..NSlots /\ S \subseteq Nat
  BY <1>1
<1>3. PICK x \in S : \A y \in S : y <= x
  BY <1>1, <1>2, LargestNumber
<1>4. \A y \in S : x >= y
  BY <1>2, <1>3
<1>5. Max(S) \in S /\ \A y \in S : Max(S) >= y
  BY <1>4 DEF Max
<1> QED
  BY <1>2, <1>5

\* An account is carried forward from its last row.
LEMMA LastPlaced ==
  ASSUME Standing, NEW p \in Slots, p \notin periods, \A q \in periods : q \in Int /\ q < p,
         NEW d, Spaced(d.tb, p), NEW a, RowSlots(d, a) # {},
         NEW q, q = Max(RowSlots(d, a))
  PROVE  <<a, q>> \in DOMAIN d.tb /\ Placed(closed, GapOf(p), <<a, q>>)
<1> DEFINE S == RowSlots(d, a)
           k == <<a, q>>
<1>1. S \subseteq Slots /\ S # {} /\ \A r \in Slots : r \in S <=> <<a, r>> \in DOMAIN d.tb
  BY DEF RowSlots
<1>2. \A r \in S : <<a, r>> \in DOMAIN d.tb
  BY <1>1
<1> HIDE DEF S
<1>3. q \in S /\ \A r \in S : r <= q
  BY <1>1, LastSlot, LargestSlot DEF S
<1>4. q \in Slots /\ q \in Int /\ p \in Int /\ k \in DOMAIN d.tb
  BY <1>1, <1>3 DEF Slots
<1>5. Backed(closed, q)
  BY <1>4, BackedClosed DEF Standing
<1>6. ASSUME a \in Others
      PROVE  GapOf(p) \subseteq {q} /\ (q \in closed \/ (GapOf(p) = {} /\ AllBefore(closed, q)))
  <2>1. closed \subseteq periods /\ periods \subseteq Slots
    BY DEF Standing, CalendarInv
  <2>2. CASE p - 1 \in closed
    <3>1. q \in periods
      BY <1>4, <2>2 DEF Spaced, Within
    <3>2. p - 1 \in S
      <4>1. <<a, p - 1>> \in DOMAIN d.tb /\ p - 1 \in Slots
        BY <1>6, <2>1, <2>2 DEF Spaced, Loose, SettledRow
      <4> QED
        BY <1>1, <4>1
    <3>3. q = p - 1
      BY <1>3, <1>4, <3>1, <3>2
    <3> QED
      BY <2>2, <3>3 DEF GapOf
  <2>3. CASE p - 1 \notin closed
    <3>1. GapOf(p) = {}
      BY <2>3 DEF GapOf
    <3>2. q \notin closed => AllBefore(closed, q)
      <4> SUFFICES ASSUME q \notin closed, NEW c \in closed PROVE c \in Int /\ c < q
        BY DEF AllBefore
      <4>1. c \in S
        <5>1. <<a, c>> \in DOMAIN d.tb /\ c \in Slots
          BY <1>6, <2>1 DEF Spaced, Loose, SettledRow
        <5> QED
          BY <1>1, <5>1
      <4>2. c <= q /\ c # q /\ c \in Int
        BY <1>3, <2>1, <4>1 DEF Slots
      <4> QED
        BY <1>4, <4>2
    <3> QED
      BY <3>1, <3>2
  <2> QED
    BY <2>2, <2>3
<1> QED
  BY <1>4, <1>5, <1>6 DEF Placed

\* Every chosen position is in the sequence chosen.
LEMMA ChosenAll ==
  ASSUME NEW s, IsSeq(s), NEW ids, ids \subseteq DOMAIN s
  PROVE  \A j \in ids : \E i \in DOMAIN Chosen(s, ids) : Chosen(s, ids)[i] = s[j]
<1> DEFINE n == Cardinality(ids)
           order == InSequence(ids)
<1>1. DOMAIN Chosen(s, ids) = 1..n
  BY ChosenShape
<1>2. \A j \in ids : \E i \in 1..n : order[i] = j
  BY OrderOf DEF RunsThrough, Among
<1>3. \A i \in 1..n : Chosen(s, ids)[i] = s[order[i]]
  BY DEF Chosen
<1> HIDE DEF n, order
<1> QED
  BY <1>1, <1>2, <1>3

\* Positions chosen keep their order.
LEMMA ChosenOrder ==
  ASSUME NEW s, IsSeq(s), NEW ids, ids \subseteq DOMAIN s, NEW j \in ids, NEW k \in ids, j < k
  PROVE  \E h, i \in DOMAIN Chosen(s, ids) :
           h < i /\ Chosen(s, ids)[h] = s[j] /\ Chosen(s, ids)[i] = s[k]
<1> DEFINE n == Cardinality(ids)
           order == InSequence(ids)
<1>1. Len(s) \in Nat /\ DOMAIN s = 1..Len(s)
  BY SeqDomain
<1>2. /\ n \in Nat /\ order \in [1..n -> ids]
      /\ \A t \in ids : \E i \in 1..n : order[i] = t
  BY <1>1, InSequenceIs
<1>3. \A h, i \in DOMAIN order : h < i => order[h] < order[i]
  BY <1>1, InSequenceExists DEF InSequence
<1>4. DOMAIN Chosen(s, ids) = 1..n /\ \A i \in 1..n : Chosen(s, ids)[i] = s[order[i]]
  BY ChosenShape DEF Chosen
<1> HIDE DEF n, order
<1>5. PICK h, i \in 1..n : order[h] = j /\ order[i] = k
  BY <1>2
<1>6. j \in Int /\ k \in Int /\ h \in Int /\ i \in Int
  BY <1>1, <1>2
<1>7. h # i /\ ~(i < h)
  <2>1. i < h => order[i] < order[h]
    BY <1>2, <1>3
  <2> QED
    BY <1>5, <1>6, <2>1
<1>8. h < i
  BY <1>6, <1>7
<1> QED
  BY <1>4, <1>5, <1>8

\* What createAccountingPeriod does: the balances c with the period p, the
\* balances d with what waited for it posted, and the rows last from which the
\* accounts are carried forward.
Creates(p, priv, c, d, last, m) ==
    /\ Base(c) /\ Good(c) /\ c.gl = gltrans /\ c.tb = trialbal /\ c.closed = closed
    /\ c.periods = periods \cup {p} /\ c.yearclosed = yearclosed
    /\ d = postIntoTrialBalance(c, UnpostedIn(p), priv)
    /\ Base(d) /\ d.periods = periods \cup {p} /\ d.closed = closed
    /\ d.yearclosed = yearclosed
    /\ m \in Nat /\ DOMAIN last = 1..m
    /\ \A i \in 1..m : \E a : RowSlots(d, a) # {} /\ last[i] = <<a, Max(RowSlots(d, a))>>
    /\ \A a \in Accounts : RowSlots(d, a) # {} => \E i \in 1..m : last[i][1] = a
    /\ \A h, i \in DOMAIN AccountOrder :
         /\ h < i /\ RowSlots(d, AccountOrder[h]) # {} /\ RowSlots(d, AccountOrder[i]) # {}
         => \E j, k \in 1..m : /\ j < k /\ last[j][1] = AccountOrder[h]
                               /\ last[k][1] = AccountOrder[i]
    /\ trialbal' = ForwardLoop(d, last).tb /\ periods' = periods \cup {p} /\ closed' = closed

LEMMA CreateIs ==
  ASSUME Standing, NEW p \in Slots, NEW priv \in BOOLEAN, Create(p, priv)
  PROVE  \E c, d, last, m : Creates(p, priv, c, d, last, m)
<1> DEFINE v == DB.periods \cup {p}
           c == [DB EXCEPT !.periods = v]
           d == postIntoTrialBalance(c, UnpostedIn(p), priv)
           has == {n \in DOMAIN AccountOrder : RowSlots(d, AccountOrder[n]) # {}}
           seen == Chosen(AccountOrder, has)
           last == [n \in DOMAIN seen |-> <<seen[n], Max(RowSlots(d, seen[n]))>>]
           x == ForwardLoop(d, last)
           e == WithBalances(d, x)
           m == Len(seen)
           pers == periods \cup {p}
<1>1. Commit(e, sequence)
  BY DEF Create, CreateAccountingPeriod, ForwardLoop
<1>2. c = [DB EXCEPT !.periods = v] /\ v = pers
  BY Now DEF Standing
<1>14. d = postIntoTrialBalance(c, UnpostedIn(p), priv) /\ e = WithBalances(d, x)
       /\ x = ForwardLoop(d, last)
  OBVIOUS
<1> HIDE DEF c, v
<1>3. /\ Base(c) /\ Good(c) /\ c.gl = gltrans /\ c.tb = trialbal /\ c.closed = closed
      /\ c.periods = pers /\ c.yearclosed = yearclosed /\ Books(c, sequence)
  <2>1. IsDB(DB) /\ c = [DB EXCEPT !.periods = v]
    BY <1>2, Now DEF Standing
  <2>2. /\ SameLedger(DB, c) /\ c.periods = v /\ c.closed = DB.closed
        /\ c.frozen = DB.frozen /\ c.yearclosed = DB.yearclosed
    BY ONLY <2>1, PeriodsReplaced
  <2>3. /\ Good(DB) /\ DB.gl = gltrans /\ DB.tb = trialbal /\ DB.closed = closed
        /\ DB.periods = periods /\ DB.periods \subseteq v
        /\ DB.frozen = frozen /\ DB.yearclosed = yearclosed /\ Books(DB, sequence)
    BY <1>2, Now, DBGood DEF Standing
  <2>4. Good(c)
    BY <2>1, <2>3, Flagging
  <2>5. CalendarOf(c)
    BY <1>2, <2>2, <2>3, CalendarNow DEF CalendarOf, Standing
  <2>6. Books(c, sequence)
    BY <2>2, <2>3, <2>5, CalendarChanged
  <2>7. Base(c)
    BY <2>6 DEF Books, Tallied
  <2> QED
    BY <1>2, <2>2, <2>3, <2>4, <2>6, <2>7 DEF SameLedger
<1>5. d.periods = pers /\ d.closed = closed /\ d.yearclosed = yearclosed /\ Base(d)
  <2>1. d.periods = c.periods /\ d.closed = c.closed /\ d.yearclosed = c.yearclosed
    BY <1>3, PostingFields DEF Good
  <2>2. Base(d)
    <3>1. sequence \in Nat /\ Ledger(c, sequence) /\ Tallied(c)
      BY <1>3, Now DEF Books, Standing
    <3>2. Books(d, sequence)
      BY <3>1, BooksReady, PostBooks
    <3> QED
      BY <3>2 DEF Books, Tallied
  <2> QED
    BY <1>3, <2>1, <2>2
<1> HIDE DEF d
<1>6. /\ m \in Nat /\ DOMAIN seen = 1..m
      /\ \A i \in 1..m : \E j \in has : seen[i] = AccountOrder[j]
      /\ \A j \in has : \E i \in 1..m : seen[i] = AccountOrder[j]
      /\ \A h, i \in has : h < i =>
           \E j, k \in 1..m : j < k /\ seen[j] = AccountOrder[h] /\ seen[k] = AccountOrder[i]
  <2>1. IsSeq(AccountOrder) /\ has \subseteq DOMAIN AccountOrder
    BY LedgerAssumption DEF IsSeq
  <2> HIDE DEF has
  <2>2. /\ IsSeq(seen) /\ \A i \in DOMAIN seen : \E j \in has : seen[i] = AccountOrder[j]
        /\ \A j \in has : \E i \in DOMAIN seen : seen[i] = AccountOrder[j]
    BY <2>1, ChosenRows, ChosenAll
  <2>3. \A h, i \in has : h < i =>
          \E j, k \in DOMAIN seen : j < k /\ seen[j] = AccountOrder[h] /\ seen[k] = AccountOrder[i]
    BY <2>1, ChosenOrder
  <2> HIDE DEF seen
  <2>4. m \in Nat /\ DOMAIN seen = 1..m
    BY <2>2, SeqDomain
  <2> HIDE DEF m
  <2>5. \A h, i \in has : h < i =>
          \E j, k \in 1..m : j < k /\ seen[j] = AccountOrder[h] /\ seen[k] = AccountOrder[i]
    BY <2>3, <2>4
  <2> QED
    BY <2>2, <2>4, <2>5
<1>7. DOMAIN last = 1..m /\ \A i \in 1..m : last[i] = <<seen[i], Max(RowSlots(d, seen[i]))>>
  <2> HIDE DEF seen, m
  <2> QED
    BY <1>6
<1> HIDE DEF last, seen, m
<1>8. ASSUME NEW i \in 1..m
      PROVE  \E a : RowSlots(d, a) # {} /\ last[i] = <<a, Max(RowSlots(d, a))>>
  <2>1. RowSlots(d, seen[i]) # {}
    BY <1>6
  <2> QED
    BY <1>7, <2>1
<1>9. ASSUME NEW a \in Accounts, RowSlots(d, a) # {} PROVE \E i \in 1..m : last[i][1] = a
  <2>1. PICK j \in DOMAIN AccountOrder : AccountOrder[j] = a
    BY DEF Accounts, ToSet
  <2>2. j \in has
    BY <1>9, <2>1
  <2>3. \A i \in 1..m : last[i][1] = seen[i]
    BY <1>7
  <2> HIDE DEF has
  <2> QED
    BY <1>6, <2>1, <2>2, <2>3
<1>13. ASSUME NEW h \in DOMAIN AccountOrder, NEW i \in DOMAIN AccountOrder, h < i,
              RowSlots(d, AccountOrder[h]) # {}, RowSlots(d, AccountOrder[i]) # {}
       PROVE  \E j, k \in 1..m : /\ j < k /\ last[j][1] = AccountOrder[h]
                                 /\ last[k][1] = AccountOrder[i]
  <2>1. h \in has /\ i \in has
    BY <1>13
  <2>2. \A j \in 1..m : last[j][1] = seen[j]
    BY <1>7
  <2> HIDE DEF has
  <2>3. PICK j, k \in 1..m : /\ j < k /\ seen[j] = AccountOrder[h]
                            /\ seen[k] = AccountOrder[i]
    BY <1>6, <1>13, <2>1
  <2> QED
    BY <2>2, <2>3
<1> HIDE DEF x
<1>10. e.tb = x.tb /\ e.periods = pers /\ e.closed = closed
  <2>1. IsDB(d)
    BY <1>5 DEF Base
  <2> HIDE DEF e
  <2>2. e.tb = x.tb /\ e.periods = d.periods /\ e.closed = d.closed
    BY <1>14, <2>1, BalanceTables
  <2> QED
    BY <1>5, <2>2
<1> HIDE DEF e
<1>11. trialbal' = x.tb /\ periods' = pers /\ closed' = closed
  BY <1>1, <1>10 DEF Commit
<1>12. Creates(p, priv, c, d, last, m)
  BY <1>3, <1>5, <1>6, <1>7, <1>8, <1>9, <1>11, <1>13, <1>14 DEF Creates
<1> QED
  BY <1>12

\* createAccountingPeriod, of a period after all the others.
LEMMA CreateContinues ==
  ASSUME Standing, Orderly, NEW p \in Slots, NEW priv \in BOOLEAN, Create(p, priv)
  PROVE  Continued
<1> DEFINE pers == periods \cup {p}
<1>1. PICK c, d, last, m : Creates(p, priv, c, d, last, m)
  BY CreateIs
<1> DEFINE x == ForwardLoop(d, last)
<1>2. /\ Base(c) /\ c.gl = gltrans /\ c.tb = trialbal /\ c.closed = closed /\ c.periods = pers
      /\ d = postIntoTrialBalance(c, UnpostedIn(p), priv)
  BY <1>1 DEF Creates
<1>3. Base(d) /\ d.periods = pers /\ d.closed = closed /\ m \in Nat /\ DOMAIN last = 1..m
  BY <1>1 DEF Creates
<1>4. Spaced(d.tb, p)
  BY <1>2, CreateSpaced
<1>5. trialbal' = x.tb /\ periods' = pers /\ closed' = closed
  BY <1>1 DEF Creates
<1>8. ASSUME NEW i \in 1..m PROVE last[i] \in DOMAIN d.tb /\ Placed(closed, GapOf(p), last[i])
  <2>1. PICK a : RowSlots(d, a) # {} /\ last[i] = <<a, Max(RowSlots(d, a))>>
    BY <1>1 DEF Creates
  <2>2. p \notin periods /\ \A r \in periods : r \in Int /\ r < p
    BY CreatedLast
  <2> QED
    BY <1>4, <2>1, <2>2, LastPlaced
<1>9. closed \subseteq pers
  BY DEF Standing, CalendarInv
<1>10. Growing(d, x, closed, GapOf(p), last, m)
  <2>1. /\ Within(d.tb, d.periods) /\ closed \subseteq d.periods
        /\ \A b \in Others : Loose(d.tb, closed, d.periods, b, GapOf(p))
    BY <1>3, <1>4, <1>9 DEF Spaced
  <2> QED
    BY <1>3, <1>8, <2>1, ForwardLoopGrows
<1> HIDE DEF x
<1>13. ASSUME NEW b \in Others
       PROVE  ChainOf(x.tb, closed, pers, b) /\ Held(trialbal, x.tb, closed, b)
  <2>1. Held(trialbal, d.tb, closed, b) /\ Loose(d.tb, closed, pers, b, GapOf(p))
    BY <1>4 DEF Spaced
  <2>2. /\ Held(d.tb, x.tb, closed, b)
        /\ (\E i \in 1..m : last[i][1] = b) => Loose(x.tb, closed, pers, b, {})
    BY <1>3, <1>10 DEF Growing
  <2>3. Held(trialbal, x.tb, closed, b)
    BY <2>1, <2>2, HeldTwice
  <2>4. CASE \E i \in 1..m : last[i][1] = b
    BY <2>2, <2>3, <2>4, LooseChain
  <2>5. CASE ~\E i \in 1..m : last[i][1] = b
    <3>1. RowSlots(d, b) = {}
      BY <1>1, <2>5 DEF Creates, Others
    <3>2. \A r \in closed : r \in Slots /\ <<b, r>> \in DOMAIN d.tb
      BY <2>1 DEF Loose, SettledRow, Standing, CalendarInv
    <3>3. closed = {}
      BY <3>1, <3>2 DEF RowSlots
    <3> QED
      BY <2>3, <3>3 DEF ChainOf
  <2> QED
    BY <2>4, <2>5
<1>14. Within(x.tb, pers)
  BY <1>3, <1>10 DEF Growing
<1>15. closed \cap closed' = closed
  BY <1>5
<1> QED
  BY <1>5, <1>13, <1>14, <1>15 DEF Continued, ClosedBooks

-----------------------------------------------------------------------------
(* Every step, and the balances of closed periods.                         *)

LEMMA NextContinues ==
  ASSUME Standing, Orderly, BInv', [Next]_vars
  PROVE  Continued
<1>0. IInv
  BY DEF Standing
<1>1. CASE Entry
  BY <1>0, <1>1, EntryStep, RoutineContinues DEF Entry
<1>2. CASE Distribution
  BY <1>0, <1>2, DistributionStep, RoutineContinues
<1>3. CASE Series
  BY <1>0, <1>3, InsertSeriesStep, PostGLSeriesStep, NoSummStep, DropSeriesStep,
     RoutineContinues DEF Series
<1>4. CASE Correction
  BY <1>0, <1>4, DeleteSeriesContinues, ReverseStep, RoutineContinues DEF Correction
<1>5. CASE Journals
  BY <1>0, <1>5, JournalsStep, RoutineContinues
<1>6. CASE Calendar
  <2>1. CASE \E p \in Slots :
               \/ CloseAccountingPeriod(p)
               \/ FreezeAccountingPeriod(p)
               \/ DeleteAccountingPeriod(p)
               \/ \E priv \in BOOLEAN : \/ OpenAccountingPeriod(p, priv)
                                        \/ ThawAccountingPeriod(p, priv)
                                        \/ Create(p, priv)
    <3>1. ASSUME NEW p \in Slots, FreezeAccountingPeriod(p) PROVE Continued
      BY <1>0, <3>1, FreezeStep, RoutineContinues
    <3>2. ASSUME NEW p \in Slots, NEW priv \in BOOLEAN, ThawAccountingPeriod(p, priv)
          PROVE  Continued
      BY <1>0, <3>2, ThawStep, RoutineContinues
    <3> QED
      BY <2>1, <3>1, <3>2, CloseContinues, DeleteContinues, OpenContinues, CreateContinues
  <2>2. CASE \E y \in Years : CloseAccountingYearPeriod(y) \/ OpenAccountingYearPeriod(y)
    BY <1>0, <2>2, CloseYearContinues, OpenYearStep, RoutineContinues
  <2>3. CASE \E a \in Accounts : ForwardUpdateAccount(a)
    BY <2>3, ForwardContinues
  <2> QED
    BY <1>6, <2>1, <2>2, <2>3 DEF Calendar
<1>7. CASE UNCHANGED vars
  BY <1>7, HeldSelf DEF vars, Continued, ClosedBooks, Standing
<1> QED
  BY <1>1, <1>2, <1>3, <1>4, <1>5, <1>6, <1>7 DEF Next

LEMMA StandingKept ==
  ASSUME Standing, Orderly, [Next]_vars
  PROVE  Standing' /\ Continued
<1>1. IInv' /\ CalendarInv' /\ BInv'
  BY StepPreserves, NextCalendar, NextBooks DEF Standing, Preserved
<1>2. Continued
  BY <1>1, NextContinues
<1> QED
  BY <1>1, <1>2 DEF Standing, Continued

LEMMA FirstStanding ==
  ASSUME FirstOnes, Init PROVE Standing
<1>1. CalendarInv
  BY LedgerAssumption DEF Init, CalendarInv, FirstOnes, NoHole, ClosedInOrder
<1>2. ClosedBooks
  BY DEF Init, ClosedBooks, Within, ChainOf
<1> QED
  BY <1>1, <1>2, InitSound, EmptyBooks DEF Standing

\* What a period was closed with stays: no posting, correction, forward update,
\* later close or new period changes the balances of a period while it is
\* closed, the year-end equity account's excepted, as long as users create
\* periods in date order.
THEOREM ClosedRowsFixedHolds ==
    ASSUME Orderly, FirstOnes
    PROVE  Spec => ClosedRowsFixed
<1>1. Init => Standing
  BY FirstOnes, FirstStanding
<1>2. Standing /\ [Next]_vars => Standing'
  BY Orderly, StandingKept
<1>3. Standing /\ [Next]_vars =>
        [\A k \in DOMAIN trialbal :
           k[2] \in closed \cap closed' /\ k[1] # YearEndEquityAccount =>
             k \in DOMAIN trialbal' /\ trialbal'[k].beginning = trialbal[k].beginning
                                    /\ trialbal'[k].ending = trialbal[k].ending]_vars
  <2> SUFFICES ASSUME Standing, [Next]_vars, NEW k \in DOMAIN trialbal,
                      k[2] \in closed \cap closed', k[1] # YearEndEquityAccount
               PROVE  k \in DOMAIN trialbal' /\ trialbal'[k] = trialbal[k]
    OBVIOUS
  <2>1. Continued
    BY Orderly, StandingKept
  <2>2. k \in Keys
    BY Now DEF Standing, Base, TBTyped
  <2>3. k = <<k[1], k[2]>> /\ k[1] \in Others
    BY <2>2 DEF Keys, Others
  <2> QED
    BY <2>1, <2>3 DEF Continued, Held
<1> QED
  BY <1>1, <1>2, <1>3, PTL DEF Spec, ClosedRowsFixed

-----------------------------------------------------------------------------
(* Woven balances: every clean row is carried into the next one.           *)

\* The row of slot q begins anew: its account has none before, or a new year.
Restarted(tb, a, q) ==
    <<a, q>> \in DOMAIN tb /\ (<<a, q - 1>> \notin DOMAIN tb \/ Crosses(a, q - 1)) =>
      tb[<<a, q>>].beginning = tb[<<a, q>>].yearend

\* The row of slot q goes on from the one before, in the same year or an
\* account that is carried across years.
Joined(tb, a, q) ==
    <<a, q - 1>> \in DOMAIN tb /\ ~Crosses(a, q - 1) =>
      /\ <<a, q>> \in DOMAIN tb
      /\ tb[<<a, q>>].beginning = tb[<<a, q - 1>>].ending + tb[<<a, q>>].yearend

Stale(tb, a, q) == <<a, q>> \in DOMAIN tb /\ tb[<<a, q>>].dirty

\* Rows restart or go on from the one before, unless that is dirty; the keys
\* open are still to be carried into.
Tied(tb, a, q, open, fresh) ==
    /\ Restarted(tb, a, q)
    /\ \/ Stale(tb, a, q - 1)
       \/ Joined(tb, a, q)
       \/ <<a, q>> \in open
       \/ q \in fresh /\ <<a, q>> \notin DOMAIN tb
Threaded(tb, pers, open, fresh) == \A a \in Accounts, q \in pers : Tied(tb, a, q, open, fresh)

AllEven(tb) == \A k \in DOMAIN tb : Even(tb[k])
Contiguous(pers) == \A q \in pers, r \in Slots : r < q => r \in pers

Woven(d, open, fresh) ==
    /\ Base(d) /\ Within(d.tb, d.periods) /\ Contiguous(d.periods)
    /\ AllEven(d.tb) /\ Threaded(d.tb, d.periods, open, fresh)

LEMMA JoinedAlike ==
  ASSUME NEW tb, NEW ub, NEW a, NEW q, Alike(tb, ub, a, q), Alike(tb, ub, a, q - 1),
         Joined(tb, a, q)
  PROVE  Joined(ub, a, q)
BY DEF Joined, Alike

LEMMA LinkAlike ==
  ASSUME NEW tb, NEW ub, NEW a, NEW q, Alike(tb, ub, a, q), Alike(tb, ub, a, q - 1),
         NEW open, NEW fresh, Tied(tb, a, q, open, fresh)
  PROVE  Tied(ub, a, q, open, fresh)
<1>1. Restarted(ub, a, q)
  BY DEF Tied, Restarted, Alike
<1>2. Stale(tb, a, q - 1) => Stale(ub, a, q - 1)
  BY DEF Stale, Alike
<1>3. Joined(tb, a, q) => Joined(ub, a, q)
  BY JoinedAlike
<1>4. <<a, q>> \notin DOMAIN tb => <<a, q>> \notin DOMAIN ub
  BY DEF Alike
<1> QED
  BY <1>1, <1>2, <1>3, <1>4 DEF Tied

\* A row that is there keeps its link when it begins as far from its retained
\* earnings as before; a new row when it begins with nothing.
SameStart(tb, k, row) ==
    IF k \in DOMAIN tb
    THEN row.beginning - row.yearend = tb[k].beginning - tb[k].yearend
    ELSE row.beginning = 0 /\ row.yearend = 0

\* Only row k is written.
OneRow(tb, ub, k, row) ==
    /\ DOMAIN ub = DOMAIN tb \cup {k} /\ ub[k] = row
    /\ \A j \in DOMAIN tb : j # k => ub[j] = tb[j]

LEMMA OneRowRest ==
  ASSUME NEW tb, NEW ub, NEW a, NEW r, NEW row, OneRow(tb, ub, <<a, r>>, row)
  PROVE  \A b, q : b # a \/ q # r => Alike(tb, ub, b, q)
<1> TAKE b, q
<1> HAVE b # a \/ q # r
<1> DEFINE k == <<a, r>>
           j == <<b, q>>
<1>1. j # k
  OBVIOUS
<1> HIDE DEF k, j
<1>2. OneRow(tb, ub, k, row)
  BY DEF k
<1>3. (j \in DOMAIN ub <=> j \in DOMAIN tb) /\ (j \in DOMAIN tb => ub[j] = tb[j])
  BY <1>1, <1>2 DEF OneRow
<1> QED
  BY <1>3 DEF Alike, j

LEMMA SameStartLinks ==
  ASSUME NEW tb, TBTyped(tb), NEW ub, NEW a, NEW r \in Int, NEW row \in TBRows,
         OneRow(tb, ub, <<a, r>>, row), SameStart(tb, <<a, r>>, row),
         NEW open, NEW fresh, Tied(tb, a, r, open, fresh),
         <<a, r>> \in DOMAIN tb \/ r \notin fresh
  PROVE  Tied(ub, a, r, open, fresh)
<1> DEFINE k == <<a, r>>
           j == <<a, r - 1>>
<1>1. Alike(tb, ub, a, r - 1)
  BY OneRowRest
<1>2. (j \in DOMAIN ub <=> j \in DOMAIN tb) /\ (j \in DOMAIN tb => ub[j] = tb[j])
  BY <1>1 DEF Alike
<1>3. k \in DOMAIN ub /\ ub[k] = row
  BY DEF OneRow
<1>4. row.beginning \in Int /\ row.yearend \in Int
  BY DEF TBRows
<1>5. \A i \in DOMAIN tb : tb[i].beginning \in Int /\ tb[i].yearend \in Int /\ tb[i].ending \in Int
  BY DEF TBTyped, TBRows
<1>6. Restarted(tb, a, r) /\ (Stale(tb, a, r - 1) \/ Joined(tb, a, r) \/ k \in open)
  BY DEF Tied
<1>7. Restarted(ub, a, r)
  <2>1. SameStart(tb, k, row)
    OBVIOUS
  <2> SUFFICES ASSUME j \notin DOMAIN ub \/ Crosses(a, r - 1)
               PROVE  row.beginning = row.yearend
    BY <1>3 DEF Restarted
  <2>2. CASE k \in DOMAIN tb
    <3>1. tb[k].beginning = tb[k].yearend
      BY <1>2, <1>6, <2>2 DEF Restarted
    <3>2. row.beginning - row.yearend = tb[k].beginning - tb[k].yearend
      BY <2>1, <2>2 DEF SameStart
    <3> HIDE DEF k
    <3> QED
      BY <1>4, <1>5, <2>2, <3>1, <3>2
  <2>3. CASE k \notin DOMAIN tb
    BY <2>1, <2>3 DEF SameStart
  <2> QED
    BY <2>2, <2>3
<1>8. Joined(tb, a, r) => Joined(ub, a, r)
  <2> SUFFICES ASSUME Joined(tb, a, r), j \in DOMAIN ub, ~Crosses(a, r - 1)
               PROVE  row.beginning = ub[j].ending + row.yearend
    BY <1>3 DEF Joined
  <2>1. k \in DOMAIN tb /\ tb[k].beginning = tb[j].ending + tb[k].yearend /\ j \in DOMAIN tb
        /\ ub[j] = tb[j]
    BY <1>2 DEF Joined
  <2>2. row.beginning - row.yearend = tb[k].beginning - tb[k].yearend
    BY <2>1 DEF SameStart
  <2> HIDE DEF k, j
  <2> QED
    BY <1>4, <1>5, <2>1, <2>2
<1>9. Stale(tb, a, r - 1) => Stale(ub, a, r - 1)
  BY <1>2 DEF Stale
<1> QED
  BY <1>6, <1>7, <1>8, <1>9 DEF Tied

\* Writing one row: what its own link and the next one need.
LEMMA OneRowThreads ==
  ASSUME NEW tb, NEW ub, NEW a \in Accounts, NEW r \in Int, NEW row,
         OneRow(tb, ub, <<a, r>>, row), NEW pers, pers \subseteq Int,
         NEW X, NEW F, NEW Y, X \subseteq Y \cup {<<a, r>>}, Threaded(tb, pers, X, F),
         Tied(ub, a, r, Y, F),
         r + 1 \in pers => row.dirty \/ Joined(ub, a, r + 1) \/ <<a, r + 1>> \in Y
  PROVE  Threaded(ub, pers, Y, F)
<1> SUFFICES ASSUME NEW b \in Accounts, NEW q \in pers
             PROVE  Tied(ub, b, q, Y, F)
  BY DEF Threaded
<1>0. Tied(tb, b, q, X, F) /\ q \in Int
  BY DEF Threaded
<1>1. \A c, p : c # a \/ p # r => Alike(tb, ub, c, p)
  BY OneRowRest
<1>2. CASE b = a /\ q = r
  BY <1>2
<1>3. CASE b = a /\ q = r + 1
  <2>1. Alike(tb, ub, a, r + 1) /\ q - 1 = r /\ b = a
    BY <1>1, <1>3
  <2>2. <<a, r>> \in DOMAIN ub /\ ub[<<a, r>>] = row
    BY DEF OneRow
  <2>3. Restarted(ub, a, r + 1)
    <3>1. Restarted(tb, a, r + 1) /\ r + 1 - 1 = r
      BY <1>0, <1>3 DEF Tied
    <3> QED
      BY <2>1, <2>2, <3>1 DEF Restarted, Alike
  <2>4. row.dirty => Stale(ub, a, r)
    BY <2>2 DEF Stale
  <2>5. Stale(ub, a, r) \/ Joined(ub, a, r + 1) \/ <<a, r + 1>> \in Y
    BY <1>3, <2>4
  <2> QED
    BY <1>3, <2>1, <2>3, <2>5 DEF Tied
<1>4. CASE b # a \/ (q # r /\ q # r + 1)
  <2>1. Alike(tb, ub, b, q) /\ Alike(tb, ub, b, q - 1)
    BY <1>0, <1>1, <1>4
  <2>2. Tied(ub, b, q, X, F)
    BY <1>0, <2>1, LinkAlike
  <2>3. <<b, q>> # <<a, r>>
    BY <1>4
  <2> QED
    BY <2>2, <2>3 DEF Tied
<1> QED
  BY <1>2, <1>3, <1>4

-----------------------------------------------------------------------------
(* Writing one row of woven balances.                                      *)

LEMMA WriteOneRow ==
  ASSUME NEW d, IsDB(d), NEW k, NEW row
  PROVE  OneRow(d.tb, Write(d, k, row).tb, k, row)
BY WriteTable DEF OneRow

LEMMA BaseWrite ==
  ASSUME NEW d, Base(d), NEW k \in Keys, NEW row \in TBRows
  PROVE  LET e == Write(d, k, row)
         IN  /\ Base(e) /\ e.periods = d.periods /\ e.gl = d.gl /\ e.closed = d.closed
             /\ e = WithBalances(d, e)
<1> DEFINE e == Write(d, k, row)
<1>1. /\ IsDB(e) /\ e = WithBalances(d, e)
      /\ DOMAIN e.tb = DOMAIN d.tb \cup {k} /\ e.tb[k] = row
      /\ \A j \in DOMAIN d.tb : j # k => e.tb[j] = d.tb[j]
  BY WriteTable DEF Base
<1> HIDE DEF e
<1> DEFINE t == e.tb
           r == e.raised
<1>2. e = [d EXCEPT !.tb = t, !.raised = r]
  BY <1>1 DEF WithBalances
<1> HIDE DEF t, r
<1>3. e.periods = d.periods /\ e.gl = d.gl /\ e.closed = d.closed
  BY <1>2 DEF Base, IsDB
<1>4. TBTyped(e.tb)
  BY <1>1 DEF Base, TBTyped
<1>5. Base(e)
  BY <1>1, <1>3, <1>4 DEF Base
<1> QED
  BY <1>1, <1>3, <1>5 DEF e

\* Writing an even row of a period that exists.
LEMMA WriteWoven ==
  ASSUME NEW d, NEW X, NEW F, Woven(d, X, F), NEW a \in Accounts, NEW r \in d.periods,
         NEW row \in TBRows, Even(row), NEW e, e = Write(d, <<a, r>>, row),
         NEW Y, X \subseteq Y \cup {<<a, r>>}, Tied(e.tb, a, r, Y, F),
         r + 1 \in d.periods => row.dirty \/ Joined(e.tb, a, r + 1) \/ <<a, r + 1>> \in Y
  PROVE  Woven(e, Y, F) /\ e.periods = d.periods
<1> DEFINE k == <<a, r>>
<1>1. Base(d) /\ d.periods \subseteq Slots /\ r \in Slots /\ Slots \subseteq Int
  BY DEF Woven, Base, Slots
<1>2. k \in Keys /\ k[2] \in d.periods
  BY <1>1 DEF Keys
<1>3. OneRow(d.tb, e.tb, k, row)
  <2> HIDE DEF k
  <2>1. e = Write(d, k, row)
    BY DEF k
  <2> QED
    BY <1>1, <2>1, WriteOneRow DEF Base
<1>4. Base(e) /\ e.periods = d.periods
  BY <1>1, <1>2, BaseWrite
<1>5. Within(e.tb, e.periods)
  <2> HIDE DEF k
  <2> QED
    BY <1>2, <1>3, <1>4 DEF Woven, Within, OneRow
<1>6. AllEven(e.tb)
  <2> HIDE DEF k
  <2> QED
    BY <1>3 DEF Woven, AllEven, OneRow
<1>7. Threaded(e.tb, d.periods, Y, F)
  <2>1. Threaded(d.tb, d.periods, X, F) /\ d.periods \subseteq Int /\ r \in Int
    BY <1>1 DEF Woven
  <2> QED
    BY <1>3, <2>1, OneRowThreads
<1> QED
  BY <1>4, <1>5, <1>6, <1>7 DEF Woven

\* A turn that writes, when the turn of the year left x.
WroteOn(t, s, a, q, x) ==
    /\ q \in s.d.periods /\ ~s.stopped /\ ~t.stopped
    /\ t.ending = TurnRow(s, a, q).ending /\ t.year = YearOf[q]
    /\ t.d = Write(x, <<a, q>>, TurnRow(s, a, q))

\* What the turn of the year leaves.
Crossed(x, s, a) ==
    \/ x = s.d
    \/ /\ a \in RevExp /\ s.year \in s.d.yearclosed
       /\ x = updateRetainedEarnings(s.d, s.year).d

LEMMA EquityGoes ==
  ASSUME NEW d, Base(d), NEW a, NEW p, NEW s, Carrying(s, d, a, p), NEW q
  PROVE  \/ Idle(VisitEquity(s, q), s, q)
         \/ WroteOn(VisitEquity(s, q), s, a, q, s.d)
<1> DEFINE row == TurnRow(s, a, q)
           e == Write(s.d, <<a, q>>, row)
           t == VisitEquity(s, q)
<1>1. \/ (s.stopped \/ q \notin s.d.periods) /\ t = s
      \/ /\ q \in s.d.periods /\ ~s.stopped
         /\ t = [s EXCEPT !.d = e, !.ending = row.ending, !.year = YearOf[q]]
  BY DEF VisitEquity, Visit, NoCrossing, TurnRow, NewYear, CarriedRow, Carrying
<1>3. e = Write(s.d, <<a, q>>, TurnRow(s, a, q)) /\ row = TurnRow(s, a, q)
  OBVIOUS
<1> HIDE DEF row, e, t
<1>4. CASE (s.stopped \/ q \notin s.d.periods) /\ t = s
  BY <1>4 DEF Idle, t
<1>5. CASE /\ q \in s.d.periods /\ ~s.stopped
           /\ t = [s EXCEPT !.d = e, !.ending = row.ending, !.year = YearOf[q]]
  <2> DEFINE ending == row.ending
             last == YearOf[q]
  <2>0. GoneOn(t, s, e, ending, last)
    BY <1>5 DEF GoneOn
  <2> HIDE DEF ending, last
  <2>3. t.d = e /\ t.ending = ending /\ t.year = last /\ t.stopped = s.stopped
    BY <2>0, WrittenTurn
  <2>1. t.d = e /\ t.ending = row.ending /\ t.year = YearOf[q] /\ t.stopped = s.stopped
    BY <2>3 DEF ending, last
  <2> QED
    BY <1>3, <1>5, <2>1 DEF WroteOn, t
<1> QED
  BY <1>1, <1>4, <1>5

LEMMA PeriodGoes ==
  ASSUME NEW d, Base(d), NEW a, NEW p, NEW s, Carrying(s, d, a, p), NEW q
  PROVE  \/ Idle(VisitPeriod(s, q), s, q)
         \/ Halted(VisitPeriod(s, q), s, a, q)
         \/ \E x : Crossed(x, s, a) /\ WroteOn(VisitPeriod(s, q), s, a, q, x)
<1> DEFINE row == TurnRow(s, a, q)
           year == updateRetainedEarnings(s.d, s.year)
           none == [d |-> s.d, ok |-> TRUE]
           crossed == IF NewYear(s, a, q) /\ s.year \in s.d.yearclosed THEN year ELSE none
           e == Write(crossed.d, <<a, q>>, row)
           t == VisitPeriod(s, q)
<1>1. \/ (s.stopped \/ q \notin s.d.periods) /\ t = s
      \/ NewYear(s, a, q) /\ t = [s EXCEPT !.stopped = TRUE]
      \/ /\ q \in s.d.periods /\ ~s.stopped
         /\ t = [s EXCEPT !.d = e, !.ending = row.ending, !.year = YearOf[q]]
  BY DEF VisitPeriod, Visit, TurnRow, NewYear, CarriedRow, Carrying
<1>2. Base(s.d)
  BY CarriedFields DEF Carrying
<1>3. Crossed(crossed.d, s, a)
  BY DEF Crossed, NewYear
<1>4. e = Write(crossed.d, <<a, q>>, TurnRow(s, a, q)) /\ row = TurnRow(s, a, q)
  OBVIOUS
<1> HIDE DEF row, e, t, crossed
<1>5. CASE (s.stopped \/ q \notin s.d.periods) /\ t = s
  BY <1>5 DEF Idle, t
<1>6. CASE NewYear(s, a, q) /\ t = [s EXCEPT !.stopped = TRUE]
  <2>1. t.d = s.d /\ t.stopped
    BY <1>6, StoppedTurn
  <2> QED
    BY <1>6, <2>1 DEF Halted, t
<1>7. CASE /\ q \in s.d.periods /\ ~s.stopped
           /\ t = [s EXCEPT !.d = e, !.ending = row.ending, !.year = YearOf[q]]
  <2> DEFINE ending == row.ending
             last == YearOf[q]
  <2>0. GoneOn(t, s, e, ending, last)
    BY <1>7 DEF GoneOn
  <2> HIDE DEF ending, last
  <2>3. t.d = e /\ t.ending = ending /\ t.year = last /\ t.stopped = s.stopped
    BY <2>0, WrittenTurn
  <2>1. t.d = e /\ t.ending = row.ending /\ t.year = YearOf[q] /\ t.stopped = s.stopped
    BY <2>3 DEF ending, last
  <2>2. WroteOn(t, s, a, q, crossed.d)
    BY <1>4, <1>7, <2>1 DEF WroteOn
  <2> QED
    BY <1>3, <2>2 DEF t
<1> QED
  BY <1>1, <1>5, <1>6, <1>7

-----------------------------------------------------------------------------
(* The loop that carries an account forward, turn by turn.                 *)

LEMMA WovenMore ==
  ASSUME NEW d, NEW X, NEW F, Woven(d, X, F), NEW Y, X \subseteq Y
  PROVE  Woven(d, Y, F)
<1>1. ASSUME NEW a, NEW q, Tied(d.tb, a, q, X, F) PROVE Tied(d.tb, a, q, Y, F)
  BY <1>1 DEF Tied
<1>2. Threaded(d.tb, d.periods, X, F) => Threaded(d.tb, d.periods, Y, F)
  BY <1>1 DEF Threaded
<1> QED
  BY <1>2 DEF Woven

\* A key in no period that exists need not be open.
LEMMA WovenLess ==
  ASSUME NEW d, NEW X, NEW F, NEW a, NEW q, Woven(d, X \cup {<<a, q>>}, F),
         q \in d.periods => Joined(d.tb, a, q)
  PROVE  Woven(d, X, F)
<1>1. ASSUME NEW b \in Accounts, NEW c \in d.periods
      PROVE  Tied(d.tb, b, c, X, F)
  <2>1. Tied(d.tb, b, c, X \cup {<<a, q>>}, F)
    BY DEF Woven, Threaded
  <2> QED
    BY <2>1 DEF Tied
<1> QED
  BY <1>1 DEF Woven, Threaded

\* The row a turn writes.
LEMMA TurnRowIs ==
  ASSUME NEW d, Base(d), NEW a, NEW p, NEW s, Carrying(s, d, a, p), NEW r,
         s.ending = s.d.tb[<<a, r>>].ending, s.year = YearOf[r]
  PROVE  LET row == TurnRow(s, a, r + 1)
         IN  /\ row \in TBRows /\ Even(row) /\ ~row.dirty
             /\ row.beginning = CarriedOn(s.d.tb, a, r) + row.yearend
<1> DEFINE k == <<a, r + 1>>
           row == TurnRow(s, a, r + 1)
           old == s.d.tb[k]
           carried == IF NewYear(s, a, r + 1) THEN 0 ELSE s.ending
           n == carried + old.yearend
<1>1. Begins(s, a, r)
  BY TurnBegins
<1>2. row.beginning = CarriedOn(s.d.tb, a, r) + row.yearend
  BY <1>1 DEF Begins
<1>3. row = (IF k \in DOMAIN s.d.tb THEN Row(n, old.debits, old.credits, old.yearend, FALSE)
             ELSE Row(carried, 0, 0, 0, FALSE))
  BY DEF TurnRow, CarriedRow, Rebased
<1>4. carried \in Int
  BY DEF Carrying
<1>5. k \in DOMAIN s.d.tb => old \in TBRows
  BY CarriedFields DEF Carrying, Base, TBTyped
<1> HIDE DEF k, row, old, carried
<1>6. CASE k \in DOMAIN s.d.tb
  <2>1. /\ n \in Int /\ old.debits \in Int /\ old.credits \in Int /\ old.yearend \in Int
    BY <1>4, <1>5, <1>6 DEF TBRows
  <2>2. row = Row(n, old.debits, old.credits, old.yearend, FALSE)
    BY <1>3, <1>6
  <2> HIDE DEF n
  <2>3. row \in TBRows /\ Even(row) /\ ~row.dirty
    BY ONLY <2>1, <2>2 DEF Row, TBRows, Even
  <2> QED
    BY <1>2, <2>3 DEF row
<1>7. CASE k \notin DOMAIN s.d.tb
  <2>1. row = Row(carried, 0, 0, 0, FALSE)
    BY <1>3, <1>7
  <2>2. row \in TBRows /\ Even(row) /\ ~row.dirty
    BY ONLY <1>4, <2>1 DEF Row, TBRows, Even
  <2> QED
    BY <1>2, <2>2 DEF row
<1> QED
  BY <1>6, <1>7

\* The loop over account a from slot p, after slot r: it goes on and the next
\* row is still to be carried into, or it ended and nothing is.
Going(s, a, r, X, F) ==
    /\ ~s.stopped /\ r \in s.d.periods /\ <<a, r>> \in DOMAIN s.d.tb
    /\ s.ending = s.d.tb[<<a, r>>].ending /\ s.year = YearOf[r]
    /\ Woven(s.d, X \cup {<<a, r + 1>>}, F)
Ended(s, r, X, F) == (s.stopped \/ r \notin s.d.periods) /\ Woven(s.d, X, F)
Tracking(s, d, a, p, r, X, F) ==
    /\ Carrying(s, d, a, p)
    /\ Going(s, a, r, X, F) \/ (r > p /\ Ended(s, r, X, F))
    /\ r > p /\ p + 1 \in s.d.periods => Joined(s.d.tb, a, p + 1)
    /\ s.d.tb[<<a, p>>].ending = d.tb[<<a, p>>].ending

\* What the turn of the year may leave for a turn that writes.
Weaves(t, s, a, q, X, F) ==
    \/ Idle(t, s, q)
    \/ Halted(t, s, a, q)
    \/ \E x : /\ Woven(x, X \cup {<<a, q>>}, F) /\ x.periods = s.d.periods
              /\ SameRows(s.d.tb, x.tb, a) /\ WroteOn(t, s, a, q, x)

LEMMA TrackWrote ==
  ASSUME NEW d, Base(d), NEW a \in Accounts, NEW p \in Int, NEW s, NEW r \in Int, r >= p,
         NEW X, NEW F,
         Tracking(s, d, a, p, r, X, F), Going(s, a, r, X, F), NEW t, Carrying(t, d, a, p),
         NEW x, Woven(x, X \cup {<<a, r + 1>>}, F), x.periods = s.d.periods,
         SameRows(s.d.tb, x.tb, a), WroteOn(t, s, a, r + 1, x)
  PROVE  Tracking(t, d, a, p, r + 1, X, F)
<1> DEFINE q == r + 1
           k == <<a, q>>
           j == <<a, r>>
           row == TurnRow(s, a, q)
           tb == s.d.tb
           e == t.d
           Y == X \cup {<<a, q + 1>>}
           Z == X \cup {k}
<1>0. q - 1 = r /\ q \in Int /\ q # r /\ q > p
  OBVIOUS
<1>1. Carrying(s, d, a, p)
  BY DEF Tracking
<1>2. /\ row \in TBRows /\ Even(row) /\ ~row.dirty
      /\ row.beginning = CarriedOn(tb, a, r) + row.yearend
  BY <1>1, TurnRowIs DEF Going
<1>3. /\ q \in x.periods /\ ~t.stopped /\ t.ending = row.ending /\ t.year = YearOf[q]
      /\ e = Write(x, k, row)
  BY DEF WroteOn
<1>4. IsDB(x) /\ Woven(x, Z, F)
  BY DEF Woven, Base
<1> HIDE DEF row, e
<1>5. OneRow(x.tb, e.tb, k, row)
  <2> HIDE DEF k
  <2> QED
    BY <1>3, <1>4, WriteOneRow
<1>6. Alike(x.tb, e.tb, a, r) /\ \A c : c # q => Alike(x.tb, e.tb, a, c)
  BY <1>0, <1>5, OneRowRest
<1>7. j \in DOMAIN e.tb /\ e.tb[j] = tb[j] /\ k \in DOMAIN e.tb /\ e.tb[k] = row
  BY <1>5, <1>6 DEF SameRows, Alike, Going, OneRow
<1>8. CarriedOn(tb, a, r) = IF Crosses(a, r) THEN 0 ELSE e.tb[j].ending
  BY <1>7 DEF CarriedOn
<1>9. Restarted(e.tb, a, q)
  <2> SUFFICES ASSUME j \notin DOMAIN e.tb \/ Crosses(a, r) PROVE row.beginning = row.yearend
    BY <1>0, <1>7 DEF Restarted
  <2> QED
    BY <1>2, <1>7, <1>8 DEF TBRows
<1>10. Joined(e.tb, a, q)
  BY <1>0, <1>2, <1>7, <1>8 DEF Joined
<1>11. Tied(e.tb, a, q, Y, F)
  BY <1>9, <1>10 DEF Tied
<1>12. Woven(e, Y, F) /\ e.periods = x.periods
  <2>1. <<a, q + 1>> \in Y /\ Z \subseteq Y \cup {k}
    OBVIOUS
  <2> HIDE DEF q, Y, Z
  <2> QED
    BY <1>2, <1>3, <1>4, <1>11, <2>1, WriteWoven
<1>13. Going(t, a, q, X, F)
  BY <1>3, <1>7, <1>12 DEF Going, e
<1>14. p + 1 \in e.periods => Joined(e.tb, a, p + 1)
  <2>1. CASE r = p
    BY <1>10, <2>1
  <2>2. CASE r # p
    <3>1. r > p /\ p + 1 - 1 = p /\ p + 1 # q /\ p # q
      BY <2>2
    <3>2. p + 1 \in e.periods => Joined(tb, a, p + 1)
      BY <1>12, <3>1 DEF Tracking
    <3>3. Alike(tb, e.tb, a, p + 1) /\ Alike(tb, e.tb, a, p + 1 - 1)
      BY <1>6, <3>1 DEF SameRows, Alike
    <3> QED
      BY <3>2, <3>3, JoinedAlike
  <2> QED
    BY <2>1, <2>2
<1>15. e.tb[<<a, p>>].ending = d.tb[<<a, p>>].ending
  <2>1. Alike(x.tb, e.tb, a, p) /\ Alike(tb, x.tb, a, p) /\ <<a, p>> \in DOMAIN tb
    BY <1>0, <1>1, <1>6 DEF SameRows, Carrying
  <2>2. tb[<<a, p>>].ending = d.tb[<<a, p>>].ending
    BY DEF Tracking
  <2> QED
    BY <2>1, <2>2 DEF Alike
<1>16. Carrying(t, d, a, p)
  OBVIOUS
<1> QED
  BY <1>13, <1>14, <1>15, <1>16 DEF Tracking, e

LEMMA TrackTurn ==
  ASSUME NEW d, Base(d), NEW a \in Accounts, NEW p \in Int, NEW s, NEW r \in Slots, r >= p,
         NEW X, NEW F,
         Tracking(s, d, a, p, r, X, F), NEW t, Carrying(t, d, a, p), Weaves(t, s, a, r + 1, X, F)
  PROVE  Tracking(t, d, a, p, r + 1, X, F)
<1> DEFINE q == r + 1
<1>0. r \in Int /\ q \in Int /\ q - 1 = r /\ q > p /\ q > r
  BY DEF Slots
<1>1. CASE Ended(s, r, X, F) /\ r > p
  <2>1. s.stopped \/ q \notin s.d.periods
    BY <1>0, <1>1 DEF Ended, Woven, Contiguous
  <2>2. \/ t = s
        \/ Halted(t, s, a, q) /\ t.d = s.d /\ t.stopped
    BY <2>1 DEF Weaves, Idle, Halted, WroteOn
  <2>3. t.d = s.d /\ (t.stopped \/ q \notin t.d.periods)
    BY <2>1, <2>2
  <2>4. p + 1 \in s.d.periods => Joined(s.d.tb, a, p + 1)
    BY <1>1 DEF Tracking
  <2> QED
    BY <1>0, <1>1, <2>3, <2>4 DEF Tracking, Ended
<1>2. CASE Going(s, a, r, X, F)
  <2>1. CASE Idle(t, s, q)
    <3>1. t = s /\ q \notin s.d.periods
      BY <1>2, <2>1 DEF Idle, Going
    <3>2. Woven(s.d, X, F)
      BY <1>2, <3>1, WovenLess DEF Going
    <3>3. p + 1 \in s.d.periods => r > p
      <4>1. CASE r = p
        BY <3>1, <4>1
      <4>2. CASE r # p
        BY <1>0, <4>2
      <4> QED
        BY <4>1, <4>2
    <3> QED
      BY <1>0, <3>1, <3>2, <3>3 DEF Tracking, Ended
  <2>2. CASE Halted(t, s, a, q)
    <3>1. t.d = s.d /\ t.stopped /\ Crosses(a, r)
      BY <1>2, <2>2 DEF Halted, NewYear, Crosses, Going
    <3>2. Joined(s.d.tb, a, q)
      BY <1>0, <3>1 DEF Joined
    <3>3. Woven(s.d, X, F)
      BY <1>2, <3>2, WovenLess DEF Going
    <3>4. p + 1 \in s.d.periods => Joined(s.d.tb, a, p + 1)
      <4>1. CASE r > p
        BY <4>1 DEF Tracking
      <4>2. CASE r = p
        BY <3>2, <4>2
      <4> QED
        BY <1>0, <4>1, <4>2
    <3> QED
      BY <1>0, <3>1, <3>3, <3>4 DEF Tracking, Ended
  <2>3. CASE \E x : /\ Woven(x, X \cup {<<a, q>>}, F) /\ x.periods = s.d.periods
                    /\ SameRows(s.d.tb, x.tb, a) /\ WroteOn(t, s, a, q, x)
    BY <1>0, <1>2, <2>3, TrackWrote
  <2> QED
    BY <2>1, <2>2, <2>3 DEF Weaves
<1> QED
  BY <1>1, <1>2 DEF Tracking

\* A row marked clean or dirty, written again.
LEMMA MarkedRow ==
  ASSUME NEW row \in TBRows, Even(row), NEW new, new = [row EXCEPT !.dirty = FALSE]
  PROVE  /\ new \in TBRows /\ Even(new) /\ ~new.dirty
         /\ new.beginning = row.beginning /\ new.yearend = row.yearend /\ new.ending = row.ending
BY DEF TBRows, Even

\* The next row goes on from a row that ends as it did.
LEMMA JoinedAfter ==
  ASSUME NEW tb, NEW ub, NEW a, NEW r \in Int, NEW row, OneRow(tb, ub, <<a, r>>, row),
         <<a, r>> \in DOMAIN tb, row.ending = tb[<<a, r>>].ending, Joined(tb, a, r + 1)
  PROVE  Joined(ub, a, r + 1)
<1>1. r + 1 - 1 = r /\ r + 1 # r
  OBVIOUS
<1>2. Alike(tb, ub, a, r + 1)
  BY <1>1, OneRowRest
<1>3. <<a, r>> \in DOMAIN ub /\ ub[<<a, r>>].ending = tb[<<a, r>>].ending
  BY DEF OneRow
<1> QED
  BY <1>1, <1>2, <1>3 DEF Joined, Alike

\* The loop begins with the row of slot p, and the next one open.
LEMMA TrackStart ==
  ASSUME NEW d, NEW X, NEW F, NEW a \in Accounts, NEW p \in Slots, <<a, p>> \in DOMAIN d.tb,
         Woven(d, X \cup {<<a, p + 1>>}, F)
  PROVE  Tracking(Start(d, a, p), d, a, p, p, X, F)
<1> DEFINE s == Start(d, a, p)
<1>1. Carrying(s, d, a, p)
  BY StartCarrying DEF Woven
<1>2. /\ s.d = d /\ ~s.stopped /\ s.ending = d.tb[<<a, p>>].ending /\ s.year = YearOf[p]
  BY DEF Start
<1>3. p \in d.periods
  <2> DEFINE k == <<a, p>>
  <2>1. k \in DOMAIN d.tb /\ k[2] = p
    OBVIOUS
  <2> HIDE DEF k
  <2> QED
    BY <2>1 DEF Woven, Within
<1> HIDE DEF s
<1>4. Going(s, a, p, X, F) /\ ~(p > p)
  BY <1>2, <1>3 DEF Going, Slots
<1>6. s.d.tb[<<a, p>>].ending = d.tb[<<a, p>>].ending
  BY <1>2
<1>5. Tracking(s, d, a, p, p, X, F)
  BY <1>1, <1>4, <1>6 DEF Tracking
<1> QED
  BY <1>5 DEF s

\* It goes on to the last slot.
LEMMA TrackLoop ==
  ASSUME NEW d, Base(d), NEW a \in Accounts, NEW p \in Slots, NEW n, n = NSlots - p, NEW g,
         NEW X, NEW F, Tracking(g[0], d, a, p, p, X, F),
         \A i \in 1..n : Carrying(g[i - 1], d, a, p) => Carrying(g[i], d, a, p),
         \A i \in 1..n : Tracking(g[i - 1], d, a, p, p + (i - 1), X, F)
                           => Weaves(g[i], g[i - 1], a, p + (i - 1) + 1, X, F)
  PROVE  Tracking(g[n], d, a, p, NSlots, X, F)
<1>0. n \in Nat /\ NSlots \in Nat /\ p \in Int /\ p \in 1..NSlots
  BY LaterSlots, LedgerAssumption DEF Slots
<1> DEFINE Z == {i \in 0..n : Tracking(g[i], d, a, p, p + i, X, F)}
<1>1. 0 \in Z
  <2>1. p + 0 = p /\ 0 \in 0..n
    BY <1>0
  <2> QED
    BY <2>1
<1>2. ASSUME NEW i \in 1..n, i - 1 \in Z PROVE i \in Z
  <2> DEFINE r == p + (i - 1)
             s == g[i - 1]
             t == g[i]
  <2>1. Tracking(s, d, a, p, r, X, F)
    BY <1>2
  <2>2. r \in Slots /\ r >= p /\ r + 1 = p + i /\ i \in 0..n
    BY <1>0 DEF Slots
  <2>3. Carrying(t, d, a, p)
    BY <2>1 DEF Tracking
  <2>4. Weaves(t, s, a, r + 1, X, F)
    BY <2>1
  <2> HIDE DEF r, s, t
  <2>5. Tracking(t, d, a, p, r + 1, X, F)
    BY <1>0, <2>1, <2>2, <2>3, <2>4, TrackTurn
  <2> QED
    BY <2>2, <2>5 DEF t
<1>3. n \in Z
  <2> HIDE DEF Z
  <2>1. \A i \in 0..n : i \in Z
    BY ONLY <1>0, <1>1, <1>2, Counting
  <2> QED
    BY <1>0, <2>1
<1>4. p + n = NSlots
  BY <1>0
<1> QED
  BY <1>3, <1>4

\* Then the row it began with is marked clean, unless the loop stopped.
LEMMA TrackFinish ==
  ASSUME NEW d, Base(d), NEW a \in Accounts, NEW p \in Slots, NEW s, NEW X, NEW F,
         Tracking(s, d, a, p, NSlots, X, F), NEW e, e = Finish(s, p)
  PROVE  /\ Woven(e, X, F) /\ e.periods = d.periods
         /\ p + 1 \in d.periods => Joined(e.tb, a, p + 1)
         /\ e.tb[<<a, p>>].ending = d.tb[<<a, p>>].ending
<1> DEFINE c == s.d
           k == <<a, p>>
           N == NSlots
<1>0. NSlots \in Nat /\ p \in Int /\ p <= NSlots /\ NSlots + 1 \notin Slots
  BY LedgerAssumption DEF Slots
<1>1. Carried(d, c) /\ k \in DOMAIN c.tb /\ s.accnt = a
  BY DEF Tracking, Carrying
<1>2. Base(c) /\ c.periods = d.periods /\ d.periods \subseteq Slots
  BY <1>1, CarriedFields DEF Base
<1>3. Woven(c, X, F)
  <2>1. CASE Going(s, a, NSlots, X, F)
    <3>1. Woven(c, X \cup {<<a, N + 1>>}, F) /\ N + 1 \notin c.periods
      BY <1>0, <1>2, <2>1 DEF Going
    <3> HIDE DEF c, N
    <3> QED
      BY <3>1, WovenLess
  <2>2. CASE Ended(s, NSlots, X, F)
    BY <2>2 DEF Ended
  <2> QED
    BY <2>1, <2>2 DEF Tracking
<1>4. p + 1 \in c.periods => Joined(c.tb, a, p + 1)
  <2>1. CASE p = NSlots
    BY <1>0, <1>2, <2>1
  <2>2. CASE p # NSlots
    BY <1>0, <2>2 DEF Tracking
  <2> QED
    BY <2>1, <2>2
<1>7. c.tb[k].ending = d.tb[k].ending
  BY DEF Tracking
<1>5. CASE s.stopped
  BY <1>2, <1>3, <1>4, <1>5, <1>7 DEF Finish
<1>6. CASE ~s.stopped
  <2> DEFINE old == c.tb[k]
             row == [old EXCEPT !.dirty = FALSE]
  <2>1. e = Write(c, k, row)
    BY <1>1, <1>6 DEF Finish
  <2>2. old \in TBRows /\ Even(old) /\ p \in c.periods /\ TBTyped(c.tb) /\ IsDB(c)
    <3>1. k[2] = p
      OBVIOUS
    <3> HIDE DEF k, c
    <3> QED
      BY <1>1, <1>2, <1>3, <3>1 DEF Woven, AllEven, Base, TBTyped, Within
  <2>3. row = [old EXCEPT !.dirty = FALSE] /\ old = c.tb[k]
    OBVIOUS
  <2> HIDE DEF row, c, old
  <2>4. /\ row \in TBRows /\ Even(row) /\ ~row.dirty
        /\ row.beginning = old.beginning /\ row.yearend = old.yearend /\ row.ending = old.ending
    BY <2>2, <2>3, MarkedRow
  <2>5. OneRow(c.tb, e.tb, k, row)
    <3> HIDE DEF k
    <3> QED
      BY <2>1, <2>2, WriteOneRow
  <2>6. SameStart(c.tb, k, row)
    BY <1>1, <2>3, <2>4 DEF SameStart
  <2>7. Tied(c.tb, a, p, X, F)
    BY <1>3, <2>2 DEF Woven, Threaded
  <2>8. Tied(e.tb, a, p, X, F)
    <3>1. <<a, p>> \in DOMAIN c.tb
      BY <1>1 DEF c
    <3> QED
      BY <1>0, <2>2, <2>4, <2>5, <2>6, <2>7, <3>1, SameStartLinks
  <2>9. p + 1 \in c.periods => Joined(e.tb, a, p + 1)
    BY <1>0, <1>1, <1>4, <2>3, <2>4, <2>5, JoinedAfter
  <2>10. X \subseteq X \cup {<<a, p>>}
    OBVIOUS
  <2>11. Woven(e, X, F) /\ e.periods = c.periods
    <3>1. X \subseteq X \cup {<<a, p>>} /\ a \in Accounts /\ e = Write(c, <<a, p>>, row)
      BY <2>1, <2>10
    <3>2. row \in TBRows /\ Even(row) /\ p \in c.periods
      BY <2>2, <2>4
    <3>3. p + 1 \in c.periods => row.dirty \/ Joined(e.tb, a, p + 1) \/ <<a, p + 1>> \in X
      BY <2>9
    <3> QED
      BY ONLY <1>3, <2>8, <3>1, <3>2, <3>3, WriteWoven
  <2>12. e.tb[k].ending = d.tb[k].ending
    BY <1>7, <2>3, <2>4, <2>5 DEF OneRow, c
  <2> QED
    BY <1>2, <2>9, <2>11, <2>12 DEF c
<1> QED
  BY <1>5, <1>6

\* Until a turn writes, the key it is about is open.
LEMMA TrackedOpen ==
  ASSUME NEW s, NEW d, NEW a, NEW p, NEW r, NEW X, NEW F, Tracking(s, d, a, p, r, X, F)
  PROVE  Woven(s.d, X \cup {<<a, r + 1>>}, F) /\ Carrying(s, d, a, p)
<1>1. CASE Going(s, a, r, X, F)
  BY <1>1 DEF Going, Tracking
<1>2. CASE Ended(s, r, X, F)
  <2>1. Woven(s.d, X, F) /\ X \subseteq X \cup {<<a, r + 1>>}
    BY <1>2 DEF Ended
  <2>2. Woven(s.d, X \cup {<<a, r + 1>>}, F)
    BY <2>1, WovenMore
  <2> QED
    BY <2>2 DEF Tracking
<1> QED
  BY <1>1, <1>2 DEF Tracking

\* The equity account's own loop.
LEMMA EquityWeaves ==
  ASSUME NEW d, NEW X, NEW F, NEW p \in Slots, <<YearEndEquityAccount, p>> \in DOMAIN d.tb,
         Woven(d, X \cup {<<YearEndEquityAccount, p + 1>>}, F),
         NEW e, e = Finish(FoldLeft(VisitEquity, Start(d, YearEndEquityAccount, p),
                                    SlotsAfter(p)), p)
  PROVE  Woven(e, X, F)
<1> DEFINE a == YearEndEquityAccount
           n == NSlots - p
           b == Start(d, a, p)
           s == SlotsAfter(p)
<1>0. a \in Accounts /\ Base(d)
  BY LedgerAssumption DEF Woven
<1>1. n \in Nat /\ DOMAIN s = 1..n
  BY LaterSlots
<1>2. \A i \in 1..n : s[i] = p + (i - 1) + 1
  <2>1. p \in Int
    BY DEF Slots
  <2> QED
    BY <2>1, SlotsAfterP
<1>3. Tracking(b, d, a, p, p, X, F)
  BY <1>0, TrackStart
<1>4. e = Finish(EquityLoop(b, s), p) /\ n = NSlots - p
  BY DEF EquityLoop
<1> HIDE DEF n, b, s, a
<1>5. PICK g : /\ g[0] = b /\ \A i \in 1..n : g[i] = VisitEquity(g[i - 1], s[i])
               /\ EquityLoop(b, s) = g[n]
  BY ONLY <1>1, EquityChain, SMTT(60)
<1>6. ASSUME NEW i \in 1..n, Carrying(g[i - 1], d, a, p) PROVE Carrying(g[i], d, a, p)
  BY <1>0, <1>5, <1>6, VisitEquityCarries
<1>7. ASSUME NEW i \in 1..n, Tracking(g[i - 1], d, a, p, p + (i - 1), X, F)
      PROVE  Weaves(g[i], g[i - 1], a, p + (i - 1) + 1, X, F)
  <2> DEFINE r == p + (i - 1)
             t == g[i - 1]
             u == g[i]
  <2>1. u = VisitEquity(t, r + 1) /\ Tracking(t, d, a, p, r, X, F)
    BY <1>2, <1>5, <1>7
  <2> HIDE DEF r, t, u
  <2>2. Woven(t.d, X \cup {<<a, r + 1>>}, F) /\ Carrying(t, d, a, p)
    BY <2>1, TrackedOpen
  <2>3. Idle(u, t, r + 1) \/ WroteOn(u, t, a, r + 1, t.d)
    BY <1>0, <2>1, <2>2, EquityGoes
  <2>4. SameRows(t.d.tb, t.d.tb, a)
    BY DEF SameRows, Alike
  <2>5. Weaves(u, t, a, r + 1, X, F)
    BY <2>2, <2>3, <2>4 DEF Weaves
  <2> QED
    BY <2>5 DEF r, t, u
<1>8. Tracking(g[n], d, a, p, NSlots, X, F)
  BY <1>0, <1>3, <1>4, <1>5, <1>6, <1>7, TrackLoop
<1>9. e = Finish(g[n], p) /\ p \in Slots
  BY <1>4, <1>5
<1> QED
  BY ONLY <1>0, <1>8, <1>9, TrackFinish

\* The retained earnings of a year.
LEMMA RetainWeaves ==
  ASSUME NEW d, NEW X, NEW F, Woven(d, X, F), NEW y
  PROVE  Woven(updateRetainedEarnings(d, y).d, X, F)
<1> DEFINE E == YearEndEquityAccount
           q == FirstSlot(y + 1)
           k == <<E, q>>
           old == d.tb[k]
           pl == ProfitLoss(d.gl, y)
           row == Row(old.beginning - old.yearend + pl, old.debits, old.credits, pl, old.dirty)
           w == Write(d, k, row)
           e == Finish(FoldLeft(VisitEquity, Start(w, E, q), SlotsAfter(q)), q)
           Y == X \cup {<<E, q + 1>>}
<1>0. Base(d) /\ E \in Accounts /\ TBTyped(d.tb) /\ d.periods \subseteq Slots
  BY LedgerAssumption DEF Woven, Base
<1>1. CASE ~CanRetain(d, y)
  BY <1>1 DEF updateRetainedEarnings
<1>2. CASE CanRetain(d, y)
  <2>1. updateRetainedEarnings(d, y).d = e
    BY <1>2 DEF updateRetainedEarnings
  <2>2. q \in d.periods /\ k \in DOMAIN d.tb
    BY <1>2 DEF CanRetain
  <2>3. pl \in Int
    BY <1>0, ProfitLossInt DEF Base
  <2>4. old \in TBRows /\ q \in Slots /\ q \in Int
    BY <1>0, <2>2 DEF TBTyped, Slots
  <2>5. w = Write(d, k, row) /\ k = <<E, q>> /\ old = d.tb[k] /\ <<E, q + 1>> \in Y
        /\ X \subseteq Y /\ Y = X \cup {<<E, q + 1>>}
        /\ e = Finish(FoldLeft(VisitEquity, Start(w, E, q), SlotsAfter(q)), q)
    OBVIOUS
  <2>6. row = Row(old.beginning - old.yearend + pl, old.debits, old.credits, pl, old.dirty)
    OBVIOUS
  <2> HIDE DEF k, pl, q, row, old, w, e, Y
  <2>7. row \in TBRows /\ Even(row) /\ row.beginning - row.yearend = old.beginning - old.yearend
    BY <2>3, <2>4, <2>6 DEF Row, TBRows, Even
  <2>8. SameStart(d.tb, k, row)
    BY <2>2, <2>5, <2>7 DEF SameStart
  <2>9. OneRow(d.tb, w.tb, k, row)
    BY <1>0, <2>5, WriteOneRow DEF Base
  <2>10. Tied(d.tb, E, q, X, F)
    BY <1>0, <2>2 DEF Woven, Threaded
  <2>11. Tied(w.tb, E, q, X, F)
    BY <1>0, <2>2, <2>4, <2>5, <2>7, <2>8, <2>9, <2>10, SameStartLinks
  <2>12. Tied(w.tb, E, q, Y, F)
    BY <2>5, <2>11 DEF Tied
  <2>13. Woven(w, Y, F)
    <3>1. X \subseteq Y \cup {<<E, q>>}
      BY <2>5
    <3> HIDE DEF E
    <3> QED
      BY <1>0, <2>2, <2>5, <2>7, <2>12, <3>1, WriteWoven
  <2>14. k \in DOMAIN w.tb
    BY <2>9 DEF OneRow
  <2>15. Woven(e, X, F)
    <3>1. Woven(w, X \cup {<<YearEndEquityAccount, q + 1>>}, F)
      BY <2>5, <2>13
    <3>2. <<YearEndEquityAccount, q>> \in DOMAIN w.tb
      BY <2>5, <2>14
    <3>3. e = Finish(FoldLeft(VisitEquity, Start(w, YearEndEquityAccount, q),
                              SlotsAfter(q)), q)
      BY <2>5
    <3> QED
      BY ONLY <2>4, <3>1, <3>2, <3>3, EquityWeaves
  <2> QED
    BY <2>1, <2>15
<1> QED
  BY <1>1, <1>2

-----------------------------------------------------------------------------
(* Carrying an account forward.                                            *)

LEMMA WovenSame ==
  ASSUME NEW d, NEW X, NEW F, Woven(d, X, F), NEW e, Base(e), e.tb = d.tb, e.periods = d.periods
  PROVE  Woven(e, X, F)
BY DEF Woven

\* A turn of the loop over any account, which may cross into a new year.
LEMMA PeriodWeaves ==
  ASSUME NEW d, Base(d), NEW a \in Accounts, NEW p, NEW s, NEW r, NEW X, NEW F,
         Tracking(s, d, a, p, r, X, F), NEW t, t = VisitPeriod(s, r + 1)
  PROVE  Weaves(t, s, a, r + 1, X, F)
<1> DEFINE q == r + 1
           Y == X \cup {<<a, q>>}
           c == s.d
<1>1. Woven(c, Y, F) /\ Carrying(s, d, a, p)
  BY TrackedOpen
<1>2. \/ Idle(t, s, q)
      \/ Halted(t, s, a, q)
      \/ \E x : Crossed(x, s, a) /\ WroteOn(t, s, a, q, x)
  BY <1>1, PeriodGoes
<1>3. ASSUME NEW x, Crossed(x, s, a)
      PROVE  Woven(x, Y, F) /\ x.periods = c.periods /\ SameRows(c.tb, x.tb, a)
  <2> DEFINE y == s.year
  <2>1. CASE x = c
    BY <1>1, <2>1 DEF SameRows, Alike
  <2>2. CASE a \in RevExp /\ x = updateRetainedEarnings(c, y).d
    <3> HIDE DEF c, Y, y
    <3>1. Base(c)
      BY <1>1 DEF Woven
    <3>2. Woven(x, Y, F)
      BY <1>1, <2>2, RetainWeaves
    <3>3. x.periods = c.periods
      <4>1. Carried(c, x)
        BY <2>2, <3>1, RetainCarries
      <4> QED
        BY <3>1, <4>1, CarriedFields
    <3>4. Spared(c.tb, x.tb, c.periods, YearEndEquityAccount, 0)
      BY <2>2, <3>1, RetainSpares
    <3>5. a # YearEndEquityAccount
      BY <2>2, LedgerAssumption
    <3>6. ASSUME NEW j PROVE Alike(c.tb, x.tb, a, j)
      <4>1. Apart(<<a, j>>, YearEndEquityAccount, 0)
        BY <3>5 DEF Apart
      <4> QED
        BY <3>4, <4>1 DEF Spared, Alike
    <3> QED
      BY <3>2, <3>3, <3>6 DEF SameRows
  <2> QED
    BY <1>3, <2>1, <2>2 DEF Crossed
<1> HIDE DEF q
<1>4. Weaves(t, s, a, q, X, F)
  BY <1>2, <1>3 DEF Weaves
<1> QED
  BY <1>4 DEF q

\* Carrying an account forward from slot p closes the key after it.
LEMMA ForwardWeaves ==
  ASSUME NEW d, NEW X, NEW F, NEW a \in Accounts, NEW p \in Slots, <<a, p>> \in DOMAIN d.tb,
         Woven(d, X \cup {<<a, p + 1>>}, F),
         NEW e, e = forwardUpdateTrialBalance(d, a, p)
  PROVE  /\ Woven(e, X, F) /\ e.periods = d.periods
         /\ p + 1 \in d.periods => Joined(e.tb, a, p + 1)
         /\ e.tb[<<a, p>>].ending = d.tb[<<a, p>>].ending
<1> DEFINE n == NSlots - p
           b == Start(d, a, p)
           s == SlotsAfter(p)
           x == Finish(PeriodLoop(b, s), p)
<1>0. Base(d)
  BY DEF Woven
<1>1. n \in Nat /\ DOMAIN s = 1..n
  BY LaterSlots
<1>2. \A i \in 1..n : s[i] = p + (i - 1) + 1
  <2>1. p \in Int
    BY DEF Slots
  <2> QED
    BY <2>1, SlotsAfterP
<1>3. Tracking(b, d, a, p, p, X, F)
  BY <1>0, TrackStart
<1>4. e = WithBalances(d, x) /\ n = NSlots - p
  BY DEF PeriodLoop, forwardUpdateTrialBalance
<1>9. x = Finish(PeriodLoop(b, s), p)
  OBVIOUS
<1> HIDE DEF n, b, s, x
<1>5. PICK g : /\ g[0] = b /\ \A i \in 1..n : g[i] = VisitPeriod(g[i - 1], s[i])
               /\ PeriodLoop(b, s) = g[n]
  BY ONLY <1>1, PeriodChain, SMTT(60)
<1>6. ASSUME NEW i \in 1..n, Carrying(g[i - 1], d, a, p) PROVE Carrying(g[i], d, a, p)
  BY <1>0, <1>5, <1>6, VisitPeriodCarries
<1>7. ASSUME NEW i \in 1..n, Tracking(g[i - 1], d, a, p, p + (i - 1), X, F)
      PROVE  Weaves(g[i], g[i - 1], a, p + (i - 1) + 1, X, F)
  <2> DEFINE r == p + (i - 1)
             t == g[i - 1]
             u == g[i]
  <2>1. u = VisitPeriod(t, r + 1) /\ Tracking(t, d, a, p, r, X, F)
    BY <1>2, <1>5, <1>7
  <2> HIDE DEF r, t, u
  <2>2. Weaves(u, t, a, r + 1, X, F)
    BY <1>0, <2>1, PeriodWeaves
  <2> QED
    BY <2>2 DEF r, t, u
<1>8. Tracking(g[n], d, a, p, NSlots, X, F)
  BY <1>0, <1>3, <1>4, <1>5, <1>6, <1>7, TrackLoop
<1>10. /\ Woven(x, X, F) /\ x.periods = d.periods
       /\ p + 1 \in d.periods => Joined(x.tb, a, p + 1)
       /\ x.tb[<<a, p>>].ending = d.tb[<<a, p>>].ending
  BY <1>0, <1>5, <1>8, <1>9, TrackFinish
<1>11. Base(e) /\ e.periods = d.periods
  <2>1. Carried(d, e)
    BY <1>0, ForwardCarries
  <2> QED
    BY <1>0, <2>1, CarriedFields
<1>12. e.tb = x.tb
  BY <1>0, <1>4, BalanceTables DEF Base
<1>13. Woven(e, X, F)
  BY <1>10, <1>11, <1>12, WovenSame
<1> QED
  BY <1>10, <1>11, <1>12, <1>13

\* A dirty row written, and its account carried forward if it should be.
LEMMA RowWeaves ==
  ASSUME NEW d, NEW X, NEW F, Woven(d, X, F), NEW a \in Accounts, NEW p \in Slots, p \in d.periods,
         NEW row \in TBRows, Even(row), row.dirty, SameStart(d.tb, <<a, p>>, row),
         <<a, p>> \in DOMAIN d.tb \/ p \notin F,
         NEW f, f = ForwardIfShould(Write(d, <<a, p>>, row), a, p)
  PROVE  Woven(f, X, F)
<1> DEFINE k == <<a, p>>
           w == Write(d, k, row)
           Y == X \cup {<<a, p + 1>>}
<1>0. Base(d) /\ IsDB(d) /\ TBTyped(d.tb) /\ p \in Int
  BY DEF Woven, Base, Slots
<1>1. OneRow(d.tb, w.tb, k, row)
  <2> HIDE DEF k
  <2> QED
    BY <1>0, WriteOneRow
<1>2. w = Write(d, <<a, p>>, row) /\ (f = w \/ f = forwardUpdateTrialBalance(w, a, p))
  BY DEF ForwardIfShould
<1> HIDE DEF w
<1>3. Tied(d.tb, a, p, X, F)
  BY DEF Woven, Threaded
<1>4. Tied(w.tb, a, p, X, F)
  BY <1>0, <1>1, <1>3, SameStartLinks
<1>5. Woven(w, X, F)
  <2>1. X \subseteq X \cup {<<a, p>>}
    OBVIOUS
  <2>2. p + 1 \in d.periods => row.dirty \/ Joined(w.tb, a, p + 1) \/ <<a, p + 1>> \in X
    OBVIOUS
  <2>3. Woven(d, X, F) /\ a \in Accounts /\ p \in d.periods /\ row \in TBRows /\ Even(row)
    OBVIOUS
  <2> QED
    BY ONLY <1>2, <1>4, <2>1, <2>2, <2>3, WriteWoven
<1>6. k \in DOMAIN w.tb
  BY <1>1 DEF OneRow
<1>7. Woven(w, Y, F)
  <2>1. X \subseteq Y
    OBVIOUS
  <2> HIDE DEF Y
  <2> QED
    BY <1>5, <2>1, WovenMore
<1>8. ASSUME f = forwardUpdateTrialBalance(w, a, p) PROVE Woven(f, X, F)
  BY <1>6, <1>7, <1>8, ForwardWeaves
<1> QED
  BY <1>2, <1>5, <1>8

-----------------------------------------------------------------------------
(* Postings and corrections of woven balances.                             *)

\* A turn of posting or of taking back, for a row of a period not fresh.
LEMMA TurnWeaves ==
  ASSUME NEW d, Lines(d.gl), NEW X, NEW F, Woven(d, X, F),
         NEW i \in DOMAIN d.gl, d.gl[i].period \in d.periods \ F, NEW e, RowTurn(d, e, i)
  PROVE  Lines(e.gl) /\ SameLines(d.gl, e.gl) /\ Woven(e, X, F) /\ e.periods = d.periods
         /\ DOMAIN d.tb \subseteq DOMAIN e.tb
<1> DEFINE a == d.gl[i].accnt
           p == d.gl[i].period
           k == <<a, p>>
<1>1. a \in Accounts /\ p \in Slots /\ p \in d.periods /\ p \notin F
  BY DEF Lines, IsLine
<1>2. Ledgered(d) /\ IsDB(d)
  BY DEF Woven, Ledgered, Base
<1>3. Stepped(d, e, {})
  <2> DEFINE none == {}
  <2>1. AllBefore(none, d.gl[i].period)
    BY DEF AllBefore
  <2>2. d.gl[i].period \in d.periods
    OBVIOUS
  <2> HIDE DEF none
  <2>3. Stepped(d, e, none)
    BY <1>2, <2>1, <2>2, TurnSteady
  <2> QED
    BY <2>3 DEF none
<1>4. PICK row, hl : Entered(d, k, row) /\ e = RowDone(d, a, p, row, hl)
  BY DEF RowTurn
<1>5. SameStart(d.tb, k, row) /\ row \in TBRows /\ Even(row) /\ row.dirty
  <2> HIDE DEF k
  <2>1. Write(d, k, row).tb[k] = row
    BY <1>2, WriteTable
  <2>2. row \in TBRows /\ Even(row) /\ row.dirty /\ BeginsAs(d.tb, Write(d, k, row).tb, k)
    BY <1>4 DEF Entered
  <2> QED
    BY <2>1, <2>2 DEF SameStart, BeginsAs
<1> DEFINE f == ForwardIfShould(Write(d, k, row), a, p)
<1>6. Woven(f, X, F)
  <2>1. f = ForwardIfShould(Write(d, <<a, p>>, row), a, p)
    OBVIOUS
  <2> HIDE DEF f, a, p
  <2> QED
    BY <1>1, <1>5, <2>1, RowWeaves
<1>7. e.tb = f.tb
  <2>1. e = [f EXCEPT !.gl = hl]
    BY <1>4 DEF RowDone
  <2> HIDE DEF f
  <2> QED
    BY <1>6, <2>1 DEF Woven, Base, IsDB
<1>8. f.periods = d.periods
  <2>1. f = ForwardIfShould(Write(d, <<a, p>>, row), a, p)
    OBVIOUS
  <2> HIDE DEF f, a, p
  <2> QED
    BY <1>1, <1>2, <1>5, <2>1, RowForwarded DEF Ledgered
<1> HIDE DEF f
<1>9. Ledgered(e) /\ SameLines(d.gl, e.gl) /\ e.periods = d.periods
      /\ DOMAIN d.tb \subseteq DOMAIN e.tb
  BY <1>3 DEF Stepped
<1>10. Woven(e, X, F)
  BY <1>6, <1>7, <1>8, <1>9, WovenSame DEF Ledgered
<1> QED
  BY <1>9, <1>10 DEF Ledgered

\* The row i of d is of a period that exists and is not fresh.
Dated(d, i, F) == i \in DOMAIN d.gl /\ d.gl[i].period \in d.periods \ F

\* From d to e: the ledger keeps its lines, and the balances are woven.
Plied(d, e, X, F) ==
    /\ Lines(e.gl) /\ SameLines(d.gl, e.gl) /\ Woven(e, X, F) /\ e.periods = d.periods
    /\ DOMAIN d.tb \subseteq DOMAIN e.tb

LEMMA PliedTwice ==
  ASSUME NEW d, NEW e, NEW f, NEW X, NEW F, Plied(d, e, X, F), Plied(e, f, X, F)
  PROVE  Plied(d, f, X, F)
<1>1. SameLines(d.gl, f.gl)
  BY DEF Plied, SameLines
<1> QED
  BY <1>1 DEF Plied

LEMMA StillDated ==
  ASSUME NEW d, NEW e, NEW X, NEW F, Plied(d, e, X, F), NEW i, Dated(d, i, F)
  PROVE  Dated(e, i, F) /\ (HasBalance(d, i) => HasBalance(e, i))
BY DEF Plied, SameLines, Dated, HasBalance

LEMMA PostLoopWeaves ==
  ASSUME NEW d, NEW X, NEW F, Lines(d.gl), Woven(d, X, F),
         NEW n, n \in Nat, NEW order, DOMAIN order = 1..n,
         \A i \in 1..n : Dated(d, order[i], F)
  PROVE  Plied(d, PostLoop(d, order), X, F)
<1>0. n \in Nat /\ DOMAIN order = 1..n
  OBVIOUS
<1>1. PICK g : /\ g[0] = d /\ \A i \in 1..n : g[i] = PostRow(g[i - 1], order[i])
               /\ PostLoop(d, order) = g[n]
  BY ONLY <1>0, PostChain, SMTT(60)
<1> DEFINE Z == {i \in 0..n : Plied(d, g[i], X, F)}
<1>2. 0 \in Z
  BY <1>1 DEF Plied, SameLines
<1>3. ASSUME NEW m \in 1..n, m - 1 \in Z PROVE m \in Z
  <2> DEFINE s == g[m - 1]
             u == g[m]
             i == order[m]
  <2>1. Plied(d, s, X, F) /\ u = PostRow(s, i) /\ Dated(d, i, F)
    BY <1>1, <1>3
  <2> HIDE DEF s, u, i
  <2>2. Dated(s, i, F) /\ Lines(s.gl) /\ Woven(s, X, F)
    BY <2>1, StillDated DEF Plied
  <2>3. RowTurn(s, u, i)
    <3>1. Ledgered(s) /\ i \in DOMAIN s.gl /\ s.gl[i].period \in s.periods
      BY <2>2 DEF Dated, Woven, Ledgered
    <3> QED
      BY <2>1, <3>1, PostRowIs
  <2>4. Plied(s, u, X, F)
    BY <2>2, <2>3, TurnWeaves DEF Plied, Dated
  <2>5. Plied(d, u, X, F)
    BY <2>1, <2>4, PliedTwice
  <2> QED
    BY <2>5 DEF u
<1>4. n \in Z
  <2> HIDE DEF Z
  <2>1. \A i \in 0..n : i \in Z
    BY ONLY <1>0, <1>2, <1>3, Counting
  <2> QED
    BY <2>1
<1> QED
  BY <1>1, <1>4

LEMMA UnpostLoopWeaves ==
  ASSUME NEW d, NEW X, NEW F, Lines(d.gl), Woven(d, X, F),
         NEW n, n \in Nat, NEW order, DOMAIN order = 1..n,
         \A i \in 1..n : Dated(d, order[i], F) /\ HasBalance(d, order[i])
  PROVE  Plied(d, UnpostLoop(d, order), X, F)
<1>0. n \in Nat /\ DOMAIN order = 1..n
  OBVIOUS
<1>1. PICK g : /\ g[0] = d /\ \A i \in 1..n : g[i] = UnpostRow(g[i - 1], order[i])
               /\ UnpostLoop(d, order) = g[n]
  BY ONLY <1>0, UnpostChain, SMTT(60)
<1> DEFINE Z == {i \in 0..n : Plied(d, g[i], X, F)}
<1>2. 0 \in Z
  BY <1>1 DEF Plied, SameLines
<1>3. ASSUME NEW m \in 1..n, m - 1 \in Z PROVE m \in Z
  <2> DEFINE s == g[m - 1]
             u == g[m]
             i == order[m]
  <2>1. Plied(d, s, X, F) /\ u = UnpostRow(s, i) /\ Dated(d, i, F) /\ HasBalance(d, i)
    BY <1>1, <1>3
  <2> HIDE DEF s, u, i
  <2>2. Dated(s, i, F) /\ HasBalance(s, i) /\ Lines(s.gl) /\ Woven(s, X, F)
    BY <2>1, StillDated DEF Plied
  <2>3. RowTurn(s, u, i)
    <3>1. /\ Ledgered(s) /\ i \in DOMAIN s.gl /\ s.gl[i].period \in s.periods
          /\ <<s.gl[i].accnt, s.gl[i].period>> \in DOMAIN s.tb
      BY <2>2 DEF Dated, Woven, Ledgered, HasBalance
    <3> QED
      BY <2>1, <3>1, UnpostRowIs
  <2>4. Plied(s, u, X, F)
    BY <2>2, <2>3, TurnWeaves DEF Plied, Dated
  <2>5. Plied(d, u, X, F)
    BY <2>1, <2>4, PliedTwice
  <2> QED
    BY <2>5 DEF u
<1>4. n \in Z
  <2> HIDE DEF Z
  <2>1. \A i \in 0..n : i \in Z
    BY ONLY <1>0, <1>2, <1>3, Counting
  <2> QED
    BY <2>1
<1> QED
  BY <1>1, <1>4

\* What is woven of the balances tb, over the periods pers.
Knit(tb, pers, X, F) ==
    Within(tb, pers) /\ Contiguous(pers) /\ AllEven(tb) /\ Threaded(tb, pers, X, F)

LEMMA WovenKnit ==
  ASSUME NEW d, NEW X, NEW F
  PROVE  Woven(d, X, F) <=> Base(d) /\ Knit(d.tb, d.periods, X, F)
BY DEF Woven, Knit

LEMMA PostingWeaves ==
  ASSUME NEW d, NEW X, NEW F, Lines(d.gl), Woven(d, X, F), NEW seqs, NEW priv,
         \A i \in Pending(d, seqs, priv) : d.gl[i].period \notin F,
         NEW e, e = postIntoTrialBalance(d, seqs, priv)
  PROVE  Knit(e.tb, d.periods, X, F)
<1> DEFINE ids == Pending(d, seqs, priv)
           order == InSequence(ids)
           m == Cardinality(ids)
           gl == [i \in DOMAIN d.gl |-> [d.gl[i] EXCEPT !.posted = @ \/ i \in ids]]
           s == PostLoop(d, order)
<1>1. e.tb = s.tb
  <2> DEFINE done == FoldLeft(PostRow, d, InSequence(ids))
  <2>1. e = [WithBalances(d, done) EXCEPT !.gl = gl] /\ IsDB(d)
    BY DEF postIntoTrialBalance, Woven, Base
  <2>2. done = s
    BY DEF PostLoop
  <2> HIDE DEF done, s, gl
  <2>3. e.tb = done.tb
    BY <2>1 DEF WithBalances, IsDB
  <2> QED
    BY <2>2, <2>3
<1>2. \A i \in ids : i \in DOMAIN d.gl /\ d.gl[i].period \in d.periods
  BY DEF Pending, Postable
<1>3. \A i \in ids : Dated(d, i, F)
  BY <1>2 DEF Dated
<1> HIDE DEF ids, gl, s, order, m
<1>4. IsSeq(d.gl) /\ ids \subseteq DOMAIN d.gl
  BY <1>2 DEF Lines
<1>5. /\ m \in Nat /\ DOMAIN order = 1..m
      /\ \A i \in 1..m : order[i] \in ids
  BY <1>4, OrderOf DEF order, m
<1>6. Plied(d, s, X, F)
  BY <1>3, <1>5, PostLoopWeaves DEF s
<1> QED
  BY <1>1, <1>6, WovenKnit DEF Plied

-----------------------------------------------------------------------------
(* Steps that post, correct, carry forward or delete.                      *)

\* The invariant: every clean row is carried into the next one.
WovenBooks == Knit(trialbal, periods, {}, {})

LEMMA WovenNow ==
  ASSUME Standing, WovenBooks
  PROVE  /\ Woven(DB, {}, {}) /\ Lines(DB.gl) /\ Base(DB)
         /\ DB.tb = trialbal /\ DB.periods = periods /\ DB.closed = closed /\ DB.gl = gltrans
<1>1. /\ DB.tb = trialbal /\ DB.periods = periods /\ DB.closed = closed /\ DB.gl = gltrans
      /\ Base(DB)
  BY Now DEF Standing
<1>2. Lines(DB.gl)
  BY <1>1, LedgerLines
<1>3. Woven(DB, {}, {})
  BY <1>1 DEF WovenBooks, Woven, Knit
<1> QED
  BY <1>1, <1>2, <1>3

\* A posting into the balances as they are.
LEMMA PostingKnits ==
  ASSUME Standing, BInv', WovenBooks, NEW d, Good(d), d.tb = trialbal, d.periods = periods,
         NEW seqs, NEW priv, NEW n, Commit(postIntoTrialBalance(d, seqs, priv), n)
  PROVE  WovenBooks'
<1> DEFINE e == postIntoTrialBalance(d, seqs, priv)
           none == {}
<1>1. gltrans' = e.gl /\ trialbal' = e.tb /\ periods' = e.periods
  BY DEF Commit
<1>2. e.periods = d.periods
  BY Posting
<1>3. GLTyped(gltrans') /\ TBTyped(trialbal) /\ periods \subseteq Slots
  BY Now DEF Standing, Books, Tallied, Base, BInv, DB, CalendarInv
<1>4. e = postIntoTrialBalance(d, seqs, priv)
  OBVIOUS
<1> HIDE DEF e
<1>5. Lines(d.gl)
  BY <1>1, <1>3, <1>4, PostedLines
<1>6. Base(d)
  BY <1>3, <1>5, LinesAreRows DEF Base, Good
<1>7. Knit(d.tb, d.periods, none, none)
  BY DEF WovenBooks
<1>8. \A i \in Pending(d, seqs, priv) : d.gl[i].period \notin none
  OBVIOUS
<1> HIDE DEF none
<1>9. Woven(d, none, none)
  BY <1>6, <1>7, WovenKnit
<1>10. Knit(e.tb, d.periods, none, none)
  BY <1>4, <1>5, <1>8, <1>9, PostingWeaves
<1> QED
  BY <1>1, <1>2, <1>10 DEF WovenBooks, none

LEMMA RoutineKnits ==
  ASSUME Standing, BInv', WovenBooks, Routine
  PROVE  WovenBooks'
<1>1. CASE UNCHANGED <<trialbal, periods, closed>>
  BY <1>1 DEF WovenBooks
<1>2. CASE \E d, seqs, priv, n : /\ AsIs(d) /\ Kept(gltrans, d.gl, closed)
                                 /\ Commit(postIntoTrialBalance(d, seqs, priv), n)
  <2>1. PICK d, seqs, priv, n : AsIs(d) /\ Commit(postIntoTrialBalance(d, seqs, priv), n)
    BY <1>2
  <2>2. Good(d) /\ d.tb = trialbal /\ d.periods = periods
    BY <2>1 DEF AsIs
  <2> QED
    BY <2>1, <2>2, PostingKnits
<1> QED
  BY <1>1, <1>2 DEF Routine

\* openAccountingPeriod posts into the period reopened.
LEMMA OpenKnits ==
  ASSUME Standing, BInv', WovenBooks, NEW p, NEW priv, OpenAccountingPeriod(p, priv)
  PROVE  WovenBooks'
<1> DEFINE left == DB.closed \ {p}
           d == [DB EXCEPT !.closed = left]
<1>1. Commit(postIntoTrialBalance(d, UnpostedIn(p), priv), sequence)
  BY DEF OpenAccountingPeriod, Reopen
<1>2. d = [DB EXCEPT !.closed = left]
  OBVIOUS
<1> HIDE DEF left, d
<1>3. Good(DB) /\ DB.periods = periods /\ DB.tb = trialbal
  BY DBGood DEF Standing
<1>4. SameLedger(DB, d) /\ d.periods = DB.periods
  BY <1>2, <1>3, ClosedReplaced DEF Good
<1>5. Good(d) /\ d.tb = trialbal /\ d.periods = periods
  BY <1>2, <1>3, <1>4, Flagging DEF SameLedger
<1> QED
  BY <1>1, <1>5, PostingKnits

\* deleteGlSeries takes rows back.
LEMMA DeleteSeriesKnits ==
  ASSUME Standing, WovenBooks, NEW seq, NEW priv, DeleteGLSeries(seq, priv)
  PROVE  WovenBooks'
<1> DEFINE none == {}
<1>1. PICK m, order : TakesBack(m, order)
  BY DeleteSeriesIs
<1>2. Woven(DB, none, none) /\ Lines(DB.gl) /\ DB.periods = periods
  BY WovenNow
<1> DEFINE done == UnpostLoop(DB, order)
<1>3. m \in Nat /\ DOMAIN order = 1..m
  BY <1>1 DEF TakesBack
<1>4. \A i \in 1..m : Dated(DB, order[i], none) /\ HasBalance(DB, order[i])
  BY <1>1 DEF TakesBack, Ripe, Dated
<1>5. trialbal' = done.tb /\ periods' = periods
  BY <1>1 DEF TakesBack
<1> HIDE DEF none
<1>6. Plied(DB, done, none, none)
  BY ONLY <1>2, <1>3, <1>4, UnpostLoopWeaves
<1> HIDE DEF done
<1>7. Knit(trialbal', periods', none, none)
  BY <1>2, <1>5, <1>6, WovenKnit DEF Plied
<1> QED
  BY <1>7 DEF WovenBooks, none

\* closeAccountingYearPeriod carries the equity account forward.
LEMMA CloseYearKnits ==
  ASSUME Standing, WovenBooks, NEW y, CloseAccountingYearPeriod(y)
  PROVE  WovenBooks'
<1> DEFINE none == {}
           x == updateRetainedEarnings(DB, y).d
<1>1. trialbal' = x.tb /\ periods' = periods
  BY CloseYearIs
<1>2. Woven(DB, none, none) /\ Base(DB) /\ DB.periods = periods
  BY WovenNow
<1>3. x = updateRetainedEarnings(DB, y).d
  OBVIOUS
<1> HIDE DEF none, x
<1>4. Woven(x, none, none)
  BY <1>2, <1>3, RetainWeaves
<1>5. x.periods = DB.periods
  <2>1. Carried(DB, x)
    BY <1>2, <1>3, RetainCarries
  <2> QED
    BY <1>2, <2>1, CarriedFields
<1>6. Knit(trialbal', periods', none, none)
  BY <1>1, <1>2, <1>4, <1>5, WovenKnit
<1> QED
  BY <1>6 DEF WovenBooks, none

\* The row inserted for an account that has none.
FirstRow == Row(0, 0, 0, 0, FALSE)

\* A new row that begins with nothing, of an account without rows.
LEMMA FirstRowWeaves ==
  ASSUME NEW d, NEW F, NEW none, none = {}, Woven(d, none, F),
         NEW a \in Accounts, NEW p \in d.periods,
         RowSlots(d, a) = {}, p \notin F, NEW row, row = FirstRow,
         NEW w, w = Write(d, <<a, p>>, row), NEW Y, Y = {<<a, p + 1>>}
  PROVE  Woven(w, Y, F) /\ w.periods = d.periods
<1> DEFINE k == <<a, p>>
<1>1. Base(d) /\ IsDB(d) /\ TBTyped(d.tb) /\ p \in Slots /\ p \in Int
  BY DEF Woven, Base, Slots
<1>2. row \in TBRows /\ Even(row) /\ row.beginning = 0 /\ row.yearend = 0
  BY DEF FirstRow, Row, TBRows, Even
<1>3. OneRow(d.tb, w.tb, k, row)
  <2>1. w = Write(d, k, row)
    OBVIOUS
  <2> HIDE DEF k
  <2> QED
    BY <1>1, <2>1, WriteOneRow
<1>4. k \notin DOMAIN d.tb
  BY <1>1 DEF RowSlots
<1>5. SameStart(d.tb, k, row)
  BY <1>2, <1>4 DEF SameStart
<1>6. Tied(d.tb, a, p, none, F) /\ Woven(d, none, F)
  BY DEF Woven, Threaded
<1>7. none \subseteq Y \cup {<<a, p>>} /\ <<a, p + 1>> \in Y /\ none \subseteq Y
  OBVIOUS
<1>8. Tied(w.tb, a, p, none, F)
  BY <1>1, <1>2, <1>3, <1>5, <1>6, SameStartLinks
<1>9. Tied(w.tb, a, p, Y, F)
  BY <1>7, <1>8 DEF Tied
<1>10. Woven(w, Y, F) /\ w.periods = d.periods
  <2>1. a \in Accounts /\ p \in d.periods /\ row \in TBRows /\ Even(row)
    BY <1>2
  <2>2. w = Write(d, <<a, p>>, row)
    OBVIOUS
  <2>3. p + 1 \in d.periods => row.dirty \/ Joined(w.tb, a, p + 1) \/ <<a, p + 1>> \in Y
    BY <1>7
  <2> QED
    BY ONLY <1>6, <1>7, <1>9, <2>1, <2>2, <2>3, WriteWoven
<1> QED
  BY <1>10

\* forwardUpdateAccount.
LEMMA ForwardKnits ==
  ASSUME Standing, WovenBooks, NEW a \in Accounts, ForwardUpdateAccount(a)
  PROVE  WovenBooks'
<1> DEFINE none == {}
<1>1. PICK p, w : ForwardsFrom(a, p, w)
  BY ForwardAccountIs
<1>2. Woven(DB, none, none) /\ Base(DB) /\ DB.periods = periods /\ DB.tb = trialbal
  BY WovenNow
<1> DEFINE e == forwardUpdateTrialBalance(w, a, p)
           next == {<<a, p + 1>>}
           row == Row(0, 0, 0, 0, FALSE)
<1>3. trialbal' = e.tb /\ periods' = e.periods /\ p \in periods /\ <<a, p>> \in DOMAIN w.tb
  BY <1>1 DEF ForwardsFrom
<1>4. \/ w = DB
      \/ RowSlots(DB, a) = {} /\ w = Write(DB, <<a, p>>, row)
  BY <1>1 DEF ForwardsFrom
<1>5. p \in Slots
  BY <1>2, <1>3 DEF Base
<1>6. e = forwardUpdateTrialBalance(w, a, p) /\ row = FirstRow
      /\ p \notin none /\ none \subseteq next
  BY DEF FirstRow
<1>7. Woven(w, none \cup {<<a, p + 1>>}, none) /\ w.periods = DB.periods
  <2>1. none \cup {<<a, p + 1>>} = next
    OBVIOUS
  <2> HIDE DEF row, e
  <2>2. CASE w = DB
    <3> HIDE DEF none, next
    <3>1. Woven(w, next, none)
      BY <1>2, <1>6, <2>2, WovenMore
    <3> QED
      BY <2>1, <2>2, <3>1
  <2>3. CASE RowSlots(DB, a) = {} /\ w = Write(DB, <<a, p>>, row)
    <3>1. p \in DB.periods /\ none = {} /\ next = {<<a, p + 1>>} /\ p \notin none
      BY <1>2, <1>3
    <3> HIDE DEF none, next
    <3> DEFINE d == DB
    <3>3. Woven(d, none, none) /\ a \in Accounts /\ p \in d.periods
      BY <1>2, <3>1
    <3>4. RowSlots(d, a) = {} /\ w = Write(d, <<a, p>>, row)
      BY <2>3
    <3> HIDE DEF d
    <3>5. Woven(w, next, none) /\ w.periods = d.periods
      BY ONLY <1>6, <3>1, <3>3, <3>4, FirstRowWeaves
    <3>2. Woven(w, next, none) /\ w.periods = DB.periods
      BY <3>5 DEF d
    <3> QED
      BY <2>1, <3>2
  <2> QED
    BY <1>4, <2>2, <2>3
<1> HIDE DEF none, e, next, row
<1>8. Woven(e, none, none) /\ e.periods = w.periods
  <2>1. e = forwardUpdateTrialBalance(w, a, p) /\ a \in Accounts /\ <<a, p>> \in DOMAIN w.tb
    BY <1>3, <1>6
  <2> QED
    BY ONLY <1>5, <1>7, <2>1, ForwardWeaves
<1>9. Knit(trialbal', periods', none, none)
  BY <1>3, <1>8, WovenKnit
<1> QED
  BY <1>9 DEF WovenBooks, none

\* deleteAccountingPeriod takes the rows of the last period.
LEMMA DeleteKnits ==
  ASSUME Standing, WovenBooks, NEW p, DeleteAccountingPeriod(p)
  PROVE  WovenBooks'
<1> DEFINE D == {j \in DOMAIN trialbal : j[2] # p}
           tb == [k \in D |-> trialbal[k]]
           pers == periods \ {p}
           none == {}
<1>1. /\ trialbal' = tb /\ periods' = pers /\ \A q \in periods : q <= p
  BY DEF DeleteAccountingPeriod, Removed, Commit, DB
<1>2. DOMAIN tb = D /\ \A k \in D : tb[k] = trialbal[k]
  OBVIOUS
<1> HIDE DEF tb
<1>3. /\ Within(trialbal, periods) /\ Contiguous(periods) /\ AllEven(trialbal)
      /\ Threaded(trialbal, periods, none, none) /\ periods \subseteq Int
  <2>1. periods \subseteq Int
    BY DEF Standing, CalendarInv, Slots
  <2> QED
    BY <2>1 DEF WovenBooks, Knit
<1>4. Within(tb, pers) /\ AllEven(tb)
  BY <1>2, <1>3 DEF Within, AllEven
<1>5. Contiguous(pers)
  <2> SUFFICES ASSUME NEW q \in pers, NEW r \in Slots, r < q PROVE r \in periods /\ r # p
    BY DEF Contiguous
  <2> QED
    BY <1>1, <1>3 DEF Contiguous, Slots
<1>6. Threaded(tb, pers, none, none)
  <2> SUFFICES ASSUME NEW a \in Accounts, NEW q \in pers PROVE Tied(tb, a, q, none, none)
    BY DEF Threaded
  <2>1. Tied(trialbal, a, q, none, none) /\ q # p /\ q - 1 # p
    BY <1>1, <1>3 DEF Threaded
  <2>2. Alike(trialbal, tb, a, q) /\ Alike(trialbal, tb, a, q - 1)
    BY <1>2, <2>1 DEF Alike
  <2> HIDE DEF none
  <2> QED
    BY <2>1, <2>2, LinkAlike
<1>7. Knit(trialbal', periods', none, none)
  BY <1>1, <1>4, <1>5, <1>6 DEF Knit
<1> QED
  BY <1>7 DEF WovenBooks, none

-----------------------------------------------------------------------------
(* Closing a period carries every account into the next one.               *)

LEMMA NextRowTyped ==
  ASSUME NEW x, TBTyped(x.tb), NEW a, NEW p, NEW ending \in Int,
         NEW row, row = NextOf(x, a, p, ending)
  PROVE  /\ row \in TBRows /\ Even(row)
         /\ <<a, p + 1>> \notin DOMAIN x.tb => row.dirty
         /\ <<a, p + 1>> \in DOMAIN x.tb =>
              row.dirty = x.tb[<<a, p + 1>>].dirty /\ row.yearend = x.tb[<<a, p + 1>>].yearend
              /\ row.debits = x.tb[<<a, p + 1>>].debits
              /\ row.credits = x.tb[<<a, p + 1>>].credits
<1> DEFINE next == <<a, p + 1>>
           carried == IF Crosses(a, p) THEN 0 ELSE ending
           old == x.tb[next]
           n == carried + old.yearend
           yes == TRUE
<1>1. row = IF next \in DOMAIN x.tb THEN Rebased(old, n, old.dirty)
            ELSE Row(carried, 0, 0, 0, yes)
  BY DEF NextOf
<1>2. carried \in Int /\ yes = TRUE
  OBVIOUS
<1>3. next \in DOMAIN x.tb => old \in TBRows
  BY DEF TBTyped
<1> HIDE DEF carried, old, next
<1>4. CASE next \in DOMAIN x.tb
  <2>1. /\ n \in Int /\ old.debits \in Int /\ old.credits \in Int /\ old.yearend \in Int
        /\ old.dirty \in BOOLEAN
    BY <1>2, <1>3, <1>4 DEF TBRows
  <2> HIDE DEF n, yes
  <2>2. row = Row(n, old.debits, old.credits, old.yearend, old.dirty)
    BY <1>1, <1>4 DEF Rebased
  <2>3. row \in TBRows /\ Even(row) /\ row.dirty = old.dirty /\ row.yearend = old.yearend
        /\ row.debits = old.debits /\ row.credits = old.credits
    BY ONLY <2>1, <2>2 DEF Row, TBRows, Even
  <2> QED
    BY <1>4, <2>3 DEF next, old
<1>5. CASE next \notin DOMAIN x.tb
  <2> HIDE DEF n, yes
  <2>1. row = Row(carried, 0, 0, 0, yes)
    BY <1>1, <1>5
  <2>2. row \in TBRows /\ Even(row) /\ row.dirty
    BY ONLY <1>2, <2>1 DEF Row, TBRows, Even
  <2> QED
    BY <1>5, <2>2 DEF next
<1> QED
  BY <1>4, <1>5

\* The row of slot p is settled; only the next one is still to be written.
LEMMA SettlingWeaves ==
  ASSUME NEW d, NEW none, none = {}, Woven(d, none, none), NEW a \in Accounts,
         NEW p \in Slots, p \in d.periods, NEW next, next = {<<a, p + 1>>},
         NEW x, x = Settling(d, a, p)
  PROVE  /\ Woven(x, next, none) /\ x.periods = d.periods
         /\ <<a, p>> \in DOMAIN x.tb /\ x.tb[<<a, p>>].ending = EndingAt(d, a, p)
         /\ EndingAt(d, a, p) \in Int
         /\ p + 1 \in d.periods /\ <<a, p + 1>> \in DOMAIN x.tb => Joined(x.tb, a, p + 1)
<1> DEFINE k == <<a, p>>
<1>0. Base(d) /\ IsDB(d) /\ TBTyped(d.tb) /\ p \in Int /\ p \notin none
  BY DEF Woven, Base, Slots
<1>1. PICK w, row : SettledBy(d, w, row, a, p)
  BY <1>0, SettlingParts
<1>2. /\ w = Write(d, <<a, p>>, row) /\ row \in TBRows /\ Even(row) /\ ~row.dirty
      /\ row.ending = EndingAt(d, a, p) /\ BeginsAs(d.tb, w.tb, k)
      /\ IF k \in DOMAIN d.tb THEN x = forwardUpdateTrialBalance(w, a, p) ELSE x = w
  BY <1>1 DEF SettledBy
<1>3. OneRow(d.tb, w.tb, k, row)
  <2> HIDE DEF k
  <2>1. w = Write(d, k, row)
    BY <1>2 DEF k
  <2> QED
    BY <1>0, <2>1, WriteOneRow
<1>4. k \in DOMAIN w.tb /\ w.tb[k] = row
  BY <1>3 DEF OneRow
<1>5. SameStart(d.tb, <<a, p>>, row)
  BY <1>2, <1>4 DEF SameStart, BeginsAs
<1>6. Tied(w.tb, a, p, none, none)
  <2>1. Tied(d.tb, a, p, none, none)
    BY DEF Woven, Threaded
  <2> QED
    BY <1>0, <1>2, <1>3, <1>5, <2>1, SameStartLinks
<1>7. Tied(w.tb, a, p, next, none) /\ none \subseteq next \cup {<<a, p>>} /\ <<a, p + 1>> \in next
  BY <1>6 DEF Tied
<1>8. Woven(w, next, none) /\ w.periods = d.periods
  <2>1. p + 1 \in d.periods => row.dirty \/ Joined(w.tb, a, p + 1) \/ <<a, p + 1>> \in next
    BY <1>7
  <2>2. Woven(d, none, none) /\ a \in Accounts /\ p \in d.periods
    OBVIOUS
  <2> QED
    BY ONLY <1>2, <1>7, <2>1, <2>2, WriteWoven
<1>9. EndingAt(d, a, p) \in Int
  BY <1>2 DEF TBRows
<1>10. CASE k \in DOMAIN d.tb
  <2>1. x = forwardUpdateTrialBalance(w, a, p) /\ none \cup {<<a, p + 1>>} = next
    BY <1>2, <1>10
  <2>2. Woven(w, none \cup {<<a, p + 1>>}, none) /\ a \in Accounts /\ p \in Slots
        /\ <<a, p>> \in DOMAIN w.tb
    BY <1>4, <1>8, <2>1
  <2>3. /\ Woven(x, none, none) /\ x.periods = w.periods
        /\ p + 1 \in w.periods => Joined(x.tb, a, p + 1)
        /\ x.tb[<<a, p>>].ending = w.tb[<<a, p>>].ending
    BY ONLY <2>1, <2>2, ForwardWeaves
  <2>4. Woven(x, next, none)
    <3>1. none \subseteq next
      BY <1>7
    <3> QED
      BY <2>3, <3>1, WovenMore
  <2>5. <<a, p>> \in DOMAIN x.tb
    <3>1. Carried(w, x)
      BY <1>4, <1>8, <2>1, ForwardCarries DEF Woven
    <3> QED
      BY <1>4, <3>1 DEF Carried
  <2> QED
    BY <1>2, <1>4, <1>8, <1>9, <2>3, <2>4, <2>5
<1>11. CASE k \notin DOMAIN d.tb
  <2>1. x = w /\ row.ending = 0
    BY <1>2, <1>11 DEF EndingAt
  <2>2. ASSUME p + 1 \in d.periods, <<a, p + 1>> \in DOMAIN x.tb PROVE Joined(x.tb, a, p + 1)
    <3> DEFINE j == <<a, p + 1>>
    <3>1. (p + 1) - 1 = p /\ p + 1 # p
      BY <1>0
    <3>2. Alike(d.tb, w.tb, a, p + 1)
      BY <1>3, <3>1, OneRowRest
    <3>3. Restarted(d.tb, a, p + 1)
      BY <2>2 DEF Woven, Threaded, Tied
    <3>4. j \in DOMAIN d.tb /\ w.tb[j] = d.tb[j]
      BY <2>1, <2>2, <3>2 DEF Alike
    <3>5. d.tb[j].beginning = d.tb[j].yearend /\ d.tb[j].yearend \in Int
      BY <1>0, <1>11, <3>1, <3>3, <3>4 DEF Restarted, TBTyped, TBRows
    <3>6. x.tb[j].beginning = x.tb[k].ending + x.tb[j].yearend
      <4> HIDE DEF j, k
      <4> QED
        BY <1>4, <2>1, <3>4, <3>5
    <3> QED
      BY <2>2, <3>1, <3>6 DEF Joined
  <2> QED
    BY <1>2, <1>4, <1>8, <1>9, <2>1, <2>2
<1> QED
  BY <1>10, <1>11

\* An account's turn.
LEMMA CloseWeaves ==
  ASSUME NEW d, NEW none, none = {}, Woven(d, none, none), NEW a \in Accounts,
         NEW p \in Slots, p \in d.periods, p + 1 \in d.periods,
         NEW e, e = CloseAccount(d, <<a, p>>)
  PROVE  Woven(e, none, none) /\ e.periods = d.periods
<1> DEFINE x == Settling(d, a, p)
           ending == EndingAt(d, a, p)
           row == NextOf(x, a, p, ending)
           next == {<<a, p + 1>>}
           q == p + 1
           old == x.tb[<<a, p + 1>>]
<1>1. e = Write(x, <<a, p + 1>>, row)
  BY CloseParts
<1>2. x = Settling(d, a, p) /\ next = {<<a, p + 1>>} /\ row = NextOf(x, a, p, ending)
      /\ ending = EndingAt(d, a, p) /\ old = x.tb[<<a, p + 1>>]
  OBVIOUS
<1> HIDE DEF x, next, row, ending, old
<1>3. /\ Woven(x, next, none) /\ x.periods = d.periods
      /\ <<a, p>> \in DOMAIN x.tb /\ x.tb[<<a, p>>].ending = ending /\ ending \in Int
      /\ <<a, p + 1>> \in DOMAIN x.tb => Joined(x.tb, a, p + 1)
  BY <1>2, SettlingWeaves
<1>4. Base(x) /\ IsDB(x) /\ TBTyped(x.tb) /\ p \in Int /\ q \in Int /\ q - 1 = p /\ q # p
      /\ (q + 1) - 1 = q /\ q + 1 # q
  BY <1>3 DEF Woven, Base, Slots
<1>5. NextRowIs(x, a, p, ending, row)
  BY <1>2, <1>3, NextOfIs
<1>6. /\ row \in TBRows /\ Even(row)
      /\ <<a, p + 1>> \notin DOMAIN x.tb => row.dirty
      /\ <<a, p + 1>> \in DOMAIN x.tb =>
           row.dirty = old.dirty /\ row.yearend = old.yearend
           /\ row.debits = old.debits /\ row.credits = old.credits
  BY <1>2, <1>3, <1>4, NextRowTyped
<1>7. OneRow(x.tb, e.tb, <<a, p + 1>>, row)
  <2> DEFINE k == <<a, p + 1>>
  <2>1. e = Write(x, k, row)
    BY <1>1
  <2> HIDE DEF k
  <2>2. OneRow(x.tb, e.tb, k, row)
    BY <1>4, <2>1, WriteOneRow
  <2> QED
    BY <2>2 DEF k
<1>8. /\ <<a, p>> \in DOMAIN e.tb /\ e.tb[<<a, p>>].ending = ending
      /\ <<a, q>> \in DOMAIN e.tb /\ e.tb[<<a, q>>] = row
  <2>1. Alike(x.tb, e.tb, a, p)
    BY <1>4, <1>7, OneRowRest
  <2> QED
    BY <1>3, <1>7, <2>1 DEF Alike, OneRow
<1>9. row.beginning = (IF Crosses(a, p) THEN 0 ELSE ending) + row.yearend /\ row.yearend \in Int
  BY <1>5, <1>6 DEF NextRowIs, TBRows
<1>10. Tied(e.tb, a, q, none, none)
  <2>1. Restarted(e.tb, a, q)
    BY <1>4, <1>8, <1>9 DEF Restarted
  <2>2. Joined(e.tb, a, q)
    BY <1>4, <1>8, <1>9 DEF Joined
  <2> QED
    BY <2>1, <2>2 DEF Tied
<1>11. ASSUME q + 1 \in d.periods PROVE row.dirty \/ Joined(e.tb, a, q + 1)
  <2>1. CASE <<a, q>> \notin DOMAIN x.tb
    BY <1>6, <2>1
  <2>2. CASE <<a, q>> \in DOMAIN x.tb
    <3>1. Joined(x.tb, a, q) /\ old = x.tb[<<a, q>>] /\ Tied(x.tb, a, q + 1, next, none)
          /\ Tied(x.tb, a, q, next, none) /\ <<a, q + 1>> \notin next /\ Even(old)
      BY <1>2, <1>3, <1>4, <1>11, <2>2 DEF Woven, Threaded, AllEven
    <3>2. CASE Stale(x.tb, a, q)
      BY <1>6, <2>2, <3>1, <3>2 DEF Stale
    <3>3. CASE Joined(x.tb, a, q + 1)
      <4>1. old.beginning = (IF Crosses(a, p) THEN 0 ELSE ending) + old.yearend
        <5>1. old.yearend \in Int
          BY <1>4, <2>2, <3>1 DEF TBTyped, TBRows
        <5>2. CASE Crosses(a, p)
          <6>1. Restarted(x.tb, a, q)
            BY <3>1 DEF Tied
          <6> QED
            BY <1>4, <2>2, <3>1, <5>1, <5>2, <6>1 DEF Restarted
        <5>3. CASE ~Crosses(a, p)
          BY <1>3, <1>4, <3>1, <5>3 DEF Joined
        <5> QED
          BY <5>2, <5>3
      <4>2. row.beginning = old.beginning
        BY <1>6, <1>9, <2>2, <4>1
      <4>3. row.ending = old.ending
        BY <1>6, <2>2, <3>1, <4>2 DEF Even
      <4> QED
        BY <1>4, <1>7, <2>2, <3>1, <3>3, <4>3, JoinedAfter
    <3> QED
      BY <1>4, <3>1, <3>2, <3>3 DEF Tied
  <2> QED
    BY <2>1, <2>2
<1>12. Woven(e, none, none) /\ e.periods = x.periods
  <2>1. a \in Accounts /\ q \in x.periods /\ e = Write(x, <<a, q>>, row)
        /\ next \subseteq none \cup {<<a, q>>}
    BY <1>1, <1>2, <1>3
  <2>2. q + 1 \in x.periods => row.dirty \/ Joined(e.tb, a, q + 1) \/ <<a, q + 1>> \in none
    BY <1>3, <1>11
  <2> HIDE DEF q
  <2> QED
    BY ONLY <1>3, <1>6, <1>10, <2>1, <2>2, WriteWoven
<1> QED
  BY <1>3, <1>12

LEMMA CloseLoopWeaves ==
  ASSUME NEW d, NEW none, none = {}, Woven(d, none, none), NEW p \in Slots, p \in d.periods,
         p + 1 \in d.periods, NEW n \in Nat, \A i \in 1..n : AccountOrder[i] \in Accounts,
         NEW s, DOMAIN s = 1..n, \A i \in 1..n : s[i] = <<AccountOrder[i], p>>
  PROVE  Woven(CloseLoop(d, s), none, none) /\ CloseLoop(d, s).periods = d.periods
<1>0. n \in Nat /\ DOMAIN s = 1..n
  OBVIOUS
<1>1. PICK g : /\ g[0] = d /\ \A i \in 1..n : g[i] = CloseAccount(g[i - 1], s[i])
               /\ CloseLoop(d, s) = g[n]
  BY ONLY <1>0, CloseChain, SMTT(60)
<1> DEFINE Z == {i \in 0..n : Woven(g[i], none, none) /\ g[i].periods = d.periods}
<1>2. 0 \in Z
  BY <1>1
<1>3. ASSUME NEW i \in 1..n, i - 1 \in Z PROVE i \in Z
  <2> DEFINE c == g[i - 1]
             e == g[i]
             a == AccountOrder[i]
  <2>1. /\ Woven(c, none, none) /\ c.periods = d.periods /\ e = CloseAccount(c, <<a, p>>)
        /\ a \in Accounts
    BY <1>1, <1>3
  <2> HIDE DEF c, e, a
  <2>2. Woven(e, none, none) /\ e.periods = c.periods
    BY <2>1, CloseWeaves
  <2> QED
    BY <2>1, <2>2 DEF e
<1>4. n \in Z
  <2> HIDE DEF Z
  <2>1. \A i \in 0..n : i \in Z
    BY ONLY <1>0, <1>2, <1>3, Counting
  <2> QED
    BY <2>1
<1> QED
  BY <1>1, <1>4

\* closeAccountingPeriod.
LEMMA CloseKnits ==
  ASSUME Standing, WovenBooks, NEW p \in Slots, CloseAccountingPeriod(p)
  PROVE  WovenBooks'
<1> DEFINE n == Len(AccountOrder)
           s == [i \in DOMAIN AccountOrder |-> <<AccountOrder[i], p>>]
           x == CloseLoop(DB, s)
           b == WithBalances(DB, x)
           v == b.closed \cup {p}
           e == [b EXCEPT !.closed = v]
           none == {}
<1>1. Commit(e, sequence) /\ p \in periods /\ p + 1 \in periods
  BY DEF CloseAccountingPeriod, CloseLoop
<1>2. n \in Nat /\ DOMAIN AccountOrder = 1..n /\ \A i \in 1..n : AccountOrder[i] \in Accounts
  BY LedgerAssumption
<1>3. DOMAIN s = 1..n /\ \A i \in 1..n : s[i] = <<AccountOrder[i], p>>
  BY <1>2
<1>4. Woven(DB, none, none) /\ DB.periods = periods /\ IsDB(DB)
  BY WovenNow DEF Base
<1>5. none = {} /\ b = WithBalances(DB, x) /\ e = [b EXCEPT !.closed = v]
  OBVIOUS
<1>6. x = CloseLoop(DB, s)
  OBVIOUS
<1> HIDE DEF n, s, x, none, b, v, e
<1>7. Woven(x, none, none) /\ x.periods = periods
  BY <1>1, <1>2, <1>3, <1>4, <1>5, <1>6, CloseLoopWeaves
<1>8. IsDB(b) /\ b.tb = x.tb /\ b.periods = DB.periods
  BY <1>4, <1>5, BalanceTables
<1>9. e.tb = b.tb /\ e.periods = b.periods
  BY <1>5, <1>8 DEF IsDB
<1>10. trialbal' = x.tb /\ periods' = periods
  BY <1>1, <1>4, <1>8, <1>9 DEF Commit
<1>11. Knit(trialbal', periods', none, none)
  BY <1>7, <1>10, WovenKnit
<1> QED
  BY <1>11, <1>5 DEF WovenBooks

-----------------------------------------------------------------------------
(* A period created is carried into by every account.                      *)

\* The keys of period p that are still to be carried into after m turns of
\* the loop over the rows s.
Waiting(tb, p, s, m) ==
    {k \in DOMAIN tb : /\ k[2] = p - 1 /\ <<k[1], p>> \notin DOMAIN tb
                       /\ \A j \in 1..m : s[j][1] # k[1]}
Wanted(tb, p, s, m) == {<<k[1], p>> : k \in Waiting(tb, p, s, m)}

LEMMA WantedKey ==
  ASSUME NEW tb, NEW p, NEW s, NEW m, NEW a, <<a, p - 1>> \in DOMAIN tb,
         <<a, p>> \notin DOMAIN tb, \A j \in 1..m : s[j][1] # a
  PROVE  <<a, p>> \in Wanted(tb, p, s, m)
<1> DEFINE k == <<a, p - 1>>
<1>1. k[1] = a /\ k[2] = p - 1 /\ k \in DOMAIN tb
  OBVIOUS
<1> HIDE DEF k
<1>2. k \in Waiting(tb, p, s, m)
  BY <1>1 DEF Waiting
<1> QED
  BY <1>1, <1>2 DEF Wanted

LEMMA KeyWanted ==
  ASSUME NEW tb, TBTyped(tb), NEW p, NEW s, NEW m, NEW j \in Wanted(tb, p, s, m)
  PROVE  /\ j[1] \in Accounts /\ j = <<j[1], p>> /\ <<j[1], p - 1>> \in DOMAIN tb
         /\ j \notin DOMAIN tb /\ \A i \in 1..m : s[i][1] # j[1]
<1>1. PICK k \in Waiting(tb, p, s, m) : j = <<k[1], p>>
  BY DEF Wanted
<1>2. k \in Keys /\ k \in DOMAIN tb /\ k[2] = p - 1 /\ <<k[1], p>> \notin DOMAIN tb
      /\ \A i \in 1..m : s[i][1] # k[1]
  BY <1>1 DEF Waiting, TBTyped
<1>3. k = <<k[1], k[2]>> /\ k[1] \in Accounts
  BY <1>2 DEF Keys
<1>4. j[1] = k[1]
  BY <1>1
<1> QED
  BY <1>1, <1>2, <1>3, <1>4

\* The keys a new period leaves open.
LEMMA FreshWaits ==
  ASSUME NEW d, NEW p \in Int, NEW none, none = {}, NEW fresh, fresh = {p},
         Woven(d, none, fresh), NEW s
  PROVE  Woven(d, Wanted(d.tb, p, s, 0), none)
<1> DEFINE X == Wanted(d.tb, p, s, 0)
<1>1. ASSUME NEW a \in Accounts, NEW q \in d.periods PROVE Tied(d.tb, a, q, X, none)
  <2>1. Tied(d.tb, a, q, none, fresh)
    BY DEF Woven, Threaded
  <2>2. CASE q \in fresh /\ <<a, q>> \notin DOMAIN d.tb
    <3>1. q = p
      BY <2>2
    <3>2. CASE <<a, p - 1>> \in DOMAIN d.tb
      <4>1. \A j \in 1..0 : s[j][1] # a
        OBVIOUS
      <4>2. <<a, q>> \in X
        BY <2>2, <3>1, <3>2, <4>1, WantedKey
      <4> HIDE DEF X
      <4> QED
        BY <2>1, <4>2 DEF Tied
    <3>3. CASE <<a, p - 1>> \notin DOMAIN d.tb
      <4>1. Joined(d.tb, a, q)
        BY <3>1, <3>3 DEF Joined
      <4> HIDE DEF X
      <4> QED
        BY <2>1, <4>1 DEF Tied
    <3> QED
      BY <3>2, <3>3
  <2>3. CASE ~(q \in fresh /\ <<a, q>> \notin DOMAIN d.tb)
    <3> HIDE DEF X
    <3> QED
      BY <2>1, <2>3 DEF Tied
  <2> QED
    BY <2>2, <2>3
<1> HIDE DEF X
<1>2. Woven(d, X, none)
  BY <1>1 DEF Woven, Threaded
<1> QED
  BY <1>2 DEF X

\* An account is carried forward from its last row: k is the n-th of s.
FromLast(d, k) == k \in DOMAIN d.tb /\ \A r \in RowSlots(d, k[1]) : r <= k[2]

\* The turn for row k carries into the key its account waits for.
LEMMA WantedShrinks ==
  ASSUME NEW d, Base(d), NEW p \in Int, Within(d.tb, d.periods), \A q \in d.periods : q <= p,
         NEW s, NEW m \in Nat, NEW n, n = m + 1, FromLast(d, s[n])
  PROVE  Wanted(d.tb, p, s, m)
           \subseteq Wanted(d.tb, p, s, n) \cup {<<s[n][1], s[n][2] + 1>>}
<1> SUFFICES ASSUME NEW j \in Wanted(d.tb, p, s, m), j \notin Wanted(d.tb, p, s, n)
             PROVE  j = <<s[n][1], s[n][2] + 1>>
  OBVIOUS
<1> DEFINE a == j[1]
           q == s[n][2]
           k == s[n]
<1>1. /\ a \in Accounts /\ j = <<a, p>> /\ <<a, p - 1>> \in DOMAIN d.tb
      /\ j \notin DOMAIN d.tb /\ \A i \in 1..m : s[i][1] # a
  <2>1. TBTyped(d.tb)
    BY DEF Base
  <2> HIDE DEF a
  <2> QED
    BY ONLY <2>1, KeyWanted DEF a
<1> HIDE DEF a
<1>2. s[n][1] = a
  <2> SUFFICES ASSUME s[n][1] # a PROVE FALSE
    OBVIOUS
  <2>1. \A i \in 1..n : s[i][1] # a
    BY <1>1
  <2> QED
    BY <1>1, <2>1, WantedKey
<1>3. k \in DOMAIN d.tb /\ k \in Keys /\ \A r \in RowSlots(d, k[1]) : r <= q
  BY DEF FromLast, Base, TBTyped
<1>4. k = <<a, q>> /\ q \in Slots /\ q \in Int /\ q \in d.periods
  <2> HIDE DEF k
  <2>1. k[2] \in Slots /\ k = <<k[1], k[2]>> /\ k[2] \in d.periods
    BY <1>3 DEF Keys, Within
  <2> QED
    BY <1>2, <2>1 DEF k, Slots
<1>5. p - 1 \in RowSlots(d, a)
  <2> DEFINE i == <<a, p - 1>>
  <2>1. i \in Keys /\ i[2] = p - 1
    BY <1>1 DEF Base, TBTyped
  <2>2. p - 1 \in Slots
    BY <2>1 DEF Keys
  <2> QED
    BY <1>1, <2>2 DEF RowSlots
<1>6. p - 1 <= q /\ q <= p /\ q # p
  BY <1>1, <1>2, <1>3, <1>4, <1>5
<1>7. q + 1 = p
  BY <1>4, <1>6
<1> QED
  BY <1>1, <1>2, <1>7

\* After m turns.
Mending(d, e, p, s, m) ==
    Carried(d, e) /\ Woven(e, Wanted(d.tb, p, s, m), {})

LEMMA MendingTurn ==
  ASSUME NEW d, Base(d), NEW p \in Int, Within(d.tb, d.periods), \A q \in d.periods : q <= p,
         NEW s, NEW m \in Nat, NEW n, n = m + 1, NEW c, Mending(d, c, p, s, m),
         FromLast(d, s[n]), NEW e, e = ForwardRow(c, s[n])
  PROVE  Mending(d, e, p, s, n)
<1> DEFINE k == s[n]
           a == k[1]
           q == k[2]
           X == Wanted(d.tb, p, s, m)
           Y == Wanted(d.tb, p, s, n)
           none == {}
<1>1. Carried(d, c) /\ Woven(c, X, none)
  BY DEF Mending
<1>2. X \subseteq Y \cup {<<a, q + 1>>}
  BY WantedShrinks
<1>3. k \in DOMAIN c.tb /\ k \in Keys
  BY <1>1 DEF Carried, FromLast, Base, TBTyped
<1>4. e = forwardUpdateTrialBalance(c, a, q)
  BY DEF ForwardRow
<1>8. Y = Wanted(d.tb, p, s, n) /\ none = {}
  OBVIOUS
<1> HIDE DEF k, X, Y, none
<1>5. a \in Accounts /\ q \in Slots /\ <<a, q>> \in DOMAIN c.tb
  <2>1. a \in Accounts /\ q \in Slots /\ k = <<a, q>>
    BY <1>3 DEF Keys
  <2> QED
    BY <1>3, <2>1
<1> HIDE DEF a, q
<1>6. Woven(e, Y, none)
  <2> DEFINE U == Y \cup {<<a, q + 1>>}
  <2>1. X \subseteq U
    BY <1>2
  <2> HIDE DEF U
  <2>2. Woven(c, U, none)
    BY <1>1, <2>1, WovenMore
  <2>3. Woven(c, Y \cup {<<a, q + 1>>}, none)
    BY <2>2 DEF U
  <2> QED
    BY ONLY <1>4, <1>5, <2>3, ForwardWeaves
<1>7. Carried(d, e)
  <2>1. Carried(c, e)
    BY <1>1, <1>4, <1>5, ForwardCarries DEF Woven
  <2> QED
    BY <1>1, <2>1, CarriedTwice
<1> QED
  BY <1>6, <1>7, <1>8 DEF Mending

LEMMA ForwardLoopMends ==
  ASSUME NEW d, Base(d), NEW p \in Int, Within(d.tb, d.periods), \A q \in d.periods : q <= p,
         NEW s, NEW n \in Nat, DOMAIN s = 1..n, Woven(d, Wanted(d.tb, p, s, 0), {}),
         \A i \in 1..n : FromLast(d, s[i])
  PROVE  Mending(d, ForwardLoop(d, s), p, s, n)
<1>0. n \in Nat /\ DOMAIN s = 1..n
  OBVIOUS
<1>1. PICK g : /\ g[0] = d /\ \A i \in 1..n : g[i] = ForwardRow(g[i - 1], s[i])
               /\ ForwardLoop(d, s) = g[n]
  BY ONLY <1>0, ForwardChain, SMTT(60)
<1> DEFINE Z == {i \in 0..n : Mending(d, g[i], p, s, i)}
<1>2. 0 \in Z
  <2>1. Mending(d, d, p, s, 0)
    BY CarriedSelf DEF Mending
  <2> QED
    BY <1>1, <2>1
<1>3. ASSUME NEW i \in 1..n, i - 1 \in Z PROVE i \in Z
  <2> DEFINE c == g[i - 1]
             m == i - 1
             e == g[i]
  <2>1. /\ Mending(d, c, p, s, m) /\ e = ForwardRow(c, s[i])
        /\ m \in Nat /\ i = m + 1 /\ FromLast(d, s[i])
    BY <1>1, <1>3
  <2> HIDE DEF c, m, e
  <2>2. Mending(d, e, p, s, i)
    BY <2>1, MendingTurn
  <2> QED
    BY <2>2 DEF e
<1>4. n \in Z
  <2> HIDE DEF Z
  <2>1. \A i \in 0..n : i \in Z
    BY ONLY <1>0, <1>2, <1>3, Counting
  <2> QED
    BY <2>1
<1> QED
  BY <1>1, <1>4

\* Nothing waits once every account with rows had its turn.
LEMMA NothingWaits ==
  ASSUME NEW d, Base(d), NEW p, NEW s, NEW m,
         \A a \in Accounts : RowSlots(d, a) # {} => \E i \in 1..m : s[i][1] = a
  PROVE  Wanted(d.tb, p, s, m) = {}
<1> SUFFICES ASSUME NEW j \in Wanted(d.tb, p, s, m) PROVE FALSE
  OBVIOUS
<1> DEFINE a == j[1]
           i == <<a, p - 1>>
<1>1. a \in Accounts /\ i \in DOMAIN d.tb /\ \A n \in 1..m : s[n][1] # a
  <2>1. TBTyped(d.tb)
    BY DEF Base
  <2> HIDE DEF a, i
  <2> QED
    BY ONLY <2>1, KeyWanted DEF a, i
<1>2. p - 1 \in Slots
  <2>1. i \in Keys /\ i[2] = p - 1
    BY <1>1 DEF Base, TBTyped
  <2> QED
    BY <2>1 DEF Keys
<1>3. p - 1 \in RowSlots(d, a)
  BY <1>1, <1>2 DEF RowSlots
<1> HIDE DEF a
<1> QED
  BY <1>1, <1>3

\* A period is created after those there are, and none of them is missing.
LEMMA NewPeriodFresh ==
  ASSUME Standing, Orderly, WovenBooks, NEW p \in Slots, NEW priv, Create(p, priv),
         NEW c, Base(c), c.tb = trialbal, c.periods = periods \cup {p},
         NEW none, none = {}, NEW fresh, fresh = {p}
  PROVE  Woven(c, none, fresh)
<1>1. /\ p \notin periods /\ p \in Int
      /\ \A q \in periods : q \in Int /\ q < p
  BY CreatedLast
<1>2. /\ Within(trialbal, periods) /\ Contiguous(periods) /\ AllEven(trialbal)
      /\ Threaded(trialbal, periods, none, none)
  BY DEF WovenBooks, Knit
<1>3. Within(c.tb, c.periods) /\ AllEven(c.tb)
  BY <1>2 DEF Within
<1>4. Contiguous(c.periods)
  <2> SUFFICES ASSUME NEW r \in Slots, r < p PROVE r \in periods
    BY <1>2 DEF Contiguous
  <2>1. r \in Int /\ r >= 1
    BY DEF Slots
  <2>2. p - 1 \in periods
    BY <1>1, <2>1 DEF Create, InOrder
  <2>3. r = p - 1 \/ r < p - 1
    BY <1>1, <2>1
  <2> QED
    BY <1>2, <2>2, <2>3 DEF Contiguous
<1>5. ASSUME NEW a \in Accounts, NEW q \in c.periods PROVE Tied(c.tb, a, q, none, fresh)
  <2>1. CASE q = p
    <3> DEFINE k == <<a, q>>
    <3>1. k \notin DOMAIN trialbal
      <4>1. k[2] \notin periods
        BY <1>1, <2>1
      <4> HIDE DEF k
      <4> QED
        BY <1>2, <4>1 DEF Within
    <3> QED
      BY <2>1, <3>1 DEF Tied, Restarted
  <2>2. CASE q # p
    <3>1. Tied(trialbal, a, q, none, none)
      BY <1>2, <2>2 DEF Threaded
    <3> QED
      BY <3>1 DEF Tied
  <2> QED
    BY <2>1, <2>2
<1> QED
  BY <1>3, <1>4, <1>5 DEF Woven, Threaded

\* createAccountingPeriod, of a period after all the others.
LEMMA CreateKnits ==
  ASSUME Standing, Orderly, WovenBooks, NEW p \in Slots, NEW priv \in BOOLEAN, Create(p, priv)
  PROVE  WovenBooks'
<1> DEFINE pers == periods \cup {p}
           none == {}
           fresh == {p}
<1>1. PICK c, d, last, m : Creates(p, priv, c, d, last, m)
  BY CreateIs
<1> DEFINE x == ForwardLoop(d, last)
<1>2. /\ Base(c) /\ c.gl = gltrans /\ c.tb = trialbal /\ c.periods = pers
      /\ d = postIntoTrialBalance(c, UnpostedIn(p), priv)
  BY <1>1 DEF Creates
<1>3. Base(d) /\ d.periods = pers /\ m \in Nat /\ DOMAIN last = 1..m
  BY <1>1 DEF Creates
<1>4. /\ p \in Int /\ p \notin none /\ \A q \in periods : q \in Int /\ q < p
      /\ \A i \in DOMAIN gltrans : gltrans[i].period = p => gltrans[i].deleted
  BY CreatedLast
<1>5. trialbal' = x.tb /\ periods' = pers
  BY <1>1 DEF Creates
<1>6. none = {} /\ fresh = {p} /\ x = ForwardLoop(d, last)
  OBVIOUS
<1>7. \A q \in d.periods : q <= p
  BY <1>3, <1>4
<1> HIDE DEF x, none
<1>8. Woven(d, none, fresh)
  <2>1. \A i \in Pending(c, UnpostedIn(p), priv) : c.gl[i].period \notin fresh
    BY <1>2, <1>4 DEF Pending
  <2> HIDE DEF fresh
  <2>2. Woven(c, none, fresh)
    BY <1>2, <1>6, NewPeriodFresh
  <2>3. Lines(c.gl)
    BY <1>2, LedgerLines DEF Standing
  <2>4. Knit(d.tb, c.periods, none, fresh)
    BY ONLY <1>2, <2>1, <2>2, <2>3, PostingWeaves
  <2> QED
    BY <1>2, <1>3, <2>4, WovenKnit
<1> HIDE DEF fresh
<1>9. Woven(d, Wanted(d.tb, p, last, 0), none)
  BY <1>4, <1>6, <1>8, FreshWaits
<1>10. ASSUME NEW i \in 1..m PROVE FromLast(d, last[i])
  <2>1. PICK a : RowSlots(d, a) # {} /\ last[i] = <<a, Max(RowSlots(d, a))>>
    BY <1>1 DEF Creates
  <2> DEFINE S == RowSlots(d, a)
             q == Max(S)
  <2>2. S \subseteq Slots /\ S # {} /\ \A r \in S : <<a, r>> \in DOMAIN d.tb
    BY <2>1 DEF RowSlots
  <2>3. last[i][1] = a /\ last[i][2] = q /\ last[i] = <<a, q>>
    BY <2>1
  <2>6. S = RowSlots(d, a) /\ q = Max(S)
    OBVIOUS
  <2> HIDE DEF S, q
  <2>4. q \in S /\ \A r \in S : r <= q
    BY <2>2, <2>6, LastSlot, LargestSlot
  <2> QED
    BY <2>2, <2>3, <2>4, <2>6 DEF FromLast
<1>11. Mending(d, x, p, last, m)
  <2>1. Woven(d, Wanted(d.tb, p, last, 0), {}) /\ Within(d.tb, d.periods)
    BY <1>6, <1>9 DEF Woven
  <2> QED
    BY <1>3, <1>4, <1>6, <1>7, <1>10, <2>1, ForwardLoopMends
<1>12. Wanted(d.tb, p, last, m) = {}
  <2>1. \A a \in Accounts : RowSlots(d, a) # {} => \E i \in 1..m : last[i][1] = a
    BY <1>1 DEF Creates
  <2> QED
    BY <1>3, <2>1, NothingWaits
<1>13. Woven(x, none, none)
  BY <1>6, <1>11, <1>12 DEF Mending
<1>14. x.periods = pers
  BY <1>3, <1>11, CarriedFields DEF Mending
<1>15. Knit(trialbal', periods', none, none)
  BY <1>5, <1>13, <1>14, WovenKnit
<1> QED
  BY <1>6, <1>15 DEF WovenBooks

-----------------------------------------------------------------------------
(* Every step, and the chain that woven balances make.                     *)

LEMMA NextKnits ==
  ASSUME Standing, Orderly, BInv', WovenBooks, [Next]_vars
  PROVE  WovenBooks'
<1>0. IInv
  BY DEF Standing
<1>1. CASE Entry
  BY <1>0, <1>1, EntryStep, RoutineKnits DEF Entry
<1>2. CASE Distribution
  BY <1>0, <1>2, DistributionStep, RoutineKnits
<1>3. CASE Series
  BY <1>0, <1>3, InsertSeriesStep, PostGLSeriesStep, NoSummStep, DropSeriesStep,
     RoutineKnits DEF Series
<1>4. CASE Correction
  BY <1>0, <1>4, DeleteSeriesKnits, ReverseStep, RoutineKnits DEF Correction
<1>5. CASE Journals
  BY <1>0, <1>5, JournalsStep, RoutineKnits
<1>6. CASE Calendar
  <2>1. CASE \E p \in Slots :
               \/ CloseAccountingPeriod(p)
               \/ FreezeAccountingPeriod(p)
               \/ DeleteAccountingPeriod(p)
               \/ \E priv \in BOOLEAN : \/ OpenAccountingPeriod(p, priv)
                                        \/ ThawAccountingPeriod(p, priv)
                                        \/ Create(p, priv)
    <3>1. ASSUME NEW p \in Slots, FreezeAccountingPeriod(p) PROVE WovenBooks'
      BY <1>0, <3>1, FreezeStep, RoutineKnits
    <3>2. ASSUME NEW p \in Slots, NEW priv \in BOOLEAN, ThawAccountingPeriod(p, priv)
          PROVE  WovenBooks'
      BY <1>0, <3>2, ThawStep, RoutineKnits
    <3> QED
      BY <2>1, <3>1, <3>2, CloseKnits, DeleteKnits, OpenKnits, CreateKnits
  <2>2. CASE \E y \in Years : CloseAccountingYearPeriod(y) \/ OpenAccountingYearPeriod(y)
    BY <1>0, <2>2, CloseYearKnits, OpenYearStep, RoutineKnits
  <2>3. CASE \E a \in Accounts : ForwardUpdateAccount(a)
    BY <2>3, ForwardKnits
  <2> QED
    BY <1>6, <2>1, <2>2, <2>3 DEF Calendar
<1>7. CASE UNCHANGED vars
  BY <1>7 DEF vars, WovenBooks
<1> QED
  BY <1>1, <1>2, <1>3, <1>4, <1>5, <1>6, <1>7 DEF Next

LEMMA FirstKnit ==
  ASSUME FirstOnes, Init PROVE WovenBooks
<1> DEFINE none == {}
<1>1. DOMAIN trialbal = {} /\ periods = InitialPeriods
  BY DEF Init
<1>2. Within(trialbal, periods) /\ AllEven(trialbal)
  BY <1>1 DEF Within, AllEven
<1>3. Contiguous(periods)
  BY <1>1, FirstOnes DEF Contiguous, FirstOnes
<1>4. Threaded(trialbal, periods, none, none)
  BY <1>1 DEF Threaded, Tied, Restarted, Joined
<1>5. Knit(trialbal, periods, none, none)
  BY <1>2, <1>3, <1>4 DEF Knit
<1> QED
  BY <1>5 DEF WovenBooks

\* The period before p is the slot before it.
LEMMA SlotBefore ==
  ASSUME CalendarInv, NEW p \in periods
  PROVE  /\ p \in Int
         /\ IF p - 1 \in Slots THEN Before(p) # {} /\ Max(Before(p)) = p - 1 ELSE Before(p) = {}
<1>1. p \in Slots /\ p \in Int /\ NSlots \in Nat /\ periods \subseteq Slots
  BY LedgerAssumption DEF CalendarInv, Slots
<1>2. CASE p - 1 \in Slots
  <2> DEFINE S == Before(p)
  <2>1. p - 1 \in periods
    BY <1>1, <1>2 DEF CalendarInv, NoHole
  <2>2. p - 1 \in S /\ S \subseteq Slots /\ \A q \in S : q \in Int /\ q <= p - 1
    <3>1. p - 1 \in S
      BY <1>1, <2>1 DEF Before
    <3>2. ASSUME NEW q \in S PROVE q \in Slots /\ q \in Int /\ q <= p - 1
      <4>1. q \in Slots /\ q < p
        BY <1>1 DEF Before
      <4> QED
        BY <1>1, <4>1 DEF Slots
    <3> HIDE DEF S
    <3> QED
      BY <3>1, <3>2
  <2> HIDE DEF S
  <2>3. Max(S) \in S /\ \A q \in S : q <= Max(S)
    BY <2>2, LastSlot, LargestSlot
  <2>4. Max(S) \in Int /\ Max(S) <= p - 1 /\ p - 1 <= Max(S)
    BY <2>2, <2>3
  <2>5. Max(S) = p - 1 /\ S # {}
    BY <1>1, <2>2, <2>4
  <2> QED
    BY <1>1, <1>2, <2>5 DEF S
<1>3. CASE p - 1 \notin Slots
  <2>1. ASSUME NEW q \in Before(p) PROVE FALSE
    <3>1. q \in Slots /\ q < p
      BY <1>1 DEF Before
    <3> QED
      BY <1>1, <1>3, <3>1 DEF Slots
  <2> QED
    BY <1>1, <1>3, <2>1
<1> QED
  BY <1>2, <1>3

LEMMA WovenChain ==
  ASSUME Standing, WovenBooks PROVE CleanChain
<1> SUFFICES ASSUME NEW k \in DOMAIN trialbal, Settled(k[1], k[2])
             PROVE  trialbal[k].beginning = CarriedInto(k[1], k[2]) + trialbal[k].yearend
  BY DEF CleanChain
<1> DEFINE a == k[1]
           p == k[2]
           none == {}
           j == <<a, p - 1>>
<1>1. k \in Keys /\ trialbal[k] \in TBRows /\ TBTyped(trialbal)
  BY Now DEF Standing, Base, TBTyped
<1>2. k = <<a, p>> /\ a \in Accounts /\ p \in Slots
  BY <1>1 DEF Keys
<1>3. p \in periods
  BY DEF Standing, ClosedBooks, Within
<1>4. Settled(a, p)
  OBVIOUS
<1>5. trialbal[k].beginning \in Int /\ trialbal[k].yearend \in Int
  BY <1>1 DEF TBRows
<1>6. Tied(trialbal, a, p, none, none)
  BY <1>2, <1>3 DEF WovenBooks, Knit, Threaded
<1>7. p \in Int /\ IF p - 1 \in Slots THEN Before(p) # {} /\ Max(Before(p)) = p - 1
                   ELSE Before(p) = {}
  BY <1>3, SlotBefore DEF Standing
<1> HIDE DEF a, p
<1>8. (p - 1) + 1 = p
  BY <1>7
<1>9. p - 1 \notin Slots => j \notin DOMAIN trialbal
  <2> DEFINE i == <<a, p - 1>>
  <2>1. ASSUME i \in Keys PROVE p - 1 \in Slots
    BY <2>1 DEF Keys
  <2> QED
    BY <1>1, <2>1 DEF TBTyped
<1>10. CASE j \notin DOMAIN trialbal \/ Crosses(a, p - 1)
  <2>1. trialbal[k].beginning = trialbal[k].yearend
    BY <1>2, <1>6, <1>10 DEF Tied, Restarted
  <2>2. CarriedInto(a, p) = 0
    BY <1>7, <1>8, <1>10 DEF CarriedInto, Crosses
  <2> QED
    BY <1>5, <2>1, <2>2 DEF a, p
<1>11. CASE j \in DOMAIN trialbal /\ ~Crosses(a, p - 1)
  <2>1. ~Stale(trialbal, a, p - 1)
    <3> SUFFICES ASSUME trialbal[j].dirty PROVE FALSE
      BY DEF Stale
    <3>1. DB.tb = trialbal
      BY Now DEF Standing
    <3>2. p - 1 \in DirtySlots(DB, a)
      BY <1>9, <1>11, <3>1 DEF DirtySlots, RowSlots
    <3>3. p - 1 > p
      BY <1>4, <3>2 DEF Settled
    <3> QED
      BY <1>7, <3>3
  <2>2. Joined(trialbal, a, p)
    BY <1>6, <2>1 DEF Tied
  <2>3. trialbal[k].beginning = trialbal[j].ending + trialbal[k].yearend
    BY <1>2, <1>11, <2>2 DEF Joined
  <2>4. CarriedInto(a, p) = trialbal[j].ending
    BY <1>7, <1>8, <1>9, <1>11 DEF CarriedInto, Crosses
  <2> QED
    BY <2>3, <2>4 DEF a, p
<1> QED
  BY <1>10, <1>11

\* Balances are carried without a break: whatever users post, correct, carry
\* forward, close, open, create and delete, an account with no dirty row up to
\* a period begins it with what the period before ended with, plus the retained
\* earnings, as long as users create periods in date order.
THEOREM CleanChainHolds ==
    ASSUME Orderly, FirstOnes
    PROVE  Spec => []CleanChain
<1>1. Init => Standing /\ WovenBooks
  BY FirstOnes, FirstStanding, FirstKnit
<1>2. Standing /\ WovenBooks /\ [Next]_vars => Standing' /\ WovenBooks'
  <2> SUFFICES ASSUME Standing, WovenBooks, [Next]_vars PROVE Standing' /\ WovenBooks'
    OBVIOUS
  <2>1. Standing'
    BY Orderly, StandingKept
  <2>2. BInv'
    BY <2>1 DEF Standing
  <2> QED
    BY Orderly, <2>1, <2>2, NextKnits
<1>3. Standing /\ WovenBooks => CleanChain
  BY WovenChain
<1> QED
  BY <1>1, <1>2, <1>3, PTL DEF Spec

-----------------------------------------------------------------------------
(* The result of a closed year stays with the equity account.              *)

\* The years that another one follows, and the row that takes their result.
Followed == {y \in Years : y + 1 \in Years}
EquityRow(y) == <<YearEndEquityAccount, FirstSlot(y + 1)>>

\* The balances tb credit the equity account with v for year y.
Credited(tb, y, v) == EquityRow(y) \in DOMAIN tb /\ tb[EquityRow(y)].yearend = v

LEMMA FirstSlotIs ==
  ASSUME NEW y \in Years
  PROVE  /\ FirstSlot(y) \in Slots /\ YearOf[FirstSlot(y)] = y
         /\ \A t \in Slots : YearOf[t] = y => FirstSlot(y) <= t
<1> DEFINE S == {s \in Slots : YearOf[s] = y}
<1>1. S \subseteq Nat /\ S # {}
  BY DEF Years, Slots
<1>2. PICK s \in S : \A t \in S : s <= t
  BY <1>1, LeastNumber
<1>3. s \in Slots /\ YearOf[s] = y /\ \A t \in Slots : YearOf[t] = y => s <= t
  BY <1>2
<1> QED
  BY <1>3 DEF FirstSlot

\* Every year has a row of its own.
LEMMA OwnEquityRow ==
  ASSUME NEW y \in Followed, NEW z \in Followed, EquityRow(y) = EquityRow(z)
  PROVE  y = z
<1>1. y \in Int /\ z \in Int /\ y + 1 \in Years /\ z + 1 \in Years
  BY YearNumbers DEF Followed
<1>2. FirstSlot(y + 1) = FirstSlot(z + 1)
  BY DEF EquityRow
<1>3. y + 1 = z + 1
  BY <1>1, <1>2, FirstSlotIs
<1> QED
  BY <1>1, <1>3

\* Nothing is credited to any other row.
YearEnds(tb) ==
    \A k \in DOMAIN tb : tb[k].yearend # 0 => \E y \in Followed : k = EquityRow(y)

\* From the balances tb to ub, the years credited with their result stay so.
KeepsCredit(tb, ub, gl, years) ==
    /\ DOMAIN tb \subseteq DOMAIN ub
    /\ YearEnds(tb) => YearEnds(ub)
    /\ \A y \in years : Credited(tb, y, ProfitLoss(gl, y)) => Credited(ub, y, ProfitLoss(gl, y))

LEMMA KeepsCreditSelf == \A tb, gl, years : KeepsCredit(tb, tb, gl, years)
  BY DEF KeepsCredit

LEMMA KeepsCreditTwice ==
  ASSUME NEW tb, NEW ub, NEW vb, NEW gl, NEW years,
         KeepsCredit(tb, ub, gl, years), KeepsCredit(ub, vb, gl, years)
  PROVE  KeepsCredit(tb, vb, gl, years)
  BY DEF KeepsCredit

LEMMA KeepsCreditLess ==
  ASSUME NEW tb, NEW ub, NEW gl, NEW years, NEW less, less \subseteq years,
         KeepsCredit(tb, ub, gl, years)
  PROVE  KeepsCredit(tb, ub, gl, less)
  BY DEF KeepsCredit

\* A row written with the yearend it had, or of an account other than the
\* equity account.
LEMMA WriteLeaves ==
  ASSUME NEW x, IsDB(x), NEW k, NEW row,
         k[1] = YearEndEquityAccount /\ k \in DOMAIN x.tb => row.yearend = x.tb[k].yearend,
         NEW e, e = Write(x, k, row), NEW y, NEW v, Credited(x.tb, y, v)
  PROVE  Credited(e.tb, y, v)
<1>1. /\ DOMAIN e.tb = DOMAIN x.tb \cup {k} /\ e.tb[k] = row
      /\ \A j \in DOMAIN x.tb : j # k => e.tb[j] = x.tb[j]
  BY WriteTable
<1>2. EquityRow(y)[1] = YearEndEquityAccount
  BY DEF EquityRow
<1> QED
  BY <1>1, <1>2 DEF Credited

LEMMA WriteOver ==
  ASSUME NEW x, IsDB(x), NEW k, NEW row,
         k[1] = YearEndEquityAccount /\ k \in DOMAIN x.tb => row.yearend = x.tb[k].yearend,
         NEW e, e = Write(x, k, row), NEW tb, NEW gl, NEW years,
         KeepsCredit(tb, x.tb, gl, years),
         YearEnds(tb) /\ row.yearend # 0 => \E y \in Followed : k = EquityRow(y)
  PROVE  KeepsCredit(tb, e.tb, gl, years)
<1>1. /\ DOMAIN e.tb = DOMAIN x.tb \cup {k} /\ e.tb[k] = row
      /\ \A j \in DOMAIN x.tb : j # k => e.tb[j] = x.tb[j]
  BY WriteTable
<1>2. ASSUME NEW y, NEW v, Credited(x.tb, y, v) PROVE Credited(e.tb, y, v)
  BY <1>2, WriteLeaves
<1>3. ASSUME YearEnds(tb) PROVE YearEnds(e.tb)
  <2>1. YearEnds(x.tb)
    BY <1>3 DEF KeepsCredit
  <2>2. ASSUME NEW j \in DOMAIN e.tb, e.tb[j].yearend # 0
        PROVE  \E y \in Followed : j = EquityRow(y)
    <3>1. CASE j = k
      BY <1>1, <1>3, <2>2, <3>1
    <3>2. CASE j # k
      BY <1>1, <2>1, <2>2, <3>2 DEF YearEnds
    <3> QED
      BY <3>1, <3>2
  <2> QED
    BY <2>2 DEF YearEnds
<1> QED
  BY <1>1, <1>2, <1>3 DEF KeepsCredit

LEMMA WriteCredits ==
  ASSUME NEW x, IsDB(x), NEW k, NEW row,
         k \in DOMAIN x.tb => row.yearend = x.tb[k].yearend,
         k \notin DOMAIN x.tb => row.yearend = 0,
         NEW e, e = Write(x, k, row), NEW gl, NEW years
  PROVE  KeepsCredit(x.tb, e.tb, gl, years)
<1>1. YearEnds(x.tb) /\ row.yearend # 0 => \E y \in Followed : k = EquityRow(y)
  BY DEF YearEnds
<1>2. KeepsCredit(x.tb, x.tb, gl, years)
  BY KeepsCreditSelf
<1> QED
  BY <1>1, <1>2, WriteOver

\* The row of a turn keeps the yearend there was.
LEMMA TurnYearend ==
  ASSUME NEW s, NEW a, NEW q
  PROVE  TurnRow(s, a, q).yearend =
           IF <<a, q>> \in DOMAIN s.d.tb THEN s.d.tb[<<a, q>>].yearend ELSE 0
  BY DEF TurnRow, CarriedRow, Rebased, Row

LEMMA WroteCredits ==
  ASSUME NEW s, NEW a, NEW q, NEW x, IsDB(x),
         x = s.d \/ a # YearEndEquityAccount,
         NEW t, WroteOn(t, s, a, q, x), NEW gl, NEW years,
         KeepsCredit(s.d.tb, x.tb, gl, years)
  PROVE  KeepsCredit(s.d.tb, t.d.tb, gl, years)
<1> DEFINE k == <<a, q>>
           row == TurnRow(s, a, q)
           e == t.d
           tb == s.d.tb
<1>1. e = Write(x, k, row) /\ k[1] = a
  BY DEF WroteOn
<1>2. row.yearend = IF k \in DOMAIN tb THEN tb[k].yearend ELSE 0
  BY TurnYearend
<1>3. x = s.d => x.tb = tb
  OBVIOUS
<1>4. KeepsCredit(tb, x.tb, gl, years)
  OBVIOUS
<1> HIDE DEF k, row, e, tb
<1>5. YearEnds(tb) /\ row.yearend # 0 => \E y \in Followed : k = EquityRow(y)
  BY <1>2 DEF YearEnds
<1>6. k[1] = YearEndEquityAccount /\ k \in DOMAIN x.tb => row.yearend = x.tb[k].yearend
  BY <1>1, <1>2, <1>3
<1>7. KeepsCredit(tb, e.tb, gl, years)
  BY <1>1, <1>4, <1>5, <1>6, WriteOver
<1> QED
  BY <1>7 DEF e, tb

\* Marking the first row clean.
LEMMA FinishCredits ==
  ASSUME NEW d, Base(d), NEW a, NEW p, NEW s, Carrying(s, d, a, p), NEW gl, NEW years,
         NEW e, e = Finish(s, p)
  PROVE  KeepsCredit(s.d.tb, e.tb, gl, years)
<1> DEFINE k == <<a, p>>
           old == s.d.tb[k]
           row == [old EXCEPT !.dirty = FALSE]
           c == s.d
<1>1. Base(c) /\ k \in DOMAIN c.tb /\ s.accnt = a
  BY CarriedFields DEF Carrying
<1>2. e = c \/ e = Write(c, k, row)
  BY <1>1 DEF Finish
<1>3. old \in TBRows /\ old = c.tb[k] /\ row = [old EXCEPT !.dirty = FALSE] /\ IsDB(c)
  BY <1>1 DEF Base, TBTyped
<1> HIDE DEF k, old, row, c
<1>4. row.yearend = c.tb[k].yearend
  BY <1>3 DEF TBRows
<1>5. KeepsCredit(c.tb, e.tb, gl, years)
  <2>1. CASE e = c
    BY <2>1, KeepsCreditSelf
  <2>2. CASE e = Write(c, k, row)
    BY <1>1, <1>3, <1>4, <2>2, WriteCredits
  <2> QED
    BY <1>2, <2>1, <2>2
<1> QED
  BY <1>5 DEF c

\* The equity account's own loop.
LEMMA EquityCredits ==
  ASSUME NEW d, Base(d), NEW p \in Slots, <<YearEndEquityAccount, p>> \in DOMAIN d.tb,
         NEW gl, NEW years,
         NEW e, e = Finish(FoldLeft(VisitEquity, Start(d, YearEndEquityAccount, p),
                                    SlotsAfter(p)), p)
  PROVE  KeepsCredit(d.tb, e.tb, gl, years)
<1> DEFINE a == YearEndEquityAccount
           n == NSlots - p
           b == Start(d, a, p)
           s == SlotsAfter(p)
<1>1. n \in Nat /\ DOMAIN s = 1..n
  BY LaterSlots
<1>2. Carrying(b, d, a, p) /\ b.d = d /\ a \in Accounts
  <2>1. b.d = d
    BY DEF Start
  <2> QED
    BY <2>1, StartCarrying, LedgerAssumption
<1>3. e = Finish(EquityLoop(b, s), p)
  BY DEF EquityLoop
<1> HIDE DEF n, b, s, a
<1>4. PICK g : /\ g[0] = b /\ \A i \in 1..n : g[i] = VisitEquity(g[i - 1], s[i])
               /\ EquityLoop(b, s) = g[n]
  BY ONLY <1>1, EquityChain, SMTT(60)
<1> DEFINE Z == {i \in 0..n : Carrying(g[i], d, a, p) /\ KeepsCredit(d.tb, g[i].d.tb, gl, years)}
<1>5. 0 \in Z
  BY <1>1, <1>2, <1>4, KeepsCreditSelf
<1>6. ASSUME NEW i \in 1..n, i - 1 \in Z PROVE i \in Z
  <2> DEFINE c == g[i - 1]
             t == g[i]
             q == s[i]
             x == c.d
  <2>1. t = VisitEquity(c, q) /\ Carrying(c, d, a, p) /\ KeepsCredit(d.tb, c.d.tb, gl, years)
        /\ x = c.d
    BY <1>4, <1>6
  <2> HIDE DEF c, t, q, x
  <2>2. Carrying(t, d, a, p)
    BY <1>2, <2>1, VisitEquityCarries
  <2>3. Idle(t, c, q) \/ WroteOn(t, c, a, q, x)
    BY <2>1, EquityGoes
  <2>4. IsDB(x)
    BY <2>1, CarriedFields DEF Carrying, Base
  <2>5. KeepsCredit(c.d.tb, t.d.tb, gl, years)
    <3>1. CASE Idle(t, c, q)
      BY <3>1, KeepsCreditSelf DEF Idle
    <3>2. CASE WroteOn(t, c, a, q, x)
      BY <2>1, <2>4, <3>2, WroteCredits, KeepsCreditSelf
    <3> QED
      BY <2>3, <3>1, <3>2
  <2>6. KeepsCredit(d.tb, t.d.tb, gl, years)
    BY <2>1, <2>5, KeepsCreditTwice
  <2> QED
    BY <2>2, <2>6 DEF t
<1>7. n \in Z
  <2> HIDE DEF Z
  <2>1. \A i \in 0..n : i \in Z
    BY ONLY <1>1, <1>5, <1>6, Counting
  <2> QED
    BY <1>1, <2>1
<1>8. KeepsCredit(g[n].d.tb, e.tb, gl, years)
  BY <1>3, <1>4, <1>7, FinishCredits
<1> QED
  BY <1>7, <1>8, KeepsCreditTwice

\* updateRetainedEarnings credits its year, and leaves the other years' credits.
LEMMA RetainCredits ==
  ASSUME NEW d, Base(d), NEW y \in Years, NEW u, u = updateRetainedEarnings(d, y)
  PROVE  /\ KeepsCredit(d.tb, u.d.tb, d.gl, Followed)
         /\ CanRetain(d, y) => Credited(u.d.tb, y, ProfitLoss(d.gl, y))
<1> DEFINE E == YearEndEquityAccount
           q == FirstSlot(y + 1)
           k == <<E, q>>
           old == d.tb[k]
           pl == ProfitLoss(d.gl, y)
           row == Row(old.beginning - old.yearend + pl, old.debits, old.credits, pl, old.dirty)
           w == Write(d, k, row)
           e == Finish(FoldLeft(VisitEquity, Start(w, E, q), SlotsAfter(q)), q)
<1>1. CASE ~CanRetain(d, y)
  <2>1. u.d = d
    BY <1>1 DEF updateRetainedEarnings
  <2> QED
    BY <1>1, <2>1, KeepsCreditSelf
<1>2. CASE CanRetain(d, y)
  <2>1. u.d = e
    BY <1>2 DEF updateRetainedEarnings
  <2>2. q \in d.periods /\ k \in DOMAIN d.tb /\ y \in Followed /\ k = EquityRow(y)
    BY <1>2 DEF CanRetain, Followed, EquityRow
  <2>3. pl \in Int /\ TBTyped(d.tb) /\ d.periods \subseteq Slots /\ IsDB(d)
    BY ProfitLossInt DEF Base
  <2>4. old \in TBRows /\ q \in Slots
    BY <2>2, <2>3 DEF TBTyped
  <2>5. w = Write(d, k, row) /\ k = <<E, q>> /\ E = YearEndEquityAccount /\ E \in Accounts
        /\ e = Finish(FoldLeft(VisitEquity, Start(w, E, q), SlotsAfter(q)), q)
    BY LedgerAssumption
  <2>6. row = Row(old.beginning - old.yearend + pl, old.debits, old.credits, pl, old.dirty)
        /\ pl = ProfitLoss(d.gl, y)
    OBVIOUS
  <2> HIDE DEF k, pl, q, row, old, w, e, E
  <2>7. row \in TBRows /\ row.yearend = pl
    BY <2>3, <2>4, <2>6 DEF Row, TBRows
  <2>8. Base(w) /\ w.gl = d.gl
    BY <2>4, <2>5, <2>7, BaseWrite DEF Keys
  <2>9. /\ DOMAIN w.tb = DOMAIN d.tb \cup {k} /\ w.tb[k] = row
        /\ \A j \in DOMAIN d.tb : j # k => w.tb[j] = d.tb[j]
    BY <2>3, <2>5, WriteTable
  <2>10. Credited(w.tb, y, pl)
    BY <2>2, <2>7, <2>9 DEF Credited
  <2>11. ASSUME NEW z \in Followed, NEW v, v = ProfitLoss(d.gl, z), Credited(d.tb, z, v)
         PROVE  Credited(w.tb, z, v)
    <3>1. CASE EquityRow(z) = k
      <4>1. z = y
        BY <2>2, <3>1, OwnEquityRow
      <4> QED
        BY <2>6, <2>10, <2>11, <4>1
    <3>2. CASE EquityRow(z) # k
      BY <2>9, <2>11, <3>2 DEF Credited
    <3> QED
      BY <3>1, <3>2
  <2>12. KeepsCredit(d.tb, w.tb, d.gl, Followed)
    <3>1. ASSUME YearEnds(d.tb) PROVE YearEnds(w.tb)
      BY <2>2, <2>9, <3>1 DEF YearEnds
    <3> QED
      BY <2>9, <2>11, <3>1 DEF KeepsCredit
  <2>13. KeepsCredit(w.tb, e.tb, d.gl, Followed)
    <3>1. <<YearEndEquityAccount, q>> \in DOMAIN w.tb
      BY <2>5, <2>9
    <3>2. e = Finish(FoldLeft(VisitEquity, Start(w, YearEndEquityAccount, q),
                              SlotsAfter(q)), q)
      BY <2>5
    <3> QED
      BY ONLY <2>4, <2>8, <3>1, <3>2, EquityCredits
  <2>14. Credited(e.tb, y, pl)
    BY <2>2, <2>6, <2>10, <2>13 DEF KeepsCredit
  <2> QED
    BY <2>1, <2>6, <2>12, <2>13, <2>14, KeepsCreditTwice
<1> QED
  BY <1>1, <1>2


\* A turn of the loop over any account keeps the credits.
LEMMA PeriodCredits ==
  ASSUME NEW d, Base(d), d.yearclosed \subseteq Years, NEW a \in Accounts, NEW p,
         NEW s, Carrying(s, d, a, p), NEW q, NEW t, t = VisitPeriod(s, q)
  PROVE  KeepsCredit(s.d.tb, t.d.tb, d.gl, Followed)
<1> DEFINE c == s.d
<1>1. Base(c) /\ c.gl = d.gl /\ c.yearclosed = d.yearclosed
  BY CarriedFields DEF Carrying
<1>2. \/ Idle(t, s, q)
      \/ Halted(t, s, a, q)
      \/ \E x : Crossed(x, s, a) /\ WroteOn(t, s, a, q, x)
  BY PeriodGoes
<1>3. CASE Idle(t, s, q) \/ Halted(t, s, a, q)
  BY <1>3, KeepsCreditSelf DEF Idle, Halted
<1>4. ASSUME NEW x, Crossed(x, s, a), WroteOn(t, s, a, q, x)
      PROVE  KeepsCredit(s.d.tb, t.d.tb, d.gl, Followed)
  <2>1. /\ IsDB(x) /\ KeepsCredit(c.tb, x.tb, d.gl, Followed)
        /\ x = s.d \/ a # YearEndEquityAccount
    <3>1. CASE x = s.d
      BY <1>1, <3>1, KeepsCreditSelf DEF Base
    <3>2. CASE /\ a \in RevExp /\ s.year \in s.d.yearclosed
               /\ x = updateRetainedEarnings(s.d, s.year).d
      <4> DEFINE u == updateRetainedEarnings(c, s.year)
                 y == s.year
      <4>1. u = updateRetainedEarnings(c, y) /\ x = u.d /\ y \in Years
        BY <1>1, <3>2
      <4> HIDE DEF c, u, y
      <4>2. KeepsCredit(c.tb, u.d.tb, c.gl, Followed)
        BY <1>1, <4>1, RetainCredits
      <4>3. Carried(c, u.d)
        BY <1>1, <4>1, RetainCarries
      <4>4. IsDB(u.d)
        BY <1>1, <4>3, CarriedFields DEF Base
      <4> QED
        BY <1>1, <3>2, <4>1, <4>2, <4>4, LedgerAssumption
    <3> QED
      BY <1>4, <3>1, <3>2 DEF Crossed
  <2> QED
    BY <1>4, <2>1, WroteCredits
<1> QED
  BY <1>2, <1>3, <1>4

\* Account a, carried forward from slot p, meets the end of a closed year.
Gives(d, a, p) ==
    /\ a \in RevExp /\ p + 1 \in d.periods /\ YearOf[p + 1] # YearOf[p]
    /\ YearOf[p] \in d.yearclosed /\ CanRetain(d, YearOf[p])

\* The balances tb have the account's next row, or the credit of that year.
Arrived(d, tb, a, p) ==
    /\ p + 1 \in d.periods /\ a \notin RevExp => <<a, p + 1>> \in DOMAIN tb
    /\ Gives(d, a, p) => Credited(tb, YearOf[p], ProfitLoss(d.gl, YearOf[p]))

LEMMA GivesFollowed ==
  ASSUME NEW d, NEW a, NEW p \in Slots, Gives(d, a, p)
  PROVE  YearOf[p] \in Years /\ YearOf[p] \in Followed
<1>1. YearOf[p] \in Years /\ YearOf[p] + 1 \in Years
  BY DEF Gives, CanRetain, Years
<1> QED
  BY <1>1 DEF Followed

LEMMA ArrivedKept ==
  ASSUME NEW d, NEW tb, NEW ub, NEW a, NEW p \in Slots, Arrived(d, tb, a, p),
         KeepsCredit(tb, ub, d.gl, Followed)
  PROVE  Arrived(d, ub, a, p)
<1>1. Gives(d, a, p) => YearOf[p] \in Followed
  BY GivesFollowed
<1> QED
  BY <1>1 DEF Arrived, KeepsCredit

\* A turn at the end of a closed year goes through updateRetainedEarnings.
LEMMA PeriodCrosses ==
  ASSUME NEW d, Base(d), NEW a, NEW p, NEW s, Carrying(s, d, a, p), NEW q,
         q \in s.d.periods, ~s.stopped, NewYear(s, a, q), s.year \in s.d.yearclosed,
         CanRetain(s.d, s.year)
  PROVE  WroteOn(VisitPeriod(s, q), s, a, q, updateRetainedEarnings(s.d, s.year).d)
<1> DEFINE row == TurnRow(s, a, q)
           year == updateRetainedEarnings(s.d, s.year)
           e == Write(year.d, <<a, q>>, row)
           t == VisitPeriod(s, q)
<1>1. year.ok
  BY DEF updateRetainedEarnings
<1>2. t = [s EXCEPT !.d = e, !.ending = row.ending, !.year = YearOf[q]]
  BY <1>1 DEF VisitPeriod, Visit, TurnRow, NewYear, CarriedRow, Carrying
<1>3. e = Write(year.d, <<a, q>>, TurnRow(s, a, q)) /\ row = TurnRow(s, a, q)
  OBVIOUS
<1> DEFINE ending == row.ending
           last == YearOf[q]
<1> HIDE DEF row, e, t
<1>4. GoneOn(t, s, e, ending, last)
  BY <1>2 DEF GoneOn
<1> HIDE DEF ending, last
<1>5. t.d = e /\ t.ending = ending /\ t.year = last /\ t.stopped = s.stopped
  BY <1>4, WrittenTurn
<1>6. t.d = e /\ t.ending = row.ending /\ t.year = YearOf[q] /\ ~t.stopped
  BY <1>5 DEF ending, last
<1> QED
  BY <1>3, <1>6 DEF WroteOn, t

\* The first turn arrives.
LEMMA FirstArrives ==
  ASSUME NEW d, Base(d), NEW a \in Accounts, NEW p \in Slots, <<a, p>> \in DOMAIN d.tb,
         NEW t, t = VisitPeriod(Start(d, a, p), p + 1)
  PROVE  Arrived(d, t.d.tb, a, p)
<1> DEFINE s == Start(d, a, p)
           q == p + 1
           y == YearOf[p]
<1>1. Carrying(s, d, a, p)
  BY StartCarrying
<1>2. s.d = d /\ ~s.stopped /\ s.year = y /\ q = p + 1 /\ y = YearOf[p] /\ t = VisitPeriod(s, q)
  BY DEF Start
<1> HIDE DEF s, q, y
<1>3. ASSUME q \in d.periods, a \notin RevExp PROVE <<a, q>> \in DOMAIN t.d.tb
  <2>1. \E x : Crossed(x, s, a) /\ WroteOn(t, s, a, q, x)
    BY <1>1, <1>2, <1>3, PeriodGoes DEF Idle, Halted, NewYear
  <2>2. WroteOn(t, s, a, q, d)
    BY <1>2, <1>3, <2>1 DEF Crossed
  <2>3. t.d = Write(d, <<a, q>>, TurnRow(s, a, q)) /\ IsDB(d)
    BY <2>2 DEF WroteOn, Base
  <2> HIDE DEF TurnRow
  <2> QED
    BY <2>3, WriteTable
<1>4. ASSUME Gives(d, a, p) PROVE Credited(t.d.tb, y, ProfitLoss(d.gl, y))
  <2> DEFINE u == updateRetainedEarnings(d, y)
             x == u.d
  <2>1. /\ q \in s.d.periods /\ NewYear(s, a, q) /\ s.year \in s.d.yearclosed
        /\ CanRetain(s.d, s.year) /\ a # YearEndEquityAccount /\ CanRetain(d, y)
    BY <1>2, <1>4, LedgerAssumption DEF Gives, NewYear
  <2>2. y \in Years /\ y \in Followed
    BY <1>2, <1>4, GivesFollowed
  <2>3. WroteOn(t, s, a, q, x)
    BY <1>1, <1>2, <2>1, PeriodCrosses
  <2>4. Credited(x.tb, y, ProfitLoss(d.gl, y))
    BY <2>1, <2>2, RetainCredits
  <2>5. IsDB(x)
    BY RetainCarries, CarriedFields DEF Base
  <2> DEFINE k == <<a, q>>
             row == TurnRow(s, a, q)
             e == t.d
  <2>6. e = Write(x, k, row) /\ k[1] = a
    BY <2>3 DEF WroteOn
  <2> HIDE DEF u, x, k, row
  <2>7. Credited(e.tb, y, ProfitLoss(d.gl, y))
    BY <2>1, <2>4, <2>5, <2>6, WriteLeaves
  <2> QED
    BY <2>7
<1> QED
  BY <1>2, <1>3, <1>4 DEF Arrived

\* Carrying an account forward keeps the credits and arrives.
LEMMA ForwardCredits ==
  ASSUME NEW d, Base(d), d.yearclosed \subseteq Years, NEW a \in Accounts, NEW p \in Slots,
         <<a, p>> \in DOMAIN d.tb, NEW e, e = forwardUpdateTrialBalance(d, a, p)
  PROVE  KeepsCredit(d.tb, e.tb, d.gl, Followed) /\ Arrived(d, e.tb, a, p)
<1> DEFINE n == NSlots - p
           b == Start(d, a, p)
           s == SlotsAfter(p)
           x == Finish(PeriodLoop(b, s), p)
<1>1. n \in Nat /\ DOMAIN s = 1..n
  BY LaterSlots
<1>2. Carrying(b, d, a, p) /\ b.d = d
  <2>1. b.d = d
    BY DEF Start
  <2> QED
    BY <2>1, StartCarrying
<1>3. e = WithBalances(d, x)
  BY DEF PeriodLoop, forwardUpdateTrialBalance
<1>4. x = Finish(PeriodLoop(b, s), p) /\ b = Start(d, a, p)
  OBVIOUS
<1>5. 1 \in 1..n => s[1] = p + 1
  BY SlotsAfterP
<1>6. p + 1 \in d.periods => 1 \in 1..n
  BY LedgerAssumption DEF Slots, Base
<1> HIDE DEF n, b, s, x
<1>7. PICK g : /\ g[0] = b /\ \A i \in 1..n : g[i] = VisitPeriod(g[i - 1], s[i])
               /\ PeriodLoop(b, s) = g[n]
  BY ONLY <1>1, PeriodChain, SMTT(60)
<1> DEFINE Z == {i \in 0..n : /\ Carrying(g[i], d, a, p)
                              /\ KeepsCredit(d.tb, g[i].d.tb, d.gl, Followed)
                              /\ i # 0 => Arrived(d, g[i].d.tb, a, p)}
<1>8. 0 \in Z
  BY <1>1, <1>2, <1>7, KeepsCreditSelf
<1>9. ASSUME NEW i \in 1..n, i - 1 \in Z PROVE i \in Z
  <2> DEFINE c == g[i - 1]
             t == g[i]
             q == s[i]
  <2>1. /\ t = VisitPeriod(c, q) /\ Carrying(c, d, a, p)
        /\ KeepsCredit(d.tb, c.d.tb, d.gl, Followed)
        /\ i # 1 => Arrived(d, c.d.tb, a, p)
        /\ i = 1 => c = b /\ q = p + 1
    BY <1>5, <1>7, <1>9
  <2> HIDE DEF c, t, q
  <2>2. Carrying(t, d, a, p)
    BY <2>1, VisitPeriodCarries
  <2>3. KeepsCredit(c.d.tb, t.d.tb, d.gl, Followed)
    BY <2>1, PeriodCredits
  <2>4. Arrived(d, t.d.tb, a, p)
    <3>1. CASE i = 1
      BY <1>4, <2>1, <3>1, FirstArrives
    <3>2. CASE i # 1
      BY <2>1, <2>3, <3>2, ArrivedKept
    <3> QED
      BY <3>1, <3>2
  <2>5. KeepsCredit(d.tb, t.d.tb, d.gl, Followed)
    BY <2>1, <2>3, KeepsCreditTwice
  <2> QED
    BY <2>2, <2>4, <2>5 DEF t
<1>10. n \in Z
  <2> HIDE DEF Z
  <2>1. \A i \in 0..n : i \in Z
    BY ONLY <1>1, <1>8, <1>9, Counting
  <2> QED
    BY <1>1, <2>1
<1>11. Arrived(d, g[n].d.tb, a, p)
  <2>1. CASE n = 0
    <3>1. p + 1 \notin d.periods
      BY <1>6, <2>1
    <3> QED
      BY <3>1 DEF Arrived, Gives
  <2>2. CASE n # 0
    BY <1>10, <2>2
  <2> QED
    BY <2>1, <2>2
<1>12. KeepsCredit(g[n].d.tb, x.tb, d.gl, Followed)
  BY <1>4, <1>7, <1>10, FinishCredits
<1>13. e.tb = x.tb
  BY <1>3, BalanceTables DEF Base
<1> QED
  BY <1>10, <1>11, <1>12, <1>13, KeepsCreditTwice, ArrivedKept

-----------------------------------------------------------------------------
(* Closing periods, posting and taking back keep the credits.              *)

\* The first part of an account's turn: its row is there and settled.
LEMMA SettlingCredits ==
  ASSUME NEW d, Base(d), d.yearclosed \subseteq Years, NEW a \in Accounts, NEW p \in Slots,
         NEW x, x = Settling(d, a, p)
  PROVE  KeepsCredit(d.tb, x.tb, d.gl, Followed) /\ <<a, p>> \in DOMAIN x.tb /\ Carried(d, x)
<1> DEFINE k == <<a, p>>
<1>1. PICK w, row : SettledBy(d, w, row, a, p)
  BY SettlingParts
<1>2. /\ w = Write(d, k, row) /\ BeginsAs(d.tb, w.tb, k) /\ Carried(d, w) /\ IsDB(d)
      /\ IF k \in DOMAIN d.tb THEN x = forwardUpdateTrialBalance(w, a, p) ELSE x = w
  BY <1>1 DEF SettledBy, Base
<1>3. Base(w) /\ w.gl = d.gl /\ w.yearclosed = d.yearclosed
  BY <1>2, CarriedFields
<1> HIDE DEF k
<1>4. w.tb[k] = row /\ k \in DOMAIN w.tb
  BY <1>2, WriteTable
<1>5. KeepsCredit(d.tb, w.tb, d.gl, Followed)
  BY <1>2, <1>4, WriteCredits DEF BeginsAs
<1>6. CASE k \in DOMAIN d.tb
  <2>1. x = forwardUpdateTrialBalance(w, a, p)
    BY <1>2, <1>6
  <2>2. KeepsCredit(w.tb, x.tb, w.gl, Followed)
    BY <1>3, <1>4, <2>1, ForwardCredits DEF k
  <2>3. Carried(w, x)
    BY <1>3, <1>4, <2>1, ForwardCarries DEF k
  <2>4. Carried(d, x)
    BY <1>2, <2>3, CarriedTwice
  <2>5. k \in DOMAIN x.tb
    BY <1>4, <2>2 DEF KeepsCredit
  <2> QED
    BY <1>3, <1>5, <2>2, <2>4, <2>5, KeepsCreditTwice DEF k
<1>7. CASE k \notin DOMAIN d.tb
  BY <1>2, <1>4, <1>5, <1>7 DEF k
<1> QED
  BY <1>6, <1>7

LEMMA CloseCredits ==
  ASSUME NEW d, Base(d), d.yearclosed \subseteq Years, NEW a \in Accounts, NEW p \in Slots,
         p + 1 \in Slots, NEW e, e = CloseAccount(d, <<a, p>>)
  PROVE  KeepsCredit(d.tb, e.tb, d.gl, Followed) /\ <<a, p>> \in DOMAIN e.tb /\ Carried(d, e)
<1> DEFINE x == Settling(d, a, p)
           next == <<a, p + 1>>
           row == NextOf(x, a, p, EndingAt(d, a, p))
<1>1. e = Write(x, next, row)
  BY CloseParts
<1>2. /\ next \in DOMAIN x.tb => row.yearend = x.tb[next].yearend
      /\ next \notin DOMAIN x.tb => row.yearend = 0
  BY DEF NextOf, Rebased, Row
<1>3. Carried(d, e)
  <2>1. <<a, p>> \in Keys /\ <<a, p>>[2] + 1 \in Slots
    BY DEF Keys
  <2> QED
    BY <2>1, CloseAccountCarries
<1>4. x = Settling(d, a, p)
  OBVIOUS
<1> HIDE DEF x, next, row
<1>5. KeepsCredit(d.tb, x.tb, d.gl, Followed) /\ <<a, p>> \in DOMAIN x.tb /\ Carried(d, x)
  BY <1>4, SettlingCredits
<1>6. IsDB(x)
  BY <1>5, CarriedFields DEF Base
<1>7. KeepsCredit(x.tb, e.tb, d.gl, Followed)
  BY <1>1, <1>2, <1>6, WriteCredits
<1>8. <<a, p>> \in DOMAIN e.tb
  BY <1>5, <1>7 DEF KeepsCredit
<1> QED
  BY <1>3, <1>5, <1>7, <1>8, KeepsCreditTwice

LEMMA CloseLoopCredits ==
  ASSUME NEW d, Base(d), d.yearclosed \subseteq Years, NEW p \in Slots, p + 1 \in Slots,
         NEW n \in Nat, \A i \in 1..n : AccountOrder[i] \in Accounts,
         NEW s, DOMAIN s = 1..n, \A i \in 1..n : s[i] = <<AccountOrder[i], p>>,
         NEW e, e = CloseLoop(d, s)
  PROVE  KeepsCredit(d.tb, e.tb, d.gl, Followed) /\ \A i \in 1..n : s[i] \in DOMAIN e.tb
<1>0. n \in Nat /\ DOMAIN s = 1..n
  OBVIOUS
<1>1. PICK g : /\ g[0] = d /\ \A i \in 1..n : g[i] = CloseAccount(g[i - 1], s[i])
               /\ CloseLoop(d, s) = g[n]
  BY ONLY <1>0, CloseChain, SMTT(60)
<1> DEFINE Z == {i \in 0..n : /\ Carried(d, g[i]) /\ KeepsCredit(d.tb, g[i].tb, d.gl, Followed)
                              /\ \A j \in 1..i : s[j] \in DOMAIN g[i].tb}
<1>2. 0 \in Z
  <2>1. Carried(d, d) /\ KeepsCredit(d.tb, d.tb, d.gl, Followed)
    BY CarriedSelf, KeepsCreditSelf
  <2> QED
    BY <1>1, <2>1
<1>3. ASSUME NEW i \in 1..n, i - 1 \in Z PROVE i \in Z
  <2> DEFINE c == g[i - 1]
             u == g[i]
             a == AccountOrder[i]
  <2>1. /\ Carried(d, c) /\ KeepsCredit(d.tb, c.tb, d.gl, Followed)
        /\ \A j \in 1..(i - 1) : s[j] \in DOMAIN c.tb
        /\ u = CloseAccount(c, <<a, p>>) /\ a \in Accounts /\ s[i] = <<a, p>>
    BY <1>1, <1>3
  <2> HIDE DEF c, u, a
  <2>2. Base(c) /\ c.gl = d.gl /\ c.yearclosed = d.yearclosed
    BY <2>1, CarriedFields
  <2>3. KeepsCredit(c.tb, u.tb, d.gl, Followed) /\ <<a, p>> \in DOMAIN u.tb /\ Carried(c, u)
    BY <2>1, <2>2, CloseCredits
  <2>4. \A j \in 1..i : s[j] \in DOMAIN u.tb
    <3>1. \A j \in 1..i : j \in 1..(i - 1) \/ j = i
      OBVIOUS
    <3> QED
      BY <2>1, <2>3, <3>1 DEF KeepsCredit
  <2>5. Carried(d, u) /\ KeepsCredit(d.tb, u.tb, d.gl, Followed)
    BY <2>1, <2>3, CarriedTwice, KeepsCreditTwice
  <2> QED
    BY <2>4, <2>5 DEF u
<1>4. n \in Z
  <2> HIDE DEF Z
  <2>1. \A i \in 0..n : i \in Z
    BY ONLY <1>0, <1>2, <1>3, Counting
  <2> QED
    BY <1>0, <2>1
<1> QED
  BY <1>1, <1>4

\* The rows that make up the result of a year.
LossRows(gl, y) ==
    {i \in DOMAIN gl : /\ gl[i].accnt \in RevExp /\ gl[i].posted /\ ~gl[i].deleted
                       /\ YearOf[gl[i].period] = y}

LEMMA LossIs == \A gl, y : ProfitLoss(gl, y) = Total(gl, LossRows(gl, y))
  BY DEF ProfitLoss, SumOf, Total, AmountsOf, LossRows

\* A row of another year makes no difference to it.
LEMMA LossesBut ==
  ASSUME NEW gl, NEW hl, SameLines(gl, hl), NEW i, SameBut(gl, hl, i), NEW y,
         i \in DOMAIN gl => YearOf[gl[i].period] # y
  PROVE  ProfitLoss(hl, y) = ProfitLoss(gl, y)
<1>1. AmountsOf(hl) = AmountsOf(gl)
  BY DEF AmountsOf, SameLines
<1>2. LossRows(hl, y) = LossRows(gl, y)
  <2>1. ASSUME NEW j \in DOMAIN gl PROVE j \in LossRows(hl, y) <=> j \in LossRows(gl, y)
    <3>1. CASE j = i
      BY <2>1, <3>1 DEF LossRows, SameLines
    <3>2. CASE j # i
      BY <2>1, <3>2 DEF LossRows, SameLines, SameBut
    <3> QED
      BY <3>1, <3>2
  <2>2. LossRows(hl, y) \subseteq DOMAIN gl /\ LossRows(gl, y) \subseteq DOMAIN gl
    BY DEF LossRows, SameLines
  <2> QED
    BY <2>1, <2>2
<1> QED
  BY <1>1, <1>2, LossIs DEF Total

\* From d to e by posting or taking back rows of none of the years: their
\* results and their credits stay.
Booked(d, e, years) ==
    /\ Ledgered(e) /\ SameLines(d.gl, e.gl) /\ e.periods = d.periods
    /\ e.yearclosed = d.yearclosed
    /\ KeepsCredit(d.tb, e.tb, d.gl, years)
    /\ \A y \in years : ProfitLoss(e.gl, y) = ProfitLoss(d.gl, y)

LEMMA BookedSelf == ASSUME NEW d, Ledgered(d), NEW years PROVE Booked(d, d, years)
  BY KeepsCreditSelf DEF Booked, SameLines

LEMMA BookedTwice ==
  ASSUME NEW d, NEW e, NEW f, NEW years, Booked(d, e, years), Booked(e, f, years)
  PROVE  Booked(d, f, years)
<1>1. SameLines(d.gl, f.gl)
  BY DEF Booked, SameLines
<1>2. KeepsCredit(d.tb, f.tb, d.gl, years)
  BY DEF Booked, KeepsCredit
<1> QED
  BY <1>1, <1>2 DEF Booked

\* The row i of d is of a period that exists, in none of the years.
Late(d, i, years) ==
    i \in DOMAIN d.gl /\ d.gl[i].period \in d.periods /\ YearOf[d.gl[i].period] \notin years

LEMMA StillLate ==
  ASSUME NEW d, NEW e, NEW years, Booked(d, e, years), NEW i, Late(d, i, years)
  PROVE  Late(e, i, years) /\ (HasBalance(d, i) => HasBalance(e, i))
  BY DEF Late, Booked, SameLines, HasBalance, KeepsCredit

\* A turn of posting or of taking back.
LEMMA TurnBooks ==
  ASSUME NEW d, Ledgered(d), d.yearclosed \subseteq Years, NEW years, years \subseteq Followed,
         NEW i, Late(d, i, years), NEW e, RowTurn(d, e, i)
  PROVE  Booked(d, e, years)
<1> DEFINE a == d.gl[i].accnt
           p == d.gl[i].period
           k == <<a, p>>
<1>1. /\ a \in Accounts /\ p \in Slots /\ i \in DOMAIN d.gl /\ p \in d.periods
      /\ Base(d) /\ IsDB(d) /\ k \in Keys
  BY DEF Ledgered, Lines, IsLine, Late, Base, Keys
<1>2. PICK row, hl : /\ Entered(d, k, row) /\ Lines(hl) /\ SameLines(d.gl, hl)
                     /\ SameBut(d.gl, hl, i) /\ e = RowDone(d, a, p, row, hl)
  BY DEF RowTurn
<1>3. Stepped(d, e, {})
  BY <1>1, TurnSteady DEF AllBefore
<1> DEFINE w == Write(d, k, row)
           f == ForwardIfShould(w, a, p)
<1>4. /\ e = [f EXCEPT !.gl = hl] /\ w = Write(d, k, row) /\ w = Write(d, <<a, p>>, row)
      /\ f = ForwardIfShould(w, a, p)
  BY <1>2 DEF RowDone
<1>5. row \in TBRows /\ BeginsAs(d.tb, w.tb, k)
  BY <1>2 DEF Entered
<1> HIDE DEF w, f
<1>6. Carried(w, f) /\ Base(f) /\ IsDB(f)
  BY <1>1, <1>4, <1>5, RowForwarded DEF Base
<1>7. Base(w) /\ w.gl = d.gl /\ w.yearclosed = d.yearclosed /\ k \in DOMAIN w.tb /\ w.tb[k] = row
  <2>1. w = WithBalances(d, w)
    BY <1>1, <1>4, WriteTable
  <2>2. w.yearclosed = d.yearclosed
    BY <1>1, <2>1, BalanceTables
  <2>3. Base(w) /\ w.gl = d.gl
    BY <1>1, <1>4, <1>5, BaseWrite
  <2>4. k \in DOMAIN w.tb /\ w.tb[k] = row
    BY <1>1, <1>4, WriteTable
  <2> QED
    BY <2>2, <2>3, <2>4
<1>8. f.yearclosed = w.yearclosed
  BY <1>6, <1>7, CarriedFields
<1>9. e.tb = f.tb /\ e.yearclosed = f.yearclosed /\ e.gl = hl
  <2>1. OtherThan(f, [f EXCEPT !.gl = hl], hl, f.sl, f.gs, f.ilp)
    BY <1>6, TablesReplaced
  <2>2. OtherThan(f, e, hl, f.sl, f.gs, f.ilp)
    BY ONLY <1>4, <2>1
  <2> QED
    BY <2>2 DEF OtherThan, SameBalances
<1>10. KeepsCredit(d.tb, w.tb, d.gl, Followed)
  BY <1>1, <1>4, <1>5, <1>7, WriteCredits DEF BeginsAs
<1>11. KeepsCredit(w.tb, f.tb, d.gl, Followed)
  <2>1. f = w \/ f = forwardUpdateTrialBalance(w, a, p)
    BY <1>4 DEF ForwardIfShould
  <2>2. CASE f = w
    BY <2>2, KeepsCreditSelf
  <2>3. CASE f = forwardUpdateTrialBalance(w, a, p)
    BY <1>1, <1>7, <2>3, ForwardCredits
  <2> QED
    BY <2>1, <2>2, <2>3
<1>12. KeepsCredit(d.tb, e.tb, d.gl, years)
  BY <1>9, <1>10, <1>11, KeepsCreditTwice, KeepsCreditLess
<1>13. \A y \in years : ProfitLoss(e.gl, y) = ProfitLoss(d.gl, y)
  BY <1>2, <1>9, LossesBut DEF Late
<1> QED
  BY <1>3, <1>7, <1>8, <1>9, <1>12, <1>13 DEF Booked, Stepped

LEMMA PostLoopBooks ==
  ASSUME NEW d, Ledgered(d), d.yearclosed \subseteq Years, NEW years, years \subseteq Followed,
         NEW n, n \in Nat, NEW order, DOMAIN order = 1..n,
         \A i \in 1..n : Late(d, order[i], years)
  PROVE  Booked(d, PostLoop(d, order), years)
<1>1. PICK g : /\ g[0] = d /\ \A i \in 1..n : g[i] = PostRow(g[i - 1], order[i])
               /\ PostLoop(d, order) = g[n]
  BY ONLY n \in Nat, DOMAIN order = 1..n, PostChain, SMTT(60)
<1> DEFINE Z == {i \in 0..n : Booked(d, g[i], years)}
<1>2. 0 \in Z
  BY <1>1, BookedSelf
<1>3. ASSUME NEW m \in 1..n, m - 1 \in Z PROVE m \in Z
  <2> DEFINE s == g[m - 1]
             u == g[m]
             i == order[m]
  <2>1. Booked(d, s, years) /\ u = PostRow(s, i) /\ Late(d, i, years)
    BY <1>1, <1>3
  <2> HIDE DEF s, u, i
  <2>2. Late(s, i, years) /\ Ledgered(s) /\ s.yearclosed \subseteq Years
    BY <2>1, StillLate DEF Booked
  <2>3. RowTurn(s, u, i)
    BY <2>1, <2>2, PostRowIs DEF Late
  <2>4. Booked(d, u, years)
    BY <2>1, <2>2, <2>3, TurnBooks, BookedTwice
  <2> QED
    BY <2>4 DEF u
<1>4. n \in Z
  <2> HIDE DEF Z
  <2>1. \A i \in 0..n : i \in Z
    BY ONLY n \in Nat, <1>2, <1>3, Counting
  <2> QED
    BY <2>1
<1> QED
  BY <1>1, <1>4

LEMMA UnpostLoopBooks ==
  ASSUME NEW d, Ledgered(d), d.yearclosed \subseteq Years, NEW years, years \subseteq Followed,
         NEW n, n \in Nat, NEW order, DOMAIN order = 1..n,
         \A i \in 1..n : Late(d, order[i], years) /\ HasBalance(d, order[i])
  PROVE  Booked(d, UnpostLoop(d, order), years)
<1>1. PICK g : /\ g[0] = d /\ \A i \in 1..n : g[i] = UnpostRow(g[i - 1], order[i])
               /\ UnpostLoop(d, order) = g[n]
  BY ONLY n \in Nat, DOMAIN order = 1..n, UnpostChain, SMTT(60)
<1> DEFINE Z == {i \in 0..n : Booked(d, g[i], years)}
<1>2. 0 \in Z
  BY <1>1, BookedSelf
<1>3. ASSUME NEW m \in 1..n, m - 1 \in Z PROVE m \in Z
  <2> DEFINE s == g[m - 1]
             u == g[m]
             i == order[m]
  <2>1. Booked(d, s, years) /\ u = UnpostRow(s, i) /\ Late(d, i, years) /\ HasBalance(d, i)
    BY <1>1, <1>3
  <2> HIDE DEF s, u, i
  <2>2. Late(s, i, years) /\ HasBalance(s, i) /\ Ledgered(s) /\ s.yearclosed \subseteq Years
    BY <2>1, StillLate DEF Booked
  <2>3. RowTurn(s, u, i)
    BY <2>1, <2>2, UnpostRowIs DEF Late, HasBalance
  <2>4. Booked(d, u, years)
    BY <2>1, <2>2, <2>3, TurnBooks, BookedTwice
  <2> QED
    BY <2>4 DEF u
<1>4. n \in Z
  <2> HIDE DEF Z
  <2>1. \A i \in 0..n : i \in Z
    BY ONLY n \in Nat, <1>2, <1>3, Counting
  <2> QED
    BY <2>1
<1> QED
  BY <1>1, <1>4

\* postIntoTrialBalance, when no row of the years waits for it.
LEMMA PostingCredits ==
  ASSUME NEW d, Ledgered(d), d.yearclosed \subseteq Years, NEW years, years \subseteq Followed,
         NEW seqs, NEW priv, \A i \in Pending(d, seqs, priv) : YearOf[d.gl[i].period] \notin years,
         NEW e, e = postIntoTrialBalance(d, seqs, priv)
  PROVE  KeepsCredit(d.tb, e.tb, d.gl, years)
<1> DEFINE ids == Pending(d, seqs, priv)
           order == InSequence(ids)
           m == Cardinality(ids)
           gl == [i \in DOMAIN d.gl |-> [d.gl[i] EXCEPT !.posted = @ \/ i \in ids]]
           s == PostLoop(d, order)
<1>1. e.tb = s.tb
  <2> DEFINE done == FoldLeft(PostRow, d, InSequence(ids))
  <2>1. e = [WithBalances(d, done) EXCEPT !.gl = gl] /\ IsDB(d)
    BY DEF postIntoTrialBalance, Ledgered, Base
  <2>2. done = s
    BY DEF PostLoop
  <2> HIDE DEF done, s, gl
  <2>3. e.tb = done.tb
    BY <2>1 DEF WithBalances, IsDB
  <2> QED
    BY <2>2, <2>3
<1>2. \A i \in ids : Late(d, i, years)
  BY DEF Pending, Postable, Late
<1>3. IsSeq(d.gl) /\ ids \subseteq DOMAIN d.gl
  BY DEF Ledgered, Lines, Pending
<1> HIDE DEF ids, gl, s, order, m
<1>4. /\ m \in Nat /\ DOMAIN order = 1..m
      /\ \A i \in 1..m : order[i] \in ids
  BY <1>3, OrderOf DEF order, m
<1>5. Booked(d, s, years)
  BY <1>2, <1>4, PostLoopBooks DEF s
<1> QED
  BY <1>1, <1>5 DEF Booked

-----------------------------------------------------------------------------
(* Closed years from one state to the next.                                *)

\* The year-end equity account comes before some revenue or expense account.
EquityEarly ==
    \E m, n \in DOMAIN AccountOrder :
        m < n /\ AccountOrder[m] = YearEndEquityAccount /\ AccountOrder[n] \in RevExp

\* The invariant: the equity account has its row in every closed period, and
\* the result of a closed year, and nothing else, is credited as soon as the
\* next year has begun.
EarnedBooks ==
    /\ YearEnds(trialbal)
    /\ \A p \in closed : <<YearEndEquityAccount, p>> \in DOMAIN trialbal
    /\ \A y \in yearclosed :
         /\ y + 1 \in Years
         /\ FirstSlot(y + 1) \in periods => Credited(trialbal, y, ProfitLoss(gltrans, y))

LEMMA EarnedNow ==
  ASSUME Standing, EarnedBooks
  PROVE  /\ yearclosed \subseteq Years /\ yearclosed \subseteq Followed
         /\ Ledgered(DB) /\ Base(DB) /\ DB.tb = trialbal /\ DB.gl = gltrans
         /\ DB.periods = periods /\ DB.closed = closed /\ DB.yearclosed = yearclosed
<1>1. /\ DB.gl = gltrans /\ DB.periods = periods /\ DB.closed = closed /\ DB.tb = trialbal
      /\ DB.yearclosed = yearclosed /\ Base(DB)
  BY Now DEF Standing
<1>2. Ledgered(DB)
  BY <1>1, LedgerLines DEF Ledgered, Standing, ClosedBooks
<1>3. yearclosed \subseteq Years
  BY YearNumbers DEF Standing, CalendarInv
<1> QED
  BY <1>1, <1>2, <1>3 DEF EarnedBooks, Followed

\* A period of a closed year is closed.
LEMMA OpenYears ==
  ASSUME CalendarInv, NEW p \in periods \ closed
  PROVE  YearOf[p] \notin yearclosed
BY DEF CalendarInv, ClosedInOrder

\* The result of a year rests on the posted rows of its periods.
LEMMA KeptLosses ==
  ASSUME NEW gl, NEW hl, NEW pers, NEW qers, Sound(gl, pers), Sound(hl, qers),
         NEW shut, Kept(gl, hl, shut), NEW y,
         \A p \in pers \cup qers : YearOf[p] = y => p \in shut
  PROVE  ProfitLoss(hl, y) = ProfitLoss(gl, y)
<1> DEFINE S == LossRows(gl, y)
           f == AmountsOf(gl)
           h == AmountsOf(hl)
<1>1. ASSUME NEW i \in S PROVE i \in LossRows(hl, y) /\ hl[i].amount = gl[i].amount
  <2> DEFINE p == gl[i].period
  <2>1. /\ i \in DOMAIN gl /\ gl[i].accnt \in RevExp /\ gl[i].posted /\ YearOf[p] = y
        /\ p \in shut
    BY <1>1 DEF LossRows, Sound
  <2>2. i \in PostedIn(gl, p)
    BY <2>1 DEF PostedIn
  <2>3. i \in PostedIn(hl, p) /\ hl[i].accnt = gl[i].accnt /\ hl[i].amount = gl[i].amount
    BY <2>1, <2>2 DEF Kept
  <2>4. i \in DOMAIN hl /\ hl[i].period = p /\ hl[i].posted
    BY <2>3 DEF PostedIn
  <2> QED
    BY <2>1, <2>3, <2>4 DEF LossRows, Sound
<1>2. ASSUME NEW i \in LossRows(hl, y) PROVE i \in S
  <2> DEFINE p == hl[i].period
  <2>1. i \in DOMAIN hl /\ hl[i].accnt \in RevExp /\ hl[i].posted /\ YearOf[p] = y /\ p \in shut
    BY <1>2 DEF LossRows, Sound
  <2>2. i \in PostedIn(hl, p)
    BY <2>1 DEF PostedIn
  <2>3. i \in PostedIn(gl, p) /\ hl[i].accnt = gl[i].accnt
    BY <2>1, <2>2 DEF Kept
  <2>4. i \in DOMAIN gl /\ gl[i].period = p /\ gl[i].posted
    BY <2>3 DEF PostedIn
  <2> QED
    BY <2>1, <2>3, <2>4 DEF LossRows, Sound
<1>3. S \subseteq DOMAIN gl /\ S \subseteq DOMAIN hl /\ IsSeq(gl)
  BY <1>1 DEF LossRows, Sound
<1>4. LossRows(hl, y) = S
  BY <1>1, <1>2
<1>5. \A i \in S : h[i] = f[i]
  BY <1>1, <1>3 DEF AmountsOf
<1> HIDE DEF S, f, h
<1>6. IsFiniteSet(S)
  BY <1>3, PositionsFinite
<1>7. SumFunctionOnSet(h, S) = SumFunctionOnSet(f, S)
  BY <1>5, <1>6, SumEqual
<1> QED
  BY <1>4, <1>7, LossIs DEF Total, S, f, h

\* A year closed before and after a step has the same result.
LEMMA LossesStay ==
  ASSUME Standing, Standing', Preserved, closed \subseteq periods', closed' \subseteq periods,
         NEW y, y \in yearclosed, y \in yearclosed'
  PROVE  ProfitLoss(gltrans', y) = ProfitLoss(gltrans, y)
<1> DEFINE shut == closed \cap closed'
           pers == periods
           qers == periods'
           gl == gltrans
           hl == gltrans'
<1>1. Sound(gl, pers) /\ Sound(hl, qers) /\ Kept(gl, hl, shut)
  BY DEF Standing, IInv, Preserved
<1>2. /\ \A p \in periods : YearOf[p] = y => p \in closed
      /\ \A p \in periods' : YearOf[p] = y => p \in closed'
  BY DEF Standing, CalendarInv, ClosedInOrder
<1>3. \A p \in pers \cup qers : YearOf[p] = y => p \in shut
  BY <1>2
<1> HIDE DEF shut, pers, qers, gl, hl
<1>4. ProfitLoss(hl, y) = ProfitLoss(gl, y)
  BY <1>1, <1>3, KeptLosses
<1> QED
  BY <1>4 DEF gl, hl

\* A step that leaves the periods alone, closes none, and keeps the credits.
LEMMA EarnsOn ==
  ASSUME Standing, Standing', Preserved, EarnedBooks,
         KeepsCredit(trialbal, trialbal', gltrans, yearclosed),
         periods' = periods, closed' \subseteq closed, yearclosed' \subseteq yearclosed
  PROVE  EarnedBooks'
<1>1. closed \subseteq periods' /\ closed' \subseteq periods
  BY DEF Standing, CalendarInv
<1>2. ASSUME NEW y \in yearclosed'
      PROVE  /\ y + 1 \in Years
             /\ FirstSlot(y + 1) \in periods => Credited(trialbal', y, ProfitLoss(gltrans', y))
  <2>1. y \in yearclosed /\ ProfitLoss(gltrans', y) = ProfitLoss(gltrans, y)
    BY <1>1, <1>2, LossesStay
  <2> QED
    BY <2>1 DEF EarnedBooks, KeepsCredit
<1>3. \A p \in closed' : <<YearEndEquityAccount, p>> \in DOMAIN trialbal'
  BY DEF EarnedBooks, KeepsCredit
<1>4. YearEnds(trialbal)'
  BY DEF EarnedBooks, KeepsCredit, YearEnds
<1> QED
  BY <1>2, <1>3, <1>4 DEF EarnedBooks

\* A posting into the balances as they are, with periods closed as before or
\* fewer of them.
LEMMA PostingEarns ==
  ASSUME Standing, Standing', Preserved, EarnedBooks,
         NEW d, Good(d), d.tb = trialbal, d.periods = periods, d.closed \subseteq closed,
         \A p \in periods \ d.closed : YearOf[p] \notin yearclosed,
         \A y \in yearclosed : ProfitLoss(d.gl, y) = ProfitLoss(gltrans, y),
         yearclosed' \subseteq yearclosed,
         NEW seqs, NEW priv, NEW n, Commit(postIntoTrialBalance(d, seqs, priv), n)
  PROVE  EarnedBooks'
<1> DEFINE e == postIntoTrialBalance(d, seqs, priv)
<1>1. /\ gltrans' = e.gl /\ trialbal' = e.tb /\ periods' = e.periods /\ closed' = e.closed
      /\ yearclosed' = e.yearclosed
  BY DEF Commit
<1>2. e.periods = d.periods /\ e.closed = d.closed /\ e.yearclosed = d.yearclosed
  BY PostingFields DEF Good
<1>3. GLTyped(gltrans') /\ TBTyped(trialbal) /\ periods \subseteq Slots
  <2>1. BInv' => GLTyped(gltrans')
    BY Now DEF BInv, Books, Tallied, DB
  <2> QED
    BY <2>1, Now DEF Standing, Base, CalendarInv
<1>4. e = postIntoTrialBalance(d, seqs, priv)
  OBVIOUS
<1> HIDE DEF e
<1>5. Lines(d.gl)
  BY <1>1, <1>3, <1>4, PostedLines
<1>6. Ledgered(d)
  BY <1>3, <1>5, LinesAreRows DEF Ledgered, Base, Good, Standing, ClosedBooks
<1>7. d.yearclosed \subseteq Years /\ yearclosed \subseteq Followed
  BY <1>1, <1>2, EarnedNow
<1>8. \A i \in Pending(d, seqs, priv) : YearOf[d.gl[i].period] \notin yearclosed
  BY DEF Pending, Postable
<1>9. KeepsCredit(d.tb, e.tb, d.gl, yearclosed)
  BY <1>4, <1>6, <1>7, <1>8, PostingCredits
<1>10. KeepsCredit(trialbal, trialbal', gltrans, yearclosed)
  BY <1>1, <1>9 DEF KeepsCredit
<1> QED
  BY <1>1, <1>2, <1>10, EarnsOn

LEMMA RoutineEarns ==
  ASSUME Standing, Standing', EarnedBooks, Routine, yearclosed' \subseteq yearclosed
  PROVE  EarnedBooks'
<1>0. Preserved
  BY DEF Routine
<1>1. CASE UNCHANGED <<trialbal, periods, closed>>
  <2>1. KeepsCredit(trialbal, trialbal', gltrans, yearclosed)
    BY <1>1, KeepsCreditSelf
  <2> QED
    BY <1>0, <1>1, <2>1, EarnsOn
<1>2. CASE \E d, seqs, priv, n : /\ AsIs(d) /\ Kept(gltrans, d.gl, closed)
                                 /\ Commit(postIntoTrialBalance(d, seqs, priv), n)
  <2>1. PICK d, seqs, priv, n : /\ AsIs(d) /\ Kept(gltrans, d.gl, closed)
                                /\ Commit(postIntoTrialBalance(d, seqs, priv), n)
    BY <1>2
  <2>2. Good(d) /\ d.tb = trialbal /\ d.periods = periods /\ d.closed = closed
    BY <2>1 DEF AsIs
  <2>3. \A p \in periods \ d.closed : YearOf[p] \notin yearclosed
    BY <2>2, OpenYears DEF Standing
  <2>4. ASSUME NEW y \in yearclosed PROVE ProfitLoss(d.gl, y) = ProfitLoss(gltrans, y)
    <3>1. \A p \in periods : YearOf[p] = y => p \in closed
      BY <2>4 DEF Standing, CalendarInv, ClosedInOrder
    <3>2. Sound(gltrans, periods) /\ Sound(d.gl, periods)
      BY <2>2 DEF Standing, IInv, Good
    <3> QED
      BY <2>1, <3>1, <3>2, KeptLosses
  <2> QED
    BY <1>0, <2>1, <2>2, <2>3, <2>4, PostingEarns
<1> QED
  BY <1>1, <1>2 DEF Routine

\* openAccountingPeriod, of a period in an open year.
LEMMA OpenEarns ==
  ASSUME Standing, Standing', Preserved, EarnedBooks, NEW p, NEW priv,
         OpenAccountingPeriod(p, priv)
  PROVE  EarnedBooks'
<1> DEFINE left == DB.closed \ {p}
           d == [DB EXCEPT !.closed = left]
<1>1. Commit(postIntoTrialBalance(d, UnpostedIn(p), priv), sequence) /\ YearOf[p] \notin yearclosed
  BY DEF OpenAccountingPeriod, Reopen
<1>2. d = [DB EXCEPT !.closed = left] /\ left = closed \ {p}
  BY DBGood DEF Standing
<1> HIDE DEF left, d
<1>3. Good(DB) /\ DB.periods = periods /\ DB.tb = trialbal /\ DB.gl = gltrans
  BY DBGood DEF Standing
<1>4. SameLedger(DB, d) /\ d.periods = DB.periods /\ d.closed = left
  BY <1>2, <1>3, ClosedReplaced DEF Good
<1>5. Good(d) /\ d.tb = trialbal /\ d.periods = periods /\ d.closed \subseteq closed
      /\ d.gl = gltrans
  BY <1>2, <1>3, <1>4, Flagging DEF SameLedger
<1>6. ASSUME NEW q \in periods \ d.closed PROVE YearOf[q] \notin yearclosed
  <2>1. CASE q = p
    BY <1>1, <2>1
  <2>2. CASE q # p
    BY <1>2, <1>4, <1>6, <2>2, OpenYears DEF Standing
  <2> QED
    BY <2>1, <2>2
<1>7. yearclosed' \subseteq yearclosed
  BY OpenFields
<1>8. \A y \in yearclosed : ProfitLoss(d.gl, y) = ProfitLoss(gltrans, y)
  BY <1>5
<1> QED
  BY <1>1, <1>5, <1>6, <1>7, <1>8, PostingEarns

\* deleteGlSeries takes rows of open periods back.
LEMMA DeleteSeriesEarns ==
  ASSUME Standing, Standing', Preserved, EarnedBooks, NEW seq, NEW priv,
         DeleteGLSeries(seq, priv), yearclosed' = yearclosed
  PROVE  EarnedBooks'
<1>1. PICK m, order : TakesBack(m, order)
  BY DeleteSeriesIs
<1>2. /\ yearclosed \subseteq Years /\ yearclosed \subseteq Followed /\ Ledgered(DB)
      /\ DB.tb = trialbal /\ DB.gl = gltrans /\ DB.periods = periods /\ DB.closed = closed
      /\ DB.yearclosed = yearclosed
  BY EarnedNow
<1> DEFINE done == UnpostLoop(DB, order)
<1>3. m \in Nat /\ DOMAIN order = 1..m
  BY <1>1 DEF TakesBack
<1>4. ASSUME NEW i \in 1..m
      PROVE  Late(DB, order[i], yearclosed) /\ HasBalance(DB, order[i])
  <2> DEFINE j == order[i]
             p == gltrans[j].period
  <2>1. Ripe(DB, j, closed) /\ HasBalance(DB, j)
    BY <1>1 DEF TakesBack
  <2>2. j \in DOMAIN gltrans /\ p \in periods /\ AllBefore(closed, p)
    BY <1>2, <2>1 DEF Ripe
  <2>3. p \notin closed
    BY <2>2 DEF AllBefore
  <2>4. YearOf[p] \notin yearclosed
    BY <2>2, <2>3, OpenYears DEF Standing
  <2> QED
    BY <1>2, <2>1, <2>2, <2>4 DEF Late
<1>5. trialbal' = done.tb /\ periods' = periods /\ closed' = closed
  BY <1>1 DEF TakesBack
<1>6. Booked(DB, done, yearclosed)
  BY <1>2, <1>3, <1>4, UnpostLoopBooks
<1> HIDE DEF done
<1>7. KeepsCredit(trialbal, trialbal', gltrans, yearclosed)
  BY <1>2, <1>5, <1>6 DEF Booked
<1> QED
  BY <1>5, <1>7, EarnsOn

\* closeAccountingYearPeriod credits the year.
LEMMA CloseYearEarns ==
  ASSUME Standing, Standing', Preserved, EarnedBooks, NEW y, CloseAccountingYearPeriod(y)
  PROVE  EarnedBooks'
<1> DEFINE u == updateRetainedEarnings(DB, y)
<1>1. /\ trialbal' = u.d.tb /\ periods' = periods /\ closed' = closed
      /\ yearclosed' = yearclosed \cup {y}
  BY CloseYearIs, CloseYearFields
<1>2. /\ yearclosed \subseteq Followed /\ Base(DB)
      /\ DB.tb = trialbal /\ DB.gl = gltrans
  BY EarnedNow
<1>3. u.ok /\ y \in Years /\ \A p \in periods : YearOf[p] = y => p \in closed
  BY DEF CloseAccountingYearPeriod
<1>4. CanRetain(DB, y)
  BY <1>3 DEF updateRetainedEarnings
<1>5. y \in Years /\ y \in Int /\ y + 1 \in Years
  BY <1>3, <1>4, YearNumbers DEF CanRetain
<1>6. u = updateRetainedEarnings(DB, y)
  OBVIOUS
<1> HIDE DEF u
<1>7. /\ KeepsCredit(trialbal, trialbal', gltrans, Followed)
      /\ Credited(trialbal', y, ProfitLoss(gltrans, y))
  BY <1>1, <1>2, <1>4, <1>5, <1>6, RetainCredits
<1>8. ProfitLoss(gltrans', y) = ProfitLoss(gltrans, y)
  <2>1. Sound(gltrans, periods) /\ Sound(gltrans', periods) /\ Kept(gltrans, gltrans', closed)
    BY <1>1 DEF Standing, IInv, Preserved
  <2> QED
    BY <1>3, <2>1, KeptLosses
<1>9. ASSUME NEW z \in yearclosed'
      PROVE  /\ z + 1 \in Years
             /\ FirstSlot(z + 1) \in periods => Credited(trialbal', z, ProfitLoss(gltrans', z))
  <2>1. CASE z = y
    BY <1>5, <1>7, <1>8, <2>1
  <2>2. CASE z # y
    <3>1. z \in yearclosed /\ closed \subseteq periods
      BY <1>1, <1>9, <2>2 DEF Standing, CalendarInv
    <3>2. ProfitLoss(gltrans', z) = ProfitLoss(gltrans, z)
      BY <1>1, <3>1, LossesStay
    <3> QED
      BY <1>2, <1>7, <3>1, <3>2 DEF EarnedBooks, KeepsCredit
  <2> QED
    BY <2>1, <2>2
<1>10. \A p \in closed' : <<YearEndEquityAccount, p>> \in DOMAIN trialbal'
  BY <1>1, <1>7 DEF EarnedBooks, KeepsCredit
<1>11. YearEnds(trialbal)'
  BY <1>7 DEF EarnedBooks, KeepsCredit, YearEnds
<1> QED
  BY <1>1, <1>9, <1>10, <1>11 DEF EarnedBooks

\* forwardUpdateAccount.
LEMMA ForwardEarns ==
  ASSUME Standing, Standing', Preserved, EarnedBooks, NEW a \in Accounts, ForwardUpdateAccount(a)
  PROVE  EarnedBooks'
<1>1. PICK p, w : ForwardsFrom(a, p, w)
  BY ForwardAccountIs
<1>2. /\ yearclosed \subseteq Years /\ yearclosed \subseteq Followed /\ Base(DB)
      /\ DB.tb = trialbal /\ DB.gl = gltrans /\ DB.periods = periods
      /\ DB.yearclosed = yearclosed
  BY EarnedNow
<1> DEFINE e == forwardUpdateTrialBalance(w, a, p)
           row == Row(0, 0, 0, 0, FALSE)
           k == <<a, p>>
<1>3. /\ trialbal' = e.tb /\ k \in DOMAIN w.tb /\ p \in Slots /\ Carried(DB, w)
  BY <1>1, <1>2 DEF ForwardsFrom, Base
<1>4. w = DB \/ (RowSlots(DB, a) = {} /\ w = Write(DB, k, row))
  BY <1>1 DEF ForwardsFrom
<1>5. e = forwardUpdateTrialBalance(w, a, p) /\ row.yearend = 0
  BY DEF Row
<1> HIDE DEF e, row
<1>6. Base(w) /\ w.gl = gltrans /\ w.yearclosed = yearclosed
  BY <1>2, <1>3, CarriedFields
<1>7. KeepsCredit(trialbal, w.tb, gltrans, yearclosed)
  <2>1. CASE w = DB
    BY <1>2, <2>1, KeepsCreditSelf
  <2>2. CASE RowSlots(DB, a) = {} /\ w = Write(DB, k, row)
    <3>1. k \notin DOMAIN DB.tb
      BY <1>3, <2>2 DEF RowSlots
    <3> HIDE DEF k
    <3>2. IsDB(DB)
      BY <1>2 DEF Base
    <3> QED
      BY <1>2, <1>5, <2>2, <3>1, <3>2, WriteCredits
  <2> QED
    BY <1>4, <2>1, <2>2
<1>8. KeepsCredit(w.tb, e.tb, gltrans, yearclosed)
  BY <1>2, <1>3, <1>5, <1>6, ForwardCredits, KeepsCreditLess
<1>9. KeepsCredit(trialbal, trialbal', gltrans, yearclosed)
  BY <1>3, <1>7, <1>8, KeepsCreditTwice
<1>10. CalendarKept
  BY ForwardUpdateKeeps
<1> QED
  BY <1>9, <1>10, EarnsOn DEF CalendarKept

\* deleteAccountingPeriod takes the rows of the last period, which is open.
LEMMA DeleteEarns ==
  ASSUME Standing, Standing', Preserved, EarnedBooks, NEW p, DeleteAccountingPeriod(p)
  PROVE  EarnedBooks'
<1> DEFINE D == {j \in DOMAIN trialbal : j[2] # p}
           tb == [k \in D |-> trialbal[k]]
<1>1. /\ trialbal' = tb /\ p \notin closed
      /\ periods' = periods \ {p} /\ closed' = closed /\ yearclosed' = yearclosed
  BY DeleteFields DEF DeleteAccountingPeriod, Removed, Commit, DB
<1>2. DOMAIN tb = D /\ \A k \in D : tb[k] = trialbal[k]
  OBVIOUS
<1> HIDE DEF tb
<1>3. closed \subseteq periods' /\ closed' \subseteq periods
  BY <1>1 DEF Standing, CalendarInv
<1>4. ASSUME NEW y \in yearclosed, FirstSlot(y + 1) \in periods'
      PROVE  Credited(trialbal', y, ProfitLoss(gltrans', y))
  <2> DEFINE q == FirstSlot(y + 1)
             k == <<YearEndEquityAccount, q>>
             v == ProfitLoss(gltrans, y)
  <2>1. ProfitLoss(gltrans', y) = v
    BY <1>1, <1>3, LossesStay
  <2>2. Credited(trialbal, y, v) /\ q # p
    BY <1>1, <1>4 DEF EarnedBooks
  <2>3. k = EquityRow(y) /\ k[2] = q
    BY DEF EquityRow
  <2> HIDE DEF k, v, q
  <2>4. k \in D /\ tb[k].yearend = v
    BY <1>2, <2>2, <2>3 DEF Credited
  <2> QED
    BY <1>1, <1>2, <2>1, <2>3, <2>4 DEF Credited
<1>5. ASSUME NEW c \in closed PROVE <<YearEndEquityAccount, c>> \in DOMAIN trialbal'
  BY <1>1, <1>2 DEF EarnedBooks
<1>6. \A y \in yearclosed : y + 1 \in Years
  BY DEF EarnedBooks
<1>7. YearEnds(trialbal)'
  BY <1>1, <1>2 DEF EarnedBooks, YearEnds
<1> QED
  BY <1>1, <1>4, <1>5, <1>6, <1>7 DEF EarnedBooks

\* closeAccountingPeriod.
LEMMA CloseEarns ==
  ASSUME Standing, Standing', Preserved, EarnedBooks, NEW p \in Slots, CloseAccountingPeriod(p)
  PROVE  EarnedBooks'
<1> DEFINE n == Len(AccountOrder)
           s == [i \in DOMAIN AccountOrder |-> <<AccountOrder[i], p>>]
           x == CloseLoop(DB, s)
           b == WithBalances(DB, x)
           v == b.closed \cup {p}
           e == [b EXCEPT !.closed = v]
           E == YearEndEquityAccount
<1>1. Commit(e, sequence) /\ p \in periods /\ p + 1 \in periods
  BY DEF CloseAccountingPeriod, CloseLoop
<1>2. /\ n \in Nat /\ DOMAIN AccountOrder = 1..n /\ \A i \in 1..n : AccountOrder[i] \in Accounts
      /\ \E i \in 1..n : AccountOrder[i] = E
  <2>1. n \in Nat /\ DOMAIN AccountOrder = 1..n /\ \A i \in 1..n : AccountOrder[i] \in Accounts
    BY LedgerAssumption
  <2>2. \E i \in DOMAIN AccountOrder : AccountOrder[i] = E
    BY LedgerAssumption DEF Accounts, ToSet
  <2> QED
    BY <2>1, <2>2
<1>3. DOMAIN s = 1..n /\ \A i \in 1..n : s[i] = <<AccountOrder[i], p>>
  BY <1>2
<1>4. /\ yearclosed \subseteq Years /\ yearclosed \subseteq Followed /\ Base(DB) /\ IsDB(DB)
      /\ DB.tb = trialbal /\ DB.gl = gltrans /\ DB.yearclosed = yearclosed
      /\ p + 1 \in Slots
  BY <1>1, EarnedNow DEF Base, Standing, CalendarInv
<1>5. b = WithBalances(DB, x) /\ e = [b EXCEPT !.closed = v] /\ x = CloseLoop(DB, s)
  OBVIOUS
<1> HIDE DEF n, s, x, b, v, e
<1>6. KeepsCredit(trialbal, x.tb, gltrans, Followed) /\ \A i \in 1..n : s[i] \in DOMAIN x.tb
  BY <1>2, <1>3, <1>4, <1>5, CloseLoopCredits
<1>7. IsDB(b) /\ b.tb = x.tb
  BY <1>4, <1>5, BalanceTables
<1>8. trialbal' = x.tb
  BY <1>1, <1>5, <1>7 DEF Commit, IsDB
<1>9. periods' = periods /\ closed' = closed \cup {p} /\ yearclosed' = yearclosed
  BY CloseFields
<1>10. closed \subseteq periods' /\ closed' \subseteq periods
  BY <1>1, <1>9 DEF Standing, CalendarInv
<1>11. ASSUME NEW y \in yearclosed, FirstSlot(y + 1) \in periods'
       PROVE  Credited(trialbal', y, ProfitLoss(gltrans', y))
  <2>1. ProfitLoss(gltrans', y) = ProfitLoss(gltrans, y)
    BY <1>9, <1>10, LossesStay
  <2> QED
    BY <1>4, <1>6, <1>8, <1>9, <1>11, <2>1 DEF EarnedBooks, KeepsCredit
<1>12. ASSUME NEW c \in closed' PROVE <<E, c>> \in DOMAIN trialbal'
  <2>1. CASE c = p
    BY <1>2, <1>3, <1>6, <1>8, <2>1
  <2>2. CASE c # p
    BY <1>6, <1>8, <1>9, <1>12, <2>2 DEF EarnedBooks, KeepsCredit
  <2> QED
    BY <2>1, <2>2
<1>13. \A y \in yearclosed : y + 1 \in Years
  BY DEF EarnedBooks
<1>14. YearEnds(trialbal)'
  BY <1>6, <1>8 DEF EarnedBooks, KeepsCredit, YearEnds
<1> QED
  BY <1>9, <1>11, <1>12, <1>13, <1>14 DEF EarnedBooks

-----------------------------------------------------------------------------
(* A period created begins a year: the year before is credited.            *)

\* A turn of the loop over the accounts' last rows.
LEMMA ForwardRowCredits ==
  ASSUME NEW d, Base(d), d.yearclosed \subseteq Years, NEW c, Carried(d, c),
         NEW k, k \in DOMAIN d.tb, NEW e, e = ForwardRow(c, k)
  PROVE  /\ Carried(d, e) /\ KeepsCredit(c.tb, e.tb, d.gl, Followed)
         /\ k[1] \in Accounts /\ k[2] \in Slots /\ Arrived(c, e.tb, k[1], k[2])
<1> DEFINE a == k[1]
           p == k[2]
<1>1. Base(c) /\ c.gl = d.gl /\ c.yearclosed = d.yearclosed /\ k \in DOMAIN c.tb
  BY CarriedFields DEF Carried
<1>2. k \in Keys
  BY DEF Base, TBTyped
<1>3. a \in Accounts /\ p \in Slots /\ k = <<a, p>>
  BY <1>2 DEF Keys
<1>4. e = forwardUpdateTrialBalance(c, a, p)
  BY DEF ForwardRow
<1> HIDE DEF a, p
<1>5. <<a, p>> \in DOMAIN c.tb /\ c.yearclosed \subseteq Years
  BY <1>1, <1>3
<1>6. KeepsCredit(c.tb, e.tb, c.gl, Followed) /\ Arrived(c, e.tb, a, p)
  BY <1>1, <1>3, <1>4, <1>5, ForwardCredits
<1>7. Carried(c, e)
  BY <1>1, <1>3, <1>4, <1>5, ForwardCarries
<1>8. Carried(d, e)
  BY <1>7, CarriedTwice
<1> QED
  BY <1>1, <1>3, <1>6, <1>8 DEF a, p

LEMMA ForwardLoopCredits ==
  ASSUME NEW d, Base(d), d.yearclosed \subseteq Years, NEW n, n \in Nat,
         NEW s, DOMAIN s = 1..n, \A i \in 1..n : s[i] \in DOMAIN d.tb,
         NEW e, e = ForwardLoop(d, s)
  PROVE  KeepsCredit(d.tb, e.tb, d.gl, Followed)
<1>20. n \in Nat /\ DOMAIN s = 1..n
  OBVIOUS
<1>1. PICK g : /\ g[0] = d /\ \A i \in 1..n : g[i] = ForwardRow(g[i - 1], s[i])
               /\ ForwardLoop(d, s) = g[n]
  BY ONLY <1>20, ForwardChain, SMTT(60)
<1> DEFINE Z == {i \in 0..n : Carried(d, g[i]) /\ KeepsCredit(d.tb, g[i].tb, d.gl, Followed)}
<1>2. 0 \in Z
  BY <1>1, CarriedSelf, KeepsCreditSelf
<1>3. ASSUME NEW i \in 1..n, i - 1 \in Z PROVE i \in Z
  <2> DEFINE c == g[i - 1]
             f == g[i]
             k == s[i]
  <2>1. /\ Carried(d, c) /\ KeepsCredit(d.tb, c.tb, d.gl, Followed)
        /\ f = ForwardRow(c, k) /\ k \in DOMAIN d.tb
    BY <1>1, <1>3
  <2> HIDE DEF c, f, k
  <2>2. Carried(d, f) /\ KeepsCredit(c.tb, f.tb, d.gl, Followed)
    BY <2>1, ForwardRowCredits
  <2>3. KeepsCredit(d.tb, f.tb, d.gl, Followed)
    BY <2>1, <2>2, KeepsCreditTwice
  <2> QED
    BY <2>2, <2>3 DEF f
<1>4. n \in Z
  <2> HIDE DEF Z
  <2>1. \A i \in 0..n : i \in Z
    BY ONLY <1>20, <1>2, <1>3, Counting
  <2> QED
    BY <2>1
<1> QED
  BY <1>1, <1>4

\* Slot r ends a closed year, and its next slot is the first of another.
EndsYear(d, r) ==
    /\ r \in Slots /\ r + 1 \in d.periods /\ YearOf[r] \in d.yearclosed
    /\ YearOf[r] + 1 \in Years /\ FirstSlot(YearOf[r] + 1) = r + 1

LEMMA YearEnded ==
  ASSUME NEW d, Base(d), NEW r, EndsYear(d, r)
  PROVE  /\ YearOf[r + 1] # YearOf[r] /\ YearOf[r] \in Int /\ YearOf[r] \in Followed
         /\ EquityRow(YearOf[r]) = <<YearEndEquityAccount, r + 1>>
<1>1. YearOf[r] \in Int /\ YearOf[r] \in Years
  BY YearNumbers DEF EndsYear, Years
<1>2. YearOf[r + 1] = YearOf[r] + 1
  BY FirstSlotIs DEF EndsYear
<1> QED
  BY <1>1, <1>2 DEF EndsYear, Followed, EquityRow

\* The equity account is carried on into the new year before a revenue or
\* expense account is, whose turn finds the row and credits it.
LEMMA ForwardLoopGives ==
  ASSUME NEW d, Base(d), d.yearclosed \subseteq Years, NEW n, n \in Nat,
         NEW s, DOMAIN s = 1..n, \A i \in 1..n : s[i] \in DOMAIN d.tb,
         NEW e, e = ForwardLoop(d, s), NEW r, EndsYear(d, r),
         NEW h \in 1..n, NEW l \in 1..n, h < l, s[h] = <<YearEndEquityAccount, r>>,
         NEW b \in RevExp, s[l] = <<b, r>>
  PROVE  Credited(e.tb, YearOf[r], ProfitLoss(d.gl, YearOf[r]))
<1> DEFINE y == YearOf[r]
           v == ProfitLoss(d.gl, y)
           k == <<YearEndEquityAccount, r + 1>>
<1>0. /\ YearOf[r + 1] # y /\ y \in Int /\ y \in Followed /\ EquityRow(y) = k
      /\ r \in Slots /\ r + 1 \in d.periods /\ y \in d.yearclosed
      /\ y + 1 \in Years /\ FirstSlot(y + 1) = r + 1
  BY YearEnded DEF EndsYear
<1>20. n \in Nat /\ DOMAIN s = 1..n
  OBVIOUS
<1>1. PICK g : /\ g[0] = d /\ \A i \in 1..n : g[i] = ForwardRow(g[i - 1], s[i])
               /\ ForwardLoop(d, s) = g[n]
  BY ONLY <1>20, ForwardChain, SMTT(60)
<1>10. v = ProfitLoss(d.gl, y) /\ y = YearOf[r]
  OBVIOUS
<1> HIDE DEF y, v, k
<1> DEFINE Z == {i \in 0..n : /\ Carried(d, g[i])
                              /\ h <= i => k \in DOMAIN g[i].tb
                              /\ l <= i => Credited(g[i].tb, y, v)}
<1>2. 0 \in Z
  BY <1>1, CarriedSelf
<1>3. ASSUME NEW i \in 1..n, i - 1 \in Z PROVE i \in Z
  <2> DEFINE c == g[i - 1]
             f == g[i]
             j == s[i]
             a == j[1]
             p == j[2]
  <2>1. /\ Carried(d, c)
        /\ h <= i - 1 => k \in DOMAIN c.tb
        /\ l <= i - 1 => Credited(c.tb, y, v)
        /\ f = ForwardRow(c, j) /\ j \in DOMAIN d.tb
    BY <1>1, <1>3
  <2>6. /\ i = h => a = YearEndEquityAccount /\ p = r
        /\ i = l => a = b /\ p = r
        /\ i \in Int /\ h \in Int /\ l \in Int /\ h < l
    OBVIOUS
  <2>7. Base(d) /\ d.yearclosed \subseteq Years /\ Carried(d, c) /\ f = ForwardRow(c, j)
        /\ j \in DOMAIN d.tb
    BY <2>1
  <2> HIDE DEF c, f, j
  <2>2. /\ Carried(d, f) /\ KeepsCredit(c.tb, f.tb, d.gl, Followed)
        /\ a \in Accounts /\ p \in Slots /\ Arrived(c, f.tb, a, p)
    BY ONLY <2>7, ForwardRowCredits
  <2>3. c.gl = d.gl /\ c.periods = d.periods /\ c.yearclosed = d.yearclosed
    BY ONLY <2>7, CarriedFields
  <2>4. ASSUME h <= i PROVE k \in DOMAIN f.tb
    <3>1. CASE i = h
      <4>1. a = YearEndEquityAccount /\ p = r /\ YearEndEquityAccount \notin RevExp
        BY <2>6, <3>1, LedgerAssumption
      <4> QED
        BY <1>0, <2>2, <2>3, <4>1 DEF Arrived, k
    <3>2. CASE i # h
      <4>1. h <= i - 1
        BY <2>4, <2>6, <3>2
      <4>2. k \in DOMAIN c.tb
        BY <2>1, <4>1
      <4> QED
        BY <2>2, <4>2 DEF KeepsCredit
    <3> QED
      BY <3>1, <3>2
  <2>5. ASSUME l <= i PROVE Credited(f.tb, y, v)
    <3>1. CASE i = l
      <4>1. a = b /\ p = r /\ k \in DOMAIN c.tb
        <5>1. h <= i - 1
          BY <2>6, <3>1
        <5> QED
          BY <2>1, <2>6, <3>1, <5>1
      <4>2. CanRetain(c, y)
        BY <1>0, <2>3, <4>1 DEF CanRetain, k
      <4>3. Gives(c, a, p)
        BY <1>0, <1>10, <2>3, <4>1, <4>2 DEF Gives
      <4> QED
        BY <1>10, <2>2, <2>3, <4>1, <4>3 DEF Arrived
    <3>2. CASE i # l
      <4>1. l <= i - 1
        BY <2>5, <2>6, <3>2
      <4>2. Credited(c.tb, y, v)
        BY <2>1, <4>1
      <4> QED
        BY <1>0, <1>10, <2>2, <4>2 DEF KeepsCredit
    <3> QED
      BY <3>1, <3>2
  <2> QED
    BY <2>2, <2>4, <2>5 DEF f
<1>4. n \in Z
  <2> HIDE DEF Z
  <2>1. \A i \in 0..n : i \in Z
    BY ONLY <1>20, <1>2, <1>3, Counting
  <2> QED
    BY <2>1
<1> QED
  BY <1>1, <1>4, <1>10

\* The slot before the first one of the year after a closed year.
LEMMA YearBefore ==
  ASSUME Standing, EarnedBooks, Orderly, NEW p \in Slots, NEW priv, Create(p, priv),
         NEW y \in yearclosed, FirstSlot(y + 1) = p
  PROVE  /\ p - 1 \in Slots /\ p - 1 \in closed /\ YearOf[p - 1] = y
         /\ (p - 1) + 1 = p /\ periods = closed
<1>1. y \in Years /\ y \in Int /\ y + 1 \in Years /\ p \in Int
  BY YearNumbers DEF Standing, CalendarInv, EarnedBooks
<1>2. YearOf[p] = y + 1 /\ \A t \in Slots : YearOf[t] = y + 1 => p <= t
  BY <1>1, FirstSlotIs
<1>3. PICK t \in Slots : YearOf[t] = y
  BY <1>1 DEF Years
<1>4. \A u, w \in Slots : u <= w => YearOf[u] <= YearOf[w]
  BY LedgerAssumption
<1>5. t \in Int /\ t >= 1 /\ p >= 1
  BY YearNumbers
<1>6. t < p
  <2>1. ~(p <= t)
    BY <1>1, <1>2, <1>3, <1>4
  <2> QED
    BY <1>1, <1>5, <2>1
<1>7. p - 1 \in Slots /\ p # 1 /\ p - 1 \in Int /\ t <= p - 1 /\ p - 1 <= p /\ (p - 1) + 1 = p
  BY <1>1, <1>5, <1>6, YearNumbers
<1>8. YearOf[p - 1] = y
  <2>1. YearOf[p - 1] \in Int /\ y <= YearOf[p - 1] /\ YearOf[p - 1] <= y + 1
    BY <1>2, <1>3, <1>4, <1>7, YearNumbers
  <2>2. YearOf[p - 1] # y + 1
    BY <1>1, <1>2, <1>7
  <2> QED
    BY <1>1, <2>1, <2>2
<1>9. p - 1 \in periods
  BY <1>7 DEF Create, InOrder
<1>10. p - 1 \in closed
  BY <1>8, <1>9 DEF Standing, CalendarInv, ClosedInOrder
<1> QED
  BY <1>7, <1>8, <1>10, CreatedLast

\* An account with a row in the last period is carried on from there.
LEMMA LastRowIs ==
  ASSUME NEW d, NEW pers, Within(d.tb, pers), NEW r \in Slots,
         \A q \in pers : q \in Int /\ q <= r, NEW a, <<a, r>> \in DOMAIN d.tb
  PROVE  RowSlots(d, a) # {} /\ Max(RowSlots(d, a)) = r
<1> DEFINE S == RowSlots(d, a)
<1>1. S \subseteq Slots /\ r \in S
  BY DEF RowSlots
<1>2. \A q \in S : q <= r
  <2> SUFFICES ASSUME NEW q \in S PROVE q <= r
    OBVIOUS
  <2> DEFINE k == <<a, q>>
  <2>1. k \in DOMAIN d.tb /\ k[2] = q
    BY DEF RowSlots
  <2> HIDE DEF k
  <2> QED
    BY <2>1 DEF Within
<1> HIDE DEF S
<1>3. Max(S) \in S /\ r <= Max(S)
  BY <1>1, LastSlot, LargestSlot
<1>4. Max(S) <= r /\ Max(S) \in Int /\ r \in Int
  BY <1>1, <1>2, <1>3, YearNumbers
<1> QED
  BY <1>1, <1>3, <1>4 DEF S

\* The year before a new one is credited when the new one's first period is created.
LEMMA CreateGives ==
  ASSUME Standing, EarnedBooks, Orderly, EquityEarly, NEW p \in Slots, NEW priv, Create(p, priv),
         NEW c, NEW d, NEW last, NEW m, Creates(p, priv, c, d, last, m),
         \A i \in 1..m : last[i] \in DOMAIN d.tb,
         NEW y \in yearclosed, FirstSlot(y + 1) = p
  PROVE  Credited(trialbal', y, ProfitLoss(d.gl, y))
<1> DEFINE r == p - 1
           E == YearEndEquityAccount
           x == ForwardLoop(d, last)
<1>1. r \in Slots /\ r \in closed /\ YearOf[r] = y /\ r + 1 = p /\ periods = closed
  BY YearBefore
<1>2. /\ p \in Int /\ \A q \in periods : q \in Int /\ q < p
      /\ \A i \in DOMAIN gltrans : gltrans[i].period = p => gltrans[i].deleted
  BY CreatedLast
<1>3. /\ Base(c) /\ c.gl = gltrans /\ c.tb = trialbal /\ c.closed = closed
      /\ c.periods = periods \cup {p}
      /\ d = postIntoTrialBalance(c, UnpostedIn(p), priv)
      /\ Base(d) /\ d.periods = periods \cup {p} /\ d.yearclosed = yearclosed
      /\ m \in Nat /\ DOMAIN last = 1..m /\ trialbal' = x.tb
  BY DEF Creates
<1> HIDE DEF r, x
<1>4. d.tb = trialbal
  <2>1. Pending(c, UnpostedIn(p), priv) = {}
    BY <1>1, <1>2, <1>3 DEF Pending, Postable
  <2> QED
    BY <1>3, <2>1, PostNothing
<1>5. PICK h, l \in DOMAIN AccountOrder :
        h < l /\ AccountOrder[h] = E /\ AccountOrder[l] \in RevExp
  BY DEF EquityEarly
<1> DEFINE b == AccountOrder[l]
<1>6. b \in RevExp /\ b \in Others
  BY <1>5, LedgerAssumption DEF Others
<1> HIDE DEF b
<1>7. <<E, r>> \in DOMAIN d.tb /\ <<b, r>> \in DOMAIN d.tb
  BY <1>1, <1>4, <1>6 DEF EarnedBooks, Standing, ClosedBooks, ChainOf, SettledRow
<1>8. Within(d.tb, periods) /\ \A q \in periods : q \in Int /\ q <= r
  BY <1>2, <1>4 DEF Standing, ClosedBooks, r
<1>9. /\ RowSlots(d, E) # {} /\ Max(RowSlots(d, E)) = r
      /\ RowSlots(d, b) # {} /\ Max(RowSlots(d, b)) = r
  BY <1>1, <1>7, <1>8, LastRowIs
<1>10. PICK j, k \in 1..m : j < k /\ last[j][1] = E /\ last[k][1] = b
  <2>1. \A i, n \in DOMAIN AccountOrder :
          /\ i < n /\ RowSlots(d, AccountOrder[i]) # {} /\ RowSlots(d, AccountOrder[n]) # {}
          => \E j, k \in 1..m : /\ j < k /\ last[j][1] = AccountOrder[i]
                                /\ last[k][1] = AccountOrder[n]
    BY DEF Creates
  <2>2. RowSlots(d, AccountOrder[h]) # {} /\ RowSlots(d, AccountOrder[l]) # {}
    BY <1>5, <1>9 DEF b
  <2> QED
    BY <1>5, <2>1, <2>2 DEF b
<1>11. last[j] = <<E, r>> /\ last[k] = <<b, r>>
  <2>1. \A i \in 1..m : \E a : last[i] = <<a, Max(RowSlots(d, a))>>
    BY DEF Creates
  <2>2. ASSUME NEW i \in 1..m PROVE last[i] = <<last[i][1], Max(RowSlots(d, last[i][1]))>>
    BY <2>1
  <2> QED
    BY <1>9, <1>10, <2>2
<1>12. EndsYear(d, r)
  BY <1>1, <1>3 DEF EndsYear, EarnedBooks
<1>13. x = ForwardLoop(d, last) /\ d.yearclosed \subseteq Years
  BY <1>3, EarnedNow DEF x
<1>14. Credited(x.tb, YearOf[r], ProfitLoss(d.gl, YearOf[r]))
  BY <1>3, <1>6, <1>10, <1>11, <1>12, <1>13, ForwardLoopGives
<1> QED
  BY <1>1, <1>3, <1>14

\* createAccountingPeriod, of a period after all the others.
LEMMA CreateEarns ==
  ASSUME Standing, Standing', Preserved, EarnedBooks, Orderly, EquityEarly,
         NEW p \in Slots, NEW priv \in BOOLEAN, Create(p, priv)
  PROVE  EarnedBooks'
<1> DEFINE pers == periods \cup {p}
<1>1. PICK c, d, last, m : Creates(p, priv, c, d, last, m)
  BY CreateIs
<1> DEFINE x == ForwardLoop(d, last)
<1>2. /\ Base(c) /\ Good(c) /\ c.gl = gltrans /\ c.tb = trialbal /\ c.closed = closed
      /\ c.periods = pers /\ c.yearclosed = yearclosed
      /\ d = postIntoTrialBalance(c, UnpostedIn(p), priv)
  BY <1>1 DEF Creates
<1>3. /\ Base(d) /\ d.periods = pers /\ d.yearclosed = yearclosed
      /\ m \in Nat /\ DOMAIN last = 1..m
      /\ trialbal' = x.tb /\ periods' = pers /\ closed' = closed
  BY <1>1 DEF Creates
<1>4. yearclosed \subseteq Years /\ yearclosed \subseteq Followed /\ yearclosed' = yearclosed
  BY EarnedNow, CreateFields DEF Create
<1>5. ASSUME NEW q \in pers \ closed PROVE YearOf[q] \notin yearclosed
  <2>1. CASE q = p
    BY <2>1 DEF Create, InOrder
  <2>2. CASE q # p
    BY <1>5, <2>2, OpenYears DEF Standing
  <2> QED
    BY <2>1, <2>2
<1>6. KeepsCredit(trialbal, d.tb, gltrans, yearclosed)
  <2>1. Ledgered(c)
    BY <1>2, LedgerLines DEF Ledgered, Standing, ClosedBooks, Within
  <2>2. \A i \in Pending(c, UnpostedIn(p), priv) : YearOf[c.gl[i].period] \notin yearclosed
    BY <1>2, <1>5 DEF Pending, Postable
  <2>3. c.yearclosed \subseteq Years
    BY <1>2, <1>4
  <2> QED
    BY <1>2, <1>4, <2>1, <2>2, <2>3, PostingCredits
<1>7. ASSUME NEW y \in yearclosed
      PROVE  /\ ProfitLoss(d.gl, y) = ProfitLoss(gltrans, y)
             /\ ProfitLoss(gltrans', y) = ProfitLoss(gltrans, y)
  <2>1. Sound(c.gl, pers) /\ Sound(d.gl, pers) /\ Kept(c.gl, d.gl, closed)
    <3>1. Good(d) /\ Kept(c.gl, d.gl, c.closed)
      BY <1>2, Posting
    <3> QED
      BY <1>2, <1>3, <3>1 DEF Good
  <2>2. \A q \in pers : YearOf[q] = y => q \in closed
    BY <1>5
  <2>3. ProfitLoss(d.gl, y) = ProfitLoss(c.gl, y)
    BY <2>1, <2>2, KeptLosses
  <2>4. closed \subseteq periods' /\ closed' \subseteq periods
    BY <1>3 DEF Standing, CalendarInv
  <2> QED
    BY <1>2, <1>4, <2>3, <2>4, LossesStay
<1>8. ASSUME NEW i \in 1..m PROVE last[i] \in DOMAIN d.tb
  <2>1. PICK a : RowSlots(d, a) # {} /\ last[i] = <<a, Max(RowSlots(d, a))>>
    BY <1>1 DEF Creates
  <2> DEFINE S == RowSlots(d, a)
  <2>2. S \subseteq Slots /\ S # {} /\ \A q \in S : <<a, q>> \in DOMAIN d.tb
    BY <2>1 DEF RowSlots
  <2>3. last[i] = <<a, Max(S)>>
    BY <2>1
  <2> HIDE DEF S
  <2> QED
    BY <2>2, <2>3, LastSlot
<1>9. KeepsCredit(d.tb, x.tb, d.gl, Followed)
  <2>1. x = ForwardLoop(d, last)
    OBVIOUS
  <2> HIDE DEF x
  <2> QED
    BY <1>3, <1>4, <1>8, <2>1, ForwardLoopCredits
<1> HIDE DEF x
<1>10. ASSUME NEW y \in yearclosed, FirstSlot(y + 1) \in periods'
       PROVE  Credited(trialbal', y, ProfitLoss(gltrans', y))
  <2>1. CASE FirstSlot(y + 1) = p
    BY <1>1, <1>7, <1>8, <2>1, CreateGives
  <2>2. CASE FirstSlot(y + 1) # p
    <3>1. Credited(trialbal, y, ProfitLoss(gltrans, y))
      BY <1>3, <1>10, <2>2 DEF EarnedBooks
    <3>2. Credited(d.tb, y, ProfitLoss(gltrans, y))
      BY <1>6, <3>1 DEF KeepsCredit
    <3> QED
      BY <1>3, <1>4, <1>7, <1>9, <3>2 DEF KeepsCredit
  <2> QED
    BY <2>1, <2>2
<1>11. ASSUME NEW q \in closed PROVE <<YearEndEquityAccount, q>> \in DOMAIN trialbal'
  BY <1>3, <1>6, <1>9 DEF EarnedBooks, KeepsCredit
<1>12. \A y \in yearclosed : y + 1 \in Years
  BY DEF EarnedBooks
<1>13. YearEnds(trialbal)'
  BY <1>3, <1>6, <1>9 DEF EarnedBooks, KeepsCredit, YearEnds
<1> QED
  BY <1>3, <1>4, <1>10, <1>11, <1>12, <1>13 DEF EarnedBooks

-----------------------------------------------------------------------------
(* Every step, and the result of closed years.                             *)

LEMMA NextEarns ==
  ASSUME Standing, Standing', Preserved, Orderly, EquityEarly, EarnedBooks, [Next]_vars
  PROVE  EarnedBooks'
<1>0. IInv /\ (CalendarKept => yearclosed' = yearclosed /\ yearclosed' \subseteq yearclosed)
  BY DEF Standing, CalendarKept
<1>1. CASE Entry
  <2>1. yearclosed' \subseteq yearclosed
    BY <1>0, <1>1, EntryKeeps DEF Entry
  <2> QED
    BY <1>0, <1>1, <2>1, EntryStep, RoutineEarns DEF Entry
<1>2. CASE Distribution
  BY <1>0, <1>2, DistributionKeeps, DistributionStep, RoutineEarns
<1>3. CASE Series
  <2>1. yearclosed' \subseteq yearclosed
    BY <1>0, <1>3, SeriesKeeps
  <2> QED
    BY <1>0, <1>3, <2>1, InsertSeriesStep, PostGLSeriesStep, NoSummStep, DropSeriesStep,
       RoutineEarns DEF Series
<1>4. CASE Correction
  <2>1. yearclosed' = yearclosed /\ yearclosed' \subseteq yearclosed
    BY <1>0, <1>4, CorrectionKeeps
  <2> QED
    BY <1>0, <1>4, <2>1, DeleteSeriesEarns, ReverseStep, RoutineEarns DEF Correction
<1>5. CASE Journals
  BY <1>0, <1>5, JournalsKeep, JournalsStep, RoutineEarns
<1>6. CASE Calendar
  <2>1. CASE \E p \in Slots :
               \/ CloseAccountingPeriod(p)
               \/ FreezeAccountingPeriod(p)
               \/ DeleteAccountingPeriod(p)
               \/ \E priv \in BOOLEAN : \/ OpenAccountingPeriod(p, priv)
                                        \/ ThawAccountingPeriod(p, priv)
                                        \/ Create(p, priv)
    <3>1. ASSUME NEW p \in Slots, FreezeAccountingPeriod(p) PROVE EarnedBooks'
      BY <1>0, <3>1, ThawKeeps, FreezeStep, RoutineEarns
    <3>2. ASSUME NEW p \in Slots, NEW priv \in BOOLEAN, ThawAccountingPeriod(p, priv)
          PROVE  EarnedBooks'
      BY <1>0, <3>2, ThawKeeps, ThawStep, RoutineEarns
    <3> QED
      BY <2>1, <3>1, <3>2, CloseEarns, DeleteEarns, OpenEarns, CreateEarns
  <2>2. CASE \E y \in Years : CloseAccountingYearPeriod(y) \/ OpenAccountingYearPeriod(y)
    <3>1. ASSUME NEW y \in Years, OpenAccountingYearPeriod(y) PROVE EarnedBooks'
      <4>1. yearclosed' \subseteq yearclosed
        BY <3>1, OpenYearFields
      <4> QED
        BY <1>0, <3>1, <4>1, OpenYearStep, RoutineEarns
    <3> QED
      BY <2>2, <3>1, CloseYearEarns
  <2>3. CASE \E a \in Accounts : ForwardUpdateAccount(a)
    BY <2>3, ForwardEarns
  <2> QED
    BY <1>6, <2>1, <2>2, <2>3 DEF Calendar
<1>7. CASE UNCHANGED vars
  <2>1. KeepsCredit(trialbal, trialbal', gltrans, yearclosed)
    BY <1>7, KeepsCreditSelf DEF vars
  <2> QED
    BY <1>7, <2>1, EarnsOn DEF vars
<1> QED
  BY <1>1, <1>2, <1>3, <1>4, <1>5, <1>6, <1>7 DEF Next

LEMMA FirstEarned == Init => EarnedBooks
BY DEF Init, EarnedBooks, YearEnds

LEMMA EarnedCurrent ==
  ASSUME Standing, EarnedBooks PROVE RetainedEarningsCurrent
<1> SUFFICES ASSUME NEW y \in yearclosed, EquityRow(y) \in DOMAIN trialbal
             PROVE  trialbal[EquityRow(y)].yearend = ProfitLoss(gltrans, y)
  BY DEF RetainedEarningsCurrent, EquityRow
<1> DEFINE k == EquityRow(y)
<1>1. k[2] = FirstSlot(y + 1)
  BY DEF EquityRow
<1>2. k[2] \in periods
  BY DEF Standing, ClosedBooks, Within
<1> QED
  BY <1>1, <1>2 DEF EarnedBooks, Credited

\* A closed year's result stays with the equity account of the next year: no
\* posting, correction, carrying forward, or deletion and new creation of the
\* periods after it takes it away, as long as users create periods in date order
\* and the equity account comes before some revenue or expense account, as
\* createAccountingPeriod carries the accounts in the order of the chart.
THEOREM RetainedEarningsHolds ==
    ASSUME Orderly, FirstOnes, EquityEarly
    PROVE  Spec => []RetainedEarningsCurrent
<1>1. Init => Standing /\ EarnedBooks
  BY FirstOnes, FirstStanding, FirstEarned
<1>2. Standing /\ EarnedBooks /\ [Next]_vars => Standing' /\ EarnedBooks'
  <2> SUFFICES ASSUME Standing, EarnedBooks, [Next]_vars PROVE Standing' /\ EarnedBooks'
    OBVIOUS
  <2>1. Standing' /\ Preserved
    BY Orderly, StandingKept, StepPreserves DEF Standing
  <2> QED
    BY Orderly, EquityEarly, <2>1, NextEarns
<1>3. Standing /\ EarnedBooks => RetainedEarningsCurrent
  BY EarnedCurrent
<1> QED
  BY <1>1, <1>2, <1>3, PTL DEF Spec

-----------------------------------------------------------------------------
(* What the endings of a period add up to.                                 *)

\* The rows posted up to slot p, and the account that holds the amount of one
\* at the end of p: its own, or the equity account once its year is over.
PostedUpTo(p) == {i \in DOMAIN gltrans : gltrans[i].posted /\ gltrans[i].period <= p}
Holder(r, p) ==
    IF r.accnt \in RevExp /\ YearOf[r.period] # YearOf[p] THEN YearEndEquityAccount ELSE r.accnt
Share(a, p) == {i \in PostedUpTo(p) : Holder(gltrans[i], p) = a}

\* The rows of account a posted in slot p, and those of the year that ends
\* before p, which the equity account takes over.
PostedTo(a, p) == {i \in DOMAIN gltrans : gltrans[i].posted /\ KeyOf(gltrans[i]) = <<a, p>>}
TakenOver(a, p) ==
    IF a = YearEndEquityAccount /\ p - 1 \in Slots /\ YearOf[p - 1] # YearOf[p]
    THEN LossRows(gltrans, YearOf[p - 1]) ELSE {}

\* The rows of slot p go on from those of the slot before.
GoesOn(a, p) == <<a, p - 1>> \in DOMAIN trialbal /\ ~Crosses(a, p - 1)
PassedOn(a, p) == IF GoesOn(a, p) THEN Share(a, p - 1) ELSE {}

\* The years before slot p's are closed.
YearsOver(p) == p \in periods /\ \A y \in Years : y < YearOf[p] => y \in yearclosed

LEMMA BooksNow ==
  ASSUME Standing
  PROVE  /\ TallyOf(trialbal, gltrans) /\ TBTyped(trialbal) /\ IsRows(gltrans)
         /\ GLTyped(gltrans) /\ Whole(gltrans) /\ Within(trialbal, periods)
         /\ Sound(gltrans, periods) /\ CalendarInv /\ periods \subseteq Slots
         /\ DB.tb = trialbal
<1>1. Books(DB, sequence) /\ DB.tb = trialbal /\ DB.gl = gltrans /\ Base(DB)
      /\ IsRows(gltrans) /\ GLTyped(gltrans)
  BY Now DEF Standing
<1> QED
  BY <1>1 DEF Standing, Books, Tallied, Ledger, Base, ClosedBooks, IInv, CalendarInv

\* A row that is posted has its row of balances, and its period.
LEMMA PostedHas ==
  ASSUME Standing, NEW i \in DOMAIN gltrans, gltrans[i].posted
  PROVE  /\ KeyOf(gltrans[i]) \in DOMAIN trialbal /\ gltrans[i].period \in periods
         /\ gltrans[i].period \in Slots /\ gltrans[i].accnt \in Accounts /\ ~gltrans[i].deleted
BY BooksNow DEF TallyOf, Sound, GLTyped, LedgerRows

\* What a period begins with.
LEMMA BeginsWith ==
  ASSUME Standing, WovenBooks, NEW a \in Accounts, NEW p \in periods,
         <<a, p>> \in DOMAIN trialbal, Settled(a, p)
  PROVE  trialbal[<<a, p>>].beginning =
           (IF GoesOn(a, p) THEN trialbal[<<a, p - 1>>].ending ELSE 0) + trialbal[<<a, p>>].yearend
<1> DEFINE k == <<a, p>>
           j == <<a, p - 1>>
<1>1. CleanChain /\ CalendarInv
  BY WovenChain DEF Standing
<1>2. trialbal[k].beginning = CarriedInto(a, p) + trialbal[k].yearend
  BY <1>1 DEF CleanChain
<1>3. p \in Int /\ IF p - 1 \in Slots THEN Before(p) # {} /\ Max(Before(p)) = p - 1
                   ELSE Before(p) = {}
  BY <1>1, SlotBefore
<1>4. p - 1 \notin Slots => j \notin DOMAIN trialbal
  <2> DEFINE i == <<a, p - 1>>
  <2>1. ASSUME i \in Keys PROVE p - 1 \in Slots
    BY <2>1 DEF Keys
  <2> QED
    BY <2>1, BooksNow DEF TBTyped
<1>5. (p - 1) + 1 = p
  BY <1>3
<1>6. CarriedInto(a, p) = IF GoesOn(a, p) THEN trialbal[j].ending ELSE 0
  <2>1. CASE p - 1 \notin Slots
    BY <1>3, <1>4, <2>1 DEF CarriedInto, GoesOn
  <2>2. CASE p - 1 \in Slots
    <3>1. Before(p) # {} /\ Max(Before(p)) = p - 1
      BY <1>3, <2>2
    <3> QED
      BY <1>5, <3>1 DEF CarriedInto, GoesOn, Crosses
  <2> QED
    BY <2>1, <2>2
<1> QED
  BY <1>2, <1>6

\* What moves in a period is what is posted in it.
LEMMA MovesBy ==
  ASSUME Standing, WovenBooks, NEW a, NEW p, <<a, p>> \in DOMAIN trialbal
  PROVE  LET row == trialbal[<<a, p>>] IN
         /\ row.ending = row.beginning + Total(gltrans, PostedTo(a, p))
         /\ row.beginning \in Int /\ row.ending \in Int /\ row.yearend \in Int
         /\ Total(gltrans, PostedTo(a, p)) \in Int
<1> DEFINE k == <<a, p>>
           row == trialbal[k]
           C == CountedRows(gltrans, k, TRUE)
           D == CountedRows(gltrans, k, FALSE)
           f == AmountsOf(gltrans)
<1>1. IsSeq(gltrans) /\ \A i \in DOMAIN gltrans : gltrans[i].amount \in Int
  BY BooksNow DEF IsRows
<1>2. PostedTo(a, p) = C \cup D /\ C \cap D = {} /\ C \cup D \subseteq DOMAIN gltrans
  <2>1. \A i \in DOMAIN gltrans : (gltrans[i].amount > 0) \in BOOLEAN
    BY <1>1
  <2> QED
    BY <2>1 DEF PostedTo, CountedRows
<1>3. IsFiniteSet(C) /\ IsFiniteSet(D) /\ \A i \in C \cup D : f[i] \in Int
  BY <1>1, <1>2, PositionsFinite DEF AmountsOf
<1>4. /\ row \in TBRows /\ Even(row)
      /\ row.credits = Total(gltrans, C) /\ row.debits = -Total(gltrans, D)
  BY BooksNow DEF TBTyped, TallyOf, CountedIn, WovenBooks, Knit, AllEven
<1> HIDE DEF k, C, D, f, row
<1>5. Total(gltrans, C \cup D) = Total(gltrans, C) + Total(gltrans, D)
  BY <1>2, <1>3, SumOfUnion DEF Total, f
<1>6. Total(gltrans, C) \in Int /\ Total(gltrans, D) \in Int
  BY <1>3, SumInt DEF Total, f
<1>7. /\ row.beginning \in Int /\ row.ending \in Int /\ row.yearend \in Int
      /\ row.ending = row.beginning - row.debits + row.credits
  BY <1>4 DEF TBRows, Even
<1> QED
  BY <1>2, <1>4, <1>5, <1>6, <1>7 DEF row, k

\* Slots and years grow together.
LEMMA YearsGrow ==
  ASSUME NEW s \in Slots, NEW t \in Slots
  PROVE  /\ s \in Int /\ t \in Int /\ YearOf[s] \in Nat /\ YearOf[t] \in Nat
         /\ YearOf[s] \in Years /\ (s <= t => YearOf[s] <= YearOf[t])
         /\ (YearOf[s] < YearOf[t] => s < t)
<1>1. s \in Int /\ t \in Int
  BY DEF Slots
<1>2. YearOf[s] \in Nat /\ YearOf[t] \in Nat /\ YearOf[s] \in Years
  BY LedgerAssumption DEF Years
<1>3. (s <= t => YearOf[s] <= YearOf[t]) /\ (t <= s => YearOf[t] <= YearOf[s])
  BY LedgerAssumption
<1> QED
  BY <1>1, <1>2, <1>3

LEMMA SlotBetween ==
  ASSUME NEW q \in Slots, NEW p \in Slots, NEW r \in Int, q <= r, r <= p
  PROVE  r \in Slots
<1>1. NSlots \in Nat
  BY LedgerAssumption
<1> QED
  BY <1>1 DEF Slots

\* An account with no dirty row has no gap in a year, and none at all if it is
\* carried across years.
LEMMA Unbroken ==
  ASSUME Standing, WovenBooks, NEW a \in Accounts, NEW p \in periods, Settled(a, p),
         NEW t \in Slots, <<a, t>> \in DOMAIN trialbal, NEW u \in Slots, t <= u, u <= p,
         a \in RevExp => YearOf[t] = YearOf[u]
  PROVE  <<a, u>> \in DOMAIN trialbal
<1> DEFINE Bad == {q \in Slots : t <= q /\ q <= u /\ <<a, q>> \notin DOMAIN trialbal}
<1>1. Slots \subseteq Nat /\ p \in Slots /\ p \in Int /\ t \in Int /\ u \in Int
  BY BooksNow DEF Slots
<1> SUFFICES ASSUME u \in Bad PROVE FALSE
  BY <1>1
<1>2. PICK q \in Bad : \A r \in Bad : q <= r
  <2>1. Bad \subseteq Nat /\ Bad # {}
    BY <1>1
  <2> HIDE DEF Bad
  <2> QED
    BY <2>1, LeastNumber
<1>3. q \in Slots /\ q \in Int /\ t <= q /\ q <= u /\ <<a, q>> \notin DOMAIN trialbal /\ q # t
  BY <1>1, <1>2
<1> DEFINE r == q - 1
<1>4. r \in Slots /\ r \in Int /\ t <= r /\ r < q /\ r < p /\ r + 1 = q /\ r <= u
  BY <1>1, <1>3, YearNumbers
<1>5. <<a, r>> \in DOMAIN trialbal
  <2>1. r \notin Bad
    BY <1>2, <1>4
  <2> QED
    BY <1>3, <1>4, <2>1
<1>6. q \in periods
  BY <1>1, <1>3, BooksNow DEF CalendarInv, NoHole
<1> HIDE DEF Bad, r
<1>7. ~Crosses(a, r)
  <2>1. ASSUME a \in RevExp PROVE YearOf[r] = YearOf[q]
    <3>0. t <= r /\ r <= q /\ q <= u /\ t \in Slots /\ r \in Slots /\ q \in Slots /\ u \in Slots
      BY <1>3, <1>4
    <3>1. YearOf[t] <= YearOf[r] /\ YearOf[r] <= YearOf[q] /\ YearOf[q] <= YearOf[u]
      BY ONLY <3>0, YearsGrow
    <3>2. YearOf[r] \in Nat /\ YearOf[q] \in Nat /\ YearOf[u] \in Nat
      BY <1>3, <1>4, YearsGrow
    <3> QED
      BY <2>1, <3>1, <3>2
  <2> QED
    BY <1>4, <2>1 DEF Crosses
<1>8. ~Stale(trialbal, a, r)
  <2> SUFFICES ASSUME trialbal[<<a, r>>].dirty PROVE FALSE
    BY DEF Stale
  <2>1. r \in DirtySlots(DB, a)
    BY <1>4, <1>5, BooksNow DEF DirtySlots, RowSlots
  <2>2. r > p
    BY <2>1 DEF Settled
  <2> QED
    BY <1>1, <1>4, <2>2
<1> DEFINE none == {}
<1>9. Tied(trialbal, a, q, none, none)
  BY <1>6 DEF WovenBooks, Knit, Threaded
<1>10. q - 1 = r
  BY <1>3 DEF r
<1> QED
  BY <1>3, <1>5, <1>7, <1>8, <1>9, <1>10 DEF Tied, Joined

\* An account with no dirty row up to slot p has none up to the slot before.
LEMMA SettledEarlier ==
  ASSUME Standing, NEW a, NEW p \in Slots, NEW q \in Slots, q <= p, Settled(a, p)
  PROVE  Settled(a, q)
<1>1. \A r \in DirtySlots(DB, a) : r \in Int
  BY DEF DirtySlots, RowSlots, Slots
<1>2. p \in Int /\ q \in Int
  BY DEF Slots
<1> QED
  BY <1>1, <1>2 DEF Settled

\* The equity account has its row in each period of a year that is over.
LEMMA EquityThere ==
  ASSUME Standing, EarnedBooks, NEW p, YearsOver(p), NEW q \in periods, YearOf[q] < YearOf[p]
  PROVE  <<YearEndEquityAccount, q>> \in DOMAIN trialbal
<1>1. q \in Slots
  BY BooksNow
<1>2. YearOf[q] \in yearclosed
  BY <1>1 DEF YearsOver, Years
<1>3. q \in closed
  BY <1>2, BooksNow DEF CalendarInv, ClosedInOrder
<1> QED
  BY <1>3 DEF EarnedBooks

\* What a row has been credited is the result of the year taken over.
LEMMA TakesOver ==
  ASSUME Standing, EarnedBooks, NEW a \in Accounts, NEW p, YearsOver(p),
         <<a, p>> \in DOMAIN trialbal
  PROVE  trialbal[<<a, p>>].yearend = Total(gltrans, TakenOver(a, p))
<1> DEFINE k == <<a, p>>
           r == p - 1
<1>1. p \in Slots /\ p \in periods /\ p \in Int /\ p >= 1
  BY BooksNow DEF YearsOver, Slots
<1>2. CASE a = YearEndEquityAccount /\ r \in Slots /\ YearOf[r] # YearOf[p]
  <2> DEFINE y == YearOf[r]
  <2>1. y < YearOf[p] /\ y \in Nat /\ y \in Years /\ YearOf[p] \in Nat
    BY <1>1, <1>2, YearsGrow
  <2>2. y \in yearclosed
    BY <2>1 DEF YearsOver
  <2>3. y + 1 \in Years
    BY <2>2 DEF EarnedBooks
  <2> DEFINE q == FirstSlot(y + 1)
  <2>4. q \in Slots /\ YearOf[q] = y + 1 /\ \A t \in Slots : YearOf[t] = y + 1 => q <= t
    BY <2>3, FirstSlotIs
  <2>5. q \in Int /\ r < q
    <3>1. YearOf[r] < YearOf[q]
      BY <2>1, <2>4
    <3> QED
      BY <1>2, <2>4, <3>1, YearsGrow
  <2>6. YearOf[p] = y + 1
    <3>1. p <= q
      BY <1>1, <2>5
    <3>2. YearOf[p] <= y + 1
      BY <1>1, <2>4, <3>1, YearsGrow
    <3> QED
      BY <2>1, <3>2
  <2>7. q = p
    BY <1>1, <2>4, <2>5, <2>6
  <2>8. Credited(trialbal, y, ProfitLoss(gltrans, y))
    BY <1>1, <2>2, <2>7 DEF EarnedBooks
  <2>9. EquityRow(y) = k
    BY <1>2, <2>7 DEF EquityRow
  <2>10. trialbal[k].yearend = ProfitLoss(gltrans, y)
    BY <2>8, <2>9 DEF Credited
  <2>11. TakenOver(a, p) = LossRows(gltrans, y)
    BY <1>2 DEF TakenOver
  <2> HIDE DEF y, k
  <2> QED
    BY <2>10, <2>11, LossIs DEF k
<1>3. CASE ~(a = YearEndEquityAccount /\ r \in Slots /\ YearOf[r] # YearOf[p])
  <2>1. TakenOver(a, p) = {}
    BY <1>3 DEF TakenOver
  <2>2. Total(gltrans, {}) = 0
    BY SumOfNone DEF Total
  <2>3. trialbal[k].yearend = 0
    <3> SUFFICES ASSUME trialbal[k].yearend # 0 PROVE FALSE
      OBVIOUS
    <3>1. PICK y \in Followed : k = EquityRow(y)
      BY DEF EarnedBooks, YearEnds
    <3>2. y \in Years /\ y + 1 \in Years /\ y \in Nat
      BY YearNumbers DEF Followed
    <3>3. a = YearEndEquityAccount /\ p = FirstSlot(y + 1)
      BY <3>1 DEF EquityRow
    <3>4. YearOf[p] = y + 1 /\ \A t \in Slots : YearOf[t] = y + 1 => p <= t
      BY <3>2, <3>3, FirstSlotIs
    <3>5. PICK s \in Slots : YearOf[s] = y
      BY <3>2 DEF Years
    <3>6. s < p /\ s \in Int /\ s >= 1
      BY <1>1, <3>2, <3>4, <3>5, YearsGrow DEF Slots
    <3>7. r \in Slots
      BY <1>1, <3>6, YearNumbers
    <3>8. YearOf[r] # YearOf[p]
      BY <1>1, <3>4, <3>7
    <3> QED
      BY <1>3, <3>3, <3>7, <3>8
  <2> QED
    BY <2>1, <2>2, <2>3
<1> QED
  BY <1>2, <1>3

LEMMA ShareRow ==
  ASSUME NEW a, NEW p, NEW i
  PROVE  i \in Share(a, p) <=>
           /\ i \in DOMAIN gltrans /\ gltrans[i].posted /\ gltrans[i].period <= p
           /\ IF gltrans[i].accnt \in RevExp /\ YearOf[gltrans[i].period] # YearOf[p]
              THEN a = YearEndEquityAccount ELSE a = gltrans[i].accnt
BY DEF Share, PostedUpTo, Holder

LEMMA PassedRow ==
  ASSUME NEW a, NEW p, NEW i
  PROVE  i \in PassedOn(a, p) <=> GoesOn(a, p) /\ i \in Share(a, p - 1)
BY DEF PassedOn

LEMMA PostedRow ==
  ASSUME NEW a, NEW p, NEW i
  PROVE  i \in PostedTo(a, p) <=> /\ i \in DOMAIN gltrans /\ gltrans[i].posted
                                  /\ gltrans[i].accnt = a /\ gltrans[i].period = p
BY DEF PostedTo, KeyOf

LEMMA TakenRow ==
  ASSUME Standing, NEW a, NEW p, NEW i
  PROVE  i \in TakenOver(a, p) <=>
           /\ a = YearEndEquityAccount /\ p - 1 \in Slots /\ YearOf[p - 1] # YearOf[p]
           /\ i \in DOMAIN gltrans /\ gltrans[i].posted /\ gltrans[i].accnt \in RevExp
           /\ YearOf[gltrans[i].period] = YearOf[p - 1]
<1>1. gltrans[i].posted /\ i \in DOMAIN gltrans => ~gltrans[i].deleted
  BY PostedHas
<1> QED
  BY <1>1 DEF TakenOver, LossRows

\* An account's share is what it was, what it takes over, and what is posted.
LEMMA SharePasses ==
  ASSUME Standing, NEW a \in Accounts, NEW p \in periods,
         NEW i, i \in PassedOn(a, p) \cup TakenOver(a, p) \cup PostedTo(a, p)
  PROVE  i \in Share(a, p)
<1> DEFINE q == gltrans[i].period
           b == gltrans[i].accnt
           r == p - 1
           E == YearEndEquityAccount
<1>1. p \in Slots /\ p \in Int /\ r + 1 = p
  BY BooksNow DEF Slots
<1>2. i \in DOMAIN gltrans /\ gltrans[i].posted
  BY ShareRow, PassedRow, PostedRow, TakenRow
<1>3. q \in Slots /\ q \in Int
  BY <1>2, PostedHas, YearNumbers
<1>4. E \notin RevExp
  BY LedgerAssumption
<1>5. CASE i \in PostedTo(a, p)
  <2>1. b = a /\ q = p
    BY <1>5, PostedRow
  <2> QED
    BY <1>1, <1>2, <2>1, ShareRow
<1>6. CASE i \in TakenOver(a, p)
  <2>1. a = E /\ r \in Slots /\ YearOf[r] # YearOf[p] /\ b \in RevExp /\ YearOf[q] = YearOf[r]
    BY <1>6, TakenRow
  <2>2. YearOf[q] < YearOf[p]
    BY <1>1, <2>1, YearsGrow
  <2>3. q < p
    BY <1>1, <1>3, <2>2, YearsGrow
  <2> QED
    BY <1>1, <1>2, <1>3, <2>1, <2>3, ShareRow
<1>7. CASE i \in PassedOn(a, p)
  <2>1. /\ GoesOn(a, p) /\ q <= r
        /\ IF b \in RevExp /\ YearOf[q] # YearOf[r] THEN a = E ELSE a = b
    BY <1>7, PassedRow, ShareRow
  <2>2. r \in Slots
    <3>1. r \in Int /\ q <= r /\ r <= p
      BY <1>1, <2>1
    <3> QED
      BY ONLY <1>1, <1>3, <3>1, SlotBetween
  <2>3. a \in RevExp => YearOf[r] = YearOf[p]
    BY <1>1, <2>1 DEF GoesOn, Crosses
  <2>4. YearOf[q] <= YearOf[r] /\ YearOf[r] <= YearOf[p]
    <3>1. q <= r /\ r <= p
      BY <1>1, <2>1
    <3> QED
      BY ONLY <1>1, <1>3, <2>2, <3>1, YearsGrow
  <2>5. YearOf[q] \in Nat /\ YearOf[r] \in Nat /\ YearOf[p] \in Nat
    BY <1>1, <1>3, <2>2, YearsGrow
  <2>6. IF b \in RevExp /\ YearOf[q] # YearOf[p] THEN a = E ELSE a = b
    BY <1>4, <2>1, <2>3, <2>4, <2>5
  <2> QED
    BY <1>1, <1>2, <1>3, <2>1, <2>6, ShareRow
<1> QED
  BY <1>5, <1>6, <1>7

LEMMA ShareComes ==
  ASSUME Standing, WovenBooks, EarnedBooks, NEW a \in Accounts, NEW p, YearsOver(p),
         Settled(a, p), NEW i \in Share(a, p)
  PROVE  i \in PassedOn(a, p) \cup TakenOver(a, p) \cup PostedTo(a, p)
<1> DEFINE q == gltrans[i].period
           b == gltrans[i].accnt
           r == p - 1
           E == YearEndEquityAccount
<1>1. p \in Slots /\ p \in Int /\ p \in periods /\ r + 1 = p /\ r < p
  BY BooksNow DEF Slots, YearsOver
<1>2. /\ i \in DOMAIN gltrans /\ gltrans[i].posted /\ q <= p
      /\ IF b \in RevExp /\ YearOf[q] # YearOf[p] THEN a = E ELSE a = b
  BY ShareRow
<1>3. q \in Slots /\ q \in Int /\ q \in periods /\ <<b, q>> \in DOMAIN trialbal
  BY <1>2, PostedHas, YearNumbers DEF KeyOf
<1>4. E \notin RevExp
  BY LedgerAssumption
<1>5. CASE q = p
  BY <1>2, <1>5, PostedRow
<1>6. CASE q # p
  <2>1. q <= r /\ r \in Slots /\ r \in Int /\ r <= p
    <3>1. q <= r /\ r \in Int /\ r <= p
      BY <1>1, <1>2, <1>3, <1>6
    <3> QED
      BY ONLY <1>1, <1>3, <3>1, SlotBetween
  <2>2. YearOf[q] <= YearOf[r] /\ YearOf[r] <= YearOf[p]
    BY ONLY <1>1, <1>3, <2>1, YearsGrow
  <2>3. YearOf[q] \in Nat /\ YearOf[r] \in Nat /\ YearOf[p] \in Nat
    BY <1>1, <1>3, <2>1, YearsGrow
  <2>4. ASSUME <<a, q>> \in DOMAIN trialbal, a \in RevExp => YearOf[q] = YearOf[p]
        PROVE  GoesOn(a, p)
    <3>1. a \in RevExp => YearOf[q] = YearOf[r] /\ YearOf[r] = YearOf[p]
      BY <2>2, <2>3, <2>4
    <3>2. <<a, r>> \in DOMAIN trialbal
      BY <1>1, <1>3, <2>1, <2>4, <3>1, Unbroken
    <3> QED
      BY <1>1, <3>1, <3>2 DEF GoesOn, Crosses
  <2>5. CASE b \in RevExp /\ YearOf[q] # YearOf[p]
    <3>1. a = E
      BY <1>2, <2>5
    <3>2. CASE YearOf[q] = YearOf[r]
      BY <1>2, <2>1, <2>5, <3>1, <3>2, TakenRow
    <3>3. CASE YearOf[q] # YearOf[r]
      <4>1. YearOf[q] < YearOf[p]
        BY <2>2, <2>3, <2>5
      <4>2. <<a, q>> \in DOMAIN trialbal
        BY <1>3, <3>1, <4>1, EquityThere
      <4>3. GoesOn(a, p)
        BY <1>4, <2>4, <3>1, <4>2
      <4>4. i \in Share(a, r)
        BY <1>2, <2>1, <2>5, <3>1, <3>3, ShareRow
      <4> QED
        BY <4>3, <4>4, PassedRow
    <3> QED
      BY <3>2, <3>3
  <2>6. CASE ~(b \in RevExp /\ YearOf[q] # YearOf[p])
    <3>1. a = b /\ (b \in RevExp => YearOf[q] = YearOf[p])
      BY <1>2, <2>6
    <3>2. GoesOn(a, p)
      BY <1>3, <2>4, <3>1
    <3>3. b \in RevExp => YearOf[q] = YearOf[r]
      BY <2>2, <2>3, <3>1
    <3>4. i \in Share(a, r)
      BY <1>2, <2>1, <3>1, <3>3, ShareRow
    <3> QED
      BY <3>2, <3>4, PassedRow
  <2> QED
    BY <2>5, <2>6
<1> QED
  BY <1>5, <1>6

LEMMA ShareParts ==
  ASSUME Standing, NEW a \in Accounts, NEW p \in periods
  PROVE  /\ PassedOn(a, p) \cap TakenOver(a, p) = {}
         /\ (PassedOn(a, p) \cup TakenOver(a, p)) \cap PostedTo(a, p) = {}
<1>1. p \in Slots /\ p \in Int
  BY BooksNow DEF Slots
<1>2. YearEndEquityAccount \notin RevExp
  BY LedgerAssumption
<1>3. ASSUME NEW i \in PassedOn(a, p), i \in TakenOver(a, p) PROVE FALSE
  BY <1>2, <1>3, PassedRow, TakenRow, ShareRow
<1>4. ASSUME NEW i \in PassedOn(a, p), i \in PostedTo(a, p) PROVE FALSE
  <2>1. gltrans[i].period = p /\ gltrans[i].period <= p - 1
    BY <1>4, PassedRow, PostedRow, ShareRow
  <2> QED
    BY <1>1, <2>1
<1>5. ASSUME NEW i \in TakenOver(a, p), i \in PostedTo(a, p) PROVE FALSE
  BY <1>5, TakenRow, PostedRow
<1> QED
  BY <1>3, <1>4, <1>5

\* Sets of ledger rows, and their sums.
LEMMA RowSums ==
  ASSUME Standing, NEW T, T \subseteq DOMAIN gltrans
  PROVE  /\ IsFiniteSet(T) /\ \A i \in T : AmountsOf(gltrans)[i] \in Int
         /\ Total(gltrans, T) \in Int
<1>1. IsFiniteSet(T) /\ \A i \in T : AmountsOf(gltrans)[i] \in Int
  BY BooksNow, PositionsFinite DEF IsRows, AmountsOf
<1> QED
  BY <1>1, SumInt DEF Total

LEMMA ShareSum ==
  ASSUME Standing, WovenBooks, EarnedBooks, NEW a \in Accounts, NEW p, YearsOver(p),
         Settled(a, p)
  PROVE  Total(gltrans, Share(a, p)) = Total(gltrans, PassedOn(a, p))
                + Total(gltrans, TakenOver(a, p)) + Total(gltrans, PostedTo(a, p))
<1> DEFINE A == PassedOn(a, p)
           B == TakenOver(a, p)
           C == PostedTo(a, p)
           f == AmountsOf(gltrans)
<1>1. p \in periods
  BY DEF YearsOver
<1>2. Share(a, p) = A \cup B \cup C
  BY <1>1, SharePasses, ShareComes
<1>3. A \cap B = {} /\ (A \cup B) \cap C = {}
  BY <1>1, ShareParts
<1>4. A \subseteq DOMAIN gltrans /\ B \subseteq DOMAIN gltrans /\ C \subseteq DOMAIN gltrans
  BY DEF PassedOn, TakenOver, PostedTo, Share, PostedUpTo, LossRows
<1> HIDE DEF A, B, C, f
<1>5. /\ IsFiniteSet(A) /\ IsFiniteSet(B) /\ IsFiniteSet(C) /\ IsFiniteSet(A \cup B)
      /\ \A i \in A \cup B \cup C : f[i] \in Int
  <2>1. A \cup B \cup C \subseteq DOMAIN gltrans /\ A \cup B \subseteq DOMAIN gltrans
    BY <1>4
  <2> QED
    BY <1>4, <2>1, RowSums DEF f
<1>6. SumFunctionOnSet(f, A \cup B) = SumFunctionOnSet(f, A) + SumFunctionOnSet(f, B)
  BY <1>3, <1>5, SumOfUnion
<1>7. SumFunctionOnSet(f, (A \cup B) \cup C)
        = SumFunctionOnSet(f, A \cup B) + SumFunctionOnSet(f, C)
  BY <1>3, <1>5, SumOfUnion
<1> QED
  BY <1>2, <1>6, <1>7 DEF Total, A, B, C, f

\* An account ends a period with its share.
LEMMA Holds ==
  ASSUME Standing, WovenBooks, EarnedBooks, NEW a \in Accounts, NEW p, YearsOver(p),
         Settled(a, p), <<a, p>> \in DOMAIN trialbal
  PROVE  trialbal[<<a, p>>].ending = Total(gltrans, Share(a, p))
<1> DEFINE Bad == {q \in Slots : /\ YearsOver(q) /\ Settled(a, q) /\ <<a, q>> \in DOMAIN trialbal
                                 /\ trialbal[<<a, q>>].ending # Total(gltrans, Share(a, q))}
<1>1. Slots \subseteq Nat /\ p \in Slots
  BY BooksNow DEF Slots, YearsOver
<1> SUFFICES ASSUME p \in Bad PROVE FALSE
  BY <1>1
<1>2. PICK q \in Bad : \A r \in Bad : q <= r
  <2>1. Bad \subseteq Nat /\ Bad # {}
    BY <1>1
  <2> HIDE DEF Bad
  <2> QED
    BY <2>1, LeastNumber
<1> DEFINE k == <<a, q>>
           r == q - 1
           row == trialbal[k]
<1>3. /\ q \in Slots /\ q \in Int /\ YearsOver(q) /\ Settled(a, q) /\ k \in DOMAIN trialbal
      /\ row.ending # Total(gltrans, Share(a, q)) /\ q \in periods /\ r < q /\ r <= q
  BY <1>1, <1>2 DEF YearsOver
<1>4. row.beginning = (IF GoesOn(a, q) THEN trialbal[<<a, r>>].ending ELSE 0) + row.yearend
  BY <1>3, BeginsWith
<1>5. row.yearend = Total(gltrans, TakenOver(a, q))
  BY <1>3, TakesOver
<1>6. /\ row.ending = row.beginning + Total(gltrans, PostedTo(a, q))
      /\ Total(gltrans, PostedTo(a, q)) \in Int /\ row.yearend \in Int
  BY <1>3, MovesBy
<1>7. /\ Total(gltrans, PassedOn(a, q)) = IF GoesOn(a, q) THEN trialbal[<<a, r>>].ending ELSE 0
      /\ Total(gltrans, PassedOn(a, q)) \in Int
  <2>1. CASE ~GoesOn(a, q)
    <3>1. PassedOn(a, q) = {}
      BY <2>1 DEF PassedOn
    <3> QED
      BY <2>1, <3>1, SumOfNone DEF Total
  <2>2. CASE GoesOn(a, q)
    <3>1. <<a, r>> \in DOMAIN trialbal /\ PassedOn(a, q) = Share(a, r)
      BY <2>2 DEF GoesOn, PassedOn
    <3>2. r \in Slots /\ r \in periods
      <4> DEFINE j == <<a, r>>
      <4>1. j \in Keys /\ j \in DOMAIN trialbal
        BY <3>1, BooksNow DEF TBTyped
      <4>2. j[2] \in periods
        BY <4>1, BooksNow DEF Within
      <4> QED
        BY <4>2, BooksNow
    <3>3. YearsOver(r)
      <4>1. YearOf[r] <= YearOf[q]
        BY ONLY <1>3, <3>2, YearsGrow
      <4>2. YearOf[r] \in Nat /\ YearOf[q] \in Nat
        BY <1>3, <3>2, YearsGrow
      <4> QED
        BY <1>3, <3>2, <4>1, <4>2, YearNumbers DEF YearsOver
    <3>4. Settled(a, r)
      BY <1>3, <3>2, SettledEarlier
    <3>5. r \notin Bad
      BY <1>2, <1>3
    <3>6. trialbal[<<a, r>>].ending = Total(gltrans, Share(a, r))
      BY <3>1, <3>2, <3>3, <3>4, <3>5
    <3>7. Share(a, r) \subseteq DOMAIN gltrans
      BY DEF Share, PostedUpTo
    <3> QED
      BY <2>2, <3>1, <3>6, <3>7, RowSums
  <2> QED
    BY <2>1, <2>2
<1>8. Total(gltrans, Share(a, q)) = Total(gltrans, PassedOn(a, q))
                + Total(gltrans, TakenOver(a, q)) + Total(gltrans, PostedTo(a, q))
  BY <1>3, ShareSum
<1> HIDE DEF Bad, k, r, row
<1> QED
  BY <1>3, <1>4, <1>5, <1>6, <1>7, <1>8

\* An account without balances holds nothing.
LEMMA HoldsNothing ==
  ASSUME Standing, EarnedBooks, NEW a \in Accounts, NEW p, YearsOver(p),
         RowSlots(DB, a) = {}
  PROVE  Share(a, p) = {}
<1> SUFFICES ASSUME NEW i \in Share(a, p) PROVE FALSE
  OBVIOUS
<1> DEFINE q == gltrans[i].period
           b == gltrans[i].accnt
           E == YearEndEquityAccount
<1>1. /\ i \in DOMAIN gltrans /\ gltrans[i].posted /\ q <= p
      /\ IF b \in RevExp /\ YearOf[q] # YearOf[p] THEN a = E ELSE a = b
  BY ShareRow
<1>2. q \in Slots /\ q \in periods /\ <<b, q>> \in DOMAIN trialbal /\ p \in Slots
  BY <1>1, PostedHas, BooksNow DEF KeyOf, YearsOver
<1>3. <<a, q>> \notin DOMAIN trialbal
  BY <1>2, BooksNow DEF RowSlots
<1>4. a = E /\ YearOf[q] # YearOf[p]
  BY <1>1, <1>2, <1>3
<1>5. YearOf[q] < YearOf[p]
  <2>1. YearOf[q] <= YearOf[p]
    BY ONLY <1>1, <1>2, YearsGrow
  <2> QED
    BY <1>2, <1>4, <2>1, YearsGrow
<1> QED
  BY <1>2, <1>3, <1>4, <1>5, EquityThere

\* The finitely many images of a finite set.
LEMMA ImagesFinite ==
  ASSUME NEW S, IsFiniteSet(S), NEW h
  PROVE  IsFiniteSet({h[x] : x \in S})
<1> DEFINE V == {h[x] : x \in S}
           e == [x \in S |-> h[x]]
<1>1. e \in Surjection(S, V)
  BY DEF Surjection
<1> QED
  BY <1>1, FS_Surjection

LEMMA AccountsFinite == IsFiniteSet(Accounts)
<1>1. IsSeq(AccountOrder)
  BY LedgerAssumption DEF IsSeq
<1>2. IsFiniteSet(DOMAIN AccountOrder)
  BY <1>1, PositionsFinite
<1>3. IsFiniteSet({AccountOrder[n] : n \in DOMAIN AccountOrder})
  BY <1>2, ImagesFinite
<1> QED
  BY <1>3 DEF Accounts, ToSet

-----------------------------------------------------------------------------
(* Trial balances.                                                         *)

\* What the balances of a period end with, all accounts together.
Endings(tb, p) ==
    SumFunctionOnSet([k \in DOMAIN tb |-> tb[k].ending], {k \in DOMAIN tb : k[2] = p})

\* The years before slot p's are closed, no account has a dirty row up to p,
\* and every account with balances has its row in p.
Drawn(p) ==
    /\ \A y \in Years : y < YearOf[p] => y \in yearclosed
    /\ \A a \in Accounts : Settled(a, p) /\ (RowSlots(DB, a) # {} => p \in RowSlots(DB, a))

\* What the accounts of a period end with is what has been posted up to it.
EndingsArePosted ==
    \A p \in periods : Drawn(p) => Endings(trialbal, p) = Total(gltrans, PostedUpTo(p))

\* The shares of all accounts are what has been posted.
LEMMA SharesSum ==
  ASSUME Standing, NEW p \in periods
  PROVE  Total(gltrans, PostedUpTo(p))
           = SumFunctionOnSet([a \in Accounts |-> Total(gltrans, Share(a, p))], Accounts)
<1> DEFINE S == PostedUpTo(p)
           K == Accounts
           f == AmountsOf(gltrans)
           key == [i \in S |-> Holder(gltrans[i], p)]
           part == [a \in K |-> Share(a, p)]
           g == [a \in K |-> Total(gltrans, Share(a, p))]
<1>1. S \subseteq DOMAIN gltrans
  BY DEF PostedUpTo
<1>2. IsFiniteSet(S) /\ \A i \in S : f[i] \in Int
  BY <1>1, RowSums
<1>3. \A i \in S : key[i] \in K
  <2> SUFFICES ASSUME NEW i \in S PROVE Holder(gltrans[i], p) \in Accounts
    OBVIOUS
  <2>1. i \in DOMAIN gltrans /\ gltrans[i].posted
    BY DEF PostedUpTo
  <2>2. gltrans[i].accnt \in Accounts /\ YearEndEquityAccount \in Accounts
    BY <2>1, PostedHas, LedgerAssumption
  <2> QED
    BY <2>2 DEF Holder
<1>4. \A a \in K : part[a] = {i \in S : key[i] = a}
  BY DEF Share
<1>5. \A a \in K : g[a] = SumFunctionOnSet(f, part[a])
  BY DEF Total
<1>6. IsFiniteSet(K)
  BY AccountsFinite
<1> HIDE DEF S, K, f, key, part, g
<1>7. SumFunctionOnSet(f, S) = SumFunctionOnSet(g, K)
  BY <1>2, <1>3, <1>4, <1>5, <1>6, SumOfParts
<1> QED
  BY <1>7 DEF Total, S, K, f, g

\* The endings of a period are the shares of the accounts that have a row in it.
LEMMA EndingsAreShares ==
  ASSUME Standing, WovenBooks, EarnedBooks, NEW p \in periods, Drawn(p)
  PROVE  Endings(trialbal, p)
           = SumFunctionOnSet([a \in Accounts |-> Total(gltrans, Share(a, p))], Accounts)
<1> DEFINE g == [a \in Accounts |-> Total(gltrans, Share(a, p))]
           T == {a \in Accounts : <<a, p>> \in DOMAIN trialbal}
           h == [a \in Accounts |-> <<a, p>>]
           e == [k \in DOMAIN trialbal |-> trialbal[k].ending]
           R == {k \in DOMAIN trialbal : k[2] = p}
<1>1. p \in Slots /\ YearsOver(p) /\ DB.tb = trialbal
  BY BooksNow DEF Drawn, YearsOver
<1>2. T \in SUBSET Accounts /\ IsFiniteSet(T) /\ IsFiniteSet(Accounts)
  BY AccountsFinite, FS_Subset
<1>3. \A a \in T : g[a] \in Int /\ e[h[a]] = g[a]
  <2> SUFFICES ASSUME NEW a \in T PROVE g[a] \in Int /\ e[<<a, p>>] = g[a]
    OBVIOUS
  <2>1. a \in Accounts /\ <<a, p>> \in DOMAIN trialbal /\ Settled(a, p)
    BY DEF Drawn
  <2>2. trialbal[<<a, p>>].ending = Total(gltrans, Share(a, p))
    BY <1>1, <2>1, Holds
  <2>3. Share(a, p) \subseteq DOMAIN gltrans
    BY DEF Share, PostedUpTo
  <2>4. Total(gltrans, Share(a, p)) \in Int
    BY <2>3, RowSums
  <2> QED
    BY <2>1, <2>2, <2>4
<1>4. \A a \in Accounts \ T : g[a] = 0
  <2> SUFFICES ASSUME NEW a \in Accounts \ T PROVE Total(gltrans, Share(a, p)) = 0
    OBVIOUS
  <2>1. RowSlots(DB, a) = {}
    BY <1>1 DEF Drawn, RowSlots
  <2>2. Share(a, p) = {}
    BY <1>1, <2>1, HoldsNothing
  <2> QED
    BY <2>2, SumOfNone DEF Total
<1>5. R = {h[a] : a \in T}
  <2>1. ASSUME NEW k \in R PROVE \E a \in T : k = h[a]
    <3>1. k \in Accounts \X Slots /\ k[2] = p
      BY BooksNow DEF TBTyped, Keys
    <3>2. k[1] \in Accounts /\ k = <<k[1], p>>
      BY <3>1
    <3> QED
      BY <3>2
  <2>2. ASSUME NEW a \in T PROVE h[a] \in R
    OBVIOUS
  <2> QED
    BY <2>1, <2>2
<1>6. \A a, b \in T : h[a] = h[b] => a = b
  OBVIOUS
<1>7. Endings(trialbal, p) = SumFunctionOnSet(e, R)
  BY DEF Endings
<1> HIDE DEF g, T, h, e, R
<1>8. SumFunctionOnSet(g, T) = SumFunctionOnSet(e, {h[a] : a \in T})
  BY <1>2, <1>3, <1>6, SumRenamed
<1>9. SumFunctionOnSet(g, Accounts) = SumFunctionOnSet(g, T)
  BY <1>2, <1>3, <1>4, SumOfSome
<1> QED
  BY <1>5, <1>7, <1>8, <1>9 DEF g

LEMMA EndingsPosted ==
  ASSUME Standing, WovenBooks, EarnedBooks PROVE EndingsArePosted
BY SharesSum, EndingsAreShares DEF EndingsArePosted

\* Each sequence has been posted with one period's date.
OneDated ==
    \A i, j \in DOMAIN gltrans :
        gltrans[i].posted /\ gltrans[j].posted /\ gltrans[i].sequence = gltrans[j].sequence
        => gltrans[i].period = gltrans[j].period

\* Then what has been posted up to a period is whole sequences, and adds up to
\* nothing.
LEMMA PostedIsWhole ==
  ASSUME Standing, OneDated, NEW p
  PROVE  Total(gltrans, PostedUpTo(p)) = 0
<1> DEFINE S == PostedUpTo(p)
           f == AmountsOf(gltrans)
           key == [i \in S |-> gltrans[i].sequence]
           K == {key[i] : i \in S}
           part == [q \in K |-> OfSequence(gltrans, q)]
           g == [q \in K |-> 0]
<1>1. S \subseteq DOMAIN gltrans
  BY DEF PostedUpTo
<1>2. IsFiniteSet(S) /\ \A i \in S : f[i] \in Int
  BY <1>1, RowSums
<1>3. \A i \in S : key[i] \in K
  OBVIOUS
<1>4. \A q \in K : part[q] = {i \in S : key[i] = q}
  <2> SUFFICES ASSUME NEW j \in S
               PROVE  OfSequence(gltrans, gltrans[j].sequence)
                        = {i \in S : gltrans[i].sequence = gltrans[j].sequence}
    OBVIOUS
  <2>1. j \in DOMAIN gltrans /\ gltrans[j].posted /\ gltrans[j].period <= p
    BY DEF PostedUpTo
  <2>2. ASSUME NEW i \in DOMAIN gltrans, gltrans[i].sequence = gltrans[j].sequence PROVE i \in S
    <3>1. gltrans[i].posted
      BY <2>1, <2>2, BooksNow DEF Whole
    <3>2. gltrans[i].period = gltrans[j].period
      BY <2>1, <2>2, <3>1 DEF OneDated
    <3> QED
      BY <2>1, <3>1, <3>2 DEF PostedUpTo
  <2> QED
    BY <1>1, <2>2 DEF OfSequence
<1>5. \A q \in K : g[q] = SumFunctionOnSet(f, part[q])
  <2> SUFFICES ASSUME NEW j \in S
               PROVE  Total(gltrans, OfSequence(gltrans, gltrans[j].sequence)) = 0
    BY DEF Total
  <2>1. gltrans[j].sequence \in Int
    BY <1>1, BooksNow DEF GLTyped, LedgerRows
  <2> QED
    BY <2>1, BooksNow DEF Whole
<1>6. IsFiniteSet(K)
  <2> HIDE DEF S, key
  <2> QED
    BY <1>2, ImagesFinite
<1>7. \A q \in K : g[q] = 0
  OBVIOUS
<1> HIDE DEF S, f, key, K, part, g
<1>8. SumFunctionOnSet(f, S) = SumFunctionOnSet(g, K)
  BY <1>2, <1>3, <1>4, <1>5, <1>6, SumOfParts
<1>9. SumFunctionOnSet(g, K) = 0
  BY <1>6, <1>7, SumZero
<1> QED
  BY <1>8, <1>9 DEF Total, S, f

LEMMA TrialBalanced ==
  ASSUME Standing, EndingsArePosted, OneDated PROVE TrialBalances
<1> SUFFICES ASSUME NEW p \in periods, Drawn(p) PROVE Endings(trialbal, p) = 0
  BY DEF TrialBalances, Drawn, Endings
<1> QED
  BY PostedIsWhole DEF EndingsArePosted

\* The invariants of this module together.
AllBooks == Standing /\ WovenBooks /\ EarnedBooks

LEMMA AllBooksHold ==
    ASSUME Orderly, FirstOnes, EquityEarly
    PROVE  Spec => []AllBooks
<1>1. Init => AllBooks
  BY FirstOnes, FirstStanding, FirstKnit, FirstEarned DEF AllBooks
<1>2. AllBooks /\ [Next]_vars => AllBooks'
  <2> SUFFICES ASSUME Standing, WovenBooks, EarnedBooks, [Next]_vars
               PROVE  Standing' /\ WovenBooks' /\ EarnedBooks'
    BY DEF AllBooks
  <2>1. Standing' /\ Preserved
    BY Orderly, StandingKept, StepPreserves DEF Standing
  <2>2. BInv'
    BY <2>1 DEF Standing
  <2> QED
    BY Orderly, EquityEarly, <2>1, <2>2, NextKnits, NextEarns
<1> QED
  BY <1>1, <1>2, PTL DEF Spec

\* The balances of a period, of all accounts together, end with what has been
\* posted up to it, neither more nor less: nothing that users post, correct,
\* carry forward, close, open, delete or create again counts twice or is lost on
\* the way from period to period, nor when a closed year's result moves to the
\* equity account.
THEOREM EndingsArePostedHolds ==
    ASSUME Orderly, FirstOnes, EquityEarly
    PROVE  Spec => []EndingsArePosted
<1>1. AllBooks => EndingsArePosted
  BY EndingsPosted DEF AllBooks
<1> QED
  BY Orderly, FirstOnes, EquityEarly, AllBooksHold, <1>1, PTL

\* A trial balance is in balance as long as every sequence has been posted with
\* one period's date.  A series whose rows are dated in two periods is balanced
\* as a whole, so that between the two the trial balance need not be.
THEOREM TrialBalancesHolds ==
    ASSUME Orderly, FirstOnes, EquityEarly
    PROVE  Spec => [](OneDated => TrialBalances)
<1>1. AllBooks => (OneDated => TrialBalances)
  BY EndingsPosted, TrialBalanced DEF AllBooks
<1> QED
  BY Orderly, FirstOnes, EquityEarly, AllBooksHold, <1>1, PTL

=============================================================================
