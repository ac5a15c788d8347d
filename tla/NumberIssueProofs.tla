-------------------------- MODULE NumberIssueProofs --------------------------
(***************************************************************************)
(* Numbers stay distinct, and gapless numbering stays gapless, for any      *)
(* number of forms and any limits, when transactions do not overlap and no  *)
(* number is issued longer than the reset interval.                         *)
(***************************************************************************)
EXTENDS NumberIssue, TLAPS

\* Sessions take turns, and nothing issued grows stale.
Calm == ~Overlap /\ LastDay <= Interval

\* The number a form claims: the one it holds, or is about to give back.
Claim(f) == IF call[f].op = "release" THEN call[f].n ELSE held[f]

\* What a transaction has read is still there when it writes.
CallsCurrent ==
    \A f \in Forms :
        /\ call[f].op \in {"idle", "save", "release"} /\ call[f].n \in Nat
        /\ call[f].op = "save" => call[f].n = held[f]
        /\ call[f].op = "release" => held[f] = 0
        /\ call[f].op # "idle" => /\ call[f].n # 0
                                  /\ call[f].seen = seqiss /\ call[f].next = number
                                  /\ \A g \in Forms \ {f} : IsIdle(g)

\* Claims are distinct, unused, and either listed or behind the counter.
ClaimsSound ==
    \A f \in Forms :
        Claim(f) # 0 => /\ Claim(f) \notin docs
                        /\ gapless => Claim(f) \in Issued(seqiss)
                        /\ ~gapless => Claim(f) < number
                        /\ \A g \in Forms \ {f} : Claim(g) # Claim(f)

IInv ==
    /\ TypeOK /\ CallsCurrent /\ ClaimsSound /\ NoGap
    /\ DOMAIN call = Forms /\ call = [f \in Forms |-> call[f]]
    /\ ~gapless => Issued(seqiss) = {}

LEMMA Fresh ==
    ASSUME Calm, IInv
    PROVE  Stale(seqiss) = {}
BY NumberAssumption DEF Calm, IInv, TypeOK, Stale, Issued

LEMMA MinPair ==
    ASSUME NEW m \in Nat, NEW n \in Nat
    PROVE  Min({m, n}) = IF m <= n THEN m ELSE n
BY DEF Min

LEMMA InitSound == Init => IInv
BY NumberAssumption
   DEF Init, IInv, TypeOK, CallsCurrent, ClaimsSound, NoGap, Issued, Empty, Idle,
       Transaction, Claim

LEMMA FetchStep ==
    ASSUME Calm, IInv, NEW f \in Forms, Fetch(f)
    PROVE  IInv'
<1> USE DEF IInv, Issued
<1>1. PICK n \in number..MaxNumber :
        /\ Free(n) /\ \A m \in number..(n - 1) : ~Free(m)
        /\ Hand(f, n)
  BY DEF Fetch
<1>2. n \in Nat \ {0} /\ number <= n BY <1>1, NumberAssumption DEF TypeOK
<1>3. held[f] = 0 /\ call[f].op = "idle" BY DEF Fetch, IsIdle
<1>4. /\ held' = [held EXCEPT ![f] = n] /\ number' = n + 1
      /\ gapless' = gapless /\ docs' = docs /\ used' = used /\ call' = call
      /\ today' = today
      /\ gapless => /\ DOMAIN seqiss' = DOMAIN seqiss \cup {n}
                    /\ \A m \in DOMAIN seqiss' :
                          seqiss'[m] = IF m = n THEN today ELSE seqiss[m]
      /\ ~gapless => seqiss' = seqiss
  BY <1>1 DEF Hand
<1>5. TypeOK' BY <1>2, <1>4, NumberAssumption DEF TypeOK
<1>6. \A g \in Forms \ {f} : Claim(g) # n
  BY <1>1, <1>2 DEF ClaimsSound, Free, TypeOK, Claim, CallsCurrent
<1>7. Claim(f)' = n /\ \A g \in Forms \ {f} : Claim(g)' = Claim(g)
  BY <1>3, <1>4 DEF Claim, TypeOK
<1>8. ClaimsSound'
  <2>1. n \notin docs BY <1>1 DEF Free
  <2>2. \A g \in Forms : Claim(g) \in Nat BY DEF Claim, TypeOK
  <2> QED BY <1>2, <1>4, <1>6, <1>7, <2>1, <2>2 DEF ClaimsSound, TypeOK
<1>9. CallsCurrent'
  <2>1. \A g \in Forms : call[g].op = "idle"
    BY <1>3 DEF Calm, Quiet, IsIdle, Fetch
  <2>2. \A g \in Forms : call[g].op = "save" => held'[g] = held[g]
    BY <1>3, <1>4 DEF TypeOK
  <2> QED BY <1>4, <2>1, <2>2 DEF CallsCurrent, IsIdle
<1>10. NoGap'
  <2> SUFFICES ASSUME gapless, NEW m \in 1..n
               PROVE  m \in used \/ m \in DOMAIN seqiss'
    BY <1>2, <1>4 DEF NoGap
  <2>1. CASE m < number BY <1>4, <2>1 DEF NoGap, TypeOK
  <2>2. CASE m = n BY <1>4, <2>2
  <2>3. CASE number <= m /\ m < n
    BY <1>1, <1>2, <1>4, <2>3 DEF Free, TypeOK
  <2> QED BY <1>2, <2>1, <2>2, <2>3 DEF TypeOK
<1> QED BY <1>4, <1>5, <1>8, <1>9, <1>10

LEMMA StartStep ==
    ASSUME Calm, IInv, NEW f \in Forms, StartSave(f) \/ StartRelease(f)
    PROVE  IInv'
<1> USE DEF IInv, Issued
<1>1. PICK op \in {"save", "release"} :
        /\ Start(f, op)
        /\ op = "save" => held' = held
        /\ op = "release" => held' = [held EXCEPT ![f] = 0]
  BY DEF StartSave, StartRelease
<1>2. /\ call[f].op = "idle" /\ held[f] # 0
      /\ \A g \in Forms \ {f} : call[g].op = "idle"
  BY <1>1 DEF Start, IsIdle, Quiet, Calm
<1>3. /\ UNCHANGED <<gapless, number, seqiss, docs, used, today>>
      /\ \A g \in Forms \ {f} : call'[g] = call[g]
      /\ DOMAIN call' = Forms /\ call' = [g \in Forms |-> call'[g]]
      /\ call'[f].op = op /\ call'[f].n = held[f]
      /\ call'[f].seen = seqiss /\ call'[f].next = number
  BY <1>1 DEF Start, Transaction
<1>4. TypeOK' BY <1>1, <1>3 DEF TypeOK
<1>5. \A g \in Forms : Claim(g)' = Claim(g)
  BY <1>1, <1>2, <1>3 DEF Claim, TypeOK
<1>6. ClaimsSound' BY <1>3, <1>5 DEF ClaimsSound
<1>7. CallsCurrent' BY <1>1, <1>2, <1>3 DEF CallsCurrent, TypeOK, IsIdle
<1>8. NoGap' BY <1>3 DEF NoGap
<1> QED BY <1>3, <1>4, <1>6, <1>7, <1>8

\* With nothing stale, clearing a number takes it off the list and leaves the
\* counter.
LEMMA Clearing ==
    ASSUME Calm, IInv, NEW n, WriteCleared(seqiss, n)
    PROVE  /\ Counter(seqiss, n) = number
           /\ Issued(seqiss') = Issued(seqiss) \ {n}
           /\ \A m \in Issued(seqiss') : seqiss'[m] = seqiss[m]
<1>1. Stale(seqiss) = {} BY Fresh
<1>2. Counter(seqiss, n) = number BY <1>1 DEF Counter
<1>3. CASE Issued(seqiss) = {}
  BY <1>2, <1>3 DEF WriteCleared, Issued
<1>4. CASE Issued(seqiss) # {}
  <2>1. seqiss' = [m \in Issued(seqiss) \ {n} |-> seqiss[m]]
    BY <1>1, <1>4 DEF WriteCleared, Cleared, Restrict
  <2> QED BY <1>2, <2>1 DEF Issued
<1> QED BY <1>2, <1>3, <1>4

LEMMA SaveStep ==
    ASSUME Calm, IInv, NEW f \in Forms, EndSave(f)
    PROVE  IInv'
<1> USE DEF IInv
<1> DEFINE n == call[f].n
<1>1. /\ call[f].op = "save" /\ n = held[f] /\ n \in Nat \ {0}
      /\ call[f].seen = seqiss
      /\ \A g \in Forms \ {f} : call[g].op = "idle"
  BY DEF EndSave, CallsCurrent, IsIdle
<1>2. /\ n \notin docs
      /\ gapless => n \in Issued(seqiss)
      /\ \A g \in Forms \ {f} : Claim(g) # n
  BY <1>1 DEF ClaimsSound, Claim
<1>3. /\ docs' = docs \cup {n} /\ used' = used \cup {n}
      /\ held' = [held EXCEPT ![f] = 0]
      /\ WriteCleared(seqiss, n) /\ number' = Counter(seqiss, n)
      /\ gapless' = gapless /\ today' = today
  <2> DEFINE seen == call[f].seen
  <2>1. /\ docs' = docs \cup {n} /\ used' = used \cup {n}
        /\ held' = [held EXCEPT ![f] = 0]
        /\ number' = Counter(seen, n)
        /\ gapless' = gapless /\ today' = today
    BY <1>2 DEF EndSave
  <2>2. WriteCleared(seen, n) BY <1>2 DEF EndSave
  <2> HIDE DEF n, seen
  <2>3. seen = seqiss BY <1>1 DEF seen
  <2>4. WriteCleared(seqiss, n) BY <2>2, <2>3 DEF WriteCleared
  <2> QED BY <2>1, <2>3, <2>4
<1>4. /\ \A g \in Forms \ {f} : call'[g] = call[g]
      /\ DOMAIN call' = Forms /\ call' = [g \in Forms |-> call'[g]]
      /\ call'[f].op = "idle" /\ call'[f].n = 0
  BY DEF EndSave, Idle, Transaction
<1>5. /\ number' = number
      /\ Issued(seqiss)' = Issued(seqiss) \ {n}
      /\ \A m \in Issued(seqiss)' : seqiss'[m] = seqiss[m]
  BY <1>3, Clearing DEF Issued
<1>6. TypeOK' BY <1>1, <1>3, <1>4, <1>5 DEF TypeOK
<1>7. Claim(f)' = 0 /\ \A g \in Forms \ {f} : Claim(g)' = Claim(g)
  BY <1>1, <1>3, <1>4 DEF Claim, TypeOK
<1>8. ClaimsSound' BY <1>2, <1>3, <1>5, <1>7 DEF ClaimsSound
<1>9. CallsCurrent' BY <1>1, <1>4 DEF CallsCurrent, IsIdle
<1>10. NoGap' BY <1>2, <1>3, <1>5 DEF NoGap
<1> QED BY <1>3, <1>4, <1>5, <1>6, <1>8, <1>9, <1>10

LEMMA ReleaseStep ==
    ASSUME Calm, IInv, NEW f \in Forms, EndRelease(f)
    PROVE  IInv'
<1> USE DEF IInv
<1> DEFINE n == call[f].n
<1>1. /\ call[f].op = "release" /\ Claim(f) = n /\ n \in Nat \ {0}
      /\ call[f].seen = seqiss /\ call[f].next = number
      /\ \A g \in Forms \ {f} : call[g].op = "idle"
  BY DEF EndRelease, CallsCurrent, IsIdle, Claim
<1>2. /\ n \notin docs
      /\ \A g \in Forms \ {f} : Claim(g) # n
      /\ ~gapless => n < number
  BY <1>1 DEF ClaimsSound
<1>3. /\ UNCHANGED <<gapless, docs, used, held, today>>
      /\ \A g \in Forms \ {f} : call'[g] = call[g]
      /\ DOMAIN call' = Forms /\ call' = [g \in Forms |-> call'[g]]
      /\ call'[f].op = "idle" /\ call'[f].n = 0
  BY DEF EndRelease, Idle, Transaction
<1>4. held[f] = 0 BY <1>1 DEF CallsCurrent
<1>5. Claim(f)' = 0 /\ \A g \in Forms \ {f} : Claim(g)' = Claim(g)
  BY <1>1, <1>3, <1>4 DEF Claim, TypeOK
<1>6. CallsCurrent' BY <1>1, <1>3 DEF CallsCurrent, IsIdle
<1>7. CASE gapless
  <2>1. WriteCleared(seqiss, n) /\ number' = Min({n, Counter(seqiss, n)})
    BY <1>1, <1>7 DEF EndRelease, Lowered
  <2>2. /\ Counter(seqiss, n) = number
        /\ Issued(seqiss)' = Issued(seqiss) \ {n}
        /\ \A m \in Issued(seqiss)' : seqiss'[m] = seqiss[m]
    BY <2>1, Clearing DEF Issued
  <2>3. number' = IF n <= number THEN n ELSE number
    BY <1>1, <2>1, <2>2, MinPair DEF TypeOK
  <2>4. TypeOK' BY <1>1, <1>3, <2>2, <2>3 DEF TypeOK
  <2>5. ClaimsSound' BY <1>2, <1>3, <1>5, <1>7, <2>2 DEF ClaimsSound
  <2>6. NoGap' BY <1>1, <1>3, <1>7, <2>2, <2>3 DEF NoGap, TypeOK
  <2> QED BY <1>3, <1>6, <1>7, <2>4, <2>5, <2>6
<1>8. CASE ~gapless
  <2>1. /\ seqiss' = seqiss
        /\ number' = IF number - 1 > n \/ number = n THEN number ELSE number - 1
    BY <1>1, <1>8 DEF EndRelease
  <2>2. number' = number \/ (number' = n /\ number = n + 1)
    BY <1>1, <1>2, <1>8, <2>1 DEF TypeOK
  <2>3. TypeOK' BY <1>1, <1>3, <2>1, <2>2 DEF TypeOK
  <2>4. \A g \in Forms : Claim(g) \in Nat BY DEF Claim, TypeOK, CallsCurrent
  <2>5. ClaimsSound'
    BY <1>1, <1>2, <1>3, <1>5, <1>8, <2>1, <2>2, <2>4 DEF ClaimsSound, TypeOK
  <2>6. NoGap' BY <1>3, <1>8 DEF NoGap
  <2> QED BY <1>3, <1>6, <1>8, <2>1, <2>3, <2>5, <2>6
<1> QED BY <1>7, <1>8

LEMMA OtherStep ==
    ASSUME Calm, IInv, 
           \/ \E f \in Forms : Abandon(f)
           \/ \E n \in docs : DeleteDocument(n)
           \/ Tick
           \/ UNCHANGED vars
    PROVE  IInv'
<1> USE DEF IInv
<1>1. ASSUME NEW f \in Forms, Abandon(f) PROVE IInv'
  <2>1. /\ UNCHANGED <<gapless, number, seqiss, docs, used, call, today>>
        /\ held' = [held EXCEPT ![f] = 0] /\ call[f].op = "idle"
        /\ \A g \in Forms \ {f} : call[g].op = "idle"
    BY <1>1 DEF Abandon, IsIdle, Quiet, Calm
  <2>2. TypeOK' BY <2>1 DEF TypeOK
  <2>3. Claim(f)' = 0 /\ \A g \in Forms \ {f} : Claim(g)' = Claim(g)
    BY <2>1 DEF Claim, TypeOK
  <2>4. ClaimsSound' BY <2>1, <2>3 DEF ClaimsSound, Issued
  <2>5. CallsCurrent' BY <2>1 DEF CallsCurrent, IsIdle
  <2> QED BY <2>1, <2>2, <2>4, <2>5 DEF NoGap, Issued
<1>2. ASSUME NEW n \in docs, DeleteDocument(n) PROVE IInv'
  <2>1. /\ UNCHANGED <<gapless, number, seqiss, used, held, call, today>>
        /\ docs' = docs \ {n}
    BY <1>2 DEF DeleteDocument
  <2>2. TypeOK' BY <2>1 DEF TypeOK, Issued
  <2>3. ClaimsSound' BY <2>1 DEF ClaimsSound, Claim, Issued
  <2>4. CallsCurrent' BY <2>1 DEF CallsCurrent, IsIdle
  <2> QED BY <2>1, <2>2, <2>3, <2>4 DEF NoGap, Issued
<1>3. ASSUME Tick PROVE IInv'
  <2>1. /\ UNCHANGED <<gapless, number, seqiss, docs, used, held, call>>
        /\ today' = today + 1 /\ today < LastDay
    BY <1>3 DEF Tick
  <2>2. TypeOK' BY <2>1, NumberAssumption DEF TypeOK, Issued
  <2>3. ClaimsSound' /\ CallsCurrent' /\ NoGap'
    BY <2>1 DEF ClaimsSound, CallsCurrent, NoGap, Claim, Issued, IsIdle
  <2> QED BY <2>1, <2>2, <2>3 DEF Issued
<1>4. ASSUME UNCHANGED vars PROVE IInv'
  BY <1>4 DEF vars, TypeOK, ClaimsSound, CallsCurrent, NoGap, Claim, Issued, IsIdle
<1> QED BY <1>1, <1>2, <1>3, <1>4

LEMMA Invariant == ASSUME Calm PROVE Spec => []IInv
<1>1. IInv /\ [Next]_vars => IInv'
  BY Calm, FetchStep, StartStep, SaveStep, ReleaseStep, OtherStep DEF Next
<1> QED BY InitSound, <1>1, PTL DEF Spec

\* Two open forms never hold the same number, in both numbering modes
\* (fetchNextNumber, releaseNumber, clearNumberIssue).
THEOREM DistinctHoldersHolds == ASSUME Calm PROVE Spec => []DistinctHolders
<1>1. IInv => DistinctHolders
  <2> SUFFICES ASSUME IInv, NEW f \in Forms, NEW g \in Forms, f # g, held[f] # 0
               PROVE  held[f] # held[g]
    BY DEF DistinctHolders
  <2>1. Claim(f) = held[f] BY DEF IInv, CallsCurrent, Claim
  <2>2. CASE call[g].op = "release" BY <2>2 DEF IInv, CallsCurrent
  <2>3. CASE call[g].op # "release"
    BY <2>1, <2>3 DEF IInv, ClaimsSound, Claim
  <2> QED BY <2>2, <2>3
<1> QED BY Calm, Invariant, <1>1, PTL

\* Saving never meets a document with the number fetchNextNumber handed out.
THEOREM HeldUnusedHolds == ASSUME Calm PROVE Spec => []HeldUnused
<1>1. IInv => HeldUnused
  BY DEF IInv, ClaimsSound, Claim, HeldUnused, CallsCurrent
<1> QED BY Calm, Invariant, <1>1, PTL

\* Gapless numbering skips no number.
THEOREM NoGapHolds == ASSUME Calm PROVE Spec => []NoGap
<1>1. IInv => NoGap BY DEF IInv
<1> QED BY Calm, Invariant, <1>1, PTL

\* Types, for any bounds.
THEOREM TypeCorrect == ASSUME Calm PROVE Spec => []TypeOK
<1>1. IInv => TypeOK BY DEF IInv
<1> QED BY Calm, Invariant, <1>1, PTL

=============================================================================
