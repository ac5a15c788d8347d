--------------------------- MODULE RecordLockProofs ---------------------------
(***************************************************************************)
(* Record locks exclude one another, for any number of forms, users, ticks *)
(* and delays of renewals, when transactions do not overlap; a form forgets *)
(* the key of a lock it keeps alive in one way only; and a lock guards the *)
(* version its form has loaded, through its expiry and a late renewal.     *)
(***************************************************************************)
EXTENDS RecordLock, TLAPS

\* tryLock deletes every row it does not respect, so at most one row is left.
OneRow == \A i, j \in DOMAIN locks : i = j

\* What a transaction has read still describes the rows when it writes, but
\* for time that has passed.
ReadsCurrent ==
    \A f \in Forms :
        /\ call[f].op \in {"idle", "obtain", "save"}
        /\ call[f].op # "idle" =>
             /\ DOMAIN call[f].seen = DOMAIN locks
             /\ \A i \in DOMAIN locks : /\ call[f].seen[i].left \in Nat
                                        /\ locks[i].left <= call[f].seen[i].left
             /\ \A g \in Forms \ {f} : IsIdle(g)

IInv ==
    /\ TypeOK /\ OneRow /\ ReadsCurrent
    /\ DOMAIN call = Forms /\ call = [f \in Forms |-> call[f]]

LEMMA InitSound == Init => IInv
BY LockAssumption
   DEF Init, IInv, TypeOK, OneRow, ReadsCurrent, NoLocks, Idle, Transaction, Phases

RowsOK ==
    /\ DOMAIN locks \subseteq 1..lastid
    /\ \A i \in DOMAIN locks : locks[i] \in [user : Users, left : 0..Timeout]
ModelsOK ==
    /\ lastid \in Nat /\ version \in Nat
    /\ phase \in [Forms -> Phases]
    /\ etag \in [Forms -> 0..version]
    /\ key \in [Forms -> 0..lastid] /\ timer \in [Forms -> 0..lastid]
    /\ denied \in [Forms -> BOOLEAN] /\ late \in [Forms -> 0..lastid]
    /\ \A f \in Forms : denied[f] => key[f] = 0

LEMMA TypeParts ==
    /\ TypeOK <=> RowsOK /\ ModelsOK
    /\ TypeOK' <=> RowsOK' /\ ModelsOK'
BY DEF TypeOK, RowsOK, ModelsOK

\* Dropping rows keeps the others well formed.
LEMMA RowsDropped ==
    ASSUME RowsOK, UNCHANGED lastid, NEW ids, locks' = Without(ids)
    PROVE  RowsOK' /\ DOMAIN locks' \subseteq DOMAIN locks
BY DEF RowsOK, Without, Restrict

\* So does looking for locks.
LEMMA RowsSwept ==
    ASSUME RowsOK, UNCHANGED lastid, NEW seen, Swept(seen)
    PROVE  RowsOK' /\ DOMAIN locks' \subseteq DOMAIN locks
BY RowsDropped DEF Swept

\* With nothing blocking, the only live lock is the one whose key was passed.
LEMMA NothingBlocks ==
    ASSUME IInv, NEW f \in Forms, call[f].op # "idle", NEW k,
           Blocking(call[f].seen, k) = {}
    PROVE  Live \subseteq {k}
BY DEF IInv, ReadsCurrent, TypeOK, Blocking, Live

\* A transaction that starts reads what is there.
LEMMA StartStep ==
    ASSUME ~Overlap, IInv, NEW f \in Forms, NEW op \in {"obtain", "save"}, NEW k,
           Start(f, op, k), UNCHANGED client
    PROVE  IInv'
<1> USE DEF IInv
<1>1. UNCHANGED <<locks, lastid, version>> /\ UNCHANGED client BY DEF Start
<1>2. \A g \in Forms : IsIdle(g) BY DEF Start, Quiet
<1>3. /\ DOMAIN call' = Forms /\ call' = [g \in Forms |-> call'[g]]
      /\ \A g \in Forms \ {f} : call'[g] = call[g]
      /\ call'[f].op = op /\ call'[f].seen = locks
  BY DEF Start, Transaction
<1>4. TypeOK' BY <1>1 DEF TypeOK, client
<1>5. OneRow' BY <1>1 DEF OneRow
<1>6. \A i \in DOMAIN locks : locks[i].left \in Nat BY LockAssumption DEF TypeOK
<1>7. ReadsCurrent' BY <1>1, <1>2, <1>3, <1>6 DEF ReadsCurrent, IsIdle
<1> QED BY <1>3, <1>4, <1>5, <1>7

\* Ending a transaction leaves every form idle.
LEMMA EndReads ==
    ASSUME IInv, NEW f \in Forms, call[f].op # "idle", End(f)
    PROVE  /\ ReadsCurrent'
           /\ DOMAIN call' = Forms /\ call' = [g \in Forms |-> call'[g]]
<1>1. \A g \in Forms : call'[g].op = "idle"
  BY DEF IInv, ReadsCurrent, IsIdle, End, Idle, Transaction
<1> QED BY <1>1 DEF IInv, End, ReadsCurrent

LEMMA ObtainStep ==
    ASSUME IInv, NEW f \in Forms, EndObtain(f)
    PROVE  IInv'
<1> USE DEF IInv
<1> DEFINE seen == call[f].seen
           id == lastid + 1
<1>1. /\ call[f].op = "obtain" /\ End(f) /\ version' = version
      /\ UNCHANGED <<etag, late>> /\ phase' = [phase EXCEPT ![f] = "open"]
  BY DEF EndObtain, Answered
<1>2. DOMAIN seen = DOMAIN locks BY <1>1 DEF ReadsCurrent
<1>3. ReadsCurrent' /\ DOMAIN call' = Forms /\ call' = [g \in Forms |-> call'[g]]
  BY <1>1, EndReads
<1>4. CASE Swept(seen) /\ UNCHANGED lastid /\ \E refused \in BOOLEAN : Answered(f, 0, refused)
  <2>1. RowsOK' /\ DOMAIN locks' \subseteq DOMAIN locks
    BY <1>4, RowsSwept, TypeParts
  <2>2. ModelsOK' BY <1>1, <1>4, TypeParts DEF Answered, ModelsOK, Phases
  <2>3. OneRow' BY <2>1 DEF OneRow
  <2> QED BY <1>3, <2>1, <2>2, <2>3, TypeParts
<1>5. CASE lastid' = id /\ locks' = Granted(f, seen, id) /\ Answered(f, id, FALSE)
  <2>1. DOMAIN locks' = {id} BY <1>2, <1>5 DEF Granted
  <2>2. locks'[id] = [user |-> UserOf[f], left |-> Timeout] BY <1>2, <1>5 DEF Granted
  <2> HIDE DEF seen
  <2>3. RowsOK' BY <1>5, <2>1, <2>2, LockAssumption, TypeParts DEF RowsOK, ModelsOK
  <2>5. ModelsOK' BY <1>1, <1>5, TypeParts DEF Answered, ModelsOK, Phases
  <2>4. OneRow' BY <2>1 DEF OneRow
  <2> QED BY <1>3, <2>3, <2>4, <2>5, TypeParts
<1>6. \/ Swept(seen) /\ UNCHANGED lastid /\ \E refused \in BOOLEAN : Answered(f, 0, refused)
      \/ lastid' = id /\ locks' = Granted(f, seen, id) /\ Answered(f, id, FALSE)
  BY Zenon DEF EndObtain
<1> HIDE DEF seen, id
<1> QED BY <1>4, <1>5, <1>6

LEMMA SaveStep ==
    ASSUME IInv, NEW f \in Forms, EndSave(f)
    PROVE  IInv'
<1> USE DEF IInv
<1>1. /\ call[f].op = "save" /\ End(f)
      /\ UNCHANGED <<lastid, key, denied, timer, late>>
  BY DEF EndSave
<1>2. ReadsCurrent' /\ DOMAIN call' = Forms /\ call' = [g \in Forms |-> call'[g]]
  BY <1>1, EndReads
<1>3. /\ DOMAIN locks' \subseteq DOMAIN locks
      /\ \A i \in DOMAIN locks' : locks'[i] = locks[i]
  BY DEF EndSave, Without, Restrict
<1>4. \/ /\ version' = version + 1
         /\ etag' = [etag EXCEPT ![f] = version + 1]
         /\ phase' = [phase EXCEPT ![f] = "saved"]
      \/ /\ phase' = [phase EXCEPT ![f] = "failed"]
         /\ UNCHANGED <<version, etag>>
  BY DEF EndSave
<1>5. TypeOK' BY <1>1, <1>3, <1>4 DEF TypeOK, Phases
<1>6. OneRow' BY <1>3 DEF OneRow
<1> QED BY <1>2, <1>5, <1>6

\* Time passes.
LEMMA TickStep == ASSUME IInv, Tick PROVE IInv'
<1> USE DEF IInv
<1>1. UNCHANGED <<lastid, version, call>> /\ UNCHANGED client BY DEF Tick
<1>2. /\ DOMAIN locks' = DOMAIN locks
      /\ \A i \in DOMAIN locks :
            /\ locks'[i] \in [user : Users, left : 0..Timeout]
            /\ locks'[i].left <= locks[i].left
  BY LockAssumption DEF Tick, Live, TypeOK
<1>3. TypeOK' BY <1>1, <1>2 DEF TypeOK, client
<1>4. OneRow' BY <1>2 DEF OneRow
<1>5. \A i \in DOMAIN locks : locks[i].left \in Nat /\ locks'[i].left \in Nat
  BY <1>2, LockAssumption DEF TypeOK
<1>6. ReadsCurrent' BY <1>1, <1>2, <1>5 DEF ReadsCurrent, IsIdle
<1> QED BY <1>1, <1>3, <1>4, <1>6

\* A step outside transactions that keeps or drops rows, or renews one.
LEMMA RowsKept ==
    ASSUME ~Overlap, IInv, AllQuiet, TypeOK', UNCHANGED call,
           DOMAIN locks' \subseteq DOMAIN locks
    PROVE  IInv'
<1>1. \A f \in Forms : call[f].op = "idle" BY DEF AllQuiet, IsIdle
<1> QED BY <1>1 DEF IInv, OneRow, ReadsCurrent

\* A step of clients alone.
LEMMA ClientStep ==
    ASSUME IInv, TypeOK', UNCHANGED server
    PROVE  IInv'
BY DEF IInv, OneRow, ReadsCurrent, IsIdle, server

LEMMA OtherStep ==
    ASSUME ~Overlap, IInv, NEW f \in Forms,
           Load(f) \/ Renew(f) \/ LateAnswer(f) \/ Close(f) \/ Vanish(f)
    PROVE  IInv'
<1> USE DEF IInv
<1>1. CASE Load(f)
  <2>1. RowsOK' /\ DOMAIN locks' \subseteq DOMAIN locks
    BY <1>1, RowsSwept, TypeParts DEF Load
  <2>2. ModelsOK' BY <1>1, TypeParts DEF Load, ModelsOK, Phases
  <2> QED BY <1>1, <2>1, <2>2, RowsKept, TypeParts DEF Load
<1>2. CASE Renew(f)
  <2>1. /\ DOMAIN locks' = DOMAIN locks
        /\ \A i \in DOMAIN locks : locks'[i] \in [user : Users, left : 0..Timeout]
    BY <1>2, LockAssumption DEF Renew, TypeOK
  <2>2. /\ UNCHANGED <<lastid, version, call, phase, etag, key, denied, timer>>
        /\ late' \in [Forms -> 0..lastid]
    BY <1>2 DEF Renew, TypeOK
  <2>3. DOMAIN locks' \subseteq 1..lastid BY <2>1 DEF TypeOK
  <2>4. RowsOK' BY <2>1, <2>2, <2>3 DEF RowsOK
  <2>5. ModelsOK' BY <2>2, TypeParts DEF ModelsOK
  <2>6. TypeOK' BY <2>4, <2>5, TypeParts
  <2> QED BY <1>2, <2>1, <2>2, <2>6, RowsKept DEF Renew
<1>3. CASE LateAnswer(f)
  <2>1. TypeOK' BY <1>3 DEF LateAnswer, Dropped, TypeOK, server
  <2> QED BY <1>3, <2>1, ClientStep DEF LateAnswer
<1>4. CASE Close(f)
  <2>1. RowsOK' /\ DOMAIN locks' \subseteq DOMAIN locks
    BY <1>4, RowsDropped, TypeParts DEF Close
  <2>2. /\ UNCHANGED <<lastid, version, call, etag, late>>
        /\ phase' = [phase EXCEPT ![f] = "closed"]
        /\ \/ /\ key' = [key EXCEPT ![f] = 0]
              /\ denied' = [denied EXCEPT ![f] = TRUE]
              /\ timer' = [timer EXCEPT ![f] = 0]
           \/ UNCHANGED <<key, denied, timer>>
    BY <1>4 DEF Close
  <2>3. TypeOK'
    <3>0. 0 \in 0..lastid /\ "closed" \in Phases BY TypeParts DEF ModelsOK, Phases
    <3>1. /\ phase' \in [Forms -> Phases]
          /\ key' \in [Forms -> 0..lastid] /\ timer' \in [Forms -> 0..lastid]
          /\ denied' \in [Forms -> BOOLEAN]
      <4>1. phase' \in [Forms -> Phases] BY <2>2, <3>0, TypeParts DEF ModelsOK
      <4>2. key' \in [Forms -> 0..lastid] BY <2>2, <3>0, TypeParts DEF ModelsOK
      <4>3. timer' \in [Forms -> 0..lastid] BY <2>2, <3>0, TypeParts DEF ModelsOK
      <4>4. denied' \in [Forms -> BOOLEAN] BY <2>2, TypeParts DEF ModelsOK
      <4> QED BY <4>1, <4>2, <4>3, <4>4
    <3>2. \A g \in Forms : denied'[g] => key'[g] = 0
      BY <2>2, TypeParts DEF ModelsOK
    <3>3. ModelsOK' BY <2>2, <3>1, <3>2, TypeParts DEF ModelsOK
    <3> QED BY <2>1, <3>3, TypeParts
  <2> QED BY <1>4, <2>1, <2>2, <2>3, RowsKept DEF Close
<1>5. CASE Vanish(f)
  <2>1. TypeOK' BY <1>5 DEF Vanish, TypeOK, server, Phases
  <2> QED BY <1>5, <2>1, ClientStep DEF Vanish
<1> QED BY <1>1, <1>2, <1>3, <1>4, <1>5

LEMMA ProcedureStep == ASSUME ~Overlap, IInv, Procedure PROVE IInv'
<1>1. TypeOK' BY DEF IInv, TypeOK, Procedure, client
<1> QED BY <1>1, RowsKept DEF Procedure

\* The inductive invariant holds in every reachable state.
LEMMA Invariant == ASSUME ~Overlap PROVE Spec => []IInv
<1>1. ASSUME IInv, [Next]_vars PROVE IInv'
  <2>1. ASSUME NEW f \in Forms, StartObtain(f) \/ StartSave(f) PROVE IInv'
    BY <1>1, <2>1, ~Overlap, StartStep DEF StartObtain, StartSave
  <2>2. CASE UNCHANGED vars
    <3>1. TypeOK' BY <1>1, <2>2 DEF vars, TypeOK, IInv
    <3> QED BY <1>1, <2>2, <3>1, ClientStep DEF vars, server
  <2> QED BY <1>1, <2>1, <2>2, ~Overlap, ObtainStep, SaveStep, TickStep, OtherStep,
             ProcedureStep DEF Next
<1> QED BY InitSound, <1>1, PTL DEF Spec

\* At most one valid lock is on the record (tryLock, renewLock, releaseLock).
THEOREM ExclusiveLockHolds == ASSUME ~Overlap PROVE Spec => []ExclusiveLock
<1>1. IInv => ExclusiveLock BY DEF IInv, OneRow, ExclusiveLock, Live
<1> QED BY ~Overlap, Invariant, <1>1, PTL

\* updateRecord never commits while another form's lock is valid.
THEOREM LocksRespectedHolds == ASSUME ~Overlap PROVE Spec => LocksRespected
<1> DEFINE Respected == \A f \in Forms :
             call[f].op = "save" /\ version' # version => Live \subseteq {call[f].key}
<1>1. IInv /\ [Next]_vars => [Respected]_vars
  <2> SUFFICES ASSUME IInv, Next, NEW f \in Forms, call[f].op = "save", version' # version
               PROVE  Live \subseteq {call[f].key}
    OBVIOUS
  <2>1. ~AllQuiet BY ~Overlap DEF AllQuiet, IsIdle
  <2>2. PICK g \in Forms : EndSave(g)
    BY <2>1 DEF Next, Load, StartObtain, EndObtain, StartSave, Start, Renew, LateAnswer,
                Close, Vanish, Procedure, Tick, server
  <2>3. g = f BY <2>2 DEF IInv, ReadsCurrent, IsIdle, EndSave
  <2>4. Blocking(call[f].seen, call[f].key) = {} BY <2>2, <2>3 DEF EndSave, MaySave
  <2> QED BY <2>4, NothingBlocks
<1>2. Spec => [][Respected]_vars BY ~Overlap, Invariant, <1>1, PTL DEF Spec
<1> QED BY <1>2 DEF LocksRespected

\* Types, for any bounds and however many forms.
THEOREM LockTypes == ASSUME ~Overlap PROVE Spec => []TypeOK
<1>1. IInv => TypeOK BY DEF IInv
<1> QED BY ~Overlap, Invariant, <1>1, PTL

-----------------------------------------------------------------------------
(* Keys and the intervals that renew them.                                 *)

\* A key whose renewal was refused never names a row again.
LateGone == \A f \in Forms : late[f] \notin DOMAIN locks

KeyInv == IInv /\ LateGone

\* A step leaves keys and intervals alone, or changes both of one form, to a new
\* row's key or to none, or is a late answer.
LEMMA KeysOfStep ==
    ASSUME ~Overlap, IInv, [Next]_vars
    PROVE  \/ UNCHANGED <<key, timer>> /\ DOMAIN locks' \subseteq DOMAIN locks
           \/ \E f \in Forms, k \in {0, lastid + 1} :
                 /\ key' = [key EXCEPT ![f] = k] /\ timer' = [timer EXCEPT ![f] = k]
                 /\ DOMAIN locks' \subseteq DOMAIN locks \cup ({k} \ {0})
           \/ \E f \in Forms : LateAnswer(f)
<1> DEFINE Alone == UNCHANGED <<key, timer>> /\ DOMAIN locks' \subseteq DOMAIN locks
           Changed(f, k) == /\ key' = [key EXCEPT ![f] = k]
                            /\ timer' = [timer EXCEPT ![f] = k]
                            /\ DOMAIN locks' \subseteq DOMAIN locks \cup ({k} \ {0})
<1>1. RowsOK /\ lastid \in Nat BY TypeParts DEF IInv, ModelsOK
<1>2. ASSUME NEW f \in Forms, EndObtain(f)
      PROVE  \E k \in {0, lastid + 1} : Changed(f, k)
  <2> DEFINE seen == call[f].seen
  <2>1. \/ Swept(seen) /\ UNCHANGED lastid /\ \E refused \in BOOLEAN : Answered(f, 0, refused)
        \/ locks' = Granted(f, seen, lastid + 1) /\ Answered(f, lastid + 1, FALSE)
    BY <1>2, Zenon DEF EndObtain
  <2>2. CASE Swept(seen) /\ UNCHANGED lastid /\ \E refused \in BOOLEAN : Answered(f, 0, refused)
    BY <1>1, <2>2, RowsSwept DEF Answered
  <2>3. CASE locks' = Granted(f, seen, lastid + 1) /\ Answered(f, lastid + 1, FALSE)
    <3>1. DOMAIN locks' \subseteq DOMAIN locks \cup {lastid + 1}
      BY <2>3 DEF Granted
    <3> QED BY <1>1, <2>3, <3>1 DEF Answered
  <2> HIDE DEF seen
  <2> QED BY <2>1, <2>2, <2>3
<1>3. ASSUME NEW f \in Forms, EndSave(f) PROVE Alone
  BY <1>3 DEF EndSave, Without, Restrict
<1>4. ASSUME NEW f \in Forms, Load(f) PROVE Alone
  BY <1>1, <1>4, RowsSwept DEF Load
<1>5. ASSUME NEW f \in Forms, Close(f) PROVE Alone \/ Changed(f, 0)
  BY <1>5 DEF Close, Without, Restrict
<1>6. ASSUME NEW f \in Forms, Vanish(f) PROVE Changed(f, 0)
  BY <1>6 DEF Vanish, server
<1>7. ASSUME NEW f \in Forms, Renew(f) PROVE Alone
  BY <1>7 DEF Renew
<1>8. ASSUME NEW f \in Forms, StartObtain(f) \/ StartSave(f) PROVE Alone
  BY <1>8 DEF StartObtain, StartSave, Start, client
<1>9. ASSUME Procedure \/ UNCHANGED vars PROVE Alone
  BY <1>9 DEF Procedure, vars, client
<1>10. ASSUME Tick PROVE Alone
  BY <1>10 DEF Tick, client
<1> HIDE DEF Alone, Changed
<1>11. \/ Alone \/ \E f \in Forms, k \in {0, lastid + 1} : Changed(f, k)
       \/ \E f \in Forms : LateAnswer(f)
  BY <1>2, <1>3, <1>4, <1>5, <1>6, <1>7, <1>8, <1>9, <1>10 DEF Next
<1> QED BY <1>11 DEF Alone, Changed

\* Answers are late for keys that were refused.
LEMMA LateOfStep ==
    ASSUME IInv, [Next]_vars, NEW f \in Forms
    PROVE  \/ late'[f] \in {late[f], 0}
           \/ late'[f] = timer[f] /\ timer[f] \notin DOMAIN locks /\ UNCHANGED locks
<1>1. ASSUME NEW g \in Forms, Renew(g)
      PROVE  \/ UNCHANGED late
             \/ late' = [late EXCEPT ![g] = timer[g]] /\ timer[g] \notin DOMAIN locks
                /\ UNCHANGED locks
  BY <1>1 DEF Renew
<1>2. ASSUME NEW g \in Forms, LateAnswer(g) \/ Vanish(g)
      PROVE  late' = [late EXCEPT ![g] = 0]
  BY <1>2 DEF LateAnswer, Vanish
<1>3. ASSUME NEW g \in Forms, \/ Load(g) \/ StartObtain(g) \/ EndObtain(g)
                              \/ StartSave(g) \/ EndSave(g) \/ Close(g)
      PROVE  UNCHANGED late
  BY <1>3 DEF Load, StartObtain, EndObtain, Answered, StartSave, EndSave, Close, client
<1>4. ASSUME Procedure \/ Tick \/ UNCHANGED vars PROVE UNCHANGED late
  BY <1>4 DEF Procedure, Tick, vars, client
<1>5. late \in [Forms -> 0..lastid]
  BY DEF IInv, TypeOK
<1> QED BY <1>1, <1>2, <1>3, <1>4, <1>5 DEF Next

LEMMA KeyInvariant == ASSUME ~Overlap PROVE Spec => []KeyInv
<1>1. Init => LateGone
  BY DEF Init, LateGone, NoLocks
<1>2. ASSUME IInv, LateGone, [Next]_vars PROVE LateGone'
  <2> SUFFICES ASSUME NEW f \in Forms PROVE late'[f] \notin DOMAIN locks'
    BY DEF LateGone
  <2>1. /\ DOMAIN locks \subseteq 1..lastid /\ lastid \in Nat
        /\ late[f] \in 0..lastid /\ timer[f] \in 0..lastid
    BY <1>2 DEF IInv, TypeOK
  <2>2. DOMAIN locks' \subseteq DOMAIN locks \cup {lastid + 1}
    BY <1>2, <2>1, ~Overlap, KeysOfStep DEF LateAnswer, server
  <2>3. late[f] \notin DOMAIN locks
    BY <1>2 DEF LateGone
  <2> QED BY <1>2, <2>1, <2>2, <2>3, LateOfStep
<1> QED BY ~Overlap, Invariant, <1>1, <1>2, PTL DEF Spec, KeyInv

\* lockDidChange takes the key out of the model's lock when a renewal was refused.
\* Only when the lock was replaced meanwhile does it take out the key of a lock
\* that the interval keeps alive.
THEOREM KeyForgottenLateHolds == ASSUME ~Overlap PROVE Spec => KeyForgottenLate
<1> DEFINE Forgotten == KeyKnown /\ ~KeyKnown' =>
                          \E f \in Forms : late[f] \notin {0, timer[f]} /\ late'[f] = 0
<1>1. KeyInv /\ [Next]_vars => [Forgotten]_vars
  <2> SUFFICES ASSUME IInv, LateGone, Next, KeyKnown, ~KeyKnown'
               PROVE  \E f \in Forms : late[f] \notin {0, timer[f]} /\ late'[f] = 0
    BY DEF KeyInv
  <2>1. PICK f \in Forms : timer'[f] \in DOMAIN locks' /\ key'[f] # timer'[f]
    BY DEF KeyKnown
  <2>2. /\ lastid \in Nat /\ DOMAIN locks \subseteq 1..lastid /\ timer[f] \in 0..lastid
        /\ key \in [Forms -> 0..lastid] /\ timer \in [Forms -> 0..lastid]
        /\ late \in [Forms -> 0..lastid]
        /\ timer[f] \in DOMAIN locks => key[f] = timer[f]
    BY DEF IInv, TypeOK, KeyKnown
  <2>3. CASE UNCHANGED <<key, timer>> /\ DOMAIN locks' \subseteq DOMAIN locks
    BY <2>1, <2>2, <2>3
  <2>4. ASSUME NEW g \in Forms, NEW k \in {0, lastid + 1},
               key' = [key EXCEPT ![g] = k], timer' = [timer EXCEPT ![g] = k],
               DOMAIN locks' \subseteq DOMAIN locks \cup ({k} \ {0})
        PROVE  FALSE
    BY <2>1, <2>2, <2>4
  <2>5. ASSUME NEW g \in Forms, LateAnswer(g) PROVE late[g] \notin {0, timer[g]} /\ late'[g] = 0
    <3>1. /\ UNCHANGED <<locks, timer>> /\ key' = [key EXCEPT ![g] = 0]
          /\ late' = [late EXCEPT ![g] = 0] /\ late[g] # 0
      BY <2>5 DEF LateAnswer, Dropped, server
    <3>2. f = g /\ timer[g] \in DOMAIN locks
      BY <2>1, <2>2, <3>1
    <3>3. late[g] # timer[g]
      BY <3>2 DEF LateGone
    <3> QED BY <2>2, <3>1, <3>3
  <2> QED BY <2>3, <2>4, <2>5, ~Overlap, KeysOfStep
<1>2. Spec => [][Forgotten]_vars BY ~Overlap, KeyInvariant, <1>1, PTL DEF Spec
<1> QED BY <1>2 DEF KeyForgottenLate

-----------------------------------------------------------------------------
(* Versions.                                                               *)

\* The version a transaction has read is the current one.
EtagCurrent == \A f \in Forms : call[f].op # "idle" => call[f].etag = version

LEMMA EtagInvariant == ASSUME ~Overlap PROVE Spec => [](IInv /\ EtagCurrent)
<1>1. Init => EtagCurrent
  BY DEF Init, EtagCurrent, Idle, Transaction
<1>2. ASSUME IInv, EtagCurrent, [Next]_vars PROVE EtagCurrent'
  <2> USE DEF IInv
  <2>1. ASSUME NEW f \in Forms, StartObtain(f) \/ StartSave(f) PROVE EtagCurrent'
    BY <1>2, <2>1 DEF StartObtain, StartSave, Start, EtagCurrent, Transaction
  <2>2. ASSUME NEW f \in Forms, EndObtain(f) \/ EndSave(f) PROVE EtagCurrent'
    <3>1. call[f].op # "idle" /\ call' = [call EXCEPT ![f] = Idle]
      BY <2>2 DEF EndObtain, EndSave, End
    <3>2. \A g \in Forms : call'[g].op = "idle"
      BY <1>2, <3>1 DEF ReadsCurrent, IsIdle, Idle, Transaction
    <3> QED BY <3>2 DEF EtagCurrent
  <2>3. CASE Procedure
    BY <2>3, ~Overlap DEF Procedure, AllQuiet, IsIdle, EtagCurrent
  <2>4. ASSUME NEW f \in Forms,
               Load(f) \/ Renew(f) \/ LateAnswer(f) \/ Close(f) \/ Vanish(f)
        PROVE  EtagCurrent'
    BY <1>2, <2>4 DEF Load, Renew, LateAnswer, Close, Vanish, server, EtagCurrent
  <2>5. CASE Tick \/ UNCHANGED vars
    BY <1>2, <2>5 DEF Tick, vars, EtagCurrent
  <2> QED BY <1>2, <2>1, <2>2, <2>3, <2>4, <2>5 DEF Next
<1> QED BY ~Overlap, Invariant, <1>1, <1>2, PTL DEF Spec

\* A key is one form's, even while another form's save still carries it.
KeysApart ==
    \A f \in Forms :
        /\ call[f].key \in 0..lastid
        /\ \A g \in Forms \ {f} : key[f] # 0 => key[g] # key[f] /\ call[g].key # key[f]

LEMMA KeysApartKept ==
    ASSUME ~Overlap, IInv, KeysApart, [Next]_vars
    PROVE  KeysApart'
<1> USE DEF IInv
<1>1. lastid \in Nat /\ key \in [Forms -> 0..lastid] /\ DOMAIN call = Forms
  BY DEF TypeOK
<1>2. ASSUME NEW f \in Forms, call' = [call EXCEPT ![f] = Idle],
             NEW k, k = 0 \/ k = lastid + 1, key' = key \/ key' = [key EXCEPT ![f] = k],
             lastid' = lastid \/ lastid' = lastid + 1, k <= lastid'
      PROVE  KeysApart'
  <2>1. \A g \in Forms : /\ call'[g].key \in {0, call[g].key}
                         /\ key'[g] = key[g] \/ (g = f /\ key'[g] = k)
    BY <1>1, <1>2 DEF Idle, Transaction
  <2>2. \A g \in Forms : call[g].key \in 0..lastid /\ key[g] \in 0..lastid
    BY <1>1 DEF KeysApart
  <2>3. k = lastid + 1 => \A g \in Forms : call'[g].key # k /\ (g # f => key'[g] # k)
    BY <1>1, <2>1, <2>2
  <2>4. \A g \in Forms : call'[g].key \in 0..lastid'
    BY <1>1, <1>2, <2>1, <2>2
  <2>5. \A g \in Forms : \A h \in Forms \ {g} :
          key'[g] # 0 => key'[h] # key'[g] /\ call'[h].key # key'[g]
    BY <1>1, <1>2, <2>1, <2>2, <2>3 DEF KeysApart
  <2> QED BY <2>4, <2>5 DEF KeysApart
<1>3. ASSUME NEW f \in Forms, EndObtain(f) PROVE KeysApart'
  <2>1. call' = [call EXCEPT ![f] = Idle]
    BY <1>3 DEF EndObtain, End
  <2>2. \/ key' = [key EXCEPT ![f] = 0] /\ lastid' = lastid
        \/ key' = [key EXCEPT ![f] = lastid + 1] /\ lastid' = lastid + 1
    BY <1>3 DEF EndObtain, Answered
  <2>3. CASE key' = [key EXCEPT ![f] = 0] /\ lastid' = lastid
    <3>1. 0 <= lastid'
      BY <1>1, <2>3
    <3> QED BY <1>2, <2>1, <2>3, <3>1
  <2>4. CASE key' = [key EXCEPT ![f] = lastid + 1] /\ lastid' = lastid + 1
    <3>1. lastid + 1 <= lastid'
      BY <1>1, <2>4
    <3> QED BY <1>2, <2>1, <2>4, <3>1
  <2> QED BY <2>2, <2>3, <2>4
<1>4. ASSUME NEW f \in Forms, EndSave(f) PROVE KeysApart'
  <2>1. call' = [call EXCEPT ![f] = Idle] /\ key' = key /\ lastid' = lastid /\ 0 <= lastid'
    BY <1>1, <1>4 DEF EndSave, End
  <2> QED BY <1>2, <2>1
<1>5. ASSUME NEW f \in Forms, StartObtain(f) \/ StartSave(f) PROVE KeysApart'
  <2>1. /\ UNCHANGED <<lastid, key>> /\ \A g \in Forms \ {f} : call'[g] = call[g]
        /\ call'[f].key \in {0, key[f]}
    BY <1>1, <1>5 DEF StartObtain, StartSave, Start, client, Transaction
  <2> QED BY <1>1, <2>1 DEF KeysApart
<1>6. ASSUME NEW f \in Forms, Close(f) \/ Vanish(f) \/ LateAnswer(f) PROVE KeysApart'
  <2>1. UNCHANGED <<lastid, call>> /\ (key' = key \/ key' = [key EXCEPT ![f] = 0])
    BY <1>6 DEF Close, Vanish, LateAnswer, Dropped, server
  <2> QED BY <1>1, <2>1 DEF KeysApart
<1>7. ASSUME \/ \E f \in Forms : Load(f) \/ Renew(f)
             \/ Procedure \/ Tick \/ UNCHANGED vars
      PROVE  KeysApart'
  <2>1. UNCHANGED <<lastid, call, key>>
    BY <1>7 DEF Load, Renew, Procedure, Tick, vars, client
  <2> QED BY <2>1 DEF KeysApart
<1> QED BY <1>3, <1>4, <1>5, <1>6, <1>7 DEF Next

HolderInv == IInv /\ EtagCurrent /\ KeysApart

LEMMA HolderInvariant == ASSUME ~Overlap PROVE Spec => []HolderInv
<1>1. Init => KeysApart
  BY DEF Init, KeysApart, Idle, Transaction
<1>2. IInv /\ KeysApart /\ [Next]_vars => KeysApart'
  BY ~Overlap, KeysApartKept
<1> QED BY ~Overlap, EtagInvariant, <1>1, <1>2, PTL DEF Spec, HolderInv

\* A save leaves no row but, if it is refused, those it found; and no other
\* form's valid lock lets it pass.
LEMMA SaveClears ==
    ASSUME HolderInv, NEW g \in Forms, EndSave(g)
    PROVE  \/ UNCHANGED <<version, etag, locks, key>>
           \/ DOMAIN locks' = {} /\ \A f \in Forms \ {g} : key[f] \notin Live
<1> USE DEF HolderInv, IInv
<1>1. key' = key /\ call[g].op = "save"
  BY DEF EndSave
<1>2. CASE ~MaySave(g)
  BY <1>1, <1>2 DEF EndSave
<1>3. CASE MaySave(g)
  <2>1. DOMAIN call[g].seen = DOMAIN locks
    BY <1>1 DEF ReadsCurrent
  <2>2. locks' = Without({i \in DOMAIN locks :
                       i \in DOMAIN call[g].seen \/ locks[i].user = UserOf[g]})
    BY <1>3 DEF EndSave
  <2>3. DOMAIN locks' = {}
    BY <2>1, <2>2 DEF Without, Restrict
  <2>4. Live \subseteq {call[g].key}
    BY <1>1, <1>3, NothingBlocks DEF MaySave
  <2>5. ASSUME NEW f \in Forms \ {g}, key[f] \in Live PROVE FALSE
    <3>1. key[f] = call[g].key
      BY <2>4, <2>5
    <3>2. key[f] # 0
      BY <2>5 DEF Live, TypeOK
    <3> QED BY <3>1, <3>2 DEF KeysApart
  <2> QED BY <2>3, <2>5
<1> QED BY <1>2, <1>3

\* A form's lock guards its version: saves of others change nothing while it is
\* valid, and a lock that ran out comes back to life only for a version that no
\* save has replaced.  This is where tryLock and updateRecord deleting expired
\* rows matters, since renewLock does not look at the expiry.
THEOREM LockedIsCurrentHolds == ASSUME ~Overlap PROVE Spec => LockedIsCurrent
<1> DEFINE Kept(f) == key[f] \in Live /\ Current(f) => Current(f)'
           NotRevived(f) == (key[f] \in DOMAIN locks)' /\ ~Current(f)' =>
                              key[f] \in DOMAIN locks /\ ~Current(f)
           Guarded ==
             \A f \in Forms :
               \/ Procedure
               \/ /\ key[f] \in Live /\ Current(f) => Current(f)'
                  /\ (key[f] \in DOMAIN locks)' /\ ~Current(f)' =>
                        key[f] \in DOMAIN locks /\ ~Current(f)
<1>1. HolderInv /\ [Next]_vars => [Guarded]_vars
  <2> SUFFICES ASSUME HolderInv, Next, NEW f \in Forms, ~Procedure
               PROVE  Kept(f) /\ NotRevived(f)
    OBVIOUS
  <2> USE DEF HolderInv, IInv
  <2>1. /\ lastid \in Nat /\ DOMAIN locks \subseteq 1..lastid /\ version \in Nat
        /\ key \in [Forms -> 0..lastid] /\ etag \in [Forms -> 0..version]
    BY DEF TypeOK
  <2>2. ASSUME UNCHANGED <<version, etag>>, key'[f] = key[f] \/ key'[f] = 0,
               DOMAIN locks' \subseteq DOMAIN locks
        PROVE  Kept(f) /\ NotRevived(f)
    BY <2>1, <2>2 DEF Current
  <2>3. ASSUME NEW g \in Forms, EndObtain(g) PROVE Kept(f) /\ NotRevived(f)
    <3>1. UNCHANGED <<version, etag>> /\ call[g].op # "idle" /\ call[g].etag = version
      BY <2>3 DEF EndObtain, Answered, EtagCurrent
    <3>2. CASE Swept(call[g].seen) /\ key' = [key EXCEPT ![g] = 0] /\ UNCHANGED lastid
      <4>1. DOMAIN locks' \subseteq DOMAIN locks
        BY <3>2, RowsSwept, TypeParts
      <4> QED BY <2>1, <2>2, <3>1, <3>2, <4>1
    <3>3. CASE /\ call[g].etag = etag[g] /\ key' = [key EXCEPT ![g] = lastid + 1]
               /\ locks' = Granted(g, call[g].seen, lastid + 1)
      <4>1. DOMAIN locks' = {lastid + 1}
        BY <3>1, <3>3 DEF Granted, ReadsCurrent
      <4>2. CASE f = g
        BY <3>1, <3>3, <4>2 DEF Current
      <4>3. CASE f # g
        <5>1. key'[f] = key[f] /\ key'[f] \notin DOMAIN locks'
          BY <2>1, <3>3, <4>1, <4>3
        <5> QED BY <3>1, <5>1 DEF Current
      <4> QED BY <4>2, <4>3
    <3>4. \/ Swept(call[g].seen) /\ key' = [key EXCEPT ![g] = 0] /\ UNCHANGED lastid
          \/ /\ call[g].etag = etag[g] /\ key' = [key EXCEPT ![g] = lastid + 1]
             /\ locks' = Granted(g, call[g].seen, lastid + 1)
      BY <2>3, Zenon DEF EndObtain, Answered
    <3> QED BY <3>2, <3>3, <3>4
  <2>4. ASSUME NEW g \in Forms, EndSave(g) PROVE Kept(f) /\ NotRevived(f)
    <3>1. CASE UNCHANGED <<version, etag, locks, key>>
      BY <2>2, <3>1
    <3>2. CASE DOMAIN locks' = {} /\ \A h \in Forms \ {g} : key[h] \notin Live
      <4>1. NotRevived(f)
        BY <3>2
      <4>2. f = g => Kept(f)
        BY <2>1, <2>4 DEF EndSave, Current
      <4> QED BY <3>2, <4>1, <4>2
    <3> QED BY <2>4, <3>1, <3>2, SaveClears
  <2>5. ASSUME NEW g \in Forms, Load(g) PROVE Kept(f) /\ NotRevived(f)
    <3>1. /\ UNCHANGED <<version, key>> /\ etag' = [etag EXCEPT ![g] = version]
          /\ DOMAIN locks' \subseteq DOMAIN locks
      BY <2>5, RowsSwept, TypeParts DEF Load
    <3> QED BY <2>1, <3>1 DEF Current
  <2>6. ASSUME NEW g \in Forms,
               \/ StartObtain(g) \/ StartSave(g) \/ Renew(g) \/ LateAnswer(g)
               \/ Close(g) \/ Vanish(g)
        PROVE  Kept(f) /\ NotRevived(f)
    <3>1. /\ UNCHANGED <<version, etag>> /\ (key' = key \/ key' = [key EXCEPT ![g] = 0])
          /\ DOMAIN locks' \subseteq DOMAIN locks
      BY <2>6 DEF StartObtain, StartSave, Start, Renew, LateAnswer, Dropped, Close, Vanish,
                  Without, Restrict, client, server
    <3> QED BY <2>1, <2>2, <3>1
  <2>7. CASE Tick
    <3>1. UNCHANGED <<version, etag, key>> /\ DOMAIN locks' = DOMAIN locks
      BY <2>7 DEF Tick, client
    <3> QED BY <2>2, <3>1
  <2> HIDE DEF Kept, NotRevived
  <2> QED BY <2>3, <2>4, <2>5, <2>6, <2>7 DEF Next
<1>2. Spec => [][Guarded]_vars BY ~Overlap, HolderInvariant, <1>1, PTL DEF Spec
<1> QED BY <1>2 DEF LockedIsCurrent

=============================================================================
