----------------------------- MODULE NumberIssue -----------------------------
(***************************************************************************)
(* Document numbers: fetchNextNumber, releaseNumber and clearNumberIssue   *)
(* over one row of orderseq, called by the forms of several users.  The     *)
(* number policy is 'A': users do not type numbers.                         *)
(*                                                                         *)
(* fetchNextNumber locks the row (FOR UPDATE) and is one action.  The other *)
(* two read the row without a lock and write it in a later statement of     *)
(* their transaction, so a call is a Start action (the reads) and an End    *)
(* action (the writes, and the commit).  With Overlap FALSE nothing happens *)
(* between the two.                                                         *)
(***************************************************************************)
EXTENDS Integers, Functions, FiniteSetsExt

CONSTANTS
    Forms,      \* document forms users have open, or may open
    MaxNumber,  \* bound: numbers handed out
    Interval,   \* metric NumberIssueResetIntervalDays
    LastDay,    \* bound: days that pass
    Overlap     \* whether transactions of other sessions run between reads and writes

ASSUME NumberAssumption ==
    /\ MaxNumber \in Nat
    /\ Interval \in Nat
    /\ LastDay \in Nat
    /\ Overlap \in BOOLEAN

VARIABLES
    gapless,  \* metric EnableGaplessNumbering
    number,   \* orderseq_number, the next number to try
    seqiss,   \* orderseq_seqiss: number issued -> day of issue
    docs,     \* numbers of the documents in the table
    used,     \* numbers of the documents there have ever been
    held,     \* form -> the number it was given, 0 if none
    call,     \* form -> its transaction in progress
    today     \* now(), in days

vars == <<gapless, number, seqiss, docs, used, held, call, today>>

\* A transaction: its operation, its number, and what it has read.
Transaction(op, n, seen, next) == [op |-> op, n |-> n, seen |-> seen, next |-> next]

Empty == [n \in {} |-> 0]
Idle == Transaction("idle", 0, Empty, 0)
IsIdle(f) == call[f].op = "idle"

\* Sessions do not overlap unless Overlap says so.
Quiet(f) == Overlap \/ \A g \in Forms \ {f} : IsIdle(g)

Init ==
    /\ gapless \in BOOLEAN
    /\ number = 1
    /\ seqiss = Empty
    /\ docs = {} /\ used = {}
    /\ held = [f \in Forms |-> 0]
    /\ call = [f \in Forms |-> Idle]
    /\ today = 0

Issued(seen) == DOMAIN seen

\* (mutants) the list of issued numbers, or the documents, are not consulted
FreeOfDocs(n) == n \notin docs
FreeOfIssues(n) == n \notin Issued(seqiss)

\* Neither issued nor the number of a document.
Free(n) == n \notin Issued(seqiss) /\ n \notin docs

\* What fetchNextNumber leaves behind when it hands number n to a form.
Hand(f, n) ==
    /\ held' = [held EXCEPT ![f] = n]
    /\ number' = n + 1
    /\ seqiss' = IF gapless
                 THEN [m \in Issued(seqiss) \cup {n} |-> IF m = n THEN today ELSE seqiss[m]]
                 ELSE seqiss
    /\ UNCHANGED <<gapless, docs, used, call, today>>

\* fetchNextNumber: the first free number from orderseq_number on.
Fetch(f) ==
    /\ Quiet(f) /\ IsIdle(f) /\ held[f] = 0
    /\ \E n \in number..MaxNumber :
          /\ Free(n) /\ \A m \in number..(n - 1) : ~Free(m)
          /\ Hand(f, n)

Stale(seen) == {m \in Issued(seen) : today - Interval > seen[m]}

\* clearNumberIssue(n), given the issued numbers it read: drop n and the stale
\* ones from the list, and return the counter it leaves.
Cleared(seen, n) == Restrict(seen, Issued(seen) \ (Stale(seen) \cup {n}))
Counter(seen, n) ==
    IF Stale(seen) \ {n} = {} THEN number ELSE Min(Stale(seen) \ {n})

\* The list is written unless it was read empty.
WriteCleared(seen, n) == seqiss' = IF Issued(seen) = {} THEN seqiss ELSE Cleared(seen, n)

Start(f, op) ==
    /\ Quiet(f) /\ IsIdle(f) /\ held[f] # 0
    /\ call' = [call EXCEPT ![f] = Transaction(op, held[f], seqiss, number)]
    /\ UNCHANGED <<gapless, number, seqiss, docs, used, today>>

\* Saving inserts the document; its trigger calls clearNumberIssue.
StartSave(f) == Start(f, "save") /\ UNCHANGED held

\* The insert violates the unique index if the number was committed meanwhile.
EndSave(f) ==
    LET n == call[f].n
        seen == call[f].seen
    IN  /\ call[f].op = "save"
        /\ call' = [call EXCEPT ![f] = Idle]
        /\ IF n \in docs
           THEN UNCHANGED <<number, seqiss, docs, used, held>>
           ELSE /\ docs' = docs \cup {n}
                /\ used' = used \cup {n}
                /\ held' = [held EXCEPT ![f] = 0]
                /\ WriteCleared(seen, n)
                /\ number' = Counter(seen, n)
        /\ UNCHANGED <<gapless, today>>

\* Closing a form that was not saved releases its number.
StartRelease(f) == Start(f, "release") /\ held' = [held EXCEPT ![f] = 0]

\* (mutants) the counter is not lowered, or lowered too far
CounterKept(n, counter) == counter
CounterBelow(n, counter) == Min({n, counter}) - 1

\* LEAST(pnumber, orderseq_number)
Lowered(n, counter) == Min({n, counter})

\* releaseNumber.  Without gapless numbering it lowers the counter it read by
\* one, unless that was already past the number or back at it; whether the
\* last number has a document makes no difference to the test.
EndRelease(f) ==
    LET n == call[f].n
        seen == call[f].seen
        next == call[f].next
    IN  /\ call[f].op = "release"
        /\ call' = [call EXCEPT ![f] = Idle]
        /\ IF gapless
           THEN /\ WriteCleared(seen, n)
                /\ number' = Lowered(n, Counter(seen, n))
           ELSE /\ number' = IF next - 1 > n \/ next = n THEN number ELSE next - 1
                /\ UNCHANGED seqiss
        /\ UNCHANGED <<gapless, docs, used, held, today>>

\* A browser goes away and its form with it.
Abandon(f) ==
    /\ Quiet(f) /\ IsIdle(f) /\ held[f] # 0
    /\ held' = [held EXCEPT ![f] = 0]
    /\ UNCHANGED <<gapless, number, seqiss, docs, used, call, today>>

AllQuiet == Overlap \/ \A f \in Forms : IsIdle(f)

\* A user deletes a document.
DeleteDocument(n) ==
    /\ AllQuiet
    /\ n \in docs
    /\ docs' = docs \ {n}
    /\ UNCHANGED <<gapless, number, seqiss, used, held, call, today>>

Tick ==
    /\ AllQuiet
    /\ today < LastDay
    /\ today' = today + 1
    /\ UNCHANGED <<gapless, number, seqiss, docs, used, held, call>>

Next ==
    \/ \E f \in Forms : \/ Fetch(f) \/ Abandon(f)
                        \/ StartSave(f) \/ EndSave(f)
                        \/ StartRelease(f) \/ EndRelease(f)
    \/ \E n \in docs : DeleteDocument(n)
    \/ Tick

Spec == Init /\ [][Next]_vars

-----------------------------------------------------------------------------
(* Properties.                                                             *)

\* The counter stays positive, days of issue lie in the past, and documents are
\* among those there have been.
TypeOK ==
    /\ gapless \in BOOLEAN
    /\ number \in Nat \ {0}
    /\ Issued(seqiss) \subseteq Nat \ {0}
    /\ \A n \in Issued(seqiss) : seqiss[n] \in 0..today
    /\ docs \subseteq used /\ used \subseteq Nat \ {0}
    /\ held \in [Forms -> Nat]
    /\ \A f \in Forms : call[f].op \in {"idle", "save", "release"} /\ call[f].n \in Nat
    /\ today \in 0..LastDay

\* A number issued to one open form, and not committed, is not issued to
\* another.
DistinctHolders == \A f, g \in Forms : f # g /\ held[f] # 0 => held[f] # held[g]

\* A form's number is free for its document: saving does not run into the
\* document of somebody else.
HeldUnused == \A f \in Forms : held[f] # 0 => held[f] \notin docs

\* Gapless numbering: a number the counter has passed belongs to a document,
\* now or once, or is still on the list of issued numbers, so that a number
\* given back is handed out again.
NoGap == gapless => \A n \in 1..(number - 1) : n \in used \/ n \in Issued(seqiss)

=============================================================================
