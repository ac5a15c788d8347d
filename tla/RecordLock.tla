----------------------------- MODULE RecordLock -----------------------------
(***************************************************************************)
(* Record locks: the locks of xt.lock and the versions of xt.ver, as the    *)
(* ORM's tryLock, renewLock, releaseLock and updateRecord keep them, and    *)
(* the client models that open, edit, save and close one lockable record.   *)
(*                                                                         *)
(* obtainLock and updateRecord read versions and locks without locking the  *)
(* rows, and write in later statements: each is a Start action (the reads)  *)
(* and an End action (the writes, the commit and the answer).  With Overlap *)
(* FALSE no other transaction runs between the two.  A lock expires when    *)
(* "left", the time it has left, reaches zero; its row stays.               *)
(***************************************************************************)
EXTENDS Integers, Functions

CONSTANTS
    Forms,       \* client models that open the record, each once
    Users,
    UserOf,      \* form -> user
    Timeout,     \* ticks a lock lives
    MaxLock,     \* bound: locks granted to forms
    MaxVersion,  \* bound: changes of the record
    Overlap      \* whether transactions run between reads and writes of others

ASSUME LockAssumption ==
    /\ UserOf \in [Forms -> Users]
    /\ Timeout \in Nat \ {0}
    /\ MaxLock \in Nat
    /\ MaxVersion \in Nat
    /\ Overlap \in BOOLEAN

VARIABLES
    locks,    \* xt.lock: lock_id -> its user and the time left
    lastid,   \* xt.lock_lock_id_seq
    version,  \* ver_etag of the record
    call,     \* form -> its transaction in progress
    phase,    \* form -> where the model is in its life
    etag,     \* form -> the version it has loaded
    key,      \* form -> lock.key, 0 if there is none
    denied,   \* form -> it has a lock object without a key: read only
    timer,    \* form -> the key its interval renews, 0 if there is none
    late      \* form -> the key whose refused renewal is unanswered, 0 if none

server == <<locks, lastid, version, call>>
client == <<phase, etag, key, denied, timer, late>>
vars == <<locks, lastid, version, call, phase, etag, key, denied, timer, late>>

Phases == {"new", "loaded", "open", "saved", "failed", "closed"}

\* A transaction: its operation, the key it was passed, the locks and the
\* version it has read.
Transaction(op, k, seen, current) ==
    [op |-> op, key |-> k, seen |-> seen, etag |-> current]
NoLocks == [i \in {} |-> 0]
Idle == Transaction("idle", 0, NoLocks, 0)
IsIdle(f) == call[f].op = "idle"
Quiet(f) == Overlap \/ \A g \in Forms \ {f} : IsIdle(g)
AllQuiet == Overlap \/ \A g \in Forms : IsIdle(g)

Init ==
    /\ locks = NoLocks /\ lastid = 0 /\ version = 0
    /\ call = [f \in Forms |-> Idle]
    /\ phase = [f \in Forms |-> "new"]
    /\ etag = [f \in Forms |-> 0]
    /\ key = [f \in Forms |-> 0]
    /\ denied = [f \in Forms |-> FALSE]
    /\ timer = [f \in Forms |-> 0]
    /\ late = [f \in Forms |-> 0]

-----------------------------------------------------------------------------
(* The server's side of locking.                                           *)

\* (mutant) a lock in its last moment does not count
BlockingLong(seen, k) == {i \in DOMAIN seen : i # k /\ seen[i].left > 1}

\* The valid locks tryLock finds, other than the one whose key it is passed.
Blocking(seen, k) == {i \in DOMAIN seen : i # k /\ seen[i].left > 0}

Without(ids) == Restrict(locks, DOMAIN locks \ ids)

\* A look for valid locks deletes the invalid ones it meets on its way: all of
\* them, or those before the first valid one.
Swept(seen) ==
    \E gone \in SUBSET (DOMAIN seen \ Blocking(seen, 0)) :
        /\ Blocking(seen, 0) = {} => gone = DOMAIN seen
        /\ locks' = Without(gone)

\* (mutant) expired locks stay in the table
GrantedBeside(f, seen, id) ==
    [i \in DOMAIN locks \cup {id} |->
       IF i = id THEN [user |-> UserOf[f], left |-> Timeout] ELSE locks[i]]

\* tryLock found no valid lock: all it found are deleted and one is inserted.
Granted(f, seen, id) ==
    [i \in (DOMAIN locks \ DOMAIN seen) \cup {id} |->
       IF i = id THEN [user |-> UserOf[f], left |-> Timeout] ELSE locks[i]]

Start(f, op, k) ==
    /\ Quiet(f) /\ IsIdle(f)
    /\ call' = [call EXCEPT ![f] = Transaction(op, k, locks, version)]
    /\ UNCHANGED <<locks, lastid, version>>

End(f) == call' = [call EXCEPT ![f] = Idle]

-----------------------------------------------------------------------------
(* The life of a client model.                                             *)

\* A fetch: the model learns the record's version.  retrieveRecord looks for
\* locks on the way.
Load(f) ==
    /\ AllQuiet
    /\ phase[f] = "new"
    /\ phase' = [phase EXCEPT ![f] = "loaded"]
    /\ etag' = [etag EXCEPT ![f] = version]
    /\ Swept(locks)
    /\ UNCHANGED <<lastid, version, call, key, denied, timer, late>>

\* After a fetch, and after a save, the client asks for a lock.
StartObtain(f) ==
    /\ phase[f] \in {"loaded", "saved"}
    /\ Start(f, "obtain", 0)
    /\ UNCHANGED client

\* The client's lockDidChange: the interval of an earlier key is cleared.
Answered(f, k, refused) ==
    /\ key' = [key EXCEPT ![f] = k]
    /\ denied' = [denied EXCEPT ![f] = refused]
    /\ timer' = [timer EXCEPT ![f] = k]
    /\ phase' = [phase EXCEPT ![f] = "open"]
    /\ UNCHANGED <<etag, late>>

\* XM.Model.obtainLock: FALSE if the version is outdated, which the client
\* takes for a record without locks; else what tryLock answers.
EndObtain(f) ==
    LET seen == call[f].seen
        id == lastid + 1
    IN  /\ call[f].op = "obtain"
        /\ End(f)
        /\ \/ /\ call[f].etag # etag[f]
              /\ Swept(seen)
              /\ Answered(f, 0, FALSE)
              /\ UNCHANGED lastid
           \/ /\ call[f].etag = etag[f] /\ Blocking(seen, 0) = {}
              /\ lastid < MaxLock
              /\ lastid' = id
              /\ locks' = Granted(f, seen, id)
              /\ Answered(f, id, FALSE)
           \/ /\ call[f].etag = etag[f] /\ Blocking(seen, 0) # {}
              /\ Swept(seen)
              /\ Answered(f, 0, TRUE)
              /\ UNCHANGED lastid
        /\ UNCHANGED version

\* A model with a key, or with no lock at all, may be edited and saved.
StartSave(f) ==
    /\ phase[f] = "open" /\ ~denied[f]
    /\ Start(f, "save", key[f])
    /\ UNCHANGED client

\* updateRecord raises unless the version is current and it obtains a lock.
MaySave(f) == call[f].etag = etag[f] /\ Blocking(call[f].seen, call[f].key) = {}

\* updateRecord: every lock it read goes, and with the lock it took, every
\* lock its user has on the record.
EndSave(f) ==
    /\ call[f].op = "save"
    /\ End(f)
    /\ \/ /\ MaySave(f)
          /\ version < MaxVersion
          /\ version' = version + 1
          /\ locks' = Without({i \in DOMAIN locks :
                         i \in DOMAIN call[f].seen \/ locks[i].user = UserOf[f]})
          /\ etag' = [etag EXCEPT ![f] = version + 1]
          /\ phase' = [phase EXCEPT ![f] = "saved"]
       \/ /\ ~MaySave(f)
          /\ phase' = [phase EXCEPT ![f] = "failed"]
          /\ UNCHANGED <<version, locks, etag>>
    /\ UNCHANGED <<lastid, key, denied, timer, late>>

\* (mutant) the key is not taken out of the lock object
MarkedOnly(f) == UNCHANGED key /\ denied' = [denied EXCEPT ![f] = @ \/ key[f] # 0]

\* The client takes its lock for lost; the interval goes on.
Dropped(f) ==
    /\ key' = [key EXCEPT ![f] = 0]
    /\ denied' = [denied EXCEPT ![f] = @ \/ key[f] # 0]

\* The interval fires: renewLock gives a lock new time, even an expired one,
\* if its row is still there; otherwise the answer comes later.
Renew(f) ==
    /\ AllQuiet
    /\ timer[f] # 0 /\ late[f] = 0
    /\ \/ /\ timer[f] \in DOMAIN locks
          /\ locks' = [locks EXCEPT ![timer[f]].left = Timeout]
          /\ UNCHANGED late
       \/ /\ timer[f] \notin DOMAIN locks
          /\ late' = [late EXCEPT ![f] = timer[f]]
          /\ UNCHANGED locks
    /\ UNCHANGED <<lastid, version, call, phase, etag, key, denied, timer>>

\* The answer to a refused renewal: the key may have been replaced meanwhile.
LateAnswer(f) ==
    /\ late[f] # 0
    /\ late' = [late EXCEPT ![f] = 0]
    /\ Dropped(f)
    /\ UNCHANGED <<server, phase, etag, timer>>

\* (mutant) the lock is forgotten, not released
CloseForgets(f) ==
    /\ AllQuiet /\ IsIdle(f)
    /\ phase[f] \in {"open", "failed"}
    /\ phase' = [phase EXCEPT ![f] = "closed"]
    /\ UNCHANGED <<server, etag, key, denied, timer, late>>

\* Leaving the workspace: only a model with a key releases its lock and
\* clears its interval.
Close(f) ==
    /\ AllQuiet /\ IsIdle(f)
    /\ phase[f] \in {"open", "failed"}
    /\ phase' = [phase EXCEPT ![f] = "closed"]
    /\ locks' = Without({key[f]})
    /\ IF key[f] # 0
       THEN /\ key' = [key EXCEPT ![f] = 0]
            /\ denied' = [denied EXCEPT ![f] = TRUE]
            /\ timer' = [timer EXCEPT ![f] = 0]
       ELSE UNCHANGED <<key, denied, timer>>
    /\ UNCHANGED <<lastid, version, call, etag, late>>

\* The browser goes away, and its timers and answers with it.
Vanish(f) ==
    /\ IsIdle(f)
    /\ phase[f] \notin {"new", "closed"}
    /\ phase' = [phase EXCEPT ![f] = "closed"]
    /\ key' = [key EXCEPT ![f] = 0]
    /\ denied' = [denied EXCEPT ![f] = FALSE]
    /\ timer' = [timer EXCEPT ![f] = 0]
    /\ late' = [late EXCEPT ![f] = 0]
    /\ UNCHANGED <<server, etag>>

\* A stored procedure updates the record without asking for a lock; the
\* trigger gives it a new version.
Procedure ==
    /\ AllQuiet
    /\ version < MaxVersion
    /\ version' = version + 1
    /\ UNCHANGED <<locks, lastid, call, client>>

Live == {i \in DOMAIN locks : locks[i].left > 0}

\* Time passes.
Tick ==
    /\ Live # {}
    /\ locks' = [i \in DOMAIN locks |->
                   IF i \in Live THEN [locks[i] EXCEPT !.left = @ - 1] ELSE locks[i]]
    /\ UNCHANGED <<lastid, version, call, client>>

Next ==
    \/ \E f \in Forms : \/ Load(f) \/ StartObtain(f) \/ EndObtain(f)
                        \/ StartSave(f) \/ EndSave(f)
                        \/ Renew(f) \/ LateAnswer(f)
                        \/ Close(f) \/ Vanish(f)
    \/ Procedure
    \/ Tick

Spec == Init /\ [][Next]_vars

\* Time does not stand still.
FairSpec == Spec /\ WF_vars(Tick)

-----------------------------------------------------------------------------
(* Properties.                                                             *)

\* Lock rows, versions and model states are of their kinds, and a model that
\* may not be edited has no key.
TypeOK ==
    /\ DOMAIN locks \subseteq 1..lastid
    /\ \A i \in DOMAIN locks : locks[i] \in [user : Users, left : 0..Timeout]
    /\ lastid \in Nat /\ version \in Nat
    /\ phase \in [Forms -> Phases]
    /\ etag \in [Forms -> 0..version]
    /\ key \in [Forms -> 0..lastid] /\ timer \in [Forms -> 0..lastid]
    /\ late \in [Forms -> 0..lastid] /\ denied \in [Forms -> BOOLEAN]
    /\ \A f \in Forms : denied[f] => key[f] = 0

\* However locks are obtained, renewed after their expiry, replaced by saves
\* and released, at most one valid lock is on the record.
ExclusiveLock == \A i, j \in Live : i = j

\* A save never commits past a valid lock that is not its own form's.
LocksRespected ==
    [][\A f \in Forms :
         call[f].op = "save" /\ version' # version => Live \subseteq {call[f].key}]_vars

\* A form never keeps alive a lock it does not know to be its own.
KeyKnown == \A f \in Forms : timer[f] \in DOMAIN locks => key[f] = timer[f]

\* Only an answer that a new lock has overtaken makes a form forget the key
\* of a lock its interval keeps alive.
KeyForgottenLate ==
    [][KeyKnown /\ ~KeyKnown' =>
         \E f \in Forms : late[f] \notin {0, timer[f]} /\ late'[f] = 0]_vars

\* When every form is closed or gone the record becomes free to lock, unless a
\* form has forgotten a key in that way.
LocksEnd == (\A f \in Forms : phase[f] = "closed") ~> (Live = {} \/ ~KeyKnown)

\* What a lock is for: its form's version stays current while it is valid,
\* whatever others save, and a lock whose row is still there is one for the
\* current version, even if it ran out and was renewed later.  Only a stored
\* procedure, which asks for no lock, changes the record under it.
Current(f) == etag[f] = version

LockedIsCurrent ==
    [][\A f \in Forms :
         \/ Procedure
         \/ /\ key[f] \in Live /\ Current(f) => Current(f)'
            /\ (key[f] \in DOMAIN locks)' /\ ~Current(f)' =>
                  key[f] \in DOMAIN locks /\ ~Current(f)]_vars

=============================================================================
