----------------------------- MODULE ModelStatus -----------------------------
(***************************************************************************)
(* One lockable document of the client and the workspace that shows it:     *)
(* the statuses of XM.Model and XM.Document, the requests they send and the *)
(* answers, which arrive in any order, and what the workspace does with its *)
(* buttons and hot keys.  Backbone sits between the two and the data source.*)
(*                                                                         *)
(* Contents are sets of changes: a change is a number, made by the user, by *)
(* somebody else or by the database on saving.  A handler that runs to its  *)
(* end in one turn of the event loop is one operator from a form to a form. *)
(***************************************************************************)
EXTENDS Integers, Sequences, FiniteSets, FiniteSetsExt

CONSTANTS
    MaxChange,    \* bound: changes made to the record
    MaxRequests,  \* bound: requests under way when the user acts
    Hasty,        \* the user acts while requests are under way: with hot keys
                  \* and the keyboard whenever, with buttons unless it is busy
    LockErrors    \* requests for a lock, or to release one, may fail

ASSUME ModelAssumption ==
    /\ MaxChange \in Nat
    /\ MaxRequests \in Nat \ {0}
    /\ Hasty \in BOOLEAN
    /\ LockErrors \in BOOLEAN

VARIABLES
    form,    \* the model and its workspace
    stored,  \* contents of the versions of the record, the current one last
    locks,   \* keys of the locks the server holds for this model
    issued,  \* the number fetched for a new document: "free", "issued", "used"
    made,    \* changes made so far
    given    \* history: unsaved changes the user has given up, or lost to an error

vars == <<form, stored, locks, issued, made, given>>

Statuses == {"READY_NEW", "READY_CLEAN", "READY_DIRTY", "BUSY_FETCHING",
             "BUSY_COMMITTING", "ERROR", "DESTROYED_CLEAN"}

\* this.lock is an object without a key, or what releaseLock answered.
NoKey == -1

HasKey(f) == f.lock > 0
HasLockKey(f) == f.lock # NoKey
IsDirty(f) == f.status \in {"READY_NEW", "READY_DIRTY"}
IsBusy(f) == f.status \in {"BUSY_FETCHING", "BUSY_COMMITTING"}
IsNew(f) == f.status = "READY_NEW"

\* A request: what for, what follows the answer, and what it carries: changes,
\* a version (0 is undefined) and a lock.
Request(op, then) ==
    [n |-> 0, op |-> op, then |-> then, state |-> "sent", edits |-> {}, etag |-> 0, key |-> 0]

Unused(f) == Min((1..(Cardinality(f.requests) + 1)) \ {r.n : r \in f.requests})
Send(f, r) == [f EXCEPT !.requests = @ \cup {[r EXCEPT !.n = Unused(f)]}]

NewForm(status, policy) ==
    [view |-> "open", status |-> status, attrs |-> {}, cache |-> {}, parsed |-> {},
     etag |-> 0, lock |-> 0, timer |-> 0, saveState |-> "none", prompt |-> "none",
     policy |-> policy, docKey |-> IF status = "READY_NEW" THEN "empty" ELSE "typed",
     requests |-> {}]

-----------------------------------------------------------------------------
(* XM.Model.                                                               *)

\* (mutant) the cache of clean attributes is not reset
SetStatusOnly(f, status) == [f EXCEPT !.status = status]

SetStatus(f, status) ==
    IF f.status = status THEN f
    ELSE [f EXCEPT !.status = status,
                   !.cache = IF status = "READY_CLEAN" THEN f.attrs ELSE @]

Refuses(f) == f.status \in {"ERROR", "DESTROYED_CLEAN"}

\* set: events are silenced unless the status is a READY one.
Set(f, attrs) ==
    IF Refuses(f) THEN f
    ELSE [f EXCEPT !.attrs = attrs,
                   !.status = IF @ = "READY_CLEAN" /\ attrs # f.attrs THEN "READY_DIRTY" ELSE @]

\* fetch, of the model and, when there is one, through the workspace.
ModelFetch(f) == Send(SetStatus(f, "BUSY_FETCHING"), Request("fetch", "none"))
Fetch(f) == IF f.view = "open" THEN ModelFetch(f) ELSE f

\* releaseLock of a model with a key clears the interval at once; this.lock
\* stays until the answer.
SendRelease(f, then) ==
    Send([f EXCEPT !.timer = 0], [Request("release", then) EXCEPT !.key = f.lock])

\* (mutants) the lock is not released, or the number not given back
LeaveLocked(f) == [f EXCEPT !.view = "gone"]
LeaveNumbered(f) ==
    [IF HasKey(f) THEN SendRelease(f, "none") ELSE f EXCEPT !.view = "gone"]

\* The workspace is destroyed: recordIdChanged releases the lock and destroys
\* a model that is still new; a record without a number has no id to change.
Leave(f) ==
    LET left == [IF HasKey(f) THEN SendRelease(f, "none") ELSE f EXCEPT !.view = "gone"]
        gone == [left EXCEPT !.status = "DESTROYED_CLEAN", !.attrs = {}]
    IN  IF f.view = "gone" THEN f
        ELSE IF ~IsNew(f) \/ f.docKey = "empty" THEN left
        ELSE IF f.docKey = "fetched" THEN Send(gone, Request("giveback", "none"))
        ELSE gone

\* (mutant) only a refresh goes on once the lock is released
ReleasedFetch(f, then) == IF then = "fetch" THEN Fetch(f) ELSE f

\* What follows once the lock is released.
Released(f, then) ==
    CASE then = "fetch" -> Fetch(f)
      [] then = "leave" -> Leave(f)
      [] then = "none"  -> f

ReleaseLock(f, then) == IF HasKey(f) THEN SendRelease(f, then) ELSE Released(f, then)

ObtainLock(f, then) ==
    Send(f, [Request("obtain", then) EXCEPT !.etag = f.etag])

-----------------------------------------------------------------------------
(* The workspace and its container.                                        *)

\* close, when there is nothing to ask: a changed model is reverted first.
CloseNow(f) ==
    LET reverted == IF f.status = "READY_DIRTY"
                    THEN SetStatus([f EXCEPT !.attrs = f.parsed], "READY_CLEAN") ELSE f
    IN  IF HasLockKey(f) THEN ReleaseLock(reverted, "leave") ELSE Leave(reverted)

Close(f) == IF IsDirty(f) THEN [f EXCEPT !.prompt = "close"] ELSE CloseNow(f)

\* Refreshing a new record starts another one: this model's life is over.
RequeryNow(f) == IF IsNew(f) THEN Leave(f) ELSE ReleaseLock(f, "fetch")

\* (mutant) nobody asks about unsaved changes
RequeryUnasked(f) == RequeryNow(f)

Requery(f) == IF IsDirty(f) THEN [f EXCEPT !.prompt = "refresh"] ELSE RequeryNow(f)

\* The callback of a save, by the button that was last used.
ModelSaved(f) ==
    IF f.view = "gone" \/ f.saveState = "apply" THEN f
    ELSE IF f.saveState = "close" THEN Close(f) ELSE Leave(f)

\* XM.Model.save: the changes since the record was last clean are sent.
Commit(f, then) ==
    IF ~IsDirty(f) \/ (IsNew(f) /\ f.docKey = "empty") THEN f
    ELSE Send(SetStatus(f, "BUSY_COMMITTING"),
              [Request("commit", then) EXCEPT !.edits = f.attrs \ f.cache, !.etag = f.etag])

\* XM.Document.save: a number the user has typed is looked up first.
Save(f, then, typed) ==
    IF typed THEN Send(f, Request("check", then)) ELSE Commit(f, then)
MayCheck(f) ==
    CASE IsNew(f) -> {f.docKey = "typed"}
      [] f.status = "READY_DIRTY" -> BOOLEAN
      [] OTHER -> {FALSE}

\* A save as one of the buttons asks for it; none of them asks the server for
\* the saved record but apply.
SaveAs(f, state, typed) ==
    Save([f EXCEPT !.saveState = state], IF state = "apply" THEN "requery" ELSE "quiet", typed)

-----------------------------------------------------------------------------
(* Answers.                                                                *)

\* (mutants) a failed request leaves the status alone, or resets it
FailedQuietly(f, r) == f
FailedEmpty(f, r) == IF r.op \in {"fetch", "commit"} THEN SetStatus(f, "EMPTY") ELSE f

\* Errors of a fetch or a save go through sync; those of dispatched functions
\* end in an event, or nowhere.
Failed(f, r) == IF r.op \in {"fetch", "commit"} THEN SetStatus(f, "ERROR") ELSE f

\* _fetchHelper: clean once there is a lock, or the lack of one, is known.
Fetched(f, r) ==
    LET told == [f EXCEPT !.etag = r.etag, !.parsed = r.edits]
        set == Set(told, r.edits)
    IN  IF Refuses(f) THEN told
        ELSE IF HasKey(f) THEN SetStatus(set, "READY_CLEAN") ELSE ObtainLock(set, "fetched")

\* (mutant) what the database changed on saving does not reach the model
CommittedBlind(f, r) ==
    LET told == [f EXCEPT !.etag = r.etag, !.parsed = f.attrs]
    IN  IF Refuses(f) THEN told ELSE ObtainLock(Set(told, f.attrs), "saved")

\* The answer to a save: patches to the attributes of now and the new version,
\* or nothing at all; a lock is asked for anew.
Committed(f, r) ==
    LET attrs == f.attrs \cup r.edits
        told == [f EXCEPT !.etag = r.etag,
                          !.parsed = IF r.then = "quiet" THEN {} ELSE attrs]
    IN  IF Refuses(f) THEN told ELSE ObtainLock(Set(told, attrs), "saved")

\* (mutant) the model waits for a key
ObtainedKey(f, r) ==
    LET clean == [f EXCEPT !.lock = r.key, !.timer = IF r.key > 0 THEN r.key ELSE 0]
    IN  IF r.key > 0 THEN SetStatus(clean, "READY_CLEAN") ELSE clean

\* lockDidChange replaces the interval.
Obtained(f, r) ==
    LET clean == SetStatus([f EXCEPT !.lock = r.key, !.timer = IF r.key > 0 THEN r.key ELSE 0],
                           "READY_CLEAN")
    IN  IF r.then = "saved" THEN ModelSaved(clean) ELSE clean

\* fetchNumber's answer counts if no number was typed meanwhile.
Numbered(f) == IF f.docKey = "empty" THEN [f EXCEPT !.docKey = "fetched"] ELSE f

Answered(f, r) ==
    CASE r.op = "fetch"   -> Fetched(f, r)
      [] r.op = "commit"  -> Committed(f, r)
      [] r.op = "obtain"  -> Obtained(f, r)
      [] r.op = "release" -> Released([f EXCEPT !.lock = NoKey, !.timer = 0], r.then)
      [] r.op = "check"   -> Commit(f, r.then)
      [] r.op = "number"  -> Numbered(f)

Drop(f, r) == [f EXCEPT !.requests = @ \ {r}]
Content == IF stored = <<>> THEN {} ELSE stored[Len(stored)]
Unsaved == form.attrs \ Content

Receive(r) ==
    /\ r.state # "sent"
    /\ form' = IF r.state = "failed" THEN Failed(Drop(form, r), r) ELSE Answered(Drop(form, r), r)
    /\ given' = IF form'.status = "ERROR" THEN given \cup Unsaved ELSE given
    /\ UNCHANGED <<stored, locks, issued, made>>

-----------------------------------------------------------------------------
(* The server, as far as it answers this model.                            *)

Reply(r, reply) == form' = [form EXCEPT !.requests = (@ \ {r}) \cup {reply}]

\* Keys are reused when nothing remembers them.
NewKey == LET known == locks \cup {form.lock, form.timer} \cup {r.key : r \in form.requests}
          IN  Min((1..(Cardinality(known) + 1)) \ known)

ServeFetch(r) ==
    /\ r.op = "fetch" /\ stored # <<>>
    /\ Reply(r, [r EXCEPT !.state = "answered", !.edits = Content, !.etag = Len(stored)])
    /\ UNCHANGED <<stored, locks, issued, made, given>>

\* A save against the current version; the database may make a change of its
\* own.  A save deletes the locks of its user.
ServeCommit(r) ==
    /\ r.op = "commit" /\ r.etag = Len(stored)
    /\ \E own \in {{}, {made + 1}} :
          /\ own \subseteq 1..MaxChange
          /\ stored' = Append(stored, Content \cup r.edits \cup own)
          /\ made' = made + Cardinality(own)
          /\ Reply(r, IF r.then = "quiet"
                      THEN [r EXCEPT !.state = "answered", !.edits = {}, !.etag = 0]
                      ELSE [r EXCEPT !.state = "answered", !.edits = own, !.etag = Len(stored) + 1])
    /\ locks' = {}
    /\ issued' = IF stored = <<>> /\ form.docKey = "fetched" THEN "used" ELSE issued
    /\ UNCHANGED given

\* XM.Model.obtainLock: FALSE for an outdated version, a lock that is somebody
\* else's (or still this model's), or a new one.
ServeObtain(r) ==
    /\ r.op = "obtain"
    /\ \E key \in IF r.etag # Len(stored) THEN {0}
                  ELSE IF locks # {} THEN {NoKey} ELSE {NoKey, NewKey} :
          /\ Reply(r, [r EXCEPT !.state = "answered", !.key = key])
          /\ locks' = IF key > 0 THEN locks \cup {key} ELSE locks
    /\ UNCHANGED <<stored, issued, made, given>>

ServeRelease(r) ==
    /\ r.op = "release"
    /\ Reply(r, [r EXCEPT !.state = "answered"])
    /\ locks' = locks \ {r.key}
    /\ UNCHANGED <<stored, issued, made, given>>

\* findExisting finds nothing; if it finds something it answers like an error.
ServeCheck(r) ==
    /\ r.op = "check"
    /\ Reply(r, [r EXCEPT !.state = "answered"])
    /\ UNCHANGED <<stored, locks, issued, made, given>>

ServeNumber(r) ==
    /\ r.op = "number"
    /\ Reply(r, [r EXCEPT !.state = "answered"])
    /\ issued' = "issued"
    /\ UNCHANGED <<stored, locks, made, given>>

\* releaseNumber: nobody waits for the answer.
ServeGiveback(r) ==
    /\ r.op = "giveback"
    /\ form' = Drop(form, r)
    /\ issued' = "free"
    /\ UNCHANGED <<stored, locks, made, given>>

Refuse(r) ==
    /\ r.op \notin {"obtain", "release", "giveback"} \/ (LockErrors /\ r.op # "giveback")
    /\ Reply(r, [r EXCEPT !.state = "failed"])
    /\ UNCHANGED <<stored, locks, issued, made, given>>

Serve(r) ==
    /\ r.state = "sent"
    /\ \/ ServeFetch(r) \/ ServeCommit(r) \/ ServeObtain(r) \/ ServeRelease(r)
       \/ ServeCheck(r) \/ ServeNumber(r) \/ ServeGiveback(r) \/ Refuse(r)

\* A lock that is not renewed expires.
Expire(k) ==
    /\ k \in locks /\ k # form.timer
    /\ locks' = locks \ {k}
    /\ UNCHANGED <<form, stored, issued, made, given>>

\* Somebody else saves the record.
ChangeElsewhere ==
    /\ stored # <<>> /\ locks = {} /\ made < MaxChange
    /\ stored' = Append(stored, Content \cup {made + 1})
    /\ made' = made + 1
    /\ UNCHANGED <<form, locks, issued, given>>

-----------------------------------------------------------------------------
(* The user.                                                               *)

\* Behind a question nothing else can be done.
MayAct ==
    /\ form.view = "open" /\ form.prompt = "none"
    /\ Cardinality(form.requests) < MaxRequests
    /\ Hasty \/ form.requests = {}
MayTap == MayAct /\ ~IsBusy(form)

Does(f) == form' = f /\ UNCHANGED <<stored, locks, issued, made, given>>

\* Controls are read-only without a lock key, as they were last drawn.
Edit ==
    /\ MayAct /\ made < MaxChange
    /\ ~Refuses(form) /\ (HasLockKey(form) \/ IsBusy(form))
    /\ form' = Set(form, form.attrs \cup {made + 1})
    /\ made' = made + 1
    /\ UNCHANGED <<stored, locks, issued, given>>

\* Typing the number of a new document gives a fetched one back; under policy A
\* it cannot be typed any more once it is fetched.
TypeNumber ==
    /\ MayTap /\ IsNew(form) /\ form.docKey # "typed"
    /\ form.policy = "A" => form.docKey = "empty"
    /\ LET typed == [form EXCEPT !.docKey = "typed"]
       IN  Does(IF form.docKey = "fetched" THEN Send(typed, Request("giveback", "none"))
                                           ELSE typed)

\* apply and saveAndClose have hot keys, saveAndNew has not.
Apply == MayAct /\ \E typed \in MayCheck(form) : Does(SaveAs(form, "apply", typed))
SaveAndClose == MayAct /\ \E typed \in MayCheck(form) : Does(SaveAs(form, "close", typed))
SaveAndNew ==
    /\ MayTap /\ HasLockKey(form)
    /\ IF IsDirty(form)
       THEN \E typed \in MayCheck(form) : Does(SaveAs(form, "new", typed))
       ELSE Does(Leave(form))
Refresh == MayAct /\ Does(Requery(form))
Back == MayAct /\ Does(Close(form))

\* The answers to askAboutUnsaved, whatever has happened to the model since it
\* was asked.  A save for the sake of a refresh does what the last button did.
AnswerYes ==
    /\ form.prompt # "none"
    /\ LET f == [form EXCEPT !.prompt = "none"]
           state == IF f.saveState = "none" THEN "apply" ELSE f.saveState
       IN  \E typed \in MayCheck(f) :
              Does(IF form.prompt = "close" THEN SaveAs(f, "close", typed)
                   ELSE Save([f EXCEPT !.saveState = state], "requery", typed))
AnswerNo ==
    /\ form.prompt # "none"
    /\ LET f == [form EXCEPT !.prompt = "none"]
       IN  form' = IF form.prompt = "close" THEN CloseNow(f) ELSE RequeryNow(f)
    /\ given' = given \cup Unsaved
    /\ UNCHANGED <<stored, locks, issued, made>>
Cancel == form.prompt # "none" /\ Does([form EXCEPT !.prompt = "none"])

-----------------------------------------------------------------------------

\* A workspace opens on a record, or on a new one whose number the policy says
\* to fetch (A, O) or not (M).
Init ==
    /\ \/ /\ form = ModelFetch(NewForm("EMPTY", "M"))
          /\ stored = <<{}>>
       \/ /\ \E policy \in {"A", "O"} :
                form = Send(NewForm("READY_NEW", policy), Request("number", "none"))
          /\ stored = <<>>
       \/ /\ form = NewForm("READY_NEW", "M")
          /\ stored = <<>>
    /\ locks = {}
    /\ issued = "free"
    /\ made = 0
    /\ given = {}

Next ==
    \/ \E r \in form.requests : Serve(r) \/ Receive(r)
    \/ \E k \in locks : Expire(k)
    \/ ChangeElsewhere
    \/ Edit \/ TypeNumber \/ Apply \/ SaveAndClose \/ SaveAndNew \/ Refresh \/ Back
    \/ AnswerYes \/ AnswerNo \/ Cancel

\* The server answers, and the answer arrives; the user need not do anything.
Fairness ==
    /\ WF_vars(\E r \in form.requests : Serve(r))
    /\ WF_vars(\E r \in form.requests : Receive(r))

Spec == Init /\ [][Next]_vars /\ Fairness

-----------------------------------------------------------------------------
(* Properties.                                                             *)

TypeOK ==
    /\ form.status \in Statuses
    /\ form.view \in {"open", "gone"}
    /\ form.prompt \in {"none", "close", "refresh"}
    /\ form.saveState \in {"none", "apply", "close", "new"}
    /\ form.docKey \in {"empty", "fetched", "typed"}
    /\ form.lock \in Nat \cup {NoKey} /\ form.timer \in Nat
    /\ form.attrs \subseteq 1..made /\ form.cache \subseteq 1..made
    /\ \A v \in 1..Len(stored) : stored[v] \subseteq 1..made
    /\ locks \subseteq Nat \ {0}
    /\ \A r, q \in form.requests : r.n = q.n => r = q

\* A spinner never waits for nothing: while the model is busy, a request is
\* under way whose answer ends it.
BusyWaits ==
    IsBusy(form) => \E r \in form.requests : r.op \in {"fetch", "commit", "obtain"}

\* What a clean model shows is the version of the record it saves against, and
\* a changed one was last clean with that version.
ShowsVersion ==
    form.view = "open" /\ form.etag > 0 =>
        /\ form.status = "READY_CLEAN" => form.attrs = stored[form.etag]
        /\ form.status = "READY_DIRTY" =>
              form.cache = stored[form.etag] /\ form.cache \subseteq form.attrs

\* No change is saved twice: what a save carries is neither stored nor carried
\* by another save.
SavedOnce ==
    \A r \in form.requests : r.op = "commit" /\ r.state = "sent" =>
        /\ r.edits \cap Content = {}
        /\ \A q \in form.requests : q.op = "commit" /\ q # r => q.edits \cap r.edits = {}

\* With no request under way the server holds no lock the model has forgotten,
\* and none is renewed for a workspace that is gone.
NoLostLock ==
    form.requests = {} =>
        /\ locks \subseteq {form.lock}
        /\ form.timer \in {0, form.lock}
        /\ form.view = "gone" => form.timer = 0

\* A number that was fetched for a document that was never saved is given back
\* when its workspace goes, unless saving it failed.
NumberReturned ==
    form.requests = {} /\ form.view = "gone" /\ form.status # "ERROR" => issued # "issued"

\* A change the user made disappears from the form only when it is saved, when
\* he says so, or after an error.
ChangesKept == [][Unsaved \subseteq form'.attrs \cup Content' \cup given']_vars

\* The spinner goes away, and a workspace that waits for its lock's release
\* before it closes does close.
BusyEnds == IsBusy(form) ~> ~IsBusy(form)
CloseEnds == (\E r \in form.requests : r.then = "leave") ~> form.view = "gone"

=============================================================================
