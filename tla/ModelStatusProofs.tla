-------------------------- MODULE ModelStatusProofs --------------------------
(***************************************************************************)
(* Two results about the model's statuses and the workspace.  The first: no *)
(* spinner without a request, however hasty the user, provided requests for *)
(* locks do not fail.  The second, for a user who waits for the answers: the*)
(* form, the record and the server's locks and numbers fit together, at     *)
(* rest and in each of the waits, so that nothing is shown, saved or lost   *)
(* that should not be.                                                      *)
(***************************************************************************)
EXTENDS ModelStatus, Sums, TLAPS

Fields == {"view", "status", "attrs", "cache", "parsed", "etag", "lock", "timer",
           "saveState", "prompt", "policy", "docKey", "requests"}
RequestFields == {"n", "op", "then", "state", "edits", "etag", "key"}
Ending == {"fetch", "commit", "obtain"}

\* A request as the handlers make it: the answers the server gives to its kind,
\* and the steps that can follow.
GoodRequest(r) ==
    /\ r = [x \in RequestFields |-> r[x]]
    /\ r.op \in Ending \cup {"release", "check", "number", "giveback"}
    /\ r.op = "release" => r.then \in {"none", "fetch", "leave"}
    /\ r.op = "giveback" => r.state = "sent"
    /\ r.op = "obtain" => r.state # "failed"

Shape(f) ==
    /\ f = [x \in Fields |-> f[x]]
    /\ \A r \in f.requests : GoodRequest(r)

\* BusyWaits, of any form.
Waits(f) == IsBusy(f) => \E r \in f.requests : r.op \in Ending

Good(f) == Shape(f) /\ Waits(f)

-----------------------------------------------------------------------------
(* Changes of one form.                                                    *)

\* Changing a field other than the status and the requests harms nothing.
LEMMA ChangeKeeps ==
    ASSUME NEW f, NEW g,
           g = [x \in Fields |-> g[x]],
           g.status = f.status, g.requests = f.requests, Good(f)
    PROVE  Good(g)
  BY DEF Good, Shape, Waits, IsBusy

\* A request as Request makes it is a good one.
LEMMA RequestGood ==
    ASSUME NEW op \in Ending \cup {"release", "check", "number", "giveback"},
           NEW then, op = "release" => then \in {"none", "fetch", "leave"}
    PROVE  /\ GoodRequest(Request(op, then))
           /\ Request(op, then).op = op
  BY DEF GoodRequest, Request, RequestFields, Ending

\* Sending a request keeps the form good, and makes it so if it ends a wait.
LEMMA SendKeeps ==
    ASSUME NEW f, NEW r, Shape(f), GoodRequest(r)
    PROVE  /\ Shape(Send(f, r))
           /\ Send(f, r).status = f.status
           /\ Send(f, r).view = f.view
           /\ r.op \in Ending => Good(Send(f, r))
           /\ Good(f) => Good(Send(f, r))
  <1> DEFINE q == [r EXCEPT !.n = Unused(f)]
             g == Send(f, r)
  <1>1. GoodRequest(q) /\ q.op = r.op
    BY DEF GoodRequest, RequestFields
  <1>2. g = [f EXCEPT !.requests = @ \cup {q}]
    BY DEF Send
  <1>3. g = [x \in Fields |-> g[x]] /\ g.status = f.status /\ g.view = f.view
    BY <1>2 DEF Shape, Fields
  <1>4. g.requests = f.requests \cup {q}
    BY <1>2 DEF Shape, Fields
  <1>5. Shape(g)
    BY <1>1, <1>3, <1>4 DEF Shape
  <1> HIDE DEF q, g
  <1>6. r.op \in Ending => Good(g)
    BY <1>1, <1>4, <1>5 DEF Good, Waits
  <1>7. Good(f) => Good(g)
    BY <1>3, <1>4, <1>5 DEF Good, Waits, IsBusy
  <1> QED BY <1>3, <1>5, <1>6, <1>7 DEF g

\* A status that is not a busy one needs no request.
LEMMA SetStatusKeeps ==
    ASSUME NEW f, NEW s, Shape(f)
    PROVE  /\ Shape(SetStatus(f, s))
           /\ SetStatus(f, s).status = s
           /\ SetStatus(f, s).requests = f.requests
           /\ SetStatus(f, s).view = f.view
           /\ s \notin {"BUSY_FETCHING", "BUSY_COMMITTING"} => Good(SetStatus(f, s))
  <1> DEFINE g == SetStatus(f, s)
  <1>1. /\ g = [x \in Fields |-> g[x]]
        /\ g.status = s /\ g.requests = f.requests /\ g.view = f.view
    BY DEF SetStatus, Shape, Fields
  <1> HIDE DEF g
  <1>2. Shape(g)
    BY <1>1 DEF Shape
  <1>3. s \notin {"BUSY_FETCHING", "BUSY_COMMITTING"} => Good(g)
    BY <1>1, <1>2 DEF Good, Waits, IsBusy
  <1> QED BY <1>1, <1>2, <1>3 DEF g

-----------------------------------------------------------------------------
(* The handlers: each makes a good form of a good form, and some of any.    *)

LEMMA SetKeeps ==
    ASSUME NEW f, NEW a, Shape(f)
    PROVE  /\ Shape(Set(f, a))
           /\ Set(f, a).requests = f.requests
           /\ Good(f) => Good(Set(f, a))
  <1> DEFINE g == Set(f, a)
  <1>1. /\ g = [x \in Fields |-> g[x]] /\ g.requests = f.requests
        /\ g.status = f.status \/ g.status = "READY_DIRTY"
    BY DEF Set, Shape, Fields
  <1> HIDE DEF g
  <1> QED BY <1>1 DEF g, Good, Shape, Waits, IsBusy

LEMMA FetchKeeps ==
    ASSUME NEW f, Good(f)
    PROVE  Good(Fetch(f))
  <1>1. Shape(SetStatus(f, "BUSY_FETCHING"))
    BY SetStatusKeeps DEF Good
  <1>2. /\ GoodRequest(Request("fetch", "none"))
        /\ Request("fetch", "none").op \in Ending
    BY RequestGood DEF Ending
  <1>3. Good(ModelFetch(f))
    BY <1>1, <1>2, SendKeeps DEF ModelFetch
  <1> QED BY <1>3 DEF Fetch

LEMMA SendReleaseKeeps ==
    ASSUME NEW f, NEW then \in {"none", "fetch", "leave"}, Good(f)
    PROVE  Good(SendRelease(f, then))
  <1> DEFINE g == [f EXCEPT !.timer = 0]
             q == [Request("release", then) EXCEPT !.key = f.lock]
  <1>1. Good(g)
    BY ChangeKeeps DEF Good, Shape, Fields
  <1>2. GoodRequest(q)
    BY RequestGood DEF GoodRequest, RequestFields, Request, Ending
  <1>3. Good(Send(g, q))
    BY <1>1, <1>2, SendKeeps DEF Good
  <1> QED BY <1>3 DEF SendRelease

LEMMA LeaveKeeps ==
    ASSUME NEW f, Good(f)
    PROVE  Good(Leave(f))
  <1> DEFINE sent == IF HasKey(f) THEN SendRelease(f, "none") ELSE f
             left == [sent EXCEPT !.view = "gone"]
             gone == [left EXCEPT !.status = "DESTROYED_CLEAN", !.attrs = {}]
  <1>1. Good(sent)
    BY SendReleaseKeeps
  <1>2. Good(left)
    <2> HIDE DEF sent
    <2> QED BY <1>1, ChangeKeeps DEF Good, Shape, Fields
  <1>3. Good(gone)
    <2>1. /\ gone = [x \in Fields |-> gone[x]]
          /\ gone.status = "DESTROYED_CLEAN" /\ gone.requests = left.requests
      <3> HIDE DEF left
      <3> QED BY <1>2 DEF Good, Shape, Fields
    <2> HIDE DEF gone, left
    <2> QED BY <1>2, <2>1 DEF Good, Shape, Waits, IsBusy
  <1>4. GoodRequest(Request("giveback", "none"))
    BY RequestGood
  <1>5. Good(Send(gone, Request("giveback", "none")))
    <2> HIDE DEF gone
    <2> QED BY <1>3, <1>4, SendKeeps DEF Good
  <1>6. Leave(f) \in {f, left, gone, Send(gone, Request("giveback", "none"))}
    BY DEF Leave
  <1> QED BY <1>2, <1>3, <1>5, <1>6

LEMMA ReleasedKeeps ==
    ASSUME NEW f, NEW then \in {"none", "fetch", "leave"}, Good(f)
    PROVE  Good(Released(f, then))
  BY FetchKeeps, LeaveKeeps DEF Released

LEMMA ReleaseLockKeeps ==
    ASSUME NEW f, NEW then \in {"none", "fetch", "leave"}, Good(f)
    PROVE  Good(ReleaseLock(f, then))
  BY ReleasedKeeps, SendReleaseKeeps DEF ReleaseLock

\* Asking for a lock ends any wait, sooner or later.
LEMMA ObtainLockKeeps ==
    ASSUME NEW f, NEW then, Shape(f)
    PROVE  Good(ObtainLock(f, then))
  <1> DEFINE q == [Request("obtain", then) EXCEPT !.etag = f.etag]
  <1>1. GoodRequest(q) /\ q.op \in Ending
    BY RequestGood DEF GoodRequest, RequestFields, Request, Ending
  <1> QED BY <1>1, SendKeeps DEF ObtainLock

LEMMA CloseKeeps ==
    ASSUME NEW f, Good(f)
    PROVE  Good(CloseNow(f)) /\ Good(Close(f))
  <1> DEFINE before == [f EXCEPT !.attrs = f.parsed]
             reverted == IF f.status = "READY_DIRTY"
                         THEN SetStatus(before, "READY_CLEAN") ELSE f
  <1>1. Good(before)
    BY ChangeKeeps DEF Good, Shape, Fields
  <1>2. Good(reverted)
    <2> HIDE DEF before
    <2> QED BY <1>1, SetStatusKeeps DEF Good
  <1>3. Good(CloseNow(f))
    <2>1. CloseNow(f) = IF HasLockKey(f) THEN ReleaseLock(reverted, "leave") ELSE Leave(reverted)
      BY DEF CloseNow
    <2> HIDE DEF reverted
    <2> QED BY <1>2, <2>1, ReleaseLockKeeps, LeaveKeeps
  <1>4. Good([f EXCEPT !.prompt = "close"])
    BY ChangeKeeps DEF Good, Shape, Fields
  <1> QED BY <1>3, <1>4 DEF Close

LEMMA RequeryKeeps ==
    ASSUME NEW f, Good(f)
    PROVE  Good(RequeryNow(f)) /\ Good(Requery(f))
  <1>1. Good(RequeryNow(f))
    BY LeaveKeeps, ReleaseLockKeeps DEF RequeryNow
  <1>2. Good([f EXCEPT !.prompt = "refresh"])
    BY ChangeKeeps DEF Good, Shape, Fields
  <1> QED BY <1>1, <1>2 DEF Requery

LEMMA ModelSavedKeeps ==
    ASSUME NEW f, Good(f)
    PROVE  Good(ModelSaved(f))
  BY CloseKeeps, LeaveKeeps DEF ModelSaved

LEMMA CommitKeeps ==
    ASSUME NEW f, NEW then, Good(f)
    PROVE  Good(Commit(f, then))
  <1> DEFINE q == [Request("commit", then) EXCEPT !.edits = f.attrs \ f.cache, !.etag = f.etag]
  <1>1. GoodRequest(q) /\ q.op \in Ending
    BY RequestGood DEF GoodRequest, RequestFields, Request, Ending
  <1>2. Shape(SetStatus(f, "BUSY_COMMITTING"))
    BY SetStatusKeeps DEF Good
  <1>3. Good(Send(SetStatus(f, "BUSY_COMMITTING"), q))
    <2> HIDE DEF q
    <2> QED BY <1>1, <1>2, SendKeeps
  <1> QED BY <1>3 DEF Commit

LEMMA SaveKeeps ==
    ASSUME NEW f, NEW then, NEW typed, Good(f)
    PROVE  Good(Save(f, then, typed))
  <1>1. GoodRequest(Request("check", then))
    BY RequestGood
  <1> QED BY <1>1, CommitKeeps, SendKeeps DEF Save, Good

LEMMA SaveAsKeeps ==
    ASSUME NEW f, NEW state, NEW typed, Good(f)
    PROVE  Good(SaveAs(f, state, typed))
  <1> DEFINE g == [f EXCEPT !.saveState = state]
  <1>1. Good(g)
    BY ChangeKeeps DEF Good, Shape, Fields
  <1> QED BY <1>1, SaveKeeps DEF SaveAs

-----------------------------------------------------------------------------
(* Answers.                                                                *)

\* Without the request that was answered, a form still has its shape; and if
\* that request ended no wait, it is as good as before.
LEMMA DropKeeps ==
    ASSUME NEW f, NEW r \in f.requests, Good(f)
    PROVE  /\ Shape(Drop(f, r))
           /\ r.op \notin Ending => Good(Drop(f, r))
  <1> DEFINE g == Drop(f, r)
  <1>1. /\ g = [x \in Fields |-> g[x]]
        /\ g.status = f.status /\ g.requests = f.requests \ {r}
    BY DEF Drop, Good, Shape, Fields
  <1> HIDE DEF g
  <1> QED BY <1>1 DEF g, Good, Shape, Waits, IsBusy

LEMMA FailedKeeps ==
    ASSUME NEW f, NEW r \in f.requests, Good(f), r.state = "failed"
    PROVE  Good(Failed(Drop(f, r), r))
  <1>1. GoodRequest(r)
    BY DEF Good, Shape
  <1>2. CASE r.op \in {"fetch", "commit"}
    <2>1. Good(SetStatus(Drop(f, r), "ERROR"))
      BY DropKeeps, SetStatusKeeps
    <2> QED BY <1>2, <2>1 DEF Failed
  <1>3. CASE r.op \notin {"fetch", "commit"}
    BY <1>1, <1>3, DropKeeps DEF Failed, GoodRequest, Ending
  <1> QED BY <1>2, <1>3

\* The record comes, of a form of any status: it is refused, clean, or waits
\* for a lock.
LEMMA FetchedKeeps ==
    ASSUME NEW f, NEW r, Shape(f)
    PROVE  Good(Fetched(f, r))
  <1> DEFINE told == [f EXCEPT !.etag = r.etag, !.parsed = r.edits]
             set == Set(told, r.edits)
  <1>1. Shape(told) /\ told.status = f.status
    BY DEF Shape, Fields
  <1>2. Refuses(f) => Good(told)
    BY <1>1 DEF Refuses, Good, Waits, IsBusy
  <1>3. Shape(set)
    <2> HIDE DEF told
    <2> QED BY <1>1, SetKeeps
  <1>4. Good(SetStatus(set, "READY_CLEAN")) /\ Good(ObtainLock(set, "fetched"))
    <2> HIDE DEF set
    <2> QED BY <1>3, SetStatusKeeps, ObtainLockKeeps
  <1>5. Fetched(f, r) \in {told, SetStatus(set, "READY_CLEAN"), ObtainLock(set, "fetched")}
        /\ (Fetched(f, r) = told => Refuses(f) \/ Good(told))
    <2> HIDE DEF told
    <2>1. Fetched(f, r) = IF Refuses(f) THEN told
                          ELSE IF HasKey(f) THEN SetStatus(set, "READY_CLEAN")
                          ELSE ObtainLock(set, "fetched")
      BY DEF Fetched, told
    <2> HIDE DEF set
    <2> QED BY <2>1, <1>4
  <1> HIDE DEF told, set
  <1> QED BY <1>2, <1>4, <1>5

LEMMA CommittedKeeps ==
    ASSUME NEW f, NEW r, Shape(f)
    PROVE  Good(Committed(f, r))
  <1> DEFINE attrs == f.attrs \cup r.edits
             told == [f EXCEPT !.etag = r.etag,
                               !.parsed = IF r.then = "quiet" THEN {} ELSE attrs]
             set == Set(told, attrs)
  <1>1. Shape(told) /\ told.status = f.status
    BY DEF Shape, Fields
  <1>2. Refuses(f) => Good(told)
    BY <1>1 DEF Refuses, Good, Waits, IsBusy
  <1>3. Committed(f, r) = IF Refuses(f) THEN told ELSE ObtainLock(set, "saved")
    BY DEF Committed
  <1>4. Good(ObtainLock(set, "saved"))
    <2> HIDE DEF told
    <2>1. Shape(set)
      BY <1>1, SetKeeps
    <2> HIDE DEF set
    <2> QED BY <2>1, ObtainLockKeeps
  <1> HIDE DEF told, set
  <1> QED BY <1>2, <1>3, <1>4

LEMMA ObtainedKeeps ==
    ASSUME NEW f, NEW r, Shape(f)
    PROVE  Good(Obtained(f, r))
  <1> DEFINE locked == [f EXCEPT !.lock = r.key, !.timer = IF r.key > 0 THEN r.key ELSE 0]
             clean == SetStatus(locked, "READY_CLEAN")
  <1>1. Shape(locked)
    BY DEF Shape, Fields
  <1>2. Good(clean)
    <2> HIDE DEF locked
    <2> QED BY <1>1, SetStatusKeeps
  <1>3. Obtained(f, r) = IF r.then = "saved" THEN ModelSaved(clean) ELSE clean
    BY DEF Obtained
  <1> HIDE DEF clean
  <1> QED BY <1>2, <1>3, ModelSavedKeeps

LEMMA AnsweredKeeps ==
    ASSUME NEW f, NEW r \in f.requests, Good(f), r.state \notin {"sent", "failed"}
    PROVE  Good(Answered(Drop(f, r), r))
  <1> DEFINE g == Drop(f, r)
  <1>1. GoodRequest(r) /\ r.op # "giveback"
    BY DEF Good, Shape, GoodRequest
  <1>2. Shape(g) /\ (r.op \notin Ending => Good(g))
    BY DropKeeps
  <1> HIDE DEF g
  <1>3. CASE r.op = "fetch"
    BY <1>2, <1>3, FetchedKeeps DEF Answered, g
  <1>4. CASE r.op = "commit"
    BY <1>2, <1>4, CommittedKeeps DEF Answered, g
  <1>5. CASE r.op = "obtain"
    BY <1>2, <1>5, ObtainedKeeps DEF Answered, g
  <1>6. CASE r.op = "release"
    <2>1. Good(g) /\ r.then \in {"none", "fetch", "leave"}
      BY <1>1, <1>2, <1>6 DEF Ending, GoodRequest
    <2> DEFINE h == [g EXCEPT !.lock = NoKey, !.timer = 0]
    <2>2. Good(h)
      <3>1. h = [x \in Fields |-> h[x]] /\ h.status = g.status /\ h.requests = g.requests
        BY <2>1 DEF Good, Shape, Fields
      <3> QED BY <2>1, <3>1, ChangeKeeps
    <2>3. Good(Released([g EXCEPT !.lock = NoKey, !.timer = 0], r.then))
      BY <2>1, <2>2, ReleasedKeeps
    <2> QED BY <1>6, <2>3 DEF Answered, g
  <1>7. CASE r.op = "check"
    BY <1>2, <1>7, CommitKeeps DEF Answered, g, Ending
  <1>8. CASE r.op = "number"
    <2>1. Good(g)
      BY <1>2, <1>8 DEF Ending
    <2>2. Good([g EXCEPT !.docKey = "fetched"])
      BY <2>1, ChangeKeeps DEF Good, Shape, Fields
    <2> QED BY <1>8, <2>1, <2>2 DEF Answered, Numbered, g
  <1> QED BY <1>1, <1>3, <1>4, <1>5, <1>6, <1>7, <1>8 DEF GoodRequest, Ending

-----------------------------------------------------------------------------
(* The server.                                                             *)

\* Answering a request with one of its kind, unless a lock is what fails.
LEMMA ReplyKeeps ==
    ASSUME NEW r \in form.requests, NEW reply, Good(form), Reply(r, reply),
           GoodRequest(reply), reply.op = r.op
    PROVE  Good(form')
  <1>1. /\ form' = [x \in Fields |-> form'[x]]
        /\ form'.status = form.status
        /\ form'.requests = (form.requests \ {r}) \cup {reply}
    BY DEF Reply, Good, Shape, Fields
  <1> QED BY <1>1 DEF Good, Shape, Waits, IsBusy

LEMMA ServeKeeps ==
    ASSUME ~LockErrors, Good(form), NEW r \in form.requests, Serve(r)
    PROVE  Good(form')
  <1>1. GoodRequest(r) /\ r.state = "sent"
    BY DEF Serve, Good, Shape
  <1>2. CASE ServeFetch(r)
    <2> DEFINE q == [r EXCEPT !.state = "answered", !.edits = Content, !.etag = Len(stored)]
    <2>1. GoodRequest(q) /\ q.op = r.op
      BY <1>1, <1>2 DEF ServeFetch, GoodRequest, RequestFields
    <2> QED BY <1>2, <2>1, ReplyKeeps DEF ServeFetch
  <1>3. CASE ServeCommit(r)
    <2>1. PICK own \in {{}, {made + 1}} :
              Reply(r, IF r.then = "quiet"
                       THEN [r EXCEPT !.state = "answered", !.edits = {}, !.etag = 0]
                       ELSE [r EXCEPT !.state = "answered", !.edits = own,
                                      !.etag = Len(stored) + 1])
      BY <1>3 DEF ServeCommit
    <2> DEFINE quiet == [r EXCEPT !.state = "answered", !.edits = {}, !.etag = 0]
               loud == [r EXCEPT !.state = "answered", !.edits = own, !.etag = Len(stored) + 1]
    <2>2. GoodRequest(quiet) /\ quiet.op = r.op /\ GoodRequest(loud) /\ loud.op = r.op
      BY <1>1, <1>3 DEF ServeCommit, GoodRequest, RequestFields
    <2> QED BY <2>1, <2>2, ReplyKeeps
  <1>4. CASE ServeObtain(r)
    <2>1. PICK key : Reply(r, [r EXCEPT !.state = "answered", !.key = key])
      BY <1>4 DEF ServeObtain
    <2> DEFINE q == [r EXCEPT !.state = "answered", !.key = key]
    <2>2. GoodRequest(q) /\ q.op = r.op
      BY <1>1, <1>4 DEF ServeObtain, GoodRequest, RequestFields
    <2> QED BY <2>1, <2>2, ReplyKeeps
  <1>5. CASE ServeRelease(r) \/ ServeCheck(r) \/ ServeNumber(r)
    <2> DEFINE q == [r EXCEPT !.state = "answered"]
    <2>1. GoodRequest(q) /\ q.op = r.op
      BY <1>1, <1>5 DEF ServeRelease, ServeCheck, ServeNumber, GoodRequest, RequestFields
    <2> QED BY <1>5, <2>1, ReplyKeeps DEF ServeRelease, ServeCheck, ServeNumber
  <1>6. CASE ServeGiveback(r)
    BY <1>6, DropKeeps DEF ServeGiveback, Ending
  <1>7. CASE Refuse(r)
    <2> DEFINE q == [r EXCEPT !.state = "failed"]
    <2>1. GoodRequest(q) /\ q.op = r.op
      BY <1>1, <1>7 DEF Refuse, GoodRequest, RequestFields
    <2> QED BY <1>7, <2>1, ReplyKeeps DEF Refuse
  <1> QED BY <1>2, <1>3, <1>4, <1>5, <1>6, <1>7 DEF Serve

LEMMA ReceiveKeeps ==
    ASSUME Good(form), NEW r \in form.requests, Receive(r)
    PROVE  Good(form')
  BY FailedKeeps, AnsweredKeeps DEF Receive

-----------------------------------------------------------------------------
(* The user.                                                               *)

LEMMA UserKeeps ==
    ASSUME Good(form),
           Edit \/ TypeNumber \/ Apply \/ SaveAndClose \/ SaveAndNew \/ Refresh \/ Back
           \/ AnswerYes \/ AnswerNo \/ Cancel
    PROVE  Good(form')
  <1> DEFINE asked == [form EXCEPT !.prompt = "none"]
  <1>1. Good(asked)
    BY ChangeKeeps DEF Good, Shape, Fields
  <1>2. CASE Edit
    BY <1>2, SetKeeps DEF Edit, Good
  <1>3. CASE TypeNumber
    <2> DEFINE typed == [form EXCEPT !.docKey = "typed"]
    <2>1. Good(typed)
      BY ChangeKeeps DEF Good, Shape, Fields
    <2>2. GoodRequest(Request("giveback", "none"))
      BY RequestGood
    <2>3. Good(Send(typed, Request("giveback", "none")))
      <3> HIDE DEF typed
      <3> QED BY <2>1, <2>2, SendKeeps DEF Good
    <2> QED BY <1>3, <2>1, <2>3 DEF TypeNumber, Does
  <1>4. CASE Apply \/ SaveAndClose
    BY <1>4, SaveAsKeeps DEF Apply, SaveAndClose, Does
  <1>5. CASE SaveAndNew
    BY <1>5, SaveAsKeeps, LeaveKeeps DEF SaveAndNew, Does
  <1>6. CASE Refresh \/ Back
    BY <1>6, RequeryKeeps, CloseKeeps DEF Refresh, Back, Does
  <1>7. CASE AnswerYes
    <2> DEFINE state == IF asked.saveState = "none" THEN "apply" ELSE asked.saveState
               marked == [asked EXCEPT !.saveState = state]
    <2>1. Good(marked)
      <3> HIDE DEF asked, state
      <3> QED BY <1>1, ChangeKeeps DEF Good, Shape, Fields
    <2>2. PICK typed : form' = IF form.prompt = "close" THEN SaveAs(asked, "close", typed)
                                ELSE Save(marked, "requery", typed)
      BY <1>7 DEF AnswerYes, Does
    <2> HIDE DEF asked, marked
    <2> QED BY <1>1, <2>1, <2>2, SaveAsKeeps, SaveKeeps
  <1>8. CASE AnswerNo
    <2>1. form' \in {CloseNow(asked), RequeryNow(asked)}
      BY <1>8 DEF AnswerNo
    <2> HIDE DEF asked
    <2> QED BY <1>1, <2>1, CloseKeeps, RequeryKeeps
  <1>9. CASE Cancel
    BY <1>1, <1>9 DEF Cancel, Does
  <1> QED BY <1>2, <1>3, <1>4, <1>5, <1>6, <1>7, <1>8, <1>9

-----------------------------------------------------------------------------

LEMMA InitGood == Init => Good(form)
  <1> SUFFICES ASSUME Init PROVE Good(form)
    OBVIOUS
  <1>1. \A status, policy :
            LET f == NewForm(status, policy)
            IN  Shape(f) /\ f.status = status
    BY DEF NewForm, Shape, Fields
  <1>2. Shape(SetStatus(NewForm("EMPTY", "M"), "BUSY_FETCHING"))
    BY <1>1, SetStatusKeeps
  <1>3. Good(ModelFetch(NewForm("EMPTY", "M")))
    BY <1>2, RequestGood, SendKeeps DEF ModelFetch, Ending
  <1>4. \A policy : Good(NewForm("READY_NEW", policy))
    BY <1>1 DEF Good, Waits, IsBusy
  <1>5. \A policy : Good(Send(NewForm("READY_NEW", policy), Request("number", "none")))
    BY <1>4, RequestGood, SendKeeps DEF Good
  <1> QED BY <1>3, <1>4, <1>5 DEF Init

LEMMA NextGood == ~LockErrors /\ Good(form) /\ [Next]_vars => Good(form')
  <1> SUFFICES ASSUME ~LockErrors, Good(form), [Next]_vars
               PROVE  Good(form')
    OBVIOUS
  <1>1. CASE \E r \in form.requests : Serve(r) \/ Receive(r)
    BY <1>1, ServeKeeps, ReceiveKeeps
  <1>2. CASE UNCHANGED form
    BY <1>2
  <1>3. CASE (\E k \in locks : Expire(k)) \/ ChangeElsewhere
    BY <1>3 DEF Expire, ChangeElsewhere
  <1>4. CASE Edit \/ TypeNumber \/ Apply \/ SaveAndClose \/ SaveAndNew \/ Refresh \/ Back
             \/ AnswerYes \/ AnswerNo \/ Cancel
    BY <1>4, UserKeeps
  <1> QED BY <1>1, <1>2, <1>3, <1>4 DEF Next, vars

\* A spinner never waits for nothing, for any number of changes and requests and
\* users as hasty as the hot keys let them be, provided requests for locks and
\* their releases do not fail.
THEOREM BusyWaitsHolds == ~LockErrors => (Spec => []BusyWaits)
  <1> SUFFICES ASSUME ~LockErrors PROVE Spec => []BusyWaits
    OBVIOUS
  <1>1. Init => Good(form)
    BY InitGood
  <1>2. Good(form) /\ [Next]_vars => Good(form)'
    <2>1. ASSUME Good(form), [Next]_vars PROVE Good(form')
      BY <2>1, NextGood
    <2>2. Good(form') => Good(form)'
      BY DEF Good, Shape, Waits, GoodRequest, IsBusy
    <2> QED BY <2>1, <2>2
  <1>3. Good(form) => BusyWaits
    BY DEF Good, Waits, BusyWaits, Ending
  <1> QED BY <1>1, <1>2, <1>3, PTL DEF Spec

-----------------------------------------------------------------------------
(* What a user who waits for the answers can rely on: the form, the record  *)
(* and the server fit together, at rest and in each wait.                   *)

\* The versions of the record only grow, and the locks are keys.
Versions ==
    /\ made \in Nat /\ locks \subseteq Nat \ {0}
    /\ stored \in Seq(SUBSET (1..made))
    /\ \A i, j \in 1..Len(stored) : i <= j => stored[i] \subseteq stored[j]

\* The types of a form; its interval renews the lock it has.
FormOK(f) ==
    /\ f = [x \in Fields |-> f[x]]
    /\ f.view \in {"open", "gone"}
    /\ f.status \in Statuses
    /\ f.attrs \subseteq 1..made /\ f.cache \subseteq 1..made /\ f.parsed \subseteq Content
    /\ f.etag \in 0..Len(stored)
    /\ f.lock \in Nat \cup {NoKey} /\ f.timer \in Nat /\ f.timer \in {0, f.lock}
    /\ f.saveState \in {"none", "apply", "close", "new"}
    /\ f.prompt \in {"none", "close", "refresh"}
    /\ f.docKey \in {"empty", "fetched", "typed"}

\* What was last clean is of the version saved against; the rest is not stored.
Since(f) ==
    /\ f.cache \subseteq f.attrs /\ f.cache \subseteq Content
    /\ (f.attrs \ f.cache) \cap Content = {}
    /\ f.etag > 0 => f.cache = stored[f.etag] /\ f.parsed = f.cache

\* A new form has nothing on the server, a clean one nothing of its own.
Ready(f) ==
    /\ Since(f)
    /\ f.status = "READY_NEW" => stored = <<>> /\ f.etag = 0 /\ f.lock = 0
    /\ f.status # "READY_NEW" => stored # <<>>
    /\ f.status = "READY_CLEAN" => f.attrs = f.cache

\* A form that is not busy.  After an error what it had is stored or given up.
Settled(f, g) ==
    /\ ~IsBusy(f)
    /\ f.status \in {"READY_NEW", "READY_CLEAN", "READY_DIRTY"} => Ready(f)
    /\ f.status = "ERROR" => f.attrs \subseteq Content \cup g

Known(f) == locks \subseteq {f.lock}
NumberKnown(f) == issued = "issued" => f.docKey = "fetched" /\ stored = <<>>
NumberLeft(f) == issued = "issued" => f.status = "ERROR"

\* No request is under way.
AtRest(f, g) ==
    /\ Settled(f, g) /\ Known(f) /\ NumberKnown(f)
    /\ f.prompt # "none" => IsDirty(f)
    /\ f.status = "DESTROYED_CLEAN" => f.view = "gone"
    /\ f.view = "gone" => f.timer = 0 /\ f.prompt = "none" /\ NumberLeft(f)

\* Request r is under way, by what it is for.
Numbering(f, r) ==
    /\ r.op = "number" /\ f.view = "open"
    /\ f.status = "READY_NEW" /\ Ready(f) /\ Known(f) /\ f.docKey = "empty"
    /\ issued = "issued" <=> r.state = "answered"
Fetching(f, r, g) ==
    /\ r.op = "fetch" /\ f.view = "open"
    /\ f.status = "BUSY_FETCHING" /\ f.lock <= 0 /\ locks = {}
    /\ NumberKnown(f) /\ f.attrs \subseteq Content \cup g
    /\ r.state = "answered" => r.etag \in 1..Len(stored) /\ r.edits = stored[r.etag]
Obtaining(f, r) ==
    /\ r.op = "obtain" /\ f.view = "open" /\ r.state # "failed"
    /\ IsBusy(f) /\ stored # <<>> /\ NumberKnown(f) /\ f.attrs \subseteq Content
    /\ f.etag > 0 => f.attrs = stored[f.etag] /\ f.parsed = f.attrs
    /\ r.state = "sent" => locks = {}
    /\ r.state = "answered" => r.key \in Nat \cup {NoKey} /\ locks \subseteq {r.key}
Committing(f, r) ==
    /\ r.op = "commit" /\ f.view = "open"
    /\ f.status = "BUSY_COMMITTING" /\ NumberKnown(f)
    /\ r.state # "answered" =>
          Since(f) /\ Known(f) /\ r.edits = f.attrs \ f.cache /\ r.etag = f.etag
    /\ r.state = "answered" =>
          /\ stored # <<>> /\ locks = {} /\ f.attrs \subseteq Content
          /\ IF r.then = "quiet" THEN r.edits = {} /\ r.etag = 0
             ELSE r.etag \in 1..Len(stored) /\ stored[r.etag] = f.attrs \cup r.edits
Checking(f, r) ==
    /\ r.op = "check" /\ f.view = "open"
    /\ IsDirty(f) /\ Ready(f) /\ Known(f) /\ NumberKnown(f)
Releasing(f, r, g) ==
    /\ r.op = "release" /\ r.state # "failed"
    /\ f.status \in {"READY_CLEAN", "READY_DIRTY", "ERROR"} /\ Settled(f, g)
    /\ NumberKnown(f) /\ f.timer = 0 /\ f.lock > 0 /\ r.key = f.lock
    /\ Known(f) /\ (r.state = "answered" => locks = {})
    /\ r.then = "none" <=> f.view = "gone"
    /\ f.view = "gone" => NumberLeft(f)
    /\ f.view = "open" => f.attrs \subseteq Content \cup g
GivingBack(f, r) ==
    /\ r.op = "giveback" /\ Known(f)
    /\ \/ f.view = "gone" /\ f.status = "DESTROYED_CLEAN" /\ f.timer = 0
       \/ f.view = "open" /\ f.status = "READY_NEW" /\ Ready(f) /\ f.docKey = "typed"

Under(f, r, g) ==
    \/ Numbering(f, r) \/ Fetching(f, r, g) \/ Obtaining(f, r) \/ Committing(f, r)
    \/ Checking(f, r) \/ Releasing(f, r, g) \/ GivingBack(f, r)

Rest(f, g) == FormOK(f) /\ f.requests = {} /\ AtRest(f, g)
Waiting(f, g) ==
    /\ FormOK(f) /\ f.prompt = "none"
    /\ \E r : /\ f.requests = {r} /\ GoodRequest(r) /\ Under(f, r, g)
              /\ r.state \in {"sent", "answered", "failed"}
Sound(f, g) == Rest(f, g) \/ Waiting(f, g)

\* Every version is in the current one.
LEMMA InContent ==
    ASSUME Versions
    PROVE  /\ Content \subseteq 1..made
           /\ \A i \in 1..Len(stored) : stored[i] \subseteq Content
           /\ stored # <<>> => Len(stored) \in 1..Len(stored) /\ Content = stored[Len(stored)]
           /\ stored = <<>> => Content = {} /\ Len(stored) = 0
  <1>1. stored # <<>> => Len(stored) \in 1..Len(stored)
    BY DEF Versions
  <1>2. stored = <<>> => Content = {} /\ Len(stored) = 0
    BY DEF Content
  <1>3. CASE stored = <<>>
    BY <1>2, <1>3
  <1>4. CASE stored # <<>>
    <2>1. Content = stored[Len(stored)]
      BY <1>4 DEF Content
    <2>2. stored[Len(stored)] \in SUBSET (1..made)
      BY <1>1, <1>4 DEF Versions
    <2>3. \A i \in 1..Len(stored) : stored[i] \subseteq stored[Len(stored)]
      BY <1>1, <1>4 DEF Versions
    <2> QED BY <1>1, <1>4, <2>1, <2>2, <2>3
  <1> QED BY <1>3, <1>4

\* Two forms that differ in their requests only.
Alike(f, h) ==
    /\ h.view = f.view /\ h.status = f.status /\ h.attrs = f.attrs /\ h.cache = f.cache
    /\ h.parsed = f.parsed /\ h.etag = f.etag /\ h.lock = f.lock /\ h.timer = f.timer
    /\ h.saveState = f.saveState /\ h.prompt = f.prompt /\ h.docKey = f.docKey

\* A form that differs in its requests only has the types of the other.
LEMMA AlikeOK ==
    ASSUME NEW f, NEW h, Alike(f, h), FormOK(f), h = [x \in Fields |-> h[x]]
    PROVE  FormOK(h)
  BY DEF Alike, FormOK

\* What is under way for a form is under way for one alike, by a request of the
\* same content.
LEMMA AlikeUnder ==
    ASSUME NEW f, NEW h, NEW g, Alike(f, h), NEW r, NEW q,
           q.op = r.op, q.then = r.then, q.state = r.state, q.edits = r.edits, q.etag = r.etag,
           q.key = r.key, Under(f, r, g)
    PROVE  Under(h, q, g)
  <1>1. /\ Since(h) <=> Since(f)
        /\ Known(h) <=> Known(f)
        /\ NumberKnown(h) <=> NumberKnown(f)
        /\ NumberLeft(h) <=> NumberLeft(f)
        /\ IsBusy(h) <=> IsBusy(f)
        /\ IsDirty(h) <=> IsDirty(f)
    BY DEF Alike, Since, Known, NumberKnown, NumberLeft, IsBusy, IsDirty
  <1>2. Ready(h) <=> Ready(f)
    BY <1>1 DEF Ready, Alike
  <1>3. Settled(h, g) <=> Settled(f, g)
    BY <1>1, <1>2 DEF Settled, Alike
  <1>4. CASE Numbering(f, r)
    BY <1>1, <1>2, <1>4 DEF Numbering, Alike, Under
  <1>5. CASE Fetching(f, r, g)
    BY <1>1, <1>5 DEF Fetching, Alike, Under
  <1>6. CASE Obtaining(f, r)
    BY <1>1, <1>6 DEF Obtaining, Alike, Under
  <1>7. CASE Committing(f, r)
    BY <1>1, <1>7 DEF Committing, Alike, Under
  <1>8. CASE Checking(f, r)
    BY <1>1, <1>2, <1>8 DEF Checking, Alike, Under
  <1>9. CASE Releasing(f, r, g)
    BY <1>1, <1>3, <1>9 DEF Releasing, Alike, Under
  <1>10. CASE GivingBack(f, r)
    BY <1>1, <1>2, <1>10 DEF GivingBack, Alike, Under
  <1> QED BY <1>4, <1>5, <1>6, <1>7, <1>8, <1>9, <1>10 DEF Under

\* A form at rest that sends a request waits for it, if it fits the request.
LEMMA SendWaits ==
    ASSUME NEW f, NEW g, FormOK(f), f.requests = {}, f.prompt = "none",
           NEW r, GoodRequest(r), r.state = "sent", Under(f, r, g)
    PROVE  Waiting(Send(f, r), g) /\ Send(f, r).attrs = f.attrs
  <1> DEFINE q == [r EXCEPT !.n = Unused(f)]
             h == Send(f, r)
  <1>1. /\ q = [x \in RequestFields |-> q[x]]
        /\ q.op = r.op /\ q.then = r.then /\ q.state = r.state /\ q.edits = r.edits
        /\ q.etag = r.etag /\ q.key = r.key
    BY DEF GoodRequest, RequestFields
  <1>2. h = [f EXCEPT !.requests = @ \cup {q}]
    BY DEF Send
  <1>3. h = [x \in Fields |-> h[x]] /\ Alike(f, h) /\ h.requests = {q}
    BY <1>2 DEF FormOK, Fields, Alike
  <1>4. GoodRequest(q)
    BY <1>1 DEF GoodRequest
  <1> HIDE DEF q, h
  <1>5. FormOK(h) /\ Under(h, q, g) /\ h.prompt = "none" /\ h.attrs = f.attrs
    BY <1>1, <1>3, AlikeOK, AlikeUnder DEF Alike
  <1>6. Waiting(h, g)
    BY <1>1, <1>3, <1>4, <1>5 DEF Waiting
  <1> QED BY <1>5, <1>6 DEF h

-----------------------------------------------------------------------------
(* The handlers of such a form.                                            *)

\* A form whose unsaved changes are stored or given up may leave.
Leaving(f, g) ==
    /\ FormOK(f) /\ f.requests = {} /\ f.view = "open" /\ f.prompt = "none"
    /\ Settled(f, g) /\ Known(f) /\ NumberKnown(f)
    /\ f.status # "DESTROYED_CLEAN" /\ f.attrs \subseteq Content \cup g

\* The form after setStatus, field by field: the cache follows a form that
\* becomes clean.
LEMMA SetStatusIs ==
    ASSUME NEW f, NEW s, f = [x \in Fields |-> f[x]]
    PROVE  LET h == SetStatus(f, s)
           IN  /\ h = [x \in Fields |-> h[x]] /\ h.status = s
               /\ h.view = f.view /\ h.attrs = f.attrs /\ h.parsed = f.parsed /\ h.etag = f.etag
               /\ h.lock = f.lock /\ h.timer = f.timer /\ h.saveState = f.saveState
               /\ h.prompt = f.prompt /\ h.docKey = f.docKey /\ h.requests = f.requests
               /\ h.cache = IF s = "READY_CLEAN" /\ f.status # s THEN f.attrs ELSE f.cache
  BY DEF SetStatus, Fields

\* setStatus keeps the types.
LEMMA SetStatusOK ==
    ASSUME NEW f, NEW s \in Statuses, FormOK(f)
    PROVE  FormOK(SetStatus(f, s))
  <1> DEFINE h == SetStatus(f, s)
  <1>1. /\ h = [x \in Fields |-> h[x]] /\ h.status = s
        /\ h.view = f.view /\ h.attrs = f.attrs /\ h.parsed = f.parsed /\ h.etag = f.etag
        /\ h.lock = f.lock /\ h.timer = f.timer /\ h.saveState = f.saveState
        /\ h.prompt = f.prompt /\ h.docKey = f.docKey
        /\ h.cache = IF s = "READY_CLEAN" /\ f.status # s THEN f.attrs ELSE f.cache
    BY SetStatusIs DEF FormOK
  <1> HIDE DEF h
  <1>2. FormOK(h)
    BY <1>1 DEF FormOK
  <1> QED BY <1>2 DEF h

\* Fetching, when the server holds no lock.
LEMMA FetchSound ==
    ASSUME NEW f, NEW g, FormOK(f), f.requests = {}, f.view = "open", f.prompt = "none",
           f.lock <= 0, locks = {}, NumberKnown(f), f.attrs \subseteq Content \cup g
    PROVE  Waiting(Fetch(f), g)
  <1> DEFINE h == SetStatus(f, "BUSY_FETCHING")
             r == Request("fetch", "none")
  <1>1. FormOK(h)
    BY SetStatusOK DEF Statuses
  <1>2. /\ h.status = "BUSY_FETCHING" /\ h.requests = {} /\ h.view = "open" /\ h.prompt = "none"
        /\ h.lock = f.lock /\ h.docKey = f.docKey /\ h.attrs = f.attrs
    <2>1. /\ h.status = "BUSY_FETCHING"
          /\ h.view = f.view /\ h.attrs = f.attrs /\ h.lock = f.lock
          /\ h.prompt = f.prompt /\ h.docKey = f.docKey /\ h.requests = f.requests
      BY SetStatusIs DEF FormOK
    <2> HIDE DEF h
    <2> QED BY <2>1
  <1>3. GoodRequest(r) /\ r.op = "fetch" /\ r.state = "sent"
    BY RequestGood DEF Ending, Request
  <1>4. Fetch(f) = Send(h, r)
    BY DEF Fetch, ModelFetch
  <1> HIDE DEF h, r
  <1>5. Fetching(h, r, g)
    BY <1>2, <1>3 DEF Fetching, NumberKnown
  <1> QED BY <1>1, <1>2, <1>3, <1>4, <1>5, SendWaits DEF Under

\* A form with a key that is to be released.
LEMMA ReleaseSound ==
    ASSUME NEW f, NEW g, Leaving(f, g), HasKey(f), NEW then \in {"none", "fetch", "leave"},
           NEW h, h = [x \in Fields |-> h[x]],
           h.view = IF then = "none" THEN "gone" ELSE "open",
           h.status = f.status, h.attrs = f.attrs, h.cache = f.cache,
           h.parsed = f.parsed, h.etag = f.etag, h.lock = f.lock, h.timer = 0,
           h.saveState = f.saveState, h.prompt = f.prompt, h.docKey = f.docKey,
           NEW q, h.requests = {q}, GoodRequest(q), q.op = "release", q.then = then,
           q.state = "sent", q.key = f.lock
    PROVE  Waiting(h, g)
  <1>1. FormOK(h)
    <2>1. h.view \in {"open", "gone"}
      OBVIOUS
    <2>2. FormOK(f)
      BY DEF Leaving
    <2>3. h.timer \in Nat /\ h.timer \in {0, h.lock}
      OBVIOUS
    <2> QED BY <2>1, <2>2, <2>3 DEF FormOK
  <1>2. Settled(h, g) /\ Known(h) /\ NumberKnown(h)
    BY DEF Leaving, Settled, Ready, Since, Known, NumberKnown, IsBusy
  <1>3. f.status \in {"READY_CLEAN", "READY_DIRTY", "ERROR"}
    BY DEF Leaving, FormOK, Settled, Ready, Statuses, IsBusy, HasKey
  <1>4. NumberLeft(h)
    BY <1>3 DEF NumberLeft, Leaving, NumberKnown, Settled, Ready
  <1>5. Releasing(h, q, g)
    BY <1>1, <1>2, <1>3, <1>4 DEF Releasing, HasKey, FormOK, Leaving
  <1> QED BY <1>1, <1>5 DEF Waiting, Under, Leaving

\* releaseLock of a form that may leave or be fetched anew.
LEMMA SendReleaseSound ==
    ASSUME NEW f, NEW g, Leaving(f, g), HasKey(f), NEW then \in {"fetch", "leave"}
    PROVE  Waiting(SendRelease(f, then), g)
  <1> DEFINE r == [Request("release", then) EXCEPT !.key = f.lock]
             h == [f EXCEPT !.timer = 0]
             q == [r EXCEPT !.n = Unused(h)]
             s == SendRelease(f, then)
  <1>1. /\ q = [x \in RequestFields |-> q[x]]
        /\ q.op = "release" /\ q.then = then /\ q.state = "sent" /\ q.key = f.lock
    BY DEF Request, RequestFields
  <1>2. GoodRequest(q)
    BY <1>1 DEF GoodRequest
  <1>3. s = [[f EXCEPT !.timer = 0] EXCEPT !.requests = @ \cup {q}]
    BY DEF SendRelease, Send
  <1> HIDE DEF q
  <1>4. /\ s = [x \in Fields |-> s[x]]
        /\ s.view = "open" /\ s.status = f.status /\ s.attrs = f.attrs /\ s.cache = f.cache
        /\ s.parsed = f.parsed /\ s.etag = f.etag /\ s.lock = f.lock /\ s.timer = 0
        /\ s.saveState = f.saveState /\ s.prompt = f.prompt /\ s.docKey = f.docKey
        /\ s.requests = {q}
    BY <1>3 DEF Leaving, FormOK, Fields
  <1> HIDE DEF s
  <1>5. Waiting(s, g)
    BY <1>1, <1>2, <1>4, ReleaseSound
  <1> QED BY <1>5 DEF s

\* A workspace that goes leaves no lock and no number behind, or a request.
LEMMA LeaveSound ==
    ASSUME NEW f, NEW g, Leaving(f, g)
    PROVE  Sound(Leave(f), g)
  <1> DEFINE sent == IF HasKey(f) THEN SendRelease(f, "none") ELSE f
             left == [sent EXCEPT !.view = "gone"]
             gone == [left EXCEPT !.status = "DESTROYED_CLEAN", !.attrs = {}]
  <1>1. Leave(f) = IF ~IsNew(f) \/ f.docKey = "empty" THEN left
                   ELSE IF f.docKey = "fetched" THEN Send(gone, Request("giveback", "none"))
                   ELSE gone
    BY DEF Leave, Leaving
  <1>2. CASE HasKey(f)
    <2> DEFINE r == [Request("release", "none") EXCEPT !.key = f.lock]
               q == [r EXCEPT !.n = Unused([f EXCEPT !.timer = 0])]
    <2>1. /\ q = [x \in RequestFields |-> q[x]]
          /\ q.op = "release" /\ q.then = "none" /\ q.state = "sent" /\ q.key = f.lock
      BY DEF Request, RequestFields
    <2>2. GoodRequest(q)
      BY <2>1 DEF GoodRequest
    <2>3. left = [[[f EXCEPT !.timer = 0] EXCEPT !.requests = @ \cup {q}] EXCEPT !.view = "gone"]
      BY <1>2 DEF SendRelease, Send
    <2> HIDE DEF q, left
    <2>4. /\ left = [x \in Fields |-> left[x]]
          /\ left.view = "gone" /\ left.status = f.status /\ left.attrs = f.attrs
          /\ left.cache = f.cache /\ left.parsed = f.parsed /\ left.etag = f.etag
          /\ left.lock = f.lock /\ left.timer = 0
          /\ left.saveState = f.saveState /\ left.prompt = f.prompt /\ left.docKey = f.docKey
          /\ left.requests = {q}
      BY <2>3 DEF Leaving, FormOK, Fields
    <2>5. Waiting(left, g)
      BY <1>2, <2>1, <2>2, <2>4, ReleaseSound
    <2>6. ~IsNew(f)
      BY <1>2 DEF HasKey, IsNew, Leaving, Settled, Ready
    <2> QED BY <1>1, <2>5, <2>6 DEF Sound
  <1>3. CASE ~HasKey(f)
    <2>1. /\ left = [x \in Fields |-> left[x]] /\ left.view = "gone" /\ left.status = f.status
          /\ left.attrs = f.attrs /\ left.cache = f.cache /\ left.parsed = f.parsed
          /\ left.etag = f.etag /\ left.lock = f.lock /\ left.timer = f.timer
          /\ left.saveState = f.saveState /\ left.prompt = "none" /\ left.docKey = f.docKey
          /\ left.requests = {}
      BY <1>3 DEF Leaving, FormOK, Fields
    <2>2. /\ gone = [x \in Fields |-> gone[x]] /\ gone.view = "gone"
          /\ gone.status = "DESTROYED_CLEAN"
          /\ gone.attrs = {} /\ gone.cache = f.cache /\ gone.parsed = f.parsed
          /\ gone.etag = f.etag /\ gone.lock = f.lock /\ gone.timer = f.timer
          /\ gone.saveState = f.saveState /\ gone.prompt = "none" /\ gone.docKey = f.docKey
          /\ gone.requests = {}
      <3> HIDE DEF left
      <3> QED BY <2>1 DEF Fields
    <2> HIDE DEF left, gone
    <2>3. f.timer = 0
      BY <1>3 DEF HasKey, Leaving, FormOK
    <2>4. FormOK(left) /\ FormOK(gone)
      BY <2>1, <2>2 DEF FormOK, Leaving, Statuses
    <2>5. CASE ~IsNew(f) \/ f.docKey = "empty"
      <3>1. Settled(left, g) /\ Known(left) /\ NumberKnown(left)
        BY <2>1 DEF Leaving, Settled, Ready, Since, Known, NumberKnown, IsBusy
      <3>2. NumberLeft(left)
        BY <2>1, <2>5 DEF NumberLeft, Leaving, NumberKnown, Settled, Ready, IsNew, IsBusy,
                         FormOK, Statuses
      <3>3. AtRest(left, g)
        BY <2>1, <2>3, <3>1, <3>2 DEF AtRest, Leaving
      <3> QED BY <1>1, <2>1, <2>4, <2>5, <3>3 DEF Sound, Rest
    <2>6. CASE IsNew(f) /\ f.docKey = "fetched"
      <3> DEFINE r == Request("giveback", "none")
      <3>1. GoodRequest(r) /\ r.op = "giveback" /\ r.state = "sent"
        BY RequestGood DEF Request
      <3> HIDE DEF r
      <3>2. GivingBack(gone, r)
        BY <2>2, <2>3, <3>1 DEF GivingBack, Known, Leaving
      <3>3. Waiting(Send(gone, r), g)
        BY <2>2, <2>4, <3>1, <3>2, SendWaits DEF Under
      <3> QED BY <1>1, <2>6, <3>3 DEF Sound, r
    <2>7. CASE IsNew(f) /\ f.docKey \notin {"empty", "fetched"}
      <3>1. AtRest(gone, g)
        BY <2>2, <2>3, <2>7
        DEF AtRest, Settled, IsBusy, Known, NumberKnown, NumberLeft, Leaving
      <3> QED BY <1>1, <2>2, <2>4, <2>7, <3>1 DEF Sound, Rest
    <2> QED BY <2>5, <2>6, <2>7
  <1> QED BY <1>2, <1>3

\* releaseLock, with or without a key to release, and what follows it.
LEMMA ReleaseLockSound ==
    ASSUME NEW f, NEW g, Versions, Leaving(f, g), NEW then \in {"fetch", "leave"}
    PROVE  Sound(ReleaseLock(f, then), g)
  <1>1. CASE HasKey(f)
    BY <1>1, SendReleaseSound DEF ReleaseLock, Sound
  <1>2. CASE ~HasKey(f)
    <2>1. FormOK(f) /\ f.requests = {} /\ f.view = "open" /\ f.prompt = "none"
          /\ NumberKnown(f) /\ f.attrs \subseteq Content \cup g
      BY DEF Leaving
    <2>2. f.lock <= 0 /\ locks = {}
      BY <1>2 DEF HasKey, NoKey, Leaving, FormOK, Known, Versions
    <2>3. Waiting(Fetch(f), g) /\ Sound(Leave(f), g)
      BY <2>1, <2>2, FetchSound, LeaveSound
    <2> QED BY <1>2, <2>3 DEF ReleaseLock, Released, Sound
  <1> QED BY <1>1, <1>2

\* Closing reverts what was changed to what was fetched.
LEMMA CloseNowSound ==
    ASSUME NEW f, NEW g, Versions, Leaving(f, g)
    PROVE  Sound(CloseNow(f), g)
  <1> DEFINE before == [f EXCEPT !.attrs = f.parsed]
             clean == SetStatus(before, "READY_CLEAN")
             reverted == IF f.status = "READY_DIRTY" THEN clean ELSE f
  <1>1. CloseNow(f) = IF HasLockKey(f) THEN ReleaseLock(reverted, "leave") ELSE Leave(reverted)
    BY DEF CloseNow
  <1>2. CASE f.status = "READY_DIRTY"
    <2>1. /\ before = [x \in Fields |-> before[x]] /\ before.attrs = f.parsed
          /\ before.view = f.view /\ before.status = f.status /\ before.parsed = f.parsed
          /\ before.etag = f.etag /\ before.lock = f.lock /\ before.timer = f.timer
          /\ before.saveState = f.saveState /\ before.prompt = f.prompt
          /\ before.docKey = f.docKey /\ before.requests = f.requests
      BY DEF Leaving, FormOK, Fields
    <2> HIDE DEF before
    <2>2. /\ clean = [x \in Fields |-> clean[x]] /\ clean.status = "READY_CLEAN"
          /\ clean.view = before.view /\ clean.attrs = before.attrs /\ clean.parsed = before.parsed
          /\ clean.etag = before.etag /\ clean.lock = before.lock /\ clean.timer = before.timer
          /\ clean.saveState = before.saveState /\ clean.prompt = before.prompt
          /\ clean.docKey = before.docKey /\ clean.requests = before.requests
          /\ clean.cache = IF "READY_CLEAN" = "READY_CLEAN" /\ before.status # "READY_CLEAN"
                           THEN before.attrs ELSE before.cache
      BY <2>1, SetStatusIs
    <2> HIDE DEF clean
    <2>3. /\ clean = [x \in Fields |-> clean[x]] /\ clean.status = "READY_CLEAN"
          /\ clean.view = f.view /\ clean.attrs = f.parsed /\ clean.parsed = f.parsed
          /\ clean.etag = f.etag /\ clean.lock = f.lock /\ clean.timer = f.timer
          /\ clean.saveState = f.saveState /\ clean.prompt = f.prompt
          /\ clean.docKey = f.docKey /\ clean.requests = f.requests /\ clean.cache = f.parsed
      BY <1>2, <2>1, <2>2
    <2>4. FormOK(f) /\ f.parsed \subseteq Content /\ f.parsed \subseteq 1..made
      BY InContent DEF Leaving, FormOK
    <2>5. FormOK(clean)
      BY <2>3, <2>4 DEF FormOK, Statuses
    <2>6. Ready(f) /\ stored # <<>>
      BY <1>2 DEF Leaving, Settled, Ready
    <2>7. Ready(clean)
      BY <2>3, <2>4, <2>6 DEF Ready, Since
    <2>8. Leaving(clean, g)
      BY <2>3, <2>4, <2>5, <2>7 DEF Leaving, Settled, IsBusy, Known, NumberKnown
    <2> QED BY <1>1, <1>2, <2>8, ReleaseLockSound, LeaveSound
  <1>3. CASE f.status # "READY_DIRTY"
    BY <1>1, <1>3, ReleaseLockSound, LeaveSound
  <1> QED BY <1>2, <1>3

\* Refreshing, when there is nothing to ask.
LEMMA RequeryNowSound ==
    ASSUME NEW f, NEW g, Versions, Leaving(f, g)
    PROVE  Sound(RequeryNow(f), g)
  BY ReleaseLockSound, LeaveSound DEF RequeryNow

\* A form at rest that shows its workspace, with no question open.
Free(f, g) == Rest(f, g) /\ f.view = "open" /\ f.prompt = "none"

\* It may leave if there is nothing to ask.
LEMMA FreeLeaves ==
    ASSUME NEW f, NEW g, Free(f, g), ~IsDirty(f) \/ f.attrs \subseteq Content \cup g
    PROVE  Leaving(f, g)
  <1>1. f.status \notin {"READY_NEW", "READY_DIRTY"} => f.status \in {"READY_CLEAN", "ERROR"}
    BY DEF Free, Rest, FormOK, Statuses, AtRest, Settled, IsBusy
  <1>2. f.attrs \subseteq Content \cup g
    BY <1>1 DEF Free, Rest, AtRest, Settled, Ready, Since, IsDirty
  <1> QED BY <1>2 DEF Free, Rest, AtRest, Leaving

\* The question asked about unsaved changes.
LEMMA AskSound ==
    ASSUME NEW f, NEW g, Free(f, g), IsDirty(f), NEW p \in {"close", "refresh"}
    PROVE  Rest([f EXCEPT !.prompt = p], g) /\ [f EXCEPT !.prompt = p].attrs = f.attrs
  <1> DEFINE h == [f EXCEPT !.prompt = p]
  <1>1. /\ h = [x \in Fields |-> h[x]] /\ h.prompt = p
        /\ h.view = f.view /\ h.status = f.status /\ h.attrs = f.attrs /\ h.cache = f.cache
        /\ h.parsed = f.parsed /\ h.etag = f.etag /\ h.lock = f.lock /\ h.timer = f.timer
        /\ h.saveState = f.saveState /\ h.docKey = f.docKey /\ h.requests = f.requests
    BY DEF Free, Rest, FormOK, Fields
  <1> HIDE DEF h
  <1>2. FormOK(h) /\ h.requests = {}
    BY <1>1 DEF Free, Rest, FormOK
  <1>3. Settled(h, g) /\ Known(h) /\ NumberKnown(h) /\ IsDirty(h)
    BY <1>1 DEF Free, Rest, AtRest, Settled, Ready, Since, Known, NumberKnown, IsBusy, IsDirty
  <1>4. AtRest(h, g)
    BY <1>1, <1>3 DEF AtRest, Free, IsDirty
  <1> QED BY <1>1, <1>2, <1>4 DEF Rest, h

\* A form that does without its unsaved changes, and one that keeps them.
Going(f, h, g) == Sound(h, g) /\ (f.attrs \subseteq h.attrs \/ f.attrs \subseteq Content \cup g)

\* The back button and the refresh button: with unsaved changes they only ask.
LEMMA CloseSound ==
    ASSUME NEW f, NEW g, Versions, Free(f, g)
    PROVE  Going(f, Close(f), g) /\ Going(f, Requery(f), g)
  <1>1. CASE IsDirty(f)
    BY <1>1, AskSound DEF Close, Requery, Going, Sound
  <1>2. CASE ~IsDirty(f)
    <2>1. Leaving(f, g)
      BY <1>2, FreeLeaves
    <2> QED BY <1>2, <2>1, CloseNowSound, RequeryNowSound DEF Close, Requery, Going, Leaving
  <1> QED BY <1>1, <1>2

\* A save carries what has changed since the form was clean.
LEMMA CommitSound ==
    ASSUME NEW f, NEW g, NEW then, Free(f, g)
    PROVE  Going(f, Commit(f, then), g)
  <1> DEFINE h == SetStatus(f, "BUSY_COMMITTING")
             r == [Request("commit", then) EXCEPT !.edits = f.attrs \ f.cache, !.etag = f.etag]
  <1>1. Going(f, f, g)
    BY DEF Going, Sound, Free
  <1>2. CASE IsDirty(f)
    <2>1. f = [x \in Fields |-> f[x]]
      BY DEF Free, Rest, FormOK
    <2>2. /\ h.status = "BUSY_COMMITTING"
          /\ h.view = f.view /\ h.attrs = f.attrs /\ h.parsed = f.parsed /\ h.etag = f.etag
          /\ h.lock = f.lock /\ h.prompt = f.prompt /\ h.docKey = f.docKey /\ h.requests = f.requests
          /\ h.cache = IF "BUSY_COMMITTING" = "READY_CLEAN" /\ f.status # "BUSY_COMMITTING"
                       THEN f.attrs ELSE f.cache
      BY <2>1, SetStatusIs
    <2>3. FormOK(h)
      BY SetStatusOK DEF Free, Rest, Statuses
    <2>4. /\ r = [x \in RequestFields |-> r[x]]
          /\ r.op = "commit" /\ r.state = "sent" /\ r.edits = f.attrs \ f.cache /\ r.etag = f.etag
      BY DEF Request, RequestFields
    <2>5. GoodRequest(r)
      BY <2>4 DEF GoodRequest, Ending
    <2> HIDE DEF h, r
    <2>6. Since(h)
      <3>1. Since(f)
        BY <1>2 DEF IsDirty, Free, Rest, AtRest, Settled, Ready
      <3> QED BY <2>2, <3>1 DEF Since
    <2>7. Committing(h, r)
      BY <2>2, <2>4, <2>6 DEF Committing, Free, Rest, AtRest, Known, NumberKnown
    <2>8. Waiting(Send(h, r), g) /\ Send(h, r).attrs = h.attrs
      BY <2>2, <2>3, <2>4, <2>5, <2>7, SendWaits DEF Free, Rest, Under
    <2>9. Going(f, Send(h, r), g)
      BY <2>2, <2>8 DEF Going, Sound
    <2>10. Commit(f, then) \in {f, Send(h, r)}
      BY DEF Commit, h, r
    <2> QED BY <1>1, <2>9, <2>10
  <1>3. CASE ~IsDirty(f)
    BY <1>1, <1>3 DEF Commit
  <1> QED BY <1>2, <1>3

\* A number the user has typed is looked up first.
LEMMA SaveSound ==
    ASSUME NEW f, NEW g, NEW then, Free(f, g), NEW typed, typed => IsDirty(f)
    PROVE  Going(f, Save(f, then, typed), g)
  <1> DEFINE r == Request("check", then)
  <1>1. CASE typed
    <2>1. GoodRequest(r) /\ r.op = "check" /\ r.state = "sent"
      BY RequestGood DEF Request
    <2> HIDE DEF r
    <2>2. Checking(f, r)
      BY <1>1, <2>1 DEF Checking, Free, Rest, AtRest, Settled, IsDirty
    <2>3. Waiting(Send(f, r), g) /\ Send(f, r).attrs = f.attrs
      BY <2>1, <2>2, SendWaits DEF Free, Rest, Under
    <2> QED BY <1>1, <2>3 DEF Save, Going, Sound, r
  <1>2. CASE ~typed
    BY <1>2, CommitSound DEF Save
  <1> QED BY <1>1, <1>2

\* The button that was last used changes nothing else.
LEMMA MarkFree ==
    ASSUME NEW f, NEW g, Free(f, g), NEW state \in {"none", "apply", "close", "new"}
    PROVE  LET h == [f EXCEPT !.saveState = state]
           IN  Free(h, g) /\ h.attrs = f.attrs /\ h.status = f.status
  <1> DEFINE h == [f EXCEPT !.saveState = state]
  <1>1. /\ h = [x \in Fields |-> h[x]] /\ h.prompt = f.prompt
        /\ h.view = f.view /\ h.status = f.status /\ h.attrs = f.attrs /\ h.cache = f.cache
        /\ h.parsed = f.parsed /\ h.etag = f.etag /\ h.lock = f.lock /\ h.timer = f.timer
        /\ h.saveState = state /\ h.docKey = f.docKey /\ h.requests = f.requests
    BY DEF Free, Rest, FormOK, Fields
  <1> HIDE DEF h
  <1>2. FormOK(h) /\ h.requests = {}
    BY <1>1 DEF Free, Rest, FormOK
  <1>3. Settled(h, g) /\ Known(h) /\ NumberKnown(h)
    BY <1>1 DEF Free, Rest, AtRest, Settled, Ready, Since, Known, NumberKnown, IsBusy
  <1>4. AtRest(h, g)
    BY <1>1, <1>3 DEF AtRest, Free, Rest
  <1>5. Free(h, g)
    BY <1>1, <1>2, <1>4 DEF Rest, Free
  <1> QED BY <1>1, <1>5 DEF h

\* The save buttons.
LEMMA SaveAsSound ==
    ASSUME NEW f, NEW g, NEW state \in {"apply", "close", "new"}, Free(f, g),
           NEW typed, typed => IsDirty(f)
    PROVE  Going(f, SaveAs(f, state, typed), g)
  <1> DEFINE h == [f EXCEPT !.saveState = state]
             then == IF state = "apply" THEN "requery" ELSE "quiet"
  <1>1. Free(h, g) /\ h.attrs = f.attrs /\ h.status = f.status
    BY MarkFree
  <1>2. SaveAs(f, state, typed) = Save(h, then, typed)
    BY DEF SaveAs
  <1> HIDE DEF h, then
  <1>3. Going(h, Save(h, then, typed), g)
    BY <1>1, SaveSound DEF IsDirty
  <1> QED BY <1>1, <1>2, <1>3 DEF Going

\* The callback of a save.
LEMMA ModelSavedSound ==
    ASSUME NEW f, NEW g, Versions, Free(f, g), f.status = "READY_CLEAN"
    PROVE  Sound(ModelSaved(f), g)
  <1>1. Leaving(f, g) /\ ~IsDirty(f)
    BY FreeLeaves DEF IsDirty
  <1>2. Sound(f, g) /\ Sound(Leave(f), g) /\ Sound(Close(f), g)
    BY <1>1, LeaveSound, CloseSound DEF Free, Sound, Going
  <1> QED BY <1>2 DEF ModelSaved

-----------------------------------------------------------------------------
(* The answers.                                                            *)

\* A form whose request has just been answered.
Told(f, r, g) ==
    /\ FormOK(f) /\ f.requests = {} /\ f.prompt = "none"
    /\ GoodRequest(r) /\ Under(f, r, g)

\* The request that is answered is the one that was under way.
LEMMA DropTold ==
    ASSUME NEW f, NEW g, NEW r \in f.requests, Sound(f, g)
    PROVE  Told(Drop(f, r), r, g) /\ Drop(f, r).attrs = f.attrs
  <1>1. FormOK(f) /\ f.prompt = "none" /\ f.requests = {r} /\ GoodRequest(r) /\ Under(f, r, g)
    BY DEF Sound, Rest, Waiting
  <1> DEFINE h == Drop(f, r)
  <1>2. h = [x \in Fields |-> h[x]] /\ Alike(f, h) /\ h.requests = {}
    BY <1>1 DEF Drop, FormOK, Fields, Alike
  <1> HIDE DEF h
  <1>3. FormOK(h) /\ Under(h, r, g) /\ h.prompt = "none" /\ h.attrs = f.attrs
    BY <1>1, <1>2, AlikeOK, AlikeUnder DEF Alike
  <1> QED BY <1>1, <1>2, <1>3 DEF Told, h

\* A request for a lock, of a form that shows what is stored.
LEMMA ObtainSound ==
    ASSUME NEW f, NEW g, NEW then, FormOK(f), f.requests = {}, f.prompt = "none",
           f.view = "open", IsBusy(f), stored # <<>>, NumberKnown(f), f.attrs \subseteq Content,
           f.etag > 0 => f.attrs = stored[f.etag] /\ f.parsed = f.attrs, locks = {}
    PROVE  Sound(ObtainLock(f, then), g)
  <1> DEFINE r == [Request("obtain", then) EXCEPT !.etag = f.etag]
  <1>1. r = [x \in RequestFields |-> r[x]] /\ r.op = "obtain" /\ r.state = "sent"
    BY DEF Request, RequestFields
  <1>2. GoodRequest(r)
    BY <1>1 DEF GoodRequest, Ending
  <1>3. ObtainLock(f, then) = Send(f, r)
    BY DEF ObtainLock
  <1> HIDE DEF r
  <1>4. Obtaining(f, r)
    BY <1>1 DEF Obtaining
  <1> QED BY <1>1, <1>2, <1>3, <1>4, SendWaits DEF Under, Sound

\* The record comes: the form shows it and asks for a lock.
LEMMA FetchedSound ==
    ASSUME NEW f, NEW g, NEW r, Versions, Told(f, r, g), Fetching(f, r, g), r.state = "answered"
    PROVE  Sound(Fetched(f, r), g)
  <1> DEFINE told == [f EXCEPT !.etag = r.etag, !.parsed = r.edits]
             set == Set(told, r.edits)
  <1>1. /\ told = [x \in Fields |-> told[x]]
        /\ told.view = f.view /\ told.status = f.status /\ told.attrs = f.attrs
        /\ told.cache = f.cache /\ told.parsed = r.edits /\ told.etag = r.etag
        /\ told.lock = f.lock /\ told.timer = f.timer /\ told.saveState = f.saveState
        /\ told.prompt = f.prompt /\ told.docKey = f.docKey /\ told.requests = f.requests
    BY DEF Told, FormOK, Fields
  <1>2. ~Refuses(f) /\ ~HasKey(f) /\ f.status = "BUSY_FETCHING"
    BY DEF Fetching, Refuses, HasKey, Told, FormOK, NoKey
  <1>3. Fetched(f, r) = ObtainLock(set, "fetched")
    BY <1>2 DEF Fetched
  <1> HIDE DEF told
  <1>4. set = [told EXCEPT !.attrs = r.edits, !.status = "BUSY_FETCHING"]
    BY <1>1, <1>2 DEF Set, Refuses
  <1> HIDE DEF set
  <1>5. /\ set = [x \in Fields |-> set[x]]
        /\ set.view = f.view /\ set.status = "BUSY_FETCHING" /\ set.attrs = r.edits
        /\ set.cache = f.cache /\ set.parsed = r.edits /\ set.etag = r.etag
        /\ set.lock = f.lock /\ set.timer = f.timer /\ set.saveState = f.saveState
        /\ set.prompt = f.prompt /\ set.docKey = f.docKey /\ set.requests = f.requests
    BY <1>1, <1>4 DEF Fields
  <1>6. r.etag \in 1..Len(stored) /\ r.edits = stored[r.etag] /\ r.edits \subseteq Content
        /\ Content \subseteq 1..made /\ stored # <<>>
    BY InContent DEF Fetching
  <1>7. FormOK(set)
    <2>1. FormOK(f)
      BY DEF Told
    <2>2. set.attrs \subseteq 1..made /\ set.parsed \subseteq Content /\ set.etag \in 0..Len(stored)
      BY <1>5, <1>6
    <2> QED BY <1>5, <2>1, <2>2 DEF FormOK, Statuses
  <1>8. /\ set.requests = {} /\ set.prompt = "none" /\ set.view = "open" /\ IsBusy(set)
        /\ NumberKnown(set) /\ set.attrs \subseteq Content /\ locks = {}
        /\ set.etag > 0 => set.attrs = stored[set.etag] /\ set.parsed = set.attrs
    BY <1>5, <1>6 DEF Told, Fetching, IsBusy, NumberKnown
  <1> QED BY <1>3, <1>6, <1>7, <1>8, ObtainSound

\* A save has been committed: the form has what is stored and asks for a lock.
LEMMA CommittedSound ==
    ASSUME NEW f, NEW g, NEW r, Versions, Told(f, r, g), Committing(f, r), r.state = "answered"
    PROVE  Sound(Committed(f, r), g)
  <1> DEFINE attrs == f.attrs \cup r.edits
             parsed == IF r.then = "quiet" THEN {} ELSE attrs
             told == [f EXCEPT !.etag = r.etag, !.parsed = parsed]
             set == Set(told, attrs)
  <1>1. /\ told = [x \in Fields |-> told[x]]
        /\ told.view = f.view /\ told.status = f.status /\ told.attrs = f.attrs
        /\ told.cache = f.cache /\ told.parsed = parsed /\ told.etag = r.etag
        /\ told.lock = f.lock /\ told.timer = f.timer /\ told.saveState = f.saveState
        /\ told.prompt = f.prompt /\ told.docKey = f.docKey /\ told.requests = f.requests
    BY DEF Told, FormOK, Fields
  <1>2. ~Refuses(f) /\ f.status = "BUSY_COMMITTING"
    BY DEF Committing, Refuses
  <1>3. Committed(f, r) = ObtainLock(set, "saved")
    BY <1>2 DEF Committed
  <1> HIDE DEF told
  <1>4. set = [told EXCEPT !.attrs = attrs, !.status = "BUSY_COMMITTING"]
    BY <1>1, <1>2 DEF Set, Refuses
  <1> HIDE DEF set
  <1>5. /\ set = [x \in Fields |-> set[x]]
        /\ set.view = f.view /\ set.status = "BUSY_COMMITTING" /\ set.attrs = attrs
        /\ set.cache = f.cache /\ set.parsed = parsed /\ set.etag = r.etag
        /\ set.lock = f.lock /\ set.timer = f.timer /\ set.saveState = f.saveState
        /\ set.prompt = f.prompt /\ set.docKey = f.docKey /\ set.requests = f.requests
    BY <1>1, <1>4 DEF Fields
  <1>6. /\ attrs \subseteq Content /\ Content \subseteq 1..made /\ stored # <<>>
        /\ parsed \subseteq Content /\ r.etag \in 0..Len(stored)
        /\ r.etag > 0 => attrs = stored[r.etag] /\ parsed = attrs
    <2>1. CASE r.then = "quiet"
      BY <2>1, InContent DEF Committing, Versions
    <2>2. CASE r.then # "quiet"
      <3>1. r.etag \in 1..Len(stored) /\ stored[r.etag] = attrs /\ stored # <<>>
        BY <2>2 DEF Committing
      <3> HIDE DEF attrs
      <3> QED BY <2>2, <3>1, InContent
    <2> QED BY <2>1, <2>2
  <1> HIDE DEF attrs, parsed
  <1>7. FormOK(set)
    <2>1. FormOK(f)
      BY DEF Told
    <2>2. set.attrs \subseteq 1..made /\ set.parsed \subseteq Content /\ set.etag \in 0..Len(stored)
      BY <1>5, <1>6
    <2> QED BY <1>5, <2>1, <2>2 DEF FormOK, Statuses
  <1>8. /\ set.requests = {} /\ set.prompt = "none" /\ set.view = "open" /\ IsBusy(set)
        /\ NumberKnown(set) /\ set.attrs \subseteq Content /\ locks = {}
        /\ set.etag > 0 => set.attrs = stored[set.etag] /\ set.parsed = set.attrs
    BY <1>5, <1>6 DEF Told, Committing, IsBusy, NumberKnown
  <1> QED BY <1>3, <1>6, <1>7, <1>8, ObtainSound

\* The lock comes, or the news that there is none: the form is clean.
LEMMA ObtainedSound ==
    ASSUME NEW f, NEW g, NEW r, Versions, Told(f, r, g), Obtaining(f, r), r.state = "answered"
    PROVE  Sound(Obtained(f, r), g)
  <1> DEFINE timer == IF r.key > 0 THEN r.key ELSE 0
             locked == [f EXCEPT !.lock = r.key, !.timer = timer]
             clean == SetStatus(locked, "READY_CLEAN")
  <1>1. /\ locked = [x \in Fields |-> locked[x]]
        /\ locked.view = f.view /\ locked.status = f.status /\ locked.attrs = f.attrs
        /\ locked.parsed = f.parsed /\ locked.etag = f.etag /\ locked.lock = r.key
        /\ locked.timer = timer /\ locked.saveState = f.saveState /\ locked.prompt = f.prompt
        /\ locked.docKey = f.docKey /\ locked.requests = f.requests /\ locked.cache = f.cache
    BY DEF Told, FormOK, Fields
  <1> HIDE DEF locked
  <1>2. /\ clean = [x \in Fields |-> clean[x]] /\ clean.status = "READY_CLEAN"
        /\ clean.view = locked.view /\ clean.attrs = locked.attrs /\ clean.parsed = locked.parsed
        /\ clean.etag = locked.etag /\ clean.lock = locked.lock /\ clean.timer = locked.timer
        /\ clean.saveState = locked.saveState /\ clean.prompt = locked.prompt
        /\ clean.docKey = locked.docKey /\ clean.requests = locked.requests
        /\ clean.cache = IF "READY_CLEAN" = "READY_CLEAN" /\ locked.status # "READY_CLEAN"
                         THEN locked.attrs ELSE locked.cache
    BY <1>1, SetStatusIs
  <1>3. Obtained(f, r) = IF r.then = "saved" THEN ModelSaved(clean) ELSE clean
    BY DEF Obtained, locked
  <1>4. f.status # "READY_CLEAN"
    BY DEF Obtaining, IsBusy
  <1> HIDE DEF clean
  <1>5. /\ clean.view = "open" /\ clean.attrs = f.attrs /\ clean.parsed = f.parsed
        /\ clean.etag = f.etag /\ clean.lock = r.key /\ clean.timer = timer
        /\ clean.saveState = f.saveState /\ clean.prompt = "none"
        /\ clean.docKey = f.docKey /\ clean.requests = {} /\ clean.cache = f.attrs
    BY <1>1, <1>2, <1>4 DEF Told, Obtaining
  <1>6. /\ r.key \in Nat \cup {NoKey} /\ timer \in Nat /\ timer \in {0, r.key}
        /\ locks \subseteq {r.key}
    BY DEF Obtaining, NoKey
  <1> HIDE DEF timer
  <1>7. FormOK(clean)
    BY <1>2, <1>5, <1>6 DEF FormOK, Told, Statuses
  <1>8. Ready(clean)
    BY <1>2, <1>5 DEF Ready, Since, Obtaining
  <1>9. Free(clean, g)
    BY <1>2, <1>5, <1>6, <1>7, <1>8
    DEF Free, Rest, AtRest, Settled, IsBusy, Known, NumberKnown, Obtaining
  <1> QED BY <1>2, <1>3, <1>9, ModelSavedSound DEF Free, Sound

\* A lock has been released.
LEMMA ReleasedSound ==
    ASSUME NEW f, NEW g, NEW r, Versions, Told(f, r, g), Releasing(f, r, g), r.state = "answered"
    PROVE  LET h == [f EXCEPT !.lock = NoKey, !.timer = 0]
           IN  Going(f, Released(h, r.then), g)
  <1> DEFINE h == [f EXCEPT !.lock = NoKey, !.timer = 0]
  <1>1. /\ h = [x \in Fields |-> h[x]]
        /\ h.view = f.view /\ h.status = f.status /\ h.attrs = f.attrs
        /\ h.parsed = f.parsed /\ h.etag = f.etag /\ h.lock = NoKey
        /\ h.timer = 0 /\ h.saveState = f.saveState /\ h.prompt = "none"
        /\ h.docKey = f.docKey /\ h.requests = {} /\ h.cache = f.cache
    BY DEF Told, FormOK, Fields
  <1> SUFFICES Going(f, Released(h, r.then), g)
    OBVIOUS
  <1> HIDE DEF h
  <1>2. FormOK(h) /\ locks = {}
    BY <1>1 DEF FormOK, Told, Releasing
  <1>3. Settled(h, g) /\ NumberKnown(h) /\ Known(h)
    BY <1>1, <1>2 DEF Releasing, Settled, Ready, Since, IsBusy, NumberKnown, Known
  <1>4. CASE f.view = "gone"
    <2>1. AtRest(h, g)
      BY <1>1, <1>3, <1>4 DEF AtRest, Releasing, NumberLeft
    <2>2. r.then = "none"
      BY <1>4 DEF Releasing
    <2>3. Released(h, "none") = h
      BY DEF Released
    <2> QED BY <1>1, <1>2, <2>1, <2>2, <2>3 DEF Going, Sound, Rest
  <1>5. CASE f.view = "open"
    <2>1. f.attrs \subseteq Content \cup g /\ r.then \in {"fetch", "leave"}
      BY <1>5 DEF Releasing, Told, GoodRequest
    <2>2. Leaving(h, g)
      BY <1>1, <1>2, <1>3, <1>5, <2>1 DEF Leaving, Releasing
    <2>3. Waiting(Fetch(h), g)
      <3>1. h.lock <= 0 /\ h.view = "open" /\ h.attrs \subseteq Content \cup g
        BY <1>1, <1>5, <2>1 DEF NoKey
      <3> QED BY <1>1, <1>2, <1>3, <3>1, FetchSound
    <2>4. Released(h, "fetch") = Fetch(h) /\ Released(h, "leave") = Leave(h)
      BY DEF Released
    <2> QED BY <2>1, <2>2, <2>3, <2>4, LeaveSound DEF Going, Sound
  <1> QED BY <1>4, <1>5 DEF Told, FormOK

\* The number comes.
LEMMA NumberedSound ==
    ASSUME NEW f, NEW g, NEW r, Told(f, r, g), Numbering(f, r), r.state = "answered"
    PROVE  Going(f, Numbered(f), g)
  <1> DEFINE h == [f EXCEPT !.docKey = "fetched"]
  <1>1. /\ h = [x \in Fields |-> h[x]]
        /\ h.view = f.view /\ h.status = f.status /\ h.attrs = f.attrs
        /\ h.parsed = f.parsed /\ h.etag = f.etag /\ h.lock = f.lock
        /\ h.timer = f.timer /\ h.saveState = f.saveState /\ h.prompt = "none"
        /\ h.docKey = "fetched" /\ h.requests = {} /\ h.cache = f.cache
    BY DEF Told, FormOK, Fields
  <1>2. Numbered(f) = h
    BY DEF Numbered, Numbering
  <1> HIDE DEF h
  <1>3. FormOK(h) /\ h.status = "READY_NEW" /\ h.view = "open"
    BY <1>1 DEF FormOK, Told, Numbering
  <1>4. Ready(h) /\ NumberKnown(h) /\ Known(h)
    BY <1>1 DEF Numbering, Ready, Since, NumberKnown, Known
  <1>5. AtRest(h, g)
    BY <1>1, <1>3, <1>4 DEF AtRest, Settled, IsBusy
  <1> QED BY <1>1, <1>2, <1>3, <1>5 DEF Going, Sound, Rest

\* A form as it waits for an answer is free once the request has come to nothing.
LEMMA ToldFree ==
    ASSUME NEW f, NEW g, NEW r, Told(f, r, g),
           Checking(f, r) \/ (Numbering(f, r) /\ r.state # "answered")
    PROVE  Free(f, g)
  <1>1. Ready(f) /\ Known(f) /\ f.status \in {"READY_NEW", "READY_DIRTY"} /\ f.view = "open"
    BY DEF Checking, Numbering, IsDirty
  <1>2. NumberKnown(f)
    BY DEF Checking, Numbering, NumberKnown
  <1>3. AtRest(f, g)
    BY <1>1, <1>2 DEF AtRest, Settled, IsBusy, Told
  <1> QED BY <1>1, <1>3 DEF Told, Free, Rest

\* A request answered.
LEMMA AnsweredSound ==
    ASSUME NEW f, NEW g, NEW r, Versions, Told(f, r, g), r.state = "answered"
    PROVE  Going(f, Answered(f, r), g)
  <1>1. CASE Numbering(f, r)
    BY <1>1, NumberedSound DEF Answered, Numbering
  <1>2. CASE Fetching(f, r, g)
    <2>1. Answered(f, r) = Fetched(f, r) /\ f.attrs \subseteq Content \cup g
      BY <1>2 DEF Answered, Fetching
    <2> QED BY <1>2, <2>1, FetchedSound DEF Going
  <1>3. CASE Obtaining(f, r)
    <2>1. Answered(f, r) = Obtained(f, r) /\ f.attrs \subseteq Content \cup g
      BY <1>3 DEF Answered, Obtaining
    <2> QED BY <1>3, <2>1, ObtainedSound DEF Going
  <1>4. CASE Committing(f, r)
    <2>1. Answered(f, r) = Committed(f, r) /\ f.attrs \subseteq Content \cup g
      BY <1>4 DEF Answered, Committing
    <2> QED BY <1>4, <2>1, CommittedSound DEF Going
  <1>5. CASE Checking(f, r)
    <2>1. Answered(f, r) = Commit(f, r.then)
      BY <1>5 DEF Answered, Checking
    <2>2. Free(f, g)
      BY <1>5, ToldFree
    <2> QED BY <2>1, <2>2, CommitSound
  <1>6. CASE Releasing(f, r, g)
    <2>1. Answered(f, r) = Released([f EXCEPT !.lock = NoKey, !.timer = 0], r.then)
      BY <1>6 DEF Answered, Releasing
    <2> QED BY <1>6, <2>1, ReleasedSound
  <1>7. CASE GivingBack(f, r)
    BY <1>7 DEF GivingBack, Told, GoodRequest
  <1> QED BY <1>1, <1>2, <1>3, <1>4, <1>5, <1>6, <1>7 DEF Told, Under

\* A request failed: an error gives up what was not stored.
LEMMA FailedSound ==
    ASSUME NEW f, NEW g, NEW r, Told(f, r, g), r.state = "failed",
           NEW more, more = IF Failed(f, r).status = "ERROR" THEN g \cup (f.attrs \ Content) ELSE g
    PROVE  Going(f, Failed(f, r), more)
  <1> DEFINE h == SetStatus(f, "ERROR")
  <1>1. f = [x \in Fields |-> f[x]]
    BY DEF Told, FormOK
  <1>2. /\ h.status = "ERROR"
        /\ h.view = f.view /\ h.attrs = f.attrs
        /\ h.lock = f.lock
        /\ h.prompt = f.prompt /\ h.docKey = f.docKey /\ h.requests = f.requests
    BY <1>1, SetStatusIs
  <1>3. FormOK(h)
    BY SetStatusOK DEF Told, Statuses
  <1>4. Failed(f, r) = IF r.op \in {"fetch", "commit"} THEN h ELSE f
    BY DEF Failed
  <1> HIDE DEF h
  <1>5. CASE Fetching(f, r, g) \/ Committing(f, r)
    <2>1. Failed(f, r) = h
      BY <1>4, <1>5 DEF Fetching, Committing
    <2>2. f.attrs \subseteq Content \cup more
      BY <1>2, <2>1
    <2>3. Known(h) /\ NumberKnown(h) /\ h.view = "open"
      BY <1>2, <1>5 DEF Fetching, Committing, Known, NumberKnown
    <2>4. AtRest(h, more)
      BY <1>2, <2>2, <2>3 DEF AtRest, Settled, IsBusy, Told
    <2> QED BY <1>2, <1>3, <2>1, <2>4 DEF Going, Sound, Rest, Told
  <1>6. CASE Checking(f, r) \/ Numbering(f, r)
    <2>1. Failed(f, r) = f /\ f.status # "ERROR"
      BY <1>4, <1>6 DEF Checking, Numbering, IsDirty
    <2>2. Free(f, g)
      BY <1>6, ToldFree
    <2> QED BY <2>1, <2>2 DEF Going, Sound, Free
  <1>7. CASE Obtaining(f, r) \/ Releasing(f, r, g) \/ GivingBack(f, r)
    BY <1>7 DEF Obtaining, Releasing, GivingBack, Told, GoodRequest
  <1> QED BY <1>5, <1>6, <1>7 DEF Told, Under

-----------------------------------------------------------------------------
(* The steps.                                                              *)

\* What is sound for what is given up stays so when more is given up.
LEMMA GivenMore ==
    ASSUME NEW f, NEW g, NEW h, g \subseteq h, Sound(f, g)
    PROVE  Sound(f, h)
  <1>1. Settled(f, g) => Settled(f, h)
    BY DEF Settled
  <1>2. CASE Rest(f, g)
    BY <1>1, <1>2 DEF Rest, AtRest, Sound
  <1>3. CASE Waiting(f, g)
    <2>1. PICK r : /\ f.requests = {r} /\ GoodRequest(r) /\ Under(f, r, g)
                   /\ r.state \in {"sent", "answered", "failed"}
      BY <1>3 DEF Waiting
    <2>2. Fetching(f, r, g) => Fetching(f, r, h)
      BY DEF Fetching
    <2>3. Releasing(f, r, g) => Releasing(f, r, h)
      BY <1>1 DEF Releasing
    <2>4. Under(f, r, h)
      BY <2>1, <2>2, <2>3 DEF Under
    <2> QED BY <1>3, <2>1, <2>4 DEF Waiting, Sound
  <1> QED BY <1>2, <1>3 DEF Sound

\* A step of the form alone.
LEMMA Still ==
    ASSUME UNCHANGED <<stored, locks, issued, made>>, NEW f, NEW g
    PROVE  /\ Versions => Versions'
           /\ Sound(f, g) => Sound(f, g)'
  <1>1. Content' = Content
    BY DEF Content
  <1>2. Versions => Versions'
    BY DEF Versions
  <1>3. /\ FormOK(f) => FormOK(f)'
        /\ Since(f)' <=> Since(f)
        /\ Known(f)' <=> Known(f)
        /\ NumberKnown(f)' <=> NumberKnown(f)
        /\ NumberLeft(f)' <=> NumberLeft(f)
    BY <1>1 DEF FormOK, Since, Known, NumberKnown, NumberLeft
  <1>4. Ready(f)' <=> Ready(f)
    BY <1>3 DEF Ready
  <1>5. Settled(f, g)' <=> Settled(f, g)
    BY <1>1, <1>4 DEF Settled
  <1>6. CASE Rest(f, g)
    BY <1>2, <1>3, <1>5, <1>6 DEF Rest, AtRest, Sound
  <1>7. CASE Waiting(f, g)
    <2>1. PICK r : /\ f.requests = {r} /\ GoodRequest(r) /\ Under(f, r, g)
                   /\ r.state \in {"sent", "answered", "failed"}
      BY <1>7 DEF Waiting
    <2>2. Under(f, r, g)'
      <3>1. Numbering(f, r) => Numbering(f, r)'
        BY <1>3, <1>4 DEF Numbering
      <3>2. Fetching(f, r, g) => Fetching(f, r, g)'
        BY <1>1, <1>3 DEF Fetching
      <3>3. Obtaining(f, r) => Obtaining(f, r)'
        BY <1>1, <1>3 DEF Obtaining
      <3>4. Committing(f, r) => Committing(f, r)'
        BY <1>1, <1>3 DEF Committing
      <3>5. Checking(f, r) => Checking(f, r)'
        BY <1>3, <1>4 DEF Checking
      <3>6. Releasing(f, r, g) => Releasing(f, r, g)'
        BY <1>1, <1>3, <1>5 DEF Releasing
      <3>7. GivingBack(f, r) => GivingBack(f, r)'
        BY <1>3, <1>4 DEF GivingBack
      <3> QED BY <2>1, <3>1, <3>2, <3>3, <3>4, <3>5, <3>6, <3>7 DEF Under
    <2> QED BY <1>2, <1>3, <1>7, <2>1, <2>2 DEF Waiting, Sound
  <1> QED BY <1>2, <1>6, <1>7 DEF Sound

\* The request that is under way is the only one.
LEMMA OneRequest ==
    ASSUME Sound(form, given), NEW r \in form.requests
    PROVE  /\ FormOK(form) /\ form.prompt = "none" /\ form.requests = {r}
           /\ GoodRequest(r) /\ Under(form, r, given)
  BY DEF Sound, Rest, Waiting

\* A step of the form alone, in the terms of the next state.
LEMMA StillSound ==
    ASSUME UNCHANGED <<stored, locks, issued, made>>, Versions, Sound(form', given')
    PROVE  Versions' /\ Sound(form, given)'
  BY Still

\* The form after a reply of the server: only the request has changed.
LEMMA ReplyIs ==
    ASSUME FormOK(form), NEW r, form.requests = {r}, NEW q, Reply(r, q)
    PROVE  Alike(form, form') /\ form' = [x \in Fields |-> form'[x]] /\ form'.requests = {q}
  BY DEF Reply, FormOK, Fields, Alike

\* A reply that fits the form, when the server has changed nothing.
LEMMA ReplySound ==
    ASSUME Versions, Sound(form, given), NEW r \in form.requests,
           NEW q, GoodRequest(q), q.state \in {"sent", "answered", "failed"},
           Under(form, q, given), Reply(r, q), UNCHANGED <<stored, locks, issued, made, given>>
    PROVE  Versions' /\ Sound(form, given)'
  <1>1. FormOK(form) /\ form.prompt = "none" /\ form.requests = {r}
    BY OneRequest
  <1>2. Alike(form, form') /\ form' = [x \in Fields |-> form'[x]] /\ form'.requests = {q}
    BY <1>1, ReplyIs
  <1>3. FormOK(form') /\ Under(form', q, given) /\ form'.prompt = "none"
    BY <1>1, <1>2, AlikeOK, AlikeUnder DEF Alike
  <1>4. Waiting(form', given)
    BY <1>2, <1>3 DEF Waiting
  <1> QED BY <1>4, StillSound DEF Sound

\* What is under way, by the kind of the request.
LEMMA UnderOp ==
    ASSUME NEW f, NEW r, NEW g, Under(f, r, g)
    PROVE  /\ r.op = "number" => Numbering(f, r)
           /\ r.op = "fetch" => Fetching(f, r, g)
           /\ r.op = "obtain" => Obtaining(f, r)
           /\ r.op = "commit" => Committing(f, r)
           /\ r.op = "check" => Checking(f, r)
           /\ r.op = "release" => Releasing(f, r, g)
           /\ r.op = "giveback" => GivingBack(f, r)
  BY DEF Under, Numbering, Fetching, Obtaining, Committing, Checking, Releasing, GivingBack

\* A request with some fields changed is one.
LEMMA RequestChanged ==
    ASSUME NEW r, GoodRequest(r), r.op # "giveback",
           NEW q, q = [x \in RequestFields |-> q[x]], q.op = r.op, q.then = r.then,
           q.op = "obtain" => q.state # "failed"
    PROVE  GoodRequest(q)
  BY DEF GoodRequest

\* The record is read: its current version goes to the form.
LEMMA ServeFetchSound ==
    ASSUME Versions, Sound(form, given), NEW r \in form.requests, r.state = "sent", ServeFetch(r)
    PROVE  Versions' /\ Sound(form, given)'
  <1> DEFINE q == [r EXCEPT !.state = "answered", !.edits = Content, !.etag = Len(stored)]
  <1>1. /\ r.op = "fetch" /\ stored # <<>> /\ Reply(r, q)
        /\ UNCHANGED <<stored, locks, issued, made, given>>
    BY DEF ServeFetch
  <1>2. GoodRequest(r) /\ Fetching(form, r, given)
    BY <1>1, OneRequest, UnderOp
  <1>3. /\ q = [x \in RequestFields |-> q[x]] /\ q.op = r.op /\ q.then = r.then
        /\ q.state = "answered" /\ q.edits = Content /\ q.etag = Len(stored)
    BY <1>2 DEF GoodRequest, RequestFields
  <1> HIDE DEF q
  <1>4. GoodRequest(q)
    BY <1>1, <1>2, <1>3, RequestChanged
  <1>5. Fetching(form, q, given)
    BY <1>1, <1>2, <1>3, InContent DEF Fetching
  <1> QED BY <1>1, <1>3, <1>4, <1>5, ReplySound DEF Under

\* The number typed is looked up: nothing changes.
LEMMA ServeCheckSound ==
    ASSUME Versions, Sound(form, given), NEW r \in form.requests, r.state = "sent", ServeCheck(r)
    PROVE  Versions' /\ Sound(form, given)'
  <1> DEFINE q == [r EXCEPT !.state = "answered"]
  <1>1. r.op = "check" /\ Reply(r, q) /\ UNCHANGED <<stored, locks, issued, made, given>>
    BY DEF ServeCheck
  <1>2. GoodRequest(r) /\ Checking(form, r)
    BY <1>1, OneRequest, UnderOp
  <1>3. /\ q = [x \in RequestFields |-> q[x]] /\ q.op = r.op /\ q.then = r.then
        /\ q.state = "answered"
    BY <1>2 DEF GoodRequest, RequestFields
  <1> HIDE DEF q
  <1>4. GoodRequest(q)
    BY <1>1, <1>2, <1>3, RequestChanged
  <1>5. Checking(form, q)
    BY <1>2, <1>3 DEF Checking
  <1> QED BY <1>1, <1>3, <1>4, <1>5, ReplySound DEF Under

\* A request refused has changed nothing on the server.
LEMMA RefuseSound ==
    ASSUME ~LockErrors, Versions, Sound(form, given), NEW r \in form.requests,
           r.state = "sent", Refuse(r)
    PROVE  Versions' /\ Sound(form, given)'
  <1> DEFINE q == [r EXCEPT !.state = "failed"]
  <1>1. /\ r.op \notin {"obtain", "release", "giveback"} /\ Reply(r, q)
        /\ UNCHANGED <<stored, locks, issued, made, given>>
    BY DEF Refuse
  <1>2. GoodRequest(r) /\ Under(form, r, given)
    BY OneRequest
  <1>3. /\ q = [x \in RequestFields |-> q[x]] /\ q.op = r.op /\ q.then = r.then
        /\ q.state = "failed" /\ q.edits = r.edits /\ q.etag = r.etag
    BY <1>2 DEF GoodRequest, RequestFields
  <1> HIDE DEF q
  <1>4. GoodRequest(q)
    BY <1>1, <1>2, <1>3, RequestChanged
  <1>5. Under(form, q, given)
    <2>1. Numbering(form, r) => Numbering(form, q)
      BY <1>3 DEF Numbering
    <2>2. Fetching(form, r, given) => Fetching(form, q, given)
      BY <1>3 DEF Fetching
    <2>3. Committing(form, r) => Committing(form, q)
      BY <1>3 DEF Committing
    <2>4. Checking(form, r) => Checking(form, q)
      BY <1>3 DEF Checking
    <2>5. r.op \in {"number", "fetch", "commit", "check"}
      BY <1>1, <1>2 DEF GoodRequest, Ending
    <2> QED BY <1>2, <2>1, <2>2, <2>3, <2>4, <2>5, UnderOp DEF Under
  <1> QED BY <1>1, <1>3, <1>4, <1>5, ReplySound

\* The lock goes; the model hears of it later.
LEMMA ServeReleaseSound ==
    ASSUME Versions, Sound(form, given), NEW r \in form.requests, r.state = "sent",
           ServeRelease(r)
    PROVE  Versions' /\ Sound(form, given)' /\ form'.attrs = form.attrs
  <1> DEFINE q == [r EXCEPT !.state = "answered"]
  <1>1. /\ r.op = "release" /\ Reply(r, q) /\ locks' = locks \ {r.key}
        /\ UNCHANGED <<stored, issued, made, given>>
    BY DEF ServeRelease
  <1>2. FormOK(form) /\ form.requests = {r} /\ GoodRequest(r) /\ Releasing(form, r, given)
        /\ form.prompt = "none"
    BY <1>1, OneRequest, UnderOp
  <1>3. /\ q = [x \in RequestFields |-> q[x]] /\ q.op = r.op /\ q.then = r.then
        /\ q.state = "answered" /\ q.key = r.key
    BY <1>2 DEF GoodRequest, RequestFields
  <1> HIDE DEF q
  <1>4. GoodRequest(q)
    BY <1>1, <1>2, <1>3, RequestChanged
  <1>5. Alike(form, form') /\ form' = [x \in Fields |-> form'[x]] /\ form'.requests = {q}
    BY <1>1, <1>2, ReplyIs
  <1>6. locks' = {}
    BY <1>1, <1>2 DEF Releasing, Known
  <1>7. Content' = Content /\ Versions'
    BY <1>1, <1>6 DEF Content, Versions
  <1>8. FormOK(form)'
    BY <1>1, <1>2, <1>5, <1>7 DEF FormOK, Alike
  <1>9. Settled(form, given)'
    <2>1. Settled(form, given)
      BY <1>2 DEF Releasing
    <2>2. Since(form) => Since(form)'
      BY <1>1, <1>5, <1>7 DEF Since, Alike
    <2>3. Ready(form) => Ready(form)'
      BY <1>1, <1>5, <2>2 DEF Ready, Alike
    <2> QED BY <1>1, <1>5, <1>7, <2>1, <2>3 DEF Settled, IsBusy, Alike
  <1>10. Releasing(form, q, given)'
    BY <1>1, <1>2, <1>3, <1>5, <1>6, <1>7, <1>9
    DEF Releasing, Alike, Known, NumberKnown, NumberLeft
  <1>11. Waiting(form, given)'
    BY <1>2, <1>3, <1>4, <1>5, <1>8, <1>10 DEF Waiting, Under, Alike
  <1> QED BY <1>5, <1>7, <1>11 DEF Sound, Alike

\* A number is issued, to a form that has none.
LEMMA ServeNumberSound ==
    ASSUME Versions, Sound(form, given), NEW r \in form.requests, r.state = "sent",
           ServeNumber(r)
    PROVE  Versions' /\ Sound(form, given)' /\ form'.attrs = form.attrs
  <1> DEFINE q == [r EXCEPT !.state = "answered"]
  <1>1. /\ r.op = "number" /\ Reply(r, q) /\ issued' = "issued"
        /\ UNCHANGED <<stored, locks, made, given>>
    BY DEF ServeNumber
  <1>2. FormOK(form) /\ form.requests = {r} /\ GoodRequest(r) /\ Numbering(form, r)
        /\ form.prompt = "none"
    BY <1>1, OneRequest, UnderOp
  <1>3. /\ q = [x \in RequestFields |-> q[x]] /\ q.op = r.op /\ q.then = r.then
        /\ q.state = "answered"
    BY <1>2 DEF GoodRequest, RequestFields
  <1> HIDE DEF q
  <1>4. GoodRequest(q)
    BY <1>1, <1>2, <1>3, RequestChanged
  <1>5. Alike(form, form') /\ form' = [x \in Fields |-> form'[x]] /\ form'.requests = {q}
    BY <1>1, <1>2, ReplyIs
  <1>6. Content' = Content /\ Versions'
    BY <1>1 DEF Content, Versions
  <1>7. FormOK(form)'
    BY <1>1, <1>2, <1>5, <1>6 DEF FormOK, Alike
  <1>8. Ready(form)'
    BY <1>1, <1>2, <1>5, <1>6 DEF Numbering, Ready, Since, Alike
  <1>9. Numbering(form, q)'
    BY <1>1, <1>2, <1>3, <1>5, <1>8 DEF Numbering, Alike, Known
  <1>10. Waiting(form, given)'
    BY <1>2, <1>3, <1>4, <1>5, <1>7, <1>9 DEF Waiting, Under, Alike
  <1> QED BY <1>5, <1>6, <1>10 DEF Sound, Alike

\* A number is given back; nobody waits for the answer.
LEMMA ServeGivebackSound ==
    ASSUME Versions, Sound(form, given), NEW r \in form.requests, r.state = "sent",
           ServeGiveback(r)
    PROVE  Versions' /\ Sound(form, given)' /\ form'.attrs = form.attrs
  <1>1. /\ r.op = "giveback" /\ form' = Drop(form, r) /\ issued' = "free"
        /\ UNCHANGED <<stored, locks, made, given>>
    BY DEF ServeGiveback
  <1>2. FormOK(form) /\ form.requests = {r} /\ GivingBack(form, r) /\ form.prompt = "none"
    BY <1>1, OneRequest, UnderOp
  <1>3. Alike(form, form') /\ form' = [x \in Fields |-> form'[x]] /\ form'.requests = {}
    BY <1>1, <1>2 DEF Drop, FormOK, Fields, Alike
  <1>4. Content' = Content /\ Versions'
    BY <1>1 DEF Content, Versions
  <1>5. FormOK(form)'
    BY <1>1, <1>2, <1>3, <1>4 DEF FormOK, Alike
  <1>6. Ready(form) => Ready(form)'
    BY <1>1, <1>3, <1>4 DEF Ready, Since, Alike
  <1>7. AtRest(form, given)'
    BY <1>1, <1>2, <1>3, <1>6
    DEF GivingBack, AtRest, Settled, IsBusy, Known, NumberKnown, NumberLeft, Alike
  <1> QED BY <1>3, <1>4, <1>5, <1>7 DEF Sound, Rest, Alike

\* A finite set of keys leaves one free.
LEMMA UnusedKey ==
    ASSUME NEW K, IsFiniteSet(K)
    PROVE  Min((1..(Cardinality(K) + 1)) \ K) \in Nat \ {0}
  <1> DEFINE n == Cardinality(K)
             S == (1..(n + 1)) \ K
  <1>1. n \in Nat
    BY FS_CardinalityType
  <1> HIDE DEF n
  <1>2. S # {}
    <2>1. SUFFICES ASSUME 1..(n + 1) \subseteq K PROVE FALSE
      OBVIOUS
    <2>2. Cardinality(1..(n + 1)) <= n
      BY <2>1, FS_Subset DEF n
    <2>3. Cardinality(1..(n + 1)) = n + 1
      BY <1>1, FS_Interval
    <2> QED BY <1>1, <2>2, <2>3
  <1>3. S \subseteq Nat \ {0}
    BY <1>1
  <1> HIDE DEF S
  <1>4. \E x \in S : \A y \in S : x <= y
    BY <1>2, <1>3, LeastNumber
  <1>5. Min(S) \in S
    BY <1>4 DEF Min
  <1> QED BY <1>3, <1>5 DEF n, S

\* The key of a new lock is a key: some number is not taken.
LEMMA NewKeyIs ==
    ASSUME NEW r, form.requests = {r}, locks = {}
    PROVE  NewKey \in Nat \ {0}
  <1> DEFINE K == locks \cup {form.lock, form.timer} \cup {q.key : q \in form.requests}
  <1>1. K = ({form.lock} \cup {form.timer}) \cup {r.key}
    OBVIOUS
  <1>2. IsFiniteSet(K)
    <2>1. IsFiniteSet({form.lock})
      BY FS_Singleton
    <2>2. IsFiniteSet({form.lock} \cup {form.timer})
      BY <2>1, FS_AddElement
    <2> QED BY <1>1, <2>2, FS_AddElement
  <1>3. NewKey = Min((1..(Cardinality(K) + 1)) \ K)
    BY DEF NewKey
  <1> HIDE DEF K
  <1> QED BY <1>2, <1>3, UnusedKey

\* A lock for a form that waits for one, or none.
LEMMA ServeObtainSound ==
    ASSUME Versions, Sound(form, given), NEW r \in form.requests, r.state = "sent",
           ServeObtain(r)
    PROVE  Versions' /\ Sound(form, given)' /\ form'.attrs = form.attrs
  <1>1. r.op = "obtain" /\ UNCHANGED <<stored, issued, made, given>>
    BY DEF ServeObtain
  <1>2. FormOK(form) /\ form.requests = {r} /\ GoodRequest(r) /\ Obtaining(form, r)
        /\ form.prompt = "none"
    BY <1>1, OneRequest, UnderOp
  <1>3. locks = {} /\ NewKey \in Nat \ {0}
    BY <1>2, NewKeyIs DEF Obtaining
  <1>4. PICK key \in {0, NoKey, NewKey} :
           /\ Reply(r, [r EXCEPT !.state = "answered", !.key = key])
           /\ locks' = IF key > 0 THEN locks \cup {key} ELSE locks
    <2>1. (IF r.etag # Len(stored) THEN {0}
           ELSE IF locks # {} THEN {NoKey} ELSE {NoKey, NewKey}) \subseteq {0, NoKey, NewKey}
      OBVIOUS
    <2> QED BY <2>1 DEF ServeObtain
  <1> DEFINE q == [r EXCEPT !.state = "answered", !.key = key]
  <1>5. /\ q = [x \in RequestFields |-> q[x]] /\ q.op = r.op /\ q.then = r.then
        /\ q.state = "answered" /\ q.key = key
    BY <1>2 DEF GoodRequest, RequestFields
  <1>6. Reply(r, q)
    BY <1>4
  <1> HIDE DEF q
  <1>7. GoodRequest(q)
    BY <1>1, <1>2, <1>5, RequestChanged
  <1>8. Alike(form, form') /\ form' = [x \in Fields |-> form'[x]] /\ form'.requests = {q}
    BY <1>2, <1>6, ReplyIs
  <1>9. key \in Nat \cup {NoKey} /\ locks' \subseteq {key} /\ locks' \subseteq Nat \ {0}
    BY <1>3, <1>4 DEF NoKey
  <1>10. Content' = Content /\ Versions'
    BY <1>1, <1>9 DEF Content, Versions
  <1>11. FormOK(form)'
    BY <1>1, <1>2, <1>8, <1>10 DEF FormOK, Alike
  <1>12. Obtaining(form, q)'
    BY <1>1, <1>2, <1>5, <1>8, <1>9, <1>10 DEF Obtaining, IsBusy, NumberKnown, Alike
  <1>13. Waiting(form, given)'
    BY <1>2, <1>5, <1>7, <1>8, <1>11, <1>12 DEF Waiting, Under, Alike
  <1> QED BY <1>8, <1>10, <1>13 DEF Sound, Alike

\* A version more, which contains the current one.
LEMMA VersionsGrow ==
    ASSUME Versions, NEW v, made' \in Nat, made <= made', locks' \subseteq Nat \ {0},
           v \subseteq 1..made', Content \subseteq v, stored' = Append(stored, v)
    PROVE  /\ Versions' /\ Content' = v /\ stored' # <<>> /\ Len(stored') = Len(stored) + 1
           /\ \A i \in 1..Len(stored) : stored'[i] = stored[i]
           /\ stored'[Len(stored) + 1] = v
  <1>1. /\ stored \in Seq(SUBSET (1..made)) /\ Len(stored) \in Nat /\ made \in Nat
        /\ \A i \in 1..Len(stored) : stored[i] \subseteq Content
    BY InContent DEF Versions
  <1>2. 1..made \subseteq 1..made'
    BY <1>1
  <1>3. stored \in Seq(SUBSET (1..made'))
    <2>1. \A i \in 1..Len(stored) : stored[i] \in SUBSET (1..made')
      BY <1>1, <1>2
    <2> QED BY <1>1, <2>1
  <1>4. /\ stored' \in Seq(SUBSET (1..made')) /\ Len(stored') = Len(stored) + 1
        /\ \A i \in 1..Len(stored) : stored'[i] = stored[i]
        /\ stored'[Len(stored) + 1] = v
    BY <1>3
  <1>5. \A i, j \in 1..Len(stored') : i <= j => stored'[i] \subseteq stored'[j]
    <2>1. SUFFICES ASSUME NEW i \in 1..Len(stored'), NEW j \in 1..Len(stored'), i <= j
                   PROVE  stored'[i] \subseteq stored'[j]
      OBVIOUS
    <2>2. CASE j \in 1..Len(stored)
      BY <1>1, <1>4, <2>1, <2>2 DEF Versions
    <2>3. CASE j = Len(stored) + 1
      <3>1. CASE i = j
        BY <3>1
      <3>2. CASE i # j
        <4>1. i \in 1..Len(stored)
          BY <1>1, <1>4, <2>1, <2>3, <3>2
        <4> QED BY <1>1, <1>4, <2>3, <4>1
      <3> QED BY <3>1, <3>2
    <2> QED BY <1>1, <1>4, <2>2, <2>3
  <1>6. stored' # <<>>
    BY <1>1, <1>4
  <1>7. Content' = v
    BY <1>4, <1>6 DEF Content
  <1> QED BY <1>4, <1>5, <1>6, <1>7 DEF Versions

\* A save is committed against the current version: what the form has is stored.
LEMMA ServeCommitSound ==
    ASSUME Versions, Sound(form, given), NEW r \in form.requests, r.state = "sent",
           ServeCommit(r)
    PROVE  Versions' /\ Sound(form, given)' /\ form'.attrs = form.attrs
  <1>1. /\ r.op = "commit" /\ r.etag = Len(stored) /\ locks' = {} /\ UNCHANGED given
        /\ issued' = IF stored = <<>> /\ form.docKey = "fetched" THEN "used" ELSE issued
    BY DEF ServeCommit
  <1>2. FormOK(form) /\ form.requests = {r} /\ GoodRequest(r) /\ Committing(form, r)
        /\ form.prompt = "none"
    BY <1>1, OneRequest, UnderOp
  <1>3. PICK own \in {{}, {made + 1}} :
           /\ stored' = Append(stored, Content \cup r.edits \cup own)
           /\ made' = made + Cardinality(own)
           /\ Reply(r, IF r.then = "quiet"
                       THEN [r EXCEPT !.state = "answered", !.edits = {}, !.etag = 0]
                       ELSE [r EXCEPT !.state = "answered", !.edits = own,
                                      !.etag = Len(stored) + 1])
    BY DEF ServeCommit
  <1> DEFINE v == form.attrs \cup own
  <1>4. PICK q : /\ q = [x \in RequestFields |-> q[x]] /\ q.op = r.op /\ q.then = r.then
                 /\ q.state = "answered"
                 /\ q.edits = IF r.then = "quiet" THEN {} ELSE own
                 /\ q.etag = IF r.then = "quiet" THEN 0 ELSE Len(stored) + 1
                 /\ Reply(r, q)
    <2> DEFINE a == IF r.then = "quiet"
                    THEN [r EXCEPT !.state = "answered", !.edits = {}, !.etag = 0]
                    ELSE [r EXCEPT !.state = "answered", !.edits = own,
                                   !.etag = Len(stored) + 1]
    <2>1. /\ a = [x \in RequestFields |-> a[x]] /\ a.op = r.op /\ a.then = r.then
          /\ a.state = "answered"
          /\ a.edits = IF r.then = "quiet" THEN {} ELSE own
          /\ a.etag = IF r.then = "quiet" THEN 0 ELSE Len(stored) + 1
      BY <1>2 DEF GoodRequest, RequestFields
    <2>2. Reply(r, a)
      BY <1>3
    <2> HIDE DEF a
    <2> QED BY <2>1, <2>2
  <1>6. GoodRequest(q)
    BY <1>1, <1>2, <1>4, RequestChanged
  <1>7. Alike(form, form') /\ form' = [x \in Fields |-> form'[x]] /\ form'.requests = {q}
    BY <1>2, <1>4, ReplyIs
  <1>8. made \in Nat /\ made' \in Nat /\ made <= made' /\ own \subseteq 1..made'
    <2>1. made \in Nat
      BY DEF Versions
    <2>2. CASE own = {}
      BY <1>3, <2>1, <2>2, FS_EmptySet
    <2>3. CASE own = {made + 1}
      <3>1. Cardinality({made + 1}) = 1
        BY FS_Singleton
      <3>2. made' = made + 1
        BY <1>3, <2>3, <3>1
      <3> QED BY <2>1, <2>3, <3>2
    <2> QED BY <2>1, <2>2, <2>3
  <1>9. Content = form.cache /\ r.edits = form.attrs \ form.cache /\ form.cache \subseteq form.attrs
    <2>1. Since(form) /\ r.edits = form.attrs \ form.cache /\ form.etag = Len(stored)
      BY <1>1, <1>2 DEF Committing
    <2>2. CASE stored = <<>>
      BY <2>1, <2>2, InContent DEF Since
    <2>3. CASE stored # <<>>
      BY <2>1, <2>3, InContent DEF Since
    <2> QED BY <2>1, <2>2, <2>3 DEF Since
  <1>10. Content \cup r.edits \cup own = v
    BY <1>9
  <1>11. v \subseteq 1..made' /\ Content \subseteq v
    <2>1. form.attrs \subseteq 1..made
      BY <1>2 DEF FormOK
    <2>2. 1..made \subseteq 1..made'
      BY <1>8
    <2> QED BY <1>8, <1>9, <2>1, <2>2
  <1>12. stored' = Append(stored, v)
    BY <1>3, <1>10
  <1> HIDE DEF v
  <1>13. /\ Versions' /\ Content' = v /\ stored' # <<>> /\ Len(stored') = Len(stored) + 1
         /\ stored'[Len(stored) + 1] = v
    BY <1>1, <1>8, <1>11, <1>12, VersionsGrow
  <1>14. FormOK(form)'
    <2>1. /\ form'.view \in {"open", "gone"} /\ form'.status \in Statuses
          /\ form'.lock \in Nat \cup {NoKey} /\ form'.timer \in Nat
          /\ form'.timer \in {0, form'.lock}
          /\ form'.saveState \in {"none", "apply", "close", "new"}
          /\ form'.prompt \in {"none", "close", "refresh"}
          /\ form'.docKey \in {"empty", "fetched", "typed"}
      BY <1>2, <1>7 DEF FormOK, Alike
    <2>2. form'.attrs \subseteq 1..made' /\ form'.cache \subseteq 1..made'
          /\ form'.parsed \subseteq Content'
      <3>1. form'.attrs = form.attrs /\ form'.cache = form.cache /\ form'.parsed = form.parsed
        BY <1>7 DEF Alike
      <3>2. form.attrs \subseteq v
        BY DEF v
      <3>3. form.cache \subseteq form.attrs /\ form.parsed \subseteq Content
        BY <1>2, <1>9 DEF FormOK
      <3> QED BY <1>11, <1>13, <3>1, <3>2, <3>3
    <2>3. form'.etag \in 0..Len(stored')
      <3>1. Len(stored) \in Nat /\ form.etag \in 0..Len(stored)
        BY <1>2 DEF FormOK, Versions
      <3> QED BY <1>7, <1>13, <3>1 DEF Alike
    <2> QED BY <1>7, <2>1, <2>2, <2>3 DEF FormOK
  <1>15. NumberKnown(form)'
    BY <1>1, <1>2 DEF Committing, NumberKnown
  <1>16. Committing(form, q)'
    <2>1. /\ q.op = "commit" /\ form'.view = "open" /\ form'.status = "BUSY_COMMITTING"
          /\ form'.attrs \subseteq Content'
      BY <1>1, <1>2, <1>4, <1>7, <1>13 DEF Committing, Alike, v
    <2>2. q.then = "quiet" => q.edits = {} /\ q.etag = 0
      BY <1>4
    <2>3. q.then # "quiet" =>
             q.etag \in 1..Len(stored') /\ stored'[q.etag] = form'.attrs \cup q.edits
      <3>1. Len(stored) \in Nat
        BY DEF Versions
      <3> QED BY <1>4, <1>7, <1>13, <3>1 DEF Alike, v
    <2>4. locks' = {} /\ stored' # <<>> /\ q.state = "answered"
      BY <1>1, <1>4, <1>13
    <2> QED BY <1>15, <2>1, <2>2, <2>3, <2>4 DEF Committing
  <1>17. Waiting(form, given)'
    <2>1. Under(form, q, given)'
      BY <1>16 DEF Under
    <2>2. form'.prompt = "none" /\ q.state = "answered"
      BY <1>2, <1>4, <1>7 DEF Alike
    <2> QED BY <1>6, <1>7, <1>14, <2>1, <2>2 DEF Waiting
  <1> QED BY <1>7, <1>13, <1>17 DEF Sound, Alike

\* A lock that expires is the form's own, or one it waits to hear of.
LEMMA ExpireSound ==
    ASSUME Versions, Sound(form, given), NEW k \in locks, Expire(k)
    PROVE  Versions' /\ Sound(form, given)' /\ form'.attrs = form.attrs
  <1>1. locks' \subseteq locks /\ UNCHANGED <<form, stored, issued, made, given>> /\ locks # {}
    BY DEF Expire
  <1>2. Content' = Content /\ Versions'
    BY <1>1 DEF Content, Versions
  <1>3. /\ FormOK(form) => FormOK(form)'
        /\ Since(form) => Since(form)'
        /\ Known(form) => Known(form)'
        /\ NumberKnown(form) => NumberKnown(form)'
        /\ NumberLeft(form) => NumberLeft(form)'
    BY <1>1, <1>2 DEF FormOK, Since, Known, NumberKnown, NumberLeft
  <1>4. Ready(form) => Ready(form)'
    BY <1>1, <1>3 DEF Ready
  <1>5. Settled(form, given) => Settled(form, given)'
    BY <1>1, <1>2, <1>4 DEF Settled, IsBusy
  <1>6. CASE Rest(form, given)
    BY <1>1, <1>2, <1>3, <1>5, <1>6 DEF Rest, AtRest, Sound, IsDirty
  <1>7. CASE Waiting(form, given)
    <2>1. PICK r : /\ form.requests = {r} /\ GoodRequest(r) /\ Under(form, r, given)
                   /\ r.state \in {"sent", "answered", "failed"}
      BY <1>7 DEF Waiting
    <2>2. Under(form, r, given)'
      <3>1. Numbering(form, r) => Numbering(form, r)'
        BY <1>1, <1>3, <1>4 DEF Numbering
      <3>2. ~Fetching(form, r, given)
        BY <1>1 DEF Fetching
      <3>3. Obtaining(form, r) => Obtaining(form, r)'
        BY <1>1, <1>2, <1>3 DEF Obtaining, IsBusy
      <3>4. Committing(form, r) => Committing(form, r)'
        BY <1>1, <1>2, <1>3 DEF Committing
      <3>5. Checking(form, r) => Checking(form, r)'
        BY <1>1, <1>3, <1>4 DEF Checking, IsDirty
      <3>6. Releasing(form, r, given) => Releasing(form, r, given)'
        BY <1>1, <1>2, <1>3, <1>5 DEF Releasing
      <3>7. GivingBack(form, r) => GivingBack(form, r)'
        BY <1>1, <1>3, <1>4 DEF GivingBack
      <3> QED BY <2>1, <3>1, <3>2, <3>3, <3>4, <3>5, <3>6, <3>7 DEF Under
    <2> QED BY <1>1, <1>2, <1>3, <1>7, <2>1, <2>2 DEF Waiting, Sound
  <1> QED BY <1>1, <1>6, <1>7 DEF Sound

\* Somebody else's save: a version that the form's own changes are not in.
LEMMA ChangeElsewhereSound ==
    ASSUME Versions, Sound(form, given), ChangeElsewhere
    PROVE  Versions' /\ Sound(form, given)' /\ form'.attrs = form.attrs
  <1> DEFINE v == Content \cup {made + 1}
  <1>1. /\ stored # <<>> /\ locks = {} /\ stored' = Append(stored, v) /\ made' = made + 1
        /\ UNCHANGED <<form, locks, issued, given>>
    BY DEF ChangeElsewhere
  <1>2. made \in Nat /\ made' \in Nat /\ made <= made' /\ 1..made \subseteq 1..made'
        /\ made + 1 \notin 1..made /\ made + 1 \in 1..made'
    BY <1>1 DEF Versions
  <1>3. v \subseteq 1..made' /\ Content \subseteq v
    BY <1>2, InContent
  <1>4. FormOK(form)
    BY DEF Sound, Rest, Waiting
  <1>5. form.attrs \subseteq 1..made /\ (form.attrs \cap v) \subseteq Content
    BY <1>2, <1>4 DEF FormOK
  <1> HIDE DEF v
  <1>6. /\ Versions' /\ Content' = v /\ stored' # <<>> /\ Len(stored') = Len(stored) + 1
        /\ \A i \in 1..Len(stored) : stored'[i] = stored[i]
        /\ stored'[Len(stored) + 1] = v
    BY <1>1, <1>2, <1>3, VersionsGrow
  <1>7. /\ Len(stored) \in Nat /\ 0..Len(stored) \subseteq 0..Len(stored')
        /\ 1..Len(stored) \subseteq 1..Len(stored')
    BY <1>6 DEF Versions
  <1>8. FormOK(form)'
    <2>1. form'.attrs \subseteq 1..made' /\ form'.cache \subseteq 1..made'
          /\ form'.parsed \subseteq Content' /\ form'.etag \in 0..Len(stored')
      BY <1>1, <1>2, <1>3, <1>4, <1>6, <1>7 DEF FormOK
    <2> QED BY <1>1, <1>4, <2>1 DEF FormOK
  <1>9. Since(form) => Since(form)'
    <2> SUFFICES ASSUME Since(form) PROVE Since(form)'
      OBVIOUS
    <2>1. /\ form'.cache \subseteq form'.attrs /\ form'.cache \subseteq Content'
          /\ (form'.attrs \ form'.cache) \cap Content' = {}
      BY <1>1, <1>3, <1>5, <1>6 DEF Since
    <2>2. form'.etag > 0 => form'.cache = stored'[form'.etag] /\ form'.parsed = form'.cache
      BY <1>1, <1>4, <1>6, <1>7 DEF Since, FormOK
    <2> QED BY <2>1, <2>2 DEF Since
  <1>10. Ready(form) => form.status # "READY_NEW" /\ Ready(form)'
    BY <1>1, <1>6, <1>9 DEF Ready
  <1>11. /\ Known(form) => Known(form)'
         /\ NumberKnown(form) => issued # "issued" /\ NumberKnown(form)'
         /\ NumberLeft(form) => NumberLeft(form)'
    BY <1>1 DEF Known, NumberKnown, NumberLeft
  <1>12. Settled(form, given) => Settled(form, given)'
    BY <1>1, <1>3, <1>6, <1>10 DEF Settled, IsBusy
  <1>13. CASE Rest(form, given)
    BY <1>1, <1>6, <1>8, <1>11, <1>12, <1>13 DEF Rest, AtRest, Sound, IsDirty
  <1>14. CASE Waiting(form, given)
    <2>1. PICK r : /\ form.requests = {r} /\ GoodRequest(r) /\ Under(form, r, given)
                   /\ r.state \in {"sent", "answered", "failed"}
      BY <1>14 DEF Waiting
    <2>2. \A n \in 1..Len(stored) : n \in 1..Len(stored') /\ stored'[n] = stored[n]
      BY <1>6, <1>7
    <2>3. Under(form, r, given)'
      <3>1. ~Numbering(form, r)
        BY <1>10 DEF Numbering
      <3>2. Fetching(form, r, given) => Fetching(form, r, given)'
        BY <1>1, <1>3, <1>6, <1>11, <2>2 DEF Fetching
      <3>3. Obtaining(form, r) => Obtaining(form, r)'
        <4> SUFFICES ASSUME Obtaining(form, r) PROVE Obtaining(form, r)'
          OBVIOUS
        <4>1. form.etag > 0 => form.etag \in 1..Len(stored)
          BY <1>4, <1>7 DEF FormOK
        <4>2. form'.etag > 0 => form'.attrs = stored'[form'.etag] /\ form'.parsed = form'.attrs
          BY <1>1, <2>2, <4>1 DEF Obtaining
        <4>3. form'.attrs \subseteq Content' /\ IsBusy(form)' /\ NumberKnown(form)'
          BY <1>1, <1>3, <1>6, <1>11 DEF Obtaining, IsBusy
        <4> QED BY <1>1, <1>6, <4>2, <4>3 DEF Obtaining
      <3>4. Committing(form, r) => Committing(form, r)'
        BY <1>1, <1>3, <1>6, <1>9, <1>11, <2>2 DEF Committing
      <3>5. Checking(form, r) => Checking(form, r)'
        BY <1>1, <1>10, <1>11 DEF Checking, IsDirty
      <3>6. Releasing(form, r, given) => Releasing(form, r, given)'
        BY <1>1, <1>3, <1>6, <1>11, <1>12 DEF Releasing
      <3>7. GivingBack(form, r) => GivingBack(form, r)'
        BY <1>1, <1>10, <1>11 DEF GivingBack
      <3> QED BY <2>1, <3>1, <3>2, <3>3, <3>4, <3>5, <3>6, <3>7 DEF Under
    <2> QED BY <1>1, <1>6, <1>8, <1>14, <2>1, <2>3 DEF Waiting, Sound
  <1> QED BY <1>1, <1>13, <1>14 DEF Sound

\* An answer, or an error, reaches the form.
LEMMA ReceiveSound ==
    ASSUME Versions, Sound(form, given), NEW r \in form.requests, Receive(r)
    PROVE  /\ Versions' /\ Sound(form, given)'
           /\ Unsaved \subseteq form'.attrs \cup Content' \cup given'
  <1> DEFINE f == Drop(form, r)
  <1>1. /\ r.state # "sent" /\ UNCHANGED <<stored, locks, issued, made>>
        /\ form' = IF r.state = "failed" THEN Failed(f, r) ELSE Answered(f, r)
        /\ given' = IF form'.status = "ERROR" THEN given \cup Unsaved ELSE given
    BY DEF Receive
  <1>2. Told(f, r, given) /\ f.attrs = form.attrs
    BY DropTold
  <1>3. r.state \in {"answered", "failed"}
    BY <1>1 DEF Sound, Rest, Waiting
  <1>4. Unsaved = f.attrs \ Content
    BY <1>2 DEF Unsaved
  <1> HIDE DEF f
  <1>5. Going(f, form', given')
    <2>1. CASE r.state = "failed"
      BY <1>1, <1>2, <1>4, <2>1, FailedSound
    <2>2. CASE r.state = "answered"
      <3>1. Going(f, form', given)
        BY <1>1, <1>2, <2>2, AnsweredSound
      <3>2. given \subseteq given'
        BY <1>1
      <3>3. Sound(form', given')
        BY <3>1, <3>2, GivenMore DEF Going
      <3> QED BY <3>1, <3>2, <3>3 DEF Going
    <2> QED BY <1>3, <2>1, <2>2
  <1>6. Versions' /\ Sound(form, given)'
    BY <1>1, <1>5, StillSound DEF Going
  <1>7. Content' = Content
    BY <1>1 DEF Content
  <1> QED BY <1>4, <1>5, <1>6, <1>7 DEF Going

\* A user who waits acts on a form that is free.
LEMMA MayActFree ==
    ASSUME ~Hasty, Sound(form, given), MayAct
    PROVE  Free(form, given)
  BY DEF MayAct, Sound, Waiting, Free

\* A step of the user that turns the form into one that goes on with it.
LEMMA DoesSound ==
    ASSUME Versions, NEW h, Going(form, h, given), Does(h)
    PROVE  /\ Versions' /\ Sound(form, given)'
           /\ Unsaved \subseteq form'.attrs \cup Content' \cup given'
  <1>1. form' = h /\ UNCHANGED <<stored, locks, issued, made, given>>
    BY DEF Does
  <1>2. Sound(form', given')
    BY <1>1 DEF Going
  <1>3. Versions' /\ Sound(form, given)'
    BY <1>1, <1>2, StillSound
  <1>4. Content' = Content
    BY <1>1 DEF Content
  <1> QED BY <1>1, <1>3, <1>4 DEF Going, Unsaved

\* A change of the user's is not stored yet.
LEMMA EditSound ==
    ASSUME ~Hasty, Versions, Sound(form, given), Edit
    PROVE  /\ Versions' /\ Sound(form, given)'
           /\ Unsaved \subseteq form'.attrs \cup Content' \cup given'
  <1> DEFINE attrs == form.attrs \cup {made + 1}
             status == IF form.status = "READY_CLEAN" THEN "READY_DIRTY" ELSE form.status
  <1>1. /\ MayAct /\ ~Refuses(form) /\ form' = Set(form, attrs) /\ made' = made + 1
        /\ UNCHANGED <<stored, locks, issued, given>>
    BY DEF Edit
  <1>2. Free(form, given)
    BY <1>1, MayActFree
  <1>3. FormOK(form) /\ form.requests = {} /\ AtRest(form, given)
        /\ form.view = "open" /\ form.prompt = "none"
    BY <1>2 DEF Free, Rest
  <1>4. /\ made \in Nat /\ made' \in Nat /\ 1..made \subseteq 1..made' /\ made + 1 \in 1..made'
        /\ made + 1 \notin 1..made /\ Content \subseteq 1..made
    BY <1>1, InContent DEF Versions
  <1>5. made + 1 \notin form.attrs /\ form.attrs \subseteq 1..made
    BY <1>3, <1>4 DEF FormOK
  <1>6. attrs # form.attrs
    BY <1>5
  <1>7. form.status \in {"READY_NEW", "READY_CLEAN", "READY_DIRTY"} /\ Ready(form)
    BY <1>1, <1>3 DEF AtRest, Settled, IsBusy, FormOK, Statuses, Refuses
  <1>8. form' = [form EXCEPT !.attrs = attrs, !.status = status]
    BY <1>1, <1>6 DEF Set
  <1> HIDE DEF status, attrs
  <1>9. /\ form' = [x \in Fields |-> form'[x]]
        /\ form'.view = form.view /\ form'.status = status /\ form'.attrs = attrs
        /\ form'.cache = form.cache /\ form'.parsed = form.parsed /\ form'.etag = form.etag
        /\ form'.lock = form.lock /\ form'.timer = form.timer /\ form'.saveState = form.saveState
        /\ form'.prompt = form.prompt /\ form'.docKey = form.docKey
        /\ form'.requests = form.requests
    BY <1>3, <1>8 DEF FormOK, Fields
  <1>10. /\ status \in {"READY_NEW", "READY_DIRTY"}
         /\ status = "READY_NEW" <=> form.status = "READY_NEW"
    BY <1>7 DEF status
  <1>11. Content' = Content /\ Versions'
    <2>1. Content' = Content
      BY <1>1 DEF Content
    <2>2. stored \in Seq(SUBSET (1..made'))
      <3>1. \A i \in 1..Len(stored) : stored[i] \in SUBSET (1..made')
        BY <1>4, InContent
      <3>2. stored \in Seq(SUBSET (1..made))
        BY DEF Versions
      <3> QED BY <3>1, <3>2
    <2> QED BY <1>1, <1>4, <2>1, <2>2 DEF Versions
  <1>12. /\ attrs \subseteq 1..made' /\ form.attrs \subseteq attrs
         /\ attrs \subseteq form.attrs \cup {made + 1}
    BY <1>4, <1>5 DEF attrs
  <1>13. FormOK(form)'
    <2>1. form'.attrs \subseteq 1..made' /\ form'.cache \subseteq 1..made'
      BY <1>3, <1>4, <1>9, <1>12 DEF FormOK
    <2>2. form'.status \in Statuses
      BY <1>9, <1>10 DEF Statuses
    <2> QED BY <1>1, <1>3, <1>9, <1>11, <2>1, <2>2 DEF FormOK
  <1>14. Since(form)'
    <2>1. Since(form)
      BY <1>7 DEF Ready
    <2>2. /\ form'.cache \subseteq form'.attrs /\ form'.cache \subseteq Content'
          /\ (form'.attrs \ form'.cache) \cap Content' = {}
      BY <1>4, <1>9, <1>11, <1>12, <2>1 DEF Since
    <2>3. form'.etag > 0 => form'.cache = stored'[form'.etag] /\ form'.parsed = form'.cache
      BY <1>1, <1>9, <2>1 DEF Since
    <2> QED BY <2>2, <2>3 DEF Since
  <1>15. Ready(form)'
    BY <1>1, <1>7, <1>9, <1>10, <1>14 DEF Ready
  <1>16. Settled(form, given)'
    BY <1>9, <1>10, <1>15 DEF Settled, IsBusy
  <1>17. AtRest(form, given)'
    BY <1>1, <1>3, <1>9, <1>10, <1>16 DEF AtRest, Known, NumberKnown
  <1>18. Sound(form, given)'
    BY <1>3, <1>9, <1>13, <1>17 DEF Sound, Rest
  <1> QED BY <1>9, <1>11, <1>12, <1>18 DEF Unsaved

\* The user types the number: a number fetched before goes back.
LEMMA TypeNumberSound ==
    ASSUME ~Hasty, Versions, Sound(form, given), TypeNumber
    PROVE  /\ Versions' /\ Sound(form, given)'
           /\ Unsaved \subseteq form'.attrs \cup Content' \cup given'
  <1> DEFINE typed == [form EXCEPT !.docKey = "typed"]
             r == Request("giveback", "none")
             h == IF form.docKey = "fetched" THEN Send(typed, r) ELSE typed
  <1>1. MayAct /\ IsNew(form) /\ form.docKey # "typed" /\ Does(h)
    BY DEF TypeNumber, MayTap
  <1>2. Free(form, given)
    BY <1>1, MayActFree
  <1>3. FormOK(form) /\ form.requests = {} /\ AtRest(form, given)
        /\ form.view = "open" /\ form.prompt = "none"
    BY <1>2 DEF Free, Rest
  <1>4. /\ typed = [x \in Fields |-> typed[x]]
        /\ typed.view = form.view /\ typed.status = form.status /\ typed.attrs = form.attrs
        /\ typed.parsed = form.parsed /\ typed.etag = form.etag /\ typed.lock = form.lock
        /\ typed.timer = form.timer /\ typed.saveState = form.saveState
        /\ typed.prompt = form.prompt /\ typed.docKey = "typed"
        /\ typed.requests = form.requests /\ typed.cache = form.cache
    BY <1>3 DEF FormOK, Fields
  <1>5. GoodRequest(r) /\ r.op = "giveback" /\ r.state = "sent"
    BY RequestGood DEF Request
  <1> HIDE DEF typed, r
  <1>6. FormOK(typed) /\ typed.status = "READY_NEW"
    BY <1>1, <1>3, <1>4 DEF FormOK, IsNew
  <1>7. Ready(typed) /\ Known(typed)
    BY <1>1, <1>3, <1>4 DEF AtRest, Settled, Ready, Since, Known, IsNew
  <1>8. Going(form, h, given)
    <2>1. CASE form.docKey = "fetched"
      <3>1. GivingBack(typed, r)
        BY <1>3, <1>4, <1>5, <1>6, <1>7 DEF GivingBack
      <3>2. Waiting(Send(typed, r), given) /\ Send(typed, r).attrs = typed.attrs
        BY <1>3, <1>4, <1>5, <1>6, <3>1, SendWaits DEF Under
      <3> QED BY <1>4, <2>1, <3>2 DEF Going, Sound
    <2>2. CASE form.docKey # "fetched"
      <3>1. NumberKnown(typed)
        BY <1>3, <2>2 DEF AtRest, NumberKnown
      <3>2. AtRest(typed, given)
        BY <1>3, <1>4, <1>6, <1>7, <3>1 DEF AtRest, Settled, IsBusy
      <3> QED BY <1>3, <1>4, <1>6, <2>2, <3>2 DEF Going, Sound, Rest
    <2> QED BY <2>1, <2>2
  <1> HIDE DEF h
  <1> QED BY <1>1, <1>8, DoesSound

\* The buttons of a workspace that is free.
LEMMA ButtonsSound ==
    ASSUME ~Hasty, Versions, Sound(form, given),
           Apply \/ SaveAndClose \/ SaveAndNew \/ Refresh \/ Back
    PROVE  /\ Versions' /\ Sound(form, given)'
           /\ Unsaved \subseteq form'.attrs \cup Content' \cup given'
  <1>1. Free(form, given)
    BY MayActFree DEF Apply, SaveAndClose, SaveAndNew, Refresh, Back, MayTap
  <1>2. \A typed \in MayCheck(form) : typed => IsDirty(form)
    BY DEF MayCheck, IsNew, IsDirty
  <1>3. ASSUME NEW state \in {"apply", "close", "new"}, NEW typed \in MayCheck(form),
               Does(SaveAs(form, state, typed))
        PROVE  /\ Versions' /\ Sound(form, given)'
               /\ Unsaved \subseteq form'.attrs \cup Content' \cup given'
    <2>1. Going(form, SaveAs(form, state, typed), given)
      BY <1>1, <1>2, SaveAsSound
    <2> QED BY <1>3, <2>1, DoesSound
  <1>4. CASE Apply \/ SaveAndClose
    BY <1>3, <1>4 DEF Apply, SaveAndClose
  <1>5. CASE SaveAndNew
    <2>1. CASE IsDirty(form)
      BY <1>3, <1>5, <2>1 DEF SaveAndNew
    <2>2. CASE ~IsDirty(form)
      <3>1. Leaving(form, given)
        BY <1>1, <2>2, FreeLeaves
      <3>2. Going(form, Leave(form), given)
        BY <3>1, LeaveSound DEF Going, Leaving
      <3> QED BY <1>5, <2>2, <3>2, DoesSound DEF SaveAndNew
    <2> QED BY <2>1, <2>2
  <1>6. CASE Refresh \/ Back
    <2>1. Going(form, Requery(form), given) /\ Going(form, Close(form), given)
      BY <1>1, CloseSound
    <2> QED BY <1>6, <2>1, DoesSound DEF Refresh, Back
  <1> QED BY <1>4, <1>5, <1>6

\* Once the question is answered the form is free.
LEMMA AskedFree ==
    ASSUME Sound(form, given), form.prompt # "none"
    PROVE  LET f == [form EXCEPT !.prompt = "none"]
           IN  Free(f, given) /\ f.attrs = form.attrs
  <1> DEFINE f == [form EXCEPT !.prompt = "none"]
  <1>1. Rest(form, given) /\ FormOK(form) /\ form.requests = {} /\ AtRest(form, given)
    BY DEF Sound, Waiting, Rest
  <1>2. /\ f = [x \in Fields |-> f[x]] /\ f.prompt = "none"
        /\ f.view = form.view /\ f.status = form.status /\ f.attrs = form.attrs
        /\ f.cache = form.cache /\ f.parsed = form.parsed /\ f.etag = form.etag
        /\ f.lock = form.lock /\ f.timer = form.timer /\ f.saveState = form.saveState
        /\ f.docKey = form.docKey /\ f.requests = form.requests
    BY <1>1 DEF FormOK, Fields
  <1> SUFFICES Free(f, given) /\ f.attrs = form.attrs
    OBVIOUS
  <1> HIDE DEF f
  <1>3. form.view = "open"
    BY <1>1 DEF AtRest, FormOK
  <1>4. FormOK(f) /\ f.requests = {}
    BY <1>1, <1>2 DEF FormOK
  <1>5. Settled(f, given) /\ Known(f) /\ NumberKnown(f)
    BY <1>1, <1>2 DEF AtRest, Settled, Ready, Since, Known, NumberKnown, IsBusy
  <1>6. AtRest(f, given)
    BY <1>1, <1>2, <1>3, <1>5 DEF AtRest
  <1> QED BY <1>2, <1>3, <1>4, <1>6 DEF Free, Rest

\* The answers to the question.
LEMMA AnswerSound ==
    ASSUME Versions, Sound(form, given), AnswerYes \/ AnswerNo \/ Cancel
    PROVE  /\ Versions' /\ Sound(form, given)'
           /\ Unsaved \subseteq form'.attrs \cup Content' \cup given'
  <1> DEFINE f == [form EXCEPT !.prompt = "none"]
  <1>1. form.prompt # "none"
    BY DEF AnswerYes, AnswerNo, Cancel
  <1>2. Free(f, given) /\ f.attrs = form.attrs
    BY <1>1, AskedFree
  <1>3. CASE AnswerYes
    <2> DEFINE state == IF f.saveState = "none" THEN "apply" ELSE f.saveState
               marked == [f EXCEPT !.saveState = state]
    <2>1. PICK typed \in MayCheck(f) :
             Does(IF form.prompt = "close" THEN SaveAs(f, "close", typed)
                  ELSE Save(marked, "requery", typed))
      BY <1>3 DEF AnswerYes
    <2>2. state \in {"none", "apply", "close", "new"}
      BY <1>2 DEF Free, Rest, FormOK
    <2> HIDE DEF f, state
    <2>3. Free(marked, given) /\ marked.attrs = f.attrs /\ marked.status = f.status
      BY <1>2, <2>2, MarkFree
    <2> HIDE DEF marked
    <2>4. typed => IsDirty(f) /\ IsDirty(marked)
      BY <2>3 DEF MayCheck, IsNew, IsDirty
    <2>5. Going(f, SaveAs(f, "close", typed), given)
      BY <1>2, <2>4, SaveAsSound
    <2>6. Going(marked, Save(marked, "requery", typed), given)
      BY <2>3, <2>4, SaveSound
    <2>7. CASE form.prompt = "close"
      BY <1>2, <2>1, <2>5, <2>7, DoesSound DEF Going
    <2>8. CASE form.prompt # "close"
      BY <1>2, <2>1, <2>3, <2>6, <2>8, DoesSound DEF Going
    <2> QED BY <2>7, <2>8
  <1>4. CASE AnswerNo
    <2>1. /\ form' = IF form.prompt = "close" THEN CloseNow(f) ELSE RequeryNow(f)
          /\ given' = given \cup Unsaved /\ UNCHANGED <<stored, locks, issued, made>>
      BY <1>4 DEF AnswerNo
    <2> HIDE DEF f
    <2>2. Free(f, given')
      <3>1. Sound(f, given) /\ given \subseteq given' /\ f.requests = {}
        BY <1>2, <2>1 DEF Free, Rest, Sound
      <3>2. Sound(f, given')
        BY <3>1, GivenMore
      <3> QED BY <1>2, <3>1, <3>2 DEF Free, Sound, Waiting
    <2>3. f.attrs \subseteq Content \cup given'
      BY <1>2, <2>1 DEF Unsaved
    <2>4. Leaving(f, given')
      BY <2>2, <2>3, FreeLeaves
    <2>5. Sound(form', given')
      BY <2>1, <2>4, CloseNowSound, RequeryNowSound
    <2>6. Versions' /\ Sound(form, given)'
      BY <2>1, <2>5, StillSound
    <2> QED BY <2>1, <2>6
  <1>5. CASE Cancel
    <2>1. Does(f) /\ Going(form, f, given)
      BY <1>2, <1>5 DEF Cancel, Going, Sound, Free
    <2> HIDE DEF f
    <2> QED BY <2>1, DoesSound
  <1> QED BY <1>3, <1>4, <1>5

\* The invariant: the versions of the record, and the form that fits them.
SoundInv == Versions /\ Sound(form, given)

\* Every step of the server.
LEMMA ServeSound ==
    ASSUME ~LockErrors, SoundInv, NEW r \in form.requests, Serve(r)
    PROVE  SoundInv' /\ form'.attrs = form.attrs /\ given' = given
  <1>1. r.state = "sent" /\ Versions /\ Sound(form, given)
    BY DEF Serve, SoundInv
  <1>2. FormOK(form)
    BY <1>1, OneRequest
  <1>3. ASSUME NEW q, Reply(r, q) PROVE form'.attrs = form.attrs
    BY <1>2, <1>3 DEF Reply, FormOK, Fields
  <1>4. CASE ServeFetch(r)
    BY <1>1, <1>3, <1>4, ServeFetchSound DEF SoundInv, ServeFetch
  <1>5. CASE ServeCommit(r)
    BY <1>1, <1>5, ServeCommitSound DEF SoundInv, ServeCommit
  <1>6. CASE ServeObtain(r)
    BY <1>1, <1>6, ServeObtainSound DEF SoundInv, ServeObtain
  <1>7. CASE ServeRelease(r)
    BY <1>1, <1>7, ServeReleaseSound DEF SoundInv, ServeRelease
  <1>8. CASE ServeCheck(r)
    BY <1>1, <1>3, <1>8, ServeCheckSound DEF SoundInv, ServeCheck
  <1>9. CASE ServeNumber(r)
    BY <1>1, <1>9, ServeNumberSound DEF SoundInv, ServeNumber
  <1>10. CASE ServeGiveback(r)
    BY <1>1, <1>10, ServeGivebackSound DEF SoundInv, ServeGiveback
  <1>11. CASE Refuse(r)
    BY <1>1, <1>3, <1>11, RefuseSound DEF SoundInv, Refuse
  <1> QED BY <1>4, <1>5, <1>6, <1>7, <1>8, <1>9, <1>10, <1>11 DEF Serve

\* Every step keeps the invariant, and what is not saved.
LEMMA NextSound ==
    ASSUME ~Hasty, ~LockErrors, SoundInv, [Next]_vars
    PROVE  SoundInv' /\ Unsaved \subseteq form'.attrs \cup Content' \cup given'
  <1>1. Versions /\ Sound(form, given)
    BY DEF SoundInv
  <1>2. ASSUME SoundInv', form'.attrs = form.attrs, Content \subseteq Content', given' = given
        PROVE  Unsaved \subseteq form'.attrs \cup Content' \cup given'
    BY <1>2 DEF Unsaved
  <1>3. ASSUME form'.attrs = form.attrs
        PROVE  Unsaved \subseteq form'.attrs \cup Content' \cup given'
    BY <1>3 DEF Unsaved
  <1>4. ASSUME NEW r \in form.requests, Serve(r)
        PROVE  SoundInv' /\ Unsaved \subseteq form'.attrs \cup Content' \cup given'
    BY <1>3, <1>4, ServeSound
  <1>5. ASSUME NEW r \in form.requests, Receive(r)
        PROVE  SoundInv' /\ Unsaved \subseteq form'.attrs \cup Content' \cup given'
    BY <1>1, <1>5, ReceiveSound DEF SoundInv
  <1>6. ASSUME NEW k \in locks, Expire(k)
        PROVE  SoundInv' /\ Unsaved \subseteq form'.attrs \cup Content' \cup given'
    BY <1>1, <1>3, <1>6, ExpireSound DEF SoundInv
  <1>7. CASE ChangeElsewhere
    BY <1>1, <1>3, <1>7, ChangeElsewhereSound DEF SoundInv
  <1>8. CASE Edit \/ TypeNumber
    BY <1>1, <1>8, EditSound, TypeNumberSound DEF SoundInv
  <1>9. CASE Apply \/ SaveAndClose \/ SaveAndNew \/ Refresh \/ Back
    BY <1>1, <1>9, ButtonsSound DEF SoundInv
  <1>10. CASE AnswerYes \/ AnswerNo \/ Cancel
    BY <1>1, <1>10, AnswerSound DEF SoundInv
  <1>11. CASE UNCHANGED vars
    <2>1. /\ Sound(form', given') /\ UNCHANGED <<stored, locks, issued, made>>
          /\ form'.attrs = form.attrs
      BY <1>1, <1>11 DEF vars
    <2> QED BY <1>1, <1>3, <2>1, StillSound DEF SoundInv
  <1> QED BY <1>4, <1>5, <1>6, <1>7, <1>8, <1>9, <1>10, <1>11 DEF Next

\* A workspace that opens: it waits for the record or the number, or is free.
LEMMA InitSound ==
    ASSUME Init
    PROVE  SoundInv
  <1>1. locks = {} /\ issued = "free" /\ made = 0 /\ given = {}
    BY DEF Init
  <1>2. stored = <<>> \/ stored = <<{}>>
    BY DEF Init
  <1>3. Versions
    <2>1. stored \in Seq(SUBSET (1..made))
      <3> DEFINE S == SUBSET (1..made)
      <3>1. {} \in S
        OBVIOUS
      <3> HIDE DEF S
      <3>2. stored \in Seq(S)
        <4>1. \A x \in S : <<x>> \in Seq(S)
          OBVIOUS
        <4>2. <<>> \in Seq(S)
          OBVIOUS
        <4> QED BY <1>2, <3>1, <4>1, <4>2
      <3> QED BY <3>2 DEF S
    <2>2. \A i, j \in 1..Len(stored) : stored[i] \subseteq stored[j]
      BY <1>2
    <2> QED BY <1>1, <2>1, <2>2 DEF Versions
  <1>4. Content = {}
    BY <1>2 DEF Content
  <1>5. ASSUME NEW f, NEW status \in Statuses \cup {"EMPTY"}, NEW policy,
               f = NewForm(status, policy)
        PROVE  /\ f = [x \in Fields |-> f[x]] /\ f.view = "open" /\ f.status = status
               /\ f.attrs = {} /\ f.cache = {} /\ f.parsed = {} /\ f.etag = 0 /\ f.lock = 0
               /\ f.timer = 0 /\ f.saveState = "none" /\ f.prompt = "none" /\ f.requests = {}
               /\ f.docKey = IF status = "READY_NEW" THEN "empty" ELSE "typed"
    BY <1>5 DEF NewForm, Fields
  <1>6. CASE /\ form = ModelFetch(NewForm("EMPTY", "M"))
             /\ stored = <<{}>>
    <2> DEFINE f == NewForm("EMPTY", "M")
               h == SetStatus(f, "BUSY_FETCHING")
               r == Request("fetch", "none")
    <2>1. /\ f = [x \in Fields |-> f[x]] /\ f.view = "open" /\ f.status = "EMPTY"
          /\ f.attrs = {} /\ f.cache = {} /\ f.parsed = {} /\ f.etag = 0 /\ f.lock = 0
          /\ f.timer = 0 /\ f.saveState = "none" /\ f.prompt = "none" /\ f.requests = {}
          /\ f.docKey = "typed"
      BY <1>5
    <2> HIDE DEF f
    <2>2. /\ h = [x \in Fields |-> h[x]] /\ h.status = "BUSY_FETCHING"
          /\ h.view = f.view /\ h.attrs = f.attrs /\ h.parsed = f.parsed /\ h.etag = f.etag
          /\ h.lock = f.lock /\ h.timer = f.timer /\ h.saveState = f.saveState
          /\ h.prompt = f.prompt /\ h.docKey = f.docKey /\ h.requests = f.requests
          /\ h.cache = IF "BUSY_FETCHING" = "READY_CLEAN" /\ f.status # "BUSY_FETCHING"
                       THEN f.attrs ELSE f.cache
      BY <2>1, SetStatusIs
    <2>3. GoodRequest(r) /\ r.op = "fetch" /\ r.state = "sent"
      BY RequestGood DEF Ending, Request
    <2>4. form = Send(h, r)
      BY <1>6 DEF ModelFetch, f
    <2> HIDE DEF h, r
    <2>5. FormOK(h)
      <3>1. Len(stored) \in Nat
        BY <1>2
      <3>2. h.etag = 0 /\ h.etag \in 0..Len(stored) /\ h.lock = 0 /\ h.timer = 0
        BY <2>1, <2>2, <3>1
      <3>3. h.attrs = {} /\ h.cache = {} /\ h.parsed = {} /\ h.status = "BUSY_FETCHING"
        BY <2>1, <2>2
      <3>4. /\ h.view = "open" /\ h.saveState = "none" /\ h.prompt = "none"
            /\ h.docKey = "typed" /\ h = [x \in Fields |-> h[x]]
        BY <2>1, <2>2
      <3> QED BY <3>2, <3>3, <3>4 DEF FormOK, Statuses
    <2>6. Fetching(h, r, given)
      BY <1>1, <2>1, <2>2, <2>3 DEF Fetching, NumberKnown
    <2>7. Waiting(Send(h, r), given)
      BY <2>1, <2>2, <2>3, <2>5, <2>6, SendWaits DEF Under
    <2> QED BY <1>3, <2>4, <2>7 DEF SoundInv, Sound
  <1>7. ASSUME NEW f, NEW policy, f = NewForm("READY_NEW", policy), stored = <<>>
        PROVE  /\ FormOK(f) /\ f.requests = {} /\ f.view = "open" /\ f.prompt = "none"
               /\ f.status = "READY_NEW" /\ Ready(f) /\ Known(f) /\ f.docKey = "empty"
    <2>1. /\ f = [x \in Fields |-> f[x]] /\ f.view = "open" /\ f.status = "READY_NEW"
          /\ f.attrs = {} /\ f.cache = {} /\ f.parsed = {} /\ f.etag = 0 /\ f.lock = 0
          /\ f.timer = 0 /\ f.saveState = "none" /\ f.prompt = "none" /\ f.requests = {}
          /\ f.docKey = "empty"
      BY <1>5, <1>7 DEF Statuses
    <2>2. FormOK(f)
      <3>1. Len(stored) = 0
        BY <1>7
      <3>2. f.etag \in 0..Len(stored) /\ f.lock \in Nat /\ f.timer = 0
        BY <2>1, <3>1
      <3>3. f.attrs \subseteq 1..made /\ f.cache \subseteq 1..made /\ f.parsed \subseteq Content
        BY ONLY <2>1
      <3>4. /\ f.view \in {"open", "gone"} /\ f.status \in Statuses
            /\ f.saveState \in {"none", "apply", "close", "new"}
            /\ f.prompt \in {"none", "close", "refresh"}
            /\ f.docKey \in {"empty", "fetched", "typed"}
        BY ONLY <2>1 DEF Statuses
      <3>5. f.lock \in Nat \cup {NoKey} /\ f.timer \in Nat /\ f.timer \in {0, f.lock}
        BY ONLY <3>2
      <3>6. f = [x \in Fields |-> f[x]]
        BY ONLY <2>1
      <3> QED BY ONLY <3>2, <3>3, <3>4, <3>5, <3>6 DEF FormOK
    <2>3. Ready(f) /\ Known(f)
      BY <1>1, <1>4, <1>7, <2>1 DEF Ready, Since, Known
    <2> QED BY <2>1, <2>2, <2>3
  <1>8. CASE \E policy \in {"A", "O"} :
                /\ form = Send(NewForm("READY_NEW", policy), Request("number", "none"))
                /\ stored = <<>>
    <2>1. PICK policy : /\ form = Send(NewForm("READY_NEW", policy), Request("number", "none"))
                        /\ stored = <<>>
      BY <1>8
    <2> DEFINE f == NewForm("READY_NEW", policy)
               r == Request("number", "none")
    <2>2. GoodRequest(r) /\ r.op = "number" /\ r.state = "sent"
      BY RequestGood DEF Request
    <2> HIDE DEF f, r
    <2>3. /\ FormOK(f) /\ f.requests = {} /\ f.view = "open" /\ f.prompt = "none"
          /\ f.status = "READY_NEW" /\ Ready(f) /\ Known(f) /\ f.docKey = "empty"
      BY <1>7, <2>1 DEF f
    <2>4. Numbering(f, r)
      BY <1>1, <2>2, <2>3 DEF Numbering
    <2>5. Waiting(Send(f, r), given)
      BY <2>2, <2>3, <2>4, SendWaits DEF Under
    <2> QED BY <1>3, <2>1, <2>5 DEF SoundInv, Sound, f, r
  <1>9. CASE form = NewForm("READY_NEW", "M") /\ stored = <<>>
    <2>1. /\ FormOK(form) /\ form.requests = {} /\ form.view = "open" /\ form.prompt = "none"
          /\ form.status = "READY_NEW" /\ Ready(form) /\ Known(form)
      BY <1>7, <1>9
    <2>2. AtRest(form, given)
      BY <1>1, <2>1 DEF AtRest, Settled, IsBusy, NumberKnown
    <2> QED BY <1>3, <2>1, <2>2 DEF SoundInv, Sound, Rest
  <1> QED BY <1>6, <1>8, <1>9 DEF Init

-----------------------------------------------------------------------------
(* What follows for a user who waits for the answers.                       *)

\* The invariant holds in every behaviour of a user who waits.
LEMMA SoundAlways == ~Hasty /\ ~LockErrors => (Spec => []SoundInv)
  <1> SUFFICES ASSUME ~Hasty, ~LockErrors PROVE Spec => []SoundInv
    OBVIOUS
  <1>1. Init => SoundInv
    BY InitSound
  <1>2. SoundInv /\ [Next]_vars => SoundInv'
    BY NextSound
  <1> QED BY <1>1, <1>2, PTL DEF Spec

\* What the invariant says of the form, the requests, the locks and the number.
LEMMA SoundProperties ==
    ASSUME SoundInv
    PROVE  TypeOK /\ ShowsVersion /\ SavedOnce /\ NoLostLock /\ NumberReturned
  <1>1. Versions /\ FormOK(form)
    BY DEF SoundInv, Sound, Rest, Waiting
  <1>2. form.requests = {} => Rest(form, given)
    BY DEF SoundInv, Sound, Waiting
  <1>3. \A r, q \in form.requests : r = q
    BY DEF SoundInv, Sound, Rest, Waiting
  <1>4. \A r \in form.requests : Under(form, r, given)
    BY DEF SoundInv, Sound, Rest, Waiting
  <1>5. TypeOK
    <2>1. \A v \in 1..Len(stored) : stored[v] \subseteq 1..made
      BY <1>1, InContent
    <2>2. locks \subseteq Nat \ {0}
      BY <1>1 DEF Versions
    <2> QED BY <1>1, <1>3, <2>1, <2>2 DEF TypeOK, FormOK
  <1>6. form.view = "open" /\ form.status \in {"READY_CLEAN", "READY_DIRTY"} => Ready(form)
    <2>1. CASE form.requests = {}
      BY <1>2, <2>1 DEF Rest, AtRest, Settled
    <2>2. CASE form.requests # {}
      <3>1. PICK r \in form.requests : Under(form, r, given)
        BY <1>4, <2>2
      <3> QED BY <3>1 DEF Under, Numbering, Fetching, Obtaining, Committing, Checking,
                          Releasing, GivingBack, Settled, IsBusy
    <2> QED BY <2>1, <2>2
  <1>7. ShowsVersion
    BY <1>6 DEF ShowsVersion, Ready, Since
  <1>8. SavedOnce
    <2>1. ASSUME NEW r \in form.requests, r.op = "commit", r.state = "sent"
          PROVE  r.edits \cap Content = {}
      BY <1>4, <2>1, UnderOp DEF Committing, Since
    <2> QED BY <1>3, <2>1 DEF SavedOnce
  <1>9. NoLostLock
    BY <1>1, <1>2 DEF NoLostLock, Rest, AtRest, Known, FormOK
  <1>10. NumberReturned
    BY <1>2 DEF NumberReturned, Rest, AtRest, NumberLeft
  <1> QED BY <1>5, <1>7, <1>8, <1>9, <1>10

\* The types of the form, the versions and the locks: what is shown and stored are
\* changes that were made, and no two requests under way are mistaken for each
\* other.
THEOREM TypeOKHolds == ~Hasty /\ ~LockErrors => (Spec => []TypeOK)
  BY SoundAlways, SoundProperties, PTL

\* A clean form shows the version of the record it saves against, and a changed
\* one was last clean with it: the cache of XM.Model and the etag go together,
\* through fetches, saves, patches and somebody else's saves.
THEOREM ShowsVersionHolds == ~Hasty /\ ~LockErrors => (Spec => []ShowsVersion)
  BY SoundAlways, SoundProperties, PTL

\* What a save carries is not stored yet, and no other save carries it.
THEOREM SavedOnceHolds == ~Hasty /\ ~LockErrors => (Spec => []SavedOnce)
  BY SoundAlways, SoundProperties, PTL

\* The server holds no lock that a form at rest has forgotten, and the interval
\* that renews a lock goes with the workspace.
THEOREM NoLostLockHolds == ~Hasty /\ ~LockErrors => (Spec => []NoLostLock)
  BY SoundAlways, SoundProperties, PTL

\* A number that was fetched is saved with its document or given back, however
\* the workspace is left, unless the save failed.
THEOREM NumberReturnedHolds == ~Hasty /\ ~LockErrors => (Spec => []NumberReturned)
  BY SoundAlways, SoundProperties, PTL

\* A change disappears from the form only when it is stored, when the user says
\* so, or after an error.
THEOREM ChangesKeptHolds == ~Hasty /\ ~LockErrors => (Spec => ChangesKept)
  <1> SUFFICES ASSUME ~Hasty, ~LockErrors PROVE Spec => ChangesKept
    OBVIOUS
  <1>1. SoundInv /\ [Next]_vars => [Unsaved \subseteq form'.attrs \cup Content' \cup given']_vars
    BY NextSound
  <1> QED BY <1>1, SoundAlways, PTL DEF Spec, ChangesKept

=============================================================================
