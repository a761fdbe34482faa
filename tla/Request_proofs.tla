--------------------------- MODULE Request_proofs ---------------------------
(***************************************************************************)
(* Proofs about Request, for every set of requests and sessions and every  *)
(* size of the timeout filter's table.                                     *)
(***************************************************************************)
EXTENDS Request, FiniteSetTheorems, SequenceTheorems, TLAPS

-----------------------------------------------------------------------------
(* How far a request is at its frontend and where it is handled agree: what *)
(* handles it at the frontend is awaited there, so that nobody else answers. *)

Stages == \A r \in Requests :
    /\ front[r] \in {"new", "filter", "error", "ignored"} => work[r] = "none"
    /\ front[r] = "local" => at[r] = "front"
    /\ front[r] = "forwarded" => at[r] = "back" /\ work[r] # "over"
    /\ at[r] = "front" => work[r] \notin {"wire", "ok", "failed"}
    /\ at[r] = "back" => work[r] \notin {"none", "dropped"}
    /\ at[r] = "front" /\ work[r] \in {"queued", "handler", "error", "dropped"}
           => front[r] = "local"

\* What was answered is done; without an error only if the work is over (or
\* there was none) and was not late.
Answers == \A i \in 1..Len(log) :
    /\ front[log[i].req] = "done"
    /\ log[i].err \/ work[log[i].req] \in {"none", "over"}
    /\ log[i].err \/ log[i].req \notin late

LateStages == \A r \in late : work[r] \in {"handler", "error", "failed", "over"}

\* The queues of a server hold what is queued there, each once, in the order of
\* `entered`; what runs in time is the current task of its queue.
Before(r, q) == \E i, j \in 1..Len(entered) : i < j /\ entered[i] = r /\ entered[j] = q
Live(r)      == at[r] = "back" \/ SessionOf[r] \in open

Entered == /\ \A i, j \in 1..Len(entered) : entered[i] = entered[j] => i = j
           /\ \A i \in 1..Len(entered) : work[entered[i]] \notin {"none", "wire"}
           /\ \A r \in Requests : work[r] \in {"queued", "handler"} =>
                                     \E i \in 1..Len(entered) : entered[i] = r

Queues == \A w \in Where, s \in Sessions :
    /\ \A a \in 1..Len(waiting[w][s]) :
          /\ work[waiting[w][s][a]] = "queued"
          /\ at[waiting[w][s][a]] = w /\ SessionOf[waiting[w][s][a]] = s
    /\ \A a, b \in 1..Len(waiting[w][s]) : a < b => Before(waiting[w][s][a], waiting[w][s][b])

QueuedWait == \A r \in Requests : work[r] = "queued" =>
    \E a \in 1..Len(waiting[at[r]][SessionOf[r]]) : waiting[at[r]][SessionOf[r]][a] = r

CurrentRuns == \A w \in Where, s \in Sessions : current[w][s] # None =>
    LET r == current[w][s] IN
    at[r] = w /\ SessionOf[r] = s /\ work[r] \in {"handler", "error"} /\ r \notin late

RunningIsCurrent == \A i \in 1..Len(entered) :
    LET r == entered[i] IN
    (work[r] \in {"handler", "error"} /\ r \notin late /\ Live(r))
        => current[at[r]][SessionOf[r]] = r

\* First in, first out: behind a request that is not through, and not late,
\* everybody of its queue waits.
Fifo == \A i, j \in 1..Len(entered) :
    LET r == entered[i]  q == entered[j] IN
    (/\ i < j /\ at[r] = at[q] /\ SessionOf[r] = SessionOf[q] /\ Live(r)
     /\ r \notin late /\ work[r] \in {"queued", "handler", "error"})
        => work[q] = "queued"

AnswerInv == TypeOK /\ Stages /\ Answers /\ LateStages
QueueInv  == Entered /\ Queues /\ QueuedWait /\ CurrentRuns /\ RunningIsCurrent /\ Fifo
IInv == AnswerInv /\ OneResponse /\ QueueInv /\ AnswersInOrder /\ TimersOfPending

LEMMA InitIInv == Init => IInv
<1> SUFFICES ASSUME Init PROVE IInv
  OBVIOUS
<1> USE RequestAssumption DEF Init
<1>1. TypeOK
  BY EmptySeq DEF TypeOK, Where, Answer
<1>2. Len(log) = 0 /\ Len(entered) = 0
  BY EmptySeq
<1>3. Stages /\ Answers /\ LateStages /\ OneResponse /\ AnswersInOrder
  BY <1>2 DEF Stages, Answers, LateStages, OneResponse, AnswersInOrder
<1>4. \A w \in Where, s \in Sessions : Len(waiting[w][s]) = 0 /\ current[w][s] = None
  BY EmptySeq
<1>5. QueueInv
  BY <1>2, <1>4
     DEF QueueInv, Entered, Queues, QueuedWait, CurrentRuns, RunningIsCurrent, Fifo
<1>6. TimersOfPending
  BY FS_EmptySet DEF TimersOfPending
<1> QED BY <1>1, <1>3, <1>5, <1>6 DEF IInv, AnswerInv

-----------------------------------------------------------------------------
(* Types *)

LEMMA RespondType ==
    ASSUME TypeOK, NEW r \in Requests, NEW err \in BOOLEAN, Respond(r, err)
    PROVE  /\ front' \in [Requests -> {"new", "filter", "error", "local", "forwarded",
                                       "done", "ignored"}]
           /\ log' \in Seq(Answer)
BY AppendProperties DEF TypeOK, Respond, Answer

LEMMA DoHandleType ==
    ASSUME TypeOK, NEW r \in Requests, NEW w \in Where, DoHandle(r, w)
    PROVE  /\ at' \in [Requests -> Where]
           /\ timers' \in [Where -> SUBSET Requests]
           /\ work' \in [Requests -> {"none", "wire", "queued", "handler", "error", "ok",
                                      "failed", "over", "dropped"}]
           /\ waiting' \in [Where -> [Sessions -> Seq(Requests)]]
           /\ entered' \in Seq(Requests)
           /\ UNCHANGED <<current, late>>
<1> USE RequestAssumption
<1>1. SessionOf[r] \in Sessions /\ waiting[w][SessionOf[r]] \in Seq(Requests)
  BY DEF TypeOK
<1>2. Append(waiting[w][SessionOf[r]], r) \in Seq(Requests) /\ Append(entered, r) \in Seq(Requests)
  BY <1>1, AppendProperties DEF TypeOK
<1>3. at' \in [Requests -> Where] /\ timers' \in [Where -> SUBSET Requests]
  BY DEF TypeOK, DoHandle, TimeoutBefore
<1>4. CASE SerialBefore(r, w)
  BY <1>2, <1>3, <1>4 DEF TypeOK, SerialBefore, DoHandle
<1>5. CASE work' = [work EXCEPT ![r] = "error"] /\ UNCHANGED <<waiting, entered>>
  BY <1>3, <1>5 DEF TypeOK, DoHandle
<1> QED BY <1>4, <1>5 DEF DoHandle

LEMMA ResponseType ==
    ASSUME TypeOK, NEW r \in Requests, NEW err \in BOOLEAN, Response(r, err)
    PROVE  TypeOK'
<1> USE RequestAssumption
<1>1. SerialAfter(r, err) \in BOOLEAN
  BY DEF SerialAfter
<1>2. /\ front' \in [Requests -> {"new", "filter", "error", "local", "forwarded",
                                  "done", "ignored"}]
      /\ log' \in Seq(Answer)
      /\ work' \in [Requests -> {"none", "wire", "queued", "handler", "error", "ok",
                                 "failed", "over", "dropped"}]
  BY <1>1, RespondType DEF TypeOK, Response
<1>3. timers' \in [Where -> SUBSET Requests]
  BY DEF TypeOK, Response, TimeoutAfter
<1>4. current' \in [Where -> [Sessions -> Requests \cup {None}]]
  BY DEF TypeOK, Response
<1> QED BY <1>2, <1>3, <1>4 DEF TypeOK, Response

LEMMA StepType == TypeOK /\ [Next]_vars => TypeOK'
<1> SUFFICES ASSUME TypeOK, [Next]_vars PROVE TypeOK'
  OBVIOUS
<1> USE RequestAssumption
<1>1. ASSUME NEW r \in Requests,
             IgnoreMessage(r) \/ GlobalHandle(r) \/ GlobalFilterFails(r)
      PROVE  TypeOK'
  BY <1>1 DEF TypeOK, handling, IgnoreMessage, GlobalHandle, GlobalFilterFails
<1>2. ASSUME NEW r \in Requests,
             RefuseMessage(r) \/ GlobalErrorHandled(r) \/ NoProxy(r) \/ RpcFails(r)
      PROVE  TypeOK'
  <2>1. PICK err \in BOOLEAN : Respond(r, err)
    BY <1>2 DEF RefuseMessage, GlobalErrorHandled, NoProxy, RpcFails
  <2>2. UNCHANGED <<at, work, open, waiting, current, late, timers, entered>>
    BY <1>2 DEF handling, RefuseMessage, GlobalErrorHandled, NoProxy, RpcFails
  <2> QED BY <2>1, <2>2, RespondType DEF TypeOK
<1>3. ASSUME NEW r \in Requests, HandleLocally(r) PROVE TypeOK'
  BY <1>3, DoHandleType DEF TypeOK, Where, HandleLocally
<1>4. ASSUME NEW r \in Requests, DoForward(r) PROVE TypeOK'
  BY <1>4 DEF TypeOK, Where, DoForward
<1>5. ASSUME NEW r \in Requests, ForwardMessage(r) PROVE TypeOK'
  BY <1>5, DoHandleType DEF TypeOK, Where, ForwardMessage
<1>6. ASSUME NEW r \in Requests, RefuseForward(r) \/ HandlerFails(r) PROVE TypeOK'
  <2>1. CASE RefuseForward(r)
    BY <2>1 DEF TypeOK, RefuseForward
  <2>2. CASE HandlerFails(r)
    BY <2>2 DEF TypeOK, HandlerFails
  <2> QED BY <1>6, <2>1, <2>2
<1>7. ASSUME NEW r \in Requests, Reply(r) PROVE TypeOK'
  <2>1. Respond(r, work[r] = "failed")
    BY <1>7 DEF Reply
  <2> QED BY <1>7, <2>1, RespondType DEF TypeOK, Reply
<1>8. ASSUME NEW r \in Requests, Handled(r) \/ ErrorHandled(r) PROVE TypeOK'
  BY <1>8, ResponseType DEF Handled, ErrorHandled
<1>9. ASSUME NEW w \in Where, NEW s \in Sessions, StartTask(w, s) PROVE TypeOK'
  <2>1. waiting[w][s] \in Seq(Requests) /\ waiting[w][s] # <<>>
    BY <1>9 DEF TypeOK, StartTask
  <2>2. Head(waiting[w][s]) \in Requests /\ Tail(waiting[w][s]) \in Seq(Requests)
    BY <2>1, HeadTailProperties
  <2>3. waiting' \in [Where -> [Sessions -> Seq(Requests)]]
    BY <1>9, <2>2 DEF TypeOK, StartTask
  <2> QED BY <1>9, <2>2, <2>3 DEF TypeOK, StartTask
<1>10. ASSUME NEW w \in Where, NEW s \in Sessions, TaskTimeout(w, s) PROVE TypeOK'
  BY <1>10 DEF TypeOK, TaskTimeout
<1>11. ASSUME NEW s \in Sessions, SessionClose(s) PROVE TypeOK'
  BY <1>11, EmptySeq DEF TypeOK, Where, SessionClose
<1>12. CASE UNCHANGED vars
  BY <1>12 DEF TypeOK, vars
<1> QED
  BY <1>1, <1>2, <1>3, <1>4, <1>5, <1>6, <1>7, <1>8, <1>9, <1>10, <1>11, <1>12 DEF Next

-----------------------------------------------------------------------------
(* Answers *)

LEMMA LoggedRequests ==
    ASSUME TypeOK, NEW i \in 1..Len(log)
    PROVE  log[i].req \in Requests /\ log[i].err \in BOOLEAN
<1>1. log[i] \in Answer
  BY ElementOfSeq DEF TypeOK
<1> QED BY <1>1 DEF Answer

\* An answer to a request that had none, with an error if it is late.
LEMMA RespondAnswers ==
    ASSUME AnswerInv, OneResponse, NEW r \in Requests, NEW err \in BOOLEAN, Respond(r, err),
           front[r] # "done", UNCHANGED late,
           err \/ (r \notin late /\ work'[r] \in {"none", "over"}),
           \A q \in Requests \ {r} : work'[q] = work[q]
    PROVE  Answers' /\ OneResponse'
<1> USE DEF AnswerInv, TypeOK, Answer
<1>1. \A q \in Requests : front[q] = "done" => front'[q] = "done" /\ q # r
  BY DEF Respond
<1>2. front'[r] = "done"
  BY DEF Respond
<1>3. \A i \in 1..Len(log) : log[i].req \in Requests /\ log[i].req # r
  BY LoggedRequests DEF Answers
<1>4. CASE log' = log
  BY <1>1, <1>3, <1>4 DEF Answers, OneResponse
<1>5. CASE log' = Append(log, [req |-> r, err |-> err])
  <2> DEFINE a == [req |-> r, err |-> err]
  <2>1. /\ Len(log') = Len(log) + 1 /\ Len(log) \in Nat
        /\ \A i \in 1..Len(log) : log'[i] = log[i]
        /\ log'[Len(log) + 1] = a
    BY <1>5, AppendProperties, LenProperties
  <2>2. a.req = r /\ a.err = err
    OBVIOUS
  <2> HIDE DEF a
  <2>3. Answers'
    <3> SUFFICES ASSUME NEW i \in 1..Len(log')
                 PROVE  /\ front'[log'[i].req] = "done"
                        /\ log'[i].err \/ work'[log'[i].req] \in {"none", "over"}
                        /\ log'[i].err \/ log'[i].req \notin late'
      BY DEF Answers
    <3>1. CASE i = Len(log) + 1
      BY <3>1, <2>1, <2>2, <1>2
    <3>2. CASE i \in 1..Len(log)
      <4>1. log'[i] = log[i] /\ log[i].req \in Requests \ {r}
        BY <3>2, <2>1, <1>3
      <4> QED BY <3>2, <4>1, <1>1 DEF Answers
    <3> QED BY <3>1, <3>2, <2>1
  <2>4. OneResponse'
    <3> SUFFICES ASSUME NEW i \in 1..Len(log'), NEW j \in 1..Len(log'),
                        log'[i].req = log'[j].req
                 PROVE  i = j
      BY DEF OneResponse
    <3>1. CASE i \in 1..Len(log) /\ j \in 1..Len(log)
      BY <3>1, <2>1 DEF OneResponse
    <3>2. CASE i = Len(log) + 1 \/ j = Len(log) + 1
      <4>1. \A k \in 1..Len(log) : log'[k].req # r
        BY <2>1, <1>3
      <4>2. log'[Len(log) + 1].req = r
        BY <2>1, <2>2
      <4> QED BY <3>2, <4>1, <4>2, <2>1
    <3> QED BY <3>1, <3>2, <2>1
  <2> QED BY <2>3, <2>4
<1> QED BY <1>4, <1>5 DEF Respond

\* Steps that answer nothing: what was answered stays so.
LEMMA SilentAnswers ==
    ASSUME AnswerInv, OneResponse, UNCHANGED log,
           \A r \in Requests : front[r] = "done" => front'[r] = "done",
           \A r \in Requests : (front[r] = "done" /\ work[r] \in {"none", "over"}) =>
                                  work'[r] = work[r] /\ (r \in late' => r \in late)
    PROVE  Answers' /\ OneResponse'
<1>1. \A i \in 1..Len(log) : log[i].req \in Requests
  BY LoggedRequests DEF AnswerInv
<1> QED BY <1>1 DEF AnswerInv, Answers, OneResponse

\* The end of handling: at the frontend it is the answer.
LEMMA ResponseAnswers ==
    ASSUME AnswerInv, OneResponse, NEW r \in Requests, NEW err \in BOOLEAN, Response(r, err),
           work[r] \in {"handler", "error"}
    PROVE  (Stages /\ Answers /\ LateStages /\ OneResponse)'
<1> USE DEF AnswerInv, TypeOK, Stages, LateStages, Where
<1> DEFINE e == SerialAfter(r, err)
<1>1. e \in BOOLEAN /\ (e \/ r \notin late)
  BY DEF SerialAfter
<1>2. UNCHANGED <<at, late>>
  BY DEF Response
<1>3. CASE at[r] = "front"
  <2>1. Respond(r, e) /\ work' = [work EXCEPT ![r] = "over"]
    BY <1>3 DEF Response
  <2>2. front[r] = "local"
    BY <1>3
  <2>3. front' = [front EXCEPT ![r] = "done"]
    BY <2>1 DEF Respond
  <2>4. Answers' /\ OneResponse'
    BY <1>1, <1>2, <2>1, <2>2, RespondAnswers
  <2> HIDE DEF e
  <2>5. Stages' /\ LateStages'
    BY <1>2, <1>3, <2>1, <2>2, <2>3
  <2> QED BY <2>4, <2>5
<1>4. CASE at[r] = "back"
  <2>1. work' = [work EXCEPT ![r] = IF e THEN "failed" ELSE "ok"] /\ UNCHANGED <<front, log>>
    BY <1>4 DEF Response
  <2> HIDE DEF e
  <2>2. Stages' /\ LateStages'
    BY <1>1, <1>2, <1>4, <2>1
  <2>3. \A q \in Requests : work[q] \in {"none", "over"} => work'[q] = work[q]
    BY <2>1
  <2>4. Answers' /\ OneResponse'
    BY <1>2, <2>1, <2>3, SilentAnswers
  <2> QED BY <2>2, <2>4
<1> QED BY <1>3, <1>4

\* What is waiting or running has its queue's stage.
LEMMA StartedWasQueued ==
    ASSUME TypeOK, Queues, NEW w \in Where, NEW s \in Sessions, waiting[w][s] # <<>>
    PROVE  /\ Head(waiting[w][s]) = waiting[w][s][1]
           /\ Len(waiting[w][s]) \in Nat /\ 1 \in 1..Len(waiting[w][s])
           /\ Head(waiting[w][s]) \in Requests
           /\ work[Head(waiting[w][s])] = "queued"
           /\ at[Head(waiting[w][s])] = w /\ SessionOf[Head(waiting[w][s])] = s
<1>1. waiting[w][s] \in Seq(Requests)
  BY DEF TypeOK
<1>2. Len(waiting[w][s]) \in Nat \ {0}
  BY <1>1, EmptySeq
<1>3. Head(waiting[w][s]) = waiting[w][s][1] /\ Head(waiting[w][s]) \in Requests
  BY <1>1, HeadTailProperties
<1> QED BY <1>2, <1>3 DEF Queues

LEMMA StepAnswers ==
    ASSUME AnswerInv, OneResponse, Queues, CurrentRuns, [Next]_vars
    PROVE  (Stages /\ Answers /\ LateStages /\ OneResponse)'
<1> USE RequestAssumption DEF AnswerInv, Stages, LateStages, Where
<1> DEFINE Goal == (Stages /\ Answers /\ LateStages /\ OneResponse)'
<1>1. ASSUME NEW r \in Requests,
             IgnoreMessage(r) \/ GlobalHandle(r) \/ GlobalFilterFails(r)
      PROVE  Goal
  <2>1. UNCHANGED <<at, work, late, log>> /\ front[r] \in {"new", "filter"}
        /\ \E x \in {"ignored", "filter", "error"} : front' = [front EXCEPT ![r] = x]
    BY <1>1 DEF handling, IgnoreMessage, GlobalHandle, GlobalFilterFails
  <2>2. \A q \in Requests : front[q] = "done" => front'[q] = "done"
    BY <2>1 DEF TypeOK
  <2>3. Stages' /\ LateStages'
    BY <2>1 DEF TypeOK
  <2> QED BY <2>1, <2>2, <2>3, SilentAnswers
<1>2. ASSUME NEW r \in Requests,
             RefuseMessage(r) \/ GlobalErrorHandled(r) \/ NoProxy(r) \/ RpcFails(r)
      PROVE  Goal
  <2>1. UNCHANGED <<at, work, late>>
    BY <1>2 DEF handling, RefuseMessage, GlobalErrorHandled, NoProxy, RpcFails
  <2>2. PICK err \in BOOLEAN : /\ Respond(r, err)
                               /\ \/ err /\ front[r] \in {"new", "filter", "forwarded"}
                                  \/ front[r] = "error"
    BY <1>2 DEF RefuseMessage, GlobalErrorHandled, NoProxy, RpcFails
  <2>3. front[r] = "error" => work[r] = "none" /\ r \notin late
    OBVIOUS
  <2>4. Answers' /\ OneResponse'
    BY <2>1, <2>2, <2>3, RespondAnswers
  <2>5. front' = [front EXCEPT ![r] = "done"]
    BY <2>2 DEF Respond
  <2>6. Stages' /\ LateStages'
    BY <2>1, <2>2, <2>5 DEF TypeOK
  <2> QED BY <2>4, <2>6
<1>3. ASSUME NEW r \in Requests, HandleLocally(r) PROVE Goal
  <2>1. /\ front[r] = "filter" /\ front' = [front EXCEPT ![r] = "local"]
        /\ at' = [at EXCEPT ![r] = "front"] /\ UNCHANGED <<late, log>>
        /\ \E x \in {"queued", "error"} : work' = [work EXCEPT ![r] = x]
    BY <1>3 DEF HandleLocally, DoHandle, SerialBefore
  <2>2. \A q \in Requests : front[q] = "done" => q # r /\ front'[q] = "done" /\ work'[q] = work[q]
    BY <2>1 DEF TypeOK
  <2>3. Stages' /\ LateStages'
    BY <2>1 DEF TypeOK
  <2> QED BY <2>1, <2>2, <2>3, SilentAnswers
<1>4. ASSUME NEW r \in Requests, DoForward(r) PROVE Goal
  <2>1. \A q \in Requests : front[q] = "done" => q # r /\ front'[q] = "done" /\ work'[q] = work[q]
    BY <1>4 DEF TypeOK, DoForward
  <2>2. Stages' /\ LateStages'
    BY <1>4 DEF TypeOK, DoForward
  <2> QED BY <1>4, <2>1, <2>2, SilentAnswers DEF DoForward
<1>5. ASSUME NEW r \in Requests,
             ForwardMessage(r) \/ RefuseForward(r) \/ HandlerFails(r)
      PROVE  Goal
  <2>1. UNCHANGED <<front, late, log>> /\ work[r] \in {"wire", "handler"}
    BY <1>5 DEF ForwardMessage, RefuseForward, HandlerFails, DoHandle
  <2>2. /\ work[r] = "wire" => at' = [at EXCEPT ![r] = "back"] \/ at' = at
        /\ work[r] = "handler" => at' = at
        /\ \/ work' = [work EXCEPT ![r] = "error"]
           \/ work[r] = "wire" /\ \E x \in {"queued", "failed"} : work' = [work EXCEPT ![r] = x]
    BY <1>5 DEF ForwardMessage, RefuseForward, HandlerFails, DoHandle, SerialBefore
  <2>3. at' = at
    BY <2>1, <2>2 DEF TypeOK
  <2>4. \A q \in Requests : work[q] \in {"none", "over"} => work'[q] = work[q]
    BY <2>1, <2>2 DEF TypeOK
  <2>5. r \in late => work[r] = "handler"
    BY <2>1
  <2>6. work[r] = "wire" => at[r] = "back"
    BY DEF TypeOK
  <2>7. work[r] = "handler" /\ at[r] = "front" => front[r] = "local"
    OBVIOUS
  <2>8. Stages' /\ LateStages'
    <3>1. CASE work' = [work EXCEPT ![r] = "error"]
      BY <2>1, <2>3, <2>5, <2>6, <2>7, <3>1 DEF TypeOK
    <3>2. CASE work[r] = "wire" /\ \E x \in {"queued", "failed"} : work' = [work EXCEPT ![r] = x]
      BY <2>1, <2>3, <2>5, <2>6, <3>2 DEF TypeOK
    <3> QED BY <2>2, <3>1, <3>2
  <2> QED BY <2>1, <2>4, <2>8, SilentAnswers
<1>6. ASSUME NEW r \in Requests, Reply(r) PROVE Goal
  <2> DEFINE err == work[r] = "failed"
  <2>1. /\ front[r] = "forwarded" /\ Respond(r, err) /\ work[r] \in {"ok", "failed"}
        /\ work' = [work EXCEPT ![r] = "over"] /\ UNCHANGED <<at, late>>
    BY <1>6 DEF Reply
  <2>2. err \in BOOLEAN /\ (err \/ r \notin late)
    BY <2>1
  <2> HIDE DEF err
  <2>3. Answers' /\ OneResponse'
    BY <2>1, <2>2, RespondAnswers DEF TypeOK
  <2>4. front' = [front EXCEPT ![r] = "done"]
    BY <2>1 DEF Respond
  <2>5. Stages' /\ LateStages'
    BY <2>1, <2>4 DEF TypeOK
  <2> QED BY <2>3, <2>5
<1>7. ASSUME NEW r \in Requests, Handled(r) \/ ErrorHandled(r) PROVE Goal
  BY <1>7, ResponseAnswers DEF Handled, ErrorHandled
<1>8. ASSUME NEW w \in Where, NEW s \in Sessions, StartTask(w, s) PROVE Goal
  <2> DEFINE r == Head(waiting[w][s])
  <2>1. r \in Requests /\ work[r] = "queued"
    BY <1>8, StartedWasQueued DEF StartTask
  <2>2. UNCHANGED <<front, at, late, log>>
        /\ \E x \in {"handler", "error"} : work' = [work EXCEPT ![r] = x]
    BY <1>8 DEF StartTask
  <2> HIDE DEF r
  <2>3. Stages' /\ LateStages'
    BY <2>1, <2>2 DEF TypeOK
  <2>4. \A q \in Requests : work[q] \in {"none", "over"} => work'[q] = work[q]
    BY <2>1, <2>2
  <2> QED BY <2>2, <2>3, <2>4, SilentAnswers
<1>9. ASSUME NEW w \in Where, NEW s \in Sessions, TaskTimeout(w, s) PROVE Goal
  <2>1. work[current[w][s]] \in {"handler", "error"}
    BY <1>9 DEF TaskTimeout, CurrentRuns
  <2>2. UNCHANGED <<front, at, work, log>> /\ late' = late \cup {current[w][s]}
    BY <1>9 DEF TaskTimeout
  <2>3. Stages' /\ LateStages'
    BY <2>1, <2>2 DEF TypeOK
  <2>4. \A q \in Requests : (work[q] \in {"none", "over"} /\ q \in late') => q \in late
    BY <2>1, <2>2
  <2> QED BY <2>2, <2>3, <2>4, SilentAnswers
<1>10. ASSUME NEW s \in Sessions, SessionClose(s) PROVE Goal
  <2>1. UNCHANGED <<front, at, late, log>>
    BY <1>10 DEF SessionClose
  <2>2. \A q \in Requests : \/ work'[q] = work[q]
                            \/ work[q] = "queued" /\ at[q] = "front" /\ work'[q] = "dropped"
    BY <1>10 DEF SessionClose, Queues
  <2>3. Stages' /\ LateStages'
    BY <2>1, <2>2 DEF TypeOK
  <2> QED BY <2>1, <2>2, <2>3, SilentAnswers
<1>11. CASE UNCHANGED vars
  <2>1. UNCHANGED <<front, at, work, late, log>>
    BY <1>11 DEF vars
  <2> QED BY <2>1, SilentAnswers
<1> QED
  BY <1>1, <1>2, <1>3, <1>4, <1>5, <1>6, <1>7, <1>8, <1>9, <1>10, <1>11 DEF Next

-----------------------------------------------------------------------------
(* Queues *)

\* The types that the proofs about queues need.
LEMMA QueueTypes ==
    ASSUME TypeOK
    PROVE  /\ \A r \in Requests : at[r] \in Where /\ SessionOf[r] \in Sessions
           /\ \A w \in Where, s \in Sessions :
                 /\ Len(waiting[w][s]) \in Nat
                 /\ \A a \in 1..Len(waiting[w][s]) : waiting[w][s][a] \in Requests
                 /\ current[w][s] \in Requests \cup {None}
           /\ Len(entered) \in Nat
           /\ \A i \in 1..Len(entered) : entered[i] \in Requests
           /\ None \notin Requests
<1>1. \A r \in Requests : at[r] \in Where /\ SessionOf[r] \in Sessions
  BY RequestAssumption DEF TypeOK
<1>2. ASSUME NEW w \in Where, NEW s \in Sessions
      PROVE  /\ Len(waiting[w][s]) \in Nat
             /\ \A a \in 1..Len(waiting[w][s]) : waiting[w][s][a] \in Requests
             /\ current[w][s] \in Requests \cup {None}
  <2>1. waiting[w][s] \in Seq(Requests) /\ current[w][s] \in Requests \cup {None}
    BY DEF TypeOK
  <2> QED BY <2>1, LenProperties, ElementOfSeq
<1>3. Len(entered) \in Nat /\ \A i \in 1..Len(entered) : entered[i] \in Requests
  BY LenProperties, ElementOfSeq DEF TypeOK
<1> QED BY <1>1, <1>2, <1>3, RequestAssumption

\* A step that leaves the queues and what they know alone: it moves only
\* requests that no queue has.
LEMMA OutsideQueues ==
    ASSUME TypeOK, QueueInv, UNCHANGED <<open, waiting, current, late, entered>>,
           \A q \in Requests : \/ work'[q] = work[q] /\ at'[q] = at[q]
                               \/ /\ work[q] \in {"none", "wire"}
                                  /\ work'[q] \notin {"queued", "handler"}
    PROVE  QueueInv'
<1> DEFINE out(q) == work[q] \in {"none", "wire"}
           same(q) == work'[q] = work[q] /\ at'[q] = at[q]
<1>1. /\ Entered /\ Queues /\ QueuedWait /\ CurrentRuns /\ RunningIsCurrent /\ Fifo
      /\ UNCHANGED open /\ UNCHANGED waiting /\ UNCHANGED current /\ UNCHANGED late
      /\ UNCHANGED entered
  BY DEF QueueInv
<1>2. \A i \in 1..Len(entered) : entered[i] \in Requests /\ same(entered[i])
  BY <1>1, QueueTypes DEF Entered
<1>3. ASSUME NEW w \in Where, NEW s \in Sessions, NEW a \in 1..Len(waiting[w][s])
      PROVE  same(waiting[w][s][a])
  <2>1. waiting[w][s][a] \in Requests /\ work[waiting[w][s][a]] = "queued"
    BY <1>1, QueueTypes DEF Queues
  <2> QED BY <2>1
<1>4. ASSUME NEW w \in Where, NEW s \in Sessions, current[w][s] # None
      PROVE  same(current[w][s])
  <2>1. current[w][s] \in Requests /\ work[current[w][s]] \in {"handler", "error"}
    BY <1>1, <1>4, QueueTypes DEF CurrentRuns
  <2> QED BY <2>1
<1>5. \A q \in Requests : work'[q] \in {"queued", "handler"} => same(q)
  OBVIOUS
<1>6. Entered'
  BY <1>1, <1>2, <1>5 DEF Entered
<1>7. Queues'
  <2>1. ASSUME NEW w \in Where, NEW s \in Sessions, NEW a \in 1..Len(waiting[w][s])
        PROVE  /\ work'[waiting[w][s][a]] = "queued" /\ at'[waiting[w][s][a]] = w
               /\ SessionOf[waiting[w][s][a]] = s
    BY <1>1, <1>3 DEF Queues
  <2>2. ASSUME NEW w \in Where, NEW s \in Sessions, NEW a \in 1..Len(waiting[w][s]),
               NEW b \in 1..Len(waiting[w][s]), a < b
        PROVE  Before(waiting[w][s][a], waiting[w][s][b])'
    BY <1>1, <2>2 DEF Queues, Before
  <2> HIDE DEF out, same
  <2> QED BY <1>1, <2>1, <2>2 DEF Queues
<1>8. QueuedWait'
  BY <1>1, <1>5 DEF QueuedWait
<1>9. CurrentRuns'
  BY <1>1, <1>4 DEF CurrentRuns
<1>10. RunningIsCurrent'
  BY <1>1, <1>2 DEF RunningIsCurrent, Live
<1>11. Fifo'
  BY <1>1, <1>2 DEF Fifo, Live
<1> QED BY <1>6, <1>7, <1>8, <1>9, <1>10, <1>11 DEF QueueInv

\* A request enters a queue.
LEMMA EnqueueQueues ==
    ASSUME TypeOK, QueueInv, NEW r \in Requests, NEW w \in Where, work[r] \in {"none", "wire"},
           at' = [at EXCEPT ![r] = w], SerialBefore(r, w), UNCHANGED <<open, current, late>>
    PROVE  QueueInv'
<1> DEFINE s == SessionOf[r]
           n == Len(entered)
           k == Len(waiting[w][s])
           same(q) == q # r /\ work'[q] = work[q] /\ at'[q] = at[q]
<1>1. /\ Entered /\ Queues /\ QueuedWait /\ CurrentRuns /\ RunningIsCurrent /\ Fifo
      /\ UNCHANGED open /\ UNCHANGED current /\ UNCHANGED late
  BY DEF QueueInv
<1>2. s \in Sessions /\ n \in Nat /\ k \in Nat
  BY QueueTypes
<1>3. /\ work'[r] = "queued" /\ at'[r] = w
      /\ \A q \in Requests : q # r => same(q)
  BY DEF TypeOK, SerialBefore
<1>4. /\ Len(entered') = n + 1 /\ entered'[n + 1] = r
      /\ \A i \in 1..n : entered'[i] = entered[i]
  BY AppendProperties, LenProperties DEF SerialBefore, TypeOK
<1>5. /\ waiting'[w][s] = Append(waiting[w][s], r)
      /\ \A v \in Where, z \in Sessions : (v # w \/ z # s) => waiting'[v][z] = waiting[v][z]
  BY <1>2 DEF SerialBefore, TypeOK
<1>6. waiting[w][s] \in Seq(Requests)
  BY <1>2 DEF TypeOK
<1>7. /\ Len(waiting'[w][s]) = k + 1 /\ waiting'[w][s][k + 1] = r
      /\ \A a \in 1..k : waiting'[w][s][a] = waiting[w][s][a]
  BY <1>5, <1>6, AppendProperties, LenProperties
<1>8. \A i \in 1..n : entered[i] \in Requests /\ same(entered[i])
  BY <1>1, <1>3, QueueTypes DEF Entered
<1>9. ASSUME NEW v \in Where, NEW z \in Sessions, NEW a \in 1..Len(waiting[v][z])
      PROVE  waiting[v][z][a] \in Requests /\ same(waiting[v][z][a])
  <2>1. waiting[v][z][a] \in Requests /\ work[waiting[v][z][a]] = "queued"
    BY <1>1, QueueTypes DEF Queues
  <2> QED BY <1>3, <2>1
<1>10. ASSUME NEW v \in Where, NEW z \in Sessions, current[v][z] # None
       PROVE  same(current[v][z])
  <2>1. current[v][z] \in Requests /\ work[current[v][z]] \in {"handler", "error"}
    BY <1>1, <1>10, QueueTypes DEF CurrentRuns
  <2> QED BY <1>3, <2>1
<1> HIDE DEF n, k
<1>11. Entered'
  <2>1. ASSUME NEW i \in 1..n + 1, NEW j \in 1..n + 1, entered'[i] = entered'[j] PROVE i = j
    <3>1. CASE i \in 1..n /\ j \in 1..n
      BY <1>1, <1>4, <2>1, <3>1 DEF Entered, n
    <3>2. CASE i = n + 1 \/ j = n + 1
      BY <1>2, <1>4, <1>8, <2>1, <3>2
    <3> QED BY <1>2, <3>1, <3>2
  <2>2. \A i \in 1..n + 1 : work'[entered'[i]] \notin {"none", "wire"}
    <3>1. \A i \in 1..n : work'[entered'[i]] \notin {"none", "wire"}
      BY <1>1, <1>4, <1>8 DEF Entered, n
    <3> QED BY <1>2, <1>3, <1>4, <3>1
  <2>3. \A q \in Requests : work'[q] \in {"queued", "handler"} => \E i \in 1..n + 1 : entered'[i] = q
    <3>1. n + 1 \in 1..n + 1 /\ 1..n \subseteq 1..n + 1
      BY <1>2
    <3> QED BY <1>1, <1>3, <1>4, <3>1 DEF Entered, n
  <2> QED BY <1>4, <2>1, <2>2, <2>3 DEF Entered
<1>12. ASSUME NEW p, NEW q, Before(p, q) PROVE Before(p, q)'
  BY <1>2, <1>4, <1>12 DEF Before, n
<1>13. \A i \in 1..n : Before(entered[i], r)'
  BY <1>2, <1>4 DEF Before
<1>14. Queues'
  <2>1. ASSUME NEW v \in Where, NEW z \in Sessions, v # w \/ z # s
        PROVE  /\ \A a \in 1..Len(waiting'[v][z]) :
                     /\ work'[waiting'[v][z][a]] = "queued"
                     /\ at'[waiting'[v][z][a]] = v /\ SessionOf[waiting'[v][z][a]] = z
               /\ \A a, b \in 1..Len(waiting'[v][z]) :
                     a < b => Before(waiting[v][z][a], waiting[v][z][b])'
    <3>1. waiting'[v][z] = waiting[v][z]
      BY <1>5, <2>1
    <3>2. \A a \in 1..Len(waiting[v][z]) :
             /\ work'[waiting[v][z][a]] = "queued"
             /\ at'[waiting[v][z][a]] = v /\ SessionOf[waiting[v][z][a]] = z
      BY <1>1, <1>9 DEF Queues
    <3>3. ASSUME NEW a \in 1..Len(waiting[v][z]), NEW b \in 1..Len(waiting[v][z]), a < b
          PROVE  Before(waiting[v][z][a], waiting[v][z][b])'
      <4> DEFINE p == waiting[v][z][a]
                 q == waiting[v][z][b]
      <4>1. Before(p, q)
        BY <1>1, <3>3 DEF Queues
      <4>2. p = waiting'[v][z][a] /\ q = waiting'[v][z][b]
        BY <3>1
      <4> HIDE DEF p, q
      <4>3. \E i, j \in 1..Len(entered') : i < j /\ entered'[i] = p /\ entered'[j] = q
        BY <1>2, <1>4, <4>1 DEF Before, n
      <4> QED BY <4>2, <4>3 DEF Before
    <3> QED BY <3>1, <3>2, <3>3
  <2>2. \A a \in 1..k + 1 :
           /\ work'[waiting'[w][s][a]] = "queued"
           /\ at'[waiting'[w][s][a]] = w /\ SessionOf[waiting'[w][s][a]] = s
    <3>1. \A a \in 1..k :
             /\ work'[waiting[w][s][a]] = "queued"
             /\ at'[waiting[w][s][a]] = w /\ SessionOf[waiting[w][s][a]] = s
      BY <1>1, <1>2, <1>9 DEF Queues, k
    <3> QED BY <1>2, <1>3, <1>7, <3>1
  <2>3. ASSUME NEW a \in 1..k + 1, NEW b \in 1..k + 1, a < b
        PROVE  Before(waiting[w][s][a], waiting[w][s][b])'
    <3> DEFINE p == waiting'[w][s][a]
               q == waiting'[w][s][b]
    <3>1. a \in 1..k /\ p = waiting[w][s][a]
      BY <1>2, <1>7, <2>3
    <3> HIDE DEF p, q
    <3>2. CASE b = k + 1
      <4>1. q = r
        BY <1>7, <3>2 DEF q
      <4>2. work[p] = "queued" /\ p \in Requests
        BY <1>1, <1>2, <1>9, <3>1 DEF Queues, k
      <4>3. \E i \in 1..n : entered[i] = p
        BY <1>1, <4>2 DEF Entered, n
      <4>4. \E i, j \in 1..Len(entered') : i < j /\ entered'[i] = p /\ entered'[j] = q
        BY <1>2, <1>4, <4>1, <4>3
      <4> QED BY <4>4 DEF Before, p, q
    <3>3. CASE b \in 1..k
      <4>1. q = waiting[w][s][b]
        BY <1>7, <3>3 DEF q
      <4>2. Before(p, q)
        BY <1>1, <1>2, <2>3, <3>1, <3>3, <4>1 DEF Queues, k
      <4>3. \E i, j \in 1..Len(entered') : i < j /\ entered'[i] = p /\ entered'[j] = q
        BY <1>2, <1>4, <4>2 DEF Before, n
      <4> QED BY <4>3 DEF Before, p, q
    <3> QED BY <1>2, <3>2, <3>3
  <2>4. \A v \in Where, z \in Sessions :
           /\ \A a \in 1..Len(waiting'[v][z]) :
                 /\ work'[waiting'[v][z][a]] = "queued"
                 /\ at'[waiting'[v][z][a]] = v /\ SessionOf[waiting'[v][z][a]] = z
           /\ \A a, b \in 1..Len(waiting'[v][z]) :
                 a < b => Before(waiting[v][z][a], waiting[v][z][b])'
    <3> SUFFICES ASSUME NEW v \in Where, NEW z \in Sessions
                 PROVE  /\ \A a \in 1..Len(waiting'[v][z]) :
                              /\ work'[waiting'[v][z][a]] = "queued"
                              /\ at'[waiting'[v][z][a]] = v /\ SessionOf[waiting'[v][z][a]] = z
                        /\ \A a, b \in 1..Len(waiting'[v][z]) :
                              a < b => Before(waiting[v][z][a], waiting[v][z][b])'
      OBVIOUS
    <3>1. CASE v = w /\ z = s
      <4> HIDE DEF s
      <4>1. \A a, b \in 1..k + 1 : a < b => Before(waiting[w][s][a], waiting[w][s][b])'
        BY <2>3
      <4> QED BY <1>7, <2>2, <3>1, <4>1
    <3>2. CASE v # w \/ z # s
      BY <2>1, <3>2
    <3> QED BY <3>1, <3>2
  <2> QED BY <2>4 DEF Queues
<1>15. QueuedWait'
  <2> SUFFICES ASSUME NEW q \in Requests, work'[q] = "queued"
               PROVE  \E a \in 1..Len(waiting'[at'[q]][SessionOf[q]]) :
                          waiting'[at'[q]][SessionOf[q]][a] = q
    BY DEF QueuedWait
  <2>1. CASE q = r
    BY <1>2, <1>3, <1>7, <2>1
  <2>2. CASE q # r
    <3>1. work[q] = "queued" /\ at'[q] = at[q]
      BY <1>3, <2>2
    <3>2. PICK a \in 1..Len(waiting[at[q]][SessionOf[q]]) : waiting[at[q]][SessionOf[q]][a] = q
      BY <1>1, <3>1 DEF QueuedWait
    <3>3. at[q] \in Where /\ SessionOf[q] \in Sessions
      BY QueueTypes
    <3>4. CASE at[q] = w /\ SessionOf[q] = s
      <4>1. a \in 1..k /\ waiting[w][s][a] = q
        BY <3>2, <3>4 DEF k
      <4>2. a \in 1..Len(waiting'[w][s]) /\ waiting'[w][s][a] = q
        BY <1>2, <1>7, <4>1
      <4> QED BY <3>1, <3>4, <4>2
    <3>5. CASE at[q] # w \/ SessionOf[q] # s
      BY <1>5, <3>1, <3>2, <3>3, <3>5
    <3> QED BY <3>4, <3>5
  <2> QED BY <2>1, <2>2
<1>16. CurrentRuns'
  BY <1>1, <1>10 DEF CurrentRuns
<1>17. RunningIsCurrent'
  BY <1>1, <1>2, <1>3, <1>4, <1>8 DEF RunningIsCurrent, Live, n
<1>18. Fifo'
  <2> SUFFICES ASSUME NEW i \in 1..n + 1, NEW j \in 1..n + 1, i < j,
                      at'[entered'[i]] = at'[entered'[j]],
                      SessionOf[entered'[i]] = SessionOf[entered'[j]],
                      at'[entered'[i]] = "back" \/ SessionOf[entered'[i]] \in open',
                      entered'[i] \notin late',
                      work'[entered'[i]] \in {"queued", "handler", "error"}
               PROVE  work'[entered'[j]] = "queued"
    BY <1>4 DEF Fifo, Live
  <2>1. CASE j = n + 1
    BY <1>3, <1>4, <2>1
  <2>2. CASE j \in 1..n
    <3>1. /\ i \in 1..n /\ entered'[i] = entered[i] /\ entered'[j] = entered[j]
          /\ same(entered[i]) /\ same(entered[j])
      BY <1>2, <1>4, <1>8, <2>2
    <3>2. Live(entered[i])
      BY <1>1, <3>1 DEF Live
    <3> QED BY <1>1, <2>2, <3>1, <3>2 DEF Fifo, n
  <2> QED BY <1>2, <2>1, <2>2
<1> QED BY <1>11, <1>14, <1>15, <1>16, <1>17, <1>18 DEF QueueInv

\* A request goes on, or leaves its queue with its answer.
LEMMA MoveOn ==
    ASSUME TypeOK, QueueInv, NEW r \in Requests, NEW x,
           UNCHANGED <<at, open, waiting, late, entered>>, work' = [work EXCEPT ![r] = x],
           \/ work[r] = "handler" /\ x = "error" /\ UNCHANGED current
           \/ /\ work[r] \in {"handler", "error", "ok", "failed"} /\ x \in {"over", "ok", "failed"}
              /\ \A v \in Where, z \in Sessions :
                    current'[v][z] = IF current[v][z] = r THEN None ELSE current[v][z]
    PROVE  QueueInv'
<1>1. /\ Entered /\ Queues /\ QueuedWait /\ CurrentRuns /\ RunningIsCurrent /\ Fifo
      /\ UNCHANGED open /\ UNCHANGED waiting /\ UNCHANGED late
      /\ UNCHANGED entered /\ UNCHANGED at
  BY DEF QueueInv
<1>2. /\ work'[r] = x /\ \A q \in Requests : q # r => work'[q] = work[q]
      /\ x \in {"error", "over", "ok", "failed"}
      /\ work[r] \in {"handler", "error", "ok", "failed"}
  BY DEF TypeOK
<1>3. \A i \in 1..Len(entered) : entered[i] \in Requests
  BY QueueTypes
<1>4. Entered'
  BY <1>1, <1>2, <1>3 DEF Entered
<1>5. Queues'
  <2>1. ASSUME NEW v \in Where, NEW z \in Sessions, NEW a \in 1..Len(waiting[v][z])
        PROVE  work'[waiting[v][z][a]] = work[waiting[v][z][a]]
    <3>1. waiting[v][z][a] \in Requests /\ work[waiting[v][z][a]] = "queued"
      BY <1>1, QueueTypes DEF Queues
    <3> QED BY <1>2, <3>1
  <2> QED BY <1>1, <2>1 DEF Queues, Before
<1>6. QueuedWait'
  <2>1. \A q \in Requests : work'[q] = "queued" => work[q] = "queued"
    BY <1>2
  <2> QED BY <1>1, <2>1 DEF QueuedWait
<1>7. CurrentRuns'
  <2> SUFFICES ASSUME NEW v \in Where, NEW z \in Sessions, current'[v][z] # None
               PROVE  /\ at'[current'[v][z]] = v /\ SessionOf[current'[v][z]] = z
                      /\ work'[current'[v][z]] \in {"handler", "error"}
                      /\ current'[v][z] \notin late'
    BY DEF CurrentRuns
  <2>1. /\ current'[v][z] = current[v][z]
        /\ current[v][z] = r => x = "error"
    BY <1>2
  <2>2. current[v][z] \in Requests
    BY <2>1, QueueTypes
  <2>3. /\ at[current[v][z]] = v /\ SessionOf[current[v][z]] = z
        /\ work[current[v][z]] \in {"handler", "error"} /\ current[v][z] \notin late
    BY <1>1, <2>1 DEF CurrentRuns
  <2> QED BY <1>1, <1>2, <2>1, <2>2, <2>3
<1>8. RunningIsCurrent'
  <2> SUFFICES ASSUME NEW i \in 1..Len(entered), work'[entered[i]] \in {"handler", "error"},
                      entered[i] \notin late, Live(entered[i])
               PROVE  current'[at[entered[i]]][SessionOf[entered[i]]] = entered[i]
    BY <1>1 DEF RunningIsCurrent, Live
  <2>1. entered[i] \in Requests /\ work[entered[i]] \in {"handler", "error"}
    BY <1>2, <1>3
  <2>2. current[at[entered[i]]][SessionOf[entered[i]]] = entered[i]
    BY <1>1, <2>1 DEF RunningIsCurrent
  <2>3. at[entered[i]] \in Where /\ SessionOf[entered[i]] \in Sessions
    BY <2>1, QueueTypes
  <2>4. x = "error" \/ entered[i] # r
    BY <1>2
  <2> QED BY <1>2, <2>2, <2>3, <2>4
<1>9. Fifo'
  <2>1. \A q \in Requests : (work'[q] \in {"queued", "handler", "error"}
                                => work[q] \in {"queued", "handler", "error"})
                            /\ (work[q] = "queued" => work'[q] = "queued")
    BY <1>2
  <2> QED BY <1>1, <1>3, <2>1 DEF Fifo, Live
<1> QED BY <1>4, <1>5, <1>6, <1>7, <1>8, <1>9 DEF QueueInv

\* A queue begins its next task: whoever came before it is through, or late.
LEMMA StartTaskQueues ==
    ASSUME TypeOK, LateStages, QueueInv, NEW w \in Where, NEW s \in Sessions, StartTask(w, s)
    PROVE  QueueInv'
<1> DEFINE r == Head(waiting[w][s])
           k == Len(waiting[w][s])
<1>1. /\ Entered /\ Queues /\ QueuedWait /\ CurrentRuns /\ RunningIsCurrent /\ Fifo
      /\ UNCHANGED open /\ UNCHANGED at /\ UNCHANGED late /\ UNCHANGED entered
  BY DEF QueueInv, StartTask
<1>2. waiting[w][s] # <<>> /\ waiting[w][s] \in Seq(Requests) /\ current[w][s] = None
  BY DEF StartTask, TypeOK
<1>3. /\ r = waiting[w][s][1] /\ k \in Nat /\ 1 \in 1..k
      /\ r \in Requests /\ work[r] = "queued" /\ at[r] = w /\ SessionOf[r] = s
  BY <1>1, <1>2, StartedWasQueued
<1>4. /\ work'[r] \in {"handler", "error"}
      /\ \A q \in Requests : q # r => work'[q] = work[q]
  BY <1>3 DEF StartTask, TypeOK
<1>5. /\ current'[w][s] = r
      /\ \A v \in Where, z \in Sessions : (v # w \/ z # s) =>
            current'[v][z] = current[v][z] /\ waiting'[v][z] = waiting[v][z]
      /\ waiting'[w][s] = Tail(waiting[w][s])
  BY DEF StartTask, TypeOK
<1>6. /\ Len(waiting'[w][s]) = k - 1
      /\ \A a \in 1..k - 1 : waiting'[w][s][a] = waiting[w][s][a + 1]
  BY <1>2, <1>5, HeadTailProperties
<1>7. \A i \in 1..Len(entered) : entered[i] \in Requests
  BY QueueTypes
<1>8. ~Before(r, r) /\ \A q : Before(r, q) => ~Before(q, r)
  BY <1>1, QueueTypes DEF Entered, Before
<1>9. r \notin late
  BY <1>3 DEF LateStages
<1> HIDE DEF r, k
<1>10. Entered'
  BY <1>1, <1>3, <1>4, <1>7 DEF Entered
<1>11. Queues'
  <2> SUFFICES ASSUME NEW v \in Where, NEW z \in Sessions
               PROVE  /\ \A a \in 1..Len(waiting'[v][z]) :
                            /\ work'[waiting'[v][z][a]] = "queued"
                            /\ at[waiting'[v][z][a]] = v /\ SessionOf[waiting'[v][z][a]] = z
                      /\ \A a, b \in 1..Len(waiting'[v][z]) :
                            a < b => Before(waiting'[v][z][a], waiting'[v][z][b])
    BY <1>1 DEF Queues, Before
  <2>1. CASE v # w \/ z # s
    <3>1. \A a \in 1..Len(waiting[v][z]) : waiting[v][z][a] \in Requests /\ waiting[v][z][a] # r
      BY <1>1, <1>3, <2>1, QueueTypes DEF Queues
    <3>2. waiting'[v][z] = waiting[v][z]
      BY <1>5, <2>1
    <3>3. \A a \in 1..Len(waiting[v][z]) :
             /\ work'[waiting[v][z][a]] = "queued"
             /\ at[waiting[v][z][a]] = v /\ SessionOf[waiting[v][z][a]] = z
      BY <1>1, <1>4, <3>1 DEF Queues
    <3> QED BY <1>1, <3>2, <3>3 DEF Queues
  <2>2. CASE v = w /\ z = s
    <3>1. \A a \in 1..k - 1 : a + 1 \in 1..k
      BY <1>3
    <3>2. \A a \in 1..k - 1 : Before(r, waiting[w][s][a + 1])
      BY <1>1, <1>3, <3>1 DEF Queues, k
    <3>3. \A a \in 1..k - 1 : waiting[w][s][a + 1] \in Requests /\ waiting[w][s][a + 1] # r
      BY <1>8, <3>1, <3>2, QueueTypes DEF k
    <3>4. \A a \in 1..k - 1 :
             /\ work'[waiting[w][s][a + 1]] = "queued"
             /\ at[waiting[w][s][a + 1]] = w /\ SessionOf[waiting[w][s][a + 1]] = s
      BY <1>1, <1>4, <3>1, <3>3 DEF Queues, k
    <3>5. \A a, b \in 1..k - 1 : a < b => Before(waiting[w][s][a + 1], waiting[w][s][b + 1])
      BY <1>1, <1>3, <3>1 DEF Queues, k
    <3>6. \A a \in 1..k - 1 :
             /\ work'[waiting'[w][s][a]] = "queued"
             /\ at[waiting'[w][s][a]] = w /\ SessionOf[waiting'[w][s][a]] = s
      BY <1>6, <3>4
    <3>7. ASSUME NEW a \in 1..k - 1, NEW b \in 1..k - 1, a < b
          PROVE  Before(waiting'[w][s][a], waiting'[w][s][b])
      <4>1. Before(waiting[w][s][a + 1], waiting[w][s][b + 1])
        BY <3>5, <3>7
      <4>2. waiting'[w][s][a] = waiting[w][s][a + 1] /\ waiting'[w][s][b] = waiting[w][s][b + 1]
        BY <1>6
      <4> QED BY <4>1, <4>2
    <3> QED BY <1>6, <2>2, <3>6, <3>7
  <2> QED BY <2>1, <2>2
<1>12. QueuedWait'
  <2> SUFFICES ASSUME NEW q \in Requests, work'[q] = "queued"
               PROVE  \E a \in 1..Len(waiting'[at[q]][SessionOf[q]]) :
                          waiting'[at[q]][SessionOf[q]][a] = q
    BY <1>1 DEF QueuedWait
  <2>1. q # r /\ work[q] = "queued"
    BY <1>4
  <2>2. PICK a \in 1..Len(waiting[at[q]][SessionOf[q]]) : waiting[at[q]][SessionOf[q]][a] = q
    BY <1>1, <2>1 DEF QueuedWait
  <2>3. at[q] \in Where /\ SessionOf[q] \in Sessions
    BY QueueTypes
  <2>4. CASE at[q] = w /\ SessionOf[q] = s
    <3>1. a \in 1..k /\ a # 1 /\ waiting[w][s][a] = q
      BY <1>3, <2>1, <2>2, <2>4 DEF k
    <3>2. a - 1 \in 1..k - 1 /\ (a - 1) + 1 = a
      BY <1>3, <3>1
    <3>3. waiting'[w][s][a - 1] = q
      BY <1>6, <3>1, <3>2
    <3> QED BY <1>6, <2>4, <3>2, <3>3
  <2>5. CASE at[q] # w \/ SessionOf[q] # s
    BY <1>5, <2>2, <2>3, <2>5
  <2> QED BY <2>4, <2>5
<1>13. CurrentRuns'
  <2> SUFFICES ASSUME NEW v \in Where, NEW z \in Sessions, current'[v][z] # None
               PROVE  /\ at[current'[v][z]] = v /\ SessionOf[current'[v][z]] = z
                      /\ work'[current'[v][z]] \in {"handler", "error"}
                      /\ current'[v][z] \notin late
    BY <1>1 DEF CurrentRuns
  <2>1. CASE v = w /\ z = s
    BY <1>3, <1>4, <1>5, <1>9, <2>1
  <2>2. CASE v # w \/ z # s
    <3>1. current'[v][z] = current[v][z] /\ current[v][z] \in Requests
      BY <1>5, <2>2, QueueTypes
    <3>2. /\ at[current[v][z]] = v /\ SessionOf[current[v][z]] = z
          /\ work[current[v][z]] \in {"handler", "error"} /\ current[v][z] \notin late
      BY <1>1, <3>1 DEF CurrentRuns
    <3> QED BY <1>3, <1>4, <3>1, <3>2
  <2> QED BY <2>1, <2>2
<1>14. \A i \in 1..Len(entered) :
          (/\ entered[i] # r /\ work[entered[i]] \in {"handler", "error"} /\ entered[i] \notin late
           /\ Live(entered[i])) => at[entered[i]] # w \/ SessionOf[entered[i]] # s
  BY <1>1, <1>2, <1>7, QueueTypes DEF RunningIsCurrent
<1>15. RunningIsCurrent'
  <2> SUFFICES ASSUME NEW i \in 1..Len(entered), work'[entered[i]] \in {"handler", "error"},
                      entered[i] \notin late, Live(entered[i])
               PROVE  current'[at[entered[i]]][SessionOf[entered[i]]] = entered[i]
    BY <1>1 DEF RunningIsCurrent, Live
  <2>1. CASE entered[i] = r
    BY <1>3, <1>5, <2>1
  <2>2. CASE entered[i] # r
    <3>1. work[entered[i]] \in {"handler", "error"} /\ entered[i] \in Requests
      BY <1>4, <1>7, <2>2
    <3>2. current[at[entered[i]]][SessionOf[entered[i]]] = entered[i]
      BY <1>1, <3>1 DEF RunningIsCurrent
    <3>3. at[entered[i]] \in Where /\ SessionOf[entered[i]] \in Sessions
      BY <3>1, QueueTypes
    <3> QED BY <1>5, <1>14, <2>2, <3>1, <3>2, <3>3
  <2> QED BY <2>1, <2>2
<1>16. Fifo'
  <2> SUFFICES ASSUME NEW i \in 1..Len(entered), NEW j \in 1..Len(entered), i < j,
                      at[entered[i]] = at[entered[j]],
                      SessionOf[entered[i]] = SessionOf[entered[j]],
                      Live(entered[i]), entered[i] \notin late,
                      work'[entered[i]] \in {"queued", "handler", "error"}
               PROVE  work'[entered[j]] = "queued"
    BY <1>1 DEF Fifo, Live
  <2>1. work[entered[i]] \in {"queued", "handler", "error"}
    BY <1>3, <1>4, <1>7
  <2>2. work[entered[j]] = "queued"
    BY <1>1, <2>1 DEF Fifo
  <2>3. ASSUME entered[j] = r PROVE FALSE
    <3>1. entered[i] # r
      BY <1>1, <2>3 DEF Entered
    <3>2. work[entered[i]] = "queued"
      BY <1>3, <1>14, <2>1, <2>3, <3>1
    <3> DEFINE q == entered[i]
    <3>3. q \in Requests /\ at[q] = w /\ SessionOf[q] = s /\ work[q] = "queued"
      BY <1>3, <1>7, <2>3, <3>2
    <3> HIDE DEF q
    <3>4. \E a \in 1..Len(waiting[at[q]][SessionOf[q]]) : waiting[at[q]][SessionOf[q]][a] = q
      BY <1>1, <3>3 DEF QueuedWait
    <3>5. PICK a \in 1..Len(waiting[w][s]) : waiting[w][s][a] = entered[i]
      BY <3>3, <3>4 DEF q
    <3>6. a # 1 /\ a \in 1..k
      BY <1>3, <3>1, <3>5 DEF k
    <3>7. 1 < a
      BY <1>3, <3>6
    <3>8. Before(r, entered[i])
      BY <1>1, <1>3, <3>5, <3>6, <3>7 DEF Queues, k
    <3>9. Before(entered[i], r)
      BY <2>3 DEF Before
    <3> QED BY <1>8, <3>8, <3>9
  <2> QED BY <1>4, <1>7, <2>2, <2>3
<1> QED BY <1>10, <1>11, <1>12, <1>13, <1>15, <1>16 DEF QueueInv

\* A queue goes on without its task: nobody waits for this one any more.
LEMMA TaskTimeoutQueues ==
    ASSUME TypeOK, QueueInv, NEW w \in Where, NEW s \in Sessions, TaskTimeout(w, s)
    PROVE  QueueInv'
<1> DEFINE r == current[w][s]
<1>1. /\ Entered /\ Queues /\ QueuedWait /\ CurrentRuns /\ RunningIsCurrent /\ Fifo
      /\ UNCHANGED open /\ UNCHANGED at /\ UNCHANGED work /\ UNCHANGED waiting
      /\ UNCHANGED entered
  BY DEF QueueInv, TaskTimeout
<1>2. late' = late \cup {r} /\ r # None
  BY DEF TaskTimeout
<1>3. /\ current'[w][s] = None
      /\ \A v \in Where, z \in Sessions : (v # w \/ z # s) => current'[v][z] = current[v][z]
  BY DEF TaskTimeout, TypeOK
<1>4. r \in Requests /\ at[r] = w /\ SessionOf[r] = s
  BY <1>1, <1>2, QueueTypes DEF CurrentRuns
<1>5. \A i \in 1..Len(entered) : entered[i] \in Requests
  BY QueueTypes
<1> HIDE DEF r
<1>6. Entered' /\ Queues' /\ QueuedWait'
  BY <1>1 DEF Entered, Queues, QueuedWait, Before
<1>7. CurrentRuns'
  <2> SUFFICES ASSUME NEW v \in Where, NEW z \in Sessions, current'[v][z] # None
               PROVE  /\ at[current'[v][z]] = v /\ SessionOf[current'[v][z]] = z
                      /\ work[current'[v][z]] \in {"handler", "error"}
                      /\ current'[v][z] \notin late'
    BY <1>1 DEF CurrentRuns
  <2>1. (v # w \/ z # s) /\ current'[v][z] = current[v][z]
    BY <1>3
  <2>2. /\ at[current[v][z]] = v /\ SessionOf[current[v][z]] = z
        /\ work[current[v][z]] \in {"handler", "error"} /\ current[v][z] \notin late
    BY <1>1, <2>1 DEF CurrentRuns
  <2> QED BY <1>2, <1>4, <2>1, <2>2
<1>8. RunningIsCurrent'
  <2> SUFFICES ASSUME NEW i \in 1..Len(entered), work[entered[i]] \in {"handler", "error"},
                      entered[i] \notin late', Live(entered[i])
               PROVE  current'[at[entered[i]]][SessionOf[entered[i]]] = entered[i]
    BY <1>1 DEF RunningIsCurrent, Live
  <2>1. entered[i] \notin late /\ entered[i] # r
    BY <1>2
  <2>2. current[at[entered[i]]][SessionOf[entered[i]]] = entered[i]
    BY <1>1, <2>1 DEF RunningIsCurrent
  <2>3. at[entered[i]] \in Where /\ SessionOf[entered[i]] \in Sessions
    BY <1>5, QueueTypes
  <2> QED BY <1>3, <2>1, <2>2, <2>3 DEF r
<1>9. Fifo'
  BY <1>1, <1>2 DEF Fifo, Live
<1> QED BY <1>6, <1>7, <1>8, <1>9 DEF QueueInv

\* A session closes: its queue at the frontend drops what waits.
LEMMA SessionCloseQueues ==
    ASSUME TypeOK, QueueInv, NEW s \in Sessions, SessionClose(s)
    PROVE  QueueInv'
<1> DEFINE drop(q) == \E a \in 1..Len(waiting["front"][s]) : waiting["front"][s][a] = q
           other(v, z) == v # "front" \/ z # s
<1>1. /\ Entered /\ Queues /\ QueuedWait /\ CurrentRuns /\ RunningIsCurrent /\ Fifo
      /\ UNCHANGED at /\ UNCHANGED late /\ UNCHANGED entered /\ open' = open \ {s}
  BY DEF QueueInv, SessionClose
<1>2. \A q \in Requests : /\ drop(q) => work'[q] = "dropped"
                          /\ ~drop(q) => work'[q] = work[q]
  BY DEF SessionClose
<1>3. /\ current'["front"][s] = None /\ waiting'["front"][s] = <<>>
      /\ \A v \in Where, z \in Sessions : other(v, z) =>
            current'[v][z] = current[v][z] /\ waiting'[v][z] = waiting[v][z]
  BY DEF SessionClose, TypeOK, Where
<1>4. \A q \in Requests : drop(q) => /\ work[q] = "queued" /\ at[q] = "front"
                                     /\ SessionOf[q] = s
  BY <1>1 DEF Queues, Where
<1>5. \A i \in 1..Len(entered) : entered[i] \in Requests
  BY QueueTypes
<1>6. \A q \in Requests : Live(q)' => Live(q) /\ other(at[q], SessionOf[q])
  BY <1>1, QueueTypes DEF Live
<1>7. Len(<<>>) = 0
  OBVIOUS
<1> HIDE DEF drop, other
<1>8. Entered'
  <2>1. \A q \in Requests : /\ work[q] \notin {"none", "wire"} => work'[q] \notin {"none", "wire"}
                            /\ work'[q] \in {"queued", "handler"} => work'[q] = work[q]
    BY <1>2
  <2> QED BY <1>1, <1>5, <2>1 DEF Entered
<1>9. Queues'
  <2> SUFFICES ASSUME NEW v \in Where, NEW z \in Sessions
               PROVE  /\ \A a \in 1..Len(waiting'[v][z]) :
                            /\ work'[waiting'[v][z][a]] = "queued"
                            /\ at[waiting'[v][z][a]] = v /\ SessionOf[waiting'[v][z][a]] = z
                      /\ \A a, b \in 1..Len(waiting'[v][z]) :
                            a < b => Before(waiting'[v][z][a], waiting'[v][z][b])
    BY <1>1 DEF Queues, Before
  <2>1. CASE ~other(v, z)
    <3>1. waiting'[v][z] = <<>>
      BY <1>3, <2>1 DEF other
    <3> QED BY <1>7, <3>1
  <2>2. CASE other(v, z)
    <3>1. waiting'[v][z] = waiting[v][z]
      BY <1>3, <2>2
    <3>2. \A a \in 1..Len(waiting[v][z]) :
             /\ waiting[v][z][a] \in Requests /\ work[waiting[v][z][a]] = "queued"
             /\ at[waiting[v][z][a]] = v /\ SessionOf[waiting[v][z][a]] = z
      BY <1>1, QueueTypes DEF Queues
    <3>3. \A a \in 1..Len(waiting[v][z]) : work'[waiting[v][z][a]] = "queued"
      BY <1>2, <1>4, <2>2, <3>2 DEF other
    <3> QED BY <1>1, <3>1, <3>2, <3>3 DEF Queues
  <2> QED BY <2>1, <2>2
<1>10. QueuedWait'
  <2> SUFFICES ASSUME NEW q \in Requests, work'[q] = "queued"
               PROVE  \E a \in 1..Len(waiting'[at[q]][SessionOf[q]]) :
                          waiting'[at[q]][SessionOf[q]][a] = q
    BY <1>1 DEF QueuedWait
  <2>1. ~drop(q) /\ work[q] = "queued"
    BY <1>2
  <2>2. PICK a \in 1..Len(waiting[at[q]][SessionOf[q]]) : waiting[at[q]][SessionOf[q]][a] = q
    BY <1>1, <2>1 DEF QueuedWait
  <2>3. other(at[q], SessionOf[q])
    BY <2>1, <2>2 DEF drop, other
  <2>4. at[q] \in Where /\ SessionOf[q] \in Sessions
    BY QueueTypes
  <2> QED BY <1>3, <2>2, <2>3, <2>4
<1>11. CurrentRuns'
  <2> SUFFICES ASSUME NEW v \in Where, NEW z \in Sessions, current'[v][z] # None
               PROVE  /\ at[current'[v][z]] = v /\ SessionOf[current'[v][z]] = z
                      /\ work'[current'[v][z]] \in {"handler", "error"}
                      /\ current'[v][z] \notin late
    BY <1>1 DEF CurrentRuns
  <2>1. current'[v][z] = current[v][z]
    BY <1>3 DEF other
  <2>2. current[v][z] \in Requests
    BY <2>1, QueueTypes
  <2>3. /\ at[current[v][z]] = v /\ SessionOf[current[v][z]] = z
        /\ work[current[v][z]] \in {"handler", "error"} /\ current[v][z] \notin late
    BY <1>1, <2>1 DEF CurrentRuns
  <2> QED BY <1>2, <1>4, <2>1, <2>2, <2>3
<1>12. RunningIsCurrent'
  <2> SUFFICES ASSUME NEW i \in 1..Len(entered), work'[entered[i]] \in {"handler", "error"},
                      entered[i] \notin late, Live(entered[i])'
               PROVE  current'[at[entered[i]]][SessionOf[entered[i]]] = entered[i]
    BY <1>1 DEF RunningIsCurrent, Live
  <2>1. work[entered[i]] \in {"handler", "error"} /\ entered[i] \in Requests
    BY <1>2, <1>5
  <2>2. Live(entered[i]) /\ other(at[entered[i]], SessionOf[entered[i]])
    BY <1>1, <1>6, <2>1 DEF Live
  <2>3. current[at[entered[i]]][SessionOf[entered[i]]] = entered[i]
    BY <1>1, <2>1, <2>2 DEF RunningIsCurrent
  <2>4. at[entered[i]] \in Where /\ SessionOf[entered[i]] \in Sessions
    BY <2>1, QueueTypes
  <2> QED BY <1>3, <2>2, <2>3, <2>4
<1>13. Fifo'
  <2> SUFFICES ASSUME NEW i \in 1..Len(entered), NEW j \in 1..Len(entered), i < j,
                      at[entered[i]] = at[entered[j]],
                      SessionOf[entered[i]] = SessionOf[entered[j]],
                      Live(entered[i])', entered[i] \notin late,
                      work'[entered[i]] \in {"queued", "handler", "error"}
               PROVE  work'[entered[j]] = "queued"
    BY <1>1 DEF Fifo, Live
  <2>1. /\ work[entered[i]] \in {"queued", "handler", "error"}
        /\ entered[i] \in Requests /\ entered[j] \in Requests
    BY <1>2, <1>5
  <2>2. Live(entered[i]) /\ other(at[entered[i]], SessionOf[entered[i]])
    BY <1>1, <1>6, <2>1 DEF Live
  <2>3. work[entered[j]] = "queued"
    BY <1>1, <2>1, <2>2 DEF Fifo
  <2> QED BY <1>2, <1>4, <2>1, <2>2, <2>3 DEF other
<1> QED BY <1>8, <1>9, <1>10, <1>11, <1>12, <1>13 DEF QueueInv

LEMMA StepQueues ==
    ASSUME TypeOK, Stages, LateStages, QueueInv, [Next]_vars
    PROVE  QueueInv'
<1> DEFINE same(q) == work'[q] = work[q] /\ at'[q] = at[q]
           into(q) == work[q] \in {"none", "wire"} /\ work'[q] \notin {"queued", "handler"}
           still   == UNCHANGED <<open, waiting, current, late, entered>>
<1>1. ASSUME NEW r \in Requests,
             \/ IgnoreMessage(r) \/ GlobalHandle(r) \/ GlobalFilterFails(r)
             \/ RefuseMessage(r) \/ GlobalErrorHandled(r) \/ NoProxy(r) \/ RpcFails(r)
      PROVE  QueueInv'
  <2>1. UNCHANGED handling /\ UNCHANGED open
    BY <1>1 DEF IgnoreMessage, GlobalHandle, GlobalFilterFails, RefuseMessage,
                GlobalErrorHandled, NoProxy, RpcFails
  <2> QED BY <2>1, OutsideQueues DEF handling
<1>2. ASSUME NEW r \in Requests, NEW w \in Where, DoHandle(r, w), UNCHANGED open,
             work[r] \in {"none", "wire"}
      PROVE  QueueInv'
  <2>1. at' = [at EXCEPT ![r] = w] /\ UNCHANGED <<current, late>>
    BY <1>2 DEF DoHandle
  <2>2. CASE SerialBefore(r, w)
    BY <1>2, <2>1, <2>2, EnqueueQueues
  <2>3. CASE work' = [work EXCEPT ![r] = "error"] /\ UNCHANGED <<waiting, entered>>
    <3>1. \A q \in Requests : same(q) \/ into(q)
      BY <1>2, <2>1, <2>3 DEF TypeOK
    <3> QED BY <1>2, <2>1, <2>3, <3>1, OutsideQueues
  <2> QED BY <1>2, <2>2, <2>3 DEF DoHandle
<1>3. ASSUME NEW r \in Requests, HandleLocally(r) \/ ForwardMessage(r) PROVE QueueInv'
  <2>1. UNCHANGED open /\ work[r] \in {"none", "wire"}
    BY <1>3 DEF HandleLocally, ForwardMessage, Stages
  <2> QED BY <1>2, <1>3, <2>1 DEF HandleLocally, ForwardMessage, Where
<1>4. ASSUME NEW r \in Requests, DoForward(r) \/ RefuseForward(r) PROVE QueueInv'
  <2>1. work[r] \in {"none", "wire"} /\ still
    BY <1>4 DEF DoForward, RefuseForward, Stages
  <2>2. \A q \in Requests : same(q) \/ into(q)
    BY <1>4, <2>1 DEF DoForward, RefuseForward, TypeOK
  <2> QED BY <2>1, <2>2, OutsideQueues
<1>5. ASSUME NEW r \in Requests, HandlerFails(r) PROVE QueueInv'
  BY <1>5, MoveOn DEF HandlerFails
<1>6. ASSUME NEW r \in Requests, Reply(r) PROVE QueueInv'
  <2>1. /\ work[r] \in {"ok", "failed"} /\ work' = [work EXCEPT ![r] = "over"]
        /\ UNCHANGED <<at, open, waiting, late, entered>> /\ UNCHANGED current
    BY <1>6 DEF Reply
  <2>2. \A v \in Where, z \in Sessions : current[v][z] # r
    BY <2>1, RequestAssumption DEF QueueInv, CurrentRuns
  <2> QED BY <2>1, <2>2, MoveOn
<1>7. ASSUME NEW r \in Requests, Handled(r) \/ ErrorHandled(r) PROVE QueueInv'
  <2>1. PICK err \in BOOLEAN : Response(r, err)
    BY <1>7 DEF Handled, ErrorHandled
  <2>2. work[r] \in {"handler", "error"}
    BY <1>7 DEF Handled, ErrorHandled
  <2>3. /\ UNCHANGED <<at, open, waiting, late, entered>>
        /\ \E x \in {"over", "ok", "failed"} : work' = [work EXCEPT ![r] = x]
    BY <2>1 DEF Response
  <2>4. ASSUME NEW v \in Where, NEW z \in Sessions
        PROVE  current'[v][z] = IF current[v][z] = r THEN None ELSE current[v][z]
    <3>1. current[v][z] = r => at[r] = v /\ SessionOf[r] = z
      BY RequestAssumption DEF QueueInv, CurrentRuns
    <3>2. current' = [current EXCEPT ![at[r]][SessionOf[r]] = IF @ = r THEN None ELSE @]
      BY <2>1 DEF Response
    <3> QED BY <3>1, <3>2 DEF TypeOK
  <2> QED BY <2>2, <2>3, <2>4, MoveOn
<1>8. ASSUME NEW w \in Where, NEW s \in Sessions, StartTask(w, s) \/ TaskTimeout(w, s)
      PROVE  QueueInv'
  BY <1>8, StartTaskQueues, TaskTimeoutQueues
<1>9. ASSUME NEW s \in Sessions, SessionClose(s) PROVE QueueInv'
  BY <1>9, SessionCloseQueues
<1>10. CASE UNCHANGED vars
  BY <1>10, OutsideQueues DEF vars
<1> QED
  BY <1>1, <1>3, <1>4, <1>5, <1>6, <1>7, <1>8, <1>9, <1>10 DEF Next

-----------------------------------------------------------------------------
(* The order of the answers *)

\* A step that answers nothing, and may let one request enter that has no answer.
LEMMA SilentOrder ==
    ASSUME TypeOK, Answers, AnswersInOrder, UNCHANGED log, late \subseteq late',
           \/ UNCHANGED <<at, entered>>
           \/ \E r \in Requests : /\ front[r] # "done"
                                  /\ \A q \in Requests \ {r} : at'[q] = at[q]
                                  /\ entered' = entered \/ entered' = Append(entered, r)
    PROVE  AnswersInOrder'
<1>1. \A k \in 1..Len(log) : log[k].req \in Requests /\ front[log[k].req] = "done"
  BY LoggedRequests DEF Answers
<1>2. \A q \in Requests : front[q] = "done" => at'[q] = at[q]
  OBVIOUS
<1>3. ASSUME NEW i \in 1..Len(entered'), front[entered'[i]] = "done"
      PROVE  i \in 1..Len(entered) /\ entered'[i] = entered[i]
  <2>1. CASE entered' = entered
    BY <2>1
  <2>2. ASSUME NEW r \in Requests, front[r] # "done", entered' = Append(entered, r)
        PROVE  i \in 1..Len(entered) /\ entered'[i] = entered[i]
    BY <1>3, <2>2, AppendProperties, LenProperties DEF TypeOK
  <2> QED BY <2>1, <2>2
<1> SUFFICES ASSUME NEW i \in 1..Len(entered'), NEW j \in 1..Len(entered'),
                    NEW k \in 1..Len(log), NEW l \in 1..Len(log),
                    i < j, log[k].req = entered'[i], log[l].req = entered'[j],
                    SessionOf[entered'[i]] = SessionOf[entered'[j]],
                    at'[entered'[i]] = "front", at'[entered'[j]] = "front",
                    entered'[i] \notin late'
             PROVE  k < l
  BY DEF AnswersInOrder
<1>4. /\ i \in 1..Len(entered) /\ entered'[i] = entered[i]
      /\ j \in 1..Len(entered) /\ entered'[j] = entered[j]
  BY <1>1, <1>3
<1>5. at[entered[i]] = "front" /\ at[entered[j]] = "front" /\ entered[i] \notin late
  BY <1>1, <1>2, <1>4
<1> QED BY <1>4, <1>5 DEF AnswersInOrder

\* An answer of the frontend: whoever is answered before it came before it, or
\* was handled elsewhere, or this one is late.
LEMMA RespondOrder ==
    ASSUME AnswerInv, Entered, Fifo, AnswersInOrder, NEW r \in Requests, NEW err \in BOOLEAN,
           Respond(r, err), UNCHANGED <<at, entered, late>>,
           work[r] = "none" \/ at[r] = "back" \/ work[r] \in {"handler", "error"}
    PROVE  AnswersInOrder'
<1>1. TypeOK /\ Stages /\ Answers
  BY DEF AnswerInv
<1>2. CASE log' = log
  BY <1>1, <1>2, SilentOrder
<1>3. CASE SessionOf[r] \in open /\ log' = Append(log, [req |-> r, err |-> err])
  <2> DEFINE n == Len(log)
  <2>1. /\ n \in Nat /\ Len(log') = n + 1 /\ \A k \in 1..n : log'[k] = log[k]
        /\ log'[n + 1].req = r
    BY <1>1, <1>3, AppendProperties, LenProperties DEF TypeOK, Answer
  <2>2. \A k \in 1..n : log[k].req \in Requests /\ front[log[k].req] = "done"
    BY <1>1, LoggedRequests DEF Answers
  <2> HIDE DEF n
  <2> SUFFICES ASSUME NEW i \in 1..Len(entered), NEW j \in 1..Len(entered),
                      NEW k \in 1..n + 1, NEW l \in 1..n + 1,
                      i < j, log'[k].req = entered[i], log'[l].req = entered[j],
                      SessionOf[entered[i]] = SessionOf[entered[j]],
                      at[entered[i]] = "front", at[entered[j]] = "front",
                      entered[i] \notin late
               PROVE  k < l
    BY <2>1 DEF AnswersInOrder
  <2>3. CASE k \in 1..n /\ l \in 1..n
    BY <2>1, <2>3 DEF AnswersInOrder, n
  <2>4. CASE k \in 1..n /\ l = n + 1
    BY <2>1, <2>4
  <2>5. CASE k = n + 1 /\ l = n + 1
    BY <2>1, <2>5 DEF Entered
  <2>6. CASE k = n + 1 /\ l \in 1..n
    <3>1. /\ entered[i] = r /\ entered[j] = log[l].req
          /\ entered[j] \in Requests /\ front[entered[j]] = "done"
      BY <2>1, <2>2, <2>6
    <3>2. work[r] \in {"handler", "error"}
      BY <3>1 DEF Entered
    <3>3. work[entered[j]] = "queued"
      BY <1>3, <3>1, <3>2 DEF Fifo, Live
    <3>4. front[entered[j]] = "local"
      BY <1>1, <3>1, <3>3 DEF Stages
    <3> QED BY <3>1, <3>4
  <2> QED BY <2>1, <2>3, <2>4, <2>5, <2>6
<1> QED BY <1>2, <1>3 DEF Respond

LEMMA StepOrder ==
    ASSUME AnswerInv, QueueInv, AnswersInOrder, [Next]_vars
    PROVE  AnswersInOrder'
<1> USE DEF AnswerInv, QueueInv, Stages
<1>1. ASSUME NEW r \in Requests,
             \/ IgnoreMessage(r) \/ GlobalHandle(r) \/ GlobalFilterFails(r)
             \/ RefuseForward(r) \/ HandlerFails(r)
      PROVE  AnswersInOrder'
  <2>1. UNCHANGED log /\ UNCHANGED late /\ UNCHANGED <<at, entered>>
    BY <1>1 DEF handling, IgnoreMessage, GlobalHandle, GlobalFilterFails, RefuseForward,
                HandlerFails
  <2> QED BY <2>1, SilentOrder
<1>2. ASSUME NEW r \in Requests,
             RefuseMessage(r) \/ GlobalErrorHandled(r) \/ NoProxy(r) \/ RpcFails(r)
      PROVE  AnswersInOrder'
  <2>1. UNCHANGED <<at, entered, late>>
    BY <1>2 DEF handling, RefuseMessage, GlobalErrorHandled, NoProxy, RpcFails
  <2>2. \E err \in BOOLEAN : Respond(r, err)
    BY <1>2 DEF RefuseMessage, GlobalErrorHandled, NoProxy, RpcFails
  <2>3. front[r] \in {"new", "error", "filter", "forwarded"}
    BY <1>2 DEF RefuseMessage, GlobalErrorHandled, NoProxy, RpcFails
  <2> QED BY <2>1, <2>2, <2>3, RespondOrder
<1>3. ASSUME NEW r \in Requests, HandleLocally(r) \/ ForwardMessage(r) \/ DoForward(r)
      PROVE  AnswersInOrder'
  <2>1. UNCHANGED log /\ UNCHANGED late
    BY <1>3 DEF HandleLocally, ForwardMessage, DoForward, DoHandle
  <2>2. /\ \A q \in Requests \ {r} : at'[q] = at[q]
        /\ entered' = entered \/ entered' = Append(entered, r)
    BY <1>3 DEF HandleLocally, ForwardMessage, DoForward, DoHandle, SerialBefore, TypeOK
  <2>3. CASE front[r] # "done"
    BY <2>1, <2>2, <2>3, SilentOrder
  <2>4. CASE front[r] = "done"
    <3>1. ForwardMessage(r)
      BY <1>3, <2>4 DEF HandleLocally, DoForward
    <3>2. at[r] = "back" /\ at' = [at EXCEPT ![r] = "back"] /\ work[r] = "wire"
      BY <3>1 DEF ForwardMessage, DoHandle, TypeOK, Where
    <3>3. at' = at
      BY <3>2 DEF TypeOK
    <3>4. CASE entered' = entered
      BY <2>1, <3>3, <3>4, SilentOrder
    <3>5. CASE entered' = Append(entered, r)
      <4> DEFINE n == Len(entered)
      <4>1. /\ n \in Nat /\ Len(entered') = n + 1 /\ \A i \in 1..n : entered'[i] = entered[i]
            /\ entered'[n + 1] = r
        BY <3>5, AppendProperties, LenProperties DEF TypeOK
      <4> HIDE DEF n
      <4>2. ASSUME NEW i \in 1..n + 1, at[entered'[i]] = "front"
            PROVE  i \in 1..n /\ entered'[i] = entered[i]
        BY <3>2, <4>1, <4>2
      <4> SUFFICES ASSUME NEW i \in 1..n + 1, NEW j \in 1..n + 1,
                          NEW k \in 1..Len(log), NEW l \in 1..Len(log),
                          i < j, log[k].req = entered'[i], log[l].req = entered'[j],
                          SessionOf[entered'[i]] = SessionOf[entered'[j]],
                          at[entered'[i]] = "front", at[entered'[j]] = "front",
                          entered'[i] \notin late
                   PROVE  k < l
        BY <2>1, <3>3, <4>1 DEF AnswersInOrder
      <4>3. /\ i \in 1..n /\ entered'[i] = entered[i]
            /\ j \in 1..n /\ entered'[j] = entered[j]
        BY <4>2
      <4> QED BY <4>3 DEF AnswersInOrder, n
    <3> QED BY <2>2, <3>4, <3>5
  <2> QED BY <2>3, <2>4
<1>4. ASSUME NEW r \in Requests, Reply(r) PROVE AnswersInOrder'
  BY <1>4, RespondOrder DEF Reply
<1>5. ASSUME NEW r \in Requests, Handled(r) \/ ErrorHandled(r) PROVE AnswersInOrder'
  <2>1. PICK err \in BOOLEAN : Response(r, err)
    BY <1>5 DEF Handled, ErrorHandled
  <2>2. work[r] \in {"handler", "error"} /\ UNCHANGED <<at, entered, late>>
    BY <1>5, <2>1 DEF Handled, ErrorHandled, Response
  <2>3. SerialAfter(r, err) \in BOOLEAN
    BY DEF SerialAfter
  <2>4. UNCHANGED log \/ Respond(r, SerialAfter(r, err))
    BY <2>1 DEF Response
  <2> QED BY <2>2, <2>3, <2>4, RespondOrder, SilentOrder
<1>6. ASSUME NEW w \in Where, NEW s \in Sessions, StartTask(w, s) \/ TaskTimeout(w, s)
      PROVE  AnswersInOrder'
  BY <1>6, SilentOrder DEF StartTask, TaskTimeout
<1>7. ASSUME NEW s \in Sessions, SessionClose(s) PROVE AnswersInOrder'
  BY <1>7, SilentOrder DEF SessionClose
<1>8. CASE UNCHANGED vars
  BY <1>8, SilentOrder DEF vars
<1> QED BY <1>1, <1>2, <1>3, <1>4, <1>5, <1>6, <1>7, <1>8 DEF Next

-----------------------------------------------------------------------------
(* The timeout filter *)

\* What may have a timer.
Pending == {"queued", "handler", "error", "dropped"}

LEMMA SameTimers ==
    ASSUME TypeOK, TimersOfPending, UNCHANGED timers,
           \A q \in Requests : work[q] \in Pending => work'[q] \in Pending /\ at'[q] = at[q]
    PROVE  TimersOfPending'
BY DEF TypeOK, TimersOfPending, Pending

LEMMA DoHandleTimers ==
    ASSUME TypeOK, TimersOfPending, NEW r \in Requests, NEW w \in Where, DoHandle(r, w),
           work[r] \notin Pending
    PROVE  TimersOfPending'
<1>1. work'[r] \in Pending /\ at'[r] = w
  BY DEF DoHandle, SerialBefore, TypeOK, Pending
<1>2. \A q \in Requests : q # r => work'[q] = work[q] /\ at'[q] = at[q]
  BY DEF DoHandle, SerialBefore, TypeOK
<1>3. \A v \in Where : r \notin timers[v]
  BY DEF TimersOfPending, Pending
<1>4. /\ \A v \in Where : v # w => timers'[v] = timers[v]
      /\ timers'[w] = timers[w] \/ (/\ timers'[w] = timers[w] \cup {r}
                                    /\ ~(Cardinality(timers[w]) > MaxSize))
  BY DEF DoHandle, TimeoutBefore, TypeOK
<1>5. Cardinality(timers'[w]) <= MaxSize + 1
  <2>1. timers[w] \subseteq Requests
    BY DEF TypeOK
  <2>2. IsFiniteSet(timers[w])
    BY <2>1, FS_Subset, RequestAssumption
  <2>3. Cardinality(timers[w]) \in Nat /\ MaxSize \in Nat
    BY <2>2, FS_CardinalityType, RequestAssumption
  <2>4. Cardinality(timers[w] \cup {r}) = Cardinality(timers[w]) + 1
    BY <1>3, <2>2, FS_AddElement
  <2>5. CASE timers'[w] = timers[w]
    BY <2>5 DEF TimersOfPending
  <2>6. CASE timers'[w] = timers[w] \cup {r} /\ ~(Cardinality(timers[w]) > MaxSize)
    BY <2>3, <2>4, <2>6
  <2> QED BY <1>4, <2>5, <2>6
<1>6. \A v \in Where : v # w => Cardinality(timers'[v]) <= MaxSize + 1
  BY <1>4 DEF TimersOfPending
<1>7. ASSUME NEW v \in Where, NEW q \in timers'[v]
      PROVE  at'[q] = v /\ work'[q] \in Pending
  <2>1. CASE q = r
    BY <1>1, <1>3, <1>4, <2>1
  <2>2. CASE q # r
    <3>1. q \in timers[v] /\ q \in Requests
      <4>1. q \in timers[v]
        BY <1>4, <2>2
      <4> QED BY <4>1 DEF TypeOK
    <3>2. at[q] = v /\ work[q] \in Pending
      BY <3>1 DEF TimersOfPending, Pending
    <3> QED BY <1>2, <2>2, <3>1, <3>2
  <2> QED BY <2>1, <2>2
<1> QED BY <1>5, <1>6, <1>7 DEF TimersOfPending, Pending

LEMMA ResponseTimers ==
    ASSUME TypeOK, TimersOfPending, NEW r \in Requests, NEW err, Response(r, err)
    PROVE  TimersOfPending'
<1>1. \A q \in Requests : q # r => work'[q] = work[q] /\ at'[q] = at[q]
  BY DEF Response, TypeOK
<1>2. \A v \in Where : timers'[v] = IF v = at[r] THEN timers[v] \ {r} ELSE timers[v]
  BY DEF Response, TimeoutAfter, TypeOK
<1>3. \A v \in Where : timers'[v] \subseteq timers[v] /\ r \notin timers'[v]
  BY <1>2 DEF TimersOfPending
<1>4. ASSUME NEW v \in Where PROVE Cardinality(timers'[v]) <= MaxSize + 1
  <2>1. timers[v] \subseteq Requests /\ timers'[v] \subseteq timers[v]
    BY <1>3 DEF TypeOK
  <2>2. IsFiniteSet(timers[v])
    BY <2>1, FS_Subset, RequestAssumption
  <2>3. /\ Cardinality(timers[v]) \in Nat /\ Cardinality(timers'[v]) \in Nat /\ MaxSize \in Nat
        /\ Cardinality(timers'[v]) <= Cardinality(timers[v])
    BY <2>1, <2>2, FS_Subset, FS_CardinalityType, RequestAssumption
  <2>4. Cardinality(timers[v]) <= MaxSize + 1
    BY DEF TimersOfPending
  <2> QED BY <2>3, <2>4
<1>5. ASSUME NEW v \in Where, NEW q \in timers'[v]
      PROVE  at'[q] = v /\ work'[q] \in Pending
  <2>1. q # r /\ q \in timers[v] /\ q \in Requests
    BY <1>3 DEF TypeOK
  <2>2. at[q] = v /\ work[q] \in Pending
    BY <2>1 DEF TimersOfPending, Pending
  <2> QED BY <1>1, <2>1, <2>2
<1> QED BY <1>4, <1>5 DEF TimersOfPending, Pending

LEMMA StepTimers ==
    ASSUME TypeOK, Stages, QueueInv, TimersOfPending, [Next]_vars
    PROVE  TimersOfPending'
<1>1. ASSUME NEW r \in Requests,
             \/ IgnoreMessage(r) \/ GlobalHandle(r) \/ GlobalFilterFails(r)
             \/ RefuseMessage(r) \/ GlobalErrorHandled(r) \/ NoProxy(r) \/ RpcFails(r)
      PROVE  TimersOfPending'
  <2>1. UNCHANGED handling
    BY <1>1 DEF IgnoreMessage, GlobalHandle, GlobalFilterFails, RefuseMessage,
                GlobalErrorHandled, NoProxy, RpcFails
  <2> QED BY <2>1, SameTimers DEF handling
<1>2. ASSUME NEW r \in Requests, HandleLocally(r) \/ ForwardMessage(r)
      PROVE  TimersOfPending'
  <2>1. work[r] \notin Pending
    BY <1>2 DEF HandleLocally, ForwardMessage, Stages, Pending
  <2> QED BY <1>2, <2>1, DoHandleTimers DEF HandleLocally, ForwardMessage, Where
<1>3. ASSUME NEW r \in Requests, DoForward(r) \/ RefuseForward(r) \/ Reply(r)
      PROVE  TimersOfPending'
  <2>1. work[r] \notin Pending /\ UNCHANGED timers
    BY <1>3 DEF DoForward, RefuseForward, Reply, Stages, Pending
  <2>2. \A q \in Requests : q # r => work'[q] = work[q] /\ at'[q] = at[q]
    BY <1>3 DEF DoForward, RefuseForward, Reply, TypeOK
  <2> QED BY <2>1, <2>2, SameTimers
<1>4. ASSUME NEW r \in Requests, HandlerFails(r) PROVE TimersOfPending'
  BY <1>4, SameTimers DEF HandlerFails, TypeOK, Pending
<1>5. ASSUME NEW r \in Requests, Handled(r) \/ ErrorHandled(r) PROVE TimersOfPending'
  BY <1>5, ResponseTimers DEF Handled, ErrorHandled
<1>6. ASSUME NEW w \in Where, NEW s \in Sessions, StartTask(w, s) PROVE TimersOfPending'
  <2>1. UNCHANGED timers /\ UNCHANGED at
    BY <1>6 DEF StartTask
  <2>2. \A q \in Requests : work[q] \in Pending => work'[q] \in Pending
    BY <1>6 DEF StartTask, TypeOK, Pending
  <2> QED BY <2>1, <2>2, SameTimers
<1>7. ASSUME NEW w \in Where, NEW s \in Sessions, TaskTimeout(w, s) PROVE TimersOfPending'
  BY <1>7, SameTimers DEF TaskTimeout
<1>8. ASSUME NEW s \in Sessions, SessionClose(s) PROVE TimersOfPending'
  BY <1>8, SameTimers DEF SessionClose, Pending
<1>9. CASE UNCHANGED vars
  BY <1>9, SameTimers DEF vars
<1> QED BY <1>1, <1>2, <1>3, <1>4, <1>5, <1>6, <1>7, <1>8, <1>9 DEF Next

-----------------------------------------------------------------------------
(* The theorems *)

LEMMA RequestInvariant == Spec => []IInv
<1>1. Init => IInv
  BY InitIInv
<1>2. IInv /\ [Next]_vars => IInv'
  <2> SUFFICES ASSUME IInv, [Next]_vars PROVE IInv'
    OBVIOUS
  <2>1. TypeOK' /\ (Stages /\ Answers /\ LateStages /\ OneResponse)'
    BY StepType, StepAnswers DEF IInv, AnswerInv, QueueInv
  <2>2. QueueInv' /\ AnswersInOrder' /\ TimersOfPending'
    BY StepQueues, StepOrder, StepTimers DEF IInv, AnswerInv
  <2> QED BY <2>1, <2>2 DEF IInv, AnswerInv
<1> QED BY <1>1, <1>2, PTL DEF Spec

\* The variables of requests and queues have their types.
THEOREM TypeCorrect == Spec => []TypeOK
<1>1. IInv => TypeOK
  BY DEF IInv, AnswerInv
<1> QED BY <1>1, RequestInvariant, PTL

\* However filters, handlers, error handlers, queues and RPCs end, no request is
\* answered twice.
THEOREM OneResponseCorrect == Spec => []OneResponse
<1>1. IInv => OneResponse
  BY DEF IInv
<1> QED BY <1>1, RequestInvariant, PTL

\* A task that its queue did not wait for is never answered without an error.
THEOREM LateIsErrorCorrect == Spec => []LateIsError
<1>1. IInv => LateIsError
  BY DEF IInv, AnswerInv, Answers, LateIsError
<1> QED BY <1>1, RequestInvariant, PTL

\* Of the requests of an open session at a server, in time, only one is at its
\* handler: it is the current task of its queue.
THEOREM OneAtATimeCorrect == Spec => []OneAtATime
<1>1. IInv => OneAtATime
  <2> SUFFICES ASSUME Entered, RunningIsCurrent,
                      NEW r \in Requests, NEW q \in Requests,
                      work[r] = "handler", work[q] = "handler",
                      at[r] = at[q], SessionOf[r] = SessionOf[q],
                      SessionOf[r] \in open, r \notin late, q \notin late
               PROVE  r = q
    BY DEF IInv, QueueInv, OneAtATime
  <2>1. current[at[r]][SessionOf[r]] = r
    BY DEF Entered, RunningIsCurrent, Live
  <2>2. current[at[q]][SessionOf[q]] = q
    BY DEF Entered, RunningIsCurrent, Live
  <2> QED BY <2>1, <2>2
<1> QED BY <1>1, RequestInvariant, PTL

\* What the frontend itself handles is answered in the order in which it was
\* queued, unless its time was over.
THEOREM AnswersInOrderCorrect == Spec => []AnswersInOrder
<1>1. IInv => AnswersInOrder
  BY DEF IInv
<1> QED BY <1>1, RequestInvariant, PTL

\* The timeout filter keeps timers of requests that are not through only, and at
\* most one more than it is told.
THEOREM TimersOfPendingCorrect == Spec => []TimersOfPending
<1>1. IInv => TimersOfPending
  BY DEF IInv
<1> QED BY <1>1, RequestInvariant, PTL
=============================================================================
