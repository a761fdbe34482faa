------------------------------ MODULE Request ------------------------------
(***************************************************************************)
(* lib/server/server.js with filterService.js, handlerService.js, the      *)
(* filters timeout and serial, taskManager.js and msgRemote.js: the way of *)
(* a request from the connector of its frontend server to the answer.      *)
(*                                                                         *)
(* One frontend and one backend server, whose server components may stop   *)
(* and refuse what comes then.  Both use the filters timeout and serial,   *)
(* in this order, maybe with one between them that refuses (toobusy).      *)
(* Global filters, handlers and error handlers are application code and    *)
(* take their time.  A queue of seq-queue (external) runs one task at a    *)
(* time, begins the next in a later tick and goes on when a task has timed *)
(* out; done() tells a task whether it was still the current one.          *)
(***************************************************************************)
EXTENDS Integers, Sequences, FiniteSets

CONSTANTS Requests, Sessions,
          SessionOf,       \* SessionOf[r]: the session r comes from
          Notifies,        \* the requests without msg.id
          Silent,          \* the requests whose handler never calls back
          MaxSize,         \* maxSize of the timeout filter
          None             \* no request

ASSUME RequestAssumption == /\ IsFiniteSet(Requests)
                            /\ SessionOf \in [Requests -> Sessions]
                            /\ Notifies \subseteq Requests
                            /\ Silent \subseteq Requests
                            /\ MaxSize \in Nat \ {0}
                            /\ None \notin Requests

Where == {"front", "back"}

VARIABLES front,           \* front[r]: "new", "filter", "error", "local", "forwarded",
                           \* "done", or "ignored"
          at,              \* at[r]: the server that handles r
          work,            \* work[r]: "none", "wire", "queued", "handler", "error", "ok",
                           \* "failed", "over", or "dropped" with its queue
          open,            \* the sessions that are not closed
          waiting,         \* waiting[w][s]: tasks of the queue of s at w
          current,         \* current[w][s]: the task that queue runs
          late,            \* tasks whose queue did not wait for them
          timers,          \* timers[w]: timeouts of the timeout filter at w
          log,             \* the answers to clients, in order, and whether the connector
                           \* is told of an error (a resp with a code hides it)
          entered          \* history: the requests, in the order they were queued

handling == <<at, work, waiting, current, late, timers, entered>>
vars == <<front, at, work, open, waiting, current, late, timers, log, entered>>

Answer == [req : Requests, err : BOOLEAN]

TypeOK == /\ front \in [Requests -> {"new", "filter", "error", "local", "forwarded",
                                     "done", "ignored"}]
          /\ at \in [Requests -> Where]
          /\ work \in [Requests -> {"none", "wire", "queued", "handler", "error", "ok",
                                    "failed", "over", "dropped"}]
          /\ open \subseteq Sessions
          /\ waiting \in [Where -> [Sessions -> Seq(Requests)]]
          /\ current \in [Where -> [Sessions -> Requests \cup {None}]]
          /\ late \subseteq Requests
          /\ timers \in [Where -> SUBSET Requests]
          /\ log \in Seq(Answer)
          /\ entered \in Seq(Requests)

Init == /\ front = [r \in Requests |-> "new"]
        /\ at = [r \in Requests |-> "front"]
        /\ work = [r \in Requests |-> "none"]
        /\ open = Sessions
        /\ waiting = [w \in Where |-> [s \in Sessions |-> <<>>]]
        /\ current = [w \in Where |-> [s \in Sessions |-> None]]
        /\ late = {}
        /\ timers = [w \in Where |-> {}]
        /\ log = <<>> /\ entered = <<>>

-----------------------------------------------------------------------------
(* The frontend *)

\* The callback of handleMessage: a notify is not answered, and what is sent to
\* a closed session is lost.
Respond(r, err) ==
    /\ front' = [front EXCEPT ![r] = "done"]
    /\ log' = IF r \in Notifies \/ SessionOf[r] \notin open THEN log
              ELSE Append(log, [req |-> r, err |-> err])

\* handleMessage of a route without a dot: logged, not answered.
IgnoreMessage(r) ==
    /\ front[r] = "new" /\ SessionOf[r] \in open
    /\ front' = [front EXCEPT ![r] = "ignored"]
    /\ UNCHANGED <<handling, open, log>>

\* globalHandle of a server that does not run, or of a route that parseRoute
\* does not take.
RefuseMessage(r) ==
    /\ front[r] = "new" /\ SessionOf[r] \in open
    /\ Respond(r, TRUE)
    /\ UNCHANGED <<handling, open>>

\* globalHandle begins the global filters.
GlobalHandle(r) ==
    /\ front[r] = "new" /\ SessionOf[r] \in open
    /\ front' = [front EXCEPT ![r] = "filter"]
    /\ UNCHANGED <<handling, open, log>>

GlobalFilterFallsThrough(r) ==
    /\ front[r] = "filter"
    /\ front' = [front EXCEPT ![r] = "local"]
    /\ log' = Append(log, [req |-> r, err |-> TRUE])
    /\ work' = [work EXCEPT ![r] = "error"]
    /\ UNCHANGED <<at, waiting, current, late, timers, entered, open>>

\* A global filter passes an error, which goes to the global error handler.
GlobalFilterFails(r) ==
    /\ front[r] = "filter"
    /\ front' = [front EXCEPT ![r] = "error"]
    /\ UNCHANGED <<handling, open, log>>

\* The global error handler, if there is one, decides what is answered.
GlobalErrorHandled(r) ==
    /\ front[r] = "error"
    /\ \E err \in BOOLEAN : Respond(r, err)
    /\ UNCHANGED <<handling, open>>

-----------------------------------------------------------------------------
(* Handling, at either server *)

\* before of the timeout filter.
TimeoutBefore(r, w) ==
    timers' = [timers EXCEPT ![w] = IF Cardinality(@) > MaxSize THEN @ ELSE @ \cup {r}]

\* before of the serial filter: addTask.
SerialBefore(r, w) ==
    /\ work' = [work EXCEPT ![r] = "queued"]
    /\ waiting' = [waiting EXCEPT ![w][SessionOf[r]] = Append(@, r)]
    /\ entered' = Append(entered, r)

\* doHandle: the filters run, and the one between them may refuse.
DoHandle(r, w) ==
    /\ at' = [at EXCEPT ![r] = w]
    /\ TimeoutBefore(r, w)
    /\ \/ SerialBefore(r, w)
       \/ /\ work' = [work EXCEPT ![r] = "error"]
          /\ UNCHANGED <<waiting, entered>>
    /\ UNCHANGED <<current, late>>

StartWithoutQueue(w, s) ==
    /\ waiting[w][s] # <<>>
    /\ LET r == Head(waiting[w][s]) IN
         /\ current' = [current EXCEPT ![w][s] = r]
         /\ \E p \in {"handler", "error"} : work' = [work EXCEPT ![r] = p]
    /\ waiting' = [waiting EXCEPT ![w][s] = Tail(@)]
    /\ UNCHANGED <<front, at, open, late, timers, log, entered>>

\* A queue begins its next task: the handler is called, or none is found.
StartTask(w, s) ==
    /\ current[w][s] = None /\ waiting[w][s] # <<>>
    /\ LET r == Head(waiting[w][s]) IN
         /\ current' = [current EXCEPT ![w][s] = r]
         /\ \E p \in {"handler", "error"} : work' = [work EXCEPT ![r] = p]
    /\ waiting' = [waiting EXCEPT ![w][s] = Tail(@)]
    /\ UNCHANGED <<front, at, open, late, timers, log, entered>>

TimeoutOnlyLogs(w, s) ==
    /\ current[w][s] # None /\ current[w][s] \notin late
    /\ late' = late \cup {current[w][s]}
    /\ UNCHANGED <<front, at, work, open, waiting, current, timers, log, entered>>

\* A task takes too long: the queue goes on without it.
TaskTimeout(w, s) ==
    /\ current[w][s] # None
    /\ late' = late \cup {current[w][s]}
    /\ current' = [current EXCEPT ![w][s] = None]
    /\ UNCHANGED <<front, at, work, open, waiting, timers, log, entered>>

\* The handler passes an error, which goes to the error handler.
HandlerFails(r) ==
    /\ work[r] = "handler" /\ r \notin Silent
    /\ work' = [work EXCEPT ![r] = "error"]
    /\ UNCHANGED <<front, at, open, waiting, current, late, timers, log, entered>>

AfterIgnoresDone(r, err) == err

\* after of the serial filter: done().
SerialAfter(r, err) == err \/ r \in late

AfterKeepsTimer(r) == UNCHANGED timers

\* after of the timeout filter.
TimeoutAfter(r) == timers' = [timers EXCEPT ![at[r]] = @ \ {r}]

\* response: the after filters, then the answer of the frontend or the reply of
\* the backend.
Response(r, err) ==
    LET s == SessionOf[r]
        e == SerialAfter(r, err)
    IN  /\ current' = [current EXCEPT ![at[r]][s] = IF @ = r THEN None ELSE @]
        /\ TimeoutAfter(r)
        /\ IF at[r] = "front"
           THEN Respond(r, e) /\ work' = [work EXCEPT ![r] = "over"]
           ELSE /\ work' = [work EXCEPT ![r] = IF e THEN "failed" ELSE "ok"]
                /\ UNCHANGED <<front, log>>
        /\ UNCHANGED <<at, open, waiting, late, entered>>

\* The handler calls back without an error.
Handled(r) == work[r] = "handler" /\ r \notin Silent /\ Response(r, FALSE)

\* The error handler, if there is one, decides what is answered.
ErrorHandled(r) == work[r] = "error" /\ \E err \in BOOLEAN : Response(r, err)

-----------------------------------------------------------------------------
(* From the filters to a server *)

\* The route names the type of this server.
HandleLocally(r) ==
    /\ front[r] = "filter"
    /\ front' = [front EXCEPT ![r] = "local"]
    /\ DoHandle(r, "front")
    /\ UNCHANGED <<open, log>>

\* doForward to a type of servers that nobody knows: the error it catches.
NoProxy(r) ==
    /\ front[r] = "filter"
    /\ Respond(r, TRUE)
    /\ UNCHANGED <<handling, open>>

\* doForward.
DoForward(r) ==
    /\ front[r] = "filter"
    /\ front' = [front EXCEPT ![r] = "forwarded"]
    /\ at' = [at EXCEPT ![r] = "back"]
    /\ work' = [work EXCEPT ![r] = "wire"]
    /\ UNCHANGED <<open, waiting, current, late, timers, log, entered>>

\* forwardMessage and handle at the backend.
ForwardMessage(r) ==
    /\ work[r] = "wire"
    /\ DoHandle(r, "back")
    /\ UNCHANGED <<front, open, log>>

\* The same where the server component does not run.
RefuseForward(r) ==
    /\ work[r] = "wire"
    /\ work' = [work EXCEPT ![r] = "failed"]
    /\ UNCHANGED <<front, at, open, waiting, current, late, timers, log, entered>>

\* The reply of the backend reaches a frontend that still waits for it.
Reply(r) ==
    /\ front[r] = "forwarded" /\ work[r] \in {"ok", "failed"}
    /\ Respond(r, work[r] = "failed")
    /\ work' = [work EXCEPT ![r] = "over"]
    /\ UNCHANGED <<at, open, waiting, current, late, timers, entered>>

\* The RPC fails or times out; the backend may get the request and handle it
\* all the same.
RpcFails(r) ==
    /\ front[r] = "forwarded"
    /\ Respond(r, TRUE)
    /\ UNCHANGED <<handling, open>>

-----------------------------------------------------------------------------

\* A session closes: onSessionClose closes its queue at the frontend by force.
\* A task under way may finish, those that wait are dropped.
SessionClose(s) ==
    /\ s \in open
    /\ open' = open \ {s}
    /\ work' = [r \in Requests |-> IF \E i \in 1..Len(waiting["front"][s]) :
                                        waiting["front"][s][i] = r
                                   THEN "dropped" ELSE work[r]]
    /\ waiting' = [waiting EXCEPT !["front"][s] = <<>>]
    /\ current' = [current EXCEPT !["front"][s] = None]
    /\ UNCHANGED <<front, at, late, timers, log, entered>>

Next == \/ \E r \in Requests : \/ IgnoreMessage(r) \/ RefuseMessage(r) \/ GlobalHandle(r)
                               \/ GlobalFilterFails(r) \/ GlobalErrorHandled(r)
                               \/ HandleLocally(r) \/ NoProxy(r) \/ DoForward(r)
                               \/ ForwardMessage(r) \/ RefuseForward(r) \/ Reply(r) \/ RpcFails(r)
                               \/ HandlerFails(r) \/ Handled(r) \/ ErrorHandled(r)
        \/ \E w \in Where, s \in Sessions : StartTask(w, s) \/ TaskTimeout(w, s)
        \/ \E s \in Sessions : SessionClose(s)

Spec == Init /\ [][Next]_vars

\* Queues go on, in time; the application's filters, error handlers and handlers
\* but the silent ones call back; an RPC is answered or fails.
Fairness ==
    /\ \A w \in Where, s \in Sessions : WF_vars(StartTask(w, s) \/ TaskTimeout(w, s))
    /\ \A r \in Requests :
          /\ WF_vars(GlobalFilterFails(r) \/ GlobalErrorHandled(r) \/ HandleLocally(r)
                        \/ NoProxy(r) \/ DoForward(r))
          /\ WF_vars(Reply(r) \/ RpcFails(r))
          /\ WF_vars(HandlerFails(r) \/ Handled(r) \/ ErrorHandled(r))

FairSpec == Spec /\ Fairness

-----------------------------------------------------------------------------
(* Properties *)

\* However filters, handlers, error handlers, queues and RPCs end, and whichever
\* of them end late, no request is answered twice.
OneResponse == \A i, j \in 1..Len(log) : log[i].req = log[j].req => i = j

\* The serial filter: of the requests of an open session that a server handles,
\* and whose time is not over, only one is at its handler.
OneAtATime ==
    \A r, q \in Requests :
        (/\ work[r] = "handler" /\ work[q] = "handler"
         /\ at[r] = at[q] /\ SessionOf[r] = SessionOf[q]
         /\ SessionOf[r] \in open /\ {r, q} \cap late = {}) => r = q

\* A task that its queue did not wait for is never answered without an error,
\* whatever its handler says, at either server.
LateIsError == \A i \in 1..Len(log) : log[i].req \in late => log[i].err

\* A client gets the answers to what the frontend itself handles in the order in
\* which the requests were queued, unless their time was over.
AnswersInOrder ==
    \A i, j \in 1..Len(entered), k, l \in 1..Len(log) :
        LET r == entered[i]
            q == entered[j]
        IN  (/\ i < j /\ log[k].req = r /\ log[l].req = q
             /\ SessionOf[r] = SessionOf[q] /\ at[r] = "front" /\ at[q] = "front"
             /\ r \notin late) => k < l

\* The timeout filter keeps timers of requests that are not through, and not
\* many more than it is told.
TimersOfPending ==
    \A w \in Where : /\ Cardinality(timers[w]) <= MaxSize + 1
                     /\ \A r \in timers[w] : at[r] = w /\ work[r] \in {"queued", "handler",
                                                                  "error", "dropped"}

\* As long as its session is open, every request with a route is answered in the
\* end, those included that wait behind one whose handler never calls back.
EveryRequestAnswered ==
    <>[](\A r \in Requests : \/ front[r] \in {"new", "ignored", "done"}
                             \/ SessionOf[r] \notin open
                             \/ r \in Silent /\ front[r] = "local")
=============================================================================
