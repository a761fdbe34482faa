--------------------------- MODULE PushScheduler ---------------------------
(***************************************************************************)
(* lib/components/pushScheduler.js with lib/pushSchedulers/direct.js and   *)
(* buffer.js: how an encoded message gets to the sockets of a frontend     *)
(* server.  The direct scheduler writes to the sockets at once, the buffer *)
(* scheduler queues for each session and a timer flushes the queues.  When *)
(* the component is selectable a selector picks one of them per message.   *)
(*                                                                         *)
(* Messages are numbered in the order they are scheduled.  Sessions open,  *)
(* get bound, finish the handshake and close as in SessionService; here    *)
(* only what the schedulers read of them is kept.                          *)
(***************************************************************************)
EXTENDS Integers, Sequences, FiniteSets
Seqs == INSTANCE SequencesExt

CONSTANTS Sids, Uids, NoUid,
          Schedulers,      \* {"direct"}, {"buffer"}, or both if selectable
          MaxMessages      \* bound: how many messages are scheduled

ASSUME SchedulerAssumption == /\ IsFiniteSet(Sids) /\ NoUid \notin Uids
                              /\ Schedulers \subseteq {"direct", "buffer"}
                              /\ MaxMessages \in Nat

VARIABLES open,            \* the registered sessions
          over,            \* those that are closed
          uid,             \* uid[s]: who s is bound to
          working,         \* sessions whose socket is in ST_WORKING
          queue,           \* this.sessions of the buffer: sid -> messages
          running,         \* the flush timer is set
          scheduled,       \* messages scheduled so far
          buffered,        \* the messages the buffer took
          accepted,        \* accepted[m]: sessions message m is meant for
          sent             \* sent[s]: the messages written to s's socket

sessionVars == <<open, over, uid, working>>
schedulerVars == <<open, over, uid, working, queue, running, scheduled, buffered, accepted, sent>>

Numbers == 1..MaxMessages

SchedulerTypeOK == /\ open \subseteq Sids /\ over \subseteq Sids /\ working \subseteq open
                   /\ uid \in [Sids -> Uids \cup {NoUid}]
                   /\ DOMAIN queue \subseteq Sids
                   /\ \A s \in DOMAIN queue : queue[s] \in Seq(Numbers)
                   /\ running \in BOOLEAN
                   /\ scheduled \in 0..MaxMessages
                   /\ buffered \subseteq 1..scheduled
                   /\ accepted \in [Numbers -> SUBSET Sids]
                   /\ sent \in [Sids -> Seq(Numbers)]

SchedulerInit == /\ open = {} /\ over = {} /\ working = {}
                 /\ uid = [s \in Sids |-> NoUid]
                 /\ queue = <<>>
                 /\ running = ("buffer" \in Schedulers)
                 /\ scheduled = 0
                 /\ buffered = {}
                 /\ accepted = [m \in Numbers |-> {}]
                 /\ sent = [s \in Sids |-> <<>>]

-----------------------------------------------------------------------------
(* The life of sessions *)

Open(s) == /\ s \notin open \cup over
           /\ open' = open \cup {s}
           /\ UNCHANGED <<over, uid, working, queue, running, scheduled, buffered, accepted, sent>>

HandshakeDone(s) == /\ s \in open \ working
                    /\ working' = working \cup {s}
                    /\ UNCHANGED <<open, over, uid, queue, running, scheduled, buffered, accepted, sent>>

Bind(s, u) == /\ s \in open /\ uid[s] = NoUid
              /\ uid' = [uid EXCEPT ![s] = u]
              /\ UNCHANGED <<open, over, working, queue, running, scheduled, buffered, accepted, sent>>

QueueStays(s) == UNCHANGED queue

\* onClose, the listener enqueue installs with a queue.
DropQueue(s) == queue' = [t \in DOMAIN queue \ {s} |-> queue[t]]


\* The listener of enqueue runs within closed(); the socket is disconnected
\* before the next event.
Close(s) == /\ s \in open
            /\ open' = open \ {s}
            /\ over' = over \cup {s}
            /\ working' = working \ {s}
            /\ DropQueue(s)
            /\ UNCHANGED <<uid, running, scheduled, buffered, accepted, sent>>

-----------------------------------------------------------------------------
(* Scheduling *)

\* socket.send of the messages ms to s, once for each: dropped unless WORKING.
Written(s, ms) == IF s \in working THEN sent[s] \o ms ELSE sent[s]

\* Message m goes k[s] times to each session of S, at once.
Direct(m, S, k) ==
    /\ sent' = [s \in Sids |->
                  IF s \in S THEN Written(s, [i \in 1..k[s] |-> m]) ELSE sent[s]]
    /\ UNCHANGED <<queue, buffered>>

\* What is queued for s.
Waiting(s) == IF s \in DOMAIN queue THEN queue[s] ELSE <<>>

EnqueueReplaces(m, S) ==
    /\ queue' = [s \in DOMAIN queue \cup S |-> IF s \in S THEN <<m>> ELSE queue[s]]
    /\ buffered' = buffered \cup {m}
    /\ UNCHANGED sent

\* enqueue, for each session of S.
Enqueue(m, S) ==
    /\ queue' = [s \in DOMAIN queue \cup S |->
                   IF s \in S THEN Append(Waiting(s), m) ELSE queue[s]]
    /\ buffered' = buffered \cup {m}
    /\ UNCHANGED sent

Once == [s \in Sids |-> 1]

\* A new message, meant for the sessions of S.
NewMessage(S) == /\ scheduled < MaxMessages
                 /\ scheduled' = scheduled + 1
                 /\ accepted' = [accepted EXCEPT ![scheduled + 1] = S]
                 /\ UNCHANGED <<sessionVars, running>>

\* doBatchPush to the receivers R, some of which may have closed meanwhile.
Push(R) == /\ R # {}
           /\ NewMessage(R \cap open)
           /\ \/ "direct" \in Schedulers /\ Direct(scheduled + 1, R \cap open, Once)
              \/ "buffer" \in Schedulers /\ Enqueue(scheduled + 1, R \cap open)

\* doBroadcast to all sessions that broadcastFilter lets through.
BroadcastAll(F) == /\ F \subseteq open
                   /\ NewMessage(F)
                   /\ \/ "direct" \in Schedulers /\ Direct(scheduled + 1, F, Once)
                      \/ "buffer" \in Schedulers /\ Enqueue(scheduled + 1, F)

BoundSessions == {s \in open : uid[s] # NoUid}

\* doBroadcast with opts.binded, to the bound sessions the filter lets
\* through.  The direct scheduler sends, for each of them, to all sessions of
\* its user.
BroadcastBinded(F) ==
    /\ F \subseteq BoundSessions
    /\ NewMessage(F)
    /\ \/ /\ "direct" \in Schedulers
          /\ Direct(scheduled + 1, BoundSessions,
                    [s \in Sids |-> Cardinality({t \in F : uid[t] = uid[s]})])
       \/ "buffer" \in Schedulers /\ Enqueue(scheduled + 1, F)

FlushKeepsQueue ==
    /\ running /\ \E s \in open : Waiting(s) # <<>>
    /\ sent' = [s \in Sids |-> IF s \in open THEN Written(s, Waiting(s)) ELSE sent[s]]
    /\ UNCHANGED <<sessionVars, queue, running, scheduled, buffered, accepted>>
FlushUnlessLast ==
    /\ running /\ \E s \in open : Len(Waiting(s)) > 1
    /\ sent' = [s \in Sids |-> IF s \in open THEN Written(s, Waiting(s)) ELSE sent[s]]
    /\ queue' = [s \in DOMAIN queue |-> IF s \in open THEN <<>> ELSE queue[s]]
    /\ UNCHANGED <<sessionVars, running, scheduled, buffered, accepted>>

\* The timer: every queue of a registered session in one batch.
Flush == /\ running
         /\ \E s \in open : Waiting(s) # <<>>
         /\ sent' = [s \in Sids |-> IF s \in open THEN Written(s, Waiting(s)) ELSE sent[s]]
         /\ queue' = [s \in DOMAIN queue |-> IF s \in open THEN <<>> ELSE queue[s]]
         /\ UNCHANGED <<sessionVars, running, scheduled, buffered, accepted>>

\* stop clears the timer; schedule still accepts messages afterwards.
Stop == /\ running
        /\ running' = FALSE
        /\ UNCHANGED <<sessionVars, queue, scheduled, buffered, accepted, sent>>

SchedulerNext == \/ \E s \in Sids : Open(s) \/ HandshakeDone(s) \/ Close(s)
                 \/ \E s \in Sids, u \in Uids : Bind(s, u)
                 \/ \E S \in SUBSET Sids : Push(S) \/ BroadcastAll(S) \/ BroadcastBinded(S)
                 \/ Flush
                 \/ Stop

SchedulerSpec == SchedulerInit /\ [][SchedulerNext]_schedulerVars

\* The timer fires as long as it is set.
FairSchedulerSpec == SchedulerSpec /\ WF_schedulerVars(Flush)

-----------------------------------------------------------------------------
(* Properties *)

\* A client gets those messages of the buffer that were meant for it (pushes to
\* its session, broadcasts that broadcastFilter let through), no other, at most
\* once and in the order they were scheduled, across flushes, closes and late
\* handshakes (receivers are named once in a push).  Direct messages overtake
\* them.
InOrderAtMostOnce ==
    \A s \in Sids : \A j \in 1..Len(sent[s]) : sent[s][j] \in buffered =>
        /\ s \in accepted[sent[s][j]]
        /\ \A i \in 1..j - 1 : sent[s][i] \in buffered => sent[s][i] < sent[s][j]

\* The buffer keeps queues of registered sessions only: closing a session
\* frees its queue, and nothing scheduled afterwards brings it back.
QueuesOfOpenSessions == DOMAIN queue \subseteq open

\* What a step adds to the messages written to s.
Added(s) == SubSeq(sent[s]', Len(sent[s]) + 1, Len(sent[s]'))

\* No step of the buffer loses, repeats or reorders what a live client is to
\* get.  What has been written stays, and a step goes on with the messages of
\* the buffer where the last one ended: what was queued is still queued first,
\* or written first, unless the step writes a direct message past the queue.
StreamOnlyGrows ==
    [][\A s \in working \cap open' :
         /\ Seqs!IsPrefix(sent[s], sent[s]')
         /\ \/ /\ \A i \in 1..Len(Added(s)) : Added(s)[i] \notin buffered'
               /\ Seqs!IsPrefix(Waiting(s), Waiting(s)')
            \/ /\ \A i \in 1..Len(Added(s)) : Added(s)[i] \in buffered'
               /\ Seqs!IsPrefix(Waiting(s), Added(s) \o Waiting(s)')]_schedulerVars

\* As long as the timer runs, what is queued for a session is flushed unless
\* the session closes first.
QueuedIsFlushed ==
    \A s \in Sids : Waiting(s) # <<>> ~> (~running \/ s \in over \/ Waiting(s) = <<>>)
=============================================================================
