------------------------- MODULE AsyncHTTPGETClient -------------------------
(***************************************************************************)
(* The background HTTP client (src/AsyncHTTPGETClient.cpp): the loop       *)
(* thread queues and removes requests, and destroys the client; a request  *)
(* thread performs them and sleeps on a condition variable.                *)
(*                                                                         *)
(* Every section under queueLock touches nothing else that is shared, so   *)
(* it is one step.  waitLock is held across steps.  libcurl is external:   *)
(* curl_easy_perform ends, for CURLOPT_TIMEOUT is set.                     *)
(***************************************************************************)
EXTENDS Naturals, Sequences, SequencesExt

CONSTANTS
  Req,   \* requests, each made once
  Proxy  \* those with the url that removeRequests is called with

ASSUME RequestAssumption == Proxy \subseteq Req

VARIABLES
  made,             \* history: the requests in the order of queueRequest
  requestQueue,
  performed,        \* history: the requests in the order of their callbacks
  removed,          \* history
  terminateThread,
  waitLock,         \* "free", or the thread that holds it
  worker,           \* where the request thread is
  job,              \* the request it performs, as a sequence of at most one
  loop              \* where the loop thread is

vars == <<made, requestQueue, performed, removed, terminateThread, waitLock,
          worker, job, loop>>

TypeOK ==
  /\ made \in Seq(Req) /\ requestQueue \in Seq(Req)
  /\ performed \in Seq(Req) /\ job \in Seq(Req)
  /\ removed \subseteq Proxy
  /\ terminateThread \in BOOLEAN
  /\ waitLock \in {"free", "worker", "loop"}
  /\ worker \in {"testing", "locking", "taking", "performing", "empty", "asleep",
                 "woken", "ended"}
  /\ loop \in {"idle", "pushing", "notifying", "unlocking", "terminating",
               "joining", "joined"}

Init ==
  /\ made = <<>> /\ requestQueue = <<>> /\ performed = <<>> /\ removed = {}
  /\ terminateThread = FALSE
  /\ waitLock = "free"
  /\ worker = "testing" /\ job = <<>>
  /\ loop = "idle"

-----------------------------------------------------------------------------
\* The loop thread.

\* queueRequest takes waitLock, pushes, notifies, and unlocks as it returns.
\* Mutant: queueRequest does not wait for waitLock.
LockToQueue_barging ==
  /\ loop = "idle"
  /\ ToSet(made) # Req
  /\ loop' = "pushing"
  /\ UNCHANGED <<made, requestQueue, performed, removed, terminateThread, waitLock,
                 worker, job>>
LockToQueue ==
  /\ loop = "idle" /\ waitLock = "free"
  /\ ToSet(made) # Req
  /\ waitLock' = "loop" /\ loop' = "pushing"
  /\ UNCHANGED <<made, requestQueue, performed, removed, terminateThread, worker, job>>

Push(r) ==
  /\ loop = "pushing"
  /\ r \in Req \ ToSet(made)
  /\ made' = Append(made, r)
  /\ requestQueue' = Append(requestQueue, r)
  /\ loop' = "notifying"
  /\ UNCHANGED <<performed, removed, terminateThread, waitLock, worker, job>>

\* cv.notify_all: only a thread that sleeps hears it.
notify_all == worker' = IF worker = "asleep" THEN "woken" ELSE worker

NotifyQueued ==
  /\ loop = "notifying"
  /\ notify_all
  /\ loop' = "unlocking"
  /\ UNCHANGED <<made, requestQueue, performed, removed, terminateThread, waitLock, job>>

UnlockQueued ==
  /\ loop = "unlocking"
  /\ waitLock' = "free" /\ loop' = "idle"
  /\ UNCHANGED <<made, requestQueue, performed, removed, terminateThread, worker, job>>

\* The requests of a queue that are not in R, in the order of the queue.
Without(queue, R) ==
  LET kept[n \in 0..Len(queue)] ==
        IF n = 0 THEN <<>>
        ELSE IF queue[n] \in R THEN kept[n - 1] ELSE Append(kept[n - 1], queue[n])
  IN  kept[Len(queue)]

\* Every request is taken off the front once; the others go to the back.
\* Mutants: the loop turns once too often; every request counts as removed.
Kept_turned(queue) ==
  LET k == Without(queue, Proxy) IN
  IF k = <<>> THEN k ELSE Append(Tail(k), Head(k))
Dropped_all(queue) == ToSet(queue)
Kept(queue) == Without(queue, Proxy)

Dropped(queue) == ToSet(queue) \cap Proxy

removeRequests ==
  /\ loop = "idle"
  /\ requestQueue' = Kept(requestQueue)
  /\ removed' = removed \cup Dropped(requestQueue)
  /\ UNCHANGED <<made, performed, terminateThread, waitLock, worker, job, loop>>

\* The destructor sets the flag, notifies and joins, without waitLock.
Terminate ==
  /\ loop = "idle"
  /\ terminateThread' = TRUE
  /\ loop' = "terminating"
  /\ UNCHANGED <<made, requestQueue, performed, removed, waitLock, worker, job>>

NotifyTerminated ==
  /\ loop = "terminating"
  /\ notify_all
  /\ loop' = "joining"
  /\ UNCHANGED <<made, requestQueue, performed, removed, terminateThread, waitLock, job>>

Join ==
  /\ loop = "joining" /\ worker = "ended"
  /\ loop' = "joined"
  /\ UNCHANGED <<made, requestQueue, performed, removed, terminateThread, waitLock,
                 worker, job>>

-----------------------------------------------------------------------------
\* The request thread: processRequests.
Test ==
  /\ worker = "testing"
  /\ worker' = IF terminateThread THEN "ended" ELSE "locking"
  /\ UNCHANGED <<made, requestQueue, performed, removed, terminateThread, waitLock,
                 job, loop>>

Lock ==
  /\ worker = "locking" /\ waitLock = "free"
  /\ waitLock' = "worker" /\ worker' = "taking"
  /\ UNCHANGED <<made, requestQueue, performed, removed, terminateThread, job, loop>>

Take ==
  /\ worker = "taking"
  /\ IF requestQueue = <<>>
     THEN worker' = "empty" /\ UNCHANGED <<requestQueue, job>>
     ELSE /\ job' = <<Head(requestQueue)>>
          /\ requestQueue' = Tail(requestQueue)
          /\ worker' = "performing"
  /\ UNCHANGED <<made, performed, removed, terminateThread, waitLock, loop>>

Perform ==
  /\ worker = "performing"
  /\ performed' = performed \o job
  /\ job' = <<>>
  /\ worker' = "taking"
  /\ UNCHANGED <<made, requestQueue, removed, terminateThread, waitLock, loop>>

\* cv.wait unlocks waitLock and sleeps in one step.
Wait ==
  /\ worker = "empty"
  /\ waitLock' = "free" /\ worker' = "asleep"
  /\ UNCHANGED <<made, requestQueue, performed, removed, terminateThread, job, loop>>

\* A condition variable may wake without a reason.
WakeSpuriously ==
  /\ worker = "asleep"
  /\ worker' = "woken"
  /\ UNCHANGED <<made, requestQueue, performed, removed, terminateThread, waitLock,
                 job, loop>>

\* cv.wait takes waitLock again, and the end of the loop's body releases it.
Wake ==
  /\ worker = "woken" /\ waitLock = "free"
  /\ worker' = "testing"
  /\ UNCHANGED <<made, requestQueue, performed, removed, terminateThread, waitLock,
                 job, loop>>

LoopStep == \/ \E r \in Req : Push(r)
            \/ NotifyQueued \/ UnlockQueued \/ NotifyTerminated \/ Join
LoopCall == LockToQueue \/ removeRequests \/ Terminate
WorkerStep == Test \/ Lock \/ Take \/ Perform \/ Wait \/ Wake

Next == LoopStep \/ LoopCall \/ WorkerStep \/ WakeSpuriously

Spec == Init /\ [][Next]_vars

\* Both threads run on, and a call that was begun is ended; nothing has to be
\* called, and no wakeup without a reason can be relied on.  There are finitely
\* many requests, so the request thread gets waitLock in the end.
FairSpec == Spec /\ WF_vars(LoopStep) /\ WF_vars(WorkerStep)

-----------------------------------------------------------------------------
\* waitLock is held by the thread that is between locking and unlocking it.
LockIsHeld ==
  /\ waitLock = "worker" <=> worker \in {"taking", "performing", "empty"}
  /\ waitLock = "loop" <=> loop \in {"pushing", "notifying", "unlocking"}

\* No lost wakeup of a request: while the request thread sleeps the queue is
\* empty, unless queueRequest is about to notify it (waitLock in queueRequest).
SleepsOnlyWhenIdle ==
  /\ worker = "asleep" => requestQueue = <<>> \/ loop = "notifying"
  /\ worker = "empty" => requestQueue = <<>>

\* Requests are performed in the order in which they were made, each once, but
\* for those that were removed before their turn (removeRequests, Take).
ServedInOrder ==
  Without(made, removed) = performed \o job \o requestQueue

\* Every request is answered unless it is removed or the client is destroyed.
RequestsAreAnswered ==
  \A r \in Req : (r \in ToSet(made)) ~>
                   (r \in ToSet(performed) \cup removed \/ terminateThread)

\* "Saving worlds and exiting...": the destructor returns.
DestructorReturns == (loop = "terminating") ~> (loop = "joined")
=============================================================================
