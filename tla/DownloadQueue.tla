---------------------------- MODULE DownloadQueue ----------------------------
(* QueueClient of tools/data_downloader_queue_client.py: threads that fetch *)
(* data each run execute_request, which waits for a slot, finds or submits  *)
(* the request at the downloader under a correlation id, polls its status   *)
(* and fetches the result, and starts again when the wait times out.  The   *)
(* threads share what the client tracks: a table from correlation ids to    *)
(* info objects and one from request ids to correlation ids, both read and  *)
(* written under a lock that is not held during most calls to the server.   *)
(* The server's jobs are external: they end in any way, hang, are forgotten *)
(* or are found again by their correlation id.                              *)
EXTENDS Integers, Sequences, FiniteSets, Functions

CONSTANTS Threads, Keys, Asks,  \* Asks[t]: the key of the one request of t
          MaxConcurrent,        \* slots of the semaphore
          MaxTimeouts,          \* bound: timeouts are told apart up to here
          Outcomes,             \* the ways in which a job for a key may end
          Workloads             \* bound: which threads run, and how many calls
                                \* are lost, jobs hang and answers are late
Ended == {"completed", "failed", "unavailable", "dead"}
ASSUME DownloadAssumption == /\ Asks \in [Threads -> Keys]
                             /\ Outcomes \in [Keys -> SUBSET Ended]
                             /\ MaxConcurrent \in Nat \ {0}
                             /\ MaxTimeouts \in Nat
                             /\ Workloads \subseteq [active : SUBSET Threads, faults : Nat]

VARIABLES
  jobs,      \* the server's jobs, a sequence of [cid, state, gone]
  dedups,    \* whether the server finds an open job by its correlation id
  infos,     \* the info objects that something refers to: [rid, cid, status]
  pending,   \* _pending_requests: correlation id -> index of an info
  tracked,   \* _request_id_to_correlation: request id -> correlation id
  free,      \* free slots of the semaphore
  thr,       \* what each thread holds, and its place in the code
  faults     \* how many more things may go wrong
vars == <<jobs, dedups, infos, pending, tracked, free, thr, faults>>
table == <<infos, pending, tracked>>

(* Mutant: the id is built from the path alone.                             *)
PathCorrelation(key, n) == [key |-> CHOOSE k \in Keys : TRUE, retry |-> n]

(* A correlation id: that of the request (retry 0), or the one forced after *)
(* the n-th timeout.  The code adds the second to it; two threads that time *)
(* out in one second share it, which is the case modelled.                  *)
Correlation(key, n) == [key |-> key, retry |-> n]

Reported(state) == IF state = "stuck" THEN "open" ELSE state
Without(f, x) == Restrict(f, DOMAIN f \ {x})
With(f, x, v) == [y \in DOMAIN f \cup {x} |-> IF y = x THEN v ELSE f[y]]
At(t, place) == thr[t].pc = place
Fault == faults > 0 /\ faults' = faults - 1
NoFault == faults' = faults

(* Mutant: every timeout waits on the same logical request.                 *)
SameCorrelation(t, n) == Correlation(Asks[t], 0)

(* correlation_id_override: the id changes after the third timeout.         *)
NextCorrelation(t, n) == Correlation(Asks[t], IF n >= 3 THEN n ELSE 0)

TypeOK ==
  /\ \A r \in DOMAIN jobs : jobs[r].state \in Ended \cup {"open", "stuck"}
  /\ \A cid \in DOMAIN pending : infos[pending[cid]].cid = cid
  /\ \A r \in DOMAIN tracked : r \in DOMAIN jobs /\ jobs[r].cid = tracked[r]
  /\ free \in 0..MaxConcurrent
  /\ \A t \in Threads : thr[t].errs \in 0..2 /\ thr[t].cid.key = Asks[t]

Init ==
  /\ jobs = <<>> /\ infos = <<>> /\ pending = <<>> /\ tracked = <<>>
  /\ dedups \in BOOLEAN
  /\ free = MaxConcurrent
  /\ \E w \in Workloads :
       /\ faults = w.faults
       /\ thr = [t \in Threads |->
            [pc |-> IF t \in w.active THEN "start" ELSE "done",
             cid |-> NextCorrelation(t, 0), rid |-> 0, info |-> 0, seen |-> "none",
             timeouts |-> 0, errs |-> 0, answer |-> "none"]]
-----------------------------------------------------------------------------
(* _refresh_status(rid), as what it does to the table.                      *)
CanHear(rid) == rid \in DOMAIN tracked /\ tracked[rid] \in DOMAIN pending

Hear(rid, status) ==
  /\ infos' = IF CanHear(rid)
              THEN [infos EXCEPT ![pending[tracked[rid]]].status = status]
              ELSE infos
  /\ UNCHANGED <<pending, tracked>>

(* Mutant: a 404 forgets the request id alone.                              *)
ForgetIdOnly(rid) == tracked' = Without(tracked, rid) /\ UNCHANGED <<infos, pending>>

(* A 404 forgets the request id and whatever its correlation id now holds.  *)
Forget(rid) ==
  /\ pending' = IF rid \in DOMAIN tracked THEN Without(pending, tracked[rid]) ELSE pending
  /\ tracked' = Without(tracked, rid)
  /\ UNCHANGED infos

Answer(rid) == IF jobs[rid].gone THEN Forget(rid)
               ELSE Hear(rid, Reported(jobs[rid].state))
-----------------------------------------------------------------------------
(* The end of execute_request, whose finally clause gives the slot back.    *)
Leave(t, answer) ==
  /\ free' = free + 1
  /\ thr' = [thr EXCEPT ![t] =
              [@ EXCEPT !.pc = "done", !.answer = answer, !.errs = 0,
                        !.timeouts = 0, !.cid = NextCorrelation(t, 0),
                        !.info = 0, !.seen = "none"]]

Acquire(t) ==
  /\ At(t, "start") /\ free > 0
  /\ free' = free - 1
  /\ thr' = [thr EXCEPT ![t].pc = "look"]
  /\ UNCHANGED <<jobs, dedups, table, faults>>

(* check_or_submit holds the lock through its status call, so no other      *)
(* thread touches the table meanwhile.                                      *)
Look(t) ==
  LET cid == thr[t].cid
      open(i) == infos[i].status = "open"
      rid == infos[pending[cid]].rid
  IN /\ At(t, "look")
     /\ UNCHANGED <<jobs, dedups, free>>
     /\ IF cid \in DOMAIN pending /\ open(pending[cid])
        THEN /\ \/ Fault /\ UNCHANGED table
                \/ NoFault /\ Answer(rid)
             /\ thr' = IF cid \in DOMAIN pending' /\ infos'[pending'[cid]].status = "open"
                       THEN [thr EXCEPT ![t].pc = "poll", ![t].rid = rid]
                       ELSE [thr EXCEPT ![t].pc = "submit"]
        ELSE /\ thr' = [thr EXCEPT ![t].pc = "submit"]
             /\ NoFault /\ UNCHANGED table

(* _submit_request, outside the lock: the server takes the job, but its     *)
(* reply may be lost and the request sent again.  A full queue or a         *)
(* transient error is sent again and changes nothing.                       *)
JobFor(cid) ==
  LET open == {r \in DOMAIN jobs : /\ jobs[r].cid = cid /\ ~jobs[r].gone
                                   /\ jobs[r].state \in {"open", "stuck"}}
  IN IF dedups /\ open # {} THEN CHOOSE r \in open : TRUE ELSE Len(jobs) + 1

Submit(t) ==
  LET cid == thr[t].cid
      rid == JobFor(cid)
  IN /\ At(t, "submit")
     /\ jobs' = IF rid \in DOMAIN jobs THEN jobs
                ELSE Append(jobs, [cid |-> cid, state |-> "open", gone |-> FALSE])
     /\ \/ NoFault /\ thr' = [thr EXCEPT ![t].pc = "track", ![t].rid = rid]
        \/ Fault /\ UNCHANGED thr
     /\ UNCHANGED <<dedups, table, free>>

(* An HTTP error that is not transient is raised to the caller.             *)
Refused(t) ==
  /\ At(t, "submit") /\ Fault
  /\ Leave(t, "refused")
  /\ UNCHANGED <<jobs, dedups, table>>

Track(t) ==
  /\ At(t, "track")
  /\ LET held == Range(pending) \cup {thr[u].info : u \in Threads}
         i == CHOOSE i \in 1..(Cardinality(held) + 1) : i \notin held
         info == [rid |-> thr[t].rid, cid |-> thr[t].cid, status |-> "open"]
     IN /\ infos' = With(Restrict(infos, held \ {0}), i, info)
        /\ pending' = With(pending, thr[t].cid, i)
  /\ tracked' = With(tracked, thr[t].rid, thr[t].cid)
  /\ thr' = [thr EXCEPT ![t].pc = "poll"]
  /\ UNCHANGED <<jobs, dedups, free, faults>>
-----------------------------------------------------------------------------
(* wait_for_result: the status call and, under the lock, the table; then a  *)
(* look at the shared info, after the lock is released.  The call is made   *)
(* before the lock is taken; as the two are one step here, an answer is not *)
(* older than what another thread has written meanwhile (an old "open" over *)
(* an end would only be heard anew by the next poll).                       *)
Poll(t) ==
  LET rid == thr[t].rid
  IN /\ At(t, "poll") /\ NoFault
     /\ Answer(rid)
     /\ thr' = IF ~jobs[rid].gone /\ CanHear(rid)
               THEN [thr EXCEPT ![t].pc = "read", ![t].info = pending[tracked[rid]]]
               ELSE [thr EXCEPT ![t].errs = 0]
     /\ UNCHANGED <<jobs, dedups, free>>

(* No answer: the count of errors begins again; if it is 0, nothing happens.*)
PollFails(t) ==
  /\ At(t, "poll") /\ thr[t].errs > 0 /\ Fault
  /\ thr' = [thr EXCEPT ![t].errs = 0]
  /\ UNCHANGED <<jobs, dedups, table, free>>

Polling(t, errs) ==
  [thr EXCEPT ![t] = [@ EXCEPT !.pc = "poll", !.errs = errs, !.info = 0, !.seen = "none"]]

(* "unavailable" is a failed IBKR history request that the client gives up  *)
(* without asking for its result.                                           *)
Read(t) ==
  LET status == infos[thr[t].info].status
  IN /\ At(t, "read")
     /\ thr' = CASE status = "open" -> Polling(t, thr[t].errs)
                 [] status \in {"completed", "failed"} ->
                      [thr EXCEPT ![t].pc = "fetch", ![t].seen = status]
                 [] OTHER -> [thr EXCEPT ![t].pc = "mark"]
     /\ UNCHANGED <<jobs, dedups, table, free, faults>>

(* The info that the correlation id holds by now, if any.                   *)
Mark(t, status) ==
  LET cid == infos[thr[t].info].cid
  IN /\ infos' = IF cid \in DOMAIN pending
                 THEN [infos EXCEPT ![pending[cid]].status = status] ELSE infos
     /\ UNCHANGED <<jobs, dedups, pending, tracked, faults>>

RaiseDead(t) ==
  At(t, "mark") /\ Mark(t, "dead") /\ Leave(t, "dead")

Return(t) ==
  At(t, "store") /\ Mark(t, thr[t].seen) /\ Leave(t, thr[t].answer)

(* What get_result makes of the server's reply.                             *)
Result(rid) ==
  LET j == jobs[rid]
  IN CASE j.gone -> "missing"
       [] ~j.gone /\ j.state = "completed" -> "data"
       [] ~j.gone /\ j.state = "failed" -> "nodata"
       [] ~j.gone /\ j.state = "dead" -> "dead"
       [] OTHER -> "wait"

Fetch(t) ==
  LET result == Result(thr[t].rid)
  IN /\ At(t, "fetch") /\ NoFault
     /\ thr' = CASE result = "wait" -> Polling(t, 0)
                 [] result = "dead" -> [thr EXCEPT ![t].pc = "mark"]
                 [] OTHER -> [thr EXCEPT ![t].pc = "store", ![t].answer = result]
     /\ UNCHANGED <<jobs, dedups, table, free>>

(* The result is not ready yet.                                             *)
FetchTooEarly(t) ==
  /\ At(t, "fetch") /\ Fault
  /\ thr' = Polling(t, 0)
  /\ UNCHANGED <<jobs, dedups, table, free>>

(* A TimeoutError, caught in execute_request, begins the request again.     *)
Again(t) ==
  LET n == IF thr[t].timeouts < MaxTimeouts THEN thr[t].timeouts + 1 ELSE MaxTimeouts
  IN thr' = [thr EXCEPT ![t] =
               [@ EXCEPT !.pc = "look", !.timeouts = n, !.errs = 0,
                         !.cid = NextCorrelation(t, n), !.info = 0, !.seen = "none"]]

FetchFails(t) ==
  /\ At(t, "fetch") /\ Fault
  /\ IF thr[t].errs < 2
     THEN thr' = Polling(t, thr[t].errs + 1)
     ELSE Again(t)
  /\ UNCHANGED <<jobs, dedups, table, free>>

(* The wait is over its limit: always so in the end when the thread cannot  *)
(* learn its result, and otherwise a fault, for a slow server.              *)
CannotLearn(t) ==
  LET rid == thr[t].rid IN jobs[rid].gone \/ jobs[rid].state = "stuck" \/ ~CanHear(rid)

TimedOut(t) ==
  /\ At(t, "poll")
  /\ IF CannotLearn(t) THEN NoFault ELSE Fault
  /\ Answer(thr[t].rid)
  /\ Again(t)
  /\ UNCHANGED <<jobs, dedups, free>>

(* cleanup_completed: entries that nothing has asked about for an hour,     *)
(* taken here as a time when no request is under way.                       *)
CleanupCompleted ==
  /\ \E cid \in DOMAIN pending :
       LET rid == infos[pending[cid]].rid
       IN /\ infos[pending[cid]].status \in {"completed", "dead"}
          /\ free = MaxConcurrent
          /\ pending' = Without(pending, cid)
          /\ tracked' = Without(tracked, rid)
  /\ UNCHANGED <<jobs, dedups, infos, free, thr, faults>>
-----------------------------------------------------------------------------
(* The server: external.                                                    *)
Finish(r) ==
  /\ r \in DOMAIN jobs /\ jobs[r].state = "open" /\ ~jobs[r].gone
  /\ \E state \in Outcomes[jobs[r].cid.key] : jobs' = [jobs EXCEPT ![r].state = state]
  /\ UNCHANGED <<dedups, table, free, thr, faults>>

Hang(r) ==
  /\ r \in DOMAIN jobs /\ jobs[r].state = "open" /\ Fault
  /\ jobs' = [jobs EXCEPT ![r].state = "stuck"]
  /\ UNCHANGED <<dedups, table, free, thr>>

Lose(r) ==
  /\ r \in DOMAIN jobs /\ ~jobs[r].gone /\ Fault
  /\ jobs' = [jobs EXCEPT ![r].gone = TRUE]
  /\ UNCHANGED <<dedups, table, free, thr>>

Next ==
  \/ \E t \in Threads : Acquire(t)
  \/ \E t \in Threads : Look(t)
  \/ \E t \in Threads : Submit(t)
  \/ \E t \in Threads : Refused(t)
  \/ \E t \in Threads : Track(t)
  \/ \E t \in Threads : Poll(t)
  \/ \E t \in Threads : PollFails(t)
  \/ \E t \in Threads : Read(t)
  \/ \E t \in Threads : RaiseDead(t)
  \/ \E t \in Threads : Return(t)
  \/ \E t \in Threads : Fetch(t)
  \/ \E t \in Threads : FetchTooEarly(t)
  \/ \E t \in Threads : FetchFails(t)
  \/ \E t \in Threads : TimedOut(t)
  \/ CleanupCompleted
  \/ \E r \in DOMAIN jobs : Finish(r)
  \/ \E r \in DOMAIN jobs : Hang(r)
  \/ \E r \in DOMAIN jobs : Lose(r)

Spec == Init /\ [][Next]_vars

(* Threads run, a wait that can learn nothing reaches its limit, and the    *)
(* server ends every job that does not hang.                                *)
Runs(t) == \/ Acquire(t) \/ Look(t) \/ Submit(t) \/ Track(t)
           \/ Poll(t) \/ Read(t) \/ RaiseDead(t)
           \/ Return(t) \/ Fetch(t)
FairSpec == /\ Spec
            /\ \A t \in Threads : WF_vars(Runs(t))
            /\ \A t \in Threads : SF_vars(TimedOut(t) /\ CannotLearn(t))
            /\ WF_vars(\E r \in DOMAIN jobs : Finish(r))
-----------------------------------------------------------------------------
(* Data handed to a caller is the result of a job for what it asked, not of *)
(* another request that shares the table.                                   *)
DataIsOwn == \A t \in Threads : thr[t].answer = "data" =>
  /\ jobs[thr[t].rid].state = "completed"
  /\ jobs[thr[t].rid].cid.key = Asks[t]

(* Whoever is told that its request failed permanently asked for something  *)
(* the server did give up, though statuses of several jobs meet in one info.*)
DeathIsReal == \A t \in Threads : thr[t].answer = "dead" =>
  \E r \in DOMAIN jobs : /\ jobs[r].state \in {"dead", "unavailable"}
                         /\ jobs[r].cid.key = Asks[t]

(* What a caller is told, data or death, is told of its own request.       *)
AnswersAreOwn == DataIsOwn /\ DeathIsReal

(* A request that check_or_submit would hand out again is one whose status  *)
(* can still be refreshed: a thread sent to wait for it would otherwise be  *)
(* sent there for ever.                                                     *)
HandedOutIsTracked == \A cid \in DOMAIN pending :
  LET rid == infos[pending[cid]].rid IN rid \in DOMAIN tracked /\ tracked[rid] = cid

(* Every request ends, with an answer or an exception, and gives its slot   *)
(* back, although jobs hang under their correlation id and are forgotten.   *)
EveryRequestEnds == \A t \in Threads : <>At(t, "done")

(* As the messages and queue_request's contract say: the request that       *)
(* failed permanently is the one the thread waited for.                     *)
DeathIsOwn == \A t \in Threads :
  thr[t].answer = "dead" => jobs[thr[t].rid].state \in {"dead", "unavailable"}
=============================================================================
