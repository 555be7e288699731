------------------------ MODULE DownloadQueue_proofs ------------------------
(* Safety of DownloadQueue for any threads and keys, any number of slots,   *)
(* of lost calls and of jobs that hang or are forgotten: what a caller is   *)
(* told is told of its own request, an id that is handed out can still be   *)
(* heard of, and no more requests are under way than there are slots.       *)
EXTENDS DownloadQueue, FiniteSetTheorems, TLAPS

Place == {"start", "look", "submit", "track", "poll", "read", "fetch", "mark", "store", "done"}
Cid == [key : Keys, retry : Nat]
Job == [cid : Cid, state : Ended \cup {"open", "stuck"}, gone : BOOLEAN]
Info == [rid : Nat, cid : Cid, status : Ended \cup {"open"}]
Thread == [pc : Place, cid : Cid, rid : Nat, info : Nat,
           seen : {"none", "completed", "failed"}, timeouts : Nat, errs : 0..2,
           answer : {"none", "data", "nodata", "missing", "dead", "refused"}]

(* The server has given up something that was asked for with this key.      *)
Dead(key) == \E r \in DOMAIN jobs : /\ jobs[r].state \in {"dead", "unavailable"}
                                    /\ jobs[r].cid.key = key

-----------------------------------------------------------------------------
(* The parts of the invariant.                                              *)

(* An info is of the job that it names; what it says of a job's death is so.*)
InfoInv ==
  /\ IsFiniteSet(DOMAIN infos) /\ DOMAIN infos \subseteq Nat \ {0}
  /\ \A i \in DOMAIN infos :
       /\ infos[i] \in Info
       /\ infos[i].rid \in DOMAIN jobs /\ jobs[infos[i].rid].cid = infos[i].cid
       /\ infos[i].status \in {"dead", "unavailable"} => Dead(infos[i].cid.key)

(* The two tables agree with the infos and with the server's jobs.          *)
TableInv ==
  /\ \A cid \in DOMAIN pending :
       /\ pending[cid] \in DOMAIN infos
       /\ infos[pending[cid]].cid = cid
       /\ infos[pending[cid]].rid \in DOMAIN tracked
  /\ \A r \in DOMAIN tracked : r \in DOMAIN jobs /\ jobs[r].cid = tracked[r]

(* What a thread holds is of its own request, from the submission or the    *)
(* look that found it on.                                                   *)
RecordOK(t, r) ==
  /\ r \in Thread
  /\ r.cid.key = Asks[t]
  /\ r.pc \in {"track", "poll", "read", "fetch", "mark", "store"} =>
       r.rid \in DOMAIN jobs /\ jobs[r.rid].cid = r.cid
  /\ r.info # 0 => r.info \in DOMAIN infos /\ infos[r.info].cid.key = Asks[t]
  /\ r.pc \in {"read", "fetch", "mark", "store"} => r.info # 0
  /\ r.pc \in {"fetch", "store"} => r.seen # "none"
  /\ r.pc = "mark" => Dead(Asks[t])
  /\ r.pc \notin {"store", "done"} => r.answer = "none"
  /\ r.pc = "store" => r.answer \in {"data", "nodata", "missing"}
  /\ r.answer = "dead" => Dead(Asks[t])
  /\ r.answer = "data" => /\ r.rid \in DOMAIN jobs
                          /\ jobs[r.rid].state = "completed"
                          /\ jobs[r.rid].cid.key = Asks[t]
ThreadOK(t) == RecordOK(t, thr[t])

JobInv == jobs \in Seq(Job)

(* The semaphore counts the requests that are under way.                    *)
Inside == {t \in Threads : thr[t].pc \notin {"start", "done"}}
SlotInv == /\ IsFiniteSet(Inside) /\ free \in Nat
           /\ free + Cardinality(Inside) = MaxConcurrent

TablesInv == InfoInv /\ TableInv
ThreadsInv == thr \in [Threads -> Thread] /\ \A t \in Threads : ThreadOK(t)

IInv == JobInv /\ TablesInv /\ ThreadsInv /\ SlotInv

(* No more requests are under way than the semaphore has slots.             *)
WithinLimit == Cardinality(Inside) <= MaxConcurrent

-----------------------------------------------------------------------------
(* What the server may do to its jobs, and an action to the infos that are  *)
(* referred to.                                                             *)
JobsKept ==
  /\ jobs' \in Seq(Job)
  /\ DOMAIN jobs \subseteq DOMAIN jobs'
  /\ \A r \in DOMAIN jobs :
       /\ jobs'[r].cid = jobs[r].cid
       /\ jobs[r].state \in Ended => jobs'[r].state = jobs[r].state

InfoKept(i) == i \in DOMAIN infos' /\ infos'[i].cid = infos[i].cid

LEMMA SameJobs == ASSUME JobInv, UNCHANGED jobs PROVE JobsKept
BY DEF JobInv, JobsKept

LEMMA DeadStays == ASSUME JobsKept, NEW key, Dead(key) PROVE Dead(key)'
BY DEF JobsKept, Dead, Ended

LEMMA ThreadStays ==
  ASSUME NEW t \in Threads, ThreadOK(t), thr'[t] = thr[t], JobsKept,
         thr[t].info # 0 => InfoKept(thr[t].info)
  PROVE  ThreadOK(t)'
<1>1. Dead(Asks[t]) => Dead(Asks[t])'
  BY DeadStays
<1>2. \A r \in DOMAIN jobs : /\ r \in DOMAIN jobs' /\ jobs'[r].cid = jobs[r].cid
                             /\ jobs[r].state = "completed" => jobs'[r].state = "completed"
  BY DEF JobsKept, Ended
<1> QED BY <1>1, <1>2 DEF ThreadOK, RecordOK, InfoKept

(* One thread goes on, the others stay.                                     *)
LEMMA OneGoesOn ==
  ASSUME ThreadsInv, NEW t \in Threads, NEW r, thr' = [thr EXCEPT ![t] = r], JobsKept,
         \A u \in Threads : thr[u].info # 0 => InfoKept(thr[u].info),
         ThreadOK(t)'
  PROVE  ThreadsInv'
<1>1. thr'[t] = r /\ \A u \in Threads \ {t} : thr'[u] = thr[u]
  BY DEF ThreadsInv
<1>2. \A u \in Threads \ {t} : ThreadOK(u)'
  BY <1>1, ThreadStays DEF ThreadsInv
<1>3. r \in Thread
  BY <1>1 DEF ThreadOK, RecordOK
<1>4. thr' \in [Threads -> Thread]
  BY <1>3 DEF ThreadsInv
<1>5. \A u \in Threads : ThreadOK(u)'
  BY <1>2
<1> QED BY <1>4, <1>5 DEF ThreadsInv

-----------------------------------------------------------------------------
(* The slots.                                                               *)
LEMMA SlotsStay ==
  ASSUME ThreadsInv, SlotInv, NEW t \in Threads, NEW r, thr' = [thr EXCEPT ![t] = r],
         free' = free, thr[t].pc \notin {"start", "done"}, r.pc \notin {"start", "done"}
  PROVE  SlotInv'
<1>1. Inside' = Inside
  BY DEF ThreadsInv, Inside
<1> QED BY <1>1 DEF SlotInv

LEMMA SlotTaken ==
  ASSUME ThreadsInv, SlotInv, NEW t \in Threads, NEW r, thr' = [thr EXCEPT ![t] = r],
         free > 0, free' = free - 1, thr[t].pc = "start", r.pc \notin {"start", "done"}
  PROVE  SlotInv'
<1>1. Inside' = Inside \cup {t} /\ t \notin Inside
  BY DEF ThreadsInv, Inside
<1>2. IsFiniteSet(Inside') /\ Cardinality(Inside') = Cardinality(Inside) + 1
  BY <1>1, FS_AddElement DEF SlotInv
<1>3. Cardinality(Inside) \in Nat
  BY FS_CardinalityType DEF SlotInv
<1> QED BY <1>2, <1>3 DEF SlotInv

LEMMA SlotGiven ==
  ASSUME ThreadsInv, SlotInv, NEW t \in Threads, NEW r, thr' = [thr EXCEPT ![t] = r],
         free' = free + 1, thr[t].pc \notin {"start", "done"}, r.pc = "done"
  PROVE  SlotInv'
<1>1. Inside' = Inside \ {t} /\ t \in Inside
  BY DEF ThreadsInv, Inside
<1>2. IsFiniteSet(Inside') /\ Cardinality(Inside') = Cardinality(Inside) - 1
  BY <1>1, FS_RemoveElement DEF SlotInv
<1>3. Cardinality(Inside) \in Nat
  BY FS_CardinalityType DEF SlotInv
<1> QED BY <1>2, <1>3 DEF SlotInv

-----------------------------------------------------------------------------
(* The tables.                                                              *)
LEMMA TablesStay ==
  ASSUME TablesInv, JobsKept, UNCHANGED table
  PROVE  TablesInv' /\ \A i \in DOMAIN infos : InfoKept(i)
<1>1. \A r \in DOMAIN jobs : r \in DOMAIN jobs' /\ jobs'[r].cid = jobs[r].cid
  BY DEF JobsKept
<1>2. \A key : Dead(key) => Dead(key)'
  BY DeadStays
<1>3. InfoInv'
  BY <1>1, <1>2 DEF TablesInv, InfoInv, table
<1>4. TableInv'
  BY <1>1 DEF TablesInv, TableInv, table
<1> QED BY <1>3, <1>4 DEF TablesInv, InfoKept, table

(* The status of one info is set.                                           *)
LEMMA StatusSet ==
  ASSUME TablesInv, UNCHANGED <<jobs, pending, tracked>>,
         NEW j \in DOMAIN infos, NEW status \in Ended \cup {"open"},
         status \in {"dead", "unavailable"} => Dead(infos[j].cid.key),
         infos' = [infos EXCEPT ![j].status = status]
  PROVE  TablesInv' /\ \A i \in DOMAIN infos : InfoKept(i)
<1>1. DOMAIN infos' = DOMAIN infos
  OBVIOUS
<1>2. ASSUME NEW i \in DOMAIN infos
      PROVE  /\ infos'[i] \in Info /\ infos'[i].rid = infos[i].rid /\ infos'[i].cid = infos[i].cid
             /\ infos'[i].status = IF i = j THEN status ELSE infos[i].status
  <2>1. infos[i] \in Info
    BY DEF TablesInv, InfoInv
  <2>2. infos'[i] = IF i = j THEN [infos[i] EXCEPT !.status = status] ELSE infos[i]
    OBVIOUS
  <2> QED BY <2>1, <2>2 DEF Info
<1>3. InfoInv'
  <2>1. \A key : Dead(key)' <=> Dead(key)
    BY DEF Dead
  <2> QED BY <1>1, <1>2, <2>1 DEF TablesInv, InfoInv
<1>4. TableInv'
  BY <1>1, <1>2 DEF TablesInv, TableInv
<1> QED BY <1>1, <1>2, <1>3, <1>4 DEF TablesInv, InfoKept

LEMMA AnswerKeeps ==
  ASSUME JobInv, TablesInv, UNCHANGED jobs, NEW rid \in DOMAIN jobs, Answer(rid)
  PROVE  TablesInv' /\ \A i \in DOMAIN infos : InfoKept(i)
<1>1. CASE jobs[rid].gone
  <2>1. Forget(rid)
    BY <1>1 DEF Answer
  <2>2. infos' = infos /\ \A i \in DOMAIN infos : InfoKept(i)
    BY <2>1 DEF Forget, InfoKept
  <2>3. InfoInv'
    BY <2>2 DEF TablesInv, InfoInv, Dead
  <2>4. /\ DOMAIN pending' \subseteq DOMAIN pending
        /\ \A cid \in DOMAIN pending' : pending'[cid] = pending[cid]
        /\ DOMAIN tracked' = DOMAIN tracked \ {rid}
        /\ \A r \in DOMAIN tracked' : tracked'[r] = tracked[r]
        /\ rid \in DOMAIN tracked => tracked[rid] \notin DOMAIN pending'
    <3>1. tracked' = [r \in DOMAIN tracked \ {rid} |-> tracked[r]]
      BY <2>1 DEF Forget, Without, Restrict
    <3>2. rid \in DOMAIN tracked =>
            pending' = [cid \in DOMAIN pending \ {tracked[rid]} |-> pending[cid]]
      BY <2>1 DEF Forget, Without, Restrict
    <3>3. rid \notin DOMAIN tracked => pending' = pending
      BY <2>1 DEF Forget
    <3>4. DOMAIN tracked' = DOMAIN tracked \ {rid} /\ \A r \in DOMAIN tracked' : tracked'[r] = tracked[r]
      BY <3>1
    <3>5. CASE rid \in DOMAIN tracked
      <4> DEFINE S == DOMAIN pending \ {tracked[rid]}
      <4>1. pending' = [cid \in S |-> pending[cid]]
        BY <3>2, <3>5
      <4>2. S \subseteq DOMAIN pending /\ tracked[rid] \notin S
        OBVIOUS
      <4> HIDE DEF S
      <4>3. DOMAIN pending' = S /\ \A cid \in S : pending'[cid] = pending[cid]
        BY <4>1
      <4> QED BY <3>4, <4>2, <4>3, Zenon
    <3>6. CASE rid \notin DOMAIN tracked
      <4>1. DOMAIN pending' \subseteq DOMAIN pending /\ \A cid \in DOMAIN pending' : pending'[cid] = pending[cid]
        BY <3>3, <3>6
      <4> QED BY <3>4, <3>6, <4>1, Zenon
    <3> QED BY <3>5, <3>6
  <2>5. ASSUME NEW cid \in DOMAIN pending'
        PROVE  infos[pending[cid]].rid \in DOMAIN tracked'
    <3>1. /\ infos[pending[cid]].rid \in DOMAIN tracked
          /\ tracked[infos[pending[cid]].rid] = cid
      BY <2>4 DEF TablesInv, TableInv, InfoInv
    <3> QED BY <2>4, <3>1
  <2>6. TableInv'
    BY <2>2, <2>4, <2>5 DEF TablesInv, TableInv
  <2> QED BY <2>2, <2>3, <2>6 DEF TablesInv
<1>2. CASE ~jobs[rid].gone
  <2>1. Hear(rid, Reported(jobs[rid].state))
    BY <1>2 DEF Answer
  <2>2. CASE CanHear(rid)
    <3> DEFINE j == pending[tracked[rid]]
               status == Reported(jobs[rid].state)
    <3>1. j \in DOMAIN infos /\ infos[j].cid = jobs[rid].cid
      BY <2>2 DEF CanHear, TablesInv, TableInv
    <3>2. jobs[rid].state \in Ended \cup {"open", "stuck"}
      <4>1. jobs[rid] \in Job
        BY DEF JobInv
      <4> QED BY <4>1 DEF Job
    <3>3. /\ status \in Ended \cup {"open"}
          /\ status \in {"dead", "unavailable"} => jobs[rid].state = status
      BY <3>2 DEF Reported
    <3>4. status \in {"dead", "unavailable"} => Dead(infos[j].cid.key)
      BY <3>1, <3>3 DEF Dead
    <3>5. infos' = [infos EXCEPT ![j].status = status] /\ UNCHANGED <<pending, tracked>>
      BY <2>1, <2>2 DEF Hear
    <3> HIDE DEF j, status
    <3> QED BY <3>1, <3>3, <3>4, <3>5, StatusSet
  <2>3. CASE ~CanHear(rid)
    BY <2>1, <2>3, TablesStay, SameJobs DEF Hear, table
  <2> QED BY <2>2, <2>3
<1> QED BY <1>1, <1>2

(* An end is marked where the correlation id now points.                    *)
LEMMA MarkKeeps ==
  ASSUME JobInv, TablesInv, UNCHANGED jobs, NEW t \in Threads, ThreadOK(t), thr[t].info # 0,
         NEW status \in {"completed", "failed", "dead"}, Mark(t, status),
         status = "dead" => Dead(Asks[t])
  PROVE  TablesInv' /\ \A i \in DOMAIN infos : InfoKept(i)
<1> DEFINE cid == infos[thr[t].info].cid
<1>1. thr[t].info \in DOMAIN infos /\ cid.key = Asks[t]
  BY DEF ThreadOK, RecordOK
<1>2. CASE cid \in DOMAIN pending
  <2>1. pending[cid] \in DOMAIN infos /\ infos[pending[cid]].cid = cid
    BY <1>2 DEF TablesInv, TableInv
  <2>2. infos' = [infos EXCEPT ![pending[cid]].status = status] /\ UNCHANGED <<pending, tracked>>
    BY <1>2 DEF Mark
  <2>3. status \in Ended \cup {"open"} /\ (status \in {"dead", "unavailable"} => Dead(infos[pending[cid]].cid.key))
    BY <1>1, <2>1 DEF Ended
  <2> HIDE DEF cid
  <2> QED BY <2>1, <2>2, <2>3, StatusSet
<1>3. CASE cid \notin DOMAIN pending
  BY <1>3, TablesStay, SameJobs DEF Mark, table
<1> QED BY <1>2, <1>3

-----------------------------------------------------------------------------
(* A thread goes on to the record r.                                        *)
LEMMA MovedOK ==
  ASSUME NEW t \in Threads, NEW r, RecordOK(t, r), thr'[t] = r, UNCHANGED jobs,
         r.info # 0 => InfoKept(r.info)
  PROVE  ThreadOK(t)'
<1>1. Dead(Asks[t])' <=> Dead(Asks[t])
  BY DEF Dead
<1> QED BY <1>1 DEF ThreadOK, RecordOK, InfoKept

LEMMA Moved ==
  ASSUME IInv, NEW t \in Threads, NEW r, thr' = [thr EXCEPT ![t] = r], RecordOK(t, r),
         UNCHANGED jobs, \A i \in DOMAIN infos : InfoKept(i)
  PROVE  JobInv' /\ ThreadsInv'
<1>1. thr'[t] = r
  BY DEF IInv, ThreadsInv
<1>2. r.info # 0 => InfoKept(r.info)
  BY DEF RecordOK
<1>3. ThreadOK(t)'
  BY <1>1, <1>2, MovedOK
<1>4. JobsKept
  BY SameJobs DEF IInv
<1>5. \A u \in Threads : thr[u].info # 0 => InfoKept(thr[u].info)
  BY DEF IInv, ThreadsInv, ThreadOK, RecordOK
<1>6. ThreadsInv'
  BY <1>3, <1>4, <1>5, OneGoesOn DEF IInv
<1> QED BY <1>6 DEF IInv, JobInv

LEMMA Moves ==
  ASSUME IInv, NEW t \in Threads, NEW r, thr' = [thr EXCEPT ![t] = r], RecordOK(t, r),
         UNCHANGED <<jobs, table>>
  PROVE  JobInv' /\ TablesInv' /\ ThreadsInv'
<1>1. TablesInv' /\ \A i \in DOMAIN infos : InfoKept(i)
  BY SameJobs, TablesStay DEF IInv
<1> QED BY <1>1, Moved

LEMMA AnswerMoves ==
  ASSUME IInv, NEW t \in Threads, NEW r, thr' = [thr EXCEPT ![t] = r], RecordOK(t, r),
         UNCHANGED jobs, NEW rid \in DOMAIN jobs, Answer(rid)
  PROVE  JobInv' /\ TablesInv' /\ ThreadsInv'
<1>1. TablesInv' /\ \A i \in DOMAIN infos : InfoKept(i)
  BY AnswerKeeps DEF IInv
<1> QED BY <1>1, Moved

LEMMA NextCid ==
  ASSUME NEW t \in Threads, NEW n \in Nat
  PROVE  NextCorrelation(t, n) \in Cid /\ NextCorrelation(t, n).key = Asks[t]
BY DownloadAssumption DEF NextCorrelation, Correlation, Cid

-----------------------------------------------------------------------------
(* The records that a thread goes on to, each right if the thread's is.     *)
LEMMA AtPlace ==
  ASSUME IInv, NEW t \in Threads
  PROVE  thr[t] \in Thread /\ RecordOK(t, thr[t]) /\ t \in DOMAIN thr
BY DEF IInv, ThreadsInv, ThreadOK

LEMMA PlaceSet ==
  ASSUME NEW r \in Thread, NEW p \in Place, NEW q, q = [r EXCEPT !.pc = p]
  PROVE  /\ q \in Thread /\ q.pc = p /\ q.cid = r.cid /\ q.rid = r.rid /\ q.info = r.info
         /\ q.seen = r.seen /\ q.answer = r.answer
BY DEF Thread

LEMMA PollingRecord ==
  ASSUME NEW t \in Threads, NEW r, RecordOK(t, r), r.pc \in {"read", "fetch"},
         NEW errs \in 0..2
  PROVE  LET q == [r EXCEPT !.pc = "poll", !.errs = errs, !.info = 0, !.seen = "none"]
         IN RecordOK(t, q) /\ q.pc = "poll"
<1> DEFINE q == [r EXCEPT !.pc = "poll", !.errs = errs, !.info = 0, !.seen = "none"]
<1>1. r \in Thread
  BY DEF RecordOK
<1>2. q \in Thread
  BY <1>1 DEF Thread, Place
<1>3. /\ q.pc = "poll" /\ q.cid = r.cid /\ q.rid = r.rid /\ q.info = 0
      /\ q.answer = r.answer
  BY <1>1 DEF Thread
<1> QED BY <1>2, <1>3 DEF RecordOK

LEMMA AgainRecord ==
  ASSUME NEW t \in Threads, NEW r, RecordOK(t, r), r.pc \in {"poll", "fetch"},
         NEW n \in Nat
  PROVE  LET q == [r EXCEPT !.pc = "look", !.timeouts = n, !.errs = 0,
                            !.cid = NextCorrelation(t, n), !.info = 0, !.seen = "none"]
         IN RecordOK(t, q) /\ q.pc = "look"
<1> DEFINE q == [r EXCEPT !.pc = "look", !.timeouts = n, !.errs = 0,
                          !.cid = NextCorrelation(t, n), !.info = 0, !.seen = "none"]
<1> DEFINE c == NextCorrelation(t, n)
<1>1. c \in Cid /\ c.key = Asks[t]
  BY NextCid
<1> HIDE DEF c
<1>2. r \in Thread
  BY DEF RecordOK
<1>3. \A e \in 0..2 : [r EXCEPT !.pc = "look", !.timeouts = n, !.errs = e,
                       !.cid = c, !.info = 0, !.seen = "none"] \in Thread
  BY <1>1, <1>2 DEF Thread, Place
<1>4. q \in Thread
  BY <1>3 DEF c
<1>5. q.pc = "look" /\ q.cid = c /\ q.info = 0 /\ q.answer = r.answer
  BY <1>2 DEF Thread, c
<1> QED BY <1>1, <1>4, <1>5 DEF RecordOK

LEMMA LeaveRecord ==
  ASSUME NEW t \in Threads, NEW r, RecordOK(t, r),
         NEW a \in {"data", "nodata", "missing", "dead", "refused"},
         a = "dead" => Dead(Asks[t]),
         a = "data" => r.answer = "data"
  PROVE  LET q == [r EXCEPT !.pc = "done", !.answer = a, !.errs = 0, !.timeouts = 0,
                            !.cid = NextCorrelation(t, 0), !.info = 0, !.seen = "none"]
         IN RecordOK(t, q) /\ q.pc = "done"
<1> DEFINE q == [r EXCEPT !.pc = "done", !.answer = a, !.errs = 0, !.timeouts = 0,
                          !.cid = NextCorrelation(t, 0), !.info = 0, !.seen = "none"]
<1> DEFINE c == NextCorrelation(t, 0)
<1>1. c \in Cid /\ c.key = Asks[t]
  BY NextCid
<1> HIDE DEF c
<1>2. r \in Thread
  BY DEF RecordOK
<1>3. ASSUME NEW e \in 0..2, NEW m \in Nat, NEW i \in Nat
      PROVE  [r EXCEPT !.pc = "done", !.answer = a, !.errs = e, !.timeouts = m,
                       !.cid = c, !.info = i, !.seen = "none"] \in Thread
  BY <1>1, <1>2 DEF Thread, Place
<1>4. q \in Thread
  <2>1. 0 \in 0..2 /\ 0 \in Nat
    OBVIOUS
  <2> QED BY <1>3, <2>1, Zenon DEF c
<1>5. q.pc = "done" /\ q.cid = c /\ q.info = 0 /\ q.answer = a /\ q.rid = r.rid
  BY <1>2 DEF Thread, c
<1> QED BY <1>1, <1>4, <1>5 DEF RecordOK

-----------------------------------------------------------------------------
(* The steps of a thread that leave the tables alone.                       *)
LEMMA AcquireKeeps == ASSUME IInv, NEW t \in Threads, Acquire(t) PROVE IInv'
<1> DEFINE r == [thr[t] EXCEPT !.pc = "look"]
<1>1. thr' = [thr EXCEPT ![t] = r] /\ thr[t].pc = "start"
  BY DEF Acquire, At
<1>2. r \in Thread /\ r.pc = "look" /\ r.cid = thr[t].cid /\ r.info = thr[t].info
      /\ r.rid = thr[t].rid /\ r.answer = thr[t].answer
  BY AtPlace DEF Thread, Place
<1>3. RecordOK(t, r)
  BY <1>1, <1>2, AtPlace DEF RecordOK
<1> HIDE DEF r
<1>4. JobInv' /\ TablesInv' /\ ThreadsInv'
  BY <1>1, <1>3, Moves DEF Acquire
<1>5. SlotInv'
  BY <1>1, <1>2, SlotTaken DEF IInv, Acquire
<1> QED BY <1>4, <1>5 DEF IInv

LEMMA PollFailsKeeps == ASSUME IInv, NEW t \in Threads, PollFails(t) PROVE IInv'
<1> DEFINE r == [thr[t] EXCEPT !.errs = 0]
<1>1. thr' = [thr EXCEPT ![t] = r] /\ thr[t].pc = "poll"
  BY DEF PollFails, At
<1>2. r \in Thread /\ r.pc = "poll" /\ r.cid = thr[t].cid /\ r.info = thr[t].info
      /\ r.rid = thr[t].rid /\ r.answer = thr[t].answer
  BY <1>1, AtPlace DEF Thread, Place
<1>3. RecordOK(t, r)
  BY <1>1, <1>2, AtPlace DEF RecordOK
<1> HIDE DEF r
<1>4. JobInv' /\ TablesInv' /\ ThreadsInv'
  BY <1>1, <1>3, Moves DEF PollFails
<1>5. SlotInv'
  BY <1>1, <1>2, SlotsStay DEF IInv, PollFails
<1> QED BY <1>4, <1>5 DEF IInv

(* A thread that stays inside goes on to r; nothing else changes.           *)
LEMMA InsideMove ==
  ASSUME IInv, NEW t \in Threads, NEW r, RecordOK(t, r), thr' = [thr EXCEPT ![t] = r],
         thr[t].pc \notin {"start", "done"}, r.pc \notin {"start", "done"},
         UNCHANGED <<jobs, table, free>>
  PROVE  IInv'
<1>1. JobInv' /\ TablesInv' /\ ThreadsInv'
  BY Moves
<1>2. SlotInv'
  BY SlotsStay DEF IInv
<1> QED BY <1>1, <1>2 DEF IInv

LEMMA PollingKeeps ==
  ASSUME IInv, NEW t \in Threads, NEW errs \in 0..2, thr' = Polling(t, errs),
         thr[t].pc \in {"read", "fetch"}, UNCHANGED <<jobs, table, free>>
  PROVE  IInv'
<1> DEFINE r == [thr[t] EXCEPT !.pc = "poll", !.errs = errs, !.info = 0, !.seen = "none"]
<1>1. thr' = [thr EXCEPT ![t] = r]
  BY DEF Polling
<1>2. RecordOK(t, r) /\ r.pc = "poll"
  <2>1. RecordOK(t, thr[t])
    BY AtPlace
  <2> QED BY <2>1, PollingRecord, Zenon
<1> HIDE DEF r
<1> QED BY <1>1, <1>2, InsideMove

LEMMA AgainMoves ==
  ASSUME IInv, NEW t \in Threads, Again(t), thr[t].pc \in {"poll", "fetch"}
  PROVE  \E r : thr' = [thr EXCEPT ![t] = r] /\ RecordOK(t, r) /\ r.pc = "look"
<1> DEFINE n == IF thr[t].timeouts < MaxTimeouts THEN thr[t].timeouts + 1 ELSE MaxTimeouts
           r == [thr[t] EXCEPT !.pc = "look", !.timeouts = n, !.errs = 0,
                               !.cid = NextCorrelation(t, n), !.info = 0, !.seen = "none"]
<1>1. n \in Nat
  BY AtPlace, DownloadAssumption DEF Thread
<1>2. thr' = [thr EXCEPT ![t] = r]
  BY DEF Again
<1> HIDE DEF n
<1>3. RecordOK(t, r) /\ r.pc = "look"
  <2>1. RecordOK(t, thr[t])
    BY AtPlace
  <2> QED BY <1>1, <2>1, AgainRecord, Zenon
<1> HIDE DEF r
<1> QED BY <1>2, <1>3

LEMMA ReadKeeps == ASSUME IInv, NEW t \in Threads, Read(t) PROVE IInv'
<1> DEFINE status == infos[thr[t].info].status
<1>1. thr[t].pc = "read" /\ UNCHANGED <<jobs, table, free>>
  BY DEF Read, At
<1>2. thr[t].info \in DOMAIN infos /\ infos[thr[t].info].cid.key = Asks[t]
  BY <1>1, AtPlace DEF RecordOK
<1>3. status \in Ended \cup {"open"}
      /\ (status \in {"dead", "unavailable"} => Dead(Asks[t]))
  BY <1>2 DEF IInv, TablesInv, InfoInv, Info
<1>4. CASE status = "open"
  <2>1. thr' = Polling(t, thr[t].errs)
    BY <1>4 DEF Read
  <2>2. thr[t].errs \in 0..2
    BY AtPlace DEF Thread
  <2> QED BY <1>1, <2>1, <2>2, PollingKeeps
<1>5. CASE status \in {"completed", "failed"}
  <2> DEFINE r == [thr[t] EXCEPT !.pc = "fetch", !.seen = status]
  <2>1. thr' = [thr EXCEPT ![t] = r]
    BY <1>5 DEF Read
  <2>2. r \in Thread /\ r.pc = "fetch" /\ r.cid = thr[t].cid /\ r.info = thr[t].info
        /\ r.rid = thr[t].rid /\ r.answer = thr[t].answer /\ r.seen = status
    BY <1>5, AtPlace DEF Thread, Place
  <2> HIDE DEF status
  <2>3. RecordOK(t, r)
    BY <1>1, <1>5, <2>2, AtPlace DEF RecordOK
  <2> HIDE DEF r
  <2> QED BY <1>1, <2>1, <2>2, <2>3, InsideMove
<1>6. CASE status \in {"dead", "unavailable"}
  <2> DEFINE r == [thr[t] EXCEPT !.pc = "mark"]
  <2>1. thr' = [thr EXCEPT ![t] = r]
    BY <1>6 DEF Read
  <2>2. r \in Thread /\ r.pc = "mark" /\ r.cid = thr[t].cid /\ r.info = thr[t].info
        /\ r.rid = thr[t].rid /\ r.answer = thr[t].answer
    BY AtPlace DEF Thread, Place
  <2> HIDE DEF status
  <2>3. RecordOK(t, r)
    BY <1>1, <1>3, <1>6, <2>2, AtPlace DEF RecordOK
  <2> HIDE DEF r
  <2> QED BY <1>1, <2>1, <2>2, <2>3, InsideMove
<1> QED BY <1>3, <1>4, <1>5, <1>6 DEF Ended

LEMMA FetchKeeps == ASSUME IInv, NEW t \in Threads, Fetch(t) PROVE IInv'
<1> DEFINE rid == thr[t].rid
           result == Result(rid)
<1>1. thr[t].pc = "fetch" /\ UNCHANGED <<jobs, table, free>>
  BY DEF Fetch, At
<1>2. rid \in DOMAIN jobs /\ jobs[rid].cid = thr[t].cid /\ thr[t].info # 0 /\ thr[t].seen # "none"
  BY <1>1, AtPlace DEF RecordOK
<1>3. thr[t].cid.key = Asks[t]
  BY AtPlace DEF RecordOK
<1>4. /\ result \in {"missing", "data", "nodata", "dead", "wait"}
      /\ result = "data" => jobs[rid].state = "completed"
      /\ result = "dead" => jobs[rid].state = "dead"
  BY DEF Result
<1>5. result = "dead" => Dead(Asks[t])
  BY <1>2, <1>3, <1>4 DEF Dead
<1> HIDE DEF result
<1>6. CASE result = "wait"
  <2>1. thr' = Polling(t, 0)
    BY <1>6 DEF Fetch, result
  <2>2. 0 \in 0..2
    OBVIOUS
  <2> QED BY <1>1, <2>1, <2>2, PollingKeeps
<1>7. CASE result = "dead"
  <2> DEFINE r == [thr[t] EXCEPT !.pc = "mark"]
  <2>1. thr' = [thr EXCEPT ![t] = r]
    BY <1>7 DEF Fetch, result
  <2>2. r \in Thread /\ r.pc = "mark" /\ r.cid = thr[t].cid /\ r.info = thr[t].info
        /\ r.rid = thr[t].rid /\ r.answer = thr[t].answer
    BY AtPlace DEF Thread, Place
  <2>3. RecordOK(t, r)
    BY <1>1, <1>5, <1>7, <2>2, AtPlace DEF RecordOK
  <2> HIDE DEF r
  <2> QED BY <1>1, <2>1, <2>2, <2>3, InsideMove
<1>8. CASE result \in {"missing", "data", "nodata"}
  <2> DEFINE r == [thr[t] EXCEPT !.pc = "store", !.answer = result]
  <2>1. thr' = [thr EXCEPT ![t] = r]
    BY <1>8 DEF Fetch, result
  <2>2. r \in Thread /\ r.pc = "store" /\ r.cid = thr[t].cid /\ r.info = thr[t].info
        /\ r.rid = thr[t].rid /\ r.answer = result /\ r.seen = thr[t].seen
    BY <1>8, AtPlace DEF Thread, Place
  <2>3. RecordOK(t, r)
    BY <1>1, <1>2, <1>3, <1>4, <1>8, <2>2, AtPlace DEF RecordOK
  <2> HIDE DEF r
  <2> QED BY <1>1, <2>1, <2>2, <2>3, InsideMove
<1> QED BY <1>4, <1>6, <1>7, <1>8

LEMMA FetchTooEarlyKeeps == ASSUME IInv, NEW t \in Threads, FetchTooEarly(t) PROVE IInv'
<1>1. thr[t].pc = "fetch" /\ thr' = Polling(t, 0) /\ UNCHANGED <<jobs, table, free>> /\ 0 \in 0..2
  BY DEF FetchTooEarly, At
<1> QED BY <1>1, PollingKeeps

LEMMA FetchFailsKeeps == ASSUME IInv, NEW t \in Threads, FetchFails(t) PROVE IInv'
<1>1. thr[t].pc = "fetch" /\ UNCHANGED <<jobs, table, free>>
  BY DEF FetchFails, At
<1>2. CASE thr[t].errs < 2
  <2>1. thr' = Polling(t, thr[t].errs + 1)
    BY <1>2 DEF FetchFails
  <2>2. thr[t].errs + 1 \in 0..2
    <3>1. thr[t].errs \in 0..2
      BY AtPlace DEF Thread
    <3> QED BY <1>2, <3>1
  <2> QED BY <1>1, <2>1, <2>2, PollingKeeps
<1>3. CASE ~(thr[t].errs < 2)
  <2>1. Again(t)
    BY <1>3 DEF FetchFails
  <2>2. PICK r : thr' = [thr EXCEPT ![t] = r] /\ RecordOK(t, r) /\ r.pc = "look"
    BY <1>1, <2>1, AgainMoves
  <2> QED BY <1>1, <2>2, InsideMove
<1> QED BY <1>2, <1>3

LEMMA LeaveKeeps ==
  ASSUME IInv, NEW t \in Threads, NEW a \in {"data", "nodata", "missing", "dead", "refused"},
         Leave(t, a), a = "dead" => Dead(Asks[t]), a = "data" => thr[t].answer = "data",
         thr[t].pc \notin {"start", "done"}, UNCHANGED jobs,
         TablesInv', \A i \in DOMAIN infos : InfoKept(i)
  PROVE  IInv'
<1> DEFINE r == [thr[t] EXCEPT !.pc = "done", !.answer = a, !.errs = 0, !.timeouts = 0,
                        !.cid = NextCorrelation(t, 0), !.info = 0, !.seen = "none"]
<1>1. thr' = [thr EXCEPT ![t] = r] /\ free' = free + 1
  BY DEF Leave
<1>2. RecordOK(t, r) /\ r.pc = "done"
  <2>1. RecordOK(t, thr[t])
    BY AtPlace
  <2> QED BY <2>1, LeaveRecord, Zenon
<1> HIDE DEF r
<1>3. JobInv' /\ ThreadsInv'
  BY <1>1, <1>2, Moved
<1>4. SlotInv'
  BY <1>1, <1>2, SlotGiven DEF IInv
<1> QED BY <1>3, <1>4 DEF IInv

LEMMA RefusedKeeps == ASSUME IInv, NEW t \in Threads, Refused(t) PROVE IInv'
<1>1. thr[t].pc = "submit" /\ Leave(t, "refused") /\ UNCHANGED <<jobs, table>>
  BY DEF Refused, At
<1>2. TablesInv' /\ \A i \in DOMAIN infos : InfoKept(i)
  BY <1>1, SameJobs, TablesStay DEF IInv
<1> QED BY <1>1, <1>2, LeaveKeeps

LEMMA RaiseDeadKeeps == ASSUME IInv, NEW t \in Threads, RaiseDead(t) PROVE IInv'
<1>1. thr[t].pc = "mark" /\ Mark(t, "dead") /\ Leave(t, "dead") /\ UNCHANGED jobs
  BY DEF RaiseDead, Mark, At
<1>2. thr[t].info # 0 /\ Dead(Asks[t]) /\ ThreadOK(t)
  BY <1>1, AtPlace DEF RecordOK, ThreadOK
<1>3. TablesInv' /\ \A i \in DOMAIN infos : InfoKept(i)
  BY <1>1, <1>2, MarkKeeps DEF IInv
<1> QED BY <1>1, <1>2, <1>3, LeaveKeeps

LEMMA ReturnKeeps == ASSUME IInv, NEW t \in Threads, Return(t) PROVE IInv'
<1>1. thr[t].pc = "store" /\ Mark(t, thr[t].seen) /\ Leave(t, thr[t].answer) /\ UNCHANGED jobs
  BY DEF Return, Mark, At
<1>2. /\ thr[t].info # 0 /\ ThreadOK(t) /\ thr[t].seen \in {"completed", "failed"}
      /\ thr[t].answer \in {"data", "nodata", "missing"}
  BY <1>1, AtPlace DEF RecordOK, ThreadOK, Thread
<1>3. TablesInv' /\ \A i \in DOMAIN infos : InfoKept(i)
  BY <1>1, <1>2, MarkKeeps DEF IInv
<1> QED BY <1>1, <1>2, <1>3, LeaveKeeps

-----------------------------------------------------------------------------
(* The steps of a thread that ask the server.                               *)
LEMMA InsideAnswered ==
  ASSUME IInv, NEW t \in Threads, NEW r, RecordOK(t, r), thr' = [thr EXCEPT ![t] = r],
         thr[t].pc \notin {"start", "done"}, r.pc \notin {"start", "done"},
         UNCHANGED <<jobs, free>>, TablesInv', \A i \in DOMAIN infos : InfoKept(i)
  PROVE  IInv'
<1>1. JobInv' /\ ThreadsInv'
  BY Moved
<1>2. SlotInv'
  BY SlotsStay DEF IInv
<1> QED BY <1>1, <1>2 DEF IInv

LEMMA LookKeeps == ASSUME IInv, NEW t \in Threads, Look(t) PROVE IInv'
<1> DEFINE cid == thr[t].cid
           rid == infos[pending[cid]].rid
           found == cid \in DOMAIN pending /\ infos[pending[cid]].status = "open"
           submit == [thr[t] EXCEPT !.pc = "submit"]
           poll == [thr[t] EXCEPT !.pc = "poll", !.rid = rid]
<1>1. thr[t].pc = "look" /\ UNCHANGED <<jobs, free>>
  BY DEF Look, At
<1>2. RecordOK(t, submit) /\ submit.pc = "submit"
  <2>1. submit \in Thread /\ submit.pc = "submit" /\ submit.cid = thr[t].cid
        /\ submit.info = thr[t].info /\ submit.rid = thr[t].rid /\ submit.answer = thr[t].answer
    BY AtPlace DEF Thread, Place
  <2> HIDE DEF submit
  <2> QED BY <1>1, <2>1, AtPlace DEF RecordOK
<1>3. CASE ~found
  <2>1. thr' = [thr EXCEPT ![t] = submit] /\ UNCHANGED table
    BY <1>3 DEF Look
  <2> HIDE DEF submit
  <2> QED BY <1>1, <1>2, <2>1, InsideMove
<1>4. CASE found
  <2>1. rid \in DOMAIN jobs /\ jobs[rid].cid = cid /\ rid \in Nat
    BY <1>4 DEF IInv, TablesInv, InfoInv, TableInv, Info
  <2>2. TablesInv' /\ \A i \in DOMAIN infos : InfoKept(i)
    <3>1. UNCHANGED table \/ Answer(rid)
      BY <1>4 DEF Look
    <3>2. CASE UNCHANGED table
      BY <1>1, <3>2, SameJobs, TablesStay DEF IInv
    <3>3. CASE Answer(rid)
      <4> HIDE DEF rid
      <4> QED BY <1>1, <2>1, <3>3, AnswerKeeps DEF IInv
    <3> QED BY <3>1, <3>2, <3>3
  <2>3. RecordOK(t, poll) /\ poll.pc = "poll"
    <3>1. poll \in Thread /\ poll.pc = "poll" /\ poll.cid = thr[t].cid
          /\ poll.info = thr[t].info /\ poll.rid = rid /\ poll.answer = thr[t].answer
      <4> HIDE DEF rid
      <4> QED BY <2>1, AtPlace DEF Thread, Place
    <3> HIDE DEF poll, rid
    <3> QED BY <1>1, <2>1, <3>1, AtPlace DEF RecordOK
  <2>4. thr' = [thr EXCEPT ![t] = submit] \/ thr' = [thr EXCEPT ![t] = poll]
    BY <1>4 DEF Look
  <2> HIDE DEF submit, poll
  <2>5. CASE thr' = [thr EXCEPT ![t] = submit]
    BY <1>1, <1>2, <2>2, <2>5, InsideAnswered
  <2>6. CASE thr' = [thr EXCEPT ![t] = poll]
    BY <1>1, <2>2, <2>3, <2>6, InsideAnswered
  <2> QED BY <2>4, <2>5, <2>6
<1> QED BY <1>3, <1>4

LEMMA PollKeeps == ASSUME IInv, NEW t \in Threads, Poll(t) PROVE IInv'
<1> DEFINE rid == thr[t].rid
           heard == ~jobs[rid].gone /\ CanHear(rid)
           i == pending[tracked[rid]]
           read == [thr[t] EXCEPT !.pc = "read", !.info = i]
           poll == [thr[t] EXCEPT !.errs = 0]
<1>1. thr[t].pc = "poll" /\ UNCHANGED <<jobs, free>> /\ Answer(rid)
  BY DEF Poll, At
<1>2. rid \in DOMAIN jobs /\ jobs[rid].cid = thr[t].cid /\ thr[t].cid.key = Asks[t]
  BY <1>1, AtPlace DEF RecordOK
<1>3. TablesInv' /\ \A j \in DOMAIN infos : InfoKept(j)
  <2> HIDE DEF rid
  <2> QED BY <1>1, <1>2, AnswerKeeps DEF IInv
<1>4. CASE heard
  <2>1. i \in DOMAIN infos /\ infos[i].cid = thr[t].cid /\ i \in Nat \ {0}
    BY <1>2, <1>4 DEF CanHear, IInv, TablesInv, TableInv, InfoInv
  <2>2. thr' = [thr EXCEPT ![t] = read]
    BY <1>4 DEF Poll
  <2>3. read \in Thread /\ read.pc = "read" /\ read.cid = thr[t].cid /\ read.info = i
        /\ read.rid = thr[t].rid /\ read.answer = thr[t].answer
    <3> HIDE DEF i
    <3> QED BY <2>1, AtPlace DEF Thread, Place
  <2> HIDE DEF i, read
  <2>4. RecordOK(t, read)
    BY <1>1, <1>2, <2>1, <2>3, AtPlace DEF RecordOK
  <2> QED BY <1>1, <1>3, <2>2, <2>3, <2>4, InsideAnswered
<1>5. CASE ~heard
  <2>1. thr' = [thr EXCEPT ![t] = poll]
    BY <1>5 DEF Poll
  <2>2. poll \in Thread /\ poll.pc = "poll" /\ poll.cid = thr[t].cid
        /\ poll.info = thr[t].info /\ poll.rid = thr[t].rid /\ poll.answer = thr[t].answer
    BY <1>1, AtPlace DEF Thread, Place
  <2> HIDE DEF poll
  <2>3. RecordOK(t, poll)
    BY <1>1, <2>2, AtPlace DEF RecordOK
  <2> QED BY <1>1, <1>3, <2>1, <2>2, <2>3, InsideAnswered
<1> QED BY <1>4, <1>5

LEMMA TimedOutKeeps == ASSUME IInv, NEW t \in Threads, TimedOut(t) PROVE IInv'
<1>1. thr[t].pc = "poll" /\ UNCHANGED <<jobs, free>> /\ Answer(thr[t].rid) /\ Again(t)
  BY DEF TimedOut, At
<1>2. thr[t].rid \in DOMAIN jobs
  BY <1>1, AtPlace DEF RecordOK
<1>3. TablesInv' /\ \A i \in DOMAIN infos : InfoKept(i)
  BY <1>1, <1>2, AnswerKeeps DEF IInv
<1>4. PICK r : thr' = [thr EXCEPT ![t] = r] /\ RecordOK(t, r) /\ r.pc = "look"
  BY <1>1, AgainMoves
<1> QED BY <1>1, <1>3, <1>4, InsideAnswered

-----------------------------------------------------------------------------
(* The server's jobs.                                                       *)
LEMMA ThreadsStay ==
  ASSUME ThreadsInv, UNCHANGED thr, JobsKept, \A i \in DOMAIN infos : InfoKept(i)
  PROVE  ThreadsInv'
<1>1. ASSUME NEW t \in Threads PROVE ThreadOK(t)'
  <2>1. ThreadOK(t) /\ thr'[t] = thr[t]
    BY DEF ThreadsInv
  <2>2. thr[t].info # 0 => InfoKept(thr[t].info)
    BY <2>1 DEF ThreadOK, RecordOK
  <2> QED BY <2>1, <2>2, ThreadStays
<1> QED BY <1>1 DEF ThreadsInv

LEMMA ServerKeeps ==
  ASSUME IInv, JobsKept, UNCHANGED <<table, thr, free>>
  PROVE  IInv'
<1>1. TablesInv' /\ \A i \in DOMAIN infos : InfoKept(i)
  BY TablesStay DEF IInv
<1>2. ThreadsInv'
  BY <1>1, ThreadsStay DEF IInv
<1>3. SlotInv'
  <2>1. Inside' = Inside
    BY DEF Inside
  <2> QED BY <2>1 DEF IInv, SlotInv
<1> QED BY <1>1, <1>2, <1>3 DEF IInv, JobsKept, JobInv

LEMMA JobChanges ==
  ASSUME JobInv, NEW r \in DOMAIN jobs, NEW j \in Job, j.cid = jobs[r].cid,
         jobs[r].state \in Ended => j.state = jobs[r].state,
         jobs' = [jobs EXCEPT ![r] = j]
  PROVE  JobsKept
<1>1. jobs' \in Seq(Job) /\ DOMAIN jobs' = DOMAIN jobs
  BY DEF JobInv
<1>2. \A q \in DOMAIN jobs : jobs'[q] = IF q = r THEN j ELSE jobs[q]
  OBVIOUS
<1> QED BY <1>1, <1>2 DEF JobsKept

LEMMA FinishKeeps == ASSUME IInv, NEW r \in DOMAIN jobs, Finish(r) PROVE IInv'
<1>1. jobs[r] \in Job /\ jobs[r].cid.key \in Keys
  <2>1. jobs[r] \in Job
    BY DEF IInv, JobInv
  <2> QED BY <2>1 DEF Job, Cid
<1>2. PICK state \in Outcomes[jobs[r].cid.key] : jobs' = [jobs EXCEPT ![r].state = state]
  BY DEF Finish
<1>3. state \in Ended
  BY <1>1, DownloadAssumption
<1> DEFINE j == [jobs[r] EXCEPT !.state = state]
<1>4. j \in Job /\ j.cid = jobs[r].cid /\ j.state = state
  BY <1>1, <1>3 DEF Job
<1>5. jobs' = [jobs EXCEPT ![r] = j] /\ jobs[r].state = "open" /\ UNCHANGED <<table, thr, free>>
  BY <1>2 DEF Finish
<1> HIDE DEF j
<1>6. JobsKept
  BY <1>4, <1>5, JobChanges DEF IInv, Ended
<1> QED BY <1>5, <1>6, ServerKeeps

LEMMA HangKeeps == ASSUME IInv, NEW r \in DOMAIN jobs, Hang(r) PROVE IInv'
<1> DEFINE j == [jobs[r] EXCEPT !.state = "stuck"]
<1>1. jobs[r] \in Job
  BY DEF IInv, JobInv
<1>2. j \in Job /\ j.cid = jobs[r].cid
  BY <1>1 DEF Job
<1>3. jobs' = [jobs EXCEPT ![r] = j] /\ jobs[r].state = "open" /\ UNCHANGED <<table, thr, free>>
  BY DEF Hang
<1> HIDE DEF j
<1>4. JobsKept
  BY <1>2, <1>3, JobChanges DEF IInv, Ended
<1> QED BY <1>3, <1>4, ServerKeeps

LEMMA LoseKeeps == ASSUME IInv, NEW r \in DOMAIN jobs, Lose(r) PROVE IInv'
<1> DEFINE j == [jobs[r] EXCEPT !.gone = TRUE]
<1>1. jobs[r] \in Job
  BY DEF IInv, JobInv
<1>2. j \in Job /\ j.cid = jobs[r].cid /\ j.state = jobs[r].state
  BY <1>1 DEF Job
<1>3. jobs' = [jobs EXCEPT ![r] = j] /\ UNCHANGED <<table, thr, free>>
  BY DEF Lose
<1> HIDE DEF j
<1>4. JobsKept
  BY <1>2, <1>3, JobChanges DEF IInv
<1> QED BY <1>3, <1>4, ServerKeeps

(* A job that the server finds again is one for the same correlation id.    *)
LEMMA JobForOwn ==
  ASSUME JobInv, NEW cid \in Cid
  PROVE  \/ JobFor(cid) \in DOMAIN jobs /\ jobs[JobFor(cid)].cid = cid
         \/ JobFor(cid) = Len(jobs) + 1 /\ JobFor(cid) \notin DOMAIN jobs
<1> DEFINE open == {r \in DOMAIN jobs : /\ jobs[r].cid = cid /\ ~jobs[r].gone
                                        /\ jobs[r].state \in {"open", "stuck"}}
<1>1. CASE dedups /\ open # {}
  <2>1. JobFor(cid) = CHOOSE r \in open : TRUE
    BY <1>1 DEF JobFor
  <2>2. JobFor(cid) \in open
    BY <1>1, <2>1
  <2> QED BY <2>2
<1>2. CASE ~(dedups /\ open # {})
  <2>1. JobFor(cid) = Len(jobs) + 1
    BY <1>2 DEF JobFor
  <2>2. DOMAIN jobs = 1..Len(jobs) /\ Len(jobs) \in Nat
    BY DEF JobInv
  <2> QED BY <2>1, <2>2
<1> QED BY <1>1, <1>2

LEMMA SubmitKeeps == ASSUME IInv, NEW t \in Threads, Submit(t) PROVE IInv'
<1> DEFINE cid == thr[t].cid
           rid == JobFor(cid)
           job == [cid |-> cid, state |-> "open", gone |-> FALSE]
<1>1. thr[t].pc = "submit" /\ UNCHANGED <<table, free>>
  BY DEF Submit, At
<1>2. cid \in Cid /\ cid.key = Asks[t]
  BY AtPlace DEF RecordOK, Thread
<1>3. job \in Job
  BY <1>2 DEF Job
<1>4. jobs' = IF rid \in DOMAIN jobs THEN jobs ELSE Append(jobs, job)
  BY DEF Submit
<1>5. \/ rid \in DOMAIN jobs /\ jobs[rid].cid = cid
      \/ rid = Len(jobs) + 1 /\ rid \notin DOMAIN jobs
  BY <1>2, JobForOwn DEF IInv
<1>6. UNCHANGED thr \/ thr' = [thr EXCEPT ![t] = [thr[t] EXCEPT !.pc = "track", !.rid = rid]]
  BY DEF Submit
<1> HIDE DEF rid
<1>7. JobsKept /\ rid \in DOMAIN jobs' /\ jobs'[rid].cid = cid /\ rid \in Nat
  <2>1. jobs \in Seq(Job) /\ DOMAIN jobs = 1..Len(jobs) /\ Len(jobs) \in Nat
    BY DEF IInv, JobInv
  <2>2. CASE rid \in DOMAIN jobs
    BY <1>4, <1>5, <2>1, <2>2 DEF JobsKept
  <2>3. CASE rid \notin DOMAIN jobs
    <3>1. jobs' = Append(jobs, job) /\ rid = Len(jobs) + 1
      BY <1>4, <1>5, <2>3
    <3> HIDE DEF job
    <3>2. /\ jobs' \in Seq(Job) /\ DOMAIN jobs' = 1..(Len(jobs) + 1)
          /\ \A q \in DOMAIN jobs : jobs'[q] = jobs[q]
          /\ jobs'[rid] = job
      BY <1>3, <2>1, <3>1
    <3>3. job.cid = cid
      BY DEF job
    <3> QED BY <2>1, <3>1, <3>2, <3>3 DEF JobsKept
  <2> QED BY <2>2, <2>3
<1>8. TablesInv' /\ \A i \in DOMAIN infos : InfoKept(i)
  BY <1>1, <1>7, TablesStay DEF IInv
<1>9. CASE UNCHANGED thr
  BY <1>1, <1>7, <1>9, ServerKeeps
<1>10. CASE thr' = [thr EXCEPT ![t] = [thr[t] EXCEPT !.pc = "track", !.rid = rid]]
  <2> DEFINE r == [thr[t] EXCEPT !.pc = "track", !.rid = rid]
  <2>1. r \in Thread /\ r.pc = "track" /\ r.cid = cid /\ r.info = thr[t].info
        /\ r.rid = rid /\ r.answer = thr[t].answer
    BY <1>7, AtPlace DEF Thread, Place
  <2>2. thr'[t] = r /\ thr' = [thr EXCEPT ![t] = r]
    BY <1>10, AtPlace
  <2> HIDE DEF r
  <2>3. thr[t].answer = "none"
    BY <1>1, AtPlace DEF RecordOK
  <2>4. r.info # 0 => r.info \in DOMAIN infos' /\ infos'[r.info].cid.key = Asks[t]
    BY <1>1, <2>1, AtPlace DEF RecordOK, table
  <2>5. ThreadOK(t)'
    BY <1>2, <1>7, <2>1, <2>2, <2>3, <2>4 DEF ThreadOK, RecordOK
  <2>6. \A u \in Threads : thr[u].info # 0 => InfoKept(thr[u].info)
    BY <1>8 DEF IInv, ThreadsInv, ThreadOK, RecordOK
  <2>7. ThreadsInv'
    BY <1>7, <2>2, <2>5, <2>6, OneGoesOn DEF IInv
  <2>8. SlotInv'
    BY <1>1, <2>1, <2>2, SlotsStay DEF IInv
  <2> QED BY <1>7, <1>8, <2>7, <2>8 DEF IInv, JobsKept, JobInv
<1> QED BY <1>6, <1>9, <1>10

-----------------------------------------------------------------------------
(* What is tracked, and what is forgotten after an hour.                    *)

(* There is an index that nothing refers to.                                *)
LEMMA FreshIndex ==
  ASSUME NEW held, IsFiniteSet(held),
         NEW i, i = CHOOSE j \in 1..(Cardinality(held) + 1) : j \notin held
  PROVE  i \in Nat \ {0} /\ i \notin held
<1> DEFINE n == Cardinality(held)
<1>1. n \in Nat
  BY FS_CardinalityType
<1>2. \E j \in 1..(n + 1) : j \notin held
  <2>1. SUFFICES ASSUME 1..(n + 1) \subseteq held PROVE FALSE
    OBVIOUS
  <2>2. Cardinality(1..(n + 1)) <= n
    BY <2>1, FS_Subset
  <2>3. Cardinality(1..(n + 1)) = n + 1
    <3> HIDE DEF n
    <3>1. 1 \in Int /\ n + 1 \in Int /\ ~(1 > n + 1) /\ (n + 1) - 1 + 1 = n + 1
      BY <1>1
    <3>2. Cardinality(1..(n + 1)) = (n + 1) - 1 + 1
      BY <3>1, FS_Interval
    <3> QED BY <3>1, <3>2
  <2> HIDE DEF n
  <2> QED BY <1>1, <2>2, <2>3
<1>3. i \in 1..(n + 1) /\ i \notin held
  BY <1>2
<1>4. \A j \in 1..(n + 1) : j \in Nat \ {0}
  BY <1>1
<1> HIDE DEF n
<1> QED BY <1>3, <1>4, Zenon

LEMMA TrackKeeps == ASSUME IInv, NEW t \in Threads, Track(t) PROVE IInv'
<1> DEFINE held == Range(pending) \cup {thr[u].info : u \in Threads}
           i == CHOOSE i \in 1..(Cardinality(held) + 1) : i \notin held
           info == [rid |-> thr[t].rid, cid |-> thr[t].cid, status |-> "open"]
           r == [thr[t] EXCEPT !.pc = "poll"]
<1>1. thr[t].pc = "track" /\ UNCHANGED <<jobs, free>> /\ thr' = [thr EXCEPT ![t] = r]
  BY DEF Track, At
<1>2. /\ infos' = With(Restrict(infos, held \ {0}), i, info)
      /\ pending' = With(pending, thr[t].cid, i)
      /\ tracked' = With(tracked, thr[t].rid, thr[t].cid)
  BY DEF Track
<1>3. /\ \A cid \in DOMAIN pending : pending[cid] \in held /\ pending[cid] # 0
      /\ \A u \in Threads : thr[u].info \in held
      /\ held \ {0} \subseteq DOMAIN infos
  <2>1. \A cid \in DOMAIN pending : pending[cid] \in DOMAIN infos /\ pending[cid] # 0
    BY DEF IInv, TablesInv, TableInv, InfoInv
  <2>2. \A u \in Threads : thr[u].info # 0 => thr[u].info \in DOMAIN infos
    BY DEF IInv, ThreadsInv, ThreadOK, RecordOK
  <2> QED BY <2>1, <2>2 DEF Range
<1>4. IsFiniteSet(held)
  <2>1. IsFiniteSet(DOMAIN infos)
    BY DEF IInv, TablesInv, InfoInv
  <2>2. IsFiniteSet(DOMAIN infos \cup {0})
    BY <2>1, FS_AddElement
  <2>3. held \subseteq DOMAIN infos \cup {0}
    BY <1>3
  <2> HIDE DEF held
  <2> QED BY <2>2, <2>3, FS_Subset
<1>5. i \in Nat \ {0} /\ i \notin held
  <2> HIDE DEF held
  <2> QED BY <1>4, FreshIndex, Zenon
<1> HIDE DEF held, i
<1>6. /\ info \in Info /\ info.rid = thr[t].rid /\ info.cid = thr[t].cid /\ info.status = "open"
      /\ thr[t].rid \in DOMAIN jobs /\ jobs[thr[t].rid].cid = thr[t].cid
  BY <1>1, AtPlace DEF RecordOK, Thread, Info
<1> HIDE DEF info
<1>7. /\ DOMAIN infos' = (held \ {0}) \cup {i} /\ infos'[i] = info
      /\ \A j \in held \ {0} : infos'[j] = infos[j]
  <2>1. Restrict(infos, held \ {0}) = [j \in held \ {0} |-> infos[j]]
    BY DEF Restrict
  <2>2. infos' = [j \in (held \ {0}) \cup {i} |-> IF j = i THEN info ELSE infos[j]]
    BY <1>2, <2>1 DEF With
  <2> QED BY <1>5, <2>2
<1>8. /\ DOMAIN pending' = DOMAIN pending \cup {thr[t].cid} /\ pending'[thr[t].cid] = i
      /\ \A cid \in DOMAIN pending : cid # thr[t].cid => pending'[cid] = pending[cid]
  BY <1>2 DEF With
<1>9. /\ DOMAIN tracked' = DOMAIN tracked \cup {thr[t].rid} /\ tracked'[thr[t].rid] = thr[t].cid
      /\ \A q \in DOMAIN tracked : q # thr[t].rid => tracked'[q] = tracked[q]
  BY <1>2 DEF With
<1>10. InfoInv'
  <2>1. IsFiniteSet(DOMAIN infos') /\ DOMAIN infos' \subseteq Nat \ {0}
    <3>1. IsFiniteSet(held \ {0})
      BY <1>4, FS_Subset
    <3>2. IsFiniteSet((held \ {0}) \cup {i})
      BY <3>1, FS_AddElement
    <3>3. held \ {0} \subseteq Nat \ {0}
      BY <1>3 DEF IInv, TablesInv, InfoInv
    <3> QED BY <1>5, <1>7, <3>2, <3>3
  <2>2. \A key : Dead(key)' <=> Dead(key)
    BY <1>1 DEF Dead
  <2>3. ASSUME NEW j \in DOMAIN infos'
        PROVE  /\ infos'[j] \in Info
               /\ infos'[j].rid \in DOMAIN jobs' /\ jobs'[infos'[j].rid].cid = infos'[j].cid
               /\ infos'[j].status \in {"dead", "unavailable"} => Dead(infos'[j].cid.key)
    <3>1. CASE j = i
      BY <1>1, <1>6, <1>7, <3>1
    <3>2. CASE j # i
      <4>1. infos'[j] = infos[j] /\ j \in DOMAIN infos
        BY <1>3, <1>7, <3>2
      <4> QED BY <1>1, <4>1 DEF IInv, TablesInv, InfoInv
    <3> QED BY <3>1, <3>2
  <2> QED BY <2>1, <2>2, <2>3 DEF InfoInv
<1>11. TableInv'
  <2>1. ASSUME NEW cid \in DOMAIN pending'
        PROVE  /\ pending'[cid] \in DOMAIN infos'
               /\ infos'[pending'[cid]].cid = cid
               /\ infos'[pending'[cid]].rid \in DOMAIN tracked'
    <3>1. CASE cid = thr[t].cid
      BY <1>6, <1>7, <1>8, <1>9, <3>1
    <3>2. CASE cid # thr[t].cid
      <4>1. pending'[cid] = pending[cid] /\ cid \in DOMAIN pending
        BY <1>8, <3>2
      <4>2. pending'[cid] \in DOMAIN infos' /\ infos'[pending'[cid]] = infos[pending[cid]]
        BY <1>3, <1>7, <4>1
      <4> QED BY <1>9, <4>1, <4>2 DEF IInv, TablesInv, TableInv
    <3> QED BY <3>1, <3>2
  <2>2. \A q \in DOMAIN tracked' : q \in DOMAIN jobs' /\ jobs'[q].cid = tracked'[q]
    BY <1>1, <1>6, <1>9 DEF IInv, TablesInv, TableInv
  <2> QED BY <2>1, <2>2 DEF TableInv
<1>12. \A u \in Threads : thr[u].info # 0 => InfoKept(thr[u].info)
  BY <1>3, <1>7 DEF InfoKept
<1>13. r \in Thread /\ r.pc = "poll" /\ r.cid = thr[t].cid /\ r.info = thr[t].info
       /\ r.rid = thr[t].rid /\ r.answer = thr[t].answer
  BY AtPlace DEF Thread, Place
<1> HIDE DEF r
<1>14. RecordOK(t, r)
  BY <1>1, <1>13, AtPlace DEF RecordOK
<1>15. ThreadOK(t)'
  <2>1. thr'[t] = r
    BY <1>1, AtPlace
  <2>2. r.info # 0 => InfoKept(r.info)
    BY <1>12, <1>13
  <2> QED BY <1>1, <1>14, <2>1, <2>2, MovedOK
<1>16. JobsKept
  BY <1>1, SameJobs DEF IInv
<1>17. ThreadsInv'
  BY <1>1, <1>12, <1>15, <1>16, OneGoesOn DEF IInv
<1>18. SlotInv'
  BY <1>1, <1>13, SlotsStay DEF IInv
<1> QED BY <1>10, <1>11, <1>16, <1>17, <1>18 DEF IInv, TablesInv, JobsKept, JobInv

LEMMA CleanupKeeps == ASSUME IInv, CleanupCompleted PROVE IInv'
<1>1. PICK cid \in DOMAIN pending :
        /\ pending' = Without(pending, cid)
        /\ tracked' = Without(tracked, infos[pending[cid]].rid)
  BY DEF CleanupCompleted
<1>2. UNCHANGED <<jobs, infos, free, thr>>
  BY DEF CleanupCompleted
<1> DEFINE rid == infos[pending[cid]].rid
<1>3. /\ DOMAIN pending' = DOMAIN pending \ {cid}
      /\ \A c \in DOMAIN pending' : pending'[c] = pending[c]
  <2>1. pending' = [c \in DOMAIN pending \ {cid} |-> pending[c]]
    BY <1>1 DEF Without, Restrict
  <2> QED BY <2>1
<1>4. /\ DOMAIN tracked' = DOMAIN tracked \ {rid}
      /\ \A q \in DOMAIN tracked' : tracked'[q] = tracked[q]
  <2>1. tracked' = [q \in DOMAIN tracked \ {rid} |-> tracked[q]]
    BY <1>1 DEF Without, Restrict
  <2> HIDE DEF rid
  <2> QED BY <2>1
<1>5. \A c \in DOMAIN pending : jobs[infos[pending[c]].rid].cid = c
  BY DEF IInv, TablesInv, TableInv, InfoInv
<1>6. TableInv'
  BY <1>2, <1>3, <1>4, <1>5 DEF IInv, TablesInv, TableInv
<1>7. InfoInv'
  <2>1. \A key : Dead(key)' <=> Dead(key)
    BY <1>2 DEF Dead
  <2> QED BY <1>2, <2>1 DEF IInv, TablesInv, InfoInv
<1>8. JobsKept /\ \A i \in DOMAIN infos : InfoKept(i)
  BY <1>2, SameJobs DEF IInv, InfoKept
<1>9. ThreadsInv'
  BY <1>2, <1>8, ThreadsStay DEF IInv
<1>10. SlotInv'
  <2>1. Inside' = Inside
    BY <1>2 DEF Inside
  <2> QED BY <1>2, <2>1 DEF IInv, SlotInv
<1> QED BY <1>6, <1>7, <1>8, <1>9, <1>10 DEF IInv, TablesInv, JobsKept, JobInv

-----------------------------------------------------------------------------
LEMMA InitOK == Init => IInv
<1> SUFFICES ASSUME Init PROVE IInv
  OBVIOUS
<1>1. /\ jobs = <<>> /\ infos = <<>> /\ pending = <<>> /\ tracked = <<>>
      /\ free = MaxConcurrent
  BY DEF Init
<1>2. PICK w \in Workloads :
        thr = [t \in Threads |->
               [pc |-> IF t \in w.active THEN "start" ELSE "done",
                cid |-> NextCorrelation(t, 0), rid |-> 0, info |-> 0, seen |-> "none",
                timeouts |-> 0, errs |-> 0, answer |-> "none"]]
  BY DEF Init
<1>3. JobInv
  BY <1>1 DEF JobInv
<1>4. TablesInv
  <2>1. DOMAIN infos = {} /\ DOMAIN pending = {} /\ DOMAIN tracked = {}
    BY <1>1
  <2>2. IsFiniteSet(DOMAIN infos)
    BY <2>1, FS_EmptySet
  <2> QED BY <2>1, <2>2 DEF TablesInv, InfoInv, TableInv
<1>5. ASSUME NEW t \in Threads PROVE ThreadOK(t)
  <2> DEFINE c == NextCorrelation(t, 0)
  <2>1. c \in Cid /\ c.key = Asks[t]
    BY NextCid
  <2> HIDE DEF c
  <2>2. thr[t] = [pc |-> IF t \in w.active THEN "start" ELSE "done",
                  cid |-> c, rid |-> 0, info |-> 0, seen |-> "none",
                  timeouts |-> 0, errs |-> 0, answer |-> "none"]
    BY <1>2 DEF c
  <2>3. /\ thr[t].pc \in {"start", "done"} /\ thr[t].cid = c /\ thr[t].info = 0
        /\ thr[t].answer = "none"
    BY <2>2
  <2>4. thr[t] \in Thread
    BY <2>1, <2>2 DEF Thread, Place
  <2> QED BY <2>1, <2>3, <2>4 DEF ThreadOK, RecordOK
<1>6. ThreadsInv
  <2>1. thr = [t \in Threads |-> thr[t]]
    BY <1>2
  <2>2. \A t \in Threads : thr[t] \in Thread
    BY <1>5 DEF ThreadOK, RecordOK
  <2>3. thr \in [Threads -> Thread]
    BY <2>1, <2>2
  <2> QED BY <1>5, <2>3 DEF ThreadsInv
<1>7. SlotInv
  <2>1. Inside = {}
    BY <1>2 DEF Inside
  <2> QED BY <1>1, <2>1, FS_EmptySet, DownloadAssumption DEF SlotInv
<1> QED BY <1>3, <1>4, <1>6, <1>7 DEF IInv

LEMMA StepOK == IInv /\ [Next]_vars => IInv'
<1> SUFFICES ASSUME IInv, [Next]_vars PROVE IInv'
  OBVIOUS
<1>1. ASSUME NEW t \in Threads, Acquire(t) PROVE IInv'
  BY <1>1, AcquireKeeps
<1>2. ASSUME NEW t \in Threads, Look(t) PROVE IInv'
  BY <1>2, LookKeeps
<1>3. ASSUME NEW t \in Threads, Submit(t) PROVE IInv'
  BY <1>3, SubmitKeeps
<1>4. ASSUME NEW t \in Threads, Refused(t) PROVE IInv'
  BY <1>4, RefusedKeeps
<1>5. ASSUME NEW t \in Threads, Track(t) PROVE IInv'
  BY <1>5, TrackKeeps
<1>6. ASSUME NEW t \in Threads, Poll(t) PROVE IInv'
  BY <1>6, PollKeeps
<1>7. ASSUME NEW t \in Threads, PollFails(t) PROVE IInv'
  BY <1>7, PollFailsKeeps
<1>8. ASSUME NEW t \in Threads, Read(t) PROVE IInv'
  BY <1>8, ReadKeeps
<1>9. ASSUME NEW t \in Threads, RaiseDead(t) PROVE IInv'
  BY <1>9, RaiseDeadKeeps
<1>10. ASSUME NEW t \in Threads, Return(t) PROVE IInv'
  BY <1>10, ReturnKeeps
<1>11. ASSUME NEW t \in Threads, Fetch(t) PROVE IInv'
  BY <1>11, FetchKeeps
<1>12. ASSUME NEW t \in Threads, FetchTooEarly(t) PROVE IInv'
  BY <1>12, FetchTooEarlyKeeps
<1>13. ASSUME NEW t \in Threads, FetchFails(t) PROVE IInv'
  BY <1>13, FetchFailsKeeps
<1>14. ASSUME NEW t \in Threads, TimedOut(t) PROVE IInv'
  BY <1>14, TimedOutKeeps
<1>15. ASSUME CleanupCompleted PROVE IInv'
  BY <1>15, CleanupKeeps
<1>16. ASSUME NEW r \in DOMAIN jobs, Finish(r) PROVE IInv'
  BY <1>16, FinishKeeps
<1>17. ASSUME NEW r \in DOMAIN jobs, Hang(r) PROVE IInv'
  BY <1>17, HangKeeps
<1>18. ASSUME NEW r \in DOMAIN jobs, Lose(r) PROVE IInv'
  BY <1>18, LoseKeeps
<1>19. CASE UNCHANGED vars
  <2>1. JobsKept
    BY <1>19, SameJobs DEF IInv, vars
  <2> QED BY <1>19, <2>1, ServerKeeps DEF vars, table
<1> QED BY <1>1, <1>2, <1>3, <1>4, <1>5, <1>6, <1>7, <1>8, <1>9, <1>10, <1>11, <1>12,
           <1>13, <1>14, <1>15, <1>16, <1>17, <1>18, <1>19 DEF Next

LEMMA Invariance == Spec => []IInv
<1>1. Init => IInv
  BY InitOK
<1>2. IInv /\ [Next]_vars => IInv'
  BY StepOK
<1> QED BY <1>1, <1>2, PTL DEF Spec

-----------------------------------------------------------------------------
LEMMA AnswersAreOwnFollows == IInv => AnswersAreOwn
<1> SUFFICES ASSUME IInv PROVE AnswersAreOwn
  OBVIOUS
<1>1. \A t \in Threads : RecordOK(t, thr[t])
  BY AtPlace
<1> QED BY <1>1 DEF AnswersAreOwn, DataIsOwn, DeathIsReal, RecordOK, Dead

(* What execute_request gives its caller is the result of a job for the     *)
(* caller's own request, and a permanent failure is one that the server     *)
(* reported for that request, whatever the threads that share the tables do.*)
THEOREM AnswersBelong == Spec => []AnswersAreOwn
<1>1. Spec => []IInv
  BY Invariance
<1>2. IInv => AnswersAreOwn
  BY AnswersAreOwnFollows
<1> QED BY <1>1, <1>2, PTL

LEMMA HandedOutFollows == IInv => HandedOutIsTracked
<1> SUFFICES ASSUME IInv, NEW cid \in DOMAIN pending
             PROVE  infos[pending[cid]].rid \in DOMAIN tracked
                    /\ tracked[infos[pending[cid]].rid] = cid
  BY DEF HandedOutIsTracked
<1> QED BY DEF IInv, TablesInv, TableInv, InfoInv

(* A pending request that check_or_submit may hand to another thread is     *)
(* known under its request id, so that _refresh_status can hear its end.    *)
THEOREM HandedOutIsHeard == Spec => []HandedOutIsTracked
<1>1. Spec => []IInv
  BY Invariance
<1>2. IInv => HandedOutIsTracked
  BY HandedOutFollows
<1> QED BY <1>1, <1>2, PTL

LEMMA WithinLimitFollows == IInv => TypeOK /\ WithinLimit
<1> SUFFICES ASSUME IInv PROVE TypeOK /\ WithinLimit
  OBVIOUS
<1>1. free \in 0..MaxConcurrent /\ WithinLimit
  <2>1. Cardinality(Inside) \in Nat
    BY FS_CardinalityType DEF IInv, SlotInv
  <2>2. free \in Nat /\ free + Cardinality(Inside) = MaxConcurrent /\ MaxConcurrent \in Nat
    BY DownloadAssumption DEF IInv, SlotInv
  <2> QED BY <2>1, <2>2 DEF WithinLimit
<1>2. \A r \in DOMAIN jobs : jobs[r].state \in Ended \cup {"open", "stuck"}
  <2>1. \A r \in DOMAIN jobs : jobs[r] \in Job
    BY DEF IInv, JobInv
  <2> QED BY <2>1 DEF Job
<1>3. /\ \A cid \in DOMAIN pending : infos[pending[cid]].cid = cid
      /\ \A r \in DOMAIN tracked : r \in DOMAIN jobs /\ jobs[r].cid = tracked[r]
  BY DEF IInv, TablesInv, TableInv
<1>4. \A t \in Threads : thr[t].errs \in 0..2 /\ thr[t].cid.key = Asks[t]
  BY AtPlace DEF RecordOK, Thread
<1> QED BY <1>1, <1>2, <1>3, <1>4 DEF TypeOK

(* The tables and the threads have their types, and the semaphore of        *)
(* execute_request lets no more than MaxConcurrent requests be under way:   *)
(* each path out of one gives its slot back once.                           *)
THEOREM SlotsAreKept == Spec => [](TypeOK /\ WithinLimit)
<1>1. Spec => []IInv
  BY Invariance
<1>2. IInv => TypeOK /\ WithinLimit
  BY WithinLimitFollows
<1> QED BY <1>1, <1>2, PTL
=============================================================================
