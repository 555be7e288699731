--------------------------- MODULE Executor_proofs ---------------------------
(* Safety of the two models of check_queue's thread.  Executor, for any      *)
(* number of fills, of cancels and of calls that fail: the cash is written   *)
(* by one handler at a time, and the stream never tells more than the        *)
(* brokerage has executed.                                                   *)
EXTENDS Executor, SmartLimit, SequenceTheorems, TLAPS

Place == {"idle", "drain", "get", "handle", "write", "dead", "balance", "sync",
          "strategy"}
Thread == [pc : Place, next : {"idle", "balance"}, ev : Int, read : Int]

-----------------------------------------------------------------------------
(* The parts of the invariant.                                              *)
EventTypes ==
  /\ queue \in Seq(Int)
  /\ thr \in [Threads -> Thread]
  /\ cash \in Int /\ account \in Int /\ fills \in Nat /\ cancels \in Nat

(* What is told was executed, and what is queued was told.                  *)
ToldInv ==
  /\ fills <= -account /\ -account <= MaxFills
  /\ \A i \in DOMAIN queue : queue[i] \in (-cancels..fills) \ {0}

LockInv ==
  /\ lock \in Threads \cup {Nobody}
  /\ \A t \in Threads : At(t, "write") <=> lock = t

IInv == EventTypes /\ ToldInv /\ LockInv

-----------------------------------------------------------------------------
(* A thread that has done with its event or with what it read.              *)
LEMMA EventDone ==
  ASSUME NEW r \in Thread, NEW p \in Place
  PROVE  /\ [r EXCEPT !.pc = p, !.ev = 0] \in Thread
         /\ [r EXCEPT !.pc = p, !.ev = 0].pc = p
         /\ [r EXCEPT !.pc = p, !.read = 0] \in Thread
         /\ [r EXCEPT !.pc = p, !.read = 0].pc = p
         /\ [r EXCEPT !.pc = p, !.ev = 0, !.read = 0] \in Thread
         /\ [r EXCEPT !.pc = p, !.ev = 0, !.read = 0].pc = p
<1>1. \A e \in Int : /\ [r EXCEPT !.pc = p, !.ev = e] \in Thread
                     /\ [r EXCEPT !.pc = p, !.ev = e].pc = p
  BY DEF Thread
<1>2. \A c \in Int : /\ [r EXCEPT !.pc = p, !.read = c] \in Thread
                     /\ [r EXCEPT !.pc = p, !.read = c].pc = p
  BY DEF Thread
<1>3. \A e, c \in Int : /\ [r EXCEPT !.pc = p, !.ev = e, !.read = c] \in Thread
                        /\ [r EXCEPT !.pc = p, !.ev = e, !.read = c].pc = p
  BY DEF Thread
<1>4. 0 \in Int
  OBVIOUS
<1> QED BY <1>1, <1>2, <1>3, <1>4, Zenon

(* What the move of a thread does to the parts that are about threads.      *)
Moved(t, r) == r \in Thread /\ thr' = [thr EXCEPT ![t] = r]

LEMMA MoveTypes ==
  ASSUME IInv, NEW t \in Threads, NEW r, Moved(t, r)
  PROVE  /\ thr' \in [Threads -> Thread]
         /\ thr'[t] = r
         /\ \A u \in Threads \ {t} : thr'[u] = thr[u]
BY DEF IInv, EventTypes, Moved

LEMMA MoveLocks ==
  ASSUME IInv, NEW t \in Threads, NEW r, Moved(t, r), r.pc # "write",
         IF At(t, "write") THEN lock' = Nobody ELSE lock' = lock
  PROVE  LockInv'
<1>1. thr'[t] = r /\ \A u \in Threads \ {t} : thr'[u] = thr[u]
  BY MoveTypes
<1>2. lock' \in Threads \cup {Nobody}
  BY DEF IInv, LockInv
<1>3. \A u \in Threads : thr'[u].pc = "write" <=> lock' = u
  BY <1>1 DEF IInv, LockInv, Threads, Nobody, At
<1> QED BY <1>2, <1>3 DEF LockInv, At

(* The steps of a thread at the queue and at the cash.                      *)
LEMMA QueueStep ==
  ASSUME IInv, NEW t \in Threads,
         \/ Drain(t) \/ Get(t) \/ Handle(t) \/ ReadCash(t) \/ WriteCash(t) \/ Begin(t)
  PROVE  IInv'
<1>1. /\ thr[t] \in Thread /\ thr[t].next \in {"idle", "balance"}
      /\ thr[t].read \in Int
      /\ cash \in Int /\ queue \in Seq(Int) /\ account \in Int /\ fills \in Nat
      /\ cancels \in Nat
      /\ queue # <<>> => Head(queue) \in Int /\ Tail(queue) \in Seq(Int)
  BY DEF IInv, EventTypes, Thread
<1>2. /\ UNCHANGED <<account, fills, cancels>>
      /\ queue' \in Seq(Int) /\ cash' \in Int /\ ToldInv'
  <2>1. /\ UNCHANGED <<account, fills, cancels>>
        /\ \/ queue' = queue
           \/ queue # <<>> /\ queue' = Tail(queue)
        /\ cash' = cash \/ cash' = thr[t].read - 1
    BY DEF Drain, Get, Handle, ReadCash, WriteCash, Begin, broker
  <2>2. thr[t].read - 1 \in Int
    BY <1>1
  <2>3. queue' \in Seq(Int) /\ cash' \in Int
    BY <1>1, <2>1, <2>2
  <2>4. \A i \in DOMAIN queue' : \E k \in DOMAIN queue : queue'[i] = queue[k]
    <3>1. CASE queue' = queue
      BY <3>1
    <3>2. CASE queue # <<>> /\ queue' = Tail(queue)
      <4>1. DOMAIN queue' = 1..(Len(queue) - 1) /\ DOMAIN queue = 1..Len(queue)
            /\ Len(queue) \in Nat
        BY <1>1, <3>2
      <4>2. \A i \in DOMAIN queue' : i + 1 \in DOMAIN queue /\ queue'[i] = queue[i + 1]
        BY <1>1, <3>2, <4>1
      <4> QED BY <4>2
    <3> QED BY <2>1, <3>1, <3>2
  <2>5. ToldInv'
    BY <2>1, <2>4 DEF IInv, ToldInv
  <2> QED BY <2>1, <2>3, <2>5
<1>3. SUFFICES ASSUME NEW r, Moved(t, r), LockInv'
               PROVE  IInv'
  <2>1. CASE Drain(t)
    <3> DEFINE r == [thr[t] EXCEPT !.pc = IF queue # <<>> THEN "get" ELSE thr[t].next]
    <3>1. r \in Thread /\ r.pc # "write"
      BY <1>1 DEF Thread, Place
    <3>2. thr' = [thr EXCEPT ![t] = r]
      BY <2>1 DEF Drain, GoTo
    <3>3. ~At(t, "write") /\ lock' = lock
      BY <2>1 DEF Drain, At
    <3> HIDE DEF r
    <3> QED BY <3>1, <3>2, <3>3, <1>3, MoveLocks DEF Moved
  <2>2. CASE Get(t)
    <3> DEFINE r == [thr[t] EXCEPT !.pc = "handle", !.ev = Head(queue)]
    <3>1. r \in Thread /\ r.pc # "write"
      BY <1>1, <2>2 DEF Thread, Place, Get
    <3>2. thr' = [thr EXCEPT ![t] = r]
      BY <2>2 DEF Get
    <3>3. ~At(t, "write") /\ lock' = lock
      BY <2>2 DEF Get, At
    <3> HIDE DEF r
    <3> QED BY <3>1, <3>2, <3>3, <1>3, MoveLocks DEF Moved
  <2>3. CASE Handle(t)
    <3> DEFINE r == [thr[t] EXCEPT !.pc = "drain", !.ev = 0]
    <3>0. "drain" \in Place
      BY DEF Place
    <3>1. r \in Thread /\ r.pc # "write"
      BY <1>1, <3>0, EventDone
    <3>2. thr' = [thr EXCEPT ![t] = r]
      BY <2>3 DEF Handle
    <3>3. ~At(t, "write") /\ lock' = lock
      BY <2>3 DEF Handle, At
    <3> HIDE DEF r
    <3> QED BY <3>1, <3>2, <3>3, <1>3, MoveLocks DEF Moved
  <2>4. CASE ReadCash(t)
    <3> DEFINE r == [thr[t] EXCEPT !.pc = "write", !.read = cash]
    <3>1. r \in Thread /\ r.pc = "write"
      BY <1>1 DEF Thread, Place
    <3>2. thr' = [thr EXCEPT ![t] = r] /\ lock = Nobody /\ lock' = t
      BY <2>4 DEF ReadCash
    <3> HIDE DEF r
    <3>3. Moved(t, r)
      BY <3>1, <3>2 DEF Moved
    <3>4. thr'[t] = r /\ \A u \in Threads \ {t} : thr'[u] = thr[u]
      BY <3>3, MoveTypes
    <3>5. LockInv'
      BY <3>1, <3>2, <3>4 DEF IInv, LockInv, Threads, Nobody, At
    <3> QED BY <3>1, <3>3, <3>5, <1>3
  <2>5. CASE WriteCash(t)
    <3> DEFINE r == [thr[t] EXCEPT !.pc = "drain", !.ev = 0, !.read = 0]
    <3>0. "drain" \in Place
      BY DEF Place
    <3>1. r \in Thread /\ r.pc # "write"
      BY <1>1, <3>0, EventDone
    <3>2. thr' = [thr EXCEPT ![t] = r]
      BY <2>5 DEF WriteCash
    <3>3. At(t, "write") /\ lock' = Nobody
      BY <2>5 DEF WriteCash, Unlock
    <3> HIDE DEF r
    <3> QED BY <3>1, <3>2, <3>3, <1>3, MoveLocks DEF Moved
  <2>6. CASE Begin(t)
    <3> DEFINE r == [thr[t] EXCEPT !.pc = "drain", !.next =
                      IF t = "check" THEN "idle" ELSE "balance"]
    <3>1. r \in Thread /\ r.pc # "write"
      BY <1>1 DEF Thread, Place
    <3>2. thr' = [thr EXCEPT ![t] = r]
      BY <2>6 DEF Begin
    <3>3. ~At(t, "write") /\ lock' = lock
      BY <2>6 DEF Begin, At
    <3> HIDE DEF r
    <3> QED BY <3>1, <3>2, <3>3, <1>3, MoveLocks DEF Moved
  <2> QED BY <2>1, <2>2, <2>3, <2>4, <2>5, <2>6
<1>4. EventTypes'
  BY <1>1, <1>2, <1>3, MoveTypes DEF EventTypes
<1> QED BY <1>2, <1>3, <1>4 DEF IInv

(* The rest of the iteration, and the end of check_queue.                   *)
LEMMA IterationStep ==
  ASSUME IInv,
         \/ ReadBalance \/ SyncCash \/ SyncFails \/ EndIteration \/ HandlerRaises
  PROVE  IInv'
<1>1. /\ "check" \in Threads /\ "iteration" \in Threads
      /\ \A t \in Threads : thr[t] \in Thread /\ thr[t].read \in Int
      /\ cash \in Int /\ queue \in Seq(Int) /\ account \in Int /\ fills \in Nat
      /\ cancels \in Nat
  BY DEF IInv, EventTypes, Thread, Threads
<1>2. /\ UNCHANGED <<queue, account, fills, cancels>>
      /\ cash' \in Int /\ ToldInv'
  <2>1. /\ UNCHANGED <<queue, account, fills, cancels>>
        /\ \/ cash' = cash
           \/ cash' = thr["iteration"].read
           \/ cash' = thr["check"].read - 1
    BY DEF ReadBalance, SyncCash, SetCash, SyncFails, EndIteration, HandlerRaises, broker
  <2>2. thr["iteration"].read \in Int /\ thr["check"].read - 1 \in Int
    BY <1>1
  <2>3. cash' \in Int
    BY <1>1, <2>1, <2>2
  <2>4. ToldInv'
    BY <2>1 DEF IInv, ToldInv
  <2> QED BY <2>1, <2>3, <2>4
<1>3. SUFFICES ASSUME NEW t \in Threads, NEW r, Moved(t, r), LockInv'
               PROVE  IInv'
  <2>1. CASE ReadBalance
    <3> DEFINE r == [thr["iteration"] EXCEPT !.pc = "sync", !.read = account]
    <3>1. r \in Thread /\ r.pc # "write"
      BY <1>1 DEF Thread, Place
    <3>2. /\ thr' = [thr EXCEPT !["iteration"] = r]
          /\ ~At("iteration", "write") /\ lock' = lock
      BY <2>1 DEF ReadBalance, At
    <3> HIDE DEF r
    <3> QED BY <1>1, <3>1, <3>2, <1>3, MoveLocks DEF Moved
  <2>2. CASE SyncCash
    <3> DEFINE r == [thr["iteration"] EXCEPT !.pc = "strategy", !.read = 0]
    <3>0. "strategy" \in Place /\ "strategy" # "write"
      BY DEF Place
    <3>1. r \in Thread /\ r.pc # "write"
      BY <1>1, <3>0, EventDone
    <3>2. /\ thr' = [thr EXCEPT !["iteration"] = r]
          /\ ~At("iteration", "write") /\ lock' = lock
      BY <2>2 DEF SyncCash, At
    <3> HIDE DEF r
    <3> QED BY <1>1, <3>1, <3>2, <1>3, MoveLocks DEF Moved
  <2>3. CASE SyncFails
    <3> DEFINE r == [thr["iteration"] EXCEPT !.pc = "strategy"]
    <3>1. r \in Thread /\ r.pc # "write"
      BY <1>1 DEF Thread, Place
    <3>2. /\ thr' = [thr EXCEPT !["iteration"] = r]
          /\ ~At("iteration", "write") /\ lock' = lock
      BY <2>3 DEF SyncFails, At, GoTo
    <3> HIDE DEF r
    <3> QED BY <1>1, <3>1, <3>2, <1>3, MoveLocks DEF Moved
  <2>4. CASE EndIteration
    <3> DEFINE r == [thr["iteration"] EXCEPT !.pc = "drain", !.next = "idle"]
    <3>1. r \in Thread /\ r.pc # "write"
      BY <1>1 DEF Thread, Place
    <3>2. /\ thr' = [thr EXCEPT !["iteration"] = r]
          /\ ~At("iteration", "write") /\ lock' = lock
      BY <2>4 DEF EndIteration, At
    <3> HIDE DEF r
    <3> QED BY <1>1, <3>1, <3>2, <1>3, MoveLocks DEF Moved
  <2>5. CASE HandlerRaises
    <3> DEFINE r == [thr["check"] EXCEPT !.pc = "dead", !.ev = 0, !.read = 0]
    <3>1. "dead" \in Place /\ "dead" # "write"
      BY DEF Place
    <3>2. r \in Thread /\ r.pc # "write"
      BY <1>1, <3>1, EventDone
    <3>3. /\ thr' = [thr EXCEPT !["check"] = r]
          /\ At("check", "write") /\ lock' = Nobody
      BY <2>5 DEF HandlerRaises, Unlock
    <3> HIDE DEF r
    <3> QED BY <1>1, <3>2, <3>3, <1>3, MoveLocks DEF Moved
  <2> QED BY <2>1, <2>2, <2>3, <2>4, <2>5
<1>4. EventTypes'
  BY <1>1, <1>2, <1>3, MoveTypes DEF EventTypes
<1> QED BY <1>2, <1>3, <1>4 DEF IInv

(* What the brokerage does, and what the stream puts in the queue.          *)
LEMMA OutsideStep ==
  ASSUME IInv, Execute \/ TellFill \/ TellCancel
  PROVE  IInv'
<1>1. /\ queue \in Seq(Int) /\ account \in Int /\ fills \in Nat /\ cancels \in Nat
      /\ MaxFills \in Nat
  BY ExecutorAssumption DEF IInv, EventTypes
<1>2. LockInv'
  BY DEF IInv, LockInv, At, Execute, TellFill, TellCancel, events
<1>3. CASE Execute
  <2>1. EventTypes' /\ ToldInv'
    BY <1>1, <1>3 DEF Execute, events, IInv, EventTypes, ToldInv
  <2> QED BY <1>2, <2>1 DEF IInv
<1>4. CASE TellFill \/ TellCancel
  <2>1. PICK e \in Int : /\ queue' = Append(queue, e)
                         /\ e \in (-cancels'..fills') \ {0}
                         /\ fills' \in Nat /\ cancels' \in Nat
                         /\ fills <= fills' /\ cancels <= cancels'
                         /\ fills' <= -account
    BY <1>1, <1>4 DEF TellFill, TellCancel, IInv, ToldInv
  <2>2. UNCHANGED <<thr, cash, account>>
    BY <1>4 DEF TellFill, TellCancel
  <2>3. EventTypes'
    BY <1>1, <2>1, <2>2 DEF IInv, EventTypes
  <2>4. \A i \in DOMAIN queue' : queue'[i] \in (-cancels'..fills') \ {0}
    <3>1. \A i \in DOMAIN queue' : queue'[i] = e \/ (i \in DOMAIN queue /\ queue'[i] = queue[i])
      BY <1>1, <2>1
    <3>2. \A i \in DOMAIN queue : queue[i] \in (-cancels'..fills') \ {0}
      BY <1>1, <2>1 DEF IInv, ToldInv
    <3> QED BY <2>1, <3>1, <3>2
  <2>5. ToldInv'
    BY <2>1, <2>2, <2>4 DEF IInv, ToldInv
  <2> QED BY <1>2, <2>3, <2>5 DEF IInv
<1> QED BY <1>3, <1>4

-----------------------------------------------------------------------------
LEMMA Initial == Init => IInv
<1> SUFFICES ASSUME Init PROVE IInv
  OBVIOUS
<1>1. EventTypes
  BY DEF Init, EventTypes, Thread, Place
<1>2. ToldInv
  BY ExecutorAssumption DEF Init, ToldInv
<1>3. LockInv
  BY DEF Init, LockInv, At, Threads, Nobody
<1> QED BY <1>1, <1>2, <1>3 DEF IInv

LEMMA Inductive == IInv /\ [Next]_vars => IInv'
<1> SUFFICES ASSUME IInv, [Next]_vars PROVE IInv'
  OBVIOUS
<1>1. CASE \E t \in Threads : \/ Drain(t) \/ Get(t) \/ Handle(t)
                             \/ ReadCash(t) \/ WriteCash(t) \/ Begin(t)
  BY <1>1, QueueStep
<1>2. CASE HandlerRaises \/ ReadBalance \/ SyncCash \/ SyncFails \/ EndIteration
  BY <1>2, IterationStep
<1>3. CASE Execute \/ TellFill \/ TellCancel
  BY <1>3, OutsideStep
<1>4. CASE UNCHANGED vars
  BY <1>4 DEF vars, events, broker, IInv, EventTypes, ToldInv, LockInv, At
<1> QED BY <1>1, <1>2, <1>3, <1>4 DEF Next

LEMMA Invariance == Spec => []IInv
BY Initial, Inductive, PTL DEF Spec

(* The state stays in its type, and executor.lock is held exactly by the    *)
(* thread between its read of the cash and its write, so that two handlers  *)
(* of fills are never both there (process_event, strategy_executor.py).     *)
THEOREM OneHandlerWrites ==
  Spec => [](TypeOK /\ \A t, u \in Threads : At(t, "write") /\ At(u, "write") => t = u)
<1>1. IInv => TypeOK
  BY DEF IInv, LockInv, ToldInv, TypeOK
<1>2. IInv => \A t, u \in Threads : At(t, "write") /\ At(u, "write") => t = u
  BY DEF IInv, LockInv
<1> QED BY <1>1, <1>2, Invariance, PTL
-----------------------------------------------------------------------------
(* SmartLimit, for a ladder of any length and any number of calls that fail. *)
(* The invariant says of the submissions at the brokerage what the Order     *)
(* object has of them, as long as the object was not ended while its         *)
(* submission worked; and of what the stream carries, as long as nothing was *)
(* replaced, that it is true.                                                *)
CheckPlace == {"turn", "modify", "cancel", "resubmit", "stopped"}
State == {"working", "canceling"} \cup Ends
Word == {"new", "error"} \cup Ends
Object == [status : {"active", "error"} \cup Ends, id : Nat \ {0},
           smart : BOOLEAN, step : Nat, fresh : BOOLEAN]
Stream == [pc : {"idle", "fetched", "matched", "write", "compared"},
           rows : Seq(State), mine : Nat]

-----------------------------------------------------------------------------
(* The parts of the invariant.                                              *)
Types ==
  /\ subs \in Seq(State) /\ order \in Object /\ order.id \in DOMAIN subs
  /\ check \in CheckPlace /\ clock \in Nat
  /\ news \in Seq(Word) /\ misled \in BOOLEAN

StreamInv ==
  /\ stream \in Stream
  /\ stream.mine = NoRow \/ stream.mine \in DOMAIN stream.rows
  /\ stream.pc = "write" => stream.mine # NoRow
  /\ Len(stream.rows) <= Len(subs)
  /\ stream.pc # "idle" => 1 \in DOMAIN stream.rows

(* Each step of the ladder replaces the submission once at most.            *)
StepInv ==
  /\ order.step <= clock
  /\ Len(subs) <= order.step + 1
  /\ check \in {"modify", "cancel", "resubmit"} => Len(subs) <= order.step

(* Only the object's submission works, an object that is ended has none at  *)
(* work, and between the cancel and the submission that replaces it no one  *)
(* has.                                                                     *)
OrderInv == ~misled =>
  /\ Working \subseteq {order.id}
  /\ ~Active \/ check = "resubmit" => Working = {}

(* While there is one submission the rows and the news of its end are true. *)
FirstInv == Len(subs) = 1 =>
  /\ ~misled
  /\ \A n \in DOMAIN stream.rows : stream.rows[n] \in Ends => Working = {}
  /\ \A i \in DOMAIN news : news[i] # "new" => Working = {}

SmartIInv == Types /\ StreamInv /\ StepInv /\ OrderInv /\ FirstInv

-----------------------------------------------------------------------------
(* What a change of one submission leaves of the others.                    *)
LEMMA SubsChange ==
  ASSUME Types, NEW n \in DOMAIN subs, NEW v \in State,
         subs' = [subs EXCEPT ![n] = v]
  PROVE  /\ subs' \in Seq(State)
         /\ DOMAIN subs' = DOMAIN subs /\ Len(subs') = Len(subs)
         /\ \A m \in DOMAIN subs : subs'[m] = IF m = n THEN v ELSE subs[m]
BY DEF Types

LEMMA NewsGrows ==
  ASSUME Types, NEW w \in Word, Tell(w)
  PROVE  /\ news' \in Seq(Word)
         /\ \A i \in DOMAIN news' : news'[i] = w \/ \E k \in DOMAIN news : news'[i] = news[k]
BY DEF Types, Tell

(* A submission that ends, or is asked to end: nothing else knows.          *)
LEMMA SubEnds ==
  ASSUME SmartIInv, NEW n \in DOMAIN subs, NEW v \in State \ {"working"},
         subs' = [subs EXCEPT ![n] = v], UNCHANGED <<order, polling>>
  PROVE  /\ Working' = Working \ {n} /\ Len(subs') = Len(subs) /\ DOMAIN subs' = DOMAIN subs
         /\ (Types /\ subs' \in Seq(State) /\ check' \in CheckPlace /\ clock' \in Nat => Types')
         /\ StreamInv' /\ FirstInv'
         /\ subs' \in Seq(State)
<1>1. /\ subs' \in Seq(State)
      /\ DOMAIN subs' = DOMAIN subs /\ Len(subs') = Len(subs)
      /\ \A m \in DOMAIN subs : subs'[m] = IF m = n THEN v ELSE subs[m]
  BY SubsChange DEF SmartIInv
<1>2. Working' = Working \ {n}
  BY <1>1 DEF Working
<1>3. UNCHANGED <<order, stream, news, misled>>
  BY DEF polling
<1>4. StreamInv'
  BY <1>1, <1>3 DEF SmartIInv, StreamInv
<1>5. FirstInv'
  BY <1>1, <1>2, <1>3 DEF SmartIInv, FirstInv
<1>6. Types /\ subs' \in Seq(State) /\ check' \in CheckPlace /\ clock' \in Nat => Types'
  BY <1>1, <1>3 DEF Types
<1> QED BY <1>1, <1>2, <1>4, <1>5, <1>6

(* A cancel that is accepted leaves nothing at work, if the object is right.*)
LEMMA Canceled ==
  ASSUME SmartIInv, Accepts, RequestCancel, UNCHANGED <<order, clock, polling>>,
         check' \in CheckPlace,
         check' \in {"modify", "cancel", "resubmit"} => check \in {"modify", "cancel", "resubmit"}
  PROVE  SmartIInv'
<1>1. order.id \in DOMAIN subs
  BY DEF SmartIInv, Types
<1>2. CASE Active
  <2>1. subs' = [subs EXCEPT ![order.id] = "canceling"]
    BY <1>2 DEF RequestCancel
  <2>2. "canceling" \in State \ {"working"}
    BY DEF State
  <2>3. /\ Working' = Working \ {order.id} /\ Len(subs') = Len(subs)
        /\ Types' /\ StreamInv' /\ FirstInv'
    BY <1>1, <2>1, <2>2, SubEnds DEF SmartIInv, Types
  <2>4. StepInv'
    BY <2>3 DEF SmartIInv, StepInv
  <2>5. OrderInv'
    BY <2>3 DEF SmartIInv, OrderInv, polling
  <2> QED BY <2>3, <2>4, <2>5 DEF SmartIInv
<1>3. CASE ~Active
  <2>1. UNCHANGED <<subs, order, clock, stream, news, misled>>
    BY <1>3 DEF RequestCancel, polling
  <2>2. Types' /\ StreamInv' /\ StepInv' /\ FirstInv'
    BY <2>1 DEF SmartIInv, Types, StreamInv, StepInv, FirstInv, Working
  <2>3. OrderInv'
    BY <1>3, <2>1 DEF SmartIInv, OrderInv, Working, Active
  <2> QED BY <2>2, <2>3 DEF SmartIInv
<1> QED BY <1>2, <1>3

(* The calls of check_queue that leave the submissions, and the calls that  *)
(* cancel one.                                                              *)
LEMMA CancelStep ==
  ASSUME SmartIInv, FinalCancel \/ CancelToReplace \/ StrategyCancels
  PROVE  SmartIInv'
<1>1. CASE /\ Accepts /\ RequestCancel /\ UNCHANGED <<order, clock, polling>>
           /\ check' = check \/ (check = "cancel" /\ check' = "resubmit")
  <2>1. check' \in CheckPlace
    BY <1>1 DEF SmartIInv, Types, CheckPlace
  <2> QED BY <1>1, <2>1, Canceled
<1>2. CASE /\ UNCHANGED <<subs, order, clock, polling>>
           /\ check' = check \/ check' = "turn"
  BY <1>2 DEF SmartIInv, Types, StreamInv, StepInv, OrderInv, FirstInv, Working, Active, CheckPlace, polling
<1> QED BY <1>1, <1>2 DEF FinalCancel, CancelToReplace, StrategyCancels, CancelFailed, program

LEMMA TurnStep ==
  ASSUME SmartIInv, NewStep \/ Modify \/ Stop \/ Tick
  PROVE  SmartIInv'
<1>1. UNCHANGED <<subs, stream, news, misled>>
  BY DEF NewStep, Modify, Stop, Tick, polling
<1>2. CASE NewStep
  <2>1. /\ order' \in Object /\ order'.id = order.id /\ order'.status = order.status
        /\ order'.step = clock /\ order.step < clock /\ clock' = clock
        /\ check' \in {"turn", "modify"} /\ check = "turn"
    BY <1>2 DEF NewStep, Repriced, SmartIInv, Types, Object
  <2>2. Types' /\ StreamInv' /\ FirstInv'
    BY <1>1, <2>1 DEF SmartIInv, Types, StreamInv, FirstInv, Working, CheckPlace
  <2>3. StepInv'
    BY <1>1, <2>1 DEF SmartIInv, Types, StepInv, Object
  <2>4. OrderInv'
    BY <1>1, <2>1 DEF SmartIInv, OrderInv, Working, Active
  <2> QED BY <2>2, <2>3, <2>4 DEF SmartIInv
<1>3. CASE Modify
  <2>1. UNCHANGED <<order, clock>> /\ check = "modify" /\ check' \in {"turn", "cancel"}
    BY <1>3 DEF Modify, AfterModifyFails
  <2> QED BY <1>1, <2>1 DEF SmartIInv, Types, StreamInv, StepInv, OrderInv, FirstInv,
                            Working, Active, CheckPlace
<1>4. CASE Stop
  BY <1>1, <1>4 DEF Stop, SmartIInv, Types, StreamInv, StepInv, OrderInv, FirstInv,
                    Working, Active, CheckPlace
<1>5. CASE Tick
  <2>1. UNCHANGED <<order, check>> /\ clock' = clock + 1
    BY <1>5 DEF Tick
  <2>2. StepInv'
    BY <1>1, <2>1 DEF SmartIInv, Types, Object, StepInv
  <2> QED BY <1>1, <2>1, <2>2 DEF SmartIInv, Types, StreamInv, OrderInv, FirstInv, Working, Active
<1> QED BY <1>2, <1>3, <1>4, <1>5

(* A submission that replaces another one.                                  *)
LEMMA ResubmitStep ==
  ASSUME SmartIInv, Resubmit
  PROVE  SmartIInv'
<1>1. /\ check = "resubmit" /\ check' = "turn" /\ clock' = clock
      /\ UNCHANGED <<stream, misled>>
      /\ Len(subs) \in Nat \ {0} /\ order.step \in Nat /\ Len(subs) <= order.step
  <2>1. Len(subs) \in Nat \ {0} /\ order.step \in Nat
    BY DEF SmartIInv, Types, Object
  <2> QED BY <2>1 DEF Resubmit, SmartIInv, StepInv
<1>2. ~misled => Working = {}
  BY <1>1 DEF SmartIInv, OrderInv
<1>3. CASE /\ Tell("new") /\ subs' = Append(subs, "working")
           /\ order' = [order EXCEPT !.status = "active", !.id = Len(subs'), !.fresh = TRUE]
  <2>1. /\ subs' \in Seq(State) /\ Len(subs') = Len(subs) + 1
        /\ DOMAIN subs' = DOMAIN subs \cup {Len(subs')}
        /\ \A m \in DOMAIN subs : subs'[m] = subs[m]
    <3>1. subs \in Seq(State) /\ "working" \in State
      BY DEF SmartIInv, Types, State
    <3>2. subs' = Append(subs, "working")
      BY <1>3
    <3>3. subs' \in Seq(State) /\ Len(subs') = Len(subs) + 1
      BY <3>1, <3>2
    <3>4. DOMAIN subs' = 1..Len(subs') /\ DOMAIN subs = 1..Len(subs) /\ Len(subs) \in Nat
      BY <3>1, <3>3
    <3>5. \A m \in DOMAIN subs : subs'[m] = subs[m]
      BY <3>1, <3>2, <3>4
    <3>6. \A k \in Nat : 1..(k + 1) = 1..k \cup {k + 1}
      OBVIOUS
    <3>7. DOMAIN subs' = DOMAIN subs \cup {Len(subs')}
      BY <3>3, <3>4, <3>6
    <3> QED BY <3>3, <3>5, <3>7, Zenon
  <2>2. /\ order' \in Object /\ order'.id = Len(subs') /\ order'.step = order.step
        /\ order'.status = "active"
    <3>1. Len(subs') \in Nat \ {0} /\ order \in Object
      BY <1>1, <2>1 DEF SmartIInv, Types
    <3> QED BY <1>3, <3>1 DEF Object
  <2>3. news' \in Seq(Word)
    BY <1>3, NewsGrows DEF SmartIInv, Word
  <2>4. Types' /\ StepInv' /\ FirstInv'
    BY <1>1, <2>1, <2>2, <2>3 DEF SmartIInv, Types, StepInv, FirstInv, CheckPlace
  <2>5. StreamInv'
    BY <1>1, <2>1 DEF SmartIInv, StreamInv, Stream
  <2>6. OrderInv'
    BY <1>1, <1>2, <2>1, <2>2 DEF OrderInv, Working, Active
  <2> QED BY <2>4, <2>5, <2>6 DEF SmartIInv
<1>4. CASE Tell("error") /\ UNCHANGED <<subs, order>>
  <2>1. /\ news' \in Seq(Word)
        /\ \A i \in DOMAIN news' : news'[i] = "error" \/ \E k \in DOMAIN news : news'[i] = news[k]
    BY <1>4, NewsGrows DEF SmartIInv, Word
  <2>2. Types' /\ StreamInv' /\ StepInv' /\ OrderInv'
    BY <1>1, <1>4, <2>1 DEF SmartIInv, Types, StreamInv, StepInv, OrderInv, Working, Active, CheckPlace
  <2>3. FirstInv'
    BY <1>1, <1>2, <1>4, <2>1 DEF SmartIInv, FirstInv, Working
  <2> QED BY <2>2, <2>3 DEF SmartIInv
<1>5. CASE order' = [order EXCEPT !.smart = FALSE] /\ UNCHANGED <<subs, news>>
  <2>1. /\ order' \in Object /\ order'.id = order.id /\ order'.step = order.step
        /\ order'.status = order.status
    BY <1>5 DEF SmartIInv, Types, Object
  <2> QED BY <1>1, <1>5, <2>1 DEF SmartIInv, Types, StreamInv, StepInv, OrderInv, FirstInv,
                                  Working, Active, CheckPlace
<1> QED BY <1>3, <1>4, <1>5 DEF Resubmit

(* The poll: it changes only what the stream carries.                       *)
LEMMA PollStep ==
  ASSUME SmartIInv, Fetch \/ Match \/ Compare \/ Absent
  PROVE  SmartIInv'
<1>1. UNCHANGED <<order, check, clock, subs, misled>>
  BY DEF Fetch, Match, Compare, Absent, program
<1>2. StepInv' /\ OrderInv'
  BY <1>1 DEF SmartIInv, StepInv, OrderInv, Working, Active
<1>3. SUFFICES StreamInv' /\ news' \in Seq(Word) /\ FirstInv'
  BY <1>1, <1>2 DEF SmartIInv, Types
<1>4. CASE Fetch
  <2>1. /\ stream' \in Stream /\ stream'.rows = subs /\ stream'.mine = NoRow
        /\ stream'.pc = "fetched" /\ 1 \in DOMAIN subs
    BY <1>4 DEF Fetch, Stream, NoRow, SmartIInv, Types
  <2>2. StreamInv'
    BY <1>1, <2>1 DEF StreamInv
  <2>3. FirstInv'
    BY <1>1, <1>4, <2>1 DEF Fetch, SmartIInv, Types, FirstInv, Working, Ends
  <2> QED BY <1>4, <2>2, <2>3 DEF Fetch, SmartIInv, Types
<1>5. CASE Match
  <2>1. /\ stream' \in Stream /\ stream'.rows = stream.rows /\ stream'.pc = "matched"
        /\ stream'.mine = NoRow \/ stream'.mine \in DOMAIN stream.rows
        /\ stream.pc = "fetched"
    BY <1>5 DEF Match, Stream, NoRow, SmartIInv, Types, StreamInv, Object
  <2>2. StreamInv'
    BY <1>1, <2>1 DEF SmartIInv, StreamInv
  <2>3. FirstInv'
    BY <1>1, <1>5, <2>1 DEF Match, SmartIInv, FirstInv, Working
  <2> QED BY <1>5, <2>2, <2>3 DEF Match, SmartIInv, Types
<1>6. CASE Compare
  <2>1. /\ stream' \in Stream /\ stream'.rows = stream.rows /\ stream'.mine = stream.mine
        /\ stream'.pc \in {"compared", "write"}
        /\ stream'.pc = "write" => stream.mine # NoRow
        /\ stream.pc = "matched"
    BY <1>6 DEF Compare, Stream, SmartIInv, StreamInv
  <2>2. StreamInv'
    BY <1>1, <2>1 DEF SmartIInv, StreamInv
  <2>3. CASE UNCHANGED news
    BY <1>1, <2>1, <2>2, <2>3 DEF SmartIInv, Types, FirstInv, Working
  <2>4. CASE stream.mine # NoRow /\ Tell(IF Status = "active" THEN "new" ELSE Status)
    <3> DEFINE w == IF Status = "active" THEN "new" ELSE Status
    <3>1. stream.mine \in DOMAIN stream.rows /\ stream.rows \in Seq(State)
      BY <2>4 DEF SmartIInv, StreamInv, Stream
    <3>2. w = "new" \/ (w = stream.rows[stream.mine] /\ w \in Ends)
      BY DEF Status
    <3>3. w \in Word
      BY <3>2 DEF Word
    <3> HIDE DEF w
    <3>4. /\ news' \in Seq(Word)
          /\ \A i \in DOMAIN news' : news'[i] = w \/ \E k \in DOMAIN news : news'[i] = news[k]
      BY <2>4, <3>3, NewsGrows DEF SmartIInv, w
    <3>5. FirstInv'
      BY <1>1, <2>1, <3>1, <3>2, <3>4 DEF SmartIInv, FirstInv, Working
    <3> QED BY <2>2, <3>4, <3>5
  <2> QED BY <1>6, <2>3, <2>4 DEF Compare
<1>7. CASE Absent
  <2>1. stream' \in Stream /\ stream'.rows = <<>> /\ stream'.mine = NoRow /\ stream'.pc = "idle"
    BY <1>7 DEF Absent, Stream, NoRow
  <2>2. Len(subs) \in Nat /\ stream.pc # "idle"
    BY <1>7 DEF SmartIInv, Types, Absent
  <2>3. StreamInv'
    BY <1>1, <2>1, <2>2 DEF StreamInv
  <2>4. CASE UNCHANGED news
    BY <1>1, <2>1, <2>3, <2>4 DEF SmartIInv, Types, FirstInv, Working
  <2>5. CASE order.id \notin DOMAIN stream.rows /\ Tell("canceled")
    <3>1. Len(subs) # 1
      BY <2>2, <2>5 DEF SmartIInv, Types, StreamInv
    <3>2. news' \in Seq(Word)
      BY <2>5, NewsGrows DEF SmartIInv, Word, Ends
    <3> QED BY <1>1, <2>3, <3>1, <3>2 DEF FirstInv
  <2> QED BY <1>7, <2>4, <2>5 DEF Absent
<1> QED BY <1>4, <1>5, <1>6, <1>7

(* A change of what the object knows of its status.                         *)
LEMMA Told ==
  ASSUME SmartIInv, NEW s \in {"active", "error"} \cup Ends, NEW f \in BOOLEAN,
         order' = [order EXCEPT !.status = s, !.fresh = f],
         Misleads(s), UNCHANGED <<check, clock, subs>>,
         s # "active" => (Len(subs) = 1 => Working = {}),
         stream' = stream \/ stream' = [stream EXCEPT !.pc = "compared"],
         stream' # stream => stream.pc = "write",
         news' \in Seq(Word), \A i \in DOMAIN news' : \E k \in DOMAIN news : news'[i] = news[k]
  PROVE  SmartIInv'
<1>1. /\ order' \in Object /\ order'.id = order.id /\ order'.step = order.step
      /\ order'.status = s
  BY DEF SmartIInv, Types, Object
<1>2. /\ stream' \in Stream /\ stream'.rows = stream.rows /\ stream'.mine = stream.mine
      /\ stream' = stream \/ (stream'.pc = "compared" /\ stream.pc = "write")
  BY DEF SmartIInv, StreamInv, Stream
<1>3. misled' \in BOOLEAN /\ (misled => misled')
  BY DEF Misleads, SmartIInv, Types, Working
<1>4. Types'
  BY <1>1, <1>3 DEF SmartIInv, Types
<1>5. StreamInv'
  BY <1>2 DEF SmartIInv, StreamInv
<1>6. StepInv'
  BY <1>1 DEF SmartIInv, StepInv
<1>7. OrderInv'
  <2>1. SUFFICES ASSUME ~misled'
                 PROVE  /\ Working' \subseteq {order'.id}
                        /\ ~Active' \/ check' = "resubmit" => Working' = {}
    BY DEF OrderInv
  <2>2. ~misled /\ Working' = Working /\ Working \subseteq {order.id}
    BY <1>3, <2>1 DEF SmartIInv, OrderInv, Working
  <2>3. s # "active" => order.id \notin Working
    BY <2>1 DEF Misleads
  <2> QED BY <1>1, <2>2, <2>3 DEF Active, SmartIInv, OrderInv
<1>8. FirstInv'
  <2>1. SUFFICES ASSUME Len(subs) = 1
                 PROVE  /\ ~misled'
                        /\ \A n \in DOMAIN stream'.rows : stream'.rows[n] \in Ends => Working' = {}
                        /\ \A i \in DOMAIN news' : news'[i] # "new" => Working' = {}
    BY DEF FirstInv
  <2>2. ~misled'
    BY <2>1 DEF Misleads, SmartIInv, FirstInv
  <2> QED BY <1>2, <2>1, <2>2 DEF SmartIInv, FirstInv, Working
<1> QED BY <1>4, <1>5, <1>6, <1>7, <1>8 DEF SmartIInv

LEMMA TellStep ==
  ASSUME SmartIInv, WriteStatus \/ HandleNew \/ HandleEnd
  PROVE  SmartIInv'
<1>1. order \in Object /\ news \in Seq(Word)
  BY DEF SmartIInv, Types
<1>2. CASE WriteStatus
  <2>1. stream.mine \in DOMAIN stream.rows
    BY <1>2 DEF WriteStatus, SmartIInv, StreamInv
  <2>2. Status \in {"active"} \cup Ends /\ (Status # "active" => stream.rows[stream.mine] \in Ends)
    BY DEF Status, Ends
  <2>3. order' = [order EXCEPT !.status = Status, !.fresh = order.fresh] /\ order.fresh \in BOOLEAN
    BY <1>1, <1>2 DEF WriteStatus, Object
  <2>4. Status # "active" => (Len(subs) = 1 => Working = {})
    BY <2>1, <2>2 DEF SmartIInv, FirstInv
  <2> QED BY <1>1, <1>2, <2>2, <2>3, <2>4, Told DEF WriteStatus
<1>3. CASE HandleNew \/ HandleEnd
  <2>1. /\ news # <<>> /\ news' = Tail(news) /\ news' \in Seq(Word)
        /\ UNCHANGED <<check, clock, subs, stream>>
    BY <1>1, <1>3 DEF HandleNew, HandleEnd
  <2>2. \A i \in DOMAIN news' : \E k \in DOMAIN news : news'[i] = news[k]
    <3>1. DOMAIN news' = 1..(Len(news) - 1) /\ DOMAIN news = 1..Len(news) /\ Len(news) \in Nat
      BY <1>1, <2>1
    <3>2. \A i \in DOMAIN news' : i + 1 \in DOMAIN news /\ news'[i] = news[i + 1]
      BY <1>1, <2>1, <3>1
    <3> QED BY <3>2
  <2>3. CASE HandleNew
    <3>1. CASE order.fresh
      <4>1. order' = [order EXCEPT !.status = "active", !.fresh = FALSE] /\ Misleads("active")
        BY <2>3, <3>1 DEF HandleNew, Misleads, SmartIInv, Types
      <4> QED BY <2>1, <2>2, <4>1, Told
    <3>2. CASE ~order.fresh
      <4>1. UNCHANGED <<order, misled>>
        BY <2>3, <3>2 DEF HandleNew
      <4> QED BY <2>1, <2>2, <4>1 DEF SmartIInv, Types, StreamInv, StepInv, OrderInv, FirstInv,
                                      Working, Active
    <3> QED BY <3>1, <3>2
  <2>4. CASE HandleEnd
    <3>1. 1 \in DOMAIN news /\ Head(news) = news[1]
      BY <1>1, <2>1
    <3>2. Head(news) \in {"error"} \cup Ends
      BY <1>1, <2>4, <3>1 DEF HandleEnd, Word
    <3>3. PICK f \in BOOLEAN : order' = [order EXCEPT !.status = Head(news), !.fresh = f]
      BY <1>1, <2>4 DEF HandleEnd, Object
    <3>4. Len(subs) = 1 => Working = {}
      BY <2>4, <3>1 DEF HandleEnd, SmartIInv, FirstInv
    <3>5. Misleads(Head(news))
      BY <2>4 DEF HandleEnd
    <3> QED BY <2>1, <2>2, <3>2, <3>3, <3>4, <3>5, Told
  <2> QED BY <1>3, <2>3, <2>4
<1> QED BY <1>2, <1>3

(* What the brokerage does.                                                 *)
LEMMA BrokerageStep ==
  ASSUME SmartIInv, NEW n \in DOMAIN subs, ExecuteOrder(n) \/ CancelTakesEffect(n)
  PROVE  SmartIInv'
<1>1. PICK v \in Ends : subs' = [subs EXCEPT ![n] = v]
  BY DEF ExecuteOrder, CancelTakesEffect, Ends
<1>2. UNCHANGED <<order, check, clock, polling>> /\ v \in State \ {"working"}
  BY <1>1 DEF ExecuteOrder, CancelTakesEffect, program, State, Ends
<1>3. /\ Working' = Working \ {n} /\ Len(subs') = Len(subs)
      /\ Types' /\ StreamInv' /\ FirstInv'
  BY <1>1, <1>2, SubEnds DEF SmartIInv, Types
<1>4. StepInv' /\ OrderInv'
  BY <1>2, <1>3 DEF SmartIInv, StepInv, OrderInv, Active, polling
<1> QED BY <1>3, <1>4 DEF SmartIInv

-----------------------------------------------------------------------------
LEMMA SmartInitial == SmartInit => SmartIInv
<1> SUFFICES ASSUME SmartInit PROVE SmartIInv
  OBVIOUS
<1>1. /\ subs = <<"working">> /\ order.id = 1 /\ order.step = 0 /\ order.status = "active"
      /\ order \in Object /\ check = "turn" /\ clock = 0 /\ news = <<>> /\ misled = FALSE
      /\ stream \in Stream /\ stream.pc = "idle" /\ stream.rows = <<>> /\ stream.mine = NoRow
  BY DEF SmartInit, Object, Stream, NoRow
<1>2. Types /\ StreamInv /\ StepInv
  <2>1. "working" \in State /\ <<"working">> \in Seq(State) /\ Len(<<"working">>) = 1
    BY DEF State
  <2>2. subs \in Seq(State) /\ Len(subs) = 1 /\ DOMAIN subs = {1}
    BY <1>1, <2>1
  <2>3. news \in Seq(Word) /\ Len(stream.rows) = 0
    BY <1>1
  <2>4. Types
    BY <1>1, <2>2, <2>3 DEF Types, CheckPlace
  <2> QED BY <1>1, <2>2, <2>3, <2>4 DEF StreamInv, StepInv
<1>3. OrderInv /\ FirstInv
  BY <1>1 DEF OrderInv, FirstInv, Working, Active
<1> QED BY <1>2, <1>3 DEF SmartIInv

LEMMA SmartInductive == SmartIInv /\ [SmartNext]_smartVars => SmartIInv'
<1> SUFFICES ASSUME SmartIInv, [SmartNext]_smartVars PROVE SmartIInv'
  OBVIOUS
<1>1. CASE FinalCancel \/ CancelToReplace \/ StrategyCancels
  BY <1>1, CancelStep
<1>2. CASE NewStep \/ Modify \/ Stop \/ Tick
  BY <1>2, TurnStep
<1>3. CASE Resubmit
  BY <1>3, ResubmitStep
<1>4. CASE Fetch \/ Match \/ Compare \/ Absent
  BY <1>4, PollStep
<1>5. CASE WriteStatus \/ HandleNew \/ HandleEnd
  BY <1>5, TellStep
<1>6. CASE \E n \in DOMAIN subs : ExecuteOrder(n) \/ CancelTakesEffect(n)
  BY <1>6, BrokerageStep
<1>7. CASE UNCHANGED smartVars
  BY <1>7 DEF smartVars, program, polling, SmartIInv, Types, StreamInv, StepInv, OrderInv, FirstInv,
              Working, Active
<1> QED BY <1>1, <1>2, <1>3, <1>4, <1>5, <1>6, <1>7 DEF SmartNext

LEMMA SmartInvariance == SmartSpec => []SmartIInv
BY SmartInitial, SmartInductive, PTL DEF SmartSpec

(* However modify, cancel and resubmit cross with fills, refusals, the      *)
(* strategy's cancels and the polls of the stream, two submissions of one   *)
(* smart-limit order work with no cancel asked for only after the stream    *)
(* has ended the Order object while its submission worked                   *)
(* (_process_smart_limit_orders, strategy_executor.py:644).                 *)
THEOREM NeverWorkingTwice == SmartSpec => []OneWorking
<1>1. SmartIInv => OneWorking
  BY DEF SmartIInv, OrderInv, OneWorking
<1> QED BY <1>1, SmartInvariance, PTL

(* And that does not happen before the order was replaced once: the poll's  *)
(* rows and its news, however old, are true of a first submission.          *)
THEOREM FirstIsJudgedRightly == SmartSpec => []FirstIsNotMisled
<1>1. SmartIInv => FirstIsNotMisled
  <2>1. SmartIInv => Len(subs) \in Nat \ {0}
    BY DEF SmartIInv, Types
  <2> QED BY <2>1 DEF SmartIInv, FirstInv, FirstIsNotMisled
<1> QED BY <1>1, SmartInvariance, PTL

(* The state stays in its type, and each step of the ladder leaves at most  *)
(* one submission more.                                                     *)
THEOREM TypeCorrect == SmartSpec => []SmartTypeOK
<1>1. SmartIInv => SmartTypeOK
  BY DEF SmartIInv, Types, Object, StreamInv, StepInv, SmartTypeOK
<1> QED BY <1>1, SmartInvariance, PTL
=============================================================================
