--------------------------- MODULE Lifecycle_proofs ---------------------------
(* Safety of Lifecycle for any number of days, of exceptions and of          *)
(* schedulers: iterations run alone but for one more per exception that is   *)
(* raised while another is handled, each day is traded, and what trades      *)
(* after the end is bounded in the same way.                                 *)
EXTENDS Lifecycle, FiniteSetTheorems, TLAPS

ExecPlaces == {"session", "await_preopen", "await_open", "schedule", "loop", "jobs",
               "await_last", "await_close", "due", "in", "ended"}
Before == {"handler", "exit", "remove", "shutdown", "join", "forget"}
Walk == Before \cup {"close"}
JobPlaces == {"unborn", "idle", "sync", "user"} \cup Walk
MainPlaces == {"idle", "done", "failed"} \cup Walk
Place == ExecPlaces \cup JobPlaces \cup MainPlaces
Nexts == {"await_open", "schedule", "loop", "await_close", "session"}
CallRec == [m : Methods \cup {None}, next : Nexts \cup {None}, kept : BOOLEAN]
JobRec == [running : BOOLEAN, job : BOOLEAN]

-----------------------------------------------------------------------------
(* The parts of the invariant.                                              *)
PlacesOK ==
  /\ pc \in [Actors -> Place]
  /\ pc[Exec] \in ExecPlaces \cup Walk
  /\ pc[Main] \in MainPlaces
  /\ \A s \in Schedulers : pc[s] \in JobPlaces

ClockOK ==
  /\ day \in Nat \ {0} /\ due \subseteq Schedulers
  /\ phase \in {"night", "preopen", "open", "last", "closed"}

CallOK ==
  /\ call \in CallRec
  /\ pc[Exec] \in {"due", "in"} => call.m \in Methods /\ call.next \in Nexts

DatesOK ==
  /\ lastDate \in [Methods -> Nat] /\ \A m \in Methods : lastDate[m] <= day
  /\ done \in [Methods -> 0 .. 2]
  /\ stopNow \in BOOLEAN /\ checker \in BOOLEAN /\ stopped \in BOOLEAN
  /\ traded \in Nat /\ overlaps \in Nat /\ crashes \in 0 .. MaxCrashes

JobsOK ==
  /\ scheduler \in Schedulers \cup {None}
  /\ sched \in [Schedulers -> JobRec]
  /\ joined \in [Actors -> Schedulers \cup {None}]

Types == PlacesOK /\ ClockOK /\ CallOK /\ DatesOK /\ JobsOK

(* A scheduler is made only after an exit has forgotten the one before it,  *)
(* and there is one exit for each exception, and one for the stop.          *)
Born == {s \in Schedulers : pc[s] # "unborn"}
Walkers == {a \in Actors : pc[a] \in Before}
CountInv == Cardinality(Born) + (IF scheduler = None THEN 1 ELSE 0) + Cardinality(Walkers)
              <= 1 + crashes + (IF pc[Main] = "idle" THEN 0 ELSE 1)

StopInv == /\ At(Main, "idle") <=> ~stopped
           /\ At(Exec, "ended") => stopped

BornInv ==
  /\ scheduler # None => scheduler \in Born
  /\ \A s \in Schedulers \ Born : ~sched[s].running /\ ~sched[s].job
  /\ \A a \in Actors : At(a, "join") => joined[a] \in Born

(* A scheduler that does not run any more is waited for as long as it is in *)
(* an iteration; and one that executor.scheduler still names is about to be *)
(* forgotten.                                                               *)
Runs(s) == pc[s] \in {"sync", "user"}
Waits(a, s) == At(a, "join") /\ joined[a] = s
WaitedFor(s) == \E a \in Actors : Waits(a, s)
ShutInv ==
  /\ \A a \in Actors : At(a, "join") => ~sched[joined[a]].running
  /\ \A s \in Schedulers : Runs(s) /\ ~sched[s].running => WaitedFor(s)
  /\ scheduler # None /\ ~sched[scheduler].running =>
       \E a \in Actors : pc[a] \in {"join", "forget"}

(* Schedulers are lost when they are forgotten while they run.  Of the      *)
(* exits that are under way at once the first to forget a scheduler does it *)
(* no harm, for it is still Fresh: nobody has replaced what the others have *)
(* read.  So each loss is paid for by an exception that overlapped another. *)
Exiting == {a \in Actors \ {Main} : pc[a] \in Before}
Lost == {s \in Schedulers : /\ s # scheduler
                            /\ sched[s].running \/ Runs(s)
                            /\ ~WaitedFor(s)}
Fresh == \A a \in Exiting :
  /\ pc[a] \in {"remove", "shutdown", "join", "forget"} => scheduler # None
  /\ pc[a] \in {"join", "forget"} => ~sched[scheduler].running
  /\ At(a, "join") => joined[a] = scheduler
  /\ a \in Schedulers => a = scheduler \/ sched[a].running
Debt == Cardinality(Lost) + Cardinality(Exiting)
LostInv == ~stopped => \/ Debt <= overlaps
                       \/ Debt <= overlaps + 1 /\ Exiting # {} /\ Fresh

(* After the stop no iteration begins, and either there are no more than    *)
(* were lost, or one is waited for, or will be, by a thread that ends late. *)
Iterating == {s \in Schedulers : Runs(s)}
EndsLater(s) ==
  \/ Waits(Exec, s) \/ Waits(Main, s)
  \/ /\ scheduler = s /\ sched[s].running
     /\ pc[Main] \notin {"join", "forget", "close", "done"}
     /\ pc[Exec] # "forget" /\ (At(Exec, "join") => Runs(joined[Exec]))
     /\ \A t \in Schedulers : pc[t] \in Before => At(t, "join") /\ Runs(joined[t])
Bounded == \/ Cardinality(Iterating) <= overlaps
           \/ /\ Cardinality(Iterating) <= overlaps + 1
              /\ \E s \in Iterating : EndsLater(s)
EndInv == stopped => Bounded

(* The market does not come to its closing minutes before an iteration has  *)
(* run: until then the executor's thread is in the loop or on its way to    *)
(* it, with a job that has yet to fire.                                     *)
InCall(next) == pc[Exec] \in {"due", "in"} /\ call.next = next
InLoop == pc[Exec] \in {"loop", "jobs"} \/ InCall("loop")
Closing == At(Exec, "await_close") \/ InCall("await_close")
WillTrade ==
  /\ phase \notin {"last", "closed"}
  /\ phase = "open" =>
       /\ \A s \in Schedulers \ due : At(s, "sync")
       /\ ~At(Exec, "await_last")
       /\ InLoop => ~stopNow /\ (scheduler # None => sched[scheduler].job)
       /\ At(Exec, "jobs") => scheduler # None
TradeInv ==
  /\ \A s \in Schedulers : At(s, "user") \/ pc[s] \in Walk => traded = day
  /\ Closing => phase # "open"
  /\ day > 1 /\ ~stopped /\ traded # day => WillTrade

IInv == /\ Types /\ CountInv /\ StopInv /\ BornInv
        /\ ShutInv /\ LostInv /\ EndInv /\ TradeInv

-----------------------------------------------------------------------------
LEMMA Threads ==
  /\ Exec \in Actors /\ Main \in Actors /\ Exec # Main /\ Schedulers \subseteq Actors
  /\ Exec \notin Schedulers /\ Main \notin Schedulers /\ None \notin Schedulers
BY LifecycleAssumption DEF Actors, Exec, Main, None

LEMMA FiniteActors ==
  /\ IsFiniteSet(Actors) /\ IsFiniteSet(Schedulers)
  /\ \A S \in SUBSET Actors : IsFiniteSet(S) /\ Cardinality(S) \in Nat
<1>1. IsFiniteSet(Schedulers)
  BY LifecycleAssumption
<1>2. IsFiniteSet({Exec, Main})
  <2>1. IsFiniteSet({Exec})
    BY FS_Singleton
  <2>2. {Exec, Main} = {Exec} \cup {Main}
    OBVIOUS
  <2> QED BY <2>1, <2>2, FS_AddElement
<1>3. IsFiniteSet(Actors)
  BY <1>1, <1>2, FS_Union DEF Actors
<1> QED BY <1>1, <1>3, FS_Subset, FS_CardinalityType

(* A thread goes on from one place to another.                              *)
LEMMA Moved ==
  ASSUME pc \in [Actors -> Place], NEW a \in Actors, NEW p, GoTo(a, p)
  PROVE  /\ pc'[a] = p
         /\ \A b \in Actors : b # a => pc'[b] = pc[b]
         /\ p \in Place => pc' \in [Actors -> Place]
BY DEF GoTo

LEMMA Initial == Init => IInv
<1> SUFFICES ASSUME Init PROVE IInv
  OBVIOUS
<1> USE Threads DEF Init
<1>1. pc = [a \in Actors |-> IF a = Exec THEN "session" ELSE IF a = Main THEN "idle" ELSE "unborn"]
  OBVIOUS
<1>2. pc \in [Actors -> Place]
  BY <1>1 DEF Place, ExecPlaces, MainPlaces, JobPlaces
<1>3. /\ pc[Exec] = "session" /\ pc[Main] = "idle"
      /\ \A s \in Schedulers : pc[s] = "unborn"
  BY <1>1
<1>4. PlacesOK
  BY <1>2, <1>3 DEF PlacesOK, ExecPlaces, MainPlaces, JobPlaces
<1>5. ClockOK
  BY DEF ClockOK, Phases
<1>6. CallOK
  BY <1>3 DEF CallOK, CallRec
<1>7. DatesOK
  <2>1. /\ lastDate = [m \in Methods |-> 0] /\ done = [m \in Methods |-> 0] /\ day = 1
        /\ stopNow = FALSE /\ checker = FALSE /\ stopped = FALSE
        /\ traded = 0 /\ overlaps = 0 /\ crashes = 0
    OBVIOUS
  <2> HIDE DEF Init
  <2>2. stopNow \in BOOLEAN /\ checker \in BOOLEAN /\ stopped \in BOOLEAN
    BY <2>1, Zenon
  <2>3. traded \in Nat /\ overlaps \in Nat /\ crashes \in 0 .. MaxCrashes
    BY <2>1, LifecycleAssumption
  <2>4. /\ lastDate \in [Methods -> Nat] /\ done \in [Methods -> 0 .. 2]
        /\ \A m \in Methods : lastDate[m] <= day
    BY <2>1
  <2> QED BY <2>2, <2>3, <2>4 DEF DatesOK
<1>8. JobsOK
  BY DEF JobsOK, JobRec
<1>9. CountInv
  <2>1. Born = {} /\ Walkers = {}
    BY <1>1, <1>3 DEF Born, Walkers, Before
  <2> QED BY <2>1, <1>3, FS_EmptySet DEF CountInv
<1>10. StopInv /\ BornInv
  BY <1>1, <1>3 DEF StopInv, BornInv, Born, At, Actors
<1>11. ShutInv /\ LostInv /\ EndInv
  <2>1. scheduler = None /\ stopped = FALSE /\ overlaps = 0
    OBVIOUS
  <2>2. \A s \in Schedulers : ~sched[s].running
    OBVIOUS
  <2>3. \A a \in Actors : pc[a] \notin Before
    BY <1>1, <1>3 DEF Before, Actors
  <2>4. Lost = {} /\ Exiting = {}
    BY <1>3, <2>2, <2>3 DEF Lost, Exiting, Runs
  <2>5. ShutInv
    BY <1>3, <2>1, <2>3 DEF ShutInv, Runs, At, Before
  <2> HIDE DEF Init
  <2> QED BY <2>1, <2>4, <2>5, FS_EmptySet DEF LostInv, Debt, EndInv
<1>12. TradeInv
  BY <1>3 DEF TradeInv, WillTrade, Closing, InCall, Walk, Before, At
<1> QED BY <1>4, <1>5, <1>6, <1>7, <1>8, <1>9, <1>10, <1>11, <1>12 DEF IInv, Types

LEMMA Smaller ==
  ASSUME NEW S \in SUBSET Actors, NEW T \in SUBSET S
  PROVE  /\ Cardinality(S) \in Nat /\ Cardinality(T) \in Nat
         /\ Cardinality(T) <= Cardinality(S)
         /\ T # S => Cardinality(T) < Cardinality(S)
<1>1. IsFiniteSet(S) /\ T \in SUBSET Actors
  BY FiniteActors
<1>2. Cardinality(S) \in Nat /\ Cardinality(T) \in Nat
  BY <1>1, FiniteActors
<1> QED BY <1>1, <1>2, FS_Subset

LEMMA CountedSets ==
  /\ Exiting \in SUBSET Actors /\ Lost \in SUBSET Actors /\ Iterating \in SUBSET Actors
BY Threads DEF Exiting, Lost, Iterating

(* A step that loses no scheduler and begins no exit keeps what is lost in  *)
(* bounds;                                                                  *)
LEMMA FewerLost ==
  ASSUME overlaps \in Nat, LostInv, stopped' = stopped, overlaps' = overlaps,
         Lost' \subseteq Lost, Exiting' \subseteq Exiting,
         Exiting' = Exiting /\ Fresh => Fresh'
  PROVE  LostInv'
<1> SUFFICES ASSUME ~stopped PROVE LostInv'
  BY DEF LostInv
<1>1. /\ Cardinality(Lost) \in Nat /\ Cardinality(Lost') \in Nat
      /\ Cardinality(Lost') <= Cardinality(Lost)
  BY CountedSets, Smaller
<1>2. /\ Cardinality(Exiting) \in Nat /\ Cardinality(Exiting') \in Nat
      /\ Exiting' # Exiting => Cardinality(Exiting') < Cardinality(Exiting)
  BY CountedSets, Smaller
<1>3. CASE Exiting' = Exiting
  BY <1>1, <1>2, <1>3 DEF LostInv, Debt
<1>4. CASE Exiting' # Exiting
  BY <1>1, <1>2, <1>4 DEF LostInv, Debt
<1> QED BY <1>3, <1>4

(* and one that begins no iteration and leaves the waits alone, those that  *)
(* run after the stop.                                                      *)
LEMMA FewerRun ==
  ASSUME overlaps \in Nat, overlaps' \in Nat, EndInv, stopped' = stopped,
         overlaps' >= overlaps, Iterating' \subseteq Iterating,
         Iterating' = Iterating /\ stopped =>
           \A s \in Iterating : EndsLater(s) => EndsLater(s)'
  PROVE  EndInv'
<1> SUFFICES ASSUME stopped PROVE Bounded'
  BY DEF EndInv
<1>1. /\ Cardinality(Iterating) \in Nat /\ Cardinality(Iterating') \in Nat
      /\ Cardinality(Iterating') <= Cardinality(Iterating)
      /\ Iterating' # Iterating => Cardinality(Iterating') < Cardinality(Iterating)
  BY CountedSets, Smaller
<1>2. Bounded
  BY DEF EndInv
<1>3. CASE Cardinality(Iterating) <= overlaps
  BY <1>1, <1>3 DEF Bounded
<1>4. CASE /\ Cardinality(Iterating) <= overlaps + 1
           /\ \E s \in Iterating : EndsLater(s)
  <2>1. CASE Iterating' = Iterating
    <3>1. PICK s \in Iterating : EndsLater(s)
      BY <1>4
    <3>2. s \in Iterating' /\ EndsLater(s)'
      BY <2>1, <3>1
    <3>3. Cardinality(Iterating') <= overlaps' + 1
      BY <1>1, <1>4
    <3> QED BY <3>2, <3>3 DEF Bounded
  <2>2. CASE Iterating' # Iterating
    <3>1. Cardinality(Iterating') <= overlaps'
      BY <1>1, <1>4, <2>2
    <3> QED BY <3>1 DEF Bounded
  <2> QED BY <2>1, <2>2
<1> QED BY <1>2, <1>3, <1>4 DEF Bounded

(* A step that leaves the exits where they are, and begins no iteration but *)
(* of a scheduler that runs, before the stop.                               *)
LEMMA SamePlaces ==
  ASSUME IInv, UNCHANGED <<scheduler, sched, joined, stopped, overlaps>>,
         \A a \in Actors : /\ pc'[a] \in Before <=> pc[a] \in Before
                           /\ pc'[a] \in Before \/ pc[a] \in Before => pc'[a] = pc[a],
         pc'[Main] = pc[Main],
         \A s \in Schedulers : Runs(s)' => Runs(s) \/ (~stopped /\ sched[s].running)
  PROVE  ShutInv' /\ LostInv' /\ EndInv'
<1> USE Threads
<1>1. \A a \in Actors : /\ At(a, "join")' <=> At(a, "join")
                        /\ \A s : Waits(a, s)' <=> Waits(a, s)
  BY DEF At, Before, Waits
<1>2. \A s : WaitedFor(s)' <=> WaitedFor(s)
  BY <1>1 DEF WaitedFor
<1>3. ShutInv'
  <2>1. \A a \in Actors : pc[a] \in {"join", "forget"} => pc'[a] = pc[a]
    BY DEF Before
  <2> QED BY <1>1, <1>2, <2>1 DEF IInv, ShutInv
<1>4. LostInv'
  <2>1. Lost' \subseteq Lost
    BY <1>2 DEF Lost
  <2>2. Exiting' = Exiting
    BY DEF Exiting
  <2>3. Fresh => Fresh'
    BY <1>1, <2>2 DEF Fresh, Exiting, Before
  <2> QED BY <2>1, <2>2, <2>3, FewerLost DEF IInv, Types, DatesOK
<1>5. EndInv'
  <2>1. stopped => Iterating' \subseteq Iterating
    BY DEF Iterating
  <2>2. ASSUME stopped, Iterating' = Iterating, NEW s \in Iterating, EndsLater(s)
        PROVE  EndsLater(s)'
    <3>1. \A t \in Schedulers : Runs(t)' <=> Runs(t)
      BY <2>2 DEF Iterating
    <3>2. At(Exec, "join") => joined[Exec] \in Schedulers
      BY DEF IInv, BornInv, Born
    <3>3. \A t \in Schedulers : At(t, "join") => joined[t] \in Schedulers
      BY DEF IInv, BornInv, Born
    <3>4. CASE Waits(Exec, s) \/ Waits(Main, s)
      BY <1>1, <3>4 DEF EndsLater
    <3>5. CASE ~(Waits(Exec, s) \/ Waits(Main, s))
      <4>1. /\ scheduler = s /\ sched[s].running
            /\ pc[Main] \notin {"join", "forget", "close", "done"}
            /\ pc[Exec] # "forget" /\ (At(Exec, "join") => Runs(joined[Exec]))
            /\ \A t \in Schedulers : pc[t] \in Before => At(t, "join") /\ Runs(joined[t])
        BY <2>2, <3>5 DEF EndsLater
      <4>2. pc'[Exec] # "forget" /\ (At(Exec, "join")' => Runs(joined[Exec])')
        BY <1>1, <3>1, <3>2, <4>1 DEF Before
      <4>3. \A t \in Schedulers : pc'[t] \in Before => At(t, "join")' /\ Runs(joined[t])'
        BY <1>1, <3>1, <3>3, <4>1
      <4> QED BY <4>1, <4>2, <4>3 DEF EndsLater
    <3> QED BY <3>4, <3>5
  <2>3. CASE stopped
    BY <2>1, <2>2, <2>3, FewerRun DEF IInv, Types, DatesOK
  <2>4. CASE ~stopped
    BY <2>4 DEF EndInv
  <2> QED BY <2>3, <2>4
<1> QED BY <1>3, <1>4, <1>5

(* As long as the strategy is not stopped, whoever iterates is lost, is     *)
(* waited for by an exit, or is the scheduler that executor.scheduler names.*)
LEMMA BeforeStop == ASSUME IInv, ~stopped PROVE Bounded
<1> USE Threads
<1> DEFINE Others == Iterating \ {scheduler}
           Joiners == {a \in Exiting : At(a, "join") /\ joined[a] \in Others}
           Joined == {joined[a] : a \in Joiners}
<1>1. pc[Main] = "idle"
  BY DEF IInv, StopInv, At
<1>2. ASSUME NEW s, WaitedFor(s)
      PROVE  \E a \in Exiting : At(a, "join") /\ joined[a] = s
  BY <1>1, <1>2 DEF WaitedFor, Waits, Exiting, At, Before
<1>3. Others \subseteq Lost \cup Joined
  <2> SUFFICES ASSUME NEW s \in Others, s \notin Lost PROVE s \in Joined
    OBVIOUS
  <2>1. s \in Schedulers /\ Runs(s) /\ s # scheduler
    BY DEF Iterating
  <2>2. WaitedFor(s)
    BY <2>1 DEF Lost
  <2> QED BY <1>2, <2>2
<1>4. /\ Lost \in SUBSET Actors /\ Exiting \in SUBSET Actors /\ Iterating \in SUBSET Actors
      /\ Joiners \in SUBSET Exiting /\ Others \in SUBSET Iterating
      /\ Joined \in SUBSET Actors
  BY CountedSets
<1>5. /\ \A S \in {Lost, Exiting, Iterating, Joiners, Others, Joined} :
           IsFiniteSet(S) /\ Cardinality(S) \in Nat
      /\ overlaps \in Nat
  BY <1>4, FiniteActors DEF IInv, Types, DatesOK
<1>6. Cardinality(Joined) <= Cardinality(Joiners)
  <2> DEFINE f == [a \in Joiners |-> joined[a]]
  <2>1. f \in Surjection(Joiners, Joined)
    BY DEF Surjection
  <2> QED BY <1>5, <2>1, FS_Surjection
<1>7. Cardinality(Others) <= Cardinality(Lost) + Cardinality(Joiners)
  <2>1. /\ IsFiniteSet(Lost \cup Joined)
        /\ Cardinality(Lost \cup Joined)
             = Cardinality(Lost) + Cardinality(Joined) - Cardinality(Lost \cap Joined)
    BY <1>5, FS_Union
  <2>2. Cardinality(Lost \cap Joined) \in Nat
    BY <1>4, FiniteActors
  <2>3. Cardinality(Others) <= Cardinality(Lost \cup Joined)
    BY <1>3, <2>1, FS_Subset
  <2> QED BY <1>5, <1>6, <2>1, <2>2, <2>3
<1>8. /\ Cardinality(Joiners) <= Cardinality(Exiting)
      /\ Joiners # Exiting => Cardinality(Joiners) < Cardinality(Exiting)
  BY <1>4, Smaller
<1>9. /\ scheduler \notin Iterating => Cardinality(Iterating) = Cardinality(Others)
      /\ scheduler \in Iterating => Cardinality(Iterating) = Cardinality(Others) + 1
  BY <1>5, FS_RemoveElement
<1>10. \A a \in Exiting : pc[a] \in Before /\ a \in Actors /\ a # Main
  BY DEF Exiting
<1>11. scheduler \in Iterating => /\ scheduler \in Schedulers /\ Runs(scheduler)
                                  /\ scheduler \notin Others
  BY DEF Iterating
<1>12. scheduler \in Iterating /\ ~sched[scheduler].running => WaitedFor(scheduler)
  BY <1>11 DEF IInv, ShutInv
<1>13. \A t \in Schedulers \cup {Exec} : pc[t] \in Before => t \in Exiting
  BY DEF Exiting
<1>14. CASE Debt <= overlaps
  <2>1. Cardinality(Others) <= overlaps
    BY <1>5, <1>7, <1>8, <1>14 DEF Debt
  <2>2. CASE scheduler \notin Iterating \/ Joiners # Exiting
    BY <1>5, <1>7, <1>8, <1>9, <1>14, <2>1, <2>2 DEF Debt, Bounded
  <2>3. CASE scheduler \in Iterating /\ Joiners = Exiting
    <3>1. \A a \in Exiting : At(a, "join") /\ joined[a] \in Others
      BY <2>3
    <3>2. sched[scheduler].running
      BY <1>2, <1>11, <1>12, <2>3, <3>1
    <3>3. \A s \in Others : Runs(s)
      BY DEF Iterating
    <3>4. EndsLater(scheduler)
      <4>1. pc[Exec] # "forget"
        BY <1>13, <3>1 DEF At, Before
      <4>2. At(Exec, "join") => Runs(joined[Exec])
        BY <1>13, <3>1, <3>3 DEF At, Before
      <4>3. \A t \in Schedulers : pc[t] \in Before => At(t, "join") /\ Runs(joined[t])
        BY <1>13, <3>1, <3>3
      <4> QED BY <1>1, <3>2, <4>1, <4>2, <4>3 DEF EndsLater
    <3>5. Cardinality(Iterating) <= overlaps + 1
      BY <1>5, <1>9, <2>1, <2>3
    <3> QED BY <2>3, <3>4, <3>5 DEF Bounded
  <2> QED BY <2>2, <2>3
<1>15. CASE Debt <= overlaps + 1 /\ Exiting # {} /\ Fresh
  <2>1. Joiners = {} /\ \A a \in Exiting : At(a, "join") => joined[a] = scheduler
    BY <1>15 DEF Fresh
  <2>2. Cardinality(Joiners) = 0
    BY <2>1, FS_EmptySet
  <2>3. Others \subseteq Lost
    BY <1>3, <2>1
  <2>4. Cardinality(Exiting) >= 1
    BY <1>5, <1>15, FS_EmptySet
  <2>5. Cardinality(Others) <= overlaps
    BY <1>5, <1>7, <1>15, <2>2, <2>4 DEF Debt
  <2>6. CASE scheduler \notin Iterating
    BY <1>5, <1>9, <2>5, <2>6 DEF Bounded
  <2>7. CASE scheduler \in Iterating /\ \E a \in Exiting : a \in Schedulers
    <3>1. PICK a \in Exiting : a \in Schedulers
      BY <2>7
    <3>2. ~Runs(a)
      BY <1>10 DEF Runs, Before
    <3>3. a # scheduler
      BY <1>11, <2>7, <3>2
    <3>4. sched[a].running
      BY <1>15, <3>1, <3>3 DEF Fresh
    <3>5. ~WaitedFor(a)
      BY <1>2, <2>1, <3>3
    <3>6. a \in Lost /\ a \notin Others
      BY <3>1, <3>2, <3>3, <3>4, <3>5 DEF Lost, Iterating
    <3>7. Cardinality(Others) < Cardinality(Lost)
      BY <1>4, <2>3, <3>6, Smaller
    <3>8. Cardinality(Iterating) <= overlaps
      BY <1>5, <1>9, <1>15, <2>4, <2>7, <3>7 DEF Debt
    <3> QED BY <3>8 DEF Bounded
  <2>8. CASE scheduler \in Iterating /\ \A a \in Exiting : a \notin Schedulers
    <3>1. \A a \in Exiting : a = Exec
      BY <1>10, <2>8 DEF Actors
    <3>2. EndsLater(scheduler)
      <4>1. CASE sched[scheduler].running
        <5>1. pc[Exec] \notin {"join", "forget"}
          BY <1>13, <1>15, <4>1 DEF Fresh, Before
        <5>2. \A t \in Schedulers : pc[t] \notin Before
          BY <1>13, <2>8
        <5> QED BY <1>1, <4>1, <5>1, <5>2 DEF EndsLater, At
      <4>2. CASE ~sched[scheduler].running
        <5>1. \E a \in Exiting : At(a, "join") /\ joined[a] = scheduler
          BY <1>2, <1>12, <2>8, <4>2
        <5> QED BY <3>1, <5>1 DEF EndsLater, Waits
      <4> QED BY <4>1, <4>2
    <3>3. Cardinality(Iterating) <= overlaps + 1
      BY <1>5, <1>9, <2>5, <2>8
    <3> QED BY <2>8, <3>2, <3>3 DEF Bounded
  <2> QED BY <2>6, <2>7, <2>8
<1> QED BY <1>14, <1>15 DEF IInv, LostInv

(* A step of the executor's thread that is no exit, and makes no scheduler. *)
ExecMoves(p) ==
  /\ GoTo(Exec, p) /\ pc[Exec] \in ExecPlaces /\ p \in ExecPlaces
  /\ p = "ended" => stopped
  /\ UNCHANGED <<clock, stopNow, jobs, checker, stopped, traded, overlaps, crashes>>

LEMMA ExecMovesOK ==
  ASSUME IInv, NEW p, ExecMoves(p)
  PROVE  /\ PlacesOK' /\ ClockOK' /\ JobsOK' /\ CountInv' /\ StopInv' /\ BornInv'
         /\ ShutInv' /\ LostInv' /\ EndInv'
<1> USE Threads
<1>1. /\ pc'[Exec] = p /\ p \in ExecPlaces /\ pc[Exec] \in ExecPlaces
      /\ \A a \in Actors : a # Exec => pc'[a] = pc[a]
      /\ pc' \in [Actors -> Place]
  BY Moved DEF ExecMoves, Place, IInv, Types, PlacesOK
<1>2. /\ UNCHANGED <<day, phase, due, stopNow, checker, stopped, traded, overlaps, crashes>>
      /\ UNCHANGED <<scheduler, sched, joined>>
  BY DEF ExecMoves, clock, jobs
<1>3. \A a \in Actors : /\ pc'[a] \in Before <=> pc[a] \in Before
                        /\ pc'[a] \in Before \/ pc[a] \in Before => pc'[a] = pc[a]
                        /\ Runs(a)' <=> Runs(a)
  BY <1>1 DEF ExecPlaces, Before, Runs
<1>4. \A s \in Schedulers : pc'[s] = pc[s]
  BY <1>1
<1>5. PlacesOK'
  BY <1>1, <1>4 DEF IInv, Types, PlacesOK
<1>6. ClockOK' /\ JobsOK'
  BY <1>2 DEF IInv, Types, ClockOK, JobsOK
<1>7. Born' = Born /\ Walkers' = Walkers /\ pc'[Main] = pc[Main]
  BY <1>1, <1>3, <1>4 DEF Born, Walkers
<1>8. CountInv'
  BY <1>2, <1>7 DEF IInv, CountInv
<1>9. StopInv'
  BY <1>1, <1>2, <1>7 DEF IInv, StopInv, At, ExecMoves
<1>10. BornInv'
  BY <1>2, <1>3, <1>7 DEF IInv, BornInv, At, Before
<1>11. ShutInv' /\ LostInv' /\ EndInv'
  BY <1>1, <1>2, <1>3, SamePlaces
<1> QED BY <1>5, <1>6, <1>8, <1>9, <1>10, <1>11

(* What is left to show of such a step.                                     *)
LEMMA ExecTrade ==
  ASSUME IInv, NEW p, ExecMoves(p),
         Closing' => phase # "open",
         day > 1 /\ ~stopped /\ traded # day /\ phase = "open" =>
           /\ p # "await_last" /\ p # "jobs"
           /\ InLoop' => ~stopNow /\ (scheduler # None => sched[scheduler].job)
  PROVE  TradeInv'
<1> USE Threads
<1>1. /\ pc'[Exec] = p
      /\ \A s \in Schedulers : pc'[s] = pc[s]
  BY Moved DEF ExecMoves, IInv, Types, PlacesOK
<1>2. UNCHANGED <<day, phase, due, stopNow, stopped, traded, scheduler, sched>>
  BY DEF ExecMoves, clock, jobs
<1>3. day > 1 /\ ~stopped /\ traded # day => WillTrade'
  BY <1>1, <1>2 DEF IInv, TradeInv, WillTrade, At
<1> QED BY <1>1, <1>2, <1>3 DEF IInv, TradeInv, At

LEMMA EnterOK == ASSUME IInv, Enter PROVE IInv'
<1> USE Threads
<1> DEFINE p == IF stopped THEN call.next ELSE "in"
<1>1. /\ pc[Exec] = "due" /\ GoTo(Exec, p) /\ call' = call
      /\ lastDate' = IF stopped THEN Recorded ELSE lastDate
      /\ UNCHANGED <<clock, stopNow, jobs, checker, stopped, traded, overlaps, crashes, done>>
  BY DEF Enter, At, history
<1>2. call.m \in Methods /\ call.next \in Nexts /\ call \in CallRec
  BY <1>1 DEF IInv, Types, CallOK
<1>3. ExecMoves(p) /\ p \in Nexts \cup {"in"}
  BY <1>1, <1>2 DEF ExecMoves, ExecPlaces, Nexts
<1>4. pc'[Exec] = p
  BY <1>1, Moved DEF IInv, Types, PlacesOK
<1>5. CallOK'
  BY <1>1, <1>2, <1>4 DEF CallOK
<1>6. day' = day
  BY <1>1 DEF clock
<1>7. DatesOK'
  <2>1. lastDate' \in [Methods -> Nat] /\ \A m \in Methods : lastDate'[m] <= day
    BY <1>1, <1>2 DEF IInv, Types, DatesOK, ClockOK, Recorded
  <2> QED BY <2>1, <1>1, <1>6 DEF IInv, Types, DatesOK
<1>8. TradeInv'
  <2>1. Closing' => Closing
    BY <1>1, <1>2, <1>3, <1>4 DEF Closing, InCall, At, Nexts
  <2>2. InLoop' => InLoop
    BY <1>1, <1>2, <1>3, <1>4 DEF InLoop, InCall, Nexts
  <2>3. phase' = phase
    BY <1>1 DEF clock
  <2>4. ~stopped => p # "await_last" /\ p # "jobs"
    OBVIOUS
  <2> HIDE DEF p
  <2>5. Closing' => phase # "open"
    BY <2>1 DEF IInv, TradeInv
  <2>6. day > 1 /\ ~stopped /\ traded # day /\ phase = "open" =>
           /\ p # "await_last" /\ p # "jobs"
           /\ InLoop' => ~stopNow /\ (scheduler # None => sched[scheduler].job)
    BY <2>2, <2>4 DEF IInv, TradeInv, WillTrade
  <2> QED BY <1>3, <2>5, <2>6, ExecTrade
<1> HIDE DEF p
<1> QED BY <1>3, <1>5, <1>7, <1>8, ExecMovesOK DEF IInv, Types

LEMMA ReturnOK == ASSUME IInv, Return PROVE IInv'
<1> USE Threads
<1> DEFINE p == call.next
<1>1. /\ pc[Exec] = "in" /\ GoTo(Exec, p) /\ call' = call
      /\ lastDate' = Recorded
      /\ done' = [done EXCEPT ![call.m] = IF @ = 2 THEN 2 ELSE @ + 1]
      /\ UNCHANGED <<clock, stopNow, jobs, checker, stopped, traded, overlaps, crashes>>
  BY DEF Return, At
<1>2. call.m \in Methods /\ call.next \in Nexts /\ call \in CallRec
  BY <1>1 DEF IInv, Types, CallOK
<1>3. ExecMoves(p) /\ p \in Nexts
  BY <1>1, <1>2 DEF ExecMoves, ExecPlaces, Nexts
<1>4. pc'[Exec] = p
  BY <1>1, Moved DEF IInv, Types, PlacesOK
<1>5. CallOK'
  BY <1>1, <1>2, <1>4 DEF CallOK, Nexts
<1>6. day' = day
  BY <1>1 DEF clock
<1>7. DatesOK'
  <2>1. lastDate' \in [Methods -> Nat] /\ \A m \in Methods : lastDate'[m] <= day
    BY <1>1, <1>2 DEF IInv, Types, DatesOK, ClockOK, Recorded
  <2>2. done' \in [Methods -> 0 .. 2]
    BY <1>1, <1>2 DEF IInv, Types, DatesOK
  <2> QED BY <2>1, <2>2, <1>1, <1>6 DEF IInv, Types, DatesOK
<1>8. TradeInv'
  <2>1. Closing' => Closing
    BY <1>1, <1>2, <1>3, <1>4 DEF Closing, InCall, At, Nexts
  <2>2. InLoop' => InLoop
    BY <1>1, <1>2, <1>3, <1>4 DEF InLoop, InCall, Nexts
  <2>4. p # "await_last" /\ p # "jobs"
    BY <1>3 DEF Nexts
  <2> HIDE DEF p
  <2>5. Closing' => phase # "open"
    BY <2>1 DEF IInv, TradeInv
  <2>6. day > 1 /\ ~stopped /\ traded # day /\ phase = "open" =>
           /\ p # "await_last" /\ p # "jobs"
           /\ InLoop' => ~stopNow /\ (scheduler # None => sched[scheduler].job)
    BY <2>2, <2>4 DEF IInv, TradeInv, WillTrade
  <2> QED BY <1>3, <2>5, <2>6, ExecTrade
<1> HIDE DEF p
<1> QED BY <1>3, <1>5, <1>7, <1>8, ExecMovesOK DEF IInv, Types

LEMMA StartSessionOK == ASSUME IInv, StartSession PROVE IInv'
<1> USE Threads
<1> DEFINE p == IF stopped THEN "ended" ELSE "await_preopen"
<1>1. /\ pc[Exec] = "session" /\ GoTo(Exec, p)
      /\ UNCHANGED <<call, lastDate, done>>
      /\ UNCHANGED <<clock, stopNow, jobs, checker, stopped, traded, overlaps, crashes>>
  BY DEF StartSession, At, history, session
<1>2. ExecMoves(p) /\ p \in {"ended", "await_preopen"}
  BY <1>1 DEF ExecMoves, ExecPlaces
<1>3. pc'[Exec] = p
  BY <1>1, Moved DEF IInv, Types, PlacesOK
<1> HIDE DEF p
<1>4. CallOK'
  BY <1>1, <1>2, <1>3 DEF IInv, Types, CallOK
<1>5. DatesOK'
  BY <1>1 DEF IInv, Types, DatesOK, clock
<1>6. ~Closing' /\ ~InLoop' /\ p # "await_last" /\ p # "jobs"
  BY <1>2, <1>3 DEF Closing, InLoop, InCall, At
<1>7. TradeInv'
  BY <1>2, <1>6, ExecTrade
<1> QED BY <1>2, <1>4, <1>5, <1>7, ExecMovesOK DEF IInv, Types

(* The executor's thread calls a daily method, or goes on without.          *)
Calls(p, m, next, kept) ==
  \/ p \notin {"due", "in"} /\ GoTo(Exec, p) /\ call' = call
  \/ p = "due" /\ Call(m, next, kept)

LEMMA CallsOK ==
  ASSUME IInv, NEW p, NEW m \in Methods, NEW next \in Nexts, NEW kept \in BOOLEAN,
         Calls(p, m, next, kept), UNCHANGED <<lastDate, stopNow, clock, jobs, checker,
                                               stopped, history, crashes>>
  PROVE  /\ GoTo(Exec, p) /\ pc'[Exec] = p /\ CallOK' /\ DatesOK'
         /\ \A n : InCall(n)' => p = "due" /\ n = next
<1> USE Threads
<1>1. GoTo(Exec, p)
  BY DEF Calls, Call
<1>2. pc'[Exec] = p
  BY <1>1, Moved DEF IInv, Types, PlacesOK
<1>3. DatesOK'
  BY DEF IInv, Types, DatesOK, clock, history
<1>4. CASE p \notin {"due", "in"} /\ call' = call
  BY <1>1, <1>2, <1>3, <1>4 DEF IInv, Types, CallOK, InCall
<1>5. CASE p = "due" /\ call' = [m |-> m, next |-> next, kept |-> kept]
  <2>1. call' \in CallRec /\ call'.m = m /\ call'.next = next
    BY <1>5 DEF CallRec
  <2> QED BY <1>1, <1>2, <1>3, <1>5, <2>1 DEF CallOK, InCall
<1> QED BY <1>4, <1>5 DEF Calls, Call

LEMMA WakeBeforeOpenOK == ASSUME IInv, WakeBeforeOpen PROVE IInv'
<1> USE Threads
<1> DEFINE p == IF IsMarketOpen THEN "await_open" ELSE "due"
<1>1. /\ pc[Exec] = "await_preopen"
      /\ Calls(p, "before_market_opens", "await_open", TRUE)
      /\ UNCHANGED <<lastDate, stopNow, clock, jobs, checker, stopped, history, crashes>>
  BY DEF WakeBeforeOpen, At, Calls
<1>2. p \in {"await_open", "due"}
  OBVIOUS
<1> HIDE DEF p
<1>3. /\ GoTo(Exec, p) /\ pc'[Exec] = p /\ CallOK' /\ DatesOK'
      /\ \A n : InCall(n)' => p = "due" /\ n = "await_open"
  BY <1>1, CallsOK DEF Methods, Nexts
<1>4. ExecMoves(p)
  BY <1>1, <1>2, <1>3 DEF ExecMoves, ExecPlaces, history
<1>5. ~Closing' /\ ~InLoop' /\ p # "await_last" /\ p # "jobs"
  BY <1>2, <1>3 DEF Closing, InLoop, At
<1>6. TradeInv'
  BY <1>4, <1>5, ExecTrade
<1> QED BY <1>3, <1>4, <1>6, ExecMovesOK DEF IInv, Types

LEMMA WakeAtOpenOK == ASSUME IInv, WakeAtOpen PROVE IInv'
<1> USE Threads
<1>1. /\ pc[Exec] = "await_open"
      /\ Calls("due", "before_starting_trading", "schedule", FALSE)
      /\ UNCHANGED <<lastDate, stopNow, clock, jobs, checker, stopped, history, crashes>>
  BY DEF WakeAtOpen, At, Calls
<1>2. /\ GoTo(Exec, "due") /\ pc'[Exec] = "due" /\ CallOK' /\ DatesOK'
      /\ \A n : InCall(n)' => n = "schedule"
  BY <1>1, CallsOK DEF Methods, Nexts
<1>3. ExecMoves("due")
  BY <1>1, <1>2 DEF ExecMoves, ExecPlaces, history
<1>4. ~Closing' /\ ~InLoop'
  BY <1>2 DEF Closing, InLoop, At
<1>5. TradeInv'
  BY <1>3, <1>4, ExecTrade
<1> QED BY <1>2, <1>3, <1>5, ExecMovesOK DEF IInv, Types

LEMMA WakeBeforeCloseOK == ASSUME IInv, WakeBeforeClose PROVE IInv'
<1> USE Threads
<1> DEFINE p == IF IsMarketOpen THEN "due" ELSE "await_close"
<1>1. /\ pc[Exec] = "await_last" /\ phase # "open"
      /\ Calls(p, "before_market_closes", "await_close", FALSE)
      /\ UNCHANGED <<lastDate, stopNow, clock, jobs, checker, stopped, history, crashes>>
  BY DEF WakeBeforeClose, At, Calls
<1>2. p \in {"await_close", "due"}
  OBVIOUS
<1> HIDE DEF p
<1>3. GoTo(Exec, p) /\ CallOK' /\ DatesOK'
  BY <1>1, CallsOK DEF Methods, Nexts
<1>4. ExecMoves(p)
  BY <1>1, <1>2, <1>3 DEF ExecMoves, ExecPlaces, history
<1>5. TradeInv'
  BY <1>1, <1>4, ExecTrade
<1> QED BY <1>3, <1>4, <1>5, ExecMovesOK DEF IInv, Types

LEMMA WakeAtCloseOK == ASSUME IInv, WakeAtClose PROVE IInv'
<1> USE Threads
<1>1. /\ pc[Exec] = "await_close"
      /\ Calls("due", "after_market_closes", "session", FALSE)
      /\ UNCHANGED <<lastDate, stopNow, clock, jobs, checker, stopped, history, crashes>>
  BY DEF WakeAtClose, At, Calls
<1>2. /\ GoTo(Exec, "due") /\ pc'[Exec] = "due" /\ CallOK' /\ DatesOK'
      /\ \A n : InCall(n)' => n = "session"
  BY <1>1, CallsOK DEF Methods, Nexts
<1>3. ExecMoves("due")
  BY <1>1, <1>2 DEF ExecMoves, ExecPlaces, history
<1>4. ~Closing' /\ ~InLoop'
  BY <1>2 DEF Closing, InLoop, At
<1>5. TradeInv'
  BY <1>3, <1>4, ExecTrade
<1> QED BY <1>2, <1>3, <1>5, ExecMovesOK DEF IInv, Types

(* In the open market a look at a loop that has not been left goes on.      *)
LEMMA LookOK == ASSUME IInv, Look PROVE IInv'
<1> USE Threads
<1>0. MethodsNow \subseteq Methods
  BY ZenonT(60) DEF MethodsNow, Methods
<1>1. PICK p \in {"await_last", "loop", "due"}, m \in Methods :
         /\ Calls(p, m, "loop", TRUE)
         /\ p = "await_last" => ~KeepTrading
  <2>1. CASE ~KeepTrading /\ GoTo(Exec, "await_last") /\ call' = call
    <3>1. Calls("await_last", "before_market_opens", "loop", TRUE)
      BY <2>1 DEF Calls
    <3> QED BY <2>1, <3>1 DEF Methods
  <2>2. CASE GoTo(Exec, "loop") /\ call' = call
    <3>1. Calls("loop", "before_market_opens", "loop", TRUE)
      BY <2>2 DEF Calls
    <3> QED BY <3>1 DEF Methods
  <2>3. CASE \E m \in MethodsNow : Call(m, "loop", TRUE)
    <3>1. PICK m \in MethodsNow : Call(m, "loop", TRUE)
      BY <2>3
    <3>2. Calls("due", m, "loop", TRUE)
      BY <3>1 DEF Calls
    <3> QED BY <1>0, <3>2
  <2> QED BY <2>1, <2>2, <2>3, ZenonT(30) DEF Look
<1>2. /\ pc[Exec] = "jobs" \/ (pc[Exec] = "loop" /\ scheduler # None)
      /\ UNCHANGED <<lastDate, stopNow, clock, jobs, checker, stopped, history, crashes>>
  BY DEF Look, At
<1>3. /\ GoTo(Exec, p) /\ pc'[Exec] = p /\ CallOK' /\ DatesOK'
      /\ \A n : InCall(n)' => n = "loop"
  BY <1>1, <1>2, CallsOK DEF Nexts
<1>4. ExecMoves(p)
  BY <1>1, <1>2, <1>3 DEF ExecMoves, ExecPlaces, history
<1>5. ~Closing'
  BY <1>1, <1>3 DEF Closing, At
<1>6. day > 1 /\ ~stopped /\ traded # day /\ phase = "open" =>
        scheduler # None /\ sched[scheduler].job /\ ~stopNow
  BY <1>2 DEF IInv, TradeInv, WillTrade, InLoop, At
<1>7. day > 1 /\ ~stopped /\ traded # day /\ phase = "open" =>
           /\ p # "await_last" /\ p # "jobs"
           /\ InLoop' => ~stopNow /\ (scheduler # None => sched[scheduler].job)
  BY <1>1, <1>6 DEF KeepTrading
<1>8. TradeInv'
  BY <1>4, <1>5, <1>7, ExecTrade
<1> QED BY <1>3, <1>4, <1>8, ExecMovesOK DEF IInv, Types

-----------------------------------------------------------------------------
(* The bound on the schedulers is never reached.                            *)
LEMMA NewIsUnborn ==
  ASSUME IInv, scheduler = None
  PROVE  NewScheduler \in Schedulers /\ At(NewScheduler, "unborn")
<1>1. Cardinality(Born) \in Nat /\ Cardinality(Walkers) \in Nat
  BY FiniteActors, Threads DEF Born, Walkers
<1>2. Cardinality(Born) + 1 + Cardinality(Walkers) <= 2 + crashes
  BY <1>1 DEF IInv, CountInv, Types, DatesOK
<1>3. Cardinality(Born) < MaxCrashes + 3
  BY <1>1, <1>2, LifecycleAssumption DEF IInv, Types, DatesOK
<1>4. Born # Schedulers
  BY <1>1, <1>3, LifecycleAssumption, FiniteActors, FS_CardinalityType
<1>5. \E s \in Schedulers : At(s, "unborn")
  BY <1>4 DEF Born, At
<1> QED BY <1>5 DEF NewScheduler

(* What the executor's thread does to the schedulers when it sets one up.   *)
SetUp(s, next) ==
  /\ IF scheduler = None THEN pc[s] = "unborn" ELSE s = scheduler
  /\ scheduler' = s
  /\ sched' \in [Schedulers -> JobRec]
  /\ sched'[s].job
  /\ sched'[s].running = (scheduler = None \/ sched[s].running)
  /\ \A t \in Schedulers \ {s} : sched'[t] = sched[t]
  /\ pc' \in [Actors -> Place]
  /\ pc'[Exec] = next
  /\ pc'[s] = IF pc[s] = "unborn" THEN "idle" ELSE pc[s]
  /\ \A a \in Actors \ {s, Exec} : pc'[a] = pc[a]
  /\ due' = due \cup {s}

LEMMA SetUpIs ==
  ASSUME IInv, NEW next \in {"loop", "jobs"}, SetUpScheduler(next)
  PROVE  \E s \in Schedulers : SetUp(s, next)
<1> USE Threads
<1> DEFINE s == IF scheduler = None THEN NewScheduler ELSE scheduler
<1>1. s \in Schedulers /\ IF scheduler = None THEN pc[s] = "unborn" ELSE s = scheduler
  BY NewIsUnborn DEF IInv, Types, JobsOK, At
<1>2. /\ scheduler' = s
      /\ sched' = [sched EXCEPT ![s] = [running |-> scheduler = None \/ @.running, job |-> TRUE]]
      /\ pc' = [pc EXCEPT ![Exec] = next, ![s] = IF @ = "unborn" THEN "idle" ELSE @]
      /\ due' = due \cup {s}
  BY DEF SetUpScheduler
<1> HIDE DEF s
<1>3. /\ sched' \in [Schedulers -> JobRec]
      /\ \A t \in Schedulers \ {s} : sched'[t] = sched[t]
      /\ sched'[s] = [running |-> scheduler = None \/ sched[s].running, job |-> TRUE]
  BY <1>1, <1>2 DEF IInv, Types, JobsOK, JobRec
<1>4. /\ pc' \in [Actors -> Place]
      /\ pc'[Exec] = next
      /\ pc'[s] = IF pc[s] = "unborn" THEN "idle" ELSE pc[s]
      /\ \A a \in Actors \ {s, Exec} : pc'[a] = pc[a]
  BY <1>1, <1>2 DEF IInv, Types, PlacesOK, Place, ExecPlaces, JobPlaces
<1>5. SetUp(s, next)
  <2>1. sched'[s].job /\ sched'[s].running = (scheduler = None \/ sched[s].running)
    <3> DEFINE r == [running |-> scheduler = None \/ sched[s].running, job |-> TRUE]
    <3>1. r.job
      BY Zenon
    <3>2. r.running = (scheduler = None \/ sched[s].running)
      BY Zenon
    <3>3. sched'[s] = r
      BY <1>3
    <3> HIDE DEF r
    <3> QED BY <3>1, <3>2, <3>3
  <2> QED BY <1>1, <1>2, <1>3, <1>4, <2>1, Zenon DEF SetUp
<1> QED BY <1>1, <1>5

LEMMA SetUpOK ==
  ASSUME IInv, NEW next \in {"loop", "jobs"}, NEW s \in Schedulers, SetUp(s, next),
         pc[Exec] \in {"schedule", "loop"}, UNCHANGED <<joined, stopped, overlaps, crashes>>
  PROVE  /\ PlacesOK' /\ JobsOK' /\ CountInv' /\ StopInv' /\ BornInv'
         /\ ShutInv' /\ LostInv' /\ EndInv'
<1> USE Threads
<1>1. \A a \in Actors : /\ pc'[a] \in Walk <=> pc[a] \in Walk
                        /\ pc'[a] \in Before <=> pc[a] \in Before
                        /\ pc'[a] \in Before \/ pc[a] \in Before => pc'[a] = pc[a]
                        /\ Runs(a)' <=> Runs(a)
  BY DEF SetUp, Walk, Before, Runs
<1>2. \A t \in Schedulers : pc'[t] = IF t = s /\ pc[t] = "unborn" THEN "idle" ELSE pc[t]
  BY DEF SetUp
<1>3. pc'[Main] = pc[Main] /\ pc'[Exec] = next
  BY DEF SetUp
<1>4. PlacesOK'
  BY <1>2, <1>3 DEF IInv, Types, PlacesOK, SetUp, JobPlaces, ExecPlaces
<1>5. JobsOK'
  BY DEF IInv, Types, JobsOK, SetUp
<1>6. Walkers' = Walkers
  BY <1>1 DEF Walkers
<1>7. Born' = Born \cup {s}
  BY <1>2, <1>3 DEF Born, SetUp, IInv, BornInv
<1>8. CountInv'
  <2>1. Cardinality(Born) \in Nat /\ Cardinality(Walkers) \in Nat /\ IsFiniteSet(Born)
    BY FiniteActors DEF Born, Walkers
  <2>2. CASE scheduler = None
    <3>1. s \notin Born
      BY <2>2 DEF SetUp, Born
    <3>2. Cardinality(Born') = Cardinality(Born) + 1
      BY <1>7, <2>1, <3>1, FS_AddElement
    <3> QED BY <1>3, <1>6, <2>1, <2>2, <3>2 DEF IInv, CountInv, SetUp, Types, DatesOK
  <2>3. CASE scheduler # None
    <3>1. s \in Born
      BY <2>3 DEF SetUp, IInv, BornInv
    <3>2. Born' = Born
      BY <1>7, <3>1
    <3> QED BY <1>3, <1>6, <2>1, <2>3, <3>2 DEF IInv, CountInv, SetUp
  <2> QED BY <2>2, <2>3
<1>9. StopInv'
  BY <1>3 DEF IInv, StopInv, At
<1>10. BornInv'
  <2>1. \A a \in Actors : At(a, "join")' <=> At(a, "join")
    BY <1>1 DEF At, Before
  <2> QED BY <1>2, <1>7, <2>1 DEF IInv, BornInv, SetUp
<1>11. /\ \A a \in Actors : /\ At(a, "join")' <=> At(a, "join")
                            /\ \A t : Waits(a, t)' <=> Waits(a, t)
       /\ \A t : WaitedFor(t)' <=> WaitedFor(t)
  <2>1. \A a \in Actors : At(a, "join")' <=> At(a, "join")
    BY <1>1 DEF At, Before
  <2> QED BY <2>1 DEF Waits, WaitedFor
<1>12. /\ scheduler' = s /\ s # None /\ (scheduler = None \/ scheduler = s)
       /\ scheduler = None => /\ pc[s] = "unborn" /\ sched'[s].running
                              /\ \A a \in Actors : At(a, "join") => joined[a] # s
       /\ scheduler # None => sched'[s].running = sched[s].running
       /\ \A t \in Schedulers : t # s => sched'[t] = sched[t]
  <2>1. /\ scheduler' = s /\ s # None /\ (scheduler = None \/ scheduler = s)
        /\ scheduler = None => pc[s] = "unborn"
        /\ \A t \in Schedulers : t # s => sched'[t] = sched[t]
    BY DEF SetUp
  <2>2. scheduler = None => sched'[s].running
    BY Zenon DEF SetUp
  <2>3. scheduler # None => sched'[s].running = sched[s].running
    <3>1. scheduler # None => sched'[s].running = (FALSE \/ sched[s].running)
      BY DEF SetUp
    <3>2. sched[s].running \in BOOLEAN
      BY DEF IInv, Types, JobsOK, JobRec
    <3> QED BY <3>1, <3>2
  <2>4. ASSUME pc[s] = "unborn", NEW a \in Actors, At(a, "join") PROVE joined[a] # s
    <3>1. joined[a] \in Born
      BY <2>4 DEF IInv, BornInv
    <3> QED BY <2>4, <3>1 DEF Born
  <2> QED BY <2>1, <2>2, <2>3, <2>4
<1>13. \A a \in Actors : At(a, "join") => joined[a] \in Schedulers
  BY DEF IInv, BornInv, Born
<1>14. ShutInv'
  <2>1. \A a \in Actors : At(a, "join")' => ~sched'[joined[a]].running
    BY <1>11, <1>12, <1>13 DEF IInv, ShutInv
  <2>2. \A t \in Schedulers : Runs(t)' /\ ~sched'[t].running => WaitedFor(t)'
    BY <1>1, <1>11, <1>12 DEF IInv, ShutInv
  <2>3. ~sched'[s].running => \E a \in Actors : pc'[a] \in {"join", "forget"}
    BY <1>1, <1>12 DEF IInv, ShutInv, Before
  <2> QED BY <1>12, <2>1, <2>2, <2>3 DEF ShutInv
<1>15. LostInv'
  <2>1. Lost' \subseteq Lost
    BY <1>1, <1>11, <1>12 DEF Lost
  <2>2. Exiting' = Exiting
    BY <1>1 DEF Exiting
  <2>3. Fresh => Fresh'
    <3> SUFFICES ASSUME Fresh, NEW a \in Exiting
                 PROVE  /\ pc'[a] = pc[a]
                        /\ pc[a] \in {"join", "forget"} => ~sched'[s].running
                        /\ At(a, "join") => joined[a] = s
                        /\ a \in Schedulers => a = s \/ sched'[a].running
      BY <1>11, <1>12, <2>2 DEF Fresh, At, Exiting
    <3>1. a \in Actors /\ pc[a] \in Before /\ pc'[a] = pc[a]
      BY <1>1 DEF Exiting
    <3>2. pc[a] \in {"join", "forget"} => scheduler = s /\ ~sched[s].running
      BY <1>12 DEF Fresh
    <3>3. At(a, "join") => joined[a] = s
      BY <3>2 DEF Fresh, At
    <3>4. a \in Schedulers => a = s \/ sched'[a].running
      BY <1>12 DEF Fresh
    <3> QED BY <1>12, <3>1, <3>2, <3>3, <3>4
  <2> QED BY <2>1, <2>2, <2>3, FewerLost DEF IInv, Types, DatesOK
<1>16. EndInv'
  <2>1. Iterating' = Iterating
    BY <1>1 DEF Iterating
  <2>2. ASSUME NEW t \in Iterating, EndsLater(t) PROVE EndsLater(t)'
    <3>1. CASE Waits(Exec, t) \/ Waits(Main, t)
      BY <1>11, <3>1 DEF EndsLater
    <3>2. CASE ~(Waits(Exec, t) \/ Waits(Main, t))
      <4>1. /\ scheduler = t /\ sched[t].running
            /\ pc[Main] \notin {"join", "forget", "close", "done"}
            /\ \A u \in Schedulers : pc[u] \in Before => At(u, "join") /\ Runs(joined[u])
        BY <2>2, <3>2 DEF EndsLater
      <4>2. scheduler' = t /\ sched'[t].running
        BY <1>12, <4>1, Threads DEF Iterating
      <4>3. \A u \in Schedulers : pc'[u] \in Before => At(u, "join")' /\ Runs(joined[u])'
        BY <1>1, <1>11, <1>13, <4>1
      <4> QED BY <1>3, <4>1, <4>2, <4>3 DEF EndsLater, At
    <3> QED BY <3>1, <3>2
  <2> QED BY <2>1, <2>2, FewerRun DEF IInv, Types, DatesOK
<1> QED BY <1>4, <1>5, <1>8, <1>9, <1>10, <1>14, <1>15, <1>16

LEMMA ScheduleOK == ASSUME IInv, Schedule PROVE IInv'
<1> USE Threads
<1>1. PICK s \in Schedulers : SetUp(s, "loop")
  BY SetUpIs DEF Schedule
<1>2. /\ pc[Exec] = "schedule" /\ stopNow' = (phase # "open") /\ checker' = TRUE
      /\ UNCHANGED <<day, phase, call, lastDate, joined, stopped, done, traded, overlaps, crashes>>
  BY DEF Schedule, At, history
<1>3. /\ PlacesOK' /\ JobsOK' /\ CountInv' /\ StopInv' /\ BornInv'
      /\ ShutInv' /\ LostInv' /\ EndInv'
  BY <1>1, <1>2, SetUpOK
<1>4. /\ pc'[Exec] = "loop" /\ sched'[s].job /\ scheduler' = s /\ due' = due \cup {s}
      /\ \A t \in Schedulers : /\ At(t, "user")' \/ pc'[t] \in Walk => At(t, "user") \/ pc[t] \in Walk
                               /\ At(t, "sync") => At(t, "sync")'
  BY <1>1 DEF SetUp, At, Walk, Before
<1>5. ClockOK' /\ CallOK'
  BY <1>2, <1>4 DEF IInv, Types, ClockOK, CallOK
<1>6. stopNow' \in BOOLEAN /\ checker' \in BOOLEAN
  BY <1>2, Zenon
<1>7. DatesOK'
  BY <1>2, <1>6 DEF IInv, Types, DatesOK
<1>8. phase = "open" => ~stopNow'
  BY <1>2
<1>9. TradeInv'
  BY <1>2, <1>4, <1>8 DEF IInv, TradeInv, WillTrade, Closing, InCall, InLoop, At
<1> QED BY <1>3, <1>5, <1>7, <1>9 DEF IInv, Types

LEMMA RecreateOK == ASSUME IInv, Recreate PROVE IInv'
<1> USE Threads
<1>1. PICK s \in Schedulers : SetUp(s, "jobs")
  BY SetUpIs DEF Recreate
<1>2. /\ pc[Exec] = "loop"
      /\ UNCHANGED <<day, phase, call, lastDate, stopNow, joined, checker, stopped, done,
                     traded, overlaps, crashes>>
  BY DEF Recreate, At, history, session
<1>3. /\ PlacesOK' /\ JobsOK' /\ CountInv' /\ StopInv' /\ BornInv'
      /\ ShutInv' /\ LostInv' /\ EndInv'
  BY <1>1, <1>2, SetUpOK
<1>4. /\ pc'[Exec] = "jobs" /\ sched'[s].job /\ scheduler' = s /\ due' = due \cup {s}
      /\ \A t \in Schedulers : /\ At(t, "user")' \/ pc'[t] \in Walk => At(t, "user") \/ pc[t] \in Walk
                               /\ At(t, "sync") => At(t, "sync")'
  BY <1>1 DEF SetUp, At, Walk, Before
<1>5. ClockOK' /\ CallOK'
  BY <1>2, <1>4 DEF IInv, Types, ClockOK, CallOK
<1>7. DatesOK'
  BY <1>2 DEF IInv, Types, DatesOK
<1>9. TradeInv'
  BY <1>2, <1>4 DEF IInv, TradeInv, WillTrade, Closing, InCall, InLoop, At
<1> QED BY <1>3, <1>5, <1>7, <1>9 DEF IInv, Types

-----------------------------------------------------------------------------
(* The scheduler's thread.  An iteration begins only by a scheduler that    *)
(* runs, and only before the stop.                                          *)
JobMoves(s, p) ==
  /\ GoTo(s, p) /\ pc[s] \in {"idle", "sync", "user"} /\ p \in {"idle", "sync", "user"}
  /\ p # "idle" => Runs(s) \/ (~stopped /\ sched[s].running)
  /\ UNCHANGED <<day, phase, session, jobs, checker, stopped, done, overlaps, crashes>>

LEMMA JobMovesOK ==
  ASSUME IInv, NEW s \in Schedulers, NEW p, JobMoves(s, p)
  PROVE  /\ PlacesOK' /\ CallOK' /\ JobsOK' /\ CountInv' /\ StopInv' /\ BornInv'
         /\ ShutInv' /\ LostInv' /\ EndInv'
<1> USE Threads
<1>1. /\ pc'[s] = p /\ pc[s] \in {"idle", "sync", "user"} /\ p \in {"idle", "sync", "user"}
      /\ \A a \in Actors : a # s => pc'[a] = pc[a]
      /\ pc' \in [Actors -> Place]
  BY Moved DEF JobMoves, Place, JobPlaces, IInv, Types, PlacesOK
<1>2. /\ UNCHANGED <<day, phase, stopNow, checker, stopped, overlaps, crashes, call>>
      /\ UNCHANGED <<scheduler, sched, joined>>
  BY DEF JobMoves, session, jobs
<1>3. \A a \in Actors : /\ pc'[a] \in Before <=> pc[a] \in Before
                        /\ pc'[a] \in Before \/ pc[a] \in Before => pc'[a] = pc[a]
  BY <1>1 DEF Before
<1>4. pc'[Main] = pc[Main] /\ pc'[Exec] = pc[Exec]
  BY <1>1
<1>5. PlacesOK'
  BY <1>1, <1>4 DEF IInv, Types, PlacesOK, JobPlaces
<1>6. CallOK' /\ JobsOK'
  BY <1>2, <1>4 DEF IInv, Types, CallOK, JobsOK
<1>7. Born' = Born /\ Walkers' = Walkers
  BY <1>1, <1>3 DEF Born, Walkers
<1>8. CountInv'
  BY <1>2, <1>4, <1>7 DEF IInv, CountInv
<1>9. StopInv'
  BY <1>2, <1>4 DEF IInv, StopInv, At
<1>10. BornInv'
  BY <1>2, <1>3, <1>7 DEF IInv, BornInv, At, Before
<1>11. \A t \in Schedulers : Runs(t)' => Runs(t) \/ (~stopped /\ sched[t].running)
  BY <1>1 DEF Runs, JobMoves
<1>12. ShutInv' /\ LostInv' /\ EndInv'
  BY <1>2, <1>3, <1>4, <1>11, SamePlaces
<1> QED BY <1>5, <1>6, <1>8, <1>9, <1>10, <1>12

LEMMA FireOK == ASSUME IInv, NEW s \in Schedulers, Fire(s) PROVE IInv'
<1> USE Threads
<1> DEFINE p == IF stopped THEN "idle" ELSE "sync"
<1>1. /\ pc[s] = "idle" /\ GoTo(s, p) /\ sched[s].running /\ due' = due \ {s}
      /\ UNCHANGED <<day, phase, session, jobs, checker, stopped, done, traded, overlaps, crashes>>
  BY DEF Fire, At, Live, history
<1>2. JobMoves(s, p)
  BY <1>1 DEF JobMoves
<1>3. pc'[s] = p /\ \A a \in Actors : a # s => pc'[a] = pc[a]
  BY <1>1, Moved DEF IInv, Types, PlacesOK
<1>4. ClockOK' /\ DatesOK'
  BY <1>1 DEF IInv, Types, ClockOK, DatesOK, session
<1>5. TradeInv'
  <2>1. UNCHANGED <<call, stopNow, scheduler, sched>> /\ pc'[Exec] = pc[Exec]
    BY <1>1, <1>3 DEF session, jobs
  <2>2. p \in {"idle", "sync"} /\ (~stopped => p = "sync")
    OBVIOUS
  <2> HIDE DEF p
  <2>3. \A t \in Schedulers : At(t, "user")' \/ pc'[t] \in Walk => At(t, "user") \/ pc[t] \in Walk
    BY <1>3, <2>2 DEF At, Walk, Before
  <2>4. /\ Closing' <=> Closing
        /\ InLoop' <=> InLoop
        /\ At(Exec, "await_last")' <=> At(Exec, "await_last")
        /\ At(Exec, "jobs")' <=> At(Exec, "jobs")
    BY <2>1 DEF Closing, InCall, InLoop, At
  <2>5. ASSUME day > 1, ~stopped, traded # day PROVE WillTrade'
    <3>1. WillTrade
      BY <2>5 DEF IInv, TradeInv
    <3>2. ASSUME phase = "open", NEW t \in Schedulers, t \notin due' PROVE At(t, "sync")'
      <4>1. CASE t = s
        BY <4>1, <1>3, <2>2, <2>5 DEF At
      <4>2. CASE t # s
        BY <4>2, <1>1, <1>3, <3>1, <3>2 DEF WillTrade, At
      <4> QED BY <4>1, <4>2
    <3> QED BY <1>1, <2>1, <2>4, <3>1, <3>2 DEF WillTrade
  <2> QED BY <1>1, <2>3, <2>4, <2>5 DEF IInv, TradeInv
<1> HIDE DEF p
<1> QED BY <1>2, <1>4, <1>5, JobMovesOK DEF IInv, Types

LEMMA IterateOK == ASSUME IInv, NEW s \in Schedulers, Iterate(s) PROVE IInv'
<1> USE Threads
<1> DEFINE p == IF IsMarketOpen THEN "user" ELSE "idle"
<1>1. /\ pc[s] = "sync" /\ GoTo(s, p)
      /\ traded' = IF IsMarketOpen THEN day ELSE traded
      /\ UNCHANGED <<day, phase, due, session, jobs, checker, stopped, done, overlaps, crashes>>
  BY DEF Iterate, At, clock
<1>2. JobMoves(s, p)
  BY <1>1 DEF JobMoves, Runs
<1>3. pc'[s] = p /\ \A a \in Actors : a # s => pc'[a] = pc[a]
  BY <1>1, Moved DEF IInv, Types, PlacesOK
<1>4. ClockOK' /\ DatesOK'
  BY <1>1 DEF IInv, Types, ClockOK, DatesOK, session
<1>5. TradeInv'
  <2>1. UNCHANGED <<call, stopNow, scheduler, sched>> /\ pc'[Exec] = pc[Exec]
    BY <1>1, <1>3 DEF session, jobs
  <2>2. CASE IsMarketOpen
    <3>1. traded' = day /\ day' = day /\ phase' = phase
      BY <1>1, <2>2
    <3>2. Closing' <=> Closing
      BY <2>1 DEF Closing, InCall, At
    <3> QED BY <3>1, <3>2 DEF IInv, TradeInv
  <2>3. CASE ~IsMarketOpen
    <3>1. pc'[s] = "idle" /\ phase # "open" /\ traded' = traded
      BY <1>1, <1>3, <2>3 DEF IsMarketOpen
    <3>2. \A t \in Schedulers : At(t, "user")' \/ pc'[t] \in Walk => At(t, "user") \/ pc[t] \in Walk
      BY <1>3, <3>1 DEF At, Walk, Before
    <3> QED BY <1>1, <2>1, <3>1, <3>2 DEF IInv, TradeInv, WillTrade, Closing, InCall, At
  <2> QED BY <2>2, <2>3
<1> HIDE DEF p
<1> QED BY <1>2, <1>4, <1>5, JobMovesOK DEF IInv, Types

LEMMA IterationEndsOK == ASSUME IInv, NEW s \in Schedulers, IterationEnds(s) PROVE IInv'
<1> USE Threads
<1>1. /\ pc[s] = "user" /\ GoTo(s, "idle")
      /\ UNCHANGED <<day, phase, due, session, jobs, checker, stopped, done, traded, overlaps,
                     crashes>>
  BY DEF IterationEnds, At, clock, history
<1>2. JobMoves(s, "idle")
  BY <1>1 DEF JobMoves
<1>3. pc'[s] = "idle" /\ \A a \in Actors : a # s => pc'[a] = pc[a]
  BY <1>1, Moved DEF IInv, Types, PlacesOK
<1>4. ClockOK' /\ DatesOK'
  BY <1>1 DEF IInv, Types, ClockOK, DatesOK, session
<1>5. TradeInv'
  <2>1. UNCHANGED <<call, stopNow, scheduler, sched>> /\ pc'[Exec] = pc[Exec]
    BY <1>1, <1>3 DEF session, jobs
  <2>2. traded = day
    BY <1>1 DEF IInv, TradeInv, At
  <2> QED BY <1>1, <2>1, <2>2 DEF IInv, TradeInv, Closing, InCall, At
<1> QED BY <1>2, <1>4, <1>5, JobMovesOK DEF IInv, Types

-----------------------------------------------------------------------------
(* gracefully_exit.                                                         *)
LEMMA AfterIs ==
  /\ After(Exec) = "session" /\ After(Main) = "done"
  /\ \A s \in Schedulers : After(s) = "idle"
<1>1. After(Exec) = "session"
  BY Threads, Zenon DEF After
<1>2. After(Main) = "done"
  BY Threads, Zenon DEF After
<1>3. ASSUME NEW s \in Schedulers PROVE After(s) = "idle"
  BY Threads, Zenon DEF After
<1> QED BY <1>1, <1>2, <1>3

(* What all its steps have in common: a thread goes on, or returns to where *)
(* it was called; the schedulers only lose what they have.                  *)
Walks(a, p) ==
  /\ GoTo(a, p) /\ pc[a] \in Walk
  /\ \/ p \in Walk /\ pc[a] # "close"
     \/ a = Exec /\ p = "session"
     \/ a = Main /\ p \in {"done", "failed"}
     \/ a \in Schedulers /\ p = "idle"
  /\ UNCHANGED <<day, phase, due, session, stopped, done, traded, overlaps>>
  /\ checker' \in BOOLEAN /\ crashes' \in {crashes, crashes + 1} /\ crashes' <= MaxCrashes
  /\ JobsOK'
  /\ scheduler' \in {scheduler, None}
  /\ p \in Walk \ {"close"} \/ pc[a] = "close" => scheduler' = scheduler
  /\ \A s \in Schedulers : /\ sched'[s].running => sched[s].running
                           /\ sched'[s].job => sched[s].job
  /\ \A b \in Actors : b # a => joined'[b] = joined[b]
  /\ p = "join" => scheduler # None /\ joined'[a] = scheduler

LEMMA WalksTo ==
  ASSUME IInv, NEW a \in Actors, NEW p, Walks(a, p)
  PROVE  /\ pc'[a] = p /\ pc[a] \in Walk
         /\ p \notin {"unborn", "sync", "user", "due", "in", "await_last", "await_close",
                      "loop", "jobs", "ended"}
         /\ \A b \in Actors : b # a => pc'[b] = pc[b]
         /\ \A t \in Schedulers : /\ Runs(t)' <=> Runs(t)
                                  /\ pc'[t] = "unborn" <=> pc[t] = "unborn"
         /\ \A b \in Actors : pc'[b] \in Walk => pc[b] \in Walk
<1> USE Threads
<1>1. /\ pc'[a] = p /\ pc[a] \in Walk
      /\ \A b \in Actors : b # a => pc'[b] = pc[b]
  BY Moved DEF Walks, IInv, Types, PlacesOK
<1>2. p \notin {"unborn", "sync", "user", "due", "in", "await_last", "await_close",
                "loop", "jobs", "ended"}
  BY DEF Walks, Walk, Before
<1> QED BY <1>1, <1>2 DEF Runs, Walk, Before

LEMMA WalksOK ==
  ASSUME IInv, NEW a \in Actors, NEW p, Walks(a, p)
  PROVE  /\ Types' /\ CountInv' /\ StopInv' /\ BornInv' /\ TradeInv'
<1> USE Threads
<1>1. /\ pc'[a] = p /\ pc[a] \in Walk
      /\ p \notin {"unborn", "sync", "user", "due", "in", "await_last", "await_close",
                   "loop", "jobs", "ended"}
      /\ \A b \in Actors : b # a => pc'[b] = pc[b]
      /\ \A t \in Schedulers : /\ Runs(t)' <=> Runs(t)
                               /\ pc'[t] = "unborn" <=> pc[t] = "unborn"
      /\ \A b \in Actors : pc'[b] \in Walk => pc[b] \in Walk
  BY WalksTo
<1>2. /\ UNCHANGED <<day, phase, due, call, lastDate, stopNow, stopped, done, traded,
                     overlaps>>
      /\ JobsOK' /\ scheduler' \in {scheduler, None}
      /\ checker' \in BOOLEAN /\ crashes' \in {crashes, crashes + 1} /\ crashes' <= MaxCrashes
  BY DEF Walks, session
<1>3. PlacesOK'
  <2>1. p \in Place
    BY DEF Walks, Place, Walk, ExecPlaces, MainPlaces, JobPlaces
  <2>2. pc' \in [Actors -> Place]
    BY <2>1, Moved DEF Walks, IInv, Types, PlacesOK
  <2> QED BY <1>1, <2>2 DEF IInv, Types, PlacesOK, Walks, MainPlaces, ExecPlaces, JobPlaces
<1>4. ClockOK' /\ CallOK'
  <2>1. pc'[Exec] \in {"due", "in"} => pc[Exec] \in {"due", "in"}
    BY <1>1
  <2> QED BY <1>2, <2>1 DEF IInv, Types, ClockOK, CallOK
<1>5. DatesOK'
  BY <1>2, LifecycleAssumption DEF IInv, Types, DatesOK
<1>6. CountInv'
  <2>1. Born' = Born
    BY <1>1 DEF Born
  <2>2. pc[Main] = "idle" <=> pc'[Main] = "idle"
    BY <1>1 DEF Walks, Walk, Before
  <2>3. IsFiniteSet(Walkers) /\ Cardinality(Walkers) \in Nat /\ Cardinality(Born) \in Nat
    BY FiniteActors DEF Walkers, Born
  <2>4. CASE p \in Before
    <3>1. pc[a] \in Before /\ scheduler' = scheduler
      BY <2>4 DEF Walks, Walk, Before
    <3>2. Walkers' = Walkers
      BY <1>1, <2>4, <3>1 DEF Walkers
    <3> QED BY <1>2, <2>1, <2>2, <2>3, <3>1, <3>2 DEF IInv, CountInv, Types, DatesOK
  <2>5. CASE p \notin Before /\ pc[a] \in Before
    <3>1. a \in Walkers /\ Walkers' = Walkers \ {a}
      BY <1>1, <2>5 DEF Walkers
    <3>2. Cardinality(Walkers') = Cardinality(Walkers) - 1
      BY <2>3, <3>1, FS_RemoveElement
    <3> QED BY <1>2, <2>1, <2>2, <2>3, <3>2 DEF IInv, CountInv, Types, DatesOK
  <2>6. CASE p \notin Before /\ pc[a] \notin Before
    <3>1. Walkers' = Walkers
      BY <1>1, <2>6 DEF Walkers
    <3>2. scheduler' = scheduler
      BY <1>1, <2>6 DEF Walks, Walk
    <3> QED BY <1>2, <2>1, <2>2, <2>3, <3>1, <3>2 DEF IInv, CountInv, Types, DatesOK
  <2> QED BY <2>4, <2>5, <2>6
<1>7. StopInv'
  <2>1. pc[Main] = "idle" <=> pc'[Main] = "idle"
    BY <1>1 DEF Walks, Walk, Before
  <2> QED BY <1>1, <1>2, <2>1 DEF IInv, StopInv, At
<1>8. BornInv'
  <2>1. Born' = Born
    BY <1>1 DEF Born
  <2>2. \A b \in Actors : At(b, "join")' => joined'[b] \in Born
    BY <1>1 DEF Walks, IInv, BornInv, At
  <2> QED BY <1>2, <2>1, <2>2 DEF Walks, IInv, BornInv
<1>10. TradeInv'
  <2>1. Closing' => Closing
    BY <1>1, <1>2 DEF Closing, InCall, At
  <2>2. \A s \in Schedulers : At(s, "user")' \/ pc'[s] \in Walk => At(s, "user") \/ pc[s] \in Walk
    BY <1>1 DEF At
  <2>3. ASSUME day > 1, ~stopped, traded # day PROVE WillTrade'
    <3>1. a \notin Schedulers
      BY <1>1, <2>3 DEF IInv, TradeInv
    <3>2. a = Exec
      BY <1>1, <2>3, <3>1 DEF IInv, StopInv, At, Walk, Before, Actors
    <3>3. ~InLoop'
      BY <1>1, <3>2 DEF InLoop, InCall
    <3>4. \A s \in Schedulers : pc'[s] = pc[s]
      BY <1>1, <3>2
    <3> QED BY <1>1, <1>2, <2>3, <3>2, <3>3, <3>4 DEF IInv, TradeInv, WillTrade, At
  <2> QED BY <1>2, <2>1, <2>2, <2>3 DEF IInv, TradeInv
<1> QED BY <1>2, <1>3, <1>4, <1>5, <1>6, <1>7, <1>8, <1>10 DEF Types

(* A step that leaves the schedulers alone, and does not begin or end the   *)
(* wait for one, or forget it.                                              *)
LEMMA WalksQuietly ==
  ASSUME IInv, NEW a \in Actors, NEW p, Walks(a, p),
         UNCHANGED <<scheduler, joined>>,
         \A s \in Schedulers : sched'[s].running = sched[s].running,
         pc[a] \notin {"join", "forget"}, p # "join",
         p = "forget" => scheduler = None \/ ~sched[scheduler].running,
         p = "forget" => pc[a] \in {"remove", "shutdown"} \/ scheduler # None,
         p \in {"remove", "shutdown"} => scheduler # None,
         a = Main => p \notin {"close", "done"} \/ scheduler = None \/ At(a, "close")
  PROVE  ShutInv' /\ LostInv' /\ EndInv'
<1> USE Threads
<1>1. /\ pc'[a] = p /\ pc[a] \in Walk
      /\ \A b \in Actors : b # a => pc'[b] = pc[b]
      /\ \A t \in Schedulers : Runs(t)' <=> Runs(t)
      /\ stopped' = stopped /\ overlaps' = overlaps
  BY WalksTo DEF Walks
<1>2. \A b \in Actors : /\ At(b, "join")' <=> At(b, "join")
                        /\ At(b, "forget") => At(b, "forget")'
                        /\ \A s : Waits(b, s)' <=> Waits(b, s)
  BY <1>1 DEF At, Waits
<1>3. \A s : WaitedFor(s)' <=> WaitedFor(s)
  BY <1>2 DEF WaitedFor
<1>4. p \in Before => pc[a] \in Before
  BY <1>1 DEF Walks, Walk, Before
<1>5. \A b \in Actors : At(b, "join") => joined[b] \in Schedulers
  BY DEF IInv, BornInv, Born
<1>6. scheduler # None => scheduler \in Schedulers
  BY DEF IInv, Types, JobsOK
<1>7. ShutInv'
  <2>1. \A b \in Actors : At(b, "join")' => ~sched'[joined[b]].running
    BY <1>2, <1>5 DEF IInv, ShutInv
  <2>2. \A s \in Schedulers : Runs(s)' /\ ~sched'[s].running => WaitedFor(s)'
    BY <1>1, <1>3 DEF IInv, ShutInv
  <2>3. scheduler # None /\ ~sched'[scheduler].running =>
          \E b \in Actors : pc'[b] \in {"join", "forget"}
    BY <1>2, <1>6 DEF IInv, ShutInv, At
  <2> QED BY <2>1, <2>2, <2>3 DEF ShutInv
<1>8. LostInv'
  <2>1. Lost' \subseteq Lost
    BY <1>1, <1>3 DEF Lost
  <2>2. Exiting' \subseteq Exiting
    BY <1>1, <1>4 DEF Exiting
  <2>3. ASSUME Exiting' = Exiting, Fresh PROVE Fresh'
    <3> SUFFICES ASSUME NEW b \in Exiting
                 PROVE  /\ pc'[b] \in {"remove", "shutdown", "join", "forget"} => scheduler # None
                        /\ pc'[b] \in {"join", "forget"} => ~sched'[scheduler].running
                        /\ At(b, "join")' => joined[b] = scheduler
                        /\ b \in Schedulers => b = scheduler \/ sched'[b].running
      BY <2>3 DEF Fresh
    <3>1. b \in Actors
      BY DEF Exiting
    <3>2. /\ At(b, "join")' => joined[b] = scheduler
          /\ b \in Schedulers => b = scheduler \/ sched'[b].running
      BY <1>2, <2>3, <3>1 DEF Fresh
    <3>3. pc'[b] \in {"remove", "shutdown", "join", "forget"} => scheduler # None
      BY <1>1, <2>3, <3>1 DEF Fresh
    <3>4. pc'[b] \in {"join", "forget"} => ~sched[scheduler].running
      BY <1>1, <2>3, <3>1, <3>3 DEF Fresh
    <3> QED BY <1>6, <3>2, <3>3, <3>4
  <2> QED BY <1>1, <2>1, <2>2, <2>3, FewerLost DEF IInv, Types, DatesOK
<1>9. EndInv'
  <2>1. Iterating' = Iterating
    BY <1>1 DEF Iterating
  <2>2. ASSUME NEW s \in Iterating, EndsLater(s) PROVE EndsLater(s)'
    <3>1. CASE Waits(Exec, s) \/ Waits(Main, s)
      BY <1>2, <3>1 DEF EndsLater
    <3>2. CASE ~(Waits(Exec, s) \/ Waits(Main, s))
      <4>1. /\ scheduler = s /\ sched[s].running /\ s \in Schedulers
            /\ pc[Main] \notin {"join", "forget", "close", "done"}
            /\ pc[Exec] # "forget" /\ (At(Exec, "join") => Runs(joined[Exec]))
            /\ \A t \in Schedulers : pc[t] \in Before => At(t, "join") /\ Runs(joined[t])
        BY <2>2, <3>2 DEF EndsLater, Iterating
      <4>2. p # "forget"
        BY <4>1
      <4>3. pc'[Main] \notin {"join", "forget", "close", "done"}
        BY <1>1, <4>1, <4>2 DEF At
      <4>4. pc'[Exec] # "forget" /\ (At(Exec, "join")' => Runs(joined[Exec])')
        BY <1>1, <1>2, <1>5, <4>1, <4>2
      <4>5. \A t \in Schedulers : pc'[t] \in Before => At(t, "join")' /\ Runs(joined[t])'
        BY <1>1, <1>2, <1>4, <1>5, <4>1
      <4> QED BY <4>1, <4>3, <4>4, <4>5 DEF EndsLater
    <3> QED BY <3>1, <3>2
  <2> QED BY <1>1, <2>1, <2>2, FewerRun DEF IInv, Types, DatesOK
<1> QED BY <1>7, <1>8, <1>9

LEMMA HandledOK == ASSUME IInv, NEW a \in Actors, Handled(a) PROVE IInv'
<1> USE Threads
<1>1. /\ pc[a] = "handler" /\ GoTo(a, "exit")
      /\ UNCHANGED <<day, phase, due, session, stopped, done, traded, overlaps, checker, crashes,
                     scheduler, sched, joined>>
  BY DEF Handled, At, clock, jobs, history
<1>2. Walks(a, "exit")
  BY <1>1 DEF Walks, Walk, Before, IInv, Types, JobsOK, DatesOK
<1>3. ShutInv' /\ LostInv' /\ EndInv'
  BY <1>1, <1>2, WalksQuietly
<1> QED BY <1>2, <1>3, WalksOK DEF IInv

LEMMA HandlerRaisesOK == ASSUME IInv, NEW a \in Actors, HandlerRaises(a) PROVE IInv'
<1> USE Threads
<1> DEFINE p == IF a = Main THEN "failed" ELSE After(a)
<1>1. /\ pc[a] = "handler" /\ GoTo(a, p) /\ crashes' = crashes + 1 /\ crashes < MaxCrashes
      /\ UNCHANGED <<day, phase, due, session, stopped, done, traded, overlaps, checker,
                     scheduler, sched, joined>>
  BY DEF HandlerRaises, At, clock, jobs, history
<1>2. \/ a = Exec /\ p = "session"
      \/ a = Main /\ p = "failed"
      \/ a \in Schedulers /\ p = "idle"
  BY AfterIs DEF Actors
<1> HIDE DEF p
<1>3. Walks(a, p)
  BY <1>1, <1>2, LifecycleAssumption DEF Walks, Walk, Before, IInv, Types, JobsOK, DatesOK
<1>4. ShutInv' /\ LostInv' /\ EndInv'
  BY <1>1, <1>2, <1>3, WalksQuietly
<1> QED BY <1>3, <1>4, WalksOK DEF IInv

LEMMA ExitOK == ASSUME IInv, NEW a \in Actors, Exit(a) PROVE IInv'
<1> USE Threads
<1>1. PICK p \in {"close", "remove", "forget"} :
         /\ GoTo(a, p)
         /\ p = "close" => scheduler = None
         /\ p = "remove" => scheduler # None
         /\ p = "forget" => scheduler # None /\ ~sched[scheduler].running
  BY ZenonT(60) DEF Exit
<1>2. /\ pc[a] = "exit"
      /\ UNCHANGED <<day, phase, due, session, stopped, done, traded, overlaps, checker, crashes,
                     scheduler, sched, joined>>
  BY DEF Exit, At, clock, jobs, history
<1>3. Walks(a, p)
  BY <1>1, <1>2 DEF Walks, Walk, Before, IInv, Types, JobsOK, DatesOK
<1>4. ShutInv' /\ LostInv' /\ EndInv'
  BY <1>1, <1>2, <1>3, WalksQuietly
<1> QED BY <1>3, <1>4, WalksOK DEF IInv

LEMMA RemoveJobsOK == ASSUME IInv, NEW a \in Actors, RemoveJobs(a) PROVE IInv'
<1> USE Threads
<1> DEFINE p == IF scheduler = None THEN "forget" ELSE "shutdown"
<1>1. /\ pc[a] = "remove" /\ GoTo(a, p)
      /\ UNCHANGED <<day, phase, due, session, stopped, done, traded, overlaps, checker, crashes,
                     scheduler, joined>>
  BY DEF RemoveJobs, At, clock, history
<1>2. /\ p \in {"forget", "shutdown"} /\ (p = "forget" => scheduler = None)
      /\ p = "shutdown" => scheduler # None
  OBVIOUS
<1> HIDE DEF p
<1>3. /\ sched' \in [Schedulers -> JobRec]
      /\ \A s \in Schedulers : /\ sched'[s].running = sched[s].running
                               /\ sched'[s].job => sched[s].job
  <2>1. CASE scheduler = None
    BY <2>1 DEF RemoveJobs, IInv, Types, JobsOK
  <2>2. CASE scheduler # None
    <3>1. scheduler \in Schedulers /\ sched \in [Schedulers -> JobRec]
      BY <2>2 DEF IInv, Types, JobsOK
    <3>2. sched' = [sched EXCEPT ![scheduler].job = FALSE]
      BY <2>2 DEF RemoveJobs
    <3>3. \A s \in Schedulers \ {scheduler} : sched'[s] = sched[s]
      BY <3>1, <3>2
    <3>4. /\ sched'[scheduler] = [sched[scheduler] EXCEPT !.job = FALSE]
          /\ sched' \in [Schedulers -> JobRec]
      BY <3>1, <3>2 DEF JobRec
    <3>5. /\ sched'[scheduler].running = sched[scheduler].running
          /\ ~sched'[scheduler].job
      BY <3>1, <3>4 DEF JobRec
    <3> QED BY <3>3, <3>4, <3>5
  <2> QED BY <2>1, <2>2
<1>4. Walks(a, p)
  BY <1>1, <1>2, <1>3 DEF Walks, Walk, Before, IInv, Types, JobsOK, DatesOK
<1>6. ShutInv' /\ LostInv' /\ EndInv'
  BY <1>1, <1>2, <1>3, <1>4, WalksQuietly
<1> QED BY <1>4, <1>6, WalksOK DEF IInv

LEMMA CloseOK == ASSUME IInv, NEW a \in Actors, Close(a) PROVE IInv'
<1> USE Threads
<1> DEFINE p == After(a)
<1>1. /\ pc[a] = "close" /\ GoTo(a, p) /\ checker' = FALSE
      /\ UNCHANGED <<day, phase, due, session, stopped, done, traded, overlaps, crashes,
                     scheduler, sched, joined>>
  BY DEF Close, At, clock, jobs, history
<1>2. \/ a = Exec /\ p = "session"
      \/ a = Main /\ p = "done"
      \/ a \in Schedulers /\ p = "idle"
  BY AfterIs DEF Actors
<1> HIDE DEF p
<1>3. checker' \in BOOLEAN
  BY <1>1, Zenon
<1>4. Walks(a, p)
  BY <1>1, <1>2, <1>3 DEF Walks, Walk, Before, IInv, Types, JobsOK, DatesOK
<1>5. ShutInv' /\ LostInv' /\ EndInv'
  BY <1>1, <1>2, <1>4, WalksQuietly DEF At
<1> QED BY <1>4, <1>5, WalksOK DEF IInv

(* Whoever shuts a scheduler down waits for its iteration.                  *)
LEMMA ShutdownOK == ASSUME IInv, NEW a \in Actors, Shutdown(a) PROVE IInv'
<1> USE Threads
<1>1. /\ pc[a] = "shutdown"
      /\ UNCHANGED <<day, phase, due, session, stopped, done, traded, overlaps, checker,
                     crashes, scheduler>>
  BY DEF Shutdown, At, clock, history
<1>2. CASE scheduler = None \/ ~sched[scheduler].running
  <2>1. GoTo(a, "forget") /\ UNCHANGED <<sched, joined>>
    BY <1>2 DEF Shutdown
  <2>2. Walks(a, "forget")
    BY <1>1, <2>1 DEF Walks, Walk, Before, IInv, Types, JobsOK, DatesOK
  <2>3. ShutInv' /\ LostInv' /\ EndInv'
    BY <1>1, <1>2, <2>1, <2>2, WalksQuietly
  <2> QED BY <2>2, <2>3, WalksOK DEF IInv
<1>3. CASE scheduler # None /\ sched[scheduler].running
  <2> DEFINE p == IF a = scheduler THEN "forget" ELSE "join"
  <2>1. /\ sched' = [sched EXCEPT ![scheduler].running = FALSE]
        /\ GoTo(a, p)
        /\ joined' = [joined EXCEPT ![a] = scheduler]
    BY <1>3 DEF Shutdown
  <2>2. p \in {"forget", "join"} /\ (p = "forget" <=> a = scheduler)
    OBVIOUS
  <2> HIDE DEF p
  <2>3. scheduler \in Schedulers /\ sched \in [Schedulers -> JobRec]
    BY <1>3 DEF IInv, Types, JobsOK
  <2>4. /\ sched' \in [Schedulers -> JobRec]
        /\ ~sched'[scheduler].running
        /\ \A s \in Schedulers : /\ sched'[s].running => sched[s].running
                                 /\ sched'[s].job => sched[s].job
                                 /\ s # scheduler => sched'[s] = sched[s]
    BY <2>1, <2>3 DEF JobRec
  <2>5. /\ joined' \in [Actors -> Schedulers \cup {None}] /\ joined'[a] = scheduler
        /\ \A b \in Actors : b # a => joined'[b] = joined[b]
    BY <2>1, <2>3 DEF IInv, Types, JobsOK
  <2>6. Walks(a, p)
    BY <1>1, <1>3, <2>1, <2>2, <2>3, <2>4, <2>5
       DEF Walks, Walk, Before, IInv, Types, JobsOK, DatesOK
  <2>7. /\ pc'[a] = p
        /\ \A b \in Actors : b # a => pc'[b] = pc[b]
        /\ \A t \in Schedulers : Runs(t)' <=> Runs(t)
    BY <2>6, WalksTo
  <2>8. /\ \A b \in Actors : \A s : Waits(b, s) => Waits(b, s)'
        /\ \A s : WaitedFor(s) => WaitedFor(s)'
        /\ a # scheduler => Waits(a, scheduler)'
    BY <1>1, <2>2, <2>5, <2>7 DEF Waits, WaitedFor, At
  <2>9. \A b \in Actors : At(b, "join") => joined[b] \in Schedulers
    BY DEF IInv, BornInv, Born
  <2>10. ShutInv'
    <3>1. \A b \in Actors : At(b, "join")' => ~sched'[joined'[b]].running
      BY <2>4, <2>5, <2>7, <2>9 DEF IInv, ShutInv, At
    <3>2. ASSUME NEW s \in Schedulers, Runs(s), ~sched'[s].running PROVE WaitedFor(s)'
      <4>1. CASE s = scheduler
        <5>1. a # scheduler
          BY <1>1, <3>2, <4>1 DEF Runs
        <5> QED BY <1>1, <2>8, <4>1, <5>1 DEF WaitedFor
      <4>2. CASE s # scheduler
        BY <2>4, <2>8, <3>2, <4>2 DEF IInv, ShutInv
      <4> QED BY <4>1, <4>2
    <3>3. pc'[a] \in {"join", "forget"}
      BY <2>2, <2>7
    <3> QED BY <2>7, <3>1, <3>2, <3>3 DEF ShutInv
  <2>11. LostInv'
    <3>1. Lost' \subseteq Lost
      BY <1>1, <2>4, <2>7, <2>8 DEF Lost
    <3>2. Exiting' = Exiting
      BY <1>1, <2>2, <2>7 DEF Exiting, Before
    <3>3. ASSUME Fresh PROVE Fresh'
      <4>1. ASSUME NEW b \in Exiting
            PROVE  /\ At(b, "join")' => joined'[b] = scheduler
                   /\ b \in Schedulers => b = scheduler \/ sched'[b].running
        <5>1. b \in Actors
          BY DEF Exiting
        <5> QED BY <2>4, <2>5, <2>7, <3>3, <5>1 DEF Fresh, At
      <4> QED BY <1>1, <1>3, <2>4, <3>2, <4>1 DEF Fresh
    <3> QED BY <1>1, <3>1, <3>2, <3>3, FewerLost DEF IInv, Types, DatesOK
  <2>12. EndInv'
    <3>1. Iterating' = Iterating
      BY <2>7 DEF Iterating
    <3>2. ASSUME NEW s \in Iterating, EndsLater(s) PROVE EndsLater(s)'
      <4>1. CASE Waits(Exec, s) \/ Waits(Main, s)
        BY <2>8, <4>1 DEF EndsLater
      <4>2. CASE ~(Waits(Exec, s) \/ Waits(Main, s))
        <5>1. /\ scheduler = s
              /\ \A t \in Schedulers : pc[t] \in Before => At(t, "join")
          BY <3>2, <4>2 DEF EndsLater
        <5>2. a \in {Exec, Main}
          BY <1>1, <5>1 DEF At, Before, Actors
        <5>3. Waits(a, s)'
          BY <1>1, <2>3, <2>8, <5>1, <5>2
        <5> QED BY <5>2, <5>3 DEF EndsLater
      <4> QED BY <4>1, <4>2
    <3> QED BY <1>1, <3>1, <3>2, FewerRun DEF IInv, Types, DatesOK
  <2> QED BY <2>6, <2>10, <2>11, <2>12, WalksOK DEF IInv
<1> QED BY <1>2, <1>3

LEMMA JoinOK == ASSUME IInv, NEW a \in Actors, Join(a) PROVE IInv'
<1> USE Threads
<1>1. /\ pc[a] = "join" /\ GoTo(a, "forget") /\ pc[joined[a]] = "idle"
      /\ UNCHANGED <<day, phase, due, session, stopped, done, traded, overlaps, checker,
                     crashes, scheduler, sched, joined>>
  BY DEF Join, At, clock, jobs, history
<1>2. Walks(a, "forget")
  BY <1>1 DEF Walks, Walk, Before, IInv, Types, JobsOK, DatesOK
<1>3. /\ pc'[a] = "forget"
      /\ \A b \in Actors : b # a => pc'[b] = pc[b]
      /\ \A t \in Schedulers : Runs(t)' <=> Runs(t)
  BY <1>2, WalksTo
<1>4. joined[a] \in Schedulers /\ ~Runs(joined[a]) /\ ~sched[joined[a]].running
  BY <1>1 DEF IInv, BornInv, Born, ShutInv, At, Runs
<1>5. \A b \in Actors : \A s : /\ Waits(b, s)' => Waits(b, s)
                              /\ Waits(b, s) /\ s # joined[a] => Waits(b, s)'
  BY <1>1, <1>3 DEF Waits, At
<1>6. \A s : WaitedFor(s) /\ s # joined[a] => WaitedFor(s)'
  BY <1>5 DEF WaitedFor
<1>7. ShutInv'
  <2>1. \A b \in Actors : At(b, "join")' => At(b, "join")
    BY <1>1, <1>3 DEF At
  <2>2. \A s \in Schedulers : Runs(s)' /\ ~sched[s].running => WaitedFor(s)'
    BY <1>3, <1>4, <1>6 DEF IInv, ShutInv
  <2> QED BY <1>1, <1>3, <2>1, <2>2 DEF IInv, ShutInv
<1>8. LostInv'
  <2>1. Lost' \subseteq Lost
    BY <1>1, <1>3, <1>4, <1>6 DEF Lost
  <2>2. Exiting' = Exiting
    BY <1>1, <1>3 DEF Exiting, Before
  <2>3. Fresh => Fresh'
    <3>1. \A b \in Exiting : b \in Actors /\ (pc'[b] = pc[b] \/ (b = a /\ pc'[b] = "forget"))
      BY <1>3 DEF Exiting
    <3>2. \A b \in Exiting : At(b, "join")' => At(b, "join")
      BY <3>1 DEF At
    <3> QED BY <1>1, <2>2, <3>1, <3>2 DEF Fresh
  <2> QED BY <1>1, <2>1, <2>2, <2>3, FewerLost DEF IInv, Types, DatesOK
<1>9. EndInv'
  <2>1. Iterating' = Iterating
    BY <1>3 DEF Iterating
  <2>2. ASSUME NEW s \in Iterating, EndsLater(s) PROVE EndsLater(s)'
    <3>1. s # joined[a]
      BY <1>4 DEF Iterating
    <3>2. CASE Waits(Exec, s) \/ Waits(Main, s)
      BY <1>5, <3>1, <3>2 DEF EndsLater
    <3>3. CASE ~(Waits(Exec, s) \/ Waits(Main, s))
      <4>1. /\ pc[Main] # "join"
            /\ At(Exec, "join") => Runs(joined[Exec])
            /\ \A t \in Schedulers : pc[t] \in Before => Runs(joined[t])
        BY <2>2, <3>3 DEF EndsLater
      <4> QED BY <1>1, <1>4, <4>1 DEF At, Before, Actors
    <3> QED BY <3>2, <3>3
  <2> QED BY <1>1, <2>1, <2>2, FewerRun DEF IInv, Types, DatesOK
<1> QED BY <1>2, <1>7, <1>8, <1>9, WalksOK DEF IInv

(* Only a scheduler that is forgotten is lost, and an exit ends with it.    *)
LEMMA ForgetOK == ASSUME IInv, NEW a \in Actors, Forget(a) PROVE IInv'
<1> USE Threads
<1>1. /\ pc[a] = "forget" /\ GoTo(a, "close") /\ scheduler' = None
      /\ UNCHANGED <<day, phase, due, session, stopped, done, traded, overlaps, checker,
                     crashes, sched, joined>>
  BY DEF Forget, At, clock, history
<1>2. Walks(a, "close")
  BY <1>1 DEF Walks, Walk, Before, IInv, Types, JobsOK, DatesOK
<1>3. /\ pc'[a] = "close"
      /\ \A b \in Actors : b # a => pc'[b] = pc[b]
      /\ \A t \in Schedulers : Runs(t)' <=> Runs(t)
  BY <1>2, WalksTo
<1>4. \A b \in Actors : /\ At(b, "join")' <=> At(b, "join")
                        /\ \A s : Waits(b, s)' <=> Waits(b, s)
  BY <1>1, <1>3 DEF At, Waits
<1>5. \A s : WaitedFor(s)' <=> WaitedFor(s)
  BY <1>4 DEF WaitedFor
<1>6. ShutInv'
  BY <1>1, <1>3, <1>4, <1>5 DEF IInv, ShutInv
<1>7. LostInv'
  <2> SUFFICES ASSUME ~stopped PROVE Debt' <= overlaps
    BY <1>1 DEF LostInv
  <2>1. a # Main
    BY <1>1 DEF IInv, StopInv, At
  <2>2. a \in Exiting /\ Exiting' = Exiting \ {a}
    BY <1>1, <1>3, <2>1 DEF Exiting, Before
  <2>3. /\ \A S \in {Lost, Exiting, Lost', Exiting'} : IsFiniteSet(S) /\ Cardinality(S) \in Nat
        /\ overlaps \in Nat
    <3>1. Lost \in SUBSET Actors /\ Exiting \in SUBSET Actors
      BY CountedSets
    <3>2. Lost' \in SUBSET Actors /\ Exiting' \in SUBSET Actors
      BY <2>2, <3>1 DEF Lost
    <3> QED BY <3>1, <3>2, FiniteActors DEF IInv, Types, DatesOK
  <2>4. Cardinality(Exiting') = Cardinality(Exiting) - 1
    BY <2>2, <2>3, FS_RemoveElement
  <2>5. Lost' \subseteq Lost \cup {scheduler}
    BY <1>1, <1>3, <1>5 DEF Lost
  <2>6. CASE Debt <= overlaps
    <3>1. /\ IsFiniteSet(Lost \cup {scheduler})
          /\ Cardinality(Lost \cup {scheduler}) <= Cardinality(Lost) + 1
      <4>1. IsFiniteSet(Lost) /\ Cardinality(Lost) \in Nat
        BY <2>3
      <4> HIDE DEF Lost
      <4> QED BY <4>1, FS_AddElement
    <3>2. Cardinality(Lost') <= Cardinality(Lost \cup {scheduler})
      BY <2>5, <3>1, FS_Subset
    <3>3. Cardinality(Lost \cup {scheduler}) \in Nat
      BY <3>1, FS_CardinalityType
    <3> QED BY <2>3, <2>4, <2>6, <3>1, <3>2, <3>3 DEF Debt
  <2>7. CASE Debt <= overlaps + 1 /\ Fresh
    <3>1. scheduler \in Schedulers /\ ~sched[scheduler].running
      BY <1>1, <2>2, <2>7 DEF Fresh, IInv, Types, JobsOK
    <3>2. scheduler \notin Lost'
      BY <1>1, <1>3, <1>5, <3>1 DEF Lost, IInv, ShutInv
    <3>3. Lost' \subseteq Lost
      BY <2>5, <3>2
    <3>4. Cardinality(Lost') <= Cardinality(Lost)
      BY <2>3, <3>3, FS_Subset
    <3> QED BY <2>3, <2>4, <2>7, <3>4 DEF Debt
  <2> QED BY <2>6, <2>7 DEF IInv, LostInv
<1>8. EndInv'
  <2>1. Iterating' = Iterating
    BY <1>3 DEF Iterating
  <2>2. ASSUME NEW s \in Iterating, EndsLater(s) PROVE EndsLater(s)'
    <3>1. CASE Waits(Exec, s) \/ Waits(Main, s)
      BY <1>4, <3>1 DEF EndsLater
    <3>2. CASE ~(Waits(Exec, s) \/ Waits(Main, s))
      <4>1. /\ pc[Main] # "forget" /\ pc[Exec] # "forget"
            /\ \A t \in Schedulers : pc[t] \in Before => At(t, "join")
        BY <2>2, <3>2 DEF EndsLater
      <4> QED BY <1>1, <4>1 DEF At, Before, Actors
    <3> QED BY <3>1, <3>2
  <2> QED BY <1>1, <2>1, <2>2, FewerRun DEF IInv, Types, DatesOK
<1> QED BY <1>2, <1>6, <1>7, <1>8, WalksOK DEF IInv


-----------------------------------------------------------------------------
(* Exceptions, the stop, and the clock.                                     *)
LEMMA RaiseOK ==
  ASSUME IInv, NEW a \in Actors, Raise(a) PROVE IInv'
<1> USE Threads
<1> DEFINE p == IF stopped THEN After(a) ELSE "handler"
<1>1. /\ a # Main /\ pc[a] \in {"in", "user"}
      /\ crashes < MaxCrashes /\ crashes' = crashes + 1
      /\ overlaps' = IF \E b \in Actors \ {Main} : pc[b] \in Walk
                     THEN overlaps + 1 ELSE overlaps
      /\ GoTo(a, p)
      /\ UNCHANGED <<day, phase, due, call, lastDate, stopNow, scheduler, sched, joined,
                     checker, stopped, done, traded>>
  BY DEF Raise, clock, session, jobs, Handling, Walk, Before
<1>2. /\ ~stopped => p = "handler"
      /\ stopped => \/ a = Exec /\ p = "session"
                    \/ a \in Schedulers /\ p = "idle"
  BY <1>1, AfterIs DEF Actors
<1> HIDE DEF p
<1>3. p \in {"session", "idle", "handler"} /\ p \in Place
  BY <1>2 DEF IInv, Types, DatesOK, Place, ExecPlaces, MainPlaces, JobPlaces, Walk, Before
<1>4. /\ pc'[a] = p
      /\ \A b \in Actors : b # a => pc'[b] = pc[b]
      /\ pc' \in [Actors -> Place]
  BY <1>1, <1>3, Moved DEF IInv, Types, PlacesOK
<1>5. \A s \in Schedulers : /\ Runs(s)' => Runs(s)
                            /\ pc'[s] = "unborn" <=> pc[s] = "unborn"
  BY <1>1, <1>3, <1>4 DEF Runs
<1>6. pc'[Main] = pc[Main]
  BY <1>1, <1>4
<1>7. pc'[Exec] \notin {"remove", "shutdown", "join", "forget", "ended"} \/ pc'[Exec] = pc[Exec]
  BY <1>3, <1>4
<1>8. Types'
  <2>1. PlacesOK'
    BY <1>1, <1>2, <1>3, <1>4, <1>6
       DEF IInv, Types, PlacesOK, DatesOK, ExecPlaces, JobPlaces, Walk, Before
  <2>2. CallOK'
    BY <1>1, <1>3, <1>4 DEF IInv, Types, CallOK
  <2>3. DatesOK'
    BY <1>1, LifecycleAssumption DEF IInv, Types, DatesOK
  <2>4. ClockOK' /\ JobsOK'
    BY <1>1 DEF IInv, Types, ClockOK, JobsOK
  <2> QED BY <2>1, <2>2, <2>3, <2>4 DEF Types
<1>9. CountInv'
  <2>1. Born' = Born
    BY <1>5 DEF Born
  <2>2. IsFiniteSet(Walkers) /\ Cardinality(Walkers) \in Nat /\ Cardinality(Born) \in Nat
    BY FiniteActors DEF Walkers, Born
  <2>3. a \notin Walkers /\ (Walkers' = Walkers \/ Walkers' = Walkers \cup {a})
    BY <1>1, <1>4 DEF Walkers, Before
  <2>4. Cardinality(Walkers') \in {Cardinality(Walkers), Cardinality(Walkers) + 1}
    BY <2>2, <2>3, FS_AddElement
  <2> QED BY <1>1, <1>6, <2>1, <2>2, <2>4 DEF IInv, CountInv, Types, DatesOK
<1>10. StopInv'
  BY <1>1, <1>6, <1>7 DEF IInv, StopInv, At
<1>11. BornInv'
  <2>1. Born' = Born
    BY <1>5 DEF Born
  <2>2. \A b \in Actors : At(b, "join")' => At(b, "join")
    BY <1>3, <1>4 DEF At
  <2> QED BY <1>1, <2>1, <2>2 DEF IInv, BornInv
<1>12. ShutInv'
  <2>1. \A b \in Actors : /\ pc'[b] \in {"join", "forget"} <=> pc[b] \in {"join", "forget"}
                          /\ At(b, "join")' <=> At(b, "join")
    BY <1>1, <1>3, <1>4 DEF At
  <2>2. \A s : WaitedFor(s)' <=> WaitedFor(s)
    BY <1>1, <2>1 DEF WaitedFor, Waits
  <2> QED BY <1>1, <1>5, <2>1, <2>2 DEF IInv, ShutInv
<1>13. LostInv'
  <2> SUFFICES ASSUME ~stopped
               PROVE  Debt' <= overlaps' \/ (Debt' <= overlaps' + 1 /\ Exiting' # {} /\ Fresh')
    BY <1>1 DEF LostInv
  <2>1. p = "handler" /\ pc[Main] = "idle"
    BY <1>2 DEF IInv, StopInv, At
  <2>2. a \notin Exiting /\ Exiting' = Exiting \cup {a}
    BY <1>1, <1>4, <2>1 DEF Exiting, Before
  <2>3. \A b \in Actors : \A s : Waits(b, s)' <=> Waits(b, s)
    BY <1>1, <1>3, <1>4 DEF Waits, At
  <2>4. Lost' \subseteq Lost
    BY <1>1, <1>5, <2>3 DEF Lost, WaitedFor
  <2>5. /\ IsFiniteSet(Exiting) /\ IsFiniteSet(Lost)
        /\ Cardinality(Exiting) \in Nat /\ Cardinality(Lost) \in Nat
        /\ Cardinality(Lost') \in Nat /\ Cardinality(Lost') <= Cardinality(Lost)
        /\ overlaps \in Nat
    BY <2>4, CountedSets, FiniteActors, Smaller DEF IInv, Types, DatesOK
  <2>6. Cardinality(Exiting') = Cardinality(Exiting) + 1
    BY <2>2, <2>5, FS_AddElement
  <2>7. ASSUME NEW s, WaitedFor(s)
        PROVE  \E b \in Exiting : At(b, "join") /\ joined[b] = s
    BY <2>1, <2>7 DEF WaitedFor, Waits, Exiting, At, Before
  <2>8. a \in Schedulers /\ ~sched[a].running => WaitedFor(a)
    BY <1>1 DEF IInv, ShutInv, Runs, Types, PlacesOK, JobPlaces, Walk, Before
  <2>9. ASSUME Fresh, NEW b \in Exiting'
        PROVE  /\ pc'[b] \in {"remove", "shutdown", "join", "forget"} => scheduler # None
               /\ pc'[b] \in {"join", "forget"} => ~sched[scheduler].running
               /\ At(b, "join")' => joined[b] = scheduler
               /\ b \in Schedulers => b = scheduler \/ sched[b].running
    <3>1. CASE b = a
      BY <1>4, <2>1, <2>7, <2>8, <2>9, <3>1 DEF Fresh, At
    <3>2. CASE b # a
      BY <1>4, <2>2, <2>9, <3>2 DEF Fresh, At, Exiting
    <3> QED BY <3>1, <3>2
  <2>10. Fresh => Fresh'
    BY <1>1, <2>9 DEF Fresh
  <2>11. CASE \E b \in Actors \ {Main} : pc[b] \in Walk
    <3>1. overlaps' = overlaps + 1
      BY <1>1, <2>11
    <3>2. CASE Debt <= overlaps
      BY <2>5, <2>6, <3>1, <3>2 DEF Debt
    <3>3. CASE Debt <= overlaps + 1 /\ Fresh
      <4>1. Debt' <= overlaps' + 1
        BY <2>5, <2>6, <3>1, <3>3 DEF Debt
      <4> QED BY <2>2, <2>10, <3>3, <4>1
    <3> QED BY <3>2, <3>3 DEF IInv, LostInv
  <2>12. CASE \A b \in Actors \ {Main} : pc[b] \notin Walk
    <3>1. overlaps' = overlaps
      BY <1>1, <2>12
    <3>2. Exiting = {}
      BY <2>12 DEF Exiting, Walk
    <3>3. Debt <= overlaps /\ Fresh
      BY <3>2 DEF IInv, LostInv, Fresh
    <3>4. Debt' <= overlaps' + 1
      BY <2>5, <2>6, <3>1, <3>3 DEF Debt
    <3> QED BY <2>2, <2>10, <3>3, <3>4
  <2> QED BY <2>11, <2>12
<1>14. EndInv'
  <2>1. overlaps \in Nat /\ overlaps' \in Nat /\ overlaps' >= overlaps
    BY <1>1 DEF IInv, Types, DatesOK
  <2>2. Iterating' \subseteq Iterating
    BY <1>5 DEF Iterating
  <2>3. ASSUME stopped, Iterating' = Iterating, NEW s \in Iterating, EndsLater(s)
        PROVE  EndsLater(s)'
    <3>1. \A t \in Schedulers : Runs(t)' <=> Runs(t)
      BY <2>3 DEF Iterating
    <3>2. \A b \in Actors : /\ At(b, "join")' <=> At(b, "join")
                            /\ Waits(b, s)' <=> Waits(b, s)
                            /\ At(b, "join") => joined[b] \in Schedulers
      BY <1>1, <1>3, <1>4 DEF At, Waits, IInv, BornInv, Born
    <3>3. CASE Waits(Exec, s) \/ Waits(Main, s)
      BY <3>2, <3>3 DEF EndsLater
    <3>4. CASE ~(Waits(Exec, s) \/ Waits(Main, s))
      <4>1. /\ scheduler = s /\ sched[s].running
            /\ pc[Main] \notin {"join", "forget", "close", "done"}
            /\ pc[Exec] # "forget" /\ (At(Exec, "join") => Runs(joined[Exec]))
            /\ \A t \in Schedulers : pc[t] \in Before => At(t, "join") /\ Runs(joined[t])
        BY <2>3, <3>4 DEF EndsLater
      <4>2. pc'[Exec] # "forget" /\ (At(Exec, "join")' => Runs(joined[Exec])')
        BY <1>1, <1>7, <3>1, <3>2, <4>1
      <4>3. \A t \in Schedulers : pc'[t] \in Before => At(t, "join")' /\ Runs(joined[t])'
        <5>1. \A t \in Schedulers : pc'[t] \in Before => pc[t] \in Before
          BY <1>2, <1>4, <2>3 DEF Before
        <5> QED BY <1>1, <3>1, <3>2, <4>1, <5>1
      <4> QED BY <1>1, <1>6, <4>1, <4>2, <4>3 DEF EndsLater
    <3> QED BY <3>3, <3>4
  <2> QED BY <1>1, <2>1, <2>2, <2>3, FewerRun DEF IInv
<1>15. TradeInv'
  <2>1. \A s \in Schedulers : At(s, "user")' \/ pc'[s] \in Walk => At(s, "user") \/ pc[s] \in Walk
    BY <1>1, <1>3, <1>4 DEF At, IInv, Types, PlacesOK, JobPlaces
  <2>2. Closing' => Closing
    BY <1>1, <1>3, <1>4 DEF Closing, InCall, At
  <2>3. ASSUME day > 1, ~stopped, traded # day PROVE WillTrade'
    <3>1. a \notin Schedulers
      BY <1>1, <2>3 DEF IInv, TradeInv, At, Types, PlacesOK, JobPlaces, Walk, Before
    <3>2. a = Exec /\ pc'[Exec] = "handler"
      BY <1>1, <1>2, <1>4, <2>3, <3>1 DEF Actors
    <3>3. ~InLoop'
      BY <3>2 DEF InLoop, InCall
    <3>4. \A s \in Schedulers : pc'[s] = pc[s]
      BY <1>4, <3>2
    <3> QED BY <1>1, <2>3, <3>2, <3>3, <3>4 DEF IInv, TradeInv, WillTrade, At
  <2> QED BY <1>1, <2>1, <2>2, <2>3 DEF IInv, TradeInv
<1> QED BY <1>8, <1>9, <1>10, <1>11, <1>12, <1>13, <1>14, <1>15 DEF IInv

LEMMA StopOK == ASSUME IInv, Stop PROVE IInv'
<1> USE Threads
<1>1. /\ pc[Main] = "idle" /\ GoTo(Main, "handler") /\ stopped' = TRUE
      /\ UNCHANGED <<day, phase, due, call, lastDate, stopNow, scheduler, sched, joined,
                     checker, done, traded, overlaps, crashes>>
  BY DEF Stop, At, clock, session, jobs, history
<1>2. ~stopped
  BY <1>1 DEF IInv, StopInv, At
<1>3. /\ pc'[Main] = "handler"
      /\ \A b \in Actors : b # Main => pc'[b] = pc[b]
      /\ pc' \in [Actors -> Place]
  BY <1>1, Moved DEF IInv, Types, PlacesOK, Place, MainPlaces, Walk, Before
<1>4. \A s \in Schedulers : pc'[s] = pc[s]
  BY <1>3
<1>5. pc'[Exec] = pc[Exec] /\ Born' = Born
  BY <1>3, <1>4 DEF Born
<1>6. Types'
  <2>1. PlacesOK'
    BY <1>3, <1>4, <1>5 DEF IInv, Types, PlacesOK, MainPlaces, Walk, Before
  <2>2. CallOK' /\ ClockOK' /\ JobsOK'
    BY <1>1, <1>5 DEF IInv, Types, CallOK, ClockOK, JobsOK
  <2>3. stopped' \in BOOLEAN
    BY <1>1, Zenon
  <2>4. DatesOK'
    BY <1>1, <2>3 DEF IInv, Types, DatesOK
  <2> QED BY <2>1, <2>2, <2>4 DEF Types
<1>7. CountInv'
  <2>1. IsFiniteSet(Walkers) /\ Cardinality(Walkers) \in Nat /\ Cardinality(Born) \in Nat
    BY FiniteActors DEF Walkers, Born
  <2>2. Main \notin Walkers /\ Walkers' = Walkers \cup {Main}
    BY <1>1, <1>3 DEF Walkers, Before
  <2>3. Cardinality(Walkers') = Cardinality(Walkers) + 1
    BY <2>1, <2>2, FS_AddElement
  <2> QED BY <1>1, <1>3, <1>5, <2>1, <2>3 DEF IInv, CountInv, Types, DatesOK
<1>8. StopInv'
  BY <1>1, <1>3 DEF StopInv, At
<1>9. BornInv'
  BY <1>1, <1>3, <1>5 DEF IInv, BornInv, At
<1>10. ShutInv'
  BY <1>1, <1>3, <1>4 DEF IInv, ShutInv, WaitedFor, Waits, Runs, At
<1>11. LostInv'
  BY <1>1 DEF LostInv
<1>12. EndInv'
  <2>1. Iterating' = Iterating
    BY <1>4 DEF Iterating, Runs
  <2>2. ASSUME NEW s \in Schedulers, EndsLater(s) PROVE EndsLater(s)'
    <3>1. \A b \in Actors : /\ At(b, "join")' <=> b # Main /\ At(b, "join")
                            /\ Waits(b, s)' <=> b # Main /\ Waits(b, s)
      BY <1>1, <1>3 DEF At, Waits
    <3>2. \A t \in Schedulers : Runs(t)' <=> Runs(t)
      BY <1>4 DEF Runs
    <3>3. \A b \in Actors : At(b, "join") => joined[b] \in Schedulers
      BY DEF IInv, BornInv, Born
    <3>4. ~Waits(Main, s)
      BY <1>1 DEF Waits, At
    <3>5. CASE Waits(Exec, s)
      BY <3>1, <3>5 DEF EndsLater
    <3>6. CASE ~Waits(Exec, s)
      <4>1. /\ scheduler = s /\ sched[s].running
            /\ pc[Exec] # "forget" /\ (At(Exec, "join") => Runs(joined[Exec]))
            /\ \A t \in Schedulers : pc[t] \in Before => At(t, "join") /\ Runs(joined[t])
        BY <2>2, <3>4, <3>6 DEF EndsLater
      <4>2. pc'[Exec] # "forget" /\ (At(Exec, "join")' => Runs(joined[Exec])')
        BY <1>1, <1>5, <3>1, <3>2, <3>3, <4>1
      <4>3. \A t \in Schedulers : pc'[t] \in Before => At(t, "join")' /\ Runs(joined[t])'
        BY <1>1, <1>4, <3>1, <3>2, <3>3, <4>1
      <4> QED BY <1>1, <1>3, <4>1, <4>2, <4>3 DEF EndsLater
    <3> QED BY <3>5, <3>6
  <2>3. Bounded
    BY <1>2, BeforeStop
  <2>4. Bounded'
    BY <1>1, <2>1, <2>2, <2>3 DEF Bounded, Iterating
  <2> QED BY <2>4 DEF EndInv
<1>13. TradeInv'
  <2>1. \A s \in Schedulers : At(s, "user")' \/ pc'[s] \in Walk => At(s, "user") \/ pc[s] \in Walk
    BY <1>4 DEF At
  <2>2. Closing' => Closing
    BY <1>1, <1>5 DEF Closing, InCall, At
  <2> QED BY <1>1, <2>1, <2>2 DEF IInv, TradeInv
<1> QED BY <1>6, <1>7, <1>8, <1>9, <1>10, <1>11, <1>12, <1>13 DEF IInv

(* The clock: the thread of the executor sleeps, and which phase comes next. *)
LEMMA SleepsCases ==
  ASSUME Sleeps
  PROVE  \/ At(Exec, "await_preopen") /\ phase \in {"night", "closed"}
         \/ At(Exec, "await_open") /\ ~IsMarketOpen
         \/ At(Exec, "await_last") /\ phase = "open"
         \/ At(Exec, "await_close") /\ IsMarketOpen
         \/ At(Exec, "loop") /\ KeepTrading
         \/ At(Exec, "in") /\ phase = "last"
         \/ Joins(Exec)
         \/ At(Exec, "ended")
<1>1. CASE At(Exec, "await_preopen")
  BY <1>1, Zenon DEF Sleeps, At
<1>2. CASE At(Exec, "await_open")
  BY <1>2, Zenon DEF Sleeps, At
<1>3. CASE At(Exec, "await_last")
  BY <1>3, Zenon DEF Sleeps, At
<1>4. CASE At(Exec, "await_close")
  BY <1>4, Zenon DEF Sleeps, At
<1>5. CASE At(Exec, "loop")
  BY <1>5, Zenon DEF Sleeps, At
<1>6. CASE At(Exec, "in")
  BY <1>6, Zenon DEF Sleeps, At
<1>7. CASE ~(\/ At(Exec, "await_preopen") \/ At(Exec, "await_open") \/ At(Exec, "await_last")
             \/ At(Exec, "await_close") \/ At(Exec, "loop") \/ At(Exec, "in"))
  BY <1>7, Zenon DEF Sleeps
<1> QED BY <1>1, <1>2, <1>3, <1>4, <1>5, <1>6, <1>7

LEMMA NextPhase ==
  ASSUME ClockOK, Tick
  PROVE  /\ phase = "night" => phase' = "preopen"
         /\ phase = "preopen" => phase' = "open"
         /\ phase = "open" => phase' = "last"
         /\ phase = "last" => phase' = "closed"
         /\ phase = "closed" => phase' = "night"
<1> DEFINE i == CHOOSE n \in DOMAIN Phases : Phases[n] = phase
<1>1. phase' = Phases[(i % 5) + 1]
  BY DEF Tick
<1>2. DOMAIN Phases = {1, 2, 3, 4, 5}
  BY DEF Phases
<1>3. \E n \in DOMAIN Phases : Phases[n] = phase
  BY <1>2 DEF Phases, ClockOK
<1>4. i \in DOMAIN Phases /\ Phases[i] = phase
  BY <1>3
<1> HIDE DEF i
<1>5. CASE i = 1
  BY <1>1, <1>4, <1>5 DEF Phases
<1>6. CASE i = 2
  BY <1>1, <1>4, <1>6 DEF Phases
<1>7. CASE i = 3
  BY <1>1, <1>4, <1>7 DEF Phases
<1>8. CASE i = 4
  BY <1>1, <1>4, <1>8 DEF Phases
<1>9. CASE i = 5
  BY <1>1, <1>4, <1>9 DEF Phases
<1> QED BY <1>2, <1>4, <1>5, <1>6, <1>7, <1>8, <1>9

(* On a day without an iteration the market's hours do not end.             *)
LEMMA NoEarlyClose ==
  ASSUME IInv, Tick, day > 1, ~stopped, traded # day
  PROVE  phase \notin {"open", "last", "closed"}
<1> USE Threads
<1>1. WillTrade
  BY DEF IInv, TradeInv
<1>2. \A s \in Schedulers : pc[s] \in {"unborn", "idle"}
  BY DEF Tick, IInv, TradeInv, At
<1>3. SUFFICES ASSUME phase = "open" PROVE FALSE
  BY <1>1 DEF WillTrade
<1>4. \/ At(Exec, "loop") /\ KeepTrading
      \/ At(Exec, "join") /\ ~At(joined[Exec], "idle")
  <2>1. Sleeps /\ ~At(Exec, "await_last") /\ ~At(Exec, "await_close") /\ ~At(Exec, "ended")
    BY <1>1, <1>3 DEF Tick, WillTrade, IInv, TradeInv, StopInv, Closing
  <2> QED BY <2>1, <1>3, SleepsCases DEF IsMarketOpen, Joins
<1>5. CASE At(Exec, "loop") /\ KeepTrading
  <2>1. scheduler # None /\ scheduler \in Schedulers /\ sched[scheduler].job
    BY <1>5 DEF KeepTrading, IInv, Types, JobsOK
  <2>2. pc[scheduler] = "idle"
    BY <1>2, <2>1 DEF IInv, BornInv, Born
  <2>3. scheduler \in due
    BY <1>1, <1>3, <2>1, <2>2 DEF WillTrade, At
  <2>4. ~sched[scheduler].running
    BY <1>3, <2>1, <2>2, <2>3 DEF Tick, Live, At
  <2>5. PICK a \in Actors : pc[a] \in {"join", "forget"}
    BY <2>1, <2>4, LifecycleAssumption DEF IInv, ShutInv
  <2> QED BY <1>2, <1>5, <2>5 DEF Actors, At, IInv, StopInv
<1>6. CASE At(Exec, "join") /\ ~At(joined[Exec], "idle")
  <2>1. joined[Exec] \in Schedulers /\ pc[joined[Exec]] # "unborn"
    BY <1>6 DEF IInv, BornInv, Born
  <2> QED BY <1>2, <1>6, <2>1 DEF At
<1> QED BY <1>4, <1>5, <1>6

LEMMA TickOK == ASSUME IInv, Tick PROVE IInv'
<1> USE Threads
<1>1. /\ UNCHANGED <<pc, call, lastDate, stopNow, scheduler, sched, joined>>
      /\ UNCHANGED <<checker, stopped, traded, overlaps, crashes>>
  BY DEF Tick, session, jobs
<1>2. /\ phase = "night" => phase' = "preopen"
      /\ phase = "preopen" => phase' = "open"
      /\ phase = "open" => phase' = "last"
      /\ phase = "last" => phase' = "closed"
      /\ phase = "closed" => phase' = "night"
      /\ phase \in {"night", "preopen", "open", "last", "closed"}
  BY NextPhase DEF IInv, Types, ClockOK
<1>3. /\ day' = IF phase = "closed" THEN day + 1 ELSE day
      /\ due' = IF phase = "preopen" THEN Schedulers ELSE {}
      /\ done' = IF phase = "closed" THEN [m \in Methods |-> 0] ELSE done
  BY DEF Tick
<1>4. day \in Nat \ {0} /\ day' \in Nat \ {0} /\ day' >= day /\ due' \subseteq Schedulers
  BY <1>3 DEF IInv, Types, ClockOK
<1>5. ClockOK'
  BY <1>2, <1>4, NextPhase DEF IInv, Types, ClockOK
<1>6. PlacesOK' /\ CallOK' /\ JobsOK'
  BY <1>1 DEF IInv, Types, PlacesOK, CallOK, JobsOK
<1>7. DatesOK'
  <2>1. done' \in [Methods -> 0 .. 2]
    BY <1>3 DEF IInv, Types, DatesOK
  <2>2. \A m \in Methods : lastDate'[m] <= day'
    BY <1>1, <1>4 DEF IInv, Types, DatesOK
  <2> QED BY <1>1, <2>1, <2>2 DEF IInv, Types, DatesOK
<1>8. CountInv' /\ StopInv' /\ BornInv'
  <2>1. Born' = Born /\ Walkers' = Walkers
    BY <1>1 DEF Born, Walkers
  <2> QED BY <1>1, <2>1 DEF IInv, CountInv, StopInv, BornInv, At
<1>9. ShutInv' /\ LostInv' /\ EndInv'
  BY <1>1, SamePlaces DEF IInv, Runs
<1>10. TradeInv'
  <2>1. ASSUME NEW s \in Schedulers, (At(s, "user") \/ pc[s] \in Walk)'
        PROVE  traded' = day'
    <3>1. At(s, "user") \/ pc[s] \in Walk
      BY <1>1, <2>1 DEF At
    <3>2. phase # "closed"
      BY <3>1 DEF Tick, At, IsMarketOpen, Walk, Before
    <3> QED BY <1>1, <1>3, <3>1, <3>2 DEF IInv, TradeInv
  <2>2. Closing' => phase' # "open"
    <3>1. Closing' <=> Closing
      BY <1>1 DEF Closing, InCall, At
    <3>2. phase' = "open" => phase = "preopen"
      BY <1>2
    <3>3. phase = "preopen" => ~Closing
      BY SleepsCases DEF Tick, Closing, InCall, At, IsMarketOpen, Joins
    <3> QED BY <3>1, <3>2, <3>3
  <2>3. ASSUME day' > 1, ~stopped, traded # day' PROVE WillTrade'
    <3>1. CASE phase = "closed" \/ phase = "night"
      BY <3>1, NextPhase, <1>2 DEF WillTrade, IInv, Types
    <3>2. CASE phase \notin {"closed", "night"}
      <4>1. phase = "preopen"
        BY <1>2, <1>3, <2>3, <3>2, NoEarlyClose
      <4>2. phase' = "open" /\ due' = Schedulers
        BY <1>3, <4>1, NextPhase DEF IInv, Types
      <4>3. ~At(Exec, "await_last") /\ ~At(Exec, "jobs")
        BY <4>1, SleepsCases DEF Tick, At, Joins
      <4>4. InLoop => KeepTrading
        BY <4>1, SleepsCases, <2>3 DEF Tick, At, Joins, InLoop, InCall, IInv, StopInv
      <4> QED BY <1>1, <4>2, <4>3, <4>4
              DEF WillTrade, KeepTrading, InLoop, InCall, At
    <3> QED BY <3>1, <3>2
  <2> QED BY <1>1, <2>1, <2>2, <2>3 DEF TradeInv
<1> QED BY <1>5, <1>6, <1>7, <1>8, <1>9, <1>10 DEF IInv, Types
-----------------------------------------------------------------------------
LEMMA StutterOK == ASSUME IInv, UNCHANGED vars PROVE IInv'
<1>1. UNCHANGED <<day, phase, due, pc, call, lastDate, stopNow, scheduler, sched>>
  BY DEF vars, clock, session, jobs
<1>2. UNCHANGED <<joined, checker, stopped, done, traded, overlaps, crashes>>
  BY DEF vars, jobs, history
<1>3. Born' = Born /\ Walkers' = Walkers
  BY <1>1 DEF Born, Walkers
<1>4. Types'
  BY <1>1, <1>2 DEF IInv, Types, PlacesOK, ClockOK, CallOK, DatesOK, JobsOK
<1>5. CountInv' /\ StopInv' /\ BornInv'
  BY <1>1, <1>2, <1>3 DEF IInv, CountInv, StopInv, BornInv, At
<1>6. ShutInv' /\ LostInv' /\ EndInv'
  BY <1>1, <1>2, SamePlaces DEF IInv, Runs
<1>7. TradeInv'
  BY <1>1, <1>2 DEF IInv, TradeInv, WillTrade, Closing, InLoop, InCall, At
<1> QED BY <1>4, <1>5, <1>6, <1>7 DEF IInv

LEMMA Inductive ==
  ASSUME IInv, [Next]_vars
  PROVE  IInv'
<1>1. CASE ExecStep
  BY <1>1, EnterOK, ReturnOK, StartSessionOK, WakeBeforeOpenOK, WakeAtOpenOK, ScheduleOK,
     RecreateOK, LookOK, WakeBeforeCloseOK, WakeAtCloseOK DEF ExecStep
<1>2. ASSUME NEW s \in Schedulers, JobStep(s) PROVE IInv'
  BY <1>2, FireOK, IterateOK, IterationEndsOK DEF JobStep
<1>3. ASSUME NEW a \in Actors, Raise(a) PROVE IInv'
  BY <1>3, RaiseOK
<1>4. ASSUME NEW a \in Actors, HandlerRaises(a) PROVE IInv'
  BY <1>4, HandlerRaisesOK
<1>5. ASSUME NEW a \in Actors, ExitStep(a) PROVE IInv'
  BY <1>5, HandledOK, ExitOK, RemoveJobsOK, ShutdownOK, JoinOK, ForgetOK, CloseOK DEF ExitStep
<1>6. CASE Stop
  BY <1>6, StopOK
<1>7. CASE Tick
  BY <1>7, TickOK
<1>8. CASE UNCHANGED vars
  BY <1>8, StutterOK
<1> QED BY <1>1, <1>2, <1>3, <1>4, <1>5, <1>6, <1>7, <1>8 DEF Next

THEOREM Invariance == Spec => []IInv
BY Initial, Inductive, PTL DEF Spec
-----------------------------------------------------------------------------
(* The type invariant: lifecycle_last_date never names a day to come, and a *)
(* scheduler that can fire is one that was created (run,                    *)
(* _setup_live_trading_scheduler).                                          *)
THEOREM TypeCorrect == Spec => []TypeOK
<1>1. ASSUME IInv PROVE TypeOK
  <2>1. At(Exec, "in") => call.m \in Methods
    BY <1>1 DEF IInv, Types, CallOK, At
  <2>2. scheduler \in Schedulers => pc[scheduler] # "unborn"
    BY <1>1, Threads DEF IInv, BornInv, Born
  <2>3. \A s \in Schedulers : Live(s) => pc[s] # "unborn"
    BY <1>1 DEF IInv, BornInv, Born, Live
  <2>4. \A m \in Methods : lastDate[m] <= day /\ done[m] \in 0 .. 2
    BY <1>1 DEF IInv, Types, DatesOK
  <2> QED BY <2>1, <2>2, <2>3, <2>4 DEF TypeOK
<1> QED BY <1>1, Invariance, PTL

(* _on_trading_iteration runs alone, however often methods of the strategy  *)
(* raise, and wherever the stop finds them: gracefully_exit waits for the   *)
(* iteration of the scheduler it shuts down.  Two run at once only if an    *)
(* exception was raised while another one was handled, and each of those    *)
(* adds one iteration at most.                                              *)
THEOREM IterationsAlone == Spec => []Alone
<1>1. ASSUME IInv PROVE Alone
  <2>1. {s \in Schedulers : InUser(s)} \in SUBSET Iterating
    BY DEF InUser, Iterating, Runs, At
  <2>2. /\ Cardinality({s \in Schedulers : InUser(s)}) <= Cardinality(Iterating)
        /\ Cardinality({s \in Schedulers : InUser(s)}) \in Nat
        /\ Cardinality(Iterating) \in Nat
    BY <2>1, CountedSets, Smaller
  <2>3. Bounded
    BY <1>1, BeforeStop DEF IInv, EndInv
  <2>4. Cardinality(Iterating) <= 1 + overlaps /\ overlaps \in Nat
    BY <1>1, <2>2, <2>3 DEF Bounded, IInv, Types, DatesOK
  <2> QED BY <2>2, <2>4 DEF Alone
<1> QED BY <1>1, Invariance, PTL


(* A strategy that was not stopped has traded on every day that is over,    *)
(* whatever it raised: _run_trading_session or its loop made the scheduler  *)
(* again in time, and its job fired.                                        *)
THEOREM EachDayIsTraded == Spec => []TradesEachDay
<1>1. IInv => TradesEachDay
  BY DEF IInv, TradeInv, WillTrade, TradesEachDay
<1> QED BY <1>1, Invariance, PTL

(* When the Trader's stop has returned in order and run has ended, no       *)
(* trading iteration of the strategy is running, but for one at most of     *)
(* each exception that was raised while another one was handled.            *)
THEOREM NothingTradesAfterEnd == Spec => []NothingAfterEnd
<1>1. ASSUME IInv, At(Exec, "ended"), At(Main, "done")
      PROVE  Cardinality({s \in Schedulers : InUser(s)}) <= overlaps
  <2>1. {s \in Schedulers : InUser(s)} \in SUBSET Iterating
    BY DEF InUser, Iterating, Runs, At
  <2>2. /\ Cardinality({s \in Schedulers : InUser(s)}) <= Cardinality(Iterating)
        /\ Cardinality({s \in Schedulers : InUser(s)}) \in Nat
        /\ Cardinality(Iterating) \in Nat
    BY <2>1, CountedSets, Smaller
  <2>3. \A s \in Iterating : ~EndsLater(s)
    BY <1>1 DEF EndsLater, Waits, At
  <2>4. Cardinality(Iterating) <= overlaps /\ overlaps \in Nat
    BY <1>1, <2>3 DEF IInv, StopInv, EndInv, Bounded, Types, DatesOK
  <2> QED BY <2>2, <2>4
<1>2. IInv => NothingAfterEnd
  BY <1>1 DEF NothingAfterEnd
<1> QED BY <1>2, Invariance, PTL
=============================================================================
