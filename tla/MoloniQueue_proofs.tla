-------------------------- MODULE MoloniQueue_proofs --------------------------
(***************************************************************************)
(* What holds of the export to Moloni for any number of orders, runs and   *)
(* attempts, any lease and backoff and any number of faults: a retry       *)
(* issues a second document only when the first one was lost.              *)
(***************************************************************************)
EXTENDS MoloniQueue, FiniteSetTheorems, SequenceTheorems, TLAPS

\* The runs that may still issue a document for an order, or that must yet
\* record that they did not.
Attempts(o) == {w \in Run : Busy(w) /\ run[w].order = o /\ run[w].stage \in {"working", "failed"}}

\* A run may still take the order up: it has no job yet, its job waits, or it is
\* claimed by nobody who is there to hold it, or for no longer.
Open(o) ==
  \/ o \in kept \ DOMAIN job
  \/ /\ o \in DOMAIN job
     /\ \/ job[o].status = "pending"
        \/ job[o].status = "processing" /\ (job[o].wait = 0 \/ o \notin Held)

\* Documents issued, documents under way and documents still to come.
Budget(o) == documents[o] + Cardinality(Attempts(o)) + IF Open(o) THEN 1 ELSE 0

BudgetKept == \A o \in Order : Budget(o) <= 1 + lost[o]

DocumentInv == TypeOK /\ BudgetKept

-----------------------------------------------------------------------------
(* Types *)

LEMMA Workers ==
  ASSUME TypeOK, NEW w \in Run
  PROVE  /\ Busy(w) <=> run[w] \in Work
         /\ Busy(w) <=> run[w].stage \in {"working", "issued", "failed"}
         /\ Busy(w) => run[w].order \in Order
<1>1. Idle \notin Work
  <2>1. \A x \in Work : x.stage \in {"working", "issued", "failed"}
    BY DEF Work
  <2>2. Idle.stage = "idle"
    BY DEF Idle
  <2> QED  BY <2>1, <2>2
<1>2. run[w] \in {Idle} \cup Work
  BY DEF TypeOK
<1>3. CASE run[w] = Idle
  BY <1>1, <1>3 DEF Busy, Idle
<1>4. CASE run[w] \in Work
  BY <1>1, <1>4 DEF Busy, Work
<1> QED  BY <1>2, <1>3, <1>4

LEMMA SequenceOfMore ==
  ASSUME NEW S, NEW T, S \subseteq T
  PROVE  Seq(S) \subseteq Seq(T)
  BY SeqDef

LEMMA OneMoreLost ==
  ASSUME TypeOK, NEW w \in Run, Loses(w), run[w].order \in Order
  PROVE  /\ lost' \in [Order -> Nat]
         /\ lost'[run[w].order] = lost[run[w].order] + 1
         /\ \A o \in Order \ {run[w].order} : lost'[o] = lost[o]
  BY DEF TypeOK, Loses

LEMMA TypeInit == Init => TypeOK
  BY DEF Init, TypeOK

LEMMA TypeStep ==
  ASSUME TypeOK, [Next]_vars
  PROVE  TypeOK'
<1> USE DEF TypeOK
<1>1. CASE Tick
  <2>1. ASSUME NEW o \in DOMAIN job
        PROVE  [job[o] EXCEPT !.wait = IF @ > 0 THEN @ - 1 ELSE 0] \in Job
    <3>1. job[o] \in Job /\ job[o].wait \in Nat
      BY DEF Job
    <3>2. (IF job[o].wait > 0 THEN job[o].wait - 1 ELSE 0) \in Nat
      BY <3>1
    <3> QED  BY <3>1, <3>2 DEF Job
  <2>2. DOMAIN job' = DOMAIN job /\ \A o \in DOMAIN job' : job'[o] \in Job
    BY <1>1, <2>1 DEF Tick
  <2>3. faults' \in Nat
    BY <1>1 DEF Tick
  <2>4. lost' \in [Order -> Nat]
    BY <1>1 DEF Tick
  <2> QED  BY <1>1, <2>2, <2>3, <2>4 DEF Tick
<1>2. ASSUME NEW o \in Order, EnqueueJob(o)
      PROVE  TypeOK'
  <2>1. log' \in Seq(Order)
    BY <1>2, AppendProperties DEF EnqueueJob
  <2>2. NewJob \in Job
    BY DEF NewJob, Job, Status
  <2>3. DOMAIN job' = DOMAIN job \cup {o} /\ \A p \in DOMAIN job' : job'[p] \in Job
    BY <1>2, <2>2 DEF EnqueueJob
  <2> QED  BY <1>2, <2>1, <2>3 DEF EnqueueJob
<1>3. ASSUME NEW o \in Order, DeleteOrder(o)
      PROVE  TypeOK'
  <2>1. DOMAIN job' = DOMAIN job \ {o} /\ \A p \in DOMAIN job' : job'[p] = job[p]
    BY <1>3 DEF DeleteOrder, Restrict
  <2> QED  BY <1>3, <2>1 DEF DeleteOrder
<1>4. ASSUME NEW w \in Run, Claim(w)
      PROVE  TypeOK'
  <2>1. PICK o \in Order :
          /\ FirstDue(o)
          /\ job' = [job EXCEPT ![o] =
               [status |-> "processing", attempts |-> @.attempts + 1, wait |-> Lease]]
          /\ run' = [run EXCEPT ![w] =
               [stage |-> "working", order |-> o, todo |-> <<ClientOf[o]>> \o ItemsOf[o],
                absent |-> FALSE, fresh |-> {}, flushed |-> {}]]
    BY <1>4 DEF Claim
  <2>2. o \in DOMAIN job
    BY <2>1 DEF FirstDue, Due
  <2>3. job[o].attempts \in Nat
    BY <2>2 DEF Job
  <2>4. [status |-> "processing", attempts |-> job[o].attempts + 1, wait |-> Lease] \in Job
    BY <2>3, BoundAssumption DEF Job, Status
  <2>5. DOMAIN job' = DOMAIN job /\ \A p \in DOMAIN job' : job'[p] \in Job
    BY <2>1, <2>2, <2>4
  <2>6. <<ClientOf[o]>> \o ItemsOf[o] \in Seq(Thing)
    <3>1. <<ClientOf[o]>> \in Seq(Thing)
      BY OrderAssumption DEF Thing
    <3>2. ItemsOf[o] \in Seq(Thing)
      BY OrderAssumption, SequenceOfMore, Product \subseteq Thing DEF Thing
    <3> QED  BY <3>1, <3>2, ConcatProperties
  <2>7. run' \in [Run -> {Idle} \cup Work]
    <3> DEFINE x == [stage |-> "working", order |-> o, todo |-> <<ClientOf[o]>> \o ItemsOf[o],
                     absent |-> FALSE, fresh |-> {}, flushed |-> {}]
    <3>1. x \in Work
      BY <2>6 DEF Work
    <3>2. run' = [run EXCEPT ![w] = x]
      BY <2>1
    <3> HIDE DEF x
    <3> QED  BY <3>1, <3>2
  <2> QED  BY <1>4, <2>5, <2>7 DEF Claim
<1>5. ASSUME NEW w \in Run, Flush(w)
      PROVE  TypeOK'
  <2> DEFINE x == [run[w] EXCEPT !.fresh = {}, !.flushed = @ \cup run[w].fresh]
  <2>1. run[w] \in Work
    BY <1>5, Workers DEF Flush, Writes
  <2>2. x \in Work
    BY <2>1 DEF Work
  <2>3. run' = [run EXCEPT ![w] = x]
    BY <1>5, <2>1 DEF Flush
  <2> HIDE DEF x
  <2> QED  BY <1>5, <2>2, <2>3 DEF Flush
<1>6. ASSUME NEW w \in Run, Clash(w)
      PROVE  TypeOK'
  <2>1. run[w].order \in Order
    BY <1>6, Workers DEF Clash, Conflicts, Writes
  <2>2. lost' \in [Order -> Nat]
    BY <1>6, <2>1, OneMoreLost DEF Clash
  <2> QED  BY <1>6, <2>2 DEF Clash, Ends
<1>7. ASSUME NEW w \in Run, UseLink(w)
      PROVE  TypeOK'
  <2> DEFINE x == [run[w] EXCEPT !.todo = Tail(@)]
  <2>1. run[w] \in Work /\ run[w].todo \in Seq(Thing) /\ run[w].todo # <<>>
    BY <1>7, Workers DEF UseLink, Ready, Working, Work
  <2>2. Tail(run[w].todo) \in Seq(Thing)
    BY <2>1, HeadTailProperties
  <2>3. x \in Work
    BY <2>1, <2>2 DEF Work
  <2>4. run' = [run EXCEPT ![w] = x]
    BY <1>7, <2>1 DEF UseLink
  <2> HIDE DEF x
  <2> QED  BY <1>7, <2>3, <2>4 DEF UseLink
<1>8. ASSUME NEW w \in Run, LookUp(w)
      PROVE  TypeOK'
  <2> DEFINE x == [run[w] EXCEPT !.todo = Tail(@), !.fresh = {Current(w)}]
             y == [run[w] EXCEPT !.absent = TRUE]
  <2>1. run[w] \in Work /\ run[w].todo \in Seq(Thing) /\ run[w].todo # <<>>
    BY <1>8, Workers DEF LookUp, Ready, Working, Work
  <2>2. Tail(run[w].todo) \in Seq(Thing) /\ Current(w) \in Thing
    BY <2>1, HeadTailProperties DEF Current
  <2>3. x \in Work /\ y \in Work
    BY <2>1, <2>2 DEF Work
  <2>4. run' = [run EXCEPT ![w] = x] \/ run' = [run EXCEPT ![w] = y]
    BY <1>8, <2>1 DEF LookUp
  <2> HIDE DEF x, y
  <2> QED  BY <1>8, <2>3, <2>4 DEF LookUp
<1>9. ASSUME NEW w \in Run, Insert(w)
      PROVE  TypeOK'
  <2> DEFINE x == [run[w] EXCEPT !.todo = Tail(@), !.absent = FALSE, !.fresh = {Current(w)}]
             y == [run[w] EXCEPT !.stage = "failed"]
  <2>1. run[w] \in Work /\ run[w].todo \in Seq(Thing) /\ run[w].todo # <<>> /\ run[w].order \in Order
    BY <1>9, Workers DEF Insert, Ready, Working, Work
  <2>2. Tail(run[w].todo) \in Seq(Thing) /\ Current(w) \in Thing
    BY <2>1, HeadTailProperties DEF Current
  <2>3. x \in Work /\ y \in Work
    BY <2>1, <2>2 DEF Work
  <2>4. run' = [run EXCEPT ![w] = x] \/ run' = [run EXCEPT ![w] = y]
    BY <1>9, <2>1 DEF Insert
  <2>5. made' \in [Thing -> Nat]
    BY <1>9, <2>2 DEF Insert
  <2>6. faults' \in Nat
    BY <1>9 DEF Insert, Fails
  <2> HIDE DEF x, y
  <2> QED  BY <1>9, <2>3, <2>4, <2>5, <2>6 DEF Insert
<1>10. ASSUME NEW w \in Run, Issue(w)
       PROVE  TypeOK'
  <2> DEFINE x(stage) == [run[w] EXCEPT !.stage = stage]
  <2>1. run[w] \in Work /\ run[w].order \in Order
    BY <1>10, Workers DEF Issue, Ready, Working, Work
  <2>2. x("issued") \in Work /\ x("failed") \in Work
    BY <2>1 DEF Work
  <2>3. run' = [run EXCEPT ![w] = x("issued")] \/ run' = [run EXCEPT ![w] = x("failed")]
    BY <1>10, <2>1 DEF Issue
  <2>4. documents' \in [Order -> Nat]
    BY <1>10, <2>1 DEF Issue
  <2>5. lost' \in [Order -> Nat]
    BY <1>10, <2>1, OneMoreLost DEF Issue
  <2>6. faults' \in Nat
    BY <1>10 DEF Issue, Fails
  <2> HIDE DEF x
  <2> QED  BY <1>10, <2>2, <2>3, <2>4, <2>5, <2>6 DEF Issue
<1>11. ASSUME NEW w \in Run, Refuse(w)
       PROVE  TypeOK'
  <2> DEFINE x == [run[w] EXCEPT !.stage = "failed"]
  <2>1. run[w] \in Work
    BY <1>11, Workers DEF Refuse, Ready, Working
  <2>2. x \in Work
    BY <2>1 DEF Work
  <2>3. run' = [run EXCEPT ![w] = x]
    BY <1>11, <2>1 DEF Refuse
  <2> HIDE DEF x
  <2> QED  BY <1>11, <2>2, <2>3 DEF Refuse
<1>12. ASSUME NEW w \in Run, Deliver(w)
       PROVE  TypeOK'
  <2>1. run[w] \in Work /\ run[w].order \in Order /\ run[w].flushed \subseteq Thing
    BY <1>12, Workers DEF Deliver, Work
  <2>2. run' \in [Run -> {Idle} \cup Work]
    BY <1>12 DEF Deliver, Ends
  <2>3. CASE run[w].order \in DOMAIN job
    <3> DEFINE j == [job[run[w].order] EXCEPT !.status = "delivered", !.wait = 0]
    <3>1. job[run[w].order] \in Job
      BY <2>3
    <3>2. j \in Job
      BY <3>1 DEF Job, Status
    <3>3. job' = [job EXCEPT ![run[w].order] = j]
      BY <1>12, <2>3, <3>1 DEF Deliver
    <3> HIDE DEF j
    <3>4. DOMAIN job' = DOMAIN job /\ \A o \in DOMAIN job' : job'[o] \in Job
      BY <2>3, <3>2, <3>3
    <3> QED  BY <1>12, <2>1, <2>2, <2>3, <3>4 DEF Deliver
  <2>4. CASE run[w].order \notin DOMAIN job
    BY <1>12, <2>2, <2>4 DEF Deliver
  <2> QED  BY <2>3, <2>4
<1>13. ASSUME NEW j \in Job
       PROVE  AfterFailure(j) \in Job
  BY BoundAssumption DEF AfterFailure, Job, Status
<1>14. ASSUME NEW w \in Run, RecordFailure(w)
       PROVE  TypeOK'
  <2>1. run[w] \in Work /\ run[w].order \in Order /\ run[w].flushed \subseteq Thing
    BY <1>14, Workers DEF RecordFailure, Work
  <2>2. run' \in [Run -> {Idle} \cup Work]
    BY <1>14 DEF RecordFailure, Ends
  <2>3. DOMAIN job' = DOMAIN job /\ \A o \in DOMAIN job' : job'[o] \in Job
    BY <1>13, <1>14 DEF RecordFailure
  <2> QED  BY <1>14, <2>1, <2>2, <2>3 DEF RecordFailure
<1>15. ASSUME NEW w \in Run, RecordFailureUnlinked(w)
       PROVE  TypeOK'
  <2>1. run' \in [Run -> {Idle} \cup Work]
    BY <1>15 DEF RecordFailureUnlinked, Ends
  <2>2. DOMAIN job' = DOMAIN job /\ \A o \in DOMAIN job' : job'[o] \in Job
    BY <1>13, <1>15 DEF RecordFailureUnlinked
  <2> QED  BY <1>15, <2>1, <2>2 DEF RecordFailureUnlinked
<1>16. ASSUME NEW w \in Run, Crash(w)
       PROVE  TypeOK'
  <2>1. run[w] \in Work /\ run[w].order \in Order /\ run[w].flushed \subseteq Thing
    BY <1>16, Workers DEF Crash, Work
  <2>2. lost' \in [Order -> Nat]
    BY <1>16, <2>1, OneMoreLost DEF Crash
  <2> QED  BY <1>16, <2>1, <2>2 DEF Crash, Ends, Fails
<1>17. CASE UNCHANGED vars
  BY <1>17 DEF vars
<1> QED
  BY <1>1, <1>2, <1>3, <1>4, <1>5, <1>6, <1>7, <1>8, <1>9, <1>10, <1>11, <1>12, <1>14, <1>15,
     <1>16, <1>17
  DEF Next, RunStep

\* Orders, jobs, links and open transactions keep their types, for any number
\* of orders and runs.
THEOREM MoloniTypes == Spec => []TypeOK
  BY TypeInit, TypeStep, PTL DEF Spec

-----------------------------------------------------------------------------
(* Documents *)

\* A step of one run changes the attempts for an order by that run at most.
LEMMA AttemptsOfOne ==
  ASSUME NEW w \in Run, \A v \in Run \ {w} : run'[v] = run[v], NEW o \in Order
  PROVE  /\ Cardinality(Attempts(o)) \in Nat
         /\ (w \in Attempts(o) <=> w \in Attempts(o)')
            => Cardinality(Attempts(o))' = Cardinality(Attempts(o))
         /\ w \in Attempts(o) /\ w \notin Attempts(o)'
            => Cardinality(Attempts(o))' = Cardinality(Attempts(o)) - 1
         /\ w \notin Attempts(o) /\ w \in Attempts(o)'
            => Cardinality(Attempts(o))' = Cardinality(Attempts(o)) + 1
<1>1. IsFiniteSet(Attempts(o))
  BY FinitenessAssumption, FS_Subset DEF Attempts
<1>2. \A v \in Run \ {w} : v \in Attempts(o)' <=> v \in Attempts(o)
  BY DEF Attempts, Busy
<1>3. Attempts(o) \subseteq Run /\ Attempts(o)' \subseteq Run
  BY DEF Attempts
<1> HIDE DEF Attempts
<1>4. CASE w \in Attempts(o) <=> w \in Attempts(o)'
  <2>1. Attempts(o)' = Attempts(o)
    BY <1>2, <1>3, <1>4
  <2> QED  BY <1>1, <1>4, <2>1, FS_CardinalityType
<1>5. CASE w \in Attempts(o) /\ w \notin Attempts(o)'
  <2>1. Attempts(o)' = Attempts(o) \ {w}
    BY <1>2, <1>3, <1>5
  <2> QED  BY <1>1, <1>5, <2>1, FS_CardinalityType, FS_RemoveElement
<1>6. CASE w \notin Attempts(o) /\ w \in Attempts(o)'
  <2>1. Attempts(o)' = Attempts(o) \cup {w}
    BY <1>2, <1>3, <1>6
  <2> QED  BY <1>1, <1>6, <2>1, FS_CardinalityType, FS_AddElement
<1> QED  BY <1>4, <1>5, <1>6

\* A run that goes on with its order leaves what is held as it is.
LEMMA GoesOn ==
  ASSUME NEW w \in Run, \A v \in Run \ {w} : run'[v] = run[v],
         Busy(w), Busy(w)', run'[w].order = run[w].order
  PROVE  Held' = Held
  BY DEF Held, Busy

\* One that ends lets go of no other order.
LEMMA LetsGo ==
  ASSUME NEW w \in Run, TypeOK, Ends(w), NEW o \in Order, o # run[w].order
  PROVE  o \in Held => o \in Held'
  BY DEF Held, Busy, Ends, TypeOK

LEMMA EndsAttempt ==
  ASSUME NEW w \in Run, TypeOK, Ends(w)
  PROVE  /\ \A v \in Run \ {w} : run'[v] = run[v]
         /\ \A o \in Order : w \notin Attempts(o)'
  BY DEF Ends, TypeOK, Attempts, Busy

LEMMA BudgetInit == Init => BudgetKept
<1> SUFFICES ASSUME Init, NEW o \in Order
             PROVE  Budget(o) <= 1 + lost[o]
  BY DEF BudgetKept
<1>1. Attempts(o) = {}
  BY DEF Init, Attempts, Busy
<1>2. Cardinality(Attempts(o)) = 0
  BY <1>1, FS_EmptySet
<1>3. documents[o] = 0 /\ lost[o] = 0
  BY DEF Init
<1> QED  BY <1>2, <1>3 DEF Budget

\* A budget grows by no more than what is lost in the step.
LEMMA BudgetStep ==
  ASSUME TypeOK, TypeOK', BudgetKept, [Next]_vars
  PROVE  BudgetKept'
<1> SUFFICES ASSUME NEW o \in Order
             PROVE  Budget(o)' <= 1 + lost'[o]
  BY DEF BudgetKept
<1>a. /\ Budget(o) <= 1 + lost[o]
      /\ documents[o] \in Nat /\ lost[o] \in Nat
      /\ documents'[o] \in Nat /\ lost'[o] \in Nat
  BY DEF BudgetKept, TypeOK
<1>b. Cardinality(Attempts(o)) \in Nat
  BY FinitenessAssumption, FS_Subset, FS_CardinalityType, Attempts(o) \subseteq Run DEF Attempts
<1>c. ASSUME run' = run
      PROVE  Attempts(o)' = Attempts(o) /\ Held' = Held
  BY <1>c DEF Attempts, Busy, Held
<1>1. CASE Tick
  <2>1. Attempts(o)' = Attempts(o) /\ Held' = Held
    BY <1>1, <1>c DEF Tick
  <2>2. CASE o \in Lapsing
    BY <1>1, <1>a, <1>b, <2>1, <2>2 DEF Tick, Budget
  <2>3. CASE o \notin Lapsing
    <3>1. ASSUME Open(o)'
          PROVE  Open(o)
      <4>1. CASE o \notin DOMAIN job
        BY <1>1, <3>1, <4>1 DEF Open, Tick
      <4>2. CASE o \in DOMAIN job
        <5>1. job[o] \in Job
          BY <4>2 DEF TypeOK
        <5>2. /\ o \in DOMAIN job'
              /\ job'[o].status = job[o].status
              /\ job'[o].wait = IF job[o].wait > 0 THEN job[o].wait - 1 ELSE 0
          BY <1>1, <4>2, <5>1 DEF Tick, Job
        <5>3. job[o].wait \in Nat
          BY <5>1 DEF Job
        <5> QED  BY <2>1, <2>3, <3>1, <4>2, <5>2, <5>3 DEF Open, Lapsing
      <4> QED  BY <4>1, <4>2
    <3> QED  BY <1>1, <1>a, <1>b, <2>1, <2>3, <3>1 DEF Tick, Budget
  <2> QED  BY <2>2, <2>3
<1>2. ASSUME NEW p \in Order, EnqueueJob(p)
      PROVE  Budget(o)' <= 1 + lost'[o]
  <2>1. Attempts(o)' = Attempts(o) /\ Held' = Held
    BY <1>2, <1>c DEF EnqueueJob
  <2>2. Open(o)' => Open(o)
    <3>1. CASE o = p
      BY <1>2, <3>1 DEF EnqueueJob, Open
    <3>2. CASE o # p
      BY <1>2, <2>1, <3>2 DEF EnqueueJob, Open
    <3> QED  BY <3>1, <3>2
  <2> QED  BY <1>2, <1>a, <1>b, <2>1, <2>2 DEF EnqueueJob, Budget
<1>3. ASSUME NEW p \in Order, DeleteOrder(p)
      PROVE  Budget(o)' <= 1 + lost'[o]
  <2>1. Attempts(o)' = Attempts(o) /\ Held' = Held
    BY <1>3, <1>c DEF DeleteOrder
  <2>2. Open(o)' => Open(o)
    BY <1>3, <2>1 DEF DeleteOrder, Open, Restrict
  <2> QED  BY <1>3, <1>a, <1>b, <2>1, <2>2 DEF DeleteOrder, Budget
<1>4. ASSUME NEW w \in Run, Claim(w)
      PROVE  Budget(o)' <= 1 + lost'[o]
  <2>1. PICK p \in Order :
          /\ FirstDue(p)
          /\ job' = [job EXCEPT ![p] =
               [status |-> "processing", attempts |-> @.attempts + 1, wait |-> Lease]]
          /\ run' = [run EXCEPT ![w] =
               [stage |-> "working", order |-> p, todo |-> <<ClientOf[p]>> \o ItemsOf[p],
                absent |-> FALSE, fresh |-> {}, flushed |-> {}]]
    BY <1>4 DEF Claim
  <2>2. /\ p \in DOMAIN job
        /\ job[p].status \in {"pending", "processing"} /\ job[p].wait = 0
        /\ ~Busy(w)
    BY <1>4, <2>1 DEF Claim, FirstDue, Due
  <2>3. /\ \A v \in Run \ {w} : run'[v] = run[v]
        /\ run'[w].stage = "working" /\ run'[w].order = p /\ Busy(w)'
    BY <2>1 DEF TypeOK, Busy, Idle
  <2>4. w \notin Attempts(o)
    BY <2>2 DEF Attempts
  <2>5. CASE o = p
    <3>1. w \in Attempts(o)'
      BY <2>3, <2>5 DEF Attempts
    <3>2. Cardinality(Attempts(o))' = Cardinality(Attempts(o)) + 1
      BY <2>3, <2>4, <3>1, AttemptsOfOne
    <3>3. Open(o)
      BY <2>2, <2>5 DEF Open
    <3>4. o \in Held' /\ o \in DOMAIN job' /\ job'[o].status = "processing" /\ job'[o].wait = Lease
      BY <2>1, <2>2, <2>3, <2>5 DEF Held
    <3>5. ~Open(o)'
      BY <3>4, BoundAssumption DEF Open
    <3> QED  BY <1>4, <1>a, <1>b, <3>2, <3>3, <3>5 DEF Claim, Budget
  <2>6. CASE o # p
    <3>1. w \notin Attempts(o)'
      BY <2>3, <2>6 DEF Attempts
    <3>2. Cardinality(Attempts(o))' = Cardinality(Attempts(o))
      BY <2>3, <2>4, <3>1, AttemptsOfOne
    <3>3. o \in Held => o \in Held'
      BY <2>2, <2>3 DEF Held, Busy
    <3>4. Open(o)' => Open(o)
      BY <1>4, <2>1, <2>2, <2>6, <3>3 DEF Open, Claim
    <3> QED  BY <1>4, <1>a, <1>b, <3>2, <3>4 DEF Claim, Budget
  <2> QED  BY <2>5, <2>6
<1>5. ASSUME NEW w \in Run, Flush(w) \/ UseLink(w) \/ LookUp(w) \/ Insert(w) \/ Refuse(w)
      PROVE  Budget(o)' <= 1 + lost'[o]
  <2>1. run[w] \in Work /\ Busy(w)
    BY <1>5, Workers DEF Flush, UseLink, LookUp, Insert, Refuse, Writes, Ready, Working
  <2>2. /\ \A v \in Run \ {w} : run'[v] = run[v]
        /\ run'[w].order = run[w].order
        /\ \/ run'[w].stage = run[w].stage
           \/ run[w].stage = "working" /\ run'[w].stage = "failed"
    <3>1. CASE Flush(w)
      BY <2>1, <3>1 DEF TypeOK, Flush, Work
    <3>2. CASE UseLink(w)
      BY <2>1, <3>2 DEF TypeOK, UseLink, Work
    <3>3. CASE LookUp(w)
      BY <2>1, <3>3 DEF TypeOK, LookUp, Work
    <3>4. CASE Insert(w)
      BY <2>1, <3>4 DEF TypeOK, Insert, Ready, Working, Work
    <3>5. CASE Refuse(w)
      BY <2>1, <3>5 DEF TypeOK, Refuse, Ready, Working, Work
    <3> QED  BY <1>5, <3>1, <3>2, <3>3, <3>4, <3>5
  <2>3. run[w].stage \in {"working", "issued", "failed"} /\ Busy(w)'
    <3>1. run[w].stage \in {"working", "issued", "failed"}
      BY <2>1 DEF Work
    <3> QED  BY <2>2, <3>1 DEF Busy, Idle
  <2>4. w \in Attempts(o) <=> w \in Attempts(o)'
    BY <2>1, <2>2, <2>3 DEF Attempts
  <2>5. Cardinality(Attempts(o))' = Cardinality(Attempts(o))
    BY <2>2, <2>4, AttemptsOfOne
  <2>6. Held' = Held
    BY <2>1, <2>2, <2>3, GoesOn
  <2>7. UNCHANGED <<kept, job, documents>>
    BY <1>5 DEF Flush, UseLink, LookUp, Insert, Refuse
  <2>8. Open(o)' => Open(o)
    BY <2>6, <2>7 DEF Open
  <2>9. lost'[o] >= lost[o]
    BY <1>5, <1>a DEF Flush, UseLink, LookUp, Insert, Refuse
  <2> QED  BY <1>a, <1>b, <2>5, <2>7, <2>8, <2>9 DEF Budget
<1>6. ASSUME NEW w \in Run, Issue(w)
      PROVE  Budget(o)' <= 1 + lost'[o]
  <2>1. run[w] \in Work /\ Busy(w) /\ run[w].stage = "working"
    BY <1>6, Workers DEF Issue, Ready, Working
  <2>2. /\ \A v \in Run \ {w} : run'[v] = run[v]
        /\ run'[w].order = run[w].order
        /\ run'[w].stage \in {"issued", "failed"}
    BY <1>6, <2>1 DEF TypeOK, Issue, Work
  <2>3. Busy(w)'
    BY <2>2 DEF Busy, Idle
  <2>4. Held' = Held
    BY <2>1, <2>2, <2>3, GoesOn
  <2>5. Open(o)' => Open(o)
    BY <1>6, <2>4 DEF Open, Issue
  <2>6. CASE o # run[w].order
    <3>1. w \notin Attempts(o) /\ w \notin Attempts(o)'
      BY <2>2, <2>6 DEF Attempts
    <3>2. Cardinality(Attempts(o))' = Cardinality(Attempts(o))
      BY <2>2, <3>1, AttemptsOfOne
    <3>3. documents'[o] = documents[o] /\ lost'[o] = lost[o]
      BY <1>6, <2>6 DEF TypeOK, Issue, Loses
    <3> QED  BY <1>a, <1>b, <2>5, <3>2, <3>3 DEF Budget
  <2>7. CASE o = run[w].order
    <3>1. w \in Attempts(o)
      BY <2>1, <2>7 DEF Attempts
    <3>2. documents'[o] = documents[o] + 1
      BY <1>6, <2>7 DEF TypeOK, Issue
    <3>3. CASE run'[w].stage = "issued"
      <4>1. w \notin Attempts(o)'
        BY <3>3 DEF Attempts
      <4>2. Cardinality(Attempts(o))' = Cardinality(Attempts(o)) - 1
        BY <2>2, <3>1, <4>1, AttemptsOfOne
      <4>3. lost'[o] >= lost[o]
        BY <1>6, <1>a, <2>7 DEF TypeOK, Issue, Loses
      <4> QED  BY <1>a, <1>b, <2>5, <3>2, <4>2, <4>3 DEF Budget
    <3>4. CASE run'[w].stage = "failed"
      <4>1. w \in Attempts(o)'
        BY <2>2, <2>3, <2>7, <3>4 DEF Attempts
      <4>2. Cardinality(Attempts(o))' = Cardinality(Attempts(o))
        BY <2>2, <3>1, <4>1, AttemptsOfOne
      <4>3. run' # [run EXCEPT ![w].stage = "issued"]
        BY <2>1, <3>4 DEF TypeOK, Work
      <4>4. lost'[o] = lost[o] + 1
        BY <1>6, <1>a, <2>7, <4>3 DEF TypeOK, Issue, Loses
      <4> QED  BY <1>a, <1>b, <2>5, <3>2, <4>2, <4>4 DEF Budget
    <3> QED  BY <2>2, <3>3, <3>4
  <2> QED  BY <2>6, <2>7
<1>7. ASSUME NEW w \in Run, Clash(w) \/ Crash(w)
      PROVE  Budget(o)' <= 1 + lost'[o]
  <2>1. Busy(w) /\ Ends(w) /\ UNCHANGED <<kept, job, documents>>
    BY <1>7 DEF Clash, Crash, Conflicts, Writes
  <2>2. run[w].order \in Order /\ run[w].stage \in {"working", "issued", "failed"}
    BY <2>1, Workers
  <2>3. w \notin Attempts(o)' /\ \A v \in Run \ {w} : run'[v] = run[v]
    BY <2>1, EndsAttempt
  <2>4. \/ run[w].stage = "issued" /\ Loses(w)
        \/ run[w].stage # "issued" /\ lost' = lost
    BY <1>7, <2>2 DEF Clash, Crash, Working
  <2>5. CASE o # run[w].order
    <3>1. w \notin Attempts(o)
      BY <2>5 DEF Attempts
    <3>2. Cardinality(Attempts(o))' = Cardinality(Attempts(o))
      BY <2>3, <3>1, AttemptsOfOne
    <3>3. Open(o)' => Open(o)
      BY <2>1, <2>5, LetsGo DEF Open
    <3>4. lost'[o] = lost[o]
      BY <2>2, <2>4, <2>5, OneMoreLost
    <3> QED  BY <1>a, <1>b, <2>1, <3>2, <3>3, <3>4 DEF Budget
  \* The lease ends on a document without record, which is counted as lost ...
  <2>6. CASE o = run[w].order /\ run[w].stage = "issued"
    <3>1. w \notin Attempts(o)
      BY <2>6 DEF Attempts
    <3>2. Cardinality(Attempts(o))' = Cardinality(Attempts(o))
      BY <2>3, <3>1, AttemptsOfOne
    <3>3. lost'[o] = lost[o] + 1
      BY <2>2, <2>4, <2>6, OneMoreLost
    <3> QED  BY <1>a, <1>b, <2>1, <3>2, <3>3 DEF Budget
  \* ... or on none, or one whose answer was lost: another attempt is due instead.
  <2>7. CASE o = run[w].order /\ run[w].stage # "issued"
    <3>1. w \in Attempts(o)
      BY <2>1, <2>2, <2>7 DEF Attempts
    <3>2. Cardinality(Attempts(o))' = Cardinality(Attempts(o)) - 1
      BY <2>3, <3>1, AttemptsOfOne
    <3>3. lost'[o] = lost[o]
      BY <2>4, <2>7
    <3> QED  BY <1>a, <1>b, <2>1, <3>2, <3>3 DEF Budget
  <2> QED  BY <2>5, <2>6, <2>7
<1>8. ASSUME NEW w \in Run, Deliver(w)
      PROVE  Budget(o)' <= 1 + lost'[o]
  <2>1. Busy(w) /\ Ends(w) /\ UNCHANGED <<kept, documents>> /\ run[w].order \in Order
    BY <1>8, Workers DEF Deliver
  <2>2. w \notin Attempts(o)
    BY <1>8 DEF Deliver, Attempts
  <2>3. Cardinality(Attempts(o))' = Cardinality(Attempts(o))
    BY <2>1, <2>2, EndsAttempt, AttemptsOfOne
  <2>4. lost'[o] >= lost[o]
    BY <1>8, <1>a DEF Deliver
  <2>5. Open(o)' => Open(o)
    <3>1. CASE o # run[w].order
      <4>1. DOMAIN job' = DOMAIN job /\ (o \in DOMAIN job => job'[o] = job[o])
        BY <1>8, <3>1 DEF Deliver
      <4> QED  BY <2>1, <3>1, <4>1, LetsGo DEF Open
    <3>2. CASE o = run[w].order /\ o \in DOMAIN job
      <4>1. job[o] \in Job
        BY <3>2 DEF TypeOK
      <4>2. o \in DOMAIN job' /\ job'[o].status = "delivered"
        BY <1>8, <3>2, <4>1 DEF Deliver, Job
      <4> QED  BY <4>2 DEF Open
    <3>3. CASE o = run[w].order /\ o \notin DOMAIN job
      BY <1>8, <3>3 DEF Deliver, Open
    <3> QED  BY <3>1, <3>2, <3>3
  <2> QED  BY <1>a, <1>b, <2>1, <2>3, <2>4, <2>5 DEF Budget
<1>9. ASSUME NEW w \in Run, RecordFailure(w) \/ RecordFailureUnlinked(w)
      PROVE  Budget(o)' <= 1 + lost'[o]
  <2>1. Busy(w) /\ Ends(w) /\ UNCHANGED <<kept, documents, lost>> /\ run[w].stage = "failed"
    BY <1>9 DEF RecordFailure, RecordFailureUnlinked, Conflicts, Writes
  <2>2. CASE o # run[w].order
    <3>1. w \notin Attempts(o)
      BY <2>2 DEF Attempts
    <3>2. Cardinality(Attempts(o))' = Cardinality(Attempts(o))
      BY <2>1, <3>1, EndsAttempt, AttemptsOfOne
    <3>3. DOMAIN job' = DOMAIN job /\ (o \in DOMAIN job => job'[o] = job[o])
      BY <1>9, <2>2 DEF RecordFailure, RecordFailureUnlinked
    <3>4. Open(o)' => Open(o)
      BY <2>1, <2>2, <3>3, LetsGo DEF Open
    <3> QED  BY <1>a, <1>b, <2>1, <3>2, <3>4 DEF Budget
  <2>3. CASE o = run[w].order
    <3>1. w \in Attempts(o)
      BY <2>1, <2>3 DEF Attempts
    <3>2. Cardinality(Attempts(o))' = Cardinality(Attempts(o)) - 1
      BY <2>1, <3>1, EndsAttempt, AttemptsOfOne
    <3> QED  BY <1>a, <1>b, <2>1, <3>2 DEF Budget
  <2> QED  BY <2>2, <2>3
<1>10. CASE UNCHANGED vars
  <2>1. Attempts(o)' = Attempts(o) /\ Held' = Held
    BY <1>10, <1>c DEF vars
  <2>2. Open(o)' => Open(o)
    BY <1>10, <2>1 DEF vars, Open
  <2> QED  BY <1>10, <1>a, <1>b, <2>1, <2>2 DEF vars, Budget
<1> QED
  BY <1>1, <1>2, <1>3, <1>4, <1>5, <1>6, <1>7, <1>8, <1>9, <1>10 DEF Next, RunStep

LEMMA BudgetIsEnough ==
  ASSUME TypeOK, BudgetKept
  PROVE  DocumentsAreAccountedFor
<1> SUFFICES ASSUME NEW o \in Order
             PROVE  documents[o] <= 1 + lost[o]
  BY DEF DocumentsAreAccountedFor
<1>1. Cardinality(Attempts(o)) \in Nat
  BY FinitenessAssumption, FS_Subset, FS_CardinalityType, Attempts(o) \subseteq Run DEF Attempts
<1>2. documents[o] \in Nat /\ lost[o] \in Nat
  BY DEF TypeOK
<1> QED  BY <1>1, <1>2 DEF BudgetKept, Budget

\* No retry issues a second document at Moloni unless the first one was lost: its
\* answer, its run or commit, or its lease; for any number of runs, attempts and
\* faults.
THEOREM DocumentsAlwaysAccountedFor == Spec => []DocumentsAreAccountedFor
<1>1. Init => DocumentInv
  BY TypeInit, BudgetInit DEF DocumentInv
<1>2. DocumentInv /\ [Next]_vars => DocumentInv'
  BY TypeStep, BudgetStep DEF DocumentInv
<1>3. DocumentInv => DocumentsAreAccountedFor
  BY BudgetIsEnough DEF DocumentInv
<1> QED  BY <1>1, <1>2, <1>3, PTL DEF Spec

=============================================================================
