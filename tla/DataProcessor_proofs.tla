------------------------ MODULE DataProcessor_proofs ------------------------
(***************************************************************************)
(* Proofs, for any number of queues, of threads of each, of pushers and of *)
(* items, that a stage never processes the item of a closed queue, that no *)
(* wake-up is lost, and that each of its steps is one of the abstract work *)
(* queue or changes nothing there.                                         *)
(***************************************************************************)
EXTENDS DataProcessor, TLAPS, SequenceTheorems

-----------------------------------------------------------------------------
(* The strengthening.  A pusher that is to push holds an item.             *)
PushersHold == \A p \in Pusher : ppc[p] = "push" => pdata[p] \in Data

(* The order of Run and Close: no thread exists before Run, a queue is     *)
(* closed only when on_run_ has been false, and a thread that got nothing  *)
(* from Pop had a closed queue.                                            *)
ClosedInOrder ==
  /\ cpc = "open" /\ ~on_run => \A t \in Thread : pc[t] = "none"
  /\ cpc # "open" => ~on_run
  /\ \A q \in Queue : close_flag[q] => cpc # "open"
  /\ \A t \in Thread : pc[t] = "check" /\ data[t] = NoData => close_flag[t[1]]

IInv == TypeOK /\ PushersHold /\ ClosedInOrder /\ NoPhantomProcess /\ NoLostWakeup

USE DEF Thread

LEMMA QueueOfThread == \A t \in Thread : t[1] \in Queue
  OBVIOUS

(* Every queue has a thread: ThrN is not 0.                                *)
LEMMA Served == \A q \in Queue : <<q, 1>> \in Thread /\ <<q, 1>>[1] = q
  BY SizeAssumption

LEMMA Popped == ASSUME NEW S, NEW s \in Seq(S), s # <<>>
                PROVE  Head(s) \in S /\ Tail(s) \in Seq(S)
  BY HeadTailProperties

LEMMA InitHolds == Init => IInv
  <1> SUFFICES ASSUME Init PROVE IInv
    OBVIOUS
  <1>1. 0 \in Queue
    BY SizeAssumption DEF Queue
  <1>2. TypeOK
    BY <1>1, EmptySeq DEF Init, TypeOK
  <1>3. PushersHold /\ ClosedInOrder /\ NoPhantomProcess /\ NoLostWakeup
    BY DEF Init, PushersHold, ClosedInOrder, NoPhantomProcess, NoLostWakeup
  <1> QED BY <1>2, <1>3 DEF IInv

-----------------------------------------------------------------------------
(* One lemma per action: the invariant survives it.                        *)
LEMMA RunHolds == ASSUME IInv, Run PROVE IInv'
  <1> USE DEF IInv, Run, pusherVars, closerVars
  <1>1. TypeOK'
    BY DEF TypeOK
  <1>2. PushersHold'
    BY DEF PushersHold
  <1>3. ClosedInOrder'
    BY DEF ClosedInOrder, TypeOK
  <1>4. NoPhantomProcess'
    BY DEF NoPhantomProcess
  <1>5. NoLostWakeup'
    BY Served DEF NoLostWakeup
  <1> QED BY <1>1, <1>2, <1>3, <1>4, <1>5

LEMMA PushDataHolds ==
  ASSUME IInv, NEW p \in Pusher, PushData(p) PROVE IInv'
  <1> USE DEF IInv, threadVars, closerVars
  <1>1. PICK d \in fresh, q \in Queue :
          /\ ppc[p] = "idle"
          /\ fresh' = fresh \ {d}
          /\ \/ /\ ppc' = [ppc EXCEPT ![p] = "push"]
                /\ pdata' = [pdata EXCEPT ![p] = d]
                /\ pqid' = [pqid EXCEPT ![p] = q]
             \/ UNCHANGED <<ppc, pdata, pqid>>
          /\ UNCHANGED <<on_run, data_queue, close_flag, threadVars, closerVars>>
    BY DEF PushData
  <1>2. d \in Data
    BY DEF TypeOK
  <1>3. TypeOK'
    <2>1. /\ ppc' \in [Pusher -> {"idle", "push", "notify"}]
          /\ pdata' \in [Pusher -> Data \cup {NoData}]
          /\ pqid' \in [Pusher -> Queue]
      <3>1. CASE UNCHANGED <<ppc, pdata, pqid>>
        BY <3>1 DEF TypeOK
      <3>2. CASE /\ ppc' = [ppc EXCEPT ![p] = "push"]
                 /\ pdata' = [pdata EXCEPT ![p] = d]
                 /\ pqid' = [pqid EXCEPT ![p] = q]
        BY <1>2, <3>2 DEF TypeOK
      <3> QED BY <1>1, <3>1, <3>2
    <2>2. fresh' \in SUBSET Data
      BY <1>1 DEF TypeOK
    <2> QED BY <1>1, <2>1, <2>2 DEF TypeOK
  <1>4. PushersHold'
    BY <1>1, <1>2 DEF PushersHold, TypeOK
  <1>5. ClosedInOrder'
    BY <1>1 DEF ClosedInOrder
  <1>6. NoPhantomProcess'
    BY <1>1 DEF NoPhantomProcess
  <1>7. NoLostWakeup'
    BY <1>1 DEF NoLostWakeup, TypeOK
  <1> QED BY <1>3, <1>4, <1>5, <1>6, <1>7

LEMMA PushLockedHolds ==
  ASSUME IInv, NEW p \in Pusher, PushLocked(p) PROVE IInv'
  <1> USE DEF IInv, PushLocked, threadVars, closerVars
  <1>1. pdata[p] \in Data /\ pqid[p] \in Queue
    BY DEF PushersHold, TypeOK
  <1>2. Append(data_queue[pqid[p]], pdata[p]) \in Seq(Data)
    BY <1>1, AppendProperties DEF TypeOK
  <1>3. TypeOK'
    BY <1>1, <1>2 DEF TypeOK
  <1>4. PushersHold'
    BY DEF PushersHold, TypeOK
  <1>5. ClosedInOrder'
    BY DEF ClosedInOrder
  <1>6. NoPhantomProcess'
    BY DEF NoPhantomProcess
  <1>7. NoLostWakeup'
    BY <1>1 DEF NoLostWakeup, TypeOK
  <1> QED BY <1>3, <1>4, <1>5, <1>6, <1>7

(* The step that NoLostWakeup is about: the only pusher that was to notify *)
(* the queue wakes one of its threads, all of which sleep.                 *)
LEMMA NotifyOneHolds ==
  ASSUME IInv, NEW p \in Pusher, NotifyOne(p) PROVE IInv'
  <1> USE DEF IInv, NotifyOne, closerVars
  <1>1. TypeOK'
    BY DEF TypeOK, Waiting
  <1>2. PushersHold'
    BY DEF PushersHold, TypeOK
  <1>3. ClosedInOrder' /\ NoPhantomProcess'
    BY DEF ClosedInOrder, NoPhantomProcess, Waiting, TypeOK
  <1>4. NoLostWakeup'
    <2> SUFFICES ASSUME NEW q \in Queue,
                        data_queue[q] # <<>>, ~close_flag[q],
                        \A t \in Thread : t[1] = q => pc'[t] = "wait"
                 PROVE  \E r \in Pusher : ppc'[r] = "notify" /\ pqid[r] = q
      BY DEF NoLostWakeup
    <2>1. \A t \in Thread : t[1] = q => pc[t] = "wait"
      BY DEF TypeOK, Waiting
    <2>2. PICK r \in Pusher : ppc[r] = "notify" /\ pqid[r] = q
      BY <2>1 DEF NoLostWakeup
    <2>3. CASE pqid[p] = q
      <3>1. <<q, 1>> \in Waiting(q)
        BY <2>1, Served DEF Waiting
      <3>2. PICK t \in Waiting(q) : pc' = [pc EXCEPT ![t] = "pop"]
        BY <2>3, <3>1
      <3> QED BY <3>2 DEF Waiting, TypeOK
    <2>4. CASE pqid[p] # q
      BY <2>2, <2>4 DEF TypeOK
    <2> QED BY <2>3, <2>4
  <1> QED BY <1>1, <1>2, <1>3, <1>4

(* A thread that goes on to another point, except to sleep or from a Pop,  *)
(* neither empties a queue nor joins the sleepers.                         *)
LEMMA ThreadMoves ==
  ASSUME IInv, NEW t \in Thread, NEW there \in {"loop", "pop", "done"},
         pc[t] # "none", pc' = [pc EXCEPT ![t] = there],
         data' \in {data, [data EXCEPT ![t] = NoData]},
         UNCHANGED <<on_run, data_queue, close_flag, pusherVars, closerVars>>
  PROVE  IInv'
  <1> USE DEF IInv, pusherVars, closerVars
  <1>1. TypeOK'
    BY DEF TypeOK
  <1>2. PushersHold'
    BY DEF PushersHold
  <1>3. ClosedInOrder'
    BY DEF ClosedInOrder, TypeOK
  <1>4. NoPhantomProcess'
    BY DEF NoPhantomProcess, TypeOK
  <1>5. NoLostWakeup'
    <2>1. \A u \in Thread : pc'[u] = "wait" => pc[u] = "wait"
      BY DEF TypeOK
    <2> QED BY <2>1 DEF NoLostWakeup
  <1> QED BY <1>1, <1>2, <1>3, <1>4, <1>5

LEMMA LoopHolds == ASSUME IInv, NEW t \in Thread, Loop(t) PROVE IInv'
  <1>1. PICK there \in {"pop", "done"} : pc' = [pc EXCEPT ![t] = there]
    BY DEF Loop
  <1> QED BY <1>1, ThreadMoves DEF Loop

LEMMA SpuriousWakeHolds ==
  ASSUME IInv, NEW t \in Thread, SpuriousWake(t) PROVE IInv'
  BY ThreadMoves DEF SpuriousWake

LEMMA ProcessHolds == ASSUME IInv, NEW t \in Thread, Process(t) PROVE IInv'
  BY ThreadMoves DEF Process

LEMMA PopHolds == ASSUME IInv, NEW t \in Thread, Pop(t) PROVE IInv'
  <1> USE DEF IInv, pusherVars, closerVars
  <1> DEFINE q == t[1]
  <1>0. q \in Queue /\ pc[t] = "pop"
    BY QueueOfThread DEF Pop
  <1>1. CASE /\ close_flag[q]
             /\ data' = [data EXCEPT ![t] = NoData]
             /\ pc' = [pc EXCEPT ![t] = "check"]
             /\ UNCHANGED data_queue
    <2>1. TypeOK'
      BY <1>1 DEF TypeOK, Pop
    <2>2. PushersHold' /\ ClosedInOrder' /\ NoPhantomProcess'
      BY <1>0, <1>1 DEF PushersHold, ClosedInOrder, NoPhantomProcess, TypeOK, Pop
    <2>3. NoLostWakeup'
      <3> SUFFICES ASSUME NEW r \in Queue, data_queue[r] # <<>>, ~close_flag[r],
                          \A u \in Thread : u[1] = r => pc'[u] = "wait"
                   PROVE  \E p \in Pusher : ppc[p] = "notify" /\ pqid[p] = r
        BY <1>1 DEF NoLostWakeup, Pop
      <3>1. r # q
        BY <1>1
      <3> QED BY <1>1, <3>1 DEF NoLostWakeup, TypeOK
    <2> QED BY <2>1, <2>2, <2>3
  <1>2. CASE /\ ~close_flag[q] /\ data_queue[q] # <<>>
             /\ data' = [data EXCEPT ![t] = Head(data_queue[q])]
             /\ data_queue' = [data_queue EXCEPT ![q] = Tail(@)]
             /\ pc' = [pc EXCEPT ![t] = "check"]
    <2>1. Head(data_queue[q]) \in Data /\ Tail(data_queue[q]) \in Seq(Data)
      BY <1>0, <1>2, Popped DEF TypeOK
    <2>2. TypeOK'
      BY <1>0, <1>2, <2>1 DEF TypeOK, Pop
    <2>3. PushersHold' /\ ClosedInOrder' /\ NoPhantomProcess'
      BY <1>0, <1>2, <2>1, NoDataAssumption
      DEF PushersHold, ClosedInOrder, NoPhantomProcess, TypeOK, Pop
    <2>4. NoLostWakeup'
      <3> SUFFICES ASSUME NEW r \in Queue, data_queue'[r] # <<>>, ~close_flag[r],
                          \A u \in Thread : u[1] = r => pc'[u] = "wait"
                   PROVE  \E p \in Pusher : ppc[p] = "notify" /\ pqid[p] = r
        BY <1>0 DEF NoLostWakeup, Pop
      <3>1. pc'[t] = "check" /\ \A u \in Thread : u # t => pc'[u] = pc[u]
        BY <1>2 DEF TypeOK
      <3>2. r # q
        BY <3>1
      <3>3. data_queue[r] # <<>>
        BY <1>2, <3>2 DEF TypeOK
      <3>4. \A u \in Thread : u[1] = r => pc[u] = "wait"
        BY <3>1, <3>2
      <3> QED BY <3>3, <3>4 DEF NoLostWakeup
    <2> QED BY <2>2, <2>3, <2>4
  <1>3. CASE /\ data_queue[q] = <<>>
             /\ pc' = [pc EXCEPT ![t] = "wait"]
             /\ UNCHANGED <<data, data_queue>>
    <2>1. TypeOK'
      BY <1>3 DEF TypeOK, Pop
    <2>2. PushersHold' /\ ClosedInOrder' /\ NoPhantomProcess'
      BY <1>0, <1>3 DEF PushersHold, ClosedInOrder, NoPhantomProcess, TypeOK, Pop
    <2>3. NoLostWakeup'
      <3> SUFFICES ASSUME NEW r \in Queue, data_queue[r] # <<>>, ~close_flag[r],
                          \A u \in Thread : u[1] = r => pc'[u] = "wait"
                   PROVE  \E p \in Pusher : ppc[p] = "notify" /\ pqid[p] = r
        BY <1>3 DEF NoLostWakeup, Pop
      <3>1. r # q
        BY <1>3
      <3> QED BY <1>3, <3>1 DEF NoLostWakeup, TypeOK
    <2> QED BY <2>1, <2>2, <2>3
  <1> QED BY <1>1, <1>2, <1>3 DEF Pop

(* A thread with Data() reads on_run_ after the closer wrote it: it never  *)
(* goes on to Process.                                                     *)
LEMMA CheckHolds == ASSUME IInv, NEW t \in Thread, Check(t) PROVE IInv'
  <1>1. PICK running \in Reads(data[t] = NoData) :
          /\ pc' = [pc EXCEPT ![t] = IF running THEN "process" ELSE "done"]
          /\ data' = [data EXCEPT ![t] = IF running THEN @ ELSE NoData]
    BY DEF Check
  <1>2. CASE running
    <2> USE DEF IInv, pusherVars, closerVars
    <2>1. data[t] # NoData
      <3>1. SUFFICES ASSUME data[t] = NoData PROVE FALSE
        OBVIOUS
      <3>2. close_flag[t[1]]
        BY <3>1 DEF Check, ClosedInOrder
      <3>3. cpc # "open" /\ ~on_run
        BY <3>2, QueueOfThread DEF ClosedInOrder
      <3> QED BY <1>1, <1>2, <3>1, <3>3 DEF Reads
    <2>2. pc' = [pc EXCEPT ![t] = "process"] /\ data' = data
      BY <1>1, <1>2 DEF TypeOK
    <2>3. TypeOK' /\ PushersHold'
      BY <2>2 DEF Check, TypeOK, PushersHold
    <2>4. ClosedInOrder' /\ NoPhantomProcess'
      BY <2>1, <2>2 DEF Check, ClosedInOrder, NoPhantomProcess, TypeOK
    <2>5. NoLostWakeup'
      BY <2>2 DEF Check, NoLostWakeup, TypeOK
    <2> QED BY <2>3, <2>4, <2>5
  <1>3. CASE ~running
    BY <1>1, <1>3, ThreadMoves DEF Check
  <1> QED BY <1>2, <1>3

LEMMA CloseHolds == ASSUME IInv, Close PROVE IInv'
  <1> USE DEF IInv, Close, threadVars, pusherVars
  <1>0. 0 \in Queue
    BY SizeAssumption DEF Queue
  <1>1. TypeOK'
    BY <1>0 DEF TypeOK
  <1>2. PushersHold' /\ ClosedInOrder' /\ NoPhantomProcess'
    BY DEF PushersHold, ClosedInOrder, NoPhantomProcess
  <1>3. NoLostWakeup'
    BY DEF NoLostWakeup
  <1> QED BY <1>1, <1>2, <1>3

LEMMA CloserStepHolds == ASSUME IInv, CloserStep PROVE IInv'
  <1> USE DEF IInv, threadVars, pusherVars
  <1>1. CASE CloseQueue
    <2>1. TypeOK'
      BY <1>1 DEF TypeOK, CloseQueue
    <2>2. PushersHold' /\ ClosedInOrder' /\ NoPhantomProcess'
      BY <1>1, QueueOfThread
      DEF PushersHold, ClosedInOrder, NoPhantomProcess, TypeOK, CloseQueue
    <2>3. NoLostWakeup'
      BY <1>1 DEF NoLostWakeup, TypeOK, CloseQueue
    <2> QED BY <2>1, <2>2, <2>3
  <1>2. CASE NotifyAll
    <2>1. cpc' \in {"join", "close"} /\ cq' \in Queue
      BY <1>2, SizeAssumption DEF NotifyAll, NextQueue, TypeOK, Queue
    <2>2. TypeOK'
      BY <1>2, <2>1 DEF TypeOK, NotifyAll, Waiting
    <2>3. PushersHold' /\ ClosedInOrder' /\ NoPhantomProcess'
      BY <1>2, <2>1
      DEF PushersHold, ClosedInOrder, NoPhantomProcess, TypeOK, NotifyAll, Waiting
    <2>4. NoLostWakeup'
      BY <1>2 DEF NoLostWakeup, TypeOK, NotifyAll, Waiting
    <2> QED BY <2>2, <2>3, <2>4
  <1>3. CASE Join
    <2>1. TypeOK' /\ PushersHold' /\ ClosedInOrder' /\ NoPhantomProcess'
      BY <1>3 DEF TypeOK, PushersHold, ClosedInOrder, NoPhantomProcess, Join
    <2>2. NoLostWakeup'
      BY <1>3 DEF NoLostWakeup, Join
    <2> QED BY <2>1, <2>2
  <1> QED BY <1>1, <1>2, <1>3 DEF CloserStep

LEMMA NextHolds == IInv /\ [Next]_vars => IInv'
  <1> SUFFICES ASSUME IInv, [Next]_vars PROVE IInv'
    OBVIOUS
  <1>1. CASE UNCHANGED vars
    BY <1>1 DEF vars, threadVars, pusherVars, closerVars, IInv, TypeOK, PushersHold,
                ClosedInOrder, NoPhantomProcess, NoLostWakeup
  <1>2. CASE Next
    BY <1>2, RunHolds, CloseHolds, CloserStepHolds, PushDataHolds, PushLockedHolds,
       NotifyOneHolds, LoopHolds, PopHolds, CheckHolds, ProcessHolds, SpuriousWakeHolds
    DEF Next, PusherStep, ThreadStep
  <1> QED BY <1>1, <1>2

THEOREM Invariance == Spec => []IInv
  BY InitHolds, NextHolds, PTL DEF Spec

(* DataProcessor<Data>, for any numbers of queues, threads, pushers and    *)
(* items: every variable keeps its type, the items of the queues included. *)
THEOREM TypeCorrect == Spec => []TypeOK
  BY Invariance, PTL DEF IInv

(* Run (data_processor-inl.hh): Process is never called on the item that   *)
(* Pop returns from a closed queue.                                        *)
THEOREM NoPhantom == Spec => []NoPhantomProcess
  BY Invariance, PTL DEF IInv

(* PushData notifies after it has unlocked (waiting_queue-inl.hh): still,  *)
(* an item never lies in an open queue all of whose threads sleep, unless  *)
(* its notification is to come.                                            *)
THEOREM WakeupsKept == Spec => []NoLostWakeup
  BY Invariance, PTL DEF IInv

-----------------------------------------------------------------------------
(* The refinement, step by step.  Under the mapping of Abstract a thread   *)
(* is busy from the Pop that gives it an item until it has processed it,   *)
(* or has found the stage closed.                                          *)
Held == [t \in Thread |-> Holding(t)]

AbstractStep == [Abstract!Next]_(Abstract!vars)

(* A step that leaves the queues, what is held and whether the stage is    *)
(* open as they were is no step of the abstract queue.                     *)
LEMMA Stutters ==
  ASSUME data_queue' = data_queue, (cpc' = "open") <=> (cpc = "open"),
         \A t \in Thread : Holding(t)' = Holding(t)
  PROVE  AbstractStep
  <1>1. Held' = Held
    BY DEF Held
  <1>2. (cpc' = "open") = (cpc = "open")
    OBVIOUS
  <1> QED BY <1>1, <1>2 DEF AbstractStep, Abstract!vars, Held

LEMMA InitMaps == Init => Abstract!Init
  BY DEF Init, Abstract!Init, Holding

LEMMA RunMaps == ASSUME IInv, Run PROVE AbstractStep
  <1>1. \A t \in Thread : Holding(t)' = Holding(t)
    BY DEF IInv, ClosedInOrder, Holding, Run
  <1> QED BY <1>1, Stutters DEF Run, closerVars

LEMMA PushLockedMaps ==
  ASSUME IInv, NEW p \in Pusher, PushLocked(p) PROVE AbstractStep
  <1>1. pqid[p] \in Queue /\ pdata[p] \in Data
    BY DEF IInv, TypeOK, PushersHold, PushLocked
  <1>2. Held' = Held /\ cpc' = cpc
    BY DEF PushLocked, Held, Holding, threadVars, closerVars
  <1>3. Abstract!Submit(pqid[p], pdata[p])
    BY <1>2 DEF Abstract!Submit, PushLocked, Held
  <1> QED BY <1>1, <1>3 DEF AbstractStep, Abstract!Next

LEMMA NotifyOneMaps ==
  ASSUME IInv, NEW p \in Pusher, NotifyOne(p) PROVE AbstractStep
  <1>1. \A t \in Thread : Holding(t)' = Holding(t)
    BY DEF IInv, TypeOK, NotifyOne, Waiting, Holding
  <1> QED BY <1>1, Stutters DEF NotifyOne, closerVars

(* Only the locked section of Pop with an item takes it; with a closed     *)
(* queue, and on the way to sleep, the thread holds nothing.               *)
LEMMA PopMaps == ASSUME IInv, NEW t \in Thread, Pop(t) PROVE AbstractStep
  <1> USE DEF IInv, TypeOK
  <1> DEFINE q == t[1]
  <1>1. q \in Queue /\ pc[t] = "pop" /\ QueueOf[t] = q /\ cpc' = cpc
    BY QueueOfThread DEF Pop, QueueOf, closerVars
  <1>2. CASE \/ /\ data' = [data EXCEPT ![t] = NoData]
                /\ pc' = [pc EXCEPT ![t] = "check"]
                /\ UNCHANGED data_queue
             \/ /\ pc' = [pc EXCEPT ![t] = "wait"]
                /\ UNCHANGED <<data, data_queue>>
    <2>1. \A u \in Thread : Holding(u)' = Holding(u)
      BY <1>1, <1>2 DEF Holding
    <2> QED BY <1>1, <1>2, <2>1, Stutters
  <1>3. CASE /\ data_queue[q] # <<>>
             /\ data' = [data EXCEPT ![t] = Head(data_queue[q])]
             /\ data_queue' = [data_queue EXCEPT ![q] = Tail(@)]
             /\ pc' = [pc EXCEPT ![t] = "check"]
    <2>1. Held[t] = NoData
      BY <1>1 DEF Held, Holding
    <2>2. Held' = [Held EXCEPT ![t] = Head(data_queue[q])]
      BY <1>1, <1>3 DEF Held, Holding
    <2>3. Abstract!Take(t)
      BY <1>1, <1>3, <2>1, <2>2 DEF Abstract!Take, Held
    <2> QED BY <2>3 DEF AbstractStep, Abstract!Next
  <1> QED BY <1>2, <1>3 DEF Pop

(* A thread that gives its item up, processed or not, finishes it.         *)
LEMMA Finishes ==
  ASSUME TypeOK, NEW t \in Thread, NEW there \in {"loop", "done"},
         pc[t] \in {"check", "process"}, data[t] # NoData,
         pc' = [pc EXCEPT ![t] = there], data' = [data EXCEPT ![t] = NoData],
         data_queue' = data_queue, cpc' = cpc
  PROVE  AbstractStep
  <1>1. Held[t] # NoData
    BY DEF Held, Holding
  <1>2. Held' = [Held EXCEPT ![t] = NoData]
    BY DEF Held, Holding, TypeOK
  <1>3. Abstract!Finish(t)
    BY <1>1, <1>2 DEF Abstract!Finish, Held
  <1> QED BY <1>3 DEF AbstractStep, Abstract!Next

LEMMA CheckMaps == ASSUME IInv, NEW t \in Thread, Check(t) PROVE AbstractStep
  <1> USE DEF IInv
  <1>1. PICK running \in Reads(data[t] = NoData) :
          /\ pc' = [pc EXCEPT ![t] = IF running THEN "process" ELSE "done"]
          /\ data' = [data EXCEPT ![t] = IF running THEN @ ELSE NoData]
    BY DEF Check
  <1>2. data_queue' = data_queue /\ cpc' = cpc /\ pc[t] = "check"
    BY DEF Check, closerVars
  <1>3. CASE running \/ data[t] = NoData
    <2>1. \A u \in Thread : Holding(u)' = Holding(u)
      BY <1>1, <1>2, <1>3 DEF Holding, TypeOK
    <2> QED BY <1>2, <2>1, Stutters
  <1>4. CASE ~running /\ data[t] # NoData
    <2>1. pc' = [pc EXCEPT ![t] = "done"] /\ data' = [data EXCEPT ![t] = NoData]
      BY <1>1, <1>4
    <2> QED BY <1>2, <1>4, <2>1, Finishes
  <1> QED BY <1>3, <1>4

LEMMA ProcessMaps == ASSUME IInv, NEW t \in Thread, Process(t) PROVE AbstractStep
  <1>1. pc[t] = "process" /\ data[t] # NoData
    BY DEF IInv, NoPhantomProcess, Process
  <1>2. data_queue' = data_queue /\ cpc' = cpc
    BY DEF Process, closerVars
  <1>3. pc' = [pc EXCEPT ![t] = "loop"] /\ data' = [data EXCEPT ![t] = NoData]
    BY DEF Process
  <1> QED BY <1>1, <1>2, <1>3, Finishes DEF IInv

LEMMA CloserMaps == ASSUME IInv, Close \/ CloserStep PROVE AbstractStep
  <1>1. CASE Close
    <2>1. Held' = Held
      BY <1>1 DEF Held, Holding, Close, threadVars
    <2>2. Abstract!Shut
      BY <1>1, <2>1 DEF Abstract!Shut, Held, Close
    <2> QED BY <2>2 DEF AbstractStep, Abstract!Next
  <1>2. CASE CloserStep
    <2>1. \A t \in Thread : Holding(t)' = Holding(t)
      BY <1>2 DEF CloserStep, CloseQueue, NotifyAll, Join, Waiting, Holding, threadVars,
                  IInv, TypeOK
    <2>2. data_queue' = data_queue /\ cpc # "open" /\ cpc' # "open"
      BY <1>2 DEF CloserStep, CloseQueue, NotifyAll, NextQueue, Join
    <2> QED BY <2>1, <2>2, Stutters
  <1> QED BY <1>1, <1>2

LEMMA OthersMap ==
  ASSUME IInv, \/ UNCHANGED vars
               \/ \E p \in Pusher : PushData(p)
               \/ \E t \in Thread : Loop(t) \/ SpuriousWake(t)
  PROVE  AbstractStep
  <1>1. \A t \in Thread : Holding(t)' = Holding(t)
    BY DEF Holding, PushData, Loop, SpuriousWake, vars, threadVars, IInv, TypeOK
  <1>2. data_queue' = data_queue /\ cpc' = cpc
    BY DEF PushData, Loop, SpuriousWake, vars, closerVars
  <1> QED BY <1>1, <1>2, Stutters

(* Items are handed to the threads of their queue in the order of their    *)
(* submission, each to one thread: whatever the threads, the pushers and   *)
(* Close do, every step of a DataProcessor is one of the abstract work     *)
(* queue or changes nothing there.  (That no item waits for ever is the    *)
(* fairness part of ImplementsWorkQueue.)                                  *)
THEOREM StepsImplement == Spec => Abstract!Init /\ [][Abstract!Next]_(Abstract!vars)
  <1>1. IInv /\ [Next]_vars => AbstractStep
    BY RunMaps, CloserMaps, PushLockedMaps, NotifyOneMaps, PopMaps, CheckMaps,
       ProcessMaps, OthersMap
    DEF Next, PusherStep, ThreadStep
  <1> QED BY <1>1, InitMaps, Invariance, PTL DEF Spec, AbstractStep
=============================================================================
