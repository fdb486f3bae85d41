---------------------------- MODULE DataProcessor ----------------------------
(***************************************************************************)
(* The stage of the repair pipeline: DataProcessor<Data>, its QueueN       *)
(* WaitingQueues and the ThrN threads that serve each of them.             *)
(*                                                                         *)
(* A critical section of a WaitingQueue's mutex is one step; whatever the  *)
(* code does outside it (the test of on_run_, notify_one after the unlock, *)
(* Process) is a step of its own, so that everything may happen in         *)
(* between.  A thread blocked on cv_ is at "wait"; being notified, or      *)
(* woken spuriously, sends it back to the test under the mutex.            *)
(*                                                                         *)
(* on_run_ is a plain bool that Close writes while the threads read it: a  *)
(* data race.  A reader may still see TRUE after Close wrote FALSE, until  *)
(* it has entered the critical section of a queue Close had left: that     *)
(* orders the write before the read.  Reads states what it may see.        *)
(***************************************************************************)
EXTENDS Integers, Sequences

CONSTANTS QueueN,  \* queue_n_
          ThrN,    \* thr_n_: threads of each queue
          Pusher,  \* threads of other stages that call PushData
          Data,    \* what they push; each item is pushed at most once
          NoData   \* the value-initialised Data() a closed queue returns

ASSUME SizeAssumption == QueueN \in Nat \ {0} /\ ThrN \in Nat \ {0}
ASSUME NoDataAssumption == NoData \notin Data

Queue   == 0 .. QueueN - 1
Thread  == Queue \X (1 .. ThrN)
QueueOf == [t \in Thread |-> t[1]]

VARIABLES on_run,     \* on_run_
          data_queue, \* data_queue_ of each WaitingQueue
          close_flag, \* close_flag_ of each WaitingQueue
          pc, data,   \* control point and local `data` of each thread
          ppc, pdata, pqid, \* the same for the callers of PushData
          fresh,      \* the items no one has pushed yet
          cpc, cq     \* control point of Close and its loop index i

threadVars == <<pc, data>>
pusherVars == <<ppc, pdata, pqid, fresh>>
closerVars == <<cpc, cq>>
vars == <<on_run, data_queue, close_flag, threadVars, pusherVars, closerVars>>

Init == /\ on_run = FALSE
        /\ data_queue = [q \in Queue |-> <<>>]
        /\ close_flag = [q \in Queue |-> FALSE]
        /\ pc = [t \in Thread |-> "none"]
        /\ data = [t \in Thread |-> NoData]
        /\ ppc = [p \in Pusher |-> "idle"]
        /\ pdata = [p \in Pusher |-> NoData]
        /\ pqid = [p \in Pusher |-> 0]
        /\ fresh = Data
        /\ cpc = "open" /\ cq = 0

-----------------------------------------------------------------------------
(* Run: on_run_ is set before the first thread is started.  A thread that  *)
(* is started later than the others is one that takes its first step later. *)
Run == /\ cpc = "open" /\ ~on_run
       /\ on_run' = TRUE
       /\ pc' = [t \in Thread |-> "loop"]
       /\ UNCHANGED <<data_queue, close_flag, data, pusherVars, closerVars>>

-----------------------------------------------------------------------------
(* What a read of on_run_ may see; ordered tells that the reader has       *)
(* synchronised with Close through the mutex of a closed queue.            *)
Reads(ordered) == {on_run} \cup (IF cpc = "open" \/ ordered THEN {} ELSE {TRUE})

(* PushData.  Distribute is the subclass's: any queue it may name.  When   *)
(* it names none (queue_n_) PushData calls itself again, which is a step   *)
(* that changes nothing.  Once on_run_ is false the item is dropped.       *)
PushData(p) == \E d \in fresh, q \in Queue :
  /\ ppc[p] = "idle"
  /\ fresh' = fresh \ {d}
  /\ \E running \in Reads(FALSE) :
     IF running
     THEN /\ ppc' = [ppc EXCEPT ![p] = "push"]
          /\ pdata' = [pdata EXCEPT ![p] = d]
          /\ pqid' = [pqid EXCEPT ![p] = q]
     ELSE UNCHANGED <<ppc, pdata, pqid>>
  /\ UNCHANGED <<on_run, data_queue, close_flag, threadVars, closerVars>>

PushLocked(p) ==
  /\ ppc[p] = "push"
  /\ data_queue' = [data_queue EXCEPT ![pqid[p]] = Append(@, pdata[p])]
  /\ ppc' = [ppc EXCEPT ![p] = "notify"]
  /\ UNCHANGED <<on_run, close_flag, threadVars, pdata, pqid, fresh, closerVars>>

(* Seeded fault: the pusher returns without notifying anyone. *)
NotifyNobody(p) ==
  /\ ppc[p] = "notify"
  /\ ppc' = [ppc EXCEPT ![p] = "idle"]
  /\ pdata' = [pdata EXCEPT ![p] = NoData]
  /\ UNCHANGED <<on_run, data_queue, close_flag, threadVars, pqid, fresh, closerVars>>

Waiting(q) == {t \in Thread : t[1] = q /\ pc[t] = "wait"}

NotifyOne(p) ==
  /\ ppc[p] = "notify"
  /\ IF Waiting(pqid[p]) = {} THEN UNCHANGED pc
     ELSE \E t \in Waiting(pqid[p]) : pc' = [pc EXCEPT ![t] = "pop"]
  /\ ppc' = [ppc EXCEPT ![p] = "idle"]
  /\ pdata' = [pdata EXCEPT ![p] = NoData]
  /\ UNCHANGED <<on_run, data_queue, close_flag, data, pqid, fresh, closerVars>>

-----------------------------------------------------------------------------
(* The loop of a thread: while (on_run_) { Pop; if (!on_run_) break; Process } *)
Loop(t) == /\ pc[t] = "loop"
           /\ \E running \in Reads(FALSE) :
                pc' = [pc EXCEPT ![t] = IF running THEN "pop" ELSE "done"]
           /\ UNCHANGED <<on_run, data_queue, close_flag, data, pusherVars, closerVars>>

(* Seeded fault: front() without pop(). *)
PopKeeps(t) == LET q == t[1] IN
  /\ pc[t] = "pop"
  /\ \/ /\ close_flag[q] /\ data' = [data EXCEPT ![t] = NoData]
        /\ pc' = [pc EXCEPT ![t] = "check"]
     \/ /\ ~close_flag[q] /\ data_queue[q] # <<>>
        /\ data' = [data EXCEPT ![t] = Head(data_queue[q])]
        /\ pc' = [pc EXCEPT ![t] = "check"]
     \/ /\ ~close_flag[q] /\ data_queue[q] = <<>>
        /\ pc' = [pc EXCEPT ![t] = "wait"] /\ UNCHANGED data
  /\ UNCHANGED <<on_run, data_queue, close_flag, pusherVars, closerVars>>

(* Pop: a closed queue yields Data() even when it still holds items. *)
Pop(t) == LET q == t[1] IN
  /\ pc[t] = "pop"
  /\ \/ /\ close_flag[q]
        /\ data' = [data EXCEPT ![t] = NoData]
        /\ pc' = [pc EXCEPT ![t] = "check"]
        /\ UNCHANGED data_queue
     \/ /\ ~close_flag[q] /\ data_queue[q] # <<>>
        /\ data' = [data EXCEPT ![t] = Head(data_queue[q])]
        /\ data_queue' = [data_queue EXCEPT ![q] = Tail(@)]
        /\ pc' = [pc EXCEPT ![t] = "check"]
     \/ /\ ~close_flag[q] /\ data_queue[q] = <<>>
        /\ pc' = [pc EXCEPT ![t] = "wait"]
        /\ UNCHANGED <<data, data_queue>>
  /\ UNCHANGED <<on_run, close_flag, pusherVars, closerVars>>

(* wait() may return without a notification. *)
SpuriousWake(t) ==
  /\ pc[t] = "wait"
  /\ pc' = [pc EXCEPT ![t] = "pop"]
  /\ UNCHANGED <<on_run, data_queue, close_flag, data, pusherVars, closerVars>>

(* A thread that got Data() has seen close_flag_ under the queue's mutex.  *)
Check(t) ==
  /\ pc[t] = "check"
  /\ \E running \in Reads(data[t] = NoData) :
       /\ pc' = [pc EXCEPT ![t] = IF running THEN "process" ELSE "done"]
       /\ data' = [data EXCEPT ![t] = IF running THEN @ ELSE NoData]
  /\ UNCHANGED <<on_run, data_queue, close_flag, pusherVars, closerVars>>

(* Process is the subclass's and returns. *)
Process(t) ==
  /\ pc[t] = "process"
  /\ pc' = [pc EXCEPT ![t] = "loop"]
  /\ data' = [data EXCEPT ![t] = NoData]
  /\ UNCHANGED <<on_run, data_queue, close_flag, pusherVars, closerVars>>

-----------------------------------------------------------------------------
(* Seeded fault: the queues are closed while on_run_ is still true. *)
CloseKeepsRunning ==
  /\ cpc = "open" /\ on_run
  /\ cpc' = "close" /\ cq' = 0
  /\ UNCHANGED <<on_run, data_queue, close_flag, threadVars, pusherVars>>

(* Close: on_run_ first, then every queue in turn, then the joins. *)
Close ==
  /\ cpc = "open" /\ on_run
  /\ on_run' = FALSE
  /\ cpc' = "close" /\ cq' = 0
  /\ UNCHANGED <<data_queue, close_flag, threadVars, pusherVars>>

CloseQueue ==
  /\ cpc = "close"
  /\ close_flag' = [close_flag EXCEPT ![cq] = TRUE]
  /\ cpc' = "notify"
  /\ UNCHANGED <<on_run, data_queue, threadVars, pusherVars, cq>>

NextQueue == /\ cpc' = IF cq = QueueN - 1 THEN "join" ELSE "close"
             /\ cq' = IF cq = QueueN - 1 THEN cq ELSE cq + 1

(* Seeded fault: notify_one where the code has notify_all. *)
NotifyAllOnlyOne ==
  /\ cpc = "notify"
  /\ IF Waiting(cq) = {} THEN UNCHANGED pc
     ELSE \E t \in Waiting(cq) : pc' = [pc EXCEPT ![t] = "pop"]
  /\ NextQueue
  /\ UNCHANGED <<on_run, data_queue, close_flag, data, pusherVars>>

NotifyAll ==
  /\ cpc = "notify"
  /\ pc' = [t \in Thread |-> IF t \in Waiting(cq) THEN "pop" ELSE pc[t]]
  /\ NextQueue
  /\ UNCHANGED <<on_run, data_queue, close_flag, data, pusherVars>>

Join ==
  /\ cpc = "join"
  /\ \A t \in Thread : pc[t] = "done"
  /\ cpc' = "closed"
  /\ UNCHANGED <<on_run, data_queue, close_flag, threadVars, pusherVars, cq>>

-----------------------------------------------------------------------------
ThreadStep(t) == Loop(t) \/ Pop(t) \/ Check(t) \/ Process(t)
PusherStep(p) == PushLocked(p) \/ NotifyOne(p)
CloserStep == CloseQueue \/ NotifyAll \/ Join

Next == \/ Run \/ Close \/ CloserStep
        \/ \E p \in Pusher : PushData(p) \/ PusherStep(p)
        \/ \E t \in Thread : ThreadStep(t) \/ SpuriousWake(t)

(* Every thread keeps being scheduled.  No one is obliged to push or to    *)
(* call Close, and spurious wake-ups cannot be relied upon.                *)
Fairness == /\ \A t \in Thread : WF_vars(ThreadStep(t))
            /\ \A p \in Pusher : WF_vars(PusherStep(p))
            /\ WF_vars(CloserStep)

Spec == Init /\ [][Next]_vars /\ Fairness

-----------------------------------------------------------------------------
TypeOK ==
  /\ on_run \in BOOLEAN
  /\ data_queue \in [Queue -> Seq(Data)]
  /\ close_flag \in [Queue -> BOOLEAN]
  /\ pc \in [Thread -> {"none", "loop", "pop", "wait", "check", "process", "done"}]
  /\ data \in [Thread -> Data \cup {NoData}]
  /\ ppc \in [Pusher -> {"idle", "push", "notify"}]
  /\ pdata \in [Pusher -> Data \cup {NoData}]
  /\ pqid \in [Pusher -> Queue]
  /\ fresh \in SUBSET Data
  /\ cpc \in {"open", "close", "notify", "join", "closed"}
  /\ cq \in Queue

(* Process never runs on the value-initialised item a closed queue         *)
(* returns: whoever gets it sees that on_run_ is already false             *)
(* (data_processor-inl.hh:26-28, Close sets on_run_ before it closes).     *)
NoPhantomProcess == \A t \in Thread : pc[t] = "process" => data[t] # NoData

(* No lost wake-up: when a queue holds an item and is not closed, not all  *)
(* of its started threads sleep unless a notification is on its way.       *)
NoLostWakeup == \A q \in Queue :
  /\ data_queue[q] # <<>>
  /\ ~close_flag[q]
  /\ \A t \in Thread : t[1] = q => pc[t] = "wait"
  => \E p \in Pusher : ppc[p] = "notify" /\ pqid[p] = q

(* A close that has begun ends: every thread leaves its loop and is joined, *)
(* whatever the pushers do meanwhile.                                       *)
CloseJoins == (cpc = "close") ~> (cpc = "closed")

(* The stage implements the abstract work queue. *)
Holding(t) == IF pc[t] \in {"check", "process"} THEN data[t] ELSE NoData
Abstract == INSTANCE WorkQueue WITH
  Worker <- Thread, todo <- data_queue,
  busy <- [t \in Thread |-> Holding(t)], open <- (cpc = "open")
ImplementsWorkQueue == Abstract!Spec
=============================================================================
