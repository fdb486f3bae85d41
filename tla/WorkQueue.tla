------------------------------ MODULE WorkQueue ------------------------------
(***************************************************************************)
(* What a stage of the repair pipeline promises to the stage before it:    *)
(* items submitted to a queue are handed to that queue's workers in the    *)
(* order of their submission, each to exactly one worker, and as long as   *)
(* the stage is open no item waits for ever while a worker is free.        *)
(* DataProcessor (src/src/repair/procs/data_processor-inl.hh) over         *)
(* WaitingQueue (src/src/util/waiting_queue-inl.hh) implements it.         *)
(***************************************************************************)
EXTENDS Sequences

CONSTANTS Queue,   \* the queues of the stage
          Worker,  \* its workers, each of them serving one queue
          QueueOf, \* the queue a worker serves
          Data,    \* what is submitted
          NoData   \* what a free worker holds

VARIABLES todo,    \* items submitted and not yet handed out, per queue
          busy,    \* the item each worker holds, or NoData
          open     \* whether the stage accepts and hands out items

vars == <<todo, busy, open>>

Init == /\ todo = [q \in Queue |-> <<>>]
        /\ busy = [w \in Worker |-> NoData]
        /\ open = TRUE

Submit(q, d) == /\ todo' = [todo EXCEPT ![q] = Append(@, d)]
                /\ UNCHANGED <<busy, open>>

Take(w) == LET q == QueueOf[w] IN
           /\ busy[w] = NoData
           /\ todo[q] # <<>>
           /\ busy' = [busy EXCEPT ![w] = Head(todo[q])]
           /\ todo' = [todo EXCEPT ![q] = Tail(@)]
           /\ UNCHANGED open

Finish(w) == /\ busy[w] # NoData
             /\ busy' = [busy EXCEPT ![w] = NoData]
             /\ UNCHANGED <<todo, open>>

Shut == /\ open
        /\ open' = FALSE
        /\ UNCHANGED <<todo, busy>>

Next == \/ \E q \in Queue, d \in Data : Submit(q, d)
        \/ \E w \in Worker : Take(w) \/ Finish(w)
        \/ Shut

Serve(q) == open /\ \E w \in Worker : QueueOf[w] = q /\ (Take(w) \/ Finish(w))

Spec == /\ Init /\ [][Next]_vars
        /\ \A q \in Queue : WF_vars(Serve(q))
=============================================================================
