------------------------------ MODULE AtomicQueue ------------------------------
(***************************************************************************)
(* What the build slot arbiter promises of build-slot.queue.json: the      *)
(* operations of different processes take effect one at a time.  A process *)
(* enters the queue by its own call and leaves it by its own call, or      *)
(* because it is dead, or has been silent for as long as its lease.        *)
(***************************************************************************)
CONSTANT Proc

VARIABLES
  queue,   \* the processes with an entry in the queue
  silent,  \* those whose lease is over
  gone     \* the processes that have died

Init == queue = {} /\ silent = {} /\ gone = {}

\* Every call that adds or cleans drops entries that are dead or over.
Enqueue(p) ==
  /\ p \notin gone
  /\ \E dropped \in SUBSET (gone \cup silent) :
       /\ queue' = (queue \ dropped) \cup {p}
       /\ silent' = silent \ (dropped \cup {p})
  /\ UNCHANGED gone

Prune ==
  /\ \E dropped \in SUBSET (gone \cup silent) :
       queue' = queue \ dropped /\ silent' = silent \ dropped
  /\ UNCHANGED gone

Dequeue(p) ==
  /\ p \notin gone
  /\ queue' = queue \ {p} /\ silent' = silent \ {p}
  /\ UNCHANGED gone

Heartbeat(p) ==
  /\ p \in queue \ gone
  /\ silent' = silent \ {p}
  /\ UNCHANGED <<queue, gone>>

Lapse(p) ==
  /\ p \in queue
  /\ silent' = silent \cup {p}
  /\ UNCHANGED <<queue, gone>>

Die(p) ==
  /\ gone' = gone \cup {p}
  /\ UNCHANGED <<queue, silent>>

Next ==
  Prune \/ \E p \in Proc : Enqueue(p) \/ Dequeue(p) \/ Heartbeat(p) \/ Lapse(p) \/ Die(p)
Spec == Init /\ [][Next]_<<queue, silent, gone>>
=============================================================================
