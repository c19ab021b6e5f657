------------------------- MODULE FizzConnectionInv --------------------------
(***************************************************************************)
(* The inductive invariant of FizzConnection: types, locks, life cycle,    *)
(* end-of-stream, wakers, close and the queue of writes.                   *)
(***************************************************************************)
EXTENDS FizzConnection

Destroying == tpc \in {"dtor", "dtor_evb", "dtor_waker", "freed"}

\* Who holds read_mutex, and which callback will give it back.
Locking ==
  /\ pending_read <=> read_mutex = "evb"
  /\ read_mutex = "task" <=> tpc = "locked"
  /\ evbPc = "reading" => pending_read /\ readCB
  /\ pending_read => evbPc \in {"reading", "eof"}

\* How far the owner's life cycle and the loop's agree.
Lifecycle ==
  /\ evbPc # "idle" => EvbRuns
  /\ loop = "draining" => tpc = "dtor_evb"
  /\ loop = "gone" <=> tpc \in {"dtor_waker", "freed"}
  /\ tpc = "dtor_evb" => loop # "running"
  /\ read_waker = "none" <=> tpc = "boxed"
  /\ read_waker = "freed" <=> tpc = "freed"
  /\ tpc \in {"boxed", "idle", "registered", "locked"} => ~dropping
  /\ Destroying => dropping

\* The stream has ended for the reader only when no callback can follow.
Ending ==
  /\ readEof \/ evbPc \in {"eof", "err"} => ~readCB
  /\ eofSeen => readEof /\ readBufQueue = <<>>

\* Whoever polls or is parked has been woken or is in the slot.
Waking ==
  /\ waiter # NoTask => waiter \in woken \/ slot = waiter
  /\ tpc \in {"registered", "locked"}
       => /\ poll.task \in Tasks /\ poll.size \in BufSizes
          /\ poll.task \in woken \/ slot = poll.task
  /\ dropping => waiter = NoTask
  /\ tpc = "boxed" => waiter = NoTask

\* close() is waited for once, at the end of the queue of a running loop.
Closing ==
  /\ \A i \in 1..Len(evbQueue) :
       evbQueue[i].kind = "close" => tpc = "close_wait" /\ i = Len(evbQueue)
  /\ tpc = "close_wait"
       => /\ loop = "running"
          /\ evbQueue # <<>> /\ evbQueue[Len(evbQueue)] = Close
  /\ tpc = "close_join" => ~Good
  /\ loop = "stopped" /\ tpc # "dtor_evb" => ~Good
  /\ side = "client" /\ Destroying => ~Good

\* While the transport is good the writes sent, and then those queued, are
\* numbered one after the other up to the last one accepted.
Queueing ==
  /\ SentInOrder
  /\ Good => /\ \A i \in 1..Len(evbQueue) :
                  evbQueue[i].kind = "write" => evbQueue[i].id = Len(sent) + i
             /\ Len(sent) + Len(evbQueue)
                  = accepted + IF tpc = "close_wait" THEN 1 ELSE 0

\* The inductive invariant: each part needs some of the others.
IInv ==
  /\ TypeOK
  /\ StreamIntegrity
  /\ Locking
  /\ Lifecycle
  /\ Ending
  /\ Waking
  /\ Closing
  /\ Queueing
=============================================================================
