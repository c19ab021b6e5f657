--------------------------- MODULE FizzConnection ---------------------------
(***************************************************************************)
(* One established fizz-rs connection: the Tokio task that owns the Rust   *)
(* ClientConnection / ServerConnection, and the folly EventBase ("evb")    *)
(* thread that runs its FizzClientConnection / FizzServerConnection        *)
(* callbacks.                                                              *)
(*                                                                         *)
(* src/ffi/client_tls_ffi.cpp and src/ffi/server_tls_ffi.cpp hold the same *)
(* handlers line for line; they differ only in how Rust drops the          *)
(* connection (`impl Drop` exists for the client alone).  One module       *)
(* models both, with the variable side telling them apart.  A behaviour    *)
(* starts where the handshake callback has installed the read callback and *)
(* delivered its result, and ends when the C++ object has been freed.      *)
(*                                                                         *)
(* A step is what one thread does between two points where the other one   *)
(* can observe it: a critical section, a store to an atomic, an enqueue.   *)
(***************************************************************************)
EXTENDS Naturals, Sequences

CONSTANTS
  Tasks,      \* the tasks whose Waker may be handed to poll_read
  NoTask,     \* an empty ReadWaker slot / nobody
  Sides,      \* the kinds of connection explored
  BufSizes,   \* the lengths of the buffers handed to poll_read
  MaxBytes,   \* bound: application bytes that arrive from the peer
  MaxWrites   \* bound: writes the application issues

ASSUME ConnectionAssumption ==
  /\ NoTask \notin Tasks
  /\ Sides \subseteq {"client", "server"}
  /\ BufSizes \subseteq Nat
  /\ MaxBytes \in Nat
  /\ MaxWrites \in Nat

VARIABLES
  side,          \* which of the two connection types this is
  \* The C++ connection object and what its callbacks touch.
  read_mutex,    \* "free", "evb" or "task": the holder of read_mutex
  pending_read,  \* a getReadBuffer is outstanding
  readBufQueue,  \* the bytes committed to readBufQueue_ and not yet split off
  bytesRead,     \* the atomic counter beside it
  readEof,       \* the atomic end-of-stream flag
  read_waker,    \* "none", "installed" or "freed": the optional rust::Box
  writeError,    \* the atomic write-failure flag
  \* The evb thread, its queue and the transport it drives.
  loop,          \* "running", "stopped", "draining" (~EventBase) or "gone"
  evbPc,         \* where inside a callback the evb is; "idle" between callbacks
  evbQueue,      \* closures queued by runInEventBaseThread
  transport,     \* "good", "closing" (close() ran) or "closed" (closeNow() ran)
  readCB,        \* the transport still has the connection as its read callback
  inflight,      \* writes handed to the transport whose callback is outstanding
  \* The owner of the Rust value.
  tpc,           \* where inside an API call the owner is; "idle" between calls
  poll,          \* the task and buffer length of the poll_read in progress
  dropping,      \* the value is being dropped
  slot,          \* ReadWaker.inner: the registered Waker
  woken,         \* tasks that were woken and not polled since
  waiter,        \* the task whose poll_read returned Pending last
  \* History.
  arrived,       \* how many bytes the transport delivered
  delivered,     \* the bytes handed to the application, in order
  ended,         \* why the stream ended: "no", "peer", "local" or "error"
  eofSeen,       \* some poll_read reported end-of-stream
  accepted,      \* how many writes were accepted
  sent,          \* the writes handed to a good transport, in order
  ret            \* what the last API call returned

objVars   == <<read_mutex, pending_read, readBufQueue, bytesRead, readEof>>
wakeVars  == <<slot, woken>>
evbVars   == <<loop, evbPc>>
netVars   == <<transport, readCB>>
writeVars == <<writeError, evbQueue, inflight, sent>>
taskVars  == <<tpc, dropping>>
readVars  == <<poll, waiter, delivered, eofSeen>>
inVars    == <<arrived, ended>>
vars == <<side, objVars, read_waker, wakeVars, evbVars, netVars, writeVars,
          taskVars, readVars, inVars, accepted, ret>>

Write(k) == [kind |-> "write", id |-> k]
Close    == [kind |-> "close", id |-> 0]
Closures == [kind : {"write", "close"}, id : Nat]
NoPoll   == [task |-> NoTask, size |-> 0]

TypeOK ==
  /\ side \in Sides
  /\ read_mutex \in {"free", "evb", "task"}
  /\ pending_read \in BOOLEAN
  /\ readBufQueue \in Seq(Nat)
  /\ bytesRead \in Nat
  /\ readEof \in BOOLEAN
  /\ read_waker \in {"none", "installed", "freed"}
  /\ writeError \in BOOLEAN
  /\ loop \in {"running", "stopped", "draining", "gone"}
  /\ evbPc \in {"idle", "reading", "eof", "err", "wake"}
  /\ evbQueue \in Seq(Closures)
  /\ transport \in {"good", "closing", "closed"}
  /\ readCB \in BOOLEAN
  /\ inflight \subseteq Nat
  /\ tpc \in {"boxed", "idle", "registered", "locked", "close", "close_wait",
              "close_join", "dtor", "dtor_evb", "dtor_waker", "freed"}
  /\ poll \in [task : Tasks \cup {NoTask}, size : Nat]
  /\ dropping \in BOOLEAN
  /\ slot \in Tasks \cup {NoTask}
  /\ woken \subseteq Tasks
  /\ waiter \in Tasks \cup {NoTask}
  /\ arrived \in Nat
  /\ delivered \in Seq(Nat)
  /\ ended \in {"no", "peer", "local", "error"}
  /\ eofSeen \in BOOLEAN
  /\ accepted \in Nat
  /\ sent \in Seq(Nat)
  /\ ret \in {"none", "data", "eof", "pending", "written", "write_err",
              "flushed", "shutdown"}

\* fizzHandshakeSuccess has run: read callback set, result on its way to Rust.
Init ==
  /\ side \in Sides
  /\ read_mutex = "free" /\ pending_read = FALSE
  /\ readBufQueue = <<>> /\ bytesRead = 0 /\ readEof = FALSE
  /\ read_waker = "none" /\ writeError = FALSE
  /\ loop = "running" /\ evbPc = "idle" /\ evbQueue = <<>>
  /\ transport = "good" /\ readCB = TRUE /\ inflight = {}
  /\ tpc = "boxed" /\ poll = NoPoll /\ dropping = FALSE
  /\ slot = NoTask /\ woken = {} /\ waiter = NoTask
  /\ arrived = 0 /\ delivered = <<>> /\ ended = "no" /\ eofSeen = FALSE
  /\ accepted = 0 /\ sent = <<>> /\ ret = "none"

-----------------------------------------------------------------------------
(***************************************************************************)
(* Helpers.                                                                *)
(***************************************************************************)
Lesser(a, b) == IF a <= b THEN a ELSE b

\* The next len bytes of the peer's stream; byte k of the stream is k.
NextBytes(len) == [i \in 1..len |-> arrived + i]

\* transport->good(): no longer so once close() or closeNow() has run.
Good == transport = "good"

\* The EventBase runs callbacks on its thread, and once more in ~EventBase.
EvbRuns == loop \in {"running", "draining"}

\* read_mutex.lock() and the lock_guard of read_or_status: both wait for it.
NoReadMutex == TRUE

ReadMutexFree == read_mutex = "free"

\* runInEventBaseThread: closures run in the order they were queued.
EnqueueInFront(c) == evbQueue' = <<c>> \o evbQueue

Enqueue(c) == evbQueue' = Append(evbQueue, c)

\* ReadOutcome {bytes_read, eof} that *_connection_read_or_status returns.
ReadOutcomeEofFirst(size) ==
  [bytes |-> IF readEof THEN 0 ELSE Lesser(bytesRead, size), eof |-> readEof]

ReadOutcome(size) ==
  IF bytesRead = 0
  THEN [bytes |-> 0, eof |-> readEof]
  ELSE [bytes |-> Lesser(bytesRead, size), eof |-> FALSE]

-----------------------------------------------------------------------------
(***************************************************************************)
(* The evb thread: read callbacks.                                         *)
(***************************************************************************)

\* getReadBuffer: takes read_mutex and keeps it until the callback that
\* answers it.  The transport reads only while its loop runs and it is open.
GetReadBuffer ==
  /\ loop = "running" /\ evbPc = "idle"
  /\ readCB /\ transport # "closed" /\ arrived < MaxBytes
  /\ ReadMutexFree
  /\ read_mutex' = "evb" /\ pending_read' = TRUE
  /\ evbPc' = "reading"
  /\ UNCHANGED <<side, readBufQueue, bytesRead, readEof, read_waker, wakeVars,
                 loop, netVars, writeVars, taskVars, readVars, inVars,
                 accepted, ret>>

\* bytesRead += len.
OverwrittenBytesRead(len) == len

BytesReadAfter(len) == bytesRead + len

\* readDataAvailable(len), up to its call of wakeReader.
ReadDataAvailable(len) ==
  /\ evbPc = "reading"
  /\ readBufQueue' = readBufQueue \o NextBytes(len)
  /\ bytesRead' = BytesReadAfter(len)
  /\ pending_read' = FALSE /\ read_mutex' = "free"
  /\ arrived' = arrived + len
  /\ evbPc' = "wake"
  /\ UNCHANGED <<side, readEof, read_waker, wakeVars, loop, netVars, writeVars,
                 taskVars, readVars, ended, accepted, ret>>

\* A terminal read callback: the transport forgets its callback and calls it
\* once, either between reads or in answer to an outstanding getReadBuffer.
TerminalCallback ==
  /\ EvbRuns /\ evbPc \in {"idle", "reading"}
  /\ readCB
  /\ readCB' = FALSE

\* if (pending_read) { pending_read = false; read_mutex.unlock(); }
NoRelease == UNCHANGED <<pending_read, read_mutex>>

ReleasePendingRead ==
  /\ pending_read' = FALSE
  /\ read_mutex' = IF pending_read THEN "free" ELSE read_mutex

\* readEOF: the flag is stored first, outside read_mutex.  It reports the
\* peer's close, or the local close() that already ran.
ReadEOF ==
  /\ TerminalCallback
  /\ readEof' = TRUE
  /\ ended' = IF Good THEN "peer" ELSE "local"
  /\ evbPc' = "eof"
  /\ UNCHANGED <<side, read_mutex, pending_read, readBufQueue, bytesRead,
                 read_waker, wakeVars, loop, transport, writeVars, taskVars,
                 readVars, arrived, accepted, ret>>

\* The rest of readEOF up to wakeReader: unlock and closeNow().
ReadEOFClose ==
  /\ evbPc = "eof"
  /\ ReleasePendingRead
  /\ transport' = "closed"
  /\ evbPc' = "wake"
  /\ UNCHANGED <<side, readBufQueue, bytesRead, readEof, read_waker, wakeVars,
                 loop, readCB, writeVars, taskVars, readVars, inVars,
                 accepted, ret>>

\* readErr: unlocks first ...
ReadErr ==
  /\ TerminalCallback
  /\ ReleasePendingRead
  /\ ended' = "error"
  /\ evbPc' = "err"
  /\ UNCHANGED <<side, readBufQueue, bytesRead, readEof, read_waker, wakeVars,
                 loop, transport, writeVars, taskVars, readVars, arrived,
                 accepted, ret>>

\* ... and then surfaces the error as end-of-stream, and calls closeNow().
ReadErrClose ==
  /\ evbPc = "err"
  /\ readEof' = TRUE
  /\ transport' = "closed"
  /\ evbPc' = "wake"
  /\ UNCHANGED <<side, read_mutex, pending_read, readBufQueue, bytesRead,
                 read_waker, wakeVars, loop, readCB, writeVars, taskVars,
                 readVars, inVars, accepted, ret>>

\* ReadWaker::wake: takes the registered Waker, if any, out of the slot and
\* wakes it.
WakeUnconditionally ==
  /\ slot' = NoTask
  /\ woken' = woken \cup {slot}

Wake ==
  /\ slot' = NoTask
  /\ woken' = woken \cup ({slot} \ {NoTask})

\* wakeReader: the test of the optional box and the wake are one critical
\* section of waker_mutex.
WakeReader ==
  /\ evbPc = "wake"
  /\ IF read_waker = "installed" THEN Wake ELSE UNCHANGED wakeVars
  /\ evbPc' = "idle"
  /\ UNCHANGED <<side, objVars, read_waker, loop, netVars, writeVars, taskVars,
                 readVars, inVars, accepted, ret>>

-----------------------------------------------------------------------------
(***************************************************************************)
(* The evb thread: queued closures and write callbacks.                    *)
(***************************************************************************)
RunsClosure(kind) ==
  /\ EvbRuns /\ evbPc = "idle"
  /\ evbQueue # <<>> /\ Head(evbQueue).kind = kind
  /\ evbQueue' = Tail(evbQueue)

\* The closure of *_connection_write: writeChain(cb, b).  A transport that is
\* no longer good answers with writeErr at once.
RunWrite ==
  /\ RunsClosure("write")
  /\ IF Good
     THEN /\ sent' = Append(sent, Head(evbQueue).id)
          /\ inflight' = inflight \cup {Head(evbQueue).id}
          /\ UNCHANGED <<writeError, transport>>
     ELSE /\ writeError' = TRUE /\ transport' = "closed"
          /\ UNCHANGED <<sent, inflight>>
  /\ UNCHANGED <<side, objVars, read_waker, wakeVars, evbVars, readCB,
                 taskVars, readVars, inVars, accepted, ret>>

\* The closure of *_connection_close: close(), then the waiting thread is
\* released.
RunClose ==
  /\ RunsClosure("close")
  /\ transport' = IF Good THEN "closing" ELSE transport
  /\ tpc' = "close_join"
  /\ UNCHANGED <<side, objVars, read_waker, wakeVars, evbVars, readCB,
                 writeError, inflight, sent, dropping, readVars, inVars,
                 accepted, ret>>

\* writeSuccess: the callback object deletes itself.
WriteSuccess(k) ==
  /\ EvbRuns /\ evbPc = "idle"
  /\ k \in inflight
  /\ inflight' = inflight \ {k}
  /\ UNCHANGED <<side, objVars, read_waker, wakeVars, evbVars, netVars,
                 writeError, evbQueue, sent, taskVars, readVars, inVars,
                 accepted, ret>>

\* writeErr: also called from within the closeNow() of a terminal callback.
WriteErr(k) ==
  /\ EvbRuns
  /\ evbPc = "idle" \/ (evbPc = "wake" /\ transport = "closed")
  /\ k \in inflight
  /\ inflight' = inflight \ {k}
  /\ writeError' = TRUE /\ transport' = "closed"
  /\ UNCHANGED <<side, objVars, read_waker, wakeVars, evbVars, readCB,
                 evbQueue, sent, taskVars, readVars, inVars, accepted, ret>>

-----------------------------------------------------------------------------
(***************************************************************************)
(* The owner of the connection.  Calls do not overlap: every one of them   *)
(* takes the value by unique reference.                                    *)
(***************************************************************************)

\* set_*_read_waker, the end of connect / accept_from_stream.
SetReadWaker ==
  /\ tpc = "boxed"
  /\ read_waker' = "installed"
  /\ tpc' = "idle"
  /\ UNCHANGED <<side, objVars, wakeVars, evbVars, netVars, writeVars,
                 dropping, readVars, inVars, accepted, ret>>

\* ReadWaker::register: the new Waker replaces the previous one.
RegisterIfEmpty(t) == slot' = IF slot = NoTask THEN t ELSE slot

Register(t) == slot' = t

\* poll_read by task t with a buffer of n bytes: it registers before any look
\* at the state.
PollRead(t, n) ==
  /\ tpc = "idle"
  /\ Register(t)
  /\ tpc' = "registered"
  /\ poll' = [task |-> t, size |-> n]
  /\ woken' = woken \ {t}
  /\ waiter' = NoTask
  /\ UNCHANGED <<side, objVars, read_waker, evbVars, netVars, writeVars,
                 dropping, delivered, eofSeen, inVars, accepted, ret>>

\* The lock_guard of *_connection_read_or_status.
LockRead ==
  /\ tpc = "registered"
  /\ ReadMutexFree
  /\ read_mutex' = "task"
  /\ tpc' = "locked"
  /\ UNCHANGED <<side, pending_read, readBufQueue, bytesRead, readEof,
                 read_waker, wakeVars, evbVars, netVars, writeVars, dropping,
                 readVars, inVars, accepted, ret>>

\* The body of read_or_status, its unlock, and what poll_read makes of it.
ReadOrStatus ==
  LET outcome == ReadOutcome(poll.size)
      n       == outcome.bytes
  IN
  /\ tpc = "locked"
  /\ delivered' = delivered \o SubSeq(readBufQueue, 1, n)
  /\ readBufQueue' = SubSeq(readBufQueue, n + 1, Len(readBufQueue))
  /\ bytesRead' = bytesRead - n
  /\ read_mutex' = "free"
  /\ ret' = IF n > 0 THEN "data" ELSE IF outcome.eof THEN "eof" ELSE "pending"
  /\ eofSeen' = (eofSeen \/ ret' = "eof")
  /\ waiter' = IF ret' = "pending" THEN poll.task ELSE NoTask
  /\ poll' = NoPoll
  /\ tpc' = "idle"
  /\ UNCHANGED <<side, pending_read, readEof, read_waker, wakeVars, evbVars,
                 netVars, writeVars, dropping, inVars, accepted>>

\* poll_write: reports an earlier failure, or queues the write and returns.
PollWrite ==
  /\ tpc = "idle"
  /\ IF writeError
     THEN ret' = "write_err" /\ UNCHANGED <<evbQueue, accepted>>
     ELSE /\ accepted < MaxWrites
          /\ Enqueue(Write(accepted + 1))
          /\ accepted' = accepted + 1
          /\ ret' = "written"
  /\ UNCHANGED <<side, objVars, read_waker, wakeVars, evbVars, netVars,
                 writeError, inflight, sent, taskVars, readVars, inVars>>

\* poll_flush: Ready(Ok(())) whatever is queued.
PollFlush ==
  /\ tpc = "idle"
  /\ ret' = "flushed"
  /\ UNCHANGED <<side, objVars, read_waker, wakeVars, evbVars, netVars,
                 writeVars, taskVars, readVars, inVars, accepted>>

\* poll_shutdown (its poll_flush is always ready), and the public close().
PollShutdown ==
  /\ tpc = "idle"
  /\ tpc' = "close"
  /\ UNCHANGED <<side, objVars, read_waker, wakeVars, evbVars, netVars,
                 writeVars, dropping, readVars, inVars, accepted, ret>>

\* Drop: ClientConnection::drop closes first; a ServerConnection goes straight
\* to the C++ destructor.
DropSkipsClose == "dtor"

DropEnters == IF side = "client" THEN "close" ELSE "dtor"

Drop ==
  /\ tpc = "idle"
  /\ dropping' = TRUE /\ waiter' = NoTask
  /\ tpc' = DropEnters
  /\ UNCHANGED <<side, objVars, read_waker, wakeVars, evbVars, netVars,
                 writeVars, poll, delivered, eofSeen, inVars, accepted, ret>>

\* *_connection_close, first half: close() runs on the evb, and is waited for,
\* only if the transport is good().
ClosesAlways == TRUE

ClosesOnEvb == Good

CloseTransport ==
  /\ tpc = "close"
  /\ IF ClosesOnEvb
     THEN tpc' = "close_wait" /\ Enqueue(Close)
     ELSE tpc' = "close_join" /\ UNCHANGED evbQueue
  /\ UNCHANGED <<side, objVars, read_waker, wakeVars, evbVars, netVars,
                 writeError, inflight, sent, dropping, readVars, inVars,
                 accepted, ret>>

\* terminateLoopSoon() and join(): the loop exits between two callbacks,
\* whatever is still queued.  Nothing to do when the thread is joined already.
JoinLoop ==
  \/ loop = "running" /\ evbPc = "idle" /\ loop' = "stopped"
  \/ loop = "stopped" /\ UNCHANGED loop

\* *_connection_close, second half, and the return to its caller.
CloseJoin ==
  /\ tpc = "close_join"
  /\ JoinLoop
  /\ tpc' = IF dropping THEN "dtor" ELSE "idle"
  /\ ret' = IF dropping THEN ret ELSE "shutdown"
  /\ UNCHANGED <<side, objVars, read_waker, wakeVars, evbPc, netVars,
                 writeVars, dropping, readVars, inVars, accepted>>

\* The destructor: stop and join the loop ...
DtorJoin ==
  /\ tpc = "dtor"
  /\ JoinLoop
  /\ tpc' = "dtor_evb"
  /\ UNCHANGED <<side, objVars, read_waker, wakeVars, evbPc, netVars,
                 writeVars, dropping, readVars, inVars, accepted, ret>>

\* ... evb.reset(): ~EventBase drains what is queued, on this thread ...
DtorEvbWakerFreed ==
  /\ tpc = "dtor_evb" /\ loop = "stopped"
  /\ loop' = "draining" /\ read_waker' = "freed"
  /\ UNCHANGED <<side, objVars, wakeVars, evbPc, netVars, writeVars, taskVars,
                 readVars, inVars, accepted, ret>>

DtorEvb ==
  /\ tpc = "dtor_evb" /\ loop = "stopped"
  /\ loop' = "draining"
  /\ UNCHANGED <<side, objVars, read_waker, wakeVars, evbPc, netVars,
                 writeVars, taskVars, readVars, inVars, accepted, ret>>

\* (the end of ~EventBase)
DtorEvbDrained ==
  /\ tpc = "dtor_evb" /\ loop = "draining"
  /\ evbQueue = <<>> /\ evbPc = "idle"
  /\ loop' = "gone"
  /\ tpc' = "dtor_waker"
  /\ UNCHANGED <<side, objVars, read_waker, wakeVars, evbPc, netVars,
                 writeVars, dropping, readVars, inVars, accepted, ret>>

\* ... and read_waker.reset(), before the members go.
DtorWaker ==
  /\ tpc = "dtor_waker"
  /\ read_waker' = "freed"
  /\ tpc' = "freed"
  /\ UNCHANGED <<side, objVars, wakeVars, evbVars, netVars, writeVars,
                 dropping, readVars, inVars, accepted, ret>>

\* The object is gone: nothing is left to do.
Freed == tpc = "freed" /\ UNCHANGED vars

-----------------------------------------------------------------------------
\* The evb is inside a callback and will return from it.
EvbContinues ==
  \/ \E len \in 1..(MaxBytes - arrived) : ReadDataAvailable(len)
  \/ ReadEOFClose
  \/ ReadErrClose
  \/ WakeReader

EvbClosure == RunWrite \/ RunClose

EvbNext ==
  \/ GetReadBuffer
  \/ ReadEOF
  \/ ReadErr
  \/ EvbContinues
  \/ EvbClosure
  \/ \E k \in inflight : WriteSuccess(k) \/ WriteErr(k)

\* A call the owner has entered and will finish.
OwnerContinues ==
  \/ SetReadWaker
  \/ LockRead
  \/ ReadOrStatus
  \/ CloseTransport
  \/ CloseJoin
  \/ DtorJoin
  \/ DtorEvb
  \/ DtorEvbDrained
  \/ DtorWaker

OwnerNext ==
  \/ OwnerContinues
  \/ \E t \in Tasks, n \in BufSizes : PollRead(t, n)
  \/ PollWrite
  \/ PollFlush
  \/ PollShutdown
  \/ Drop

Next == EvbNext \/ OwnerNext \/ Freed

Spec == Init /\ [][Next]_vars

(***************************************************************************)
(* A callback that was entered returns and a running (or draining) loop    *)
(* gets to its queue.  The owner's thread gets on with a call it is in,    *)
(* and gets read_mutex although the evb keeps taking it (strong fairness). *)
(* The runtime polls a task that was woken, although the owner may be in   *)
(* other calls in between.  Nothing says that the peer sends, that the     *)
(* application polls unwoken, writes, shuts down or drops.                 *)
(***************************************************************************)
PollWoken ==
  \E t \in Tasks, n \in BufSizes : t \in woken /\ PollRead(t, n)

Fairness ==
  /\ WF_vars(EvbContinues)
  /\ WF_vars(EvbClosure)
  /\ SF_vars(OwnerContinues)
  /\ SF_vars(PollWoken)

FairSpec == Spec /\ Fairness

-----------------------------------------------------------------------------
(***************************************************************************)
(* Refinement: a connection is a byte stream.  Its pipe is readBufQueue_,  *)
(* its input end is closed when the transport drops the read callback.     *)
(***************************************************************************)
Stream == INSTANCE ByteStream
            WITH pipe <- readBufQueue, out <- delivered,
                 closed <- ~readCB, done <- eofSeen

\* The connection implements ByteStream: bytes come out in order and once, and
\* the end is reported only after the last of them and is then final.
ImplementsByteStream == Stream!Spec

-----------------------------------------------------------------------------
(***************************************************************************)
(* Correctness.                                                            *)
(***************************************************************************)

\* What the application has read, followed by what waits in readBufQueue_, is
\* exactly what arrived: no byte lost, repeated or reordered, and bytesRead
\* counts the queue.  (readDataAvailable against read_or_status)
StreamIntegrity ==
  /\ Len(delivered) + Len(readBufQueue) = arrived
  /\ \A i \in 1..Len(delivered) : delivered[i] = i
  /\ \A i \in 1..Len(readBufQueue) : readBufQueue[i] = Len(delivered) + i
  /\ bytesRead = Len(readBufQueue)

\* No reader splits the queue while the evb writes into the tail it
\* preallocated.  (read_mutex, locked in getReadBuffer and unlocked in another
\* callback)
PreallocatedTailUntouched == ~(evbPc = "reading" /\ tpc = "locked")

\* Once a poll_read has reported end-of-stream, everything that arrived has
\* been delivered: EOF never overtakes data, and no data follows it.
EofAfterData == eofSeen => Len(delivered) = arrived

\* A task parked by poll_read while there is something to report has been
\* woken, or sits in the slot of a callback that is on its way to wakeReader.
NoLostWakeup ==
  (waiter # NoTask /\ (bytesRead > 0 \/ readEof))
    => \/ waiter \in woken
       \/ /\ evbPc \in {"eof", "err", "wake"}
          /\ slot = waiter /\ read_waker = "installed"

\* No callback is under way once the destructor has released the waker: the
\* drain in ~EventBase never wakes through a dangling box.
NoCallbackOnFreedState == read_waker = "freed" => evbPc = "idle" /\ ~EvbRuns

\* *_connection_close waits only for a closure that a running loop will reach.
NoWaitOnStoppedLoop ==
  tpc = "close_wait" => /\ loop = "running"
                        /\ \E i \in DOMAIN evbQueue : evbQueue[i] = Close

\* Writes reach the transport in the order they were accepted, none skipped.
SentInOrder == \A i \in 1..Len(sent) : sent[i] = i

\* A graceful close() comes after every accepted write was handed over.
CloseAfterWrites ==
  [][transport = "good" /\ transport' = "closing" => Len(sent) = accepted]_vars

\* A ClientConnection that is gone has closed its transport.
ClientDropCloses == side = "client" /\ tpc = "freed" => ~Good

\* A parked reader gets its data or its end-of-stream, unless it is dropped.
ReaderServed ==
  (waiter # NoTask /\ (bytesRead > 0 \/ readEof))
    ~> (dropping \/ (tpc = "idle" /\ waiter = NoTask))

\* Dropping a connection terminates, whatever the evb is in the middle of.
DropCompletes == dropping ~> tpc = "freed"
=============================================================================
