------------------------ MODULE FizzConnectionProofs ------------------------
(***************************************************************************)
(* What is proved of FizzConnection, for every set of tasks and buffer     *)
(* sizes and every bound on bytes and writes.                              *)
(***************************************************************************)
EXTENDS FizzConnectionInv, SequenceTheorems, TLAPS

-----------------------------------------------------------------------------
(***************************************************************************)
(* Sequences: what split(), postallocate and the closure queue do.         *)
(***************************************************************************)
\* The sums that place a byte or a write behind those before it.
LEMMA Arithmetic ==
  \A a, b, i \in Nat : /\ (a + b) + (i - b) = a + i
                       /\ (a + b) + 1 = a + (b + 1)
                       /\ a + 1 = b + 1 => a = b
  OBVIOUS

\* readBufQueue_.split(n): the first n bytes, and the rest.
LEMMA SplitFacts ==
  ASSUME NEW q \in Seq(Nat), NEW n \in 0..Len(q)
  PROVE  /\ SubSeq(q, 1, n) \in Seq(Nat)
         /\ Len(SubSeq(q, 1, n)) = n
         /\ \A i \in 1..n : SubSeq(q, 1, n)[i] = q[i]
         /\ SubSeq(q, n + 1, Len(q)) \in Seq(Nat)
         /\ Len(SubSeq(q, n + 1, Len(q))) = Len(q) - n
         /\ \A i \in 1..(Len(q) - n) : SubSeq(q, n + 1, Len(q))[i] = q[n + i]
<1>1. /\ SubSeq(q, 1, n) \in Seq(Nat)
      /\ Len(SubSeq(q, 1, n)) = n
      /\ \A i \in 1..n : SubSeq(q, 1, n)[i] = q[i]
  OBVIOUS
<1>2. Len(SubSeq(q, n + 1, Len(q))) = Len(q) - n
  OBVIOUS
<1>3. SubSeq(q, n + 1, Len(q)) \in Seq(Nat)
  OBVIOUS
<1>4. ASSUME NEW i \in 1..(Len(q) - n)
      PROVE  SubSeq(q, n + 1, Len(q))[i] = q[n + i]
  OBVIOUS
<1> QED
  BY <1>1, <1>2, <1>3, <1>4

\* Bytes put behind others keep their order, and move by the others' length.
LEMMA ConcatFacts ==
  ASSUME NEW q \in Seq(Nat), NEW r \in Seq(Nat)
  PROVE  /\ q \o r \in Seq(Nat)
         /\ Len(q \o r) = Len(q) + Len(r)
         /\ \A i \in 1..Len(q) : (q \o r)[i] = q[i]
         /\ \A i \in 1..Len(r) : (q \o r)[Len(q) + i] = r[i]
  OBVIOUS

\* postallocate(len) commits the len bytes that come next in the stream.
LEMMA NextBytesFacts ==
  ASSUME arrived \in Nat, NEW len \in Nat
  PROVE  /\ NextBytes(len) \in Seq(Nat)
         /\ Len(NextBytes(len)) = len
         /\ \A i \in 1..len : NextBytes(len)[i] = arrived + i
  BY DEF NextBytes

\* What *_connection_write and *_connection_close queue are closures.
LEMMA ClosuresQueued ==
  /\ \A k \in Nat : Write(k) \in Closures
  /\ Close \in Closures
  BY DEF Write, Close, Closures

\* What read_or_status takes is what it may take.
LEMMA OutcomeFacts ==
  ASSUME TypeOK, StreamIntegrity
  PROVE  /\ ReadOutcome(poll.size).bytes \in 0..Len(readBufQueue)
         /\ ReadOutcome(poll.size).bytes = 0
              => bytesRead = 0 \/ poll.size = 0
         /\ ReadOutcome(poll.size).eof => bytesRead = 0 /\ readEof
         /\ bytesRead = 0 /\ readEof => ReadOutcome(poll.size).eof
  BY DEF TypeOK, StreamIntegrity, ReadOutcome, Lesser

\* The only closure that can be a close is the last one, and is waited for.
LEMMA CloseIsLast ==
  ASSUME TypeOK, Closing, RunsClosure("close")
  PROVE  tpc = "close_wait" /\ Len(evbQueue) = 1 /\ evbQueue' = <<>>
<1>1. Len(evbQueue) \in Nat \ {0} /\ Head(evbQueue) = evbQueue[1]
  BY DEF TypeOK, RunsClosure
<1>2. evbQueue[1].kind = "close" /\ 1 \in 1..Len(evbQueue)
  BY <1>1 DEF RunsClosure
<1>3. tpc = "close_wait" /\ 1 = Len(evbQueue)
  BY <1>2, Zenon DEF Closing
<1> QED
  BY <1>3, SMTT(20) DEF RunsClosure, TypeOK

-----------------------------------------------------------------------------
(***************************************************************************)
(* Every step preserves every part of the inductive invariant.             *)
(***************************************************************************)
\* Every action keeps every variable in its type.
LEMMA TypeStep ==
  ASSUME IInv, [Next]_vars PROVE TypeOK'
<1> USE DEF IInv, TypeOK, objVars, wakeVars, evbVars, netVars, writeVars,
        taskVars, readVars, inVars
<1>1. CASE GetReadBuffer
  BY <1>1 DEF GetReadBuffer, ReadMutexFree
<1>2. CASE ReadEOF
  <2>1. ended' \in {"no", "peer", "local", "error"}
    BY <1>2 DEF ReadEOF
  <2>2. readCB' \in BOOLEAN
    BY <1>2, Zenon DEF ReadEOF, TerminalCallback
  <2> QED
    BY <1>2, <2>1, <2>2 DEF ReadEOF
<1>3. CASE ReadErr
  <2>1. pending_read' \in BOOLEAN /\ read_mutex' \in {"free", "evb", "task"}
    BY <1>3, Zenon DEF ReadErr, ReleasePendingRead
  <2>2. readCB' \in BOOLEAN
    BY <1>3, Zenon DEF ReadErr, TerminalCallback
  <2> QED
    BY <1>3, <2>1, <2>2 DEF ReadErr
<1>4. ASSUME NEW len \in 1..(MaxBytes - arrived), ReadDataAvailable(len)
      PROVE  TypeOK'
  <2>1. len \in Nat /\ arrived' \in Nat /\ bytesRead' \in Nat
    BY <1>4, ConnectionAssumption DEF ReadDataAvailable, BytesReadAfter
  <2>2. readBufQueue' \in Seq(Nat)
    BY <1>4, <2>1, NextBytesFacts, ConcatFacts DEF ReadDataAvailable
  <2>3. /\ pending_read' \in BOOLEAN /\ read_mutex' = "free" /\ evbPc' = "wake"
        /\ UNCHANGED <<side, readEof, read_waker, wakeVars, loop, netVars,
                       writeVars, taskVars, readVars, ended, accepted, ret>>
    BY <1>4, Zenon DEF ReadDataAvailable
  <2> QED
    BY <2>1, <2>2, <2>3
<1>5. CASE ReadEOFClose
  <2>1. pending_read' \in BOOLEAN /\ read_mutex' \in {"free", "evb", "task"}
    BY <1>5, Zenon DEF ReadEOFClose, ReleasePendingRead
  <2> QED
    BY <1>5, <2>1 DEF ReadEOFClose
<1>6. CASE ReadErrClose
  BY <1>6 DEF ReadErrClose
<1>7. CASE WakeReader
  BY <1>7 DEF WakeReader, Wake
<1>8. CASE RunWrite
  <2>1. /\ evbQueue' \in Seq(Closures) /\ Head(evbQueue) \in Closures
        /\ Head(evbQueue).id \in Nat
    <3>1. evbQueue' \in Seq(Closures) /\ Head(evbQueue) \in Closures
      BY <1>8 DEF RunWrite, RunsClosure
    <3> QED
      BY <3>1 DEF Closures
  <2>2. /\ sent' \in Seq(Nat) /\ inflight' \subseteq Nat
        /\ writeError' \in BOOLEAN /\ transport' \in {"good", "closing", "closed"}
    <3>1. CASE Good
      <4>1. /\ sent' = Append(sent, Head(evbQueue).id)
            /\ inflight' = inflight \cup {Head(evbQueue).id}
            /\ UNCHANGED <<writeError, transport>>
        BY <1>8, <3>1 DEF RunWrite
      <4>2. sent' \in Seq(Nat)
        BY <2>1, <4>1
      <4>3. inflight' \subseteq Nat
        BY <2>1, <4>1, Zenon
      <4> QED
        BY <4>1, <4>2, <4>3
    <3>2. CASE ~Good
      BY <1>8, <3>2, Zenon DEF RunWrite
    <3> QED
      BY <3>1, <3>2
  <2> QED
    BY <1>8, <2>1, <2>2 DEF RunWrite
<1>9. CASE RunClose
  <2>1. /\ evbQueue' \in Seq(Closures)
        /\ transport' \in {"good", "closing", "closed"}
    BY <1>9 DEF RunClose, RunsClosure
  <2> QED
    BY <1>9, <2>1 DEF RunClose
<1>10. ASSUME NEW k \in inflight, WriteSuccess(k)
       PROVE  TypeOK'
  BY <1>10 DEF WriteSuccess, EvbRuns
<1>11. ASSUME NEW k \in inflight, WriteErr(k)
       PROVE  TypeOK'
  BY <1>11 DEF WriteErr, EvbRuns
<1>12. CASE SetReadWaker
  BY <1>12 DEF SetReadWaker
<1>13. CASE LockRead
  BY <1>13 DEF LockRead, ReadMutexFree
<1>14. CASE ReadOrStatus
  <2> DEFINE n == ReadOutcome(poll.size).bytes
  <2>1. n \in 0..Len(readBufQueue)
    BY OutcomeFacts
  <2>2. /\ readBufQueue' = SubSeq(readBufQueue, n + 1, Len(readBufQueue))
        /\ delivered' = delivered \o SubSeq(readBufQueue, 1, n)
        /\ bytesRead' = bytesRead - n
    BY <1>14 DEF ReadOrStatus
  <2> HIDE DEF n
  <2>3. /\ SubSeq(readBufQueue, 1, n) \in Seq(Nat)
        /\ SubSeq(readBufQueue, n + 1, Len(readBufQueue)) \in Seq(Nat)
    BY <2>1, SplitFacts, Zenon
  <2>4. delivered' \in Seq(Nat) /\ readBufQueue' \in Seq(Nat)
    BY <2>2, <2>3, ConcatFacts, Zenon
  <2>5. bytesRead' \in Nat
    BY <2>1, <2>2 DEF StreamIntegrity
  <2>6. /\ eofSeen' \in BOOLEAN /\ ret' \in {"data", "eof", "pending"}
        /\ waiter' \in Tasks \cup {NoTask} /\ read_mutex' = "free"
        /\ poll' \in [task : Tasks \cup {NoTask}, size : Nat] /\ tpc' = "idle"
    BY <1>14 DEF ReadOrStatus, NoPoll
  <2>7. UNCHANGED <<side, pending_read, readEof, read_waker, wakeVars, evbVars,
                    netVars, writeVars, dropping, inVars, accepted>>
    BY <1>14 DEF ReadOrStatus
  <2> QED
    BY <2>4, <2>5, <2>6, <2>7
<1>15. CASE CloseTransport
  <2>1. /\ evbQueue' \in Seq(Closures)
        /\ tpc' \in {"close_wait", "close_join"}
    <3>1. CASE ClosesOnEvb
      <4>1. evbQueue' = Append(evbQueue, Close) /\ tpc' = "close_wait"
        BY <1>15, <3>1 DEF CloseTransport, Enqueue
      <4> QED
        BY <4>1, ClosuresQueued
    <3>2. CASE ~ClosesOnEvb
      BY <1>15, <3>2 DEF CloseTransport
    <3> QED
      BY <3>1, <3>2
  <2> QED
    BY <1>15, <2>1 DEF CloseTransport
<1>16. CASE CloseJoin
  BY <1>16 DEF CloseJoin, JoinLoop
<1>17. CASE DtorJoin
  BY <1>17 DEF DtorJoin, JoinLoop
<1>18. CASE DtorEvb
  BY <1>18 DEF DtorEvb
<1>19. CASE DtorEvbDrained
  BY <1>19 DEF DtorEvbDrained
<1>20. CASE DtorWaker
  BY <1>20 DEF DtorWaker
<1>21. ASSUME NEW t \in Tasks, NEW n \in BufSizes, PollRead(t, n)
       PROVE  TypeOK'
  BY <1>21, ConnectionAssumption DEF PollRead, Register
<1>22. CASE PollWrite
  <2>1. /\ evbQueue' \in Seq(Closures) /\ accepted' \in Nat
        /\ ret' \in {"written", "write_err"}
    <3>1. CASE writeError
      BY <1>22, <3>1 DEF PollWrite
    <3>2. CASE ~writeError
      <4>1. Write(accepted + 1) \in Closures
        BY ClosuresQueued
      <4>2. /\ evbQueue' = Append(evbQueue, Write(accepted + 1))
            /\ accepted' = accepted + 1 /\ ret' = "written"
        BY <1>22, <3>2 DEF PollWrite, Enqueue
      <4> QED
        BY <4>1, <4>2
    <3> QED
      BY <3>1, <3>2
  <2> QED
    BY <1>22, <2>1 DEF PollWrite
<1>23. CASE PollFlush
  BY <1>23 DEF PollFlush
<1>24. CASE PollShutdown
  BY <1>24 DEF PollShutdown
<1>25. CASE Drop
  BY <1>25 DEF Drop, DropEnters
<1>26. CASE UNCHANGED vars
  BY <1>26, SMTT(30) DEF vars
<1> QED
  BY <1>1, <1>2, <1>3, <1>4, <1>5, <1>6, <1>7, <1>8, <1>9, <1>10, <1>11,
     <1>12, <1>13, <1>14, <1>15, <1>16, <1>17, <1>18, <1>19, <1>20, <1>21,
     <1>22, <1>23, <1>24, <1>25, <1>26, ZenonT(30) DEF Next, EvbNext, EvbContinues,
     EvbClosure, OwnerNext, OwnerContinues, Freed

\* Nobody unlocks a mutex another thread holds.
LEMMA LockingStep ==
  ASSUME IInv, [Next]_vars PROVE Locking'
<1> USE DEF IInv, Locking, objVars, wakeVars, evbVars, netVars, writeVars,
        taskVars, readVars, inVars
<1>1. CASE GetReadBuffer
  BY <1>1 DEF GetReadBuffer, ReadMutexFree
<1>2. CASE ReadEOF
  BY <1>2 DEF ReadEOF, TerminalCallback, EvbRuns
<1>3. CASE ReadErr
  BY <1>3 DEF ReadErr, TerminalCallback, ReleasePendingRead, EvbRuns
<1>4. ASSUME NEW len \in 1..(MaxBytes - arrived), ReadDataAvailable(len)
      PROVE  Locking'
  BY <1>4 DEF ReadDataAvailable, BytesReadAfter
<1>5. CASE ReadEOFClose
  BY <1>5 DEF ReadEOFClose, ReleasePendingRead
<1>6. CASE ReadErrClose
  BY <1>6 DEF ReadErrClose
<1>7. CASE WakeReader
  BY <1>7 DEF WakeReader, Wake
<1>8. CASE RunWrite
  BY <1>8 DEF RunWrite, RunsClosure, EvbRuns, Good
<1>9. CASE RunClose
  BY <1>9, CloseIsLast DEF RunClose
<1>10. ASSUME NEW k \in inflight, WriteSuccess(k)
       PROVE  Locking'
  BY <1>10 DEF WriteSuccess, EvbRuns
<1>11. ASSUME NEW k \in inflight, WriteErr(k)
       PROVE  Locking'
  BY <1>11 DEF WriteErr, EvbRuns
<1>12. CASE SetReadWaker
  BY <1>12 DEF SetReadWaker
<1>13. CASE LockRead
  BY <1>13 DEF LockRead, ReadMutexFree
<1>14. CASE ReadOrStatus
  BY <1>14 DEF ReadOrStatus
<1>15. CASE CloseTransport
  BY <1>15 DEF CloseTransport, ClosesOnEvb, Good, Enqueue
<1>16. CASE CloseJoin
  BY <1>16 DEF CloseJoin, JoinLoop
<1>17. CASE DtorJoin
  BY <1>17 DEF DtorJoin, JoinLoop
<1>18. CASE DtorEvb
  BY <1>18 DEF DtorEvb
<1>19. CASE DtorEvbDrained
  BY <1>19 DEF DtorEvbDrained
<1>20. CASE DtorWaker
  BY <1>20 DEF DtorWaker
<1>21. ASSUME NEW t \in Tasks, NEW n \in BufSizes, PollRead(t, n)
       PROVE  Locking'
  BY <1>21 DEF PollRead, Register
<1>22. CASE PollWrite
  BY <1>22 DEF PollWrite, Enqueue
<1>23. CASE PollFlush
  BY <1>23 DEF PollFlush
<1>24. CASE PollShutdown
  BY <1>24 DEF PollShutdown
<1>25. CASE Drop
  BY <1>25 DEF Drop, DropEnters
<1>26. CASE UNCHANGED vars
  BY <1>26, SMTT(30) DEF vars
<1> QED
  BY <1>1, <1>2, <1>3, <1>4, <1>5, <1>6, <1>7, <1>8, <1>9, <1>10, <1>11,
     <1>12, <1>13, <1>14, <1>15, <1>16, <1>17, <1>18, <1>19, <1>20, <1>21,
     <1>22, <1>23, <1>24, <1>25, <1>26, ZenonT(30) DEF Next, EvbNext, EvbContinues,
     EvbClosure, OwnerNext, OwnerContinues, Freed

\* The owner and the loop go through their life cycles together.
LEMMA LifecycleStep ==
  ASSUME IInv, [Next]_vars PROVE Lifecycle'
<1> USE DEF IInv, Lifecycle, Destroying, EvbRuns, objVars, wakeVars, evbVars,
        netVars, writeVars, taskVars, readVars, inVars
<1>1. CASE GetReadBuffer
  BY <1>1 DEF GetReadBuffer, ReadMutexFree
<1>2. CASE ReadEOF
  BY <1>2 DEF ReadEOF, TerminalCallback, EvbRuns
<1>3. CASE ReadErr
  BY <1>3 DEF ReadErr, TerminalCallback, ReleasePendingRead, EvbRuns
<1>4. ASSUME NEW len \in 1..(MaxBytes - arrived), ReadDataAvailable(len)
      PROVE  Lifecycle'
  BY <1>4 DEF ReadDataAvailable, BytesReadAfter
<1>5. CASE ReadEOFClose
  BY <1>5 DEF ReadEOFClose, ReleasePendingRead
<1>6. CASE ReadErrClose
  BY <1>6 DEF ReadErrClose
<1>7. CASE WakeReader
  BY <1>7 DEF WakeReader, Wake
<1>8. CASE RunWrite
  BY <1>8 DEF RunWrite, RunsClosure, EvbRuns, Good
<1>9. CASE RunClose
  BY <1>9, CloseIsLast DEF RunClose
<1>10. ASSUME NEW k \in inflight, WriteSuccess(k)
       PROVE  Lifecycle'
  BY <1>10 DEF WriteSuccess, EvbRuns
<1>11. ASSUME NEW k \in inflight, WriteErr(k)
       PROVE  Lifecycle'
  BY <1>11 DEF WriteErr, EvbRuns
<1>12. CASE SetReadWaker
  BY <1>12 DEF SetReadWaker
<1>13. CASE LockRead
  BY <1>13 DEF LockRead, ReadMutexFree
<1>14. CASE ReadOrStatus
  BY <1>14 DEF ReadOrStatus
<1>15. CASE CloseTransport
  BY <1>15 DEF CloseTransport, ClosesOnEvb, Good, Enqueue
<1>16. CASE CloseJoin
  BY <1>16 DEF CloseJoin, JoinLoop
<1>17. CASE DtorJoin
  BY <1>17 DEF DtorJoin, JoinLoop
<1>18. CASE DtorEvb
  BY <1>18 DEF DtorEvb
<1>19. CASE DtorEvbDrained
  BY <1>19 DEF DtorEvbDrained
<1>20. CASE DtorWaker
  BY <1>20 DEF DtorWaker
<1>21. ASSUME NEW t \in Tasks, NEW n \in BufSizes, PollRead(t, n)
       PROVE  Lifecycle'
  BY <1>21 DEF PollRead, Register
<1>22. CASE PollWrite
  BY <1>22 DEF PollWrite, Enqueue
<1>23. CASE PollFlush
  BY <1>23 DEF PollFlush
<1>24. CASE PollShutdown
  BY <1>24 DEF PollShutdown
<1>25. CASE Drop
  BY <1>25 DEF Drop, DropEnters
<1>26. CASE UNCHANGED vars
  BY <1>26, SMTT(30) DEF vars
<1> QED
  BY <1>1, <1>2, <1>3, <1>4, <1>5, <1>6, <1>7, <1>8, <1>9, <1>10, <1>11,
     <1>12, <1>13, <1>14, <1>15, <1>16, <1>17, <1>18, <1>19, <1>20, <1>21,
     <1>22, <1>23, <1>24, <1>25, <1>26, ZenonT(30) DEF Next, EvbNext, EvbContinues,
     EvbClosure, OwnerNext, OwnerContinues, Freed

\* End-of-stream is reported behind the last byte.
LEMMA EndingStep ==
  ASSUME IInv, [Next]_vars PROVE Ending'
<1> USE DEF IInv, Ending, Locking, objVars, wakeVars, evbVars, netVars,
        writeVars, taskVars, readVars, inVars
<1>1. CASE GetReadBuffer
  BY <1>1 DEF GetReadBuffer, ReadMutexFree
<1>2. CASE ReadEOF
  BY <1>2 DEF ReadEOF, TerminalCallback, EvbRuns
<1>3. CASE ReadErr
  BY <1>3 DEF ReadErr, TerminalCallback, ReleasePendingRead, EvbRuns
<1>4. ASSUME NEW len \in 1..(MaxBytes - arrived), ReadDataAvailable(len)
      PROVE  Ending'
  BY <1>4 DEF ReadDataAvailable, BytesReadAfter
<1>5. CASE ReadEOFClose
  BY <1>5 DEF ReadEOFClose, ReleasePendingRead
<1>6. CASE ReadErrClose
  BY <1>6 DEF ReadErrClose
<1>7. CASE WakeReader
  BY <1>7 DEF WakeReader, Wake
<1>8. CASE RunWrite
  BY <1>8 DEF RunWrite, RunsClosure, EvbRuns, Good
<1>9. CASE RunClose
  BY <1>9 DEF RunClose, RunsClosure, EvbRuns, Good
<1>10. ASSUME NEW k \in inflight, WriteSuccess(k)
       PROVE  Ending'
  BY <1>10 DEF WriteSuccess, EvbRuns
<1>11. ASSUME NEW k \in inflight, WriteErr(k)
       PROVE  Ending'
  BY <1>11 DEF WriteErr, EvbRuns
<1>12. CASE SetReadWaker
  BY <1>12 DEF SetReadWaker
<1>13. CASE LockRead
  BY <1>13 DEF LockRead, ReadMutexFree
<1>14. CASE ReadOrStatus
  <2>1. /\ readBufQueue \in Seq(Nat) /\ bytesRead = Len(readBufQueue)
        /\ eofSeen \in BOOLEAN
    BY DEF TypeOK, StreamIntegrity
  <2>2. readBufQueue = <<>> => readBufQueue' = <<>>
    BY <1>14, <2>1, OutcomeFacts DEF ReadOrStatus
  <2>3. eofSeen' => eofSeen \/ ReadOutcome(poll.size).eof
    BY <1>14, Zenon DEF ReadOrStatus
  <2>4. ReadOutcome(poll.size).eof => readBufQueue = <<>> /\ readEof
    BY <2>1, OutcomeFacts
  <2> QED
    BY <1>14, <2>2, <2>3, <2>4 DEF ReadOrStatus
<1>15. CASE CloseTransport
  BY <1>15 DEF CloseTransport, ClosesOnEvb, Good, Enqueue
<1>16. CASE CloseJoin
  BY <1>16 DEF CloseJoin, JoinLoop
<1>17. CASE DtorJoin
  BY <1>17 DEF DtorJoin, JoinLoop
<1>18. CASE DtorEvb
  BY <1>18 DEF DtorEvb
<1>19. CASE DtorEvbDrained
  BY <1>19 DEF DtorEvbDrained
<1>20. CASE DtorWaker
  BY <1>20 DEF DtorWaker
<1>21. ASSUME NEW t \in Tasks, NEW n \in BufSizes, PollRead(t, n)
       PROVE  Ending'
  BY <1>21 DEF PollRead, Register
<1>22. CASE PollWrite
  BY <1>22 DEF PollWrite, Enqueue
<1>23. CASE PollFlush
  BY <1>23 DEF PollFlush
<1>24. CASE PollShutdown
  BY <1>24 DEF PollShutdown
<1>25. CASE Drop
  BY <1>25 DEF Drop, DropEnters
<1>26. CASE UNCHANGED vars
  BY <1>26, SMTT(30) DEF vars
<1> QED
  BY <1>1, <1>2, <1>3, <1>4, <1>5, <1>6, <1>7, <1>8, <1>9, <1>10, <1>11,
     <1>12, <1>13, <1>14, <1>15, <1>16, <1>17, <1>18, <1>19, <1>20, <1>21,
     <1>22, <1>23, <1>24, <1>25, <1>26, ZenonT(30) DEF Next, EvbNext, EvbContinues,
     EvbClosure, OwnerNext, OwnerContinues, Freed

\* A registered Waker stays in the slot until it has been woken.
LEMMA WakingStep ==
  ASSUME IInv, [Next]_vars PROVE Waking'
<1> USE DEF IInv, Waking, Lifecycle, Destroying, objVars, wakeVars, evbVars,
        netVars, writeVars, taskVars, readVars, inVars
<1>1. CASE GetReadBuffer
  BY <1>1 DEF GetReadBuffer, ReadMutexFree
<1>2. CASE ReadEOF
  BY <1>2 DEF ReadEOF, TerminalCallback, EvbRuns
<1>3. CASE ReadErr
  BY <1>3 DEF ReadErr, TerminalCallback, ReleasePendingRead, EvbRuns
<1>4. ASSUME NEW len \in 1..(MaxBytes - arrived), ReadDataAvailable(len)
      PROVE  Waking'
  BY <1>4 DEF ReadDataAvailable, BytesReadAfter
<1>5. CASE ReadEOFClose
  BY <1>5 DEF ReadEOFClose, ReleasePendingRead
<1>6. CASE ReadErrClose
  BY <1>6 DEF ReadErrClose
<1>7. CASE WakeReader
  BY <1>7 DEF WakeReader, Wake
<1>8. CASE RunWrite
  BY <1>8 DEF RunWrite, RunsClosure, EvbRuns, Good
<1>9. CASE RunClose
  BY <1>9, CloseIsLast DEF RunClose
<1>10. ASSUME NEW k \in inflight, WriteSuccess(k)
       PROVE  Waking'
  BY <1>10 DEF WriteSuccess, EvbRuns
<1>11. ASSUME NEW k \in inflight, WriteErr(k)
       PROVE  Waking'
  BY <1>11 DEF WriteErr, EvbRuns
<1>12. CASE SetReadWaker
  BY <1>12 DEF SetReadWaker
<1>13. CASE LockRead
  BY <1>13 DEF LockRead, ReadMutexFree
<1>14. CASE ReadOrStatus
  BY <1>14 DEF ReadOrStatus
<1>15. CASE CloseTransport
  BY <1>15 DEF CloseTransport, ClosesOnEvb, Good, Enqueue
<1>16. CASE CloseJoin
  BY <1>16 DEF CloseJoin, JoinLoop
<1>17. CASE DtorJoin
  BY <1>17 DEF DtorJoin, JoinLoop
<1>18. CASE DtorEvb
  BY <1>18 DEF DtorEvb
<1>19. CASE DtorEvbDrained
  BY <1>19 DEF DtorEvbDrained
<1>20. CASE DtorWaker
  BY <1>20 DEF DtorWaker
<1>21. ASSUME NEW t \in Tasks, NEW n \in BufSizes, PollRead(t, n)
       PROVE  Waking'
  BY <1>21 DEF PollRead, Register
<1>22. CASE PollWrite
  BY <1>22 DEF PollWrite, Enqueue
<1>23. CASE PollFlush
  BY <1>23 DEF PollFlush
<1>24. CASE PollShutdown
  BY <1>24 DEF PollShutdown
<1>25. CASE Drop
  BY <1>25 DEF Drop, DropEnters
<1>26. CASE UNCHANGED vars
  BY <1>26, SMTT(30) DEF vars
<1> QED
  BY <1>1, <1>2, <1>3, <1>4, <1>5, <1>6, <1>7, <1>8, <1>9, <1>10, <1>11,
     <1>12, <1>13, <1>14, <1>15, <1>16, <1>17, <1>18, <1>19, <1>20, <1>21,
     <1>22, <1>23, <1>24, <1>25, <1>26, ZenonT(30) DEF Next, EvbNext, EvbContinues,
     EvbClosure, OwnerNext, OwnerContinues, Freed

-----------------------------------------------------------------------------
\* The stream and the closure queue.

\* Bytes move from the transport to the queue to the reader, in order.
LEMMA StreamStep ==
  ASSUME IInv, [Next]_vars PROVE StreamIntegrity'
<1> USE DEF IInv, StreamIntegrity, objVars, wakeVars, evbVars, netVars,
        writeVars, taskVars, readVars, inVars
<1>1. CASE GetReadBuffer
  BY <1>1 DEF GetReadBuffer, ReadMutexFree
<1>2. CASE ReadEOF
  BY <1>2 DEF ReadEOF, TerminalCallback, EvbRuns
<1>3. CASE ReadErr
  BY <1>3 DEF ReadErr, TerminalCallback, ReleasePendingRead, EvbRuns
<1>4. ASSUME NEW len \in 1..(MaxBytes - arrived), ReadDataAvailable(len)
      PROVE  StreamIntegrity'
  <2> DEFINE r == NextBytes(len)
  <2>1. /\ arrived \in Nat /\ readBufQueue \in Seq(Nat) /\ len \in Nat
        /\ Len(delivered) \in Nat /\ Len(readBufQueue) \in Nat
    BY ConnectionAssumption DEF TypeOK
  <2>2. r \in Seq(Nat) /\ Len(r) = len /\ \A i \in 1..len : r[i] = arrived + i
    BY <2>1, NextBytesFacts
  <2>3. readBufQueue' = readBufQueue \o r
    BY <1>4 DEF ReadDataAvailable
  <2> HIDE DEF r
  <2>4. /\ Len(readBufQueue') = Len(readBufQueue) + len
        /\ \A i \in 1..Len(readBufQueue) : readBufQueue'[i] = readBufQueue[i]
        /\ \A i \in 1..len :
             readBufQueue'[Len(readBufQueue) + i] = arrived + i
    BY <2>1, <2>2, <2>3, ConcatFacts, Zenon
  <2>5. ASSUME NEW i \in 1..Len(readBufQueue')
        PROVE  readBufQueue'[i] = Len(delivered) + i
    <3>1. CASE i \in 1..Len(readBufQueue)
      BY <2>4, <3>1
    <3>2. CASE i \notin 1..Len(readBufQueue)
      <4>1. i - Len(readBufQueue) \in 1..len
        BY <2>1, <2>4, <3>2
      <4>2. readBufQueue'[Len(readBufQueue) + (i - Len(readBufQueue))]
              = arrived + (i - Len(readBufQueue))
        BY <2>4, <4>1
      <4>3. Len(readBufQueue) + (i - Len(readBufQueue)) = i
        BY <2>1
      <4>4. arrived + (i - Len(readBufQueue)) = Len(delivered) + i
        BY <2>1, Arithmetic
      <4> QED
        BY <4>2, <4>3, <4>4
    <3> QED
      BY <3>1, <3>2
  <2>6. /\ bytesRead' = bytesRead + len /\ arrived' = arrived + len
        /\ delivered' = delivered
    BY <1>4 DEF ReadDataAvailable, BytesReadAfter
  <2>7. /\ Len(delivered') + Len(readBufQueue') = arrived'
        /\ bytesRead' = Len(readBufQueue')
    BY <2>1, <2>4, <2>6
  <2> QED
    BY <2>5, <2>6, <2>7
<1>5. CASE ReadEOFClose
  BY <1>5 DEF ReadEOFClose, ReleasePendingRead
<1>6. CASE ReadErrClose
  BY <1>6 DEF ReadErrClose
<1>7. CASE WakeReader
  BY <1>7 DEF WakeReader, Wake
<1>8. CASE RunWrite
  BY <1>8 DEF RunWrite, RunsClosure, EvbRuns, Good
<1>9. CASE RunClose
  BY <1>9 DEF RunClose, RunsClosure, EvbRuns, Good
<1>10. ASSUME NEW k \in inflight, WriteSuccess(k)
       PROVE  StreamIntegrity'
  BY <1>10 DEF WriteSuccess, EvbRuns
<1>11. ASSUME NEW k \in inflight, WriteErr(k)
       PROVE  StreamIntegrity'
  BY <1>11 DEF WriteErr, EvbRuns
<1>12. CASE SetReadWaker
  BY <1>12 DEF SetReadWaker
<1>13. CASE LockRead
  BY <1>13 DEF LockRead, ReadMutexFree
<1>14. CASE ReadOrStatus
  <2> DEFINE n == ReadOutcome(poll.size).bytes
             q == SubSeq(readBufQueue, 1, n)
  <2>1. /\ n \in 0..Len(readBufQueue)
        /\ readBufQueue \in Seq(Nat) /\ delivered \in Seq(Nat)
    BY OutcomeFacts DEF TypeOK
  <2>2. /\ delivered' = delivered \o q
        /\ readBufQueue' = SubSeq(readBufQueue, n + 1, Len(readBufQueue))
        /\ bytesRead' = bytesRead - n /\ arrived' = arrived
    BY <1>14 DEF ReadOrStatus
  <2> HIDE DEF n
  <2>3. /\ Len(readBufQueue') = Len(readBufQueue) - n
        /\ \A i \in 1..(Len(readBufQueue) - n) :
             readBufQueue'[i] = readBufQueue[n + i]
    BY <2>1, <2>2, SplitFacts, Zenon
  <2>4. q \in Seq(Nat) /\ Len(q) = n /\ \A i \in 1..n : q[i] = readBufQueue[i]
    BY <2>1, SplitFacts
  <2> HIDE DEF q
  <2>5. /\ Len(delivered') = Len(delivered) + n
        /\ \A i \in 1..Len(delivered) : delivered'[i] = delivered[i]
        /\ \A i \in 1..n : delivered'[Len(delivered) + i] = readBufQueue[i]
    BY <2>1, <2>2, <2>4, ConcatFacts, Zenon
  <2>6. Len(delivered) \in Nat /\ Len(readBufQueue) \in Nat /\ n \in Nat
    BY <2>1
  <2>7. ASSUME NEW i \in 1..Len(delivered') PROVE delivered'[i] = i
    <3>1. CASE i \in 1..Len(delivered)
      BY <2>5, <3>1
    <3>2. CASE i \notin 1..Len(delivered)
      <4>1. i - Len(delivered) \in 1..n
        BY <2>5, <2>6, <3>2
      <4>2. delivered'[Len(delivered) + (i - Len(delivered))]
              = readBufQueue[i - Len(delivered)]
        BY <2>5, <4>1
      <4>3. readBufQueue[i - Len(delivered)]
              = Len(delivered) + (i - Len(delivered))
        BY <2>1, <4>1
      <4> QED
        BY <2>6, <4>1, <4>2, <4>3
    <3> QED
      BY <3>1, <3>2
  <2>8. ASSUME NEW i \in 1..Len(readBufQueue')
        PROVE  readBufQueue'[i] = Len(delivered') + i
    <3>1. readBufQueue'[i] = readBufQueue[n + i] /\ n + i \in 1..Len(readBufQueue)
      BY <2>3, <2>6
    <3> QED
      BY <2>5, <2>6, <3>1
  <2>9. /\ Len(delivered') + Len(readBufQueue') = arrived'
        /\ bytesRead' = Len(readBufQueue')
    <3>1. Len(delivered') + Len(readBufQueue')
            = Len(delivered) + Len(readBufQueue)
      BY <2>3, <2>5, <2>6
    <3> QED
      BY <2>2, <2>3, <3>1, Zenon
  <2> QED
    BY <2>7, <2>8, <2>9
<1>15. CASE CloseTransport
  BY <1>15 DEF CloseTransport, ClosesOnEvb, Good, Enqueue
<1>16. CASE CloseJoin
  BY <1>16 DEF CloseJoin, JoinLoop
<1>17. CASE DtorJoin
  BY <1>17 DEF DtorJoin, JoinLoop
<1>18. CASE DtorEvb
  BY <1>18 DEF DtorEvb
<1>19. CASE DtorEvbDrained
  BY <1>19 DEF DtorEvbDrained
<1>20. CASE DtorWaker
  BY <1>20 DEF DtorWaker
<1>21. ASSUME NEW t \in Tasks, NEW n \in BufSizes, PollRead(t, n)
       PROVE  StreamIntegrity'
  BY <1>21 DEF PollRead, Register
<1>22. CASE PollWrite
  BY <1>22 DEF PollWrite, Enqueue
<1>23. CASE PollFlush
  BY <1>23 DEF PollFlush
<1>24. CASE PollShutdown
  BY <1>24 DEF PollShutdown
<1>25. CASE Drop
  BY <1>25 DEF Drop, DropEnters
<1>26. CASE UNCHANGED vars
  BY <1>26, SMTT(30) DEF vars
<1> QED
  BY <1>1, <1>2, <1>3, <1>4, <1>5, <1>6, <1>7, <1>8, <1>9, <1>10, <1>11,
     <1>12, <1>13, <1>14, <1>15, <1>16, <1>17, <1>18, <1>19, <1>20, <1>21,
     <1>22, <1>23, <1>24, <1>25, <1>26, ZenonT(30) DEF Next, EvbNext, EvbContinues,
     EvbClosure, OwnerNext, OwnerContinues, Freed

\* close() is queued once, last, and only to a loop that runs.
LEMMA ClosingStep ==
  ASSUME IInv, [Next]_vars PROVE Closing'
<1> USE DEF IInv, Closing, Lifecycle, Destroying, Good, objVars, wakeVars,
        evbVars, netVars, writeVars, taskVars, readVars, inVars
<1>1. CASE GetReadBuffer
  BY <1>1 DEF GetReadBuffer, ReadMutexFree
<1>2. CASE ReadEOF
  BY <1>2 DEF ReadEOF, TerminalCallback, EvbRuns
<1>3. CASE ReadErr
  BY <1>3 DEF ReadErr, TerminalCallback, ReleasePendingRead, EvbRuns
<1>4. ASSUME NEW len \in 1..(MaxBytes - arrived), ReadDataAvailable(len)
      PROVE  Closing'
  BY <1>4 DEF ReadDataAvailable, BytesReadAfter
<1>5. CASE ReadEOFClose
  BY <1>5 DEF ReadEOFClose, ReleasePendingRead
<1>6. CASE ReadErrClose
  BY <1>6 DEF ReadErrClose
<1>7. CASE WakeReader
  BY <1>7 DEF WakeReader, Wake
<1>8. CASE RunWrite
  <2>1. /\ evbQueue \in Seq(Closures) /\ evbQueue # <<>>
        /\ Head(evbQueue).kind = "write" /\ evbQueue' = Tail(evbQueue)
    BY <1>8 DEF RunWrite, RunsClosure, TypeOK
  <2>2. /\ Len(evbQueue) \in Nat \ {0} /\ evbQueue[1].kind = "write"
        /\ Len(evbQueue') = Len(evbQueue) - 1
        /\ \A i \in 1..(Len(evbQueue) - 1) : evbQueue'[i] = evbQueue[i + 1]
    BY <2>1
  <2>3. /\ tpc' = tpc /\ loop' = loop /\ side' = side
        /\ ~Good => ~Good'
    BY <1>8 DEF RunWrite
  <2>4. tpc = "close_wait" => Len(evbQueue) > 1
    BY <2>2 DEF Close
  <2>5. ASSUME tpc = "close_wait"
        PROVE  evbQueue' # <<>> /\ evbQueue'[Len(evbQueue')] = Close
    <3>1. Len(evbQueue') \in 1..(Len(evbQueue) - 1)
      BY <2>2, <2>4, <2>5
    <3>2. evbQueue'[Len(evbQueue')] = evbQueue[Len(evbQueue') + 1]
      BY <2>2, <3>1
    <3>3. Len(evbQueue') + 1 = Len(evbQueue)
      BY <2>2
    <3> QED
      BY <2>5, <3>1, <3>2, <3>3
  <2>6. ASSUME NEW i \in 1..Len(evbQueue'), evbQueue'[i].kind = "close"
        PROVE  tpc = "close_wait" /\ i = Len(evbQueue')
    <3>1. i + 1 \in 1..Len(evbQueue) /\ evbQueue[i + 1].kind = "close"
      BY <2>2, <2>6
    <3> QED
      BY <2>2, <3>1
  <2> QED
    BY <2>3, <2>5, <2>6
<1>9. CASE RunClose
  <2>1. evbQueue' = <<>> /\ tpc = "close_wait" /\ tpc' = "close_join" /\ ~Good'
    BY <1>9, CloseIsLast DEF RunClose
  <2> QED
    BY <1>9, <2>1 DEF RunClose
<1>10. ASSUME NEW k \in inflight, WriteSuccess(k)
       PROVE  Closing'
  BY <1>10 DEF WriteSuccess, EvbRuns
<1>11. ASSUME NEW k \in inflight, WriteErr(k)
       PROVE  Closing'
  BY <1>11 DEF WriteErr, EvbRuns
<1>12. CASE SetReadWaker
  BY <1>12 DEF SetReadWaker
<1>13. CASE LockRead
  BY <1>13 DEF LockRead, ReadMutexFree
<1>14. CASE ReadOrStatus
  BY <1>14 DEF ReadOrStatus
<1>15. CASE CloseTransport
  <2>1. CASE ClosesOnEvb
    <3>1. /\ evbQueue \in Seq(Closures) /\ evbQueue' = Append(evbQueue, Close)
          /\ tpc' = "close_wait" /\ tpc = "close"
      BY <1>15, <2>1 DEF CloseTransport, Enqueue, TypeOK
    <3>2. loop = "running"
      BY <1>15, <2>1, <3>1 DEF ClosesOnEvb, TypeOK
    <3>3. /\ Len(evbQueue') = Len(evbQueue) + 1
          /\ evbQueue'[Len(evbQueue')] = Close
          /\ \A i \in 1..Len(evbQueue) : evbQueue'[i] = evbQueue[i]
      BY <3>1, ClosuresQueued
    <3>4. \A i \in 1..Len(evbQueue) : evbQueue[i].kind # "close"
      BY <3>1
    <3>5. Len(evbQueue) \in Nat
      BY <3>1
    <3>6. evbQueue' # <<>>
      BY <3>3, <3>5
    <3>7. \A i \in 1..Len(evbQueue') :
            evbQueue'[i].kind = "close" => i = Len(evbQueue')
      BY <3>3, <3>4, <3>5
    <3> QED
      BY <1>15, <3>1, <3>2, <3>3, <3>6, <3>7 DEF CloseTransport
  <2>2. CASE ~ClosesOnEvb
    BY <1>15, <2>2 DEF CloseTransport, ClosesOnEvb
  <2> QED
    BY <2>1, <2>2
<1>16. CASE CloseJoin
  BY <1>16 DEF CloseJoin, JoinLoop
<1>17. CASE DtorJoin
  BY <1>17 DEF DtorJoin, JoinLoop
<1>18. CASE DtorEvb
  BY <1>18 DEF DtorEvb
<1>19. CASE DtorEvbDrained
  BY <1>19 DEF DtorEvbDrained
<1>20. CASE DtorWaker
  BY <1>20 DEF DtorWaker
<1>21. ASSUME NEW t \in Tasks, NEW n \in BufSizes, PollRead(t, n)
       PROVE  Closing'
  BY <1>21 DEF PollRead, Register
<1>22. CASE PollWrite
  <2>1. CASE writeError
    BY <1>22, <2>1 DEF PollWrite
  <2>2. CASE ~writeError
    <3>1. /\ evbQueue \in Seq(Closures) /\ Write(accepted + 1) \in Closures
          /\ evbQueue' = Append(evbQueue, Write(accepted + 1))
          /\ tpc = "idle" /\ tpc' = tpc
      BY <1>22, <2>2, ClosuresQueued, SMTT(30) DEF PollWrite, Enqueue, TypeOK
    <3>2. /\ Len(evbQueue') = Len(evbQueue) + 1 /\ Len(evbQueue) \in Nat
          /\ evbQueue'[Len(evbQueue) + 1].kind = "write"
          /\ \A i \in 1..Len(evbQueue) : evbQueue'[i] = evbQueue[i]
      BY <3>1 DEF Write
    <3>3. \A i \in 1..Len(evbQueue') : evbQueue'[i].kind # "close"
      BY <3>1, <3>2
    <3> QED
      BY <1>22, <3>1, <3>3 DEF PollWrite
  <2> QED
    BY <2>1, <2>2
<1>23. CASE PollFlush
  BY <1>23 DEF PollFlush
<1>24. CASE PollShutdown
  BY <1>24 DEF PollShutdown
<1>25. CASE Drop
  BY <1>25 DEF Drop, DropEnters
<1>26. CASE UNCHANGED vars
  BY <1>26, SMTT(30) DEF vars
<1> QED
  BY <1>1, <1>2, <1>3, <1>4, <1>5, <1>6, <1>7, <1>8, <1>9, <1>10, <1>11,
     <1>12, <1>13, <1>14, <1>15, <1>16, <1>17, <1>18, <1>19, <1>20, <1>21,
     <1>22, <1>23, <1>24, <1>25, <1>26, ZenonT(30) DEF Next, EvbNext, EvbContinues,
     EvbClosure, OwnerNext, OwnerContinues, Freed

\* A step that moves no closure and no write.
LEMMA QueueingKept ==
  ASSUME Queueing, UNCHANGED <<sent, evbQueue, transport, accepted, tpc>>
  PROVE  Queueing'
  BY DEF Queueing, SentInOrder, Good

\* Writes keep the numbers they were accepted under.
LEMMA QueueingStep ==
  ASSUME IInv, [Next]_vars PROVE Queueing'
<1> USE DEF IInv, Queueing, SentInOrder, Good, objVars, wakeVars, evbVars,
        netVars, writeVars, taskVars, readVars, inVars
<1>1. CASE GetReadBuffer
  <2>1. UNCHANGED <<sent, evbQueue, transport, accepted, tpc>>
    BY <1>1 DEF GetReadBuffer
  <2> QED
    BY <2>1, QueueingKept
<1>2. CASE ReadEOF
  BY <1>2 DEF ReadEOF, TerminalCallback, EvbRuns
<1>3. CASE ReadErr
  BY <1>3 DEF ReadErr, TerminalCallback, ReleasePendingRead, EvbRuns
<1>4. ASSUME NEW len \in 1..(MaxBytes - arrived), ReadDataAvailable(len)
      PROVE  Queueing'
  BY <1>4 DEF ReadDataAvailable, BytesReadAfter
<1>5. CASE ReadEOFClose
  BY <1>5 DEF ReadEOFClose, ReleasePendingRead
<1>6. CASE ReadErrClose
  BY <1>6 DEF ReadErrClose
<1>7. CASE WakeReader
  BY <1>7 DEF WakeReader, Wake
<1>8. CASE RunWrite
  <2>1. CASE ~Good
    BY <1>8, <2>1 DEF RunWrite
  <2>2. CASE Good
    <3>1. /\ evbQueue \in Seq(Closures) /\ evbQueue # <<>>
          /\ Head(evbQueue).kind = "write" /\ evbQueue' = Tail(evbQueue)
      BY <1>8 DEF RunWrite, RunsClosure, TypeOK
    <3>2. /\ Len(evbQueue) \in Nat \ {0} /\ evbQueue[1].kind = "write"
          /\ Len(evbQueue') = Len(evbQueue) - 1
          /\ \A i \in 1..(Len(evbQueue) - 1) : evbQueue'[i] = evbQueue[i + 1]
      BY <3>1
    <3>3. /\ sent \in Seq(Nat) /\ Head(evbQueue) = evbQueue[1]
          /\ sent' = Append(sent, Head(evbQueue).id)
          /\ transport' = transport /\ accepted' = accepted /\ tpc' = tpc
      BY <1>8, <2>2, <3>1 DEF RunWrite, TypeOK
    <3>4. evbQueue[1].id = Len(sent) + 1 /\ Len(sent) \in Nat
      BY <2>2, <3>2, <3>3
    <3>5. sent' = Append(sent, Len(sent) + 1)
      BY <3>3, <3>4
    <3>6. /\ Len(sent') = Len(sent) + 1
          /\ \A i \in 1..Len(sent') : sent'[i] = i
      BY <3>3, <3>4, <3>5
    <3>7. ASSUME NEW i \in 1..Len(evbQueue'), evbQueue'[i].kind = "write"
          PROVE  evbQueue'[i].id = Len(sent') + i
      <4>1. /\ i + 1 \in 1..Len(evbQueue) /\ evbQueue'[i] = evbQueue[i + 1]
            /\ evbQueue[i + 1].kind = "write"
        BY <3>2, <3>7
      <4> QED
        BY <2>2, <3>4, <3>6, <4>1
    <3>8. accepted \in Nat
      BY DEF TypeOK
    <3>9. Len(sent') + Len(evbQueue')
            = accepted' + IF tpc' = "close_wait" THEN 1 ELSE 0
      <4>1. Len(sent) + Len(evbQueue)
              = accepted + IF tpc = "close_wait" THEN 1 ELSE 0
        BY <2>2
      <4>2. Len(sent') + Len(evbQueue') = Len(sent) + Len(evbQueue)
        BY <3>2, <3>4, <3>6
      <4> QED
        BY <3>3, <4>1, <4>2
    <3> QED
      BY <3>6, <3>7, <3>9
  <2> QED
    BY <2>1, <2>2
<1>9. CASE RunClose
  BY <1>9, CloseIsLast DEF RunClose
<1>10. ASSUME NEW k \in inflight, WriteSuccess(k)
       PROVE  Queueing'
  BY <1>10 DEF WriteSuccess, EvbRuns
<1>11. ASSUME NEW k \in inflight, WriteErr(k)
       PROVE  Queueing'
  BY <1>11 DEF WriteErr, EvbRuns
<1>12. CASE SetReadWaker
  BY <1>12 DEF SetReadWaker
<1>13. CASE LockRead
  BY <1>13 DEF LockRead, ReadMutexFree
<1>14. CASE ReadOrStatus
  BY <1>14 DEF ReadOrStatus
<1>15. CASE CloseTransport
  <2>1. CASE ClosesOnEvb
    <3>1. /\ evbQueue \in Seq(Closures) /\ evbQueue' = Append(evbQueue, Close)
          /\ tpc' = "close_wait" /\ tpc = "close"
          /\ sent' = sent /\ accepted' = accepted /\ transport' = transport
          /\ sent \in Seq(Nat) /\ accepted \in Nat
      BY <1>15, <2>1 DEF CloseTransport, Enqueue, TypeOK
    <3>2. /\ Len(evbQueue') = Len(evbQueue) + 1 /\ Len(evbQueue) \in Nat
          /\ evbQueue'[Len(evbQueue) + 1].kind = "close"
          /\ \A i \in 1..Len(evbQueue) : evbQueue'[i] = evbQueue[i]
      BY <3>1, ClosuresQueued, SMTT(30) DEF Close
    <3>3. ASSUME Good, NEW i \in 1..Len(evbQueue'), evbQueue'[i].kind = "write"
          PROVE  evbQueue'[i].id = Len(sent) + i
      BY <3>2, <3>3
    <3>4. Good => Len(sent) + Len(evbQueue') = accepted + 1
      BY <3>1, <3>2
    <3> QED
      BY <3>1, <3>3, <3>4
  <2>2. CASE ~ClosesOnEvb
    BY <1>15, <2>2 DEF CloseTransport, ClosesOnEvb
  <2> QED
    BY <2>1, <2>2
<1>16. CASE CloseJoin
  BY <1>16 DEF CloseJoin, JoinLoop
<1>17. CASE DtorJoin
  BY <1>17 DEF DtorJoin, JoinLoop
<1>18. CASE DtorEvb
  BY <1>18 DEF DtorEvb
<1>19. CASE DtorEvbDrained
  BY <1>19 DEF DtorEvbDrained
<1>20. CASE DtorWaker
  BY <1>20 DEF DtorWaker
<1>21. ASSUME NEW t \in Tasks, NEW n \in BufSizes, PollRead(t, n)
       PROVE  Queueing'
  BY <1>21 DEF PollRead, Register
<1>22. CASE PollWrite
  <2>1. CASE writeError
    BY <1>22, <2>1 DEF PollWrite
  <2>2. CASE ~writeError
    <3>1. /\ evbQueue \in Seq(Closures) /\ Write(accepted + 1) \in Closures
          /\ evbQueue' = Append(evbQueue, Write(accepted + 1))
          /\ tpc = "idle" /\ tpc' = tpc /\ accepted' = accepted + 1
          /\ sent' = sent /\ transport' = transport
          /\ sent \in Seq(Nat) /\ accepted \in Nat
      BY <1>22, <2>2, ClosuresQueued, SMTT(30) DEF PollWrite, Enqueue, TypeOK
    <3>2. /\ Len(evbQueue') = Len(evbQueue) + 1 /\ Len(evbQueue) \in Nat
          /\ evbQueue'[Len(evbQueue) + 1].id = accepted + 1
          /\ \A i \in 1..Len(evbQueue) : evbQueue'[i] = evbQueue[i]
      BY <3>1 DEF Write
    <3>3. Good => Len(sent) + Len(evbQueue) = accepted /\ Len(sent) \in Nat
      BY <3>1
    <3>4. ASSUME Good, NEW i \in 1..Len(evbQueue'), evbQueue'[i].kind = "write"
          PROVE  evbQueue'[i].id = Len(sent) + i
      <4>1. CASE i \in 1..Len(evbQueue)
        BY <3>2, <3>4, <4>1
      <4>2. CASE i = Len(evbQueue) + 1
        <5>1. Len(sent) + Len(evbQueue) = accepted /\ Len(sent) \in Nat
          BY <3>3, <3>4
        <5>2. accepted + 1 = Len(sent) + i
          BY <3>2, <4>2, <5>1, Arithmetic
        <5> QED
          BY <3>2, <4>2, <5>2
      <4> QED
        BY <3>2, <4>1, <4>2
    <3> QED
      BY <3>1, <3>2, <3>3, <3>4
  <2> QED
    BY <2>1, <2>2
<1>23. CASE PollFlush
  BY <1>23 DEF PollFlush
<1>24. CASE PollShutdown
  BY <1>24 DEF PollShutdown
<1>25. CASE Drop
  BY <1>25 DEF Drop, DropEnters
<1>26. CASE UNCHANGED vars
  <2>1. UNCHANGED <<sent, evbQueue, transport, accepted, tpc>>
    BY <1>26 DEF vars
  <2> QED
    BY <2>1, QueueingKept
<1> QED
  BY <1>1, <1>2, <1>3, <1>4, <1>5, <1>6, <1>7, <1>8, <1>9, <1>10, <1>11,
     <1>12, <1>13, <1>14, <1>15, <1>16, <1>17, <1>18, <1>19, <1>20, <1>21,
     <1>22, <1>23, <1>24, <1>25, <1>26, ZenonT(30) DEF Next, EvbNext, EvbContinues,
     EvbClosure, OwnerNext, OwnerContinues, Freed

-----------------------------------------------------------------------------
\* The conjunction of all parts holds in every reachable state of a connection.
THEOREM IInvInductive == Spec => []IInv
<1>1. ASSUME Init PROVE IInv
  <2>1. TypeOK
    <3>1. poll \in [task : Tasks \cup {NoTask}, size : Nat]
      BY <1>1 DEF Init, NoPoll
    <3>2. /\ readBufQueue \in Seq(Nat) /\ delivered \in Seq(Nat)
          /\ sent \in Seq(Nat) /\ evbQueue \in Seq(Closures)
      BY <1>1 DEF Init
    <3> QED
      BY <1>1, <3>1, <3>2, Zenon DEF Init, TypeOK
  <2>2. StreamIntegrity
    BY <1>1 DEF Init, StreamIntegrity
  <2>3. Locking /\ Lifecycle /\ Ending /\ Waking
    BY <1>1 DEF Init, Locking, Lifecycle, Ending, Waking, Destroying, EvbRuns
  <2>4. Closing
    BY <1>1 DEF Init, Closing, Destroying, Good
  <2>5. Queueing
    BY <1>1 DEF Init, Queueing, SentInOrder, Good
  <2> QED
    BY <2>1, <2>2, <2>3, <2>4, <2>5 DEF IInv
<1>2. IInv /\ [Next]_vars => IInv'
  BY TypeStep, StreamStep, LockingStep, LifecycleStep, EndingStep, WakingStep,
     ClosingStep, QueueingStep
     DEF IInv
<1> QED
  BY <1>1, <1>2, PTL DEF Spec

\* A task is parked only between set_*_read_waker and the destructor.
LEMMA ParkedHasWaker ==
  ASSUME IInv, waiter # NoTask PROVE read_waker = "installed"
  BY DEF IInv, TypeOK, Waking, Lifecycle, Destroying

\* No step loses a wakeup, when no reader passes an empty buffer.
LEMMA WakeupStep ==
  ASSUME 0 \notin BufSizes, IInv, NoLostWakeup, [Next]_vars PROVE NoLostWakeup'
<1> USE DEF IInv, NoLostWakeup, Waking, Lifecycle, Destroying, objVars,
        wakeVars, evbVars, netVars, writeVars, taskVars, readVars, inVars
<1>1. CASE GetReadBuffer
  BY <1>1 DEF GetReadBuffer, ReadMutexFree
<1>2. CASE ReadEOF
  BY <1>2, ParkedHasWaker DEF ReadEOF, TerminalCallback
<1>3. CASE ReadErr
  BY <1>3 DEF ReadErr, TerminalCallback, ReleasePendingRead, EvbRuns
<1>4. ASSUME NEW len \in 1..(MaxBytes - arrived), ReadDataAvailable(len)
      PROVE  NoLostWakeup'
  BY <1>4, ParkedHasWaker DEF ReadDataAvailable
<1>5. CASE ReadEOFClose
  BY <1>5 DEF ReadEOFClose, ReleasePendingRead
<1>6. CASE ReadErrClose
  BY <1>6, ParkedHasWaker DEF ReadErrClose
<1>7. CASE WakeReader
  BY <1>7 DEF WakeReader, Wake
<1>8. CASE RunWrite
  BY <1>8 DEF RunWrite, RunsClosure, EvbRuns, Good
<1>9. CASE RunClose
  BY <1>9 DEF RunClose, RunsClosure, EvbRuns, Good
<1>10. ASSUME NEW k \in inflight, WriteSuccess(k)
       PROVE  NoLostWakeup'
  BY <1>10 DEF WriteSuccess, EvbRuns
<1>11. ASSUME NEW k \in inflight, WriteErr(k)
       PROVE  NoLostWakeup'
  BY <1>11 DEF WriteErr, EvbRuns
<1>12. CASE SetReadWaker
  BY <1>12 DEF SetReadWaker
<1>13. CASE LockRead
  BY <1>13 DEF LockRead, ReadMutexFree
<1>14. CASE ReadOrStatus
  <2> DEFINE out == ReadOutcome(poll.size)
  <2>1. /\ poll.size # 0 /\ bytesRead = Len(readBufQueue) /\ TypeOK /\ StreamIntegrity
    BY <1>14 DEF ReadOrStatus, StreamIntegrity
  <2>2. /\ out.bytes \in 0..Len(readBufQueue) /\ Len(readBufQueue) \in Nat
        /\ out.bytes = 0 => bytesRead = 0
        /\ bytesRead = 0 /\ readEof => out.eof
    BY <2>1, OutcomeFacts DEF TypeOK
  <2>3. /\ bytesRead' = bytesRead - out.bytes /\ readEof' = readEof
        /\ ret' = IF out.bytes > 0 THEN "data" ELSE IF out.eof THEN "eof" ELSE "pending"
        /\ waiter' = IF ret' = "pending" THEN poll.task ELSE NoTask
    BY <1>14, Zenon DEF ReadOrStatus
  <2> HIDE DEF out
  <2>4. waiter' # NoTask => out.bytes = 0 /\ ~out.eof
    <3>1. ~(out.bytes > 0) => out.bytes = 0
      BY <2>2
    <3>2. ret' = "pending" => ~(out.bytes > 0) /\ ~out.eof
      BY <2>3, Zenon
    <3> QED
      BY <2>3, <3>1, <3>2, Zenon
  <2>5. waiter' # NoTask => bytesRead' = 0 /\ ~readEof'
    BY <2>1, <2>2, <2>3, <2>4
  <2> QED
    BY <2>5 DEF NoLostWakeup
<1>15. CASE CloseTransport
  BY <1>15 DEF CloseTransport, ClosesOnEvb, Good, Enqueue
<1>16. CASE CloseJoin
  BY <1>16 DEF CloseJoin, JoinLoop
<1>17. CASE DtorJoin
  BY <1>17 DEF DtorJoin, JoinLoop
<1>18. CASE DtorEvb
  BY <1>18 DEF DtorEvb
<1>19. CASE DtorEvbDrained
  BY <1>19 DEF DtorEvbDrained
<1>20. CASE DtorWaker
  BY <1>20 DEF DtorWaker
<1>21. ASSUME NEW t \in Tasks, NEW n \in BufSizes, PollRead(t, n)
       PROVE  NoLostWakeup'
  BY <1>21 DEF PollRead, Register
<1>22. CASE PollWrite
  BY <1>22 DEF PollWrite, Enqueue
<1>23. CASE PollFlush
  BY <1>23 DEF PollFlush
<1>24. CASE PollShutdown
  BY <1>24 DEF PollShutdown
<1>25. CASE Drop
  BY <1>25 DEF Drop, DropEnters
<1>26. CASE UNCHANGED vars
  BY <1>26, SMTT(30) DEF vars
<1> QED
  BY <1>1, <1>2, <1>3, <1>4, <1>5, <1>6, <1>7, <1>8, <1>9, <1>10, <1>11,
     <1>12, <1>13, <1>14, <1>15, <1>16, <1>17, <1>18, <1>19, <1>20, <1>21,
     <1>22, <1>23, <1>24, <1>25, <1>26, ZenonT(30) DEF Next, EvbNext, EvbContinues,
     EvbClosure, OwnerNext, OwnerContinues, Freed

\* Every step is a step of the byte stream or leaves it alone.
LEMMA StreamRefinementStep ==
  ASSUME IInv, [Next]_vars PROVE [Stream!Next]_(Stream!vars)
<1> USE DEF Stream!vars, objVars, wakeVars, evbVars, netVars, writeVars,
        taskVars, readVars, inVars
<1>1. CASE GetReadBuffer
  BY <1>1 DEF GetReadBuffer, ReadMutexFree
<1>2. CASE ReadEOF
  <2>1. ~~readCB /\ (~readCB)' = TRUE
    BY <1>2 DEF ReadEOF, TerminalCallback
  <2>2. UNCHANGED <<readBufQueue, delivered, eofSeen>>
    BY <1>2 DEF ReadEOF
  <2> QED
    BY <2>1, <2>2 DEF Stream!Next, Stream!End
<1>3. CASE ReadErr
  <2>1. ~~readCB /\ (~readCB)' = TRUE
    BY <1>3 DEF ReadErr, TerminalCallback
  <2>2. UNCHANGED <<readBufQueue, delivered, eofSeen>>
    BY <1>3 DEF ReadErr
  <2> QED
    BY <2>1, <2>2 DEF Stream!Next, Stream!End
<1>4. ASSUME NEW len \in 1..(MaxBytes - arrived), ReadDataAvailable(len)
      PROVE  [Stream!Next]_(Stream!vars)
  <2>1. Stream!Entered = arrived
    BY DEF IInv, StreamIntegrity, Stream!Entered
  <2>2. readBufQueue' = readBufQueue \o [i \in 1..len |-> Stream!Entered + i]
    BY <1>4, <2>1 DEF ReadDataAvailable, NextBytes
  <2>3. readCB /\ UNCHANGED <<delivered, readCB, eofSeen>>
    BY <1>4 DEF ReadDataAvailable, IInv, Locking
  <2>4. Stream!Arrive(len)
    BY <2>2, <2>3 DEF Stream!Arrive
  <2> QED
    BY <2>1, <2>4 DEF Stream!Next
<1>5. CASE ReadEOFClose
  BY <1>5 DEF ReadEOFClose, ReleasePendingRead
<1>6. CASE ReadErrClose
  BY <1>6 DEF ReadErrClose
<1>7. CASE WakeReader
  BY <1>7 DEF WakeReader, Wake
<1>8. CASE RunWrite
  BY <1>8 DEF RunWrite, RunsClosure, EvbRuns, Good
<1>9. CASE RunClose
  BY <1>9 DEF RunClose, RunsClosure, EvbRuns, Good
<1>10. ASSUME NEW k \in inflight, WriteSuccess(k)
       PROVE  [Stream!Next]_(Stream!vars)
  BY <1>10 DEF WriteSuccess, EvbRuns
<1>11. ASSUME NEW k \in inflight, WriteErr(k)
       PROVE  [Stream!Next]_(Stream!vars)
  BY <1>11 DEF WriteErr, EvbRuns
<1>12. CASE SetReadWaker
  BY <1>12 DEF SetReadWaker
<1>13. CASE LockRead
  BY <1>13 DEF LockRead, ReadMutexFree
<1>14. CASE ReadOrStatus
  <2> DEFINE n == ReadOutcome(poll.size).bytes
  <2>1. /\ delivered' = delivered \o SubSeq(readBufQueue, 1, n)
        /\ readBufQueue' = SubSeq(readBufQueue, n + 1, Len(readBufQueue))
        /\ readCB' = readCB
    BY <1>14 DEF ReadOrStatus
  <2>2. /\ n \in 0..Len(readBufQueue) /\ TypeOK /\ StreamIntegrity
        /\ readBufQueue \in Seq(Nat) /\ delivered \in Seq(Nat)
    BY OutcomeFacts DEF IInv, TypeOK
  <2>3. CASE n > 0
    <3>1. eofSeen' = eofSeen
      BY <1>14, <2>2, <2>3 DEF ReadOrStatus, TypeOK
    <3>2. Stream!Deliver(n)
      BY <2>1, <3>1 DEF Stream!Deliver
    <3> QED
      BY <2>2, <2>3, <3>2 DEF Stream!Next
  <2>4. CASE n = 0
    <3>1. readBufQueue' = readBufQueue /\ delivered' = delivered
      BY <2>1, <2>2, <2>4
    <3>2. CASE ReadOutcome(poll.size).eof
      <4>1. eofSeen' = TRUE
        <5>1. ret' = "eof" /\ eofSeen' = (eofSeen \/ ret' = "eof")
          BY <1>14, <2>4, <3>2 DEF ReadOrStatus
        <5> QED
          BY <5>1, Zenon
      <4>2. ~readCB /\ readBufQueue = <<>>
        BY <2>2, <3>2, OutcomeFacts DEF IInv, Ending, StreamIntegrity
      <4> QED
        BY <2>1, <3>1, <4>1, <4>2, Zenon DEF Stream!Next, Stream!ReportEnd
    <3>3. CASE ~ReadOutcome(poll.size).eof
      <4>1. eofSeen' = eofSeen
        BY <1>14, <2>2, <2>4, <3>3 DEF ReadOrStatus, TypeOK
      <4> QED
        BY <2>1, <3>1, <4>1, Zenon
    <3> QED
      BY <3>2, <3>3
  <2> QED
    BY <2>2, <2>3, <2>4
<1>15. CASE CloseTransport
  BY <1>15 DEF CloseTransport, ClosesOnEvb, Good, Enqueue
<1>16. CASE CloseJoin
  BY <1>16 DEF CloseJoin, JoinLoop
<1>17. CASE DtorJoin
  BY <1>17 DEF DtorJoin, JoinLoop
<1>18. CASE DtorEvb
  BY <1>18 DEF DtorEvb
<1>19. CASE DtorEvbDrained
  BY <1>19 DEF DtorEvbDrained
<1>20. CASE DtorWaker
  BY <1>20 DEF DtorWaker
<1>21. ASSUME NEW t \in Tasks, NEW n \in BufSizes, PollRead(t, n)
       PROVE  [Stream!Next]_(Stream!vars)
  BY <1>21 DEF PollRead, Register
<1>22. CASE PollWrite
  BY <1>22 DEF PollWrite, Enqueue
<1>23. CASE PollFlush
  BY <1>23 DEF PollFlush
<1>24. CASE PollShutdown
  BY <1>24 DEF PollShutdown
<1>25. CASE Drop
  BY <1>25 DEF Drop, DropEnters
<1>26. CASE UNCHANGED vars
  BY <1>26, SMTT(30) DEF vars
<1> QED
  BY <1>1, <1>2, <1>3, <1>4, <1>5, <1>6, <1>7, <1>8, <1>9, <1>10, <1>11,
     <1>12, <1>13, <1>14, <1>15, <1>16, <1>17, <1>18, <1>19, <1>20, <1>21,
     <1>22, <1>23, <1>24, <1>25, <1>26, ZenonT(30) DEF Next, EvbNext, EvbContinues,
     EvbClosure, OwnerNext, OwnerContinues, Freed

-----------------------------------------------------------------------------
(***************************************************************************)
(* The theorems.                                                           *)
(***************************************************************************)
\* The properties that follow from the invariant without another induction.
LEMMA IInvImplies ==
  IInv => /\ PreallocatedTailUntouched /\ EofAfterData /\ NoCallbackOnFreedState
          /\ NoWaitOnStoppedLoop /\ SentInOrder /\ ClientDropCloses
<1> SUFFICES ASSUME IInv
             PROVE  /\ PreallocatedTailUntouched /\ EofAfterData
                    /\ NoCallbackOnFreedState /\ NoWaitOnStoppedLoop
                    /\ SentInOrder /\ ClientDropCloses
  OBVIOUS
<1>1. PreallocatedTailUntouched
  BY DEF IInv, Locking, PreallocatedTailUntouched
<1>2. EofAfterData
  <2>1. delivered \in Seq(Nat)
    BY DEF IInv, TypeOK
  <2> QED
    BY <2>1 DEF IInv, Ending, StreamIntegrity, EofAfterData
<1>3. NoCallbackOnFreedState
  BY DEF IInv, Lifecycle, EvbRuns, NoCallbackOnFreedState
<1>4. NoWaitOnStoppedLoop
  <2>1. evbQueue \in Seq(Closures)
    BY DEF IInv, TypeOK
  <2> QED
    BY <2>1 DEF IInv, Closing, NoWaitOnStoppedLoop
<1>5. SentInOrder /\ ClientDropCloses
  BY DEF IInv, Queueing, Closing, Destroying, ClientDropCloses
<1> QED
  BY <1>1, <1>2, <1>3, <1>4, <1>5

\* Every field of the connection object, and every program counter of its two
\* threads, stays in its type.
THEOREM TypeCorrect == Spec => []TypeOK
<1>1. IInv => TypeOK
  BY DEF IInv
<1> QED
  BY <1>1, IInvInductive, PTL

\* readDataAvailable and read_or_status, in any interleaving, hand over what
\* arrived: no byte lost, repeated or reordered, and bytesRead in step.
THEOREM StreamCorrect == Spec => []StreamIntegrity
<1>1. IInv => StreamIntegrity
  BY DEF IInv
<1> QED
  BY <1>1, IInvInductive, PTL

\* read_mutex, taken in getReadBuffer and released in another callback, keeps
\* read_or_status away from the preallocated tail.
THEOREM TailCorrect == Spec => []PreallocatedTailUntouched
  BY IInvImplies, IInvInductive, PTL

\* poll_read reports end-of-stream only behind the last byte, whether readEOF or
\* readErr set the flag and whatever poll_read was doing then.
THEOREM EofCorrect == Spec => []EofAfterData
  BY IInvImplies, IInvInductive, PTL

\* The destructor releases the waker after the last callback: no callback finds
\* a freed state, whichever thread is ahead.
THEOREM FreedStateCorrect == Spec => []NoCallbackOnFreedState
  BY IInvImplies, IInvInductive, PTL

\* close() is waited for only on a loop that runs, and with the closure in its
\* queue, also when poll_shutdown and Drop both call it.
THEOREM StoppedLoopCorrect == Spec => []NoWaitOnStoppedLoop
  BY IInvImplies, IInvInductive, PTL

\* A client connection that has been freed closed its transport on the way.
THEOREM ClientDropCorrect == Spec => []ClientDropCloses
  BY IInvImplies, IInvInductive, PTL

\* poll_write's fire-and-forget closures reach the transport in order.
THEOREM WriteOrderCorrect == Spec => []SentInOrder
  BY IInvImplies, IInvInductive, PTL

\* The close() of poll_shutdown and Drop runs behind every accepted write.
THEOREM CloseCorrect == Spec => CloseAfterWrites
<1>1. ASSUME IInv, [Next]_vars, transport = "good", transport' = "closing"
      PROVE  Len(sent) = accepted
  <2>1. RunClose
    BY <1>1, Zenon DEF Next, EvbNext, EvbContinues, EvbClosure, OwnerNext,
       OwnerContinues, Freed, vars, objVars, wakeVars, evbVars, netVars,
       writeVars, taskVars, readVars, inVars, GetReadBuffer, ReadEOF, ReadErr,
       ReadDataAvailable, ReadEOFClose, ReadErrClose, WakeReader, RunWrite,
       WriteSuccess, WriteErr, SetReadWaker, LockRead, ReadOrStatus,
       CloseTransport, CloseJoin, DtorJoin, DtorEvb, DtorEvbDrained, DtorWaker,
       PollRead, PollWrite, PollFlush, PollShutdown, Drop, Good
  <2>2. tpc = "close_wait" /\ Len(evbQueue) = 1
    BY <1>1, <2>1, CloseIsLast DEF IInv, RunClose
  <2>3. Len(sent) + 1 = accepted + 1
    BY <1>1, <2>2 DEF IInv, Queueing, Good
  <2>4. Len(sent) \in Nat /\ accepted \in Nat
    BY <1>1 DEF IInv, TypeOK
  <2> QED
    BY <2>3, <2>4, Arithmetic, Zenon
<1>2. IInv /\ [Next]_vars
        => [transport = "good" /\ transport' = "closing"
              => Len(sent) = accepted]_vars
  BY <1>1
<1> QED
  BY <1>2, IInvInductive, PTL DEF Spec, CloseAfterWrites

\* Register-before-check in poll_read and store-before-wake in the callbacks lose
\* no wakeup, provided no task polls with an empty buffer.
THEOREM WakeupCorrect ==
  ASSUME 0 \notin BufSizes PROVE Spec => []NoLostWakeup
<1>1. Init => NoLostWakeup
  BY DEF Init, NoLostWakeup
<1>2. IInv /\ NoLostWakeup /\ [Next]_vars => NoLostWakeup'
  BY WakeupStep
<1> QED
  BY <1>1, <1>2, IInvInductive, PTL DEF Spec

\* Both ends of the read path together implement the abstract byte stream.
THEOREM RefinementCorrect == Spec => ImplementsByteStream
<1>1. Init => Stream!Init
  BY DEF Init, Stream!Init
<1>2. IInv /\ [Next]_vars => [Stream!Next]_(Stream!vars)
  BY StreamRefinementStep
<1> QED
  BY <1>1, <1>2, IInvInductive, PTL DEF Spec, Stream!Spec, ImplementsByteStream
=============================================================================
