-------------------------- MODULE HandshakeProofs --------------------------
(***************************************************************************)
(* The safety properties of Handshake for any number of attempts.          *)
(***************************************************************************)
EXTENDS Handshake, TLAPS

\* Where one attempt can be: what the future's position says of the blocking
\* job, the connection, the transport and the channel.
Position(a) ==
    /\ fut[a] = "start" => job[a] = "none" /\ conn[a] = "none" /\ hs[a] = "idle"
    /\ fut[a] = "creating" => conn[a] \in {"none", "raw"} /\ hs[a] = "idle"
    /\ conn[a] = "none" => hs[a] = "idle"
    /\ job[a] = "none" => fut[a] \in {"start", "cancelled"}
    /\ job[a] = "queued" => fut[a] \in {"creating", "cancelled"} /\ hs[a] = "idle"
    /\ hs[a] = "queued" => fut[a] = "starting" /\ chan[a] = "empty"
    /\ hs[a] = "running" => /\ fut[a] \in {"starting", "awaiting", "cancelled"}
                            /\ chan[a] = "empty"
    /\ fut[a] = "starting" => conn[a] = "boxed" /\ hs[a] # "idle"
    /\ fut[a] = "awaiting" => conn[a] = "raw" /\ hs[a] \in {"running", "done"}
    /\ fut[a] = "cancelled" => conn[a] \in {"none", "raw"}
    /\ fut[a] = "ok" => conn[a] = "boxed" /\ chan[a] = "ok" /\ read_waker[a]
    /\ hs[a] = "done" => chan[a] \in {"ok", "error", "closed"}

\* Success is put on the channel only behind everything it stands for.
Promised(a) ==
    chan[a] = "ok" =>
        /\ hs[a] = "done" /\ handshakeComplete[a] /\ readCB[a]
        /\ side = "client" => cert[a] # "missing" /\ (dcEnabled => cert[a] = "match")

HInv == TypeOK /\ \A a \in Attempts : Position(a) /\ Promised(a)

\* Initially HInv holds.
LEMMA HInvInit == Init => HInv
  BY DEF Init, HInv, TypeOK, Position, Promised, Over

\* Each step of one attempt keeps the types.
LEMMA TypeStep == TypeOK /\ [Next]_vars => TypeOK'
<1> SUFFICES ASSUME TypeOK, [Next]_vars PROVE TypeOK'
  OBVIOUS
<1> USE DEF TypeOK, Over, config, perConn
<1>1. ASSUME NEW a \in Attempts, Connect(a) PROVE TypeOK'
  BY <1>1 DEF Connect
<1>2. ASSUME NEW a \in Attempts, Created(a) PROVE TypeOK'
  BY <1>2 DEF Created
<1>3. ASSUME NEW a \in Attempts, Started(a) PROVE TypeOK'
  BY <1>3 DEF Started, KeepRaw
<1>4. ASSUME NEW a \in Attempts, StartThrows(a) PROVE TypeOK'
  BY <1>4 DEF StartThrows
<1>5. ASSUME NEW a \in Attempts, Resume(a) PROVE TypeOK'
  <2>1. /\ fut' \in [Attempts -> {"start", "creating", "starting", "awaiting"} \union Over]
        /\ conn' \in [Attempts -> {"none", "raw", "boxed", "freed"}]
    BY <1>5 DEF Resume
  <2>2. read_waker' \in [Attempts -> BOOLEAN]
    BY <1>5 DEF Resume
  <2> QED
    BY <1>5, <2>1, <2>2 DEF Resume
<1>6. ASSUME NEW a \in Attempts, Cancel(a) PROVE TypeOK'
  BY <1>6 DEF Cancel
<1>7. ASSUME NEW a \in Attempts, CreationStep(a) PROVE TypeOK'
  BY <1>7 DEF CreationStep, ConnectionCreated, CreationThrows
<1>8. ASSUME NEW a \in Attempts, TransportConnect(a) PROVE TypeOK'
  BY <1>8 DEF TransportConnect
<1>9. ASSUME NEW a \in Attempts, NEW c \in Certs, ClientSuccess(a, c) PROVE TypeOK'
  BY <1>9 DEF ClientSuccess, HandleIoResult
<1>10. ASSUME NEW a \in Attempts, NEW c \in Certs, ClientRejects(a, c) PROVE TypeOK'
  BY <1>10 DEF ClientRejects, HandleIoResult
<1>11. ASSUME NEW a \in Attempts, ServerSuccess(a) PROVE TypeOK'
  BY <1>11 DEF ServerSuccess, HandleIoResult
<1>12. ASSUME NEW a \in Attempts, HandshakeError(a) PROVE TypeOK'
  BY <1>12 DEF HandshakeError, HandleIoResult
<1>13. ASSUME NEW a \in Attempts, AttemptFallback(a) PROVE TypeOK'
  BY <1>13 DEF AttemptFallback, HandleIoResult
<1>14. CASE DropContext
  BY <1>14 DEF DropContext
<1>15. CASE UNCHANGED vars
  BY <1>15 DEF vars
<1> QED
  BY <1>1, <1>2, <1>3, <1>4, <1>5, <1>6, <1>7, <1>8, <1>9, <1>10, <1>11, <1>12,
     <1>13, <1>14, <1>15 DEF Next, FutureStep, EvbStep, Finished

\* Each step keeps every attempt in a position HInv allows.
LEMMA PositionStep ==
    HInv /\ [Next]_vars => \A b \in Attempts : (Position(b) /\ Promised(b))'
<1> SUFFICES ASSUME HInv, [Next]_vars, NEW b \in Attempts
             PROVE  Position(b)' /\ Promised(b)'
  OBVIOUS
<1>0. TypeOK /\ Position(b) /\ Promised(b)
  BY DEF HInv
<1> USE <1>0 DEF TypeOK, Over, config, perConn, Position, Promised
<1>1. ASSUME NEW a \in Attempts, Connect(a)
     PROVE  Position(b)' /\ Promised(b)'
  BY <1>1 DEF Connect
<1>2. ASSUME NEW a \in Attempts, Created(a)
     PROVE  Position(b)' /\ Promised(b)'
  BY <1>2 DEF Created
<1>3. ASSUME NEW a \in Attempts, Started(a)
     PROVE  Position(b)' /\ Promised(b)'
  BY <1>3 DEF Started, KeepRaw
<1>4. ASSUME NEW a \in Attempts, StartThrows(a)
     PROVE  Position(b)' /\ Promised(b)'
  BY <1>4 DEF StartThrows
<1>5. ASSUME NEW a \in Attempts, Resume(a)
     PROVE  Position(b)' /\ Promised(b)'
  BY <1>5 DEF Resume
<1>6. ASSUME NEW a \in Attempts, Cancel(a)
     PROVE  Position(b)' /\ Promised(b)'
  BY <1>6 DEF Cancel
<1>7. ASSUME NEW a \in Attempts, CreationStep(a)
     PROVE  Position(b)' /\ Promised(b)'
  BY <1>7 DEF CreationStep, ConnectionCreated, CreationThrows
<1>8. ASSUME NEW a \in Attempts, TransportConnect(a)
     PROVE  Position(b)' /\ Promised(b)'
  BY <1>8 DEF TransportConnect
<1>9. ASSUME NEW a \in Attempts, NEW c \in Certs, ClientSuccess(a, c)
     PROVE  Position(b)' /\ Promised(b)'
  BY <1>9 DEF ClientSuccess, HandleIoResult, Acceptable
<1>10. ASSUME NEW a \in Attempts, NEW c \in Certs, ClientRejects(a, c)
      PROVE  Position(b)' /\ Promised(b)'
  BY <1>10 DEF ClientRejects, HandleIoResult
<1>11. ASSUME NEW a \in Attempts, ServerSuccess(a)
      PROVE  Position(b)' /\ Promised(b)'
  BY <1>11 DEF ServerSuccess, HandleIoResult
<1>12. ASSUME NEW a \in Attempts, HandshakeError(a)
      PROVE  Position(b)' /\ Promised(b)'
  BY <1>12 DEF HandshakeError, HandleIoResult
<1>13. ASSUME NEW a \in Attempts, AttemptFallback(a)
      PROVE  Position(b)' /\ Promised(b)'
  BY <1>13 DEF AttemptFallback, HandleIoResult
<1>14. CASE DropContext
  BY <1>14 DEF DropContext
<1>15. CASE UNCHANGED vars
  BY <1>15 DEF vars
<1> QED
  BY <1>1, <1>2, <1>3, <1>4, <1>5, <1>6, <1>7, <1>8, <1>9, <1>10, <1>11, <1>12,
     <1>13, <1>14, <1>15 DEF Next, FutureStep, EvbStep, Finished

\* HInv holds in every reachable state.
LEMMA HInvAlways == Spec => []HInv
<1>1. HInv /\ [Next]_vars => HInv'
  BY TypeStep, PositionStep DEF HInv
<1> QED
  BY HInvInit, <1>1, PTL DEF Spec

\* Every attempt's future, blocking job, descriptor, connection, transport and
\* channel are always in one of the states the code can leave them in.
THEOREM HandshakeTypes == Spec => []TypeOK
<1>1. HInv => TypeOK
  BY DEF HInv
<1> QED
  BY HInvAlways, <1>1, PTL

\* What connect and accept_from_stream hand over is complete and verified.
THEOREM HandedOverCorrect == Spec => []HandedOver
<1>1. HInv => HandedOver
  BY DEF HInv, Position, Promised, HandedOver, TypeOK, Over
<1> QED
  BY HInvAlways, <1>1, PTL

\* fizz never calls back into a freed connection, also after a cancellation.
THEOREM CallbackTargetCorrect == Spec => []CallbackTargetAlive
<1>1. HInv => CallbackTargetAlive
  BY DEF HInv, Position, CallbackTargetAlive, TypeOK, Over
<1> QED
  BY HInvAlways, <1>1, PTL

\* No future waits on a channel that nobody will answer.
THEOREM AwaitCorrect == Spec => []AwaitIsAnswered
<1>1. HInv => AwaitIsAnswered
  BY DEF HInv, Position, AwaitIsAnswered, TypeOK, Over
<1> QED
  BY HInvAlways, <1>1, PTL
=============================================================================
