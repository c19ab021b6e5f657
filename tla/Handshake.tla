----------------------------- MODULE Handshake -----------------------------
(***************************************************************************)
(* ClientTlsContext::connect and ServerTlsContext::accept_from_stream: how *)
(* a TCP stream becomes a connection, or does not.  An attempt involves    *)
(* the future (fut), a job on Tokio's blocking pool (job), the fizz        *)
(* transport on its own EventBase thread (hs) and a oneshot channel back   *)
(* to the future (chan).  The future may be dropped wherever it awaits.    *)
(* What is followed is who owns the descriptor (fd) and the C++ connection *)
(* (conn), which Rust carries across the awaits as a raw pointer.          *)
(***************************************************************************)
CONSTANT Attempts   \* calls of connect or accept_from_stream on one context

VARIABLES
    side,              \* "client" or "server": the kind of the context
    dcEnabled,         \* the context expects delegated credentials
    ctx,               \* "alive", "dropped"
    fut, job, fd, conn, hs, chan,
    handshakeComplete, \* FizzClientConnection / FizzServerConnection
    readCB,            \* setReadCB(conn) was called
    read_waker,        \* set_*_read_waker was called
    cert               \* history: what the peer presented

config == <<side, dcEnabled>>
perConn == <<handshakeComplete, readCB, read_waker, cert>>
vars == <<config, ctx, fut, job, fd, conn, hs, chan, perConn>>

\* What state().serverCert() is when the handshake succeeds: absent, a plain
\* certificate, or a delegated credential that equals the VerificationInfo,
\* differs from it, or makes the comparison throw.
Certs == {"missing", "plain", "match", "mismatch", "unreadable"}

Over == {"ok", "err", "cancelled"}

TypeOK ==
    /\ side \in {"client", "server"} /\ dcEnabled \in BOOLEAN
    /\ ctx \in {"alive", "dropped"}
    /\ fut \in [Attempts -> {"start", "creating", "starting", "awaiting"} \union Over]
    /\ job \in [Attempts -> {"none", "queued", "built", "failed"}]
    /\ fd \in [Attempts -> {"stream", "raw", "socket", "closed"}]
    /\ conn \in [Attempts -> {"none", "raw", "boxed", "freed"}]
    /\ hs \in [Attempts -> {"idle", "queued", "running", "done"}]
    /\ chan \in [Attempts -> {"none", "empty", "ok", "error", "closed"}]
    /\ handshakeComplete \in [Attempts -> BOOLEAN]
    /\ readCB \in [Attempts -> BOOLEAN]
    /\ read_waker \in [Attempts -> BOOLEAN]
    /\ cert \in [Attempts -> Certs \union {"none"}]

Init ==
    /\ side \in {"client", "server"} /\ dcEnabled \in BOOLEAN
    /\ ctx = "alive"
    /\ fut = [a \in Attempts |-> "start"]
    /\ job = [a \in Attempts |-> "none"]
    /\ fd = [a \in Attempts |-> "stream"]
    /\ conn = [a \in Attempts |-> "none"]
    /\ hs = [a \in Attempts |-> "idle"]
    /\ chan = [a \in Attempts |-> "none"]
    /\ handshakeComplete = [a \in Attempts |-> FALSE]
    /\ readCB = [a \in Attempts |-> FALSE]
    /\ read_waker = [a \in Attempts |-> FALSE]
    /\ cert = [a \in Attempts |-> "none"]

-----------------------------------------------------------------------------
\* The future.

\* First poll: take_raw_fd, then spawn_blocking with a raw pointer to the
\* context.
Connect(a) ==
    /\ fut[a] = "start"
    /\ fut' = [fut EXCEPT ![a] = "creating"]
    /\ fd' = [fd EXCEPT ![a] = "raw"]
    /\ job' = [job EXCEPT ![a] = "queued"]
    /\ UNCHANGED <<config, ctx, conn, hs, chan, perConn>>

\* The blocking job has a result.  An error is returned by the second `?`;
\* otherwise the pointer is boxed again and *_connection_handshake_async
\* queues connect() or accept() on the evb, and waits for it.
Created(a) ==
    /\ fut[a] = "creating"
    /\ \/ /\ job[a] = "failed"
          /\ fut' = [fut EXCEPT ![a] = "err"]
          /\ UNCHANGED <<conn, hs, chan>>
       \/ /\ job[a] = "built"
          /\ fut' = [fut EXCEPT ![a] = "starting"]
          /\ conn' = [conn EXCEPT ![a] = "boxed"]
          /\ hs' = [hs EXCEPT ![a] = "queued"]
          /\ chan' = [chan EXCEPT ![a] = "empty"]
    /\ UNCHANGED <<config, ctx, job, fd, perConn>>

\* A mutated form: the box stays in the future across the await, and goes
\* with it.
KeepBoxed(a) == UNCHANGED conn

\* *_connection_handshake_async returned: Box::into_raw, then receiver.await.
KeepRaw(a) == conn' = [conn EXCEPT ![a] = "raw"]

\* A mutated form: the call waits to see the handshake under way.
StartedIfRunning(a) ==
    /\ fut[a] = "starting" /\ hs[a] = "running"
    /\ fut' = [fut EXCEPT ![a] = "awaiting"]
    /\ KeepRaw(a)
    /\ UNCHANGED <<config, ctx, job, fd, hs, chan, perConn>>

Started(a) ==
    /\ fut[a] = "starting" /\ hs[a] # "queued"
    /\ fut' = [fut EXCEPT ![a] = "awaiting"]
    /\ KeepRaw(a)
    /\ UNCHANGED <<config, ctx, job, fd, hs, chan, perConn>>

\* The call threw: the callback is deleted, with the sender in it, and `?`
\* drops the box, which runs the destructor.  The transport is not closed.
StartThrows(a) ==
    /\ fut[a] = "starting" /\ hs[a] = "queued"
    /\ fut' = [fut EXCEPT ![a] = "err"]
    /\ hs' = [hs EXCEPT ![a] = "done"]
    /\ chan' = [chan EXCEPT ![a] = "closed"]
    /\ conn' = [conn EXCEPT ![a] = "freed"]
    /\ UNCHANGED <<config, ctx, job, fd, perConn>>

\* receiver.await is ready.  Only success boxes the pointer again and installs
\* the waker; the two `?` before that return with the pointer as it is.
Resume(a) ==
    /\ fut[a] = "awaiting"
    /\ \/ /\ chan[a] = "ok"
          /\ fut' = [fut EXCEPT ![a] = "ok"]
          /\ conn' = [conn EXCEPT ![a] = "boxed"]
          /\ read_waker' = [read_waker EXCEPT ![a] = TRUE]
       \/ /\ chan[a] \in {"error", "closed"}
          /\ fut' = [fut EXCEPT ![a] = "err"]
          /\ UNCHANGED <<conn, read_waker>>
    /\ UNCHANGED <<config, ctx, job, fd, hs, chan, handshakeComplete, readCB, cert>>

\* The caller drops the future (a timeout, a select!).  The TcpStream is still
\* its own before the first poll; a box is dropped with it, a raw pointer is not.
Cancel(a) ==
    /\ fut[a] \in {"start", "creating", "awaiting"}
    /\ fut' = [fut EXCEPT ![a] = "cancelled"]
    /\ fd' = IF fut[a] = "start" THEN [fd EXCEPT ![a] = "closed"] ELSE fd
    /\ conn' = IF conn[a] = "boxed" THEN [conn EXCEPT ![a] = "freed"] ELSE conn
    /\ UNCHANGED <<config, ctx, job, hs, chan, perConn>>

\* The futures borrow the context; the borrow checker lets it go with the last.
DropContext ==
    /\ ctx = "alive" /\ \A a \in Attempts : fut[a] \in Over
    /\ ctx' = "dropped"
    /\ UNCHANGED <<config, fut, job, fd, conn, hs, chan, perConn>>

-----------------------------------------------------------------------------
\* The blocking job.

\* client_connect and server_accept_connection: the AsyncSocket takes the
\* descriptor, the evb thread starts, the result is leaked into a raw pointer.
ConnectionCreated(a) ==
    /\ job[a] = "queued"
    /\ job' = [job EXCEPT ![a] = "built"]
    /\ fd' = [fd EXCEPT ![a] = "socket"]
    /\ conn' = [conn EXCEPT ![a] = "raw"]
    /\ UNCHANGED <<config, ctx, fut, hs, chan, perConn>>

\* They throw: before the socket exists (the client's verifier cannot load the
\* CA file, no EventBase), or after it was released into the transport pointer
\* (no thread).  Neither path closes the descriptor.
CreationThrows(a) ==
    /\ job[a] = "queued"
    /\ job' = [job EXCEPT ![a] = "failed"]
    /\ \E owner \in {"raw", "socket"} : fd' = [fd EXCEPT ![a] = owner]
    /\ UNCHANGED <<config, ctx, fut, conn, hs, chan, perConn>>

-----------------------------------------------------------------------------
\* The evb thread.

\* A mutated form: the error text is sent as it is.
RawIoResult(a, error) == chan' = [chan EXCEPT ![a] = error]

\* A mutated form: the client's checks return without an answer.
SilentRejection(a, error) ==
    IF error = "rejected" THEN UNCHANGED chan
    ELSE chan' = [chan EXCEPT ![a] = IF error = "" THEN "ok" ELSE "error"]

\* handle_io_result: an empty error text is success; a dropped receiver is
\* ignored.
HandleIoResult(a, error) ==
    chan' = [chan EXCEPT ![a] = IF error = "" THEN "ok" ELSE "error"]

\* The closure of runInEventBaseThreadAndWait: connect() or accept().
TransportConnect(a) ==
    /\ hs[a] = "queued"
    /\ hs' = [hs EXCEPT ![a] = "running"]
    /\ UNCHANGED <<config, ctx, fut, job, fd, conn, chan, perConn>>

\* A mutated form: a plain certificate passes for a delegated credential.
AcceptablePlain(c) == c \in {"match", "plain"}

\* verifyVerificationInfoAgainstPeerDelegatedCredential and the checks in
\* front of it, on the client.
Acceptable(c) == c # "missing" /\ (dcEnabled => c = "match")

\* Only a ClientHello that offers the extension is answered with a credential.
Presented == IF dcEnabled THEN Certs ELSE {"missing", "plain"}

ClientSuccess(a, c) ==
    /\ side = "client" /\ hs[a] = "running" /\ c \in Presented
    /\ Acceptable(c)
    /\ hs' = [hs EXCEPT ![a] = "done"]
    /\ cert' = [cert EXCEPT ![a] = c]
    /\ readCB' = [readCB EXCEPT ![a] = TRUE]
    /\ handshakeComplete' = [handshakeComplete EXCEPT ![a] = TRUE]
    /\ HandleIoResult(a, "")
    /\ UNCHANGED <<config, ctx, fut, job, fd, conn, read_waker>>

\* fizz is content and the client is not.  Only a mismatch closes the transport.
ClientRejects(a, c) ==
    /\ side = "client" /\ hs[a] = "running" /\ c \in Presented
    /\ ~Acceptable(c)
    /\ hs' = [hs EXCEPT ![a] = "done"]
    /\ cert' = [cert EXCEPT ![a] = c]
    /\ fd' = IF c = "mismatch" THEN [fd EXCEPT ![a] = "closed"] ELSE fd
    /\ HandleIoResult(a, "rejected")
    /\ UNCHANGED <<config, ctx, fut, job, conn, handshakeComplete, readCB, read_waker>>

ServerSuccess(a) ==
    /\ side = "server" /\ hs[a] = "running"
    /\ hs' = [hs EXCEPT ![a] = "done"]
    /\ handshakeComplete' = [handshakeComplete EXCEPT ![a] = TRUE]
    /\ readCB' = [readCB EXCEPT ![a] = TRUE]
    /\ HandleIoResult(a, "")
    /\ UNCHANGED <<config, ctx, fut, job, fd, conn, read_waker, cert>>

\* fizzHandshakeError: an alert, a lost peer, an untrusted chain, the client's
\* timeout.  fizz closes the transport behind the callback.
HandshakeError(a) ==
    /\ hs[a] = "running"
    /\ hs' = [hs EXCEPT ![a] = "done"]
    /\ HandleIoResult(a, "what")
    /\ fd' = [fd EXCEPT ![a] = "closed"]
    /\ UNCHANGED <<config, ctx, fut, job, conn, perConn>>

AttemptFallback(a) ==
    /\ side = "server" /\ hs[a] = "running"
    /\ hs' = [hs EXCEPT ![a] = "done"]
    /\ HandleIoResult(a, "Version fallback attempted")
    /\ UNCHANGED <<config, ctx, fut, job, fd, conn, perConn>>

\* A mutated form: connect() without a limit.
NeverExpires(a) == FALSE /\ HandshakeError(a)

\* connect() is given 120 seconds, accept() no limit.
TimeoutExpires(a) == side = "client" /\ HandshakeError(a)

-----------------------------------------------------------------------------
CreationStep(a) == ConnectionCreated(a) \/ CreationThrows(a)

FutureStep(a) == Created(a) \/ Started(a) \/ StartThrows(a) \/ Resume(a)

EvbStep(a) ==
    \/ TransportConnect(a)
    \/ \E c \in Certs : ClientSuccess(a, c) \/ ClientRejects(a, c)
    \/ ServerSuccess(a)
    \/ HandshakeError(a)
    \/ AttemptFallback(a)

\* Every attempt is over, and so is what it left running.
Finished ==
    /\ ctx = "dropped"
    /\ \A a \in Attempts : job[a] # "queued" /\ hs[a] \in {"idle", "done"}
    /\ UNCHANGED vars

Next ==
    \/ \E a \in Attempts : Connect(a) \/ FutureStep(a) \/ Cancel(a)
                           \/ CreationStep(a) \/ EvbStep(a)
    \/ DropContext
    \/ Finished

Spec == Init /\ [][Next]_vars

\* The pool runs its jobs, the evb its queue, Tokio polls a future whose await
\* is ready, and a timer that was set expires.  Nothing is assumed of the peer.
Fairness ==
    \A a \in Attempts :
        /\ WF_vars(CreationStep(a))
        /\ WF_vars(FutureStep(a))
        /\ WF_vars(TransportConnect(a))
        /\ WF_vars(TimeoutExpires(a))

FairSpec == Spec /\ Fairness

-----------------------------------------------------------------------------
\* A connection that connect or accept_from_stream hands to the application
\* has finished its handshake, delivers its data to the object, has its waker,
\* and, on a client that expects delegated credentials, comes from a peer that
\* presented the expected one; the evb is no longer inside the handshake.
HandedOver ==
    \A a \in Attempts : fut[a] = "ok" =>
        /\ conn[a] = "boxed" /\ hs[a] = "done"
        /\ handshakeComplete[a] /\ readCB[a] /\ read_waker[a]
        /\ side = "client" => cert[a] # "missing" /\ (dcEnabled => cert[a] = "match")

\* While fizz holds the handshake callback, whose conn_ is a bare pointer, the
\* connection is not freed, whatever became of the future.
CallbackTargetAlive ==
    \A a \in Attempts : hs[a] \in {"queued", "running"} => conn[a] \in {"boxed", "raw"}

\* A future that waits on the channel has its answer there or a callback that
\* will still give it: no path through the callbacks forgets to answer.
AwaitIsAnswered ==
    \A a \in Attempts : fut[a] = "awaiting" => chan[a] # "empty" \/ hs[a] = "running"

\* connect() returns, even if the peer never says a word.
ConnectResolves ==
    \A a \in Attempts : side = "client" /\ fut[a] = "creating" ~> fut[a] \in Over

\* On either side, an answer of the handshake callback ends the call.
AnswerEndsCall ==
    \A a \in Attempts : chan[a] \in {"ok", "error"} ~> fut[a] \in Over

-----------------------------------------------------------------------------
\* Two obligations that comments of io.rs put on the callers.

\* SendableRawPtr: "The pointer remains valid for the duration of the async
\* operation".  The blocking job dereferences the context.
PointerValid == \A a \in Attempts : job[a] = "queued" => ctx = "alive"

\* SendableRawPtr: "Proper cleanup/re-boxing after the operation completes".
Reboxed == \A a \in Attempts : fut[a] = "err" => conn[a] # "raw"
=============================================================================
