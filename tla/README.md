# A TLA+ model of fizz-rs

fizz-rs gives Rust programs TLS 1.3 with delegated credentials (RFC 9345) by
binding Facebook's C++ library fizz. Most of what can go wrong in it is not
cryptography but the seam between two runtimes: a Tokio task that polls, and a
folly `EventBase` thread ("the evb", one per connection) that calls back. This
directory models that seam in TLA+, model-checks it with TLC and proves its
main safety properties with TLAPS.

Source paths below are relative to the repository root.

## The system's parts

| part | state | operations | what it talks to |
|---|---|---|---|
| **Connection** `src/ffi/{client,server}_tls_ffi.{cpp,h}`, `src/{client,server}_tls.rs`, `src/read_waker.rs` | read queue and counter, EOF and write-error flags, `read_mutex`, `waker_mutex`, the Waker slot, the evb and its queue, the transport | evb: `getReadBuffer`, `readDataAvailable`, `readEOF`, `readErr`, `writeSuccess`, `writeErr`, queued closures; owner: `poll_read`, `poll_write`, `poll_flush`, `poll_shutdown`, `close`, drop, destructor | fizz transport, Tokio |
| **Handshake** `connect` / `accept_from_stream`, `*_connection_handshake_async`, `src/async_context.rs`, `src/io.rs` | the raw descriptor, the boxed connection, a oneshot channel, the callback object | take the fd, create on a blocking thread, start, success / error / fallback callback, await, cancel | evb thread, Tokio's blocking pool, credential checks |
| **Synchronous handshake** `*_connection_handshake` | two plain flags shared with the callback, a deadline | start, poll loop, callback, timeout | evb thread |
| **Delegated credentials** `src/credentials.rs`, `src/ffi/credentials_ffi.cpp` | parent certificate, key, clock | generate, verify, `VerificationInfo`, expiry, PEM | the client's check after the handshake |
| **TLS contexts** `new_*_tls_context*`, `set_alpn`, `set_sni` | ALPN list, SNI, fizz context | construct, set | connect / accept |
| **Certificates and keys** `src/certificates.rs`, `src/ffi/certificates_ffi.cpp` | none after loading | load, PEM, hex | contexts, generator |
| **Serialisation** `src/types.rs`, `src/credentials.rs` (serde) | none | visit map / seq, duplicate and missing fields | files, demo control plane |
| **Errors** `src/error.rs` | none | classify a C++ exception by its text | every bridge call |
| **Bridge** `src/bridge.rs` | none | declarations, `missing_field` | all |
| **C++ benchmark** `src/ffi/cpp_bench.cpp` | sessions, promises, acceptor, threads | accept, echo, finish, tear down | fizz |
| **Rust benchmark** `crates/tls_bench_ablation` | server and client tasks, timings | serve, run, median | connections |
| **Demo** `demo/` | sidecar, services | mint and fetch credentials | generator |
| **Build** `build.rs` | patched trees | apply patches, compile | - |

fizz and folly themselves are external: they are modelled by what the code
relies on (order of the closure queue, one terminal read callback, `good()`
false after `close()`), and marked so in the map.

## The hard behaviours

* A wake that races the check in `poll_read`; a Waker of another task left in
  the slot; data that arrives between `setReadCB` and `set_*_read_waker`.
* `read_mutex` is locked in one callback and unlocked in another one.
* `readEof` is stored outside the lock while data is queued.
* `~EventBase` drains callbacks that use members about to be destroyed.
* `close()` waits for a closure on a loop that may have been joined already.
* Writes are fire-and-forget; their errors come back later, or never.
* A cancelled or failed `connect` after the box was turned into a raw pointer.
* A credential whose expiry is computed from a second reading of the clock.
* A setter of a shared context against a job that outlived its future.
* Four hand-expanded copies of the same serde code, each with its own tables.
* A benchmark that waits for one side before it looks at the other's error.
* Session objects that delete themselves while fizz still owes them a callback.

`PROJECT.json` lists every hazard at its line, with the properties that cover it.

## Modules

| module | models |
|---|---|
| `FizzConnection` | one established connection, client or server: the evb's callbacks and closures against its owner's calls, to the end of the destructor |
| `ByteStream` | the abstract promise to the reader: bytes in order, then one final end |
| `MCFizzConnection` | two tasks sharing one connection, for TLC |
| `FizzConnectionInv` | the inductive invariant of `FizzConnection` |
| `FizzConnectionProofs` | that every step preserves it, and the theorems about `FizzConnection` |
| `Handshake`, `MCHandshake` | several calls of `connect` / `accept_from_stream` on one context: future, blocking job, evb callbacks, oneshot channel, cancellation |
| `HandshakeProofs` | its theorems |
| `Credentials`, `MCCredentials` | issuing by the crate and by the sidecar, rotation, the client's comparison, the system clock |
| `CredentialsProofs` | its theorems |
| `TlsContext`, `MCTlsContext` | the ALPN and SNI setters of a context against the calls that share it |
| `TlsContextProofs` | its theorems |
| `Serde` | the machine of the hand-expanded `Deserialize`: identify a field, take a value, nest, end, refuse |
| `SerdeTypes`, `MCSerde` | the tables of the four structs, and the machine with these tables |
| `SerdeProofs`, `SerdeTypesProofs` | theorems about the machine for all tables that agree; that the crate's do |
| `EchoRun` | one run of a backend of the ablation benchmark: server task, client tasks, echo, joins |
| `Ablation`, `MCAblation` | `main` of the ablation benchmark, composed with `EchoRun`: the sweep, warm-up, timed runs, rows |
| `AblationProofs` | the theorems about both |
| `EchoBench`, `MCEchoBench` | `run_fizz_cpp_bench`: sessions, promises, acceptor, teardown |
| `EchoBenchProofs` | its theorems |

The components meet in these places. `Handshake` ends where
`FizzConnection` begins: `HandedOver` is what `FizzConnection`'s `Init` and
`SetReadWaker` take for granted. `Handshake` takes the comparison of the
credential as a choice among its results; `Credentials` says which result it has.
`TlsContext` looks at the same calls as `Handshake`, for what they read instead
of for who owns what. `EchoRun` takes from `FizzConnection` what dropping a
connection does (`ClosesOnDrop`: a client closes, a server does not) and that a
write is only queued (`LastEchoLost`), and `EchoBench` is the backend that `EchoRun` sees
as one step, `CppBenchReturns` or `CppBenchFails`.

### FizzConnection and the code

The client and the server C++ files contain the same handlers twice, so one
module stands for both; the variable `side` selects how Rust drops the
value, the only difference. The map refers each action to one of the two copies.
Variables are named after the members they stand for (`read_mutex`,
`pending_read`, `readBufQueue`, `bytesRead`, `readEof`, `read_waker`,
`writeError`); `evbPc` and `tpc` say where inside a callback or a call each
thread is; `slot` is `ReadWaker.inner`. Bytes are numbered, so that a lost or
reordered one shows; contents do not matter. The history variables `arrived`,
`delivered`, `ended`, `eofSeen`, `accepted`, `sent` and `ret` are written and
never read by the actions.

A step is what a thread does between two points where the other one can look:

* `ReadEOF` / `ReadEOFClose` / `WakeReader` are one callback, cut where the flag
  has been stored, where the lock is given back and where the waker is called.
  `ReadErr` / `ReadErrClose` / `WakeReader` likewise, with the store after the
  unlock, as in the code.
* `PollRead` (register), `LockRead`, `ReadOrStatus` are one `poll_read`.
* `PollShutdown` or `Drop`, then `CloseTransport`, `RunClose` (on the evb),
  `CloseJoin` are one `*_connection_close`. `DtorJoin`, `DtorEvb`,
  `DtorEvbDrained`, `DtorWaker` are the destructor; callbacks run between the
  middle two, as in the drain of `~EventBase`.
* `wakeReader` and `set_*_read_waker` are critical sections of `waker_mutex`
  with nothing observable inside, one step each.

The terminal read callback comes at most once and at any time (fizz clears its
callback pointer before the call). That a local `close()` makes the transport
deliver one before the loop stops is not assumed.

### Handshake and the code

`fut` is the position of the Rust future between its awaits, `job` the closure
given to `spawn_blocking`, `hs` fizz's handshake, `chan` the oneshot channel.
`fd` and `conn` say who owns the descriptor and the C++ object: `raw` is a
number or a pointer that no destructor will ever see. `Connect`, `Created`,
`Started`, `Resume` are the future's code from one suspension to the next;
`StartThrows` is the catch block of `*_connection_handshake_async`. The success
callback of the client is two actions, one for each result of its checks. `Cancel`
drops the future at either await or before the first poll; the closure
on the blocking pool and the callback live on, as they do in Tokio and fizz. A
failure of `spawn_blocking` itself (the runtime shuts down) is left out, as is
`into_std` failing in `take_raw_fd`, which panics. fizz calls exactly one of the
handshake callbacks, once, and closes the transport behind an error of its own.

### Credentials and the code

Seconds are numbers; keys are model values, new for each issuance. `Sign` is
`generateCredential`, where fizz reads the clock, and `LibraryReturns` /
`SidecarReturns` the rest of each issuer; between them the clock may move, in
either direction. `issued` keeps the credential on the wire (`pem`), the
`VerificationInfo` made from it (`info`) and, for the properties only, both
clock readings. `valid_time` counts from the parent's `notBefore`
(`src/bridge.rs:18`) in `Width` values, 2^32 in the code. Signature schemes are
the same for all credentials and left out, as is `service_name`, which the
client does not compare.

### TlsContext and the code

A setter is two steps, because it writes a C++ container: `SetAlpn` / `AlpnSet`,
`SetSni` / `SniSet`. What is read in between is `Torn`, a value of its own.
`alpnProtocols` is the wrapper's list and `supportedAlpns` the one in the fizz
context; only a list that is not empty goes from the first to the second. A
setter takes `&mut self`, so no call may be alive (`ExclusiveBorrow`); a dropped
future is not alive although its job and its handshake go on. `stash` is
`peerCertPem`, where the name to send waits for the handshake. The client reads
`supportedAlpns` within `connect`, for which the future's thread waits; the server
when the ClientHello arrives (`HelloArrives`). `wanted` and `asked` are history:
what the program set last, an empty list included, and what it had set when it
made each call.

### Serde and the code

The four `Deserialize` implementations in `src/types.rs` and
`src/credentials.rs` are the output of one macro, written out. `Serde` is what
they have in common, and the tables in which they differ are its constants: the
type of each member (`Declared`, from `src/bridge.rs`), what `serialize` writes,
the names `__FieldVisitor` knows, and the type read and the member set by each
branch of `visit_seq` and `visit_map`. `SerdeTypes` has these five tables for
each struct, taken line by line from the code. A document is offered entry by
entry: any key the format can produce (a name, an index, an unknown one) with a
value of any width, or the beginning of a nested struct. Its bytes and its
syntax are serde_json's affair. A value is known by the member it was written
for, so that one in the wrong place shows. The stack of frames is the Rust call
stack of nested visitors.

### EchoRun, Ablation and the code

The three functions `run_tcp`, `run_rustls` and `run_fizz` differ in their
handshake and in what a dropped stream does, so `EchoRun` is one module with a
variable `backend`. A batch is one `write_all` and `read_exact`. Its size is left out,
and what depends on it is a choice. `ServerJoins` and `ClientsJoin` are `join_next`, which meets the first
task that is over, in any order; an error there drops the `JoinSet` and aborts
the others (`ServerEnds`, `ClientsEnd`). `Return` waits for both, the server
first. A failing call (`bind`, `accept`, `connect`, a handshake, a read or a
write) is a fault and counts against `MaxFaults`. A batch that was written arrives,
with one exception: a fizz connection only queues it, and the server task drops
its connection after its last echo, which stops the loop. The final drain hands
the echo to the socket, and what is beyond the socket's buffer is lost, while the
client reads on. That is `LastEchoLost`; it counts as a fault. `Ablation` is the rest of `main`; its variables `times` stand for
the clock. `Order` and `Sorted` are `sort_by`: a permutation that puts the samples
in ascending order. The steps `main` takes on the variables of a run are steps of
`EchoNext` (`SweepImplementsRuns`), so what is proved of `EchoSpec` holds of each
of its runs. Argument parsing
and the construction of the runtime, which can only end the program, are left
out.

### EchoBench and the code

Server and client sessions have the same shape and are one record, told apart
by `Sides` where their handlers differ. `phase` is where the object is between
its construction and `destroy`; `writes` is `writes_in_flight_`, `reads` the
rounds left. Every handler ends with `maybeFinish`, as in the code. A session
fulfils its promise and deletes itself in a closure of its own (`Finish`), and
the continuation that follows (`Continue`, `Compare`) counts it, on the
session's thread. `Compare` is separate from the increment because another
continuation may run between `fetch_add` and the exchange. `Wait`,
`StopAccepting`, `AcceptStopped`, `DeleteAcceptor`, `Join` are the calling thread
and the acceptor's loop. An exception that leaves the function unwinds past
joinable threads, which is `std::terminate`.

## Runs

| run | expects | shows |
|---|---|---|
| `conn_threads` | pass | types; stream integrity; the lock excludes the reader from the preallocated tail; EOF after data; no lost wakeup; no callback on freed state; no wait on a stopped loop; write order; close after writes; a dropped client is closed; `FizzConnection` implements `ByteStream`; a parked reader with something to report is served; a drop completes |
| `hs_attempts` | pass | what is handed over is complete and verified; callbacks find the connection alive; every awaiting future will be answered; `connect` returns against a silent peer; an answered handshake ends the call |
| `hs_context_doc` | violation | a cancelled call leaves a job that uses the context after its owner may have dropped it |
| `hs_rebox_doc` | violation | a failed handshake leaks the connection and its evb thread |
| `cred_safety` | pass | clients accept only the credential they were told of; the sidecar's infos always fit |
| `cred_signing_doc` | violation | the info's fields "must come from this one signing": `expires_at` does not, and an info stamped in the next second disagrees with its credential |
| `tls_context` | pass | a call that is awaited uses the name set when it was made, and the list unless it is empty; only a dropped one can read a context while it is written |
| `tls_alpn_doc` | violation | "Set ALPN protocols to negotiate": after an empty list is set, calls go on with the list before it |
| `serde_documents` | pass | no value reaches the wrong member; exactly the documents with a missing, repeated or misfitting field are refused; what the crate wrote it reads back |
| `ablation_sweep` | pass | Ok means everything was echoed; one row for each N and backend; the time printed is a median of all runs asked for; TCP and rustls runs end on both sides whatever fails; without failures and lost echoes the sweep ends |
| `ablation_row_doc` | violation | "one CSV row per (backend, N)": a client that cannot connect leaves `main` waiting for the server, which waits for the client |
| `bench_sessions` | pass | no session is deleted under an outstanding write; teardown only after every session is done; the acceptor outlives `acceptStopped`; each promise is set once; the call ends, unless a client whose set-up failed keeps its socket connected |

Some further sentences of the repository say more than the code does. They need
no run, as each can be read off one action or one property:

* `src/bridge.rs:90` says `eof` is "True iff the peer has closed"; `ReadErr` sets
  it for a transport error too.
* `src/client_tls.rs:277` says `poll_flush` "ensures C++ buffers are flushed"; it
  returns at once, with writes still queued.
* `src/io.rs:24` makes the caller of `take_raw_fd` responsible for the
  descriptor; when `client_connect` throws early (`CreationThrows`) nobody closes it.
* `src/credentials.rs:59` says `verify` "performs the same verification that a
  client would"; it checks the signature and not the time.
* `src/ffi/server_tls_ffi.h:64` keeps the descriptor "for cleanup"; a server
  connection dropped without a close (`Drop` with `side = "server"`) leaves its
  transport open, and `ClientDropCloses` is about the client for that reason.
* `src/ffi/cpp_bench.cpp:718` waits "until both sides finish (or one errors)"; the
  wait is for the server first. A client whose set-up throws with its socket
  connected leaves the server without a ClientHello and the call waiting, the
  case `BenchEnds` excludes.

**Bounds.** `FizzConnection`: two tasks (one that is parked and one that takes the connection over
is what a stale Waker needs), two bytes with buffers of one and two (a read
that leaves data behind, one that drains, data behind data), two writes (order,
and a close behind more than one), both sides; the safety properties are proved
for all bounds. Keys are symmetric in `cred_safety` and `cred_signing_doc`; runs
with liveness properties use no symmetry. Buffers are not empty: with an empty one,
`read_or_status` returns no bytes and no EOF and `poll_read` returns Pending
over data that is there. `Handshake` has two attempts: they share only the
context, and one that is over while the other still borrows it is the case that
matters. `Credentials` has two keys (one rotation), three
seconds, two durations, and a `Width` of 4, which one of the durations reaches.
`TlsContext` has two calls and two values of each setting: a setter can come
before, between and after the calls. `Serde` has no bound: a document may go
on for ever with unknown keys, and the state space is finite. `Ablation` sweeps over
one and two pairs with all four backends, two rounds (a first and a last), one
warm-up, no, two or three timed runs (no median, an even and an odd one) whose
times come in two orders, and one fault. `EchoBench` has two connections,
so that one can be the last and one not, two rounds and two faults, one for each
side or session.

**Deadlock** is checked in all runs but `ablation_*` and `bench_sessions`. `Freed`
and `Finished` let a freed object and a dropped context stutter. The benchmarks
really can stop: `ablation_row_doc` is one way, and in `EchoBench` a client whose
set-up throws with its socket connected leaves the server waiting. The
liveness properties of these runs say when they do not.

**Fairness.** In `FizzConnection`, `EvbContinues` and `EvbClosure` are weakly fair: a callback
returns, and a loop that runs reaches its queue. `OwnerContinues` is strongly
fair: a blocking call gets on, and gets `read_mutex` although the evb takes it
again and again. `PollWoken` is strongly fair: Tokio polls a task that was
woken, even if other calls come in between. Nothing is assumed of the peer, nor
that the application writes, shuts down, drops, or polls without being woken.
In `Handshake` the blocking pool runs its jobs, the evb its queue, Tokio polls a
future whose await is ready, and the timer that `connect` sets expires, all weakly
fair. The server sets no timer, so nothing is claimed of an `accept` whose
peer is silent. In `Ablation` and `EchoBench` weak fairness of `Progress`, all steps
that are not failures, is enough: each of them uses something up (a round, a
task, a run) and failures are few, so the scheduler cannot starve a thread for
ever, it can only run out of other things to do. It stands for worker threads
that run what is ready. `Serde` is fair to the reader of a document: the
crate's own ends.

## Proofs

For every set of tasks and buffer sizes and all bounds, from
`ConnectionAssumption` alone, `FizzConnectionProofs` proves all the safety
properties of `conn_threads`, the refinement included.
`NoLostWakeup` is proved under the hypothesis `0 \notin BufSizes`.

None of the properties is inductive by itself. `IInv` adds

* `Locking`: who holds `read_mutex`, and which callback gives it back;
* `Lifecycle`: loop, owner and waker move together (no callback outside a
  running or draining loop, no drain outside the destructor);
* `Ending`: `readEof` means the read callback is gone, so nothing can arrive
  behind a reported end;
* `Waking`: whoever polls or is parked has been woken or is in the slot;
* `Closing`: a queued `close()` is waited for, is last, and is on a running
  loop; a joined loop has a transport that is no longer good;
* `Queueing`: while the transport is good, sent and queued writes are numbered
  without a gap up to the last one accepted.

`FizzConnectionProofs` proves each part of `IInv` preserved, one step per action;
the sequence reasoning is in lemmas of its own.

`HandshakeProofs` proves `TypeOK`, `HandedOver`, `CallbackTargetAlive` and
`AwaitIsAnswered` for any set of attempts. `HInv` says, for each position of the future, what job, connection,
transport and channel may be (`Position`), and that success is on the channel
only behind everything it stands for (`Promised`). A step of one attempt leaves the
others alone, so the proof takes each action against an arbitrary attempt.

`CredentialsProofs` proves the properties of `cred_safety` for all keys,
clocks, durations and widths that `CredentialAssumption` allows (the clock is
never before `notBefore`). `CInv` adds that each issuance has a key of its own
(`FreshKeys`), that contexts hold only what was issued (`Provenance`) and what
each issuer wrote down (`Stamped`). `SigningExtent` says how far the violation of
`cred_signing_doc` reaches: credential and info of the crate disagree exactly if
the clock showed another second when `expires_at` was computed than at the signing.

`TlsContextProofs` proves both properties of `tls_context` for any number of calls,
names and lists. `CtxInv` says that the context holds what the program has set,
but for an empty list, or a setter is about to write it (`ContextAgrees`), and that a call that is alive
keeps the setters away and has what it asked for, as far as it has got
(`Borrowing`).

`SerdeProofs` is about structs of any number of fields, nested to any depth,
under `TablesAssumption` (tables are lists, members are not `Option`s) and the
hypothesis `TablesAgree` (the five tables of a struct name the same members in the same
order with the same types). `IInv` describes each frame (`FrameOK`: a field has
a value exactly if its member was offered one, and it is the value offered) and
the stack (`StackOK`: all frames but the first wait for the struct of the one
above). From it follow `NoValueCrosses` and `RefusedIffFlawed`, and, as the crate
writes no flawed document, `OwnNotRefused`: the safety half of `OwnDocumentRead`.
`SerdeTypesProofs` proves that the tables of the crate agree, struct by struct,
and so gets the three results for the crate.

`AblationProofs` proves the safety properties of `ablation_sweep`, from
`EchoRunAssumption` and `AblationAssumption` (a sweep of non-empty sets of pairs,
as `main` raises each N to at least one; as many wall times as runs), for any
number of pairs, rounds, backends, runs and failures. It has four parts.

* `OkMeansEchoed` of one run. `EchoInv` relates the loop counters of the two tasks
  of a pair to the batches in flight (`Conserved`: none is counted that was not
  echoed, even if an echo is lost), gives each position of a task
  its counter (`CountsRounds`), and says that what was joined without an error was
  done (`JoinedDone`).
* The bounds of a run. That a direction holds at most one batch is not inductive:
  `InFlight` counts both directions and the batch in the serving task's hands
  together, and says that there is none while the client is not reading.
* The median, for every sequence of samples. A sorting order exists because the
  ranks of the samples (how many are smaller, or equal and further left) are an
  injection of a finite set into itself; a stretch of the sorted samples maps
  one to one into the samples, which gives the two halves.
* The sweep. `SweepMakesRuns` is the refinement, step by step. `Sampling` says that
  samples and runs left add up to the runs asked for, that a run is made only for
  an item that is due, and that a timed row holds all samples and their median.
  With it `OneRowEach` is inductive.

`EchoBenchProofs` proves the safety properties of `bench_sessions`, the action
property `PromiseSetOnce` included, for any finite set of connections, any number
of failures and at least one round (`main` refuses zero). `BInv` says

* what a session's phase tells of its counters and flags (`SessionOK`), and that a
  connection that was not dialled has no session (`UndialedOK`);
* that every batch on its way was sent and not yet received, and every
  unanswered write was a batch sent (`BatchesOK`), which bounds
  `writes_in_flight_` on both sides at once;
* that the counter of a side is at most the number of continuations past the
  increment, that at most one of them is about to find it complete, and that the
  flag and the promise agree (`JoinOK`): this is what makes the promise be set once
  although the increment and the comparison are two steps;
* what the calling thread knows by where it is (`MainOK`).

Only model-checked: liveness (`ReaderServed`, `DropCompletes`, `ConnectResolves`,
`AnswerEndsCall`, `OwnDocumentRead`, `FailuresReachBothSides`, `SweepEnds`,
`BenchEnds`), which is beyond the prover. Every safety property of a passing run
has a theorem. The violations need none.

## Not modelled

* Cryptography, certificate parsing, PEM and DER, logging and error texts
  (`src/error.rs` classifies by substrings and has no state).
* The synchronous handshake (`*_connection_handshake`): the bridge exports it and
  nothing calls it. `is_open`, `peer_certificate`, `*_read_size_hint`,
  `*_connection_read` and `*_connection_read_eof` change no state that the rest
  depends on, or are not called either.
* `verify()` and the hex conversions: functions without state over the results
  of OpenSSL.
* The demo programs and the sidecar's `main`: straight-line users of the library
  and of fizz. What the sidecar puts into a credential is in `Credentials`.
* The build script, which runs before there is a system.
* Two connections joined end to end: `ImplementsByteStream` says what each
  promises its reader, and what lies between them is fizz and the network.
