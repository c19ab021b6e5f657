----------------------------- MODULE TlsContext -----------------------------
(***************************************************************************)
(* A ClientTlsContext or ServerTlsContext with its setters, and the calls  *)
(* of connect() or accept_from_stream() that share it.  The context is     *)
(* read outside the calling task: by the blocking job, and by fizz on the  *)
(* EventBase thread of the connection, through the shared fizz context.    *)
(* Only the borrow of the call keeps the setters away, and a dropped       *)
(* future gives the borrow up while its job or its handshake goes on.      *)
(* What the constructors take besides is in Credentials.                   *)
(***************************************************************************)
EXTENDS Naturals

CONSTANTS
    Calls,      \* calls of connect() or accept_from_stream()
    Lists,      \* non-empty lists of ALPN protocols
    Names,      \* non-empty host names
    None,       \* the empty list, the empty name
    Torn        \* what a read racing a write returns

ASSUME TlsContextAssumption ==
    None \notin Lists \union Names /\ Torn \notin Lists \union Names \union {None, "certificate"}

VARIABLES
    side,       \* "client" or "server"
    alpnProtocols,  \* of the FizzClientContext or FizzServerContext
    supportedAlpns, \* of the fizz context, shared with every connection
    sniHostname,
    setter,     \* the setter in progress: what it writes, and the value
    pc,         \* where each call is
    alive,      \* its future has not been dropped or resolved
    hostname,   \* its argument
    stash,      \* peerCertPem, which holds the SNI until the handshake
    sni, alpn,  \* what fizz was given, and the list it used
    wanted,     \* the name and the list the program has set last
    asked       \* those of each call, when it was made

ctxVars == <<alpnProtocols, supportedAlpns, sniHostname, setter, wanted>>
callVars == <<pc, alive, hostname, stash, sni, alpn, asked>>
vars == <<side, ctxVars, callVars>>

Unset == [name |-> None, list |-> None]
Idle == [what |-> "none", value |-> None]

\* new and new_no_dc.
Init ==
    /\ side \in {"client", "server"}
    /\ alpnProtocols = None /\ supportedAlpns = None /\ sniHostname = None /\ setter = Idle
    /\ pc = [c \in Calls |-> "idle"] /\ alive = [c \in Calls |-> FALSE]
    /\ hostname = [c \in Calls |-> None] /\ stash = [c \in Calls |-> None]
    /\ sni = [c \in Calls |-> None] /\ alpn = [c \in Calls |-> None]
    /\ wanted = Unset /\ asked = [c \in Calls |-> Unset]

-----------------------------------------------------------------------------
\* A mutated form: setters that take &self.
SharedBorrow == TRUE

\* &mut self: no call holds a borrow of the context.
ExclusiveBorrow == \A c \in Calls : ~alive[c]

\* set_alpn_protocols: the wrapper's list is cleared and filled.
SetAlpn(l) ==
    /\ ExclusiveBorrow /\ setter = Idle
    /\ alpnProtocols' = None /\ setter' = [what |-> "alpn", value |-> l]
    /\ wanted' = [wanted EXCEPT !.list = l]
    /\ UNCHANGED <<side, supportedAlpns, sniHostname, callVars>>

\* An empty list does not reach the fizz context, which keeps the earlier one.
AlpnSet ==
    /\ setter.what = "alpn" /\ setter' = Idle
    /\ alpnProtocols' = setter.value
    /\ supportedAlpns' = IF setter.value = None THEN supportedAlpns ELSE setter.value
    /\ UNCHANGED <<side, sniHostname, wanted, callVars>>

\* set_sni.
SetSni(h) ==
    /\ side = "client" /\ ExclusiveBorrow /\ setter = Idle
    /\ setter' = [what |-> "sni", value |-> h] /\ wanted' = [wanted EXCEPT !.name = h]
    /\ UNCHANGED <<side, alpnProtocols, supportedAlpns, sniHostname, callVars>>

SniSet ==
    /\ setter.what = "sni" /\ setter' = Idle /\ sniHostname' = setter.value
    /\ UNCHANGED <<side, alpnProtocols, supportedAlpns, wanted, callVars>>

-----------------------------------------------------------------------------
\* A mutated form: the context's name goes before the argument.
ContextNameFirst(h, name) == IF name # None THEN name ELSE h

\* The argument, or the context's name if it is empty.
NameToSend(h, name) == IF h = None THEN name ELSE h

\* connect or accept_from_stream is polled first: the job is queued.
Call(c, h) ==
    /\ pc[c] = "idle" /\ setter = Idle /\ (side = "server" => h = None)
    /\ pc' = [pc EXCEPT ![c] = "job"] /\ alive' = [alive EXCEPT ![c] = TRUE]
    /\ hostname' = [hostname EXCEPT ![c] = h]
    /\ asked' = [asked EXCEPT ![c] = IF h = None THEN wanted ELSE [wanted EXCEPT !.name = h]]
    /\ UNCHANGED <<side, ctxVars, stash, sni, alpn>>

\* ctx.sniHostname, as the job reads it.
ReadSni == IF setter.what = "sni" THEN Torn ELSE sniHostname

\* client_connect or server_accept_connection, on a blocking thread.
Job(c) ==
    /\ pc[c] = "job"
    /\ pc' = [pc EXCEPT ![c] = "made"]
    /\ stash' = [stash EXCEPT ![c] = NameToSend(hostname[c], ReadSni)]
    /\ UNCHANGED <<side, ctxVars, alive, hostname, sni, alpn, asked>>

\* The task goes on after the first await.
Polled(c) == alive[c]

\* client_connection_handshake_async: the SNI leaves its hiding place, and fizz
\* makes the ClientHello; server_connection_handshake_async: fizz waits for one.
Handshake(c) ==
    /\ pc[c] = "made" /\ Polled(c)
    /\ sni' = [sni EXCEPT ![c] = stash[c]] /\ stash' = [stash EXCEPT ![c] = None]
    /\ IF side = "client"
       THEN alpn' = [alpn EXCEPT ![c] = supportedAlpns] /\ pc' = [pc EXCEPT ![c] = "hello"]
       ELSE pc' = [pc EXCEPT ![c] = "handshake"] /\ UNCHANGED alpn
    /\ UNCHANGED <<side, ctxVars, alive, hostname, asked>>

\* The ClientHello arrives, on the EventBase thread: fizz picks from its list.
HelloArrives(c) ==
    /\ pc[c] = "handshake"
    /\ alpn' = [alpn EXCEPT ![c] = IF setter.what = "alpn" THEN Torn ELSE supportedAlpns]
    /\ pc' = [pc EXCEPT ![c] = "hello"]
    /\ UNCHANGED <<side, ctxVars, alive, hostname, stash, sni, asked>>

\* fizzHandshakeSuccess, and the future resolves if it is still there.
Succeed(c) ==
    /\ pc[c] = "hello"
    /\ pc' = [pc EXCEPT ![c] = IF alive[c] THEN "ready" ELSE "failed"]
    /\ alive' = [alive EXCEPT ![c] = FALSE]
    /\ stash' = IF side = "client" THEN [stash EXCEPT ![c] = "certificate"] ELSE stash
    /\ UNCHANGED <<side, ctxVars, hostname, sni, alpn, asked>>

\* The job throws, the handshake cannot be started, or it fails.
Fail(c) ==
    /\ pc[c] \in {"job", "handshake", "hello"} \/ (pc[c] = "made" /\ Polled(c))
    /\ pc' = [pc EXCEPT ![c] = "failed"] /\ alive' = [alive EXCEPT ![c] = FALSE]
    /\ UNCHANGED <<side, ctxVars, hostname, stash, sni, alpn, asked>>

\* The future is dropped at one of its awaits; job and handshake go on.
Drop(c) ==
    /\ alive[c] /\ alive' = [alive EXCEPT ![c] = FALSE]
    /\ UNCHANGED <<side, ctxVars, pc, hostname, stash, sni, alpn, asked>>

Next ==
    \/ \E l \in Lists \union {None} : SetAlpn(l)
    \/ \E h \in Names \union {None} : SetSni(h)
    \/ AlpnSet \/ SniSet
    \/ \E c \in Calls : \/ \E h \in Names \union {None} : Call(c, h)
                        \/ Job(c) \/ Handshake(c) \/ HelloArrives(c) \/ Succeed(c) \/ Fail(c) \/ Drop(c)

Spec == Init /\ [][Next]_vars

-----------------------------------------------------------------------------
\* A call that is awaited to its end sends the name and uses the list that were
\* set when it was made.  The name survives its time in peerCertPem, and no
\* setter comes between the call and the two threads that read the context.
\* Nothing is said of an empty list: see UsesListSet.
UsesWhatWasSet ==
    \A c \in Calls : pc[c] = "ready" =>
        sni[c] = asked[c].name /\ (asked[c].list # None => alpn[c] = asked[c].list)

\* Only a call whose future was dropped can read the context while it is being
\* written.
TornOnlyAfterDrop ==
    \A c \in Calls : Torn \in {stash[c], sni[c], alpn[c]} => ~alive[c] /\ pc[c] # "ready"

\* A statement of two comments of the repository, refuted by the code.
\* src/client_tls.rs:68 and src/server_tls.rs:77 of set_alpn_protocols: "Set ALPN
\* protocols to negotiate", "Set ALPN protocols to advertise".  So a call uses the
\* list set last, the empty one included.
UsesListSet == \A c \in Calls : pc[c] = "ready" => alpn[c] = asked[c].list
=============================================================================
