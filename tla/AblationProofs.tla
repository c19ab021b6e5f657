--------------------------- MODULE AblationProofs ---------------------------
(***************************************************************************)
(* The benchmark of crates/tls_bench_ablation, for any number of pairs,    *)
(* rounds, runs and failures: a run that returns Ok has echoed everything, *)
(* the sweep drives its runs by the rules of EchoRun, and what it prints   *)
(* is one row for each item, with the median of all its runs.              *)
(***************************************************************************)
EXTENDS Ablation, FiniteSetTheorems, TLAPS

-----------------------------------------------------------------------------
\* One run.

Gone == {"failed", "aborted"}

Types ==
    /\ active \subseteq Pairs /\ cJoined \subseteq active /\ sJoined \subseteq active
    /\ client \in [Pairs -> ClientStates] /\ serve \in [Pairs -> ServeStates]
    /\ crounds \in [Pairs -> Nat] /\ srounds \in [Pairs -> Nat]
    /\ toServer \in [Pairs -> Nat] /\ toClient \in [Pairs -> Nat]

\* The loop counter of a task agrees with where the task is.
CountsRounds(state, rounds) ==
    /\ state \in {"none", "dial", "handshake"} => rounds = 0
    /\ state \in {"write", "read"} => rounds < Rounds
    /\ state = "done" => rounds = Rounds

\* While neither task of a pair is lost, every batch is accounted for; an echo may
\* be lost, and then its client goes on reading.
Conserved(p) ==
    client[p] \notin Gone /\ serve[p] \notin Gone =>
        /\ crounds[p] + (IF client[p] = "read" THEN 1 ELSE 0)
             = toServer[p] + srounds[p] + (IF serve[p] = "write" THEN 1 ELSE 0)
        /\ toClient[p] + crounds[p] <= srounds[p]

\* A connection not dialled, or not accepted, has no serving task.
Unserved(p) ==
    /\ client[p] = "dial" => p \notin backlog /\ serve[p] = "none"
    /\ p \in backlog => serve[p] = "none"

PairOK(p) ==
    /\ CountsRounds(client[p], crounds[p]) /\ CountsRounds(serve[p], srounds[p])
    /\ Conserved(p) /\ Unserved(p)

\* What has been joined without an error was done.
JoinedDone ==
    /\ clients = "ok" => \A p \in active : client[p] = "done"
    /\ clients = "joining" => \A p \in cJoined : client[p] = "done"
    /\ server = "ok" => \A p \in active : serve[p] = "done"
    /\ server \in {"accepting", "joining"} => \A p \in sJoined : serve[p] = "done"
    /\ result = "ok" /\ backend # "fizz_cpp" => clients = "ok" /\ server = "ok"

EchoInv == Types /\ (\A p \in Pairs : PairOK(p)) /\ JoinedDone

\* Before the first run the invariant holds.
LEMMA EchoInvInit == EchoInit => EchoInv
<1> SUFFICES ASSUME EchoInit PROVE EchoInv OBVIOUS
<1>1. Types BY DEF EchoInit, Types, ClientStates, ServeStates
<1>2. \A p \in Pairs : PairOK(p) BY DEF EchoInit, PairOK, CountsRounds, Conserved, Unserved, Gone
<1>3. JoinedDone BY DEF EchoInit, JoinedDone
<1> QED BY <1>1, <1>2, <1>3 DEF EchoInv

\* What the step of a pair's own tasks does to the rest: nothing.
OthersKept(p) ==
    /\ active' = active
    /\ \A q \in Pairs \ {p} : /\ client'[q] = client[q] /\ serve'[q] = serve[q]
                              /\ crounds'[q] = crounds[q] /\ srounds'[q] = srounds[q]
                              /\ toServer'[q] = toServer[q] /\ toClient'[q] = toClient[q]
                              /\ q \in backlog' <=> q \in backlog

\* A task that is done stays so.
DoneStays(p) ==
    /\ client[p] = "done" => client'[p] = "done"
    /\ serve[p] = "done" => serve'[p] = "done"

\* A step of one pair's tasks that keeps what is done preserves the invariant.
LEMMA TaskStep ==
    ASSUME EchoInv, NEW p \in active, Types', OthersKept(p), PairOK(p)', DoneStays(p),
           result' = result, result = "none", clients' = clients, cJoined' = cJoined, sJoined' = sJoined,
           server' = server \/ (server = "accepting" /\ server' = "joining")
    PROVE  EchoInv'
<1>0. p \in Pairs BY DEF EchoInv, Types
<1>1. ASSUME NEW q \in Pairs PROVE PairOK(q)'
  <2>1. CASE q = p BY <2>1
  <2>2. CASE q # p
    BY <2>2 DEF EchoInv, OthersKept, PairOK, Conserved, Unserved, CountsRounds
  <2> QED BY <2>1, <2>2
<1>2. \A q \in Pairs : (client[q] = "done" => client'[q] = "done") /\ (serve[q] = "done" => serve'[q] = "done")
  BY <1>0 DEF OthersKept, DoneStays
<1>3. active' = active BY DEF OthersKept
<1>4. JoinedDone'
  <2>1. clients' = "ok" => \A q \in active' : client'[q] = "done"
    BY <1>2, <1>3 DEF EchoInv, JoinedDone, Types
  <2>2. clients' = "joining" => \A q \in cJoined' : client'[q] = "done"
    BY <1>2, <1>3 DEF EchoInv, JoinedDone, Types
  <2>3. server' = "ok" => \A q \in active' : serve'[q] = "done"
    BY <1>2, <1>3 DEF EchoInv, JoinedDone, Types
  <2>4. server' \in {"accepting", "joining"} => \A q \in sJoined' : serve'[q] = "done"
    BY <1>2, <1>3 DEF EchoInv, JoinedDone, Types
  <2> QED BY <2>1, <2>2, <2>3, <2>4 DEF JoinedDone
<1> QED BY <1>1, <1>4 DEF EchoInv

\* The steps of one pair, each from the lemma above.
LEMMA DialKeeps == ASSUME EchoInv, NEW p \in active, Dial(p) PROVE EchoInv'
<1>0. p \in Pairs BY DEF EchoInv, Types
<1>1. Types' BY <1>0, EchoRunAssumption DEF EchoInv, Types, Dial, ClientTo, FirstWrite, joinVars, ClientStates, ServeStates
<1>2. OthersKept(p) BY <1>0 DEF EchoInv, Types, OthersKept, Dial, ClientTo, FirstWrite, joinVars
<1>3. PairOK(p)'
  BY <1>0, EchoRunAssumption DEF EchoInv, Types, PairOK, CountsRounds, Conserved, Unserved, Gone, Dial, ClientTo, FirstWrite, joinVars
<1>4. DoneStays(p) BY <1>0 DEF EchoInv, Types, DoneStays, Dial, ClientTo, FirstWrite
<1> QED BY <1>1, <1>2, <1>3, <1>4, TaskStep DEF Dial, ClientTo, FirstWrite, Running, joinVars

\* Accepting a connection.
LEMMA AcceptKeeps == ASSUME EchoInv, NEW p \in active, Accept(p) PROVE EchoInv'
<1>0. p \in Pairs BY DEF EchoInv, Types
<1>1. Types' BY <1>0, EchoRunAssumption DEF EchoInv, Types, Accept, ServeTo, FirstRead, joinVars, ClientStates, ServeStates
<1>2. OthersKept(p) BY <1>0 DEF EchoInv, Types, OthersKept, Accept, ServeTo, FirstRead, joinVars
<1>3. PairOK(p)'
  BY <1>0, EchoRunAssumption DEF EchoInv, Types, PairOK, CountsRounds, Conserved, Unserved, Gone, Accept, ServeTo, FirstRead, joinVars
<1>4. DoneStays(p) BY <1>0 DEF EchoInv, Types, PairOK, Unserved, DoneStays, Accept, ServeTo, FirstRead
<1> QED BY <1>1, <1>2, <1>3, <1>4, TaskStep DEF Accept, ServeTo, FirstRead, Running, joinVars

\* The end of a client's handshake.
LEMMA ClientHandshakeKeeps == ASSUME EchoInv, NEW p \in active, ClientHandshake(p) PROVE EchoInv'
<1>0. p \in Pairs BY DEF EchoInv, Types
<1>1. Types' BY <1>0, EchoRunAssumption DEF EchoInv, Types, ClientHandshake, ClientTo, FirstWrite, joinVars, ClientStates, ServeStates
<1>2. OthersKept(p) BY <1>0 DEF EchoInv, Types, OthersKept, ClientHandshake, ClientTo, FirstWrite, joinVars
<1>3. PairOK(p)'
  BY <1>0, EchoRunAssumption DEF EchoInv, Types, PairOK, CountsRounds, Conserved, Unserved, Gone, ClientHandshake, ClientTo, FirstWrite, joinVars
<1>4. DoneStays(p) BY <1>0 DEF EchoInv, Types, DoneStays, ClientHandshake, ClientTo, FirstWrite
<1> QED BY <1>1, <1>2, <1>3, <1>4, TaskStep DEF ClientHandshake, ClientTo, FirstWrite, Running, joinVars

\* The end of a server's handshake.
LEMMA ServeHandshakeKeeps == ASSUME EchoInv, NEW p \in active, ServeHandshake(p) PROVE EchoInv'
<1>0. p \in Pairs BY DEF EchoInv, Types
<1>1. Types' BY <1>0, EchoRunAssumption DEF EchoInv, Types, ServeHandshake, ServeTo, FirstRead, joinVars, ClientStates, ServeStates
<1>2. OthersKept(p) BY <1>0 DEF EchoInv, Types, OthersKept, ServeHandshake, ServeTo, FirstRead, joinVars
<1>3. PairOK(p)'
  BY <1>0, EchoRunAssumption DEF EchoInv, Types, PairOK, CountsRounds, Conserved, Unserved, Gone, ServeHandshake, ServeTo, FirstRead, joinVars
<1>4. DoneStays(p) BY <1>0 DEF EchoInv, Types, DoneStays, ServeHandshake, ServeTo, FirstRead
<1> QED BY <1>1, <1>2, <1>3, <1>4, TaskStep DEF ServeHandshake, ServeTo, FirstRead, Running, joinVars

\* A batch goes out.
LEMMA ClientWriteKeeps == ASSUME EchoInv, NEW p \in active, ClientWrite(p) PROVE EchoInv'
<1>0. p \in Pairs BY DEF EchoInv, Types
<1>1. Types' BY <1>0, EchoRunAssumption DEF EchoInv, Types, ClientWrite, joinVars, ClientStates, ServeStates
<1>2. OthersKept(p) BY <1>0 DEF EchoInv, Types, OthersKept, ClientWrite, joinVars
<1>3. PairOK(p)'
  BY <1>0, EchoRunAssumption DEF EchoInv, Types, PairOK, CountsRounds, Conserved, Unserved, Gone, ClientWrite, joinVars
<1>4. DoneStays(p) BY <1>0 DEF EchoInv, Types, DoneStays, ClientWrite
<1> QED BY <1>1, <1>2, <1>3, <1>4, TaskStep DEF ClientWrite, Running, joinVars

\* A batch comes back.
LEMMA ClientReadKeeps == ASSUME EchoInv, NEW p \in active, ClientRead(p) PROVE EchoInv'
<1>0. p \in Pairs BY DEF EchoInv, Types
<1>1. Types' BY <1>0, EchoRunAssumption DEF EchoInv, Types, ClientRead, ClientTo, joinVars, ClientStates, ServeStates
<1>2. OthersKept(p) BY <1>0 DEF EchoInv, Types, OthersKept, ClientRead, ClientTo, joinVars
<1>3. PairOK(p)'
  <2>1. /\ crounds[p] \in Nat /\ srounds[p] \in Nat /\ toServer[p] \in Nat /\ toClient[p] \in Nat
    BY <1>0 DEF EchoInv, Types
  <2>2. client'[p] = (IF crounds[p] + 1 = Rounds THEN "done" ELSE "write") /\ serve'[p] = serve[p]
        /\ crounds'[p] = crounds[p] + 1 /\ srounds'[p] = srounds[p]
        /\ toServer'[p] = toServer[p] /\ toClient'[p] = toClient[p] - 1 /\ backlog' = backlog
        /\ client[p] = "read" /\ toClient[p] > 0
    BY <1>0 DEF EchoInv, Types, ClientRead, ClientTo, joinVars
  <2>3. PairOK(p) BY <1>0 DEF EchoInv
  <2>4. CountsRounds(client[p], crounds[p])' /\ CountsRounds(serve[p], srounds[p])'
    BY <2>1, <2>2, <2>3, EchoRunAssumption DEF PairOK, CountsRounds
  <2>5. Conserved(p)' BY <2>1, <2>2, <2>3 DEF PairOK, Conserved, Gone
  <2>6. Unserved(p)' BY <2>2, <2>3 DEF PairOK, Unserved
  <2> QED BY <2>4, <2>5, <2>6 DEF PairOK
<1>4. DoneStays(p) BY <1>0 DEF EchoInv, Types, DoneStays, ClientRead, ClientTo
<1> QED BY <1>1, <1>2, <1>3, <1>4, TaskStep DEF ClientRead, ClientTo, Running, joinVars

\* A batch arrives.
LEMMA ServeReadKeeps == ASSUME EchoInv, NEW p \in active, ServeRead(p) PROVE EchoInv'
<1>0. p \in Pairs BY DEF EchoInv, Types
<1>1. Types' BY <1>0, EchoRunAssumption DEF EchoInv, Types, ServeRead, joinVars, ClientStates, ServeStates
<1>2. OthersKept(p) BY <1>0 DEF EchoInv, Types, OthersKept, ServeRead, joinVars
<1>3. PairOK(p)'
  BY <1>0, EchoRunAssumption DEF EchoInv, Types, PairOK, CountsRounds, Conserved, Unserved, Gone, ServeRead, joinVars
<1>4. DoneStays(p) BY <1>0 DEF EchoInv, Types, DoneStays, ServeRead
<1> QED BY <1>1, <1>2, <1>3, <1>4, TaskStep DEF ServeRead, Running, joinVars

\* A batch is echoed.
LEMMA ServeWriteKeeps == ASSUME EchoInv, NEW p \in active, ServeWrite(p) PROVE EchoInv'
<1>0. p \in Pairs BY DEF EchoInv, Types
<1>1. Types' BY <1>0, EchoRunAssumption DEF EchoInv, Types, ServeWrite, ServeTo, joinVars, ClientStates, ServeStates
<1>2. OthersKept(p) BY <1>0 DEF EchoInv, Types, OthersKept, ServeWrite, ServeTo, joinVars
<1>3. PairOK(p)'
  <2>1. /\ crounds[p] \in Nat /\ srounds[p] \in Nat /\ toServer[p] \in Nat /\ toClient[p] \in Nat
    BY <1>0 DEF EchoInv, Types
  <2>2. serve'[p] = (IF srounds[p] + 1 = Rounds THEN "done" ELSE "read") /\ client'[p] = client[p]
        /\ srounds'[p] = srounds[p] + 1 /\ crounds'[p] = crounds[p]
        /\ toServer'[p] = toServer[p] /\ toClient'[p] = toClient[p] + 1 /\ backlog' = backlog
        /\ serve[p] = "write"
    BY <1>0 DEF EchoInv, Types, ServeWrite, ServeTo, joinVars
  <2>3. PairOK(p) BY <1>0 DEF EchoInv
  <2>4. CountsRounds(client[p], crounds[p])' /\ CountsRounds(serve[p], srounds[p])'
    BY <2>1, <2>2, <2>3, EchoRunAssumption DEF PairOK, CountsRounds
  <2>5. Conserved(p)' BY <2>1, <2>2, <2>3 DEF PairOK, Conserved, Gone
  <2>6. Unserved(p)' BY <2>2, <2>3 DEF PairOK, Unserved
  <2> QED BY <2>4, <2>5, <2>6 DEF PairOK
<1>4. DoneStays(p) BY <1>0 DEF EchoInv, Types, DoneStays, ServeWrite, ServeTo
<1> QED BY <1>1, <1>2, <1>3, <1>4, TaskStep DEF ServeWrite, ServeTo, Running, joinVars

\* A client whose peer is gone.
LEMMA ClientSeesEndKeeps == ASSUME EchoInv, NEW p \in active, ClientSeesEnd(p) PROVE EchoInv'
<1>0. p \in Pairs BY DEF EchoInv, Types
<1>1. Types' BY <1>0, EchoRunAssumption DEF EchoInv, Types, ClientSeesEnd, ClientTo, joinVars, ClientStates, ServeStates
<1>2. OthersKept(p) BY <1>0 DEF EchoInv, Types, OthersKept, ClientSeesEnd, ClientTo, joinVars
<1>3. PairOK(p)'
  BY <1>0, EchoRunAssumption DEF EchoInv, Types, PairOK, CountsRounds, Conserved, Unserved, Gone, ClientSeesEnd, ClientTo, joinVars
<1>4. DoneStays(p) BY <1>0 DEF EchoInv, Types, DoneStays, ClientSeesEnd, ClientTo
<1> QED BY <1>1, <1>2, <1>3, <1>4, TaskStep DEF ClientSeesEnd, ClientTo, Running, joinVars

\* A server whose peer is gone.
LEMMA ServeSeesEndKeeps == ASSUME EchoInv, NEW p \in active, ServeSeesEnd(p) PROVE EchoInv'
<1>0. p \in Pairs BY DEF EchoInv, Types
<1>1. Types' BY <1>0, EchoRunAssumption DEF EchoInv, Types, ServeSeesEnd, ServeTo, joinVars, ClientStates, ServeStates
<1>2. OthersKept(p) BY <1>0 DEF EchoInv, Types, OthersKept, ServeSeesEnd, ServeTo, joinVars
<1>3. PairOK(p)'
  BY <1>0, EchoRunAssumption DEF EchoInv, Types, PairOK, CountsRounds, Conserved, Unserved, Gone, ServeSeesEnd, ServeTo, joinVars
<1>4. DoneStays(p) BY <1>0 DEF EchoInv, Types, DoneStays, ServeSeesEnd, ServeTo
<1> QED BY <1>1, <1>2, <1>3, <1>4, TaskStep DEF ServeSeesEnd, ServeTo, Running, joinVars

\* A client's call fails.
LEMMA ClientFailsKeeps == ASSUME EchoInv, NEW p \in active, ClientFails(p) PROVE EchoInv'
<1>0. p \in Pairs BY DEF EchoInv, Types
<1>1. Types' BY <1>0, EchoRunAssumption DEF EchoInv, Types, ClientFails, joinVars, ClientStates, ServeStates
<1>2. OthersKept(p) BY <1>0 DEF EchoInv, Types, OthersKept, ClientFails, joinVars
<1>3. PairOK(p)'
  BY <1>0, EchoRunAssumption DEF EchoInv, Types, PairOK, CountsRounds, Conserved, Unserved, Gone, ClientFails, joinVars
<1>4. DoneStays(p) BY <1>0 DEF EchoInv, Types, DoneStays, ClientFails
<1> QED BY <1>1, <1>2, <1>3, <1>4, TaskStep DEF ClientFails, Running, joinVars

\* A server's call fails.
LEMMA ServeFailsKeeps == ASSUME EchoInv, NEW p \in active, ServeFails(p) PROVE EchoInv'
<1>0. p \in Pairs BY DEF EchoInv, Types
<1>1. Types' BY <1>0, EchoRunAssumption DEF EchoInv, Types, ServeFails, joinVars, ClientStates, ServeStates
<1>2. OthersKept(p) BY <1>0 DEF EchoInv, Types, OthersKept, ServeFails, joinVars
<1>3. PairOK(p)'
  BY <1>0, EchoRunAssumption DEF EchoInv, Types, PairOK, CountsRounds, Conserved, Unserved, Gone, ServeFails, joinVars
<1>4. DoneStays(p) BY <1>0 DEF EchoInv, Types, DoneStays, ServeFails
<1> QED BY <1>1, <1>2, <1>3, <1>4, TaskStep DEF ServeFails, Running, joinVars

\* An echo is lost with the connection that was to send it.
LEMMA LastEchoLostKeeps == ASSUME EchoInv, NEW p \in active, LastEchoLost(p) PROVE EchoInv'
<1>0. p \in Pairs BY DEF EchoInv, Types
<1>1. Types' BY <1>0 DEF EchoInv, Types, LastEchoLost, joinVars
<1>2. OthersKept(p) BY <1>0 DEF EchoInv, Types, OthersKept, LastEchoLost, joinVars
<1>3. PairOK(p)'
  BY <1>0 DEF EchoInv, Types, PairOK, CountsRounds, Conserved, Unserved, LastEchoLost, joinVars
<1>4. DoneStays(p) BY <1>0 DEF DoneStays, LastEchoLost
<1> QED BY <1>1, <1>2, <1>3, <1>4, TaskStep DEF LastEchoLost, Running, joinVars

\* The end of the server task, with an error or because all are joined.
LEMMA ServerJoinsKeeps == ASSUME EchoInv, NEW p \in active, ServerJoins(p) PROVE EchoInv'
<1>0. p \in Pairs BY DEF EchoInv, Types
<1>1. Types' BY <1>0 DEF EchoInv, Types, ServerJoins, ServerEnds, ServeStates
<1>2. ASSUME NEW q \in Pairs PROVE PairOK(q)'
  BY <1>0 DEF EchoInv, Types, PairOK, CountsRounds, Conserved, Unserved, Gone, Final, ServerJoins, ServerEnds
<1>3. JoinedDone'
  BY <1>0 DEF EchoInv, Types, JoinedDone, Final, Running, ServerJoins, ServerEnds, JoinedAll
<1> QED BY <1>1, <1>2, <1>3 DEF EchoInv

\* The end of the clients' block_on.
LEMMA ClientsJoinKeeps == ASSUME EchoInv, NEW p \in active, ClientsJoin(p) PROVE EchoInv'
<1>0. p \in Pairs BY DEF EchoInv, Types
<1>1. Types' BY <1>0 DEF EchoInv, Types, ClientsJoin, ClientsEnd, ClientStates
<1>2. ASSUME NEW q \in Pairs PROVE PairOK(q)'
  BY <1>0 DEF EchoInv, Types, PairOK, CountsRounds, Conserved, Unserved, Gone, Final, ClientsJoin, ClientsEnd
<1>3. JoinedDone'
  BY <1>0 DEF EchoInv, Types, JoinedDone, Final, Running, ClientsJoin, ClientsEnd, JoinedAll
<1> QED BY <1>1, <1>2, <1>3 DEF EchoInv

\* accept fails.
LEMMA AcceptFailsKeeps == ASSUME EchoInv, AcceptFails PROVE EchoInv'
<1>1. Types' BY DEF EchoInv, Types, AcceptFails, ServerEnds, ServeStates
<1>2. ASSUME NEW q \in Pairs PROVE PairOK(q)'
  BY DEF EchoInv, Types, PairOK, CountsRounds, Conserved, Unserved, Gone, Final, AcceptFails, ServerEnds
<1>3. JoinedDone' BY DEF EchoInv, Types, JoinedDone, Running, AcceptFails, ServerEnds
<1> QED BY <1>1, <1>2, <1>3 DEF EchoInv

\* The beginning of a run resets everything the invariant speaks of.
LEMMA StartRunKeeps == ASSUME EchoInv, NEW b, NEW P \in SUBSET Pairs, StartRun(b, P) PROVE EchoInv'
<1>1. Types' BY DEF Types, StartRun, ClientStates, ServeStates
<1>2. ASSUME NEW q \in Pairs PROVE PairOK(q)'
  BY DEF PairOK, CountsRounds, Conserved, Unserved, Gone, StartRun
<1>3. JoinedDone' BY DEF JoinedDone, StartRun
<1> QED BY <1>1, <1>2, <1>3 DEF EchoInv

\* A run that cannot bind starts nothing.
LEMMA BindFailsKeeps == ASSUME EchoInv, NEW b, BindFails(b) PROVE EchoInv'
<1>1. Types' BY DEF EchoInv, Types, BindFails, taskVars, joinVars
<1>2. ASSUME NEW q \in Pairs PROVE PairOK(q)'
  BY DEF EchoInv, PairOK, CountsRounds, Conserved, Unserved, BindFails, taskVars, joinVars
<1>3. JoinedDone' BY DEF EchoInv, JoinedDone, BindFails, taskVars, joinVars
<1> QED BY <1>1, <1>2, <1>3 DEF EchoInv

\* The steps that only set the result.
LEMMA ResultKeeps ==
    ASSUME EchoInv,
           (Return /\ backend # "fizz_cpp") \/ CppBenchReturns \/ CppBenchFails \/ Collect \/ UNCHANGED runVars
    PROVE  EchoInv'
<1>1. UNCHANGED <<backend, active, taskVars, joinVars>>
  BY DEF Return, CppBenchReturns, CppBenchFails, Collect, runVars
<1>2. Types' BY <1>1 DEF EchoInv, Types, taskVars, joinVars
<1>3. ASSUME NEW q \in Pairs PROVE PairOK(q)'
  BY <1>1 DEF EchoInv, PairOK, CountsRounds, Conserved, Unserved, taskVars, joinVars
<1>4. result' = "ok" /\ backend # "fizz_cpp" => clients = "ok" /\ server = "ok"
  BY DEF EchoInv, JoinedDone, Return, Outcome, CppBenchReturns, CppBenchFails, Collect, runVars
<1>5. JoinedDone' BY <1>1, <1>4 DEF EchoInv, JoinedDone, taskVars, joinVars
<1> QED BY <1>2, <1>3, <1>5 DEF EchoInv

\* Every step of a run preserves the invariant.
LEMMA EchoInvStep == EchoInv /\ [EchoNext]_runVars => EchoInv'
<1> SUFFICES ASSUME EchoInv, [EchoNext]_runVars PROVE EchoInv' OBVIOUS
<1>1. CASE UNCHANGED runVars BY <1>1, ResultKeeps
<1>2. CASE EchoStep
  BY <1>2, ResultKeeps, DialKeeps, AcceptKeeps, ClientHandshakeKeeps, ServeHandshakeKeeps,
     ClientWriteKeeps, ClientReadKeeps, ServeReadKeeps, ServeWriteKeeps, ClientSeesEndKeeps,
     ServeSeesEndKeeps, ServerJoinsKeeps, ClientsJoinKeeps DEF EchoStep
<1>3. CASE EchoFault
  BY <1>3, ResultKeeps, AcceptFailsKeeps, ClientFailsKeeps, ServeFailsKeeps, LastEchoLostKeeps DEF EchoFault
<1>4. CASE Collect BY <1>4, ResultKeeps
<1>5. CASE \E b \in BackendNames : BindFails(b) \/ \E P \in SUBSET Pairs : StartRun(b, P)
  BY <1>5, StartRunKeeps, BindFailsKeeps
<1> QED BY <1>1, <1>2, <1>3, <1>4, <1>5 DEF EchoNext

\* What OkMeansEchoed needs of the invariant.
LEMMA EchoInvEnough == EchoInv => OkMeansEchoed
<1> SUFFICES ASSUME EchoInv, result = "ok", backend # "fizz_cpp", NEW p \in active
             PROVE  /\ crounds[p] = Rounds /\ srounds[p] = Rounds
                    /\ toServer[p] = 0 /\ toClient[p] = 0
  BY DEF OkMeansEchoed
<1>1. client[p] = "done" /\ serve[p] = "done" BY DEF EchoInv, JoinedDone
<1>2. PairOK(p) /\ toServer[p] \in Nat /\ toClient[p] \in Nat BY DEF EchoInv, Types
<1> QED BY <1>1, <1>2, EchoRunAssumption DEF PairOK, CountsRounds, Conserved, Gone

\* run_tcp, run_rustls and run_fizz return Ok only after every round of every
\* pair has gone there and back.
THEOREM OkMeansEchoedHolds == EchoSpec => []OkMeansEchoed
<1> QED BY EchoInvInit, EchoInvStep, EchoInvEnough, PTL DEF EchoSpec

-----------------------------------------------------------------------------
\* The bounds of a run's state.

Idle == {"none", "dial", "handshake", "write"}

\* A client waits for one batch before it sends the next, so that at most one is
\* under way, and none while the client is not reading.
InFlight(p) ==
    toServer[p] + toClient[p] + (IF serve[p] = "write" THEN 1 ELSE 0)
        <= (IF client[p] \in Idle THEN 0 ELSE 1)

EchoBounds == EchoTypeOK /\ \A p \in Pairs : InFlight(p)

\* A step that leaves p's channels alone, starts no write and ends no wait for an
\* echo keeps the bound on p's messages.
LEMMA InFlightKept ==
    ASSUME NEW p \in Pairs, InFlight(p), toServer[p] \in 0..1, toClient[p] \in 0..1,
           toServer' = toServer, toClient' = toClient,
           client'[p] \in Idle => client[p] \in Idle,
           serve'[p] = "write" => serve[p] = "write"
    PROVE  InFlight(p)'
<1> DEFINE c == IF serve[p] = "write" THEN 1 ELSE 0
           d == IF client[p] \in Idle THEN 0 ELSE 1
           cc == IF serve'[p] = "write" THEN 1 ELSE 0
           dd == IF client'[p] \in Idle THEN 0 ELSE 1
<1>1. c \in 0..1 /\ d \in 0..1 /\ cc \in 0..1 /\ dd \in 0..1 /\ cc <= c /\ d <= dd OBVIOUS
<1>2. toServer[p] + toClient[p] + c <= d BY DEF InFlight
<1> HIDE DEF c, d, cc, dd
<1>3. toServer'[p] + toClient'[p] + cc <= dd BY <1>1, <1>2
<1> QED BY <1>3 DEF InFlight, cc, dd, Idle

\* Before the first run.
LEMMA EchoBoundsInit == EchoInit => EchoBounds
<1> SUFFICES ASSUME EchoInit PROVE EchoBounds OBVIOUS
<1>1. /\ client \in [Pairs -> ClientStates] /\ serve \in [Pairs -> ServeStates]
      /\ cOpen \in [Pairs -> BOOLEAN] /\ sOpen \in [Pairs -> BOOLEAN]
  BY DEF EchoInit, ClientStates, ServeStates
<1>2. /\ crounds \in [Pairs -> 0..Rounds] /\ srounds \in [Pairs -> 0..Rounds]
      /\ toServer \in [Pairs -> 0..1] /\ toClient \in [Pairs -> 0..1] /\ faults \in 0..MaxFaults
  BY EchoRunAssumption DEF EchoInit
<1>3. EchoTypeOK BY <1>1, <1>2 DEF EchoInit, EchoTypeOK
<1>4. \A p \in Pairs : InFlight(p) BY DEF EchoInit, InFlight, Idle
<1> QED BY <1>3, <1>4 DEF EchoBounds

\* What the ends of the connections are after a drop.
LEMMA AfterTypes == \A P : CAfter(P) \in [Pairs -> BOOLEAN] /\ SAfter(P) \in [Pairs -> BOOLEAN]
BY DEF CAfter, SAfter

\* The steps of a pair that move no batch.
LEMMA MovesKeepBounds ==
    ASSUME EchoInv, EchoBounds, NEW p \in active,
           Dial(p) \/ Accept(p) \/ ClientHandshake(p) \/ ServeHandshake(p) \/ ClientSeesEnd(p) \/ ServeSeesEnd(p)
    PROVE  EchoBounds'
<1>0. p \in Pairs BY DEF EchoInv, Types
<1>1. CASE Dial(p)
  <2>1. CASE listening
    <3>1. ClientTo(p, IF Tls THEN "handshake" ELSE FirstWrite) BY <1>1, <2>1 DEF Dial
    <3>2. client' \in [Pairs -> ClientStates] /\ cOpen' \in [Pairs -> BOOLEAN]
      BY <1>0, <3>1 DEF EchoBounds, EchoTypeOK, ClientTo, CAfter, FirstWrite, ClientStates
    <3>3. EchoTypeOK' BY <1>1, <2>1, <3>2 DEF EchoBounds, EchoTypeOK, Dial
    <3>4. \A q \in Pairs : InFlight(q)'
      BY <1>0, <1>1, <3>1 DEF EchoBounds, EchoTypeOK, InFlight, Idle, Dial, ClientTo, FirstWrite
    <3> QED BY <3>3, <3>4 DEF EchoBounds
  <2>2. CASE ~listening
    <3>1. ClientTo(p, "failed") /\ backlog' = backlog BY <1>1, <2>2 DEF Dial
    <3>2. client' \in [Pairs -> ClientStates] /\ cOpen' \in [Pairs -> BOOLEAN]
      BY <1>0, <3>1, AfterTypes DEF EchoBounds, EchoTypeOK, ClientTo, ClientStates
    <3>3. EchoTypeOK' BY <1>1, <3>1, <3>2 DEF EchoBounds, EchoTypeOK, Dial
    <3>4. \A q \in Pairs : InFlight(q)'
      BY <1>0, <1>1, <3>1 DEF EchoBounds, EchoTypeOK, InFlight, Idle, Dial, ClientTo
    <3> QED BY <3>3, <3>4 DEF EchoBounds
  <2> QED BY <2>1, <2>2
<1>2. CASE Accept(p)
  BY <1>0, <1>2, EchoRunAssumption DEF EchoBounds, EchoTypeOK, InFlight, Idle, Accept, ServeTo, SAfter, FirstRead, ServeStates
<1>3. CASE ClientHandshake(p)
  BY <1>0, <1>3, EchoRunAssumption DEF EchoBounds, EchoTypeOK, InFlight, Idle, ClientHandshake, ClientTo, CAfter, FirstWrite, ClientStates, joinVars
<1>4. CASE ServeHandshake(p)
  BY <1>0, <1>4, EchoRunAssumption DEF EchoBounds, EchoTypeOK, InFlight, Idle, ServeHandshake, ServeTo, SAfter, FirstRead, ServeStates, joinVars
<1>5. CASE ClientSeesEnd(p)
  BY <1>0, <1>5, EchoRunAssumption DEF EchoBounds, EchoTypeOK, InFlight, Idle, ClientSeesEnd, ClientTo, CAfter, ClientStates, joinVars
<1>6. CASE ServeSeesEnd(p)
  BY <1>0, <1>6, EchoRunAssumption DEF EchoBounds, EchoTypeOK, InFlight, Idle, ServeSeesEnd, ServeTo, SAfter, ServeStates, joinVars
<1> QED BY <1>1, <1>2, <1>3, <1>4, <1>5, <1>6

\* The steps that move one.
LEMMA BatchesKeepBounds ==
    ASSUME EchoInv, EchoBounds, NEW p \in active,
           ClientWrite(p) \/ ClientRead(p) \/ ServeRead(p) \/ ServeWrite(p)
    PROVE  EchoBounds'
<1>0. p \in Pairs /\ PairOK(p) BY DEF EchoInv, Types
<1>1. CASE ClientWrite(p)
  BY <1>0, <1>1, EchoRunAssumption DEF EchoBounds, EchoTypeOK, InFlight, Idle, ClientWrite, ClientStates, joinVars
<1>2. CASE ClientRead(p)
  BY <1>0, <1>2, EchoRunAssumption DEF EchoBounds, EchoTypeOK, InFlight, Idle, ClientRead, ClientTo, ClientStates, joinVars, PairOK, CountsRounds
<1>3. CASE ServeRead(p)
  BY <1>0, <1>3, EchoRunAssumption DEF EchoBounds, EchoTypeOK, InFlight, Idle, ServeRead, ServeStates, joinVars
<1>4. CASE ServeWrite(p)
  <2>1. /\ serve[p] = "write" /\ toClient' = [toClient EXCEPT ![p] = @ + 1]
        /\ srounds' = [srounds EXCEPT ![p] = @ + 1]
        /\ ServeTo(p, IF srounds[p] + 1 = Rounds THEN "done" ELSE "read")
        /\ UNCHANGED <<backend, active, client, crounds, toServer, cOpen, joinVars, result, faults>>
    BY <1>4 DEF ServeWrite
  <2>2. serve' \in [Pairs -> ServeStates] /\ sOpen' \in [Pairs -> BOOLEAN] /\ serve'[p] # "write"
    BY <1>0, <2>1, AfterTypes DEF EchoBounds, EchoTypeOK, ServeTo, ServeStates
  <2>3. InFlight(p) /\ toServer[p] \in 0..1 /\ toClient[p] \in 0..1 BY <1>0 DEF EchoBounds, EchoTypeOK
  <2>4. client[p] \notin Idle /\ toServer[p] = 0 /\ toClient[p] = 0
    <3> DEFINE s == toServer[p]
               c == toClient[p]
    <3>1. s \in 0..1 /\ c \in 0..1 BY <2>3
    <3>2. s + c + 1 <= (IF client[p] \in Idle THEN 0 ELSE 1) BY <2>1, <2>3 DEF InFlight
    <3> HIDE DEF s, c
    <3>3. ~(s + c + 1 <= 0) BY <3>1
    <3>4. client[p] \notin Idle BY <3>2, <3>3
    <3>5. s + c + 1 <= 1 BY <3>2, <3>4
    <3>6. s = 0 /\ c = 0 BY <3>1, <3>5
    <3> QED BY <3>4, <3>6 DEF s, c
  <2>5. toClient' \in [Pairs -> 0..1] BY <1>0, <2>1, <2>4 DEF EchoBounds, EchoTypeOK
  <2>6. srounds' \in [Pairs -> 0..Rounds]
    <3>1. srounds[p] \in 0..Rounds /\ srounds[p] < Rounds
      BY <1>0, <2>1 DEF EchoBounds, EchoTypeOK, PairOK, CountsRounds
    <3> QED BY <2>1, <3>1, EchoRunAssumption DEF EchoBounds, EchoTypeOK
  <2>7. EchoTypeOK' BY <2>1, <2>2, <2>5, <2>6 DEF EchoBounds, EchoTypeOK, joinVars
  <2>8. InFlight(p)' BY <1>0, <2>1, <2>2, <2>4 DEF EchoBounds, EchoTypeOK, InFlight
  <2>9. ASSUME NEW q \in Pairs \ {p} PROVE InFlight(q)'
    <3>1. /\ client'[q] = client[q] /\ serve'[q] = serve[q]
          /\ toServer'[q] = toServer[q] /\ toClient'[q] = toClient[q]
      BY <2>1 DEF ServeTo, EchoBounds, EchoTypeOK
    <3> QED BY <3>1 DEF EchoBounds, InFlight
  <2> QED BY <2>7, <2>8, <2>9 DEF EchoBounds
<1> QED BY <1>1, <1>2, <1>3, <1>4

\* The failures of one task.
LEMMA FailsKeepBounds ==
    ASSUME EchoInv, EchoBounds, NEW p \in active, ClientFails(p) \/ ServeFails(p) \/ LastEchoLost(p)
    PROVE  EchoBounds'
<1>0. p \in Pairs BY DEF EchoInv, Types
<1>1. CASE ClientFails(p)
  <2>1. client' \in [Pairs -> ClientStates] /\ faults' \in 0..MaxFaults
    BY <1>0, <1>1, EchoRunAssumption DEF EchoBounds, EchoTypeOK, ClientFails, ClientStates
  <2>2. cOpen' \in [Pairs -> BOOLEAN]
    <3>1. cOpen' = CAfter({p}) \/ cOpen' = [cOpen EXCEPT ![p] = FALSE] BY <1>1 DEF ClientFails
    <3>2. [cOpen EXCEPT ![p] = FALSE] \in [Pairs -> BOOLEAN] BY DEF EchoBounds, EchoTypeOK
    <3> QED BY <3>1, <3>2, AfterTypes
  <2>3. EchoTypeOK' BY <1>1, <2>1, <2>2 DEF EchoBounds, EchoTypeOK, ClientFails, joinVars
  <2>4. \A q \in Pairs : InFlight(q)'
    BY <1>0, <1>1 DEF EchoBounds, EchoTypeOK, InFlight, Idle, ClientFails
  <2> QED BY <2>3, <2>4 DEF EchoBounds
<1>2. CASE ServeFails(p)
  <2>1. serve' \in [Pairs -> ServeStates] /\ faults' \in 0..MaxFaults
    BY <1>0, <1>2, EchoRunAssumption DEF EchoBounds, EchoTypeOK, ServeFails, ServeStates
  <2>2. sOpen' \in [Pairs -> BOOLEAN]
    <3>1. sOpen' = SAfter({p}) \/ sOpen' = [sOpen EXCEPT ![p] = FALSE] BY <1>2 DEF ServeFails
    <3>2. [sOpen EXCEPT ![p] = FALSE] \in [Pairs -> BOOLEAN] BY DEF EchoBounds, EchoTypeOK
    <3> QED BY <3>1, <3>2, AfterTypes
  <2>3. EchoTypeOK' BY <1>2, <2>1, <2>2 DEF EchoBounds, EchoTypeOK, ServeFails, joinVars
  <2>4. \A q \in Pairs : InFlight(q)'
    BY <1>0, <1>2 DEF EchoBounds, EchoTypeOK, InFlight, Idle, ServeFails
  <2> QED BY <2>3, <2>4 DEF EchoBounds
<1>3. CASE LastEchoLost(p)
  <2>1. toClient' \in [Pairs -> 0..1] /\ faults' \in 0..MaxFaults
    BY <1>0, <1>3, EchoRunAssumption DEF EchoBounds, EchoTypeOK, LastEchoLost
  <2>2. EchoTypeOK' BY <1>3, <2>1 DEF EchoBounds, EchoTypeOK, LastEchoLost, joinVars
  <2>3. \A q \in Pairs : InFlight(q)'
    BY <1>0, <1>3, EchoRunAssumption DEF EchoBounds, EchoTypeOK, InFlight, Idle, LastEchoLost
  <2> QED BY <2>2, <2>3 DEF EchoBounds
<1> QED BY <1>1, <1>2, <1>3

\* The end of the server task leaves no new batch in a task's hands.
LEMMA ServerEndsTypes ==
    ASSUME EchoBounds, NEW outcome \in {"ok", "err"}, ServerEnds(outcome)
    PROVE  /\ server' \in {"ok", "err"} /\ serve' \in [Pairs -> ServeStates]
           /\ sOpen' \in [Pairs -> BOOLEAN] /\ listening' \in BOOLEAN /\ backlog' = {}
           /\ \A p \in Pairs : serve'[p] = "write" => serve[p] = "write"
<1>1. serve' \in [Pairs -> ServeStates] BY DEF ServerEnds, EchoBounds, EchoTypeOK, ServeStates
<1>2. sOpen' \in [Pairs -> BOOLEAN] BY DEF ServerEnds
<1>3. \A p \in Pairs : serve'[p] = "write" => serve[p] = "write" BY DEF ServerEnds
<1> QED BY <1>1, <1>2, <1>3 DEF ServerEnds

\* So does the end of the clients.
LEMMA ClientsEndTypes ==
    ASSUME EchoBounds, NEW outcome \in {"ok", "err"}, ClientsEnd(outcome)
    PROVE  /\ clients' \in {"ok", "err"} /\ client' \in [Pairs -> ClientStates]
           /\ cOpen' \in [Pairs -> BOOLEAN]
           /\ \A p \in Pairs : client'[p] \in Idle => client[p] \in Idle
<1>1. client' \in [Pairs -> ClientStates] BY DEF ClientsEnd, EchoBounds, EchoTypeOK, ClientStates
<1>2. cOpen' \in [Pairs -> BOOLEAN] BY AfterTypes DEF ClientsEnd
<1>3. \A p \in Pairs : client'[p] \in Idle => client[p] \in Idle BY DEF ClientsEnd, Idle
<1> QED BY <1>1, <1>2, <1>3 DEF ClientsEnd

\* The joins, and a listener that fails.
LEMMA EndsKeepBounds ==
    ASSUME EchoInv, EchoBounds,
           AcceptFails \/ \E p \in active : ServerJoins(p) \/ ClientsJoin(p)
    PROVE  EchoBounds'
<1>1. CASE AcceptFails
  <2>1. ServerEnds("err") /\ faults' \in 0..MaxFaults
    BY <1>1, EchoRunAssumption DEF AcceptFails, EchoBounds, EchoTypeOK
  <2>2. EchoTypeOK' BY <1>1, <2>1, ServerEndsTypes DEF AcceptFails, EchoBounds, EchoTypeOK
  <2>3. \A q \in Pairs : InFlight(q)'
    <3>1. \A q \in Pairs : serve'[q] = "write" => serve[q] = "write" BY <2>1, ServerEndsTypes
    <3>2. UNCHANGED <<client, toServer, toClient>> BY <1>1 DEF AcceptFails
    <3>3. ASSUME NEW q \in Pairs PROVE InFlight(q)'
      <4>1. InFlight(q) /\ toServer[q] \in 0..1 /\ toClient[q] \in 0..1 BY DEF EchoBounds, EchoTypeOK
      <4>2. client' = client /\ toServer' = toServer /\ toClient' = toClient BY <3>2
      <4> QED BY <3>1, <4>1, <4>2, InFlightKept, Zenon
    <3> QED BY <3>3
  <2> QED BY <2>2, <2>3 DEF EchoBounds
<1>2. ASSUME NEW p \in active, ServerJoins(p) PROVE EchoBounds'
  <2>1. \/ \E outcome \in {"ok", "err"} : ServerEnds(outcome)
        \/ UNCHANGED <<server, serve, sOpen, listening, backlog>>
    BY <1>2 DEF ServerJoins
  <2>2. EchoTypeOK' BY <1>2, <2>1, ServerEndsTypes DEF ServerJoins, EchoBounds, EchoTypeOK
  <2>3. \A q \in Pairs : InFlight(q)'
    <3>1. \A q \in Pairs : serve'[q] = "write" => serve[q] = "write" BY <2>1, ServerEndsTypes
    <3>2. UNCHANGED <<client, toServer, toClient>> BY <1>2 DEF ServerJoins
    <3>3. ASSUME NEW q \in Pairs PROVE InFlight(q)'
      <4>1. InFlight(q) /\ toServer[q] \in 0..1 /\ toClient[q] \in 0..1 BY DEF EchoBounds, EchoTypeOK
      <4>2. client' = client /\ toServer' = toServer /\ toClient' = toClient BY <3>2
      <4> QED BY <3>1, <4>1, <4>2, InFlightKept, Zenon
    <3> QED BY <3>3
  <2> QED BY <2>2, <2>3 DEF EchoBounds
<1>3. ASSUME NEW p \in active, ClientsJoin(p) PROVE EchoBounds'
  <2>1. \/ \E outcome \in {"ok", "err"} : ClientsEnd(outcome)
        \/ UNCHANGED <<clients, client, cOpen>>
    BY <1>3 DEF ClientsJoin
  <2>2. EchoTypeOK' BY <1>3, <2>1, ClientsEndTypes DEF ClientsJoin, EchoBounds, EchoTypeOK
  <2>3. \A q \in Pairs : InFlight(q)'
    <3>1. \A q \in Pairs : client'[q] \in Idle => client[q] \in Idle BY <2>1, ClientsEndTypes
    <3>2. UNCHANGED <<serve, toServer, toClient>> BY <1>3 DEF ClientsJoin
    <3>3. ASSUME NEW q \in Pairs PROVE InFlight(q)'
      <4>1. InFlight(q) /\ toServer[q] \in 0..1 /\ toClient[q] \in 0..1 BY DEF EchoBounds, EchoTypeOK
      <4>2. serve' = serve /\ toServer' = toServer /\ toClient' = toClient BY <3>2
      <4> QED BY <3>1, <4>1, <4>2, InFlightKept, Zenon
    <3> QED BY <3>3
  <2> QED BY <2>2, <2>3 DEF EchoBounds
<1> QED BY <1>1, <1>2, <1>3

\* The beginning of a run, and the steps that only set its result.
LEMMA RunKeepsBounds ==
    ASSUME EchoInv, EchoBounds,
           \/ UNCHANGED runVars \/ Return \/ CppBenchReturns \/ CppBenchFails \/ Collect
           \/ \E b \in BackendNames : BindFails(b) \/ \E P \in SUBSET Pairs : StartRun(b, P)
    PROVE  EchoBounds'
<1>1. CASE UNCHANGED runVars \/ Return \/ CppBenchReturns \/ CppBenchFails \/ Collect
  <2>1. UNCHANGED <<backend, active, taskVars, joinVars>>
    BY <1>1 DEF runVars, Return, CppBenchReturns, CppBenchFails, Collect
  <2>2. result' \in {"idle", "none", "ok", "err", "terminated"} /\ faults' \in 0..MaxFaults
    <3>1. CASE CppBenchFails BY <3>1, EchoRunAssumption DEF EchoBounds, EchoTypeOK, CppBenchFails
    <3>2. CASE ~CppBenchFails
      BY <1>1, <3>2 DEF EchoBounds, EchoTypeOK, runVars, Return, Outcome, CppBenchReturns, Collect
    <3> QED BY <3>1, <3>2
  <2> QED BY <2>1, <2>2 DEF EchoBounds, EchoTypeOK, InFlight, taskVars, joinVars
<1>2. ASSUME NEW b \in BackendNames, BindFails(b) PROVE EchoBounds'
  BY <1>2, EchoRunAssumption DEF EchoBounds, EchoTypeOK, InFlight, BindFails, taskVars, joinVars
<1>3. ASSUME NEW b \in BackendNames, NEW P \in SUBSET Pairs, StartRun(b, P) PROVE EchoBounds'
  <2>1. /\ client' \in [Pairs -> ClientStates] /\ serve' \in [Pairs -> ServeStates]
        /\ cOpen' \in [Pairs -> BOOLEAN] /\ sOpen' \in [Pairs -> BOOLEAN]
    BY <1>3 DEF StartRun, ClientStates, ServeStates
  <2>2. /\ crounds' \in [Pairs -> 0..Rounds] /\ srounds' \in [Pairs -> 0..Rounds]
        /\ toServer' \in [Pairs -> 0..1] /\ toClient' \in [Pairs -> 0..1]
    BY <1>3, EchoRunAssumption DEF StartRun
  <2>3. EchoTypeOK' BY <1>3, <2>1, <2>2 DEF StartRun, EchoBounds, EchoTypeOK
  <2>4. \A p \in Pairs : InFlight(p)' BY <1>3 DEF StartRun, InFlight, Idle
  <2> QED BY <2>3, <2>4 DEF EchoBounds
<1> QED BY <1>1, <1>2, <1>3

\* Every step of a run keeps within the bounds.
LEMMA EchoBoundsStep == EchoInv /\ EchoBounds /\ [EchoNext]_runVars => EchoBounds'
<1> SUFFICES ASSUME EchoInv, EchoBounds, [EchoNext]_runVars PROVE EchoBounds' OBVIOUS
<1>1. CASE UNCHANGED runVars BY <1>1, RunKeepsBounds
<1>2. CASE EchoStep
  BY <1>2, MovesKeepBounds, BatchesKeepBounds, EndsKeepBounds, RunKeepsBounds DEF EchoStep
<1>3. CASE EchoFault BY <1>3, FailsKeepBounds, EndsKeepBounds, RunKeepsBounds DEF EchoFault
<1>4. CASE Collect BY <1>4, RunKeepsBounds
<1>5. CASE \E b \in BackendNames : BindFails(b) \/ \E P \in SUBSET Pairs : StartRun(b, P)
  BY <1>5, RunKeepsBounds
<1> QED BY <1>1, <1>2, <1>3, <1>4, <1>5 DEF EchoNext

-----------------------------------------------------------------------------
\* The median.

\* How many members of a sequence come before the one at j when it is sorted:
\* the smaller ones, and of the equal ones those to the left of it.
Before(s, j) == {i \in DOMAIN s : s[i] < s[j] \/ (s[i] = s[j] /\ i < j)}
Rank(s) == [j \in DOMAIN s |-> Cardinality(Before(s, j)) + 1]

\* The domain of a sequence is a finite set of its length.
LEMMA DomainFinite ==
    ASSUME NEW s \in Seq(Nat)
    PROVE  /\ DOMAIN s = 1..Len(s) /\ Len(s) \in Nat /\ IsFiniteSet(DOMAIN s)
           /\ Cardinality(DOMAIN s) = Len(s)
<1>1. DOMAIN s = 1..Len(s) /\ Len(s) \in Nat OBVIOUS
<1>2. IsFiniteSet(1..Len(s)) /\ Cardinality(1..Len(s)) = IF 1 > Len(s) THEN 0 ELSE Len(s) - 1 + 1
  BY <1>1, FS_Interval
<1> QED BY <1>1, <1>2

\* Who comes before whom is a strict order that ranks respect.
LEMMA RankRespects ==
    ASSUME NEW s \in Seq(Nat), NEW i \in DOMAIN s, NEW j \in DOMAIN s, i \in Before(s, j)
    PROVE  Rank(s)[i] < Rank(s)[j]
<1>1. IsFiniteSet(Before(s, i)) /\ IsFiniteSet(Before(s, j))
  BY DomainFinite, FS_Subset DEF Before
<1>2. Before(s, i) \union {i} \in SUBSET Before(s, j) BY DomainFinite DEF Before
<1>3. i \notin Before(s, i) BY DomainFinite DEF Before
<1>4. Cardinality(Before(s, i) \union {i}) = Cardinality(Before(s, i)) + 1 BY <1>1, <1>3, FS_AddElement
<1>5. Cardinality(Before(s, i) \union {i}) <= Cardinality(Before(s, j)) BY <1>1, <1>2, FS_Subset
<1>6. Cardinality(Before(s, i)) \in Nat /\ Cardinality(Before(s, j)) \in Nat BY <1>1, FS_CardinalityType
<1> QED BY <1>4, <1>5, <1>6 DEF Rank

\* The ranks are the positions, each taken once.
LEMMA RankBijection == ASSUME NEW s \in Seq(Nat) PROVE Rank(s) \in Bijection(DOMAIN s, DOMAIN s)
<1>1. ASSUME NEW j \in DOMAIN s PROVE Rank(s)[j] \in DOMAIN s
  <2>1. Before(s, j) \in SUBSET (DOMAIN s) /\ j \notin Before(s, j) BY DomainFinite DEF Before
  <2>2. IsFiniteSet(Before(s, j)) BY <2>1, DomainFinite, FS_Subset
  <2>3. Cardinality(Before(s, j) \union {j}) = Cardinality(Before(s, j)) + 1 BY <2>1, <2>2, FS_AddElement
  <2>4. Cardinality(Before(s, j) \union {j}) <= Len(s)
    <3>1. Before(s, j) \union {j} \in SUBSET (DOMAIN s) BY <2>1
    <3> QED BY <3>1, DomainFinite, FS_Subset
  <2>5. Cardinality(Before(s, j)) \in Nat BY <2>2, FS_CardinalityType
  <2> QED BY <2>3, <2>4, <2>5, DomainFinite DEF Rank
<1>2. ASSUME NEW i \in DOMAIN s, NEW j \in DOMAIN s, Rank(s)[i] = Rank(s)[j] PROVE i = j
  <2>1. Rank(s)[i] \in Int
    <3>1. Rank(s)[i] \in 1..Len(s) BY <1>1, DomainFinite
    <3> QED BY <3>1, DomainFinite
  <2>2. i \notin Before(s, j) /\ j \notin Before(s, i) BY <1>2, <2>1, RankRespects
  <2> QED BY <2>2, DomainFinite DEF Before
<1>3. Rank(s) \in [DOMAIN s -> DOMAIN s] BY <1>1 DEF Rank
<1>4. Rank(s) \in Injection(DOMAIN s, DOMAIN s) BY <1>2, <1>3 DEF Injection, IsInjective
<1>5. Rank(s) \in Surjection(DOMAIN s, DOMAIN s) BY <1>4, DomainFinite, FS_Injection
<1> QED BY <1>4, <1>5 DEF Bijection

\* Every sequence has a sorting order: samples.sort_by returns.
LEMMA OrderSorts ==
    ASSUME NEW s \in Seq(Nat)
    PROVE  /\ Order(s) \in Bijection(DOMAIN s, DOMAIN s)
           /\ \A i, j \in DOMAIN s : i < j => s[Order(s)[i]] <= s[Order(s)[j]]
<1> DEFINE D == DOMAIN s
           f == [k \in D |-> CHOOSE j \in D : Rank(s)[j] = k]
<1>1. Rank(s) \in Bijection(D, D) BY RankBijection
<1>2. ASSUME NEW k \in D PROVE f[k] \in D /\ Rank(s)[f[k]] = k
  <2>1. \E j \in D : Rank(s)[j] = k BY <1>1 DEF Bijection, Surjection
  <2> QED BY <2>1
<1>3. ASSUME NEW j \in D PROVE f[Rank(s)[j]] = j
  <2>1. Rank(s)[j] \in D BY <1>1 DEF Bijection, Surjection
  <2>2. Rank(s)[f[Rank(s)[j]]] = Rank(s)[j] /\ f[Rank(s)[j]] \in D BY <1>2, <2>1
  <2> HIDE DEF f
  <2> QED BY <1>1, <2>2 DEF Bijection, Injection, IsInjective
<1>4. f \in [D -> D] BY <1>2
<1> HIDE DEF f
<1>5. f \in Injection(D, D) BY <1>2, <1>4 DEF Injection, IsInjective
<1>6. f \in Surjection(D, D)
  <2>1. ASSUME NEW j \in D PROVE \E k \in D : f[k] = j
    <3>1. Rank(s)[j] \in D BY <1>1 DEF Bijection, Surjection
    <3> QED BY <1>3, <3>1
  <2> QED BY <1>4, <2>1 DEF Surjection
<1>7. ASSUME NEW i \in D, NEW j \in D, i < j PROVE s[f[i]] <= s[f[j]]
  <2>1. f[i] \in D /\ f[j] \in D /\ Rank(s)[f[i]] = i /\ Rank(s)[f[j]] = j BY <1>2
  <2>2. i \in Int /\ j \in Int BY DomainFinite
  <2>3. f[j] \notin Before(s, f[i]) BY <1>7, <2>1, <2>2, RankRespects
  <2> QED BY <2>1, <2>3, DomainFinite DEF Before
<1>8. \E g \in Bijection(D, D) : \A i, j \in D : i < j => s[g[i]] <= s[g[j]]
  BY <1>5, <1>6, <1>7 DEF Bijection
<1> QED BY <1>8 DEF Order

\* A stretch of the sorted samples is that many samples.
LEMMA Stretch ==
    ASSUME NEW s \in Seq(Nat), NEW a \in Nat, NEW b \in Nat, 1 <= a, a <= b, b <= Len(s),
           NEW T \in SUBSET (DOMAIN s), \A i \in a..b : Order(s)[i] \in T
    PROVE  Cardinality(T) \in Nat /\ Cardinality(T) >= b - a + 1
<1> DEFINE g == [i \in a..b |-> Order(s)[i]]
<1>1. a..b \subseteq DOMAIN s BY DomainFinite
<1>2. Order(s) \in Injection(DOMAIN s, DOMAIN s) BY OrderSorts DEF Bijection
<1>3. g \in [a..b -> T] OBVIOUS
<1>4. \A i, j \in a..b : g[i] = g[j] => i = j BY <1>1, <1>2 DEF Injection, IsInjective
<1>5. DOMAIN g = a..b OBVIOUS
<1> HIDE DEF g
<1>6. g \in Injection(a..b, T) BY <1>3, <1>4, <1>5 DEF Injection, IsInjective
<1>7. IsFiniteSet(T) BY DomainFinite, FS_Subset
<1>8. Cardinality(a..b) <= Cardinality(T) BY <1>6, <1>7, FS_Injection
<1>9. Cardinality(a..b) = b - a + 1 BY FS_Interval
<1> QED BY <1>7, <1>8, <1>9, FS_CardinalityType

\* What Sorted returns.
LEMMA SortedAscends ==
    ASSUME NEW s \in Seq(Nat)
    PROVE  /\ \A i \in DOMAIN s : Sorted(s)[i] \in Nat /\ Sorted(s)[i] = s[Order(s)[i]]
           /\ \A i, j \in DOMAIN s : i <= j => Sorted(s)[i] <= Sorted(s)[j]
<1>1. Order(s) \in [DOMAIN s -> DOMAIN s] BY OrderSorts DEF Bijection, Injection
<1>2. \A i \in DOMAIN s : Sorted(s)[i] = s[Order(s)[i]] BY DEF Sorted
<1>3. \A i \in DOMAIN s : Sorted(s)[i] \in Nat BY <1>1, <1>2
<1>4. ASSUME NEW i \in DOMAIN s, NEW j \in DOMAIN s, i <= j PROVE Sorted(s)[i] <= Sorted(s)[j]
  <2>1. i \in Int /\ j \in Int BY DomainFinite
  <2>2. CASE i = j BY <1>3, <2>2
  <2>3. CASE i < j BY <1>2, <2>3, OrderSorts
  <2> QED BY <1>4, <2>1, <2>2, <2>3
<1> QED BY <1>2, <1>3, <1>4

NoLonger(s, wall) == {j \in DOMAIN s : 2 * s[j] <= wall}
NoShorter(s, wall) == {j \in DOMAIN s : 2 * s[j] >= wall}

\* Twice the middle of the sorted samples, or the sum of the two in the middle.
LEMMA MedianMiddle ==
    ASSUME NEW s \in Seq(Nat), Len(s) > 0
    PROVE  \E lo, hi \in 1..Len(s) :
              /\ MedianMs(s) = Sorted(s)[lo] + Sorted(s)[hi]
              /\ lo <= hi /\ 2 * lo >= Len(s) /\ 2 * (Len(s) - hi + 1) >= Len(s)
<1> DEFINE n == Len(s)
           mid == n \div 2
           ms == Sorted(s)
<1>1. n \in Nat \ {0} /\ n % 2 \in {0, 1} /\ n = 2 * mid + (n % 2) /\ mid \in Nat OBVIOUS
<1>2. CASE n % 2 = 1
  <2>1. mid + 1 \in 1..n /\ 2 * (mid + 1) >= n /\ 2 * (n - (mid + 1) + 1) >= n BY <1>1, <1>2
  <2>2. MedianMs(s) = 2 * ms[mid + 1] BY <1>1, <1>2 DEF MedianMs
  <2>3. ms[mid + 1] \in Nat BY <2>1, SortedAscends, DomainFinite
  <2> HIDE DEF n, mid, ms
  <2>4. MedianMs(s) = ms[mid + 1] + ms[mid + 1] BY <2>2, <2>3
  <2> QED BY <2>1, <2>4 DEF n, ms
<1>3. CASE n % 2 = 0
  <2>1. /\ mid \in 1..n /\ mid + 1 \in 1..n /\ mid <= mid + 1
        /\ 2 * mid >= n /\ 2 * (n - (mid + 1) + 1) >= n
    BY <1>1, <1>3
  <2>2. MedianMs(s) = ms[mid] + ms[mid + 1] BY <1>1, <1>3 DEF MedianMs
  <2> HIDE DEF mid
  <2> QED BY <2>1, <2>2
<1> QED BY <1>1, <1>2, <1>3

\* At least half of the samples took no longer than what median_ms returns, and
\* at least half no less.
LEMMA MedianHalves ==
    ASSUME NEW s \in Seq(Nat), Len(s) > 0
    PROVE  /\ MedianMs(s) \in Nat
           /\ 2 * Cardinality(NoLonger(s, MedianMs(s))) >= Len(s)
           /\ 2 * Cardinality(NoShorter(s, MedianMs(s))) >= Len(s)
<1>0. PICK lo \in 1..Len(s), hi \in 1..Len(s) :
        /\ MedianMs(s) = Sorted(s)[lo] + Sorted(s)[hi]
        /\ lo <= hi /\ 2 * lo >= Len(s) /\ 2 * (Len(s) - hi + 1) >= Len(s)
  BY MedianMiddle
<1> DEFINE m == MedianMs(s)
<1>1. /\ lo \in DOMAIN s /\ hi \in DOMAIN s /\ Len(s) \in Nat /\ DOMAIN s = 1..Len(s)
      /\ Sorted(s)[lo] \in Nat /\ Sorted(s)[hi] \in Nat /\ Sorted(s)[lo] <= Sorted(s)[hi]
  BY <1>0, SortedAscends, DomainFinite
<1>2. /\ m \in Nat /\ 2 * Sorted(s)[lo] <= m /\ m <= 2 * Sorted(s)[hi]
  <2>1. \A a, b \in Nat : a <= b => a + b \in Nat /\ 2 * a <= a + b /\ a + b <= 2 * b OBVIOUS
  <2> QED BY <1>0, <1>1, <2>1
<1> HIDE DEF m
<1>3. \A i \in DOMAIN s : Order(s)[i] \in DOMAIN s /\ s[Order(s)[i]] \in Nat
  BY OrderSorts DEF Bijection, Injection
<1>4. \A i \in 1..lo : Order(s)[i] \in NoLonger(s, m)
  <2> TAKE i \in 1..lo
  <2>1. i \in DOMAIN s /\ i <= lo BY <1>1
  <2>2. s[Order(s)[i]] <= Sorted(s)[lo] BY <1>1, <2>1, SortedAscends
  <2>3. \A a, b \in Nat : a <= b /\ 2 * b <= m => 2 * a <= m BY <1>2
  <2>4. 2 * s[Order(s)[i]] <= m BY <1>1, <1>2, <1>3, <2>1, <2>2, <2>3
  <2> QED BY <1>3, <2>1, <2>4 DEF NoLonger
<1>5. \A i \in hi..Len(s) : Order(s)[i] \in NoShorter(s, m)
  <2> TAKE i \in hi..Len(s)
  <2>1. i \in DOMAIN s /\ hi <= i BY <1>1
  <2>2. Sorted(s)[hi] <= s[Order(s)[i]] BY <1>1, <2>1, SortedAscends
  <2>3. \A a, b \in Nat : a <= b /\ m <= 2 * a => 2 * b >= m BY <1>2
  <2>4. 2 * s[Order(s)[i]] >= m BY <1>1, <1>2, <1>3, <2>1, <2>2, <2>3
  <2> QED BY <1>3, <2>1, <2>4 DEF NoShorter
<1>6. Cardinality(NoLonger(s, m)) \in Nat /\ Cardinality(NoLonger(s, m)) >= lo - 1 + 1
  <2>1. NoLonger(s, m) \in SUBSET (DOMAIN s) BY DEF NoLonger
  <2>2. 1 \in Nat /\ lo \in Nat /\ 1 <= 1 /\ 1 <= lo /\ lo <= Len(s) BY <1>1
  <2> QED BY <1>4, <2>1, <2>2, Stretch
<1>7. Cardinality(NoShorter(s, m)) \in Nat /\ Cardinality(NoShorter(s, m)) >= Len(s) - hi + 1
  <2>1. NoShorter(s, m) \in SUBSET (DOMAIN s) BY DEF NoShorter
  <2>2. hi \in Nat /\ Len(s) \in Nat /\ 1 <= hi /\ hi <= Len(s) /\ Len(s) <= Len(s) BY <1>1
  <2> QED BY <1>5, <2>1, <2>2, Stretch
<1>8. 2 * Cardinality(NoLonger(s, m)) >= Len(s) BY <1>0, <1>1, <1>6
<1>9. 2 * Cardinality(NoShorter(s, m)) >= Len(s) BY <1>0, <1>1, <1>7
<1> QED BY <1>2, <1>8, <1>9 DEF m

\* What the last row printed must satisfy.
LEMMA MedianEnough ==
    ASSUME last \in Row, last.kind = "timed" =>
             last.of # <<>> /\ Len(last.of) = runs /\ last.wall = MedianMs(last.of)
    PROVE  MedianOfAllRuns
<1> SUFFICES ASSUME last.kind = "timed" PROVE MedianOfAllRuns BY DEF MedianOfAllRuns
<1>1. last.of \in Seq(Nat) BY DEF Row
<1>2. Len(last.of) > 0 BY <1>1
<1>3. /\ 2 * Cardinality(NoLonger(last.of, last.wall)) >= Len(last.of)
      /\ 2 * Cardinality(NoShorter(last.of, last.wall)) >= Len(last.of)
  BY <1>1, <1>2, MedianHalves
<1> QED BY <1>3 DEF MedianOfAllRuns, NoLonger, NoShorter

-----------------------------------------------------------------------------
\* The sweep.

SweepTypes ==
    /\ runs \in RunsAsked /\ times \in WallTimes /\ configs \subseteq {"rustls", "fizz"}
    /\ item \in 1..(Len(Sweep) * Len(Backends) + 1)
    /\ warm \in 0..Warmup /\ left \in 0..runs /\ samples \in Seq(Nat)
    /\ rows \in [Items -> Nat] /\ last \in Row

\* An item is still to be run: it exists and its configuration could be built.
Due == item \in Items /\ Needs(BackendOf(item)) \subseteq configs /\ warm + left > 0

\* No timed run is lost or counted twice, a run is only made for an item that is
\* due, and a row with a time has all the samples.
Sampling ==
    /\ Len(samples) + left = runs
    /\ result # "idle" => Due
    /\ last.kind = "timed" => last.of # <<>> /\ Len(last.of) = runs /\ last.wall = MedianMs(last.of)

SweepInv == EchoInv /\ EchoBounds /\ SweepTypes /\ Sampling /\ OneRowEach

\* The two loops visit what the sweep and the backends list.
LEMMA ItemParts ==
    ASSUME NEW i \in Items
    PROVE  PairsOf(i) \in SUBSET Pairs /\ BackendOf(i) \in BackendNames
<1> DEFINE n == Len(Sweep)
           m == Len(Backends)
<1>1. n \in Nat /\ m \in Nat /\ i \in 1..(n * m) BY AblationAssumption DEF Items
<1> HIDE DEF n, m
<1>2. m # 0 BY <1>1
<1>3. ((i - 1) % m) + 1 \in 1..m BY <1>1, <1>2
<1>4. ((i - 1) \div m) + 1 \in 1..n
  <2>1. PICK q \in Int : q = (i - 1) \div m BY <1>1, <1>2
  <2>2. m * q <= i - 1 /\ i - 1 < m * (q + 1) BY <1>1, <1>2, <2>1
  <2>3. q >= 0 BY <1>1, <1>2, <2>2
  <2>4. q < n BY <1>1, <1>2, <2>2
  <2> QED BY <1>1, <2>1, <2>3, <2>4
<1>5. Sweep \in Seq((SUBSET Pairs) \ {{}}) /\ Backends \in Seq(BackendNames) BY AblationAssumption
<1>6. PairsOf(i) \in (SUBSET Pairs) \ {{}} BY <1>4, <1>5 DEF PairsOf, n, m
<1>7. BackendOf(i) \in BackendNames BY <1>3, <1>5 DEF BackendOf, m
<1> QED BY <1>6, <1>7

\* The sweep drives its runs by the rules of a run.
LEMMA SweepMakesRuns == ASSUME [Next]_vars PROVE [EchoNext]_runVars
<1>1. CASE UNCHANGED vars BY <1>1 DEF vars
<1>2. CASE EchoStep \/ EchoFault BY <1>2 DEF EchoNext
<1>3. CASE Skip \/ WarmedUp \/ Timed \/ TimedError \/ Report
  BY <1>3 DEF Skip, WarmedUp, Timed, TimedError, Report, NextItem, EchoNext
<1>4. CASE RunBackend
  BY <1>4, ItemParts DEF RunBackend, RunDue, EchoNext
<1>5. CASE RunCannotBind BY <1>5, ItemParts DEF RunCannotBind, RunDue, EchoNext
<1>6. CASE Ended BY <1>6 DEF Ended, vars
<1> QED BY <1>1, <1>2, <1>3, <1>4, <1>5, <1>6 DEF Next, Progress

\* Before the first item.
LEMMA SweepInvInit == Init => SweepInv
<1> SUFFICES ASSUME Init PROVE SweepInv OBVIOUS
<1>1. EchoInv /\ EchoBounds BY EchoInvInit, EchoBoundsInit DEF Init
<1>2. runs \in Nat /\ Warmup \in Nat BY AblationAssumption DEF Init
<1>3. 1 \in 1..(Len(Sweep) * Len(Backends) + 1)
  <2>1. \A a, b \in Nat : 1 \in 1..(a * b + 1) OBVIOUS
  <2>2. Len(Sweep) \in Nat /\ Len(Backends) \in Nat BY AblationAssumption
  <2> QED BY <2>1, <2>2
<1>4. SweepTypes
  <2>1. warm \in 0..Warmup /\ left \in 0..runs BY <1>2 DEF Init
  <2>2. samples \in Seq(Nat) /\ rows \in [Items -> Nat] BY DEF Init
  <2>3. last \in Row BY DEF Init, Row
  <2> QED BY <1>3, <2>1, <2>2, <2>3, SMTT(30) DEF Init, SweepTypes
<1>5. Sampling BY <1>2, SMTT(30) DEF Init, EchoInit, Sampling
<1>6. OneRowEach
  <2>1. \A i \in Items : i >= item BY DEF Init, Items
  <2> QED BY <2>1 DEF Init, OneRowEach
<1> QED BY <1>1, <1>4, <1>5, <1>6 DEF SweepInv

\* A step of a run does not touch what main holds.
LEMMA RunStepKeeps ==
    ASSUME SweepTypes, Sampling, OneRowEach, UNCHANGED mainVars, result' # "idle" => Due
    PROVE  SweepTypes' /\ Sampling' /\ OneRowEach'
<1>1. SweepTypes' BY DEF SweepTypes, mainVars
<1>2. Sampling' BY DEF Sampling, Due, mainVars
<1>3. OneRowEach' BY DEF OneRowEach, mainVars
<1> QED BY <1>1, <1>2, <1>3

\* The rows that a step to the next item prints.
Prints(printed) ==
    \/ printed = <<>>
    \/ \E row \in Row : /\ printed = <<row>>
                        /\ row.kind = "timed" => /\ row.of # <<>> /\ Len(row.of) = runs
                                                 /\ row.wall = MedianMs(row.of)

\* One row at most, and one exactly unless no run was asked for.
LEMMA NextItemKeeps ==
    ASSUME SweepInv, NEW printed, NextItem(printed), item \in Items, Prints(printed),
           printed = <<>> <=> (runs = 0 /\ Needs(BackendOf(item)) \subseteq configs)
    PROVE  SweepTypes' /\ Sampling' /\ OneRowEach'
<1>1. /\ item' = item + 1 /\ warm' = Warmup /\ left' = runs /\ samples' = <<>> /\ result' = "idle"
      /\ runs' = runs /\ times' = times /\ configs' = configs
      /\ rows' = [rows EXCEPT ![item] = @ + Len(printed)]
      /\ last' = IF printed = <<>> THEN last ELSE Last(printed)
  BY DEF NextItem, Collect
<1>2. runs \in Nat /\ Warmup \in Nat BY AblationAssumption DEF SweepInv, SweepTypes
<1>3. Len(printed) = IF printed = <<>> THEN 0 ELSE 1
  BY DEF Prints
<1>4. rows \in [Items -> Nat] BY DEF SweepInv, SweepTypes
<1>5. rows' \in [Items -> Nat] BY <1>1, <1>3, <1>4
<1>6. /\ last' \in Row
      /\ last'.kind = "timed" => last'.of # <<>> /\ Len(last'.of) = runs /\ last'.wall = MedianMs(last'.of)
  <2>1. CASE printed = <<>> BY <1>1, <2>1 DEF SweepInv, SweepTypes, Sampling
  <2>2. CASE printed # <<>>
    <3>1. PICK row \in Row : /\ printed = <<row>>
                             /\ row.kind = "timed" => /\ row.of # <<>> /\ Len(row.of) = runs
                                                      /\ row.wall = MedianMs(row.of)
      BY <2>2 DEF Prints
    <3>2. last' = row BY <1>1, <2>2, <3>1 DEF Last
    <3> QED BY <3>1, <3>2
  <2> QED BY <2>1, <2>2
<1>7. item' \in 1..(Len(Sweep) * Len(Backends) + 1)
  <2>1. Len(Sweep) * Len(Backends) \in Nat BY AblationAssumption
  <2>2. \A n \in Nat : \A i \in 1..n : i + 1 \in 1..(n + 1) OBVIOUS
  <2> QED BY <1>1, <2>1, <2>2, Zenon DEF Items
<1>8. SweepTypes'
  <2>1. warm' \in 0..Warmup /\ left' \in 0..runs' /\ samples' \in Seq(Nat) BY <1>1, <1>2
  <2>2. runs' \in RunsAsked /\ times' \in WallTimes /\ configs' \subseteq {"rustls", "fizz"}
    BY <1>1 DEF SweepInv, SweepTypes
  <2> QED BY <1>5, <1>6, <1>7, <2>1, <2>2, Zenon DEF SweepTypes
<1>9. Sampling'
  <2>1. Len(samples') + left' = runs' BY <1>1, <1>2
  <2> QED BY <1>1, <1>6, <2>1 DEF Sampling
<1>10. ASSUME NEW i \in Items
       PROVE  rows'[i] = IF i >= item' \/ (runs' = 0 /\ Needs(BackendOf(i)) \subseteq configs') THEN 0 ELSE 1
  <2>1. rows[i] = IF i >= item \/ (runs = 0 /\ Needs(BackendOf(i)) \subseteq configs) THEN 0 ELSE 1
    BY DEF SweepInv, OneRowEach
  <2>2. i \in Int /\ item \in Int
    <3>1. Len(Sweep) * Len(Backends) \in Nat BY AblationAssumption
    <3> QED BY <3>1 DEF Items
  <2>3. CASE i = item BY <1>1, <1>3, <1>4, <2>1, <2>2, <2>3
  <2>4. CASE i # item
    <3>1. rows'[i] = rows[i] BY <1>1, <1>4, <2>4
    <3>2. i >= item' <=> i >= item BY <1>1, <2>2, <2>4
    <3> QED BY <1>1, <2>1, <3>1, <3>2
  <2> QED BY <2>3, <2>4
<1>11. OneRowEach' BY <1>10 DEF OneRowEach
<1> QED BY <1>8, <1>9, <1>11

\* The steps of main that go on to the next item.
LEMMA ItemStepKeeps ==
    ASSUME SweepInv, Skip \/ TimedError \/ Report
    PROVE  SweepTypes' /\ Sampling' /\ OneRowEach'
<1>0. /\ runs \in Nat /\ left \in 0..runs /\ samples \in Seq(Nat) /\ Len(samples) + left = runs
      /\ warm \in Nat
  BY AblationAssumption DEF SweepInv, SweepTypes, Sampling
<1>1. CASE Skip
  <2>1. item \in Items /\ NextItem(<<[kind |-> "skipped"]>>) BY <1>1 DEF Skip
  <2>2. ~(Needs(BackendOf(item)) \subseteq configs) BY <1>1 DEF Skip
  <2>3. Prints(<<[kind |-> "skipped"]>>)
    <3>1. [kind |-> "skipped"] \in Row BY DEF Row
    <3>2. [kind |-> "skipped"].kind # "timed" OBVIOUS
    <3> QED BY <3>1, <3>2 DEF Prints
  <2>4. <<[kind |-> "skipped"]>> # <<>> OBVIOUS
  <2> QED BY <2>1, <2>2, <2>3, <2>4, NextItemKeeps
<1>2. CASE TimedError
  <2>1. NextItem(<<[kind |-> "error"]>>) /\ result = "err" /\ warm = 0 BY <1>2 DEF TimedError
  <2>2. item \in Items /\ runs # 0
    <3>1. Due BY <2>1 DEF SweepInv, Sampling
    <3> QED BY <1>0, <2>1, <3>1 DEF Due
  <2>3. Prints(<<[kind |-> "error"]>>)
    <3>1. [kind |-> "error"] \in Row BY DEF Row
    <3>2. [kind |-> "error"].kind # "timed" OBVIOUS
    <3> QED BY <3>1, <3>2 DEF Prints
  <2>4. <<[kind |-> "error"]>> # <<>> OBVIOUS
  <2> QED BY <2>1, <2>2, <2>3, <2>4, NextItemKeeps
<1>3. CASE Report
  <2> DEFINE row == [kind |-> "timed", of |-> samples, wall |-> MedianMs(samples)]
             printed == IF samples = <<>> THEN <<>> ELSE <<row>>
  <2>1. NextItem(printed) /\ item \in Items /\ Needs(BackendOf(item)) \subseteq configs /\ left = 0
    BY <1>3 DEF Report
  <2>2. Len(samples) = runs BY <1>0, <2>1
  <2>3. samples = <<>> <=> runs = 0 BY <1>0, <2>2
  <2>4. samples # <<>> => MedianMs(samples) \in Nat
    <3>1. samples # <<>> => Len(samples) > 0 BY <1>0
    <3> QED BY <1>0, <3>1, MedianHalves
  <2>5. samples # <<>> => row \in Row BY <1>0, <2>4 DEF Row
  <2>6. row.kind = "timed" /\ row.of = samples /\ row.wall = MedianMs(samples) OBVIOUS
  <2> HIDE DEF row
  <2>7. Prints(printed) BY <2>2, <2>5, <2>6 DEF Prints
  <2>8. printed = <<>> <=> runs = 0 BY <2>3
  <2> HIDE DEF printed
  <2> QED BY <2>1, <2>7, <2>8, NextItemKeeps
<1> QED BY <1>1, <1>2, <1>3

\* The steps of main after a warm-up run and after a timed one.
LEMMA CountedStepKeeps ==
    ASSUME SweepInv, WarmedUp \/ Timed
    PROVE  SweepTypes' /\ Sampling' /\ OneRowEach'
<1>0. /\ runs \in RunsAsked /\ runs \in Nat /\ left \in 0..runs /\ samples \in Seq(Nat)
      /\ Len(samples) + left = runs /\ warm \in 0..Warmup /\ Warmup \in Nat /\ times \in WallTimes
  BY AblationAssumption DEF SweepInv, SweepTypes, Sampling
<1>1. CASE WarmedUp
  <2>1. warm' \in 0..Warmup BY <1>0, <1>1 DEF WarmedUp
  <2>2. result' = "idle" BY <1>1 DEF WarmedUp, Collect
  <2>3. SweepTypes' BY <1>1, <2>1 DEF WarmedUp, SweepInv, SweepTypes
  <2>4. Sampling' BY <1>1, <2>2 DEF WarmedUp, SweepInv, Sampling
  <2>5. OneRowEach' BY <1>1 DEF WarmedUp, SweepInv, OneRowEach
  <2> QED BY <2>3, <2>4, <2>5
<1>2. CASE Timed
  <2>1. left > 0 /\ left' = left - 1 /\ samples' = Append(samples, times[Len(samples) + 1])
    BY <1>2 DEF Timed, RunsLeft
  <2>2. times[Len(samples) + 1] \in Nat
    <3>1. times \in Seq(Nat) /\ runs <= Len(times) BY <1>0, AblationAssumption
    <3>2. Len(samples) + 1 \in 1..Len(times) BY <1>0, <2>1, <3>1
    <3> QED BY <3>1, <3>2
  <2>3. samples' \in Seq(Nat) /\ Len(samples') = Len(samples) + 1 BY <1>0, <2>1, <2>2
  <2>4. left' \in 0..runs /\ Len(samples') + left' = runs BY <1>0, <2>1, <2>3
  <2>5. result' = "idle" BY <1>2 DEF Timed, Collect
  <2>6. SweepTypes' BY <1>2, <2>3, <2>4 DEF Timed, SweepInv, SweepTypes
  <2>7. Sampling' BY <1>2, <2>4, <2>5 DEF Timed, SweepInv, Sampling
  <2>8. OneRowEach' BY <1>2 DEF Timed, SweepInv, OneRowEach
  <2> QED BY <2>6, <2>7, <2>8
<1> QED BY <1>1, <1>2

\* A run makes its steps only while it goes on.
LEMMA EchoStepRuns == EchoStep \/ EchoFault => Running
BY DEF EchoStep, EchoFault, Dial, Accept, ClientHandshake, ServeHandshake, ClientWrite, ClientRead,
       ServeRead, ServeWrite, ClientSeesEnd, ServeSeesEnd, ServerJoins, ClientsJoin, Return,
       CppBenchReturns, CppBenchFails, AcceptFails, ClientFails, ServeFails, LastEchoLost

\* Every step of the sweep preserves the invariant.
LEMMA SweepInvStep == SweepInv /\ [Next]_vars => SweepInv'
<1> SUFFICES ASSUME SweepInv, [Next]_vars PROVE SweepInv' OBVIOUS
<1>0. SweepTypes /\ Sampling /\ OneRowEach BY DEF SweepInv
<1>1. EchoInv' /\ EchoBounds' BY SweepMakesRuns, EchoInvStep, EchoBoundsStep DEF SweepInv
<1>2. SweepTypes' /\ Sampling' /\ OneRowEach'
  <2>1. CASE UNCHANGED vars
    <3>1. UNCHANGED mainVars /\ result' = result BY <2>1 DEF vars, runVars
    <3>2. result # "idle" => Due BY <1>0 DEF Sampling
    <3> QED BY <1>0, <3>1, <3>2, RunStepKeeps
  <2>2. CASE (EchoStep \/ EchoFault) /\ UNCHANGED mainVars
    <3>1. result # "idle" BY <2>2, EchoStepRuns DEF Running
    <3>2. Due BY <1>0, <3>1 DEF Sampling
    <3> QED BY <1>0, <2>2, <3>2, RunStepKeeps
  <2>3. CASE RunBackend \/ RunCannotBind
    <3>1. Due /\ UNCHANGED mainVars BY <2>3 DEF RunBackend, RunCannotBind, RunDue, Due
    <3> QED BY <1>0, <3>1, RunStepKeeps
  <2>4. CASE Skip \/ TimedError \/ Report BY <2>4, ItemStepKeeps
  <2>5. CASE WarmedUp \/ Timed BY <2>5, CountedStepKeeps
  <2>6. CASE Ended BY <2>1, <2>6 DEF Ended
  <2> QED BY <2>1, <2>2, <2>3, <2>4, <2>5, <2>6 DEF Next, Progress
<1> QED BY <1>1, <1>2 DEF SweepInv

-----------------------------------------------------------------------------
\* main calls run_backend by the rules of a run, one call after the other: the
\* sweep implements EchoRun.
THEOREM SweepImplementsRuns == Spec => EchoSpec
<1>1. Init => EchoInit BY DEF Init
<1>2. [Next]_vars => [EchoNext]_runVars BY SweepMakesRuns
<1> QED BY <1>1, <1>2, PTL DEF Spec, EchoSpec

\* The inductive invariant of the sweep.
THEOREM SweepInvHolds == Spec => []SweepInv
BY SweepInvInit, SweepInvStep, PTL DEF Spec

\* The counters of a run and of main stay in their ranges: at most one batch is
\* under way for a pair, and no more samples are taken than runs were asked for.
THEOREM SweepTypesHold == Spec => []TypeOK
<1>1. SweepInv => TypeOK
  <2> SUFFICES ASSUME SweepInv PROVE TypeOK OBVIOUS
  <2>1. Len(samples) + left <= runs
    <3>1. runs \in Nat /\ Len(samples) + left = runs
      BY AblationAssumption DEF SweepInv, SweepTypes, Sampling
    <3> QED BY <3>1
  <2> QED BY <2>1 DEF SweepInv, EchoBounds, SweepTypes, TypeOK
<1> QED BY <1>1, SweepInvHolds, PTL

\* In the sweep too, run_backend returns Ok only after everything was echoed.
THEOREM SweepOkMeansEchoed == Spec => []OkMeansEchoed
BY SweepImplementsRuns, OkMeansEchoedHolds, PTL

\* Every (N, backend) main has passed has exactly one row, unless no timed run
\* was asked for, whichever of its runs failed.
THEOREM OneRowEachHolds == Spec => []OneRowEach
<1>1. SweepInv => OneRowEach BY DEF SweepInv
<1> QED BY <1>1, SweepInvHolds, PTL

\* What median_ms prints is a median of all the runs that were asked for, for
\* every sequence of wall times.
THEOREM MedianOfAllRunsHolds == Spec => []MedianOfAllRuns
<1>1. SweepInv => MedianOfAllRuns BY MedianEnough DEF SweepInv, SweepTypes, Sampling
<1> QED BY <1>1, SweepInvHolds, PTL
=============================================================================
