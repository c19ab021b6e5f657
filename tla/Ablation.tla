------------------------------ MODULE Ablation ------------------------------
(***************************************************************************)
(* main of crates/tls_bench_ablation/src/main.rs: for each N of the sweep  *)
(* and each backend, warm-up runs, timed runs, and one row of the CSV.     *)
(***************************************************************************)
EXTENDS EchoRun, SequencesExt

CONSTANTS
    Sweep,      \* --pairs-sweep, a sequence of sets of pairs
    Backends,   \* the backends to run, a sequence
    Warmup,     \* --warmup
    RunsAsked,  \* the values of --runs
    WallTimes   \* what the timed runs of an item may take, one after the other

\* main raises every N to at least one pair.
ASSUME AblationAssumption ==
    /\ Sweep \in Seq((SUBSET Pairs) \ {{}}) /\ Backends \in Seq(BackendNames)
    /\ Warmup \in Nat /\ RunsAsked \subseteq Nat
    /\ WallTimes \subseteq Seq(Nat) /\ \A t \in WallTimes, n \in RunsAsked : n <= Len(t)

VARIABLES
    runs,       \* --runs
    times,      \* member of WallTimes
    configs,    \* the backends whose configuration could be built
    item,       \* the (N, backend) in progress, counted from 1
    warm,       \* warm-up runs left
    left,       \* timed runs left
    samples,    \* wall times of this item
    rows,       \* how many rows were printed for each item
    last        \* the last row

mainVars == <<runs, times, configs, item, warm, left, samples, rows, last>>
vars == <<runVars, mainVars>>

Items == 1..(Len(Sweep) * Len(Backends))
PairsOf(i) == Sweep[((i - 1) \div Len(Backends)) + 1]
BackendOf(i) == Backends[((i - 1) % Len(Backends)) + 1]

Row == [kind : {"skipped", "error"}] \union [kind : {"timed"}, of : Seq(Nat), wall : Nat]

TypeOK ==
    /\ EchoTypeOK
    /\ runs \in RunsAsked /\ times \in WallTimes /\ configs \subseteq {"rustls", "fizz"}
    /\ item \in 1..(Len(Sweep) * Len(Backends) + 1)
    /\ warm \in 0..Warmup /\ left \in 0..runs /\ samples \in Seq(Nat)
    /\ Len(samples) + left <= runs
    /\ rows \in [Items -> Nat] /\ last \in Row

Init ==
    /\ EchoInit
    /\ runs \in RunsAsked /\ times \in WallTimes /\ configs \in SUBSET {"rustls", "fizz"}
    /\ item = 1 /\ warm = Warmup /\ left = runs /\ samples = <<>>
    /\ rows = [i \in Items |-> 0] /\ last = [kind |-> "skipped"]

-----------------------------------------------------------------------------
\* A mutated form: the samples are not sorted.
UnsortedMedian(s) ==
    LET mid == Len(s) \div 2
    IN  CASE Len(s) = 0 -> 0
          [] Len(s) % 2 = 1 -> 2 * s[mid + 1]
          [] OTHER -> s[mid] + s[mid + 1]

\* ms.sort_by(f64::total_cmp): the samples in ascending order.
Order(s) ==
    CHOOSE f \in Bijection(DOMAIN s, DOMAIN s) : \A i, j \in DOMAIN s : i < j => s[f[i]] <= s[f[j]]
Sorted(s) == [i \in DOMAIN s |-> s[Order(s)[i]]]

\* The middle sample, or the mean of the middle two.  The result is twice the
\* median, to stay in the integers.
MedianMs(s) ==
    LET ms == Sorted(s)
        mid == Len(s) \div 2
    IN  CASE Len(s) = 0 -> 0
          [] Len(s) % 2 = 1 -> 2 * ms[mid + 1]
          [] OTHER -> ms[mid] + ms[mid + 1]

Needs(b) == CASE b = "rustls" -> {"rustls"} [] b \in {"fizz", "fizz_cpp"} -> {"fizz"} [] OTHER -> {}

\* The loop goes on to the next backend or the next N.
NextItem(printed) ==
    /\ item' = item + 1 /\ warm' = Warmup /\ left' = runs /\ samples' = <<>>
    /\ rows' = [rows EXCEPT ![item] = @ + Len(printed)]
    /\ last' = IF printed = <<>> THEN last ELSE Last(printed)
    /\ Collect
    /\ UNCHANGED <<runs, times, configs>>

\* A configuration that could not be built is reported in a row of its own.
Skip ==
    /\ item \in Items /\ result = "idle" /\ ~(Needs(BackendOf(item)) \subseteq configs)
    /\ NextItem(<<[kind |-> "skipped"]>>)

\* run_backend, for a warm-up or a timed run.
RunDue ==
    item \in Items /\ result = "idle" /\ Needs(BackendOf(item)) \subseteq configs /\ warm + left > 0

RunBackend == RunDue /\ StartRun(BackendOf(item), PairsOf(item)) /\ UNCHANGED mainVars

RunCannotBind == RunDue /\ BindFails(BackendOf(item)) /\ UNCHANGED mainVars

\* let _ = run_backend(...)
WarmedUp ==
    /\ result \in {"ok", "err"} /\ warm > 0
    /\ warm' = warm - 1 /\ Collect
    /\ UNCHANGED <<runs, times, configs, item, left, samples, rows, last>>

\* A mutated form: the loop does not count.
RunsKept(n) == n

\* for _ in 0..runs
RunsLeft(n) == n - 1

\* Ok(()) => samples.push(t0.elapsed())
Timed ==
    /\ result = "ok" /\ warm = 0 /\ left > 0
    /\ samples' = Append(samples, times[Len(samples) + 1])
    /\ left' = RunsLeft(left) /\ Collect
    /\ UNCHANGED <<runs, times, configs, item, warm, rows, last>>

\* A mutated form: an error leaves the samples taken before it, which then make
\* a second row.
ErrorKeepsSamples ==
    /\ result = "err" /\ warm = 0
    /\ NextItem(<<[kind |-> "error"]>> \o
                (IF samples = <<>> THEN <<>>
                 ELSE <<[kind |-> "timed", of |-> samples, wall |-> MedianMs(samples)]>>))

\* Err(e): a row with the error; samples.clear(); break.
TimedError ==
    /\ result = "err" /\ warm = 0
    /\ NextItem(<<[kind |-> "error"]>>)

\* All runs made: no row without samples, else the median.
Report ==
    /\ item \in Items /\ result = "idle" /\ Needs(BackendOf(item)) \subseteq configs
    /\ warm = 0 /\ left = 0
    /\ NextItem(IF samples = <<>> THEN <<>>
                ELSE <<[kind |-> "timed", of |-> samples, wall |-> MedianMs(samples)]>>)

Ended == item \notin Items /\ UNCHANGED vars

Progress ==
    \/ EchoStep /\ UNCHANGED mainVars
    \/ Skip \/ RunBackend \/ WarmedUp \/ Timed \/ TimedError \/ Report

Next ==
    \/ Progress
    \/ EchoFault /\ UNCHANGED mainVars
    \/ RunCannotBind
    \/ Ended

Spec == Init /\ [][Next]_vars

\* The tasks of both runtimes, on N workers each, and the main thread run.
FairSpec == Spec /\ WF_vars(Progress)

-----------------------------------------------------------------------------
\* Every (N, backend) the sweep has passed has exactly one row, unless no timed
\* run was asked for; an error leaves no timed row behind it.
OneRowEach ==
    \A i \in Items :
        rows[i] = IF i >= item \/ (runs = 0 /\ Needs(BackendOf(i)) \subseteq configs) THEN 0 ELSE 1

\* The time printed is a median of as many runs as were asked for: at least half
\* of them took no longer, at least half no less.
MedianOfAllRuns ==
    last.kind = "timed" =>
        LET Half(P(_)) == 2 * Cardinality({j \in DOMAIN last.of : P(2 * last.of[j])}) >= Len(last.of)
        IN  /\ Len(last.of) = runs
            /\ Half(LAMBDA d : d <= last.wall) /\ Half(LAMBDA d : d >= last.wall)

\* If no call fails and no echo is lost, every run of every backend returns and
\* the sweep ends.
SweepEnds == <>(faults > 0 \/ item \notin Items)

\* "emits one CSV row per (backend, N)": refuted.  A client that fails before it
\* has connected leaves the server task in accept(), and main waits for that
\* task before it looks at the client's error.
RowForEach == <>(\A i \in Items : rows[i] = 1)
=============================================================================
