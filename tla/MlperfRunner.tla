---------------------------- MODULE MlperfRunner ----------------------------
(***************************************************************************)
(* The MLPerf LLaMA-3.1-8B runner of kcloud-mlperf (run.py), invoked one  *)
(* after another on one --results-dir.  An invocation validates its       *)
(* arguments, names its run directory by timestamp, purges the earlier    *)
(* run directories (unless --keep-all), runs accuracy and/or the          *)
(* performance scenario, writes its report and refreshes index.md.  The   *)
(* Offline scenario records its throughput in meta.json; the Server       *)
(* scenario's "auto" target QPS is derived from it, and Server issues its *)
(* prompts through a rate-limited loop.  An invocation may die at any     *)
(* step (an uncaught exception from vLLM or the dataset, an OOM kill, an  *)
(* interrupt): nothing in run.py catches those.  mmlu.py, run between    *)
(* them with its default --results-dir ./results/mmlu, keeps its runs in  *)
(* a subdirectory of run.py's default results directory.                  *)
(*                                                                         *)
(* Rates and throughputs are exact rationals <<num, den>>.  Within one    *)
(* Server loop, time is counted in ticks of 1/a seconds, where a/b is the *)
(* target QPS, so the issue interval 1/target_qps is exactly b ticks.     *)
(* Latencies are whole seconds from a small set.  Prompts, predictions,   *)
(* ROUGE scores, plots, config.json and the latest symlink are left out.  *)
(***************************************************************************)
EXTENDS Integers, Sequences, FiniteSets, FiniteSetsExt, Functions

CONSTANTS
    MaxRuns,          \* invocations of run.py in one behaviour
    MaxPrompts,       \* largest number of samples (choose_total_count)
    Modes,            \* subset of {"accuracy", "performance", "both"}
    KeepAllArgs,      \* values of --keep-all, as booleans
    GateArgs,         \* values of --disable-accuracy-gate, as booleans
    NoExitArgs,       \* values of --no-exit-on-accuracy-fail, as booleans
    QpsArgs,          \* values of --server-target-qps (see QpsArg)
    Latencies,        \* per-request latencies, in seconds
    OfflineTokens,    \* total new tokens of an Offline generation
    OfflineDurations, \* seconds an Offline generation takes
    MaxNewTokens      \* --max-new-tokens

VARIABLES
    nextId,      \* the timestamp the next invocation's run_id gets
    inv,         \* the invocation in progress
    dirs,        \* directories under results_dir
    reported,    \* run directories that hold report.md
    index,       \* the runs index.md links to
    meta,        \* results_dir/meta.json
    srv,         \* the Server loop's locals
    perfLog,     \* Performance/mlperf_log_summary.txt of the current run
    lastOffline, \* history: the Offline measurement meta.json last received
    mmluRuns     \* MMLU runs whose results were written under results/mmlu

vars == <<nextId, inv, dirs, reported, index, meta, srv, perfLog, lastOffline,
          mmluRuns>>

\* Timestamps; run.py names its run directory after its own.
RunIds == 1..MaxRuns

\* The directory mmlu.py's default --results-dir makes inside run.py's.
MmluDir == 0

\* purge_old_runs' r"^\d{8}-\d{6}($|-.+)$": every run.py run directory
\* matches, "mmlu" does not.
TimestampNamed(d) == d # MmluDir

\* main's argparse choices and the category/scenario check (exit 2).
Categories == {"datacenter", "edge"}
Scenarios == {"offline", "server", "singlestream"}
ValidScenario(cat, scen) ==
    \/ cat = "datacenter" /\ scen \in {"offline", "server"}
    \/ cat = "edge" /\ scen \in {"offline", "singlestream"}

\* --server-target-qps is a string: "auto", a number, or unparsable text.
QpsArg == [kind : {"auto", "bad"}] \cup [kind : {"num"}, val : Nat]

(* Rationals. *)
Rat == Nat \X (Nat \ {0})
RatLess(x, y) == x[1] * y[2] < y[1] * x[2]
RatMax(x, y) == IF RatLess(x, y) THEN y ELSE x
RatEq(x, y) == x[1] * y[2] = y[1] * x[2]
Zero == <<0, 1>>

\* json.load of a missing or malformed meta.json gives {}; a missing key
\* reads as None and fails the > 0 tests, exactly as a zero does.
EmptyMeta == [tps |-> Zero, avg |-> Zero]

NoInv == [pc |-> "idle"]

NoSrv == [i |-> 0, now |-> 0, next |-> 0, prevIssue |-> 0, lastIssue |-> 0,
          lats |-> <<>>]

NoOffline == [some |-> FALSE, tokens |-> 0, dur |-> 0, count |-> 0]

NoLog == [scen |-> "none", lats |-> <<>>]

(***************************************************************************)
(* Pure helpers of run.py.                                                 *)
(***************************************************************************)

\* auto_server_qps: 0.8 * tokens/sec / avg tokens per request, at least
\* 0.05; 0.5 when no positive tokens/sec was recorded.
AutoServerQps(m) ==
    IF m.tps[1] > 0
    THEN LET denom == IF m.avg[1] > 0 THEN m.avg ELSE <<Max({1, MaxNewTokens}), 1>>
         IN  RatMax(<<1, 20>>, <<8 * m.tps[1] * denom[2], 10 * m.tps[2] * denom[1]>>)
    ELSE <<1, 2>>

\* Mutant: a numeric --server-target-qps taken as given, without the 0.1
\* floor.
TargetQpsNoFloor(arg, m) ==
    CASE arg.kind = "auto" -> AutoServerQps(m)
      [] arg.kind = "num"  -> <<arg.val, 1>>
      [] arg.kind = "bad"  -> <<1, 2>>

\* run_performance_server's target_qps.
TargetQps(arg, m) ==
    CASE arg.kind = "auto" -> AutoServerQps(m)
      [] arg.kind = "num"  -> RatMax(<<1, 10>>, <<arg.val, 1>>)
      [] arg.kind = "bad"  -> <<1, 2>>

\* Mutant: the average is stored under a key auto_server_qps does not read.
OfflineMetaAvgKeyMismatch(m, tokens, dur, count) ==
    [m EXCEPT !.tps = IF dur > 0 THEN <<tokens, dur>> ELSE Zero]

\* The fields run_performance_offline sets in meta.json.
OfflineMeta(m, tokens, dur, count) ==
    [m EXCEPT !.tps = IF dur > 0 THEN <<tokens, dur>> ELSE Zero,
              !.avg = IF count > 0 THEN <<tokens, count>> ELSE Zero]

\* Mutant: next_issue_time advanced by the interval alone, so the loop
\* catches up after a slow request.
NextIssueTimeCatchUp(next, interval, end) == next + interval

\* purge_old_runs(results_dir, keep_all, keep_name) on the directories ds.
PurgeOldRuns(ds, keepAll, keepName) ==
    IF keepAll THEN ds
    ELSE {d \in ds : d = keepName \/ ~TimestampNamed(d)}

\* report.update_results_index: one entry per directory but "latest".
ResultsIndexEntries(ds) == ds

\* next_issue_time after a request that ended at tick `end`.
NextIssueTime(next, interval, end) == Max({next + interval, end})

\* Python's sorted() on a list of numbers.
RECURSIVE InsertSorted(_, _)
InsertSorted(x, s) ==
    IF s = <<>> \/ x <= Head(s) THEN <<x>> \o s
    ELSE <<Head(s)>> \o InsertSorted(x, Tail(s))

RECURSIVE Sorted(_)
Sorted(s) == IF s = <<>> THEN <<>> ELSE InsertSorted(Head(s), Sorted(Tail(s)))

\* Mutant: no special case for an integral k.
PercentileNoExactBranch(values, pp) ==
    IF values = <<>> THEN 0
    ELSE LET s == Sorted(values)
             k == (Len(s) - 1) * pp
             f == k \div 100
             c == IF k % 100 = 0 THEN f ELSE f + 1
         IN  s[f + 1] * (100 * c - k) + s[c + 1] * (k - 100 * f)

\* percentile(values, pp / 100), times 100: linear interpolation between
\* values_sorted[floor k] and values_sorted[ceil k], k = (n - 1) * p.
Percentile(values, pp) ==
    IF values = <<>> THEN 0
    ELSE LET s == Sorted(values)
             k == (Len(s) - 1) * pp
             f == k \div 100
             c == IF k % 100 = 0 THEN f ELSE f + 1
         IN  IF f = c THEN 100 * s[f + 1]
             ELSE s[f + 1] * (100 * c - k) + s[c + 1] * (k - 100 * f)

\* The percentiles write_performance_logs and the run outcome report.
ReportedPercentiles == {50, 90, 95, 99}

(***************************************************************************)
(* State.                                                                  *)
(***************************************************************************)

\* What an invocation carries from its arguments, its counts and the
\* measurement of its Offline generation.  Arguments nothing reads in the
\* chosen mode or scenario are fixed to one value.
Inv == [pc : {"accuracy", "perf", "meta", "serving", "report"},
        id : RunIds, mode : Modes, scen : Scenarios, noGate : BOOLEAN,
        noExit : BOOLEAN, qpsArg : QpsArg, n : 1..MaxPrompts, qps : Rat,
        tokens : Nat, dur : Nat]

TypeOK ==
    /\ nextId \in 1..MaxRuns + 1
    /\ inv \in Inv \cup {NoInv}
    \* 1.0 / target_qps is defined: the Server loop never runs at rate 0.
    /\ inv.pc = "serving" => inv.qps[1] > 0
    /\ dirs \subseteq RunIds \cup {MmluDir}
    /\ reported \subseteq dirs
    /\ index \subseteq RunIds \cup {MmluDir}
    /\ meta \in [tps : Rat, avg : Rat]
    /\ srv \in [i : Nat, now : Nat, next : Nat, prevIssue : Nat,
                lastIssue : Nat, lats : Seq(Latencies)]
    /\ perfLog \in [scen : Scenarios \cup {"none"}, lats : Seq(Latencies)]
    /\ lastOffline \in [some : BOOLEAN, tokens : Nat, dur : Nat, count : Nat]
    /\ mmluRuns \subseteq RunIds

Init ==
    /\ nextId = 1
    /\ inv = NoInv
    /\ dirs = {}
    /\ reported = {}
    /\ index = {}
    /\ meta = EmptyMeta
    /\ srv = NoSrv
    /\ perfLog = NoLog
    /\ lastOffline = NoOffline
    /\ mmluRuns = {}

(***************************************************************************)
(* main: validate, name the run, purge, then dispatch on --mode.          *)
(***************************************************************************)

Start ==
    /\ inv.pc = "idle"
    /\ nextId <= MaxRuns
    /\ \E cat \in Categories, scen \in Scenarios, mode \in Modes,
          keep \in KeepAllArgs, n \in 1..MaxPrompts :
         /\ ValidScenario(cat, scen)
         /\ \E noGate \in IF mode = "performance" THEN {FALSE} ELSE GateArgs,
               noExit \in IF mode = "accuracy" THEN NoExitArgs ELSE {FALSE},
               q \in IF scen = "server" THEN QpsArgs ELSE {[kind |-> "auto"]} :
              inv' = [pc |-> IF mode = "performance" THEN "perf" ELSE "accuracy",
                      id |-> nextId, mode |-> mode, scen |-> scen,
                      noGate |-> noGate, noExit |-> noExit, qpsArg |-> q,
                      n |-> n, qps |-> Zero, tokens |-> 0, dur |-> 0]
         \* ensure_dir(run_dir), then purge_old_runs(keep_name=run_id).
         /\ dirs' = PurgeOldRuns(dirs \cup {nextId}, keep, nextId)
    /\ reported' = reported \cap dirs'
    /\ nextId' = nextId + 1
    /\ srv' = NoSrv
    /\ perfLog' = NoLog
    /\ UNCHANGED <<index, meta, lastOffline, mmluRuns>>

\* run_accuracy's ROUGE-Lsum gate; --disable-accuracy-gate passes it.
GateOutcomes == IF inv.noGate THEN {TRUE} ELSE BOOLEAN

\* --mode accuracy: the report is written whether or not the gate passed;
\* a failed gate exits 1 before update_results_index unless
\* --no-exit-on-accuracy-fail.
AccuracyMode ==
    /\ inv.pc = "accuracy"
    /\ inv.mode = "accuracy"
    /\ \E passed \in GateOutcomes :
         \/ /\ ~passed /\ ~inv.noExit
            /\ UNCHANGED index
         \/ /\ passed \/ inv.noExit
            /\ index' = ResultsIndexEntries(dirs)
    /\ reported' = reported \cup {inv.id}
    /\ inv' = NoInv
    /\ UNCHANGED <<nextId, dirs, meta, srv, perfLog, lastOffline, mmluRuns>>

\* --mode both: the accuracy outcome is reported, never gated.
AccuracyThenPerformance ==
    /\ inv.pc = "accuracy"
    /\ inv.mode = "both"
    /\ inv' = [inv EXCEPT !.pc = "perf"]
    /\ UNCHANGED <<nextId, dirs, reported, index, meta, srv, perfLog, lastOffline, mmluRuns>>

(***************************************************************************)
(* Performance scenarios.                                                  *)
(***************************************************************************)

\* run_performance_offline up to write_performance_logs: one vLLM
\* generation of n prompts, `tokens` new tokens in `dur` seconds.
OfflineGenerate ==
    /\ inv.pc = "perf"
    /\ inv.scen = "offline"
    /\ \E tokens \in OfflineTokens, dur \in OfflineDurations :
         inv' = [inv EXCEPT !.pc = "meta", !.tokens = tokens, !.dur = dur]
    /\ perfLog' = [scen |-> "offline", lats |-> <<>>]
    /\ UNCHANGED <<nextId, dirs, reported, index, meta, srv, lastOffline, mmluRuns>>

\* read_meta / write_meta of results_dir/meta.json, one sample count per
\* prompt.
WriteOfflineMeta ==
    /\ inv.pc = "meta"
    /\ meta' = OfflineMeta(meta, inv.tokens, inv.dur, inv.n)
    /\ lastOffline' = [some |-> TRUE, tokens |-> inv.tokens,
                       dur |-> inv.dur, count |-> inv.n]
    /\ inv' = [inv EXCEPT !.pc = "report"]
    /\ UNCHANGED <<nextId, dirs, reported, index, srv, perfLog, mmluRuns>>

\* run_performance_server before its loop: target_qps from the argument or,
\* for "auto", from meta.json as it is now.
ServerStart ==
    /\ inv.pc = "perf"
    /\ inv.scen = "server"
    /\ inv' = [inv EXCEPT !.pc = "serving", !.qps = TargetQps(inv.qpsArg, meta)]
    /\ srv' = NoSrv
    /\ UNCHANGED <<nextId, dirs, reported, index, meta, perfLog, lastOffline, mmluRuns>>

\* One iteration of the rate-limited loop: sleep until next_issue_time,
\* generate (in one pass, or in the TTFT and TPOT passes of
\* --extra-metrics, whose latencies add up), then move next_issue_time on.
\* With target QPS a/b a tick is 1/a s: the interval is b ticks and a
\* latency of d s is a * d ticks.
ServerRequest ==
    /\ inv.pc = "serving"
    /\ srv.i < inv.n
    /\ \E d \in Latencies :
         LET issue == Max({srv.now, srv.next})
             end   == issue + inv.qps[1] * d
         IN  srv' = [i |-> srv.i + 1, now |-> end,
                     next |-> NextIssueTime(srv.next, inv.qps[2], end),
                     prevIssue |-> srv.lastIssue, lastIssue |-> issue,
                     lats |-> Append(srv.lats, d)]
    /\ UNCHANGED <<nextId, inv, dirs, reported, index, meta, perfLog, lastOffline, mmluRuns>>

\* After the loop: write_performance_logs with the measured latencies.
ServerDone ==
    /\ inv.pc = "serving"
    /\ srv.i = inv.n
    /\ perfLog' = [scen |-> "server", lats |-> srv.lats]
    /\ inv' = [inv EXCEPT !.pc = "report"]
    /\ srv' = NoSrv
    /\ UNCHANGED <<nextId, dirs, reported, index, meta, lastOffline, mmluRuns>>

\* run_performance_singlestream: the prompts one after another, unpaced.
SingleStream ==
    /\ inv.pc = "perf"
    /\ inv.scen = "singlestream"
    /\ \E lats \in [1..inv.n -> Latencies] :
         perfLog' = [scen |-> "singlestream", lats |-> lats]
    /\ inv' = [inv EXCEPT !.pc = "report"]
    /\ UNCHANGED <<nextId, dirs, reported, index, meta, srv, lastOffline, mmluRuns>>

\* build_and_write_report, then update_results_index, which lists every
\* directory of results_dir but "latest".
Report ==
    /\ inv.pc = "report"
    /\ reported' = reported \cup {inv.id}
    /\ index' = ResultsIndexEntries(dirs)
    /\ inv' = NoInv
    /\ UNCHANGED <<nextId, dirs, meta, srv, perfLog, lastOffline, mmluRuns>>

\* The process dies.  write_json_file opens meta.json with "w", truncating
\* it, before json.dump writes it: dying in between leaves a file read_meta
\* reads as {}.
Crash ==
    /\ inv.pc # "idle"
    /\ inv' = NoInv
    /\ srv' = NoSrv
    /\ \/ UNCHANGED <<meta, lastOffline>>
       \/ /\ inv.pc = "meta"
          /\ meta' = EmptyMeta
          /\ lastOffline' = NoOffline
    /\ UNCHANGED <<nextId, dirs, reported, index, perfLog, mmluRuns>>

\* mmlu.py's main, between two run.py invocations: it makes
\* results/mmlu/<timestamp>-mmlu (parents=True) and writes its JSON files
\* and report.md there, or dies before it does.  It neither purges nor
\* indexes.
MmluRun ==
    /\ inv.pc = "idle"
    /\ nextId <= MaxRuns
    /\ dirs' = dirs \cup {MmluDir}
    /\ \/ mmluRuns' = mmluRuns \cup {nextId}
       \/ UNCHANGED mmluRuns
    /\ nextId' = nextId + 1
    /\ UNCHANGED <<inv, reported, index, meta, srv, perfLog, lastOffline>>

Next ==
    \/ Start
    \/ AccuracyMode
    \/ AccuracyThenPerformance
    \/ OfflineGenerate
    \/ WriteOfflineMeta
    \/ ServerStart
    \/ ServerRequest
    \/ ServerDone
    \/ SingleStream
    \/ Report
    \/ Crash
    \/ MmluRun

\* Invocations are started by hand, one after another; no step of a run
\* is guaranteed, since any may be its last.
Spec == Init /\ [][Next]_vars

(***************************************************************************)
(* Properties.                                                             *)
(***************************************************************************)

\* What auto_server_qps's docstring promises: 0.8 * offline tokens/sec /
\* avg tokens per request, which for the last Offline run whose numbers
\* reached meta.json is 0.8 * count / duration; at least 0.05; 0.5 when
\* there is no usable Offline run.
DocServerQps(h) ==
    IF h.some /\ h.tokens > 0 /\ h.dur > 0
    THEN RatMax(<<1, 20>>, <<8 * h.count, 10 * h.dur>>)
    ELSE <<1, 2>>

\* A Server run with --server-target-qps auto paces itself at the rate the
\* docstring derives from the last Offline run, across purges, crashed
\* runs, accuracy-only runs and runs of the other scenarios in between.
AutoQpsFromLastOffline ==
    inv.pc = "serving" /\ inv.qpsArg.kind = "auto"
        => RatEq(inv.qps, DocServerQps(lastOffline))

\* The Server loop never issues two prompts closer together than
\* 1 / target_qps, whatever the latencies: next_issue_time neither bursts
\* to catch up after a slow request nor follows the end of a fast one.
IssueSpacing ==
    inv.pc = "serving" /\ srv.i >= 2
        => srv.lastIssue - srv.prevIssue >= inv.qps[2]

\* The value at 1-based rank j of the multiset of a sequence's values.
OrderStat(v, j) ==
    CHOOSE x \in Range(v) :
        /\ Cardinality({i \in DOMAIN v : v[i] < x}) < j
        /\ j <= Cardinality({i \in DOMAIN v : v[i] <= x})

\* The p-th percentile by linear interpolation between closest ranks, rank
\* r = 1 + (n - 1) * p, times 100.
RefPercentile(v, pp) ==
    IF v = <<>> THEN 0
    ELSE LET r  == 100 + (Len(v) - 1) * pp
             lo == OrderStat(v, r \div 100)
             hi == OrderStat(v, (r + 99) \div 100)
         IN  100 * lo + (r % 100) * (hi - lo)

\* The p50/p90/p95/p99 latencies write_performance_logs writes for a Server
\* or SingleStream run are the interpolated percentiles of the latencies
\* the run measured.
PercentileMatchesReference ==
    perfLog.scen \in {"server", "singlestream"} =>
        \A pp \in ReportedPercentiles :
            Percentile(perfLog.lats, pp) = RefPercentile(perfLog.lats, pp)

\* Between invocations, every run index.md links to still has its
\* report.md: an invocation that purged the runs index.md lists refreshes
\* the index before it ends.
IndexLinksResolve == inv.pc = "idle" => index \subseteq reported
====
