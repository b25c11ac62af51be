----------------------------- MODULE AgentTrials ----------------------------
(***************************************************************************)
(* Trials of an agent process, one after the other, in two harnesses:      *)
(*   benchmark   runBenchmarkSuite with a CommandAgent (packages/benchmark)*)
(*   experiment  runPairedExperiment with the process driver               *)
(*               (packages/agent-experiment); a trial is one side of a pair*)
(*                                                                         *)
(* The agent is a process, and may start helpers that outlive it, holding  *)
(* its standard output open or not.  A signal takes time to work, and      *)
(* SIGTERM may be ignored; meanwhile the harness goes on, and whatever is  *)
(* left of the agent goes on writing.  A check may be a command, a process *)
(* of its own, for which the harness stands still.                         *)
(*                                                                         *)
(* The contents of a workspace are the set of its files that differ from   *)
(* the fixture.                                                            *)
(***************************************************************************)
EXTENDS Naturals, Sequences, FiniteSetsExt

CONSTANTS
    LastTrial,
    Files,
    Protected,      \* protected_paths of the task
    Allowed,        \* allowed_paths; none given means all
    Checks,         \* a sequence of records [type, file, required, weight]
    Threshold,      \* pass_threshold, in percent
    Forking         \* bound: trials whose agent may start helpers

Trials == 1..LastTrial
CheckTypes == {"text", "unchanged", "command"}

ASSUME TrialsAssumption ==
    /\ LastTrial \in Nat \ {0} /\ Threshold \in 0..100
    /\ Protected \subseteq Files /\ Allowed \subseteq Files /\ "removed" \notin Files
    /\ Forking \subseteq Trials
    /\ Checks \in Seq([type : CheckTypes, file : Files, required : BOOLEAN, weight : Nat])

VARIABLES
    kind,       \* which harness, and
    preserve,   \* whether it keeps the workspaces
    trial,      \* the trial at hand
    step,       \* what the harness does next for it
    child,      \* trial -> its process, and
    exit,       \* how that ended
    helper,     \* trial -> the helper left of it
    away,       \* trials whose helper is outside its driver's process group
    forked,     \* history: trials that started one
    killing,    \* trials for which terminateProcess waits its 250 ms
    stopped,    \* trial -> why the harness stopped the agent
    workspace,  \* trial -> its contents
    snap,       \* trial -> those at the snapshot after the agent
    mixed,      \* history: trials a check of which read other contents
    results,    \* whether the checks of this trial passed, so far
    verifier,   \* the command that is the last of these
    report      \* trial -> its outcome

agent == <<child, exit, helper, away, forked>>
scoring == <<snap, mixed, results, verifier>>
options == <<kind, preserve>>
vars == <<options, trial, step, agent, killing, stopped, workspace, scoring, report>>

Steps == {"prepare", "running", "answered", "scoring", "remove", "done", "aborted"}
Outcomes == {"none", "passed", "failed", "timeout", "agent_error", "harness_error", "recorded"}
Running == {"running", "terminated", "killed"}
Removed == {"removed"}      \* no file has this name

Alive(k) == child[k] \in Running \/ helper[k] # "none"

Init ==
    /\ kind \in {"benchmark", "experiment"} /\ preserve \in BOOLEAN
    /\ kind = "experiment" => preserve
    /\ trial = 1 /\ step = "prepare"
    /\ child = [k \in Trials |-> "none"] /\ exit = [k \in Trials |-> "none"]
    /\ helper = [k \in Trials |-> "none"]
    /\ away = {} /\ forked = {} /\ killing = {} /\ stopped = [k \in Trials |-> "no"]
    /\ workspace = [k \in Trials |-> Removed]
    /\ snap = [k \in Trials |-> {}] /\ mixed = {}
    /\ results = <<>> /\ verifier = "none"
    /\ report = [k \in Trials |-> "none"]

Benchmark == kind = "benchmark"
Experiment == kind = "experiment"
At(s) == step = s

Report(outcome) == report' = [report EXCEPT ![trial] = outcome]

-----------------------------------------------------------------------------
(* The harness, up to the agent.                                           *)

\* The workspace is made anew from the fixture; the agent is spawned in it.
Spawn ==
    /\ At("prepare") /\ step' = "running"
    /\ workspace' = [workspace EXCEPT ![trial] = {}]
    /\ child' = [child EXCEPT ![trial] = "running"]
    /\ UNCHANGED <<options, trial, exit, helper, away, forked, killing, stopped, scoring, report>>

\* A fixture that cannot be copied is an error of the trial in one harness and
\* of the whole experiment in the other.
PrepareFails ==
    /\ At("prepare")
    /\ IF Benchmark THEN step' = "remove" /\ Report("harness_error")
                    ELSE step' = "aborted" /\ UNCHANGED report
    /\ UNCHANGED <<options, trial, agent, killing, stopped, workspace, scoring>>

-----------------------------------------------------------------------------
(* The agent.                                                              *)

Write(k, f) ==
    /\ Alive(k) /\ workspace[k] # Removed
    /\ workspace' = [workspace EXCEPT ![k] = @ \cup {f}]
    /\ UNCHANGED <<options, trial, step, agent, killing, stopped, scoring, report>>

\* A helper may leave the driver's process group, by setsid; on Windows, where
\* only the driver is signalled, every one is away.
Fork(k) ==
    /\ k \in Forking /\ child[k] = "running" /\ helper[k] = "none"
    /\ \E h \in {"quiet", "piped"} : helper' = [helper EXCEPT ![k] = h]
    /\ forked' = forked \cup {k}
    /\ away' = away \/ (Experiment /\ away' = away \cup {k})
    /\ UNCHANGED <<options, trial, step, child, exit, killing, stopped, workspace,
                   scoring, report>>

\* By itself, or from the handler of a SIGTERM: with an exit code.
Exit(k) ==
    /\ child[k] \in {"running", "terminated"}
    /\ child' = [child EXCEPT ![k] = "over"]
    /\ \E code \in {"good", "bad"} : exit' = [exit EXCEPT ![k] = code]
    /\ UNCHANGED <<options, trial, step, helper, away, forked, killing, stopped,
                   workspace, scoring, report>>

\* Of the signal: without one (child.exitCode remains null).
Die(k) ==
    /\ child[k] \in {"terminated", "killed"}
    /\ child' = [child EXCEPT ![k] = "over"] /\ exit' = [exit EXCEPT ![k] = "signal"]
    /\ UNCHANGED <<options, trial, step, helper, away, forked, killing, stopped,
                   workspace, scoring, report>>

HelperEnds(k) ==
    /\ helper[k] # "none"
    /\ helper' = [helper EXCEPT ![k] = "none"]
    /\ UNCHANGED <<options, trial, step, child, exit, away, forked, killing, stopped,
                   workspace, scoring, report>>

-----------------------------------------------------------------------------
(* Waiting for it.                                                         *)

\* What SIGTERM makes of a child: it may be ignored.
Terminated(k) == {child[k], IF child[k] = "running" THEN "terminated" ELSE child[k]}

\* benchmark: SIGTERM to the child, and the race is over.  (The SIGKILL of
\* abort never follows: child.killed is set by the first kill.)
AbortAgent ==
    /\ Benchmark /\ At("running") /\ step' = "answered"
    /\ \E c \in Terminated(trial) : child' = [child EXCEPT ![trial] = c]
    /\ stopped' = [stopped EXCEPT ![trial] = "timeout"]
    /\ UNCHANGED <<options, trial, exit, helper, away, forked, killing, workspace,
                   scoring, report>>

\* benchmark: too much output.
OverflowKills ==
    /\ Benchmark /\ At("running") /\ step' = "answered"
    /\ child[trial] = "running"
    /\ child' = [child EXCEPT ![trial] = "killed"]
    /\ stopped' = [stopped EXCEPT ![trial] = "overflow"]
    /\ UNCHANGED <<options, trial, exit, helper, away, forked, killing, workspace,
                   scoring, report>>

\* experiment: timeout or overflow, SIGTERM to the process group unless the
\* child has exited with a code.
Terminate(why) ==
    /\ Experiment /\ At("running") /\ stopped[trial] # "timeout" /\ stopped[trial] # why
    /\ why = "overflow" => Alive(trial)
    /\ stopped' = [stopped EXCEPT ![trial] = why]
    /\ IF exit[trial] \in {"good", "bad"}
       THEN UNCHANGED <<child, helper, killing>>
       ELSE /\ \E c \in Terminated(trial) : child' = [child EXCEPT ![trial] = c]
            /\ \E h \in {helper[trial]} \cup (IF trial \in away THEN {} ELSE {"none"}) :
                  helper' = [helper EXCEPT ![trial] = h]
            /\ killing' = killing \cup {trial}
    /\ UNCHANGED <<options, trial, step, exit, away, forked, workspace, scoring, report>>

(* Mutant: the second signal is not SIGKILL.                               *)
KillGroupPolitely(k) ==
    /\ k \in killing
    /\ killing' = killing \ {k}
    /\ UNCHANGED <<options, trial, step, agent, stopped, workspace, scoring, report>>

\* 250 ms later SIGKILL to the group, unless the child has a code by now.
KillGroup(k) ==
    /\ k \in killing
    /\ killing' = killing \ {k}
    /\ IF exit[k] \in {"good", "bad"}
       THEN UNCHANGED <<child, helper>>
       ELSE /\ child' = [child EXCEPT ![k] = IF @ \in Running THEN "killed" ELSE @]
            /\ helper' = [helper EXCEPT ![k] = IF k \in away THEN @ ELSE "none"]
    /\ UNCHANGED <<options, trial, step, exit, away, forked, stopped, workspace,
                   scoring, report>>

(* Mutant: an agent that has got its signal counts as over.                *)
ClosedOnSignal == child[trial] \notin {"none", "running"}

\* "close": the child is over and its output has no writer.  The experiment
\* records what came of it, and goes on to the next side.
Closed == child[trial] = "over" /\ helper[trial] # "piped"

Close ==
    /\ At("running") /\ Closed
    /\ IF Benchmark THEN step' = "answered" /\ UNCHANGED report
                    ELSE step' = "remove" /\ Report("recorded")
    /\ UNCHANGED <<options, trial, agent, killing, stopped, workspace, scoring>>

-----------------------------------------------------------------------------
(* benchmark: snapshot, score, report.                                     *)

\* A link, or a file too many, is an error of the harness.
Snapshot ==
    /\ At("answered")
    /\ snap' = [snap EXCEPT ![trial] = workspace[trial]]
    /\ results' = <<>>
    /\ \/ step' = "scoring" /\ UNCHANGED report
       \/ step' = "remove" /\ Report("harness_error")
    /\ UNCHANGED <<options, trial, agent, killing, stopped, workspace, mixed, verifier>>

\* evaluateBenchmarkCheck; a command runs on a copy made for it.
Passes(c) ==
    IF c.type = "unchanged" THEN c.file \notin snap[trial] ELSE c.file \in workspace[trial]

\* The checks are evaluated in turn; one that throws is not passed.  A command
\* has read its copy, and the harness waits for its end.
Check ==
    /\ At("scoring") /\ verifier = "none" /\ Len(results) < Len(Checks)
    /\ LET c == Checks[Len(results) + 1]
       IN /\ \/ \E ok \in {Passes(c), FALSE} : results' = Append(results, ok)
                /\ verifier' = IF c.type = "command" THEN "running" ELSE "none"
             \/ c.type = "command" /\ results' = Append(results, FALSE)
                /\ UNCHANGED verifier
          /\ mixed' = IF c.type # "unchanged" /\ workspace[trial] # snap[trial]
                      THEN mixed \cup {trial} ELSE mixed
    /\ UNCHANGED <<options, trial, step, agent, killing, stopped, workspace, snap, report>>

verifying == <<options, trial, step, agent, killing, stopped, workspace, snap, mixed, report>>

\* spawnSync: SIGTERM when its time is up or it says too much, and no SIGKILL
\* after that.
TerminateVerifier ==
    /\ verifier = "running"
    /\ verifier' \in {"terminated", "ignoring"}
    /\ UNCHANGED <<verifying, results>>

\* By itself, with what it found; or of the signal, which is no pass.
VerifierExits ==
    /\ verifier \in {"running", "ignoring"} /\ verifier' = "none"
    /\ UNCHANGED <<verifying, results>>

VerifierDies ==
    /\ verifier = "terminated" /\ verifier' = "none"
    /\ results' = [results EXCEPT ![Len(results)] = FALSE]
    /\ UNCHANGED verifying

WeightOf(S) == MapThenSumSet(LAMBDA i : Checks[i].weight, S)

(* Mutant: protected files are no concern of the allowed paths.            *)
ViolationsOfAllowed == IF Allowed = {} THEN {} ELSE snap[trial] \ Allowed

Violations == (snap[trial] \cap Protected)
              \cup (IF Allowed = {} THEN {} ELSE snap[trial] \ Allowed)

\* A process that ended well may still have answered "failed", or nonsense.
Score ==
    /\ At("scoring") /\ verifier = "none" /\ Len(results) = Len(Checks)
    /\ step' = "remove" /\ results' = <<>>
    /\ LET pass == {i \in DOMAIN Checks : results[i]}
           cleared == /\ Violations = {}
                      /\ \A i \in DOMAIN Checks : Checks[i].required => i \in pass
                      /\ 100 * WeightOf(pass) >= Threshold * WeightOf(DOMAIN Checks)
       IN IF stopped[trial] = "timeout" THEN Report("timeout")
          ELSE IF stopped[trial] = "no" /\ exit[trial] = "good"
          THEN Report("agent_error") \/ Report(IF cleared THEN "passed" ELSE "failed")
          ELSE Report("agent_error")
    /\ UNCHANGED <<options, trial, agent, killing, stopped, workspace, snap, mixed, verifier>>

\* The workspace goes, unless it is kept; then the next trial.  Removing a
\* directory in which somebody writes can fail, and nothing catches that.
NextTrial ==
    IF trial = LastTrial THEN step' = "done" /\ UNCHANGED trial
    ELSE step' = "prepare" /\ trial' = trial + 1

Remove ==
    /\ At("remove")
    /\ \/ /\ workspace' = IF preserve THEN workspace ELSE [workspace EXCEPT ![trial] = Removed]
          /\ NextTrial
       \/ ~preserve /\ Alive(trial) /\ step' = "aborted" /\ UNCHANGED <<trial, workspace>>
    /\ UNCHANGED <<options, agent, killing, stopped, scoring, report>>

-----------------------------------------------------------------------------
Harness ==
    \/ Spawn \/ Close \/ Snapshot \/ Check \/ Score \/ Remove
Timeout == AbortAgent \/ Terminate("timeout") \/ TerminateVerifier

Next ==
    \/ Harness \/ PrepareFails \/ Timeout \/ OverflowKills \/ Terminate("overflow")
    \/ VerifierExits \/ VerifierDies
    \/ \E k \in Trials :
          \/ Fork(k) \/ Exit(k) \/ Die(k) \/ HelperEnds(k) \/ KillGroup(k)
          \/ \E f \in Files : Write(k, f)

\* The harness goes on, its timers fire, and a signal that is not ignored
\* works.  The agent, its helpers and a verifier need not do anything.
Fairness ==
    /\ WF_vars(Harness) /\ WF_vars(Timeout) /\ WF_vars(VerifierDies)
    /\ \A k \in Trials : WF_vars(KillGroup(k)) /\ WF_vars(Die(k))

Spec == Init /\ [][Next]_vars /\ Fairness

-----------------------------------------------------------------------------
(* Properties.                                                             *)

TypeOK ==
    /\ kind \in {"benchmark", "experiment"} /\ preserve \in BOOLEAN
    /\ trial \in Trials /\ step \in Steps
    /\ child \in [Trials -> Running \cup {"none", "over"}]
    /\ exit \in [Trials -> {"none", "good", "bad", "signal"}]
    /\ helper \in [Trials -> {"none", "quiet", "piped"}]
    /\ away \subseteq forked /\ forked \subseteq Trials /\ killing \subseteq Trials
    /\ stopped \in [Trials -> {"no", "timeout", "overflow"}]
    /\ \A k \in Trials : workspace[k] = Removed \/ workspace[k] \subseteq Files
    /\ snap \in [Trials -> SUBSET Files] /\ mixed \subseteq Trials
    /\ results \in Seq(BOOLEAN) /\ Len(results) <= Len(Checks)
    /\ verifier \in {"none", "running", "terminated", "ignoring"}
    /\ report \in [Trials -> Outcomes]

\* A trial is reported as passed on one state of its workspace: what the checks
\* read is what the snapshot found clean; but an agent that left a helper
\* behind, and then answered, may have had its protected files changed since.
PassedOnWhatWasSeen ==
    \A k \in Trials \ forked : report[k] = "passed" =>
        k \notin mixed /\ snap[k] \cap Protected = {}

\* No agent runs during a later trial; except helpers that were left behind and,
\* in the benchmark, agents that were told to stop and not waited for.
TrialsDoNotOverlap ==
    \A k \in Trials \ forked : k < trial /\ Alive(k) => Benchmark /\ stopped[k] # "no"

\* Every run comes to its end, by whatever its agents do, unless it comes upon
\* something no timer of its own deals with: in the benchmark a verifier that
\* ignores SIGTERM, in the experiment a helper that holds the driver's output
\* for ever and that no signal reaches, because the driver had exited by itself
\* or because the helper had left its process group.
EndedByNobody ==
    \/ Benchmark /\ verifier = "ignoring"
    \/ Experiment /\ helper[trial] = "piped"
                  /\ (exit[trial] \in {"good", "bad"} \/ trial \in away)

EveryRunEnds == <>(step \in {"done", "aborted"}) \/ <>[]EndedByNobody
=============================================================================
