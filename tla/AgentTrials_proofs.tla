-------------------------- MODULE AgentTrials_proofs -------------------------
(***************************************************************************)
(* For any number of trials, files and checks: no agent that was waited    *)
(* for runs during a later trial, and a trial passes on what was seen.     *)
(***************************************************************************)
EXTENDS AgentTrials, TLAPS

\* The types of what the proof is about.
TrialTypes ==
    /\ kind \in {"benchmark", "experiment"}
    /\ trial \in Trials /\ step \in Steps
    /\ child \in [Trials -> Running \cup {"none", "over"}]
    /\ helper \in [Trials -> {"none", "quiet", "piped"}]
    /\ forked \subseteq Trials /\ mixed \subseteq Trials
    /\ stopped \in [Trials -> {"no", "timeout", "overflow"}]
    /\ DOMAIN workspace = Trials /\ DOMAIN snap = Trials
    /\ DOMAIN report = Trials

\* The harness has stopped waiting for the agent of trial k; has not begun it.
Past(k) == k < trial \/ (k = trial /\ step \in {"answered", "scoring", "remove"})
Future(k) == k > trial \/ (k = trial /\ step = "prepare")

\* Helpers are the work of those who forked; agents run in their trial, and
\* afterwards if the benchmark has given them up.
Agents ==
    \A k \in Trials :
        /\ helper[k] # "none" => k \in forked
        /\ Future(k) => child[k] = "none"
        /\ Past(k) /\ child[k] \in Running => Benchmark /\ stopped[k] # "no"

\* While an agent that ended by itself is scored its files are those of the
\* snapshot; no outcome is reported before the score.
Scored ==
    /\ \A k \in Trials : k > trial \/ (k = trial /\ step \in {"prepare", "running", "answered"})
          => k \notin mixed /\ report[k] # "passed"
    /\ step = "scoring" => report[trial] # "passed"
    /\ step = "scoring" /\ stopped[trial] = "no" /\ trial \notin forked
          => workspace[trial] = snap[trial] /\ trial \notin mixed

IInv == TrialTypes /\ Agents /\ Scored /\ PassedOnWhatWasSeen

LEMMA InitIInv ==
  ASSUME Init
  PROVE  IInv
<1> USE TrialsAssumption DEF Init, Trials
<1>1. TrialTypes
  BY DEF TrialTypes, Steps
<1>2. Agents /\ Scored /\ PassedOnWhatWasSeen
  BY DEF Agents, Scored, PassedOnWhatWasSeen, Running
<1> QED
  BY <1>1, <1>2 DEF IInv

-----------------------------------------------------------------------------
(* The agents' steps: the harness does not move.                           *)

\* What agents and signals do to trial k: processes end, helpers come and go.
AgentMoves(k) ==
    /\ UNCHANGED <<kind, trial, step, scoring, report>>
    /\ child' \in [Trials -> Running \cup {"none", "over"}]
    /\ helper' \in [Trials -> {"none", "quiet", "piped"}]
    /\ stopped' \in [Trials -> {"no", "timeout", "overflow"}]
    /\ forked' \subseteq Trials /\ forked \subseteq forked' /\ DOMAIN workspace' = Trials
    /\ \A j \in Trials :
        /\ child'[j] \in Running => child[j] \in Running
        /\ child[j] = "none" => child'[j] = "none"
        /\ helper'[j] # "none" => helper[j] # "none" \/ j \in forked'
        /\ stopped'[j] = "no" => stopped[j] = "no"
        /\ ~Alive(j) => workspace'[j] = workspace[j]

LEMMA AgentMovesStep ==
  ASSUME IInv, NEW k \in Trials, AgentMoves(k)
  PROVE  IInv'
<1> USE DEF IInv, AgentMoves, scoring
<1>1. TrialTypes'
  BY DEF TrialTypes
<1>2. Agents'
  BY DEF Agents, Past, Future, Benchmark, TrialTypes
<1>3. Scored'
  <2>1. trial \in Trials
    BY DEF TrialTypes
  <2>2. step = "scoring" /\ stopped[trial] = "no" /\ trial \notin forked => ~Alive(trial)
    BY <2>1 DEF Alive, Agents, Past
  <2> QED
    BY <2>1, <2>2 DEF Scored
<1>4. PassedOnWhatWasSeen'
  BY DEF PassedOnWhatWasSeen
<1> QED
  BY <1>1, <1>2, <1>3, <1>4

LEMMA AgentSteps ==
  ASSUME IInv, NEW k \in Trials,
         Fork(k) \/ Exit(k) \/ Die(k) \/ HelperEnds(k) \/ KillGroup(k)
           \/ \E f \in Files : Write(k, f)
  PROVE  AgentMoves(k)
<1> USE DEF AgentMoves, IInv, TrialTypes, Running, options, agent, scoring
<1>1. CASE Fork(k)
  BY <1>1 DEF Fork
<1>2. CASE Exit(k)
  BY <1>2 DEF Exit
<1>3. CASE Die(k)
  BY <1>3 DEF Die
<1>4. CASE HelperEnds(k)
  BY <1>4 DEF HelperEnds
<1>5. CASE KillGroup(k)
  BY <1>5 DEF KillGroup
<1>6. ASSUME NEW f \in Files, Write(k, f) PROVE AgentMoves(k)
  BY <1>6 DEF Write
<1> QED
  BY <1>1, <1>2, <1>3, <1>4, <1>5, <1>6

LEMMA TerminateStep ==
  ASSUME IInv, NEW why \in {"timeout", "overflow"}, Terminate(why)
  PROVE  AgentMoves(trial)
<1> USE DEF AgentMoves, IInv, TrialTypes, Running, options, scoring
<1>1. stopped' = [stopped EXCEPT ![trial] = why]
      /\ UNCHANGED <<options, trial, step, exit, away, forked, workspace, scoring, report>>
  BY DEF Terminate
<1>2. CASE UNCHANGED <<child, helper, killing>>
  BY <1>1, <1>2
<1>3. CASE /\ \E c \in Terminated(trial) : child' = [child EXCEPT ![trial] = c]
           /\ \E h \in {helper[trial]} \cup (IF trial \in away THEN {} ELSE {"none"}) :
                 helper' = [helper EXCEPT ![trial] = h]
  <2>1. PICK c \in Terminated(trial) : child' = [child EXCEPT ![trial] = c]
    BY <1>3
  <2>2. PICK h \in {helper[trial], "none"} : helper' = [helper EXCEPT ![trial] = h]
    BY <1>3
  <2>3. c = child[trial] \/ (child[trial] = "running" /\ c = "terminated")
    BY DEF Terminated
  <2> QED
    BY <1>1, <2>1, <2>2, <2>3
<1> QED
  BY <1>2, <1>3 DEF Terminate

-----------------------------------------------------------------------------
(* The harness' steps.                                                     *)

LEMMA SpawnStep ==
  ASSUME IInv, Spawn
  PROVE  IInv'
<1> USE DEF IInv, options, scoring
<1>1. /\ step = "prepare" /\ step' = "running"
      /\ workspace' = [workspace EXCEPT ![trial] = {}]
      /\ child' = [child EXCEPT ![trial] = "running"]
      /\ UNCHANGED <<options, trial, exit, helper, away, forked, killing, stopped,
                     scoring, report>>
  BY DEF Spawn, At
<1>2. TrialTypes'
  BY <1>1 DEF TrialTypes, Steps, Running
<1>3. Agents'
  BY <1>1 DEF Agents, Past, Future, Benchmark, TrialTypes, Trials
<1>4. Scored' /\ PassedOnWhatWasSeen'
  BY <1>1 DEF Scored, PassedOnWhatWasSeen
<1> QED
  BY <1>2, <1>3, <1>4

LEMMA PrepareFailsStep ==
  ASSUME IInv, PrepareFails
  PROVE  IInv'
<1> USE DEF IInv, options, agent, scoring
<1>1. /\ step = "prepare" /\ step' \in {"remove", "aborted"}
      /\ report' = report \/ report' = [report EXCEPT ![trial] = "harness_error"]
      /\ UNCHANGED <<options, trial, agent, killing, stopped, workspace, scoring>>
  BY DEF PrepareFails, At, Report
<1>2. TrialTypes'
  BY <1>1 DEF TrialTypes, Steps
<1>3. Agents'
  BY <1>1 DEF Agents, Past, Future, Benchmark, TrialTypes, Trials, Running
<1>4. Scored' /\ PassedOnWhatWasSeen'
  BY <1>1 DEF Scored, PassedOnWhatWasSeen, TrialTypes
<1> QED
  BY <1>2, <1>3, <1>4

\* The benchmark stops waiting for an agent that may live on.
LEMMA GiveUpStep ==
  ASSUME IInv, AbortAgent \/ OverflowKills
  PROVE  IInv'
<1> USE DEF IInv, options, scoring
<1>1. /\ Benchmark /\ step = "running" /\ step' = "answered"
      /\ UNCHANGED <<options, trial, helper, forked, workspace, scoring, report>>
      /\ \E why \in {"timeout", "overflow"} : stopped' = [stopped EXCEPT ![trial] = why]
      /\ child' \in [Trials -> Running \cup {"none", "over"}]
      /\ \A j \in Trials \ {trial} : child'[j] = child[j]
  <2>1. CASE AbortAgent
    BY <2>1 DEF AbortAgent, Terminated, TrialTypes, Running, At
  <2>2. CASE OverflowKills
    BY <2>2 DEF OverflowKills, TrialTypes, Running, At
  <2> QED
    BY <2>1, <2>2
<1>2. TrialTypes'
  <2>1. stopped' \in [Trials -> {"no", "timeout", "overflow"}]
    BY <1>1 DEF TrialTypes
  <2> QED
    BY <1>1, <2>1 DEF TrialTypes, Steps
<1>3. Agents'
  BY <1>1 DEF Agents, Past, Future, TrialTypes, Trials, Benchmark
<1>4. Scored' /\ PassedOnWhatWasSeen'
  BY <1>1 DEF Scored, PassedOnWhatWasSeen
<1> QED
  BY <1>2, <1>3, <1>4

LEMMA CloseStep ==
  ASSUME IInv, Close
  PROVE  IInv'
<1> USE DEF IInv, options, agent, scoring
<1>1. /\ step = "running" /\ step' \in {"answered", "remove"} /\ child[trial] = "over"
      /\ report' = report \/ report' = [report EXCEPT ![trial] = "recorded"]
      /\ UNCHANGED <<options, trial, agent, killing, stopped, workspace, scoring>>
  BY DEF Close, Closed, At, Report
<1>2. TrialTypes'
  BY <1>1 DEF TrialTypes, Steps
<1>3. Agents'
  BY <1>1 DEF Agents, Past, Future, TrialTypes, Trials, Running, Benchmark
<1>4. Scored' /\ PassedOnWhatWasSeen'
  BY <1>1 DEF Scored, PassedOnWhatWasSeen, TrialTypes
<1> QED
  BY <1>2, <1>3, <1>4

LEMMA SnapshotStep ==
  ASSUME IInv, Snapshot
  PROVE  IInv'
<1> USE DEF IInv, options, agent
<1>1. /\ step = "answered" /\ step' \in {"scoring", "remove"}
      /\ snap' = [snap EXCEPT ![trial] = workspace[trial]]
      /\ report' = report \/ report' = [report EXCEPT ![trial] = "harness_error"]
      /\ UNCHANGED <<options, trial, agent, killing, stopped, workspace, mixed>>
  BY DEF Snapshot, At, Report
<1>2. TrialTypes'
  BY <1>1 DEF TrialTypes, Steps
<1>3. Agents'
  BY <1>1 DEF Agents, Past, Future, TrialTypes, Benchmark
<1>4. Scored' /\ PassedOnWhatWasSeen'
  BY <1>1 DEF Scored, PassedOnWhatWasSeen, TrialTypes
<1> QED
  BY <1>2, <1>3, <1>4

LEMMA CheckStep ==
  ASSUME IInv, Check
  PROVE  IInv'
<1> USE DEF IInv, options, agent
<1>1. /\ step = "scoring"
      /\ mixed' = mixed \/ (workspace[trial] # snap[trial] /\ mixed' = mixed \cup {trial})
      /\ UNCHANGED <<options, trial, step, agent, killing, stopped, workspace, snap, report>>
  BY DEF Check, At
<1>2. TrialTypes'
  BY <1>1 DEF TrialTypes
<1>3. Agents'
  BY <1>1 DEF Agents, Past, Future, Benchmark
<1>4. \A k \in Trials : k # trial => (k \in mixed' <=> k \in mixed)
  BY <1>1
<1>5. report[trial] # "passed"
  BY <1>1 DEF Scored
<1>6. Scored'
  BY <1>1, <1>4 DEF Scored, TrialTypes, Trials
<1>7. PassedOnWhatWasSeen'
  BY <1>1, <1>4, <1>5 DEF PassedOnWhatWasSeen
<1> QED
  BY <1>2, <1>3, <1>6, <1>7

LEMMA VerifierStep ==
  ASSUME IInv, TerminateVerifier \/ VerifierExits \/ VerifierDies
  PROVE  IInv'
<1>1. UNCHANGED verifying
  BY DEF TerminateVerifier, VerifierExits, VerifierDies
<1> QED
  BY <1>1 DEF verifying, options, agent, IInv, TrialTypes, Agents, Scored, PassedOnWhatWasSeen,
      Past, Future, Benchmark

LEMMA ScoreStep ==
  ASSUME IInv, Score
  PROVE  IInv'
<1> USE DEF IInv, options, agent
<1>1. /\ step = "scoring" /\ step' = "remove"
      /\ UNCHANGED <<options, trial, agent, killing, stopped, workspace, snap, mixed>>
  BY DEF Score, At
<1>2. Violations = {} => snap[trial] \cap Protected = {}
  BY DEF Violations
<1>3. PICK o \in Outcomes : /\ report' = [report EXCEPT ![trial] = o]
                            /\ o = "passed" => stopped[trial] = "no" /\ Violations = {}
  BY DEF Score, Report, Outcomes
<1>4. TrialTypes'
  BY <1>1, <1>3 DEF TrialTypes, Steps
<1>5. Agents'
  BY <1>1 DEF Agents, Past, Future, Benchmark, TrialTypes
<1>6. \A k \in Trials : k > trial => report'[k] = report[k]
  BY <1>3 DEF TrialTypes, Trials
<1>7. Scored'
  BY <1>1, <1>6 DEF Scored
<1>8. PassedOnWhatWasSeen'
  <2> SUFFICES ASSUME NEW k \in Trials \ forked, report'[k] = "passed"
               PROVE  k \notin mixed /\ snap[k] \cap Protected = {}
    BY <1>1 DEF PassedOnWhatWasSeen
  <2>1. CASE k = trial
    BY <1>1, <1>2, <1>3, <2>1 DEF Scored, TrialTypes
  <2>2. CASE k # trial
    BY <1>3, <2>2 DEF PassedOnWhatWasSeen, TrialTypes
  <2> QED
    BY <2>1, <2>2
<1> QED
  BY <1>4, <1>5, <1>7, <1>8

LEMMA RemoveStep ==
  ASSUME IInv, Remove
  PROVE  IInv'
<1> USE TrialsAssumption DEF IInv, options, agent, scoring
<1>1. /\ step = "remove"
      /\ workspace' = workspace \/ workspace' = [workspace EXCEPT ![trial] = Removed]
      /\ UNCHANGED <<options, agent, killing, stopped, scoring, report>>
      /\ \/ trial' = trial /\ step' \in {"done", "aborted"}
         \/ trial' = trial + 1 /\ step' = "prepare" /\ trial # LastTrial
  BY DEF Remove, NextTrial, At
<1>2. TrialTypes'
  BY <1>1 DEF TrialTypes, Steps, Trials
<1>3. Agents'
  BY <1>1 DEF Agents, Past, Future, Benchmark, TrialTypes, Trials
<1>4. Scored' /\ PassedOnWhatWasSeen'
  BY <1>1 DEF Scored, PassedOnWhatWasSeen, TrialTypes, Trials
<1> QED
  BY <1>2, <1>3, <1>4

LEMMA StepIInv ==
  ASSUME IInv, [Next]_vars
  PROVE  IInv'
<1>1. CASE UNCHANGED vars
  BY <1>1 DEF vars, options, agent, scoring, IInv, TrialTypes, Agents, Scored, PassedOnWhatWasSeen,
      Past, Future, Benchmark
<1>2. ASSUME NEW k \in Trials,
             Fork(k) \/ Exit(k) \/ Die(k) \/ HelperEnds(k) \/ KillGroup(k)
               \/ \E f \in Files : Write(k, f)
      PROVE  IInv'
  BY <1>2, AgentSteps, AgentMovesStep
<1>3. CASE Terminate("timeout") \/ Terminate("overflow")
  <2>1. trial \in Trials
    BY DEF IInv, TrialTypes
  <2> QED
    BY <1>3, <2>1, TerminateStep, AgentMovesStep
<1> QED
  BY <1>1, <1>2, <1>3, SpawnStep, PrepareFailsStep, GiveUpStep, CloseStep, SnapshotStep, CheckStep,
     VerifierStep, ScoreStep, RemoveStep DEF Next, Harness, Timeout

\* The inductive invariant holds in every reachable state.
LEMMA Inductive == Spec => []IInv
<1>1. Init => IInv
  BY InitIInv
<1>2. IInv /\ [Next]_vars => IInv'
  BY StepIInv
<1> QED
  BY <1>1, <1>2, PTL DEF Spec

(* No agent runs during a later trial unless it left a helper behind or    *)
(* the benchmark had given it up (runTrial, invokeProcessDriver).          *)
THEOREM NoOverlap == Spec => []TrialsDoNotOverlap
<1>1. IInv => TrialsDoNotOverlap
  BY DEF IInv, Agents, Past, Alive, TrialTypes, TrialsDoNotOverlap
<1> QED
  BY <1>1, Inductive, PTL

(* A trial passes on one state of its workspace, in which no protected     *)
(* file was changed, unless its agent left a helper behind.                *)
THEOREM PassesAreHonest == Spec => []PassedOnWhatWasSeen
<1>1. IInv => PassedOnWhatWasSeen
  BY DEF IInv
<1> QED
  BY <1>1, Inductive, PTL
=============================================================================
