---------------------------- MODULE Orchestration ----------------------------
(***************************************************************************)
(* The plan secureflow-orchestrator derives of a run manifest and the      *)
(* evidence linked to it: which phases of the work are done, what comes    *)
(* next, and what may be claimed.  A piece of evidence is its kind and the *)
(* document itself, which stands for its digest.                           *)
(***************************************************************************)
EXTENDS RunManifest

ContextKinds == {"review", "correlation", "inventory", "inference", "assessment"}
EvaluationKinds == {"benchmark", "lab-result", "corpus-result"}
HasContext(evidence) == \E e \in evidence : e.kind \in ContextKinds
HasEvaluation(evidence) == \E e \in evidence : e.kind \in EvaluationKinds

\* map_named_phase: a phase that has not begun is ready.
PhaseOf(status) ==
  CASE status = "completed" -> "completed"
    [] status = "failed" -> "failed"
    [] status \in {"partial", "running"} -> "partial"
    [] OTHER -> "ready"

\* The counts of the manifest a plan keeps.
RunState(m) ==
  LET Ai(statuses) == Counting(m.findings, LAMBDA f : f.ai.status \in statuses)
      pending == Counting(m.findings, LAMBDA f : f.review.decision = "pending")
  IN [candidates |-> Len(m.findings), pending |-> pending, terminal |-> Len(m.findings) - pending,
      aiCompleted |-> Ai({"completed"}), aiUnfinished |-> Ai({"failed", "queued"})]

AiPhase(state) ==
  IF state.aiCompleted > 0 THEN "completed"
  ELSE IF state.aiUnfinished > 0 THEN "partial" ELSE "optional-not-requested"
ContextPhase(prioritized, evidence) ==
  IF ~prioritized THEN "blocked"
  ELSE IF HasContext(evidence) THEN "completed" ELSE "optional-not-requested"
ValidationPhase(prioritized, state) ==
  IF ~prioritized THEN "blocked"
  ELSE IF state.pending = 0 THEN "completed"
  ELSE IF state.terminal > 0 THEN "partial" ELSE "ready"
EvaluationPhase(prioritized, state, evidence) ==
  IF state.pending > 0 \/ ~prioritized THEN "blocked"
  ELSE IF HasEvaluation(evidence) THEN "evaluation-only" ELSE "ready"

\* What comes next, the first of the phases that is not finished.
NextAction(analysed, prioritized, state, evidence) ==
  IF ~analysed THEN "complete-deterministic-analysis"
  ELSE IF ~prioritized THEN "complete-deterministic-prioritization"
  ELSE IF state.pending > 0 THEN "human-review-or-abstain"
  ELSE IF ~HasEvaluation(evidence) THEN "run-prospective-evaluation"
  ELSE "preserve-auditable-evidence"
Claim(state) ==
  IF state.candidates = 0 THEN "no-candidates-is-not-proof-of-safety"
  ELSE IF state.pending > 0 THEN "candidates-require-human-review"
  ELSE "human-decisions-available"

\* derive_phases asks the manifest whether prioritization is completed.
DerivePhases(m, evidence) ==
  LET state == RunState(m)
      prioritized == m.prioritization = "completed"
  IN [analysis |-> PhaseOf(m.deterministic),
      prioritization |-> IF m.deterministic # "completed" THEN "blocked"
                         ELSE PhaseOf(m.prioritization),
      context |-> ContextPhase(prioritized, evidence),
      ai |-> AiPhase(state),
      validation |-> ValidationPhase(prioritized, state),
      evaluation |-> EvaluationPhase(prioritized, state, evidence)]

\* derive_plan
DerivePlan(m, evidence) ==
  LET state == RunState(m)
  IN [kind |-> "plan", run |-> m.run, manifest |-> m, target |-> m.target, evidence |-> evidence, state |-> state,
      phases |-> DerivePhases(m, evidence),
      next |-> NextAction(m.deterministic = "completed", m.prioritization = "completed",
                          state, evidence),
      claim |-> Claim(state)]

\* OrchestrationEnvelope::validate_derived_state asks the phases of the plan instead.
PlanValid(p) ==
  LET analysed == p.phases.analysis = "completed"
      prioritized == p.phases.prioritization = "completed"
  IN /\ p.state.pending + p.state.terminal = p.state.candidates
     /\ p.state.aiCompleted + p.state.aiUnfinished <= p.state.candidates
     /\ ~analysed => p.phases.prioritization = "blocked"
     /\ p.phases.context = ContextPhase(prioritized, p.evidence)
     /\ p.phases.ai = AiPhase(p.state)
     /\ p.phases.validation = ValidationPhase(prioritized, p.state)
     /\ p.phases.evaluation = EvaluationPhase(prioritized, p.state, p.evidence)
     /\ p.next = NextAction(analysed, prioritized, p.state, p.evidence)
     /\ p.claim = Claim(p.state)
=============================================================================
