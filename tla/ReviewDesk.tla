----------------------------- MODULE ReviewDesk -----------------------------
(***************************************************************************)
(* What happens to a run after its scan: people review findings, an AI     *)
(* answer is asked for and recorded, reviewed findings are imported into   *)
(* the ledger, cases are made, decided and staged by agents over MCP.      *)
(* Every command reads documents, checks them and writes another document  *)
(* in one replacement; several commands run at a time where one of them    *)
(* reads and writes the same file (the ledger) or holds what it read (an   *)
(* MCP server).                                                            *)
(***************************************************************************)
EXTENDS KnowledgeLedger, SecurityCase

CONSTANTS
  Scans,        \* the manifests to start from, as sequences of them
  RunPaths, CasePaths, Importers, Agents, Reviewers,
  Envelopes, Sarifs,    \* documents of Secure Skill and of other tools
  Verdicts,             \* the decisions people take
  FirstLedger,          \* what the ledger starts with
  TokenBudget, Tokens,  \* max tokens of an AI request; what answers report
  MaxReviews, MaxRequests, MaxImports, MaxCaseSteps, MaxStages, MaxCommands  \* bounds

\* What a document has by its type: the fields, lists that are lists, and known decisions.
IsList(s) == s \in Seq(ToSet(s))
HasFields(d, fields) == d = [x \in DOMAIN d |-> d[x]] /\ fields \subseteq DOMAIN d

FindingTyped(f) ==
  /\ HasFields(f, {"id", "at", "path", "verification", "evidence", "disposition", "reason",
                   "review", "ai"})
  /\ f.review = [decision |-> f.review.decision, reviewer |-> f.review.reviewer]
  /\ f.review.decision \in {"pending"} \cup Decisions
  /\ f.ai = [status |-> f.ai.status, request |-> f.ai.request, tokens |-> f.ai.tokens]

ManifestTyped(m) ==
  /\ HasFields(m, {"contract", "run", "target", "status", "ended", "report", "graph",
                   "findings", "validation", "abstentions", "summary"})
  /\ IsList(m.findings) /\ \A i \in DOMAIN m.findings : FindingTyped(m.findings[i])

\* Runs start from manifests and a ledger that their commands take; people decide.
ASSUME ReviewAssumption ==
  /\ \A scans \in Scans : \A m \in ToSet(scans) : ManifestTyped(m) /\ ManifestValid(m)
  /\ IsList(FirstLedger) /\ LedgerParses(FirstLedger)
  /\ Verdicts \subseteq Decisions /\ Nobody \notin Reviewers
  /\ \A e \in Envelopes : IsList(e.findings)
  /\ \A s \in Sarifs : IsList(s.results)

VARIABLES
  runs,      \* path -> the manifest in it, if any
  cases,     \* path -> the case in it, if any
  requests,  \* the AI requests prepared
  ledger,    \* the records of the ledger file
  importer,  \* importer -> what knowledge-import holds between its read and its write
  agent,     \* agent -> the case its MCP server holds and the one it is about to link
  settled,   \* history: manifests imported and not lost to another importer
  used       \* history: how often each kind of command has run

vars == <<runs, cases, requests, ledger, importer, agent, settled, used>>

Kinds == {"review", "request", "import", "case", "stage"}
Limit == [review |-> MaxReviews, request |-> MaxRequests, import |-> MaxImports,
          case |-> MaxCaseSteps, stage |-> MaxStages]
Use(kind) ==
  /\ used[kind] < Limit[kind]
  /\ MapThenSumSet(LAMBDA k : used[k], Kinds) < MaxCommands
  /\ used' = [used EXCEPT ![kind] = @ + 1]

NoJob == [at |-> "idle"]

Init ==
  /\ \E scans \in Scans :
       runs \in {r \in [RunPaths -> {{}} \cup {{m} : m \in ToSet(scans)}] :
                   \A m \in ToSet(scans) : Cardinality({p \in RunPaths : r[p] = {m}}) = 1}
  /\ cases = [c \in CasePaths |-> {}]
  /\ requests = {}
  /\ ledger = FirstLedger
  /\ importer = [i \in Importers |-> NoJob]
  /\ agent = [a \in Agents |-> [memory |-> {}, staged |-> {}, output |-> {}]]
  /\ settled = {}
  /\ used = [k \in Kinds |-> 0]

\* load_manifest and load_security_case: read and validated.
Loads(m, path) == m \in runs[path] /\ ManifestValid(m)
LoadsCase(c, path) == c \in cases[path] /\ CaseValid(c)

\* write_atomic: the output is replaced, whatever it was.
WriteRun(path, m) == runs' = [runs EXCEPT ![path] = {m}]
WriteCase(path, c) == cases' = [cases EXCEPT ![path] = {c}]

(***************************************************************************)
(* review-run and the AI commands.                                         *)
(***************************************************************************)

\* Mutant: a decision may be taken again.
Reviewable(f) == TRUE

\* A decision is recorded for a pending finding only.
MayReview(f) == f.review.decision = "pending"

\* Mutant: the counts of the manifest that was read are kept.
Uncounted(m) == m

\* What review-run and ai-apply-response do before they validate.
Recounted(m) == RefreshSummary(m)

\* The derived manifest: the decision, the summary and the validation phase.
Decide(m, i, decision, reviewer) ==
  LET decided == Recounted([m EXCEPT !.findings[i].review =
                              [decision |-> decision, reviewer |-> reviewer]])
      pending == \E j \in DOMAIN decided.findings :
                   decided.findings[j].review.decision = "pending"
  IN [decided EXCEPT !.validation = IF pending THEN "partial" ELSE "completed"]

ReviewRun(from, to, m, i, decision, reviewer) ==
  /\ Use("review")
  /\ from # to /\ Loads(m, from)
  /\ MayReview(m.findings[i])
  /\ LET derived == Decide(m, i, decision, reviewer)
     IN ManifestValid(derived) /\ WriteRun(to, derived)
  /\ UNCHANGED <<cases, requests, ledger, importer, agent, settled>>

\* prepare_request: for a finding no answer was recorded for.
AiPrepare(from, m, i) ==
  /\ Use("request")
  /\ Loads(m, from)
  /\ m.findings[i].ai.status = "not_requested"
  /\ requests' = requests \cup
       {[run |-> m.run, target |-> m.target, finding |-> m.findings[i].id]}
  /\ UNCHANGED <<runs, cases, ledger, importer, agent, settled>>

\* apply_response: to any manifest of the run, within the budget, once per finding.
Answered(m, i, request, tokens) ==
  Recounted([m EXCEPT !.findings[i].ai =
               [status |-> "completed", request |-> {request}, tokens |-> tokens]])

AiApplyResponse(from, to, m, i, request, tokens) ==
  /\ Use("request")
  /\ from # to /\ Loads(m, from)
  /\ request.run = m.run /\ request.target = m.target
  /\ request.finding = m.findings[i].id
  /\ tokens <= TokenBudget
  /\ m.findings[i].ai.status = "not_requested"
  /\ LET derived == Answered(m, i, request, tokens)
     IN ManifestValid(derived) /\ WriteRun(to, derived)
  /\ UNCHANGED <<cases, requests, ledger, importer, agent, settled>>

(***************************************************************************)
(* knowledge-import: a read and a replacement, without a lock in between.  *)
(***************************************************************************)

\* Nothing is written when nothing was appended.
ImportSkips(i, from, m) ==
  /\ Use("import")
  /\ importer[i] = NoJob
  /\ Loads(m, from) /\ Reviewed(m) # {}
  /\ LedgerParses(ledger) /\ Imported(ledger, m) = ledger
  /\ settled' = settled \cup {m}
  /\ UNCHANGED <<runs, cases, requests, ledger, importer, agent>>

ImportRead(i, from, m) ==
  /\ Use("import")
  /\ importer[i] = NoJob
  /\ Loads(m, from) /\ Reviewed(m) # {}
  /\ LedgerParses(ledger) /\ Imported(ledger, m) # ledger
  /\ importer' = [importer EXCEPT ![i] =
       [at |-> "read", output |-> Imported(ledger, m), kept |-> settled \cup {m}]]
  /\ UNCHANGED <<runs, cases, requests, ledger, agent, settled>>

ImportReplace(i) ==
  /\ importer[i].at = "read"
  /\ ledger' = importer[i].output
  /\ settled' = importer[i].kept
  /\ importer' = [importer EXCEPT ![i] = NoJob]
  /\ UNCHANGED <<runs, cases, requests, agent, used>>

(***************************************************************************)
(* The commands on a case.                                                 *)
(***************************************************************************)

CaseCreate(from, m, to) ==
  /\ Use("case")
  /\ Loads(m, from) /\ CaseValid(CaseFromRun(m))
  /\ WriteCase(to, CaseFromRun(m))
  /\ UNCHANGED <<runs, requests, ledger, importer, agent, settled>>

\* The commands that derive a case from a case; a derived case is validated.
DeriveCase(from, to, derived) ==
  /\ Use("case")
  /\ from # to /\ CaseValid(derived)
  /\ WriteCase(to, derived)
  /\ UNCHANGED <<runs, requests, ledger, importer, agent, settled>>

CaseImportSecureReview(from, to, c, envelope) ==
  /\ LoadsCase(c, from) /\ envelope.target = c.target
  /\ DeriveCase(from, to, WithReview(c, envelope))

CaseImportSarif(from, to, c, sarif) ==
  LoadsCase(c, from) /\ DeriveCase(from, to, WithSarif(c, sarif))

CaseDecide(from, to, c, id, decision, reviewer) ==
  /\ LoadsCase(c, from)
  /\ HasCandidate(c, id) /\ MayDecide(c, id)
  /\ DeriveCase(from, to, WithDecision(c, id, decision, reviewer))

(***************************************************************************)
(* Agents: serve_case_mcp holds the case it was started with, the          *)
(* universal server loads one for every call.  Either stages into a file   *)
(* of its own, which write_atomic_new creates and never replaces.          *)
(***************************************************************************)

\* case-mcp is started: its output is fixed and differs from the case.
CaseMcp(a, from, c, output) ==
  /\ agent[a].memory = {} /\ agent[a].staged = {}
  /\ from # output /\ LoadsCase(c, from)
  /\ agent' = [agent EXCEPT ![a].memory = {c}, ![a].output = {output}]
  /\ UNCHANGED <<runs, cases, requests, ledger, importer, settled, used>>

\* stage_case_recommendation up to the look whether the output exists.
Stage(a, c, id, recommendation, output) ==
  /\ Use("stage")
  /\ agent[a].staged = {}
  /\ HasCandidate(c, id) /\ CaseValid(WithStage(c, id, recommendation))
  /\ cases[output] = {}
  /\ agent' = [agent EXCEPT ![a].staged =
       {[of |-> c, document |-> WithStage(c, id, recommendation), output |-> output]}]
  /\ UNCHANGED <<runs, cases, requests, ledger, importer, settled>>

StageOfSession(a, c, id, recommendation, output) ==
  /\ c \in agent[a].memory /\ output \in agent[a].output
  /\ Stage(a, c, id, recommendation, output)

StageOfCall(a, from, c, id, recommendation, output) ==
  /\ agent[a].memory = {} /\ from # output /\ LoadsCase(c, from)
  /\ Stage(a, c, id, recommendation, output)

\* Mutant: the temporary file is renamed, over whatever is there by now.
Renames(path) == TRUE

\* hard_link fails when somebody created the file since the look.
Links(path) == cases[path] = {}

\* On success the server's memory becomes what it staged.
StageLink(a) ==
  \E s \in agent[a].staged :
    /\ cases' = IF Links(s.output) THEN [cases EXCEPT ![s.output] = {s.document}] ELSE cases
    /\ agent' = [agent EXCEPT ![a].staged = {},
                              ![a].memory = IF @ # {} /\ Links(s.output) THEN {s.document} ELSE @]
    /\ UNCHANGED <<runs, requests, ledger, importer, settled, used>>

\* The server ends when its input does.
AgentEnds(a) ==
  /\ agent[a].memory # {} /\ agent[a].staged = {}
  /\ agent' = [agent EXCEPT ![a].memory = {}, ![a].output = {}]
  /\ UNCHANGED <<runs, cases, requests, ledger, importer, settled, used>>

Candidates(c) == {k.id : k \in ToSet(c.candidates)}

People ==
  \E from, to \in RunPaths : \E m \in runs[from] : \E i \in DOMAIN m.findings :
    \/ \E d \in Verdicts, r \in Reviewers : ReviewRun(from, to, m, i, d, r)
    \/ AiPrepare(from, m, i)
    \/ \E q \in requests, t \in Tokens : AiApplyResponse(from, to, m, i, q, t)

Ledgers ==
  \E i \in Importers :
    \/ \E from \in RunPaths : \E m \in runs[from] :
         ImportSkips(i, from, m) \/ ImportRead(i, from, m)
    \/ ImportReplace(i)

CaseWork ==
  \/ \E from \in RunPaths, to \in CasePaths : \E m \in runs[from] : CaseCreate(from, m, to)
  \/ \E from, to \in CasePaths : \E c \in cases[from] :
       \/ \E e \in Envelopes : CaseImportSecureReview(from, to, c, e)
       \/ \E s \in Sarifs : CaseImportSarif(from, to, c, s)
       \/ \E id \in Candidates(c), d \in Verdicts, r \in Reviewers :
            CaseDecide(from, to, c, id, d, r)

AgentWork ==
  \E a \in Agents :
    \/ \E from, to \in CasePaths : \E c \in cases[from] :
         \/ CaseMcp(a, from, c, to)
         \/ \E id \in Candidates(c), d \in Verdicts : StageOfCall(a, from, c, id, d, to)
    \/ \E c \in agent[a].memory, to \in agent[a].output :
         \E id \in Candidates(c), d \in Verdicts : StageOfSession(a, c, id, d, to)
    \/ StageLink(a)
    \/ AgentEnds(a)

Next == People \/ Ledgers \/ CaseWork \/ AgentWork

Spec == Init /\ [][Next]_vars

-----------------------------------------------------------------------------

\* A manifest follows another when it tells the same findings and differs in one of them,
\* by a decision where there was none or by an answer where there was none.
Follows(new, old) ==
  /\ new.run = old.run /\ new.target = old.target
  /\ [i \in DOMAIN new.findings |-> new.findings[i].id] =
       [i \in DOMAIN old.findings |-> old.findings[i].id]
  /\ \E i \in DOMAIN old.findings :
       /\ \A j \in DOMAIN old.findings \ {i} : new.findings[j] = old.findings[j]
       /\ \/ old.findings[i].review.decision = "pending" /\ new.findings[i].ai = old.findings[i].ai
          \/ /\ old.findings[i].ai.status = "not_requested"
             /\ new.findings[i].review = old.findings[i].review

\* A case follows another when it adds to it: one decision, one stage or one source.
CaseFollows(new, old) ==
  /\ \A part \in {"sources", "candidates", "stages", "decisions"} :
       IsPrefix(old[part], new[part])
  /\ (Len(new.sources) - Len(old.sources)) + (Len(new.stages) - Len(old.stages))
       + (Len(new.decisions) - Len(old.decisions)) = 1

(***************************************************************************)
(* Whatever command writes a document, the document follows one it read:   *)
(* no decision, reviewer, answer or recommendation recorded there is       *)
(* changed or dropped (a case that is created has no decision at all).     *)
(***************************************************************************)
DecisionsAreFinal ==
  [][ /\ \A p \in RunPaths : \A new \in runs'[p] \ runs[p] :
           \E q \in RunPaths : \E old \in runs[q] : Follows(new, old)
      /\ \A p \in CasePaths : \A new \in cases'[p] \ cases[p] :
           \/ new.decisions = <<>> /\ new.stages = <<>> /\ Len(new.sources) = 1
           \/ \E q \in CasePaths : \E old \in cases[q] : CaseFollows(new, old)
           \/ \E a \in Agents : \E s \in agent[a].staged : CaseFollows(new, s.of) ]_vars

(***************************************************************************)
(* Every document the commands leave is one the next command takes: each   *)
(* manifest on disk is valid and each finding that is pending in it can be *)
(* decided, each case is valid, and the ledger parses.                     *)
(***************************************************************************)
DocumentsAreUsable ==
  /\ \A p \in RunPaths : \A m \in runs[p] :
       /\ ManifestValid(m)
       /\ \A i \in DOMAIN m.findings : MayReview(m.findings[i]) =>
            \A d \in Verdicts, r \in Reviewers : ManifestValid(Decide(m, i, d, r))
  /\ \A p \in CasePaths : \A c \in cases[p] : CaseValid(c)
  /\ LedgerParses(ledger)

(***************************************************************************)
(* A manifest that was imported keeps a record of each of its decisions    *)
(* (README: an append-only ledger), unless an importer that had read the   *)
(* ledger before replaced it: one writer at a time is a rule nobody checks.*)
(***************************************************************************)
ImportedIsKept ==
  \A m \in settled : \A f \in Reviewed(m) : RecordId(m, f) \in Ids(ledger)

(***************************************************************************)
(* A step of an agent replaces no case, and the case it adds has the       *)
(* human decisions of the case it was staged from.                         *)
(***************************************************************************)
AgentsReplaceNothing ==
  [][ \A a \in Agents : agent'[a] # agent[a] =>
        \A p \in CasePaths : cases'[p] # cases[p] =>
          /\ cases[p] = {}
          /\ \E s \in agent[a].staged : \A c \in cases'[p] : c.decisions = s.of.decisions ]_vars
=============================================================================
