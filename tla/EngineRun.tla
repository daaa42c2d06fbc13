----------------------------- MODULE EngineRun -----------------------------
(***************************************************************************)
(* One `scan`: the parent authorises a target, supervises the external     *)
(* engine (run, run_with_argv), possibly once more for a full graph, and   *)
(* writes a report and a run manifest.  The child and its descendants,     *)
(* the two threads that drain its pipes, the clock and whoever edits the   *)
(* binary or the target are actors of their own.                           *)
(*                                                                         *)
(* Time passes in ticks.  While the parent polls it wakes at least once in *)
(* every tick (it sleeps 10 ms); elsewhere (hashing, spawning, joining) a  *)
(* tick is a delay nobody supervises, and MaxLag bounds how many happen.   *)
(***************************************************************************)
EXTENDS Integers, FiniteSetsExt

CONSTANTS
  Timeout,    \* the timeout asked for, in ticks
  Validities, \* ticks until the recorded authorization expires, or NoExpiry
  NoExpiry,   \* no expiry was recorded
  Margin,     \* AUTHORIZATION_EXPIRY_MARGIN
  MaxOutput,  \* max_output_bytes, in chunks
  PipeSize,   \* chunks a pipe holds
  MaxWritten, \* bound: stream -> chunks written into its pipe in one attempt
  MaxLag,     \* bound: unsupervised ticks
  MaxEdits    \* bound: edits of the binary and of the target

Streams == {"stdout", "stderr"}

ASSUME EngineAssumption ==
  /\ {Timeout, MaxOutput, PipeSize} \subseteq Nat \ {0}
  /\ {Margin, MaxLag, MaxEdits} \subseteq Nat /\ MaxWritten \in [Streams -> Nat]
  /\ NoExpiry \notin Int /\ Validities \subseteq Int \cup {NoExpiry}

VARIABLES
  pc,        \* where the command is
  full,      \* require_full_graph
  sandboxed, \* SandboxMode::RequiredLinuxBubblewrap
  validity,  \* ticks until the authorization expires, negative afterwards
  limit,     \* config.timeout of the whole run
  granted,   \* config.timeout of this attempt
  left,      \* ticks until the deadline of this attempt
  polled,    \* the parent has looked since the last tick
  watched,   \* ticks that passed while the parent was polling
  lag,       \* ticks that passed elsewhere since `started`
  attempt,   \* 1, or 2 for the retry
  binary,    \* content of the engine binary
  target,    \* content of the target
  hashed,    \* hashes taken: of the target, before this and before the first attempt
  ran,       \* history: binaries that were executed
  scanned,   \* history: contents the target had while a child was alive
  leader,    \* the child: "none", "alive", "exited"
  status,    \* how it ended: "failure", or with code 0 or 1 after printing an answer
  child,     \* a descendant: "none", "member" of the group, "stray"
  timedOut,  \* timed_out
  pipe,      \* stream -> chunks in the pipe
  written,   \* stream -> chunks written
  kept,      \* stream -> chunks the reader kept
  exceeded,  \* stream -> the reader hit the limit
  budget,    \* the shared AtomicUsize
  files      \* which scan wrote the report and the manifest: 0 an earlier one, 1 this

setup == <<full, sandboxed>>
history == <<ran, scanned>>
clock == <<validity, left, polled, watched, lag>>
world == <<binary, target>>
procs == <<leader, status, child>>
pipes == <<pipe, written, kept, exceeded, budget>>
vars == <<pc, setup, clock, limit, granted, attempt, world, hashed, history, procs, timedOut, pipes, files>>

Ended == {"done", "failed"}
\* A report with a full graph, with a compact one, or no report the adapter understands.
Answers == {"full", "compact", "other"}
Zero == [s \in Streams |-> 0]
None == [s \in Streams |-> FALSE]
Writers == {p \in {"leader", "child"} : IF p = "leader" THEN leader = "alive" ELSE child # "none"}

Init ==
  /\ pc = "start" /\ full \in BOOLEAN /\ sandboxed \in BOOLEAN
  /\ validity \in Validities /\ left = 0 /\ polled = FALSE /\ watched = 0 /\ lag = 0
  /\ limit = 0 /\ granted = 0 /\ attempt = 1
  /\ binary = 0 /\ target = 0 /\ hashed = [target |-> 0, binary |-> 0, first |-> 0]
  /\ ran = {} /\ scanned = {}
  /\ leader = "none" /\ status = "none" /\ child = "none"
  /\ timedOut = FALSE
  /\ pipe = Zero /\ written = Zero /\ kept = Zero /\ exceeded = None /\ budget = 0
  /\ files = [report |-> 0, manifest |-> 0]

Goto(next) == pc' = next
Fail == Goto("failed") /\ UNCHANGED <<setup, clock, limit, granted, attempt, world, hashed, history,
                                      procs, timedOut, pipes, files>>

Expired == validity # NoExpiry /\ validity <= 0

(***************************************************************************)
(* The parent.                                                             *)
(***************************************************************************)

\* Scan: the authorization is checked, then the target is hashed.
HashTarget ==
  /\ pc = "start"
  /\ \/ Expired /\ Fail
     \/ /\ ~Expired
        /\ hashed' = [hashed EXCEPT !.target = target]
        /\ Goto("authorise")
        /\ UNCHANGED <<setup, clock, limit, granted, attempt, world, history, procs, timedOut, pipes, files>>

\* The timeout is shortened to end a margin before the authorization does.
Shortened == IF validity = NoExpiry THEN Timeout ELSE Min({Timeout, validity - Margin})

Authorise ==
  /\ pc = "authorise"
  /\ \/ Shortened <= 0 /\ Fail
     \/ /\ Shortened > 0
        /\ limit' = Shortened /\ granted' = Shortened /\ lag' = 0
        /\ Goto("hash")
        /\ UNCHANGED <<setup, validity, left, polled, watched, attempt, world, hashed, history, procs, timedOut, pipes, files>>

\* run_with_argv hashes the binary before it starts it.
HashBinary ==
  /\ pc = "hash"
  /\ hashed' = [hashed EXCEPT !.binary = binary, !.first = IF attempt = 1 THEN binary ELSE @]
  /\ Goto("spawn")
  /\ UNCHANGED <<setup, clock, limit, granted, attempt, world, history, procs, timedOut, pipes, files>>

\* The child gets a process group, two pipes and a deadline; without its sandbox it
\* is not started (command_for).
Spawn ==
  /\ pc = "spawn"
  /\ \/ Fail
     \/ /\ ran' = ran \cup {binary} /\ scanned' = scanned \cup {target}
        /\ leader' = "alive" /\ status' = "none" /\ child' = "none"
        /\ pipe' = Zero /\ written' = Zero /\ kept' = Zero
        /\ exceeded' = None /\ budget' = MaxOutput
        /\ left' = granted /\ polled' = TRUE /\ timedOut' = FALSE
        /\ Goto("poll")
        /\ UNCHANGED <<setup, validity, watched, lag, limit, granted, attempt, world, hashed, files>>

\* try_wait, then the deadline, then a sleep.
Poll ==
  /\ pc = "poll" /\ (polled => leader = "exited")
  /\ polled' = TRUE
  /\ CASE leader = "exited" -> Goto("join")
       [] leader = "alive" /\ left = 0 -> Goto("terminate")
       [] OTHER -> Goto("poll")
  /\ UNCHANGED <<setup, validity, left, watched, lag, limit, granted, attempt, world, hashed, history,
                 procs, timedOut, pipes, files>>

\* Mutant: only the child is killed, not its group.
SurvivorOfOne(c) == c

\* Bubblewrap dies with its parent and takes its process namespace along.
Survivor(c) == IF c = "stray" /\ ~sandboxed THEN "stray" ELSE "none"

\* terminate_process_tree kills the group and waits for the child, which may have
\* exited by itself since try_wait.
Terminate ==
  /\ pc = "terminate"
  /\ timedOut' = TRUE
  /\ leader' = "exited" /\ status' = IF leader = "exited" THEN status ELSE "failure"
  /\ child' = Survivor(child)
  /\ Goto("join")
  /\ UNCHANGED <<setup, clock, limit, granted, attempt, world, hashed, history, pipes, files>>

\* explicitly_compact_graph
ExplicitlyCompact == ~timedOut /\ kept["stdout"] > 0 /\ status = "compact"

\* Zero bytes are read: the pipe is empty and nobody holds its other end.
EndOfFile(s) == pipe[s] = 0 /\ Writers = {}

\* Both readers are joined, without a deadline; then the binary is hashed again.
Join ==
  /\ pc = "join" /\ \A s \in Streams : EndOfFile(s)
  /\ \/ (binary # hashed.binary \/ \E s \in Streams : exceeded[s]) /\ Fail
     \/ /\ binary = hashed.binary /\ \A s \in Streams : ~exceeded[s]
        /\ Goto(IF attempt = 1 /\ full /\ ExplicitlyCompact THEN "retry" ELSE "ran")
        /\ UNCHANGED <<setup, clock, limit, granted, attempt, world, hashed, history, procs, timedOut, pipes, files>>

\* Mutant: the retry is given the whole timeout again.
RetryFromScratch ==
  /\ pc = "retry"
  /\ \/ limit - (watched + lag) <= 0 /\ Fail
     \/ /\ limit - (watched + lag) > 0
        /\ granted' = limit /\ attempt' = 2
        /\ Goto("hash")
        /\ UNCHANGED <<setup, clock, limit, world, hashed, history, procs, timedOut, pipes, files>>

\* The retry for a full graph runs on what is left since `started`.
Retry ==
  /\ pc = "retry"
  /\ \/ limit - (watched + lag) <= 0 /\ Fail
     \/ /\ limit - (watched + lag) > 0
        /\ granted' = limit - (watched + lag) /\ attempt' = 2
        /\ Goto("hash")
        /\ UNCHANGED <<setup, clock, limit, world, hashed, history, procs, timedOut, pipes, files>>

\* EngineOutput::import_report
Imports ==
  ~timedOut /\ kept["stdout"] > 0 /\ status \in (IF full THEN {"full"} ELSE {"full", "compact"})

\* Mutant: the retried binary is not compared with the first.
UnchangedTarget == target = hashed.target

\* The second attempt ran the binary of the first, and the target is what it was.
Unchanged == hashed.binary = hashed.first /\ target = hashed.target

\* The end of run and what scan checks before it builds and validates the manifest.
Accept ==
  /\ pc = "ran"
  /\ \/ ~(Unchanged /\ ~Expired /\ Imports) /\ Fail
     \/ /\ Unchanged /\ ~Expired /\ Imports
        /\ Goto("report")
        /\ UNCHANGED <<setup, clock, limit, granted, attempt, world, hashed, history, procs, timedOut, pipes, files>>

\* The report replaces the file at its path, then the manifest does.
WriteReport ==
  /\ pc = "report" /\ files' = [files EXCEPT !.report = 1] /\ Goto("manifest")
  /\ UNCHANGED <<setup, clock, limit, granted, attempt, world, hashed, history, procs, timedOut, pipes>>

WriteManifest ==
  /\ pc = "manifest" /\ files' = [files EXCEPT !.manifest = 1] /\ Goto("done")
  /\ UNCHANGED <<setup, clock, limit, granted, attempt, world, hashed, history, procs, timedOut, pipes>>

\* Between the two writes the command may be killed, or the second may fail.
Interrupted ==
  /\ pc = "manifest" /\ Fail

Parent == HashTarget \/ Authorise \/ HashBinary \/ Spawn \/ Poll \/ Terminate \/ Join \/ Retry
          \/ Accept \/ WriteReport \/ WriteManifest

(***************************************************************************)
(* The readers: read_bounded, one thread per stream.                       *)
(***************************************************************************)

\* checked_sub on the shared budget; what fits is kept.
Keeps(s, n) ==
  /\ ~exceeded[s] /\ n <= budget
  /\ budget' = budget - n /\ kept' = [kept EXCEPT ![s] = @ + n]
  /\ UNCHANGED exceeded

\* Mutant: a chunk that does not fit is dropped and forgotten.
Forgets(s, n) ==
  /\ n > budget /\ UNCHANGED <<exceeded, budget, kept>>

\* After a breach the reader drains, so that the child never blocks on a full pipe.
Drops(s, n) ==
  /\ exceeded[s] \/ n > budget
  /\ exceeded' = [exceeded EXCEPT ![s] = TRUE]
  /\ UNCHANGED <<budget, kept>>

Read(s) ==
  /\ pc \notin {"start", "authorise", "hash", "spawn"} \cup Ended
  /\ \E n \in 1..pipe[s] :
       /\ pipe' = [pipe EXCEPT ![s] = @ - n]
       /\ Keeps(s, n) \/ Drops(s, n)
  /\ UNCHANGED <<pc, setup, clock, limit, granted, attempt, world, hashed, history, procs, timedOut,
                 written, files>>

(***************************************************************************)
(* The child, its descendant and the rest of the machine.                  *)
(***************************************************************************)

Emit(s) ==
  /\ Writers # {} /\ pipe[s] < PipeSize /\ written[s] < MaxWritten[s] /\ pc \notin Ended
  /\ pipe' = [pipe EXCEPT ![s] = @ + 1] /\ written' = [written EXCEPT ![s] = @ + 1]
  /\ UNCHANGED <<pc, setup, clock, limit, granted, attempt, world, hashed, history, procs, timedOut,
                 kept, exceeded, budget, files>>

\* A descendant inherits the group and the pipes; outside the sandbox it may leave the group.
Fork ==
  /\ pc \notin Ended /\ leader = "alive" /\ child = "none" /\ child' = "member"
  /\ UNCHANGED <<pc, setup, clock, limit, granted, attempt, world, hashed, history, leader, status,
                 timedOut, pipes, files>>

Leave ==
  /\ pc \notin Ended /\ child = "member" /\ ~sandboxed /\ child' = "stray"
  /\ UNCHANGED <<pc, setup, clock, limit, granted, attempt, world, hashed, history, leader, status,
                 timedOut, pipes, files>>

\* The child ends by itself, by a resource limit or by a signal.
Exit ==
  /\ pc \notin Ended /\ leader = "alive"
  /\ leader' = "exited" /\ status' \in Answers \cup {"failure"}
  /\ child' = IF sandboxed THEN "none" ELSE child
  /\ UNCHANGED <<pc, setup, clock, limit, granted, attempt, world, hashed, history, timedOut,
                 pipes, files>>

ChildExit ==
  /\ pc \notin Ended /\ child # "none" /\ child' = "none"
  /\ UNCHANGED <<pc, setup, clock, limit, granted, attempt, world, hashed, history, leader, status,
                 timedOut, pipes, files>>

\* Every edit leaves a content that was never there before.  Edits before the first hash
\* and after the last check make no difference.
Edit ==
  /\ binary + target < MaxEdits /\ pc \notin {"start", "report", "manifest"} \cup Ended
  /\ \/ binary' = binary + 1 /\ UNCHANGED <<target, scanned>>
     \/ /\ target' = target + 1 /\ UNCHANGED binary
        /\ scanned' = IF leader = "alive" THEN scanned \cup {target'} ELSE scanned
  /\ UNCHANGED <<pc, setup, clock, limit, granted, attempt, hashed, ran, procs, timedOut, pipes, files>>

Tick ==
  /\ pc \notin Ended
  /\ \/ /\ pc = "poll" /\ polled
        /\ polled' = FALSE /\ watched' = watched + 1 /\ left' = Max({left - 1, 0})
        /\ UNCHANGED lag
     \/ /\ pc \notin {"poll", "terminate"} /\ lag < MaxLag
        /\ lag' = lag + 1
        /\ UNCHANGED <<polled, watched, left>>
  /\ validity' = IF validity = NoExpiry THEN NoExpiry ELSE validity - 1
  /\ UNCHANGED <<pc, setup, limit, granted, attempt, world, hashed, history, procs, timedOut, pipes, files>>

Environment == Fork \/ Leave \/ Exit \/ ChildExit \/ Edit \/ Interrupted \/ \E s \in Streams : Emit(s)

Next == Parent \/ Tick \/ Environment \/ \E s \in Streams : Read(s)

\* The parent and the readers are scheduled and time passes; the child owes nothing.
Fairness ==
  /\ WF_vars(Parent) /\ WF_vars(Tick)
  /\ \A s \in Streams : WF_vars(Read(s))

Spec == Init /\ [][Next]_vars /\ Fairness

(***************************************************************************)
(* Properties.                                                             *)
(***************************************************************************)

\* Both attempts together get no more supervised time than one run was granted, and a
\* child still alive has the margin before the expiry left, but for what passed while
\* nobody watched (the deadlines of run and run_with_argv).
StopsInTime ==
  leader = "alive" /\ pc \in {"poll", "terminate"} =>
    watched <= limit /\ (validity # NoExpiry => validity + lag >= Margin)

\* What is reported is all that the child wrote, within the limit the two streams
\* share, and the child was not killed for it (read_bounded, import_report).
ReportIsWhole ==
  pc \in {"report", "manifest", "done"} =>
    ~timedOut /\ kept = written /\ kept["stdout"] + kept["stderr"] <= MaxOutput

\* A manifest speaks of one binary and one target, in both attempts and all the time
\* they ran, and of the report that lies beside it (scan).
ManifestIsOneRun ==
  files.manifest = 1 =>
    /\ ran = {hashed.binary} /\ scanned = {hashed.target}
    /\ files.report = 1

\* A descendant no kill is for: it left the group, or outlived a child that exited itself.
OutOfReach == child = "stray" \/ (child = "member" /\ leader = "exited" /\ ~timedOut)

\* The command ends whatever the child does, inside the sandbox without condition and
\* outside of it when no descendant stays out of reach (the loop, the kill, the joins).
RunEnds == (sandboxed \/ <>[]~OutOfReach) => <>(pc \in Ended)
=============================================================================
