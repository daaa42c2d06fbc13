-------------------------- MODULE EngineRunProofs --------------------------
(***************************************************************************)
(* Theorems about one scan, for every timeout, margin, expiry, output      *)
(* limit and pipe size, and for any number of delays and edits.            *)
(*                                                                         *)
(* The inductive invariant has four parts.  Typed says what a state is;    *)
(* Supervised how the clocks of the deadline and of the authorization      *)
(* relate; Accounted where every chunk that was written is; Traced which   *)
(* contents can have been run and scanned, given the hashes that were      *)
(* taken.  Supervised and Traced use Accounted for who may still be alive. *)
(***************************************************************************)
EXTENDS EngineRun, TLAPS

(***************************************************************************)
(* The inductive invariant.                                                *)
(***************************************************************************)

Before == {"start", "authorise", "hash", "spawn"}
Running == {"poll", "terminate", "join"}
Written == {"report", "manifest", "done"}
After == {"retry", "ran"} \cup Written

Typed ==
  /\ pc \in Before \cup Running \cup After \cup {"failed"}
  /\ full \in BOOLEAN /\ sandboxed \in BOOLEAN /\ polled \in BOOLEAN /\ timedOut \in BOOLEAN
  /\ validity \in Int \cup {NoExpiry}
  /\ limit \in Nat /\ granted \in Nat /\ left \in Nat /\ watched \in Nat /\ lag \in Nat
  /\ attempt \in {1, 2}
  /\ binary \in Nat /\ target \in Nat
  /\ hashed \in [target : Nat, binary : Nat, first : Nat]
  /\ ran \subseteq Nat /\ scanned \subseteq Nat
  /\ leader \in {"none", "alive", "exited"}
  /\ status \in Answers \cup {"none", "failure"}
  /\ child \in {"none", "member", "stray"}
  /\ pipe \in [Streams -> Nat] /\ written \in [Streams -> Nat] /\ kept \in [Streams -> Nat]
  /\ exceeded \in [Streams -> BOOLEAN] /\ budget \in Nat
  /\ files \in [report : {0, 1}, manifest : {0, 1}]

\* A tick the parent supervises comes off the deadline, any other off the lag, and the
\* authorization outlives the limit by the margin but for the ticks spent.
Supervised ==
  /\ pc \in {"start", "authorise"} => watched = 0
  /\ pc \in {"hash", "spawn"} => granted > 0 /\ watched + granted <= limit
  /\ pc = "poll" => watched + left <= limit /\ (polled => left > 0)
  /\ pc = "terminate" => watched <= limit
  /\ pc \notin {"start", "authorise", "failed"} /\ validity # NoExpiry =>
       validity + lag + watched >= limit + Margin

\* Outside of an attempt nobody holds the pipes.  Until a stream breaches the limit its
\* chunks are in the pipe or kept, and after the joins all of them are kept.
Accounted ==
  /\ pc \notin Running => leader # "alive" /\ child = "none"
  /\ pc \in Running => leader # "none"
  /\ pc = "join" => leader = "exited"
  /\ pc \in Running \cup After =>
       /\ budget + kept["stdout"] + kept["stderr"] = MaxOutput
       /\ \A s \in Streams : ~exceeded[s] => written[s] = kept[s] + pipe[s]
  /\ pc \in After => \A s \in Streams : pipe[s] = 0 /\ ~exceeded[s]
  /\ pc \in Written => ~timedOut

\* A content that was run or scanned lies between the hash taken before and the present
\* one, so that two equal hashes leave no room for another.
Traced ==
  /\ hashed.first <= hashed.binary /\ hashed.binary <= binary /\ hashed.target <= target
  /\ attempt = 1 => hashed.first = hashed.binary
  /\ attempt = 1 /\ pc \in Before => ran = {} /\ scanned = {}
  /\ pc \in Before => ran \subseteq {hashed.first}
  /\ pc \in Running => \A b \in ran : b = hashed.first \/ (hashed.binary <= b /\ b <= binary)
  /\ pc \in After => ran \subseteq {hashed.first, hashed.binary}
  /\ \A t \in scanned : hashed.target <= t /\ t <= target
  /\ attempt = 2 \/ pc \in Running \cup After => ran # {} /\ scanned # {}
  /\ pc \in Written => hashed.binary = hashed.first /\ target = hashed.target
  /\ pc \in {"start", "authorise", "retry"} => attempt = 1
  /\ pc \in {"manifest", "done"} => files.report = 1
  /\ files.manifest = 1 => pc = "done"

Inv == Typed /\ Supervised /\ Accounted /\ Traced

(***************************************************************************)
(* Helpers.                                                                *)
(***************************************************************************)

\* The lesser of two ticks, as the shortened timeout takes it.
LEMMA MinOfTwo ==
  ASSUME NEW a \in Int, NEW b \in Int
  PROVE  Min({a, b}) \in {a, b} /\ Min({a, b}) <= a /\ Min({a, b}) <= b
<1>1. \E x \in {a, b} : \A y \in {a, b} : x <= y
  OBVIOUS
<1> QED
  BY <1>1 DEF Min

\* The deadline stays at zero once it has passed (Duration::ZERO).
LEMMA MaxOfTwo ==
  ASSUME NEW a \in Int, NEW b \in Int
  PROVE  Max({a, b}) \in {a, b} /\ Max({a, b}) >= a /\ Max({a, b}) >= b
<1>1. \E x \in {a, b} : \A y \in {a, b} : x >= y
  OBVIOUS
<1> QED
  BY <1>1 DEF Max

\* What is granted to the run ends the margin before the authorization does.
LEMMA ShortenedEnds ==
  ASSUME Typed, Shortened > 0
  PROVE  Shortened \in Nat /\ (validity # NoExpiry => Shortened + Margin <= validity)
<1>1. CASE validity = NoExpiry
  BY <1>1, EngineAssumption DEF Shortened
<1>2. CASE validity # NoExpiry
  <2>1. validity \in Int /\ Timeout \in Int /\ Margin \in Int
    BY <1>2, EngineAssumption DEF Typed
  <2>2. validity - Margin \in Int
    BY <2>1
  <2>3. Shortened \in {Timeout, validity - Margin} /\ Shortened <= validity - Margin
    BY <1>2, <2>1, <2>2, MinOfTwo DEF Shortened
  <2> QED
    BY <2>1, <2>2, <2>3
<1> QED
  BY <1>1, <1>2

\* A read moves chunks of one stream out of its pipe and either keeps them or drops them.
LEMMA ReadMoves ==
  ASSUME Typed, NEW s \in Streams, Read(s)
  PROVE  \E n \in Nat \ {0} :
           /\ n <= pipe[s] /\ pipe' = [pipe EXCEPT ![s] = pipe[s] - n]
           /\ \/ /\ ~exceeded[s] /\ n <= budget /\ budget' = budget - n
                 /\ kept' = [kept EXCEPT ![s] = kept[s] + n] /\ exceeded' = exceeded
              \/ /\ exceeded' = [exceeded EXCEPT ![s] = TRUE]
                 /\ budget' = budget /\ kept' = kept
<1>1. PICK n \in 1..pipe[s] :
        /\ pipe' = [pipe EXCEPT ![s] = @ - n]
        /\ Keeps(s, n) \/ Drops(s, n)
  BY DEF Read
<1>2. n \in Nat \ {0} /\ n <= pipe[s]
  BY <1>1 DEF Typed
<1> QED
  BY <1>1, <1>2 DEF Keeps, Drops

\* A tick is counted once, as watched and off the deadline or as a lag.
LEMMA TickMoves ==
  ASSUME Typed, Tick
  PROVE  \/ /\ pc = "poll" /\ polled /\ polled' = FALSE
            /\ watched' = watched + 1 /\ lag' = lag
            /\ left' \in Nat /\ (left > 0 => left' = left - 1)
         \/ /\ pc \notin {"poll", "terminate"} /\ lag' = lag + 1
            /\ UNCHANGED <<polled, watched, left>>
<1>1. left \in Int /\ left - 1 \in Int /\ left >= 0
  BY DEF Typed
<1>2. /\ Max({left - 1, 0}) \in {left - 1, 0}
      /\ Max({left - 1, 0}) >= left - 1 /\ Max({left - 1, 0}) >= 0
  BY <1>1, MaxOfTwo
<1>3. Max({left - 1, 0}) \in Nat /\ (left > 0 => Max({left - 1, 0}) = left - 1)
  BY <1>1, <1>2
<1> QED
  BY <1>3 DEF Tick

(***************************************************************************)
(* Well-formed states.                                                     *)
(***************************************************************************)

\* The command starts in a well-formed state.
LEMMA InitTyped == Init => Typed
<1> SUFFICES ASSUME Init PROVE Typed
  OBVIOUS
<1>1. /\ Zero \in [Streams -> Nat] /\ None \in [Streams -> BOOLEAN]
      /\ [target |-> 0, binary |-> 0, first |-> 0] \in [target : Nat, binary : Nat, first : Nat]
      /\ [report |-> 0, manifest |-> 0] \in [report : {0, 1}, manifest : {0, 1}]
  BY DEF Zero, None
<1>2. validity \in Int \cup {NoExpiry}
  BY EngineAssumption DEF Init
<1> QED
  BY <1>1, <1>2 DEF Init, Typed, Before

\* Every step of run, run_with_argv and scan leaves a well-formed state.
LEMMA ParentTyped ==
  ASSUME Typed, Parent
  PROVE  Typed'
<1> USE DEF Before, Running, After, Written, setup, history, clock, world, procs, pipes
<1>1. CASE HashTarget
  BY <1>1 DEF HashTarget, Typed, Fail, Goto
<1>2. CASE Authorise
  <2>1. CASE Fail
    BY <2>1 DEF Typed, Fail, Goto
  <2>2. CASE ~Fail
    <3>1. limit' \in Nat /\ granted' \in Nat
      BY <1>2, <2>2, ShortenedEnds DEF Authorise
    <3>2. /\ pc' = "hash" /\ lag' = 0
          /\ UNCHANGED <<setup, validity, left, polled, watched, attempt, world, hashed, history, procs, timedOut, pipes, files>>
      BY <1>2, <2>2 DEF Authorise, Goto
    <3> QED
      BY <3>1, <3>2 DEF Typed
  <2> QED
    BY <2>1, <2>2
<1>3. CASE HashBinary
  <2>1. hashed' \in [target : Nat, binary : Nat, first : Nat]
    BY <1>3 DEF HashBinary, Typed
  <2> QED
    BY <1>3, <2>1 DEF HashBinary, Typed, Goto
<1>4. CASE Spawn
  <2>1. Zero \in [Streams -> Nat] /\ None \in [Streams -> BOOLEAN] /\ MaxOutput \in Nat
    BY EngineAssumption DEF Zero, None
  <2> QED
    BY <1>4, <2>1 DEF Spawn, Typed, Fail, Goto
<1>5. CASE Poll
  BY <1>5 DEF Poll, Typed, Goto
<1>6. CASE Terminate
  BY <1>6 DEF Terminate, Typed, Goto, Survivor
<1>7. CASE Join
  BY <1>7, ZenonT(30) DEF Join, Typed, Fail, Goto
<1>8. CASE Retry
  <2>1. limit - (watched + lag) > 0 => limit - (watched + lag) \in Nat
    BY DEF Typed
  <2> QED
    BY <1>8, <2>1, ZenonT(30) DEF Retry, Typed, Fail, Goto
<1>9. CASE Accept
  BY <1>9, ZenonT(30) DEF Accept, Typed, Fail, Goto
<1>10. CASE WriteReport
  BY <1>10 DEF WriteReport, Typed, Goto
<1>11. CASE WriteManifest
  BY <1>11 DEF WriteManifest, Typed, Goto
<1> QED
  BY <1>1, <1>2, <1>3, <1>4, <1>5, <1>6, <1>7, <1>8, <1>9, <1>10, <1>11 DEF Parent

\* So does time passing, with the deadline cut off at zero.
LEMMA TickTyped ==
  ASSUME Typed, Tick
  PROVE  Typed'
<1>1. left' \in Nat /\ watched' \in Nat /\ lag' \in Nat /\ polled' \in BOOLEAN
  <2>1. left \in Nat /\ watched \in Nat /\ lag \in Nat /\ polled \in BOOLEAN
    BY DEF Typed
  <2>2. polled' \in {polled, FALSE}
    BY TickMoves
  <2>3. watched' \in {watched, watched + 1} /\ lag' \in {lag, lag + 1} /\ (left' = left \/ left' \in Nat)
    BY TickMoves
  <2>4. polled' \in BOOLEAN
    BY <2>1, <2>2
  <2> QED
    BY <2>1, <2>3, <2>4
<1>2. validity' \in Int \cup {NoExpiry}
  BY EngineAssumption DEF Tick, Typed
<1>3. UNCHANGED <<pc, setup, limit, granted, attempt, world, hashed, history, procs, timedOut, pipes, files>>
  BY DEF Tick
<1> QED
  BY <1>1, <1>2, <1>3 DEF Typed, setup, world, history, procs, pipes

\* So does a read: it takes no more than the pipe holds and the budget has.
LEMMA ReadTyped ==
  ASSUME Typed, NEW s \in Streams, Read(s)
  PROVE  Typed'
<1>1. PICK n \in Nat \ {0} :
        /\ n <= pipe[s] /\ pipe' = [pipe EXCEPT ![s] = pipe[s] - n]
        /\ \/ /\ ~exceeded[s] /\ n <= budget /\ budget' = budget - n
              /\ kept' = [kept EXCEPT ![s] = kept[s] + n] /\ exceeded' = exceeded
           \/ /\ exceeded' = [exceeded EXCEPT ![s] = TRUE]
              /\ budget' = budget /\ kept' = kept
  BY ReadMoves
<1>2. pipe' \in [Streams -> Nat] /\ kept' \in [Streams -> Nat] /\ budget' \in Nat
  BY <1>1 DEF Typed
<1>3. exceeded' \in [Streams -> BOOLEAN]
  BY <1>1 DEF Typed
<1>4. UNCHANGED <<pc, setup, clock, limit, granted, attempt, world, hashed, history, procs, timedOut, written, files>>
  BY DEF Read
<1> QED
  BY <1>2, <1>3, <1>4 DEF Typed, setup, clock, world, history, procs

\* So do the child, its descendant and whoever edits the files.
LEMMA EnvironmentTyped ==
  ASSUME Typed, Environment
  PROVE  Typed'
<1> USE DEF setup, history, clock, world, procs, pipes
<1>1. CASE Fork
  BY <1>1 DEF Fork, Typed
<1>2. CASE Leave
  BY <1>2 DEF Leave, Typed
<1>3. CASE Exit
  BY <1>3 DEF Exit, Typed
<1>4. CASE ChildExit
  BY <1>4 DEF ChildExit, Typed
<1>5. CASE Edit
  <2>1. binary' \in Nat /\ target' \in Nat
    BY <1>5 DEF Edit, Typed
  <2>2. scanned' \subseteq scanned \cup {target'}
    BY <1>5 DEF Edit
  <2> QED
    BY <1>5, <2>1, <2>2 DEF Edit, Typed
<1>6. CASE Interrupted
  BY <1>6 DEF Interrupted, Fail, Goto, Typed
<1>7. ASSUME NEW s \in Streams, Emit(s) PROVE Typed'
  BY <1>7 DEF Emit, Typed
<1> QED
  BY <1>1, <1>2, <1>3, <1>4, <1>5, <1>6, <1>7 DEF Environment

\* Every step leaves a well-formed state.
LEMMA TypedInductive == Typed /\ [Next]_vars => Typed'
<1> SUFFICES ASSUME Typed, [Next]_vars PROVE Typed'
  OBVIOUS
<1>1. CASE Parent
  BY <1>1, ParentTyped
<1>2. CASE Tick
  BY <1>2, TickTyped
<1>3. CASE Environment
  BY <1>3, EnvironmentTyped
<1>4. ASSUME NEW s \in Streams, Read(s) PROVE Typed'
  BY <1>4, ReadTyped
<1>5. CASE UNCHANGED vars
  BY <1>5 DEF vars, setup, history, clock, world, procs, pipes, Typed
<1> QED
  BY <1>1, <1>2, <1>3, <1>4, <1>5 DEF Next

(***************************************************************************)
(* The deadline and the expiry.                                            *)
(***************************************************************************)

\* The parent grants no attempt more than is left of the limit, and asks for none that
\* outlasts the authorization (Authorise, Retry, and the order of try_wait and deadline).
LEMMA ParentSupervised ==
  ASSUME Typed, Supervised, Accounted, Parent
  PROVE  Supervised'
<1> USE DEF clock, Supervised
<1>1. CASE Fail
  BY <1>1 DEF Fail, Goto
<1>2. CASE HashTarget
  BY <1>1, <1>2 DEF HashTarget, Goto
<1>3. CASE Authorise /\ ~Fail
  <2>1. /\ Shortened \in Nat /\ Shortened > 0
        /\ validity # NoExpiry => Shortened + Margin <= validity
    BY <1>3, ShortenedEnds DEF Authorise
  <2>2. limit' = Shortened /\ granted' = Shortened /\ lag' = 0 /\ pc' = "hash"
        /\ pc = "authorise" /\ watched' = watched /\ validity' = validity
    BY <1>3 DEF Authorise, Goto
  <2> QED
    BY <2>1, <2>2, EngineAssumption DEF Typed
<1>4. CASE HashBinary
  BY <1>4 DEF HashBinary, Goto
<1>5. CASE Spawn
  BY <1>1, <1>5 DEF Spawn, Goto
<1>6. CASE Poll
  <2>1. left \in Nat /\ leader \in {"alive", "exited"}
    BY <1>6 DEF Poll, Typed, Accounted, Running
  <2>2. pc = "poll" /\ polled' = TRUE /\ UNCHANGED <<validity, left, watched, lag, limit, granted>>
    BY <1>6 DEF Poll
  <2>3. pc' \in {"join", "terminate"} \/ (pc' = "poll" /\ left > 0)
    BY <1>6, <2>1 DEF Poll, Goto
  <2> QED
    BY <2>1, <2>2, <2>3 DEF Typed
<1>7. CASE Terminate
  BY <1>7 DEF Terminate, Goto
<1>8. CASE Join
  BY <1>1, <1>8 DEF Join, Goto
<1>9. CASE Retry /\ ~Fail
  BY <1>9, EngineAssumption DEF Retry, Goto, Typed
<1>10. CASE Accept
  BY <1>1, <1>10 DEF Accept, Goto
<1>11. CASE WriteReport
  BY <1>11 DEF WriteReport, Goto
<1>12. CASE WriteManifest
  BY <1>12 DEF WriteManifest, Goto
<1> QED
  BY <1>1, <1>2, <1>3, <1>4, <1>5, <1>6, <1>7, <1>8, <1>9, <1>10, <1>11, <1>12 DEF Parent

\* Only the parent and time move the clocks: the machine and the readers do not.
LEMMA OthersSupervised ==
  ASSUME Typed, Supervised, Environment \/ \E s \in Streams : Read(s)
  PROVE  Supervised'
<1>1. CASE Interrupted
  BY <1>1 DEF Interrupted, Fail, Goto, Supervised, clock
<1>2. CASE Fork \/ Leave \/ Exit \/ ChildExit \/ Edit \/ (\E s \in Streams : Emit(s) \/ Read(s))
  <2>1. UNCHANGED <<pc, clock, limit, granted>>
    BY <1>2 DEF Fork, Leave, Exit, ChildExit, Edit, Emit, Read
  <2> QED
    BY <2>1 DEF Supervised, clock
<1> QED
  BY <1>1, <1>2 DEF Environment

\* A supervised tick keeps watched + left, and every tick takes from the validity what
\* it adds to watched or lag.
LEMMA TickSupervised ==
  ASSUME Typed, Supervised, Tick
  PROVE  Supervised'
<1>1. UNCHANGED <<pc, limit, granted>> /\ pc \in Before \cup Running \cup After
  BY DEF Tick, Typed, Ended, After, Written
<1>2. /\ limit \in Nat /\ granted \in Nat /\ left \in Nat /\ watched \in Nat /\ lag \in Nat
      /\ Margin \in Nat
  BY EngineAssumption DEF Typed
<1>3. validity' # NoExpiry =>
        validity # NoExpiry /\ validity \in Int /\ validity' = validity - 1
  BY EngineAssumption DEF Tick, Typed
<1>4. CASE /\ pc = "poll" /\ polled /\ polled' = FALSE
           /\ watched' = watched + 1 /\ lag' = lag
           /\ left' \in Nat /\ (left > 0 => left' = left - 1)
  BY <1>1, <1>2, <1>3, <1>4 DEF Supervised
<1>5. CASE /\ pc \notin {"poll", "terminate"} /\ lag' = lag + 1
           /\ UNCHANGED <<polled, watched, left>>
  BY <1>1, <1>2, <1>3, <1>5 DEF Supervised
<1> QED
  BY <1>4, <1>5, TickMoves

\* Every step keeps the deadline within the limit and the expiry behind the margin.
LEMMA SupervisedInductive ==
  Typed /\ Supervised /\ Accounted /\ [Next]_vars => Supervised'
<1> SUFFICES ASSUME Typed, Supervised, Accounted, [Next]_vars PROVE Supervised'
  OBVIOUS
<1>1. CASE UNCHANGED vars
  BY <1>1 DEF vars, clock, Supervised
<1> QED
  BY <1>1, ParentSupervised, OthersSupervised, TickSupervised DEF Next

(***************************************************************************)
(* The output.                                                             *)
(***************************************************************************)

\* The readers' pipes are at their ends only when nobody can write any more.
LEMMA EndsAreQuiet ==
  ASSUME Typed, \A s \in Streams : EndOfFile(s)
  PROVE  leader # "alive" /\ child = "none" /\ \A s \in Streams : pipe[s] = 0
<1>1. Writers = {} /\ \A s \in Streams : pipe[s] = 0
  BY DEF EndOfFile, Streams
<1>2. leader # "alive"
  BY <1>1 DEF Writers
<1>3. child = "none"
  BY <1>1 DEF Writers
<1> QED
  BY <1>1, <1>2, <1>3

\* The parent starts an attempt with empty books and ends it with nobody at the pipes.
LEMMA ParentAccounted ==
  ASSUME Typed, Accounted, Parent
  PROVE  Accounted'
<1> USE DEF Accounted, Running, After, Written, procs, pipes
<1>1. ASSUME Fail, leader # "alive", child = "none" PROVE Accounted'
  BY <1>1 DEF Fail, Goto
<1>2. CASE HashTarget
  BY <1>1, <1>2 DEF HashTarget, Goto
<1>3. CASE Authorise
  BY <1>1, <1>3 DEF Authorise, Goto
<1>4. CASE HashBinary
  BY <1>4 DEF HashBinary, Goto
<1>5. CASE Spawn
  <2>1. CASE Fail
    BY <1>1, <1>5, <2>1 DEF Spawn
  <2>2. CASE ~Fail
    <3>1. /\ pc' = "poll" /\ leader' = "alive" /\ budget' = MaxOutput
          /\ pipe' = Zero /\ written' = Zero /\ kept' = Zero
      BY <1>5, <2>2 DEF Spawn, Goto
    <3>2. MaxOutput \in Nat /\ \A s \in Streams : Zero[s] = 0
      BY EngineAssumption DEF Zero
    <3>3. Zero["stdout"] = 0 /\ Zero["stderr"] = 0
      BY <3>2 DEF Streams
    <3>4. budget' + kept'["stdout"] + kept'["stderr"] = MaxOutput
      BY <3>1, <3>2, <3>3
    <3>5. \A s \in Streams : written'[s] = kept'[s] + pipe'[s]
      BY <3>1, <3>2
    <3> QED
      BY <3>1, <3>4, <3>5
  <2> QED
    BY <2>1, <2>2
<1>6. CASE Poll
  BY <1>6 DEF Poll, Goto
<1>7. CASE Terminate
  BY <1>7 DEF Terminate, Goto
<1>8. CASE Join
  <2>1. leader # "alive" /\ child = "none" /\ \A s \in Streams : pipe[s] = 0
    BY <1>8, EndsAreQuiet DEF Join
  <2> QED
    BY <1>1, <1>8, <2>1 DEF Join, Goto
<1>9. CASE Retry
  BY <1>1, <1>9 DEF Retry, Goto
<1>10. CASE Accept
  BY <1>1, <1>10 DEF Accept, Goto, Imports
<1>11. CASE WriteReport
  BY <1>11 DEF WriteReport, Goto
<1>12. CASE WriteManifest
  BY <1>12 DEF WriteManifest, Goto
<1> QED
  BY <1>2, <1>3, <1>4, <1>5, <1>6, <1>7, <1>8, <1>9, <1>10, <1>11, <1>12 DEF Parent

\* What a reader keeps comes out of the budget and out of the pipe; what it drops leaves
\* the breach recorded.
LEMMA ReadAccounted ==
  ASSUME Typed, Accounted, NEW s \in Streams, Read(s)
  PROVE  Accounted'
<1>1. PICK n \in Nat \ {0} :
        /\ n <= pipe[s] /\ pipe' = [pipe EXCEPT ![s] = pipe[s] - n]
        /\ \/ /\ ~exceeded[s] /\ n <= budget /\ budget' = budget - n
              /\ kept' = [kept EXCEPT ![s] = kept[s] + n] /\ exceeded' = exceeded
           \/ /\ exceeded' = [exceeded EXCEPT ![s] = TRUE]
              /\ budget' = budget /\ kept' = kept
  BY ReadMoves
<1>2. UNCHANGED <<pc, written, leader, child, timedOut>>
  BY DEF Read, procs
<1>3. /\ pipe \in [Streams -> Nat] /\ kept \in [Streams -> Nat] /\ written \in [Streams -> Nat]
      /\ exceeded \in [Streams -> BOOLEAN] /\ budget \in Nat
  BY DEF Typed
<1>4. pc \in Running
  <2>1. pipe[s] # 0
    BY <1>1, <1>3
  <2>2. pc \notin After
    BY <2>1 DEF Accounted
  <2> QED
    BY <2>2 DEF Read, Ended, Typed, Before
<1>5. pc \notin After /\ pc \notin Written
  BY <1>4 DEF Running, After, Written
<1>6. CASE /\ ~exceeded[s] /\ n <= budget /\ budget' = budget - n
           /\ kept' = [kept EXCEPT ![s] = kept[s] + n] /\ exceeded' = exceeded
  <2>1. budget' + kept'["stdout"] + kept'["stderr"] = MaxOutput
    <3>1. /\ budget + kept["stdout"] + kept["stderr"] = MaxOutput
          /\ kept["stdout"] \in Nat /\ kept["stderr"] \in Nat /\ s \in {"stdout", "stderr"}
      BY <1>3, <1>4 DEF Accounted, Streams
    <3>2. CASE s = "stdout"
      BY <1>3, <1>6, <3>1, <3>2 DEF Streams
    <3>3. CASE s = "stderr"
      BY <1>3, <1>6, <3>1, <3>3 DEF Streams
    <3> QED
      BY <3>1, <3>2, <3>3
  <2>2. ASSUME NEW t \in Streams, ~exceeded'[t] PROVE written'[t] = kept'[t] + pipe'[t]
    <3>1. written[t] = kept[t] + pipe[t]
      BY <1>4, <1>6, <2>2 DEF Accounted
    <3>2. kept'[t] + pipe'[t] = kept[t] + pipe[t]
      BY <1>1, <1>3, <1>6
    <3> QED
      BY <1>2, <3>1, <3>2
  <2> QED
    BY <1>2, <1>4, <1>5, <2>1, <2>2 DEF Accounted
<1>7. CASE /\ exceeded' = [exceeded EXCEPT ![s] = TRUE]
           /\ budget' = budget /\ kept' = kept
  <2>1. ASSUME NEW t \in Streams, ~exceeded'[t] PROVE written'[t] = kept'[t] + pipe'[t]
    <3>1. t # s /\ ~exceeded[t]
      BY <1>3, <1>7, <2>1
    <3>2. pipe'[t] = pipe[t]
      BY <1>1, <1>3, <3>1
    <3> QED
      BY <1>2, <1>4, <1>7, <3>1, <3>2 DEF Accounted
  <2> QED
    BY <1>2, <1>4, <1>5, <1>7, <2>1 DEF Accounted
<1> QED
  BY <1>1, <1>6, <1>7

\* What a child writes is in the pipe, and only a child that is alive writes.
LEMMA EnvironmentAccounted ==
  ASSUME Typed, Accounted, Environment \/ Tick
  PROVE  Accounted'
<1> USE DEF procs
<1>1. CASE Fork
  BY <1>1 DEF Fork, Accounted, Running, pipes
<1>2. CASE Leave
  BY <1>2 DEF Leave, Accounted, Running, pipes
<1>3. CASE Exit
  BY <1>3 DEF Exit, Accounted, Running, pipes
<1>4. CASE ChildExit
  BY <1>4 DEF ChildExit, Accounted, Running, pipes
<1>5. CASE Edit \/ Tick
  BY <1>5 DEF Edit, Tick, Accounted, pipes
<1>6. CASE Interrupted
  BY <1>6 DEF Interrupted, Fail, Goto, Accounted, Running, After, Written, pipes
<1>7. ASSUME NEW s \in Streams, Emit(s) PROVE Accounted'
  <2>1. Writers # {}
    BY <1>7 DEF Emit
  <2>2. pc \in Running
    BY <2>1 DEF Writers, Accounted
  <2>3. pc \notin After /\ pc \notin Written
    BY <2>2 DEF Running, After, Written
  <2>4. /\ pipe' = [pipe EXCEPT ![s] = pipe[s] + 1] /\ written' = [written EXCEPT ![s] = written[s] + 1]
        /\ UNCHANGED <<pc, leader, child, timedOut, kept, exceeded, budget>>
    BY <1>7 DEF Emit
  <2>5. ASSUME NEW t \in Streams, ~exceeded[t] PROVE written'[t] = kept[t] + pipe'[t]
    <3>1. written[t] = kept[t] + pipe[t] /\ written[t] \in Nat /\ kept[t] \in Nat /\ pipe[t] \in Nat
      BY <2>2, <2>5 DEF Accounted, Typed
    <3>2. CASE t = s
      BY <2>4, <3>1, <3>2 DEF Typed
    <3>3. CASE t # s
      BY <2>4, <3>1, <3>3 DEF Typed
    <3> QED
      BY <3>2, <3>3
  <2> QED
    BY <2>2, <2>3, <2>4, <2>5 DEF Accounted
<1> QED
  BY <1>1, <1>2, <1>3, <1>4, <1>5, <1>6, <1>7 DEF Environment

\* Every step keeps every chunk accounted for.
LEMMA AccountedInductive == Typed /\ Accounted /\ [Next]_vars => Accounted'
<1> SUFFICES ASSUME Typed, Accounted, [Next]_vars PROVE Accounted'
  OBVIOUS
<1>1. CASE UNCHANGED vars
  BY <1>1 DEF vars, procs, pipes, Accounted
<1> QED
  BY <1>1, ParentAccounted, EnvironmentAccounted, ReadAccounted DEF Next

(***************************************************************************)
(* The contents.                                                           *)
(***************************************************************************)

\* Outside of an attempt nothing is alive, so an edit there is not scanned; an edit of
\* the binary or the target only moves the upper end of what can have been seen.
LEMMA EditTraced ==
  ASSUME Typed, Accounted, Traced, Edit
  PROVE  Traced'
<1>1. /\ UNCHANGED <<pc, attempt, hashed, ran, files>>
      /\ pc \notin Written /\ pc # "start"
  BY DEF Edit, Written, Ended
<1>2. /\ binary \in Nat /\ target \in Nat /\ hashed.target \in Nat /\ hashed.binary \in Nat
      /\ hashed.first \in Nat /\ ran \subseteq Nat /\ scanned \subseteq Nat
  BY DEF Typed
<1>3. /\ binary <= binary' /\ binary' \in Nat /\ target <= target' /\ target' \in Nat
  BY <1>2 DEF Edit
<1>4. scanned \subseteq scanned' /\ scanned' \subseteq scanned \cup {target'}
      /\ (pc \in Before => scanned' = scanned)
  BY DEF Edit, Accounted, Before, Running
<1>5. \A t \in scanned' : hashed.target <= t /\ t <= target'
  BY <1>2, <1>3, <1>4 DEF Traced
<1>6. pc \in Running => \A b \in ran : b = hashed.first \/ (hashed.binary <= b /\ b <= binary')
  BY <1>2, <1>3 DEF Traced
<1>7. hashed.binary <= binary' /\ hashed.target <= target'
  BY <1>2, <1>3 DEF Traced
<1> QED
  BY <1>1, <1>4, <1>5, <1>6, <1>7 DEF Traced

\* Hashes bound what is run: before a spawn from below, after the join from above.
LEMMA ParentTraced ==
  ASSUME Typed, Traced, Parent
  PROVE  Traced'
<1>0. /\ binary \in Nat /\ target \in Nat /\ hashed.target \in Nat /\ hashed.binary \in Nat
      /\ hashed.first \in Nat /\ ran \subseteq Nat /\ scanned \subseteq Nat /\ attempt \in {1, 2}
      /\ hashed \in [target : Nat, binary : Nat, first : Nat]
      /\ files \in [report : {0, 1}, manifest : {0, 1}]
  BY DEF Typed
<1> USE DEF Before, Running, After, Written, world, history
<1>1. CASE Fail
  BY <1>1 DEF Fail, Goto, Parent, Traced, HashTarget, Authorise, HashBinary, Spawn, Poll, Terminate,
              Join, Retry, Accept, WriteReport, WriteManifest
<1>2. CASE HashTarget /\ ~Fail
  <2>1. /\ hashed'.target = target /\ hashed'.binary = hashed.binary /\ hashed'.first = hashed.first
        /\ pc = "start" /\ pc' = "authorise"
        /\ UNCHANGED <<attempt, binary, target, ran, scanned, files>>
    BY <1>0, <1>2 DEF HashTarget, Goto
  <2> QED
    BY <1>0, <2>1 DEF Traced
<1>3. CASE Authorise /\ ~Fail
  BY <1>3 DEF Authorise, Goto, Traced
<1>4. CASE HashBinary
  <2>1. /\ hashed'.target = hashed.target /\ hashed'.binary = binary
        /\ hashed'.first = IF attempt = 1 THEN binary ELSE hashed.first
        /\ pc = "hash" /\ pc' = "spawn"
        /\ UNCHANGED <<attempt, binary, target, ran, scanned, files>>
    BY <1>0, <1>4 DEF HashBinary, Goto
  <2> QED
    BY <1>0, <2>1 DEF Traced
<1>5. CASE Spawn /\ ~Fail
  <2>1. /\ pc = "spawn" /\ pc' = "poll" /\ ran' = ran \cup {binary} /\ scanned' = scanned \cup {target}
        /\ UNCHANGED <<attempt, binary, target, hashed, files>>
    BY <1>5 DEF Spawn, Goto
  <2>2. \A b \in ran' : b = hashed.first \/ (hashed.binary <= b /\ b <= binary)
    BY <1>0, <2>1 DEF Traced
  <2>3. \A t \in scanned' : hashed.target <= t /\ t <= target
    BY <1>0, <2>1 DEF Traced
  <2> QED
    BY <2>1, <2>2, <2>3 DEF Traced
<1>6. CASE Poll
  BY <1>6 DEF Poll, Goto, Traced
<1>7. CASE Terminate
  BY <1>7 DEF Terminate, Goto, Traced
<1>8. CASE Join /\ ~Fail
  <2>1. /\ binary = hashed.binary /\ pc = "join" /\ pc' \in {"retry", "ran"}
        /\ pc' = "retry" => attempt = 1
        /\ UNCHANGED <<attempt, binary, target, hashed, ran, scanned, files>>
    BY <1>8 DEF Join, Goto
  <2>2. ran \subseteq {hashed.first, hashed.binary}
    BY <1>0, <2>1 DEF Traced
  <2> QED
    BY <1>0, <2>1, <2>2 DEF Traced
<1>9. CASE Retry /\ ~Fail
  <2>1. /\ pc = "retry" /\ pc' = "hash" /\ attempt' = 2
        /\ UNCHANGED <<binary, target, hashed, ran, scanned, files>>
    BY <1>9 DEF Retry, Goto
  <2>2. hashed.first = hashed.binary /\ ran \subseteq {hashed.first}
    BY <2>1 DEF Traced
  <2> QED
    BY <2>1, <2>2 DEF Traced
<1>10. CASE Accept /\ ~Fail
  BY <1>10 DEF Accept, Unchanged, Goto, Traced
<1>11. CASE WriteReport
  <2>1. files'.report = 1 /\ files'.manifest = files.manifest
    BY <1>0, <1>11 DEF WriteReport
  <2> QED
    BY <1>11, <2>1 DEF WriteReport, Goto, Traced
<1>12. CASE WriteManifest
  <2>1. files'.report = files.report /\ files'.manifest = 1
    BY <1>0, <1>12 DEF WriteManifest
  <2> QED
    BY <1>12, <2>1 DEF WriteManifest, Goto, Traced
<1> QED
  BY <1>1, <1>2, <1>3, <1>4, <1>5, <1>6, <1>7, <1>8, <1>9, <1>10, <1>11, <1>12 DEF Parent

\* Every step keeps what was run and scanned between the hashes taken and the present.
LEMMA TracedInductive ==
  Typed /\ Accounted /\ Traced /\ [Next]_vars => Traced'
<1> SUFFICES ASSUME Typed, Accounted, Traced, [Next]_vars PROVE Traced'
  OBVIOUS
<1>1. CASE \/ Fork \/ Leave \/ Exit \/ ChildExit \/ Tick
           \/ (\E s \in Streams : Emit(s) \/ Read(s)) \/ UNCHANGED vars
  <2>1. UNCHANGED <<pc, attempt, world, hashed, history, files>>
    BY <1>1 DEF Fork, Leave, Exit, ChildExit, Tick, Emit, Read, vars
  <2> QED
    BY <2>1 DEF Traced, world, history
<1>2. CASE Interrupted
  BY <1>2 DEF Interrupted, Fail, Goto, Traced, Before, Running, After, Written, world, history
<1> QED
  BY <1>1, <1>2, EditTraced, ParentTraced DEF Next, Environment

(***************************************************************************)
(* The theorems.                                                           *)
(***************************************************************************)

\* The command starts with nothing granted, written, run or scanned.
LEMMA InitInv == Init => Inv
<1> SUFFICES ASSUME Init PROVE Inv
  OBVIOUS
<1>1. Supervised /\ Accounted
  BY DEF Init, Supervised, Accounted, Running, After, Written
<1>2. Traced
  BY DEF Init, Traced, Before, Running, After, Written
<1> QED
  BY <1>1, <1>2, InitTyped DEF Inv

\* Every reachable state of a scan is well formed and keeps its books.
THEOREM InvHolds == Spec => []Inv
<1>1. Inv /\ [Next]_vars => Inv'
  BY TypedInductive, SupervisedInductive, AccountedInductive, TracedInductive DEF Inv
<1> QED
  BY InitInv, <1>1, PTL DEF Spec

\* Both attempts together are supervised no longer than one run was granted, and whatever
\* is still alive has the margin before the expiry (run, run_with_argv).
THEOREM DeadlineKept == Spec => []StopsInTime
<1>1. Inv => StopsInTime
  <2> SUFFICES ASSUME Inv, leader = "alive", pc \in {"poll", "terminate"}
               PROVE  watched <= limit /\ (validity # NoExpiry => validity + lag >= Margin)
    BY DEF StopsInTime
  <2>1. /\ watched \in Nat /\ left \in Nat /\ limit \in Nat /\ lag \in Nat /\ Margin \in Nat
        /\ validity # NoExpiry => validity \in Int
    BY EngineAssumption DEF Inv, Typed
  <2>2. watched <= limit
    BY <2>1 DEF Inv, Supervised
  <2>3. validity # NoExpiry => validity + lag + watched >= limit + Margin
    BY DEF Inv, Supervised
  <2> QED
    BY <2>1, <2>2, <2>3
<1> QED
  BY InvHolds, <1>1, PTL

\* A report that is written holds every chunk that was written, within the limit that both
\* streams share, of a child that was not killed (read_bounded, import_report).
THEOREM NothingTruncated == Spec => []ReportIsWhole
<1>1. Inv => ReportIsWhole
  <2> SUFFICES ASSUME Inv, pc \in Written
               PROVE  ~timedOut /\ kept = written /\ kept["stdout"] + kept["stderr"] <= MaxOutput
    BY DEF ReportIsWhole, Written
  <2>1. /\ pipe \in [Streams -> Nat] /\ kept \in [Streams -> Nat] /\ written \in [Streams -> Nat]
        /\ budget \in Nat
    BY DEF Inv, Typed
  <2>2. \A s \in Streams : written[s] = kept[s]
    BY <2>1 DEF Inv, Accounted, After
  <2>3. budget + kept["stdout"] + kept["stderr"] = MaxOutput
    BY DEF Inv, Accounted, After
  <2>4. kept["stdout"] \in Nat /\ kept["stderr"] \in Nat
    BY <2>1 DEF Streams
  <2>5. kept["stdout"] + kept["stderr"] <= MaxOutput
    BY <2>1, <2>3, <2>4
  <2>6. ~timedOut
    BY DEF Inv, Accounted
  <2> QED
    BY <2>1, <2>2, <2>5, <2>6
<1> QED
  BY InvHolds, <1>1, PTL

\* A manifest that is written speaks of the one binary that ran in both attempts, the one
\* target they saw, and the report beside it (scan).
THEOREM OneBinaryOneTarget == Spec => []ManifestIsOneRun
<1>1. Inv => ManifestIsOneRun
  <2> SUFFICES ASSUME Inv, files.manifest = 1
               PROVE  ran = {hashed.binary} /\ scanned = {hashed.target} /\ files.report = 1
    BY DEF ManifestIsOneRun
  <2>1. pc = "done" /\ pc \in After /\ pc \in Written
    BY DEF Inv, Traced, After, Written
  <2>2. hashed.binary = hashed.first /\ ran # {} /\ ran \subseteq {hashed.first, hashed.binary}
    BY <2>1 DEF Inv, Traced
  <2>3. target = hashed.target /\ scanned # {} /\ \A t \in scanned : hashed.target <= t /\ t <= target
    BY <2>1 DEF Inv, Traced
  <2>4. \A t \in scanned : t = hashed.target
    BY <2>3 DEF Inv, Typed
  <2> QED
    BY <2>1, <2>2, <2>3, <2>4 DEF Inv, Traced
<1> QED
  BY InvHolds, <1>1, PTL
=============================================================================
