----------------------------- MODULE TestSuite -----------------------------
(***************************************************************************)
(* The harness that compares the machine with node (tests/suite.js): some  *)
(* workers take test programs from one list. For each, a worker has node   *)
(* make a snapshot of the output unless there is one, compiles the program *)
(* at the same time, runs it on the machine, and compares. A subprocess    *)
(* that exits with an error rejects a promise nobody handles, which ends   *)
(* the process. Snapshots stay on the disk for later runs.                 *)
(*                                                                         *)
(* The workers are coroutines of one thread. Between two of them control   *)
(* passes when a subprocess or a file operation completes; the callbacks   *)
(* behind the lock run before the next completion is looked at.            *)
(***************************************************************************)
EXTENDS Naturals, FiniteSets, SequencesExt

CONSTANTS
  WORKERS,
  Suites,     \* the lists of test programs that pipeFiles may find
  Programs,   \* Programs[t][v]: what becomes of version v of test t
  Outputs,    \* what programs print
  Unix,       \* Unix[o]: o with \n for every \r\n
  NONE,       \* no file
  undefined,  \* what pop answers on an empty list
  MaxRuns     \* bound on the runs of the harness

Empty == ""   \* a file after it was opened for writing
Dies == "dies"
Workers == 1..WORKERS
Tests == UNION {ToSet(s) : s \in Suites}
Versions == {1, 2}

ASSUME SuiteAssumption ==
  /\ WORKERS \in Nat \ {0}
  /\ \A s \in Suites : s \in Seq(ToSet(s)) /\ IsInjective(s)
  /\ Empty \in Outputs /\ Dies \notin Outputs /\ NONE \notin Outputs
  /\ Unix \in [Outputs -> Outputs] /\ Unix[Empty] = Empty
  /\ undefined \notin Tests
  /\ \A t \in Tests, v \in Versions :
       /\ Programs[t][v].node \in Outputs \cup {Dies}
       /\ Programs[t][v].compiles \in BOOLEAN
       /\ Programs[t][v].machine \in Outputs \cup {Dies}

VARIABLES
  suite,     \* the list of this behaviour
  tests,     \* what is left of it
  queue,     \* AsyncLock: the workers whose callback is due
  worker,    \* where each worker is
  judged, failed,
  snapshot,  \* the .snp files
  version,   \* of the test programs
  upset,     \* history: the tests that were edited under a snapshot, or whose
             \* snapshot was left empty by the end of the process
  made,      \* history: the tests of this run whose snapshot node made in it
  process,   \* "up", "crashed", or how the harness has exited
  runs

session == <<tests, queue, worker, judged, failed>>
disk == <<snapshot, version, upset, made>>
vars == <<suite, session, disk, process, runs>>

\* The files "undefined" and "undefined.snp" do not exist: node and the compiler
\* fail.
Snapshot(t) == IF t = undefined THEN NONE ELSE snapshot[t]
Program(t) ==
  IF t = undefined THEN [node |-> Dies, compiles |-> FALSE, machine |-> Dies]
                   ELSE Programs[t][version[t]]

-----------------------------------------------------------------------------
(* The worker: between two completions.                                    *)

\* Mutant: the exit code is the number of failures.
ExitCodeCounted(failures) == "exit " \o ToString(Cardinality(failures))
ExitCode(failures) == IF failures = {} THEN "exit 0" ELSE "exit 1"

Idle == [at |-> "lock", test |-> undefined, snapshot |-> "read", assert |-> Empty,
         program |-> "compiling"]

\* Mutant: the lock is never free again.
AcquiredNever(w) == queue
Acquired(w) == Append(queue, w)

\* Each worker runs up to the lock before the first callback.
Start ==
  /\ process # "up"
  /\ runs < MaxRuns
  /\ runs' = runs + 1
  /\ process' = IF suite = <<>> THEN ExitCode({}) ELSE "up"
  /\ tests' = suite
  /\ queue' = IF suite = <<>> THEN <<>> ELSE [w \in Workers |-> w]
  /\ worker' = [w \in Workers |->
                  IF suite = <<>> THEN [Idle EXCEPT !.at = "done"] ELSE Idle]
  /\ judged' = {} /\ failed' = {} /\ made' = {}
  /\ UNCHANGED <<suite, snapshot, version, upset>>

\* Mutant: the test stays in the list.
PoppedPeek == tests
Popped == IF tests = <<>> THEN <<>> ELSE Front(tests)

\* The callback behind the lock: tests.pop(), then getSnapshot and compileProgram
\* begin.
acquire ==
  /\ process = "up"
  /\ queue # <<>>
  /\ worker' = [worker EXCEPT ![Head(queue)] =
                  [Idle EXCEPT !.at = "testing",
                               !.test = IF tests = <<>> THEN undefined ELSE Last(tests)]]
  /\ tests' = Popped
  /\ queue' = Tail(queue)
  /\ UNCHANGED <<suite, judged, failed, disk, process, runs>>

\* Mutant: the list is looked at and popped in different turns of the event loop.
CompletionAnytime == process = "up"
\* The event loop turns to the next completion.
Completion == process = "up" /\ queue = <<>>

\* Promise.all has no handler for a rejection: the process ends where it is. A
\* file operation that is under way may still take place.
Crash ==
  LET Under(stage) == {w \in Workers : worker[w].at = "testing" /\ worker[w].snapshot = stage}
      TestsOf(ws)  == {worker[w].test : w \in ws}
  IN  \E done \in SUBSET (Under("open") \cup Under("write")) :
        /\ process' = "crashed"
        /\ snapshot' = [t \in Tests |->
             CASE t \in TestsOf(done \cap Under("open"))  -> Empty
               [] t \in TestsOf(done \cap Under("write")) -> Program(t).node
               [] OTHER -> snapshot[t]]
        /\ upset' = upset \cup {t \in TestsOf(Under("open") \cup Under("write")) :
                                 snapshot'[t] = Empty}
        /\ UNCHANGED <<suite, session, version, made, runs>>

\* Mutant: the program runs as soon as it is compiled.
GoOnEarly(w, state) ==
  IF state.program = "compiled" THEN [state EXCEPT !.program = "running"] ELSE state

\* runProgram begins when snapshot and program are there.
GoOn(w, state) ==
  IF state.snapshot = "ready" /\ state.program = "compiled"
  THEN [state EXCEPT !.program = "running"] ELSE state

Becomes(w, state) ==
  /\ worker' = [worker EXCEPT ![w] = GoOn(w, state)]
  /\ UNCHANGED <<suite, tests, queue, judged, failed, process, runs>>

Testing(w, stage) ==
  Completion /\ worker[w].at = "testing" /\ worker[w].snapshot = stage

-----------------------------------------------------------------------------
(* Completions.                                                            *)

\* fs.readFile: without a file, node is started. A snapshot that is there is read
\* with its line ends converted.
SnapshotRead(w) ==
  /\ Testing(w, "read")
  /\ LET content == Snapshot(worker[w].test)
     IN  Becomes(w, IF content = NONE
                    THEN [worker[w] EXCEPT !.snapshot = "node"]
                    ELSE [worker[w] EXCEPT !.snapshot = "ready", !.assert = Unix[content]])
  /\ UNCHANGED disk

\* What node has just printed is taken as it is.
NodeExits(w) ==
  /\ Testing(w, "node")
  /\ LET output == Program(worker[w].test).node
     IN  IF output = Dies THEN Crash
         ELSE /\ Becomes(w, [worker[w] EXCEPT !.snapshot = "open", !.assert = output])
              /\ made' = made \cup {worker[w].test}
              /\ UNCHANGED <<snapshot, version, upset>>

\* fs.writeFile empties the file, then writes it.
SnapshotOpened(w) ==
  /\ Testing(w, "open")
  /\ snapshot' = [snapshot EXCEPT ![worker[w].test] = Empty]
  /\ Becomes(w, [worker[w] EXCEPT !.snapshot = "write"])
  /\ UNCHANGED <<version, upset, made>>

SnapshotWritten(w) ==
  /\ Testing(w, "write")
  /\ snapshot' = [snapshot EXCEPT ![worker[w].test] = worker[w].assert]
  /\ Becomes(w, [worker[w] EXCEPT !.snapshot = "ready"])
  /\ UNCHANGED <<version, upset, made>>

CompilerExits(w) ==
  /\ Testing(w, worker[w].snapshot)
  /\ worker[w].program = "compiling"
  /\ IF Program(worker[w].test).compiles
     THEN Becomes(w, [worker[w] EXCEPT !.program = "compiled"]) /\ UNCHANGED disk
     ELSE Crash

\* The outputs are compared, the line ends of the machine's converted, and the
\* worker looks for another test. When every worker is done, the report is printed.
MachineExits(w) ==
  /\ Testing(w, worker[w].snapshot)
  /\ worker[w].program = "running"
  /\ LET t      == worker[w].test
         output == Program(t).machine
         Fails  == failed \cup (IF worker[w].assert = Unix[output] THEN {} ELSE {t})
         Over   == tests = <<>> /\ \A v \in Workers \ {w} : worker[v].at = "done"
     IN  IF output = Dies THEN Crash
         ELSE /\ judged' = judged \cup {t}
              /\ failed' = Fails
              /\ worker' = [worker EXCEPT ![w] =
                              IF tests = <<>> THEN [Idle EXCEPT !.at = "done"] ELSE Idle]
              /\ queue' = IF tests = <<>> THEN queue ELSE Acquired(w)
              /\ process' = IF Over THEN ExitCode(Fails) ELSE process
              /\ UNCHANGED <<suite, tests, disk, runs>>

\* Between two runs, somebody changes a test program.
Edit(t) ==
  /\ process # "up" /\ runs < MaxRuns
  /\ version[t] = 1
  /\ version' = [version EXCEPT ![t] = 2]
  /\ upset' = IF snapshot[t] = NONE THEN upset ELSE upset \cup {t}
  /\ UNCHANGED <<suite, session, snapshot, made, process, runs>>

-----------------------------------------------------------------------------

Init ==
  /\ suite \in Suites
  /\ tests = <<>> /\ queue = <<>>
  /\ worker = [w \in Workers |-> [Idle EXCEPT !.at = "done"]]
  /\ judged = {} /\ failed = {}
  /\ snapshot = [t \in Tests |-> NONE]
  /\ version = [t \in Tests |-> 1]
  /\ upset = {} /\ made = {}
  /\ process = "exit 0"
  /\ runs = 0

Turn ==
  \/ acquire
  \/ \E w \in Workers :
       \/ SnapshotRead(w) \/ NodeExits(w) \/ SnapshotOpened(w) \/ SnapshotWritten(w)
       \/ CompilerExits(w) \/ MachineExits(w)

Next == Start \/ Turn \/ \E t \in ToSet(suite) : Edit(t)

\* Every subprocess and file operation completes, and the event loop serves it.
Spec == Init /\ [][Next]_vars /\ WF_vars(Turn)

-----------------------------------------------------------------------------

TypeOK ==
  /\ tests \in Seq(Tests)
  /\ queue \in Seq(Workers)
  /\ worker \in [Workers -> [at : {"lock", "testing", "done"},
                             test : Tests \cup {undefined},
                             snapshot : {"read", "node", "open", "write", "ready"},
                             assert : Outputs,
                             program : {"compiling", "compiled", "running"}]]
  /\ failed \subseteq judged /\ judged \subseteq Tests /\ made \subseteq Tests
  /\ snapshot \in [Tests -> Outputs \cup {NONE}]
  /\ process \in {"up", "crashed", "exit 0", "exit 1"}

\* No test is lost and none is run by two workers: as long as the process is up
\* each is in the list, with one worker, or judged; and a report covers all of
\* them. (tests.pop() under the lock.)
TestsAccountedFor ==
  \A t \in ToSet(suite) :
    LET Holders == {w \in Workers : worker[w].at = "testing" /\ worker[w].test = t}
        listed  == Contains(tests, t)
    IN  /\ process = "up" =>
             Cardinality(Holders) + (IF listed THEN 1 ELSE 0)
               + (IF t \in judged THEN 1 ELSE 0) = 1
        /\ process \in {"exit 0", "exit 1"} /\ runs > 0 => t \in judged

\* The harness comes down without a report only for a test that fails to compile
\* or to run, in node or on the machine, or when there are fewer tests than
\* workers: then all of them look at the list before the first takes a test. With
\* more tests no worker finds the list empty that it has just seen filled.
\* (while (tests.length > 0) before await mutex.acquire.)
CrashHasACause ==
  [][process' = "crashed" /\ process = "up" =>
       \/ Len(suite) < WORKERS
       \/ \E t \in ToSet(suite) :
            Program(t).node = Dies \/ ~Program(t).compiles \/ Program(t).machine = Dies]_vars

\* What a test is compared with: the output of node, its line ends converted if
\* the snapshot is one of an earlier run.
Reference(t) ==
  LET output == Programs[t][version[t]].node
  IN  IF t \in made THEN output ELSE Unix[output]

\* A test fails if and only if the machine prints, with \n for every \r\n, something
\* other than node, whose \r\n count as \n in every run but the one that makes the
\* snapshot (a program that prints \r\n fails there and passes later); and the exit
\* code says whether a test did. Unless the program has changed since its snapshot
\* was made or an earlier run came down while it was writing it. (runProgram;
\* getSnapshot trusts any file it finds; fs.writeFile is not atomic.)
VerdictsRight ==
  LET Differs(t) == Unix[Programs[t][version[t]].machine] # Reference(t)
  IN  /\ \A t \in judged \ upset : t \in failed <=> Differs(t)
      /\ process = "exit 0" /\ upset = {} => \A t \in judged : ~Differs(t)

\* Every run of the harness ends, whatever fails. (The lock passes on when a
\* callback throws, and a rejection ends the process.)
SuiteEnds == process = "up" ~> process # "up"

=============================================================================
