---------------------------- MODULE SuiteProofs ----------------------------
(***************************************************************************)
(* The test harness loses no test, reports what it should, and comes down  *)
(* only for a reason: for any number of workers, any list of tests, any    *)
(* programs, and any number of runs and crashes in between.                *)
(***************************************************************************)
EXTENDS TestSuite, SequenceTheorems, FiniteSetTheorems, TLAPS

-----------------------------------------------------------------------------
(* The inductive invariant.                                                *)

WorkerState ==
  [at : {"lock", "testing", "done"}, test : Tests \cup {undefined},
   snapshot : {"read", "node", "open", "write", "ready"}, assert : Outputs,
   program : {"compiling", "compiled", "running"}]

Holds(w, t) == worker[w].at = "testing" /\ worker[w].test = t
NodeOutput(t) == Programs[t][version[t]].node
MachineOutput(t) == Programs[t][version[t]].machine

\* The list is popped from its end: what is left is a prefix of the suite.
ListOK ==
  /\ Len(tests) <= Len(suite)
  /\ \A i \in 1..Len(tests) : tests[i] = suite[i]

\* The callbacks that are due belong to workers at the lock, one to each. When
\* there are at least as many tests as workers, there is a test for each of them.
QueueOK ==
  /\ \A i \in 1..Len(queue) : worker[queue[i]].at = "lock"
  /\ \A i, j \in 1..Len(queue) : queue[i] = queue[j] => i = j
  /\ Len(suite) >= WORKERS => Len(queue) <= Len(tests)

\* A test is listed, held by one worker, or judged; node runs only for one that
\* was taken from the list.
AccountedFor(t) ==
  /\ Contains(tests, t) \/ t \in judged \/ \E w \in Workers : Holds(w, t)
  /\ ~(Contains(tests, t) /\ t \in judged)
  /\ Contains(tests, t) => t \notin made
  /\ \A w \in Workers : Holds(w, t) =>
       /\ ~Contains(tests, t) /\ t \notin judged
       /\ \A v \in Workers : Holds(v, t) => v = w

\* Worker w, in the state s, holds t: what it knows of the snapshot. A worker
\* that found the list empty holds undefined, and gets no further than node.
Knows(s, t) ==
  /\ t \in ToSet(suite) \cup {undefined}
  /\ t = undefined => /\ Len(suite) < WORKERS
                      /\ s.snapshot \in {"read", "node"} /\ s.program = "compiling"
  /\ s.snapshot \in {"read", "node"} => t \notin made
  /\ s.snapshot \in {"open", "write"} => t \in made /\ s.assert = NodeOutput(t)
  /\ s.snapshot \in {"write", "ready"} => snapshot[t] # NONE
  /\ s.snapshot = "write" => snapshot[t] = Empty
  /\ s.snapshot = "ready" /\ t \notin upset => s.assert = Reference(t)
  /\ s.program = "running" => s.snapshot = "ready"

WorkersOK ==
  \A w \in Workers : worker[w].at = "testing" => Knows(worker[w], worker[w].test)

SessionOK ==
  ListOK /\ QueueOK /\ (\A t \in ToSet(suite) : AccountedFor(t)) /\ WorkersOK

\* A snapshot that can be trusted is what node prints, but for one that is just
\* being written.
Writing(t) ==
  process = "up" /\ \E w \in Workers : Holds(w, t) /\ worker[w].snapshot = "write"
Trusted(t) == Writing(t) \/ snapshot[t] \in {NONE, NodeOutput(t)}

JudgedRight(t) ==
  /\ snapshot[t] # NONE
  /\ t \notin upset => (t \in failed <=> Unix[MachineOutput(t)] # Reference(t))

ReportOK ==
  /\ judged \subseteq ToSet(suite)
  /\ \A t \in judged : JudgedRight(t)
  /\ process \in {"exit 0", "exit 1"} => runs = 0 \/ ToSet(suite) \subseteq judged
  /\ process = "exit 0" => failed = {}

DiskOK ==
  /\ version \in [Tests -> Versions]
  /\ upset \subseteq Tests
  /\ \A t \in Tests \ upset : Trusted(t)

SuiteInv ==
  /\ TypeOK
  /\ suite \in Suites
  /\ process = "up" => SessionOK
  /\ DiskOK
  /\ ReportOK

-----------------------------------------------------------------------------
(* Types.                                                                  *)

LEMMA SuiteType ==
  ASSUME SuiteInv
  PROVE  /\ suite \in Seq(ToSet(suite)) /\ Len(suite) \in Nat
         /\ ToSet(suite) \subseteq Tests
         /\ \A i \in 1..Len(suite) : suite[i] \in ToSet(suite)
         /\ \A t \in ToSet(suite) : \E i \in 1..Len(suite) : suite[i] = t
         /\ \A i, j \in 1..Len(suite) : suite[i] = suite[j] => i = j
         /\ undefined \notin ToSet(suite)
<1>1. suite \in Suites /\ suite \in Seq(ToSet(suite)) /\ IsInjective(suite)
  BY SuiteAssumption DEF SuiteInv
<1>2. Len(suite) \in Nat /\ DOMAIN suite = 1..Len(suite)
  BY <1>1
<1>3. ToSet(suite) \subseteq Tests
  BY <1>1 DEF Tests
<1>4. undefined \notin ToSet(suite)
  BY <1>3, SuiteAssumption
<1> QED
  BY <1>1, <1>2, <1>3, <1>4 DEF IsInjective, ToSet

LEMMA StateType ==
  ASSUME SuiteInv
  PROVE  /\ tests \in Seq(Tests) /\ Len(tests) \in Nat
         /\ queue \in Seq(Workers) /\ Len(queue) \in Nat
         /\ worker \in [Workers -> WorkerState]
         /\ failed \subseteq judged /\ judged \subseteq Tests /\ made \subseteq Tests
         /\ snapshot \in [Tests -> Outputs \cup {NONE}]
         /\ process \in {"up", "crashed", "exit 0", "exit 1"}
         /\ version \in [Tests -> Versions]
<1>1. tests \in Seq(Tests) /\ queue \in Seq(Workers)
  BY DEF SuiteInv, TypeOK
<1>2. worker \in [Workers -> WorkerState]
  BY DEF SuiteInv, TypeOK, WorkerState
<1>3. /\ failed \subseteq judged /\ judged \subseteq Tests /\ made \subseteq Tests
      /\ snapshot \in [Tests -> Outputs \cup {NONE}]
      /\ process \in {"up", "crashed", "exit 0", "exit 1"}
  BY DEF SuiteInv, TypeOK
<1>4. version \in [Tests -> Versions]
  BY DEF SuiteInv, DiskOK
<1>5. Len(tests) \in Nat /\ Len(queue) \in Nat
  BY <1>1
<1> QED
  BY <1>1, <1>2, <1>3, <1>4, <1>5

LEMMA TypeFromState ==
  ASSUME tests' \in Seq(Tests), queue' \in Seq(Workers),
         worker' \in [Workers -> WorkerState],
         failed' \subseteq judged', judged' \subseteq Tests, made' \subseteq Tests,
         snapshot' \in [Tests -> Outputs \cup {NONE}],
         process' \in {"up", "crashed", "exit 0", "exit 1"}
  PROVE  TypeOK'
BY DEF TypeOK, WorkerState

LEMMA IdleType ==
  /\ Idle \in WorkerState /\ Idle.at = "lock"
  /\ [Idle EXCEPT !.at = "done"] \in WorkerState
  /\ [Idle EXCEPT !.at = "done"].at = "done"
BY SuiteAssumption DEF Idle, WorkerState, Empty

LEMMA ProgramType ==
  ASSUME SuiteInv, NEW t \in Tests
  PROVE  /\ NodeOutput(t) \in Outputs \cup {Dies}
         /\ MachineOutput(t) \in Outputs \cup {Dies}
         /\ t # undefined
         /\ Snapshot(t) = snapshot[t]
         /\ Program(t).node = NodeOutput(t) /\ Program(t).machine = MachineOutput(t)
<1>1. version[t] \in Versions
  BY StateType
<1> QED
  BY <1>1, SuiteAssumption DEF NodeOutput, MachineOutput, Snapshot, Program

-----------------------------------------------------------------------------
(* A worker goes on with the test it holds.                                *)

\* What node printed for a test was compared as it is, or converted.
LEMMA ReferenceIs ==
  \A t : Reference(t) = IF t \in made THEN NodeOutput(t) ELSE Unix[NodeOutput(t)]
BY DEF Reference, NodeOutput

\* Nothing but the state of w changes, and perhaps the snapshot of its test.
Progresses(w, s) ==
  /\ worker' = [worker EXCEPT ![w] = s]
  /\ s \in WorkerState /\ s.at = "testing" /\ s.test = worker[w].test
  /\ UNCHANGED <<suite, tests, queue, judged, failed, version, upset, process, runs>>

LEMMA ProgressKeepsInv ==
  ASSUME SuiteInv, process = "up", NEW w \in Workers, worker[w].at = "testing",
         NEW s, Progresses(w, s), NEW t, t = worker[w].test,
         snapshot' \in [Tests -> Outputs \cup {NONE}],
         \A u \in Tests : u # t => snapshot'[u] = snapshot[u],
         \A u \in Tests : snapshot[u] # NONE => snapshot'[u] # NONE,
         made' \subseteq Tests, \A u : u # t => (u \in made' <=> u \in made),
         Knows(s, t)', t \in Tests \ upset => Trusted(t)'
  PROVE  SuiteInv'
<1>1. /\ worker \in [Workers -> WorkerState] /\ worker' \in [Workers -> WorkerState]
      /\ worker'[w] = s
      /\ \A v \in Workers : v # w => worker'[v] = worker[v]
  BY StateType DEF Progresses
<1>2. \A v \in Workers : worker'[v].at = worker[v].at /\ worker'[v].test = worker[v].test
  BY <1>1 DEF Progresses
<1>3. UNCHANGED <<suite, tests, queue, judged, failed, version, upset, process, runs>>
  BY DEF Progresses
<1>4. /\ \A v \in Workers : \A u : Holds(v, u)' <=> Holds(v, u)
      /\ \A u : NodeOutput(u)' = NodeOutput(u) /\ MachineOutput(u)' = MachineOutput(u)
      /\ \A u : u # t => Reference(u)' = Reference(u)
  BY <1>2, <1>3 DEF Holds, NodeOutput, MachineOutput, Reference
<1>5. ListOK /\ QueueOK /\ WorkersOK /\ \A u \in ToSet(suite) : AccountedFor(u)
  BY DEF SuiteInv, SessionOK
<1>6. \A i \in 1..Len(queue) : queue[i] \in Workers
  BY StateType
<1>7. ListOK' /\ QueueOK'
  BY <1>2, <1>3, <1>5, <1>6 DEF ListOK, QueueOK
<1>8. ASSUME NEW u \in ToSet(suite) PROVE AccountedFor(u)'
  <2>1. AccountedFor(u)
    BY <1>5
  <2>2. Holds(w, t)
    BY DEF Holds
  <2>3. Contains(tests, u) => u # t
    BY <2>1, <2>2 DEF AccountedFor
  <2>4. Contains(tests, u)' <=> Contains(tests, u)
    BY <1>3
  <2> QED
    BY <1>3, <1>4, <2>1, <2>3, <2>4 DEF AccountedFor
<1>9. WorkersOK'
  <2> SUFFICES ASSUME NEW v \in Workers, worker'[v].at = "testing"
               PROVE  Knows(worker[v], worker[v].test)'
    BY DEF WorkersOK
  <2>1. CASE v = w
    BY <1>1, <2>1 DEF Progresses
  <2>2. CASE v # w
    <3>1. PICK u : u = worker[v].test
      OBVIOUS
    <3>2. Knows(worker[v], u) /\ worker'[v] = worker[v]
      BY <1>1, <1>2, <1>5, <2>2, <3>1 DEF WorkersOK
    <3>3. u # undefined => u \in Tests /\ u # t
      <4>1. SUFFICES ASSUME u # undefined PROVE u \in Tests /\ u # t
        OBVIOUS
      <4>2. u \in ToSet(suite) /\ Holds(v, u)
        BY <1>2, <3>1, <3>2, <4>1 DEF Knows, Holds
      <4>3. Holds(w, u) => w = v
        BY <1>5, <4>2 DEF AccountedFor
      <4> QED
        BY <2>2, <4>2, <4>3, SuiteType DEF Holds
    <3>4. u # undefined => snapshot'[u] = snapshot[u]
      BY <3>3
    <3>5. worker'[v].test = u
      BY <1>2, <3>1
    <3>6. CASE u = undefined
      <4>1. u \notin made'
        BY <3>6, SuiteAssumption
      <4> QED
        BY <1>3, <3>2, <3>5, <3>6, <4>1 DEF Knows
    <3>7. CASE u # undefined
      <4>1. Reference(u)' = Reference(u) /\ NodeOutput(u)' = NodeOutput(u)
            /\ (u \in made' <=> u \in made)
        BY <1>4, <3>3, <3>7
      <4> QED
        BY <1>3, <3>2, <3>4, <3>5, <3>7, <4>1 DEF Knows
    <3> QED
      BY <3>6, <3>7
  <2> QED
    BY <2>1, <2>2
<1>10. DiskOK'
  <2>1. version' \in [Tests -> Versions] /\ upset' \subseteq Tests
    BY <1>3 DEF SuiteInv, DiskOK
  <2>2. ASSUME NEW u \in Tests \ upset PROVE Trusted(u)'
    <3>1. CASE u = t
      BY <3>1
    <3>2. CASE u # t
      <4>1. Trusted(u)
        BY DEF SuiteInv, DiskOK
      <4>2. Writing(u) => Writing(u)'
        BY <1>1, <1>3, <1>4, <3>2 DEF Writing, Holds
      <4> QED
        BY <1>4, <3>2, <4>1, <4>2 DEF Trusted
    <3> QED
      BY <3>1, <3>2
  <2> QED
    BY <1>3, <2>1, <2>2 DEF DiskOK
<1>11. ReportOK'
  <2>1. judged \subseteq Tests
    BY StateType
  <2>2. ASSUME NEW u \in judged PROVE JudgedRight(u)'
    <3>1. u \in ToSet(suite) /\ JudgedRight(u) /\ u \in Tests
      BY <2>1 DEF SuiteInv, ReportOK
    <3>2. u # t
      BY <1>5, <3>1 DEF AccountedFor, Holds
    <3> QED
      BY <1>3, <1>4, <3>1, <3>2 DEF JudgedRight
  <2> QED
    BY <1>3, <2>2 DEF SuiteInv, ReportOK
<1>12. TypeOK'
  BY <1>1, <1>3, StateType, TypeFromState
<1> QED
  BY <1>3, <1>7, <1>8, <1>9, <1>10, <1>11, <1>12 DEF SuiteInv, SessionOK

LEMMA GoOnKeeps ==
  ASSUME NEW w, NEW s \in WorkerState
  PROVE  /\ GoOn(w, s) \in WorkerState
         /\ GoOn(w, s).at = s.at /\ GoOn(w, s).test = s.test
         /\ GoOn(w, s).snapshot = s.snapshot /\ GoOn(w, s).assert = s.assert
         /\ GoOn(w, s).program # s.program => s.snapshot = "ready" /\ s.program = "compiled"
BY DEF GoOn, WorkerState

\* The next stage of the test that w holds.
LEMMA BecomesKeepsInv ==
  ASSUME SuiteInv, process = "up", NEW w \in Workers, worker[w].at = "testing",
         NEW s \in WorkerState, s.at = "testing", s.test = worker[w].test,
         Becomes(w, s), UNCHANGED <<version, upset>>, NEW t, t = worker[w].test,
         snapshot' \in [Tests -> Outputs \cup {NONE}],
         \A u \in Tests : u # t => snapshot'[u] = snapshot[u],
         \A u \in Tests : snapshot[u] # NONE => snapshot'[u] # NONE,
         made' \subseteq Tests, \A u : u # t => (u \in made' <=> u \in made),
         Knows(s, t)',
         t \in Tests \ upset => s.snapshot = "write" \/ snapshot'[t] \in {NONE, NodeOutput(t)}
  PROVE  SuiteInv'
<1> DEFINE g == GoOn(w, s)
<1>1. /\ g \in WorkerState /\ g.at = "testing" /\ g.test = worker[w].test
      /\ g.snapshot = s.snapshot /\ g.assert = s.assert
      /\ g.program # s.program => s.snapshot = "ready" /\ s.program = "compiled"
  BY GoOnKeeps
<1>2. /\ worker' = [worker EXCEPT ![w] = g]
      /\ UNCHANGED <<suite, tests, queue, judged, failed, process, runs>>
  BY DEF Becomes
<1> HIDE DEF g
<1>3. Progresses(w, g)
  BY <1>1, <1>2 DEF Progresses
<1>4. Knows(g, t)'
  BY <1>1 DEF Knows
<1>5. ASSUME t \in Tests \ upset PROVE Trusted(t)'
  <2>1. NodeOutput(t)' = NodeOutput(t) /\ process' = "up"
    BY <1>2 DEF NodeOutput
  <2>2. worker'[w] = g
    BY <1>2, StateType
  <2>3. s.snapshot = "write" => Writing(t)'
    BY <1>1, <2>1, <2>2 DEF Writing, Holds
  <2> QED
    BY <1>5, <2>1, <2>3 DEF Trusted
<1> QED
  BY <1>3, <1>4, <1>5, ProgressKeepsInv

LEMMA Held ==
  ASSUME SuiteInv, process = "up", NEW w \in Workers, worker[w].at = "testing"
  PROVE  /\ worker[w] \in WorkerState
         /\ Knows(worker[w], worker[w].test)
         /\ worker[w].test # undefined => worker[w].test \in Tests /\ worker[w].test \in ToSet(suite)
         /\ \A v \in Workers, t \in ToSet(suite) : Holds(w, t) /\ Holds(v, t) => v = w
<1>1. worker[w] \in WorkerState /\ Knows(worker[w], worker[w].test)
  BY StateType DEF SuiteInv, SessionOK, WorkersOK
<1>2. worker[w].test # undefined => worker[w].test \in ToSet(suite)
  BY <1>1 DEF Knows
<1>3. \A v \in Workers, t \in ToSet(suite) : Holds(w, t) /\ Holds(v, t) => v = w
  BY DEF SuiteInv, SessionOK, AccountedFor
<1> QED
  BY <1>1, <1>2, <1>3, SuiteType

\* The worker that holds a test and is not writing its snapshot can trust it.
LEMMA NotWriting ==
  ASSUME SuiteInv, process = "up", NEW w \in Workers, worker[w].at = "testing",
         worker[w].snapshot # "write", NEW t \in Tests \ upset, t = worker[w].test
  PROVE  snapshot[t] \in {NONE, NodeOutput(t)}
<1>1. t \in ToSet(suite) /\ Holds(w, t)
  BY Held, SuiteAssumption DEF Holds
<1>2. ~Writing(t)
  BY <1>1, Held DEF Writing
<1> QED
  BY <1>2 DEF SuiteInv, DiskOK, Trusted

LEMMA SnapshotReadKeepsInv ==
  ASSUME SuiteInv, NEW w \in Workers, SnapshotRead(w)
  PROVE  SuiteInv'
<1>1. process = "up" /\ worker[w].at = "testing" /\ worker[w].snapshot = "read" /\ UNCHANGED disk
  BY DEF SnapshotRead, Testing, Completion
<1>2. PICK t : t = worker[w].test
  OBVIOUS
<1>3. /\ worker[w] \in WorkerState /\ Knows(worker[w], t)
      /\ t # undefined => t \in Tests /\ t \in ToSet(suite)
  BY <1>1, <1>2, Held
<1>4. UNCHANGED <<snapshot, version, upset, made, suite>>
  BY <1>1 DEF disk, SnapshotRead, Becomes
<1>5. /\ snapshot' \in [Tests -> Outputs \cup {NONE}] /\ snapshot' = snapshot
      /\ made' \subseteq Tests /\ made' = made
      /\ \A u : NodeOutput(u)' = NodeOutput(u) /\ Reference(u)' = Reference(u)
  BY <1>4, StateType DEF NodeOutput, Reference
<1>6. t \in Tests \ upset => snapshot[t] \in {NONE, NodeOutput(t)}
  BY <1>1, <1>2, NotWriting
<1>7. CASE Snapshot(t) = NONE
  <2> PICK s : s = [worker[w] EXCEPT !.snapshot = "node"]
    OBVIOUS
  <2>1. Becomes(w, s)
    BY <1>2, <1>7 DEF SnapshotRead
  <2>2. /\ s \in WorkerState /\ s.at = "testing" /\ s.test = t /\ s.snapshot = "node"
        /\ s.program = worker[w].program
    BY <1>1, <1>2, <1>3 DEF WorkerState
  <2>3. Knows(s, t)'
    BY <1>1, <1>3, <1>4, <1>5, <2>2 DEF Knows
  <2> QED
    BY <1>1, <1>2, <1>4, <1>5, <1>6, <2>1, <2>2, <2>3, BecomesKeepsInv
<1>8. CASE Snapshot(t) # NONE
  <2> PICK s : s = [worker[w] EXCEPT !.snapshot = "ready", !.assert = Unix[Snapshot(t)]]
    OBVIOUS
  <2>1. Becomes(w, s)
    BY <1>2, <1>8 DEF SnapshotRead
  <2>2. t # undefined
    BY <1>8 DEF Snapshot
  <2>3. Snapshot(t) = snapshot[t] /\ snapshot[t] \in Outputs /\ Unix[snapshot[t]] \in Outputs
    BY <1>3, <1>8, <2>2, StateType, SuiteAssumption DEF Snapshot
  <2>4. /\ s \in WorkerState /\ s.at = "testing" /\ s.test = t /\ s.snapshot = "ready"
        /\ s.assert = Unix[snapshot[t]] /\ s.program = worker[w].program
    BY <1>1, <1>2, <1>3, <2>3 DEF WorkerState
  <2>5. t \notin upset => Unix[snapshot[t]] = Reference(t)
    <3>1. t \notin upset => snapshot[t] = NodeOutput(t)
      BY <1>3, <1>6, <1>8, <2>2, <2>3
    <3>2. t \notin made
      BY <1>1, <1>3 DEF Knows
    <3> QED
      BY <3>1, <3>2, ReferenceIs
  <2>6. Knows(s, t)'
    BY <1>3, <1>4, <1>5, <1>8, <2>2, <2>3, <2>4, <2>5 DEF Knows
  <2> QED
    BY <1>1, <1>2, <1>4, <1>5, <1>6, <2>1, <2>4, <2>6, BecomesKeepsInv
<1> QED
  BY <1>7, <1>8

LEMMA SnapshotOpenedKeepsInv ==
  ASSUME SuiteInv, NEW w \in Workers, SnapshotOpened(w)
  PROVE  SuiteInv'
<1>1. process = "up" /\ worker[w].at = "testing" /\ worker[w].snapshot = "open"
  BY DEF SnapshotOpened, Testing, Completion
<1>2. PICK t : t = worker[w].test
  OBVIOUS
<1>3. /\ worker[w] \in WorkerState /\ Knows(worker[w], t)
      /\ t # undefined => t \in Tests /\ t \in ToSet(suite)
  BY <1>1, <1>2, Held
<1>4. t # undefined
  BY <1>1, <1>3 DEF Knows
<1>5. UNCHANGED <<version, upset, made, suite>> /\ snapshot' = [snapshot EXCEPT ![t] = Empty]
  BY <1>2 DEF SnapshotOpened, Becomes
<1>6. /\ snapshot' \in [Tests -> Outputs \cup {NONE}] /\ snapshot'[t] # NONE
      /\ \A u \in Tests : u # t => snapshot'[u] = snapshot[u]
      /\ \A u : NodeOutput(u)' = NodeOutput(u) /\ Reference(u)' = Reference(u)
      /\ made' \subseteq Tests /\ made' = made
  BY <1>3, <1>4, <1>5, StateType, SuiteAssumption DEF NodeOutput, Reference
<1>7. \A u \in Tests : snapshot[u] # NONE => snapshot'[u] # NONE
  BY <1>6
<1> PICK s : s = [worker[w] EXCEPT !.snapshot = "write"]
  OBVIOUS
<1>8. Becomes(w, s)
  BY DEF SnapshotOpened
<1>9. /\ s \in WorkerState /\ s.at = "testing" /\ s.test = t /\ s.snapshot = "write"
      /\ s.assert = worker[w].assert /\ s.program = worker[w].program
  BY <1>1, <1>2, <1>3 DEF WorkerState
<1>10. Knows(s, t)'
  BY <1>1, <1>3, <1>4, <1>5, <1>6, <1>9 DEF Knows
<1> QED
  BY <1>1, <1>2, <1>5, <1>6, <1>7, <1>8, <1>9, <1>10, BecomesKeepsInv

LEMMA SnapshotWrittenKeepsInv ==
  ASSUME SuiteInv, NEW w \in Workers, SnapshotWritten(w)
  PROVE  SuiteInv'
<1>1. process = "up" /\ worker[w].at = "testing" /\ worker[w].snapshot = "write"
  BY DEF SnapshotWritten, Testing, Completion
<1>2. PICK t : t = worker[w].test
  OBVIOUS
<1>3. /\ worker[w] \in WorkerState /\ Knows(worker[w], t)
      /\ t # undefined => t \in Tests /\ t \in ToSet(suite)
  BY <1>1, <1>2, Held
<1>4. /\ t # undefined /\ worker[w].assert = NodeOutput(t) /\ worker[w].assert \in Outputs
      /\ t \in made /\ Reference(t) = NodeOutput(t)
  BY <1>1, <1>3, ReferenceIs DEF Knows, WorkerState
<1>5. UNCHANGED <<version, upset, made, suite>> /\ snapshot' = [snapshot EXCEPT ![t] = worker[w].assert]
  BY <1>2 DEF SnapshotWritten, Becomes
<1>6. /\ snapshot' \in [Tests -> Outputs \cup {NONE}] /\ snapshot'[t] = NodeOutput(t)
      /\ snapshot'[t] # NONE
      /\ \A u \in Tests : u # t => snapshot'[u] = snapshot[u]
      /\ \A u : NodeOutput(u)' = NodeOutput(u) /\ Reference(u)' = Reference(u)
      /\ made' \subseteq Tests /\ made' = made
  BY <1>3, <1>4, <1>5, StateType, SuiteAssumption DEF NodeOutput, Reference
<1>7. \A u \in Tests : snapshot[u] # NONE => snapshot'[u] # NONE
  BY <1>6
<1> PICK s : s = [worker[w] EXCEPT !.snapshot = "ready"]
  OBVIOUS
<1>8. Becomes(w, s)
  BY DEF SnapshotWritten
<1>9. /\ s \in WorkerState /\ s.at = "testing" /\ s.test = t /\ s.snapshot = "ready"
      /\ s.assert = worker[w].assert /\ s.program = worker[w].program
  BY <1>1, <1>2, <1>3 DEF WorkerState
<1>10. Knows(s, t)'
  BY <1>1, <1>3, <1>4, <1>5, <1>6, <1>9 DEF Knows
<1> QED
  BY <1>1, <1>2, <1>5, <1>6, <1>7, <1>8, <1>9, <1>10, BecomesKeepsInv

-----------------------------------------------------------------------------
(* The process ends in the middle of a session.                            *)

\* A file operation that was under way leaves what node printed, or an empty
\* file that is noted as upset.
LEMMA CrashKeepsInv ==
  ASSUME SuiteInv, process = "up", Crash
  PROVE  SuiteInv'
<1> DEFINE Under(stage) == {w \in Workers : worker[w].at = "testing" /\ worker[w].snapshot = stage}
           TestsOf(ws)  == {worker[w].test : w \in ws}
<1>1. PICK done \in SUBSET (Under("open") \cup Under("write")) :
        /\ process' = "crashed"
        /\ snapshot' = [t \in Tests |->
             CASE t \in TestsOf(done \cap Under("open"))  -> Empty
               [] t \in TestsOf(done \cap Under("write")) -> Program(t).node
               [] OTHER -> snapshot[t]]
        /\ upset' = upset \cup {t \in TestsOf(Under("open") \cup Under("write")) :
                                 snapshot'[t] = Empty}
        /\ UNCHANGED <<suite, session, version, made, runs>>
  BY DEF Crash
<1>2. UNCHANGED <<suite, tests, queue, worker, judged, failed, version, made>>
  BY <1>1 DEF session
<1>3. ASSUME NEW w \in Under("open") \cup Under("write")
      PROVE  /\ worker[w].test \in Tests
             /\ NodeOutput(worker[w].test) \in Outputs
             /\ Program(worker[w].test).node = NodeOutput(worker[w].test)
  <2>1. w \in Workers /\ worker[w].at = "testing" /\ worker[w].snapshot \in {"open", "write"}
    OBVIOUS
  <2>2. worker[w] \in WorkerState /\ Knows(worker[w], worker[w].test)
    BY <2>1, Held
  <2>3. worker[w].test # undefined /\ worker[w].assert = NodeOutput(worker[w].test)
    BY <2>1, <2>2 DEF Knows
  <2>4. worker[w].test \in Tests
    BY <2>1, <2>3, Held
  <2> QED
    BY <2>2, <2>3, <2>4, ProgramType DEF WorkerState
<1>4. \A t \in TestsOf(Under("open") \cup Under("write")) :
        t \in Tests /\ NodeOutput(t) \in Outputs /\ Program(t).node = NodeOutput(t)
  BY <1>3
<1>5. ASSUME NEW t \in Tests
      PROVE  \/ /\ t \in TestsOf(Under("open") \cup Under("write"))
                /\ snapshot'[t] = Empty
             \/ /\ t \in TestsOf(Under("open") \cup Under("write"))
                /\ snapshot'[t] = NodeOutput(t)
             \/ snapshot'[t] = snapshot[t]
  <2>1. CASE t \in TestsOf(done \cap Under("open"))
    <3>1. t \in TestsOf(Under("open") \cup Under("write"))
      BY <2>1
    <3>2. t \notin TestsOf(done \cap Under("write"))
      <4> SUFFICES ASSUME NEW w \in Under("open"), NEW v \in Under("write"),
                          worker[w].test = t, worker[v].test = t
                   PROVE  FALSE
        BY <2>1
      <4>1. w \in Workers /\ v \in Workers /\ Holds(w, t) /\ Holds(v, t) /\ v # w
        BY DEF Holds
      <4>2. t \in ToSet(suite)
        BY <4>1, Held, SuiteAssumption DEF Holds
      <4> QED
        BY <4>1, <4>2, Held DEF Holds
    <3>3. snapshot'[t] = Empty
      BY <1>1, <2>1, <3>2
    <3> QED
      BY <3>1, <3>3
  <2>2. CASE t \notin TestsOf(done \cap Under("open")) /\ t \in TestsOf(done \cap Under("write"))
    <3>1. t \in TestsOf(Under("open") \cup Under("write"))
      BY <2>2
    <3>2. snapshot'[t] = Program(t).node
      BY <1>1, <2>2
    <3> QED
      BY <1>4, <3>1, <3>2
  <2>3. CASE t \notin TestsOf(done \cap Under("open")) /\ t \notin TestsOf(done \cap Under("write"))
    BY <1>1, <2>3
  <2> QED
    BY <2>1, <2>2, <2>3
<1>6. snapshot' \in [Tests -> Outputs \cup {NONE}]
  <2>1. \A t \in Tests : snapshot'[t] \in Outputs \cup {NONE}
    BY <1>4, <1>5, StateType, SuiteAssumption
  <2> QED
    BY <1>1, <2>1
<1>7. \A t \in Tests : snapshot[t] # NONE => snapshot'[t] # NONE
  BY <1>4, <1>5, SuiteAssumption
<1>8. upset \subseteq upset' /\ upset' \subseteq Tests
  BY <1>1, <1>4 DEF SuiteInv, DiskOK
<1>9. \A t : /\ NodeOutput(t)' = NodeOutput(t) /\ MachineOutput(t)' = MachineOutput(t)
            /\ Reference(t)' = Reference(t)
  BY <1>2 DEF NodeOutput, MachineOutput, Reference
<1>10. ASSUME NEW t \in Tests \ upset' PROVE Trusted(t)'
  <2>1. t \in TestsOf(Under("open") \cup Under("write")) => snapshot'[t] # Empty
    BY <1>1
  <2>2. Trusted(t)
    BY <1>8 DEF SuiteInv, DiskOK
  <2>3. CASE Writing(t)
    <3>1. t \in TestsOf(Under("write"))
      BY <2>3 DEF Writing, Holds
    <3>2. t \in TestsOf(Under("open") \cup Under("write"))
      BY <3>1
    <3>3. snapshot[t] = Empty
      BY <2>3, Held DEF Writing, Holds, Knows
    <3>4. snapshot'[t] = NodeOutput(t)
      BY <1>5, <2>1, <3>2, <3>3
    <3> QED
      BY <1>9, <3>4 DEF Trusted
  <2>4. CASE snapshot[t] \in {NONE, NodeOutput(t)}
    BY <1>5, <1>9, <2>1, <2>4 DEF Trusted
  <2> QED
    BY <2>2, <2>3, <2>4 DEF Trusted
<1>11. DiskOK'
  BY <1>2, <1>8, <1>10 DEF SuiteInv, DiskOK
<1>12. ReportOK'
  <2>1. \A t \in judged : t \in Tests /\ JudgedRight(t)
    BY StateType DEF SuiteInv, ReportOK
  <2>2. \A t \in judged : JudgedRight(t)'
    BY <1>2, <1>7, <1>8, <1>9, <2>1 DEF JudgedRight
  <2> QED
    BY <1>1, <1>2, <2>2 DEF SuiteInv, ReportOK
<1>13. TypeOK'
  BY <1>1, <1>2, <1>6, StateType, TypeFromState
<1> QED
  BY <1>1, <1>2, <1>11, <1>12, <1>13 DEF SuiteInv

LEMMA NodeExitsKeepsInv ==
  ASSUME SuiteInv, NEW w \in Workers, NodeExits(w)
  PROVE  SuiteInv'
<1>1. process = "up" /\ worker[w].at = "testing" /\ worker[w].snapshot = "node"
  BY DEF NodeExits, Testing, Completion
<1>2. PICK t : t = worker[w].test
  OBVIOUS
<1>3. /\ worker[w] \in WorkerState /\ Knows(worker[w], t)
      /\ t # undefined => t \in Tests /\ t \in ToSet(suite)
  BY <1>1, <1>2, Held
<1>4. CASE Program(t).node = Dies
  BY <1>1, <1>2, <1>4, CrashKeepsInv DEF NodeExits
<1>5. CASE Program(t).node # Dies
  <2>1. PICK s : s = [worker[w] EXCEPT !.snapshot = "open", !.assert = Program(t).node]
    OBVIOUS
  <2>2. Becomes(w, s) /\ made' = made \cup {t} /\ UNCHANGED <<snapshot, version, upset>>
    BY <1>2, <1>5, <2>1 DEF NodeExits
  <2>3. UNCHANGED <<snapshot, version, upset, suite>>
    BY <2>2 DEF Becomes
  <2>4. t # undefined
    BY <1>5 DEF Program
  <2>5. t \in Tests /\ t \in ToSet(suite) /\ Program(t).node = NodeOutput(t) /\ NodeOutput(t) \in Outputs
    BY <1>3, <1>5, <2>4, ProgramType
  <2>6. /\ s \in WorkerState /\ s.at = "testing" /\ s.test = t /\ s.snapshot = "open"
        /\ s.assert = NodeOutput(t) /\ s.program = worker[w].program
    BY <1>1, <1>2, <1>3, <2>1, <2>5 DEF WorkerState
  <2>7. /\ snapshot' \in [Tests -> Outputs \cup {NONE}] /\ snapshot' = snapshot
        /\ \A u : NodeOutput(u)' = NodeOutput(u)
        /\ made' \subseteq Tests /\ t \in made' /\ \A u : u # t => (u \in made' <=> u \in made)
    BY <2>2, <2>3, <2>5, StateType DEF NodeOutput
  <2>8. Knows(s, t)'
    BY <1>1, <1>3, <2>3, <2>4, <2>5, <2>6, <2>7 DEF Knows
  <2>9. t \in Tests \ upset => snapshot[t] \in {NONE, NodeOutput(t)}
    BY <1>1, <1>2, <2>5, NotWriting
  <2> QED
    BY <1>1, <1>2, <2>2, <2>3, <2>6, <2>7, <2>8, <2>9, BecomesKeepsInv
<1> QED
  BY <1>4, <1>5

LEMMA CompilerExitsKeepsInv ==
  ASSUME SuiteInv, NEW w \in Workers, CompilerExits(w)
  PROVE  SuiteInv'
<1>1. process = "up" /\ worker[w].at = "testing" /\ worker[w].program = "compiling"
  BY DEF CompilerExits, Testing, Completion
<1>2. PICK t : t = worker[w].test
  OBVIOUS
<1>3. /\ worker[w] \in WorkerState /\ Knows(worker[w], t)
      /\ t # undefined => t \in Tests /\ t \in ToSet(suite)
  BY <1>1, <1>2, Held
<1>4. CASE ~Program(t).compiles
  BY <1>1, <1>2, <1>4, CrashKeepsInv DEF CompilerExits
<1>5. CASE Program(t).compiles
  <2>1. PICK s : s = [worker[w] EXCEPT !.program = "compiled"]
    OBVIOUS
  <2>2. Becomes(w, s) /\ UNCHANGED disk
    BY <1>2, <1>5, <2>1 DEF CompilerExits
  <2>3. UNCHANGED <<snapshot, version, upset, made, suite>>
    BY <2>2 DEF disk, Becomes
  <2>4. t # undefined
    BY <1>5 DEF Program
  <2>5. t \in Tests /\ t \in ToSet(suite)
    BY <1>3, <2>4
  <2>6. /\ s \in WorkerState /\ s.at = "testing" /\ s.test = t
        /\ s.snapshot = worker[w].snapshot /\ s.assert = worker[w].assert
        /\ s.program = "compiled"
    BY <1>1, <1>2, <1>3, <2>1 DEF WorkerState
  <2>7. /\ snapshot' \in [Tests -> Outputs \cup {NONE}] /\ snapshot' = snapshot
        /\ \A u : NodeOutput(u)' = NodeOutput(u) /\ Reference(u)' = Reference(u)
        /\ made' \subseteq Tests /\ made' = made
    BY <2>3, StateType DEF NodeOutput, Reference
  <2>8. Knows(s, t)'
    BY <1>3, <2>3, <2>4, <2>5, <2>6, <2>7 DEF Knows
  <2>9. t \in Tests \ upset => s.snapshot = "write" \/ snapshot[t] \in {NONE, NodeOutput(t)}
    BY <1>1, <1>2, <2>5, <2>6, NotWriting
  <2> QED
    BY <1>1, <1>2, <2>2, <2>3, <2>6, <2>7, <2>8, <2>9, BecomesKeepsInv
<1> QED
  BY <1>4, <1>5

-----------------------------------------------------------------------------
(* A test is judged, and one is taken from the list.                       *)

LEMMA MachineExitsKeepsInv ==
  ASSUME SuiteInv, NEW w \in Workers, MachineExits(w)
  PROVE  SuiteInv'
<1>1. /\ process = "up" /\ queue = <<>>
      /\ worker[w].at = "testing" /\ worker[w].program = "running"
  BY DEF MachineExits, Testing, Completion
<1>2. PICK t : t = worker[w].test
  OBVIOUS
<1>3. PICK output : output = Program(t).machine
  OBVIOUS
<1>4. CASE output = Dies
  BY <1>1, <1>2, <1>3, <1>4, CrashKeepsInv DEF MachineExits
<1>5. CASE output # Dies
  <2>1. PICK Over \in BOOLEAN : Over <=> tests = <<>> /\ \A v \in Workers \ {w} : worker[v].at = "done"
    OBVIOUS
  <2>2. PICK rest : rest = IF tests = <<>> THEN [Idle EXCEPT !.at = "done"] ELSE Idle
    OBVIOUS
  <2>3. /\ judged' = judged \cup {t}
        /\ failed' = failed \cup (IF worker[w].assert = Unix[output] THEN {} ELSE {t})
        /\ worker' = [worker EXCEPT ![w] = rest]
        /\ queue' = IF tests = <<>> THEN queue ELSE Append(queue, w)
        /\ process' = IF Over THEN ExitCode(failed') ELSE process
        /\ UNCHANGED <<suite, tests, disk, runs>>
    BY <1>2, <1>3, <1>5, <2>1, <2>2 DEF MachineExits, Acquired
  <2>4. UNCHANGED <<suite, tests, snapshot, version, upset, made, runs>>
    BY <2>3 DEF disk
  <2>5. /\ Knows(worker[w], t) /\ worker[w].snapshot = "ready" /\ t # undefined
        /\ t \in Tests /\ t \in ToSet(suite) /\ Holds(w, t)
    BY <1>1, <1>2, Held DEF Knows, Holds
  <2>6. rest \in WorkerState /\ rest.at # "testing" /\ (tests # <<>> => rest.at = "lock")
    BY <2>2, IdleType
  <2>7. /\ worker' \in [Workers -> WorkerState] /\ worker'[w] = rest
        /\ \A v \in Workers : v # w => worker'[v] = worker[v]
    BY <2>3, <2>6, StateType
  <2>8. SessionOK
    BY <1>1 DEF SuiteInv
  <2>9. \A u : /\ NodeOutput(u)' = NodeOutput(u) /\ MachineOutput(u)' = MachineOutput(u)
              /\ Reference(u)' = Reference(u)
    BY <2>4 DEF NodeOutput, MachineOutput, Reference
  <2>10. \A v \in Workers : Holds(v, t) => v = w
    BY <1>1, <2>5, Held
  <2>11. \A v \in Workers, u \in ToSet(suite) : Holds(v, u)' <=> u # t /\ Holds(v, u)
    <3> SUFFICES ASSUME NEW v \in Workers, NEW u \in ToSet(suite)
                 PROVE  Holds(v, u)' <=> u # t /\ Holds(v, u)
      OBVIOUS
    <3>1. CASE v = w
      BY <1>2, <2>6, <2>7, <3>1 DEF Holds
    <3>2. CASE v # w
      BY <2>7, <2>10, <3>2 DEF Holds
    <3> QED
      BY <3>1, <3>2
  <2>12. t \notin judged /\ ~Contains(tests, t)
    BY <2>5, <2>8 DEF SessionOK, AccountedFor
  <2>13. tests \in Seq(Tests) /\ Len(tests) \in Nat
    BY StateType
  <2>14. queue' \in Seq(Workers)
    BY <1>1, <2>3, StateType, AppendProperties
  <2>15. QueueOK'
    <3>1. CASE tests = <<>>
      <4>1. queue' = <<>> /\ Len(queue') = 0
        BY <1>1, <2>3, <3>1, EmptySeq
      <4> QED
        BY <2>4, <2>13, <4>1 DEF QueueOK
    <3>2. CASE tests # <<>>
      <4>1. Len(queue') = 1 /\ queue'[1] = w
        <5>1. queue' = Append(<<>>, w)
          BY <1>1, <2>3, <3>2
        <5> QED
          BY <5>1
      <4>2. Len(tests) \in Nat \ {0}
        BY <2>13, <3>2, EmptySeq
      <4>3. \A i \in 1..Len(queue') : i = 1
        BY <4>1
      <4> QED
        BY <2>4, <2>6, <2>7, <3>2, <4>1, <4>2, <4>3 DEF QueueOK
    <3> QED
      BY <3>1, <3>2
  <2>16. ListOK' /\ \A u \in ToSet(suite') : AccountedFor(u)'
    <3>1. ListOK'
      BY <2>4, <2>8 DEF SessionOK, ListOK
    <3>2. ASSUME NEW u \in ToSet(suite) PROVE AccountedFor(u)'
      <4>1. AccountedFor(u)
        BY <2>8 DEF SessionOK
      <4>2. Contains(tests, u)' <=> Contains(tests, u)
        BY <2>4
      <4>3. CASE u = t
        BY <2>3, <2>4, <2>11, <2>12, <4>1, <4>2, <4>3 DEF AccountedFor
      <4>4. CASE u # t
        BY <2>3, <2>4, <2>11, <4>1, <4>2, <4>4 DEF AccountedFor
      <4> QED
        BY <4>3, <4>4
    <3> QED
      BY <2>4, <3>1, <3>2
  <2>17. WorkersOK'
    <3> SUFFICES ASSUME NEW v \in Workers, worker'[v].at = "testing"
                 PROVE  Knows(worker[v], worker[v].test)'
      BY DEF WorkersOK
    <3>1. worker'[v] = worker[v]
      BY <2>6, <2>7
    <3>2. Knows(worker[v], worker[v].test)
      BY <2>8, <3>1 DEF SessionOK, WorkersOK
    <3>3. worker'[v].test = worker[v].test
      BY <3>1
    <3> QED
      BY <2>4, <2>9, <3>1, <3>2, <3>3 DEF Knows
  <2>18. SessionOK'
    BY <2>15, <2>16, <2>17 DEF SessionOK
  <2>19. DiskOK'
    <3>1. ASSUME NEW u \in Tests \ upset PROVE Trusted(u)'
      <4>1. Trusted(u)
        BY DEF SuiteInv, DiskOK
      <4>2. ASSUME Writing(u) PROVE Writing(u)'
        <5>1. PICK v \in Workers : Holds(v, u) /\ worker[v].snapshot = "write"
          BY <4>2 DEF Writing
        <5>2. v # w /\ worker'[v] = worker[v] /\ worker[v].at = "testing"
          BY <2>5, <2>7, <5>1 DEF Holds
        <5>3. ~Over
          BY <2>1, <5>2
        <5> QED
          BY <1>1, <2>3, <5>1, <5>2, <5>3 DEF Writing, Holds
      <4> QED
        BY <2>4, <2>9, <4>1, <4>2 DEF Trusted
    <3> QED
      BY <2>4, <3>1 DEF SuiteInv, DiskOK
  <2>20. failed \subseteq judged /\ judged \subseteq Tests
    BY StateType
  <2>21. JudgedRight(t)'
    <3>1. snapshot'[t] # NONE /\ (t \notin upset => worker[w].assert = Reference(t))
      BY <2>4, <2>5 DEF Knows
    <3>2. t \in failed' <=> worker[w].assert # Unix[output]
      BY <2>3, <2>12, <2>20
    <3>3. output = MachineOutput(t)
      BY <1>3, <2>5, ProgramType
    <3> QED
      BY <2>4, <2>9, <3>1, <3>2, <3>3 DEF JudgedRight
  <2>22. \A u \in judged : JudgedRight(u)'
    <3> SUFFICES ASSUME NEW u \in judged PROVE JudgedRight(u)'
      OBVIOUS
    <3>1. JudgedRight(u)
      BY DEF SuiteInv, ReportOK
    <3>2. u \in failed' <=> u \in failed
      BY <2>3, <2>12
    <3> QED
      BY <2>4, <2>9, <3>1, <3>2 DEF JudgedRight
  <2>23. Over => ToSet(suite) \subseteq judged'
    <3> SUFFICES ASSUME Over, NEW u \in ToSet(suite) PROVE u \in judged'
      OBVIOUS
    <3>1. ~Contains(tests, u)
      <4>1. Len(tests) = 0
        BY <2>1, EmptySeq
      <4> QED
        BY <4>1 DEF Contains
    <3>2. \A v \in Workers : Holds(v, u) => u = t
      BY <1>2, <2>1 DEF Holds
    <3>3. u \in judged \/ \E v \in Workers : Holds(v, u)
      BY <2>8, <3>1 DEF SessionOK, AccountedFor
    <3> QED
      BY <2>3, <3>2, <3>3
  <2>24. process' = "exit 0" => failed' = {}
    BY <1>1, <2>3 DEF ExitCode
  <2>25. process' \in {"up", "exit 0", "exit 1"} /\ (process' # "up" => Over)
    BY <1>1, <2>3 DEF ExitCode
  <2>26. ReportOK'
    <3>1. judged' \subseteq ToSet(suite)
      BY <2>3, <2>5 DEF SuiteInv, ReportOK
    <3> QED
      BY <2>3, <2>4, <2>21, <2>22, <2>23, <2>24, <2>25, <3>1 DEF ReportOK
  <2>27. TypeOK'
    <3>1. failed' \subseteq judged' /\ judged' \subseteq Tests
      BY <2>3, <2>5, <2>20
    <3> QED
      BY <2>4, <2>7, <2>13, <2>14, <2>25, <3>1, StateType, TypeFromState
  <2> QED
    BY <2>4, <2>18, <2>19, <2>26, <2>27 DEF SuiteInv
<1> QED
  BY <1>4, <1>5

\* tests.pop(): the last test of the list, which is the suite's at that place.
LEMMA PoppedTest ==
  ASSUME SuiteInv, SessionOK, tests # <<>>
  PROVE  /\ Popped \in Seq(Tests) /\ Len(tests) \in Nat \ {0}
         /\ Len(Popped) = Len(tests) - 1
         /\ \A i \in 1..Len(Popped) : Popped[i] = suite[i]
         /\ Last(tests) \in ToSet(suite) /\ Contains(tests, Last(tests))
         /\ \A t : Contains(tests, t) <=> Contains(Popped, t) \/ t = Last(tests)
         /\ ~Contains(Popped, Last(tests))
<1>1. tests \in Seq(Tests) /\ Len(tests) \in Nat \ {0}
  BY StateType, EmptySeq
<1>2. PICK L \in Nat : L = Len(tests) - 1
  BY <1>1
<1>3. \A k \in 1..L : tests[k] \in Tests
  BY <1>1, <1>2
<1>4. /\ SubSeq(tests, 1, L) \in Seq(Tests)
      /\ Len(SubSeq(tests, 1, L)) = IF 1 <= L THEN L - 1 + 1 ELSE 0
      /\ \A k \in 1..(L - 1 + 1) : SubSeq(tests, 1, L)[k] = tests[1 + k - 1]
  BY <1>3, SubSeqProperties
<1>5. Popped = SubSeq(tests, 1, L)
  BY <1>2 DEF Popped, Front
<1>6. (IF 1 <= L THEN L - 1 + 1 ELSE 0) = L /\ L - 1 + 1 = L /\ \A k \in 1..L : 1 + k - 1 = k
  OBVIOUS
<1>7. Popped \in Seq(Tests) /\ Len(Popped) = L /\ \A k \in 1..L : Popped[k] = tests[k]
  BY <1>4, <1>5, <1>6
<1>8. Len(tests) = L + 1 /\ Last(tests) = tests[L + 1]
  BY <1>1, <1>2 DEF Last
<1>9. ListOK
  BY DEF SessionOK
<1>10. L + 1 \in 1..Len(suite) /\ Last(tests) = suite[L + 1] /\ Len(suite) \in Nat
  BY <1>8, <1>9, SuiteType DEF ListOK
<1>11. \A k \in 1..L : Popped[k] = suite[k] /\ k \in 1..Len(suite) /\ k # L + 1
  <2>1. \A k \in 1..L : k \in 1..Len(tests) /\ k \in 1..Len(suite) /\ k # L + 1
    BY <1>8, <1>10
  <2>2. \A k \in 1..L : tests[k] = suite[k]
    BY <1>9, <2>1 DEF ListOK
  <2> QED
    BY <1>7, <2>1, <2>2
<1>12. ~Contains(Popped, Last(tests))
  BY <1>7, <1>10, <1>11, SuiteType DEF Contains
<1>13. ASSUME NEW t PROVE Contains(tests, t) <=> Contains(Popped, t) \/ t = Last(tests)
  BY <1>7, <1>8 DEF Contains
<1>14. Last(tests) \in ToSet(suite)
  BY <1>10, SuiteType
<1> QED
  BY <1>1, <1>2, <1>7, <1>11, <1>12, <1>13, <1>14

LEMMA AcquireKeepsInv ==
  ASSUME SuiteInv, acquire
  PROVE  SuiteInv'
<1>1. process = "up" /\ queue # <<>> /\ UNCHANGED <<suite, judged, failed, disk, process, runs>>
  BY DEF acquire
<1>2. UNCHANGED <<suite, judged, failed, snapshot, version, upset, made, process, runs>>
  BY <1>1 DEF disk
<1>3. PICK h : h = Head(queue)
  OBVIOUS
<1>4. PICK t : t = IF tests = <<>> THEN undefined ELSE Last(tests)
  OBVIOUS
<1>5. PICK s : s = [Idle EXCEPT !.at = "testing", !.test = t]
  OBVIOUS
<1>6. worker' = [worker EXCEPT ![h] = s] /\ tests' = Popped /\ queue' = Tail(queue)
  BY <1>3, <1>4, <1>5 DEF acquire
<1>7. SessionOK
  BY <1>1 DEF SuiteInv
<1>8. /\ h \in Workers /\ h = queue[1] /\ Len(queue) \in Nat \ {0}
      /\ queue' \in Seq(Workers) /\ Len(queue') = Len(queue) - 1
      /\ \A i \in 1..Len(queue') : queue'[i] = queue[i + 1]
  BY <1>1, <1>3, <1>6, StateType, EmptySeq, HeadTailProperties
<1>9. worker[h].at = "lock"
  BY <1>7, <1>8 DEF SessionOK, QueueOK
<1>10. t \in ToSet(suite) \cup {undefined} /\ t \in Tests \cup {undefined}
  BY <1>4, <1>7, PoppedTest, SuiteType
<1>11. /\ s \in WorkerState /\ s.at = "testing" /\ s.test = t
       /\ s.snapshot = "read" /\ s.program = "compiling"
  BY <1>5, <1>10, SuiteAssumption DEF Idle, WorkerState, Empty
<1>12. /\ worker' \in [Workers -> WorkerState] /\ worker'[h] = s
       /\ \A v \in Workers : v # h => worker'[v] = worker[v]
  BY <1>6, <1>8, <1>11, StateType
<1>13. \A v \in Workers : \A u : Holds(v, u)' <=> Holds(v, u) \/ (v = h /\ u = t)
  <2> SUFFICES ASSUME NEW v \in Workers, NEW u
               PROVE  Holds(v, u)' <=> Holds(v, u) \/ (v = h /\ u = t)
    OBVIOUS
  <2>1. CASE v = h
    BY <1>9, <1>11, <1>12, <2>1 DEF Holds
  <2>2. CASE v # h
    BY <1>12, <2>2 DEF Holds
  <2> QED
    BY <2>1, <2>2
<1>14. \A u : /\ NodeOutput(u)' = NodeOutput(u) /\ MachineOutput(u)' = MachineOutput(u)
             /\ Reference(u)' = Reference(u)
  BY <1>2 DEF NodeOutput, MachineOutput, Reference
<1>15. tests = <<>> => Len(suite) < WORKERS /\ tests' = <<>>
  <2> SUFFICES ASSUME tests = <<>> PROVE Len(suite) < WORKERS
    BY <1>6 DEF Popped
  <2>1. Len(tests) = 0
    BY EmptySeq
  <2> QED
    BY SMTT(30), <1>7, <1>8, <2>1, SuiteType, SuiteAssumption DEF SessionOK, QueueOK
<1>16. ListOK' /\ tests' \in Seq(Tests)
  <2>1. CASE tests = <<>>
    <3>1. tests' = tests
      BY <1>15, <2>1
    <3> QED
      BY <1>2, <1>7, <3>1, StateType DEF SessionOK, ListOK
  <2>2. CASE tests # <<>>
    <3>1. Len(tests') <= Len(suite)
      BY <1>6, <1>7, <2>2, PoppedTest, SuiteType DEF SessionOK, ListOK
    <3> QED
      BY <1>2, <1>6, <1>7, <2>2, <3>1, PoppedTest DEF ListOK
  <2> QED
    BY <2>1, <2>2
<1>17. QueueOK'
  <2>1. \A i \in 1..Len(queue') : i + 1 \in 1..Len(queue) /\ i + 1 # 1
    BY <1>8
  <2>2. /\ \A i \in 1..Len(queue) : queue[i] \in Workers /\ worker[queue[i]].at = "lock"
        /\ \A i, j \in 1..Len(queue) : queue[i] = queue[j] => i = j
    <3>1. queue \in [1..Len(queue) -> Workers]
      BY StateType, LenProperties
    <3> QED
      BY <1>7, <3>1 DEF SessionOK, QueueOK
  <2>3. 1 \in 1..Len(queue)
    BY <1>8
  <2>4. \A i \in 1..Len(queue') : queue'[i] # h /\ worker'[queue'[i]].at = "lock"
    BY <1>8, <1>12, <2>1, <2>2, <2>3
  <2>5. \A i, j \in 1..Len(queue') : queue'[i] = queue'[j] => i = j
    <3> SUFFICES ASSUME NEW i \in 1..Len(queue'), NEW j \in 1..Len(queue'), queue'[i] = queue'[j]
                 PROVE  i = j
      OBVIOUS
    <3>1. i + 1 = j + 1
      BY <1>8, <2>1, <2>2
    <3> QED
      BY <1>8, <3>1
  <2>6. Len(suite) >= WORKERS => Len(queue') <= Len(tests')
    <3> SUFFICES ASSUME Len(suite) >= WORKERS PROVE Len(queue') <= Len(tests')
      OBVIOUS
    <3>1. tests # <<>>
      BY <1>15, SuiteType, SuiteAssumption
    <3>2. Len(queue) <= Len(tests)
      BY <1>7 DEF SessionOK, QueueOK
    <3> QED
      BY <1>6, <1>7, <1>8, <3>1, <3>2, PoppedTest
  <2> QED
    BY <1>2, <2>4, <2>5, <2>6 DEF QueueOK
<1>18. ASSUME NEW u \in ToSet(suite) PROVE AccountedFor(u)'
  <2>1. AccountedFor(u)
    BY <1>7 DEF SessionOK
  <2>2. CASE tests = <<>>
    <3>1. u # t /\ tests' = tests
      BY <1>4, <1>15, <2>2, SuiteType
    <3>2. Contains(tests, u)' <=> Contains(tests, u)
      BY <3>1
    <3> QED
      BY <1>2, <1>13, <2>1, <3>1, <3>2 DEF AccountedFor
  <2>3. CASE tests # <<>>
    <3>1. /\ Contains(tests, u) <=> Contains(tests, u)' \/ u = t
          /\ ~(u = t /\ Contains(tests, u)')
      BY <1>4, <1>6, <1>7, <2>3, PoppedTest
    <3>2. CASE u = t
      BY <1>2, <1>8, <1>13, <2>1, <3>1, <3>2 DEF AccountedFor
    <3>3. CASE u # t
      BY <1>2, <1>13, <2>1, <3>1, <3>3 DEF AccountedFor
    <3> QED
      BY <3>2, <3>3
  <2> QED
    BY <2>2, <2>3
<1>19. WorkersOK'
  <2> SUFFICES ASSUME NEW v \in Workers, worker'[v].at = "testing"
               PROVE  Knows(worker[v], worker[v].test)'
    BY DEF WorkersOK
  <2>1. CASE v = h
    <3>1. worker'[v] = s /\ worker'[v].test = t
      BY <1>11, <1>12, <2>1
    <3>2. t = undefined => Len(suite) < WORKERS
      BY <1>4, <1>7, <1>15, PoppedTest, SuiteType
    <3>3. t \notin made
      <4>1. CASE tests = <<>>
        BY <1>4, <4>1, StateType, SuiteAssumption
      <4>2. CASE tests # <<>>
        BY <1>4, <1>7, <4>2, PoppedTest DEF SessionOK, AccountedFor
      <4> QED
        BY <4>1, <4>2
    <3> QED
      BY <1>2, <1>10, <1>11, <3>1, <3>2, <3>3 DEF Knows
  <2>2. CASE v # h
    <3>1. worker'[v] = worker[v] /\ worker'[v].test = worker[v].test
      BY <1>12, <2>2
    <3>2. Knows(worker[v], worker[v].test)
      BY <1>7, <3>1 DEF SessionOK, WorkersOK
    <3> QED
      BY <1>2, <1>14, <3>1, <3>2 DEF Knows
  <2> QED
    BY <2>1, <2>2
<1>20. SessionOK'
  BY <1>2, <1>16, <1>17, <1>18, <1>19 DEF SessionOK
<1>21. DiskOK'
  <2>1. ASSUME NEW u \in Tests \ upset PROVE Trusted(u)'
    <3>1. Trusted(u)
      BY DEF SuiteInv, DiskOK
    <3>2. ASSUME Writing(u) PROVE Writing(u)'
      <4>1. PICK v \in Workers : Holds(v, u) /\ worker[v].snapshot = "write"
        BY <3>2 DEF Writing
      <4>2. v # h /\ worker'[v] = worker[v]
        BY <1>9, <1>12, <4>1 DEF Holds
      <4> QED
        BY <1>1, <1>2, <4>1, <4>2 DEF Writing, Holds
    <3> QED
      BY <1>2, <1>14, <3>1, <3>2 DEF Trusted
  <2> QED
    BY <1>2, <2>1 DEF SuiteInv, DiskOK
<1>22. ReportOK'
  <2>1. \A u \in judged : JudgedRight(u)'
    BY <1>2, <1>14 DEF SuiteInv, ReportOK, JudgedRight
  <2> QED
    BY <1>2, <2>1 DEF SuiteInv, ReportOK
<1>23. TypeOK'
  BY <1>2, <1>8, <1>12, <1>16, StateType, TypeFromState
<1> QED
  BY <1>2, <1>20, <1>21, <1>22, <1>23 DEF SuiteInv

-----------------------------------------------------------------------------
(* Between two runs.                                                       *)

LEMMA StartKeepsInv ==
  ASSUME SuiteInv, Start
  PROVE  SuiteInv'
<1>1. /\ process # "up" /\ tests' = suite /\ judged' = {} /\ failed' = {} /\ made' = {}
      /\ process' = IF suite = <<>> THEN ExitCode({}) ELSE "up"
      /\ queue' = IF suite = <<>> THEN <<>> ELSE [w \in Workers |-> w]
      /\ worker' = [w \in Workers |->
                     IF suite = <<>> THEN [Idle EXCEPT !.at = "done"] ELSE Idle]
      /\ UNCHANGED <<suite, snapshot, version, upset>>
  BY DEF Start
<1>2. UNCHANGED <<suite, snapshot, version, upset>>
  BY <1>1
<1>3. /\ process' = "exit 0" => suite = <<>>
      /\ process' \in {"up", "exit 0"}
  BY <1>1 DEF ExitCode
<1>4. WORKERS \in Nat /\ Workers = 1..WORKERS
  BY SuiteAssumption DEF Workers
<1>5. /\ [w \in Workers |-> w] \in Seq(Workers)
      /\ Len([w \in Workers |-> w]) = WORKERS
  BY <1>4
<1>6. queue' \in Seq(Workers)
  BY <1>1, <1>5, EmptySeq
<1>7. worker' \in [Workers -> WorkerState] /\ \A w \in Workers : worker'[w].at # "testing"
  BY <1>1, IdleType
<1>8. suite \in Seq(Tests)
  BY SuiteType
<1>9. TypeOK'
  BY <1>1, <1>2, <1>3, <1>6, <1>7, <1>8, StateType, TypeFromState
<1>10. ASSUME process' = "up" PROVE SessionOK'
  <2>1. suite # <<>> /\ queue' = [w \in Workers |-> w] /\ \A w \in Workers : worker'[w].at = "lock"
    BY <1>1, <1>10, IdleType DEF ExitCode
  <2>2. ListOK'
    BY <1>1, <1>2, SuiteType DEF ListOK
  <2>3. Len(queue') = WORKERS /\ \A i \in Workers : queue'[i] = i
    BY <1>5, <2>1
  <2>4. QueueOK'
    BY <1>1, <1>2, <1>4, <2>1, <2>3, SuiteType DEF QueueOK
  <2>5. \A t \in ToSet(suite) : AccountedFor(t)'
    BY <1>1, <1>7, SuiteType DEF AccountedFor, Contains, Holds
  <2>6. WorkersOK'
    BY <1>7 DEF WorkersOK
  <2> QED
    BY <1>2, <2>2, <2>4, <2>5, <2>6 DEF SessionOK
<1>11. DiskOK'
  <2>1. ASSUME NEW u \in Tests \ upset PROVE Trusted(u)'
    <3>1. snapshot[u] \in {NONE, NodeOutput(u)}
      BY <1>1 DEF SuiteInv, DiskOK, Trusted, Writing
    <3> QED
      BY <1>2, <3>1 DEF Trusted, NodeOutput
  <2> QED
    BY <1>2, <2>1 DEF SuiteInv, DiskOK
<1>12. ReportOK'
  <2>1. suite = <<>> => ToSet(suite) = {}
    BY DEF ToSet
  <2> QED
    BY <1>1, <1>2, <1>3, <2>1 DEF ReportOK
<1> QED
  BY <1>2, <1>9, <1>10, <1>11, <1>12 DEF SuiteInv

LEMMA EditKeepsInv ==
  ASSUME SuiteInv, NEW t \in ToSet(suite), Edit(t)
  PROVE  SuiteInv'
<1>1. /\ process # "up" /\ version' = [version EXCEPT ![t] = 2]
      /\ upset' = IF snapshot[t] = NONE THEN upset ELSE upset \cup {t}
      /\ UNCHANGED <<suite, tests, queue, worker, judged, failed, snapshot, made, process, runs>>
  BY DEF Edit, session
<1>2. t \in Tests
  BY SuiteType
<1>3. version' \in [Tests -> Versions] /\ \A u \in Tests : u # t => version'[u] = version[u]
  BY <1>1, StateType DEF Versions
<1>4. upset \subseteq upset' /\ upset' \subseteq Tests
  BY <1>1, <1>2 DEF SuiteInv, DiskOK
<1>5. \A u \in Tests : u # t =>
        /\ NodeOutput(u)' = NodeOutput(u) /\ MachineOutput(u)' = MachineOutput(u)
        /\ Reference(u)' = Reference(u)
  BY <1>1, <1>3 DEF NodeOutput, MachineOutput, Reference
<1>6. DiskOK'
  <2>1. ASSUME NEW u \in Tests \ upset' PROVE Trusted(u)'
    <3>1. snapshot[u] \in {NONE, NodeOutput(u)}
      BY <1>1, <1>4 DEF SuiteInv, DiskOK, Trusted, Writing
    <3>2. u = t => snapshot[u] = NONE
      BY <1>1
    <3> QED
      BY <1>1, <1>5, <3>1, <3>2 DEF Trusted
  <2> QED
    BY <1>3, <1>4, <2>1 DEF DiskOK
<1>7. ReportOK'
  <2>1. ASSUME NEW u \in judged PROVE JudgedRight(u)'
    <3>1. JudgedRight(u) /\ u \in Tests
      BY StateType DEF SuiteInv, ReportOK
    <3>2. u = t => u \in upset'
      BY <1>1, <3>1 DEF JudgedRight
    <3> QED
      BY <1>1, <1>4, <1>5, <3>1, <3>2 DEF JudgedRight
  <2> QED
    BY <1>1, <2>1 DEF SuiteInv, ReportOK
<1>8. TypeOK'
  BY <1>1, StateType, TypeFromState
<1> QED
  BY <1>1, <1>6, <1>7, <1>8 DEF SuiteInv

-----------------------------------------------------------------------------
(* The theorems.                                                           *)

LEMMA InitInv == Init => SuiteInv
<1> SUFFICES ASSUME Init PROVE SuiteInv
  OBVIOUS
<1>1. /\ tests \in Seq(Tests) /\ queue \in Seq(Workers)
      /\ worker \in [Workers -> WorkerState]
  BY IdleType, EmptySeq DEF Init
<1>2. snapshot \in [Tests -> Outputs \cup {NONE}] /\ version \in [Tests -> Versions]
  BY DEF Init, Versions
<1>3. TypeOK
  BY <1>1, <1>2 DEF TypeOK, WorkerState, Init
<1>4. DiskOK
  BY <1>2 DEF Init, DiskOK, Trusted
<1>5. ReportOK
  BY DEF Init, ReportOK
<1> QED
  BY <1>3, <1>4, <1>5 DEF Init, SuiteInv

LEMMA StutterKeepsInv == SuiteInv /\ UNCHANGED vars => SuiteInv'
<1> SUFFICES ASSUME SuiteInv, UNCHANGED vars PROVE SuiteInv'
  OBVIOUS
<1>1. UNCHANGED <<suite, tests, queue, worker, judged, failed, snapshot, version, upset, made,
                 process, runs>>
  BY DEF vars, session, disk
<1>2. TypeOK'
  BY <1>1 DEF SuiteInv, TypeOK
<1>3. SessionOK' <=> SessionOK
  BY <1>1 DEF SessionOK, ListOK, QueueOK, AccountedFor, WorkersOK, Holds, Knows, NodeOutput,
             Reference
<1>4. DiskOK' <=> DiskOK
  BY <1>1 DEF DiskOK, Trusted, Writing, Holds, NodeOutput
<1>5. ReportOK' <=> ReportOK
  BY <1>1 DEF ReportOK, JudgedRight, NodeOutput, MachineOutput, Reference
<1> QED
  BY <1>1, <1>2, <1>3, <1>4, <1>5 DEF SuiteInv

LEMMA NextKeepsInv == SuiteInv /\ [Next]_vars => SuiteInv'
<1> SUFFICES ASSUME SuiteInv, [Next]_vars PROVE SuiteInv'
  OBVIOUS
<1>1. CASE Start
  BY <1>1, StartKeepsInv
<1>2. CASE acquire
  BY <1>2, AcquireKeepsInv
<1>3. CASE \E w \in Workers : SnapshotRead(w)
  BY <1>3, SnapshotReadKeepsInv
<1>4. CASE \E w \in Workers : NodeExits(w)
  BY <1>4, NodeExitsKeepsInv
<1>5. CASE \E w \in Workers : SnapshotOpened(w)
  BY <1>5, SnapshotOpenedKeepsInv
<1>6. CASE \E w \in Workers : SnapshotWritten(w)
  BY <1>6, SnapshotWrittenKeepsInv
<1>7. CASE \E w \in Workers : CompilerExits(w)
  BY <1>7, CompilerExitsKeepsInv
<1>8. CASE \E w \in Workers : MachineExits(w)
  BY <1>8, MachineExitsKeepsInv
<1>9. CASE \E t \in ToSet(suite) : Edit(t)
  BY <1>9, EditKeepsInv
<1>10. CASE UNCHANGED vars
  BY <1>10, StutterKeepsInv
<1> QED
  BY <1>1, <1>2, <1>3, <1>4, <1>5, <1>6, <1>7, <1>8, <1>9, <1>10 DEF Next, Turn

LEMMA SuiteInvHolds == Spec => []SuiteInv
BY InitInv, NextKeepsInv, PTL DEF Spec

\* The harness's variables keep their types, whatever fails and whenever it is
\* started again.
THEOREM SuiteIsTyped == Spec => []TypeOK
<1>1. SuiteInv => TypeOK
  BY DEF SuiteInv
<1> QED
  BY <1>1, SuiteInvHolds, PTL

\* As long as the harness is up every test is listed, held by exactly one worker,
\* or judged; a report covers all of them. With any number of workers and tests.
\* (tests.pop() under the lock.)
THEOREM NoTestIsLost == Spec => []TestsAccountedFor
<1>1. ASSUME SuiteInv PROVE TestsAccountedFor
  <2> SUFFICES ASSUME NEW t \in ToSet(suite)
               PROVE  LET Holders == {w \in Workers : worker[w].at = "testing" /\ worker[w].test = t}
                          listed  == Contains(tests, t)
                      IN  /\ process = "up" =>
                               Cardinality(Holders) + (IF listed THEN 1 ELSE 0)
                                 + (IF t \in judged THEN 1 ELSE 0) = 1
                          /\ process \in {"exit 0", "exit 1"} /\ runs > 0 => t \in judged
    BY DEF TestsAccountedFor
  <2> DEFINE Holders == {w \in Workers : worker[w].at = "testing" /\ worker[w].test = t}
  <2>1. ASSUME process = "up"
        PROVE  Cardinality(Holders) + (IF Contains(tests, t) THEN 1 ELSE 0)
                 + (IF t \in judged THEN 1 ELSE 0) = 1
    <3>1. AccountedFor(t)
      BY <1>1, <2>1 DEF SuiteInv, SessionOK
    <3>2. \A w \in Workers : w \in Holders <=> Holds(w, t)
      BY DEF Holds
    <3>3. CASE Holders = {}
      <4>1. Cardinality(Holders) = 0
        BY <3>3, FS_EmptySet
      <4>2. \A w \in Workers : ~Holds(w, t)
        BY <3>2, <3>3
      <4> QED
        BY <3>1, <4>1, <4>2 DEF AccountedFor
    <3>4. CASE Holders # {}
      <4>1. PICK w \in Workers : w \in Holders
        BY <3>4
      <4>2. Holds(w, t) /\ \A v \in Workers : Holds(v, t) => v = w
        BY <3>1, <3>2, <4>1 DEF AccountedFor
      <4>3. Holders = {w}
        BY <3>2, <4>1, <4>2
      <4>4. Cardinality(Holders) = 1
        BY <4>3, FS_Singleton
      <4>5. ~Contains(tests, t) /\ t \notin judged
        BY <3>1, <4>2 DEF AccountedFor
      <4> QED
        BY <4>4, <4>5
    <3> QED
      BY <3>3, <3>4
  <2>2. process \in {"exit 0", "exit 1"} /\ runs > 0 => t \in judged
    <3>1. process \in {"exit 0", "exit 1"} => runs = 0 \/ t \in judged
      BY <1>1 DEF SuiteInv, ReportOK
    <3>2. runs = 0 => ~(runs > 0)
      OBVIOUS
    <3> QED
      BY <3>1, <3>2
  <2> QED
    BY <2>1, <2>2
<1> QED
  BY <1>1, SuiteInvHolds, PTL

\* A verdict and the exit code say whether the machine prints what node prints, but
\* for the \r\n that runProgram converts in the output of the machine, and getSnapshot
\* in that of node from the second run on; unless the program has changed under its
\* snapshot or an earlier run came down while writing it. (getSnapshot trusts any
\* file; fs.writeFile is not atomic.)
THEOREM VerdictsAreRight == Spec => []VerdictsRight
<1>1. SuiteInv => VerdictsRight
  BY DEF SuiteInv, ReportOK, JudgedRight, VerdictsRight, MachineOutput
<1> QED
  BY <1>1, SuiteInvHolds, PTL

LEMMA CauseOfCrash ==
  ASSUME SuiteInv, Next, process' = "crashed", process = "up"
  PROVE  \/ Len(suite) < WORKERS
         \/ \E t \in ToSet(suite) :
              Program(t).node = Dies \/ ~Program(t).compiles \/ Program(t).machine = Dies
<1>1. ASSUME NEW w \in Workers, worker[w].at = "testing",
             \/ Program(worker[w].test).node = Dies
             \/ ~Program(worker[w].test).compiles
             \/ Program(worker[w].test).machine = Dies
      PROVE  \/ Len(suite) < WORKERS
             \/ \E t \in ToSet(suite) :
                  Program(t).node = Dies \/ ~Program(t).compiles \/ Program(t).machine = Dies
  <2>1. Knows(worker[w], worker[w].test)
    BY <1>1, Held
  <2>2. CASE worker[w].test = undefined
    BY <2>1, <2>2 DEF Knows
  <2>3. CASE worker[w].test \in ToSet(suite)
    BY <1>1, <2>3
  <2> QED
    BY <2>1, <2>2, <2>3 DEF Knows
<1>2. CASE Start \/ acquire \/ \E t \in ToSet(suite) : Edit(t)
  BY <1>2 DEF Start, acquire, Edit
<1>3. CASE \E w \in Workers : SnapshotRead(w) \/ SnapshotOpened(w) \/ SnapshotWritten(w)
  BY <1>3 DEF SnapshotRead, SnapshotOpened, SnapshotWritten, Becomes
<1>4. ASSUME NEW w \in Workers, NodeExits(w)
      PROVE  worker[w].at = "testing" /\ Program(worker[w].test).node = Dies
  BY <1>4 DEF NodeExits, Testing, Becomes
<1>5. ASSUME NEW w \in Workers, CompilerExits(w)
      PROVE  worker[w].at = "testing" /\ ~Program(worker[w].test).compiles
  BY <1>5 DEF CompilerExits, Testing, Becomes
<1>6. ASSUME NEW w \in Workers, MachineExits(w)
      PROVE  worker[w].at = "testing" /\ Program(worker[w].test).machine = Dies
  BY <1>6 DEF MachineExits, Testing, ExitCode
<1> QED
  BY <1>1, <1>2, <1>3, <1>4, <1>5, <1>6 DEF Next, Turn

\* The harness comes down only for a program that fails, or when there are fewer
\* tests than workers: with at least as many, no worker pops an empty list.
\* (while (tests.length > 0) before await mutex.acquire.)
THEOREM CrashesHaveACause == Spec => CrashHasACause
<1>1. SuiteInv /\ [Next]_vars =>
        [process' = "crashed" /\ process = "up" =>
           \/ Len(suite) < WORKERS
           \/ \E t \in ToSet(suite) :
                Program(t).node = Dies \/ ~Program(t).compiles \/ Program(t).machine = Dies]_vars
  BY CauseOfCrash
<1> QED
  BY <1>1, SuiteInvHolds, PTL DEF Spec, CrashHasACause

=============================================================================
