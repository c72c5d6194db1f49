------------------------------ MODULE TestRunner ------------------------------
(***************************************************************************)
(* The parallel test driver test.py: run_tests dispatches jobs to worker   *)
(* threads through input_queue, collects their answers from output_queue,  *)
(* joins the threads and returns the exit code; a SIGINT hook only sets    *)
(* thread_exit.                                                            *)
(*                                                                         *)
(* Job j is the j-th one dispatched, so that the first-in first-out        *)
(* input_queue is the interval of its entries taken+1 .. jobs+pills, the   *)
(* entries above N being the is_break jobs that stop a worker.  The order  *)
(* in which main finds the answers in output_queue is left open.           *)
(***************************************************************************)
EXTENDS Integers, FiniteSets

CONSTANTS
    N,           \* jobs that remain after suites and examples are filtered
    Workers,     \* one thread per processor
    ToSkip,      \* jobs with is_skip set
    Suites,      \* jobs that run a test suite, and leave a results file
    NoExit, NoVerdict

Jobs == 1..N

ASSUME JobsAssumption == N \in Nat /\ ToSkip \subseteq Jobs /\ Suites \subseteq Jobs
ASSUME WorkersAssumption == IsFiniteSet(Workers) /\ Workers # {}
ASSUME NoneAssumption ==
    /\ NoExit \notin {0, 1}
    /\ NoVerdict \notin {"PASS", "FAIL", "VALGR", "CRASH", "SKIP", "BREAK"}

VARIABLES
    thread_exit,   \* set by the SIGINT hook
    jobs,          \* jobs dispatched
    pills,         \* is_break jobs dispatched
    taken,         \* entries taken from input_queue
    state,         \* of each worker
    holding,       \* the job of each worker, 0 for none
    output_queue,  \* answers
    verdict,       \* what main has made of each answer
    collected,     \* iterations of main's collecting loop
    passed, skipped,
    raised,        \* main failed to open a results file
    exit           \* exit code of the process

input == <<jobs, pills>>
workers == <<taken, state, holding>>
results == <<verdict, collected, passed, skipped, raised>>
vars == <<thread_exit, input, workers, output_queue, results, exit>>

Status(code) ==
    IF code = 0 THEN "PASS" ELSE IF code = 1 THEN "FAIL"
    ELSE IF code = 2 THEN "VALGR" ELSE "CRASH"

Processors == Cardinality(Workers)
Over(w) == state[w] \in {"stopped", "dead"}

-----------------------------------------------------------------------------
(* sigint_hook.                                                            *)
Interrupt ==
    /\ exit = NoExit /\ ~thread_exit
    /\ thread_exit' = TRUE
    /\ UNCHANGED <<input, workers, output_queue, results, exit>>

(* worker_thread.run: a worker takes an entry when there is one, and       *)
(* leaves at a pill.                                                       *)
AvailableEarly == taken <= jobs + pills  \* a mutant: one entry too early
Available == taken < jobs + pills
Get(w) ==
    /\ state[w] = "idle"
    /\ Available
    /\ taken' = taken + 1
    /\ IF taken' <= N
       THEN /\ state' = [state EXCEPT ![w] = "taken"]
            /\ holding' = [holding EXCEPT ![w] = taken']
       ELSE state' = [state EXCEPT ![w] = "stopped"] /\ UNCHANGED holding
    /\ UNCHANGED <<thread_exit, input, output_queue, results, exit>>

Put(w, verdict_, file) ==
    /\ output_queue' = output_queue \union
          {[job |-> holding[w], verdict |-> verdict_, file |-> file]}
    /\ holding' = [holding EXCEPT ![w] = 0]
    /\ UNCHANGED <<thread_exit, input, taken, results, exit>>

(* Once interrupted, a worker reports the job as a break and goes on; a    *)
(* mutant leaves its loop, another one forgets the answer.                 *)
GiveBackAndLeave(w) ==
    /\ state[w] = "taken" /\ thread_exit
    /\ Put(w, "BREAK", FALSE)
    /\ state' = [state EXCEPT ![w] = "stopped"]
DropJob(w) ==
    /\ state[w] = "taken" /\ thread_exit
    /\ holding' = [holding EXCEPT ![w] = 0]
    /\ state' = [state EXCEPT ![w] = "idle"]
    /\ UNCHANGED <<thread_exit, input, taken, output_queue, results, exit>>
GiveBack(w) ==
    /\ state[w] = "taken" /\ thread_exit
    /\ Put(w, "BREAK", FALSE)
    /\ state' = [state EXCEPT ![w] = "idle"]

Skip(w) ==
    /\ state[w] = "taken" /\ ~thread_exit /\ holding[w] \in ToSkip
    /\ Put(w, "SKIP", FALSE)
    /\ state' = [state EXCEPT ![w] = "idle"]

Launch(w) ==
    /\ state[w] = "taken" /\ ~thread_exit /\ holding[w] \notin ToSkip
    /\ state' = [state EXCEPT ![w] = "running"]
    /\ UNCHANGED <<thread_exit, input, taken, holding, output_queue, results, exit>>

(* run_job_synchronously: a suite that runs to its end (0, 1 or 2, and no  *)
(* crash, 3 here) has written its results file; output that cannot be      *)
(* decoded makes a 1 of any code.                                          *)
Finish(w) ==
    /\ state[w] = "running"
    /\ \E code \in 0..3, decodable \in BOOLEAN :
         Put(w, Status(IF decodable THEN code ELSE 1), holding[w] \in Suites /\ code # 3)
    /\ state' = [state EXCEPT ![w] = "idle"]

(* Popen raises (no process can be created): the thread ends, and nobody   *)
(* answers for its job.                                                    *)
Die(w) ==
    /\ state[w] = "running"
    /\ state' = [state EXCEPT ![w] = "dead"]
    /\ UNCHANGED <<thread_exit, input, taken, holding, output_queue, results, exit>>

Work(w) ==
    Get(w) \/ GiveBack(w) \/ Skip(w) \/ Launch(w) \/ Finish(w) \/ Die(w)

-----------------------------------------------------------------------------
(* run_tests: the jobs, then one pill per worker.                          *)
Dispatch ==
    /\ jobs < N
    /\ jobs' = jobs + 1
    /\ UNCHANGED <<thread_exit, pills, workers, output_queue, results, exit>>

DispatchPill ==
    /\ jobs = N /\ pills < Processors
    /\ pills' = pills + 1
    /\ UNCHANGED <<thread_exit, jobs, workers, output_queue, results, exit>>

(* One answer: a break counts for the loop only.  The results file of a    *)
(* suite with code 0, 1 or 2 is appended to the report, and must exist.    *)
NoFile(a) ==
    /\ a.job \in Suites /\ a.verdict \in {"PASS", "FAIL", "VALGR"}
    /\ ~a.file

SkipOnInterrupt(a) == a.verdict \in {"SKIP", "BREAK"}  \* a mutant
IsSkip(a) == a.verdict = "SKIP"
Count(n, condition) == IF condition THEN n + 1 ELSE n

Collect ==
    /\ jobs = N /\ pills = Processors /\ collected < jobs /\ ~raised
    /\ \E a \in output_queue :
         /\ output_queue' = output_queue \ {a}
         /\ verdict' = [verdict EXCEPT ![a.job] = a.verdict]
         /\ passed' = Count(passed, a.verdict = "PASS")
         /\ skipped' = Count(skipped, IsSkip(a))
         /\ raised' = NoFile(a)
    /\ collected' = collected + 1
    /\ UNCHANGED <<thread_exit, input, workers, exit>>

(* The threads are joined - by the interpreter when main has raised.       *)
ExitCodeOfFailures ==  \* a mutant: what was given back is not missed
    IF raised \/ \E j \in Jobs : verdict[j] \in {"FAIL", "VALGR", "CRASH"} THEN 1 ELSE 0
ExitCode == IF raised \/ passed + skipped # jobs THEN 1 ELSE 0
CanReturn ==
    /\ jobs = N /\ pills = Processors
    /\ raised \/ collected = jobs
    /\ \A w \in Workers : Over(w)
Return ==
    /\ exit = NoExit
    /\ CanReturn
    /\ exit' = ExitCode
    /\ UNCHANGED <<thread_exit, input, workers, output_queue, results>>

Main == Dispatch \/ DispatchPill \/ Collect \/ Return

-----------------------------------------------------------------------------
Init ==
    /\ thread_exit = FALSE
    /\ jobs = 0 /\ pills = 0 /\ taken = 0
    /\ state = [w \in Workers |-> "idle"]
    /\ holding = [w \in Workers |-> 0]
    /\ output_queue = {}
    /\ verdict = [j \in Jobs |-> NoVerdict]
    /\ collected = 0 /\ passed = 0 /\ skipped = 0
    /\ raised = FALSE /\ exit = NoExit

Next == Interrupt \/ Main \/ \E w \in Workers : Work(w)

Spec == Init /\ [][Next]_vars

(* Threads are scheduled, and every test process ends (nothing limits its  *)
(* time).                                                                  *)
FairSpec == Spec /\ WF_vars(Main) /\ \A w \in Workers : WF_vars(Work(w))

-----------------------------------------------------------------------------
VerdictsGiven == {"PASS", "FAIL", "VALGR", "CRASH", "SKIP", "BREAK"}
Answers == [job : Jobs, verdict : VerdictsGiven, file : BOOLEAN]

(* Every variable has its type.                                            *)
TypeOK ==
    /\ thread_exit \in BOOLEAN
    /\ jobs \in 0..N /\ pills \in 0..Processors
    /\ taken \in 0..(jobs + pills)
    /\ state \in [Workers -> {"idle", "taken", "running", "stopped", "dead"}]
    /\ holding \in [Workers -> 0..N]
    /\ output_queue \subseteq Answers
    /\ verdict \in [Jobs -> VerdictsGiven \union {NoVerdict}]
    /\ collected \in 0..N /\ passed \in 0..N /\ skipped \in 0..N
    /\ raised \in BOOLEAN /\ exit \in {0, 1, NoExit}

WithWorker(j) == \E w \in Workers : holding[w] = j
InAnswer(j) == \E a \in output_queue : a.job = j
Judged == {j \in Jobs : verdict[j] # NoVerdict}

(* No job is lost or answered twice: one taken from the queue is with one  *)
(* worker, or in one answer on its way to main, or judged - through        *)
(* interrupts, skips, dying workers and a report that cannot be written    *)
(* (worker_thread.run, run_tests).                                         *)
AnsweredOnce ==
    /\ \A j \in Jobs :
         /\ j <= taken <=> WithWorker(j) \/ InAnswer(j) \/ j \in Judged
         /\ ~(WithWorker(j) /\ InAnswer(j))
         /\ j \in Judged => ~WithWorker(j) /\ ~InAnswer(j)
    /\ \A v, w \in Workers : holding[v] = holding[w] /\ holding[w] # 0 => v = w
    /\ \A a, b \in output_queue : a.job = b.job => a = b

(* The process says success only if every job has been run and passed, or  *)
(* was to be skipped: an interrupt, a lost answer or a crash taken for     *)
(* something else never turns into a 0 (run_tests, its return).            *)
SuccessMeansPassed ==
    exit = 0 =>
        \A j \in Jobs : verdict[j] = IF j \in ToSkip THEN "SKIP" ELSE "PASS"

Stopped == {w \in Workers : state[w] = "stopped"}

(* The pills left are those of the workers still there (or dead, which     *)
(* leave theirs behind): no worker leaves while a job waits, none is left  *)
(* waiting when main joins it, also when an interrupt has turned jobs into *)
(* breaks (worker_thread.run 991-1001).                                    *)
OnePillEach ==
    Cardinality(Stopped) = IF taken <= N THEN 0 ELSE taken - N

(* What a worker, and main, can go on with.                                *)
CanWork(w) ==
    \/ state[w] \in {"taken", "running"}
    \/ state[w] = "idle" /\ Available
MainCanGoOn ==
    \/ jobs < N \/ pills < Processors
    \/ collected < jobs /\ ~raised /\ output_queue # {}
    \/ CanReturn

(* As long as the process has not ended and no worker has died, main or a  *)
(* worker can go on: main never waits for an answer that nobody will give, *)
(* nor joins a worker that waits for an entry that nobody will put         *)
(* (worker_thread.run, run_tests: its collecting loop and its joins).      *)
NoStandstill ==
    exit = NoExit /\ (\A w \in Workers : state[w] # "dead") =>
        MainCanGoOn \/ \E w \in Workers : CanWork(w)

(* Results agree with what was asked for: only the jobs to skip are        *)
(* skipped, only an interrupt breaks one, only a 1 may lack its file.      *)
ResultFits(j, v) ==
    /\ v = "SKIP" => j \in ToSkip
    /\ v \in {"PASS", "FAIL", "VALGR", "CRASH"} => j \notin ToSkip
    /\ v = "BREAK" => thread_exit
ResultsFit ==
    /\ \A a \in output_queue : /\ ResultFits(a.job, a.verdict)
                               /\ NoFile(a) => a.verdict = "FAIL"
    /\ \A j \in Jobs : ResultFits(j, verdict[j])
    /\ \A w \in Workers :
         /\ state[w] \in {"idle", "stopped"} <=> holding[w] = 0
         /\ state[w] \in {"running", "dead"} => holding[w] \notin ToSkip
    /\ raised => \E j \in Jobs : verdict[j] = "FAIL"

(* Main's counters count what it has judged; once the process has ended,   *)
(* nothing moves.                                                          *)
Well == {j \in Jobs : verdict[j] \in {"PASS", "SKIP"}}
CountersAgree ==
    /\ collected = Cardinality(Judged)
    /\ passed + skipped = Cardinality(Well)
    /\ pills > 0 => jobs = N
    /\ exit # NoExit => CanReturn /\ exit = ExitCode

(* The inductive invariant.                                                *)
RunnerInv ==
    TypeOK /\ AnsweredOnce /\ OnePillEach /\ ResultsFit /\ CountersAgree

(* The driver ends, whatever the user and the tests do, unless a worker    *)
(* dies with a job that main then waits for.                               *)
Terminates == <>(exit # NoExit \/ \E w \in Workers : state[w] = "dead")

(* The driver gives every job one verdict and the run the right exit code. *)
Abstract == INSTANCE TestVerdicts WITH interrupted <- thread_exit
VerdictsImplemented == Abstract!Spec
=============================================================================
