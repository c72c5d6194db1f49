--------------------------- MODULE TestRunnerProofs ---------------------------
(***************************************************************************)
(* Proofs about TestRunner, for any number of jobs and workers: its        *)
(* inductive invariant, one lemma per action, and that it implements       *)
(* TestVerdicts.                                                           *)
(***************************************************************************)
EXTENDS TestRunner, FiniteSetTheorems, TLAPS

(* The sets whose sizes the counters hold are finite.                      *)
LEMMA JobsFinite ==
    /\ IsFiniteSet(Jobs) /\ Cardinality(Jobs) = N
    /\ Processors \in Nat /\ Processors > 0
<1>1. IsFiniteSet(Jobs) /\ Cardinality(Jobs) = N
  BY FS_Interval, JobsAssumption DEF Jobs
<1>2. Processors \in Nat
  BY FS_CardinalityType, WorkersAssumption DEF Processors
<1>3. Processors # 0
  BY FS_EmptySet, WorkersAssumption DEF Processors
<1> QED
  BY <1>1, <1>2, <1>3

(* A set that one more member joins has one more element.                  *)
LEMMA OneMore ==
    ASSUME NEW S, IsFiniteSet(S), NEW T, NEW x, x \notin S, T = S \union {x}
    PROVE  Cardinality(T) = Cardinality(S) + 1
  BY FS_AddElement

LEMMA InitRunner == Init => RunnerInv
<1> SUFFICES ASSUME Init PROVE RunnerInv
  OBVIOUS
<1> USE JobsFinite, JobsAssumption, NoneAssumption DEF Init
<1>1. TypeOK
  <2>1. /\ output_queue \subseteq Answers /\ 0 \in 0..N /\ 0 \in 0..Processors
        /\ 0 \in 0..(0 + 0)
    OBVIOUS
  <2>2. /\ state \in [Workers -> {"idle", "taken", "running", "stopped", "dead"}]
        /\ holding \in [Workers -> 0..N]
    BY <2>1
  <2>3. verdict \in [Jobs -> VerdictsGiven \union {NoVerdict}]
    OBVIOUS
  <2> QED
    BY <2>1, <2>2, <2>3 DEF TypeOK
<1>2. AnsweredOnce
  BY DEF AnsweredOnce, WithWorker, InAnswer, Judged, Jobs
<1>3. OnePillEach
  <2>1. Stopped = {}
    BY DEF Stopped
  <2> QED
    BY <2>1, FS_EmptySet DEF OnePillEach
<1>4. ResultsFit
  BY DEF ResultsFit, ResultFits, NoFile, Jobs
<1>5. CountersAgree
  <2>1. Judged = {} /\ Well = {}
    BY DEF Judged, Well
  <2> QED
    BY <2>1, FS_EmptySet DEF CountersAgree
<1> QED
  BY <1>1, <1>2, <1>3, <1>4, <1>5 DEF RunnerInv

-----------------------------------------------------------------------------
(* Main.                                                                   *)

LEMMA InterruptInv == RunnerInv /\ Interrupt => RunnerInv'
<1> SUFFICES ASSUME RunnerInv, Interrupt PROVE RunnerInv'
  OBVIOUS
<1> USE DEF Interrupt, RunnerInv, input, workers, results
<1>1. TypeOK'
  BY DEF TypeOK
<1>2. AnsweredOnce'
  BY DEF AnsweredOnce, WithWorker, InAnswer, Judged
<1>3. OnePillEach'
  BY DEF OnePillEach, Stopped
<1>4. ResultsFit'
  BY DEF ResultsFit, ResultFits, NoFile
<1>5. CountersAgree'
  BY DEF CountersAgree, CanReturn, Judged, Well, Over, ExitCode
<1> QED
  BY <1>1, <1>2, <1>3, <1>4, <1>5

LEMMA DispatchInv == RunnerInv /\ Dispatch => RunnerInv'
<1> SUFFICES ASSUME RunnerInv, Dispatch PROVE RunnerInv'
  OBVIOUS
<1> USE JobsFinite, JobsAssumption DEF Dispatch, RunnerInv, workers, results
<1>0. jobs \in Nat /\ N \in Nat /\ jobs' \in 0..N /\ pills = 0 /\ exit = NoExit
  BY DEF TypeOK, CountersAgree, CanReturn
<1>1. TypeOK'
  BY <1>0 DEF TypeOK
<1>2. AnsweredOnce'
  BY DEF AnsweredOnce, WithWorker, InAnswer, Judged
<1>3. OnePillEach'
  BY DEF OnePillEach, Stopped
<1>4. ResultsFit'
  BY DEF ResultsFit, ResultFits, NoFile
<1>5. CountersAgree'
  BY <1>0 DEF CountersAgree, Judged, Well
<1> QED
  BY <1>1, <1>2, <1>3, <1>4, <1>5

LEMMA DispatchPillInv == RunnerInv /\ DispatchPill => RunnerInv'
<1> SUFFICES ASSUME RunnerInv, DispatchPill PROVE RunnerInv'
  OBVIOUS
<1> USE JobsFinite, JobsAssumption DEF DispatchPill, RunnerInv, workers, results
<1>0. pills' \in 0..Processors /\ exit = NoExit /\ taken \in 0..(jobs + pills)'
  BY DEF TypeOK, CountersAgree, CanReturn
<1>1. TypeOK'
  BY <1>0 DEF TypeOK
<1>2. AnsweredOnce'
  BY DEF AnsweredOnce, WithWorker, InAnswer, Judged
<1>3. OnePillEach'
  BY DEF OnePillEach, Stopped
<1>4. ResultsFit'
  BY DEF ResultsFit, ResultFits, NoFile
<1>5. CountersAgree'
  BY <1>0 DEF CountersAgree, Judged, Well
<1> QED
  BY <1>1, <1>2, <1>3, <1>4, <1>5

(* One answer moves from the queue to the verdicts, and is counted.        *)
LEMMA CollectInv == RunnerInv /\ Collect => RunnerInv'
<1> SUFFICES ASSUME RunnerInv, Collect PROVE RunnerInv'
  OBVIOUS
<1> USE JobsFinite, JobsAssumption, NoneAssumption DEF RunnerInv
<1>0. PICK a \in output_queue :
        /\ output_queue' = output_queue \ {a}
        /\ verdict' = [verdict EXCEPT ![a.job] = a.verdict]
        /\ passed' = Count(passed, a.verdict = "PASS")
        /\ skipped' = Count(skipped, IsSkip(a))
        /\ raised' = NoFile(a)
  BY DEF Collect
<1>1. /\ jobs = N /\ collected < jobs /\ ~raised /\ collected' = collected + 1
      /\ UNCHANGED <<thread_exit, jobs, pills, taken, state, holding, exit>>
  BY DEF Collect, input, workers
<1>2. /\ a \in Answers /\ a.job \in Jobs /\ a.verdict \in VerdictsGiven
      /\ a.verdict # NoVerdict /\ verdict \in [Jobs -> VerdictsGiven \union {NoVerdict}]
  BY DEF TypeOK, Answers, VerdictsGiven
<1>3. a.job \notin Judged /\ ~WithWorker(a.job)
  BY <1>2 DEF AnsweredOnce, InAnswer
<1>4. \A j \in Jobs : verdict'[j] = IF j = a.job THEN a.verdict ELSE verdict[j]
  BY <1>0, <1>2
<1>5. Judged' = Judged \union {a.job}
  BY <1>2, <1>4 DEF Judged
<1>6. Well' = IF a.verdict \in {"PASS", "SKIP"} THEN Well \union {a.job} ELSE Well
  <2>1. a.job \notin Well
    BY <1>2, <1>3 DEF Judged, Well
  <2> QED
    BY <1>2, <1>4, <2>1 DEF Well
<1>7. exit = NoExit
  BY <1>1 DEF CountersAgree, CanReturn, TypeOK
<1>8. /\ collected' = Cardinality(Judged')
      /\ passed' + skipped' = Cardinality(Well')
      /\ Cardinality(Well') <= N
  <2>1. IsFiniteSet(Judged) /\ IsFiniteSet(Well)
    BY FS_Subset DEF Judged, Well
  <2>2. a.job \notin Well
    BY <1>2, <1>3 DEF Judged, Well
  <2>3. Well' \subseteq Jobs
    BY DEF Well
  <2>4. Cardinality(Well') <= N
    BY <2>3, FS_Subset
  <2>5. Cardinality(Judged') = Cardinality(Judged) + 1
    BY <1>3, <1>5, <2>1, OneMore
  <2>6. a.verdict \in {"PASS", "SKIP"} => Cardinality(Well') = Cardinality(Well) + 1
    BY <1>6, <2>1, <2>2, OneMore
  <2>7. passed \in Nat /\ skipped \in Nat /\ Cardinality(Well) = passed + skipped
    BY DEF CountersAgree, TypeOK
  <2>8. passed' + skipped' = IF a.verdict \in {"PASS", "SKIP"}
                             THEN passed + skipped + 1 ELSE passed + skipped
    BY <1>0, <2>7 DEF Count, IsSkip
  <2> QED
    BY <1>1, <1>6, <2>4, <2>5, <2>6, <2>7, <2>8 DEF CountersAgree
<1>9. TypeOK'
  <2>1. output_queue' \subseteq Answers
    BY <1>0 DEF TypeOK
  <2>2. verdict' \in [Jobs -> VerdictsGiven \union {NoVerdict}]
    BY <1>0, <1>2
  <2>3. collected' \in 0..N
    BY <1>1 DEF TypeOK
  <2>4. passed' \in Nat /\ skipped' \in Nat
    BY <1>0 DEF TypeOK, Count
  <2>5. passed' \in 0..N /\ skipped' \in 0..N
    BY <1>8, <2>4
  <2>6. raised' \in BOOLEAN
    BY <1>0 DEF NoFile
  <2> QED
    BY <1>1, <2>1, <2>2, <2>3, <2>5, <2>6 DEF TypeOK
<1>10. AnsweredOnce'
  <2>1. \A j \in Jobs : InAnswer(j)' <=> InAnswer(j) /\ j # a.job
    BY <1>0 DEF InAnswer, AnsweredOnce
  <2>2. \A j \in Jobs : WithWorker(j)' <=> WithWorker(j)
    BY <1>1 DEF WithWorker
  <2>3. InAnswer(a.job)
    BY DEF InAnswer
  <2> QED
    BY <1>0, <1>1, <1>2, <1>3, <1>5, <2>1, <2>2, <2>3 DEF AnsweredOnce
<1>11. OnePillEach'
  BY <1>1 DEF OnePillEach, Stopped
<1>12. ResultsFit'
  <2>1. ResultFits(a.job, a.verdict) /\ (NoFile(a) => a.verdict = "FAIL")
    BY DEF ResultsFit
  <2>2. \A j \in Jobs : ResultFits(j, verdict[j])'
    BY <1>1, <1>4, <2>1 DEF ResultsFit, ResultFits
  <2>3. raised' => \E j \in Jobs : verdict'[j] = "FAIL"
    BY <1>0, <1>2, <1>4, <2>1
  <2>4. \A b \in output_queue' : /\ ResultFits(b.job, b.verdict)'
                                 /\ NoFile(b) => b.verdict = "FAIL"
    BY <1>0, <1>1 DEF ResultsFit, ResultFits
  <2>5. \A w \in Workers :
         /\ state'[w] \in {"idle", "stopped"} <=> holding'[w] = 0
         /\ state'[w] \in {"running", "dead"} => holding'[w] \notin ToSkip
    BY <1>1 DEF ResultsFit
  <2> QED
    BY <2>2, <2>3, <2>4, <2>5 DEF ResultsFit, NoFile
<1>13. CountersAgree'
  BY <1>1, <1>7, <1>8 DEF CountersAgree
<1> QED
  BY <1>9, <1>10, <1>11, <1>12, <1>13

LEMMA ReturnInv == RunnerInv /\ Return => RunnerInv'
<1> SUFFICES ASSUME RunnerInv, Return PROVE RunnerInv'
  OBVIOUS
<1> USE DEF Return, RunnerInv, input, workers, results
<1>1. TypeOK'
  BY DEF TypeOK, ExitCode
<1>2. AnsweredOnce'
  BY DEF AnsweredOnce, WithWorker, InAnswer, Judged
<1>3. OnePillEach'
  BY DEF OnePillEach, Stopped
<1>4. ResultsFit'
  BY DEF ResultsFit, ResultFits, NoFile
<1>5. CountersAgree'
  BY DEF CountersAgree, CanReturn, Judged, Well, Over, ExitCode
<1> QED
  BY <1>1, <1>2, <1>3, <1>4, <1>5

-----------------------------------------------------------------------------
(* The workers.  Nothing of main changes while one works.                  *)
WorkerStep(w) ==
    /\ w \in Workers /\ state[w] \in {"idle", "taken", "running"}
    /\ UNCHANGED <<thread_exit, jobs, pills, verdict, collected, passed, skipped,
                   raised, exit>>

(* Main has not returned while a worker is there, and counts as before.    *)
LEMMA CountersKept ==
    ASSUME RunnerInv, NEW w, WorkerStep(w)
    PROVE  CountersAgree' /\ exit = NoExit
<1>1. exit = NoExit
  BY DEF RunnerInv, CountersAgree, CanReturn, Over, WorkerStep
<1> QED
  BY <1>1 DEF RunnerInv, CountersAgree, WorkerStep, Judged, Well

LEMMA GetInv ==
    ASSUME RunnerInv, NEW w \in Workers, Get(w)
    PROVE  RunnerInv'
<1> USE JobsFinite, JobsAssumption DEF RunnerInv
<1>1. WorkerStep(w) /\ UNCHANGED output_queue
  BY DEF Get, WorkerStep, input, results
<1>2. /\ taken \in Nat /\ taken' = taken + 1 /\ taken < jobs + pills
      /\ jobs \in 0..N /\ pills \in 0..Processors /\ state[w] = "idle"
      /\ holding \in [Workers -> 0..N]
      /\ state \in [Workers -> {"idle", "taken", "running", "stopped", "dead"}]
  BY DEF Get, TypeOK, Available
<1>3. holding[w] = 0
  BY <1>2 DEF ResultsFit
<1>4. CASE taken' <= N
  <2>1. /\ state' = [state EXCEPT ![w] = "taken"]
        /\ holding' = [holding EXCEPT ![w] = taken']
    BY <1>4 DEF Get
  <2>2. taken' \in Jobs
    BY <1>2, <1>4 DEF Jobs
  <2>3. TypeOK'
    BY <1>1, <1>2, <2>1, <2>2 DEF TypeOK, WorkerStep, Jobs
  <2>4. ~WithWorker(taken') /\ ~InAnswer(taken') /\ taken' \notin Judged
    BY <1>2, <2>2 DEF AnsweredOnce
  <2>5. \A j \in Jobs : WithWorker(j)' <=> WithWorker(j) \/ j = taken'
    BY <1>2, <1>3, <2>1 DEF WithWorker, Jobs
  <2>6. \A j \in Jobs : (InAnswer(j)' <=> InAnswer(j)) /\ (j \in Judged' <=> j \in Judged)
    BY <1>1 DEF InAnswer, Judged, WorkerStep
  <2>7. \A j \in Jobs : j <= taken' <=> j <= taken \/ j = taken'
    BY <1>2 DEF Jobs
  <2>8. \A u, v \in Workers : holding'[u] = holding'[v] /\ holding'[v] # 0 => u = v
    BY <1>2, <2>1, <2>4 DEF AnsweredOnce, WithWorker
  <2>9. AnsweredOnce'
    BY <1>1, <2>4, <2>5, <2>6, <2>7, <2>8 DEF AnsweredOnce
  <2>10. OnePillEach'
    <3>1. Stopped' = Stopped
      BY <1>2, <2>1 DEF Stopped
    <3> QED
      BY <1>2, <1>4, <3>1 DEF OnePillEach
  <2>11. ResultsFit'
    BY <1>1, <1>2, <2>1, <2>2 DEF ResultsFit, ResultFits, NoFile, WorkerStep, Jobs
  <2> QED
    BY <1>1, <2>3, <2>9, <2>10, <2>11, CountersKept
<1>5. CASE ~(taken' <= N)
  <2>1. state' = [state EXCEPT ![w] = "stopped"] /\ UNCHANGED holding
    BY <1>5 DEF Get
  <2>2. TypeOK'
    BY <1>1, <1>2, <2>1 DEF TypeOK, WorkerStep
  <2>3. \A j \in Jobs : j <= taken' <=> j <= taken
    BY <1>2, <1>5 DEF Jobs
  <2>4. AnsweredOnce'
    BY <1>1, <2>1, <2>3 DEF AnsweredOnce, WithWorker, InAnswer, Judged, WorkerStep
  <2>5. OnePillEach'
    <3>1. Stopped' = Stopped \union {w} /\ w \notin Stopped
      BY <1>2, <2>1 DEF Stopped
    <3>2. IsFiniteSet(Stopped)
      BY FS_Subset, WorkersAssumption DEF Stopped
    <3>3. Cardinality(Stopped') = Cardinality(Stopped) + 1
      BY <3>1, <3>2, OneMore
    <3> QED
      BY <1>2, <1>5, <3>3 DEF OnePillEach
  <2>6. ResultsFit'
    BY <1>1, <1>2, <1>3, <2>1 DEF ResultsFit, ResultFits, NoFile, WorkerStep
  <2> QED
    BY <1>1, <2>2, <2>4, <2>5, <2>6, CountersKept
<1> QED
  BY <1>4, <1>5

(* An answer that fits, put by a worker with a job.                        *)
LEMMA PutInv ==
    ASSUME RunnerInv, NEW w \in Workers, state[w] \in {"taken", "running"},
           NEW v \in VerdictsGiven, NEW file \in BOOLEAN, Put(w, v, file),
           state' = [state EXCEPT ![w] = "idle"],
           ResultFits(holding[w], v),
           v \in {"PASS", "VALGR"} /\ holding[w] \in Suites => file
    PROVE  RunnerInv'
<1> USE JobsFinite, JobsAssumption, NoneAssumption DEF RunnerInv
<1> DEFINE j0 == holding[w]
           a0 == [job |-> j0, verdict |-> v, file |-> file]
<1>1. WorkerStep(w) /\ UNCHANGED taken
  BY DEF Put, WorkerStep, input, results
<1>2. /\ output_queue' = output_queue \union {a0}
      /\ holding' = [holding EXCEPT ![w] = 0]
  BY DEF Put
<1>3. /\ holding \in [Workers -> 0..N]
      /\ state \in [Workers -> {"idle", "taken", "running", "stopped", "dead"}]
  BY DEF TypeOK
<1>4. j0 \in Jobs /\ j0 # 0
  <2>1. j0 # 0
    BY DEF ResultsFit
  <2> QED
    BY <1>3, <2>1 DEF Jobs
<1>5. a0 \in Answers
  BY <1>4 DEF Answers
<1>6. WithWorker(j0) /\ ~InAnswer(j0) /\ j0 \notin Judged
  BY <1>4 DEF AnsweredOnce, WithWorker
<1> HIDE DEF j0
<1>7. TypeOK'
  BY <1>1, <1>2, <1>3, <1>5 DEF TypeOK, WorkerStep
<1>8. \A j \in Jobs : WithWorker(j)' <=> WithWorker(j) /\ j # j0
  BY <1>2, <1>3, <1>4 DEF WithWorker, AnsweredOnce, Jobs, j0
<1>9. \A j \in Jobs : InAnswer(j)' <=> InAnswer(j) \/ j = j0
  <2>1. a0.job = j0
    OBVIOUS
  <2> HIDE DEF a0
  <2> QED
    BY <1>2, <2>1 DEF InAnswer
<1>10. \A j \in Jobs : j \in Judged' <=> j \in Judged
  BY <1>1 DEF Judged, WorkerStep
<1>11. \A a, b \in output_queue' : a.job = b.job => a = b
  <2>1. \A a \in output_queue : a.job # j0
    BY <1>6 DEF InAnswer
  <2> QED
    BY <1>2, <2>1 DEF AnsweredOnce
<1>12. \A x, y \in Workers : holding'[x] = holding'[y] /\ holding'[y] # 0 => x = y
  BY <1>2, <1>3 DEF AnsweredOnce
<1>13. AnsweredOnce'
  BY <1>1, <1>4, <1>6, <1>8, <1>9, <1>10, <1>11, <1>12 DEF AnsweredOnce
<1>14. OnePillEach'
  <2>1. Stopped' = Stopped
    BY <1>3 DEF Stopped
  <2> QED
    BY <1>1, <2>1 DEF OnePillEach
<1>15. ResultsFit'
  <2>1. /\ ResultFits(a0.job, a0.verdict)
        /\ NoFile(a0) => a0.verdict = "FAIL"
    BY DEF NoFile, j0
  <2>2. \A a \in output_queue' : /\ ResultFits(a.job, a.verdict)'
                                 /\ NoFile(a) => a.verdict = "FAIL"
    BY <1>1, <1>2, <2>1 DEF ResultsFit, ResultFits, WorkerStep
  <2>3. \A j \in Jobs : ResultFits(j, verdict[j])'
    BY <1>1 DEF ResultsFit, ResultFits, WorkerStep
  <2>4. \A x \in Workers :
         /\ state'[x] \in {"idle", "stopped"} <=> holding'[x] = 0
         /\ state'[x] \in {"running", "dead"} => holding'[x] \notin ToSkip
    BY <1>2, <1>3 DEF ResultsFit
  <2>5. raised' => \E j \in Jobs : verdict'[j] = "FAIL"
    BY <1>1 DEF ResultsFit, WorkerStep
  <2> QED
    BY <2>2, <2>3, <2>4, <2>5 DEF ResultsFit, NoFile
<1> QED
  BY <1>1, <1>7, <1>13, <1>14, <1>15, CountersKept

(* A worker that only changes its state, between taken, running and dead.  *)
LEMMA StateInv ==
    ASSUME RunnerInv, NEW w \in Workers, state[w] \in {"taken", "running"},
           NEW s \in {"running", "dead"}, state' = [state EXCEPT ![w] = s],
           holding[w] \notin ToSkip,
           UNCHANGED <<thread_exit, input, taken, holding, output_queue, results, exit>>
    PROVE  RunnerInv'
<1> USE DEF RunnerInv, input, results
<1>1. WorkerStep(w)
  BY DEF WorkerStep
<1>2. state \in [Workers -> {"idle", "taken", "running", "stopped", "dead"}]
  BY DEF TypeOK
<1>3. TypeOK'
  BY <1>2 DEF TypeOK
<1>4. AnsweredOnce'
  BY DEF AnsweredOnce, WithWorker, InAnswer, Judged
<1>5. Stopped' = Stopped
  BY <1>2 DEF Stopped
<1>6. OnePillEach'
  BY <1>5 DEF OnePillEach
<1>7. ResultsFit'
  BY <1>2 DEF ResultsFit, ResultFits, NoFile
<1> QED
  BY <1>1, <1>3, <1>4, <1>6, <1>7, CountersKept

LEMMA WorkInv ==
    ASSUME RunnerInv, NEW w \in Workers, Work(w)
    PROVE  RunnerInv'
<1>0. holding[w] \in 0..N
  BY DEF RunnerInv, TypeOK
<1>1. CASE Get(w)
  BY <1>1, GetInv
<1>2. CASE GiveBack(w)
  <2>1. ResultFits(holding[w], "BREAK")
    BY <1>2 DEF GiveBack, ResultFits
  <2> QED
    BY <1>2, <2>1, PutInv DEF GiveBack, VerdictsGiven
<1>3. CASE Skip(w)
  <2>1. ResultFits(holding[w], "SKIP")
    BY <1>3 DEF Skip, ResultFits
  <2> QED
    BY <1>3, <2>1, PutInv DEF Skip, VerdictsGiven
<1>4. CASE Launch(w)
  BY <1>4, StateInv DEF Launch
<1>5. CASE Finish(w)
  <2>1. PICK code \in 0..3, decodable \in BOOLEAN :
          Put(w, Status(IF decodable THEN code ELSE 1), holding[w] \in Suites /\ code # 3)
    BY <1>5 DEF Finish
  <2> DEFINE v == Status(IF decodable THEN code ELSE 1)
             file == holding[w] \in Suites /\ code # 3
  <2>2. v \in {"PASS", "FAIL", "VALGR", "CRASH"} /\ file \in BOOLEAN
    BY DEF Status
  <2>3. ResultFits(holding[w], v)
    BY <1>5, <2>2 DEF Finish, ResultFits, RunnerInv, ResultsFit
  <2>4. v \in {"PASS", "VALGR"} /\ holding[w] \in Suites => file
    BY DEF Status
  <2>5. state[w] = "running" /\ state' = [state EXCEPT ![w] = "idle"] /\ Put(w, v, file)
    BY <1>5, <2>1 DEF Finish
  <2>6. v \in VerdictsGiven
    BY <2>2 DEF VerdictsGiven
  <2> HIDE DEF v, file
  <2> QED
    BY <2>2, <2>3, <2>4, <2>5, <2>6, PutInv
<1>6. CASE Die(w)
  <2>1. holding[w] \notin ToSkip
    BY <1>6 DEF Die, RunnerInv, ResultsFit
  <2> QED
    BY <1>6, <2>1, StateInv DEF Die
<1> QED
  BY <1>1, <1>2, <1>3, <1>4, <1>5, <1>6 DEF Work

-----------------------------------------------------------------------------
LEMMA StepInv == RunnerInv /\ [Next]_vars => RunnerInv'
<1> SUFFICES ASSUME RunnerInv, [Next]_vars PROVE RunnerInv'
  OBVIOUS
<1>1. CASE Next
  BY <1>1, InterruptInv, DispatchInv, DispatchPillInv, CollectInv, ReturnInv, WorkInv
     DEF Next, Main
<1>2. CASE UNCHANGED vars
  BY <1>2 DEF vars, input, workers, results, RunnerInv, TypeOK, AnsweredOnce, WithWorker,
     InAnswer, Judged, OnePillEach, Stopped, ResultsFit, ResultFits, NoFile,
     CountersAgree, CanReturn, Well, Over, ExitCode
<1> QED
  BY <1>1, <1>2

(* The inductive invariant of test.py: the queues, the workers, the        *)
(* verdicts and main's counters agree in every reachable state.            *)
THEOREM RunnerInvariant == Spec => []RunnerInv
<1> QED
  BY InitRunner, StepInv, PTL DEF Spec

(* Every variable has its type.                                            *)
THEOREM TypeCorrect == Spec => []TypeOK
<1>1. RunnerInv => TypeOK
  BY DEF RunnerInv
<1> QED
  BY <1>1, RunnerInvariant, PTL

(* No job is lost or answered twice, whatever the user, the tests and      *)
(* dying workers do (worker_thread.run, run_tests).                        *)
THEOREM NoJobIsLost == Spec => []AnsweredOnce
<1>1. RunnerInv => AnsweredOnce
  BY DEF RunnerInv
<1> QED
  BY <1>1, RunnerInvariant, PTL

(* No worker leaves while a job waits, none takes the pill of another one. *)
THEOREM PillsMatchWorkers == Spec => []OnePillEach
<1>1. RunnerInv => OnePillEach
  BY DEF RunnerInv
<1> QED
  BY <1>1, RunnerInvariant, PTL

(* All jobs and pills dispatched, nobody holding a job or able to take an  *)
(* entry: the workers have taken one pill each.                            *)
LEMMA AllStoppedWhenIdle ==
    ASSUME RunnerInv, jobs = N, pills = Processors,
           \A w \in Workers : state[w] # "dead" /\ ~CanWork(w)
    PROVE  taken >= N /\ \A w \in Workers : state[w] = "stopped"
<1> USE JobsFinite, JobsAssumption
<1>1. \A w \in Workers : state[w] = "stopped" \/ (state[w] = "idle" /\ ~Available)
  <2> TAKE w \in Workers
  <2>1. state[w] \in {"idle", "stopped"}
    BY DEF RunnerInv, TypeOK, CanWork
  <2> QED
    BY <2>1 DEF CanWork
<1>2. /\ Stopped \subseteq Workers
      /\ Cardinality(Stopped) = IF taken <= N THEN 0 ELSE taken - N
      /\ taken \in 0..(N + Processors)
  BY DEF RunnerInv, TypeOK, OnePillEach, Stopped
<1>3. CASE Available
  <2>1. Stopped = Workers /\ \A w \in Workers : state[w] = "stopped"
    BY <1>1, <1>3 DEF Stopped
  <2>2. Cardinality(Stopped) = Processors
    BY <2>1 DEF Processors
  <2> QED
    BY <1>2, <2>1, <2>2
<1>4. CASE ~Available
  <2>1. taken = N + Processors
    BY <1>2, <1>4 DEF Available
  <2>2. Cardinality(Stopped) = Cardinality(Workers)
    BY <1>2, <2>1 DEF Processors
  <2>3. Stopped = Workers
    BY <1>2, <2>2, FS_Subset, WorkersAssumption
  <2> QED
    BY <2>1, <2>3 DEF Stopped
<1> QED
  BY <1>3, <1>4

(* A taken job that no worker holds and no answer names has been judged,   *)
(* and counted.                                                            *)
LEMMA AllCollected ==
    ASSUME RunnerInv, taken >= N, output_queue = {},
           \A w \in Workers : state[w] = "stopped"
    PROVE  collected = N
<1> USE JobsFinite, JobsAssumption
<1>1. \A j \in Jobs : j <= taken /\ ~WithWorker(j) /\ ~InAnswer(j)
  BY DEF RunnerInv, TypeOK, ResultsFit, WithWorker, InAnswer, Jobs
<1>2. Judged = Jobs
  BY <1>1 DEF RunnerInv, AnsweredOnce, Judged
<1> QED
  BY <1>2 DEF RunnerInv, CountersAgree

(* The driver never stands still: while the process has not ended and no   *)
(* worker has died, main or a worker can go on (worker_thread.run,         *)
(* run_tests).                                                             *)
THEOREM NeverStandsStill == Spec => []NoStandstill
<1>1. ASSUME RunnerInv PROVE NoStandstill
  <2> SUFFICES ASSUME \A w \in Workers : state[w] # "dead" /\ ~CanWork(w),
                      ~MainCanGoOn
               PROVE  FALSE
    BY DEF NoStandstill
  <2> USE <1>1, JobsFinite, JobsAssumption
  <2>1. jobs = N /\ pills = Processors
    BY DEF MainCanGoOn, RunnerInv, TypeOK
  <2>2. taken >= N /\ \A w \in Workers : state[w] = "stopped"
    BY <2>1, AllStoppedWhenIdle
  <2>3. raised \/ collected = N
    BY <2>1, <2>2, AllCollected DEF MainCanGoOn, RunnerInv, TypeOK
  <2>4. CanReturn
    BY <2>1, <2>2, <2>3 DEF CanReturn, Over
  <2> QED
    BY <2>4 DEF MainCanGoOn
<1> QED
  BY <1>1, RunnerInvariant, PTL

(* When the counters of passed and skipped jobs reach the total, every job *)
(* is among them.                                                          *)
LEMMA FullCountMeansAllWell ==
    ASSUME RunnerInv
    PROVE  passed + skipped = N <=> \A j \in Jobs : verdict[j] \in {"PASS", "SKIP"}
<1>1. Well \subseteq Jobs /\ passed + skipped = Cardinality(Well)
  BY DEF RunnerInv, CountersAgree, Well
<1>2. Cardinality(Well) = N <=> Well = Jobs
  BY <1>1, JobsFinite, FS_Subset
<1> QED
  BY <1>1, <1>2 DEF Well

(* The exit code that run_tests computes from its counters says whether    *)
(* all is well.                                                            *)
LEMMA ExitCodeIsRight ==
    ASSUME RunnerInv, jobs = N
    PROVE  /\ ExitCode \in {0, 1}
           /\ ExitCode = 0 <=> \A j \in Jobs : verdict[j] \in {"PASS", "SKIP"}
<1>1. raised => \E j \in Jobs : verdict[j] = "FAIL"
  BY DEF RunnerInv, ResultsFit
<1> QED
  BY <1>1, FullCountMeansAllWell DEF ExitCode

(* Success means that every job was run and passed, or was to be skipped.  *)
THEOREM SuccessIsEarned == Spec => []SuccessMeansPassed
<1>1. ASSUME RunnerInv PROVE SuccessMeansPassed
  <2> SUFFICES ASSUME exit = 0, NEW j \in Jobs
               PROVE  verdict[j] = IF j \in ToSkip THEN "SKIP" ELSE "PASS"
    BY DEF SuccessMeansPassed
  <2>1. jobs = N /\ exit = ExitCode
    BY <1>1, NoneAssumption DEF RunnerInv, CountersAgree, CanReturn
  <2>2. verdict[j] \in {"PASS", "SKIP"}
    BY <1>1, <2>1, ExitCodeIsRight
  <2>3. ResultFits(j, verdict[j])
    BY <1>1 DEF RunnerInv, ResultsFit
  <2> QED
    BY <2>2, <2>3 DEF ResultFits
<1> QED
  BY <1>1, RunnerInvariant, PTL

-----------------------------------------------------------------------------
LEMMA InitRefines == Init => Abstract!Init
  BY DEF Init, Abstract!Init

(* A collected answer is a verdict that may be given.                      *)
LEMMA CollectJudges ==
    ASSUME RunnerInv, Collect
    PROVE  \E j \in Jobs, v \in Abstract!Verdicts : Abstract!Judge(j, v)
<1>1. PICK a \in output_queue : verdict' = [verdict EXCEPT ![a.job] = a.verdict]
  BY DEF Collect
<1>2. a.job \in Jobs /\ a.verdict \in VerdictsGiven
  BY DEF RunnerInv, TypeOK, Answers
<1>3. verdict[a.job] = NoVerdict
  BY <1>2 DEF RunnerInv, AnsweredOnce, InAnswer, Judged
<1>4. exit = NoExit /\ UNCHANGED <<thread_exit, exit>>
  BY DEF Collect, RunnerInv, CountersAgree, CanReturn, TypeOK
<1>5. ResultFits(a.job, a.verdict)
  BY DEF RunnerInv, ResultsFit
<1>6. Abstract!Judge(a.job, a.verdict)
  BY <1>1, <1>3, <1>4, <1>5 DEF Abstract!Judge, ResultFits, Abstract!Results
<1>7. a.verdict \in Abstract!Verdicts
  BY <1>2 DEF VerdictsGiven, Abstract!Verdicts, Abstract!Results
<1> QED
  BY <1>2, <1>6, <1>7

LEMMA StepRefines ==
    RunnerInv /\ [Next]_vars
        => [Abstract!Next]_<<verdict, thread_exit, exit>>
<1> SUFFICES ASSUME RunnerInv, [Next]_vars
             PROVE  [Abstract!Next]_<<verdict, thread_exit, exit>>
  OBVIOUS
<1>1. CASE Interrupt
  BY <1>1 DEF Interrupt, results, Abstract!Next, Abstract!Interrupt
<1>2. CASE Dispatch \/ DispatchPill
  BY <1>2 DEF Dispatch, DispatchPill, results
<1>3. CASE Collect
  BY <1>3, CollectJudges DEF Abstract!Next
<1>4. CASE Return
  <2>1. jobs = N /\ exit = NoExit /\ exit' = ExitCode /\ UNCHANGED <<verdict, thread_exit>>
    BY <1>4 DEF Return, CanReturn, results
  <2>2. exit' \in {0, 1} /\ (exit' = 0 <=> Abstract!AllWell)
    BY <2>1, ExitCodeIsRight DEF Abstract!AllWell
  <2> QED
    BY <2>1, <2>2 DEF Abstract!Next, Abstract!Exit
<1>5. CASE \E w \in Workers : Work(w)
  BY <1>5 DEF Work, Get, GiveBack, Skip, Launch, Finish, Die, Put, results
<1>6. CASE UNCHANGED vars
  BY <1>6 DEF vars, results
<1> QED
  BY <1>1, <1>2, <1>3, <1>4, <1>5, <1>6 DEF Next, Main

(* test.py implements its abstract specification: one verdict per job,     *)
(* and the exit code of all of them.                                       *)
THEOREM RunnerImplementsVerdicts == Spec => VerdictsImplemented
<1> QED
  BY InitRefines, StepRefines, RunnerInvariant, PTL
     DEF Spec, VerdictsImplemented, Abstract!Spec
=============================================================================
