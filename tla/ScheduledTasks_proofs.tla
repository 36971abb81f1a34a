------------------------ MODULE ScheduledTasks_proofs ------------------------
(* Proofs about ScheduledTasks, for any number of nodes and jobs, any        *)
(* differences of their clocks and any schedule within the assumed times.    *)
EXTENDS ScheduledTasks, TLAPS

Job == [pc : {"idle", "rule", "task", "add", "update", "run"},
        version : Nat, waited : Nat, since : Nat, stale : BOOLEAN]

(* Not stale: the rule the job has read has not been removed for good. *)
Fresh(j) == ~job[j].stale

(* A task is updated as long as it is executed, ... *)
Refreshed == \A j \in Jobs : job[j].since <= RefreshWithin

(* ... so that its row is there and not older than the last update of the  *)
(* job itself, ...                                                         *)
Owned == \A j \in Jobs :
  (Running(j) /\ Fresh(j)) => task.there /\ task.age <= job[j].since

(* ... and who has read it knows no later version than the row has, ...    *)
Current == \A p \in Jobs :
  (PC(p) = "update" /\ Fresh(p)) => task.there /\ job[p].version <= task.version

(* ... and an earlier one if the rule is being executed.                   *)
Superseded == \A p, j \in Jobs :
  (PC(p) = "update" /\ Fresh(p) /\ Running(j) /\ Fresh(j)) => job[p].version < task.version

IInv == TypeOK /\ Refreshed /\ Owned /\ Current /\ Superseded /\ NotConcurrent

LEMMA Times ==
  /\ updateInterval \in Nat /\ RefreshWithin \in Nat /\ MaxSkew \in Nat /\ MaxDelay \in Nat
  /\ Period \in Nat \ {0} /\ RefreshWithin + MaxSkew <= 2 * updateInterval
  /\ Period > 2 * updateInterval + MaxDelay + MaxSkew
  /\ MaxDelay + MaxSkew <= 2 * updateInterval
  /\ \A j \in Jobs : Skew[NodeOf[j]] \in Nat /\ Skew[NodeOf[j]] <= MaxSkew
BY TimingAssumption

LEMMA IdleTyped == IdleJob \in Job
BY DEF IdleJob, Job

LEMMA NoTaskTyped == NoTask \in [there : BOOLEAN, version : Nat, age : Int]
BY DEF NoTask

LEMMA StoredTyped ==
  ASSUME NEW j \in Jobs, NEW v \in Nat
  PROVE /\ Stored(j, v) \in [there : BOOLEAN, version : Nat, age : Int]
        /\ Stored(j, v).there /\ Stored(j, v).version = v /\ Stored(j, v).age <= 0
BY Times DEF Stored

LEMMA Initially == Init => IInv
<1> SUFFICES ASSUME Init PROVE IInv
  OBVIOUS
<1>1. TypeOK
  <2>1. job \in [Jobs -> Job]
    BY IdleTyped DEF Init
  <2>2. /\ rule = "active" /\ removing = FALSE /\ task = NoTask
        /\ phase = 0 /\ runs = 0 /\ failures = 0
    BY DEF Init
  <2>3. task \in [there : BOOLEAN, version : Nat, age : Int]
    BY <2>2, NoTaskTyped
  <2>4. rule \in {"active", "deleted", "none"} /\ removing \in BOOLEAN
    BY <2>2
  <2>5. phase \in Int /\ runs \in Nat /\ failures \in Nat
    BY <2>2
  <2> QED BY <2>1, <2>3, <2>4, <2>5 DEF TypeOK, Job
<1>2. Refreshed /\ Owned /\ Current /\ Superseded /\ NotConcurrent
  BY Times DEF Init, Refreshed, Owned, Current, Superseded, NotConcurrent, IdleJob, PC, Running
<1> QED BY <1>1, <1>2 DEF IInv

(* A job ends, or waits for what it does not yet hold: it neither executes *)
(* nor has read the task.                                                  *)
LEMMA JobLeaves ==
  ASSUME IInv, NEW j \in Jobs, NEW r \in Job, job' = [job EXCEPT ![j] = r],
         r.pc \in {"idle", "rule", "task", "add"}, r.since <= RefreshWithin,
         UNCHANGED <<rule, removing, phase, runs>>,
         failures' \in Nat, task' = task
  PROVE IInv'
<1> USE DEF IInv
<1>1. TypeOK'
  BY DEF TypeOK, Job
<1>2. job'[j] = r /\ \A k \in Jobs : k # j => job'[k] = job[k]
  BY DEF TypeOK
<1>3. Refreshed' /\ Owned'
  BY <1>2 DEF Refreshed, Owned, PC, Running, Fresh
<1>4. Current' /\ Superseded' /\ NotConcurrent'
  BY <1>2 DEF Current, Superseded, NotConcurrent, PC, Running, Fresh
<1> QED BY <1>1, <1>3, <1>4

LEMMA FailuresTyped ==
  ASSUME TypeOK, NEW answered \in BOOLEAN, Answered(answered)
  PROVE failures' \in Nat
BY DEF TypeOK, Answered

LEMMA FireKeeps == ASSUME IInv, NEW j \in Jobs, Fire(j) PROVE IInv'
<1> DEFINE r == [job[j] EXCEPT !.pc = "rule"]
<1>1. r \in Job /\ r.pc = "rule" /\ r.since <= RefreshWithin /\ job' = [job EXCEPT ![j] = r]
  BY DEF IInv, TypeOK, Refreshed, Job, Fire, Goes
<1> QED BY <1>1, JobLeaves DEF Fire, IInv, TypeOK

LEMMA EventRuleExistsKeeps == ASSUME IInv, NEW j \in Jobs, EventRuleExists(j) PROVE IInv'
<1> DEFINE r == [job[j] EXCEPT !.pc = "task", !.stale = FALSE]
<1>1. r \in Job /\ r.pc = "task" /\ r.since <= RefreshWithin
  BY DEF IInv, TypeOK, Refreshed, Job
<1>2. IdleJob \in Job /\ IdleJob.pc = "idle" /\ IdleJob.since <= RefreshWithin
  BY IdleTyped, Times DEF IdleJob
<1>3. job' = [job EXCEPT ![j] = r] \/ job' = [job EXCEPT ![j] = IdleJob]
  BY DEF EventRuleExists, Ends
<1> QED BY <1>1, <1>2, <1>3, JobLeaves DEF EventRuleExists, IInv, TypeOK

LEMMA EndsKeeps ==
  ASSUME IInv, NEW j \in Jobs, job' = Ends(j), task' = task, failures' \in Nat,
         UNCHANGED <<rule, removing, phase, runs>>
  PROVE IInv'
<1>1. IdleJob \in Job /\ IdleJob.pc = "idle" /\ IdleJob.since <= RefreshWithin
  BY IdleTyped, Times DEF IdleJob
<1> QED BY <1>1, JobLeaves DEF Ends

(* The version that is read is that of a row that nobody updates in time:  *)
(* the rule is not being executed.                                         *)
LEMMA GetTaskKeeps == ASSUME IInv, NEW j \in Jobs, GetTaskByName(j) PROVE IInv'
<1> USE DEF IInv
<1>0. UNCHANGED <<rule, removing, task, phase, runs, failures>> /\ failures' \in Nat
  BY DEF GetTaskByName, TypeOK
<1>1. CASE ~task.there
  <2> DEFINE r == [job[j] EXCEPT !.pc = "add"]
  <2>1. r \in Job /\ r.pc = "add" /\ r.since <= RefreshWithin /\ job' = [job EXCEPT ![j] = r]
    BY <1>1 DEF TypeOK, Refreshed, Job, GetTaskByName, Goes
  <2> QED BY <1>0, <2>1, JobLeaves
<1>2. CASE task.there /\ TooRecent(j)
  BY <1>0, <1>2, EndsKeeps DEF GetTaskByName
<1>3. CASE task.there /\ ~TooRecent(j)
  <2> DEFINE r == [job[j] EXCEPT !.pc = "update", !.version = task.version]
  <2>1. /\ job' = [job EXCEPT ![j] = r] /\ r \in Job /\ r.pc = "update"
        /\ r.version = task.version /\ r.since = job[j].since /\ r.stale = job[j].stale
    BY <1>3 DEF GetTaskByName, TypeOK, Job
  <2> HIDE DEF r
  <2>2. job'[j] = r /\ \A k \in Jobs : k # j => job'[k] = job[k]
    BY <2>1 DEF TypeOK
  <2>3. \A k \in Jobs : ~(Running(k) /\ Fresh(k))
    <3>1. task.age \in Int /\ Skew[NodeOf[j]] \in Nat /\ Skew[NodeOf[j]] <= MaxSkew
      BY Times DEF TypeOK
    <3>2. task.age + Skew[NodeOf[j]] > 2 * updateInterval
      BY <1>3, <3>1, Times DEF TooRecent
    <3>3. task.age > RefreshWithin
      BY <3>1, <3>2, Times
    <3>4. ASSUME NEW k \in Jobs, Running(k) /\ Fresh(k) PROVE FALSE
      <4>1. task.age <= job[k].since /\ job[k].since <= RefreshWithin /\ job[k].since \in Nat
        BY <3>4 DEF Owned, Refreshed, TypeOK
      <4> QED BY <3>1, <3>3, <4>1, Times
    <3> QED BY <3>4
  <2>4. TypeOK'
    BY <1>0, <2>1 DEF TypeOK, Job
  <2>5. Refreshed' /\ Owned' /\ NotConcurrent'
    BY <1>0, <2>1, <2>2 DEF Refreshed, Owned, NotConcurrent, PC, Running, Fresh
  <2>6. Current'
    BY <1>0, <1>3, <2>1, <2>2 DEF Current, PC, Fresh, TypeOK
  <2>7. Superseded'
    BY <1>0, <2>1, <2>2, <2>3 DEF Superseded, PC, Running, Fresh
  <2> QED BY <2>4, <2>5, <2>6, <2>7
<1> QED BY <1>1, <1>2, <1>3

LEMMA AddTaskKeeps ==
  ASSUME IInv, NEW j \in Jobs, NEW answered \in BOOLEAN, AddTask(j, answered)
  PROVE IInv'
<1> USE DEF IInv
<1>0. UNCHANGED <<rule, removing, phase, runs>> /\ failures' \in Nat
  BY FailuresTyped DEF AddTask
<1>1. CASE task.there
  BY <1>0, <1>1, EndsKeeps DEF AddTask
<1>2. CASE ~task.there
  <2> DEFINE r == IF answered THEN [job[j] EXCEPT !.pc = "update", !.version = 0] ELSE IdleJob
  <2>1. job' = [job EXCEPT ![j] = r] /\ r \in Job /\ r.since <= RefreshWithin /\ r.version = 0
        /\ r.pc \in {"update", "idle"}
    <3>1. CASE answered
      BY <1>2, <3>1 DEF AddTask, TypeOK, Job, Refreshed
    <3>2. CASE ~answered
      BY <1>2, <3>2, IdleTyped, Times DEF AddTask, Ends, IdleJob
    <3> QED BY <3>1, <3>2
  <2> HIDE DEF r
  <2>2. job'[j] = r /\ \A k \in Jobs : k # j => job'[k] = job[k]
    BY <2>1 DEF TypeOK
  <2>3. task' = Stored(j, 0)
    BY <1>2 DEF AddTask
  <2>4. TypeOK'
    BY <1>0, <2>1, <2>3, StoredTyped DEF TypeOK, Job
  <2>5. \A k \in Jobs : ~(Running(k) /\ Fresh(k)) /\ ~(PC(k) = "update" /\ Fresh(k))
    BY <1>2 DEF Owned, Current
  <2>6. Refreshed' /\ Owned' /\ NotConcurrent'
    BY <2>1, <2>2, <2>5 DEF Refreshed, Owned, NotConcurrent, PC, Running, Fresh
  <2>7. Current' /\ Superseded'
    BY <2>1, <2>2, <2>3, <2>5, StoredTyped DEF Current, Superseded, PC, Running, Fresh
  <2> QED BY <2>4, <2>6, <2>7
<1> QED BY <1>1, <1>2

(* The row's version grows, and whoever has read it is superseded: nobody  *)
(* executes the rule, or its version would be later than the job's.        *)
LEMMA UpdateTaskKeeps ==
  ASSUME IInv, NEW j \in Jobs, NEW answered \in BOOLEAN, UpdateTask(j, answered)
  PROVE IInv'
<1> USE DEF IInv
<1> DEFINE r == IF answered THEN [job[j] EXCEPT !.pc = "run"] ELSE IdleJob
<1>0. UNCHANGED <<rule, removing, phase>> /\ failures' \in Nat /\ runs' \in Nat
  BY FailuresTyped DEF UpdateTask, Executes, TypeOK
<1>1. /\ job' = [job EXCEPT ![j] = r] /\ r \in Job /\ r.since <= RefreshWithin
      /\ r.pc \in {"run", "idle"} /\ (r.pc = "run" => r.stale = job[j].stale)
  <2>1. CASE answered
    BY <2>1 DEF UpdateTask, Executes, Goes, TypeOK, Job, Refreshed
  <2>2. CASE ~answered
    BY <2>2, IdleTyped, Times DEF UpdateTask, Ends, IdleJob
  <2> QED BY <2>1, <2>2
<1> HIDE DEF r
<1>2. job'[j] = r /\ \A k \in Jobs : k # j => job'[k] = job[k]
  BY <1>1 DEF TypeOK
<1>3. /\ task.there /\ PC(j) = "update" /\ job[j].version = task.version
      /\ task' = Stored(j, task.version + 1) /\ task.version \in Nat
  BY DEF UpdateTask, TypeOK
<1>4. task'.there /\ task'.version = task.version + 1 /\ task'.age <= 0
      /\ task' \in [there : BOOLEAN, version : Nat, age : Int]
  BY <1>3, StoredTyped
<1>5. Fresh(j) => \A k \in Jobs : ~(Running(k) /\ Fresh(k))
  BY <1>3 DEF Superseded
<1>6. TypeOK'
  BY <1>0, <1>1, <1>4 DEF TypeOK, Job
<1>7. Refreshed'
  BY <1>1, <1>2 DEF Refreshed
<1>8. Owned'
  <2>1. \A k \in Jobs : job'[k].since \in Nat
    BY <1>1, <1>2 DEF TypeOK, Job
  <2> QED BY <1>4, <2>1 DEF Owned
<1>9. Current' /\ Superseded'
  <2>1. \A p \in Jobs : (PC(p)' = "update" /\ Fresh(p)') => job'[p].version < task'.version
    BY <1>1, <1>2, <1>3, <1>4 DEF Current, PC, Fresh, TypeOK
  <2>2. \A p \in Jobs : job'[p].version \in Nat
    BY <1>1, <1>2 DEF TypeOK, Job
  <2> QED BY <1>4, <2>1, <2>2 DEF Current, Superseded
<1>10. NotConcurrent'
  BY <1>1, <1>2, <1>5 DEF NotConcurrent, PC, Running, Fresh
<1> QED BY <1>6, <1>7, <1>8, <1>9, <1>10

LEMMA UpdateTaskTimestampKeeps ==
  ASSUME IInv, NEW j \in Jobs, UpdateTaskTimestamp(j)
  PROVE IInv'
<1> USE DEF IInv
<1>0. UNCHANGED <<rule, removing, phase, runs, failures>>
  BY DEF UpdateTaskTimestamp
<1>1. /\ job' \in [Jobs -> Job]
      /\ \A k \in Jobs : /\ PC(k)' = PC(k) /\ job'[k].stale = job[k].stale
                         /\ job'[k].version = job[k].version
                         /\ job'[k].since \in Nat /\ job'[k].since <= RefreshWithin
                         /\ job'[k].since = 0 \/ job'[k].since = job[k].since
  BY Times DEF UpdateTaskTimestamp, TypeOK, Job, PC, Refreshed
<1>2. /\ task'.there = task.there /\ task'.version = task.version
      /\ task' \in [there : BOOLEAN, version : Nat, age : Int]
      /\ task.there => task'.age <= 0
  BY StoredTyped DEF UpdateTaskTimestamp, TypeOK
<1>3. TypeOK'
  BY <1>0, <1>1, <1>2 DEF TypeOK, Job
<1>4. Refreshed' /\ Owned'
  BY <1>1, <1>2 DEF Refreshed, Owned, PC, Running, Fresh
<1>5. Current' /\ Superseded' /\ NotConcurrent'
  BY <1>1, <1>2 DEF Current, Superseded, NotConcurrent, PC, Running, Fresh
<1> QED BY <1>3, <1>4, <1>5

(* Whatever a job had read of the rule that goes is stale. *)
LEMMA RemoveEventRuleKeeps == ASSUME IInv, RemoveEventRule PROVE IInv'
<1> USE DEF IInv
<1>1. CASE rule = "none"
  BY <1>1 DEF RemoveEventRule, TypeOK, Refreshed, Owned, Current, Superseded, NotConcurrent,
              PC, Running, Fresh
<1>2. CASE rule # "none"
  <2>1. /\ job' \in [Jobs -> Job]
        /\ \A k \in Jobs : /\ PC(k)' = PC(k) /\ job'[k].since = job[k].since
                           /\ PC(k) # "idle" => job'[k].stale
    <3>1. \A k \in Jobs :
            LET r == IF PC(k) = "idle" THEN job[k] ELSE [job[k] EXCEPT !.stale = TRUE]
            IN r \in Job /\ r.pc = job[k].pc /\ r.since = job[k].since
               /\ (PC(k) # "idle" => r.stale)
      BY DEF TypeOK, Job
    <3> QED BY <1>2, <3>1 DEF RemoveEventRule, PC
  <2>2. /\ rule' = "none" /\ removing' = FALSE /\ task' = NoTask /\ runs' = 0
        /\ UNCHANGED <<phase, failures>>
    BY <1>2 DEF RemoveEventRule
  <2>3. TypeOK'
    BY <2>1, <2>2, NoTaskTyped DEF TypeOK, Job
  <2>4. \A k \in Jobs : (Running(k)' \/ PC(k)' = "update") => ~Fresh(k)'
    BY <2>1 DEF Running, PC, Fresh
  <2>5. Refreshed' /\ Owned' /\ Current' /\ Superseded' /\ NotConcurrent'
    BY <2>1, <2>4 DEF Refreshed, Owned, Current, Superseded, NotConcurrent, Fresh
  <2> QED BY <2>3, <2>5
<1> QED BY <1>1, <1>2

LEMMA RuleKeeps ==
  ASSUME IInv, DeleteEventRule \/ AddEventRule \/ loadRules
  PROVE IInv'
<1>1. /\ UNCHANGED <<task, job, phase, runs, failures>>
      /\ rule' \in {"active", "deleted", "none"} /\ removing' \in BOOLEAN
  BY DEF IInv, TypeOK, DeleteEventRule, AddEventRule, loadRules
<1> QED BY <1>1 DEF IInv, TypeOK, Refreshed, Owned, Current, Superseded, NotConcurrent,
                    PC, Running, Fresh

LEMMA CrashKeeps == ASSUME IInv, NEW n \in Nodes, Crash(n) PROVE IInv'
<1> USE DEF IInv
<1>1. failures' \in Nat /\ UNCHANGED <<rule, removing, task, phase, runs>>
  BY FailuresTyped DEF Crash
<1>2. job' \in [Jobs -> Job] /\ \A k \in Jobs : job'[k] = IdleJob \/ job'[k] = job[k]
  BY IdleTyped DEF Crash, TypeOK, Job
<1>3. IdleJob.pc = "idle" /\ IdleJob.since <= RefreshWithin
  BY Times DEF IdleJob
<1>4. TypeOK'
  BY <1>1, <1>2 DEF TypeOK, Job
<1>5. Refreshed' /\ Owned'
  BY <1>1, <1>2, <1>3 DEF Refreshed, Owned, PC, Running, Fresh
<1>6. Current' /\ Superseded' /\ NotConcurrent'
  BY <1>1, <1>2, <1>3 DEF Current, Superseded, NotConcurrent, PC, Running, Fresh
<1> QED BY <1>4, <1>5, <1>6

LEMMA TickKeeps == ASSUME IInv, Tick PROVE IInv'
<1> USE DEF IInv
<1>1. /\ job' \in [Jobs -> Job]
      /\ \A k \in Jobs : /\ PC(k)' = PC(k) /\ job'[k].stale = job[k].stale
                         /\ job'[k].version = job[k].version
                         /\ job'[k].since = IF Running(k) THEN job[k].since + 1 ELSE job[k].since
  <2>1. ASSUME NEW k \in Jobs
        PROVE LET r == IF Pending(k) THEN [job[k] EXCEPT !.waited = @ + 1]
                       ELSE IF Running(k) THEN [job[k] EXCEPT !.since = @ + 1] ELSE job[k]
              IN /\ r \in Job /\ r.pc = job[k].pc /\ r.stale = job[k].stale
                 /\ r.version = job[k].version
                 /\ r.since = IF Running(k) THEN job[k].since + 1 ELSE job[k].since
    <3>1. CASE Pending(k)
      BY <3>1 DEF TypeOK, Job, Pending, Running, PC
    <3>2. CASE ~Pending(k) /\ Running(k)
      BY <3>2 DEF TypeOK, Job
    <3>3. CASE ~Pending(k) /\ ~Running(k)
      BY <3>3 DEF TypeOK, Job
    <3> QED BY <3>1, <3>2, <3>3
  <2> QED BY <2>1 DEF Tick, PC
<1>2. /\ task' \in [there : BOOLEAN, version : Nat, age : Int]
      /\ task'.there = task.there /\ task'.version = task.version
      /\ task'.age = task.age \/ task'.age = task.age + 1
  BY DEF Tick, TypeOK
<1>3. phase' \in Int /\ runs' \in Nat /\ UNCHANGED <<rule, removing, failures>>
  BY Times DEF Tick, TypeOK
<1>4. TypeOK'
  BY <1>1, <1>2, <1>3 DEF TypeOK, Job
<1>5. Refreshed'
  BY <1>1, Times DEF Refreshed, Tick, TypeOK
<1>6. Owned'
  BY <1>1, <1>2 DEF Owned, Running, Fresh, TypeOK
<1>7. Current' /\ Superseded' /\ NotConcurrent'
  BY <1>1, <1>2 DEF Current, Superseded, NotConcurrent, Running, Fresh
<1> QED BY <1>4, <1>5, <1>6, <1>7

LEMMA Inductive == IInv /\ [Next]_vars => IInv'
<1> SUFFICES ASSUME IInv, [Next]_vars PROVE IInv'
  OBVIOUS
<1>1. ASSUME NEW j \in Jobs, Run(j) PROVE IInv'
  <2>1. CASE Fire(j)
    BY <2>1, FireKeeps
  <2>2. CASE EventRuleExists(j)
    BY <2>2, EventRuleExistsKeeps
  <2>3. CASE GetTaskByName(j)
    BY <2>3, GetTaskKeeps
  <2>4. ASSUME NEW answered \in BOOLEAN, AddTask(j, answered) \/ UpdateTask(j, answered)
        PROVE IInv'
    BY <2>4, AddTaskKeeps, UpdateTaskKeeps
  <2>5. CASE UpdateRefused(j)
    BY <2>5, EndsKeeps DEF UpdateRefused, IInv, TypeOK
  <2>6. CASE QueryFails(j)
    BY <2>6, EndsKeeps, FailuresTyped DEF QueryFails, IInv
  <2>7. CASE UpdateTaskTimestamp(j)
    BY <2>7, UpdateTaskTimestampKeeps
  <2>8. CASE Finish(j)
    BY <2>8, EndsKeeps DEF Finish, IInv, TypeOK
  <2> QED BY <1>1, <2>1, <2>2, <2>3, <2>4, <2>5, <2>6, <2>7, <2>8 DEF Run
<1>2. CASE DeleteEventRule \/ AddEventRule \/ loadRules
  BY <1>2, RuleKeeps
<1>3. CASE RemoveEventRule
  BY <1>3, RemoveEventRuleKeeps
<1>4. ASSUME NEW n \in Nodes, Crash(n) PROVE IInv'
  BY <1>4, CrashKeeps
<1>5. CASE Tick
  BY <1>5, TickKeeps
<1>6. CASE UNCHANGED vars
  BY <1>6 DEF vars, IInv, TypeOK, Refreshed, Owned, Current, Superseded, NotConcurrent,
              PC, Running, Fresh
<1> QED BY <1>1, <1>2, <1>3, <1>4, <1>5, <1>6 DEF Next

(* The inductive invariant: the lease argument as a whole. *)
THEOREM Invariance == Spec => []IInv
<1>1. Init => IInv
  BY Initially
<1>2. IInv /\ [Next]_vars => IInv'
  BY Inductive
<1> QED BY <1>1, <1>2, PTL DEF Spec

(* The types of the rule, its task and the jobs of eventCronJob.Run. *)
THEOREM TypeCorrect == Spec => []TypeOK
<1>1. IInv => TypeOK
  BY DEF IInv
<1> QED BY <1>1, Invariance, PTL

(* A rule guarded from concurrent execution is not executed twice at a     *)
(* time, by however many nodes.                                            *)
THEOREM Exclusive == Spec => []NotConcurrent
<1>1. IInv => NotConcurrent
  BY DEF IInv
<1> QED BY <1>1, Invariance, PTL

-----------------------------------------------------------------------------
(* An occurrence is executed once.  Tau is the time since the occurrence,   *)
(* negative while only clocks that are ahead have seen it.                  *)
Tau == IF phase <= MaxDelay THEN phase ELSE phase - Period

(* A job that has not got the task has waited since its clock's occurrence. *)
Timely ==
  /\ phase \in 0..(Period - 1)
  /\ \A j \in Jobs :
       /\ Pending(j) => job[j].waited = Tau + Skew[NodeOf[j]] /\ job[j].waited <= MaxDelay
       /\ PC(j) = "idle" => job[j].waited = 0

(* Once executed, the task has been updated since the first clock's         *)
(* occurrence, and nobody knows its present version.                        *)
Recent ==
  runs > 0 =>
    /\ task.there /\ Tau + MaxSkew >= 0 /\ task.age <= Tau + MaxSkew
    /\ \A p \in Jobs : (PC(p) = "update" /\ Fresh(p)) => job[p].version < task.version

OnceInv == IInv /\ Timely /\ Recent /\ OncePerOccurrence

LEMMA Modulo ==
  ASSUME NEW n \in Nat, n < 2 * Period
  PROVE  n % Period = IF n < Period THEN n ELSE n - Period
BY Times

LEMMA TauTyped == ASSUME Timely PROVE Tau \in Int /\ phase \in Int
BY Times DEF Timely, Tau

(* A job of which nothing is asked but that it waits as Timely says. *)
LEMMA TimelyJob ==
  ASSUME TypeOK, Timely, NEW j \in Jobs, NEW r \in Job,
         job' = [job EXCEPT ![j] = r], phase' = phase,
         r.pc \in {"rule", "task", "add", "update"} =>
           r.waited = Tau + Skew[NodeOf[j]] /\ r.waited <= MaxDelay,
         r.pc = "idle" => r.waited = 0
  PROVE Timely'
<1>1. job'[j] = r /\ \A k \in Jobs : k # j => job'[k] = job[k]
  BY DEF TypeOK
<1> QED BY <1>1 DEF Timely, Tau, Pending, PC

LEMMA IdleTimely ==
  ASSUME TypeOK, Timely, NEW j \in Jobs, job' = Ends(j), phase' = phase
  PROVE Timely'
<1>1. IdleJob \in Job /\ IdleJob.pc = "idle" /\ IdleJob.waited = 0
  BY IdleTyped DEF IdleJob
<1> QED BY <1>1, TimelyJob DEF Ends

(* A job that goes on keeps its time. *)
LEMMA GoingTimely ==
  ASSUME TypeOK, Timely, NEW j \in Jobs, Pending(j), NEW r \in Job,
         job' = [job EXCEPT ![j] = r], phase' = phase, r.waited = job[j].waited,
         r.pc # "idle"
  PROVE Timely'
BY TimelyJob DEF Timely

LEMMA RunTimely == ASSUME TypeOK, Timely, NEW j \in Jobs, Run(j) PROVE Timely'
<1>0. job[j] \in Job BY DEF TypeOK, Job
<1>1. CASE Fire(j)
  <2> DEFINE r == [job[j] EXCEPT !.pc = "rule"]
  <2>1. /\ r \in Job /\ r.pc = "rule" /\ r.waited = 0 /\ phase' = phase
        /\ job' = [job EXCEPT ![j] = r]
    BY <1>0, <1>1 DEF Fire, Goes, Timely, TypeOK, Job
  <2>2. Tau + Skew[NodeOf[j]] = 0
    <3> DEFINE n == phase + Skew[NodeOf[j]]
    <3>1. n \in Nat /\ n < 2 * Period /\ n % Period = 0
      BY <1>1, Times DEF Fire, Timely
    <3>2. n = 0 \/ n = Period
      <4> HIDE DEF n
      <4> QED BY <3>1, Modulo, Times
    <3> QED BY <3>2, Times DEF Timely, Tau
  <2> HIDE DEF r
  <2>3. r.waited = Tau + Skew[NodeOf[j]] /\ r.waited <= MaxDelay
    BY <2>1, <2>2, Times
  <2> QED BY <2>1, <2>3, TimelyJob
<1>2. CASE EventRuleExists(j)
  <2> DEFINE r == [job[j] EXCEPT !.pc = "task", !.stale = FALSE]
  <2>1. /\ Pending(j) /\ r \in Job /\ r.pc = "task" /\ r.waited = job[j].waited
        /\ phase' = phase /\ (job' = [job EXCEPT ![j] = r] \/ job' = Ends(j))
    BY <1>0, <1>2 DEF EventRuleExists, Pending, Job
  <2> QED BY <2>1, GoingTimely, IdleTimely
<1>3. CASE GetTaskByName(j)
  <2> DEFINE r == [job[j] EXCEPT !.pc = "add"]
             s == [job[j] EXCEPT !.pc = "update", !.version = task.version]
  <2>1. /\ Pending(j) /\ r \in Job /\ r.pc = "add" /\ r.waited = job[j].waited
        /\ s \in Job /\ s.pc = "update" /\ s.waited = job[j].waited /\ phase' = phase
        /\ \/ job' = [job EXCEPT ![j] = r] \/ job' = [job EXCEPT ![j] = s]
           \/ job' = Ends(j)
    BY <1>0, <1>3 DEF GetTaskByName, Goes, Pending, Job, TypeOK
  <2> QED BY <2>1, GoingTimely, IdleTimely
<1>4. ASSUME NEW answered \in BOOLEAN, AddTask(j, answered) PROVE Timely'
  <2> DEFINE r == [job[j] EXCEPT !.pc = "update", !.version = 0]
  <2>1. /\ Pending(j) /\ r \in Job /\ r.pc = "update" /\ r.waited = job[j].waited
        /\ phase' = phase /\ (job' = [job EXCEPT ![j] = r] \/ job' = Ends(j))
    BY <1>0, <1>4 DEF AddTask, Pending, Job
  <2> QED BY <2>1, GoingTimely, IdleTimely
<1>5. ASSUME NEW answered \in BOOLEAN, UpdateTask(j, answered) PROVE Timely'
  <2> DEFINE r == [job[j] EXCEPT !.pc = "run"]
  <2>1. /\ Pending(j) /\ r \in Job /\ r.pc = "run" /\ r.waited = job[j].waited
        /\ phase' = phase /\ (job' = [job EXCEPT ![j] = r] \/ job' = Ends(j))
    BY <1>0, <1>5 DEF UpdateTask, Executes, Goes, Pending, Job
  <2> QED BY <2>1, GoingTimely, IdleTimely
<1>6. CASE UpdateRefused(j) \/ QueryFails(j) \/ Finish(j)
  BY <1>6, IdleTimely DEF UpdateRefused, QueryFails, Finish
<1>7. CASE UpdateTaskTimestamp(j)
  <2> DEFINE r == [job[j] EXCEPT !.since = 0]
  <2>1. /\ r \in Job /\ r.pc = "run" /\ phase' = phase
        /\ job' = [job EXCEPT ![j] = r]
    BY <1>0, <1>7 DEF UpdateTaskTimestamp, Running, PC, Job
  <2> QED BY <2>1, TimelyJob
<1> QED BY <1>1, <1>2, <1>3, <1>4, <1>5, <1>6, <1>7 DEF Run

LEMMA TickPhase ==
  ASSUME Timely, Tick
  PROVE  phase \in 0..(Period - 1) /\ phase' = IF phase + 1 = Period THEN 0 ELSE phase + 1
<1>1. phase + 1 \in Nat /\ phase + 1 < 2 * Period /\ phase \in 0..(Period - 1)
  BY Times DEF Timely
<1>2. phase' = (phase + 1) % Period
  BY DEF Tick
<1> QED BY <1>1, <1>2, Modulo, Times

(* Time passes only while nobody has waited too long, so nobody waits when  *)
(* the occurrence is over.                                                  *)
LEMMA TickTimely == ASSUME TypeOK, Timely, Tick PROVE Timely'
<1>1. phase \in 0..(Period - 1) /\ phase' = IF phase + 1 = Period THEN 0 ELSE phase + 1
  BY TickPhase
<1>2. phase # MaxDelay => Tau' = Tau + 1
  BY <1>1, Times DEF Tau
<1>3. \A k \in Jobs : /\ PC(k)' = PC(k)
                      /\ job'[k].waited = IF Pending(k) THEN job[k].waited + 1
                                          ELSE job[k].waited
  BY DEF Tick, TypeOK, Pending, Running, PC
<1>4. ASSUME NEW k \in Jobs, Pending(k)
      PROVE /\ phase # MaxDelay /\ job'[k].waited = Tau' + Skew[NodeOf[k]]
            /\ job'[k].waited <= MaxDelay
  <2>1. /\ job[k].waited \in Nat /\ job[k].waited < MaxDelay
        /\ job[k].waited = Tau + Skew[NodeOf[k]] /\ Skew[NodeOf[k]] \in Nat
    BY <1>4, Times DEF TypeOK, Timely, Tick
  <2>2. phase # MaxDelay
    BY <2>1, Times DEF Tau
  <2>3. Tau' = Tau + 1 /\ Tau \in Int
    BY <1>2, <2>2, TauTyped
  <2> QED BY <1>3, <1>4, <2>1, <2>2, <2>3, Times
<1>5. \A k \in Jobs : Pending(k)' <=> Pending(k)
  BY <1>3 DEF Pending
<1>6. phase' \in 0..(Period - 1)
  BY <1>1, Times
<1>7. \A k \in Jobs : PC(k)' = "idle" => job'[k].waited = 0
  BY <1>3 DEF Timely, Pending
<1> QED BY <1>4, <1>5, <1>6, <1>7 DEF Timely

LEMMA TimelyStep == ASSUME TypeOK, Timely, [Next]_vars PROVE Timely'
<1>1. ASSUME phase' = phase,
             \A k \in Jobs : /\ job'[k].pc = job[k].pc /\ job'[k].waited = job[k].waited
                             \/ job'[k] = IdleJob
      PROVE Timely'
  BY <1>1 DEF Timely, Tau, Pending, PC, IdleJob
<1>2. CASE DeleteEventRule \/ AddEventRule \/ loadRules \/ UNCHANGED vars
  BY <1>1, <1>2 DEF DeleteEventRule, AddEventRule, loadRules, vars
<1>3. CASE RemoveEventRule
  BY <1>1, <1>3 DEF RemoveEventRule, TypeOK
<1>4. ASSUME NEW n \in Nodes, Crash(n) PROVE Timely'
  BY <1>1, <1>4 DEF Crash, TypeOK
<1> QED BY <1>2, <1>3, <1>4, RunTimely, TickTimely DEF Next

(* What keeps the execution recent: the task stays, is not older for being  *)
(* stored, has no earlier version, and nobody reads its version.            *)
LEMMA RecentKept ==
  ASSUME TypeOK, Timely, Recent, OncePerOccurrence, phase' = phase, runs' = runs,
         runs > 0 => /\ task'.there /\ task'.version \in Nat /\ task'.version >= task.version
                     /\ task'.age = task.age \/ (task'.age \in Int /\ task'.age <= 0),
         \A p \in Jobs : (runs > 0 /\ PC(p)' = "update" /\ Fresh(p)') =>
           PC(p) = "update" /\ Fresh(p) /\ job'[p].version = job[p].version
  PROVE Recent' /\ OncePerOccurrence'
<1>1. OncePerOccurrence' BY DEF OncePerOccurrence
<1>2. Tau' = Tau /\ Tau \in Int BY TauTyped DEF Tau
<1>3. /\ task.age \in Int /\ task.version \in Nat
      /\ \A p \in Jobs : job[p].version \in Nat
  BY DEF TypeOK
<1> QED BY <1>1, <1>2, <1>3, Times DEF Recent

LEMMA RunRecent ==
  ASSUME OnceInv, NEW j \in Jobs, Run(j), TypeOK'
  PROVE Recent' /\ OncePerOccurrence'
<1> USE DEF OnceInv, IInv
<1>0. task.version \in Nat /\ task'.version \in Nat /\ task'.age \in Int
  BY DEF TypeOK
<1>1. ASSUME UNCHANGED <<phase, runs, task>>, NEW r,
             job' = [job EXCEPT ![j] = r], r.pc \in {"idle", "rule", "task", "add", "run"}
      PROVE Recent' /\ OncePerOccurrence'
  <2>1. job'[j] = r /\ \A k \in Jobs : k # j => job'[k] = job[k]
    BY <1>1 DEF TypeOK
  <2> QED BY <1>0, <1>1, <2>1, RecentKept DEF PC, Fresh, Recent
<1>2. IdleJob.pc = "idle" BY DEF IdleJob
<1>3. CASE Fire(j) \/ EventRuleExists(j) \/ UpdateRefused(j) \/ QueryFails(j) \/ Finish(j)
  <2>1. [job[j] EXCEPT !.pc = "rule"].pc = "rule"
        /\ [job[j] EXCEPT !.pc = "task", !.stale = FALSE].pc = "task"
    BY DEF TypeOK
  <2> QED BY <1>1, <1>2, <1>3, <2>1
          DEF Fire, EventRuleExists, UpdateRefused, QueryFails, Finish, Goes, Ends
<1>4. CASE GetTaskByName(j)
  <2>1. CASE runs > 0
    <3>1. task.there /\ task.age <= Tau + MaxSkew /\ Tau + Skew[NodeOf[j]] <= MaxDelay
      BY <1>4, <2>1 DEF Recent, GetTaskByName, Timely, Pending
    <3>2. task.age + Skew[NodeOf[j]] <= 2 * updateInterval
      BY <3>1, Times, TauTyped DEF TypeOK
    <3>3. job' = Ends(j) BY <1>4, <3>1, <3>2 DEF GetTaskByName, TooRecent
    <3> QED BY <1>1, <1>2, <1>4, <3>3 DEF GetTaskByName, Ends
  <2>2. CASE ~(runs > 0)
    BY <1>4, <2>2 DEF GetTaskByName, Recent, OncePerOccurrence
  <2> QED BY <2>1, <2>2
<1>5. ASSUME NEW answered \in BOOLEAN, AddTask(j, answered)
      PROVE Recent' /\ OncePerOccurrence'
  <2>1. CASE runs > 0
    <3>1. task.there BY <2>1 DEF Recent
    <3> QED BY <1>1, <1>2, <1>5, <3>1 DEF AddTask, Ends
  <2>2. CASE ~(runs > 0)
    BY <1>5, <2>2 DEF AddTask, Recent, OncePerOccurrence
  <2> QED BY <2>1, <2>2
<1>6. ASSUME NEW answered \in BOOLEAN, UpdateTask(j, answered)
      PROVE Recent' /\ OncePerOccurrence'
  <2>1. /\ PC(j) = "update" /\ job[j].version = task.version
        /\ task'.there /\ task'.version = task.version + 1 /\ task'.age <= 0
        /\ phase' = phase
    BY <1>0, <1>6, StoredTyped DEF UpdateTask
  <2>2. \A k \in Jobs : k # j => job'[k] = job[k]
    BY <1>6 DEF UpdateTask, Executes, Goes, Ends, TypeOK
  <2>3. job'[j].pc # "update"
    BY <1>2, <1>6 DEF UpdateTask, Executes, Goes, Ends, TypeOK
  <2>4. CASE runs' = runs
    BY <1>0, <2>1, <2>2, <2>3, <2>4, RecentKept DEF PC, Fresh
  <2>5. CASE runs' # runs
    <3>1. Fresh(j) /\ runs' = runs + 1
      BY <1>6, <2>5 DEF UpdateTask, Executes, Fresh
    <3>2. ~(runs > 0)
      BY <1>0, <2>1, <3>1 DEF Recent
    <3>3. OncePerOccurrence'
      BY <3>1, <3>2 DEF OncePerOccurrence, TypeOK
    <3>4. Tau' = Tau /\ Tau \in Int /\ Tau + MaxSkew >= 0
      <4>1. job[j].waited = Tau + Skew[NodeOf[j]] /\ job[j].waited \in Nat
        BY <2>1 DEF Timely, Pending, TypeOK
      <4> QED BY <2>1, <4>1, Times, TauTyped DEF Tau
    <3>5. \A p \in Jobs : (PC(p)' = "update" /\ Fresh(p)') =>
            job'[p].version < task'.version
      BY <1>0, <2>1, <2>2, <2>3 DEF Current, PC, Fresh, TypeOK
    <3> QED BY <1>0, <2>1, <3>3, <3>4, <3>5, Times DEF Recent
  <2> QED BY <2>4, <2>5
<1>7. CASE UpdateTaskTimestamp(j)
  <2>1. /\ task.there => task'.there /\ task'.version = task.version /\ task'.age <= 0
        /\ UNCHANGED <<phase, runs>>
    BY <1>0, <1>7, StoredTyped DEF UpdateTaskTimestamp
  <2>2. \A k \in Jobs : /\ PC(k)' = PC(k) /\ job'[k].version = job[k].version
                        /\ Fresh(k)' = Fresh(k)
    BY <1>7 DEF UpdateTaskTimestamp, TypeOK, PC, Fresh
  <2>3. runs > 0 => task.there BY DEF Recent
  <2> QED BY <1>0, <2>1, <2>2, <2>3, RecentKept
<1> QED BY <1>3, <1>4, <1>5, <1>6, <1>7 DEF Run

(* The occurrence is over when the last clock's jobs have had their time.   *)
LEMMA TickRecent == ASSUME OnceInv, Tick PROVE Recent' /\ OncePerOccurrence'
<1> USE DEF OnceInv, IInv
<1>1. phase \in 0..(Period - 1) /\ phase' = IF phase + 1 = Period THEN 0 ELSE phase + 1
  BY TickPhase
<1>2. OncePerOccurrence'
  BY DEF OncePerOccurrence, Tick
<1>3. CASE phase = MaxDelay
  BY <1>2, <1>3 DEF Tick, Recent
<1>4. CASE phase # MaxDelay
  <2>1. Tau' = Tau + 1 /\ Tau \in Int
    BY <1>1, <1>4, Times DEF Tau
  <2>2. runs' = runs BY <1>4 DEF Tick
  <2>3. /\ task'.there = task.there /\ task'.version = task.version
        /\ task'.age = task.age \/ task'.age = task.age + 1
        /\ task.age \in Int
    BY DEF Tick, TypeOK
  <2>4. \A k \in Jobs : /\ PC(k)' = PC(k) /\ job'[k].version = job[k].version
                        /\ Fresh(k)' = Fresh(k)
    BY DEF Tick, TypeOK, PC, Fresh
  <2> QED BY <1>2, <2>1, <2>2, <2>3, <2>4, Times DEF Recent
<1> QED BY <1>3, <1>4

LEMMA RecentStep ==
  ASSUME OnceInv, [Next]_vars, TypeOK'
  PROVE Recent' /\ OncePerOccurrence'
<1> USE DEF OnceInv, IInv
<1>1. ASSUME UNCHANGED <<phase, runs, task>>,
             \A k \in Jobs : job'[k] = job[k] \/ job'[k] = IdleJob
      PROVE Recent' /\ OncePerOccurrence'
  <2>1. IdleJob.pc = "idle" /\ task.version \in Nat BY DEF IdleJob, TypeOK
  <2> QED BY <1>1, <2>1, RecentKept DEF PC, Fresh, Recent
<1>2. CASE DeleteEventRule \/ AddEventRule \/ loadRules \/ UNCHANGED vars
  BY <1>1, <1>2 DEF DeleteEventRule, AddEventRule, loadRules, vars
<1>3. CASE RemoveEventRule
  <2>1. CASE rule = "none"
    BY <1>1, <1>3, <2>1 DEF RemoveEventRule
  <2>2. CASE rule # "none"
    BY <1>3, <2>2 DEF RemoveEventRule, Recent, OncePerOccurrence
  <2> QED BY <2>1, <2>2
<1>4. ASSUME NEW n \in Nodes, Crash(n) PROVE Recent' /\ OncePerOccurrence'
  BY <1>1, <1>4 DEF Crash, TypeOK
<1> QED BY <1>2, <1>3, <1>4, RunRecent, TickRecent DEF Next

(* Each occurrence of the schedule is executed once, by however many nodes  *)
(* with whatever clocks: who comes late finds the task updated, or its      *)
(* version taken.                                                           *)
THEOREM ExecutedOnce == Spec => []OncePerOccurrence
<1>1. ASSUME Init PROVE OnceInv
  <2>1. Timely
    BY <1>1, Times DEF Init, Timely, IdleJob, Pending, PC
  <2>2. Recent /\ OncePerOccurrence
    BY <1>1 DEF Init, Recent, OncePerOccurrence
  <2> QED BY <1>1, <2>1, <2>2, Initially DEF OnceInv
<1>2. ASSUME OnceInv, [Next]_vars PROVE OnceInv'
  <2>1. IInv' BY <1>2, Inductive DEF OnceInv
  <2>2. TypeOK' BY <2>1 DEF IInv
  <2> QED BY <1>2, <2>1, <2>2, TimelyStep, RecentStep DEF OnceInv, IInv
<1> QED BY <1>1, <1>2, PTL DEF Spec, OnceInv
=============================================================================
