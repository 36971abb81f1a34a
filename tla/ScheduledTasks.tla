---------------------------- MODULE ScheduledTasks ----------------------------
(***************************************************************************)
(* A scheduled rule of nodes that share a database and must not execute it *)
(* together.  Each node's cron starts the rule by the node's own clock; a  *)
(* row of the tasks table, with a version and the time of its last update, *)
(* decides who goes on: it is taken by its version, kept by updates every  *)
(* updateInterval, and free when it has not been updated for two of them.  *)
(* Nodes crash, answers of the database get lost, and the rule is deleted, *)
(* created again and, 30 minutes later, removed together with its task.    *)
(***************************************************************************)
EXTENDS Integers, FiniteSets

CONSTANTS
  Nodes, Jobs,
  NodeOf,         \* job -> its node: cron does not wait for the job before
  Skew,           \* node -> by how much its clock is ahead of the slowest
  MaxSkew,        \* bounds it
  updateInterval, \* 5 minutes
  RefreshWithin,  \* when the update of a task has been stored at the latest
  MaxDelay,       \* how long a job takes to be executed or given up
  Period,         \* of the schedule
  MaxVersion,     \* bounds the version of a task
  MaxFailures     \* bounds crashes, failing queries and lost answers

ASSUME TimingAssumption ==
  /\ NodeOf \in [Jobs -> Nodes]
  /\ MaxSkew \in Nat /\ Skew \in [Nodes -> 0..MaxSkew]
  /\ updateInterval \in Nat \ {0}
  /\ RefreshWithin \in Nat /\ RefreshWithin >= updateInterval
  /\ RefreshWithin + MaxSkew <= 2 * updateInterval
  /\ MaxDelay \in Nat /\ MaxDelay + MaxSkew <= 2 * updateInterval
  /\ Period \in Nat /\ Period > 2 * updateInterval + MaxDelay + MaxSkew
  /\ MaxVersion \in Nat /\ MaxFailures \in Nat

VARIABLES
  rule,     \* its row: "active", "deleted" (soft) or "none"
  removing, \* the goroutine that removes a deleted rule for good is to run
  task,     \* its row: whether it is there, version, and age of the update
  job,      \* job -> where Run is, and its local variables
  phase,    \* time since the slowest clock's last occurrence of the schedule
  runs,     \* executions of this occurrence; not in the code
  failures  \* so far; not in the code

vars == <<rule, removing, task, job, phase, runs, failures>>

NoTask == [there |-> FALSE, version |-> 0, age |-> 0]

(* stale, not in the code: the rule has been removed since the job began.  *)
IdleJob == [pc |-> "idle", version |-> 0, waited |-> 0, since |-> 0, stale |-> FALSE]

PC(j)        == job[j].pc
Running(j)   == PC(j) = "run"
Pending(j)   == PC(j) \in {"rule", "task", "add", "update"}
Answered(answered) ==
  IF answered THEN UNCHANGED failures
  ELSE failures < MaxFailures /\ failures' = failures + 1

Ends(j)      == [job EXCEPT ![j] = IdleJob]
Goes(j, pc)  == [job EXCEPT ![j].pc = pc]

(* A row stored by j's node with the node's own time. *)
Stored(j, version) ==
  [there |-> TRUE, version |-> version, age |-> - Skew[NodeOf[j]]]

(* Updates that old are all the same. *)
MaxAge == 2 * updateInterval + 1

-----------------------------------------------------------------------------
(* eventCronJob.Run                                                        *)

(* It is time by the node's clock; overlapping schedules of the rule start *)
(* it more than once.                                                      *)
Fire(j) ==
  /\ PC(j) = "idle" /\ (phase + Skew[NodeOf[j]]) % Period = 0
  /\ job' = Goes(j, "rule")
  /\ UNCHANGED <<rule, removing, task, phase, runs, failures>>

(* Only rules that are not deleted are found. *)
EventRuleExists(j) ==
  /\ PC(j) = "rule"
  /\ job' = IF rule = "active"
            THEN [job EXCEPT ![j].pc = "task", ![j].stale = FALSE] ELSE Ends(j)
  /\ UNCHANGED <<rule, removing, task, phase, runs, failures>>

TooRecentSingle(j) == task.age + Skew[NodeOf[j]] <= updateInterval \* mutant

TooRecent(j) == task.age + Skew[NodeOf[j]] <= 2 * updateInterval

(* Mutant: the version is not kept. *)
GetTaskWithoutVersion(j) ==
  /\ PC(j) = "task"
  /\ job' = IF ~task.there THEN Goes(j, "add")
            ELSE IF TooRecent(j) THEN Ends(j) ELSE Goes(j, "update")
  /\ UNCHANGED <<rule, removing, task, phase, runs, failures>>

(* getTask, and the comparison of the task's age. *)
GetTaskByName(j) ==
  /\ PC(j) = "task"
  /\ job' = IF ~task.there THEN Goes(j, "add")
            ELSE IF TooRecent(j) THEN Ends(j)
            ELSE [job EXCEPT ![j].pc = "update", ![j].version = task.version]
  /\ UNCHANGED <<rule, removing, task, phase, runs, failures>>

(* The insertion of a name that is there is refused; the new task counts   *)
(* as version 0, never updated.                                            *)
AddTask(j, answered) ==
  /\ PC(j) = "add"
  /\ task' = IF task.there THEN task ELSE Stored(j, 0)
  /\ job' = IF answered /\ ~task.there
            THEN [job EXCEPT ![j].pc = "update", ![j].version = 0] ELSE Ends(j)
  /\ Answered(answered)
  /\ UNCHANGED <<rule, removing, phase, runs>>

Executes(j) ==
  /\ job' = Goes(j, "run")
  /\ runs' = IF job[j].stale THEN runs ELSE runs + 1

(* Mutant: the version is not compared. *)
UpdateAnyVersion(j, answered) ==
  /\ PC(j) = "update" /\ task.there /\ task.version < MaxVersion
  /\ task' = Stored(j, task.version + 1)
  /\ IF answered THEN Executes(j) ELSE job' = Ends(j) /\ UNCHANGED runs
  /\ Answered(answered)
  /\ UNCHANGED <<rule, removing, phase>>

UpdateTask(j, answered) ==
  /\ PC(j) = "update" /\ task.there /\ task.version = job[j].version
  /\ task.version < MaxVersion
  /\ task' = Stored(j, task.version + 1)
  /\ IF answered THEN Executes(j) ELSE job' = Ends(j) /\ UNCHANGED runs
  /\ Answered(answered)
  /\ UNCHANGED <<rule, removing, phase>>

(* No row is affected: another job was faster. *)
UpdateRefused(j) ==
  /\ PC(j) = "update" /\ ~(task.there /\ task.version = job[j].version)
  /\ job' = Ends(j)
  /\ UNCHANGED <<rule, removing, task, phase, runs, failures>>

(* A query fails and changes nothing. *)
QueryFails(j) ==
  /\ Pending(j)
  /\ Answered(FALSE)
  /\ job' = Ends(j)
  /\ UNCHANGED <<rule, removing, task, phase, runs>>

(* The worker's ticker: the task of that name, whoever has taken it. *)
UpdateTaskTimestamp(j) ==
  /\ Running(j) /\ job[j].since >= updateInterval
  /\ task' = IF task.there THEN Stored(j, task.version) ELSE task
  /\ job' = [job EXCEPT ![j].since = 0]
  /\ UNCHANGED <<rule, removing, phase, runs, failures>>

Finish(j) ==
  /\ Running(j)
  /\ job' = Ends(j)
  /\ UNCHANGED <<rule, removing, task, phase, runs, failures>>

-----------------------------------------------------------------------------
(* The rule                                                                *)

(* The soft deletion of shared databases. *)
DeleteEventRule ==
  /\ rule = "active" /\ rule' = "deleted"
  /\ UNCHANGED <<removing, task, job, phase, runs, failures>>

(* The deleted row goes, its task stays. *)
AddEventRule ==
  /\ rule # "active" /\ rule' = "active"
  /\ UNCHANGED <<removing, task, job, phase, runs, failures>>

(* A node finds the rule deleted 30 minutes ago; when is left open. *)
loadRules ==
  /\ rule = "deleted" /\ removing' = TRUE
  /\ UNCHANGED <<rule, task, job, phase, runs, failures>>

(* By name: a rule created meanwhile goes too. *)
RemoveEventRule ==
  /\ removing /\ removing' = FALSE
  /\ IF rule = "none" THEN UNCHANGED <<rule, task, job, runs>>
     ELSE /\ rule' = "none" /\ task' = NoTask /\ runs' = 0
          /\ job' = [j \in Jobs |-> IF PC(j) = "idle" THEN job[j]
                                    ELSE [job[j] EXCEPT !.stale = TRUE]]
  /\ UNCHANGED <<phase, failures>>

-----------------------------------------------------------------------------
(* The environment                                                         *)

(* The node is started again at once, or later. *)
Crash(n) ==
  /\ Answered(FALSE)
  /\ \E j \in Jobs : NodeOf[j] = n /\ PC(j) # "idle"
  /\ job' = [j \in Jobs |-> IF NodeOf[j] = n THEN IdleJob ELSE job[j]]
  /\ UNCHANGED <<rule, removing, task, phase, runs>>

(* Queries end, and tasks are updated, in time. *)
Tick ==
  /\ \A j \in Jobs : Pending(j) => job[j].waited < MaxDelay
  /\ \A j \in Jobs : Running(j) => job[j].since < RefreshWithin
  /\ phase' = (phase + 1) % Period
  /\ task' = IF task.there /\ task.age < MaxAge THEN [task EXCEPT !.age = @ + 1] ELSE task
  /\ job' = [j \in Jobs |->
       IF Pending(j) THEN [job[j] EXCEPT !.waited = @ + 1]
       ELSE IF Running(j) THEN [job[j] EXCEPT !.since = @ + 1] ELSE job[j]]
  /\ runs' = IF phase = MaxDelay THEN 0 ELSE runs \* the occurrence is over
  /\ UNCHANGED <<rule, removing, failures>>

-----------------------------------------------------------------------------
Init ==
  /\ rule = "active" /\ removing = FALSE
  /\ task = NoTask
  /\ job = [j \in Jobs |-> IdleJob]
  /\ phase = 0 /\ runs = 0 /\ failures = 0

Run(j) ==
  \/ Fire(j) \/ EventRuleExists(j) \/ GetTaskByName(j)
  \/ \E answered \in BOOLEAN : AddTask(j, answered) \/ UpdateTask(j, answered)
  \/ UpdateRefused(j) \/ QueryFails(j)
  \/ UpdateTaskTimestamp(j) \/ Finish(j)

Next ==
  \/ \E j \in Jobs : Run(j)
  \/ DeleteEventRule \/ AddEventRule \/ loadRules \/ RemoveEventRule
  \/ \E n \in Nodes : Crash(n)
  \/ Tick

Spec == Init /\ [][Next]_vars

(* What a job that is answered does next. *)
Proceeds(j) ==
  \/ EventRuleExists(j) \/ GetTaskByName(j) \/ AddTask(j, TRUE)
  \/ UpdateTask(j, TRUE) \/ UpdateRefused(j)

(* Time passes, jobs and workers go on, and some node is up again and      *)
(* again when the schedule wants it.                                       *)
Fairness ==
  /\ WF_vars(Tick) /\ SF_vars(\E j \in Jobs : Fire(j))
  /\ \A j \in Jobs : WF_vars(Proceeds(j)) /\ WF_vars(UpdateTaskTimestamp(j))

FairSpec == Spec /\ Fairness

-----------------------------------------------------------------------------
(* Properties                                                              *)

TypeOK ==
  /\ rule \in {"active", "deleted", "none"} /\ removing \in BOOLEAN
  /\ task \in [there : BOOLEAN, version : Nat, age : Int]
  /\ job \in [Jobs -> [pc : {"idle", "rule", "task", "add", "update", "run"},
                       version : Nat, waited : Nat, since : Nat, stale : BOOLEAN]]
  /\ phase \in Int /\ runs \in Nat /\ failures \in Nat

(* No rule is executed twice at a time (GuardFromConcurrentExecution), not *)
(* by two nodes whose clocks differ nor by one whose execution outlasts    *)
(* the schedule, after crashes and lost answers.  Two rules of one name    *)
(* may be: one removed for good while it runs, and its successor.          *)
NotConcurrent ==
  \A j, k \in Jobs :
    (j # k /\ Running(j) /\ Running(k)) => job[j].stale \/ job[k].stale

(* Each occurrence of the schedule is executed once, also by a node that   *)
(* is late and finds the execution over.                                   *)
OncePerOccurrence == runs <= 1

(* The task of a node that has crashed, or whose answer was lost, becomes  *)
(* free: a rule that stays active is executed again and again.             *)
ExecutedAgain ==
  (rule = "active") ~> \/ \E j \in Jobs : Running(j)
                       \/ rule # "active" \/ task.version = MaxVersion
=============================================================================
