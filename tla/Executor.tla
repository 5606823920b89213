------------------------------ MODULE Executor -------------------------------
(***************************************************************************)
(* One job's attempts as DockerExecutor runs them (cmd/citrun/executor.go):*)
(* the docker command and its container, the two ways its context ends,    *)
(* the artifacts in jobs/<job-id>/, which all attempts of the job share,   *)
(* and the classification of what they left there.  A crash of citrun and  *)
(* the Attach of a later resume are part of it.                            *)
(*                                                                         *)
(* All attempts of a job use one container name, so at most one of their   *)
(* containers is alive; docker kill, wait and ps go by that name.  A       *)
(* junit.xml is the set of kinds of failure its <failure> blocks show, {}  *)
(* when every test case passed or was skipped; a job.log is the kinds of   *)
(* error it mentions.                                                      *)
(***************************************************************************)
EXTENDS Integers

CONSTANTS
  MaxAttempts,    \* bound: attempts of the job
  CancelMayCome,  \* whether the second interrupt may cancel jobCtx
  CrashMayCome,   \* whether citrun may crash while the attempt runs
  RewriteMayFail, \* whether markInfraSkipped may fail to parse or write the file
  Faults          \* "docker": docker ps, wait and kill may fail; "slowStart": a resume
                  \* may come before a docker run under way is done

ASSUME ExecutorAssumption ==
  /\ MaxAttempts \in Nat \ {0}
  /\ CancelMayCome \in BOOLEAN
  /\ CrashMayCome \in BOOLEAN
  /\ RewriteMayFail \in BOOLEAN
  /\ Faults \subseteq {"docker", "slowStart"}

\* What quotaRe, stockoutRe and apiErrRe match, and a failure none of them does
Kinds == {"quota", "stockout", "api", "assert"}

NoJunit == {"no file"}   \* or an empty one: classifyResult looks at its length

Outcome == {"pass", "fail", "stockout", "quota", "timeout", "infra", "error"}

VARIABLES
  attempt,    \* attempts started
  xpc,        \* where exec.Run, or the Attach of a resume, is
  cli,        \* Run's docker run command: "none", "starting", "waiting" or "exited"
  container,  \* the attempt whose container is alive, 0 for none
  strays,     \* attempts whose docker run outlived citrun and has not ended yet
  awaited,    \* the attempt whose container Attach waits for
  junit,      \* content of junit.xml
  author,     \* the attempt whose manager wrote junit.xml, 0 for none
  jobLog,     \* kinds of error in job.log
  cancelled,  \* jobCtx is cancelled
  handled,    \* the scheduler has handled a completion since
  expired,    \* the deadline of job.Timeout + hardTimeoutSlack has passed
  timedOut,   \* local of Run
  verdict,    \* result of the last finished attempt
  faults,     \* the faults that may happen, chosen at the start
  blind       \* history: attempts a resume gave up whose container was there or may come

containers == <<container, strays>>
files == <<junit, author, jobLog>>
contexts == <<cancelled, handled, expired, timedOut>>
resumed == <<awaited, faults, blind>>

vars == <<attempt, xpc, cli, containers, files, contexts, resumed, verdict>>

Init ==
  /\ attempt = 0
  /\ xpc = "idle"
  /\ cli = "none"
  /\ container = 0
  /\ strays = {}
  /\ awaited = 0
  /\ junit = NoJunit
  /\ author = 0
  /\ jobLog = {}
  /\ cancelled = FALSE
  /\ handled = FALSE
  /\ expired = FALSE
  /\ timedOut = FALSE
  /\ verdict = "none"
  /\ faults \in SUBSET Faults
  /\ blind = {}

-----------------------------------------------------------------------------
(* DockerExecutor.Run *)

\* The scheduler launches an attempt of a queued job: never after a pass.  After any
\* other result the job may be queued again (a retry, or rerun-failed in a resume), or
\* stay as it is for good.  An admission pass under way may launch even after the second
\* interrupt, but no later one
Idle ==
  /\ xpc = "idle"
  /\ verdict # "pass"
  /\ attempt < MaxAttempts
  /\ ~handled

\* job.log cannot be created, the startup script not staged, or docker not started
RunFails ==
  /\ Idle
  /\ attempt' = attempt + 1
  /\ verdict' = "error"
  /\ jobLog' \in {jobLog, {}}
  /\ handled' = cancelled
  /\ UNCHANGED <<xpc, cli, containers, junit, author, cancelled, expired, timedOut, resumed>>

\* job.log is truncated; junit.xml of an earlier attempt stays where it is
RunStarts ==
  /\ Idle
  /\ attempt' = attempt + 1
  /\ jobLog' = {}
  /\ cli' = "starting"
  /\ xpc' = "select"
  /\ UNCHANGED <<containers, junit, author, contexts, resumed, verdict>>

\* case runErr = <-waitErr
WaitReturns ==
  /\ xpc = "select"
  /\ cli = "exited"
  /\ xpc' = "classify"
  /\ UNCHANGED <<attempt, cli, containers, files, contexts, resumed, verdict>>

\* What docker kill by name does: it ends the container that has the name, if there is
\* one by now, and with it the command when the container is this attempt's
KillContainer ==
  /\ container # 0
  /\ container' = 0
  /\ jobLog' \in SUBSET {"quota", "stockout"}
  /\ cli' = IF container = attempt THEN "exited" ELSE cli

KillMisses ==
  /\ container = 0 \/ "docker" \in faults
  /\ UNCHANGED <<container, jobLog, cli>>

\* fault: the deadline is not looked at
ContextDone_CancelOnly ==
  /\ xpc = "select"
  /\ cancelled
  /\ timedOut' = expired
  /\ KillContainer \/ KillMisses
  /\ xpc' = "reap"
  /\ UNCHANGED <<attempt, strays, junit, author, cancelled, handled, expired, resumed, verdict>>

\* case <-cctx.Done(): the error of docker kill is not looked at
ContextDone ==
  /\ xpc = "select"
  /\ cancelled \/ expired
  /\ timedOut' = expired
  /\ KillContainer \/ KillMisses
  /\ xpc' = "reap"
  /\ UNCHANGED <<attempt, strays, junit, author, cancelled, handled, expired, resumed, verdict>>

\* fault: after docker kill nothing is waited for
Reap_NoWait ==
  /\ xpc = "reap"
  /\ xpc' = "classify"
  /\ UNCHANGED <<attempt, cli, containers, files, contexts, resumed, verdict>>

\* runErr = <-waitErr, after the kill
Reap ==
  /\ xpc = "reap"
  /\ cli = "exited"
  /\ xpc' = "classify"
  /\ UNCHANGED <<attempt, cli, containers, files, contexts, resumed, verdict>>

\* The patterns are tried on the whole file, quota before stockout; an API error only
\* counts when every block shows one
classifyJunit ==
  CASE junit = {} -> "pass"
    [] "quota" \in junit -> "quota"
    [] "stockout" \in junit /\ "quota" \notin junit -> "stockout"
    [] junit = {"api"} -> "infra"
    [] OTHER -> "fail"

\* fault: the detail is returned as the class
classifyLog_Detail == "no junit produced"

classifyLog ==
  CASE "quota" \in jobLog -> "quota"
    [] "stockout" \in jobLog /\ "quota" \notin jobLog -> "stockout"
    [] OTHER -> "error"

\* fault: a missing report counts as one without failures
classifyResult_NoFilePasses ==
  IF timedOut THEN "timeout"
  ELSE IF junit # NoJunit THEN classifyJunit
  ELSE "pass"

classifyResult ==
  IF timedOut THEN "timeout"
  ELSE IF junit # NoJunit THEN classifyJunit
  ELSE classifyLog

infraClasses == {"stockout", "quota", "infra"}

\* fault: the report is not rewritten
markInfraSkipped_Off(class) == UNCHANGED junit

\* Failures become skipped test cases; on an error the file stays as it is
markInfraSkipped(class) ==
  \/ /\ class \in infraClasses /\ junit # NoJunit
     /\ junit' = {}
  \/ /\ class \in infraClasses /\ junit # NoJunit => RewriteMayFail
     /\ UNCHANGED junit

Classify ==
  /\ xpc = "classify"
  /\ verdict' = classifyResult
  /\ markInfraSkipped(classifyResult)
  /\ xpc' = "idle"
  /\ cli' = "none"
  /\ handled' = cancelled
  /\ expired' = FALSE
  /\ timedOut' = FALSE
  /\ UNCHANGED <<attempt, containers, author, jobLog, cancelled, resumed>>

-----------------------------------------------------------------------------
(* docker and the test manager, seen from outside *)

\* docker run creates the container, or fails and says so in job.log: the daemon, the
\* image (a registry's rate limit reads like a quota error), or the name in use
DockerRun ==
  /\ cli = "starting"
  /\ \/ container = 0 /\ container' = attempt /\ cli' = "waiting" /\ UNCHANGED jobLog
     \/ cli' = "exited" /\ jobLog' \in SUBSET {"quota"} /\ UNCHANGED container
  /\ UNCHANGED <<attempt, xpc, strays, junit, author, contexts, resumed, verdict>>

\* A docker run that outlived citrun does the same
StrayRun(n) ==
  /\ n \in strays
  /\ strays' = strays \ {n}
  /\ \/ container = 0 /\ container' = n
     \/ UNCHANGED container
  /\ UNCHANGED <<attempt, xpc, cli, files, contexts, resumed, verdict>>

\* The manager writes its report at the end of its run, or leaves an empty file when the
\* write fails ...
ManagerReports ==
  /\ container # 0
  /\ author # container
  /\ junit' \in (SUBSET Kinds) \cup {NoJunit}
  /\ author' = container
  /\ UNCHANGED <<attempt, xpc, cli, containers, jobLog, contexts, resumed, verdict>>

\* ... and exits; it may also die before the report (panic, log.Fatal, out of memory)
ManagerEnds ==
  /\ container # 0
  /\ container' = 0
  /\ cli' = IF container = attempt /\ cli = "waiting" THEN "exited" ELSE cli
  /\ jobLog' \in SUBSET {"quota", "stockout"}
  /\ UNCHANGED <<attempt, xpc, strays, junit, author, contexts, resumed, verdict>>

Cancel ==
  /\ CancelMayCome
  /\ xpc \in {"idle", "select", "attached"}
  /\ ~cancelled /\ ~expired
  /\ cancelled' = TRUE
  /\ UNCHANGED <<attempt, xpc, cli, containers, files, handled, expired, timedOut, resumed,
                 verdict>>

\* The deadline counts from before docker run: it may come while that still starts
Deadline ==
  /\ xpc = "select"
  /\ ~cancelled /\ ~expired
  /\ expired' = TRUE
  /\ UNCHANGED <<attempt, xpc, cli, containers, files, cancelled, handled, timedOut, resumed,
                 verdict>>

-----------------------------------------------------------------------------
(* A crash of citrun, and what the next resume does with the attempt *)

\* What is alive of the job's attempts, or may still come
Living == strays \cup ({container} \ {0})

\* citrun's contexts and locals are lost; the docker command is a process of its own and
\* goes on
Crash ==
  /\ CrashMayCome
  /\ xpc \in {"select", "reap", "classify", "attached"}
  /\ xpc' = "lost"
  /\ cancelled' = FALSE
  /\ handled' = FALSE
  /\ expired' = FALSE
  /\ timedOut' = FALSE
  /\ awaited' = 0
  /\ strays' = strays \cup (IF cli = "starting" THEN {attempt} ELSE {})
  /\ cli' = "none"
  /\ UNCHANGED <<attempt, container, files, faults, blind, verdict>>

\* prepareResume finds a container: docker wait, without a deadline
Attach ==
  /\ xpc = "lost"
  /\ container # 0
  /\ xpc' = "attached"
  /\ awaited' = container
  /\ UNCHANGED <<attempt, cli, containers, files, contexts, faults, blind, verdict>>

AttachReturns ==
  /\ xpc = "attached"
  /\ container # awaited
  /\ xpc' = "classify"
  /\ awaited' = 0
  /\ blind' = blind \cup Living
  /\ UNCHANGED <<attempt, cli, containers, files, contexts, faults, verdict>>

\* docker wait fails; its error is not looked at
AttachFails ==
  /\ "docker" \in faults
  /\ xpc = "attached"
  /\ xpc' = "classify"
  /\ awaited' = 0
  /\ blind' = blind \cup Living
  /\ UNCHANGED <<attempt, cli, containers, files, contexts, faults, verdict>>

\* docker ps shows no container, or fails (ContainerExists is false either way): the
\* attempt is orphaned, its artifacts are not looked at
Orphan ==
  /\ xpc = "lost"
  /\ container = 0 \/ "docker" \in faults
  /\ strays = {} \/ "slowStart" \in faults
  /\ xpc' = "idle"
  /\ verdict' = "orphaned"
  /\ blind' = blind \cup Living
  /\ UNCHANGED <<attempt, cli, containers, files, contexts, awaited, faults>>

Finished ==
  /\ xpc = "idle"
  /\ attempt = MaxAttempts \/ handled \/ verdict = "pass"
  /\ UNCHANGED vars

RunStep == WaitReturns \/ ContextDone \/ Reap \/ Classify \/ AttachReturns

Next ==
  \/ RunFails
  \/ RunStarts
  \/ RunStep
  \/ DockerRun
  \/ \E n \in strays : StrayRun(n)
  \/ ManagerReports
  \/ ManagerEnds
  \/ Cancel
  \/ Deadline
  \/ Crash
  \/ Attach
  \/ AttachFails
  \/ Orphan
  \/ Finished

Spec == Init /\ [][Next]_vars

\* Run's own steps, docker's answer and the clock; the manager may hang for ever
FairSpec == Spec /\ WF_vars(RunStep) /\ WF_vars(DockerRun) /\ WF_vars(Deadline)

-----------------------------------------------------------------------------
(* Properties *)

\* Types of the state
TypeOK ==
  /\ attempt \in 0..MaxAttempts
  /\ xpc \in {"idle", "select", "reap", "classify", "lost", "attached"}
  /\ cli \in {"none", "starting", "waiting", "exited"}
  /\ container \in 0..attempt
  /\ strays \in SUBSET (1..attempt)
  /\ awaited \in 0..attempt
  /\ junit \in (SUBSET Kinds) \cup {NoJunit}
  /\ author \in 0..attempt
  /\ jobLog \in SUBSET Kinds
  /\ verdict \in Outcome \cup {"none", "orphaned"}
  /\ faults \in SUBSET {"docker", "slowStart"}
  /\ blind \in SUBSET (1..attempt)

\* When Run has returned, its container is gone and will not come, whatever cancel, hard
\* timeout, failing docker kill or slow docker run it met: the scheduler may give the
\* charges back and reuse the name.  The only containers that outlive their attempt are
\* those a resume gave up blindly, and there are none of those unless docker failed the
\* resume or the resume came before docker run was done (resume.go:25)
NoContainerLeft ==
  /\ TypeOK
  /\ xpc \in {"idle", "classify"} => Living \subseteq blind
  /\ faults = {} => blind = {}

\* The report of a job that ended with an infra classification shows no failure, so that
\* junit consumers count only real ones (markInfraSkipped), as long as no container that
\* a resume gave up may still write one; and a first attempt's pass or fail comes from a
\* report its own manager wrote, also when a resumed process classifies it
OnlyRealFailuresReported ==
  xpc = "idle" =>
    /\ verdict \in infraClasses /\ ~RewriteMayFail /\ blind = {} => junit \in {NoJunit, {}}
    /\ attempt = 1 /\ verdict \in {"pass", "fail"} => author = 1

\* An attempt whose manager hangs still returns: the hard timeout kills it, unless the
\* operator's kill comes first, or docker kill found no container yet, or failed
HardTimeoutEndsRun ==
  xpc = "select" /\ ~cancelled ~>
    xpc \in {"idle", "lost"} \/ cancelled \/ (xpc = "reap" /\ cli = "waiting")
=============================================================================
