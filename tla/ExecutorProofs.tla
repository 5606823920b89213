---------------------------- MODULE ExecutorProofs ----------------------------
(***************************************************************************)
(* What DockerExecutor guarantees for any number of attempts of a job,     *)
(* whichever of its waits a cancellation, the hard timeout, a crash or a   *)
(* late docker run meets.                                                  *)
(***************************************************************************)
EXTENDS Executor, TLAPS

-----------------------------------------------------------------------------
(* Classification *)

\* classifyJunit and classifyLog return a class, and only a report makes a verdict
LEMMA ClassifyType ==
  /\ classifyJunit \in Outcome
  /\ classifyLog \in {"quota", "stockout", "error"}
  /\ classifyResult \in Outcome
  /\ classifyResult \in {"pass", "fail"} => junit # NoJunit
<1>1. classifyJunit \in Outcome
  <2>1. CASE junit = {}
    BY <2>1 DEF classifyJunit, Outcome
  <2>2. CASE junit # {} /\ "quota" \in junit
    BY <2>2 DEF classifyJunit, Outcome
  <2>3. CASE junit # {} /\ "quota" \notin junit /\ "stockout" \in junit
    BY <2>3 DEF classifyJunit, Outcome
  <2>4. CASE junit # {} /\ "quota" \notin junit /\ "stockout" \notin junit
    BY <2>4 DEF classifyJunit, Outcome
  <2> QED
    BY <2>1, <2>2, <2>3, <2>4
<1>2. classifyLog \in {"quota", "stockout", "error"}
  BY DEF classifyLog
<1> QED
  BY <1>1, <1>2 DEF classifyResult, Outcome

-----------------------------------------------------------------------------
(* The inductive invariant *)

\* docker run and its container: while Run is in its select or after docker kill, the
\* command waits exactly as long as the attempt's container is alive; a command lost in
\* a crash is a stray; only Run has a command
DockerInv ==
  /\ xpc \in {"select", "reap"} =>
       /\ cli # "none"
       /\ attempt \notin strays
       /\ cli = "waiting" <=> container = attempt
  /\ xpc \in {"idle", "lost", "attached"} => cli = "none"
  /\ xpc = "classify" => cli \in {"exited", "none"}

\* What is alive, or may still come, is the current attempt's or was given up blindly, and
\* Run and Attach return when the current attempt's is neither
LivingInv ==
  /\ Living \subseteq blind \cup {attempt}
  /\ xpc \in {"idle", "classify"} => Living \subseteq blind

\* Without faults nothing is given up blindly: a command outlives citrun only until the
\* resume looks, and what Attach waits for is the current attempt's container
SureInv ==
  faults = {} =>
    /\ blind = {}
    /\ xpc # "lost" => strays = {}
    /\ strays # {} => container = 0
    /\ xpc = "attached" => awaited = attempt

\* A report was written by an attempt of this job
AuthorInv ==
  /\ xpc # "idle" => attempt > 0
  /\ container # 0 => attempt > 0
  /\ junit # NoJunit => author > 0

ExecInv ==
  TypeOK /\ DockerInv /\ LivingInv /\ SureInv /\ AuthorInv /\ OnlyRealFailuresReported

\* Before the first attempt there is neither a command nor a report
LEMMA ExecInit == Init => ExecInv
<1> SUFFICES ASSUME Init PROVE ExecInv
  OBVIOUS
<1>1. TypeOK
  <2>1. 0 \in 0..MaxAttempts /\ 0 \in 0..0
    BY ExecutorAssumption
  <2>2. NoJunit \in (SUBSET Kinds) \cup {NoJunit} /\ {} \in SUBSET Kinds
    OBVIOUS
  <2>3. faults \in SUBSET {"docker", "slowStart"}
    BY ExecutorAssumption DEF Init
  <2> QED
    BY <2>1, <2>2, <2>3 DEF Init, TypeOK
<1>2. DockerInv
  BY DEF Init, DockerInv
<1>3. AuthorInv /\ OnlyRealFailuresReported
  BY DEF Init, AuthorInv, OnlyRealFailuresReported, infraClasses
<1>4. LivingInv /\ SureInv
  BY DEF Init, LivingInv, SureInv, Living
<1> QED
  BY <1>1, <1>2, <1>3, <1>4 DEF ExecInv

\* Living is a set of attempts
LEMMA LivingType == TypeOK => Living \in SUBSET (1..attempt)
  BY ExecutorAssumption DEF TypeOK, Living

\* Every step keeps the types
LEMMA TypeStep ==
  ASSUME ExecInv, [Next]_vars
  PROVE  TypeOK'
<1> USE ExecutorAssumption
<1>1. TypeOK
  BY DEF ExecInv
<1>2. attempt \in Nat /\ Living \in SUBSET (1..attempt)
  BY <1>1, LivingType DEF TypeOK
<1>2a. 0 \in 0..attempt /\ attempt \in 0..attempt /\ SUBSET {"quota"} \subseteq SUBSET Kinds
      /\ SUBSET {"quota", "stockout"} \subseteq SUBSET Kinds
  BY <1>2 DEF Kinds
<1>3. CASE RunFails
  <2>1. attempt' \in 0..MaxAttempts /\ 0..attempt \subseteq 0..attempt'
        /\ 1..attempt \subseteq 1..attempt'
    BY <1>1, <1>2, <1>3 DEF RunFails, Idle, TypeOK
  <2>2. verdict' \in Outcome /\ jobLog' \in SUBSET Kinds
    BY <1>1, <1>3 DEF RunFails, TypeOK, Outcome
  <2> QED
    BY <1>1, <1>3, <2>1, <2>2 DEF RunFails, containers, resumed, TypeOK
<1>4. CASE RunStarts
  <2>1. attempt' \in 0..MaxAttempts /\ 0..attempt \subseteq 0..attempt'
        /\ 1..attempt \subseteq 1..attempt'
    BY <1>1, <1>2, <1>4 DEF RunStarts, Idle, TypeOK
  <2> QED
    BY <1>1, <1>4, <2>1 DEF RunStarts, containers, resumed, TypeOK
<1>5. CASE WaitReturns \/ Reap \/ Cancel \/ Deadline
  BY <1>1, <1>5 DEF WaitReturns, Reap, Cancel, Deadline, containers, files, resumed, TypeOK
<1>6. CASE ContextDone
  <2>1. jobLog' \in SUBSET Kinds /\ container' \in 0..attempt
        /\ cli' \in {"none", "starting", "waiting", "exited"}
    BY <1>2a, <1>1, <1>6 DEF ContextDone, KillContainer, KillMisses, TypeOK
  <2> QED
    BY <1>1, <1>6, <2>1 DEF ContextDone, resumed, TypeOK
<1>7. CASE Classify
  <2>1. verdict' \in Outcome
    BY <1>7, ClassifyType DEF Classify
  <2>2. junit' \in (SUBSET Kinds) \cup {NoJunit}
    BY <1>1, <1>7 DEF Classify, markInfraSkipped, TypeOK
  <2> QED
    BY <1>1, <1>7, <2>1, <2>2 DEF Classify, containers, resumed, TypeOK
<1>8. CASE DockerRun
  <2>1. jobLog' \in SUBSET Kinds /\ container' \in 0..attempt
    BY <1>2a, <1>1, <1>8 DEF DockerRun, TypeOK
  <2> QED
    BY <1>1, <1>8, <2>1 DEF DockerRun, resumed, TypeOK
<1>9. CASE \E n \in strays : StrayRun(n)
  <2>1. container' \in 0..attempt /\ strays' \in SUBSET (1..attempt)
    BY <1>1, <1>2, <1>9 DEF StrayRun, TypeOK
  <2> QED
    BY <1>1, <1>9, <2>1 DEF StrayRun, files, resumed, TypeOK
<1>10. CASE ManagerReports
  BY <1>1, <1>10 DEF ManagerReports, containers, resumed, TypeOK
<1>11. CASE ManagerEnds
  <2>1. jobLog' \in SUBSET Kinds /\ container' \in 0..attempt
    BY <1>2a, <1>11 DEF ManagerEnds
  <2> QED
    BY <1>1, <1>11, <2>1 DEF ManagerEnds, resumed, TypeOK
<1>12. CASE Crash
  <2>1. strays' \in SUBSET (1..attempt)
    <3>1. CASE cli = "starting"
      <4>1. attempt > 0
        BY <1>12 DEF ExecInv, AuthorInv, Crash
      <4> QED
        BY <1>1, <1>2, <1>12, <3>1, <4>1 DEF Crash, TypeOK
    <3>2. CASE cli # "starting"
      BY <1>1, <1>12, <3>2 DEF Crash, TypeOK
    <3> QED
      BY <3>1, <3>2
  <2>2. awaited' \in 0..attempt
    BY <1>2, <1>12 DEF Crash
  <2> QED
    BY <1>1, <1>12, <2>1, <2>2 DEF Crash, files, TypeOK
<1>13. CASE Attach
  BY <1>1, <1>13 DEF Attach, containers, files, TypeOK
<1>14. CASE AttachReturns \/ AttachFails
  <2>1. awaited' \in 0..attempt /\ blind' \in SUBSET (1..attempt)
    BY <1>2a, <1>1, <1>2, <1>14 DEF AttachReturns, AttachFails, TypeOK
  <2> QED
    BY <1>1, <1>14, <2>1 DEF AttachReturns, AttachFails, containers, files, TypeOK
<1>15. CASE Orphan
  <2>1. blind' \in SUBSET (1..attempt)
    BY <1>1, <1>2, <1>15 DEF Orphan, TypeOK
  <2> QED
    BY <1>1, <1>15, <2>1 DEF Orphan, containers, files, TypeOK
<1>16. CASE UNCHANGED vars
  BY <1>1, <1>16 DEF vars, containers, files, resumed, TypeOK
<1> QED
  BY <1>3, <1>4, <1>5, <1>6, <1>7, <1>8, <1>9, <1>10, <1>11, <1>12, <1>13, <1>14, <1>15, <1>16
  DEF Next, RunStep, Finished

\* Every step keeps the command and its container together
LEMMA DockerStep ==
  ASSUME ExecInv, [Next]_vars
  PROVE  DockerInv'
<1>1. TypeOK /\ DockerInv
  BY DEF ExecInv
<1>2. /\ attempt \in Nat
      /\ attempt + 1 \notin strays
      /\ container # attempt + 1
  BY <1>1, ExecutorAssumption DEF TypeOK
<1>3. CASE RunFails
  BY <1>1, <1>3 DEF RunFails, Idle, DockerInv
<1>4. CASE RunStarts
  BY <1>1, <1>2, <1>4 DEF RunStarts, Idle, containers, DockerInv
<1>5. CASE WaitReturns \/ Reap
  BY <1>1, <1>5 DEF WaitReturns, Reap, DockerInv
<1>6. CASE ContextDone
  <2>1. attempt # 0
    BY <1>6 DEF ContextDone, ExecInv, AuthorInv
  <2> QED
    BY <1>1, <1>6, <2>1 DEF ContextDone, KillContainer, KillMisses, DockerInv
<1>7. CASE Classify
  BY <1>7 DEF Classify, DockerInv
<1>8. CASE DockerRun
  <2>1. xpc \in {"select", "reap"}
    BY <1>1, <1>8 DEF DockerRun, TypeOK, DockerInv
  <2>2. attempt # 0
    BY <2>1 DEF ExecInv, AuthorInv
  <2> QED
    BY <1>1, <1>8, <2>1, <2>2 DEF DockerRun, DockerInv
<1>9. CASE \E n \in strays : StrayRun(n)
  <2>1. PICK n \in strays : StrayRun(n)
    BY <1>9
  <2>2. xpc \in {"select", "reap"} => n # attempt /\ attempt # 0
    BY <1>1 DEF DockerInv, ExecInv, AuthorInv
  <2> QED
    BY <1>1, <2>1, <2>2 DEF StrayRun, DockerInv
<1>10. CASE ManagerReports
  BY <1>1, <1>10 DEF ManagerReports, containers, DockerInv
<1>11. CASE ManagerEnds
  <2>1. attempt # 0
    BY <1>11 DEF ManagerEnds, ExecInv, AuthorInv
  <2> QED
    BY <1>1, <1>11, <2>1 DEF ManagerEnds, DockerInv
<1>12. CASE Cancel \/ Deadline
  BY <1>1, <1>12 DEF Cancel, Deadline, containers, DockerInv
<1>13. CASE Crash
  BY <1>13 DEF Crash, DockerInv
<1>14. CASE Attach \/ AttachReturns \/ AttachFails \/ Orphan
  BY <1>1, <1>14 DEF Attach, AttachReturns, AttachFails, Orphan, DockerInv
<1>15. CASE UNCHANGED vars
  BY <1>1, <1>15 DEF vars, containers, DockerInv
<1> QED
  BY <1>3, <1>4, <1>5, <1>6, <1>7, <1>8, <1>9, <1>10, <1>11, <1>12, <1>13, <1>14, <1>15
  DEF Next, RunStep, Finished

\* Every step leaves alive only the current attempt and what was given up blindly
LEMMA LivingStep ==
  ASSUME ExecInv, [Next]_vars
  PROVE  LivingInv'
<1>1. TypeOK /\ DockerInv /\ LivingInv
  BY DEF ExecInv
<1>2. CASE RunFails \/ RunStarts
  <2>1. Living' = Living /\ blind' = blind /\ Living \subseteq blind
    BY <1>1, <1>2 DEF RunFails, RunStarts, Idle, containers, resumed, Living, LivingInv
  <2> QED
    BY <2>1 DEF LivingInv
<1>3. CASE WaitReturns \/ Reap
  <2>1. attempt \notin Living
    BY <1>1, <1>3 DEF WaitReturns, Reap, DockerInv, Living
  <2>2. Living' = Living /\ blind' = blind /\ attempt' = attempt
    BY <1>3 DEF WaitReturns, Reap, containers, resumed, Living
  <2> QED
    BY <1>1, <2>1, <2>2 DEF LivingInv
<1>4. CASE ContextDone
  <2>1. Living' \subseteq Living /\ blind' = blind /\ attempt' = attempt /\ xpc' = "reap"
    BY <1>4 DEF ContextDone, KillContainer, KillMisses, resumed, Living
  <2> QED
    BY <1>1, <2>1 DEF LivingInv
<1>5. CASE Classify
  <2>1. Living' = Living /\ blind' = blind /\ attempt' = attempt /\ Living \subseteq blind
    BY <1>1, <1>5 DEF Classify, containers, resumed, Living, LivingInv
  <2> QED
    BY <2>1 DEF LivingInv
<1>6. CASE DockerRun
  <2>1. xpc \in {"select", "reap"}
    BY <1>1, <1>6 DEF DockerRun, TypeOK, DockerInv
  <2>2. Living' \subseteq Living \cup {attempt} /\ blind' = blind /\ attempt' = attempt /\ xpc' = xpc
    BY <1>6 DEF DockerRun, resumed, Living
  <2> QED
    BY <1>1, <2>1, <2>2 DEF LivingInv
<1>7. CASE \E n \in strays : StrayRun(n)
  <2>1. Living' \subseteq Living /\ blind' = blind /\ attempt' = attempt /\ xpc' = xpc
    BY <1>7 DEF StrayRun, resumed, Living
  <2> QED
    BY <1>1, <2>1 DEF LivingInv
<1>8. CASE ManagerReports \/ ManagerEnds \/ Cancel \/ Deadline
  <2>1. Living' \subseteq Living /\ blind' = blind /\ attempt' = attempt /\ xpc' = xpc
    BY <1>8 DEF ManagerReports, ManagerEnds, Cancel, Deadline, containers, resumed, Living
  <2> QED
    BY <1>1, <2>1 DEF LivingInv
<1>9. CASE Crash
  <2>1. Living' \subseteq Living \cup {attempt} /\ blind' = blind /\ attempt' = attempt /\ xpc' = "lost"
    BY <1>9 DEF Crash, Living
  <2> QED
    BY <1>1, <2>1 DEF LivingInv
<1>10. CASE Attach
  <2>1. Living' = Living /\ blind' = blind /\ attempt' = attempt /\ xpc' = "attached"
    BY <1>10 DEF Attach, containers, Living
  <2> QED
    BY <1>1, <2>1 DEF LivingInv
<1>11. CASE AttachReturns \/ AttachFails \/ Orphan
  <2>1. Living' = Living /\ blind' = blind \cup Living
    BY <1>11 DEF AttachReturns, AttachFails, Orphan, containers, Living
  <2> QED
    BY <2>1 DEF LivingInv
<1>12. CASE UNCHANGED vars
  <2>1. Living' = Living /\ blind' = blind /\ attempt' = attempt /\ xpc' = xpc
    BY <1>12 DEF vars, containers, resumed, Living
  <2> QED
    BY <1>1, <2>1 DEF LivingInv
<1> QED
  BY <1>2, <1>3, <1>4, <1>5, <1>6, <1>7, <1>8, <1>9, <1>10, <1>11, <1>12
  DEF Next, RunStep, Finished

\* Without faults every step leaves nothing given up blindly
LEMMA SureStep ==
  ASSUME ExecInv, [Next]_vars
  PROVE  SureInv'
<1>1. TypeOK /\ DockerInv /\ LivingInv /\ SureInv
  BY DEF ExecInv
<1>2. faults' = faults
  BY DEF Next, RunStep, RunFails, RunStarts, WaitReturns, ContextDone, Reap, Classify,
         AttachReturns, DockerRun, StrayRun, ManagerReports, ManagerEnds, Cancel, Deadline,
         Crash, Attach, AttachFails, Orphan, Finished, resumed, vars
<1> SUFFICES ASSUME faults = {}
             PROVE  /\ blind' = {}
                    /\ xpc' # "lost" => strays' = {}
                    /\ strays' # {} => container' = 0
                    /\ xpc' = "attached" => awaited' = attempt'
  BY <1>2 DEF SureInv
<1>3. /\ blind = {}
      /\ xpc # "lost" => strays = {}
      /\ strays # {} => container = 0
      /\ xpc = "attached" => awaited = attempt
  BY <1>1 DEF SureInv
<1>4. Living \subseteq {attempt}
  BY <1>1, <1>3 DEF LivingInv
<1>5. CASE RunFails \/ RunStarts
  BY <1>3, <1>5 DEF RunFails, RunStarts, Idle, containers, resumed
<1>6. CASE WaitReturns \/ Reap \/ Classify
  BY <1>3, <1>6 DEF WaitReturns, Reap, Classify, containers, resumed
<1>7. CASE ContextDone
  BY <1>3, <1>7 DEF ContextDone, resumed
<1>8. CASE DockerRun
  <2>1. xpc # "lost" /\ xpc # "attached"
    BY <1>1, <1>8 DEF DockerRun, DockerInv
  <2> QED
    BY <1>3, <1>8, <2>1 DEF DockerRun, resumed
<1>9. CASE \E n \in strays : StrayRun(n)
  <2>1. PICK n \in strays : StrayRun(n)
    BY <1>9
  <2>2. xpc = "lost"
    BY <1>3, <2>1
  <2>3. strays = {attempt}
    BY <1>4, <2>1 DEF Living
  <2>4. strays' = {} /\ xpc' = "lost" /\ blind' = {}
    BY <1>3, <2>1, <2>2, <2>3 DEF StrayRun, resumed
  <2> QED
    BY <2>4
<1>10. CASE ManagerReports \/ ManagerEnds \/ Cancel \/ Deadline
  BY <1>3, <1>10 DEF ManagerReports, ManagerEnds, Cancel, Deadline, containers, resumed
<1>11. CASE Crash
  <2>1. xpc # "lost" /\ strays = {}
    BY <1>3, <1>11 DEF Crash
  <2>2. cli = "starting" => container = 0
    <3> SUFFICES ASSUME cli = "starting" PROVE container = 0
      OBVIOUS
    <3>1. xpc \in {"select", "reap"}
      BY <1>1, <1>11 DEF Crash, DockerInv
    <3>2. container # attempt
      BY <1>1, <3>1 DEF DockerInv
    <3> QED
      BY <1>4, <3>2 DEF Living
  <2> QED
    BY <1>3, <1>11, <2>1, <2>2 DEF Crash
<1>12. CASE Attach
  <2>1. strays = {}
    BY <1>3, <1>12 DEF Attach
  <2>2. container = attempt
    BY <1>4, <1>12 DEF Attach, Living
  <2> QED
    BY <1>3, <1>12, <2>1, <2>2 DEF Attach, containers
<1>13. CASE AttachReturns
  <2>1. strays = {} /\ container # attempt
    BY <1>3, <1>13 DEF AttachReturns
  <2>2. Living = {}
    BY <1>4, <2>1 DEF Living
  <2> QED
    BY <1>3, <1>13, <2>1, <2>2 DEF AttachReturns, containers
<1>14. CASE AttachFails
  BY <1>14 DEF AttachFails
<1>15. CASE Orphan
  <2>1. container = 0 /\ strays = {}
    BY <1>15 DEF Orphan
  <2>2. Living = {}
    BY <2>1 DEF Living
  <2> QED
    BY <1>3, <1>15, <2>1, <2>2 DEF Orphan, containers
<1>16. CASE UNCHANGED vars
  BY <1>3, <1>16 DEF vars, containers, resumed
<1> QED
  BY <1>5, <1>6, <1>7, <1>8, <1>9, <1>10, <1>11, <1>12, <1>13, <1>14, <1>15, <1>16
  DEF Next, RunStep, Finished

\* A report is written by an attempt, and only while its container runs
LEMMA AuthorStep ==
  ASSUME ExecInv, [Next]_vars
  PROVE  AuthorInv'
<1>1. TypeOK /\ DockerInv /\ AuthorInv
  BY DEF ExecInv
<1>2. attempt \in Nat /\ container \in Nat
  BY <1>1, ExecutorAssumption DEF TypeOK
<1>3. CASE RunFails \/ RunStarts
  BY <1>1, <1>2, <1>3 DEF RunFails, RunStarts, Idle, containers, AuthorInv
<1>4. CASE Classify
  BY <1>1, <1>4 DEF Classify, markInfraSkipped, containers, AuthorInv
<1>5. CASE ManagerReports
  BY <1>1, <1>2, <1>5 DEF ManagerReports, containers, AuthorInv
<1>6. CASE DockerRun
  <2>1. attempt > 0
    BY <1>1, <1>6 DEF DockerRun, DockerInv, AuthorInv
  <2> QED
    BY <1>1, <1>6, <2>1 DEF DockerRun, AuthorInv
<1>7. CASE \E n \in strays : StrayRun(n)
  <2>1. attempt > 0
    BY <1>1, <1>2, <1>7 DEF TypeOK
  <2> QED
    BY <1>1, <1>7, <2>1 DEF StrayRun, files, AuthorInv
<1>8. CASE Cancel \/ Deadline \/ Crash \/ Attach \/ AttachReturns \/ AttachFails \/ Orphan
  BY <1>1, <1>8 DEF Cancel, Deadline, Crash, Attach, AttachReturns, AttachFails, Orphan,
                    containers, files, AuthorInv
<1>9. CASE WaitReturns \/ Reap
  BY <1>1, <1>9 DEF WaitReturns, Reap, containers, files, AuthorInv
<1>10. CASE ContextDone \/ ManagerEnds
  BY <1>1, <1>10 DEF ContextDone, KillContainer, KillMisses, ManagerEnds, AuthorInv
<1>11. CASE UNCHANGED vars
  BY <1>1, <1>11 DEF vars, containers, files, AuthorInv
<1> QED
  BY <1>3, <1>4, <1>5, <1>6, <1>7, <1>8, <1>9, <1>10, <1>11 DEF Next, RunStep, Finished

\* Every step keeps infrastructure errors out of the reports Run returns with
LEMMA ReportStep ==
  ASSUME ExecInv, [Next]_vars
  PROVE  OnlyRealFailuresReported'
<1>1. TypeOK /\ DockerInv /\ LivingInv /\ AuthorInv /\ OnlyRealFailuresReported
  BY DEF ExecInv
<1> SUFFICES ASSUME xpc' = "idle" PROVE OnlyRealFailuresReported'
  BY DEF OnlyRealFailuresReported
<1>2. CASE RunFails
  <2>1. attempt' = 1 => verdict' \notin {"pass", "fail"}
    BY <1>2 DEF RunFails
  <2> QED
    BY <1>2, <2>1 DEF RunFails, OnlyRealFailuresReported, infraClasses
<1>3. CASE Classify
  <2>1. verdict' = classifyResult /\ attempt' = attempt /\ author' = author
    BY <1>3 DEF Classify
  <2>2. classifyResult \in infraClasses /\ ~RewriteMayFail => junit' \in {NoJunit, {}}
    BY <1>3 DEF Classify, markInfraSkipped
  <2>3. attempt = 1 /\ classifyResult \in {"pass", "fail"} => author = 1
    <3>1. classifyResult \in {"pass", "fail"} => author > 0
      BY <1>1, ClassifyType DEF AuthorInv
    <3> QED
      BY <1>1, <3>1 DEF TypeOK
  <2> QED
    BY <2>1, <2>2, <2>3 DEF OnlyRealFailuresReported, infraClasses
<1>4. CASE Orphan
  BY <1>4 DEF Orphan, OnlyRealFailuresReported, infraClasses
<1>5. CASE ManagerReports
  <2>1. xpc = "idle" /\ verdict' = verdict /\ attempt' = attempt /\ blind' = blind
    BY <1>5 DEF ManagerReports, resumed
  <2>2. blind # {}
    BY <1>1, <1>5, <2>1 DEF ManagerReports, LivingInv, Living
  <2>3. attempt = 1 => author' = 1
    BY <1>1, <1>5 DEF ManagerReports, TypeOK
  <2> QED
    BY <2>1, <2>2, <2>3 DEF OnlyRealFailuresReported
<1>6. CASE DockerRun
  BY <1>1, <1>6 DEF DockerRun, DockerInv
<1>7. CASE (\E n \in strays : StrayRun(n)) \/ ManagerEnds \/ Cancel \/ UNCHANGED vars
  <2>1. /\ xpc = "idle"
        /\ UNCHANGED <<attempt, verdict, junit, author, blind>>
    BY <1>7 DEF StrayRun, ManagerEnds, Cancel, files, resumed, vars
  <2> QED
    BY <1>1, <2>1 DEF OnlyRealFailuresReported
<1>8. CASE RunStarts \/ WaitReturns \/ ContextDone \/ Reap \/ AttachReturns \/ AttachFails
           \/ Crash \/ Attach \/ Deadline
  BY <1>8 DEF RunStarts, WaitReturns, ContextDone, Reap, AttachReturns, AttachFails, Crash,
              Attach, Deadline
<1> QED
  BY <1>2, <1>3, <1>4, <1>5, <1>6, <1>7, <1>8 DEF Next, RunStep, Finished

-----------------------------------------------------------------------------
(* Theorems *)

\* What Run, docker and the artifacts agree on holds in every reachable state
THEOREM ExecInvariant == Spec => []ExecInv
<1>1. ExecInv /\ [Next]_vars => ExecInv'
  BY TypeStep, DockerStep, LivingStep, SureStep, AuthorStep, ReportStep DEF ExecInv
<1> QED
  BY <1>1, ExecInit, PTL DEF Spec

\* Whenever Run has returned, for any number of attempts and with docker kill failing or
\* docker run slow, its container is gone and no docker run is left that could still
\* create it (Run's wait after docker kill); what outlives its attempt was given up by a
\* resume, and only when docker failed it or docker run was not done
THEOREM ReturnsWithoutContainer == Spec => []NoContainerLeft
<1>1. ExecInv => NoContainerLeft
  BY DEF ExecInv, LivingInv, SureInv, NoContainerLeft
<1> QED
  BY <1>1, ExecInvariant, PTL

\* An infra classification leaves no failure in junit.xml, and the verdict of a first
\* attempt comes from its own report (classifyResult, markInfraSkipped)
THEOREM ReportsAreReal == Spec => []OnlyRealFailuresReported
<1>1. ExecInv => OnlyRealFailuresReported
  BY DEF ExecInv
<1> QED
  BY <1>1, ExecInvariant, PTL
=============================================================================
