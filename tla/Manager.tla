------------------------------- MODULE Manager -------------------------------
(***************************************************************************)
(* The test manager (cmd/manager): it reads its flags, makes a workflow    *)
(* for every package and image, spread over the zones, prints, validates   *)
(* or runs them (module TestRunner), writes the report and exits.          *)
(*                                                                         *)
(* The flags are a record; a regular expression is the set of packages it  *)
(* matches.  An image is a record of its name, whether it is a path, and   *)
(* the positions in imageKeys of the prefixes it matches.                  *)
(***************************************************************************)
EXTENDS TestRunner, SequencesExt

CONSTANTS
  testPackages,      \* sequence of the names
  Flags,             \* the command lines
  Arch,              \* the architecture of each image, by name
  getTestSuiteName   \* the title of a workflow, by package and image

None == "none"
Running == -1
NoReport == [suites |-> {}, failed |-> {}, whole |-> FALSE]   \* no file, or an empty one

\* No package is listed twice, and what the flags list are lists
ASSUME ManagerAssumption ==
  /\ testPackages \in Seq(ToSet(testPackages))
  /\ \A i, k \in DOMAIN testPackages : testPackages[i] = testPackages[k] => i = k
  /\ \A f \in Flags :
       /\ f.zones \in Seq(ToSet(f.zones))
       /\ f.images \in Seq(ToSet(f.images))
       /\ f.families \in Seq(ToSet(f.families))

VARIABLES
  stage,    \* "flags", "setup", "built", "run", "report", "exited"
  flags,
  todo,     \* pairs of package and image for which no workflow exists yet
  zonesRoundRobinIdx,
  built,    \* the workflows: package, image, zones
  junit,    \* the report: its workflows, those with a failed test, whether it is complete
  exit      \* exit status

managerVars == <<stage, flags, todo, zonesRoundRobinIdx, built, junit, exit>>
setupVars == <<flags, todo, zonesRoundRobinIdx, built>>
allVars == <<vars, managerVars>>

ManagerInit ==
  /\ Init
  /\ stage = "flags"
  /\ flags \in Flags
  /\ todo = <<>>
  /\ zonesRoundRobinIdx = -1
  /\ built = <<>>
  /\ junit = NoReport
  /\ exit = Running

\* return from main, and log.Fatal
Leave(status) == stage' = "exited" /\ exit' = status
Fatal == Leave(1) /\ UNCHANGED <<vars, setupVars, junit>>

-----------------------------------------------------------------------------
(* Flags and images *)

ValidFlags(f) ==
  /\ f.project # None
  /\ f.zone # None \/ f.zones # <<>>
  /\ (f.images = <<>>) # (f.families = <<>>)
  /\ f.arch \in {None, "x86", "arm64"}

\* The project of the first key that matches decides; a path is taken as it is
KnownImage(img) == img.path \/ img.keys # {}

\* A loop that appends the elements at positions K to another list
Kept(list, K) == FlattenSeq([i \in DOMAIN list |-> IF i \in K THEN <<list[i]>> ELSE <<>>])

\* -all_image_families: each family that has an image that is not deprecated, once
FamilyImages(list) ==
  LET live == {i \in DOMAIN list : list[i].family # None /\ ~list[i].deprecated}
      once == Kept(list, {i \in live : \A k \in live : k < i => list[k].family # list[i].family})
  IN  [i \in DOMAIN once |-> [name |-> once[i].family, path |-> TRUE, keys |-> {}]]

filterByArchitecture(list, arch) ==
  Kept(list, {i \in DOMAIN list : list[i].name # None /\ Arch[list[i].name] = arch})

Listed(f) == IF f.families # <<>> THEN FamilyImages(f.families) ELSE f.images
ImagesOf(f) == IF f.arch = None THEN Listed(f) ELSE filterByArchitecture(Listed(f), f.arch)

\* fault: -filter wins over -exclude
Selected_FilterWins(f, p) == p \in f.filter \/ p \notin f.exclude

Selected(f, p) == p \in f.filter /\ p \notin f.exclude

\* The loop over packages and images; an empty image is skipped
SelectedPackages(f) == Kept(testPackages, {p \in DOMAIN testPackages : Selected(f, testPackages[p])})
UsedImages(f) == Kept(ImagesOf(f), {i \in DOMAIN ImagesOf(f) : ImagesOf(f)[i].name # None})
PairsOf(f) ==
  LET packages == SelectedPackages(f)
      images == UsedImages(f)
  IN  FlattenSeq([p \in DOMAIN packages |-> [i \in DOMAIN images |-> <<packages[p], images[i]>>]])

\* main, up to the loop: the listing of images and the clients may fail, and so may an
\* image that is looked up for its architecture
ParseFlags ==
  /\ stage = "flags"
  /\ \/ Fatal
     \/ /\ ValidFlags(flags)
        /\ flags.arch = None
             \/ \A i \in DOMAIN Listed(flags) : Listed(flags)[i].name = None \/ KnownImage(Listed(flags)[i])
        /\ todo' = PairsOf(flags)
        /\ stage' = "setup"
        /\ UNCHANGED <<vars, flags, zonesRoundRobinIdx, built, junit, exit>>

\* fault: the index wraps one too late
NextIdx_Late(f) ==
  IF zonesRoundRobinIdx + 1 > Len(f.zones) THEN 0 ELSE zonesRoundRobinIdx + 1

NextIdx(f) ==
  IF zonesRoundRobinIdx + 1 >= Len(f.zones) THEN 0 ELSE zonesRoundRobinIdx + 1

\* The list of zones from the index on, and around
rotatedZones(f, idx) ==
  IF f.zones = <<>> THEN <<f.zone>>
  ELSE [i \in DOMAIN f.zones |-> f.zones[((idx + i - 1) % Len(f.zones)) + 1]]

\* formatImageName, NewTestWorkflow and the SetupFunc of one package and image; each may
\* fail, which is fatal
NewTestWorkflow ==
  /\ stage = "setup"
  /\ todo # <<>>
  /\ \/ Fatal
     \/ /\ KnownImage(Head(todo)[2])
        /\ zonesRoundRobinIdx' = IF flags.zones = <<>> THEN zonesRoundRobinIdx ELSE NextIdx(flags)
        /\ built' = Append(built, [name |-> Head(todo)[1], image |-> Head(todo)[2].name,
                                   zones |-> rotatedZones(flags, zonesRoundRobinIdx')])
        /\ todo' = Tail(todo)
        /\ UNCHANGED <<vars, stage, flags, junit, exit>>

\* No workflow at all is fatal, and so is a storage client that cannot be had
SetupDone ==
  /\ stage = "setup"
  /\ todo = <<>>
  /\ \/ Fatal
     \/ built # <<>> /\ stage' = "built" /\ UNCHANGED <<vars, setupVars, junit, exit>>

-----------------------------------------------------------------------------
(* What is done with the workflows *)

\* Errors on the way are logged
PrintTests ==
  /\ stage = "built"
  /\ flags.mode = "print"
  /\ Leave(0)
  /\ UNCHANGED <<vars, setupVars, junit>>

\* The first error ends the validation, and is logged: the status is 0 either way
ValidateTests ==
  /\ stage = "built"
  /\ flags.mode = "validate"
  /\ Leave(0)
  /\ UNCHANGED <<vars, setupVars, junit>>

\* RunTests begins, or fails to find its bucket or to read parallel_stagger
BeginRun ==
  /\ stage = "built"
  /\ flags.mode = "run"
  /\ \/ Fatal
     \/ /\ [i \in DOMAIN built |-> getTestSuiteName[built[i].name][built[i].image]] = testWorkflows
        /\ stage' = "run"
        /\ UNCHANGED <<vars, setupVars, junit, exit>>

\* fault: results are parsed while workers are still at work
RunTests_NoWait ==
  /\ stage = "run"
  /\ (Next /\ UNCHANGED managerVars) \/ Fatal

\* A step of RunTests; parseResult may not find the list of tests of a suite, which is fatal
RunTests ==
  /\ stage = "run"
  /\ \/ Next /\ UNCHANGED managerVars
     \/ (\A w \in Workers : wpc[w] = "exited") /\ Fatal

\* RunTests returns, and the artifacts are downloaded, all at once; errors are logged
Download ==
  /\ stage = "run"
  /\ mpc = "done"
  /\ stage' = "report"
  /\ UNCHANGED <<vars, setupVars, junit, exit>>

\* fault: a workflow without results has no failed test
FailedSuites_Results(tests) == tests

\* Workflows with a failed test: the given ones, and each that ended with an error, all
\* tests of which are failures (every package lists at least one)
FailedSuites(tests) ==
  tests \cup {suites[i].test : i \in {k \in DOMAIN suites : suites[k].result \in Errors}}

\* The report as far as the first n workflows; only all of them make it complete, and an
\* error of outFile.Write may come even then
Written(n, tests) ==
  LET part == {suites[i].test : i \in 1..n}
  IN  {[suites |-> part, failed |-> FailedSuites(tests) \cap part, whole |-> all] :
         all \in {FALSE, n = Len(suites)}}

\* The file of the report may not be created, which is fatal.  An error while it is written
\* is not looked at: a beginning of it is left.  What it should have said decides the exit
\* status; which of the workflows that succeeded have failed tests is up to their results.
Report ==
  /\ stage = "report"
  /\ \/ Fatal
     \/ \E tests \in SUBSET {suites[i].test : i \in {k \in DOMAIN suites : suites[k].result = "success"}} :
          /\ \E n \in 0..Len(suites) : junit' \in Written(n, tests)
          /\ Leave(IF flags.setExitStatus /\ FailedSuites(tests) # {} THEN 1 ELSE 0)
          /\ UNCHANGED <<vars, setupVars>>

Exited == stage = "exited" /\ UNCHANGED allVars

ManagerStep ==
  ParseFlags \/ NewTestWorkflow \/ SetupDone \/ PrintTests \/ ValidateTests \/ BeginRun \/ Download \/ Report

ManagerNext == ManagerStep \/ RunTests \/ Exited

\* Goroutines run, daisy and the cloud API answer.  A worker that waits on
\* exclusiveProjects is in the channel's queue and is served in its turn; as every
\* worker holds at most one project, weak fairness of each is enough.
ManagerSpec ==
  /\ ManagerInit /\ [][ManagerNext]_allVars
  /\ WF_allVars(ManagerStep)
  /\ WF_allVars(stage = "run" /\ (Feed \/ Collect) /\ UNCHANGED managerVars)
  /\ \A w \in Workers : WF_allVars(stage = "run" /\ WorkerStep(w) /\ UNCHANGED managerVars)

-----------------------------------------------------------------------------
(* Properties *)

\* The workflows share the zones evenly, each may retry in every zone once, and each
\* selected package runs on each image (rotatedZones: "distribute tests across the list of
\* zones in a round robin fashion")
ZonesSpread ==
  LET zs == {flags.zones[i] : i \in DOMAIN flags.zones}
      firsts(z) == Cardinality({i \in DOMAIN built : built[i].zones[1] = z})
  IN  flags.zones # <<>> =>
        /\ \A z, y \in zs : firsts(z) <= firsts(y) + 1
        /\ \A i \in DOMAIN built : {built[i].zones[k] : k \in DOMAIN built[i].zones} = zs

\* Filters only take away: a workflow belongs to a package that -filter names and -exclude
\* does not, on an image of the architecture asked for; main runs none or all of them, and
\* spreads them over the zones
Chosen ==
  /\ ZonesSpread
  /\ \A i \in DOMAIN built :
       /\ built[i].name \in flags.filter /\ built[i].name \notin flags.exclude
       /\ flags.arch \in {None, Arch[built[i].image]}
  /\ stage = "built" =>
       Len(built) = Cardinality({built[i].name : i \in DOMAIN built})
                      * Cardinality({built[i].image : i \in DOMAIN built})

\* However the manager ends, also by log.Fatal, it leaves no resource behind that no
\* cleanup has looked for, and no worker at work
ExitsClean ==
  exit # Running =>
    /\ vms \cup other = {}
    /\ \A w \in Workers : wpc[w] \in {"recv", "exited"}

\* After a run with status 0 every workflow is in the report, if that was written completely
\* (main does not notice when it was not); when the status is asked for, none of them failed,
\* in whatever zone and by whatever error, and the file shows no failure, complete or not.
\* A complete report of failures means status 1; and whatever the status, nothing is left
\* behind
ExitTellsTheTruth ==
  /\ ExitsClean
  /\ (exit = 0 /\ flags.mode = "run") =>
       /\ junit.whole => junit.suites = Tests
       /\ flags.setExitStatus =>
            junit.failed = {} /\ \A t \in Tests : res[t] \in {"success", "skipped"}
  /\ (exit # Running /\ junit.whole /\ flags.setExitStatus) => (exit = 1) = (junit.failed # {})

\* The manager ends: no worker waits for a project that nobody gives back
ManagerEnds == <>(exit # Running)
=============================================================================
