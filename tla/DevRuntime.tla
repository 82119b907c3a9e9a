----------------------------- MODULE DevRuntime -----------------------------
(***************************************************************************)
(* The supervisor of the development runtime: Run of pkg/devruntime/       *)
(* runner.go, the recorder of report.go and the process groups of          *)
(* process_signal_unix.go.                                                 *)
(*                                                                         *)
(* The supervisor starts the commands of a plan one by one, waits for the  *)
(* readiness endpoints, watches for the first command to exit and stops    *)
(* everything in reverse.  A command has a leader, which the supervisor    *)
(* started, and may have helpers, children in its process group that hold  *)
(* its output open: the goroutine that waits for the command returns when  *)
(* all of them are gone.                                                   *)
(***************************************************************************)
EXTENDS DevPlan

CONSTANTS
    Manifests,      \* the manifests that are planned ...
    Supervised,     \* ... and those of them that are run as well
    Targets,        \* sets of targets
    MaxFaults       \* bound on failing writes

ASSUME DevAssumption ==
    /\ \A m \in Manifests : DOMAIN m \subseteq Processes /\ \A p \in DOMAIN m : m[p] \in Entry
    /\ Supervised \subseteq Manifests
    /\ Targets \subseteq SUBSET Processes
    /\ MaxFaults \in Nat

VARIABLES
    manifest, targets,
    plan,
    pc,             \* where Run is
    handles,        \* how many commands were started, first ones of the plan
    leader,         \* [Processes -> {"none", "alive", "dead"}]
    helper,         \* [Processes -> {"none", "alive"}]: its helpers
    exited,         \* commands whose Wait returned ...
    sent,           \* ... and those whose goroutine has told Run so
    exits,          \* the channel of exits that Run has not looked at
    heard,          \* the exit Run has taken from it and not acted upon yet
    report,         \* [run, process]: what the recorder holds in memory ...
    saved,          \* ... and what it wrote last
    trigger,        \* whether Run has an error of its own
    shutdownErr,    \* whether shutdownProcesses has one
    cancelled,      \* whether Run's context is done
    at,             \* the handle that is being stopped
    late,           \* whether the shutdown budget is spent
    told, killed,   \* commands that were sent a signal, and a kill
    wasReady,       \* history: commands whose endpoint answered
    faults

commands == <<leader, helper, exited, sent>>
channel == <<exits, heard>>
record == <<report, saved, faults>>
verdict == <<trigger, shutdownErr>>
stops == <<at, told, killed>>
fixed == <<manifest, targets, plan>>
vars == <<fixed, pc, handles, commands, channel, record, verdict, cancelled,
          stops, late, wasReady>>

ProcessStates == {"pending", "starting", "running", "ready", "stopping",
                  "stopped", "failed"}
Reports == [run : {"none", "starting", "running", "stopping", "stopped", "failed"},
            process : [Processes -> ProcessStates]]

TypeOK ==
    /\ DOMAIN manifest \subseteq Processes /\ targets \subseteq Processes
    /\ plan \in Seq(Processes) \cup {Refused}
    /\ pc \in {"plan", "begin", "next", "spawn", "await", "running", "exit",
               "unready", "stopping", "stop", "signalled", "killed", "done"}
    /\ handles \in 0..Len(plan)
    /\ leader \in [Processes -> {"none", "alive", "dead"}]
    /\ helper \in [Processes -> {"none", "alive"}]
    /\ exited \subseteq Processes /\ sent \subseteq exited
    /\ exits \in Seq(Processes) /\ heard \subseteq Processes
    /\ report \in Reports /\ saved \in Reports
    /\ {trigger, shutdownErr, cancelled, late} \subseteq BOOLEAN
    /\ at \in 0..Len(plan)
    /\ told \subseteq Processes /\ killed \subseteq told /\ wasReady \subseteq Processes
    /\ faults \in 0..MaxFaults

NoReport == [run |-> "none", process |-> [p \in Processes |-> "pending"]]

Init ==
    /\ manifest \in Manifests /\ targets \in Targets
    /\ plan = << >>
    /\ pc = "plan"
    /\ handles = 0
    /\ leader = [p \in Processes |-> "none"]
    /\ helper = [p \in Processes |-> "none"]
    /\ exited = {} /\ sent = {} /\ exits = << >> /\ heard = {}
    /\ report = NoReport /\ saved = NoReport
    /\ trigger = FALSE /\ shutdownErr = FALSE /\ cancelled = FALSE
    /\ at = 0 /\ late = FALSE
    /\ told = {} /\ killed = {} /\ wasReady = {}
    /\ faults = 0

---------------------------------------------------------------------------
(* The recorder *)

\* persist() writes the report and then the graph, each through a temporary
\* file.  When that fails the report is new or old, never half of it.
Persist(new, ok) ==
    /\ report' = new
    /\ IF ok
       THEN saved' = new /\ UNCHANGED faults
       ELSE /\ faults < MaxFaults
            /\ faults' = faults + 1
            /\ saved' \in {saved, new}

\* The recorder's transition and setState: the memory changes in any case.
Transition(p, state, ok) == Persist([report EXCEPT !.process[p] = state], ok)
SetState(run, ok) == Persist([report EXCEPT !.run = run], ok)

---------------------------------------------------------------------------
(* Starting *)

PlanProcesses ==
    /\ pc = "plan"
    /\ plan' = BuildPlan(manifest, targets)
    /\ pc' = IF plan' = Refused \/ manifest \notin Supervised THEN "done" ELSE "begin"
    /\ UNCHANGED <<manifest, targets, handles, commands, channel, record, verdict,
                   cancelled, stops, late, wasReady>>

\* Without a report to write to, Run returns before it starts anything.
Begin ==
    /\ pc = "begin"
    /\ \/ /\ cancelled
          /\ pc' = "done"
          /\ UNCHANGED <<record, trigger>>
       \/ /\ ~cancelled
          /\ \E ok \in BOOLEAN :
                /\ SetState("starting", ok)
                /\ trigger' = ~ok
                /\ pc' = IF ok THEN "next" ELSE "done"
    /\ UNCHANGED <<fixed, handles, commands, channel, shutdownErr, cancelled, stops,
                   late, wasReady>>

\* Run goes on, or stops with an error of its own.
Proceeds(ok, next) ==
    /\ trigger' = (trigger \/ ~ok)
    /\ pc' = IF ok THEN next ELSE "stopping"

\* Run takes an exit from the channel; the report does not know of it yet.
TakesExit(next) ==
    /\ exits # << >>
    /\ exits' = Tail(exits)
    /\ heard' = {Head(exits)}
    /\ pc' = next
    /\ UNCHANGED <<record, trigger>>

\* Mutant: the exit is not recorded.
ActsOnExit_Unrecorded ==
    /\ pc \in {"exit", "unready"}
    /\ heard' = {}
    /\ pc' = "stopping"
    /\ trigger' = (trigger \/ pc = "exit" \/ ~cancelled)
    /\ UNCHANGED record
    /\ UNCHANGED <<fixed, handles, commands, exits, shutdownErr, cancelled, stops,
                   late, wasReady>>

\* It fails with that exit and records it, unless it was waiting for an
\* endpoint and finds its context done by now.
ActsOnExit ==
    /\ pc \in {"exit", "unready"}
    /\ heard' = {}
    /\ pc' = "stopping"
    /\ \/ /\ pc = "unready" /\ cancelled
          /\ UNCHANGED <<record, trigger>>
       \/ /\ pc = "unready" => ~cancelled
          /\ \E p \in heard, ok \in BOOLEAN : Transition(p, "failed", ok)
          /\ trigger' = TRUE
    /\ UNCHANGED <<fixed, handles, commands, exits, shutdownErr, cancelled, stops,
                   late, wasReady>>

Following == plan[handles + 1]

\* The head of the loop: an exit, the context, a working directory that is
\* gone, or the next command.
NextCommand ==
    /\ pc = "next" /\ handles < Len(plan)
    /\ \/ TakesExit("exit")
       \/ /\ exits = << >>
          /\ cancelled
          /\ pc' = "stopping"
          /\ UNCHANGED <<channel, record, trigger>>
       \/ /\ exits = << >>
          /\ ~cancelled
          /\ Proceeds(FALSE, "spawn")
          /\ UNCHANGED <<channel, record>>
       \/ /\ exits = << >>
          /\ ~cancelled
          /\ \E ok \in BOOLEAN : /\ Transition(Following, "starting", ok)
                                 /\ Proceeds(ok, "spawn")
          /\ UNCHANGED channel
    /\ UNCHANGED <<fixed, handles, commands, shutdownErr, cancelled, stops, late, wasReady>>

Spawn ==
    /\ pc = "spawn"
    /\ leader' = [leader EXCEPT ![Following] = "alive"]
    /\ handles' = handles + 1
    /\ \E ok \in BOOLEAN :
        /\ Transition(Following, "running", ok)
        /\ Proceeds(ok, IF manifest[Following].readiness THEN "await" ELSE "next")
    /\ UNCHANGED <<fixed, helper, exited, sent, channel, shutdownErr, cancelled, stops, late, wasReady>>

SpawnFails ==
    /\ pc = "spawn"
    /\ \E ok \in BOOLEAN : Transition(Following, "failed", ok)
    /\ Proceeds(FALSE, "next")
    /\ UNCHANGED <<fixed, handles, commands, channel, shutdownErr, cancelled, stops, late, wasReady>>

\* Mutant: the loop goes on while the endpoint has not answered.
AwaitReady_NoBarrier ==
    /\ pc = "await"
    /\ pc' = "next"
    /\ UNCHANGED <<fixed, handles, commands, channel, record, verdict, cancelled,
                   stops, late, wasReady>>

\* The readiness endpoint is an address: whoever listens there answers.
AwaitReady ==
    /\ pc = "await"
    /\ wasReady' = wasReady \cup {plan[handles]}
    /\ \E ok \in BOOLEAN : /\ Transition(plan[handles], "ready", ok)
                           /\ Proceeds(ok, "next")
    /\ UNCHANGED <<fixed, handles, commands, channel, shutdownErr, cancelled, stops, late>>

\* An exit, of whichever command; the timeout; or the context.
AwaitFails ==
    /\ pc = "await"
    /\ \/ TakesExit("unready")
       \/ /\ ~cancelled
          /\ \E ok \in BOOLEAN : Transition(plan[handles], "failed", ok)
          /\ Proceeds(FALSE, "next")
          /\ UNCHANGED channel
       \/ /\ cancelled
          /\ pc' = "stopping"
          /\ UNCHANGED <<channel, record, trigger>>
    /\ UNCHANGED <<fixed, handles, commands, shutdownErr, cancelled, stops, late, wasReady>>

\* Everything is started.
AllStarted ==
    /\ pc = "next" /\ handles = Len(plan)
    /\ \/ /\ cancelled
          /\ pc' = "stopping"
          /\ UNCHANGED <<record, trigger>>
       \/ /\ ~cancelled
          /\ \E ok \in BOOLEAN : SetState("running", ok) /\ Proceeds(ok, "running")
    /\ UNCHANGED <<fixed, handles, commands, channel, shutdownErr, cancelled, stops, late, wasReady>>

\* Mutant: only the context ends the run.
Watch_ContextOnly ==
    /\ pc = "running"
    /\ cancelled
    /\ pc' = "stopping"
    /\ UNCHANGED <<fixed, handles, commands, channel, record, verdict, cancelled,
                   stops, late, wasReady>>

\* Everything runs until the context is done or a command exits.
Watch ==
    /\ pc = "running"
    /\ \/ TakesExit("exit")
       \/ /\ cancelled
          /\ pc' = "stopping"
          /\ UNCHANGED <<channel, record, trigger>>
    /\ UNCHANGED <<fixed, handles, commands, shutdownErr, cancelled, stops, late, wasReady>>

---------------------------------------------------------------------------
(* Stopping *)

\* The commands are visited last one first, within one budget of time.
StopBegins ==
    /\ pc = "stopping"
    /\ \E ok \in BOOLEAN : SetState("stopping", ok)
    /\ at' = handles
    /\ pc' = "stop"
    /\ late' = FALSE
    /\ UNCHANGED <<fixed, handles, commands, channel, verdict, cancelled, told, killed, wasReady>>

\* A command that failed stays so in the report, others move on to `state';
\* a failing write, or whatever else erred, is an error of the shutdown.
Marks(p, state, err) ==
    IF report.process[p] = "failed"
    THEN /\ shutdownErr' = (shutdownErr \/ err)
         /\ UNCHANGED record
    ELSE \E ok \in BOOLEAN : /\ Transition(p, state, ok)
                             /\ shutdownErr' = (shutdownErr \/ err \/ ~ok)

\* It is gone, or it is told to go.  A leader that was waited for is no longer
\* there to tell the process group by, and nobody is told; other signals may
\* err.
Stop ==
    /\ pc = "stop" /\ at # 0
    /\ LET p == plan[at] IN
        \/ /\ p \in exited
           /\ Marks(p, "stopped", FALSE)
           /\ at' = at - 1
           /\ UNCHANGED <<pc, told>>
        \/ /\ p \notin exited
           /\ \E err \in BOOLEAN : Marks(p, "stopping", err)
           /\ told' = told \cup {p}
           /\ pc' = "signalled"
           /\ UNCHANGED at
    /\ UNCHANGED <<fixed, handles, commands, channel, trigger, cancelled, killed, late, wasReady>>

\* It went within the budget ...
StopEnds ==
    /\ pc \in {"signalled", "killed"}
    /\ plan[at] \in exited
    /\ Marks(plan[at], "stopped", FALSE)
    /\ at' = at - 1
    /\ pc' = "stop"
    /\ UNCHANGED <<fixed, handles, commands, channel, trigger, cancelled, told, killed, late, wasReady>>

\* ... or is killed, with its helpers if its leader is still there, unless
\* that errs ...
Kill ==
    /\ pc = "signalled" /\ late
    /\ plan[at] \notin exited
    /\ killed' = killed \cup {plan[at]}
    /\ \E err \in BOOLEAN : shutdownErr' = (shutdownErr \/ err)
    /\ pc' = "killed"
    /\ UNCHANGED <<fixed, handles, commands, channel, record, trigger, cancelled,
                   at, told, late, wasReady>>

\* Mutant: a command that survives is not an error.
KillFails_Silent ==
    /\ pc = "killed"
    /\ plan[at] \notin exited
    /\ Marks(plan[at], "stopped", FALSE)
    /\ at' = at - 1
    /\ pc' = "stop"
    /\ UNCHANGED <<fixed, handles, commands, channel, trigger, cancelled, told, killed,
                   late, wasReady>>

\* ... or not even then.
KillFails ==
    /\ pc = "killed"
    /\ plan[at] \notin exited
    /\ Marks(plan[at], "stopped", TRUE)
    /\ at' = at - 1
    /\ pc' = "stop"
    /\ UNCHANGED <<fixed, handles, commands, channel, trigger, cancelled, told, killed,
                   late, wasReady>>

StopsDone ==
    /\ pc = "stop" /\ at = 0
    /\ \E ok \in BOOLEAN :
        SetState(IF trigger \/ shutdownErr THEN "failed" ELSE "stopped", ok)
    /\ pc' = "done"
    /\ UNCHANGED <<fixed, handles, commands, channel, verdict, cancelled, stops, late, wasReady>>

---------------------------------------------------------------------------
(* The commands, and time *)

LeaderExits(p) ==
    /\ leader[p] = "alive"
    /\ leader' = [leader EXCEPT ![p] = "dead"]
    /\ UNCHANGED <<helper, exited, sent, exits>>

HelperStarts(p) ==
    /\ leader[p] = "alive" /\ helper[p] = "none"
    /\ helper' = [helper EXCEPT ![p] = "alive"]
    /\ UNCHANGED <<leader, exited, sent, exits>>

HelperExits(p) ==
    /\ helper[p] = "alive"
    /\ helper' = [helper EXCEPT ![p] = "none"]
    /\ UNCHANGED <<leader, exited, sent, exits>>

\* The goroutine of the command: its Wait returned and it closes the handle's
\* channel, ...
WaitReturns(p) ==
    /\ leader[p] = "dead" /\ helper[p] = "none" /\ p \notin exited
    /\ exited' = exited \cup {p}
    /\ UNCHANGED <<leader, helper, sent, exits>>

\* ... and then it sends the exit, for which there is always room.
SendsExit(p) ==
    /\ p \in exited \ sent
    /\ sent' = sent \cup {p}
    /\ exits' = Append(exits, p)
    /\ UNCHANGED <<leader, helper, exited>>

CommandStep ==
    /\ \E p \in Processes :
        \/ LeaderExits(p) \/ HelperStarts(p) \/ HelperExits(p)
        \/ WaitReturns(p) \/ SendsExit(p)
    /\ UNCHANGED <<fixed, pc, handles, heard, record, verdict, cancelled, stops, late,
                   wasReady>>

Cancel ==
    /\ ~cancelled /\ pc \notin {"plan", "done"}
    /\ cancelled' = TRUE
    /\ UNCHANGED <<fixed, pc, handles, commands, channel, record, verdict, stops, late, wasReady>>

BudgetSpent ==
    /\ pc \in {"stop", "signalled"} /\ ~late
    /\ late' = TRUE
    /\ UNCHANGED <<fixed, pc, handles, commands, channel, record, verdict, cancelled,
                   stops, wasReady>>

RunStep ==
    \/ PlanProcesses \/ Begin
    \/ NextCommand \/ Spawn \/ SpawnFails \/ AwaitReady \/ AwaitFails
    \/ AllStarted \/ Watch \/ ActsOnExit
    \/ StopBegins \/ Stop \/ StopEnds \/ Kill \/ KillFails \/ StopsDone

Next == RunStep \/ CommandStep \/ Cancel \/ BudgetSpent

Spec == Init /\ [][Next]_vars

\* Run runs, its timers go off, and the goroutines that wait for commands do;
\* nothing makes a command exit, or the user stop the run.
FairSpec ==
    /\ Spec
    /\ WF_vars(RunStep)
    /\ WF_vars(BudgetSpent)
    /\ \A p \in Processes : WF_vars(CommandStep /\ (WaitReturns(p) \/ SendsExit(p)))

---------------------------------------------------------------------------
(* Properties *)

\* BuildPlanWithOptions refuses exactly the manifests that are not valid, the
\* targets that are not listed and those that need a cycle; otherwise the plan
\* holds what the targets need, nothing else and nothing twice, dependencies
\* first.  (The plan stays as it is once Run has begun.)
PlanClosesTargets ==
    (pc # "plan" /\ report.run = "none") => IsPlanOf(plan, manifest, targets)

\* A command is started after everything it depends on was, and after the
\* endpoints of those that have one answered; it is told to stop after every
\* command that depends on it is gone or was killed.
DependencyOrder ==
    [][\A p \in Processes :
        /\ leader[p] = "none" /\ leader'[p] = "alive" =>
            \A d \in manifest[p].dependsOn :
                leader[d] # "none" /\ (manifest[d].readiness => d \in wasReady)
        /\ p \in told' \ told =>
            \A q \in Range(plan) :
                p \in manifest[q].dependsOn /\ leader[q] # "none" => q \in exited \cup killed]_vars

\* When Run has returned without an error, every command it started is gone,
\* leader and helpers, and none had failed; and the last report says stopped
\* of a run that was stopped, failed of any other, and of no command that it
\* is still at work.
NothingOutlivesRun ==
    (pc = "done" /\ report.run # "none") =>
        /\ report.run = "starting" => handles = 0 /\ trigger
        /\ report.run = "stopped" =>
            \A p \in Processes : /\ leader[p] # "alive" /\ helper[p] = "none"
                                 /\ report.process[p] \in {"pending", "stopped"}
        /\ \A p \in Processes : report.process[p] \notin {"running", "ready", "stopping"}
        /\ \A p \in Processes : report.process[p] = "failed" => report.run = "failed"

\* What ValidateRuntimeClosure asks of the report on disk.
ClosureComplete ==
    /\ saved.run = "running"
    /\ \A p \in Range(plan) :
        saved.process[p] \in (IF manifest[p].readiness THEN {"ready"} ELSE {"running", "ready"})

\* While all writes succeed, a report on disk that passes for a complete
\* closure tells of commands that were all started and answered and of which
\* none was told to stop.  Those that are gone nevertheless are gone unheard:
\* their exit is on its way to Run, but for one that Run has just taken and
\* whose record it is about to write.
ClosureIsUp ==
    (ClosureComplete /\ faults = 0) =>
        /\ told = {}
        /\ \A p \in Range(plan) : /\ leader[p] # "none"
                                  /\ manifest[p].readiness => p \in wasReady
                                  /\ p \in sent => p \in Range(exits) \cup heard

\* Run returns once it is cancelled, has an error or one of its commands is
\* gone, even when the others ignore signals and survive being killed.
RunReturns == (cancelled \/ trigger \/ exited # {}) /\ pc # "done" ~> pc = "done"
=============================================================================
