------------------------------- MODULE CommandRun -------------------------------
(***************************************************************************)
(* One invocation of the CLI, from its plugins and the list of tools that  *)
(* its commands are built of to its exit code: executeWithFactory,         *)
(* App.ExecuteWithIO, the command pipeline, and the executor that the      *)
(* command's tags select: a batch, an attachment's transfer, or a tool     *)
(* call that may be paginated.  Each is a module of its own; here they run *)
(* as stages of the command, and what they end with is printed, or told as *)
(* an error.                                                               *)
(***************************************************************************)
EXTENDS PluginInstall, Catalog, Batch, Pagination, Upload, Download

CONSTANTS Stocked,     \* the lists that a command other than a local one starts with
          Me           \* this process, among the ones that download

ASSUME CommandAssumption ==
    Stocked \subseteq Listings /\ Me \in Downloads /\ Commands # {} /\ Inputs # {}

Kinds == {"local", "batch", "tool", "upload", "download"}

\* What an error is to the code that tells it: a MeegleError for the client or the
\* server, a CLIError, an error of another type, one that wraps a cancellation, or a
\* way to leave with a code of its own.
Errors == {"client", "server", "cli", "plain", "canceled", "status", "success", "panic"}

VARIABLES
    kind,          \* the command
    stage,
    err, rendered, \* the error, if any, and whether it is marked as rendered
    told,          \* how often an error has been put on stderr
    printed,       \* the result has been put on stdout
    code           \* the exit code

runVars == <<stage, err, rendered, told, printed, code>>
factoryVars == <<pluginVars, catalogVars>>
commandVars == <<kind, runVars, factoryVars, batchVars, vars, uploadVars, downloadVars>>

\* An executor that is not selected stays at one of its initial states.  The plugins
\* and the listing have nothing to do with each other: only one of them is varied.
CommandInit ==
    /\ kind \in Kinds
    /\ stage = "factory" /\ err = "none" /\ rendered = FALSE /\ told = 0
    /\ printed = FALSE /\ code = 0
    /\ plugins \in (IF kind = "local" THEN Given ELSE {<<>>}) /\ PluginInit
    /\ listing \in (IF plugins # <<>> THEN {<<>>}
                   ELSE IF kind = "local" THEN Listings ELSE Stocked) /\ CatalogInit
    /\ raw \in (IF kind = "batch" THEN Inputs ELSE {CHOOSE i \in Inputs : TRUE}) /\ BatchInit
    /\ cmd \in (IF kind = "tool" THEN Commands ELSE {CHOOSE c \in Commands : TRUE}) /\ Init
    /\ length \in (IF kind = "upload" THEN 0 .. MaxSize ELSE {0}) /\ UploadInit
    /\ overwrite \in (IF kind = "download" THEN [Downloads -> BOOLEAN]
                      ELSE {[d \in Downloads |-> FALSE]})
    /\ dir \in [output : IF kind = "download" THEN {NoFile, Old} ELSE {NoFile},
                partial : {NoFile}] /\ DownloadInit

executorVars == <<batchVars, vars, uploadVars, downloadVars>>

Goes(from, to) == stage = from /\ stage' = to

Fails(from, errors, to) ==
    /\ Goes(from, to) /\ err' \in errors
    /\ UNCHANGED <<kind, rendered, told, printed, code, factoryVars, executorVars>>

Proceeds(from, to) ==
    /\ Goes(from, to)
    /\ UNCHANGED <<kind, err, rendered, told, printed, code, factoryVars, executorVars>>

-----------------------------------------------------------------------------
(* The application and the route to the command. *)

InstallPlugins ==
    /\ stage = "factory" /\ PluginStep
    /\ UNCHANGED <<kind, runVars, catalogVars, executorVars>>

\* The plugins, the configuration or the credentials may keep it from starting; so
\* would a tree of commands that does not hold together.
FactoryFails ==
    /\ \/ ipc = "failed"
       \/ ipc = "installed" /\ cpc \in {"listed", "built"}
    /\ Fails("factory", {"client", "plain"}, "main")

BuildCommands ==
    /\ stage = "factory" /\ ipc = "installed" /\ CatalogStep
    /\ UNCHANGED <<kind, runVars, pluginVars, executorVars>>

CommandsBuilt ==
    /\ cpc = "built"
    /\ IF Composes(tree) THEN Proceeds("factory", "startup")
       ELSE Fails("factory", {"plain"}, "main")

\* The Startup hooks: BeforeExecute.
StartupHooks == Proceeds("startup", "route") \/ Fails("startup", {"client"}, "shutdown")

Serves(group, name) == group \in DOMAIN tree /\ Named(tree[group], name)

Found == CASE kind = "local" -> TRUE
           [] kind = "batch" -> Serves("workitem", "+batch-get")
           [] kind = "tool" -> DOMAIN tree # {}
           [] kind = "upload" -> Serves("attachment", "+upload")
           [] kind = "download" -> Serves("attachment", "+download")

\* An unknown command, or flags that it does not take: an error of cobra's, which
\* normalizeRouteError turns into a CLIError if it knows its wording.
RouteFails == Fails("route", {"cli", "plain"}, "shutdown")

Route == kind # "local" /\ Found /\ Proceeds("route", "validate")

\* A command of the CLI's own runs without the pipeline and prints for itself.
RunLocal ==
    /\ kind = "local"
    /\ \/ /\ Goes("route", "shutdown") /\ printed' = TRUE
          /\ UNCHANGED <<kind, err, rendered, told, code, factoryVars, executorVars>>
       \/ Fails("route", {"client", "server", "plain", "canceled", "status", "success"},
                "shutdown")

-----------------------------------------------------------------------------
(* The pipeline. *)

\* Structured parameters are merged, and the required ones looked for.
Validate == Proceeds("validate", "session") \/ Fails("validate", {"cli", "client"}, "failed")

Session ==
    \/ Proceeds("session", "executor")
    \/ Fails("session", {"client", "plain", "canceled"}, "failed")

\* Only the executor that the command is tagged with runs.
RunBatch ==
    /\ stage = "executor" /\ kind = "batch" /\ BatchStep
    /\ UNCHANGED <<kind, runVars, factoryVars, vars, uploadVars, downloadVars>>

RunTool ==
    /\ stage = "executor" /\ kind = "tool" /\ Next
    /\ UNCHANGED <<kind, runVars, factoryVars, batchVars, uploadVars, downloadVars>>

RunUpload ==
    /\ stage = "executor" /\ kind = "upload" /\ UploadStep
    /\ UNCHANGED <<kind, runVars, factoryVars, batchVars, vars, downloadVars>>

RunDownload ==
    /\ stage = "executor" /\ kind = "download" /\ DownloadStep(Me)
    /\ UNCHANGED <<kind, runVars, factoryVars, batchVars, vars, uploadVars>>

NotBegun ==
    \/ kind = "upload" /\ upc = "open"
    \/ kind = "download" /\ dpc[Me] = "prepare"

\* --dry-run: a transfer is previewed, and nothing is opened or asked for.
Preview ==
    /\ NotBegun
    /\ Proceeds("executor", "output")

Succeeded ==
    \/ kind = "batch" /\ outcome = "response"
    \/ kind = "tool" /\ out.kind \in {"dry", "single", "merged"}
    \/ kind = "upload" /\ upc = "ok"
    \/ kind = "download" /\ dpc[Me] = "ok"

\* What the executor failed with.
Failure ==
    CASE kind = "batch" /\ outcome \in {"invalid", "unauthorized"} -> {"client"}
      [] kind = "batch" /\ outcome = "cancelled" -> {"canceled"}
      [] kind = "tool" /\ out.kind = "error" -> {"client", "server", "plain", "canceled"}
      [] kind = "upload" /\ upc = "failed" -> {"client", "server", "plain", "canceled"}
      [] kind = "download" /\ dpc[Me] = "failed" ->
           {"client", "plain", "canceled"} \cup (IF fd[Me] = NoFile THEN {"server"} ELSE {})
      [] OTHER -> {}

Executed ==
    \/ Succeeded /\ Proceeds("executor", "output")
    \/ Fails("executor", Failure, "failed")

\* The result may be beyond the formatter, or the writer fail.
Output ==
    \/ /\ Goes("output", "shutdown") /\ printed' = TRUE
       /\ UNCHANGED <<kind, err, rendered, told, code, factoryVars, executorVars>>
    \/ Fails("output", {"cli", "plain"}, "failed")

\* Put on stderr in the output format, and marked; or left as it is.
Rendering ==
    \/ told' = told + 1 /\ rendered' = TRUE
    \/ UNCHANGED <<told, rendered>>

RenderEnvelope ==
    /\ Goes("failed", "shutdown") /\ Rendering
    /\ UNCHANGED <<kind, err, printed, code, factoryVars, executorVars>>

-----------------------------------------------------------------------------
(* The way out. *)

\* The Shutdown hooks: their error counts only when the command had none.
ShutdownHooks ==
    \/ Proceeds("shutdown", "explicit")
    \/ err \in {"none", "success"} /\ Fails("shutdown", {"client"}, "explicit")

HasPayload == err \in {"client", "server", "cli"}

\* An error that has not been rendered is, if the line has --format.
RenderExplicit ==
    /\ Goes("explicit", "main")
    /\ IF HasPayload /\ ~rendered THEN Rendering ELSE UNCHANGED <<told, rendered>>
    /\ UNCHANGED <<kind, err, printed, code, factoryVars, executorVars>>

\* frameworkerrors.ExitCode knows the codes of a CLIError only, here one of the user's
\* or an internal one.
ExitCodes == IF err = "cli" THEN {1, 5} ELSE {1}

\* Fault: the mark of a rendered error is not looked at.
TellErrorAgain ==
    CASE err \in {"none", "success"} -> code' = 0 /\ told' = told
      [] err = "canceled" -> code' = 130 /\ told' = told
      [] err = "status" -> code' \in {1, 2} /\ told' = told
      [] OTHER -> told' = told + 1 /\ code' \in IF err = "server" THEN {2} ELSE ExitCodes

\* commandExitCode.  --format counts here, too: before there is an application.
TellError ==
    CASE err = "none" -> code' = 0 /\ told' = told
      [] err = "canceled" -> code' = 130 /\ told' = told
      [] err = "success" -> code' = 0 /\ told' = told
      [] err = "status" -> code' \in {1, 2} /\ told' = told
      [] rendered -> code' \in ExitCodes /\ told' = told
      [] OTHER -> /\ told' = told + 1
                  /\ code' \in (IF err = "server" THEN {2} ELSE ExitCodes)
                               \cup (IF HasPayload THEN ExitCodes ELSE {})

Exit ==
    /\ Goes("main", "exit") /\ TellError
    /\ UNCHANGED <<kind, err, rendered, printed, factoryVars, executorVars>>

\* The deferred recover of executeWithFactory tells a panic, wherever it comes from up to
\* the exit code: also when the result has been printed, or an error rendered.  While the
\* factory or an executor is at work a panic differs by nothing that is told.
Panic ==
    /\ CASE stage = "factory" -> ipc = "installed" /\ cpc \in {"listed", "built"}
         [] stage = "executor" -> NotBegun \/ Succeeded \/ Failure # {}
         [] OTHER -> stage \notin {"exit", "killed"}
    /\ stage' = "exit" /\ err' = "panic" /\ told' = told + 1 /\ code' = 1
    /\ UNCHANGED <<kind, rendered, printed, factoryVars, executorVars>>

-----------------------------------------------------------------------------
(* What goes on around it. *)

\* A plugin registers, within its time or long after it.
LateRegistration ==
    /\ stage \notin {"exit", "killed"} /\ RegisterStep
    /\ UNCHANGED <<kind, runVars, catalogVars, executorVars>>

\* The user interrupts a batch.
Interrupt ==
    /\ stage = "executor" /\ kind = "batch" /\ Cancel
    /\ UNCHANGED <<kind, runVars, factoryVars, vars, uploadVars, downloadVars>>

FileChangesElsewhere ==
    /\ stage = "executor" /\ kind = "upload" /\ FileChanges
    /\ UNCHANGED <<kind, runVars, factoryVars, batchVars, vars, downloadVars>>

\* A failed upload is run again.
UploadAgain ==
    /\ kind = "upload" /\ RunAgain
    /\ Goes("exit", "startup") /\ err' = "none" /\ rendered' = FALSE /\ told' = 0
    /\ printed' = FALSE /\ code' = 0
    /\ UNCHANGED <<kind, factoryVars, batchVars, vars, downloadVars>>

\* Another process downloads to the same path, and may be killed: before this one
\* begins, while it works, after it, or after its death.
OtherDownload ==
    /\ kind = "download" /\ stage \in {"executor", "killed"}
    /\ \E d \in Downloads \ {Me} : DownloadStep(d) \/ Killed(d)
    /\ UNCHANGED <<kind, runVars, factoryVars, batchVars, vars, uploadVars>>

\* Nothing recovers a panic in the goroutine of a batch's worker: it ends the process.
WorkerPanics ==
    /\ kind = "batch" /\ \E w \in Workers : wpc[w] = "call"
    /\ Goes("executor", "killed")
    /\ UNCHANGED <<kind, err, rendered, told, printed, code, factoryVars, executorVars>>

\* This process is killed while it downloads.
KilledHere ==
    /\ kind = "download" /\ Killed(Me)
    /\ Goes("executor", "killed")
    /\ UNCHANGED <<kind, err, rendered, told, printed, code, factoryVars,
                   batchVars, vars, uploadVars>>

Program ==
    \/ InstallPlugins \/ FactoryFails \/ BuildCommands \/ CommandsBuilt
    \/ StartupHooks \/ RouteFails \/ Route \/ RunLocal
    \/ Validate \/ Session
    \/ RunBatch \/ RunTool \/ RunUpload \/ RunDownload \/ Preview
    \/ Executed \/ Output \/ RenderEnvelope
    \/ ShutdownHooks \/ RenderExplicit \/ Exit \/ Panic

Surroundings ==
    \/ LateRegistration \/ Interrupt \/ FileChangesElsewhere
    \/ UploadAgain \/ OtherDownload \/ KilledHere \/ WorkerPanics

CommandNext == Program \/ Surroundings

CommandSpec == CommandInit /\ [][CommandNext]_commandVars

\* The process goes on.  Hooks and plugins have deadlines; a request is taken to be
\* answered or to fail in the end, as the client of the tools sets no timeout.
FairCommandSpec == CommandSpec /\ WF_commandVars(Program)

-----------------------------------------------------------------------------
(* Properties. *)

\* The exit code says whether the command succeeded, a failure is told exactly once,
\* in one form or another, and the result of a command that succeeded is printed: no
\* hook or renderer between the executor and the process's end loses an error, tells it
\* twice, or turns it into a success.  A panic on the way is told as well, once, beside
\* the error that was rendered before it.
ToldOnce ==
    stage = "exit" =>
        /\ code = 0 <=> err \in {"none", "success"}
        /\ err \in {"none", "success", "status"} => told = 0
        /\ err = "canceled" => told <= 1
        /\ err = "panic" => told = IF rendered THEN 2 ELSE 1
        /\ err \in Errors \ {"success", "status", "canceled", "panic"} => told = 1
        /\ err = "none" => printed /\ (kind # "local" => Succeeded \/ NotBegun)

\* Every invocation ends unless it is killed, whatever the server answers and however
\* its calls, workers and hooks fail: no loop, channel or retry of the CLI goes on.
CommandEnds == <>[](stage \in {"exit", "killed"})

\* errors.go:122 has NewServerError create "a server-side error (exit code 2)".
ServerErrorsExitTwo == stage = "exit" /\ err = "server" => code = 2
=============================================================================
