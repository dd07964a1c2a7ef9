------------------------------ MODULE Startup ------------------------------
(***************************************************************************)
(* From the configuration file to the running loops and back: Load         *)
(* (internal/config/config.go), main's startup and shutdown order          *)
(* (cmd/github-activity-exporter/main.go), and the self-telemetry          *)
(* providers with their OTLP destinations (internal/telemetry).            *)
(*                                                                         *)
(* A string is kept when something depends on it, else only the cases the  *)
(* code tells apart: a URL is "", "url" or "other".  "" is unset.          *)
(***************************************************************************)
EXTENDS Integers, Sequences

CONSTANTS
  Text,    \* the strings
  Cases,   \* pairs of a configuration file and an environment
  EnvVars, \* the variables an auth block can name
  Hour     \* an hour, in the unit of the intervals

Signals    == {"metrics", "traces", "logs"}      \* those with a provider
AllSignals == Signals \cup {"profiles"}

\* What YAML and the environment can hold; a variable that is not set is "",
\* and no key of the file sets privateKeyValue.
AuthBlock ==
  [token : Text, tokenEnv : EnvVars \cup {""}, appID : Int, installationID : Int,
   privateKeyPath : Text, privateKeyEnv : EnvVars \cup {""}, privateKeyValue : {""}]

TargetBlock ==
  [name : Text, auth : AuthBlock, baseURL : Text, patternsCompile : BOOLEAN, named : BOOLEAN]

ConfigFile ==
  [targets : Seq(TargetBlock), otlp : [endpoint : Text, protocol : Text],
   interval : Int, stallTimeout : Int, unauthorizedCycles : Int,
   healthAddress : Text, prometheus : BOOLEAN, prometheusAddress : Text,
   telemetry : [enabled : BOOLEAN, signals : SUBSET AllSignals]]

Environment ==
  [vars : [EnvVars \cup {"GITHUB_TOKEN"} -> Text], sdkDisabled : Text,
   exporter : [Signals -> Text],
   otlp : [ENDPOINT : [Signals -> BOOLEAN], HEADERS : [Signals -> BOOLEAN]]]

ASSUME ParameterAssumption ==
  /\ Hour \in Nat \ {0}
  /\ "" \in Text /\ "" \notin EnvVars
  /\ Cases \subseteq ConfigFile \X Environment

VARIABLES
  file, env,     \* the case, fixed
  stage,         \* what main is about to do
  failed,        \* the stage that made it exit, or ""
  config,        \* what Load returned
  todo,          \* signals, then targets, still to be built
  building,      \* the signal whose exporter has no provider yet, or ""
  built,         \* the signals with a provider
  open,          \* what has connections or goroutines: "health", "product" and signals
  destination,   \* each signal's exporter: where it sends, with whose headers
  credentials    \* each target's authenticator

vars == <<file, env, stage, failed, config, todo, building, built, open, destination, credentials>>

NoAuth == [token |-> "", tokenEnv |-> "", appID |-> 0, installationID |-> 0,
           privateKeyPath |-> "", privateKeyEnv |-> "", privateKeyValue |-> ""]
Nowhere == [endpoint |-> "", headers |-> ""]

Init ==
  /\ \E c \in Cases : file = c[1] /\ env = c[2]
  /\ stage = "load" /\ failed = ""
  /\ config = <<>> /\ todo = <<>>
  /\ building = "" /\ built = {} /\ open = {}
  /\ destination = [s \in Signals |-> Nowhere]
  /\ credentials = <<>>

-----------------------------------------------------------------------------
(* config.Load *)

\* Mutant: any target without a token uses GITHUB_TOKEN.
AnyGitHubToken(auth) ==
  IF auth.tokenEnv # "" THEN env.vars[auth.tokenEnv]
  ELSE IF auth.token # "" THEN auth.token ELSE env.vars["GITHUB_TOKEN"]

\* resolveEnvVars: GITHUB_TOKEN for an empty auth block only.
ResolvedToken(auth) ==
  IF auth = NoAuth THEN env.vars["GITHUB_TOKEN"]
  ELSE IF auth.tokenEnv # "" THEN env.vars[auth.tokenEnv] ELSE auth.token

Resolved(auth) ==
  [auth EXCEPT !.token = ResolvedToken(auth),
               !.privateKeyValue = IF auth.privateKeyEnv = "" THEN "" ELSE env.vars[auth.privateKeyEnv]]

VariablesSet(auth) ==
  /\ auth = NoAuth => env.vars["GITHUB_TOKEN"] # ""
  /\ auth.tokenEnv # "" => env.vars[auth.tokenEnv] # ""
  /\ auth.privateKeyEnv # "" => env.vars[auth.privateKeyEnv] # ""

\* validateAuth
ValidAuth(auth) ==
  LET hasPAT == auth.token # "" \/ auth.tokenEnv # ""
      hasApp == auth.appID # 0
  IN  /\ hasPAT # hasApp
      /\ hasApp => auth.installationID # 0 /\ (auth.privateKeyPath # "" \/ auth.privateKeyEnv # "")

\* validateExport
ValidExport(c) ==
  /\ c.otlp.endpoint # ""
  /\ \/ c.otlp.protocol = "http" /\ c.otlp.endpoint = "url"
     \/ c.otlp.protocol = "grpc" /\ c.otlp.endpoint # "url"
  /\ c.interval > 0

\* Mutant: a timeout of one interval passes.
StallAtInterval(c) == c.stallTimeout >= 0 /\ (c.stallTimeout > 0 => c.stallTimeout >= c.interval)

ValidStall(c) == c.stallTimeout >= 0 /\ (c.stallTimeout > 0 => c.stallTimeout > c.interval)

\* validateHealth
ValidHealth(c) ==
  /\ c.healthAddress # ""
  /\ c.prometheus => c.healthAddress # c.prometheusAddress
  /\ ValidStall(c)
  /\ c.unauthorizedCycles >= 1

DistinctNames(c) == \A i, j \in DOMAIN c.targets : i # j => c.targets[i].name # c.targets[j].name

\* compileFilters and validate; an empty base URL has its default by then.
Valid(c) ==
  /\ ValidExport(c) /\ ValidHealth(c) /\ DistinctNames(c)
  /\ \A i \in DOMAIN c.targets :
       LET t == c.targets[i]
       IN  /\ t.patternsCompile
           /\ t.name # "" /\ ValidAuth(t.auth)
           /\ t.baseURL \in {"", "url"}
           /\ t.named                     \* an org or an explicit repo

Loaded ==
  [file EXCEPT !.targets = [i \in DOMAIN file.targets |->
                              [file.targets[i] EXCEPT !.auth = Resolved(@)]]]

\* The default of the stall timeout is set after validation.
WithDefaults(c) == [c EXCEPT !.stallTimeout = IF @ = 0 THEN 2 * c.interval + Hour ELSE @]

Exit(from) == stage = from /\ stage' = "exited" /\ failed' = from

Accepted ==
  /\ \A i \in DOMAIN file.targets : VariablesSet(file.targets[i].auth)
  /\ Valid(Loaded)

Load ==
  /\ stage = "load" /\ Accepted
  /\ config' = WithDefaults(Loaded)
  /\ stage' = "health"
  /\ UNCHANGED <<file, env, failed, todo, building, built, open, destination, credentials>>

LoadFails ==
  /\ ~Accepted
  /\ Exit("load")
  /\ UNCHANGED <<file, env, config, todo, building, built, open, destination, credentials>>

-----------------------------------------------------------------------------
(* main: health server and product metrics *)

\* resolveSignals: profiles have no variable.
Active ==
  {s \in AllSignals : /\ config.telemetry.enabled /\ s \in config.telemetry.signals
                      /\ env.sdkDisabled # "true"
                      /\ s \in DOMAIN env.exporter => env.exporter[s] # "none"}

IfActive(s) == IF s \in Active THEN <<s>> ELSE <<>>

StartHealth ==
  /\ stage = "health" /\ stage' = "product"
  /\ open' = open \cup {"health"}
  /\ UNCHANGED <<file, env, failed, config, todo, building, built, destination, credentials>>

\* exporter.New, then telemetry.New resolves the active signals.
BuildProduct ==
  /\ stage = "product" /\ stage' = "telemetry"
  /\ open' = open \cup {"product"}
  /\ todo' = IfActive("metrics") \o IfActive("traces") \o IfActive("logs")
  /\ UNCHANGED <<file, env, failed, config, building, built, destination, credentials>>

\* The address is in use; the resource or the OTLP exporter is rejected.
StepFails ==
  /\ \E s \in {"health", "product"} : Exit(s)
  /\ UNCHANGED <<file, env, config, todo, building, built, open, destination, credentials>>

-----------------------------------------------------------------------------
(* telemetry.New *)

Variable(s, key) == env.otlp[key][s]     \* the signal's own one, or the general one

\* Mutant: the configured headers are also sent to the environment's endpoint.
DestinationWithHeaders(s) ==
  [endpoint |-> IF Variable(s, "ENDPOINT") THEN "env" ELSE "export.otlp",
   headers  |-> IF Variable(s, "HEADERS") THEN "env" ELSE "export.otlp"]

\* resolveDestination, and the headers the SDK then sends.
Destination(s) ==
  IF Variable(s, "ENDPOINT")
  THEN [endpoint |-> "env", headers |-> IF Variable(s, "HEADERS") THEN "env" ELSE ""]
  ELSE [endpoint |-> "export.otlp", headers |-> IF Variable(s, "HEADERS") THEN "env" ELSE "export.otlp"]

BuildExporter ==
  LET s == Head(todo)
  IN  /\ stage = "telemetry" /\ building = "" /\ todo # <<>>
      /\ building' = s /\ open' = open \cup {s}
      /\ destination' = [destination EXCEPT ![s] = Destination(s)]
      /\ UNCHANGED <<file, env, stage, failed, config, todo, built, credentials>>

\* Mutant: Telemetry does not record the provider.
BuildUnrecorded ==
  /\ stage = "telemetry" /\ building # ""
  /\ building' = "" /\ todo' = Tail(todo)
  /\ UNCHANGED <<file, env, stage, failed, config, built, open, destination, credentials>>

BuildProvider ==
  /\ stage = "telemetry" /\ building # ""
  /\ built' = built \cup {building} /\ building' = ""
  /\ todo' = Tail(todo)
  /\ UNCHANGED <<file, env, stage, failed, config, open, destination, credentials>>

\* Mutant: the providers built so far are left alone.
LeaveBuilt == open

\* Telemetry.Shutdown of what was built.
ShutdownBuilt == open \ built

ExporterFails ==
  /\ building = "" /\ todo # <<>>
  /\ Exit("telemetry")
  /\ open' = ShutdownBuilt
  /\ UNCHANGED <<file, env, config, todo, building, built, destination, credentials>>

\* newMeterProvider: the Prometheus reader fails; the exporter is shut down.
BridgeFails ==
  /\ building = "metrics" /\ config.prometheus
  /\ Exit("telemetry")
  /\ open' = open \ {building}
  /\ UNCHANGED <<file, env, config, todo, building, built, destination, credentials>>

TelemetryReady ==
  /\ stage = "telemetry" /\ building = "" /\ todo = <<>>
  /\ stage' = "targets"
  /\ todo' = [i \in DOMAIN config.targets |-> i]
  /\ UNCHANGED <<file, env, failed, config, building, built, open, destination, credentials>>

-----------------------------------------------------------------------------
(* main: targets, loops and shutdown *)

\* buildAuthenticator; loadPrivateKeyPEM prefers the variable to the file.
Authenticator(auth) ==
  IF auth.token # "" THEN [kind |-> "pat", secret |-> auth.token]
  ELSE [kind |-> "app", secret |-> IF auth.privateKeyValue # "" THEN auth.privateKeyValue ELSE auth.privateKeyPath]

BuildTarget ==
  /\ stage = "targets" /\ todo # <<>>
  /\ credentials' = Append(credentials, Authenticator(config.targets[Head(todo)].auth))
  /\ todo' = Tail(todo)
  /\ UNCHANGED <<file, env, stage, failed, config, building, built, open, destination>>

\* The self-metrics are rejected, a key cannot be read or a credential ping
\* fails: main exits at once, without the deferred shutdown.
TargetFails ==
  /\ todo # <<>> \/ credentials = <<>>
  /\ Exit("targets")
  /\ UNCHANGED <<file, env, config, todo, building, built, open, destination, credentials>>

StartLoops ==
  /\ stage = "targets" /\ todo = <<>>
  /\ stage' = "running"
  /\ UNCHANGED <<file, env, failed, config, todo, building, built, open, destination, credentials>>

\* The signal, and the end of every loop.
LoopsEnd ==
  /\ stage = "running" /\ stage' = "stopping"
  /\ UNCHANGED <<file, env, failed, config, todo, building, built, open, destination, credentials>>

\* Mutant: self-telemetry is shut down first.
TelemetryFirst == <<"metrics", "traces", "logs", "product", "health">>

\* Provider.Shutdown, Telemetry.Shutdown, the deferred health server Shutdown.
ShutdownOrder == <<"product", "metrics", "traces", "logs", "health">>

ShutdownNext ==
  /\ stage = "stopping"
  /\ \/ open = {} /\ stage' = "exited" /\ UNCHANGED open
     \/ \E i \in DOMAIN ShutdownOrder :
          /\ ShutdownOrder[i] \in open /\ \A j \in 1 .. i - 1 : ShutdownOrder[j] \notin open
          /\ open' = open \ {ShutdownOrder[i]} /\ UNCHANGED stage
  /\ UNCHANGED <<file, env, failed, config, todo, building, built, destination, credentials>>

-----------------------------------------------------------------------------
Next ==
  \/ Load \/ LoadFails \/ StartHealth \/ BuildProduct \/ StepFails
  \/ BuildExporter \/ BuildProvider \/ ExporterFails \/ BridgeFails \/ TelemetryReady
  \/ BuildTarget \/ TargetFails \/ StartLoops \/ LoopsEnd \/ ShutdownNext

Spec == Init /\ [][Next]_vars

-----------------------------------------------------------------------------
(* Properties *)

Stages == {"load", "health", "product", "telemetry", "targets", "running", "stopping", "exited"}
Past(st) == stage \notin {"exited"} \cup st

Credential == [kind : {"pat", "app"}, secret : Text]
Sources    == {"", "env", "export.otlp"}

TypeOK ==
  /\ file \in ConfigFile /\ env \in Environment
  /\ stage \in Stages /\ failed \in Stages \cup {""}
  /\ failed # "" => stage = "exited"
  /\ building \in Signals \cup {""} /\ built \subseteq Signals
  /\ open \subseteq Signals \cup {"health", "product"}
  /\ destination \in [Signals -> [endpoint : Sources, headers : Sources]]
  /\ credentials \in Seq(Credential)

\* What is open follows from the stage, until something fails or shuts down.
OpenAsBuilt ==
  failed = "" /\ Past({"stopping"}) =>
    open = built \cup (IF building = "" THEN {} ELSE {building})
                 \cup (IF stage \in {"load", "health"} THEN {} ELSE {"health"})
                 \cup (IF stage \in {"load", "health", "product"} THEN {} ELSE {"product"})

\* main runs only with a configuration that Load accepted.
LoadedFirst ==
  IF stage = "load" \/ failed = "load" THEN config = <<>>
  ELSE Accepted /\ config = WithDefaults(Loaded)

\* The providers are built one after the other, each of a signal the
\* configuration selects; an exporter without one is the next provider's.
Place == [metrics |-> 1, traces |-> 2, logs |-> 3]

BuiltInOrder ==
  /\ stage \in {"load", "health", "product"} => built = {}
  /\ building # "" => stage \in {"telemetry", "exited"}
  /\ stage = "telemetry" =>
       /\ todo \in Seq(Signals)
       /\ building # "" => todo # <<>> /\ building = Head(todo)
       /\ \A i \in DOMAIN todo :
            /\ config.telemetry.enabled /\ todo[i] \in config.telemetry.signals
            /\ \A s \in built : Place[s] < Place[todo[i]]
            /\ \A j \in DOMAIN todo : i < j => Place[todo[i]] < Place[todo[j]]

\* Each target in turn gets the authenticator of its own auth block.
TargetsInTurn ==
  /\ stage \in {"load", "health", "product", "telemetry"} => credentials = <<>>
  /\ stage = "targets" =>
       /\ todo \in Seq(Nat) /\ Len(credentials) + Len(todo) = Len(config.targets)
       /\ \A k \in DOMAIN todo : todo[k] = Len(credentials) + k
  /\ credentials # <<>> =>
       /\ ~(stage = "load" \/ failed = "load")
       /\ Len(credentials) <= Len(config.targets)
       /\ \A i \in DOMAIN credentials : credentials[i] = Authenticator(config.targets[i].auth)

\* A running target has one credential, of the kind its auth block names:
\* GITHUB_TOKEN for an empty block only, else the value of something the block
\* names; a partly filled one never falls back to GITHUB_TOKEN, and a variable
\* that is empty never becomes a credential.
OneCredential ==
  \A i \in DOMAIN credentials :
    LET auth  == file.targets[i].auth
        named == {auth.token, auth.privateKeyPath}
                   \cup {env.vars[v] : v \in {auth.tokenEnv, auth.privateKeyEnv} \ {""}}
    IN  /\ credentials[i].secret # ""
        /\ IF auth = NoAuth THEN credentials[i].secret = env.vars["GITHUB_TOKEN"]
                            ELSE credentials[i].secret \in named
        /\ credentials[i].kind = "app" <=> auth.appID # 0

\* What the loops and the probes rely on: a cycle fits into the stall timeout,
\* and no two targets share the name the tracker and the metrics know them by.
ConfigUsable ==
  config # <<>> =>
    /\ 0 < config.interval /\ config.interval < config.stallTimeout
    /\ DistinctNames(config)

\* README.md, "Self-telemetry": the environment turns signals off, never on, and
\* leaves the product metrics alone; the headers of export.otlp, which may hold
\* a secret, never go to an endpoint the environment chose.
EnvironmentRestricts ==
  /\ built # {} => config.telemetry.enabled /\ built \subseteq config.telemetry.signals
  /\ stage = "running" => "product" \in open
  /\ \A s \in open \cap Signals :
       destination[s].headers = "export.otlp" => destination[s].endpoint = "export.otlp"

\* When a provider cannot be built, telemetry.New leaves none of the others and
\* no exporter behind.
NothingLeftBehind == failed = "telemetry" => open \cap Signals = {}

\* What goes wrong while the process stops can still be logged: the product's
\* last push comes before self-telemetry ends, and the logs end last.
LogsOutliveTheRest ==
  stage = "stopping" /\ "logs" \in built /\ "logs" \notin open =>
    open \cap {"product", "metrics", "traces"} = {}

\* The inductive invariant, from which OneCredential and ConfigUsable follow.
Inv ==
  /\ TypeOK /\ OpenAsBuilt /\ LoadedFirst /\ BuiltInOrder /\ TargetsInTurn
  /\ EnvironmentRestricts /\ NothingLeftBehind /\ LogsOutliveTheRest
=============================================================================
