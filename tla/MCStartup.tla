------------------------------ MODULE MCStartup ------------------------------
(* Small instances of Startup for TLC: from one sound configuration, each      *)
(* part in turn takes all its values.                                          *)
EXTENDS Startup, TLC

PAT    == [NoAuth EXCEPT !.token = "pat"]
Target(name, auth) ==
  [name |-> name, auth |-> auth, baseURL |-> "", patternsCompile |-> TRUE, named |-> TRUE]

File ==
  [targets |-> <<Target("a", NoAuth), Target("b", PAT)>>,
   otlp |-> [endpoint |-> "url", protocol |-> "http"],
   interval |-> 1, stallTimeout |-> 0, unauthorizedCycles |-> 3,
   healthAddress |-> ":10062", prometheus |-> TRUE, prometheusAddress |-> ":9090",
   telemetry |-> [enabled |-> TRUE, signals |-> AllSignals]]

NoVariable == [s \in Signals |-> FALSE]
Env ==
  [vars |-> ("GITHUB_TOKEN" :> "ght") @@ ("T" :> "t") @@ ("K" :> "key") @@ ("EMPTY" :> ""),
   sdkDisabled |-> "", exporter |-> [s \in Signals |-> ""],
   otlp |-> [ENDPOINT |-> NoVariable, HEADERS |-> NoVariable]]

Auths ==
  [token : {"", "pat"}, tokenEnv : {"", "T", "EMPTY"}, appID : {0, 1}, installationID : {0, 2},
   privateKeyPath : {"", "path"}, privateKeyEnv : {"", "K", "EMPTY"}, privateKeyValue : {""}]

AuthCases ==
  {<<[File EXCEPT !.targets[1].auth = auth, !.telemetry.enabled = FALSE],
     [Env EXCEPT !.vars["GITHUB_TOKEN"] = github]>> : auth \in Auths, github \in {"", "ght"}}

NumberCases ==
  {<<[File EXCEPT !.interval = interval, !.stallTimeout = stall, !.unauthorizedCycles = cycles], Env>> :
     interval \in -1 .. 2, stall \in -1 .. 3, cycles \in 0 .. 1}

ExportCases ==
  {<<[File EXCEPT !.otlp.endpoint = endpoint, !.otlp.protocol = protocol,
                  !.prometheus = prometheus, !.healthAddress = address], Env>> :
     endpoint \in {"", "url", "other"}, protocol \in {"http", "grpc", "other"},
     prometheus \in BOOLEAN, address \in {"", ":10062", ":9090"}}

TargetCases ==
  {<<[File EXCEPT !.targets = <<[Target(x, NoAuth) EXCEPT !.baseURL = url, !.patternsCompile = compile],
                                Target("b", PAT), [Target(y, PAT) EXCEPT !.named = named]>>], Env>> :
     x \in {"", "a", "b"}, y \in {"a", "c"}, url \in {"", "url", "other"}, compile \in BOOLEAN, named \in BOOLEAN}

TelemetryCases ==
  {<<[File EXCEPT !.telemetry = [enabled |-> enabled, signals |-> signals], !.prometheus = prometheus],
     [Env EXCEPT !.sdkDisabled = disabled, !.exporter = exporter]>> :
     enabled \in BOOLEAN, signals \in SUBSET AllSignals, prometheus \in BOOLEAN,
     disabled \in {"", "true", "other"},
     exporter \in [Signals -> {"", "none", "otlp"}]}

DestinationCases ==
  {<<File, [Env EXCEPT !.otlp = [ENDPOINT |-> endpoint, HEADERS |-> headers]]>> :
     endpoint \in [Signals -> BOOLEAN], headers \in [Signals -> BOOLEAN]}

AnyText   == STRING
NamedVars == {"T", "K", "EMPTY"}

AllCases == AuthCases \cup NumberCases \cup ExportCases \cup TargetCases
              \cup TelemetryCases \cup DestinationCases
=============================================================================
