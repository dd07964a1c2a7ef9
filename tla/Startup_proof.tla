---------------------------- MODULE Startup_proof ----------------------------
(***************************************************************************)
(* Proofs about Startup, for every configuration file and environment:     *)
(* its inductive invariant, and with it that each target's credential is   *)
(* the one its auth block names, that the configuration is usable, that    *)
(* the environment only restricts self-telemetry, that a failed            *)
(* telemetry.New leaves nothing behind, and that the logs end last.        *)
(***************************************************************************)
EXTENDS Startup, TLAPS

\* What Tail does to positions keeps their order.
LEMMA Successors ==
  \A i, j \in Nat \ {0} : 1 < i + 1 /\ (i < j => i + 1 < j + 1)
OBVIOUS

\* Sums of lengths, when an element moves from one sequence to another.
LEMMA SumsRegroup ==
  \A a, k \in Nat : /\ a + (k + 1) = (a + 1) + k
                    /\ (a + 1) + (k - 1) = a + k
                    /\ a <= a + k
OBVIOUS

\* The sequences of no and of one element.
LEMMA NothingYet == \A S : <<>> \in Seq(S) /\ \A i : i \notin DOMAIN <<>>
OBVIOUS

LEMMA JustOne ==
  ASSUME NEW S, NEW x \in S
  PROVE  <<x>> \in Seq(S) /\ DOMAIN <<x>> = {1} /\ <<x>>[1] = x
OBVIOUS

\* A sequence with one more element at its end.
LEMMA OneMore ==
  ASSUME NEW S, NEW q \in Seq(S), NEW x \in S, NEW r, r = Append(q, x)
  PROVE  /\ Len(r) = Len(q) + 1 /\ Len(q) \in Nat
         /\ \A i \in DOMAIN r :
              IF i = Len(q) + 1 THEN r[i] = x
              ELSE q # <<>> /\ i \in DOMAIN q /\ r[i] = q[i]
OBVIOUS

\* The first element of a sequence, and the others.
LEMMA FirstAndRest ==
  ASSUME NEW S, NEW q \in Seq(S), q # <<>>
  PROVE  /\ 1 \in DOMAIN q /\ Head(q) = q[1] /\ Head(q) \in S
         /\ Tail(q) \in Seq(S) /\ Len(Tail(q)) = Len(q) - 1
         /\ \A i \in DOMAIN Tail(q) :
              i \in Nat \ {0} /\ i + 1 \in DOMAIN q /\ Tail(q)[i] = q[i + 1]
OBVIOUS

-----------------------------------------------------------------------------
(* The configuration *)

\* Load keeps the targets, in their order and with their names, and resolves
\* each one's auth block.
LEMMA LoadedTargets ==
  ASSUME file \in ConfigFile
  PROVE  LET c == WithDefaults(Loaded)
         IN  /\ DOMAIN c.targets = DOMAIN file.targets
             /\ Len(c.targets) = Len(file.targets)
             /\ \A i \in DOMAIN file.targets :
                  /\ c.targets[i].name = file.targets[i].name
                  /\ c.targets[i].auth = Resolved(file.targets[i].auth)
<1> DEFINE c == WithDefaults(Loaded)
           ts == [i \in DOMAIN file.targets |-> [file.targets[i] EXCEPT !.auth = Resolved(@)]]
<1>1. file.targets \in Seq(TargetBlock)
  BY DEF ConfigFile
<1>2. c.targets = ts
  BY DEF WithDefaults, Loaded, ConfigFile
<1>3. DOMAIN ts = 1 .. Len(file.targets) /\ Len(file.targets) \in Nat
  BY <1>1
<1>4. Len(ts) = Len(file.targets)
  BY <1>3
<1>5. ASSUME NEW i \in DOMAIN file.targets
      PROVE  ts[i].name = file.targets[i].name /\ ts[i].auth = Resolved(file.targets[i].auth)
  <2>1. file.targets[i] \in TargetBlock
    BY <1>1
  <2> QED BY <2>1 DEF TargetBlock
<1> QED BY <1>2, <1>3, <1>4, <1>5

\* Load keeps the numbers but for the stall timeout's default.
LEMMA LoadedNumbers ==
  ASSUME file \in ConfigFile
  PROVE  LET c == WithDefaults(Loaded)
         IN  /\ Loaded.interval = file.interval
             /\ Loaded.stallTimeout = file.stallTimeout
             /\ c.interval = file.interval
             /\ c.stallTimeout = IF file.stallTimeout = 0 THEN 2 * file.interval + Hour
                                                          ELSE file.stallTimeout
             /\ c.telemetry = file.telemetry
BY DEF WithDefaults, Loaded, ConfigFile

\* What was read is what was accepted: Load's verdict and its result do not
\* change while the process runs.
LEMMA SameConfiguration ==
  ASSUME [Next]_vars
  PROVE  /\ file' = file /\ env' = env
         /\ Accepted' = Accepted /\ Loaded' = Loaded
         /\ WithDefaults(Loaded)' = WithDefaults(Loaded)
<1>1. file' = file /\ env' = env
  BY DEF Next, vars, Load, LoadFails, StartHealth, BuildProduct, StepFails, BuildExporter,
         BuildProvider, ExporterFails, BridgeFails, TelemetryReady, BuildTarget, TargetFails,
         StartLoops, LoopsEnd, ShutdownNext
<1>2. Loaded' = Loaded
  BY <1>1 DEF Loaded, Resolved, ResolvedToken
<1>3. Accepted' = Accepted
  BY <1>1, <1>2 DEF Accepted, VariablesSet, Valid, ValidExport, ValidHealth, ValidStall,
                    DistinctNames, ValidAuth
<1>4. WithDefaults(Loaded)' = WithDefaults(Loaded)
  BY <1>2 DEF WithDefaults
<1> QED BY <1>1, <1>2, <1>3, <1>4

\* An accepted auth block resolves to the one credential it names.
LEMMA AuthResolved ==
  ASSUME env \in Environment, NEW auth \in AuthBlock,
         VariablesSet(auth), ValidAuth(Resolved(auth))
  PROVE  LET c == Authenticator(Resolved(auth))
             named == {auth.token, auth.privateKeyPath}
                        \cup {env.vars[v] : v \in {auth.tokenEnv, auth.privateKeyEnv} \ {""}}
         IN  /\ c \in Credential
             /\ c.secret # ""
             /\ IF auth = NoAuth THEN c.secret = env.vars["GITHUB_TOKEN"]
                                 ELSE c.secret \in named
             /\ c.kind = "app" <=> auth.appID # 0
<1> DEFINE r == Resolved(auth)
           c == Authenticator(r)
<1> USE ParameterAssumption DEF ParameterAssumption
<1>1. env.vars \in [EnvVars \cup {"GITHUB_TOKEN"} -> Text]
  BY DEF Environment
<1>2. /\ auth.token \in Text /\ auth.privateKeyPath \in Text
      /\ auth.tokenEnv \in EnvVars \cup {""} /\ auth.privateKeyEnv \in EnvVars \cup {""}
      /\ auth.appID \in Int /\ auth.installationID \in Int
  BY DEF AuthBlock
<1>3. /\ r.token = ResolvedToken(auth)
      /\ r.privateKeyValue = IF auth.privateKeyEnv = "" THEN "" ELSE env.vars[auth.privateKeyEnv]
      /\ r.tokenEnv = auth.tokenEnv /\ r.appID = auth.appID
      /\ r.installationID = auth.installationID
      /\ r.privateKeyPath = auth.privateKeyPath /\ r.privateKeyEnv = auth.privateKeyEnv
  BY DEF Resolved, AuthBlock
<1>4. auth = NoAuth => /\ auth.token = "" /\ auth.tokenEnv = "" /\ auth.appID = 0
                       /\ auth.privateKeyEnv = "" /\ auth.privateKeyPath = ""
  <2>1. /\ NoAuth.token = "" /\ NoAuth.tokenEnv = "" /\ NoAuth.appID = 0
        /\ NoAuth.privateKeyEnv = "" /\ NoAuth.privateKeyPath = ""
    BY DEF NoAuth
  <2> QED BY <2>1
<1>5. r.token \in Text /\ r.privateKeyValue \in Text
  <2>1. \A v \in EnvVars \cup {"GITHUB_TOKEN"} : env.vars[v] \in Text
    BY <1>1
  <2>2. ResolvedToken(auth) \in Text
    BY <1>2, <2>1 DEF ResolvedToken
  <2>3. r.token \in Text
    BY <1>3, <2>2
  <2>4. CASE auth.privateKeyEnv = ""
    BY <1>3, <2>3, <2>4
  <2>5. CASE auth.privateKeyEnv \in EnvVars
    BY <1>3, <2>1, <2>3, <2>5
  <2> QED BY <1>2, <2>4, <2>5
<1>6. c \in Credential
  BY <1>2, <1>3, <1>5 DEF Authenticator, Credential
<1>7. CASE auth.appID # 0
  <2>1. r.token = "" /\ r.tokenEnv = "" /\ auth # NoAuth
    BY <1>3, <1>4, <1>7 DEF ValidAuth
  <2>2. auth.privateKeyPath # "" \/ auth.privateKeyEnv # ""
    BY <1>3, <1>7 DEF ValidAuth
  <2>3. auth.privateKeyEnv # "" => r.privateKeyValue = env.vars[auth.privateKeyEnv] /\ r.privateKeyValue # ""
    BY <1>3 DEF VariablesSet
  <2> QED BY <1>3, <1>6, <1>7, <2>1, <2>2, <2>3 DEF Authenticator
<1>8. CASE auth.appID = 0
  <2>1. r.token # "" \/ r.tokenEnv # ""
    BY <1>3, <1>8 DEF ValidAuth
  <2>2. r.token # ""
    BY <1>3, <1>4, <2>1 DEF VariablesSet, ResolvedToken
  <2>3. c.kind = "pat" /\ c.secret = r.token
    BY <2>2 DEF Authenticator
  <2>4. auth = NoAuth => r.token = env.vars["GITHUB_TOKEN"]
    BY <1>3 DEF ResolvedToken
  <2>5. auth # NoAuth => r.token \in {auth.token} \cup {env.vars[v] : v \in {auth.tokenEnv} \ {""}}
    BY <1>3 DEF ResolvedToken
  <2> QED BY <1>6, <1>8, <2>2, <2>3, <2>4, <2>5
<1> QED BY <1>2, <1>7, <1>8

\* So does the auth block of every target that main builds.
LEMMA TargetCredential ==
  ASSUME file \in ConfigFile, env \in Environment, Accepted, config = WithDefaults(Loaded),
         NEW i \in DOMAIN config.targets
  PROVE  /\ i \in DOMAIN file.targets
         /\ file.targets[i].auth \in AuthBlock
         /\ config.targets[i].auth = Resolved(file.targets[i].auth)
         /\ VariablesSet(file.targets[i].auth)
         /\ ValidAuth(Resolved(file.targets[i].auth))
<1>1. i \in DOMAIN file.targets /\ config.targets[i].auth = Resolved(file.targets[i].auth)
  BY LoadedTargets
<1>2. file.targets[i] \in TargetBlock
  BY <1>1 DEF ConfigFile
<1>3. Loaded.targets = config.targets
  BY DEF WithDefaults, Loaded, ConfigFile
<1>4. VariablesSet(file.targets[i].auth) /\ ValidAuth(config.targets[i].auth)
  BY <1>1, <1>3 DEF Accepted, Valid
<1> QED BY <1>1, <1>2, <1>4 DEF TargetBlock

-----------------------------------------------------------------------------
(* The invariant *)

\* The invariant holds initially.
LEMMA InitInv == Init => Inv
<1> SUFFICES ASSUME Init PROVE Inv
  OBVIOUS
<1> USE ParameterAssumption DEF ParameterAssumption, Init
<1>1. TypeOK
  <2>1. file \in ConfigFile /\ env \in Environment
    <3>1. PICK c \in Cases : file = c[1] /\ env = c[2]
      OBVIOUS
    <3> QED BY <3>1
  <2>2. destination \in [Signals -> [endpoint : Sources, headers : Sources]]
    BY DEF Nowhere, Sources
  <2>3. credentials \in Seq(Credential)
    <3>1. credentials = <<>>
      OBVIOUS
    <3> QED BY <3>1, NothingYet
  <2>4. stage \in Stages /\ failed \in Stages \cup {""} /\ (failed # "" => stage = "exited")
    BY DEF Stages
  <2> QED BY <2>1, <2>2, <2>3, <2>4 DEF TypeOK
<1>2. OpenAsBuilt /\ LoadedFirst
  BY DEF OpenAsBuilt, LoadedFirst
<1>3. BuiltInOrder /\ TargetsInTurn
  BY DEF BuiltInOrder, TargetsInTurn
<1>4. EnvironmentRestricts /\ NothingLeftBehind /\ LogsOutliveTheRest
  BY DEF EnvironmentRestricts, NothingLeftBehind, LogsOutliveTheRest
<1> QED BY <1>1, <1>2, <1>3, <1>4 DEF Inv

\* The next target to build is the one after those that have a credential.
LEMMA NextTarget ==
  ASSUME TypeOK, LoadedFirst, TargetsInTurn, stage = "targets", todo # <<>>
  PROVE  /\ Head(todo) = Len(credentials) + 1
         /\ Head(todo) \in DOMAIN config.targets
         /\ Authenticator(config.targets[Head(todo)].auth) \in Credential
<1>1. /\ todo \in Seq(Nat) /\ Len(credentials) + Len(todo) = Len(config.targets)
      /\ \A k \in DOMAIN todo : todo[k] = Len(credentials) + k
  BY DEF TargetsInTurn
<1>2. Len(todo) \in Nat \ {0} /\ 1 \in DOMAIN todo /\ Head(todo) = todo[1]
  BY <1>1
<1>3. Len(credentials) \in Nat
  <2>1. credentials \in Seq(Credential)
    BY DEF TypeOK
  <2> QED BY <2>1
<1>4. Head(todo) = Len(credentials) + 1 /\ Head(todo) \in 1 .. Len(config.targets)
  BY <1>1, <1>2, <1>3
<1>5. Accepted /\ config = WithDefaults(Loaded)
  BY DEF LoadedFirst, TypeOK
<1>6. file \in ConfigFile /\ env \in Environment
  BY DEF TypeOK
<1>7. file.targets \in Seq(TargetBlock)
  BY <1>6 DEF ConfigFile
<1>8. Head(todo) \in DOMAIN config.targets
  BY <1>4, <1>5, <1>6, <1>7, LoadedTargets
<1> QED BY <1>4, <1>5, <1>6, <1>8, TargetCredential, AuthResolved

\* Every step preserves the types.
LEMMA TypeStep ==
  ASSUME TypeOK, LoadedFirst, BuiltInOrder, TargetsInTurn, [Next]_vars
  PROVE  TypeOK'
<1> USE DEF TypeOK, Stages
<1>1. CASE Load
  BY <1>1 DEF Load
<1>2. CASE LoadFails
  BY <1>2 DEF LoadFails, Exit
<1>3. CASE StartHealth
  BY <1>3 DEF StartHealth
<1>4. CASE BuildProduct
  BY <1>4 DEF BuildProduct
<1>5. CASE StepFails
  BY <1>5 DEF StepFails, Exit
<1>6. CASE BuildExporter
  <2>1. Head(todo) \in Signals
    BY <1>6, FirstAndRest DEF BuildExporter, BuiltInOrder
  <2>2. Destination(Head(todo)) \in [endpoint : Sources, headers : Sources]
    BY DEF Destination, Sources
  <2> QED BY <1>6, <2>1, <2>2 DEF BuildExporter, Signals
<1>7. CASE BuildProvider
  BY <1>7 DEF BuildProvider, Signals
<1>8. CASE ExporterFails
  BY <1>8 DEF ExporterFails, Exit, ShutdownBuilt
<1>9. CASE BridgeFails
  BY <1>9 DEF BridgeFails, Exit
<1>10. CASE TelemetryReady
  BY <1>10 DEF TelemetryReady
<1>11. CASE BuildTarget
  <2>1. Authenticator(config.targets[Head(todo)].auth) \in Credential
    BY <1>11, NextTarget DEF BuildTarget
  <2>2. credentials' \in Seq(Credential)
    <3>1. credentials \in Seq(Credential)
      OBVIOUS
    <3>2. credentials' = Append(credentials, Authenticator(config.targets[Head(todo)].auth))
      BY <1>11 DEF BuildTarget
    <3> HIDE DEF TypeOK
    <3> QED BY <2>1, <3>1, <3>2
  <2> QED BY <1>11, <2>2 DEF BuildTarget
<1>12. CASE TargetFails
  BY <1>12 DEF TargetFails, Exit
<1>13. CASE StartLoops
  BY <1>13 DEF StartLoops
<1>14. CASE LoopsEnd
  BY <1>14 DEF LoopsEnd
<1>15. CASE ShutdownNext
  BY <1>15 DEF ShutdownNext
<1>16. CASE UNCHANGED vars
  BY <1>16 DEF vars
<1> QED BY <1>1, <1>2, <1>3, <1>4, <1>5, <1>6, <1>7, <1>8, <1>9, <1>10, <1>11, <1>12,
           <1>13, <1>14, <1>15, <1>16 DEF Next

\* Until something fails or shuts down, what is open follows from the stage.
LEMMA OpenStep ==
  ASSUME TypeOK, OpenAsBuilt, BuiltInOrder, [Next]_vars
  PROVE  OpenAsBuilt'
<1> USE DEF OpenAsBuilt, Past
<1>1. CASE Load
  BY <1>1 DEF Load
<1>2. CASE StartHealth
  BY <1>2 DEF StartHealth, BuiltInOrder
<1>3. CASE BuildProduct
  BY <1>3 DEF BuildProduct, BuiltInOrder
<1>4. CASE BuildExporter
  <2>1. Head(todo) \in Signals
    BY <1>4, FirstAndRest DEF BuildExporter, BuiltInOrder
  <2> QED BY <1>4, <2>1 DEF BuildExporter, Signals
<1>5. CASE BuildProvider
  BY <1>5 DEF BuildProvider
<1>6. CASE TelemetryReady
  BY <1>6 DEF TelemetryReady
<1>7. CASE BuildTarget
  BY <1>7 DEF BuildTarget
<1>8. CASE StartLoops
  BY <1>8 DEF StartLoops
<1>9. CASE LoadFails \/ StepFails \/ ExporterFails \/ BridgeFails \/ TargetFails
  BY <1>9 DEF LoadFails, StepFails, ExporterFails, BridgeFails, TargetFails, Exit
<1>10. CASE LoopsEnd
  BY <1>10 DEF LoopsEnd
<1>11. CASE ShutdownNext
  BY <1>11 DEF ShutdownNext
<1>12. CASE UNCHANGED vars
  BY <1>12 DEF vars
<1> QED BY <1>1, <1>2, <1>3, <1>4, <1>5, <1>6, <1>7, <1>8, <1>9, <1>10, <1>11, <1>12 DEF Next

\* What main works with is what Load accepted.
LEMMA LoadedStep ==
  ASSUME TypeOK, LoadedFirst, [Next]_vars
  PROVE  LoadedFirst'
<1>1. /\ Accepted' = Accepted /\ Loaded' = Loaded
      /\ WithDefaults(Loaded)' = WithDefaults(Loaded)
  BY SameConfiguration
<1> USE DEF LoadedFirst
<1>2. CASE Load
  BY <1>1, <1>2 DEF Load, TypeOK
<1>3. CASE LoadFails
  BY <1>3 DEF LoadFails, Exit
<1>4. CASE StartHealth \/ BuildProduct \/ TelemetryReady \/ StartLoops \/ LoopsEnd
  BY <1>1, <1>4 DEF StartHealth, BuildProduct, TelemetryReady, StartLoops, LoopsEnd
<1>5. CASE StepFails \/ ExporterFails \/ BridgeFails \/ TargetFails
  <2>1. PICK s \in {"health", "product", "telemetry", "targets"} : Exit(s) /\ config' = config
    BY <1>5 DEF StepFails, ExporterFails, BridgeFails, TargetFails
  <2> QED BY <1>1, <2>1 DEF Exit, TypeOK
<1>6. CASE BuildExporter \/ BuildProvider \/ BuildTarget
  BY <1>1, <1>6 DEF BuildExporter, BuildProvider, BuildTarget
<1>7. CASE ShutdownNext
  BY <1>1, <1>7 DEF ShutdownNext
<1>8. CASE UNCHANGED vars
  BY <1>1, <1>8 DEF vars
<1> QED BY <1>2, <1>3, <1>4, <1>5, <1>6, <1>7, <1>8 DEF Next

\* A later signal keeps a list of active signals in order.
LEMMA OneMoreInOrder ==
  ASSUME NEW s \in Seq(Signals), NEW x \in Signals,
         \A i \in DOMAIN s :
           /\ s[i] \in Active /\ Place[s[i]] < Place[x]
           /\ \A j \in DOMAIN s : i < j => Place[s[i]] < Place[s[j]]
  PROVE  LET r == s \o IfActive(x)
         IN  /\ r \in Seq(Signals)
             /\ \A i \in DOMAIN r :
                  /\ r[i] \in Active /\ (r[i] = x \/ Place[r[i]] < Place[x])
                  /\ \A j \in DOMAIN r : i < j => Place[r[i]] < Place[r[j]]
<1>1. CASE x \in Active
  <2>1. s \o IfActive(x) = Append(s, x)
    BY <1>1 DEF IfActive
  <2>2. /\ Append(s, x) \in Seq(Signals)
        /\ DOMAIN Append(s, x) = DOMAIN s \cup {Len(s) + 1}
        /\ Len(s) \in Nat /\ DOMAIN s = 1 .. Len(s)
        /\ Append(s, x)[Len(s) + 1] = x
        /\ \A i \in DOMAIN s : Append(s, x)[i] = s[i]
    OBVIOUS
  <2> QED BY <1>1, <2>1, <2>2
<1>2. CASE x \notin Active
  <2>1. s \o IfActive(x) = s
    BY <1>2 DEF IfActive
  <2> QED BY <2>1
<1> QED BY <1>1, <1>2

\* What telemetry.New sets out to build: the active signals, in order.
LEMMA ActiveInOrder ==
  LET s == IfActive("metrics") \o IfActive("traces") \o IfActive("logs")
  IN  /\ s \in Seq(Signals)
      /\ \A i \in DOMAIN s :
           /\ s[i] \in Active
           /\ \A j \in DOMAIN s : i < j => Place[s[i]] < Place[s[j]]
<1> DEFINE m == IfActive("metrics")
           mt == m \o IfActive("traces")
<1>1. Place["metrics"] = 1 /\ Place["traces"] = 2 /\ Place["logs"] = 3
  BY DEF Place
<1>2. /\ m \in Seq(Signals)
      /\ \A i \in DOMAIN m :
           /\ m[i] \in Active /\ m[i] = "metrics"
           /\ \A j \in DOMAIN m : ~(i < j)
  <2>1. CASE "metrics" \in Active
    <3>1. m = <<"metrics">>
      BY <2>1 DEF IfActive
    <3>2. "metrics" \in Signals
      BY DEF Signals
    <3>3. m \in Seq(Signals) /\ DOMAIN m = {1} /\ m[1] = "metrics"
      BY <3>1, <3>2, JustOne
    <3> QED BY <2>1, <3>3
  <2>2. CASE "metrics" \notin Active
    <3>1. m = <<>>
      BY <2>2 DEF IfActive
    <3> QED BY <3>1, NothingYet
  <2> QED BY <2>1, <2>2
<1>3. /\ mt \in Seq(Signals)
      /\ \A i \in DOMAIN mt :
           /\ mt[i] \in Active /\ (mt[i] = "traces" \/ Place[mt[i]] < Place["traces"])
           /\ \A j \in DOMAIN mt : i < j => Place[mt[i]] < Place[mt[j]]
  <2>1. "traces" \in Signals
    BY DEF Signals
  <2> HIDE DEF m
  <2> QED BY <1>1, <1>2, <2>1, OneMoreInOrder
<1>4. "logs" \in Signals /\ \A x \in Signals : Place[x] < Place["traces"] => Place[x] < Place["logs"]
  BY <1>1 DEF Signals
<1> HIDE DEF mt
<1>5. \A i \in DOMAIN mt : Place[mt[i]] < Place["logs"]
  BY <1>1, <1>3, <1>4
<1> QED BY <1>3, <1>4, <1>5, OneMoreInOrder DEF mt

\* The providers are built in order, each of a signal the configuration selects.
LEMMA OrderStep ==
  ASSUME TypeOK, BuiltInOrder, EnvironmentRestricts, [Next]_vars
  PROVE  BuiltInOrder'
<1> USE DEF BuiltInOrder
<1>1. CASE Load
  BY <1>1 DEF Load
<1>2. CASE LoadFails \/ StepFails \/ ExporterFails \/ BridgeFails \/ TargetFails
  BY <1>2 DEF LoadFails, StepFails, ExporterFails, BridgeFails, TargetFails, Exit
<1>3. CASE StartHealth
  BY <1>3 DEF StartHealth
<1>4. CASE BuildProduct
  <2>1. /\ todo' \in Seq(Signals)
        /\ \A i \in DOMAIN todo' :
             /\ todo'[i] \in Active
             /\ \A j \in DOMAIN todo' : i < j => Place[todo'[i]] < Place[todo'[j]]
    BY <1>4, ActiveInOrder DEF BuildProduct
  <2>2. built' = {} /\ building' = "" /\ config' = config /\ stage' = "telemetry"
    BY <1>4 DEF BuildProduct
  <2>3. \A s \in Active : config.telemetry.enabled /\ s \in config.telemetry.signals
    BY DEF Active
  <2> QED BY <2>1, <2>2, <2>3
<1>5. CASE BuildExporter
  BY <1>5 DEF BuildExporter
<1>6. CASE BuildProvider
  <2>1. /\ stage = "telemetry" /\ building # "" /\ stage' = stage /\ config' = config
        /\ built' = built \cup {building} /\ building' = "" /\ todo' = Tail(todo)
    BY <1>6 DEF BuildProvider
  <2>2. /\ todo \in Seq(Signals) /\ todo # <<>> /\ building = Head(todo)
        /\ \A i \in DOMAIN todo :
            /\ config.telemetry.enabled /\ todo[i] \in config.telemetry.signals
            /\ \A s \in built : Place[s] < Place[todo[i]]
            /\ \A j \in DOMAIN todo : i < j => Place[todo[i]] < Place[todo[j]]
    BY <2>1
  <2>3. /\ 1 \in DOMAIN todo /\ Head(todo) = todo[1]
        /\ todo' \in Seq(Signals)
        /\ \A i \in DOMAIN todo' : i \in Nat \ {0} /\ i + 1 \in DOMAIN todo /\ todo'[i] = todo[i + 1]
    <3>1. todo \in Seq(Signals) /\ todo # <<>>
      BY <2>2
    <3> QED BY <2>1, <3>1, FirstAndRest
  <2>4. ASSUME NEW i \in DOMAIN todo'
        PROVE  /\ config.telemetry.enabled /\ todo'[i] \in config.telemetry.signals
               /\ \A s \in built \cup {building} : Place[s] < Place[todo'[i]]
               /\ \A j \in DOMAIN todo' : i < j => Place[todo'[i]] < Place[todo'[j]]
    <3>1. /\ i \in Nat \ {0} /\ i + 1 \in DOMAIN todo /\ todo'[i] = todo[i + 1]
      BY <2>3
    <3>2. Place[building] < Place[todo[i + 1]]
      <4>1. 1 < i + 1
        BY <3>1, Successors
      <4> QED BY <2>2, <2>3, <3>1, <4>1
    <3>3. \A s \in built \cup {building} : Place[s] < Place[todo'[i]]
      BY <2>2, <3>1, <3>2
    <3>4. ASSUME NEW j \in DOMAIN todo', i < j
          PROVE  Place[todo'[i]] < Place[todo'[j]]
      <4>1. j \in Nat \ {0} /\ j + 1 \in DOMAIN todo /\ todo'[j] = todo[j + 1]
        BY <2>3
      <4>2. i + 1 < j + 1
        BY <3>1, <3>4, <4>1, Successors
      <4> QED BY <2>2, <3>1, <4>1, <4>2
    <3> QED BY <2>2, <3>1, <3>3, <3>4
  <2> QED BY <2>1, <2>3, <2>4
<1>7. CASE TelemetryReady \/ StartLoops \/ LoopsEnd
  BY <1>7 DEF TelemetryReady, StartLoops, LoopsEnd
<1>8. CASE BuildTarget
  BY <1>8 DEF BuildTarget
<1>9. CASE ShutdownNext
  BY <1>9 DEF ShutdownNext
<1>10. CASE UNCHANGED vars
  BY <1>10 DEF vars
<1> QED BY <1>1, <1>2, <1>3, <1>4, <1>5, <1>6, <1>7, <1>8, <1>9, <1>10 DEF Next

\* Each target gets its own authenticator.
LEMMA TargetsStep ==
  ASSUME TypeOK, LoadedFirst, TargetsInTurn, [Next]_vars
  PROVE  TargetsInTurn'
<1> USE DEF TargetsInTurn
<1>1. CASE Load
  BY <1>1 DEF Load
<1>2. CASE LoadFails \/ StepFails \/ ExporterFails \/ BridgeFails \/ TargetFails
  <2>1. PICK s \in {"load", "health", "product", "telemetry", "targets"} :
          Exit(s) /\ config' = config /\ credentials' = credentials
    BY <1>2 DEF LoadFails, StepFails, ExporterFails, BridgeFails, TargetFails, Exit
  <2>2. stage' = "exited" /\ failed' = s /\ stage = s
    BY <2>1 DEF Exit
  <2>3. Authenticator(config'.targets[1].auth) = Authenticator(config.targets[1].auth)
    BY <2>1
  <2>4. credentials' # <<>> => s # "load"
    BY <2>1, <2>2
  <2> QED BY <2>1, <2>2, <2>4 DEF Authenticator
<1>3. CASE StartHealth \/ BuildProduct
  BY <1>3 DEF StartHealth, BuildProduct, Authenticator
<1>4. CASE BuildExporter \/ BuildProvider
  BY <1>4 DEF BuildExporter, BuildProvider, Authenticator
<1>5. CASE TelemetryReady
  <2>1. /\ stage = "telemetry" /\ credentials = <<>> /\ credentials' = <<>> /\ config' = config
        /\ todo' = [i \in DOMAIN config.targets |-> i] /\ stage' = "targets"
    BY <1>5 DEF TelemetryReady
  <2>2. config = WithDefaults(Loaded) /\ file \in ConfigFile
    BY <2>1 DEF LoadedFirst, TypeOK
  <2>3. file.targets \in Seq(TargetBlock)
    BY <2>2 DEF ConfigFile
  <2>4. /\ Len(config.targets) = Len(file.targets) /\ Len(file.targets) \in Nat
        /\ DOMAIN config.targets = 1 .. Len(file.targets)
    BY <2>2, <2>3, LoadedTargets
  <2>5. /\ todo' \in Seq(Nat) /\ Len(todo') = Len(config.targets)
        /\ \A k \in DOMAIN todo' : todo'[k] = k
    BY <2>1, <2>4
  <2> QED BY <2>1, <2>4, <2>5
<1>6. CASE BuildTarget
  <2>1. /\ stage = "targets" /\ todo # <<>> /\ todo' = Tail(todo)
        /\ credentials' = Append(credentials, Authenticator(config.targets[Head(todo)].auth))
        /\ stage' = stage /\ failed' = failed /\ config' = config
    BY <1>6 DEF BuildTarget
  <2>2. credentials \in Seq(Credential) /\ failed = ""
    BY <2>1 DEF TypeOK
  <2>3. /\ Head(todo) = Len(credentials) + 1
        /\ Authenticator(config.targets[Head(todo)].auth) \in Credential
    BY <2>1, NextTarget
  <2>4. /\ todo \in Seq(Nat) /\ Len(credentials) + Len(todo) = Len(config.targets)
        /\ \A k \in DOMAIN todo : todo[k] = Len(credentials) + k
    BY <2>1
  <2>5. /\ Len(credentials') = Len(credentials) + 1 /\ Len(credentials) \in Nat
        /\ \A i \in DOMAIN credentials' :
             IF i = Len(credentials) + 1
             THEN credentials'[i] = Authenticator(config.targets[i].auth)
             ELSE credentials # <<>> /\ i \in DOMAIN credentials /\ credentials'[i] = credentials[i]
    <3> DEFINE x == Authenticator(config.targets[Head(todo)].auth)
    <3>1. x \in Credential /\ credentials' = Append(credentials, x)
          /\ x = Authenticator(config.targets[Len(credentials) + 1].auth)
      BY <2>1, <2>3
    <3> HIDE DEF x
    <3>2. /\ Len(credentials') = Len(credentials) + 1 /\ Len(credentials) \in Nat
          /\ \A i \in DOMAIN credentials' :
               IF i = Len(credentials) + 1 THEN credentials'[i] = x
               ELSE credentials # <<>> /\ i \in DOMAIN credentials /\ credentials'[i] = credentials[i]
      <4>1. credentials \in Seq(Credential) /\ credentials' = Append(credentials, x) /\ x \in Credential
        BY <2>2, <3>1
      <4> QED BY <4>1, OneMore
    <3> QED BY <3>1, <3>2
  <2>6. /\ todo' \in Seq(Nat) /\ Len(todo') = Len(todo) - 1
        /\ \A k \in DOMAIN todo' :
             k \in Nat \ {0} /\ k + 1 \in DOMAIN todo /\ todo'[k] = todo[k + 1]
    BY <2>1, <2>4, FirstAndRest
  <2>7. Len(credentials') + Len(todo') = Len(config.targets) /\ Len(todo') \in Nat
    <3>1. Len(todo) \in Nat /\ Len(todo') \in Nat
      BY <2>4, <2>6
    <3>2. Len(credentials') + Len(todo') = (Len(credentials) + 1) + (Len(todo) - 1)
      BY <2>5, <2>6
    <3>3. (Len(credentials) + 1) + (Len(todo) - 1) = Len(credentials) + Len(todo)
      BY <2>5, <3>1, SumsRegroup
    <3> QED BY <2>4, <3>1, <3>2, <3>3
  <2>8. ASSUME NEW k \in DOMAIN todo'
        PROVE  todo'[k] = Len(credentials') + k
    <3>1. todo'[k] = Len(credentials) + (k + 1) /\ k \in Nat \ {0}
      BY <2>4, <2>6
    <3>2. Len(credentials) + (k + 1) = (Len(credentials) + 1) + k
      BY <2>5, <3>1, SumsRegroup
    <3> QED BY <2>5, <3>1, <3>2
  <2>9. ASSUME NEW i \in DOMAIN credentials'
        PROVE  credentials'[i] = Authenticator(config.targets[i].auth)
    BY <2>5
  <2>10. Len(credentials') <= Len(config.targets)
    BY <2>5, <2>7, SumsRegroup
  <2> QED BY <2>1, <2>2, <2>6, <2>7, <2>8, <2>9, <2>10 DEF Authenticator
<1>7. CASE StartLoops \/ LoopsEnd
  BY <1>7 DEF StartLoops, LoopsEnd, Authenticator
<1>8. CASE ShutdownNext
  BY <1>8 DEF ShutdownNext, Authenticator
<1>9. CASE UNCHANGED vars
  BY <1>9 DEF vars, Authenticator
<1> QED BY <1>1, <1>2, <1>3, <1>4, <1>5, <1>6, <1>7, <1>8, <1>9 DEF Next

\* Whatever the environment says, it turns signals off and never gets the
\* configured headers sent to an endpoint of its own.
LEMMA EnvironmentStep ==
  ASSUME TypeOK, OpenAsBuilt, BuiltInOrder, EnvironmentRestricts, [Next]_vars
  PROVE  EnvironmentRestricts'
<1> USE DEF EnvironmentRestricts
<1>1. CASE Load
  BY <1>1 DEF Load, BuiltInOrder, TypeOK
<1>2. CASE LoadFails \/ StepFails \/ TargetFails
  BY <1>2 DEF LoadFails, StepFails, TargetFails, Exit
<1>3. CASE ExporterFails \/ BridgeFails
  BY <1>3 DEF ExporterFails, BridgeFails, ShutdownBuilt, Exit
<1>4. CASE StartHealth \/ BuildProduct
  BY <1>4 DEF StartHealth, BuildProduct, Signals
<1>5. CASE BuildExporter
  <2>1. /\ stage' = "telemetry" /\ built' = built /\ config' = config
        /\ open' = open \cup {Head(todo)}
        /\ destination' = [destination EXCEPT ![Head(todo)] = Destination(Head(todo))]
    BY <1>5 DEF BuildExporter
  <2>2. Destination(Head(todo)).headers = "export.otlp" => Destination(Head(todo)).endpoint = "export.otlp"
    BY DEF Destination
  <2>3. destination \in [Signals -> [endpoint : Sources, headers : Sources]]
    BY DEF TypeOK
  <2>4. \A s \in Signals : destination'[s] = IF s = Head(todo) THEN Destination(s) ELSE destination[s]
    BY <2>1, <2>3
  <2> QED BY <2>1, <2>2, <2>4
<1>6. CASE BuildProvider
  <2>1. config.telemetry.enabled /\ building \in config.telemetry.signals
    <3>1. stage = "telemetry" /\ building # ""
      BY <1>6 DEF BuildProvider
    <3>2. todo \in Seq(Signals) /\ todo # <<>> /\ building = Head(todo)
      BY <3>1 DEF BuiltInOrder
    <3>3. 1 \in DOMAIN todo /\ building = todo[1]
      BY <3>2, FirstAndRest
    <3> QED BY <3>1, <3>3 DEF BuiltInOrder
  <2> QED BY <1>6, <2>1 DEF BuildProvider
<1>7. CASE TelemetryReady \/ BuildTarget \/ LoopsEnd
  BY <1>7 DEF TelemetryReady, BuildTarget, LoopsEnd
<1>8. CASE StartLoops
  BY <1>8 DEF StartLoops, OpenAsBuilt, Past, TypeOK
<1>9. CASE ShutdownNext
  BY <1>9 DEF ShutdownNext
<1>10. CASE UNCHANGED vars
  BY <1>10 DEF vars
<1> QED BY <1>1, <1>2, <1>3, <1>4, <1>5, <1>6, <1>7, <1>8, <1>9, <1>10 DEF Next

\* When a provider fails, those before it are shut down, and the bridge can
\* fail only as the first.
LEMMA LeftBehindStep ==
  ASSUME TypeOK, OpenAsBuilt, BuiltInOrder, NothingLeftBehind, [Next]_vars
  PROVE  NothingLeftBehind'
<1> USE DEF NothingLeftBehind
<1>1. CASE ExporterFails
  <2>1. stage = "telemetry" /\ building = "" /\ failed = "" /\ open' = open \ built
    BY <1>1 DEF ExporterFails, Exit, ShutdownBuilt, TypeOK
  <2>2. open \cap Signals = built
    BY <2>1 DEF OpenAsBuilt, Past, TypeOK, Signals
  <2> QED BY <2>1, <2>2
<1>2. CASE BridgeFails
  <2>1. stage = "telemetry" /\ building = "metrics" /\ failed = "" /\ open' = open \ {"metrics"}
    BY <1>2 DEF BridgeFails, Exit, TypeOK
  <2>2. todo \in Seq(Signals) /\ todo # <<>> /\ Head(todo) = "metrics"
    BY <2>1 DEF BuiltInOrder
  <2>3. 1 \in DOMAIN todo /\ todo[1] = "metrics"
    BY <2>2, FirstAndRest
  <2>4. \A s \in built : Place[s] < Place["metrics"]
    BY <2>1, <2>3 DEF BuiltInOrder
  <2>5. built = {}
    <3>1. Place["metrics"] = 1 /\ Place["traces"] = 2 /\ Place["logs"] = 3
      BY DEF Place
    <3>2. built \subseteq {"metrics", "traces", "logs"}
      BY DEF TypeOK, Signals
    <3> QED BY <2>4, <3>1, <3>2
  <2>6. open \cap Signals \subseteq {"metrics"}
    BY <2>1, <2>5 DEF OpenAsBuilt, Past, Signals
  <2> QED BY <2>1, <2>6
<1>3. CASE LoadFails \/ StepFails \/ TargetFails
  BY <1>3 DEF LoadFails, StepFails, TargetFails, Exit
<1>4. CASE UNCHANGED failed /\ failed = ""
  BY <1>4
<1>5. CASE UNCHANGED vars
  BY <1>5 DEF vars
<1>6. CASE Load \/ StartHealth \/ BuildProduct \/ BuildExporter \/ BuildProvider \/ TelemetryReady
           \/ BuildTarget \/ StartLoops \/ LoopsEnd \/ ShutdownNext
  <2>1. failed' = failed /\ stage # "exited"
    BY <1>6 DEF Load, StartHealth, BuildProduct, BuildExporter, BuildProvider, TelemetryReady,
                BuildTarget, StartLoops, LoopsEnd, ShutdownNext
  <2> QED BY <1>4, <2>1 DEF TypeOK
<1> QED BY <1>1, <1>2, <1>3, <1>5, <1>6 DEF Next

\* What is shut down comes first in the order of what is still open.
LEMMA LogsStep ==
  ASSUME TypeOK, OpenAsBuilt, BuiltInOrder, LogsOutliveTheRest, [Next]_vars
  PROVE  LogsOutliveTheRest'
<1> USE DEF LogsOutliveTheRest
<1>1. CASE ShutdownNext
  <2>1. CASE stage' = "exited"
    BY <2>1
  <2>2. CASE stage' # "exited"
    <3>1. PICK i \in DOMAIN ShutdownOrder :
            /\ \A j \in 1 .. i - 1 : ShutdownOrder[j] \notin open
            /\ open' = open \ {ShutdownOrder[i]}
      BY <1>1, <2>2 DEF ShutdownNext
    <3>2. stage = "stopping" /\ built' = built
      BY <1>1 DEF ShutdownNext
    <3>3. /\ DOMAIN ShutdownOrder = 1 .. 5
          /\ ShutdownOrder[1] = "product" /\ ShutdownOrder[2] = "metrics"
          /\ ShutdownOrder[3] = "traces" /\ ShutdownOrder[4] = "logs" /\ ShutdownOrder[5] = "health"
      BY DEF ShutdownOrder
    <3>4. CASE i = 4
      BY <3>1, <3>2, <3>3, <3>4
    <3>5. CASE i # 4
      BY <3>1, <3>2, <3>3, <3>5
    <3> QED BY <3>4, <3>5
  <2> QED BY <2>1, <2>2
<1>2. CASE LoopsEnd
  <2>1. stage = "running" /\ failed = "" /\ open' = open /\ built' = built
    BY <1>2 DEF LoopsEnd, TypeOK
  <2> QED BY <2>1 DEF OpenAsBuilt, Past
<1>3. CASE Load \/ StartHealth \/ BuildProduct \/ BuildExporter \/ BuildProvider \/ TelemetryReady
           \/ BuildTarget \/ StartLoops
  BY <1>3 DEF Load, StartHealth, BuildProduct, BuildExporter, BuildProvider, TelemetryReady,
              BuildTarget, StartLoops
<1>4. CASE LoadFails \/ StepFails \/ ExporterFails \/ BridgeFails \/ TargetFails
  BY <1>4 DEF LoadFails, StepFails, ExporterFails, BridgeFails, TargetFails, Exit
<1>5. CASE UNCHANGED vars
  BY <1>5 DEF vars
<1> QED BY <1>1, <1>2, <1>3, <1>4, <1>5 DEF Next

\* Every step preserves the invariant.
LEMMA StepInv == Inv /\ [Next]_vars => Inv'
BY TypeStep, OpenStep, LoadedStep, OrderStep, TargetsStep, EnvironmentStep, LeftBehindStep,
   LogsStep DEF Inv

\* The inductive invariant, for every configuration file and environment.
THEOREM Invariant == Spec => []Inv
<1>1. Init => Inv
  BY InitInv
<1>2. Inv /\ [Next]_vars => Inv'
  BY StepInv
<1> QED BY <1>1, <1>2, PTL DEF Spec

-----------------------------------------------------------------------------
(* The properties *)

\* Every target that main builds has one credential, the one its auth block
\* names: buildAuthenticator on what resolveEnvVars and validateAuth let through.
THEOREM CredentialIsTheOneNamed == Spec => []OneCredential
<1>1. Inv => OneCredential
  <2> SUFFICES ASSUME Inv, NEW i \in DOMAIN credentials
               PROVE  LET auth  == file.targets[i].auth
                          named == {auth.token, auth.privateKeyPath}
                                     \cup {env.vars[v] : v \in {auth.tokenEnv, auth.privateKeyEnv} \ {""}}
                      IN  /\ credentials[i].secret # ""
                          /\ IF auth = NoAuth THEN credentials[i].secret = env.vars["GITHUB_TOKEN"]
                                              ELSE credentials[i].secret \in named
                          /\ credentials[i].kind = "app" <=> auth.appID # 0
    BY DEF OneCredential
  <2>1. file \in ConfigFile /\ env \in Environment /\ credentials \in Seq(Credential)
    BY DEF Inv, TypeOK
  <2>2. credentials # <<>> /\ i \in 1 .. Len(credentials)
    BY <2>1
  <2>3. /\ ~(stage = "load" \/ failed = "load")
        /\ Len(credentials) <= Len(config.targets)
        /\ credentials[i] = Authenticator(config.targets[i].auth)
    BY <2>2 DEF Inv, TargetsInTurn
  <2>4. Accepted /\ config = WithDefaults(Loaded)
    BY <2>3 DEF Inv, LoadedFirst
  <2>5. i \in DOMAIN config.targets
    <3>1. file.targets \in Seq(TargetBlock)
      BY <2>1 DEF ConfigFile
    <3>2. Len(config.targets) = Len(file.targets) /\ DOMAIN config.targets = 1 .. Len(file.targets)
      BY <2>1, <2>4, <3>1, LoadedTargets
    <3>3. Len(credentials) \in Nat /\ Len(file.targets) \in Nat
      BY <2>1, <3>1
    <3> QED BY <2>2, <2>3, <3>2, <3>3
  <2>6. /\ file.targets[i].auth \in AuthBlock
        /\ config.targets[i].auth = Resolved(file.targets[i].auth)
        /\ VariablesSet(file.targets[i].auth)
        /\ ValidAuth(Resolved(file.targets[i].auth))
    BY <2>1, <2>4, <2>5, TargetCredential
  <2> QED BY <2>1, <2>3, <2>6, AuthResolved
<1> QED BY <1>1, Invariant, PTL

\* Whatever Load accepts, a cycle fits into the stall timeout and the targets'
\* names are distinct.
THEOREM ConfigIsUsable == Spec => []ConfigUsable
<1>1. Inv => ConfigUsable
  <2> SUFFICES ASSUME Inv, config # <<>>
               PROVE  /\ 0 < config.interval /\ config.interval < config.stallTimeout
                      /\ DistinctNames(config)
    BY DEF ConfigUsable
  <2>1. Accepted /\ config = WithDefaults(Loaded) /\ file \in ConfigFile
    BY DEF Inv, LoadedFirst, TypeOK
  <2>2. Valid(Loaded)
    BY <2>1 DEF Accepted
  <2>3. /\ Loaded.interval = file.interval /\ Loaded.stallTimeout = file.stallTimeout
        /\ config.interval = file.interval
        /\ config.stallTimeout = IF file.stallTimeout = 0 THEN 2 * file.interval + Hour
                                                          ELSE file.stallTimeout
    BY <2>1, LoadedNumbers
  <2>4. file.interval \in Int /\ file.stallTimeout \in Int /\ Hour \in Nat \ {0}
    BY <2>1, ParameterAssumption DEF ConfigFile, ParameterAssumption
  <2>5. 0 < config.interval /\ config.interval < config.stallTimeout
    <3>1. /\ file.interval > 0 /\ file.stallTimeout >= 0
          /\ file.stallTimeout > 0 => file.stallTimeout > file.interval
      BY <2>2, <2>3 DEF Valid, ValidExport, ValidHealth, ValidStall
    <3>2. CASE file.stallTimeout = 0
      <4>1. config.stallTimeout = 2 * file.interval + Hour
        BY <2>3, <3>2
      <4> QED BY <2>3, <2>4, <3>1, <4>1
    <3>3. CASE file.stallTimeout # 0
      <4>1. config.stallTimeout = file.stallTimeout
        BY <2>3, <3>3
      <4> QED BY <2>3, <2>4, <3>1, <3>3, <4>1
    <3> QED BY <3>2, <3>3
  <2>6. config.targets = Loaded.targets
    BY <2>1 DEF WithDefaults, Loaded, ConfigFile
  <2>7. DistinctNames(config)
    BY <2>2, <2>6 DEF Valid, DistinctNames
  <2> QED BY <2>5, <2>7
<1> QED BY <1>1, Invariant, PTL

\* The environment turns signals off, never on, leaves the product metrics
\* alone, and never receives the headers of export.otlp.
THEOREM EnvironmentOnlyRestricts == Spec => []EnvironmentRestricts
<1>1. Inv => EnvironmentRestricts
  BY DEF Inv
<1> QED BY <1>1, Invariant, PTL

\* telemetry.New leaves no provider and no exporter behind when it fails.
THEOREM NothingIsLeftBehind == Spec => []NothingLeftBehind
<1>1. Inv => NothingLeftBehind
  BY DEF Inv
<1> QED BY <1>1, Invariant, PTL

\* While the process stops, the logs end after everything that may log.
THEOREM LogsEndLast == Spec => []LogsOutliveTheRest
<1>1. Inv => LogsOutliveTheRest
  BY DEF Inv
<1> QED BY <1>1, Invariant, PTL
=============================================================================
