------------------------------ MODULE BookProofs ------------------------------
(***************************************************************************)
(* That what the checks of a deployment let through works, and that the    *)
(* images in storage stand.                                                *)
(***************************************************************************)
EXTENDS BookPipeline, Deployment, ArtifactStorage, FiniteSetTheorems, WellFoundedInduction, TLAPS

-----------------------------------------------------------------------------
(* Deployment: types *)

AnyValue == UNION {Values[v] : v \in Settings}
Environments == {e \in [Settings -> AnyValue] : \A v \in Settings : e[v] \in Values[v]}
Processes == [state: {"down", "up", "crashed"}, env: Environments, checked: BOOLEAN]

DeployTypeOK ==
    /\ panel \in [Services -> Environments]
    /\ checked \subseteq Services
    /\ process \in [Services -> Processes]
    /\ published.by \in {"none"} \cup Services /\ published.env \in Environments
    /\ secrets \in [Targets -> Secrets]
    /\ dbudget \in [edits: Nat, settings: SUBSET Settings, deploys: Nat, books: Nat,
                    slips: 0..1, migrations: Nat]

LEMMA EnvFields ==
    ASSUME NEW e \in Environments
    PROVE  /\ e.NODE_ENV \in {"production", "development"}
           /\ e.ENABLE_GENERATION_WORKER \in BOOLEAN
           /\ e.WEB_APP_URL \in {"https", "http"}
           /\ e.NEXT_PUBLIC_API_URL \in {"unset", "https/api", "https", "http/api"}
           /\ e.NEXT_PUBLIC_AUTH_MODE \in {"unset", "jwt", "dev"}
           /\ {e.STORY_GENERATION_PROVIDER, e.IMAGE_GENERATION_PROVIDER,
               e.CHARACTER_PROFILE_PROVIDER} \subseteq {"mock", "openai", "other"}
           /\ e.EMAIL_PROVIDER \in {"console", "resend", "other"}
           /\ {e.PDF_STORAGE_DRIVER, e.IMAGE_STORAGE_DRIVER} \subseteq {"local", "s3", "r2"}
           /\ e.PDF_STORAGE_BUCKET \in {"ours", "another"}
<1>1. \A v \in Settings : e[v] \in Values[v]
  BY DEF Environments
<1> QED
  BY <1>1 DEF Settings, Values, Drivers, Selections

LEMMA ValidEnvironment == ValidEnv \in Environments
<1>1. \A v \in Settings : ValidEnv[v] \in Values[v]
  <2>1. ValidEnv["PDF_STORAGE"] \in Values["PDF_STORAGE"]
    <3>1. ValidEnv["PDF_STORAGE"] = CloudVars
      BY DEF ValidEnv
    <3>2. Values["PDF_STORAGE"] = {CloudVars} \union {CloudVars \ {v} : v \in CloudVars}
      BY DEF Values
    <3> QED
      BY <3>1, <3>2
  <2>2. ValidEnv["ALLOWED_ORIGINS"] \in Values["ALLOWED_ORIGINS"]
    BY DEF ValidEnv, Values
  <2>3. \A v \in Settings \ {"PDF_STORAGE", "ALLOWED_ORIGINS"} : ValidEnv[v] \in Values[v]
    <3> DEFINE Flags == {"required", "ENABLE_GENERATION_WORKER", "OPENAI_API_KEY",
                         "MOCK_FAILURES_ENABLED", "RESEND_API_KEY", "EMAIL_FROM",
                         "EMAIL_DEBUG_LOG_LINKS", "STRIPE_BILLING_ENABLED", "stripe"}
               Modes == {"NODE_ENV", "PRODUCT_MODE", "NEXT_PUBLIC_PRODUCT_MODE", "AUTH_MODE",
                         "WEB_APP_URL", "NEXT_PUBLIC_API_URL", "NEXT_PUBLIC_AUTH_MODE"}
               Choices == {"STORY_GENERATION_PROVIDER", "IMAGE_GENERATION_PROVIDER",
                           "CHARACTER_PROFILE_PROVIDER", "EMAIL_PROVIDER", "PDF_STORAGE_DRIVER",
                           "IMAGE_STORAGE_DRIVER", "PDF_STORAGE_BUCKET"}
    <3>1. \A v \in Flags : ValidEnv[v] \in Values[v]
      <4>1. /\ ValidEnv["required"] \in Values["required"]
            /\ ValidEnv["ENABLE_GENERATION_WORKER"] \in Values["ENABLE_GENERATION_WORKER"]
            /\ ValidEnv["OPENAI_API_KEY"] \in Values["OPENAI_API_KEY"]
            /\ ValidEnv["MOCK_FAILURES_ENABLED"] \in Values["MOCK_FAILURES_ENABLED"]
            /\ ValidEnv["RESEND_API_KEY"] \in Values["RESEND_API_KEY"]
            /\ ValidEnv["EMAIL_FROM"] \in Values["EMAIL_FROM"]
            /\ ValidEnv["EMAIL_DEBUG_LOG_LINKS"] \in Values["EMAIL_DEBUG_LOG_LINKS"]
            /\ ValidEnv["STRIPE_BILLING_ENABLED"] \in Values["STRIPE_BILLING_ENABLED"]
            /\ ValidEnv["stripe"] \in Values["stripe"]
        BY DEF Values, ValidEnv
      <4> QED
        BY <4>1
    <3>2. \A v \in Modes : ValidEnv[v] \in Values[v]
      BY DEF Values, ValidEnv
    <3>3. \A v \in Choices : ValidEnv[v] \in Values[v]
      BY DEF Values, ValidEnv, Drivers, Selections
    <3>4. Settings = Flags \cup Modes \cup Choices \cup {"PDF_STORAGE", "ALLOWED_ORIGINS"}
      BY DEF Settings, Values
    <3> HIDE DEF Flags, Modes, Choices
    <3> QED
      BY <3>1, <3>2, <3>3, <3>4
  <2> QED
    BY <2>1, <2>2, <2>3
<1>2. ValidEnv = [v \in Settings |-> ValidEnv[v]]
  BY DEF Settings, Values, ValidEnv
<1>3. \A v \in Settings : ValidEnv[v] \in AnyValue
  BY <1>1 DEF AnyValue
<1> HIDE DEF ValidEnv
<1> QED
  BY <1>1, <1>2, <1>3 DEF Environments

-----------------------------------------------------------------------------
(* Deployment: what a process has passed *)

ProcessInv ==
    /\ \A s \in checked : RunPreflight(panel[s], s)
    /\ \A s \in Services :
          /\ process[s].checked => RunPreflight(process[s].env, s)
          /\ process[s].state = "up" => Boots(s, process[s].env)
          /\ process[s].state = "crashed" => ~Boots(s, process[s].env)

PublishedInv ==
    published.by = "worker" /\ published.env.NODE_ENV = "production"
        => /\ Boots("worker", published.env)
           /\ BookAt("worker", published.env) \subseteq stored

\* A target's settings are right, or the one mistake is in one of them.
OneMistake ==
    \/ \A t \in Targets : secrets[t] = SecretsOf(t)
    \/ /\ dbudget.slips = 0
       /\ \A t \in Targets : \A f, g \in {"urlHost", "urlName", "postgres", "host", "name"} :
             secrets[t][f] # SecretsOf(t)[f] /\ secrets[t][g] # SecretsOf(t)[g] => f = g

DeployInv == DeployTypeOK /\ ProcessInv /\ PublishedInv /\ OneMistake /\ MigratesWhatWasMeant

LEMMA AtMostOne ==
    ASSUME NEW S, IsFiniteSet(S), Cardinality(S) <= 1, NEW a \in S, NEW b \in S
    PROVE  a = b
<1>1. SUFFICES ASSUME a # b PROVE FALSE
  OBVIOUS
<1>2. Cardinality({a, b}) = 2
  <2>1. IsFiniteSet({a}) /\ Cardinality({a}) = 1
    BY FS_Singleton
  <2>2. Cardinality({a} \cup {b}) = Cardinality({a}) + 1
    BY <1>1, <2>1, FS_AddElement
  <2>3. {a} \cup {b} = {a, b}
    OBVIOUS
  <2> QED
    BY <2>1, <2>2, <2>3
<1>3. Cardinality({a, b}) <= Cardinality(S)
  BY FS_Subset
<1> QED
  BY <1>2, <1>3, FS_CardinalityType

LEMMA EditKeepsDeploy ==
    ASSUME DeployInv, NEW s \in Services, Edit(s)
    PROVE  DeployInv'
<1>1. PICK setting \in dbudget.settings : \E value \in Values[setting] :
          panel' = [panel EXCEPT ![s][setting] = value]
  BY DEF Edit
<1>2. PICK value \in Values[setting] : panel' = [panel EXCEPT ![s][setting] = value]
  BY <1>1
<1>3. setting \in Settings
  BY DEF DeployInv, DeployTypeOK
<1>4. [panel[s] EXCEPT ![setting] = value] \in Environments
  <2>1. panel[s] \in [Settings -> AnyValue] /\ \A v \in Settings : panel[s][v] \in Values[v]
    BY DEF DeployInv, DeployTypeOK, Environments
  <2>2. value \in AnyValue
    BY <1>2, <1>3 DEF AnyValue
  <2> QED
    BY <1>2, <1>3, <2>1, <2>2 DEF Environments
<1>5. panel' = [panel EXCEPT ![s] = [panel[s] EXCEPT ![setting] = value]]
  BY <1>2
<1>6. panel' \in [Services -> Environments] /\ \A t \in Services \ {s} : panel'[t] = panel[t]
  BY <1>4, <1>5 DEF DeployInv, DeployTypeOK
<1>7. DeployTypeOK'
  <2>1. dbudget.edits - 1 \in Nat /\ dbudget' = [dbudget EXCEPT !.edits = @ - 1]
    BY DEF Edit, DeployInv, DeployTypeOK
  <2> QED
    BY <1>6, <2>1 DEF Edit, DeployInv, DeployTypeOK
<1>8. ProcessInv'
  BY <1>6 DEF Edit, DeployInv, DeployTypeOK, ProcessInv
<1>9. OneMistake'
  BY DEF Edit, DeployInv, DeployTypeOK, OneMistake
<1> QED
  BY <1>7, <1>8, <1>9 DEF Edit, DeployInv, PublishedInv, MigratesWhatWasMeant

LEMMA PreflightKeepsDeploy ==
    ASSUME DeployInv, NEW s \in Services, Preflight(s)
    PROVE  DeployInv'
<1>1. DeployTypeOK' /\ ProcessInv'
  BY DEF Preflight, DeployInv, DeployTypeOK, ProcessInv
<1> QED
  BY <1>1 DEF Preflight, DeployInv, PublishedInv, OneMistake, MigratesWhatWasMeant

\* What a production worker publishes is on no container's disk.
LEMMA WorkerPublishesToBuckets ==
    ASSUME NEW e \in Environments, e.NODE_ENV = "production", Boots("worker", e),
           NEW a \in BookAt("worker", e), NEW s \in Services
    PROVE  a.place # <<"disk", s>>
<1>1. e.PDF_STORAGE_DRIVER # "local" /\ e.IMAGE_STORAGE_DRIVER # "local"
  BY DEF Boots, AssertPdfStorageSupportsWorker, AssertImageStorageSupportsWorker
<1>2. a.place = <<e.PDF_STORAGE_BUCKET, "endpoint" \in e.PDF_STORAGE>>
  BY <1>1 DEF BookAt, PlaceFor
<1>3. e.PDF_STORAGE_BUCKET # "disk"
  BY EnvFields
<1> QED
  BY <1>2, <1>3

LEMMA DeployKeepsDeploy ==
    ASSUME DeployInv, NEW s \in Services, Deploy(s)
    PROVE  DeployInv'
<1> DEFINE new == [state |-> IF Boots(s, panel[s]) THEN "up" ELSE "crashed",
                   env |-> panel[s], checked |-> s \in checked]
<1>1. process' = [process EXCEPT ![s] = new]
  BY DEF Deploy
<1>2. /\ new.state = (IF Boots(s, panel[s]) THEN "up" ELSE "crashed")
      /\ new.env = panel[s] /\ new.checked = (s \in checked)
  OBVIOUS
<1>3. new \in Processes
  BY DEF DeployInv, DeployTypeOK, Processes
<1> HIDE DEF new
<1>4. DeployTypeOK'
  <2>1. dbudget.deploys - 1 \in Nat /\ dbudget' = [dbudget EXCEPT !.deploys = @ - 1]
    BY DEF Deploy, DeployInv, DeployTypeOK
  <2> QED
    BY <1>1, <1>3, <2>1 DEF Deploy, DeployInv, DeployTypeOK
<1>5. ProcessInv'
  <2>1. /\ process'[s] = new
        /\ \A t \in Services \ {s} : process'[t] = process[t]
    BY <1>1 DEF DeployInv, DeployTypeOK
  <2>2. checked' = checked /\ panel' = panel
    BY DEF Deploy
  <2>3. /\ new.checked => RunPreflight(new.env, s)
        /\ new.state = "up" => Boots(s, new.env)
        /\ new.state = "crashed" => ~Boots(s, new.env)
    BY <1>2 DEF DeployInv, ProcessInv
  <2> QED
    BY <2>1, <2>2, <2>3 DEF DeployInv, ProcessInv
<1>6. PublishedInv'
  <2>1. SUFFICES ASSUME published.by = "worker", published.env.NODE_ENV = "production"
                 PROVE  /\ Boots("worker", published.env)
                        /\ \A a \in BookAt("worker", published.env) : a \in stored'
    <3>1. published' = published
      BY DEF Deploy
    <3> QED
      BY <3>1 DEF PublishedInv
  <2>2. /\ Boots("worker", published.env)
        /\ \A a \in BookAt("worker", published.env) : a \in stored
    BY <2>1 DEF DeployInv, PublishedInv
  <2>3. \A a \in BookAt("worker", published.env) : a.place # <<"disk", s>>
    BY <2>1, <2>2, WorkerPublishesToBuckets DEF DeployInv, DeployTypeOK
  <2> QED
    BY <2>2, <2>3 DEF Deploy
<1>7. OneMistake'
  BY DEF Deploy, DeployInv, DeployTypeOK, OneMistake
<1> QED
  BY <1>4, <1>5, <1>6, <1>7 DEF Deploy, DeployInv, MigratesWhatWasMeant

LEMMA PublishKeepsDeploy ==
    ASSUME DeployInv, NEW s \in Services, PublishBook(s)
    PROVE  DeployInv'
<1>1. process[s].state = "up" /\ process[s].env \in Environments
  BY DEF PublishBook, Consumers, DeployInv, DeployTypeOK, Processes
<1>2. DeployTypeOK'
  <2>1. dbudget.books - 1 \in Nat /\ dbudget' = [dbudget EXCEPT !.books = @ - 1]
    BY DEF PublishBook, DeployInv, DeployTypeOK
  <2> QED
    BY <1>1, <2>1 DEF PublishBook, DeployInv, DeployTypeOK
<1>3. ProcessInv'
  BY DEF PublishBook, DeployInv, ProcessInv
<1>4. PublishedInv'
  BY <1>1 DEF PublishBook, DeployInv, PublishedInv, ProcessInv
<1>5. OneMistake'
  BY DEF PublishBook, DeployInv, DeployTypeOK, OneMistake
<1> QED
  BY <1>2, <1>3, <1>4, <1>5 DEF PublishBook, DeployInv, MigratesWhatWasMeant

SecretFields == {"urlHost", "urlName", "postgres", "host", "name"}

LEMMA SecretKeepsDeploy ==
    ASSUME DeployInv, NEW t \in Targets, EditSecret(t)
    PROVE  DeployInv'
<1>1. PICK wrong \in Secrets :
          /\ Cardinality({f \in DOMAIN wrong : wrong[f] # secrets[t][f]}) = 1
          /\ secrets' = [secrets EXCEPT ![t] = wrong]
  BY DEF EditSecret
<1>2. dbudget.slips = 1 /\ dbudget' = [dbudget EXCEPT !.slips = @ - 1]
  BY DEF EditSecret, DeployInv, DeployTypeOK
<1>3. dbudget'.slips = 0
  BY <1>2 DEF DeployInv, DeployTypeOK
<1>4. DeployTypeOK'
  BY <1>1, <1>2 DEF EditSecret, DeployInv, DeployTypeOK
<1>5. OneMistake'
  <2>1. secrets[t] = SecretsOf(t) /\ \A u \in Targets : secrets[u] = SecretsOf(u)
    BY <1>2 DEF DeployInv, OneMistake
  <2>2. DOMAIN wrong = SecretFields
    BY DEF Secrets, SecretFields
  <2> DEFINE Wrong == {f \in DOMAIN wrong : wrong[f] # secrets[t][f]}
  <2>3. IsFiniteSet(Wrong)
    <3> DEFINE Two == {"urlHost"} \cup {"urlName"}
               Three == Two \cup {"postgres"}
               Four == Three \cup {"host"}
    <3>1. IsFiniteSet(Two)
      BY FS_Singleton, FS_AddElement
    <3>2. IsFiniteSet(Three)
      BY <3>1, FS_AddElement
    <3>3. IsFiniteSet(Four)
      BY <3>2, FS_AddElement
    <3>4. IsFiniteSet(Four \cup {"name"})
      BY <3>3, FS_AddElement
    <3>5. SecretFields = Four \cup {"name"}
      BY DEF SecretFields
    <3> QED
      BY <2>2, <3>4, <3>5, FS_Subset
  <2>4. \A f, g \in SecretFields : wrong[f] # SecretsOf(t)[f] /\ wrong[g] # SecretsOf(t)[g] => f = g
    <3>1. SUFFICES ASSUME NEW f \in SecretFields, NEW g \in SecretFields,
                          wrong[f] # SecretsOf(t)[f], wrong[g] # SecretsOf(t)[g]
                   PROVE  f = g
      OBVIOUS
    <3>2. f \in Wrong /\ g \in Wrong /\ Cardinality(Wrong) <= 1
      BY <1>1, <2>1, <2>2, <3>1
    <3> QED
      BY <2>3, <3>2, AtMostOne
  <2>5. \A u \in Targets : secrets'[u] = IF u = t THEN wrong ELSE SecretsOf(u)
    BY <1>1, <2>1 DEF DeployInv, DeployTypeOK
  <2>6. \A u \in Targets : \A f, g \in SecretFields :
            secrets'[u][f] # SecretsOf(u)[f] /\ secrets'[u][g] # SecretsOf(u)[g] => f = g
    BY <2>4, <2>5
  <2> QED
    BY <1>3, <2>6 DEF OneMistake, SecretFields
<1> QED
  BY <1>4, <1>5 DEF EditSecret, DeployInv, ProcessInv, PublishedInv, MigratesWhatWasMeant



LEMMA SlipsAreFew ==
    ASSUME NEW meant, NEW target, NEW phrase, NEW branch
    PROVE  /\ IsFiniteSet(SlippedIn(meant, target, phrase, branch))
           /\ Cardinality(SlippedIn(meant, target, phrase, branch)) \in Nat
<1>1. IsFiniteSet(1..3)
  <2>1. 1 \in Int /\ 3 \in Int
    OBVIOUS
  <2> QED
    BY <2>1, FS_Interval
<1>2. SlippedIn(meant, target, phrase, branch) \subseteq 1..3
  BY DEF SlippedIn
<1> QED
  BY <1>1, <1>2, FS_Subset, FS_CardinalityType

LEMMA TwoSlips ==
    ASSUME NEW meant, NEW target, NEW phrase, NEW branch, target # meant, phrase # meant
    PROVE  1 \in SlippedIn(meant, target, phrase, branch)
             /\ 2 \in SlippedIn(meant, target, phrase, branch)
<1> DEFINE chosen == <<target, phrase, branch>>
           right == <<meant, meant, "main">>
<1>1. chosen[1] # right[1] /\ chosen[2] # right[2]
  OBVIOUS
<1> HIDE DEF chosen, right
<1>2. 1 \in {i \in 1..3 : chosen[i] # right[i]} /\ 2 \in {i \in 1..3 : chosen[i] # right[i]}
  BY <1>1
<1> QED
  BY <1>2 DEF SlippedIn, chosen, right

\* What the guard lets through, with one mistake at most between the operator's
\* three choices and the target's five settings.
LEMMA GuardHolds ==
    ASSUME DeployInv, NEW meant \in Targets, NEW target \in Targets, NEW phrase, NEW branch,
           Cardinality(SlippedIn(meant, target, phrase, branch)) <= dbudget.slips,
           CheckMigrationTarget(target, phrase, secrets[target], branch)
    PROVE  /\ secrets[target].urlHost = meant /\ secrets[target].urlName \in {meant, ""}
           /\ meant = "production" => branch = "main"
<1>1. target = meant
  <2>1. SUFFICES ASSUME target # meant PROVE FALSE
    OBVIOUS
  <2>2. phrase = target
    BY DEF CheckMigrationTarget
  <2>3. Cardinality(SlippedIn(meant, target, phrase, branch)) <= 1
    BY SlipsAreFew DEF DeployInv, DeployTypeOK
  <2>4. 1 = 2
    BY <2>1, <2>2, <2>3, TwoSlips, SlipsAreFew, AtMostOne
  <2> QED
    BY <2>4
<1>2. meant = "production" => branch = "main"
  BY <1>1 DEF CheckMigrationTarget
<1>3. secrets[target].urlHost = target /\ secrets[target].urlName \in {target, ""}
  <2>1. /\ secrets[target].urlHost = secrets[target].host
        /\ secrets[target].urlName # "" => secrets[target].urlName = secrets[target].name
    BY DEF CheckMigrationTarget
  <2>2. /\ SecretsOf(target).urlHost = target /\ SecretsOf(target).host = target
        /\ SecretsOf(target).urlName = target /\ SecretsOf(target).name = target
    BY DEF SecretsOf
  <2>3. CASE secrets[target] = SecretsOf(target)
    BY <2>2, <2>3
  <2>4. CASE \A f, g \in {"urlHost", "urlName", "postgres", "host", "name"} :
               secrets[target][f] # SecretsOf(target)[f]
                 /\ secrets[target][g] # SecretsOf(target)[g] => f = g
    <3>1. secrets[target].urlHost = target \/ secrets[target].host = target
      BY <2>2, <2>4
    <3>2. secrets[target].urlName = target \/ secrets[target].name = target
      BY <2>2, <2>4
    <3> QED
      BY <2>1, <3>1, <3>2
  <2> QED
    BY <2>3, <2>4 DEF DeployInv, OneMistake
<1> QED
  BY <1>1, <1>2, <1>3

LEMMA MigrateKeepsDeploy ==
    ASSUME DeployInv, NEW meant \in Targets, Migrate(meant)
    PROVE  DeployInv'
<1>1. PICK target, phrase, branch :
          /\ target \in Targets
          /\ Cardinality(SlippedIn(meant, target, phrase, branch)) <= dbudget.slips
          /\ CheckMigrationTarget(target, phrase, secrets[target], branch)
          /\ migrated' = migrated \union
               {[meant |-> meant, host |-> secrets[target].urlHost,
                 name |-> secrets[target].urlName, branch |-> branch]}
          /\ dbudget' = [dbudget EXCEPT !.migrations = @ - 1,
                           !.slips = @ - Cardinality(SlippedIn(meant, target, phrase, branch))]
  BY DEF Migrate
<1>2. PICK slips \in Nat :
          /\ slips <= dbudget.slips
          /\ dbudget' = [dbudget EXCEPT !.migrations = @ - 1, !.slips = @ - slips]
  BY <1>1, SlipsAreFew
<1>3. /\ secrets[target].urlHost = meant /\ secrets[target].urlName \in {meant, ""}
      /\ meant = "production" => branch = "main"
  BY <1>1, GuardHolds, ZenonT(60)
<1>4. MigratesWhatWasMeant'
  <2>1. MigratesWhatWasMeant
    BY DEF DeployInv
  <2>2. ASSUME NEW m \in migrated'
        PROVE  /\ m.host = m.meant /\ m.name \in {m.meant, ""}
               /\ m.meant = "production" => m.branch = "main"
    <3>1. CASE m \in migrated
      BY <2>1, <3>1 DEF MigratesWhatWasMeant
    <3>2. CASE m = [meant |-> meant, host |-> secrets[target].urlHost,
                    name |-> secrets[target].urlName, branch |-> branch]
      BY <1>3, <3>2
    <3> QED
      BY <1>1, <3>1, <3>2
  <2> QED
    BY <2>2 DEF MigratesWhatWasMeant
<1>5. /\ dbudget.migrations \in Nat /\ dbudget.migrations > 0 /\ dbudget.slips \in 0..1
      /\ dbudget.migrations - 1 \in Nat /\ dbudget.slips - slips \in 0..1
  <2>1. dbudget.migrations > 0
    BY DEF Migrate
  <2>2. dbudget.migrations \in Nat /\ dbudget.slips \in 0..1
    BY DEF DeployInv, DeployTypeOK
  <2> QED
    BY <1>2, <2>1, <2>2
<1>6. UNCHANGED <<panel, checked, process, stored, published, secrets>>
  BY DEF Migrate
<1>7. /\ dbudget'.slips = dbudget.slips - slips
      /\ dbudget' \in [edits: Nat, settings: SUBSET Settings, deploys: Nat, books: Nat,
                       slips: 0..1, migrations: Nat]
  <2>1. dbudget \in [edits: Nat, settings: SUBSET Settings, deploys: Nat, books: Nat,
                     slips: 0..1, migrations: Nat]
    BY DEF DeployInv, DeployTypeOK
  <2> QED
    BY <1>2, <1>5, <2>1
<1>8. DeployTypeOK'
  BY <1>6, <1>7 DEF DeployInv, DeployTypeOK
<1>9. OneMistake'
  <2>1. dbudget.slips = 0 => dbudget'.slips = 0
    BY <1>2, <1>5, <1>7
  <2> QED
    BY <1>6, <2>1 DEF DeployInv, OneMistake
<1> QED
  BY <1>4, <1>6, <1>8, <1>9 DEF DeployInv, ProcessInv, PublishedInv

LEMMA DeployInitially ==
    ASSUME DeploymentInit PROVE DeployInv
<1>1. DeployTypeOK
  <2>1. \A t \in Targets : SecretsOf(t) \in Secrets
    BY DEF SecretsOf, Secrets, Targets
  <2>2. Down \in Processes
    BY ValidEnvironment DEF Down, Processes
  <2>3. NothingPublished.by = "none" /\ NothingPublished.env \in Environments
    BY ValidEnvironment DEF NothingPublished
  <2>4. dbudget \in [edits: Nat, settings: SUBSET Settings, deploys: Nat, books: Nat,
                     slips: 0..1, migrations: Nat]
    BY DeploymentAssumption DEF DeploymentInit
  <2> HIDE DEF Environments
  <2> QED
    BY <2>1, <2>2, <2>3, <2>4, ValidEnvironment DEF DeploymentInit, DeployTypeOK
<1>2. ProcessInv
  BY DEF DeploymentInit, ProcessInv, Down
<1>3. PublishedInv /\ OneMistake /\ MigratesWhatWasMeant
  BY DEF DeploymentInit, PublishedInv, NothingPublished, OneMistake, MigratesWhatWasMeant
<1> QED
  BY <1>1, <1>2, <1>3 DEF DeployInv

LEMMA DeployStep ==
    ASSUME DeployInv, [DeploymentNext]_deploymentVars PROVE DeployInv'
<1>1. CASE UNCHANGED deploymentVars
  BY <1>1 DEF deploymentVars, DeployInv, DeployTypeOK, ProcessInv, PublishedInv, OneMistake,
              MigratesWhatWasMeant
<1>2. CASE \E s \in Services : Edit(s) \/ Preflight(s) \/ Deploy(s) \/ PublishBook(s)
  BY <1>2, EditKeepsDeploy, PreflightKeepsDeploy, DeployKeepsDeploy, PublishKeepsDeploy
<1>3. CASE \E t \in Targets : EditSecret(t) \/ Migrate(t)
  BY <1>3, SecretKeepsDeploy, MigrateKeepsDeploy
<1> QED
  BY <1>1, <1>2, <1>3 DEF DeploymentNext

LEMMA CheckedBootHolds ==
    ASSUME NEW s \in Services, NEW e \in Environments, RunPreflight(e, s), ~Boots(s, e)
    PROVE  BeyondPreflight(e)
<1>1. SUFFICES ASSUME ~BeyondPreflight(e) PROVE Boots(s, e)
  BY DEF BeyondPreflight
<1>2. /\ CreateStoryGenerationProvider(e) /\ CreateImageGenerationProvider(e)
      /\ CreateCharacterProfileProvider(e)
  BY <1>1, EnvFields DEF RunPreflight, SchemaAccepts, BeyondPreflight, Selectable,
     CreateStoryGenerationProvider, CreateImageGenerationProvider,
     CreateCharacterProfileProvider
<1>3. CreateEmailService(e)
  BY <1>1, EnvFields DEF RunPreflight, SchemaAccepts, BeyondPreflight, CreateEmailService
<1>4. StorageCreated(e)
  BY DEF RunPreflight, CheckCloudStorageCompleteness, StorageCreated
<1>5. AssertPdfStorageSupportsWorker(e) /\ AssertImageStorageSupportsWorker(e)
  BY DEF RunPreflight, CheckStorageTopology, AssertPdfStorageSupportsWorker,
         AssertImageStorageSupportsWorker
<1> QED
  BY <1>2, <1>3, <1>4, <1>5 DEF Boots, RunPreflight

LEMMA DeployedWork ==
    ASSUME DeployInv PROVE CheckedDeploymentsWork
<1>1. CheckedBoots
  BY CheckedBootHolds DEF DeployInv, DeployTypeOK, Processes, ProcessInv, CheckedBoots
<1>2. OneConsumer
  <2>1. SUFFICES ASSUME \A s \in Services : process[s].state = "up" /\ process[s].checked
                 PROVE  Consumers = {"worker"}
    BY DEF OneConsumer
  <2>2. ~process["api"].env.ENABLE_GENERATION_WORKER
    BY <2>1 DEF DeployInv, ProcessInv, RunPreflight, CheckWorkerApiTopology, Services
  <2> QED
    BY <2>1, <2>2 DEF Consumers, Consumes, Services
<1>3. SignUpWorks
  <2> DEFINE env == process["api"].env
  <2>1. SUFFICES ASSUME process["api"].state = "up", process["api"].checked,
                        "unset" \notin {env.NEXT_PUBLIC_API_URL, env.NEXT_PUBLIC_AUTH_MODE}
                 PROVE  /\ CorsAllows(env) /\ env.NEXT_PUBLIC_API_URL = "https/api"
                        /\ Authenticates(env) /\ CookieReturns(env) /\ LettersLeave(env)
    BY DEF SignUpWorks
  <2>2. env \in Environments /\ RunPreflight(env, "api")
    BY <2>1 DEF DeployInv, DeployTypeOK, Processes, ProcessInv, Services
  <2>3. CreateEmailService(env)
    BY <2>1 DEF DeployInv, ProcessInv, Boots, Services
  <2>4. LettersLeave(env)
    BY <2>2, <2>3 DEF LettersLeave, RunPreflight, CheckEmailProductionCapable,
                      CreateEmailService
  <2> QED
    BY <2>1, <2>2, <2>4 DEF RunPreflight, CheckAuthMode, CheckWebAppUrlHttps, CheckAllowedOrigins,
       CheckWebApiConsistency, CorsAllows, Authenticates, CookieReturns
<1>4. PublishedIsServed
  <2>1. SUFFICES ASSUME published.by = "worker", published.env.NODE_ENV = "production",
                        SameStorage(process["api"].env, published.env)
                 PROVE  BookAt("api", process["api"].env) \subseteq stored
    BY DEF PublishedIsServed
  <2>2. Boots("worker", published.env) /\ BookAt("worker", published.env) \subseteq stored
    BY <2>1 DEF DeployInv, PublishedInv
  <2>3. published.env.PDF_STORAGE_DRIVER # "local" /\ published.env.IMAGE_STORAGE_DRIVER # "local"
    BY <2>1, <2>2 DEF Boots, AssertPdfStorageSupportsWorker, AssertImageStorageSupportsWorker
  <2>4. BookAt("api", process["api"].env) = BookAt("worker", published.env)
    BY <2>1, <2>3 DEF SameStorage, BookAt, PlaceFor
  <2> QED
    BY <2>2, <2>4
<1> QED
  BY <1>1, <1>2, <1>3, <1>4 DEF CheckedDeploymentsWork, DeployInv

\* What preflight, start-up checks and the migration guard let through works, for any
\* number of edits, deploys, books and migrations, with one mistake of the operator.
THEOREM DeploymentsWork == DeploymentSpec => []CheckedDeploymentsWork
<1>1. DeploymentInit => DeployInv
  BY DeployInitially
<1>2. DeployInv /\ [DeploymentNext]_deploymentVars => DeployInv'
  BY DeployStep
<1>3. DeployInv => CheckedDeploymentsWork
  BY DeployedWork
<1> QED
  BY <1>1, <1>2, <1>3, PTL DEF DeploymentSpec

-----------------------------------------------------------------------------
(* Storage: types *)

AllKeys == ImageKeys \cup ThumbKeys
Positions == 1..Len(Formats)
ReadTypes == [key: AllKeys, at: Positions, got: {"idle", "asking", "opening", "error"} \cup Contents,
              format: {"none"} \cup Extensions]
Images == [key: ImageKeys, hash: {"none", "unknown"} \cup Pictures]
ClaimSteps == {"waiting", "inspect", "current", "source", "find", "copy", "copying", "verify",
               "bind", "draw", "save", "saving", "render", "done", "failed"}
ClaimTypes == [step: ClaimSteps, read: ReadTypes, expected: Images, bytes: Contents,
               bound: {"none"} \cup Pictures, adopted: BOOLEAN]
ViewerTypes == [step: {"idle", "thumb", "cover", "save", "saving"}, read: ReadTypes, of: Images]
BudgetTypes ==
    [driver: {"cloud", "local"}, source: {"none", "torn"} \cup Pictures,
     hash: {"none", "unknown"} \cup Pictures, format: Extensions, draws: SUBSET Extensions,
     claims: 1..2, changed: BOOLEAN, faults: Int, reads: Int, removals: Int, closed: BOOLEAN]

\* The file that a read opens has a format.
ReadOK(read) == read \in ReadTypes /\ (read.got = "opening" => read.format \in Extensions)
FilesOK == files \in [AllKeys -> [Extensions -> Contents]]
\* A claim that does not read holds no read in progress.
AtRest == {"waiting", "find", "copy", "copying", "draw", "save", "saving"}
ClaimFits(d) ==
    /\ d \in ClaimTypes /\ ReadOK(d.read)
    /\ d.step \in {"copy", "copying", "save", "saving"} => d.read.format \in Extensions
    /\ d.step \in AtRest => ~Reading(d.read)
    /\ d.step = "copying" => d.read.got \in Contents
ClaimsOK ==
    /\ claim \in [RivalClaims -> ClaimTypes]
    /\ \A c \in RivalClaims : ClaimFits(claim[c])
RowsOK == owner \in {"none"} \cup RivalClaims /\ record \in Images /\ onShow \in Images
ViewersOK ==
    /\ viewer \in [CoverReaders -> ViewerTypes]
    /\ \A r \in CoverReaders : ReadOK(viewer[r].read)
BudgetOK == sbudget \in BudgetTypes
StorageTypeOK == FilesOK /\ ClaimsOK /\ RowsOK /\ ViewersOK /\ BudgetOK

-----------------------------------------------------------------------------
(* Storage: what is under a key *)

Empty(key) == \A g \in Extensions : files[key][g] = "none"
\* Whatever is under the key, in any format, is x.
KeyHolds(key, x) == \A g \in Extensions : files[key][g] \in {"none", x}
\* x is under the key in one format, and nothing in any other.
Only(key, f, x) ==
    /\ f \in Extensions
    /\ \A g \in Extensions : files[key][g] = IF g = f THEN x ELSE "none"
Sole(key, x) == \E f \in Extensions : Only(key, f, x)

\* A read has passed the formats before the one it is at, and not lost what it saw.
Scanned(read) ==
    /\ \A j \in Positions : j < read.at => files[read.key][Formats[j]] = "none"
    /\ read.got = "opening" => read.format \in Extensions /\ files[read.key][read.format] # "none"
    /\ read.got = "none" => Empty(read.key)

-----------------------------------------------------------------------------
(* Storage: claims *)

\* What the owner has made of its own key so far.
Blank == {"inspect", "current", "source", "find", "copy", "draw", "save"}
OwnKey(c, d) ==
    /\ d.step \in Blank => Empty(ClaimKey(c))
    /\ d.step = "copying" => Only(ClaimKey(c), d.read.format, "torn")
    /\ d.step \in {"verify", "bind"} => Sole(ClaimKey(c), d.bytes)
    /\ d.step = "saving" /\ Local => Only(ClaimKey(c), d.read.format, "torn")
    /\ d.step = "saving" /\ ~Local => Only(ClaimKey(c), d.read.format, c)
    /\ d.step \in {"render", "done"} => Sole(ClaimKey(c), d.bound)

\* What the owner has read.
OwnReads(c, d) ==
    /\ d.step \in {"current", "verify", "bind"} => d.read.key = ClaimKey(c)
    /\ d.step = "current" => d.read.got \in {"asking", "none"}
    /\ d.step = "verify" => Scanned(d.read) /\ d.read.got # "error"
    /\ d.step = "source" => d.read.key = d.expected.key
    /\ d.step \in {"source", "verify", "bind"} /\ d.read.got \in Contents \ {"none"}
         => KeyHolds(d.read.key, d.read.got)
    /\ d.step = "copying" => d.read.got = d.bytes
    /\ d.step \in {"find", "copy"} => KeyHolds(d.expected.key, d.bytes)
    /\ d.step \in {"find", "copy", "copying", "verify", "bind"}
         => d.bytes \in Pictures /\ d.expected.hash \in {"unknown", d.bytes}

Own(c, d) == OwnKey(c, d) /\ OwnReads(c, d)

\* What a claim has recorded, whether or not it is still the owner.
Bound(c, d) ==
    /\ d.step = "waiting" => owner # c /\ Empty(ClaimKey(c))
    /\ d.step \notin {"render", "done", "failed"} => d.bound = "none" /\ ~d.adopted
    /\ d.step \in {"render", "done"} => d.bound # "none"
    /\ d.bound # "none" => KeyHolds(ClaimKey(c), d.bound)
    /\ d.adopted => d.expected.hash \in {"unknown", d.bound}

\* An image under a claim's key that the claim has recorded.
IsBound(image) ==
    \E c \in RivalClaims : claim[c].bound # "none"
                             /\ image = [key |-> ClaimKey(c), hash |-> claim[c].bound]
Expected(image) == image.key = "source" \/ IsBound(image)

\* The records are named by bound variables, which a step does not change.
RecordGood ==
    \A image \in {record} :
       /\ Expected(image)
       /\ \A c \in RivalClaims : owner = c /\ claim[c].step \in {"render", "done"}
             => image = [key |-> ClaimKey(c), hash |-> claim[c].bound]
ShowGood ==
    \A image \in {onShow} : image = NoImage \/ (IsBound(image) /\ Sole(image.key, image.hash))
ClaimGood(c) ==
    \A d \in {claim[c]} : Bound(c, d) /\ Expected(d.expected) /\ (owner = c => Own(c, d))
SourceGood == \A x \in {sbudget.source} : KeyHolds("source", x)

-----------------------------------------------------------------------------
(* Storage: readers *)

ThumbGood ==
    \A c \in RivalClaims : \A g \in Extensions :
        LET x == files[ThumbKey(ClaimKey(c))][g] IN
        \/ x = "none"
        \/ Local /\ x = "torn"
        \/ claim[c].bound # "none" /\ x = ThumbOf[claim[c].bound]

MayServe(hash, x) == x \in {hash, ThumbOf[hash]} \/ (Local /\ x = "torn")
ViewGood(v) ==
    /\ v.step # "idle" => IsBound(v.of)
    /\ v.step = "thumb" => v.read.key = ThumbKey(v.of.key)
    /\ v.step = "thumb" /\ v.read.got \in Contents \ {"none"} => MayServe(v.of.hash, v.read.got)
    /\ v.step = "cover" => v.read.key = v.of.key
    /\ v.step = "cover" /\ v.read.got \in Contents => v.read.got \in {"none", v.of.hash}
    /\ v.step \in {"save", "saving"} => v.read.got = ThumbOf[v.of.hash]
ViewerGood(r) == \A v \in {viewer[r]} : ViewGood(v)

StorageInv ==
    /\ StorageTypeOK /\ SourceGood /\ RecordGood /\ ShowGood /\ ThumbGood /\ ServedIsPublished
    /\ \A c \in RivalClaims : ClaimGood(c)
    /\ \A r \in CoverReaders : ViewerGood(r)


-----------------------------------------------------------------------------
(* Storage: keys, formats and reads *)

LEMMA KeysDiffer ==
    ASSUME NEW c \in RivalClaims
    PROVE  /\ ClaimKey(c) \in ImageKeys /\ ClaimKey(c) # "source"
           /\ \A d \in RivalClaims : ClaimKey(d) = ClaimKey(c) => d = c
           /\ ThumbKey(ClaimKey(c)) \in ThumbKeys
           /\ \A d \in RivalClaims : ThumbKey(ClaimKey(d)) = ThumbKey(ClaimKey(c)) => d = c
           /\ \A key \in ImageKeys : ThumbKey(key) \in ThumbKeys
           /\ \A key \in ImageKeys, other \in ThumbKeys : key # other
           /\ ImageKeys \subseteq AllKeys /\ ThumbKeys \subseteq AllKeys
BY DEF RivalClaims, ClaimKey, ImageKeys, ThumbKeys, ThumbKey, AllKeys

LEMMA FormatFacts ==
    /\ 1 \in Positions /\ Positions \subseteq Nat /\ Len(Formats) \in Positions
    /\ DOMAIN Formats = Positions
    /\ \A i \in Positions : Formats[i] \in Extensions
    /\ \A f \in Extensions : \E i \in Positions : Formats[i] = f
    /\ \A i \in Positions : i < Len(Formats) => i + 1 \in Positions
BY StorageAssumption DEF Positions, Extensions

LEMMA ContentFacts ==
    /\ "none" \in Contents /\ "torn" \in Contents /\ Pictures \subseteq Contents
    /\ "none" \notin Pictures /\ "torn" \notin Pictures /\ "unknown" \notin Pictures
    /\ RivalClaims \subseteq Pictures
    /\ \A p \in Pictures : ThumbOf[p] \in Contents
    /\ Contents \cap {"idle", "asking", "opening", "error"} = {}
<1>1. \A p \in Pictures : ThumbOf[p] \in {"thumb_of_a", "thumb_of_b", "thumb_of_c1", "thumb_of_c2"}
  BY DEF ThumbOf, Pictures, RivalClaims
<1> QED
  BY <1>1 DEF Contents, Pictures, RivalClaims

\* The first format under which a key holds anything.
LEMMA FirstPresent ==
    ASSUME NEW P \in SUBSET Positions, P # {}
    PROVE  (CHOOSE i \in P : \A j \in P : i <= j) \in P
<1>1. P \subseteq Nat
  BY FormatFacts
<1>2. PICK i \in P : \A j \in P : <<j, i>> \notin OpToRel(<, Nat)
  BY <1>1, NatLessThanWellFounded, WFMin
<1>3. \A j \in P : i <= j
  <2>1. ASSUME NEW j \in P PROVE i <= j
    <3>1. i \in Nat /\ j \in Nat
      BY <1>1, <1>2
    <3>2. ~(j < i)
      BY <1>2, <3>1 DEF OpToRel
    <3> QED
      BY <3>1, <3>2
  <2> QED
    BY <2>1
<1> QED
  BY <1>2, <1>3

LEMMA FreshReads ==
    /\ ReadOK(NoRead)
    /\ \A key \in AllKeys : ReadOK(ReadOf(key))
    /\ NoRead.got = "idle"
    /\ \A key : ReadOf(key).key = key /\ ReadOf(key).got = "asking" /\ ReadOf(key).at = 1
<1>1. "source" \in AllKeys /\ 1 \in Positions
  BY FormatFacts DEF AllKeys, ImageKeys
<1> QED
  BY <1>1 DEF NoRead, ReadOf, ReadOK, ReadTypes

\* What one step of a read may bring.
LEMMA ReadStep ==
    ASSUME FilesOK, NEW read, ReadOK(read), Reading(read)
    PROVE  /\ ReadOK(Progress(read)) /\ Progress(read).key = read.key
           /\ Progress(read).got \in Contents \ {"none"}
                => \E f \in Extensions : files[read.key][f] = Progress(read).got
<1> DEFINE f == Formats[read.at]
           content == files[read.key][f]
<1>1. /\ read.key \in AllKeys /\ read.at \in Positions /\ f \in Extensions
      /\ content \in Contents /\ read.got \in {"asking", "opening"}
  BY FormatFacts DEF ReadOK, ReadTypes, Reading, FilesOK
<1>2. CASE read.got = "asking"
  <2>1. Progress(read) = Asked(read)
    BY <1>2 DEF Progress
  <2>2. CASE content # "none" /\ Local
    <3>1. Asked(read) = [read EXCEPT !.got = "opening", !.format = f]
      BY <2>2 DEF Asked
    <3> QED
      BY <1>1, <2>1, <3>1, ContentFacts DEF ReadOK, ReadTypes
  <2>3. CASE content # "none" /\ ~Local
    <3>1. Asked(read) = [read EXCEPT !.got = content, !.format = f]
      BY <2>3 DEF Asked
    <3>2. content # "opening"
      BY <1>1, ContentFacts
    <3>3. Asked(read).got = content /\ Asked(read).key = read.key /\ Asked(read) \in ReadTypes
      BY <1>1, <3>1 DEF ReadOK, ReadTypes
    <3> QED
      BY <1>1, <2>1, <3>2, <3>3 DEF ReadOK
  <2>4. CASE content = "none" /\ read.at < Len(Formats)
    <3>1. Asked(read) = [read EXCEPT !.at = @ + 1]
      BY <2>4 DEF Asked
    <3>2. read.at + 1 \in Positions
      BY <1>1, <2>4, FormatFacts
    <3> QED
      BY <1>1, <1>2, <2>1, <3>1, <3>2, ContentFacts DEF ReadOK, ReadTypes
  <2>5. CASE content = "none" /\ ~(read.at < Len(Formats))
    <3>1. Asked(read) = [read EXCEPT !.got = "none"]
      BY <2>5 DEF Asked
    <3> QED
      BY <1>1, <2>1, <3>1, ContentFacts DEF ReadOK, ReadTypes
  <2> QED
    BY <2>2, <2>3, <2>4, <2>5
<1>3. CASE read.got = "opening"
  <2> DEFINE found == files[read.key][read.format]
  <2>1. read.format \in Extensions /\ found \in Contents
    BY <1>1, <1>3 DEF ReadOK, FilesOK
  <2>2. Progress(read) = [read EXCEPT !.got = IF found = "none" THEN "error" ELSE found]
    BY <1>3 DEF Progress, Opened
  <2>3. found # "opening"
    BY <2>1, ContentFacts
  <2> HIDE DEF found
  <2>4. /\ Progress(read) \in ReadTypes /\ Progress(read).key = read.key
        /\ Progress(read).got = IF found = "none" THEN "error" ELSE found
    BY <1>1, <2>1, <2>2 DEF ReadOK, ReadTypes
  <2> QED
    BY <2>1, <2>3, <2>4, ContentFacts DEF ReadOK, found
<1> QED
  BY <1>1, <1>2, <1>3

\* A read of a key that nobody writes or removes misses nothing.
LEMMA ReadScans ==
    ASSUME FilesOK, NEW read, ReadOK(read), Reading(read), Scanned(read)
    PROVE  Scanned(Progress(read)) /\ Progress(read).got # "error"
<1> DEFINE f == Formats[read.at]
           content == files[read.key][f]
           next == Progress(read)
<1> SUFFICES Scanned(next) /\ next.got # "error"
  OBVIOUS
<1>1. /\ read.key \in AllKeys /\ read.at \in Positions /\ f \in Extensions
      /\ content \in Contents /\ read.got \in {"asking", "opening"}
  BY FormatFacts DEF ReadOK, ReadTypes, Reading, FilesOK
<1>2. next.key = read.key
  BY ReadStep
<1>3. CASE read.got = "asking"
  <2>1. next = Asked(read)
    BY <1>3 DEF Progress
  <2>2. CASE content # "none" /\ Local
    <3>1. Asked(read) = [read EXCEPT !.got = "opening", !.format = f]
      BY <2>2 DEF Asked
    <3>2. next.at = read.at /\ next.got = "opening" /\ next.format = f
      BY <1>1, <2>1, <3>1 DEF ReadOK, ReadTypes
    <3> HIDE DEF next
    <3> QED
      BY <1>1, <1>2, <2>2, <3>2 DEF Scanned
  <2>3. CASE content # "none" /\ ~Local
    <3>1. Asked(read) = [read EXCEPT !.got = content, !.format = f]
      BY <2>3 DEF Asked
    <3>2. next.at = read.at /\ next.got = content
      BY <1>1, <2>1, <3>1 DEF ReadOK, ReadTypes
    <3>3. next.got \notin {"opening", "none", "error"}
      BY <1>1, <2>3, <3>2, ContentFacts
    <3> HIDE DEF next
    <3> QED
      BY <1>1, <1>2, <3>2, <3>3 DEF Scanned
  <2>4. CASE content = "none" /\ read.at < Len(Formats)
    <3>1. Asked(read) = [read EXCEPT !.at = @ + 1]
      BY <2>4 DEF Asked
    <3>2. next.at = read.at + 1 /\ next.got = "asking"
      BY <1>1, <1>3, <2>1, <3>1 DEF ReadOK, ReadTypes
    <3>3. \A j \in Positions : j < read.at + 1 => j < read.at \/ j = read.at
      BY <1>1, FormatFacts
    <3> HIDE DEF next
    <3> QED
      BY <1>1, <1>2, <2>4, <3>2, <3>3 DEF Scanned
  <2>5. CASE content = "none" /\ ~(read.at < Len(Formats))
    <3>1. Asked(read) = [read EXCEPT !.got = "none"]
      BY <2>5 DEF Asked
    <3>2. next.at = read.at /\ next.got = "none"
      BY <1>1, <2>1, <3>1 DEF ReadOK, ReadTypes
    <3>3. \A j \in Positions : j < read.at \/ j = read.at
      BY <1>1, <2>5, FormatFacts DEF Positions
    <3>4. \A j \in Positions : files[read.key][Formats[j]] = "none"
      BY <2>5, <3>3 DEF Scanned
    <3>5. Empty(read.key)
      BY <3>4, FormatFacts DEF Empty
    <3> HIDE DEF next
    <3> QED
      BY <1>2, <3>2, <3>4, <3>5 DEF Scanned
  <2> QED
    BY <2>2, <2>3, <2>4, <2>5
<1>4. CASE read.got = "opening"
  <2> DEFINE found == files[read.key][read.format]
  <2>1. found # "none" /\ read.format \in Extensions /\ found \in Contents
    BY <1>1, <1>4 DEF Scanned, FilesOK
  <2>2. Progress(read) = [read EXCEPT !.got = found]
    BY <1>4, <2>1 DEF Progress, Opened
  <2>3. next.at = read.at /\ next.got = found
    BY <1>1, <2>2 DEF ReadOK, ReadTypes
  <2>4. next.got \notin {"opening", "none", "error"}
    BY <2>1, <2>3, ContentFacts
  <2> HIDE DEF next
  <2> QED
    BY <1>2, <2>3, <2>4 DEF Scanned
<1> QED
  BY <1>1, <1>3, <1>4

-----------------------------------------------------------------------------
(* Storage: what a step leaves alone *)

LEMMA KeyFrame ==
    ASSUME NEW key, files'[key] = files[key]
    PROVE  /\ Empty(key) => Empty(key)'
           /\ \A x : KeyHolds(key, x) => KeyHolds(key, x)'
           /\ \A f, x : Only(key, f, x) => Only(key, f, x)'
           /\ \A x : Sole(key, x) => Sole(key, x)'
<1>1. Empty(key) => Empty(key)'
  BY DEF Empty
<1>2. \A x : KeyHolds(key, x) => KeyHolds(key, x)'
  BY DEF KeyHolds
<1>3. \A f, x : Only(key, f, x) => Only(key, f, x)'
  BY DEF Only
<1>4. \A x : Sole(key, x) => Sole(key, x)'
  BY <1>3 DEF Sole
<1> QED
  BY <1>1, <1>2, <1>3, <1>4

\* A key under which formats are only removed.
LEMMA KeyShrinks ==
    ASSUME NEW key, \A g \in Extensions : files'[key][g] \in {files[key][g], "none"}
    PROVE  /\ Empty(key) => Empty(key)'
           /\ \A x : KeyHolds(key, x) => KeyHolds(key, x)'
<1>1. Empty(key) => Empty(key)'
  BY DEF Empty
<1>2. \A x : KeyHolds(key, x) => KeyHolds(key, x)'
  BY DEF KeyHolds
<1> QED
  BY <1>1, <1>2

LEMMA ScannedFrame ==
    ASSUME NEW read, files'[read.key] = files[read.key], Scanned(read)
    PROVE  Scanned(read)'
<1>1. Empty(read.key) => Empty(read.key)'
  BY KeyFrame
<1> QED
  BY <1>1 DEF Scanned

\* A claim whose key is left alone keeps what it has of it.
LEMMA OwnFrame ==
    ASSUME NEW c \in RivalClaims, NEW d, Own(c, d), Local' = Local,
           files'[ClaimKey(c)] = files[ClaimKey(c)],
           \A x : KeyHolds(d.expected.key, x) => KeyHolds(d.expected.key, x)'
    PROVE  Own(c, d)'
<1>1. OwnKey(c, d)'
  BY KeyFrame DEF Own, OwnKey
<1>2. d.step = "verify" => Scanned(d.read)'
  BY ScannedFrame DEF Own, OwnReads
<1>3. \A x : KeyHolds(ClaimKey(c), x) => KeyHolds(ClaimKey(c), x)'
  BY KeyFrame
<1>4. d.step \in {"source", "verify", "bind"} /\ d.read.got \in Contents \ {"none"}
        => KeyHolds(d.read.key, d.read.got)'
  BY <1>3 DEF Own, OwnReads
<1>5. OwnReads(c, d)'
  BY <1>2, <1>4 DEF Own, OwnReads
<1> QED
  BY <1>1, <1>5 DEF Own

LEMMA BoundFrame ==
    ASSUME NEW c \in RivalClaims, NEW d, Bound(c, d), owner' # owner => owner' # c,
           Empty(ClaimKey(c)) => Empty(ClaimKey(c))',
           \A x : KeyHolds(ClaimKey(c), x) => KeyHolds(ClaimKey(c), x)'
    PROVE  Bound(c, d)'
BY DEF Bound

\* What the images on record are.
LEMMA ImageFacts ==
    ASSUME ClaimsOK, NEW image, IsBound(image)
    PROVE  /\ image.key \in ImageKeys \ {"source"} /\ image.hash \in Pictures
           /\ image.hash # "none"
<1>1. PICK d \in RivalClaims : /\ claim[d].bound # "none"
                               /\ image = [key |-> ClaimKey(d), hash |-> claim[d].bound]
  BY DEF IsBound
<1>2. claim[d].bound \in Pictures
  BY <1>1 DEF ClaimsOK, ClaimTypes
<1> QED
  BY <1>1, <1>2, KeysDiffer

\* A claim that records its image records it once.
LEMMA IsBoundStays ==
    ASSUME ClaimsOK, NEW c \in RivalClaims, NEW e, claim' = [claim EXCEPT ![c] = e],
           e.bound = claim[c].bound \/ claim[c].bound = "none"
    PROVE  /\ \A image : IsBound(image) => IsBound(image)'
           /\ \A image : Expected(image) => Expected(image)'
<1>1. \A d \in RivalClaims : claim[d].bound # "none" => claim'[d].bound = claim[d].bound
  BY DEF ClaimsOK
<1>2. ASSUME NEW image, IsBound(image) PROVE IsBound(image)'
  <2>1. PICK d \in RivalClaims : /\ claim[d].bound # "none"
                                 /\ image = [key |-> ClaimKey(d), hash |-> claim[d].bound]
    BY <1>2 DEF IsBound
  <2>2. claim'[d].bound # "none" /\ image = [key |-> ClaimKey(d), hash |-> claim'[d].bound]
    BY <1>1, <2>1
  <2> QED
    BY <2>2 DEF IsBound
<1> QED
  BY <1>2 DEF Expected

LEMMA ViewFrame ==
    ASSUME NEW v, ViewGood(v), Local' = Local, \A image : IsBound(image) => IsBound(image)'
    PROVE  ViewGood(v)'
<1>1. \A hash, x : MayServe(hash, x) => MayServe(hash, x)'
  BY DEF MayServe
<1> QED
  BY <1>1 DEF ViewGood

-----------------------------------------------------------------------------
(* Storage: a step of a claim *)

\* What every step of a claim that has started does at most.
Advance(c, e) ==
    /\ claim' = [claim EXCEPT ![c] = e]
    /\ e.expected = claim[c].expected
    /\ e.bound = claim[c].bound \/ claim[c].bound = "none"
    /\ \A key \in AllKeys \ {ClaimKey(c)} : files'[key] = files[key]
    /\ files' = files \/ claim[c].bound = "none"
    /\ owner' = owner
    /\ viewer' = viewer /\ served' = served
    /\ sbudget'.source = sbudget.source /\ sbudget'.driver = sbudget.driver

LEMMA BoundKeyStays ==
    ASSUME ClaimsOK, NEW c \in RivalClaims, NEW e, Advance(c, e), NEW image,
           image.key \in ImageKeys, Expected(image)
    PROVE  files'[image.key] = files[image.key]
<1>1. CASE image.key = "source"
  BY <1>1, KeysDiffer DEF Advance
<1>2. CASE IsBound(image)
  <2>1. PICK d \in RivalClaims : /\ claim[d].bound # "none"
                                 /\ image = [key |-> ClaimKey(d), hash |-> claim[d].bound]
    BY <1>2 DEF IsBound
  <2>2. image.key = ClaimKey(d)
    BY <2>1
  <2>3. CASE d = c
    BY <2>1, <2>3 DEF Advance
  <2>4. CASE d # c
    BY <2>2, <2>4, KeysDiffer DEF Advance
  <2> QED
    BY <2>3, <2>4
<1> QED
  BY <1>1, <1>2 DEF Expected

\* The other claim notices nothing.
LEMMA AdvanceKeepsOthers ==
    ASSUME StorageInv, NEW c \in RivalClaims, NEW e, Advance(c, e),
           NEW d \in RivalClaims, d # c
    PROVE  ClaimGood(d)'
<1>1. ClaimsOK /\ ClaimGood(d)
  BY DEF StorageInv, StorageTypeOK
<1>2. PICK f : f = claim[d]
  OBVIOUS
<1>3. claim'[d] = f /\ f \in ClaimTypes /\ owner' = owner /\ Local' = Local
  BY <1>1, <1>2 DEF Advance, ClaimsOK, Local
<1>4. Bound(d, f) /\ Expected(f.expected) /\ (owner = d => Own(d, f))
  BY <1>1, <1>2 DEF ClaimGood
<1>5. files'[ClaimKey(d)] = files[ClaimKey(d)]
  BY KeysDiffer DEF Advance
<1>6. f.expected.key \in ImageKeys
  BY <1>3 DEF ClaimTypes, Images
<1>7. files'[f.expected.key] = files[f.expected.key]
  BY <1>1, <1>4, <1>6, BoundKeyStays
<1>8. Bound(d, f)'
  BY <1>3, <1>4, <1>5, BoundFrame, KeyFrame
<1>9. Expected(f.expected)'
  BY <1>1, <1>4, IsBoundStays DEF Advance
<1>10. owner' = d => Own(d, f)'
  BY <1>3, <1>4, <1>5, <1>7, OwnFrame, KeyFrame
<1> QED
  BY <1>3, <1>8, <1>9, <1>10 DEF ClaimGood

\* Nor do the readers, nor what is on show.
LEMMA AdvanceKeepsRest ==
    ASSUME StorageInv, NEW c \in RivalClaims, NEW e, Advance(c, e)
    PROVE  /\ SourceGood' /\ ThumbGood' /\ ServedIsPublished'
           /\ \A r \in CoverReaders : ViewerGood(r)'
           /\ onShow' = onShow => ShowGood'
<1>1. ClaimsOK /\ RowsOK /\ Local' = Local
  BY DEF StorageInv, StorageTypeOK, Advance, Local
<1>2. \A image : (IsBound(image) => IsBound(image)') /\ (Expected(image) => Expected(image)')
  BY <1>1, IsBoundStays DEF Advance
<1>3. SourceGood'
  <2>1. files'["source"] = files["source"] /\ sbudget'.source = sbudget.source
    BY KeysDiffer DEF Advance, ImageKeys
  <2>2. \A x : KeyHolds("source", x) => KeyHolds("source", x)'
    BY <2>1, KeyFrame
  <2> QED
    BY <2>1, <2>2 DEF StorageInv, SourceGood
<1>4. ThumbGood'
  <2>1. ASSUME NEW d \in RivalClaims, NEW g \in Extensions
        PROVE  LET x == files'[ThumbKey(ClaimKey(d))][g] IN
               \/ x = "none"
               \/ Local' /\ x = "torn"
               \/ claim'[d].bound # "none" /\ x = ThumbOf[claim'[d].bound]
    <3>1. files'[ThumbKey(ClaimKey(d))] = files[ThumbKey(ClaimKey(d))]
      BY KeysDiffer DEF Advance
    <3>2. claim[d].bound # "none" => claim'[d].bound = claim[d].bound
      BY <1>1 DEF Advance, ClaimsOK
    <3>3. LET x == files[ThumbKey(ClaimKey(d))][g] IN
          \/ x = "none"
          \/ Local /\ x = "torn"
          \/ claim[d].bound # "none" /\ x = ThumbOf[claim[d].bound]
      BY DEF StorageInv, ThumbGood
    <3> QED
      BY <1>1, <3>1, <3>2, <3>3
  <2> QED
    BY <2>1 DEF ThumbGood
<1>5. ServedIsPublished'
  BY DEF StorageInv, Advance, ServedIsPublished
<1>6. ASSUME NEW r \in CoverReaders PROVE ViewerGood(r)'
  <2>1. PICK v : v = viewer[r]
    OBVIOUS
  <2>2. ViewGood(v) /\ viewer'[r] = v
    BY <2>1 DEF StorageInv, ViewerGood, Advance
  <2>3. ViewGood(v)'
    BY <1>1, <1>2, <2>2, ViewFrame
  <2> QED
    BY <2>2, <2>3 DEF ViewerGood
<1>7. ASSUME onShow' = onShow PROVE ShowGood'
  <2>1. PICK image : image = onShow
    OBVIOUS
  <2>2. image = NoImage \/ (IsBound(image) /\ Sole(image.key, image.hash))
    BY <2>1 DEF StorageInv, ShowGood
  <2>3. CASE IsBound(image) /\ Sole(image.key, image.hash)
    <3>1. image.key \in ImageKeys
      BY <1>1, <2>1 DEF RowsOK, Images
    <3>2. files'[image.key] = files[image.key]
      BY <1>1, <2>3, <3>1, BoundKeyStays DEF Expected
    <3>3. Sole(image.key, image.hash)' /\ IsBound(image)'
      BY <1>2, <2>3, <3>2, KeyFrame
    <3> QED
      BY <1>7, <2>1, <3>3 DEF ShowGood
  <2> QED
    BY <1>7, <2>1, <2>2, <2>3 DEF ShowGood
<1> QED
  BY <1>3, <1>4, <1>5, <1>6, <1>7

\* What is left to show of a step of a claim.
LEMMA AdvanceKeeps ==
    ASSUME StorageInv, NEW c \in RivalClaims, NEW e, Advance(c, e), ClaimFits(e),
           FilesOK', RowsOK', BudgetOK', Bound(c, e)', owner = c => Own(c, e)',
           RecordGood', onShow' = onShow \/ ShowGood'
    PROVE  StorageInv'
<1>1. ClaimsOK /\ ViewersOK /\ ClaimGood(c)
  BY DEF StorageInv, StorageTypeOK
<1>2. claim' = [claim EXCEPT ![c] = e] /\ claim'[c] = e
  BY <1>1 DEF Advance, ClaimsOK
<1>3. ClaimsOK'
  <2>1. claim' \in [RivalClaims -> ClaimTypes]
    BY <1>1, <1>2 DEF ClaimsOK, ClaimFits
  <2>2. \A d \in RivalClaims : claim'[d] = e \/ claim'[d] = claim[d]
    BY <1>1, <1>2 DEF ClaimsOK
  <2> QED
    BY <1>1, <2>1, <2>2 DEF ClaimsOK, ClaimFits
<1>4. ViewersOK'
  BY <1>1 DEF Advance, ViewersOK
<1>5. ClaimGood(c)'
  <2>1. PICK image : image = e.expected
    OBVIOUS
  <2>2. Expected(image)
    BY <1>1, <2>1 DEF ClaimGood, Advance
  <2>3. Expected(image)'
    BY <1>1, <2>2, IsBoundStays DEF Advance
  <2>4. owner' = owner
    BY DEF Advance
  <2> QED
    BY <1>2, <2>1, <2>3, <2>4 DEF ClaimGood
<1>6. \A d \in RivalClaims : ClaimGood(d)'
  BY <1>5, AdvanceKeepsOthers
<1> QED
  BY <1>3, <1>4, <1>6, AdvanceKeepsRest DEF StorageInv, StorageTypeOK

\* A step that writes nothing and records nothing.
LEMMA QuietClaim ==
    ASSUME StorageInv, NEW c \in RivalClaims, NEW e, ClaimFits(e),
           claim' = [claim EXCEPT ![c] = e], claim[c].step # "waiting",
           e.expected = claim[c].expected, e.bound = claim[c].bound, e.adopted = claim[c].adopted,
           \/ e.step = claim[c].step \/ e.step = "failed"
           \/ /\ e.step \notin {"waiting", "render", "done", "failed"}
              /\ claim[c].step \notin {"render", "done", "failed"},
           owner = c => Own(c, e),
           UNCHANGED <<files, bookRows, viewer, served>>, BudgetOK',
           sbudget'.source = sbudget.source /\ sbudget'.driver = sbudget.driver
    PROVE  StorageInv'
<1>1. ClaimsOK /\ FilesOK /\ RowsOK /\ ClaimGood(c) /\ Local' = Local
  BY DEF StorageInv, StorageTypeOK, Local
<1>2. Advance(c, e)
  BY DEF Advance, bookRows
<1>3. FilesOK' /\ RowsOK'
  BY <1>1 DEF FilesOK, RowsOK, bookRows
<1>4. Bound(c, e)
  <2>1. Bound(c, claim[c])
    BY <1>1 DEF ClaimGood
  <2> QED
    BY <2>1 DEF Bound
<1>5. \A key : files'[key] = files[key]
  OBVIOUS
<1>6. Bound(c, e)'
  BY <1>4, <1>5, BoundFrame, KeyFrame DEF bookRows
<1>7. owner = c => Own(c, e)'
  BY <1>1, <1>5, OwnFrame, KeyFrame
<1>8. RecordGood'
  <2>1. PICK image : image = record
    OBVIOUS
  <2>2. Expected(image)'
    <3>1. Expected(image)
      BY <2>1 DEF StorageInv, RecordGood
    <3> QED
      BY <1>1, <3>1, IsBoundStays
  <2>3. ASSUME NEW d \in RivalClaims, owner' = d, claim'[d].step \in {"render", "done"}
        PROVE  image = [key |-> ClaimKey(d), hash |-> claim'[d].bound]
    <3>1. claim[d].step \in {"render", "done"} /\ claim'[d].bound = claim[d].bound
      BY <1>1, <2>3 DEF ClaimsOK
    <3> QED
      BY <2>1, <2>3, <3>1 DEF StorageInv, RecordGood, bookRows
  <2> QED
    BY <2>1, <2>2, <2>3 DEF RecordGood, bookRows
<1> QED
  BY <1>2, <1>3, <1>6, <1>7, <1>8, AdvanceKeeps DEF bookRows

-----------------------------------------------------------------------------
(* Storage: the steps of a claim that write nothing *)

\* A claim that goes on to another step, with another read.
To(d, step, read) == [d EXCEPT !.step = step, !.read = read]

LEMMA ToFacts ==
    ASSUME NEW d \in ClaimTypes, NEW step, NEW read, NEW e, e = To(d, step, read)
    PROVE  /\ e.step = step /\ e.read = read
           /\ e.expected = d.expected /\ e.bytes = d.bytes /\ e.bound = d.bound
           /\ e.adopted = d.adopted
BY DEF To, ClaimTypes

LEMMA ToFits ==
    ASSUME NEW d \in ClaimTypes, NEW step \in ClaimSteps, NEW read, ReadOK(read),
           step \in {"copy", "copying", "save", "saving"} => read.format \in Extensions,
           step \in AtRest => ~Reading(read), step = "copying" => read.got \in Contents,
           NEW e, e = To(d, step, read)
    PROVE  ClaimFits(e)
<1>1. read \in ReadTypes
  BY DEF ReadOK
<1> QED
  BY <1>1 DEF To, ClaimFits, ClaimTypes



LEMMA StepsTo ==
    ASSUME StorageInv, NEW c \in RivalClaims, NEW step \in ClaimSteps, NEW read, ReadOK(read),
           step \in {"copy", "copying", "save", "saving"} => read.format \in Extensions,
           step \in AtRest => ~Reading(read), step = "copying" => read.got \in Contents,
           claim' = [claim EXCEPT ![c].step = step, ![c].read = read],
           \/ step \in {claim[c].step, "failed"}
           \/ /\ step \notin {"waiting", "render", "done", "failed"}
              /\ claim[c].step \notin {"render", "done", "failed"},
           claim[c].step # "waiting",
           owner = c => Own(c, To(claim[c], step, read)),
           UNCHANGED <<files, bookRows, viewer, served>>, BudgetOK',
           sbudget'.source = sbudget.source /\ sbudget'.driver = sbudget.driver
    PROVE  StorageInv'
<1>1. ClaimsOK /\ claim[c] \in ClaimTypes
  BY DEF StorageInv, StorageTypeOK, ClaimsOK
<1>2. PICK d : d = claim[c]
  OBVIOUS
<1>3. PICK e : e = To(d, step, read)
  OBVIOUS
<1>4. /\ e.step = step /\ e.expected = d.expected /\ e.bound = d.bound
      /\ e.adopted = d.adopted
  BY <1>1, <1>2, <1>3, ToFacts
<1>5. ClaimFits(e)
  BY <1>1, <1>2, <1>3, ToFits
<1>6. claim' = [claim EXCEPT ![c] = e]
  BY <1>1, <1>2, <1>3 DEF To, ClaimsOK
<1>7. owner = c => Own(c, e)
  BY <1>2, <1>3
<1> QED
  BY <1>2, <1>4, <1>5, <1>6, <1>7, QuietClaim

\* A claim that stops, or that goes on to draw before its key holds anything.
LEMMA StopsOrDraws ==
    ASSUME StorageInv, NEW c \in RivalClaims, NEW step \in {"draw", "failed"}, Steps(c, step),
           claim[c].step # "waiting",
           step = "draw" => claim[c].step \in Blank \/ (owner # c /\ claim[c].step = "verify"),
           UNCHANGED <<files, bookRows, viewer, served>>, BudgetOK',
           sbudget'.source = sbudget.source /\ sbudget'.driver = sbudget.driver
    PROVE  StorageInv'
<1>1. ClaimsOK /\ ClaimGood(c)
  BY DEF StorageInv, StorageTypeOK
<1>2. ReadOK(NoRead) /\ step \in ClaimSteps /\ ~Reading(NoRead)
  BY FreshReads DEF ClaimSteps, Reading
<1>3. PICK e : e = To(claim[c], step, NoRead)
  OBVIOUS
<1>4. e.step = step
  <2>1. claim[c] \in ClaimTypes
    BY <1>1 DEF ClaimsOK
  <2> QED
    BY <1>3, <2>1, ToFacts
<1>5. owner = c => Own(c, e)
  <2>1. owner = c /\ step = "draw" => Empty(ClaimKey(c))
    BY <1>1 DEF ClaimGood, Own, OwnKey
  <2>2. owner = c => OwnKey(c, e)
    BY <1>4, <2>1 DEF OwnKey, Blank
  <2>3. OwnReads(c, e)
    BY <1>4 DEF OwnReads
  <2> QED
    BY <2>2, <2>3 DEF Own
<1>6. owner = c => Own(c, To(claim[c], step, NoRead))
  BY <1>3, <1>5
<1> QED
  BY <1>2, <1>6, StepsTo DEF Steps, Blank

LEMMA BudgetRests == StorageInv /\ UNCHANGED sbudget => BudgetOK'
BY DEF StorageInv, StorageTypeOK, BudgetOK

\* Every image key a claim reads holds one image.
LEMMA OneImage ==
    ASSUME NEW key, NEW x, NEW y, KeyHolds(key, x), NEW f \in Extensions,
           files[key][f] = y, y # "none"
    PROVE  KeyHolds(key, y)
BY DEF KeyHolds

LEMMA ExpectedHolds ==
    ASSUME StorageInv, NEW image, Expected(image)
    PROVE  \E x : KeyHolds(image.key, x)
<1>1. CASE image.key = "source"
  BY <1>1 DEF StorageInv, SourceGood
<1>2. CASE IsBound(image)
  <2>1. PICK d \in RivalClaims : /\ claim[d].bound # "none"
                                 /\ image = [key |-> ClaimKey(d), hash |-> claim[d].bound]
    BY <1>2 DEF IsBound
  <2>2. PICK f : f = claim[d]
    OBVIOUS
  <2>3. Bound(d, f)
    BY <2>2 DEF StorageInv, ClaimGood
  <2>4. KeyHolds(ClaimKey(d), f.bound) /\ image.key = ClaimKey(d)
    BY <2>1, <2>2, <2>3 DEF Bound
  <2> QED
    BY <2>4
<1> QED
  BY <1>1, <1>2 DEF Expected

LEMMA SoleHolds ==
    ASSUME NEW key, NEW x, Sole(key, x)
    PROVE  KeyHolds(key, x)
BY DEF Sole, Only, KeyHolds

LEMMA ClaimReadsStep ==
    ASSUME StorageInv, NEW c \in RivalClaims, ClaimReads(c)
    PROVE  StorageInv'
<1>1. ClaimsOK /\ FilesOK /\ ClaimGood(c) /\ ClaimFits(claim[c])
  BY DEF StorageInv, StorageTypeOK, ClaimsOK
<1>2. PICK d : d = claim[c]
  OBVIOUS
<1>3. PICK read : read = Progress(d.read)
  OBVIOUS
<1>4. /\ ReadOK(read) /\ read.key = d.read.key
      /\ read.got \in Contents \ {"none"} => \E f \in Extensions : files[d.read.key][f] = read.got
  BY <1>1, <1>2, <1>3, ReadStep DEF ClaimReads, ClaimFits
<1>5. d.step \in ClaimSteps /\ d.step \notin AtRest /\ d \in ClaimTypes /\ Reading(d.read)
  BY <1>1, <1>2 DEF ClaimReads, ClaimFits, ClaimTypes
<1>6. claim' = [claim EXCEPT ![c].step = d.step, ![c].read = read]
  <2>1. claim' = [claim EXCEPT ![c].read = read]
    BY <1>2, <1>3 DEF ClaimReads
  <2> QED
    BY <1>1, <1>2, <2>1 DEF ClaimsOK, ClaimTypes
<1>7. PICK e : e = To(d, d.step, read)
  OBVIOUS
<1>8. /\ e.step = d.step /\ e.read = read /\ e.expected = d.expected /\ e.bytes = d.bytes
      /\ e.bound = d.bound
  BY <1>5, <1>7 DEF To, ClaimTypes
<1>9. ASSUME owner = c, d.step # "waiting"
      PROVE  Own(c, e)
  <2>1. OwnKey(c, d) /\ OwnReads(c, d) /\ Bound(c, d)
    BY <1>1, <1>2, <1>9 DEF ClaimGood, Own
  <2>2. OwnKey(c, e)
    BY <1>5, <1>8, <2>1 DEF OwnKey, AtRest
  <2>3. ASSUME d.step \in {"source", "verify", "bind"}, read.got \in Contents \ {"none"}
        PROVE  KeyHolds(read.key, read.got)
    <3>1. \E x : KeyHolds(read.key, x)
      <4>1. CASE d.step = "source"
        <5>1. Expected(d.expected)
          BY <1>1, <1>2 DEF ClaimGood
        <5> QED
          BY <1>4, <2>1, <4>1, <5>1, ExpectedHolds DEF OwnReads
      <4>2. CASE d.step \in {"verify", "bind"}
        BY <1>4, <2>1, <4>2, SoleHolds DEF OwnReads, OwnKey
      <4> QED
        BY <2>3, <4>1, <4>2
    <3> QED
      BY <1>4, <2>3, <3>1, OneImage
  <2>4. ASSUME d.step = "current" PROVE read.got \in {"asking", "none"}
    <3>1. \A g \in Extensions : files[d.read.key][g] = "none"
      BY <2>1, <2>4 DEF OwnKey, OwnReads, Blank, Empty
    <3>2. d.read.got = "asking" /\ Formats[d.read.at] \in Extensions
      <4>1. d.read.at \in Positions
        BY <1>1, <1>2 DEF ClaimFits, ReadOK, ReadTypes
      <4> QED
        BY <1>5, <2>1, <2>4, <4>1, FormatFacts DEF OwnReads, Reading
    <3>3. read = Asked(d.read) /\ files[d.read.key][Formats[d.read.at]] = "none"
      BY <1>3, <3>1, <3>2 DEF Progress
    <3>4. read = [d.read EXCEPT !.at = @ + 1] \/ read = [d.read EXCEPT !.got = "none"]
      BY <3>3 DEF Asked
    <3>5. d.read \in ReadTypes
      BY <1>1, <1>2 DEF ClaimFits, ReadOK
    <3> QED
      BY <3>2, <3>4, <3>5 DEF ReadTypes
  <2>5. d.step = "verify" => Scanned(read) /\ read.got # "error"
    BY <1>1, <1>2, <1>3, <1>5, <2>1, ReadScans DEF OwnReads, ClaimFits
  <2>6. OwnReads(c, e)
    BY <1>4, <1>5, <1>8, <2>1, <2>3, <2>4, <2>5 DEF OwnReads, AtRest
  <2> QED
    BY <2>2, <2>6 DEF Own
<1>10. d.step # "waiting"
  BY <1>5 DEF AtRest
<1>11. owner = c => Own(c, To(d, d.step, read))
  BY <1>7, <1>9, <1>10
<1>12. ReadOK(read) /\ BudgetOK'
  BY <1>4, BudgetRests DEF ClaimReads
<1> QED
  BY <1>2, <1>5, <1>6, <1>10, <1>11, <1>12, StepsTo DEF ClaimReads, AtRest

LEMMA InspectedStep ==
    ASSUME StorageInv, NEW c \in RivalClaims, Inspected(c)
    PROVE  StorageInv'
<1>1. ClaimsOK /\ ClaimGood(c) /\ claim[c].step = "inspect" /\ BudgetOK'
  BY BudgetRests DEF StorageInv, StorageTypeOK, Inspected, Got
<1>2. CASE Steps(c, "draw")
  BY <1>1, <1>2, StopsOrDraws DEF Inspected, Blank
<1>3. CASE Reads(c, "current", ClaimKey(c))
  <2>1. PICK d : d = claim[c]
    OBVIOUS
  <2>2. PICK read : read = ReadOf(ClaimKey(c))
    OBVIOUS
  <2>3. ReadOK(read) /\ read.key = ClaimKey(c) /\ read.got = "asking"
    BY <2>2, FreshReads, KeysDiffer
  <2>4. PICK e : e = To(d, "current", read)
    OBVIOUS
  <2>5. e.step = "current" /\ e.read = read
    BY <1>1, <2>1, <2>4, ToFacts DEF ClaimsOK
  <2>6. ASSUME owner = c PROVE Own(c, e)
    <3>1. Empty(ClaimKey(c))
      BY <1>1, <2>6 DEF ClaimGood, Own, OwnKey, Blank
    <3>2. OwnKey(c, e)
      BY <2>5, <3>1 DEF OwnKey
    <3>3. OwnReads(c, e)
      BY <2>3, <2>5, ContentFacts DEF OwnReads
    <3> QED
      BY <3>2, <3>3 DEF Own
  <2>7. owner = c => Own(c, To(claim[c], "current", read))
    BY <2>1, <2>4, <2>6
  <2>8. "current" \in ClaimSteps
    BY DEF ClaimSteps
  <2> QED
    BY <1>1, <1>3, <2>2, <2>3, <2>7, <2>8, StepsTo DEF Inspected, Reads, AtRest
<1> QED
  BY <1>2, <1>3 DEF Inspected

LEMMA CurrentReadStep ==
    ASSUME StorageInv, NEW c \in RivalClaims, CurrentRead(c)
    PROVE  StorageInv'
<1>1. ClaimsOK /\ ClaimGood(c) /\ claim[c].step = "current" /\ BudgetOK'
  BY BudgetRests DEF StorageInv, StorageTypeOK, CurrentRead, Got
<1>2. PICK d : d = claim[c]
  OBVIOUS
<1>3. d \in ClaimTypes /\ d.step = "current" /\ d.read.got \in {"none"} \cup Contents
  BY <1>1, <1>2 DEF ClaimsOK, CurrentRead, Got
\* The owner's key is still empty.
<1>4. owner = c => Own(c, d) /\ Empty(ClaimKey(c)) /\ d.read.got = "none"
  <2>1. owner = c => Own(c, d)
    BY <1>1, <1>2 DEF ClaimGood
  <2> QED
    BY <1>3, <2>1, ContentFacts DEF Own, OwnKey, OwnReads, Blank
<1>5. CASE Reads(c, "source", d.expected.key)
  <2>1. PICK read : read = ReadOf(d.expected.key)
    OBVIOUS
  <2>2. d.expected.key \in AllKeys
    BY <1>3 DEF ClaimTypes, Images, AllKeys
  <2>3. ReadOK(read) /\ read.key = d.expected.key /\ read.got = "asking"
    BY <2>1, <2>2, FreshReads
  <2>4. PICK e : e = To(d, "source", read)
    OBVIOUS
  <2>5. e.step = "source" /\ e.read = read /\ e.expected = d.expected
    BY <1>3, <2>4, ToFacts
  <2>6. ASSUME owner = c PROVE Own(c, e)
    <3>1. OwnKey(c, e)
      BY <1>4, <2>5, <2>6 DEF OwnKey
    <3>2. OwnReads(c, e)
      BY <2>3, <2>5, ContentFacts DEF OwnReads
    <3> QED
      BY <3>1, <3>2 DEF Own
  <2>7. owner = c => Own(c, To(claim[c], "source", read))
    BY <1>2, <2>4, <2>6
  <2>8. "source" \in ClaimSteps
    BY DEF ClaimSteps
  <2> QED
    BY <1>1, <1>5, <2>1, <2>3, <2>7, <2>8, StepsTo DEF CurrentRead, Reads, AtRest
<1>6. CASE IsExpected(d.read.got, d.expected.hash) /\ Reads(c, "bind", ClaimKey(c))
  <2>1. owner # c
    BY <1>4, <1>6, ContentFacts DEF IsExpected, Decodes
  <2>2. PICK read : read = ReadOf(ClaimKey(c))
    OBVIOUS
  <2>3. ReadOK(read)
    BY <2>2, FreshReads, KeysDiffer
  <2>4. "bind" \in ClaimSteps
    BY DEF ClaimSteps
  <2> QED
    BY <1>1, <1>6, <2>1, <2>2, <2>3, <2>4, StepsTo DEF CurrentRead, Reads, AtRest
<1> QED
  BY <1>2, <1>5, <1>6 DEF CurrentRead

LEMMA SourceReadStep ==
    ASSUME StorageInv, NEW c \in RivalClaims, SourceRead(c)
    PROVE  StorageInv'
<1>1. ClaimsOK /\ ClaimGood(c) /\ claim[c].step = "source" /\ BudgetOK'
  BY BudgetRests DEF StorageInv, StorageTypeOK, SourceRead, Got
<1>2. PICK d : d = claim[c]
  OBVIOUS
<1>3. d \in ClaimTypes /\ d.step = "source"
  BY <1>1, <1>2 DEF ClaimsOK
<1>4. CASE Steps(c, "draw")
  BY <1>1, <1>4, StopsOrDraws DEF SourceRead, Blank
<1>5. CASE /\ IsExpected(d.read.got, d.expected.hash)
           /\ claim' = [claim EXCEPT ![c].step = "find", ![c].read = NoRead,
                                     ![c].bytes = d.read.got]
  <2>1. d.read.got \in Pictures /\ d.expected.hash \in {"unknown", d.read.got}
    BY <1>5 DEF IsExpected, Decodes
  <2>2. PICK e : e = [d EXCEPT !.step = "find", !.read = NoRead, !.bytes = d.read.got]
    OBVIOUS
  <2>3. /\ e.step = "find" /\ e.read = NoRead /\ e.bytes = d.read.got
        /\ e.expected = d.expected /\ e.bound = d.bound /\ e.adopted = d.adopted
    BY <1>3, <2>2 DEF ClaimTypes
  <2>4. ClaimFits(e)
    <3>1. NoRead \in ReadTypes /\ ReadOK(NoRead) /\ ~Reading(NoRead)
      BY FreshReads DEF ReadOK, Reading
    <3>2. d.read.got \in Contents /\ "find" \in ClaimSteps
      BY <2>1, ContentFacts DEF ClaimSteps
    <3>3. e \in ClaimTypes
      BY <1>3, <2>2, <3>1, <3>2 DEF ClaimTypes
    <3> QED
      BY <2>3, <3>1, <3>3 DEF ClaimFits
  <2>5. claim' = [claim EXCEPT ![c] = e]
    BY <1>1, <1>2, <1>5, <2>2 DEF ClaimsOK
  <2>6. ASSUME owner = c PROVE Own(c, e)
    <3>1. Own(c, d)
      BY <1>1, <1>2, <2>6 DEF ClaimGood
    <3>2. OwnKey(c, e)
      BY <1>3, <2>3, <3>1 DEF Own, OwnKey, Blank
    <3>3. KeyHolds(d.expected.key, d.read.got)
      BY <1>3, <2>1, <3>1, ContentFacts DEF Own, OwnReads
    <3>4. OwnReads(c, e)
      BY <2>1, <2>3, <3>3 DEF OwnReads
    <3> QED
      BY <3>2, <3>4 DEF Own
  <2> QED
    BY <1>1, <1>2, <2>3, <2>4, <2>5, <2>6, QuietClaim DEF SourceRead
<1> QED
  BY <1>2, <1>4, <1>5 DEF SourceRead

LEMMA FindSourceStep ==
    ASSUME StorageInv, NEW c \in RivalClaims, FindSource(c)
    PROVE  StorageInv'
<1>1. ClaimsOK /\ ClaimGood(c) /\ claim[c].step = "find" /\ BudgetOK'
  BY BudgetRests DEF StorageInv, StorageTypeOK, FindSource
<1>2. PICK d : d = claim[c]
  OBVIOUS
<1>3. d \in ClaimTypes /\ d.step = "find"
  BY <1>1, <1>2 DEF ClaimsOK
<1> DEFINE present == {i \in DOMAIN Formats : files[d.expected.key][Formats[i]] # "none"}
           first == CHOOSE i \in present : \A j \in present : i <= j
<1>4. CASE present = {}
  <2>1. Steps(c, "draw")
    BY <1>2, <1>4 DEF FindSource
  <2> QED
    BY <1>1, <2>1, StopsOrDraws DEF FindSource, Blank
<1>5. CASE present # {}
  <2>1. PICK f : f = Formats[first]
    OBVIOUS
  <2>2. f \in Extensions
    <3>1. present \in SUBSET Positions
      BY FormatFacts
    <3>2. first \in present
      BY <1>5, <3>1, FirstPresent
    <3> QED
      BY <2>1, <3>1, <3>2, FormatFacts
  <2>3. PICK read : read = [NoRead EXCEPT !.format = f]
    OBVIOUS
  <2>4. claim' = [claim EXCEPT ![c].step = "copy", ![c].read = read]
    BY <1>2, <1>5, <2>1, <2>3 DEF FindSource
  <2>5. ReadOK(read) /\ ~Reading(read) /\ read.format \in Extensions
    BY <2>2, <2>3, FreshReads DEF ReadOK, ReadTypes, Reading, NoRead
  <2> HIDE DEF present
  <2>6. PICK e : e = To(d, "copy", read)
    OBVIOUS
  <2>7. e.step = "copy" /\ e.bytes = d.bytes /\ e.expected = d.expected
    BY <1>3, <2>6, ToFacts
  <2>8. ASSUME owner = c PROVE Own(c, e)
    <3>1. Own(c, d)
      BY <1>1, <1>2, <2>8 DEF ClaimGood
    <3>2. OwnKey(c, e)
      BY <1>3, <2>7, <3>1 DEF Own, OwnKey, Blank
    <3>3. OwnReads(c, e)
      BY <1>3, <2>7, <3>1 DEF Own, OwnReads
    <3> QED
      BY <3>2, <3>3 DEF Own
  <2>9. owner = c => Own(c, To(claim[c], "copy", read))
    BY <1>2, <2>6, <2>8
  <2>10. "copy" \in ClaimSteps
    BY DEF ClaimSteps
  <2> QED
    BY <1>1, <2>4, <2>5, <2>9, <2>10, StepsTo DEF FindSource
<1> QED
  BY <1>4, <1>5

\* What the owner verifies is what it copied.
LEMMA CopyVerifiedStep ==
    ASSUME StorageInv, NEW c \in RivalClaims, CopyVerified(c)
    PROVE  StorageInv'
<1>1. ClaimsOK /\ ClaimGood(c) /\ claim[c].step = "verify" /\ BudgetOK'
  BY BudgetRests DEF StorageInv, StorageTypeOK, CopyVerified, Got
<1>2. PICK d : d = claim[c]
  OBVIOUS
<1>3. d \in ClaimTypes /\ d.step = "verify" /\ d.read.got \in {"none"} \cup Contents
  BY <1>1, <1>2 DEF ClaimsOK, CopyVerified, Got
<1>4. ASSUME owner = c
      PROVE  /\ Sole(ClaimKey(c), d.bytes) /\ d.bytes \in Pictures
             /\ d.expected.hash \in {"unknown", d.bytes} /\ d.read.got = d.bytes
  <2>1. OwnKey(c, d) /\ OwnReads(c, d)
    BY <1>1, <1>2, <1>4 DEF ClaimGood, Own
  <2>2. /\ Sole(ClaimKey(c), d.bytes) /\ d.bytes \in Pictures
        /\ d.expected.hash \in {"unknown", d.bytes} /\ d.read.key = ClaimKey(c)
        /\ Scanned(d.read)
        /\ d.read.got \in Contents \ {"none"} => KeyHolds(ClaimKey(c), d.read.got)
    BY <1>3, <2>1 DEF OwnKey, OwnReads
  <2>3. PICK f \in Extensions : files[ClaimKey(c)][f] = d.bytes
    BY <2>2 DEF Sole, Only
  <2>4. d.bytes # "none"
    BY <2>2, ContentFacts
  <2>5. d.read.got # "none"
    BY <2>2, <2>3, <2>4 DEF Scanned, Empty
  <2>6. KeyHolds(ClaimKey(c), d.read.got)
    BY <1>3, <2>2, <2>5
  <2> QED
    BY <2>2, <2>3, <2>4, <2>6 DEF KeyHolds
<1>5. CASE Steps(c, "draw") /\ ~(d.read.got = d.bytes /\ Decodes(d.read.got))
  <2>1. owner # c
    BY <1>4, <1>5 DEF Decodes
  <2> QED
    BY <1>1, <1>5, <2>1, StopsOrDraws DEF CopyVerified
<1>6. CASE Reads(c, "bind", ClaimKey(c))
  <2>1. PICK read : read = ReadOf(ClaimKey(c))
    OBVIOUS
  <2>2. ReadOK(read) /\ read.key = ClaimKey(c) /\ read.got = "asking"
    BY <2>1, FreshReads, KeysDiffer
  <2>3. PICK e : e = To(d, "bind", read)
    OBVIOUS
  <2>4. e.step = "bind" /\ e.read = read /\ e.expected = d.expected /\ e.bytes = d.bytes
    BY <1>3, <2>3, ToFacts
  <2>5. ASSUME owner = c PROVE Own(c, e)
    <3>1. OwnKey(c, e)
      BY <1>4, <2>4, <2>5 DEF OwnKey, Blank
    <3>2. OwnReads(c, e)
      BY <1>4, <2>2, <2>4, <2>5, ContentFacts DEF OwnReads
    <3> QED
      BY <3>1, <3>2 DEF Own
  <2>6. owner = c => Own(c, To(claim[c], "bind", read))
    BY <1>2, <2>3, <2>5
  <2>7. "bind" \in ClaimSteps
    BY DEF ClaimSteps
  <2> QED
    BY <1>1, <1>6, <2>1, <2>2, <2>6, <2>7, StepsTo DEF CopyVerified, Reads, AtRest
<1> QED
  BY <1>2, <1>5, <1>6 DEF CopyVerified

LEMMA IllustratedStep ==
    ASSUME StorageInv, NEW c \in RivalClaims, Illustrated(c)
    PROVE  StorageInv'
<1>1. ClaimsOK /\ ClaimGood(c) /\ claim[c].step = "draw" /\ BudgetOK'
  BY BudgetRests DEF StorageInv, StorageTypeOK, Illustrated
<1>2. PICK d : d = claim[c]
  OBVIOUS
<1>3. d \in ClaimTypes /\ d.step = "draw" /\ ReadOK(d.read) /\ ~Reading(d.read)
  BY <1>1, <1>2 DEF ClaimsOK, ClaimFits, AtRest
<1>4. PICK f \in sbudget.draws : claim' = [claim EXCEPT ![c].step = "save", ![c].read.format = f]
  BY DEF Illustrated
<1>5. f \in Extensions
  BY DEF StorageInv, StorageTypeOK, BudgetOK, BudgetTypes
<1>6. PICK read : read = [d.read EXCEPT !.format = f]
  OBVIOUS
<1>7. ReadOK(read) /\ ~Reading(read) /\ read.format \in Extensions
  BY <1>3, <1>5, <1>6 DEF ReadOK, ReadTypes, Reading
<1>8. claim' = [claim EXCEPT ![c].step = "save", ![c].read = read]
  BY <1>1, <1>2, <1>4, <1>6 DEF ClaimsOK, ClaimTypes
<1>9. PICK e : e = To(d, "save", read)
  OBVIOUS
<1>10. e.step = "save"
  BY <1>3, <1>9, ToFacts
<1>11. ASSUME owner = c PROVE Own(c, e)
  <2>1. Own(c, d)
    BY <1>1, <1>2, <1>11 DEF ClaimGood
  <2>2. OwnKey(c, e)
    BY <1>3, <1>10, <2>1 DEF Own, OwnKey, Blank
  <2>3. OwnReads(c, e)
    BY <1>10 DEF OwnReads
  <2> QED
    BY <2>2, <2>3 DEF Own
<1>12. owner = c => Own(c, To(claim[c], "save", read))
  BY <1>2, <1>9, <1>11
<1>13. "save" \in ClaimSteps
  BY DEF ClaimSteps
<1> QED
  BY <1>1, <1>7, <1>8, <1>12, <1>13, StepsTo DEF Illustrated

LEMMA ClaimFailsStep ==
    ASSUME StorageInv, NEW c \in RivalClaims, ClaimFails(c)
    PROVE  StorageInv'
<1>1. BudgetOK' /\ sbudget'.source = sbudget.source /\ sbudget'.driver = sbudget.driver
  <2>1. sbudget \in BudgetTypes
    BY DEF StorageInv, StorageTypeOK, BudgetOK
  <2>2. sbudget' = sbudget \/ sbudget' = [sbudget EXCEPT !.faults = @ - 1]
    BY DEF ClaimFails, Spend
  <2> QED
    BY <2>1, <2>2 DEF BudgetOK, BudgetTypes
<1>2. Steps(c, "failed") /\ claim[c].step # "waiting"
  BY DEF ClaimFails
<1> QED
  BY <1>1, <1>2, StopsOrDraws DEF ClaimFails

-----------------------------------------------------------------------------
(* Storage: the steps of a claim that write *)

LEMMA Writes ==
    ASSUME FilesOK, NEW key \in AllKeys, NEW f \in Extensions, NEW x \in Contents,
           files' = Written(key, f, x)
    PROVE  /\ FilesOK'
           /\ \A other \in AllKeys \ {key} : files'[other] = files[other]
           /\ \A g \in Extensions : files'[key][g] = IF g = f THEN x ELSE files[key][g]
BY DEF Written, FilesOK

LEMMA WritesOne ==
    ASSUME FilesOK, NEW key \in AllKeys, NEW f \in Extensions, NEW x \in Contents,
           files' = Written(key, f, x), Empty(key) \/ \E y : Only(key, f, y)
    PROVE  Only(key, f, x)'
<1>1. \A g \in Extensions \ {f} : files[key][g] = "none"
  BY DEF Empty, Only
<1>2. \A g \in Extensions : files'[key][g] = IF g = f THEN x ELSE files[key][g]
  BY Writes
<1> QED
  BY <1>1, <1>2 DEF Only

\* A step that writes under the claim's own key, and records nothing.
LEMMA WritingClaim ==
    ASSUME StorageInv, NEW c \in RivalClaims, NEW e, ClaimFits(e),
           claim' = [claim EXCEPT ![c] = e],
           claim[c].step \notin {"waiting", "render", "done", "failed"},
           e.step \notin {"waiting", "render", "done"},
           e.expected = claim[c].expected, e.bound = claim[c].bound, e.adopted = claim[c].adopted,
           FilesOK', \A key \in AllKeys \ {ClaimKey(c)} : files'[key] = files[key],
           owner = c => Own(c, e)', UNCHANGED <<bookRows, viewer, served, sbudget>>
    PROVE  StorageInv'
<1>1. ClaimsOK /\ RowsOK /\ ClaimGood(c) /\ BudgetOK'
  BY BudgetRests DEF StorageInv, StorageTypeOK
<1>2. claim[c].bound = "none" /\ ~claim[c].adopted
  BY <1>1 DEF ClaimGood, Bound
<1>3. Advance(c, e)
  BY <1>2 DEF Advance, bookRows
<1>4. RowsOK' /\ onShow' = onShow
  BY <1>1 DEF RowsOK, bookRows
<1>5. Bound(c, e)'
  BY <1>2 DEF Bound
<1>6. RecordGood'
  <2>1. PICK image : image = record
    OBVIOUS
  <2>2. Expected(image)'
    <3>1. Expected(image)
      BY <2>1 DEF StorageInv, RecordGood
    <3> QED
      BY <1>1, <3>1, IsBoundStays
  <2>3. ASSUME NEW d \in RivalClaims, owner' = d, claim'[d].step \in {"render", "done"}
        PROVE  image = [key |-> ClaimKey(d), hash |-> claim'[d].bound]
    <3>1. claim[d].step \in {"render", "done"} /\ claim'[d].bound = claim[d].bound
      BY <1>1, <2>3 DEF ClaimsOK
    <3> QED
      BY <2>1, <2>3, <3>1 DEF StorageInv, RecordGood, bookRows
  <2> QED
    BY <2>1, <2>2, <2>3 DEF RecordGood, bookRows
<1> QED
  BY <1>1, <1>3, <1>4, <1>5, <1>6, AdvanceKeeps

LEMMA ClaimKeyFits == \A c \in RivalClaims : ClaimKey(c) \in AllKeys
BY KeysDiffer

\* A read that has just begun.
LEMMA FreshScan ==
    ASSUME NEW read, read.at = 1, read.got = "asking"
    PROVE  Scanned(read)'
BY FormatFacts DEF Scanned, Positions

LEMMA CopySourceStep ==
    ASSUME StorageInv, NEW c \in RivalClaims, CopySource(c)
    PROVE  StorageInv'
<1>1. ClaimsOK /\ ClaimGood(c) /\ FilesOK /\ claim[c].step = "copy" /\ BudgetOK'
  BY BudgetRests DEF StorageInv, StorageTypeOK, CopySource
<1>2. PICK d : d = claim[c]
  OBVIOUS
<1>3. d \in ClaimTypes /\ d.step = "copy" /\ ReadOK(d.read) /\ d.read.format \in Extensions
  BY <1>1, <1>2 DEF ClaimsOK, ClaimFits
<1>4. PICK f : f = d.read.format
  OBVIOUS
<1>5. PICK content : content = files[d.expected.key][f]
  OBVIOUS
<1>6. content \in Contents /\ f \in Extensions
  <2>1. d.expected.key \in AllKeys
    BY <1>3 DEF ClaimTypes, Images, AllKeys
  <2> QED
    BY <1>1, <1>3, <1>4, <1>5, <2>1 DEF FilesOK
<1>7. CASE content = "none"
  <2>1. Steps(c, "failed") /\ UNCHANGED files
    BY <1>2, <1>4, <1>5, <1>7 DEF CopySource
  <2> QED
    BY <1>1, <2>1, StopsOrDraws DEF CopySource
<1>8. ASSUME owner = c, content # "none"
      PROVE  /\ Empty(ClaimKey(c)) /\ d.bytes = content /\ d.bytes \in Pictures
             /\ d.expected.hash \in {"unknown", d.bytes}
  <2>1. OwnKey(c, d) /\ OwnReads(c, d)
    BY <1>1, <1>2, <1>8 DEF ClaimGood, Own
  <2>2. KeyHolds(d.expected.key, d.bytes)
    BY <1>3, <2>1 DEF OwnReads
  <2> QED
    BY <1>3, <1>5, <1>6, <1>8, <2>1, <2>2 DEF OwnKey, OwnReads, Blank, KeyHolds
<1>9. CASE content # "none" /\ Local
  <2>1. /\ files' = Written(ClaimKey(c), f, "torn")
        /\ claim' = [claim EXCEPT ![c].step = "copying", ![c].read.got = content]
    BY <1>2, <1>4, <1>5, <1>9 DEF CopySource, FirstWrite
  <2>2. PICK read : read = [d.read EXCEPT !.got = content]
    OBVIOUS
  <2>3. ReadOK(read) /\ ~Reading(read) /\ read.format = f /\ read.got = content
    <3>1. content \notin {"opening", "asking"}
      BY <1>6, ContentFacts
    <3> QED
      BY <1>3, <1>4, <1>6, <2>2, <3>1 DEF ReadOK, ReadTypes, Reading
  <2>4. PICK e : e = To(d, "copying", read)
    OBVIOUS
  <2>5. /\ e.step = "copying" /\ e.read = read /\ e.bytes = d.bytes /\ e.expected = d.expected
        /\ e.bound = d.bound /\ e.adopted = d.adopted
    BY <1>3, <2>4, ToFacts
  <2>6. ClaimFits(e)
    <3>1. "copying" \in ClaimSteps
      BY DEF ClaimSteps
    <3> QED
      BY <1>3, <1>6, <2>3, <2>4, <3>1, ToFits
  <2>7. claim' = [claim EXCEPT ![c] = e]
    BY <1>1, <1>2, <2>1, <2>2, <2>4 DEF To, ClaimsOK, ClaimTypes
  <2>8. ASSUME owner = c PROVE Own(c, e)'
    <3>1. Only(ClaimKey(c), f, "torn")'
      BY <1>1, <1>6, <1>8, <1>9, <2>1, <2>8, WritesOne, ClaimKeyFits, ContentFacts
    <3>2. OwnKey(c, e)'
      BY <2>3, <2>5, <3>1 DEF OwnKey, Blank
    <3>3. OwnReads(c, e)'
      BY <1>8, <1>9, <2>3, <2>5, <2>8 DEF OwnReads
    <3> QED
      BY <3>2, <3>3 DEF Own
  <2>9. FilesOK' /\ \A key \in AllKeys \ {ClaimKey(c)} : files'[key] = files[key]
    BY <1>1, <1>6, <2>1, Writes, ClaimKeyFits, ContentFacts
  <2> QED
    BY <1>1, <1>2, <2>5, <2>6, <2>7, <2>8, <2>9, WritingClaim DEF CopySource
<1>10. CASE content # "none" /\ ~Local
  <2>1. files' = Written(ClaimKey(c), f, content) /\ Reads(c, "verify", ClaimKey(c))
    BY <1>2, <1>4, <1>5, <1>10 DEF CopySource, FirstWrite
  <2>2. PICK read : read = ReadOf(ClaimKey(c))
    OBVIOUS
  <2>3. ReadOK(read) /\ read.got = "asking" /\ read.key = ClaimKey(c) /\ read.at = 1
    BY <2>2, FreshReads, ClaimKeyFits
  <2>4. PICK e : e = To(d, "verify", read)
    OBVIOUS
  <2>5. /\ e.step = "verify" /\ e.read = read /\ e.bytes = d.bytes /\ e.expected = d.expected
        /\ e.bound = d.bound /\ e.adopted = d.adopted
    BY <1>3, <2>4, ToFacts
  <2>6. ClaimFits(e)
    <3>1. "verify" \in ClaimSteps
      BY DEF ClaimSteps
    <3> QED
      BY <1>3, <2>3, <2>4, <3>1, ToFits DEF AtRest
  <2>7. claim' = [claim EXCEPT ![c] = e]
    BY <1>1, <1>2, <2>1, <2>2, <2>4 DEF Reads, To, ClaimsOK, ClaimTypes
  <2>8. ASSUME owner = c PROVE Own(c, e)'
    <3>1. Only(ClaimKey(c), f, content)'
      BY <1>1, <1>6, <1>8, <1>10, <2>1, <2>8, WritesOne, ClaimKeyFits
    <3>2. Sole(ClaimKey(c), content)'
      BY <1>6, <3>1 DEF Sole
    <3>3. OwnKey(c, e)'
      BY <1>8, <1>10, <2>5, <2>8, <3>2 DEF OwnKey, Blank
    <3>4. OwnReads(c, e)'
      BY <1>8, <1>10, <2>3, <2>5, <2>8, FreshScan, ContentFacts DEF OwnReads
    <3> QED
      BY <3>3, <3>4 DEF Own
  <2>9. FilesOK' /\ \A key \in AllKeys \ {ClaimKey(c)} : files'[key] = files[key]
    BY <1>1, <1>6, <2>1, Writes, ClaimKeyFits
  <2> QED
    BY <1>1, <1>2, <2>5, <2>6, <2>7, <2>8, <2>9, WritingClaim DEF CopySource
<1> QED
  BY <1>7, <1>9, <1>10

LEMMA FinishCopyStep ==
    ASSUME StorageInv, NEW c \in RivalClaims, FinishCopy(c)
    PROVE  StorageInv'
<1>1. ClaimsOK /\ ClaimGood(c) /\ FilesOK /\ claim[c].step = "copying" /\ BudgetOK'
  BY BudgetRests DEF StorageInv, StorageTypeOK, FinishCopy
<1>2. PICK d : d = claim[c]
  OBVIOUS
<1>3. /\ d \in ClaimTypes /\ d.step = "copying"
      /\ d.read.format \in Extensions /\ d.read.got \in Contents
  BY <1>1, <1>2 DEF ClaimsOK, ClaimFits
<1>4. /\ files' = Written(ClaimKey(c), d.read.format, d.read.got)
      /\ Reads(c, "verify", ClaimKey(c))
  BY <1>2 DEF FinishCopy
<1>5. PICK read : read = ReadOf(ClaimKey(c))
  OBVIOUS
<1>6. ReadOK(read) /\ read.got = "asking" /\ read.key = ClaimKey(c) /\ read.at = 1
  BY <1>5, FreshReads, ClaimKeyFits
<1>7. PICK e : e = To(d, "verify", read)
  OBVIOUS
<1>8. /\ e.step = "verify" /\ e.read = read /\ e.bytes = d.bytes /\ e.expected = d.expected
      /\ e.bound = d.bound /\ e.adopted = d.adopted
  BY <1>3, <1>7, ToFacts
<1>9. ClaimFits(e)
  <2>1. "verify" \in ClaimSteps
    BY DEF ClaimSteps
  <2> QED
    BY <1>3, <1>6, <1>7, <2>1, ToFits DEF AtRest
<1>10. claim' = [claim EXCEPT ![c] = e]
  BY <1>1, <1>2, <1>4, <1>5, <1>7 DEF Reads, To, ClaimsOK, ClaimTypes
<1>11. ASSUME owner = c PROVE Own(c, e)'
  <2>1. OwnKey(c, d) /\ OwnReads(c, d)
    BY <1>1, <1>2, <1>11 DEF ClaimGood, Own
  <2>2. /\ Only(ClaimKey(c), d.read.format, "torn") /\ d.read.got = d.bytes
        /\ d.bytes \in Pictures /\ d.expected.hash \in {"unknown", d.bytes}
    BY <1>3, <2>1 DEF OwnKey, OwnReads
  <2>3. Only(ClaimKey(c), d.read.format, d.bytes)'
    BY <1>1, <1>3, <1>4, <2>2, WritesOne, ClaimKeyFits
  <2>4. Sole(ClaimKey(c), d.bytes)'
    BY <1>3, <2>3 DEF Sole
  <2>5. OwnKey(c, e)'
    BY <1>8, <2>4 DEF OwnKey, Blank
  <2>6. OwnReads(c, e)'
    BY <1>6, <1>8, <2>2, FreshScan, ContentFacts DEF OwnReads
  <2> QED
    BY <2>5, <2>6 DEF Own
<1>12. FilesOK' /\ \A key \in AllKeys \ {ClaimKey(c)} : files'[key] = files[key]
  BY <1>1, <1>3, <1>4, Writes, ClaimKeyFits
<1> QED
  BY <1>1, <1>2, <1>8, <1>9, <1>10, <1>11, <1>12, WritingClaim DEF FinishCopy

LEMMA SaveDrawnStep ==
    ASSUME StorageInv, NEW c \in RivalClaims, SaveDrawn(c)
    PROVE  StorageInv'
<1>1. ClaimsOK /\ ClaimGood(c) /\ FilesOK /\ claim[c].step = "save" /\ BudgetOK'
  BY BudgetRests DEF StorageInv, StorageTypeOK, SaveDrawn
<1>2. PICK d : d = claim[c]
  OBVIOUS
<1>3. /\ d \in ClaimTypes /\ d.step = "save" /\ ReadOK(d.read) /\ ~Reading(d.read)
      /\ d.read.format \in Extensions
  BY <1>1, <1>2 DEF ClaimsOK, ClaimFits, AtRest
<1>4. PICK x : x = IF Local THEN "torn" ELSE c
  OBVIOUS
<1>5. x \in Contents /\ files' = Written(ClaimKey(c), d.read.format, x)
  BY <1>2, <1>4, ContentFacts DEF SaveDrawn, FirstWrite
<1>6. PICK e : e = To(d, "saving", d.read)
  OBVIOUS
<1>7. /\ e.step = "saving" /\ e.read = d.read /\ e.expected = d.expected
      /\ e.bound = d.bound /\ e.adopted = d.adopted
  BY <1>3, <1>6, ToFacts
<1>8. ClaimFits(e)
  <2>1. "saving" \in ClaimSteps
    BY DEF ClaimSteps
  <2> QED
    BY <1>3, <1>6, <2>1, ToFits
<1>9. claim' = [claim EXCEPT ![c] = e]
  BY <1>1, <1>2, <1>6 DEF SaveDrawn, To, ClaimsOK, ClaimTypes
<1>10. ASSUME owner = c PROVE Own(c, e)'
  <2>1. Empty(ClaimKey(c))
    BY <1>1, <1>2, <1>3, <1>10 DEF ClaimGood, Own, OwnKey, Blank
  <2>2. Only(ClaimKey(c), d.read.format, x)'
    BY <1>1, <1>3, <1>5, <2>1, WritesOne, ClaimKeyFits
  <2>3. Local' = Local
    BY DEF SaveDrawn, Local
  <2>4. OwnKey(c, e)'
    BY <1>4, <1>7, <2>2, <2>3 DEF OwnKey, Blank
  <2>5. OwnReads(c, e)'
    BY <1>7 DEF OwnReads
  <2> QED
    BY <2>4, <2>5 DEF Own
<1>11. FilesOK' /\ \A key \in AllKeys \ {ClaimKey(c)} : files'[key] = files[key]
  BY <1>1, <1>3, <1>5, Writes, ClaimKeyFits
<1> QED
  BY <1>1, <1>2, <1>7, <1>8, <1>9, <1>10, <1>11, WritingClaim DEF SaveDrawn

\* A claim that records its image: the owner does, any other fails.
LEMMA StoredStep ==
    ASSUME StorageInv, NEW c \in RivalClaims, NEW content \in Pictures, Stored(c, content),
           claim[c].step \in {"bind", "saving"}, FilesOK',
           \A key \in AllKeys \ {ClaimKey(c)} : files'[key] = files[key],
           owner = c => Sole(ClaimKey(c), content)',
           owner = c /\ claim[c].step = "bind" => claim[c].expected.hash \in {"unknown", content},
           UNCHANGED <<owner, onShow, viewer, served, sbudget>>
    PROVE  StorageInv'
<1>1. ClaimsOK /\ RowsOK /\ ClaimGood(c) /\ BudgetOK'
  BY BudgetRests DEF StorageInv, StorageTypeOK
<1>2. PICK d : d = claim[c]
  OBVIOUS
<1>3. d \in ClaimTypes /\ d.step \in {"bind", "saving"} /\ d.bound = "none" /\ ~d.adopted
  <2>1. Bound(c, d)
    BY <1>1, <1>2 DEF ClaimGood
  <2> QED
    BY <1>1, <1>2, <2>1 DEF ClaimsOK, Bound
<1>4. CASE owner # c
  <2>1. Steps(c, "failed") /\ UNCHANGED record
    BY <1>4 DEF Stored
  <2>2. ReadOK(NoRead) /\ "failed" \in ClaimSteps
    BY FreshReads DEF ClaimSteps
  <2>3. PICK e : e = To(d, "failed", NoRead)
    OBVIOUS
  <2>4. e.step = "failed" /\ e.expected = d.expected /\ e.bound = d.bound /\ e.adopted = d.adopted
    BY <1>3, <2>3, ToFacts
  <2>5. ClaimFits(e)
    BY <1>3, <2>2, <2>3, ToFits DEF AtRest
  <2>6. claim' = [claim EXCEPT ![c] = e]
    BY <1>1, <1>2, <2>1, <2>3 DEF Steps, To, ClaimsOK, ClaimTypes
  <2> QED
    BY <1>1, <1>2, <1>3, <1>4, <2>1, <2>4, <2>5, <2>6, WritingClaim DEF bookRows
<1>5. CASE owner = c
  <2>1. PICK e : e = [d EXCEPT !.step = "render", !.read = ReadOf(ClaimKey(c)),
                               !.bound = content, !.adopted = d.step = "bind"]
    OBVIOUS
  <2>2. /\ e.step = "render" /\ e.read = ReadOf(ClaimKey(c)) /\ e.bound = content
        /\ e.adopted = (d.step = "bind") /\ e.expected = d.expected
    BY <1>3, <2>1 DEF ClaimTypes
  <2>3. ClaimFits(e)
    <3>1. ReadOf(ClaimKey(c)) \in ReadTypes /\ ReadOK(ReadOf(ClaimKey(c)))
      BY FreshReads, ClaimKeyFits DEF ReadOK
    <3>2. "render" \in ClaimSteps
      BY DEF ClaimSteps
    <3>3. e \in ClaimTypes
      BY <1>3, <2>1, <3>1, <3>2 DEF ClaimTypes
    <3> QED
      BY <2>2, <3>1, <3>3 DEF ClaimFits, AtRest
  <2>4. /\ record' = [key |-> ClaimKey(c), hash |-> content]
        /\ claim' = [claim EXCEPT ![c] = e]
    <3>1. claim' = [claim EXCEPT ![c].step = "render", ![c].read = ReadOf(ClaimKey(c)),
                                 ![c].bound = content, ![c].adopted = claim[c].step = "bind"]
      BY <1>5 DEF Stored
    <3>2. claim' = [claim EXCEPT ![c] = e]
      BY <1>1, <1>2, <2>1, <3>1 DEF ClaimsOK
    <3> QED
      BY <1>5, <3>2 DEF Stored
  <2>5. claim'[c] = e
    BY <1>1, <2>4 DEF ClaimsOK
  <2>6. RowsOK'
    <3>1. record' \in Images
      BY <2>4, KeysDiffer DEF Images
    <3> QED
      BY <1>1, <3>1 DEF RowsOK
  <2>7. Advance(c, e)
    BY <1>2, <1>3, <2>2, <2>4 DEF Advance
  <2>8. KeyHolds(ClaimKey(c), content)' /\ Sole(ClaimKey(c), content)'
    BY <1>5 DEF KeyHolds, Sole, Only
  <2>9. content # "none"
    BY ContentFacts
  <2>10. Bound(c, e)'
    BY <1>2, <1>5, <2>2, <2>8, <2>9 DEF Bound
  <2>11. Own(c, e)'
    <3>1. OwnKey(c, e)'
      BY <2>2, <2>8 DEF OwnKey, Blank
    <3>2. OwnReads(c, e)'
      BY <2>2 DEF OwnReads
    <3> QED
      BY <3>1, <3>2 DEF Own
  <2>12. RecordGood'
    <3>1. PICK image : image = [key |-> ClaimKey(c), hash |-> content]
      OBVIOUS
    <3>2. IsBound(image)'
      BY <2>2, <2>5, <2>9, <3>1 DEF IsBound
    <3>3. Expected(image)'
      BY <3>2 DEF Expected
    <3>4. \A b \in RivalClaims : owner' = b => b = c
      BY <1>5
    <3> QED
      BY <2>2, <2>4, <2>5, <3>1, <3>3, <3>4 DEF RecordGood
  <2> QED
    BY <1>1, <2>3, <2>6, <2>7, <2>10, <2>11, <2>12, AdvanceKeeps
<1> QED
  BY <1>4, <1>5

LEMMA BindKeptStep ==
    ASSUME StorageInv, NEW c \in RivalClaims, BindKept(c)
    PROVE  StorageInv'
<1>1. ClaimsOK /\ ClaimGood(c) /\ FilesOK /\ claim[c].step = "bind" /\ BudgetOK'
  BY BudgetRests DEF StorageInv, StorageTypeOK, BindKept, Got
<1>2. PICK d : d = claim[c]
  OBVIOUS
<1>3. PICK content : content = d.read.got
  OBVIOUS
<1>4. CASE content \notin Pictures
  <2>1. Steps(c, "failed") /\ UNCHANGED record
    BY <1>2, <1>3, <1>4 DEF BindKept, Decodes
  <2> QED
    BY <1>1, <2>1, StopsOrDraws DEF BindKept, bookRows
<1>5. CASE content \in Pictures
  <2>1. Stored(c, content)
    BY <1>2, <1>3, <1>5 DEF BindKept, Decodes
  <2>2. ASSUME owner = c
        PROVE  Sole(ClaimKey(c), content) /\ d.expected.hash \in {"unknown", content}
    <3>1. OwnKey(c, d) /\ OwnReads(c, d) /\ d.step = "bind"
      BY <1>1, <1>2, <2>2 DEF ClaimGood, Own
    <3>2. content \in Contents \ {"none"}
      BY <1>5, ContentFacts
    <3>3. /\ Sole(ClaimKey(c), d.bytes) /\ KeyHolds(ClaimKey(c), content)
          /\ d.bytes \in Pictures /\ d.expected.hash \in {"unknown", d.bytes}
      BY <1>3, <3>1, <3>2 DEF OwnKey, OwnReads
    <3>4. d.bytes = content
      BY <3>3, ContentFacts DEF Sole, Only, KeyHolds
    <3> QED
      BY <3>3, <3>4
  <2>3. \A key : files'[key] = files[key]
    BY DEF BindKept
  <2>4. owner = c => Sole(ClaimKey(c), content)'
    BY <2>2, <2>3, KeyFrame
  <2>5. FilesOK'
    BY <1>1 DEF FilesOK, BindKept
  <2> QED
    BY <1>1, <1>2, <1>5, <2>1, <2>2, <2>3, <2>4, <2>5, StoredStep DEF BindKept
<1> QED
  BY <1>4, <1>5

LEMMA DrawnSavedStep ==
    ASSUME StorageInv, NEW c \in RivalClaims, DrawnSaved(c)
    PROVE  StorageInv'
<1>1. ClaimsOK /\ ClaimGood(c) /\ FilesOK /\ claim[c].step = "saving"
  BY DEF StorageInv, StorageTypeOK, DrawnSaved
<1>2. PICK d : d = claim[c]
  OBVIOUS
<1>3. d.step = "saving" /\ d.read.format \in Extensions
  BY <1>1, <1>2 DEF ClaimsOK, ClaimFits
<1>4. c \in Pictures /\ c \in Contents
  BY ContentFacts
<1>5. owner = c => OwnKey(c, d)
  BY <1>1, <1>2 DEF ClaimGood, Own
<1>6. CASE Local
  <2>1. files' = Written(ClaimKey(c), d.read.format, c)
    BY <1>2, <1>6 DEF DrawnSaved
  <2>2. FilesOK' /\ \A key \in AllKeys \ {ClaimKey(c)} : files'[key] = files[key]
    BY <1>1, <1>3, <1>4, <2>1, Writes, ClaimKeyFits
  <2>3. ASSUME owner = c PROVE Sole(ClaimKey(c), c)'
    <3>1. Only(ClaimKey(c), d.read.format, "torn")
      BY <1>3, <1>5, <1>6, <2>3 DEF OwnKey
    <3>2. Only(ClaimKey(c), d.read.format, c)'
      BY <1>1, <1>3, <1>4, <2>1, <3>1, WritesOne, ClaimKeyFits
    <3> QED
      BY <1>3, <3>2 DEF Sole
  <2> QED
    BY <1>1, <1>4, <2>2, <2>3, StoredStep DEF DrawnSaved
<1>7. CASE ~Local
  <2>1. \A key : files'[key] = files[key]
    BY <1>7 DEF DrawnSaved
  <2>2. FilesOK'
    BY <1>1, <1>7 DEF FilesOK, DrawnSaved
  <2>3. ASSUME owner = c PROVE Sole(ClaimKey(c), c)'
    <3>1. Only(ClaimKey(c), d.read.format, c)
      BY <1>3, <1>5, <1>7, <2>3 DEF OwnKey
    <3>2. Only(ClaimKey(c), d.read.format, c)'
      BY <2>1, <3>1, KeyFrame
    <3> QED
      BY <1>3, <3>2 DEF Sole
  <2> QED
    BY <1>1, <1>4, <2>1, <2>2, <2>3, StoredStep DEF DrawnSaved
<1> QED
  BY <1>6, <1>7

\* What the owner publishes is what it recorded, alone under its key.
LEMMA RenderedStep ==
    ASSUME StorageInv, NEW c \in RivalClaims, Rendered(c)
    PROVE  StorageInv'
<1>1. /\ ClaimsOK /\ ClaimGood(c) /\ FilesOK /\ RowsOK /\ RecordGood
      /\ claim[c].step = "render" /\ BudgetOK'
  BY BudgetRests DEF StorageInv, StorageTypeOK, Rendered, Got
<1>2. CASE Steps(c, "failed") /\ UNCHANGED onShow
  BY <1>1, <1>2, StopsOrDraws DEF Rendered, bookRows
<1>3. CASE owner = c /\ onShow' = record /\ Steps(c, "done")
  <2>1. PICK d : d = claim[c]
    OBVIOUS
  <2>2. d \in ClaimTypes /\ d.step = "render" /\ Bound(c, d) /\ Own(c, d)
    BY <1>1, <1>3, <2>1 DEF ClaimsOK, ClaimGood
  <2>3. d.bound # "none" /\ Sole(ClaimKey(c), d.bound)
    BY <2>2 DEF Bound, Own, OwnKey
  <2>4. PICK e : e = To(d, "done", NoRead)
    OBVIOUS
  <2>5. e.step = "done" /\ e.expected = d.expected /\ e.bound = d.bound /\ e.adopted = d.adopted
    BY <2>2, <2>4, ToFacts
  <2>6. ClaimFits(e)
    <3>1. "done" \in ClaimSteps /\ ReadOK(NoRead)
      BY FreshReads DEF ClaimSteps
    <3> QED
      BY <2>2, <2>4, <3>1, ToFits DEF AtRest
  <2>7. claim' = [claim EXCEPT ![c] = e]
    BY <1>1, <1>3, <2>1, <2>4 DEF Steps, To, ClaimsOK, ClaimTypes
  <2>8. claim'[c] = e /\ \A b \in RivalClaims : b # c => claim'[b] = claim[b]
    BY <1>1, <2>7 DEF ClaimsOK
  <2>9. Advance(c, e)
    BY <2>1, <2>5, <2>7 DEF Advance, Rendered
  <2>10. \A key : files'[key] = files[key]
    BY DEF Rendered
  <2>11. FilesOK' /\ RowsOK' /\ owner' = owner /\ record' = record
    BY <1>1, <1>3 DEF FilesOK, RowsOK, Rendered
  <2>12. Bound(c, e)'
    <3>1. Bound(c, e)
      BY <2>2, <2>5 DEF Bound
    <3> QED
      BY <2>10, <2>11, <3>1, BoundFrame, KeyFrame
  <2>13. Own(c, e)'
    <3>1. Sole(ClaimKey(c), d.bound)'
      BY <2>3, <2>10, KeyFrame
    <3>2. OwnKey(c, e)'
      BY <2>5, <3>1 DEF OwnKey, Blank
    <3>3. OwnReads(c, e)'
      BY <2>5 DEF OwnReads
    <3> QED
      BY <3>2, <3>3 DEF Own
  <2>14. PICK image : image = record
    OBVIOUS
  <2>15. image = [key |-> ClaimKey(c), hash |-> d.bound]
    BY <1>1, <1>3, <2>1, <2>14 DEF RecordGood
  <2>16. IsBound(image)' /\ Expected(image)'
    BY <2>3, <2>5, <2>8, <2>15 DEF IsBound, Expected
  <2>17. RecordGood'
    <3>1. \A b \in RivalClaims : owner' = b => b = c
      BY <1>3, <2>11
    <3> QED
      BY <2>5, <2>8, <2>11, <2>14, <2>15, <2>16, <3>1 DEF RecordGood
  <2>18. Sole(image.key, image.hash)'
    <3>1. image.key = ClaimKey(c) /\ image.hash = d.bound
      BY <2>15
    <3> QED
      BY <2>3, <2>10, <3>1, KeyFrame
  <2>19. ShowGood'
    BY <1>3, <2>14, <2>16, <2>18 DEF ShowGood
  <2> QED
    BY <1>1, <2>6, <2>9, <2>11, <2>12, <2>13, <2>17, <2>19, AdvanceKeeps
<1> QED
  BY <1>2, <1>3 DEF Rendered

\* A claim that starts takes the book over, and finds its key empty.
LEMMA StartClaimStep ==
    ASSUME StorageInv, NEW c \in RivalClaims, StartClaim(c)
    PROVE  StorageInv'
<1>1. /\ ClaimsOK /\ ClaimGood(c) /\ FilesOK /\ RowsOK /\ RecordGood /\ ViewersOK
      /\ claim[c].step = "waiting" /\ BudgetOK' /\ owner' = c
  BY BudgetRests DEF StorageInv, StorageTypeOK, StartClaim
<1>2. PICK d : d = claim[c]
  OBVIOUS
<1>3. /\ d \in ClaimTypes /\ d.step = "waiting" /\ d.bound = "none" /\ ~d.adopted
      /\ Empty(ClaimKey(c)) /\ Expected(d.expected)
  <2>1. Bound(c, d) /\ Expected(d.expected)
    BY <1>1, <1>2 DEF ClaimGood
  <2> QED
    BY <1>1, <1>2, <2>1 DEF ClaimsOK, Bound
<1>4. PICK image : image = record
  OBVIOUS
<1>5. image \in Images /\ Expected(image)
  BY <1>1, <1>4 DEF RowsOK, RecordGood
<1>6. PICK read : read = ReadOf(image.key)
  OBVIOUS
<1>7. ReadOK(read)
  <2>1. image.key \in AllKeys
    BY <1>5 DEF Images, AllKeys
  <2> QED
    BY <1>6, <2>1, FreshReads
<1>8. PICK e : /\ \/ e = [d EXCEPT !.step = "inspect", !.read = read, !.expected = image]
                  \/ e = [d EXCEPT !.step = "draw", !.read = NoRead]
               /\ claim' = [claim EXCEPT ![c] = e]
  <2>1. CASE claim' = [claim EXCEPT ![c].step = "inspect", ![c].read = ReadOf(record.key),
                                    ![c].expected = record]
    <3>1. PICK e : e = [d EXCEPT !.step = "inspect", !.read = read, !.expected = image]
      OBVIOUS
    <3>2. claim' = [claim EXCEPT ![c] = e]
      BY <1>1, <1>2, <1>4, <1>6, <2>1, <3>1 DEF ClaimsOK
    <3> QED
      BY <3>1, <3>2
  <2>2. CASE Steps(c, "draw")
    <3>1. PICK e : e = [d EXCEPT !.step = "draw", !.read = NoRead]
      OBVIOUS
    <3>2. claim' = [claim EXCEPT ![c] = e]
      BY <1>1, <1>2, <2>2, <3>1 DEF Steps, ClaimsOK
    <3> QED
      BY <3>1, <3>2
  <2> QED
    BY <2>1, <2>2 DEF StartClaim
<1>9. /\ e.step \in {"inspect", "draw"} /\ e.bound = "none" /\ ~e.adopted
      /\ e.expected \in {image, d.expected} /\ ReadOK(e.read)
      /\ e.step = "draw" => ~Reading(e.read)
  BY <1>3, <1>7, <1>8, FreshReads DEF ClaimTypes, Reading
<1>10. ClaimFits(e)
  <2>1. "inspect" \in ClaimSteps /\ "draw" \in ClaimSteps
    BY DEF ClaimSteps
  <2>2. read \in ReadTypes /\ NoRead \in ReadTypes
    BY <1>7, FreshReads DEF ReadOK
  <2>3. e \in ClaimTypes
    BY <1>3, <1>5, <1>8, <2>1, <2>2 DEF ClaimTypes
  <2> QED
    BY <1>9, <2>3 DEF ClaimFits, AtRest
<1>11. claim'[c] = e /\ \A b \in RivalClaims : b # c => claim'[b] = claim[b]
  BY <1>1, <1>8 DEF ClaimsOK
<1>12. ClaimsOK'
  <2>1. claim' \in [RivalClaims -> ClaimTypes]
    BY <1>1, <1>8, <1>10 DEF ClaimsOK, ClaimFits
  <2> QED
    BY <1>1, <1>10, <1>11, <2>1 DEF ClaimsOK
<1>13. \A key : files'[key] = files[key]
  BY DEF StartClaim
<1>14. Local' = Local /\ UNCHANGED <<files, record, onShow, viewer, served, sbudget>>
  BY DEF StartClaim, Local
<1>15. FilesOK' /\ RowsOK' /\ ViewersOK'
  BY <1>1, <1>14 DEF FilesOK, RowsOK, ViewersOK
<1>16. \A x : (IsBound(x) => IsBound(x)') /\ (Expected(x) => Expected(x)')
  BY <1>1, <1>2, <1>3, <1>8, IsBoundStays
<1>17. ClaimGood(c)'
  <2>1. Bound(c, e)'
    BY <1>9 DEF Bound
  <2>2. Expected(e.expected)'
    BY <1>3, <1>5, <1>9, <1>16
  <2>3. Empty(ClaimKey(c))'
    BY <1>3, <1>13, KeyFrame
  <2>4. Own(c, e)'
    BY <1>9, <2>3 DEF Own, OwnKey, OwnReads, Blank
  <2> QED
    BY <1>11, <2>1, <2>2, <2>4 DEF ClaimGood
<1>18. ASSUME NEW b \in RivalClaims, b # c PROVE ClaimGood(b)'
  <2>1. PICK f : f = claim[b]
    OBVIOUS
  <2>2. Bound(b, f) /\ Expected(f.expected) /\ claim'[b] = f
    BY <1>11, <1>18, <2>1 DEF StorageInv, ClaimGood
  <2>3. Bound(b, f)'
    BY <1>1, <1>13, <1>18, <2>2, BoundFrame, KeyFrame
  <2>4. Expected(f.expected)'
    BY <1>16, <2>2
  <2> QED
    BY <1>1, <1>18, <2>2, <2>3, <2>4 DEF ClaimGood
<1>19. RecordGood'
  <2>1. Expected(image)' /\ record' = image
    BY <1>4, <1>5, <1>14, <1>16
  <2>2. \A b \in RivalClaims : owner' = b => claim'[b].step \notin {"render", "done"}
    BY <1>1, <1>9, <1>11
  <2> QED
    BY <2>1, <2>2 DEF RecordGood
<1>20. ShowGood'
  <2>1. PICK x : x = onShow
    OBVIOUS
  <2>2. x = NoImage \/ (IsBound(x)' /\ Sole(x.key, x.hash)')
    BY <1>13, <1>16, <2>1, KeyFrame DEF StorageInv, ShowGood
  <2> QED
    BY <1>14, <2>1, <2>2 DEF ShowGood
<1>21. SourceGood' /\ ServedIsPublished'
  <2>1. \A x : KeyHolds("source", x) => KeyHolds("source", x)'
    BY <1>13, KeyFrame
  <2> QED
    BY <1>14, <2>1 DEF StorageInv, SourceGood, ServedIsPublished
<1>22. ThumbGood'
  <2>1. \A b \in RivalClaims : claim[b].bound # "none" => claim'[b].bound = claim[b].bound
    BY <1>2, <1>3, <1>11
  <2> QED
    BY <1>14, <2>1 DEF StorageInv, ThumbGood
<1>23. ASSUME NEW r \in CoverReaders PROVE ViewerGood(r)'
  <2>1. PICK v : v = viewer[r]
    OBVIOUS
  <2>2. ViewGood(v)'
    BY <1>14, <1>16, <2>1, ViewFrame DEF StorageInv, ViewerGood
  <2> QED
    BY <1>14, <2>1, <2>2 DEF ViewerGood
<1>24. \A b \in RivalClaims : ClaimGood(b)'
  BY <1>17, <1>18
<1> QED
  BY <1>1, <1>12, <1>15, <1>19, <1>20, <1>21, <1>22, <1>23, <1>24 DEF StorageInv, StorageTypeOK

-----------------------------------------------------------------------------
(* Storage: readers and the sweeper *)

\* A step that at most removes images that nobody needs.
LEMMA ClaimsRest ==
    ASSUME StorageInv, UNCHANGED <<claim, bookRows>>,
           sbudget'.source = sbudget.source /\ sbudget'.driver = sbudget.driver,
           \A key \in ImageKeys : \A g \in Extensions : files'[key][g] \in {files[key][g], "none"},
           \A c \in RivalClaims : owner = c => files'[ClaimKey(c)] = files[ClaimKey(c)],
           files'[onShow.key] = files[onShow.key],
           FilesOK', ViewersOK', BudgetOK', ThumbGood', ServedIsPublished',
           \A r \in CoverReaders : ViewerGood(r)'
    PROVE  StorageInv'
<1>1. ClaimsOK /\ RowsOK /\ Local' = Local
  BY DEF StorageInv, StorageTypeOK, Local
<1>2. ClaimsOK' /\ RowsOK'
  BY <1>1 DEF ClaimsOK, RowsOK, bookRows
<1>3. \A image : (IsBound(image) => IsBound(image)') /\ (Expected(image) => Expected(image)')
  BY DEF IsBound, Expected
<1>4. \A key \in ImageKeys : /\ Empty(key) => Empty(key)'
                             /\ \A x : KeyHolds(key, x) => KeyHolds(key, x)'
  BY KeyShrinks
<1>5. ASSUME NEW c \in RivalClaims PROVE ClaimGood(c)'
  <2>1. PICK d : d = claim[c]
    OBVIOUS
  <2>2. /\ Bound(c, d) /\ Expected(d.expected) /\ (owner = c => Own(c, d))
        /\ claim'[c] = d /\ owner' = owner
    BY <2>1 DEF StorageInv, ClaimGood, bookRows
  <2>3. ClaimKey(c) \in ImageKeys
    BY KeysDiffer
  <2>4. d.expected.key \in ImageKeys
    BY <1>1, <2>1 DEF ClaimsOK, ClaimTypes, Images
  <2>5. Bound(c, d)'
    BY <1>4, <2>2, <2>3, BoundFrame
  <2>6. Expected(d.expected)'
    BY <1>3, <2>2
  <2>7. owner' = c => Own(c, d)'
    BY <1>1, <1>4, <2>2, <2>4, OwnFrame
  <2> QED
    BY <2>2, <2>5, <2>6, <2>7 DEF ClaimGood
<1>6. RecordGood'
  <2>1. PICK x : x = record
    OBVIOUS
  <2>2. Expected(x)'
    BY <1>3, <2>1 DEF StorageInv, RecordGood
  <2> QED
    BY <2>1, <2>2 DEF StorageInv, RecordGood, bookRows
<1>7. ShowGood'
  <2>1. PICK x : x = onShow
    OBVIOUS
  <2>2. files'[x.key] = files[x.key]
    BY <2>1
  <2>3. x = NoImage \/ (IsBound(x)' /\ Sole(x.key, x.hash)')
    BY <1>3, <2>1, <2>2, KeyFrame DEF StorageInv, ShowGood
  <2> QED
    BY <2>1, <2>3 DEF ShowGood, bookRows
<1>8. SourceGood'
  <2>1. "source" \in ImageKeys
    BY DEF ImageKeys
  <2> QED
    BY <1>4, <2>1 DEF StorageInv, SourceGood
<1> QED
  BY <1>2, <1>5, <1>6, <1>7, <1>8 DEF StorageInv, StorageTypeOK

LEMMA ThumbWritten ==
    ASSUME StorageInv, NEW image, IsBound(image), NEW f \in Extensions, NEW x,
           x = ThumbOf[image.hash] \/ (Local /\ x = "torn"),
           files' = Written(ThumbKey(image.key), f, x), UNCHANGED claim, Local' = Local
    PROVE  FilesOK' /\ ThumbGood' /\ \A key \in ImageKeys : files'[key] = files[key]
<1>1. ClaimsOK /\ FilesOK
  BY DEF StorageInv, StorageTypeOK
<1>2. PICK c \in RivalClaims : /\ claim[c].bound # "none"
                               /\ image = [key |-> ClaimKey(c), hash |-> claim[c].bound]
  BY DEF IsBound
<1>3. image.key = ClaimKey(c) /\ image.hash = claim[c].bound /\ image.hash \in Pictures
  BY <1>1, <1>2, ImageFacts
<1>4. PICK key : key = ThumbKey(ClaimKey(c))
  OBVIOUS
<1>5. key \in AllKeys /\ x \in Contents /\ key \notin ImageKeys /\ ImageKeys \subseteq AllKeys
  BY <1>3, <1>4, KeysDiffer, ContentFacts
<1>6. /\ FilesOK' /\ \A other \in AllKeys \ {key} : files'[other] = files[other]
      /\ \A g \in Extensions : files'[key][g] = IF g = f THEN x ELSE files[key][g]
  BY <1>1, <1>3, <1>4, <1>5, Writes
<1>7. ThumbGood'
  <2>1. ASSUME NEW b \in RivalClaims, NEW g \in Extensions
        PROVE  LET y == files'[ThumbKey(ClaimKey(b))][g] IN
               \/ y = "none"
               \/ Local' /\ y = "torn"
               \/ claim'[b].bound # "none" /\ y = ThumbOf[claim'[b].bound]
    <3>1. LET y == files[ThumbKey(ClaimKey(b))][g] IN
          \/ y = "none"
          \/ Local /\ y = "torn"
          \/ claim[b].bound # "none" /\ y = ThumbOf[claim[b].bound]
      BY DEF StorageInv, ThumbGood
    <3>2. CASE b = c
      BY <1>2, <1>3, <1>4, <1>6, <3>1, <3>2
    <3>3. CASE b # c
      <4>1. ThumbKey(ClaimKey(b)) \in AllKeys \ {key}
        BY <1>4, <3>3, KeysDiffer
      <4> QED
        BY <1>6, <3>1, <4>1
    <3> QED
      BY <3>2, <3>3
  <2> QED
    BY <2>1 DEF ThumbGood
<1> QED
  BY <1>5, <1>6, <1>7

\* A step of a reader that leaves the images alone.
LEMMA ViewerMoves ==
    ASSUME StorageInv, NEW r \in CoverReaders, NEW v \in ViewerTypes, ReadOK(v.read),
           viewer' = [viewer EXCEPT ![r] = v], ViewGood(v), UNCHANGED <<claim, bookRows>>,
           sbudget'.source = sbudget.source /\ sbudget'.driver = sbudget.driver,
           \A key \in ImageKeys : files'[key] = files[key],
           FilesOK', BudgetOK', ThumbGood', ServedIsPublished'
    PROVE  StorageInv'
<1>1. ViewersOK /\ RowsOK /\ Local' = Local
  BY DEF StorageInv, StorageTypeOK, Local
<1>2. \A image : IsBound(image) => IsBound(image)'
  BY DEF IsBound
<1>3. viewer'[r] = v /\ \A s \in CoverReaders : s # r => viewer'[s] = viewer[s]
  BY <1>1 DEF ViewersOK
<1>4. ViewersOK'
  <2>1. viewer' \in [CoverReaders -> ViewerTypes]
    BY <1>1 DEF ViewersOK
  <2> QED
    BY <1>1, <1>3, <2>1 DEF ViewersOK
<1>5. ASSUME NEW s \in CoverReaders PROVE ViewerGood(s)'
  <2>1. PICK w : w = viewer'[s]
    OBVIOUS
  <2>2. ViewGood(w)
    BY <1>3, <2>1 DEF StorageInv, ViewerGood
  <2>3. ViewGood(w)'
    BY <1>1, <1>2, <2>2, ViewFrame
  <2> QED
    BY <2>1, <2>3 DEF ViewerGood
<1>6. onShow.key \in ImageKeys /\ \A c \in RivalClaims : ClaimKey(c) \in ImageKeys
  BY <1>1, KeysDiffer DEF RowsOK, Images
<1> QED
  BY <1>4, <1>5, <1>6, ClaimsRest

LEMMA ThumbsRest ==
    ASSUME StorageInv, UNCHANGED <<files, claim>>, sbudget'.driver = sbudget.driver
    PROVE  FilesOK' /\ ThumbGood'
BY DEF StorageInv, StorageTypeOK, FilesOK, ThumbGood, Local

LEMMA ServedRests ==
    ASSUME StorageInv, UNCHANGED served, sbudget'.driver = sbudget.driver
    PROVE  ServedIsPublished'
BY DEF StorageInv, ServedIsPublished

\* An answer with what may be served.
LEMMA AnswerServes ==
    ASSUME StorageInv, NEW r \in CoverReaders, NEW x, Answer(r, x), MayServe(viewer[r].of.hash, x),
           sbudget'.driver = sbudget.driver
    PROVE  ServedIsPublished'
<1>1. PICK s : s = [of |-> viewer[r].of.hash, bytes |-> x]
  OBVIOUS
<1>2. served' = served \cup {s} /\ s.of = viewer[r].of.hash /\ s.bytes = x
  BY <1>1 DEF Answer
<1> QED
  BY <1>2 DEF StorageInv, ServedIsPublished, MayServe, Local

\* A reader that goes back to the shelf.
LEMMA GoesIdle ==
    ASSUME StorageInv, NEW r \in CoverReaders, Views(r, "idle", NoRead),
           UNCHANGED <<claim, bookRows>>,
           sbudget'.source = sbudget.source /\ sbudget'.driver = sbudget.driver,
           \A key \in ImageKeys : files'[key] = files[key],
           FilesOK', BudgetOK', ThumbGood', ServedIsPublished'
    PROVE  StorageInv'
<1>1. ViewersOK /\ viewer[r] \in ViewerTypes
  BY DEF StorageInv, StorageTypeOK, ViewersOK
<1>2. PICK v : v = [viewer[r] EXCEPT !.step = "idle", !.read = NoRead]
  OBVIOUS
<1>3. ReadOK(NoRead) /\ NoRead \in ReadTypes
  BY FreshReads DEF ReadOK
<1>4. v \in ViewerTypes /\ v.step = "idle" /\ v.read = NoRead
  BY <1>1, <1>2, <1>3 DEF ViewerTypes
<1>5. viewer' = [viewer EXCEPT ![r] = v]
  BY <1>1, <1>2 DEF Views, ViewersOK
<1>6. ViewGood(v)
  BY <1>4 DEF ViewGood
<1> QED
  BY <1>3, <1>4, <1>5, <1>6, ViewerMoves

\* What a reader in progress holds.
LEMMA ViewFacts ==
    ASSUME StorageInv, NEW r \in CoverReaders, NEW v, v = viewer[r]
    PROVE  /\ v \in ViewerTypes /\ ReadOK(v.read) /\ ViewGood(v)
           /\ v.step # "idle" =>
                /\ v.of.key \in ImageKeys /\ v.of.hash \in Pictures /\ IsBound(v.of)
                /\ ThumbOf[v.of.hash] \in Contents
<1>1. /\ v \in ViewerTypes /\ ReadOK(v.read) /\ ViewGood(v) /\ ClaimsOK
  BY DEF StorageInv, StorageTypeOK, ViewersOK, ViewerGood
<1>2. ASSUME v.step # "idle"
      PROVE  v.of.key \in ImageKeys /\ v.of.hash \in Pictures /\ IsBound(v.of)
  BY <1>1, <1>2, ImageFacts DEF ViewGood
<1> QED
  BY <1>1, <1>2, ContentFacts

LEMMA ThumbKeysDiffer ==
    /\ \A key \in ImageKeys : ThumbKey(key) \in AllKeys \ ImageKeys
    /\ ImageKeys \subseteq AllKeys /\ ImageKeys \cap ThumbKeys = {}
BY DEF ImageKeys, ThumbKeys, ThumbKey, AllKeys

LEMMA AskCoverStep ==
    ASSUME StorageInv, NEW r \in CoverReaders, AskCover(r)
    PROVE  StorageInv'
<1>1. ViewersOK /\ RowsOK /\ ClaimsOK /\ sbudget \in BudgetTypes
  BY DEF StorageInv, StorageTypeOK, BudgetOK
<1>2. PICK image : image = onShow
  OBVIOUS
<1>3. image \in Images /\ IsBound(image)
  BY <1>1, <1>2 DEF StorageInv, ShowGood, RowsOK, AskCover
<1>4. PICK read : read = ReadOf(ThumbKey(image.key))
  OBVIOUS
<1>5. ReadOK(read) /\ read \in ReadTypes /\ read.key = ThumbKey(image.key) /\ read.got = "asking"
  <2>1. ThumbKey(image.key) \in AllKeys
    BY <1>3, ThumbKeysDiffer DEF Images
  <2> QED
    BY <1>4, <2>1, FreshReads DEF ReadOK
<1>6. PICK v : v = [step |-> "thumb", read |-> read, of |-> image]
  OBVIOUS
<1>7. v \in ViewerTypes /\ v.step = "thumb" /\ v.read = read /\ v.of = image
  BY <1>3, <1>5, <1>6 DEF ViewerTypes
<1>8. ViewGood(v)
  BY <1>3, <1>5, <1>7, ContentFacts DEF ViewGood
<1>9. viewer' = [viewer EXCEPT ![r] = v]
  BY <1>2, <1>4, <1>6 DEF AskCover
<1>10. BudgetOK' /\ sbudget'.source = sbudget.source /\ sbudget'.driver = sbudget.driver
  BY <1>1 DEF AskCover, Spend, BudgetOK, BudgetTypes
<1>11. FilesOK' /\ ThumbGood' /\ ServedIsPublished'
  BY <1>10, ThumbsRest, ServedRests DEF AskCover
<1> QED
  BY <1>5, <1>7, <1>8, <1>9, <1>10, <1>11, ViewerMoves DEF AskCover

LEMMA ViewerReadsStep ==
    ASSUME StorageInv, NEW r \in CoverReaders, ViewerReads(r)
    PROVE  StorageInv'
<1>1. ViewersOK /\ FilesOK /\ ClaimsOK
  BY DEF StorageInv, StorageTypeOK
<1>2. PICK v : v = viewer[r]
  OBVIOUS
<1>3. /\ v \in ViewerTypes /\ ReadOK(v.read) /\ ViewGood(v) /\ Reading(v.read)
      /\ v.step # "idle" => /\ v.of.key \in ImageKeys /\ v.of.hash \in Pictures /\ IsBound(v.of)
                            /\ ThumbOf[v.of.hash] \in Contents
  BY <1>2, ViewFacts DEF ViewerReads
<1>4. PICK read : read = Progress(v.read)
  OBVIOUS
<1>5. /\ ReadOK(read) /\ read \in ReadTypes /\ read.key = v.read.key
      /\ read.got \in Contents \ {"none"} => \E f \in Extensions : files[v.read.key][f] = read.got
  BY <1>1, <1>3, <1>4, ReadStep DEF ReadOK
<1>6. PICK w : w = [v EXCEPT !.read = read]
  OBVIOUS
<1>7. w \in ViewerTypes /\ w.step = v.step /\ w.read = read /\ w.of = v.of
  BY <1>3, <1>5, <1>6 DEF ViewerTypes
<1>8. viewer' = [viewer EXCEPT ![r] = w]
  BY <1>1, <1>2, <1>4, <1>6 DEF ViewerReads, ViewersOK
<1>9. v.step \notin {"save", "saving"}
  BY <1>3, ContentFacts DEF ViewGood, Reading
<1>10. ASSUME v.step = "thumb", read.got \in Contents \ {"none"}
       PROVE  MayServe(v.of.hash, read.got)
  <2>1. PICK c \in RivalClaims : /\ claim[c].bound # "none"
                                 /\ v.of = [key |-> ClaimKey(c), hash |-> claim[c].bound]
    BY <1>3, <1>10 DEF IsBound
  <2>2. v.of.key = ClaimKey(c) /\ v.of.hash = claim[c].bound
    BY <2>1
  <2>3. PICK f \in Extensions : files[ThumbKey(ClaimKey(c))][f] = read.got
    BY <1>3, <1>5, <1>10, <2>2 DEF ViewGood
  <2> QED
    BY <1>10, <2>2, <2>3 DEF StorageInv, ThumbGood, MayServe
<1>11. ASSUME v.step = "cover", read.got \in Contents
       PROVE  read.got \in {"none", v.of.hash}
  <2>1. PICK c \in RivalClaims : /\ claim[c].bound # "none"
                                 /\ v.of = [key |-> ClaimKey(c), hash |-> claim[c].bound]
    BY <1>3, <1>11 DEF IsBound
  <2>2. v.of.key = ClaimKey(c) /\ v.of.hash = claim[c].bound
    BY <2>1
  <2>3. PICK d : d = claim[c]
    OBVIOUS
  <2>4. Bound(c, d)
    BY <2>3 DEF StorageInv, ClaimGood
  <2>5. KeyHolds(ClaimKey(c), d.bound)
    BY <2>1, <2>3, <2>4 DEF Bound
  <2>6. read.got # "none" => \E f \in Extensions : files[ClaimKey(c)][f] = read.got
    BY <1>3, <1>5, <1>11, <2>2 DEF ViewGood
  <2> QED
    BY <2>2, <2>3, <2>5, <2>6 DEF KeyHolds
<1>12. ViewGood(w)
  BY <1>3, <1>5, <1>7, <1>9, <1>10, <1>11 DEF ViewGood
<1>13. FilesOK' /\ ThumbGood' /\ ServedIsPublished' /\ BudgetOK'
  BY ThumbsRest, ServedRests, BudgetRests DEF ViewerReads
<1> QED
  BY <1>5, <1>7, <1>8, <1>12, <1>13, ViewerMoves DEF ViewerReads

LEMMA ThumbReadStep ==
    ASSUME StorageInv, NEW r \in CoverReaders, ThumbRead(r)
    PROVE  StorageInv'
<1>1. ViewersOK
  BY DEF StorageInv, StorageTypeOK
<1>2. PICK v : v = viewer[r]
  OBVIOUS
<1>3. /\ v \in ViewerTypes /\ ViewGood(v) /\ v.step = "thumb" /\ v.read.got \in Contents
      /\ v.of.key \in ImageKeys /\ v.of.hash \in Pictures /\ IsBound(v.of)
  BY <1>2, ViewFacts DEF ThumbRead, ViewerGot
<1>4. FilesOK' /\ ThumbGood' /\ BudgetOK'
  BY ThumbsRest, BudgetRests DEF ThumbRead
<1>5. CASE v.read.got = "none"
  <2>1. PICK read : read = ReadOf(v.of.key)
    OBVIOUS
  <2>2. ReadOK(read) /\ read \in ReadTypes /\ read.key = v.of.key /\ read.got = "asking"
    BY <1>3, <2>1, FreshReads DEF ReadOK, AllKeys
  <2>3. PICK w : w = [v EXCEPT !.step = "cover", !.read = read]
    OBVIOUS
  <2>4. w \in ViewerTypes /\ w.step = "cover" /\ w.read = read /\ w.of = v.of
    BY <1>3, <2>2, <2>3 DEF ViewerTypes
  <2>5. viewer' = [viewer EXCEPT ![r] = w]
    BY <1>1, <1>2, <1>5, <2>1, <2>3 DEF ThumbRead, Views, ViewersOK
  <2>6. ViewGood(w)
    BY <1>3, <2>2, <2>4, ContentFacts DEF ViewGood
  <2>7. ServedIsPublished'
    BY <1>2, <1>5, ServedRests DEF ThumbRead
  <2> QED
    BY <1>4, <2>2, <2>4, <2>5, <2>6, <2>7, ViewerMoves DEF ThumbRead
<1>6. CASE v.read.got # "none"
  <2>1. Views(r, "idle", NoRead) /\ Answer(r, v.read.got)
    BY <1>2, <1>6 DEF ThumbRead
  <2>2. MayServe(v.of.hash, v.read.got)
    BY <1>3, <1>6 DEF ViewGood
  <2>3. ServedIsPublished'
    BY <1>2, <2>1, <2>2, AnswerServes DEF ThumbRead
  <2> QED
    BY <1>4, <2>1, <2>3, GoesIdle DEF ThumbRead
<1> QED
  BY <1>5, <1>6

LEMMA CoverReadStep ==
    ASSUME StorageInv, NEW r \in CoverReaders, CoverRead(r)
    PROVE  StorageInv'
<1>1. ViewersOK
  BY DEF StorageInv, StorageTypeOK
<1>2. PICK v : v = viewer[r]
  OBVIOUS
<1>3. /\ v \in ViewerTypes /\ ViewGood(v) /\ v.step = "cover" /\ v.read.got \in Contents
      /\ v.of.key \in ImageKeys /\ v.of.hash \in Pictures /\ IsBound(v.of)
      /\ ThumbOf[v.of.hash] \in Contents
  BY <1>2, ViewFacts DEF CoverRead, ViewerGot
<1>4. FilesOK' /\ ThumbGood' /\ BudgetOK'
  BY ThumbsRest, BudgetRests DEF CoverRead
<1>5. v.read.got \in {"none", v.of.hash}
  BY <1>3 DEF ViewGood
<1>6. CASE v.read.got = v.of.hash
  <2>1. \/ Views(r, "save", [NoRead EXCEPT !.got = ThumbOf[v.of.hash]]) /\ UNCHANGED served
        \/ Views(r, "idle", NoRead) /\ Answer(r, ThumbOf[v.of.hash])
    BY <1>2, <1>3, <1>6 DEF CoverRead, Decodes
  <2>2. CASE Views(r, "save", [NoRead EXCEPT !.got = ThumbOf[v.of.hash]]) /\ UNCHANGED served
    <3>1. PICK read : read = [NoRead EXCEPT !.got = ThumbOf[v.of.hash]]
      OBVIOUS
    <3>2. ReadOK(read) /\ read \in ReadTypes /\ read.got = ThumbOf[v.of.hash]
      BY <1>3, <3>1, FreshReads, ContentFacts DEF ReadOK, ReadTypes, NoRead
    <3>3. PICK w : w = [v EXCEPT !.step = "save", !.read = read]
      OBVIOUS
    <3>4. w \in ViewerTypes /\ w.step = "save" /\ w.read = read /\ w.of = v.of
      BY <1>3, <3>2, <3>3 DEF ViewerTypes
    <3>5. viewer' = [viewer EXCEPT ![r] = w]
      BY <1>1, <1>2, <2>2, <3>1, <3>3 DEF Views, ViewersOK
    <3>6. ViewGood(w)
      BY <1>3, <3>2, <3>4 DEF ViewGood
    <3>7. ServedIsPublished'
      BY <2>2, ServedRests DEF CoverRead
    <3> QED
      BY <1>4, <3>2, <3>4, <3>5, <3>6, <3>7, ViewerMoves DEF CoverRead
  <2>3. CASE Views(r, "idle", NoRead) /\ Answer(r, ThumbOf[v.of.hash])
    <3>1. MayServe(v.of.hash, ThumbOf[v.of.hash])
      BY DEF MayServe
    <3>2. ServedIsPublished'
      BY <1>2, <2>3, <3>1, AnswerServes DEF CoverRead
    <3> QED
      BY <1>4, <2>3, <3>2, GoesIdle DEF CoverRead
  <2> QED
    BY <2>1, <2>2, <2>3
<1>7. CASE v.read.got = "none"
  <2>1. Views(r, "idle", NoRead) /\ UNCHANGED served
    BY <1>2, <1>7, ContentFacts DEF CoverRead, Decodes
  <2>2. ServedIsPublished'
    BY <2>1, ServedRests DEF CoverRead
  <2> QED
    BY <1>4, <2>1, <2>2, GoesIdle DEF CoverRead
<1> QED
  BY <1>5, <1>6, <1>7

LEMMA WebpFits == "webp" \in Extensions
BY StorageAssumption

LEMMA SaveThumbStep ==
    ASSUME StorageInv, NEW r \in CoverReaders, SaveThumb(r)
    PROVE  StorageInv'
<1>1. ViewersOK
  BY DEF StorageInv, StorageTypeOK
<1>2. PICK v : v = viewer[r]
  OBVIOUS
<1>3. /\ v \in ViewerTypes /\ ReadOK(v.read) /\ ViewGood(v) /\ v.step = "save"
      /\ IsBound(v.of) /\ v.read.got = ThumbOf[v.of.hash]
  BY <1>2, ViewFacts DEF SaveThumb, ViewGood
<1>4. PICK x : x = IF Local THEN "torn" ELSE v.read.got
  OBVIOUS
<1>5. files' = Written(ThumbKey(v.of.key), "webp", x)
  BY <1>2, <1>4 DEF SaveThumb, FirstWrite
<1>6. Local' = Local
  BY DEF SaveThumb, Local
<1>7. FilesOK' /\ ThumbGood' /\ \A key \in ImageKeys : files'[key] = files[key]
  <2>1. x = ThumbOf[v.of.hash] \/ (Local /\ x = "torn")
    BY <1>3, <1>4
  <2> QED
    BY <1>3, <1>5, <1>6, <2>1, WebpFits, ThumbWritten DEF SaveThumb
<1>8. PICK w : w = [v EXCEPT !.step = "saving"]
  OBVIOUS
<1>9. w \in ViewerTypes /\ w.step = "saving" /\ w.read = v.read /\ w.of = v.of
  BY <1>3, <1>8 DEF ViewerTypes
<1>10. viewer' = [viewer EXCEPT ![r] = w]
  BY <1>1, <1>2, <1>8 DEF SaveThumb, ViewersOK
<1>11. ViewGood(w)
  BY <1>3, <1>9 DEF ViewGood
<1>12. ServedIsPublished' /\ BudgetOK'
  BY ServedRests, BudgetRests DEF SaveThumb
<1> QED
  BY <1>3, <1>7, <1>9, <1>10, <1>11, <1>12, ViewerMoves DEF SaveThumb

LEMMA ThumbSavedStep ==
    ASSUME StorageInv, NEW r \in CoverReaders, ThumbSaved(r)
    PROVE  StorageInv'
<1>1. PICK v : v = viewer[r]
  OBVIOUS
<1>2. /\ ViewGood(v) /\ v.step = "saving" /\ IsBound(v.of) /\ v.read.got = ThumbOf[v.of.hash]
  BY <1>1, ViewFacts DEF ThumbSaved, ViewGood
<1>3. Local' = Local
  BY DEF ThumbSaved, Local
<1>4. FilesOK' /\ ThumbGood' /\ \A key \in ImageKeys : files'[key] = files[key]
  <2>1. CASE Local
    <3>1. files' = Written(ThumbKey(v.of.key), "webp", v.read.got)
      BY <1>1, <2>1 DEF ThumbSaved
    <3> QED
      BY <1>2, <1>3, <3>1, WebpFits, ThumbWritten DEF ThumbSaved
  <2>2. CASE ~Local
    <3>1. UNCHANGED files
      BY <2>2 DEF ThumbSaved
    <3> QED
      BY <3>1, ThumbsRest DEF ThumbSaved
  <2> QED
    BY <2>1, <2>2
<1>5. MayServe(v.of.hash, v.read.got)
  BY <1>2 DEF MayServe
<1>6. ServedIsPublished' /\ BudgetOK'
  BY <1>1, <1>5, AnswerServes, BudgetRests DEF ThumbSaved
<1> QED
  BY <1>4, <1>6, GoesIdle DEF ThumbSaved

LEMMA ThumbsShrink ==
    ASSUME StorageInv, claim' = claim, Local' = Local,
           \A c \in RivalClaims : \A g \in Extensions :
              files'[ThumbKey(ClaimKey(c))][g] \in {files[ThumbKey(ClaimKey(c))][g], "none"}
    PROVE  ThumbGood'
<1>1. ASSUME NEW b \in RivalClaims, NEW g \in Extensions
      PROVE  LET y == files'[ThumbKey(ClaimKey(b))][g] IN
             \/ y = "none"
             \/ Local' /\ y = "torn"
             \/ claim'[b].bound # "none" /\ y = ThumbOf[claim'[b].bound]
  <2>1. LET y == files[ThumbKey(ClaimKey(b))][g] IN
        \/ y = "none"
        \/ Local /\ y = "torn"
        \/ claim[b].bound # "none" /\ y = ThumbOf[claim[b].bound]
    BY DEF StorageInv, ThumbGood
  <2> QED
    BY <2>1
<1> QED
  BY <1>1 DEF ThumbGood

LEMMA ThumbSaveFailsStep ==
    ASSUME StorageInv, NEW r \in CoverReaders, ThumbSaveFails(r)
    PROVE  StorageInv'
<1>1. PICK v : v = viewer[r]
  OBVIOUS
<1>2. /\ ViewGood(v) /\ v.step \in {"save", "saving"} /\ v.of.key \in ImageKeys
      /\ v.read.got = ThumbOf[v.of.hash]
  BY <1>1, ViewFacts DEF ThumbSaveFails, ViewGood
<1>3. FilesOK /\ sbudget \in BudgetTypes
  BY DEF StorageInv, StorageTypeOK, BudgetOK
<1>4. BudgetOK' /\ sbudget'.source = sbudget.source /\ sbudget'.driver = sbudget.driver
  BY <1>3 DEF ThumbSaveFails, Spend, BudgetOK, BudgetTypes
<1>5. PICK key : key = ThumbKey(v.of.key)
  OBVIOUS
<1>6. key \in AllKeys /\ key \notin ImageKeys /\ ImageKeys \subseteq AllKeys
  BY <1>2, <1>5, ThumbKeysDiffer
<1>7. files' = [files EXCEPT ![key] = [f \in Extensions |-> "none"]]
  BY <1>1, <1>5 DEF ThumbSaveFails
<1>8. FilesOK' /\ \A other \in AllKeys \ {key} : files'[other] = files[other]
  <2>1. [f \in Extensions |-> "none"] \in [Extensions -> Contents]
    BY ContentFacts
  <2> QED
    BY <1>3, <1>6, <1>7, <2>1 DEF FilesOK
<1>9. \A g \in Extensions : files'[key][g] = "none"
  BY <1>3, <1>6, <1>7 DEF FilesOK
<1>10. ThumbGood'
  <2>1. ASSUME NEW b \in RivalClaims, NEW g \in Extensions
        PROVE  files'[ThumbKey(ClaimKey(b))][g] \in {files[ThumbKey(ClaimKey(b))][g], "none"}
    BY <1>8, <1>9, KeysDiffer
  <2>2. Local' = Local /\ claim' = claim
    BY <1>4 DEF ThumbSaveFails, Local
  <2> QED
    BY <2>1, <2>2, ThumbsShrink
<1>11. MayServe(v.of.hash, v.read.got)
  BY <1>2 DEF MayServe
<1>12. ServedIsPublished'
  BY <1>1, <1>4, <1>11, AnswerServes DEF ThumbSaveFails
<1> QED
  BY <1>4, <1>6, <1>8, <1>10, <1>12, GoesIdle DEF ThumbSaveFails

LEMMA ViewFailsStep ==
    ASSUME StorageInv, NEW r \in CoverReaders, ViewFails(r)
    PROVE  StorageInv'
<1>1. FilesOK' /\ ThumbGood' /\ ServedIsPublished' /\ BudgetOK'
  BY ThumbsRest, ServedRests, BudgetRests DEF ViewFails
<1> QED
  BY <1>1, GoesIdle DEF ViewFails

\* The sweeper spares what is on show and what the owner writes.
LEMMA RemoveObjectStep ==
    ASSUME StorageInv, NEW key \in ImageKeys \cup ThumbKeys, RemoveObject(key)
    PROVE  StorageInv'
<1>1. FilesOK /\ ViewersOK /\ RowsOK /\ sbudget \in BudgetTypes /\ key \in AllKeys
  BY DEF StorageInv, StorageTypeOK, BudgetOK, AllKeys
<1>2. BudgetOK' /\ sbudget'.source = sbudget.source /\ sbudget'.driver = sbudget.driver
  BY <1>1 DEF RemoveObject, Spend, BudgetOK, BudgetTypes
<1>3. PICK f \in Extensions : files' = Written(key, f, "none")
  BY DEF RemoveObject
<1>4. /\ FilesOK' /\ \A other \in AllKeys \ {key} : files'[other] = files[other]
      /\ \A g \in Extensions : files'[key][g] = IF g = f THEN "none" ELSE files[key][g]
  BY <1>1, <1>3, Writes, ContentFacts
<1>5. \A other \in AllKeys : \A g \in Extensions : files'[other][g] \in {files[other][g], "none"}
  BY <1>4
<1>6. ViewersOK'
  BY <1>1 DEF ViewersOK, RemoveObject
<1>7. Local' = Local /\ claim' = claim
  BY <1>2 DEF RemoveObject, Local
<1>8. ThumbGood'
  <2>1. \A b \in RivalClaims : ThumbKey(ClaimKey(b)) \in AllKeys
    BY KeysDiffer
  <2> QED
    BY <1>5, <1>7, <2>1, ThumbsShrink
<1>9. ServedIsPublished'
  BY <1>2, ServedRests DEF RemoveObject
<1>10. ASSUME NEW r \in CoverReaders PROVE ViewerGood(r)'
  <2>1. PICK v : v = viewer[r]
    OBVIOUS
  <2>2. \A image : IsBound(image) => IsBound(image)'
    BY <1>7 DEF IsBound
  <2>3. ViewGood(v)'
    BY <1>7, <2>1, <2>2, ViewFrame DEF StorageInv, ViewerGood
  <2> QED
    BY <2>1, <2>3 DEF ViewerGood, RemoveObject
<1>11. onShow.key \in AllKeys \ {key}
  <2>1. onShow.key \in ImageKeys
    BY <1>1 DEF RowsOK, Images
  <2>2. key # onShow.key
    BY <2>1, ThumbKeysDiffer DEF RemoveObject
  <2> QED
    BY <2>1, <2>2, ThumbKeysDiffer
<1>12. ASSUME NEW c \in RivalClaims, owner = c PROVE ClaimKey(c) \in AllKeys \ {key}
  BY <1>12, KeysDiffer DEF RemoveObject, RivalClaims
<1>13. ImageKeys \subseteq AllKeys
  BY DEF AllKeys
<1> QED
  BY <1>2, <1>4, <1>5, <1>6, <1>8, <1>9, <1>10, <1>11, <1>12, <1>13, ClaimsRest DEF RemoveObject

-----------------------------------------------------------------------------
(* Storage: the theorem *)

LEMMA StorageInitially == StorageInit => StorageInv
<1> SUFFICES ASSUME StorageInit PROVE StorageInv
  OBVIOUS
<1>1. sbudget \in BudgetTypes
  BY StorageAssumption DEF StorageInit, BudgetTypes
<1>2. /\ \A key \in AllKeys, f \in Extensions :
            files[key][f] = IF key = "source" /\ f = sbudget.format THEN sbudget.source ELSE "none"
      /\ DOMAIN files = AllKeys
  BY DEF StorageInit, AllKeys
<1>3. FilesOK
  <2>1. sbudget.source \in Contents /\ "none" \in Contents
    BY <1>1, ContentFacts DEF BudgetTypes
  <2>2. files = [k \in AllKeys |-> [f \in Extensions |->
            IF k = "source" /\ f = sbudget.format THEN sbudget.source ELSE "none"]]
    BY DEF StorageInit, AllKeys
  <2> QED
    BY <2>1, <2>2 DEF FilesOK
<1>4. PICK d : d = [step |-> "waiting", read |-> NoRead, expected |-> NoImage,
                    bytes |-> "none", bound |-> "none", adopted |-> FALSE]
  OBVIOUS
<1>5. PICK v : v = [step |-> "idle", read |-> NoRead, of |-> NoImage]
  OBVIOUS
<1>6. claim = [c \in RivalClaims |-> d] /\ viewer = [r \in CoverReaders |-> v]
  BY <1>4, <1>5 DEF StorageInit
<1>7. ReadOK(NoRead) /\ NoRead \in ReadTypes /\ ~Reading(NoRead) /\ NoImage \in Images
      /\ NoImage.key = "source"
  BY FreshReads DEF ReadOK, Reading, NoImage, Images, ImageKeys
<1>8. /\ d.step = "waiting" /\ d.read = NoRead /\ d.expected = NoImage /\ d.bound = "none"
      /\ ~d.adopted /\ v.step = "idle" /\ v.read = NoRead
  BY <1>4, <1>5
<1>9. d \in ClaimTypes /\ v \in ViewerTypes
  BY <1>4, <1>5, <1>7, ContentFacts DEF ClaimTypes, ClaimSteps, ViewerTypes
<1>10. ClaimsOK /\ ViewersOK
  BY <1>6, <1>7, <1>8, <1>9 DEF ClaimsOK, ClaimFits, ViewersOK
<1>11. record = [key |-> "source", hash |-> sbudget.hash] /\ owner = "none" /\ onShow = NoImage
  BY DEF StorageInit
<1>12. RowsOK
  BY <1>1, <1>7, <1>11 DEF RowsOK, Images, ImageKeys, BudgetTypes
<1>13. ASSUME NEW c \in RivalClaims PROVE ClaimGood(c)
  <2>1. ClaimKey(c) \in AllKeys /\ ClaimKey(c) # "source" /\ owner # c
    BY <1>11, KeysDiffer DEF RivalClaims
  <2>2. Empty(ClaimKey(c))
    BY <1>2, <2>1 DEF Empty
  <2>3. Bound(c, d)
    BY <1>8, <2>1, <2>2 DEF Bound
  <2>4. Expected(d.expected)
    BY <1>7, <1>8 DEF Expected
  <2> QED
    BY <1>6, <2>1, <2>3, <2>4 DEF ClaimGood
<1>14. RecordGood
  <2>1. \A image \in {record} : image.key = "source"
    BY <1>11
  <2>2. \A c \in RivalClaims : owner # c
    BY <1>11 DEF RivalClaims
  <2> QED
    BY <2>1, <2>2 DEF RecordGood, Expected
<1>15. ShowGood /\ ServedIsPublished /\ \A r \in CoverReaders : ViewerGood(r)
  BY <1>6, <1>8, <1>11 DEF StorageInit, ShowGood, ServedIsPublished, ViewerGood, ViewGood
<1>16. SourceGood
  <2>1. "source" \in AllKeys
    BY DEF AllKeys, ImageKeys
  <2> QED
    BY <1>2, <2>1 DEF SourceGood, KeyHolds
<1>17. ThumbGood
  <2>1. \A c \in RivalClaims : ThumbKey(ClaimKey(c)) \in AllKeys \ {"source"}
    BY DEF RivalClaims, ClaimKey, ThumbKey, AllKeys, ImageKeys, ThumbKeys
  <2> QED
    BY <1>2, <2>1 DEF ThumbGood
<1> QED
  BY <1>1, <1>3, <1>10, <1>12, <1>13, <1>14, <1>15, <1>16, <1>17
     DEF StorageInv, StorageTypeOK, BudgetOK

LEMMA StorageRests == StorageInv /\ UNCHANGED storageVars => StorageInv'
<1> SUFFICES ASSUME StorageInv, UNCHANGED storageVars PROVE StorageInv'
  OBVIOUS
<1>1. UNCHANGED <<claim, bookRows>> /\ UNCHANGED <<files, viewer, served, sbudget>>
  BY DEF storageVars, bookRows
<1>2. FilesOK' /\ ThumbGood' /\ ServedIsPublished' /\ BudgetOK'
  BY <1>1, ThumbsRest, ServedRests, BudgetRests
<1>3. ViewersOK'
  BY <1>1 DEF StorageInv, StorageTypeOK, ViewersOK
<1>4. ASSUME NEW r \in CoverReaders PROVE ViewerGood(r)'
  <2>1. PICK v : v = viewer[r]
    OBVIOUS
  <2>2. \A image : IsBound(image) => IsBound(image)'
    BY <1>1 DEF IsBound
  <2>3. ViewGood(v)'
    BY <1>1, <2>1, <2>2, ViewFrame DEF StorageInv, ViewerGood, Local
  <2> QED
    BY <1>1, <2>1, <2>3 DEF ViewerGood
<1> QED
  BY <1>1, <1>2, <1>3, <1>4, ClaimsRest

LEMMA StorageStep == StorageInv /\ [StorageNext]_storageVars => StorageInv'
<1> SUFFICES ASSUME StorageInv, StorageNext PROVE StorageInv'
  BY StorageRests
<1>1. CASE \E c \in RivalClaims : StartClaim(c) \/ ClaimStep(c) \/ ClaimFails(c)
  <2>1. PICK c \in RivalClaims : StartClaim(c) \/ ClaimStep(c) \/ ClaimFails(c)
    BY <1>1
  <2>2. CASE ClaimStep(c)
    BY <2>2, ClaimReadsStep, InspectedStep, CurrentReadStep, SourceReadStep, FindSourceStep,
       CopySourceStep, FinishCopyStep, CopyVerifiedStep, BindKeptStep, IllustratedStep,
       SaveDrawnStep, DrawnSavedStep, RenderedStep DEF ClaimStep
  <2> QED
    BY <2>1, <2>2, StartClaimStep, ClaimFailsStep
<1>2. ASSUME NEW r \in CoverReaders,
             \/ AskCover(r) \/ ViewerReads(r) \/ ThumbRead(r) \/ CoverRead(r)
             \/ SaveThumb(r) \/ ThumbSaved(r) \/ ThumbSaveFails(r) \/ ViewFails(r)
      PROVE  StorageInv'
  BY <1>2, AskCoverStep, ViewerReadsStep, ThumbReadStep, CoverReadStep, SaveThumbStep,
     ThumbSavedStep, ThumbSaveFailsStep, ViewFailsStep
<1>3. ASSUME NEW key \in ImageKeys \cup ThumbKeys, RemoveObject(key) PROVE StorageInv'
  BY <1>3, RemoveObjectStep
<1> QED
  BY <1>1, <1>2, <1>3 DEF StorageNext

\* What is under a key in one format is what a read of the key returns.
LEMMA SoleHeld ==
    ASSUME NEW key, NEW x, x # "none", Sole(key, x)
    PROVE  Held(key) = x
<1> DEFINE present == {i \in DOMAIN Formats : files[key][Formats[i]] # "none"}
           first == CHOOSE i \in present : \A j \in present : i <= j
<1>1. PICK f \in Extensions : Only(key, f, x)
  BY DEF Sole, Only
<1>2. PICK i \in Positions : Formats[i] = f
  BY FormatFacts
<1>3. present \in SUBSET Positions /\ i \in present
  BY <1>1, <1>2, FormatFacts DEF Only
<1>4. first \in present
  BY <1>3, FirstPresent
<1>5. Formats[first] \in Extensions /\ files[key][Formats[first]] # "none"
  BY <1>3, <1>4, FormatFacts
<1>6. files[key][Formats[first]] = x
  BY <1>1, <1>5 DEF Only
<1> QED
  BY <1>3, <1>6 DEF Held

LEMMA StorageStands == StorageInv => StoredImagesStand
<1> SUFFICES ASSUME StorageInv PROVE StoredImagesStand
  OBVIOUS
<1>1. PublishedBytesStand
  <2>1. PICK image : image = onShow
    OBVIOUS
  <2>2. ASSUME image # NoImage PROVE Held(image.key) = image.hash
    <3>1. IsBound(image) /\ Sole(image.key, image.hash)
      BY <2>1, <2>2 DEF StorageInv, ShowGood
    <3>2. image.hash # "none"
      BY <3>1, ImageFacts DEF StorageInv, StorageTypeOK
    <3> QED
      BY <3>1, <3>2, SoleHeld
  <2> QED
    BY <2>1, <2>2 DEF PublishedBytesStand
<1>2. AdoptedAsRecorded
  <2>1. ASSUME NEW c \in RivalClaims, NEW d, d = claim[c], d.adopted, d.expected.hash # "unknown"
        PROVE  d.bound = d.expected.hash
    <3>1. Bound(c, d)
      BY <2>1 DEF StorageInv, ClaimGood
    <3> QED
      BY <2>1, <3>1 DEF Bound
  <2> QED
    BY <2>1 DEF AdoptedAsRecorded
<1>3. ServedIsPublished
  BY DEF StorageInv
<1> QED
  BY <1>1, <1>2, <1>3 DEF StoredImagesStand

\* Whatever the driver, the formats, the image at hand, the faults and the removals:
\* what is published under a key is the bytes that were recorded, a claim adopts only
\* the image its checkpoint names, and readers are given the cover of their edition.
THEOREM StoredImagesStandAlways == StorageSpec => []StoredImagesStand
<1>1. StorageInit => StorageInv
  BY StorageInitially
<1>2. StorageInv /\ [StorageNext]_storageVars => StorageInv'
  BY StorageStep
<1>3. StorageInv => StoredImagesStand
  BY StorageStands
<1> QED
  BY <1>1, <1>2, <1>3, PTL DEF StorageSpec

=============================================================================
