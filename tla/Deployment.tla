----------------------------- MODULE Deployment -----------------------------
(***************************************************************************)
(* Configuring, checking and booting the two services, and migrating the   *)
(* database behind them.                                                   *)
(*                                                                         *)
(* The API (main.ts) and the generation worker (worker.ts) are separate    *)
(* services with an environment each.  An operator edits a variable in a   *)
(* service's panel, may run the preflight of a role over that panel, and   *)
(* deploys: a new process reads the panel once, on an empty disk.  A       *)
(* process refuses to boot when the schema, the worker's storage           *)
(* assertions, or one of the provider and storage factories throws.  A     *)
(* deployed process that consumes the queue publishes books, and the API   *)
(* serves them from the storage that its own environment names.            *)
(*                                                                         *)
(* An environment is a record of the variables that decide any of this;    *)
(* a value is the class the code distinguishes, never a string.            *)
(***************************************************************************)
EXTENDS Naturals, FiniteSets

CONSTANT DeployBudgets  \* how many edits, of which variables, deploys, books, migrations

Services == {"api", "worker"}
Drivers == {"local", "s3", "r2"}
Selections == {"mock", "openai", "other"}

CLOUD_REQUIRED_VARS == {"bucket", "region", "keyId", "secret"}
CloudVars == CLOUD_REQUIRED_VARS \union {"endpoint"}

(* The variables and the values each may take.                             *)
Values == [
  NODE_ENV             |-> {"production", "development"},
  required             |-> BOOLEAN,   \* DATABASE_URL, REDIS_URL and both JWT secrets are well formed
  PRODUCT_MODE         |-> {"home", "demo"},
  NEXT_PUBLIC_PRODUCT_MODE |-> {"home", "demo"},
  ENABLE_GENERATION_WORKER |-> BOOLEAN,
  AUTH_MODE            |-> {"jwt", "dev"},
  WEB_APP_URL          |-> {"https", "http"},
  ALLOWED_ORIGINS      |-> {{"web"}, {"other"}, {"*"}, {"web", "*"}},
  NEXT_PUBLIC_API_URL  |-> {"unset", "https/api", "https", "http/api"},
  NEXT_PUBLIC_AUTH_MODE |-> {"unset", "jwt", "dev"},
  STORY_GENERATION_PROVIDER |-> Selections,
  IMAGE_GENERATION_PROVIDER |-> Selections,
  CHARACTER_PROFILE_PROVIDER |-> Selections,
  OPENAI_API_KEY       |-> BOOLEAN,
  MOCK_FAILURES_ENABLED |-> BOOLEAN,
  EMAIL_PROVIDER       |-> {"console", "resend", "other"},
  RESEND_API_KEY       |-> BOOLEAN,
  EMAIL_FROM           |-> BOOLEAN,
  EMAIL_DEBUG_LOG_LINKS |-> BOOLEAN,
  STRIPE_BILLING_ENABLED |-> BOOLEAN,
  stripe               |-> BOOLEAN,   \* every STRIPE_* variable is set
  PDF_STORAGE_DRIVER   |-> Drivers,
  IMAGE_STORAGE_DRIVER |-> Drivers,
  PDF_STORAGE          |-> {CloudVars} \union {CloudVars \ {v} : v \in CloudVars},
  PDF_STORAGE_BUCKET   |-> {"ours", "another"} ]

Settings == DOMAIN Values

(* The environment the repository's own preflight fixtures hold up as a    *)
(* correct production one.                                                 *)
ValidEnv == [
  NODE_ENV |-> "production", required |-> TRUE,
  PRODUCT_MODE |-> "home", NEXT_PUBLIC_PRODUCT_MODE |-> "home",
  ENABLE_GENERATION_WORKER |-> FALSE, AUTH_MODE |-> "jwt",
  WEB_APP_URL |-> "https", ALLOWED_ORIGINS |-> {"web"},
  NEXT_PUBLIC_API_URL |-> "https/api", NEXT_PUBLIC_AUTH_MODE |-> "jwt",
  STORY_GENERATION_PROVIDER |-> "mock", IMAGE_GENERATION_PROVIDER |-> "mock",
  CHARACTER_PROFILE_PROVIDER |-> "mock", OPENAI_API_KEY |-> FALSE,
  MOCK_FAILURES_ENABLED |-> FALSE,
  EMAIL_PROVIDER |-> "resend", RESEND_API_KEY |-> TRUE, EMAIL_FROM |-> TRUE,
  EMAIL_DEBUG_LOG_LINKS |-> FALSE,
  STRIPE_BILLING_ENABLED |-> FALSE, stripe |-> FALSE,
  PDF_STORAGE_DRIVER |-> "r2", IMAGE_STORAGE_DRIVER |-> "r2",
  PDF_STORAGE |-> CloudVars, PDF_STORAGE_BUCKET |-> "ours" ]

(***************************************************************************)
(* envSchema: what any process refuses, whatever its role.                 *)
(***************************************************************************)
SchemaAccepts(env) ==
  /\ env.required
  /\ ~(env.NODE_ENV = "production" /\ env.MOCK_FAILURES_ENABLED)
  /\ env.PRODUCT_MODE = env.NEXT_PUBLIC_PRODUCT_MODE
  /\ "openai" \in {env.STORY_GENERATION_PROVIDER, env.IMAGE_GENERATION_PROVIDER}
       => env.OPENAI_API_KEY
  /\ env.EMAIL_PROVIDER = "resend" => env.RESEND_API_KEY /\ env.EMAIL_FROM
  /\ env.STRIPE_BILLING_ENABLED => env.stripe

(***************************************************************************)
(* Booting.                                                                *)
(***************************************************************************)
(* readCloudConfig: the variables a cloud driver cannot do without.        *)
CloudConfigComplete(driver, env) ==
  CLOUD_REQUIRED_VARS \union (IF driver = "r2" THEN {"endpoint"} ELSE {})
    \subseteq env.PDF_STORAGE

StorageCreated(env) ==
  \A driver \in {env.PDF_STORAGE_DRIVER, env.IMAGE_STORAGE_DRIVER} \ {"local"} :
    CloudConfigComplete(driver, env)

Selectable(chosen, env) == chosen = "mock" \/ (chosen = "openai" /\ env.OPENAI_API_KEY)
CreateStoryGenerationProvider(env) == Selectable(env.STORY_GENERATION_PROVIDER, env)
CreateImageGenerationProvider(env) == Selectable(env.IMAGE_GENERATION_PROVIDER, env)
CreateCharacterProfileProvider(env) == Selectable(env.CHARACTER_PROFILE_PROVIDER, env)

CreateEmailService(env) ==
  \/ env.EMAIL_PROVIDER = "console"
  \/ env.EMAIL_PROVIDER = "resend" /\ env.RESEND_API_KEY /\ env.EMAIL_FROM

AssertPdfStorageSupportsWorker(env) ==
  ~(env.NODE_ENV = "production" /\ env.PDF_STORAGE_DRIVER = "local")
\* Mutant: only the PDF storage is asserted.
AssertImageStorageUnasked(env) == TRUE

AssertImageStorageSupportsWorker(env) ==
  ~(env.NODE_ENV = "production" /\ env.IMAGE_STORAGE_DRIVER = "local")

Boots(service, env) ==
  /\ service = "worker" => AssertPdfStorageSupportsWorker(env)
                           /\ AssertImageStorageSupportsWorker(env)
  /\ SchemaAccepts(env)
  /\ StorageCreated(env)
  /\ CreateStoryGenerationProvider(env)
  /\ CreateImageGenerationProvider(env)
  /\ CreateCharacterProfileProvider(env)
  /\ CreateEmailService(env)

(* worker.ts always registers the queue processors, main.ts on request.    *)
Consumes(service, env) == service = "worker" \/ env.ENABLE_GENERATION_WORKER

(* What a booted API does for the site built against it: the CORS list     *)
(* must hold its origin literally, the guard of its auth mode must take    *)
(* what it sends, the refresh cookie must come back, and a letter must     *)
(* leave or be logged.                                                     *)
CorsAllows(env) == "web" \in env.ALLOWED_ORIGINS

Authenticates(env) ==
  /\ env.NEXT_PUBLIC_AUTH_MODE = env.AUTH_MODE
  /\ env.AUTH_MODE = "dev" => env.NODE_ENV # "production"

CookieReturns(env) == env.NODE_ENV = "production" => env.WEB_APP_URL = "https"

LettersLeave(env) ==
  \/ env.EMAIL_PROVIDER = "resend"
  \/ env.NODE_ENV # "production" \/ env.EMAIL_DEBUG_LOG_LINKS

(***************************************************************************)
(* The preflight of a role.                                                *)
(***************************************************************************)
CheckNodeEnv(env) == env.NODE_ENV = "production"
CheckAuthMode(env) == env.AUTH_MODE = "jwt"
CheckWebAppUrlHttps(env) == env.WEB_APP_URL = "https"

\* Mutant: of any origin.
CheckAllowedOriginsNoWildcard(env) == "*" \notin env.ALLOWED_ORIGINS

CheckAllowedOrigins(env) ==
  "*" \notin env.ALLOWED_ORIGINS /\ "web" \in env.ALLOWED_ORIGINS

CheckWebApiConsistency(env) ==
  /\ env.NEXT_PUBLIC_API_URL \in {"unset", "https/api"}
  /\ env.NEXT_PUBLIC_AUTH_MODE \in {"unset", env.AUTH_MODE}

CheckStorageTopology(env) ==
  env.PDF_STORAGE_DRIVER # "local" /\ env.IMAGE_STORAGE_DRIVER # "local"

\* Mutant: the images' driver is taken for granted.
CheckCloudStorageCompletenessPdf(env) ==
  env.PDF_STORAGE_DRIVER # "local" => CloudConfigComplete(env.PDF_STORAGE_DRIVER, env)

CheckCloudStorageCompleteness(env) ==
  /\ env.PDF_STORAGE_DRIVER # "local" => CloudConfigComplete(env.PDF_STORAGE_DRIVER, env)
  /\ env.IMAGE_STORAGE_DRIVER # "local" => CloudConfigComplete(env.IMAGE_STORAGE_DRIVER, env)

CheckEmailProductionCapable(env) ==
  env.EMAIL_PROVIDER = "console" => env.EMAIL_DEBUG_LOG_LINKS

\* Mutant: asked of the other service.
CheckWorkerApiTopologySwapped(env, role) ==
  role = "worker" => ~env.ENABLE_GENERATION_WORKER

CheckWorkerApiTopology(env, role) == role = "api" => ~env.ENABLE_GENERATION_WORKER

RunPreflight(env, role) ==
  /\ SchemaAccepts(env)
  /\ CheckNodeEnv(env)
  /\ CheckStorageTopology(env)
  /\ CheckCloudStorageCompleteness(env)
  /\ CheckWorkerApiTopology(env, role)
  /\ role = "api" => /\ CheckAuthMode(env)
                     /\ CheckWebAppUrlHttps(env)
                     /\ CheckAllowedOrigins(env)
                     /\ CheckWebApiConsistency(env)
                     /\ CheckEmailProductionCapable(env)

(***************************************************************************)
(* Migrations: the guard run before Prisma touches a database.             *)
(***************************************************************************)
Targets == {"staging", "production"}

(* What a target's settings hold: the URL the migration would use, and the *)
(* host and the database name an administrator expects there.              *)
Secrets == [urlHost : Targets \union {"", "localhost"}, urlName : Targets \union {""},
            postgres : BOOLEAN, host : Targets \union {""}, name : Targets \union {""}]
SecretsOf(target) == [urlHost |-> target, urlName |-> target, postgres |-> TRUE,
                      host |-> target, name |-> target]

\* Mutant: any phrase confirms.
CheckMigrationTargetAnyPhrase(target, phrase, secret, branch) ==
  /\ phrase # ""
  /\ secret.postgres
  /\ secret.urlHost \notin {"", "localhost"}
  /\ secret.host # "" /\ secret.urlHost = secret.host
  /\ secret.name # "" /\ (secret.urlName # "" => secret.urlName = secret.name)
  /\ target = "production" => branch = "main"

CheckMigrationTarget(target, phrase, secret, branch) ==
  /\ phrase = target
  /\ secret.postgres
  /\ secret.urlHost \notin {"", "localhost"}
  /\ secret.host # "" /\ secret.urlHost = secret.host
  /\ secret.name # "" /\ (secret.urlName # "" => secret.urlName = secret.name)
  /\ target = "production" => branch = "main"

(***************************************************************************)
(* The state.                                                              *)
(***************************************************************************)
VARIABLES
  panel,      \* service -> the environment configured for its next deploy
  checked,    \* services whose panel passed its preflight as it stands
  process,    \* service -> its process: state, the environment it read, whether that was checked
  stored,     \* artifacts held: their kind, and the place that holds them
  published,  \* the process that published the book, or none
  secrets,    \* target -> its migration settings
  migrated,   \* the migrations applied: what was meant, and what was done
  dbudget     \* what may still happen

deploymentVars == <<panel, checked, process, stored, published, secrets, migrated, dbudget>>

Down == [state |-> "down", env |-> ValidEnv, checked |-> FALSE]
NothingPublished == [by |-> "none", env |-> ValidEnv]

(* The migration guard is asked about one mistake at a time.               *)
ASSUME DeploymentAssumption ==
  DeployBudgets \subseteq [edits: Nat, settings: SUBSET Settings, deploys: Nat, books: Nat,
                           slips: 0 .. 1, migrations: Nat]

DeploymentInit ==
  /\ dbudget \in DeployBudgets
  /\ panel = [s \in Services |-> ValidEnv]
  /\ checked = {}
  /\ process = [s \in Services |-> Down]
  /\ stored = {}
  /\ published = NothingPublished
  /\ secrets = [t \in Targets |-> SecretsOf(t)]
  /\ migrated = {}

(* The operator changes one variable; what was checked is another panel.   *)
Edit(service) ==
  /\ dbudget.edits > 0
  /\ \E setting \in dbudget.settings : \E value \in Values[setting] \ {panel[service][setting]} :
       panel' = [panel EXCEPT ![service][setting] = value]
  /\ checked' = checked \ {service}
  /\ dbudget' = [dbudget EXCEPT !.edits = @ - 1]
  /\ UNCHANGED <<process, stored, published, secrets, migrated>>

Preflight(service) ==
  /\ service \notin checked
  /\ RunPreflight(panel[service], service)
  /\ checked' = checked \union {service}
  /\ UNCHANGED <<panel, process, stored, published, secrets, migrated, dbudget>>

(* A deploy replaces the container, and with it the container's disk.      *)
Deploy(service) ==
  /\ dbudget.deploys > 0
  /\ process' = [process EXCEPT ![service] =
       [state |-> IF Boots(service, panel[service]) THEN "up" ELSE "crashed",
        env |-> panel[service], checked |-> service \in checked]]
  /\ stored' = {a \in stored : a.place # <<"disk", service>>}
  /\ dbudget' = [dbudget EXCEPT !.deploys = @ - 1]
  /\ UNCHANGED <<panel, checked, published, secrets, migrated>>

(* Where a driver puts an artifact: the process's own disk, or the bucket  *)
(* its endpoint leads to.                                                  *)
PlaceFor(service, env, driver) ==
  IF driver = "local" THEN <<"disk", service>>
  ELSE <<env.PDF_STORAGE_BUCKET, "endpoint" \in env.PDF_STORAGE>>

BookAt(service, env) ==
  {[kind |-> "pdf", place |-> PlaceFor(service, env, env.PDF_STORAGE_DRIVER)],
   [kind |-> "image", place |-> PlaceFor(service, env, env.IMAGE_STORAGE_DRIVER)]}

Consumers == {s \in Services : process[s].state = "up" /\ Consumes(s, process[s].env)}

PublishBook(service) ==
  /\ dbudget.books > 0
  /\ service \in Consumers
  /\ stored' = stored \union BookAt(service, process[service].env)
  /\ published' = [by |-> service, env |-> process[service].env]
  /\ dbudget' = [dbudget EXCEPT !.books = @ - 1]
  /\ UNCHANGED <<panel, checked, process, secrets, migrated>>

(* An administrator sets one of a target's migration settings.             *)
EditSecret(target) ==
  /\ dbudget.slips > 0
  /\ \E wrong \in Secrets :
       /\ Cardinality({f \in DOMAIN wrong : wrong[f] # secrets[target][f]}) = 1
       /\ secrets' = [secrets EXCEPT ![target] = wrong]
  /\ dbudget' = [dbudget EXCEPT !.slips = @ - 1]
  /\ UNCHANGED <<panel, checked, process, stored, published, migrated>>

(* What is wrong of the target selected, the phrase typed and the branch.  *)
SlippedIn(meant, target, phrase, branch) ==
  {i \in 1 .. 3 : <<target, phrase, branch>>[i] # <<meant, meant, "main">>[i]}

(* The operator means to migrate one target, and gets the selection, the   *)
(* phrase and the branch right or, for each slip left, wrong.              *)
Migrate(meant) ==
  /\ dbudget.migrations > 0
  /\ \E target \in Targets, phrase \in Targets \union {""}, branch \in {"main", "feature"} :
       LET slips == Cardinality(SlippedIn(meant, target, phrase, branch))
       IN  /\ slips <= dbudget.slips
           /\ CheckMigrationTarget(target, phrase, secrets[target], branch)
           /\ migrated' = migrated \union
                {[meant |-> meant, host |-> secrets[target].urlHost,
                  name |-> secrets[target].urlName, branch |-> branch]}
           /\ dbudget' = [dbudget EXCEPT !.migrations = @ - 1, !.slips = @ - slips]
  /\ UNCHANGED <<panel, checked, process, stored, published, secrets>>

DeploymentNext ==
  \/ \E s \in Services : Edit(s) \/ Preflight(s) \/ Deploy(s) \/ PublishBook(s)
  \/ \E t \in Targets : EditSecret(t) \/ Migrate(t)

DeploymentSpec == DeploymentInit /\ [][DeploymentNext]_deploymentVars

-----------------------------------------------------------------------------
(***************************************************************************)
(* The properties.                                                         *)
(***************************************************************************)
(* What no preflight looks at: a provider name that no factory knows, and  *)
(* the key of the character profile provider, which the schema leaves out. *)
BeyondPreflight(env) ==
  \/ "other" \in {env.STORY_GENERATION_PROVIDER, env.IMAGE_GENERATION_PROVIDER,
                   env.CHARACTER_PROFILE_PROVIDER, env.EMAIL_PROVIDER}
  \/ env.CHARACTER_PROFILE_PROVIDER = "openai" /\ ~env.OPENAI_API_KEY

(* A service deployed from a panel its preflight accepted starts, for all  *)
(* the ways the factories, the schema and the worker's assertions can      *)
(* refuse it, save the two gaps named above: the preflight has no second   *)
(* notion of a complete environment.                                       *)
CheckedBoots ==
  \A s \in Services : process[s].state = "crashed" /\ process[s].checked
                         => BeyondPreflight(process[s].env)

(* When both services run what the preflights accepted, the worker alone   *)
(* takes jobs from the queue.                                              *)
OneConsumer ==
  (\A s \in Services : process[s].state = "up" /\ process[s].checked)
    => Consumers = {"worker"}

(* Through an API whose panel was checked together with the variables of   *)
(* the site, the site's visitors are let through by CORS, recognised in    *)
(* the mode the site was built for, kept signed in, and sent their letters.*)
SignUpWorks ==
  LET api == process["api"]
      env == api.env
  IN  api.state = "up" /\ api.checked /\ "unset" \notin {env.NEXT_PUBLIC_API_URL, env.NEXT_PUBLIC_AUTH_MODE}
        => /\ CorsAllows(env) /\ env.NEXT_PUBLIC_API_URL = "https/api"
           /\ Authenticates(env) /\ CookieReturns(env) /\ LettersLeave(env)

SameStorage(e, f) ==
  \A v \in {"PDF_STORAGE_DRIVER", "IMAGE_STORAGE_DRIVER", "PDF_STORAGE", "PDF_STORAGE_BUCKET"} :
    e[v] = f[v]

(* A book that a production worker published is served, its illustrations  *)
(* as its PDF, by every API with the same storage settings and after any   *)
(* later deploy, whether or not anybody ran the preflight.                 *)
PublishedIsServed ==
  published.by = "worker" /\ published.env.NODE_ENV = "production"
    /\ process["api"].state = "up" /\ SameStorage(process["api"].env, published.env)
      => BookAt("api", process["api"].env) \subseteq stored

(* One mistake, in what the operator selects, types or checks out, or in   *)
(* one of a target's settings, never migrates a database of the other      *)
(* target, nor production from another branch.  A URL that names no        *)
(* database at all goes unnoticed by the guard.                            *)
MigratesWhatWasMeant ==
  \A m \in migrated : /\ m.host = m.meant /\ m.name \in {m.meant, ""}
                      /\ m.meant = "production" => m.branch = "main"

(* What preflight, start-up checks and the migration guard let through     *)
(* works: processes start, one consumes, visitors sign up, books are       *)
(* served and the database that was meant is migrated.                     *)
CheckedDeploymentsWork ==
  CheckedBoots /\ OneConsumer /\ SignUpWorks /\ PublishedIsServed /\ MigratesWhatWasMeant

=============================================================================
