---------------------------- MODULE ProjectSetup ----------------------------
(* A project's directory from `puffgres init` on: the files init scaffolds   *)
(* and the Node modules it installs, an enclosing pnpm workspace it may be   *)
(* added to, the .env files it writes down, the configs `puffgres new` puts  *)
(* into it, and what each command needs to start.  A command may be stopped  *)
(* between any two of its steps, and run again.  pnpm, the prompts and the   *)
(* script's dotenv are external.                                             *)
EXTENDS EnvironmentFiles, WorkspaceManifest

CONSTANTS
  Home,            \* where init is run
  Worlds,          \* what there may be at first: [envs, shell, workspace, ignored]
  Names, BadNames, \* config names; those that are no identifiers
  Namespaces

ASSUME WorldsAssumption ==
  /\ IsPath(Home)
  /\ \A w \in Worlds :
       /\ IsFiniteSet(DOMAIN w.envs) /\ \A p \in DOMAIN w.envs : IsPath(p)
       /\ \A p \in DOMAIN w.envs : w.envs[p] # Unreadable => IsEnvFile(w.envs[p])
       /\ w.shell = [key \in Keys |-> w.shell[key]]
       /\ w.workspace # None =>
            /\ w.workspace = [root |-> w.workspace.root, lines |-> w.workspace.lines]
            /\ IsPath(w.workspace.root)
            /\ w.workspace.lines # None /\ IsManifest(w.workspace.lines)

ASSUME NoneAssumption == None \notin {"own", "partial", "workspace"}

Root == Append(Home, "puffgres")
Scaffold == <<"directories", ".gitignore", "Dockerfile", ".dockerignore", "package.json",
              "vitest.config.ts", "utils">>
Secrets == {".env", ".env.*", "node_modules"}

VARIABLES
  envs, shell,  \* the .env files there are, the variables of the shell
  workspace,    \* [root, lines] of pnpm-workspace.yaml, None without one
  made,         \* scaffolded files that exist
  ignored,      \* lines of .gitignore, None when missing
  modules,      \* node_modules: None, "own", "partial", "workspace"
  toml,         \* environment_files of puffgres.toml, None when it is missing
  valid,        \* its settings are
  configs,      \* directories in configs/: [opts, files]
  cmd,          \* the command that runs
  \* history
  picked,       \* the files chosen for environment_files, as paths
  joined,       \* the lines of the manifest before init was allowed to edit it
  ran           \* `run` has started in the project

world == <<envs, shell, ran>>
project == <<made, ignored, modules, toml, valid, picked>>
pnpm == <<workspace, joined>>
vars == <<world, project, pnpm, configs, cmd>>

Idle == [stage |-> "idle"]
IsProject(dir) == dir = Root /\ toml # None

Init ==
  /\ \E w \in Worlds :
       envs = w.envs /\ shell = w.shell /\ workspace = w.workspace /\ ignored = w.ignored
  /\ made = {} /\ joined = None /\ modules = None /\ toml = None /\ valid = TRUE
  /\ configs = {}
  /\ cmd = Idle /\ picked = None /\ ran = FALSE

----------------------------------------------------------------------------
(* init.                                                                    *)

InitRoot(cwd) == IF IsProject(cwd) THEN cwd ELSE Append(cwd, "puffgres")

\* At a terminal, a first run asks before it creates anything.
StartInit(cwd) ==
  /\ cmd = Idle /\ InitRoot(cwd) = Root
  /\ \E interactive \in BOOLEAN, agreed \in BOOLEAN :
       /\ (interactive /\ toml = None) \/ agreed
       /\ cmd' = IF agreed
                   THEN [stage |-> "scaffold", next |-> 1, interactive |-> interactive, fresh |-> toml = None]
                   ELSE Idle
  /\ UNCHANGED <<world, project, pnpm, configs>>

\* Each file is only written when it is missing; .gitignore gets the lines it lacks.
EnsureGitignore == ignored' = (IF ignored = None THEN {} ELSE ignored) \cup Secrets
EnsureFile(part) == made' = made \cup {part}
ScaffoldNext ==
  /\ cmd.stage = "scaffold"
  /\ EnsureFile(Scaffold[cmd.next])
  /\ IF Scaffold[cmd.next] = ".gitignore" THEN EnsureGitignore ELSE UNCHANGED ignored
  /\ cmd' = IF cmd.next < Len(Scaffold) THEN [cmd EXCEPT !.next = @ + 1]
            ELSE [cmd EXCEPT !.stage = "modules"]
  /\ UNCHANGED <<world, modules, toml, valid, picked, pnpm, configs>>

\* find_enclosing_pnpm_workspace: the nearest, from the parent directory on.
Enclosing == workspace # None /\ IsStrictPrefix(workspace.root, Root)
Member == Relativize(workspace.root, Root)

\* What the config is written from; `init` only looks at a terminal, on a first run.
Settle(c) == [stage |-> IF c.interactive /\ c.fresh THEN "discover" ELSE "config",
              interactive |-> c.interactive, fresh |-> c.fresh]
InstallPlain(c, ignore) == [stage |-> "install", ignore |-> FALSE,   \* mutant
                            interactive |-> c.interactive, fresh |-> c.fresh]
Install(c, ignore) == [stage |-> "install", ignore |-> ignore,
                       interactive |-> c.interactive, fresh |-> c.fresh]

EnsureNodeModules ==
  /\ cmd.stage = "modules"
  /\ \/ /\ modules # None /\ cmd' = Settle(cmd) /\ UNCHANGED pnpm
     \/ /\ modules = None
        /\ \/ /\ cmd' = Install(cmd, Enclosing) /\ UNCHANGED pnpm
           \/ /\ Enclosing /\ cmd.interactive      \* the user lets it join
              /\ LET edited == InsertWorkspacePackage(workspace.lines, Member)
                 IN  IF edited = Unsupported
                       THEN cmd' = Install(cmd, TRUE) /\ UNCHANGED pnpm
                       ELSE /\ workspace' = [workspace EXCEPT !.lines = edited]
                            /\ joined' = IF joined = None THEN workspace.lines ELSE joined
                            /\ cmd' = Install(cmd, FALSE)
  /\ UNCHANGED <<world, project, configs>>

\* pnpm installs the workspace unless told to ignore it, and the project with it when it
\* is a member; it may fail, or be missing, and fails over a manifest that is no YAML.
InstallsOwn(ignore) == ignore \/ ~Enclosing \/ Member \in Members(workspace.lines)
PnpmInstall ==
  /\ cmd.stage = "install"
  /\ \/ /\ ~cmd.ignore /\ Enclosing => IsYaml(workspace.lines)
        /\ modules' = IF InstallsOwn(cmd.ignore) THEN "own" ELSE "workspace"
        /\ cmd' = Settle(cmd)
     \/ modules' \in {None, "partial"} /\ cmd' = Idle
  /\ UNCHANGED <<world, made, ignored, toml, valid, picked, pnpm, configs>>

Discover ==
  /\ cmd.stage = "discover"
  /\ \E found \in Candidates(DOMAIN envs, Home) : \E chosen \in Picks(found) :
       cmd' = [stage |-> "config", interactive |-> TRUE, fresh |-> TRUE, chosen |-> chosen]
  /\ UNCHANGED <<world, project, pnpm, configs>>

\* Relative to the project; without a choice, the .env next to it.
WrittenFromHome(chosen) == [i \in DOMAIN chosen |-> Relativize(Home, chosen[i])]   \* mutant
Written(chosen) == [i \in DOMAIN chosen |-> Relativize(Root, chosen[i])]
WriteProjectConfig ==
  LET chosen == IF "chosen" \in DOMAIN cmd THEN cmd.chosen ELSE <<>>
  IN  /\ toml' = IF chosen = <<>> THEN <<<<"..", ".env">>>> ELSE Written(chosen)
      /\ valid' = TRUE
      /\ picked' = IF chosen = <<>> THEN <<Append(Home, ".env")>> ELSE chosen
RewriteProjectConfig ==   \* mutant: also when it is there
  /\ cmd.stage = "config" /\ WriteProjectConfig /\ cmd' = Idle
  /\ UNCHANGED <<world, made, ignored, modules, pnpm, configs>>
EnsureProjectConfig ==
  /\ cmd.stage = "config"
  /\ IF toml # None THEN UNCHANGED <<toml, valid, picked>> ELSE WriteProjectConfig
  /\ cmd' = Idle
  /\ UNCHANGED <<world, made, ignored, modules, pnpm, configs>>

----------------------------------------------------------------------------
(* new.                                                                     *)

DetectRoot(cwd) == IF IsProject(cwd) THEN cwd
                   ELSE IF IsProject(Append(cwd, "puffgres")) THEN Append(cwd, "puffgres") ELSE cwd

IsValidName(name) == name \notin BadNames
ConfigFiles == {"config.toml", "transform.ts"}
LoadAll == \A c \in configs : "config.toml" \in c.files
Taken(name, namespace) == \E c \in configs : c.opts.name = name \/ c.opts.namespace = namespace

\* From flags or prompts, with a name that validate_config_name lets through.
Options == [name : {n \in Names : IsValidName(n)}, namespace : Namespaces]

\* create refuses what would be a duplicate.
StartNew(cwd) ==
  /\ cmd = Idle /\ IsProject(DetectRoot(cwd)) /\ "directories" \in made
  /\ \E opts \in Options :
       /\ LoadAll /\ ~Taken(opts.name, opts.namespace)
       /\ cmd' = [stage |-> "staging", opts |-> opts, files |-> {}]
  /\ UNCHANGED <<world, project, pnpm, configs>>

\* write_staging, a file at a time, in a directory nothing reads; an error removes it.
WriteStaging ==
  /\ cmd.stage = "staging" /\ cmd.files # ConfigFiles
  /\ \/ cmd' = [cmd EXCEPT !.files = IF @ = {} THEN {"config.toml"} ELSE ConfigFiles]
     \/ cmd' = Idle
  /\ UNCHANGED <<world, project, pnpm, configs>>

Rename ==
  /\ cmd.stage = "staging" /\ cmd.files = ConfigFiles
  /\ \/ configs' = configs \cup {[opts |-> cmd.opts, files |-> cmd.files]}
     \/ UNCHANGED configs
  /\ cmd' = Idle
  /\ UNCHANGED <<world, project, pnpm>>

----------------------------------------------------------------------------
(* What a command needs to start, by the tiers of main.rs.                  *)

Database == "DATABASE_URL"
Needs ==
  [new |-> {}, generate |-> {Database}, debug |-> {"TURBOPUFFER_API_KEY"},
   tombstone |-> {Database, "PUFFGRES_STATE_SCHEMA"}, reset |-> {Database, "PUFFGRES_STATE_SCHEMA"},
   check |-> {Database, "PUFFGRES_STATE_SCHEMA"},
   remove |-> Keys, apply |-> Keys, run |-> Keys]

\* load, and load_unvalidated for those that must work with settings that are not valid.
Validates == {"check", "remove", "apply", "run"}

EnvPaths == [i \in DOMAIN toml |-> Resolve(Root, toml[i])]
Variables == Environment(shell, LoadEnvFiles(envs, EnvPaths))

\* A state schema has a default, which an empty one does not fall back to.
Available(key) ==
  IF key = "PUFFGRES_STATE_SCHEMA" THEN StateSchema(Variables[key]) # "" ELSE Variables[key] # None
Starts(command) ==
  /\ command \in Validates => valid
  /\ command # "new" => CanLoad(envs, EnvPaths) /\ \A key \in Needs[command] : Available(key)

\* What a run does from here on is ConfigLifecycle's.
StartRun(cwd) ==
  /\ cmd = Idle /\ IsProject(DetectRoot(cwd)) /\ Starts("run")
  /\ ran' = TRUE
  /\ UNCHANGED <<envs, shell, project, pnpm, configs, cmd>>

----------------------------------------------------------------------------

\* The user stops the command, or it is killed.
Stop == cmd # Idle /\ cmd' = Idle /\ UNCHANGED <<world, project, pnpm, configs>>

\* The user makes a setting of puffgres.toml valid, or not.
Edit ==
  /\ cmd = Idle /\ toml # None /\ valid' = ~valid
  /\ UNCHANGED <<world, made, ignored, modules, toml, picked, pnpm, configs, cmd>>

Next ==
  \/ \E cwd \in {Home, Root} : StartInit(cwd) \/ StartNew(cwd) \/ StartRun(cwd)
  \/ ScaffoldNext \/ EnsureNodeModules \/ PnpmInstall \/ Discover \/ EnsureProjectConfig
  \/ WriteStaging \/ Rename
  \/ Stop \/ Edit

Spec == Init /\ [][Next]_vars

----------------------------------------------------------------------------
(* Properties.                                                              *)

\* puffgres.toml is the last file init writes, so a directory that commands take for a
\* project is scaffolded in full, keeps its secrets out of git, and its transforms have
\* had their own modules installed, whatever stopped earlier attempts.  What a failed
\* pnpm leaves in node_modules counts as installed (README, known limits).
InitializedIsComplete ==
  toml # None =>
    /\ made = ToSet(Scaffold)
    /\ Secrets \subseteq ignored
    /\ modules \in {"own", "partial"}

\* Joining a workspace leaves a manifest that pnpm can read, with the members and the
\* other entries it had, and the project in it once, however often init is run again.
\* Lists that are not indented are exempt (README, known limits).
Indented(lines) == \A i \in Items(lines) : lines[i].indent > 0
WorkspaceIntact ==
  joined # None /\ Indented(joined) =>
    LET lines == workspace.lines IN
    /\ IsYaml(lines)
    /\ Members(lines) = Members(joined) \cup {Member}
    /\ Cardinality({i \in Listed(lines) : lines[i].value = Member}) = 1
    /\ Others(lines) = Others(joined)
    /\ \A i \in Items(joined) : ~(i \in Listed(joined)) => Contains(lines, joined[i])

\* The user put the files in an order at init, from wherever she was: a variable then has
\* the value the shell gives it, or else the last one in the first of these files that
\* sets it, both in a command and in the transforms that it starts.
Chosen(key) ==
  LET sets(p) == {i \in DOMAIN envs[p] : envs[p][i][1] = key}
      with == {i \in DOMAIN picked : picked[i] \in DOMAIN envs /\ sets(picked[i]) # {}}
  IN  IF shell[key] # None THEN shell[key]
      ELSE IF with = {} THEN None
      ELSE LET p == picked[First(with)] IN envs[p][Latest(sets(p))][2]

EnvironmentAsPicked ==
  toml # None /\ CanLoad(envs, picked) =>
    LET script == ScriptEnvironment(envs, shell, EnvPaths)
    IN  \A key \in Keys : Variables[key] = Chosen(key) /\ script[key] = Chosen(key)

\* A project in which `run` has started once can be recovered ever after, however often
\* init is then run again, with other answers, and stopped, and whatever the settings
\* become: the commands that must work with settings that are not valid (main.rs:257-258,
\* 281-282) start as long as the .env files and the shell are what they were, and all of
\* them do when the settings are valid.
RecoveryStarts ==
  ran => /\ toml # None
         /\ \A command \in {"new", "generate", "debug", "tombstone", "reset"} : Starts(command)
         /\ valid => \A command \in DOMAIN Needs : Starts(command)
=============================================================================
