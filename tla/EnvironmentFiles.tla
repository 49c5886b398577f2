-------------------------- MODULE EnvironmentFiles --------------------------
(* The .env files of a project: how `init` finds them, writes them down      *)
(* relative to the project, and how the commands and the transforms read     *)
(* them.  A path is the sequence of its names from the root of the file      *)
(* system; a file's content is the sequence of its lines, <<key, value>>.    *)
EXTENDS Naturals, Sequences, FiniteSets, SequencesExt, FiniteSetsExt

CONSTANTS
  None,
  MaxDepth, MaxResults,   \* of the downward walk
  SkipDirs,               \* names the downward walk does not enter
  Unreadable              \* the content of a file that exists and cannot be read

Keys == {"DATABASE_URL", "TURBOPUFFER_API_KEY", "PUFFGRES_STATE_SCHEMA"}

\* The path of a file or a directory, from the root; what is read in a file.
IsPath(p) == p \in Seq(STRING) /\ \A i \in DOMAIN p : p[i] \notin {".", ".."}
IsEnvFile(lines) ==
  lines \in Seq(Keys \X STRING) /\ \A i \in DOMAIN lines : lines[i][2] # None

----------------------------------------------------------------------------
(* Discovery.                                                               *)

Dir(file) == Front(file)
Below(file, root) ==
  /\ IsPrefix(root, Dir(file))
  /\ Len(Dir(file)) - Len(root) <= MaxDepth
  /\ \A i \in Len(root) + 1 .. Len(Dir(file)) : file[i] \notin SkipDirs
Above(file, root) == IsStrictPrefix(Dir(file), root)

\* The walk stops at MaxResults files, which ones depends on the file system's order;
\* the directories above are not counted.
Candidates(files, root) ==
  LET below == {f \in files : Below(f, root)}
      above == {f \in files : Above(f, root)}
      found == IF Cardinality(below) <= MaxResults THEN {below} ELSE kSubset(MaxResults, below)
  IN  {some \cup above : some \in found}

\* pick_env_files: one candidate is taken, of several the user takes some, in her order.
Picks(candidates) ==
  IF Cardinality(candidates) <= 1 THEN {SetToSeq(candidates)}
  ELSE UNION {SetToSeqs(some) : some \in SUBSET candidates}

Common(base, target) ==
  Max({n \in 0..Len(base) : n <= Len(target) /\ SubSeq(base, 1, n) = SubSeq(target, 1, n)})
Relativize(base, target) ==
  LET n == Common(base, target)
      parts == [i \in 1 .. Len(base) - n |-> ".."] \o SubSeq(target, n + 1, Len(target))
  IN  IF parts = <<>> THEN <<".">> ELSE parts

\* resolve_env_paths joins; the operating system walks the names.
Walk(dir, name) ==
  CASE name = ".." -> IF dir = <<>> THEN dir ELSE Front(dir)
    [] name = "."  -> dir
    [] OTHER       -> Append(dir, name)
Resolve(root, relative) == FoldLeft(Walk, root, relative)

----------------------------------------------------------------------------
(* Loading.  An environment maps every key to its value or to None.         *)

Empty == [k \in Keys |-> None]

\* A later line of a file overrides an earlier one.
FileVars(lines) ==
  FoldLeft(LAMBDA vars, line : [vars EXCEPT ![line[1]] = line[2]], Empty, lines)
Under(vars, more) == [k \in Keys |-> IF vars[k] # None THEN vars[k] ELSE more[k]]

\* A file that is missing is skipped.
Read(envs, p) == IF p \in DOMAIN envs THEN FileVars(envs[p]) ELSE Empty
CanLoad(envs, paths) == \A i \in DOMAIN paths :
                          paths[i] \in DOMAIN envs => envs[paths[i]] # Unreadable

\* load_env_files: an earlier file wins over a later one.
LaterWins(envs, paths) ==   \* mutant
  FoldLeft(LAMBDA vars, p : Under(Read(envs, p), vars), Empty, paths)
LoadEnvFiles(envs, paths) ==
  FoldLeft(LAMBDA vars, p : Under(vars, Read(envs, p)), Empty, paths)

\* resolve_env_var and EnvConfig::load: the shell wins over the files.
ResolveEnvVar(key, shell, vars) == IF shell[key] # None THEN shell[key] ELSE vars[key]
Environment(shell, vars) == [k \in Keys |-> ResolveEnvVar(k, shell, vars)]

\* resolve_state_schema_from, "" for an error.
StateSchema(raw) == IF raw = None THEN "puffgres" ELSE raw

\* load-env.ts, in the transform's process: dotenv leaves alone what is set.
ScriptEnvironment(envs, shell, paths) ==
  FoldLeft(LAMBDA env, p : Under(env, Read(envs, p)), shell, paths)
=============================================================================
