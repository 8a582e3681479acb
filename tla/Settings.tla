------------------------------- MODULE Settings -------------------------------
(***************************************************************************)
(* The project's settings: the two files under .tff and the environment,   *)
(* how tff_read_settings and /tff:settings merge and validate them,        *)
(* tff_update_setting, which any process may call on the team's file, and  *)
(* tff_init_project, which is to make the directory they are in.           *)
(*                                                                         *)
(* A parsed file is a tree whose leaves are scalars, written as a function *)
(* from the paths of its leaves: no path of its domain is a prefix of      *)
(* another.  Values are abstract but for those a schema refuses.  Lists    *)
(* are scalars, as they are for the merge.                                 *)
(***************************************************************************)
EXTENDS Naturals, SequencesExt

CONSTANTS
    Writer,     \* the processes that may call tff_update_setting
    Editions,   \* the files a user may write
    Requests,   \* the updates that may be asked for: [key : path, value : scalar]
    Surrounding,\* the environments the program may be started in
    MaxUpdates, \* model bound
    Root,       \* the directories a project may be made in
    Home,       \* the one the program was started in
    NoRoot      \* no project

ASSUME HomeAssumption == Home \in Root /\ NoRoot \notin Root

\* The paths of a file's leaves: the sequences of the keys that lead to them.
Path == Seq(STRING) \ { << >> }

ASSUME PathAssumption ==
    /\ \A tree \in Editions \cup Surrounding : DOMAIN tree \subseteq Path
    /\ \A r \in Requests : r.key \in Path

\* What no schema accepts.
Bad == "bad"

(***************************************************************************)
(* The sections of the schema and the paths of their settings.  The maps   *)
(* with keys of the user's own (phaseOverrides, byRole, byPhase) are not   *)
(* among them.                                                             *)
(***************************************************************************)
At(prefix, keys) == {prefix \o <<k>> : k \in keys}

Tiers == {"S", "F-lite", "F-full"}

Profiles == {"quality", "balanced", "budget"}

RoutingLeaves ==
    UNION { At(<<"modelRouting", "profiles", n>>, {"model", "fallbackChain"}) : n \in Profiles }
        \cup At(<<"modelRouting", "complexityMapping">>, Tiers)
        \cup At(<<"modelRouting", "budget">>, {"limit", "thresholds"})

LearnLeaves ==
    At(<<"autoLearn", "weights">>, {"frequency", "breadth", "recency", "consistency"})
        \cup At(<<"autoLearn", "guardrails">>, {"minCorrections", "cooldownDays", "maxDriftPct"})
        \cup At(<<"autoLearn", "clustering">>,
                {"minSessions", "minPatterns", "jaccardThreshold"})

SafetyLeaves ==
    At(<<"guardrails", "rules">>,
       {"dangerous-commands", "credential-exposure", "destructive-git", "file-scope",
        "suspicious-content"})
        \cup { <<"guardrails", "enabled">>, <<"overseer", "enabled">> }
        \cup At(<<"overseer", "timeouts">>, Tiers)
        \cup { <<"overseer", "retryLoop", "threshold">> }

PolicyLeaves ==
    At(<<"toolPolicies", "defaults">>, {"allowed", "blocked"})
        \cup UNION { At(<<"toolPolicies", "byTier", t>>, {"allowed", "blocked"}) : t \in Tiers }
        \cup { <<"workflow", "failurePolicies", "default">>,
               <<"qualityMetrics", "perPhaseTracking">> }

StackLeaves ==
    UNION { At(<<"stack", part>>, {"runtime", "framework", "packageManager", "buildTool",
                                   "testRunner", "linter"}) : part \in {"detected", "overrides"} }

SmallLeaves ==
    At(<<"autonomy">>, {"mode", "maxRetries"})
        \cup { <<"beads", "timeout">> }
        \cup At(<<"hotkeys">>, {"dashboard", "workflow", "executionMonitor"})
        \cup At(<<"fallback">>, {"retryCount", "downshiftChain", "checkpointBeforeRetry"})

Leaf == RoutingLeaves \cup LearnLeaves \cup SafetyLeaves \cup PolicyLeaves \cup StackLeaves
            \cup SmallLeaves

\* The settings an environment variable can give, and those whose variable is taken as the
\* string it is where the schema wants something else.
EnvLeaf ==
    { <<"modelRouting", "profiles", n, "model">> : n \in Profiles }
        \cup { <<"autonomy", "mode">>, <<"autonomy", "maxRetries">>, <<"beads", "timeout">>,
               <<"overseer", "enabled">> }
        \cup At(<<"hotkeys">>, {"dashboard", "workflow", "executionMonitor"})

NotParsed == { <<"overseer", "enabled">> }

\* ENV_VAR_MAP leads to these and to no other.
ASSUME EnvAssumption == \A tree \in Surrounding : DOMAIN tree \subseteq EnvLeaf

-----------------------------------------------------------------------------

EmptyTree == << >>

Comparable(p, q) == IsPrefix(p, q) \/ IsPrefix(q, p)

\* The tree `above` over the tree `below`: what is not an object replaces whatever it meets.
Over(below, above) ==
    LET kept == {p \in DOMAIN below : \A q \in DOMAIN above : ~Comparable(p, q)}
    IN  [p \in kept \cup DOMAIN above |-> IF p \in kept THEN below[p] ELSE above[p]]

\* Every key of a file loses a hyphen before a small letter: those it is spelled with
\* for the user's sake, and those the schema itself has with a hyphen.
Hyphened ==
    {"model-profiles", "max-retries", "F-lite", "F-full", "dangerous-commands",
     "credential-exposure", "destructive-git", "file-scope", "suspicious-content"}

Camel ==
    [k \in Hyphened |->
        CASE k = "model-profiles"      -> "modelProfiles"
          [] k = "max-retries"         -> "maxRetries"
          [] k = "F-lite"              -> "FLite"
          [] k = "F-full"              -> "FFull"
          [] k = "dangerous-commands"  -> "dangerousCommands"
          [] k = "credential-exposure" -> "credentialExposure"
          [] k = "destructive-git"     -> "destructiveGit"
          [] k = "file-scope"          -> "fileScope"
          [] k = "suspicious-content"  -> "suspiciousContent"]

CamelPath(p) == [i \in DOMAIN p |-> IF p[i] \in Hyphened THEN Camel[p[i]] ELSE p[i]]

Normalized(tree) ==
    [q \in {CamelPath(p) : p \in DOMAIN tree} |->
        tree[CHOOSE p \in DOMAIN tree : CamelPath(p) = q]]

\* model-profiles is another name for modelRouting.profiles, and takes the place of the
\* whole section.
Reshaped(tree) ==
    LET alias == {p \in DOMAIN tree : p[1] = "modelProfiles"}
        other == {p \in DOMAIN tree : p[1] \notin {"modelProfiles", "modelRouting"}}
        Moved(p) == <<"modelRouting", "profiles">> \o Tail(p)
    IN  IF alias = {} THEN tree
        ELSE [q \in other \cup {Moved(p) : p \in alias} |->
                IF q \in other THEN tree[q] ELSE tree[CHOOSE p \in alias : Moved(p) = q]]

-----------------------------------------------------------------------------

VARIABLES
    team,      \* .tff/settings.yaml
    local,     \* .tff/settings.local.yaml
    env,       \* the variables that are set, by the path they give
    update,    \* what each process does in tff_update_setting
    updates,   \* how many it began
    edition,   \* history: the team's file as the user wrote it
    given,     \* history: the keys updated since
    blind,     \* history: an update met a file it could not parse
    dirs,      \* the directories with a .tff in them
    project,   \* the row of the project table
    answer     \* what tff_init_project said last

settingsVars == <<team, local, env, update, updates, edition, given, blind,
                  dirs, project, answer>>

projectVars == <<dirs, project, answer>>

fileVars == <<team, local, env, update, updates, edition, given, blind>>

\* A file is missing, empty or garbled, or whole.
Missing == [is |-> "missing", tree |-> EmptyTree]

Torn == [is |-> "torn", tree |-> EmptyTree]

Whole(tree) == [is |-> "whole", tree |-> tree]

NoUpdate == [at |-> "none", key |-> << >>, value |-> "none", tree |-> EmptyTree]

SettingsInit ==
    /\ team = Missing /\ local = Missing
    /\ env \in Surrounding
    /\ update = [w \in Writer |-> NoUpdate]
    /\ updates = 0
    /\ edition = EmptyTree
    /\ given = {}
    /\ blind = FALSE
    /\ dirs = {Home}     \* createTffExtension makes it before any tool can be called
    /\ project = NoRoot
    /\ answer = "none"

(***************************************************************************)
(* Reading: what is missing or does not parse counts as nothing, the local *)
(* file goes over the team's and the environment over both.                *)
(***************************************************************************)
Loaded(file) == IF file.is = "whole" THEN Reshaped(Normalized(file.tree)) ELSE EmptyTree

FromEnv == [p \in DOMAIN env |-> IF p \in NotParsed THEN Bad ELSE env[p]]

Merged == Over(Over(Loaded(team), Loaded(local)), FromEnv)

\* What a section's schema does not accept: a bad value, a scalar where it has an object,
\* an object where it has a scalar.
Wrong(tree, q) == \E p \in Leaf : Comparable(p, q) /\ (p = q => tree[q] = Bad)

Refused(tree) == {q[1] : q \in {q \in DOMAIN tree : Wrong(tree, q)}}

\* A refused section is replaced by its defaults; keys the schema does not know are dropped.
MutantParsed(tree) ==
    LET accepted == Refused(tree) = {}
    IN  [p \in Leaf |-> IF p \in DOMAIN tree /\ accepted THEN tree[p] ELSE "default"]

Parsed(tree) ==
    LET refused == Refused(tree)
    IN  [p \in Leaf |->
            IF p \in DOMAIN tree /\ p[1] \notin refused THEN tree[p] ELSE "default"]

\* What tff_read_settings and /tff:settings show.
Shown == Parsed(Merged)

(***************************************************************************)
(* tff_update_setting: the file is read and parsed, nothing standing in    *)
(* for what cannot be; opening it for writing empties it.                  *)
(***************************************************************************)
BeginUpdate(w, r) ==
    /\ update[w] = NoUpdate
    /\ updates < MaxUpdates
    /\ updates' = updates + 1
    /\ update' = [update EXCEPT ![w] =
           [at |-> "open", key |-> r.key, value |-> r.value,
            tree |-> team.tree]]
    /\ blind' = (blind \/ team.is = "torn")
    /\ UNCHANGED <<team, local, env, edition, given, projectVars>>

OpenForWriting(w) ==
    /\ update[w].at = "open"
    /\ team' = Torn
    /\ update' = [update EXCEPT ![w].at = "write"]
    /\ UNCHANGED <<local, env, updates, edition, given, blind, projectVars>>

\* What is not an object on the way to the key is replaced by one.
MutantDeepSet(tree, key, value) ==
    LET beside == {p \in DOMAIN tree : p[1] # key[1]}
    IN  [p \in beside \cup {key} |-> IF p = key THEN value ELSE tree[p]]

DeepSet(tree, key, value) == Over(tree, [p \in {key} |-> value])

\* Where another process wrote since the file was emptied, what is written does not cover
\* all of the other's text if it is shorter.
FinishUpdate(w) ==
    /\ update[w].at = "write"
    /\ \/ team' = Whole(DeepSet(update[w].tree, update[w].key, update[w].value))
       \/ team.is = "whole" /\ team' = Torn
    /\ given' = given \cup {update[w].key}
    /\ update' = [update EXCEPT ![w] = NoUpdate]
    /\ UNCHANGED <<local, env, updates, edition, blind, projectVars>>

KillUpdate(w) ==
    /\ update[w] # NoUpdate
    /\ update' = [update EXCEPT ![w] = NoUpdate]
    /\ UNCHANGED <<team, local, env, updates, edition, given, blind, projectVars>>

\* The user writes a file with an editor while no update is at work.
EditTeam(tree) ==
    /\ \A w \in Writer : update[w] = NoUpdate
    /\ team' = Whole(tree)
    /\ edition' = tree
    /\ given' = {}
    /\ blind' = FALSE
    /\ UNCHANGED <<local, env, update, updates, projectVars>>

EditLocal(tree) ==
    /\ local' = Whole(tree)
    /\ UNCHANGED <<team, env, update, updates, edition, given, blind, projectVars>>

(***************************************************************************)
(* tff_init_project, given a directory: one that has a .tff is refused;    *)
(* otherwise .tff is made with PROJECT.md and the default settings in it,  *)
(* and the project is saved unless the database has another.               *)
(***************************************************************************)
RefuseInit(r) ==
    /\ r \in dirs
    /\ answer' = "exists"
    /\ UNCHANGED <<fileVars, dirs, project>>

InitProject(r) ==
    /\ r \notin dirs
    /\ dirs' = dirs \cup {r}
    /\ IF project = NoRoot
       THEN project' = r /\ answer' = "made"
       ELSE answer' = "singleton" /\ UNCHANGED project
    /\ UNCHANGED fileVars

FilesNext ==
    \/ \E w \in Writer :
         \/ \E r \in Requests : BeginUpdate(w, r)
         \/ OpenForWriting(w)
         \/ FinishUpdate(w)
         \/ KillUpdate(w)
    \/ \E tree \in Editions : EditTeam(tree) \/ EditLocal(tree)

ProjectNext == \E r \in Root : RefuseInit(r) \/ InitProject(r)

SettingsNext == FilesNext \/ ProjectNext

SettingsSpec == SettingsInit /\ [][SettingsNext]_settingsVars

-----------------------------------------------------------------------------

\* The topmost of the sources, listed from the top, that says anything of a setting, of
\* what contains it or of what is in it.
Speaks(tree, p) == \E q \in DOMAIN tree : Comparable(p, q)

Topmost(sources, p) ==
    LET speaking == {i \in DOMAIN sources : Speaks(sources[i], p)}
    IN  IF speaking = {} THEN EmptyTree ELSE sources[Min(speaking)]

\* The sections in which a source makes a mistake that none above it overrides.
Mistaken(sources) ==
    UNION { {q[1] : q \in {q \in DOMAIN sources[i] :
                              Wrong(sources[i], q) /\ Topmost(sources, q) = sources[i]}}
              : i \in DOMAIN sources }

\* The settings of the schema under a key with a hyphen.
OutOfReach == {p \in Leaf : \E i \in DOMAIN p : p[i] \in Hyphened}

(***************************************************************************)
(* The sources are the environment and the two files as they are loaded:   *)
(* with their keys renamed, model-profiles in place of all of modelRouting.*)
(* A setting has the value of the topmost source that speaks of it,        *)
(* whatever is wrong in other sections of any source.  It has its default  *)
(* where the topmost source replaced what contains it, and where its       *)
(* section holds a mistake nothing overrides: one mistake costs the whole  *)
(* section, not only the field it is in.  A setting whose own key has a    *)
(* hyphen (an overseer timeout for F-lite, a guardrail rule) always has    *)
(* its default, whatever the files say of it: by the time the schema looks *)
(* for the key it has been renamed.                                        *)
(* Code: normalizeKeys, deepMerge and the .catch of every section's schema.*)
(***************************************************************************)
CascadeOrder ==
    LET sources  == <<FromEnv, Loaded(local), Loaded(team)>>
        mistaken == Mistaken(sources)
        shown    == Shown
    IN  /\ \A p \in Leaf :
              LET src == Topmost(sources, p)
              IN  shown[p] = IF p \in DOMAIN src /\ p[1] \notin mistaken THEN src[p]
                             ELSE "default"
        /\ \A p \in OutOfReach : shown[p] = "default"

(***************************************************************************)
(* However updates of several processes overlap or are killed, a setting   *)
(* the user wrote stays in the file, or an update was given a key at,      *)
(* above or below it; it is lost only after an update met a file another   *)
(* had emptied and took it for an empty one.                               *)
(* Code: createUpdateSettingTool.                                          *)
(***************************************************************************)
SettingsKept ==
    (team.is = "whole" /\ ~blind) =>
        \A p \in DOMAIN edition :
            \/ p \in DOMAIN team.tree /\ team.tree[p] = edition[p]
            \/ \E key \in given : Comparable(p, key)

\* What the comment on the guard and the name of its error say: a directory is refused
\* only where a project exists.
RefusedMeansProject == answer = "exists" => project # NoRoot

=============================================================================
