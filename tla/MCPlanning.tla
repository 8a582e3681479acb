------------------------------ MODULE MCPlanning ------------------------------
(* Parts that share no state, so a behaviour explores one of them: slices  *)
(* of a milestone, ad-hoc slices, the settings, the making of a project.   *)
(*                                                                         *)
(* Two slices of the milestone, so that a command can name the one the     *)
(* session does not hold.  Three labels and four plans: a chain, a fork    *)
(* that names a blocker twice, a cycle, and a task that waits for a task   *)
(* of no plan.  Two processes start ad-hoc slices or update settings.      *)
(* Settings files with nested, renamed and mistaken keys, a section that   *)
(* is no section, and both names of the model profiles.                    *)
EXTENDS Planning, QuickStart, Settings

CONSTANTS s1, s2, a, b, c, q1, q2, p1, p2, here, there, x, y

MCSlice == {s1, s2}

MCLabel == {a, b, c}

MCDrafts ==
    { (a :> <<>>) @@ (b :> <<a>>),
      (a :> <<>>) @@ (b :> <<a, a>>) @@ (c :> <<a>>),
      (a :> <<b>>) @@ (b :> <<a>>),
      c :> <<b>> }

MCAdHoc == {q1, q2}

MCProcess == {p1, p2}

MCRoot == {here, there}

MCEditions ==
    { (<<"autonomy", "mode">> :> x) @@ (<<"autonomy", "max-retries">> :> y)
          @@ (<<"overseer", "timeouts", "S">> :> x),
      (<<"model-profiles", "quality", "model">> :> y) @@ (<<"modelRouting", "budget", "limit">> :> x)
          @@ (<<"hotkeys", "dashboard">> :> Bad),
      (<<"autonomy">> :> Bad) @@ (<<"overseer", "timeouts", "F-lite">> :> y) }

MCRequests ==
    { [key |-> <<"autonomy", "mode">>, value |-> y],
      [key |-> <<"overseer", "timeouts", "F-lite">>, value |-> x],
      [key |-> <<"hotkeys">>, value |-> x] }

MCSurrounding ==
    { EmptyTree, (<<"autonomy", "mode">> :> x) @@ (<<"overseer", "enabled">> :> x) }

VARIABLE part

MCInit ==
    /\ PlanningInit /\ QuickInit /\ SettingsInit
    /\ part \in {"milestone", "ad hoc", "settings", "project"}
    /\ part # "settings" => env = EmptyTree

MCNext ==
    \/ /\ part = "milestone"
       /\ PlanningNext
       /\ UNCHANGED <<quickVars, settingsVars, part>>
    \/ /\ part = "ad hoc"
       /\ QuickNext
       /\ UNCHANGED <<allVars, settingsVars, part>>
    \/ /\ part = "settings"
       /\ FilesNext
       /\ UNCHANGED <<allVars, quickVars, part>>
    \/ /\ part = "project"
       /\ ProjectNext
       /\ UNCHANGED <<allVars, quickVars, part>>

MCSpec == MCInit /\ [][MCNext]_<<allVars, quickVars, settingsVars, part>>

MCSymmetry ==
    Permutations(MCSlice) \cup Permutations(MCAdHoc) \cup Permutations(MCProcess)

=============================================================================
