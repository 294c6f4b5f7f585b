--------------------------- MODULE ToolFunctions ---------------------------
(***************************************************************************)
(* The tools as functions of this repository's TypeScript take them: for   *)
(* each field a function reads, the values it does not refuse with         *)
(* ToolInputError.  Those that work through the editor or the game refuse  *)
(* everything without a dispatcher.                                        *)
(*                                                                         *)
(* projectRoot and licenseDir of the modules.*, search.* and analysis.*    *)
(* functions, which no client gives, are left out.                         *)
(***************************************************************************)
EXTENDS ToolSchemas

\* requireNonBlank() where it trims; requireNonBlankString() of crafting, inventory and animation
\* compares the length only, and is SomeText.
Trimmed == SomeText \ {"blank"}

\* `value ?? default`
Soft(values) == values \cup {"absent", "null"}

\* What no function checks.
Unchecked == Opt(Anything)

NoFields == [f \in {} |-> {}]

RecipeFunctions ==
    [crafting_execute |-> [recipe_id |-> SomeText],
     crafting_list_recipes |-> [filter |-> Opt(AnyText)],
     crafting_get_recipe |-> [recipe_id |-> SomeText],
     crafting_create_recipe |-> [id |-> SomeText, inputs |-> AnyList, outputs |-> AnyList,
                                 duration_seconds |-> NonNegative]]

RecipeChangeFunctions ==
    [crafting_update_recipe |-> [id |-> SomeText, patch |-> Dictionary],
     crafting_delete_recipe |-> [id |-> SomeText],
     crafting_validate_recipe |-> [id |-> Opt(SomeText), fields |-> Opt(Dictionary)],
     crafting_simulate_cost |-> [recipe_id |-> SomeText, iterations |-> Opt(Count)]]

\* A capacity of -1 stands for no limit.
InventoryFunctions ==
    [inventory_add_item |-> [item_id |-> SomeText, amount |-> Ordinal],
     inventory_remove_item |-> [item_id |-> SomeText, amount |-> Ordinal],
     inventory_get_count |-> [item_id |-> SomeText],
     inventory_snapshot |-> NoFields]

InventoryOwnerFunctions_Renamed ==
    [inventory_clear |-> [owner_id |-> Opt(SomeText)],
     inventory_transfer |-> [from_owner |-> SomeText, to_owner |-> SomeText, item_id |-> SomeText,
                             amount |-> Ordinal],
     inventory_set_capacity |-> [owner |-> SomeText, capacity |-> WholeNumber]]

InventoryOwnerFunctions ==
    [inventory_clear |-> [owner |-> Opt(SomeText)],
     inventory_transfer |-> [from_owner |-> SomeText, to_owner |-> SomeText, item_id |-> SomeText,
                             amount |-> Ordinal],
     inventory_set_capacity |-> [owner |-> SomeText, capacity |-> WholeNumber]]

AnimationFunctions ==
    [animation_list |-> [player_path |-> SomeText],
     animation_play |-> [player_path |-> SomeText, name |-> SomeText, speed |-> Opt(AnyNumber)],
     animation_stop |-> [player_path |-> SomeText],
     animation_add_track |-> [player_path |-> SomeText, animation_name |-> SomeText,
                              track_type |-> SomeText, path |-> SomeText]]

InputFunctions ==
    [input_simulate_action |-> [action |-> Trimmed, strength |-> Soft(Fraction), pressed |-> Soft(Flag)],
     input_simulate_key |-> [keycode |-> Ordinal, pressed |-> Flag, echo |-> Soft(Flag)],
     input_simulate_mouse_button |-> [button |-> Ordinal, pressed |-> Flag, position |-> Soft(Vector2)],
     input_simulate_mouse_motion |-> [position |-> Vector2, relative |-> Soft(Vector2)]]

InputMapFunctions ==
    [input_configure_action |-> [action |-> Trimmed, events |-> AnyList, deadzone |-> Opt(Fraction)],
     input_remove_action |-> [action |-> Trimmed]]

ProfilingFunctions ==
    [profiling_get_performance_monitors |-> [monitors |-> Opt(NameList)],
     profiling_get_frame_stats |-> [window_frames |-> Opt(Count)]]

\* All that is forwarded to the editor or the game.
Forwarding ==
  RecipeFunctions @@ RecipeChangeFunctions @@ InventoryFunctions @@ InventoryOwnerFunctions
    @@ AnimationFunctions @@ InputFunctions @@ InputMapFunctions @@ ProfilingFunctions
    @@ [project_reload |-> NoFields]

RunPreset == [export_run_preset |-> [preset_name |-> Trimmed, output_path |-> Trimmed, debug |-> Unchecked]]
ValidatePreset == [export_validate_preset |-> [preset_name |-> Unchecked, project_root |-> Opt(AnyText)]]
InstallApk == [android_install_apk |-> [apk_path |-> Trimmed, device_serial |-> Unchecked]]
RunLogcat == [android_run_logcat |-> [filter |-> Unchecked]]

RunUnit == [tests_run_unit |-> [path |-> Trimmed, pattern |-> Opt(Trimmed)]]
RunSuite == [tests_run_suite |-> [suite_name |-> Trimmed]]
RunGameplay == [tests_run_gameplay |-> [scene_path |-> Trimmed, steps |-> Opt(NameList)]]
RunProperty == [tests_run_property |-> [path |-> Trimmed, iterations |-> Opt(Count), seed |-> Opt(WholeNumber)]]

InspectManifest == [modules_inspect_manifest |-> [moduleId |-> Trimmed]]
SetEnabled == [modules_enable |-> [moduleId |-> Trimmed], modules_disable |-> [moduleId |-> Trimmed]]
CheckArguments == [modules_check_compatibility |-> [moduleId |-> Trimmed, coreVersion |-> Opt(Trimmed)]]
ActivateLicense ==
    [modules_activate_license |-> [moduleId |-> Trimmed, licenseId |-> Trimmed, signature |-> Trimmed]]

ProjectInfo == [project_info |-> [projectRoot |-> Trimmed, apiVersion |-> Trimmed]]
ListModules == [project_list_modules |-> [projectRoot |-> Trimmed]]
CheckImports == [project_check_imports |-> [projectRoot |-> Trimmed]]
ListAddons == [project_list_addons |-> [projectRoot |-> Trimmed]]
GetSettings == [project_get_settings |-> [projectRoot |-> Trimmed, section |-> Opt({"text"} \cup AWord)]]
UpdateSettings == [project_update_settings |-> [projectRoot |-> Trimmed, patch |-> Dictionary]]
AddWorkspace ==
    [project_add |-> [workspace_id |-> SomeText, projectRoot |-> SomeText, label |-> Unchecked,
                      make_active |-> Unchecked]]
RemoveWorkspace == [project_remove |-> [workspace_id |-> SomeText]]
SwitchWorkspace == [project_switch |-> [workspace_id |-> SomeText]]

\* Lists of prefixes: `some` of a text is no function, and throws TypeError.
SearchCode ==
    [search_code |-> [query |-> Trimmed, include |-> Soft(AnyList \cup {"empty"}), exclude |-> Soft(AnyList)]]
SearchReferences == [search_references |-> [symbol |-> {"text"} \cup AWord, class |-> Soft(AnyText)]]
CountNodesByType == [analysis_count_nodes_by_type |-> [root |-> Opt(Trimmed)]]
DependencyGraph == [analysis_dependency_graph |-> [root |-> Opt(Trimmed), format |-> Opt(AWord)]]

Functions ==
  Forwarding @@ RunPreset @@ ValidatePreset @@ InstallApk @@ RunLogcat
    @@ RunUnit @@ RunSuite @@ RunGameplay @@ RunProperty
    @@ InspectManifest @@ SetEnabled @@ CheckArguments @@ ActivateLicense
    @@ ProjectInfo @@ ListModules @@ CheckImports @@ ListAddons @@ GetSettings @@ UpdateSettings
    @@ AddWorkspace @@ RemoveWorkspace @@ SwitchWorkspace
    @@ SearchCode @@ SearchReferences @@ CountNodesByType @@ DependencyGraph
=============================================================================
