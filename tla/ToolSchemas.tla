---------------------------- MODULE ToolSchemas ----------------------------
(***************************************************************************)
(* The input schemas of the tools that have an implementation in this      *)
(* repository and take arguments: for each field, the values Ajv accepts,  *)
(* "absent" among them when the field is not required.  No schema allows   *)
(* other fields.  Dots in names of tools are written as underscores.       *)
(*                                                                         *)
(* Values stand for classes: "blank" is a text of one space, "word" and    *)
(* "other" are members of whatever enumeration the field has, "res" and    *)
(* "scene" paths, "many" is 100, "pair", "triple" and "four" are lists of  *)
(* numbers, "names" is a list of paths, "blanks" a list with an empty text,*)
(* "records" a list of the objects the field wants, "loose" one of objects *)
(* that lack a field.  Descriptions and output schemas are left out:       *)
(* nothing in the server reads the latter.                                 *)
(***************************************************************************)
EXTENDS TLC

AnyText     == {"empty", "blank", "text", "res", "scene", "word", "other"}
SomeText    == AnyText \ {"empty"}                         \* minLength: 1
LongText    == SomeText \ {"blank"}                        \* minLength: 4
ResPath     == {"res", "scene"}
ScenePath   == {"scene"}
OneWord     == {"word"}
AWord       == {"word", "other"}
WholeNumber == {"minus", "zero", "one", "two", "many"}
AnyNumber   == WholeNumber \cup {"half"}
NonNegative == AnyNumber \ {"minus"}
Fraction    == {"zero", "half", "one"}
Ordinal     == WholeNumber \ {"minus"}
Count       == Ordinal \ {"zero"}
LayerNumber == {"one", "two"}                              \* 1 to 32
BigCount    == {"many"}                                    \* from 64
Flag        == {"flag"}
Dictionary  == {"dict"}
Vector2     == {"pair"}
Vector3     == {"triple"}
CountList   == {"pair", "triple"}
SomeNames   == {"names"}
NameList    == {"list0", "names"}
TextList    == NameList \cup {"blanks"}
RecordList  == {"list0", "records"}
ObjectList  == RecordList \cup {"loose"}
AnyList     == TextList \cup ObjectList \cup {"pair", "triple", "four"}
Anything    == AnyText \cup AnyNumber \cup AnyList \cup {"flag", "dict", "null"}
Opt(values) == values \cup {"absent"}

-----------------------------------------------------------------------------
AnimationSchemas ==
    [animation_list |-> [player_path |-> SomeText],
     animation_play |-> [player_path |-> SomeText, name |-> SomeText, speed |-> Opt(AnyNumber)],
     animation_stop |-> [player_path |-> SomeText],
     animation_add_track |-> [player_path |-> SomeText, animation_name |-> SomeText,
                              track_type |-> SomeText, path |-> SomeText],
     animation_insert_keyframe |-> [player_path |-> SomeText, animation_name |-> SomeText,
                                    track |-> Ordinal, time |-> AnyNumber, value |-> Anything],
     animation_remove_track |-> [player_path |-> SomeText, animation_name |-> SomeText,
                                 track_index |-> Ordinal],
     animation_tree_create |-> [scene_path |-> SomeText, parent_path |-> SomeText,
                                anim_player_path |-> SomeText]]

AnimationTreeSchemas ==
    [animation_tree_set_parameter |-> [tree_path |-> SomeText, param |-> SomeText,
                                       value |-> Anything],
     animation_tree_get_parameters |-> [tree_path |-> SomeText],
     animation_tree_set_active |-> [tree_path |-> SomeText, active |-> Flag],
     state_machine_list_states |-> [tree_path |-> SomeText, playback_param |-> SomeText],
     state_machine_travel |-> [tree_path |-> SomeText, playback_param |-> SomeText,
                               state_name |-> SomeText],
     state_machine_get_current |-> [tree_path |-> SomeText, playback_param |-> SomeText],
     blend_tree_configure_node |-> [tree_path |-> SomeText, node_id |-> SomeText, type |-> SomeText,
                                    params |-> Opt(Dictionary)]]

AssetSchemas ==
    [assetgen_sprite_from_svg |-> [svg_source |-> SomeText, target_path |-> ResPath,
                                   size |-> Opt(Vector2)],
     assetgen_atlas_pack |-> [source_paths |-> SomeNames, target_path |-> ResPath,
                              max_size |-> Opt(BigCount)],
     assetgen_noise_texture |-> [target_path |-> ResPath, width |-> Count, height |-> Count,
                                 noise_type |-> AWord, seed |-> Opt(WholeNumber)],
     assetgen_icon_set |-> [source_svg |-> SomeText, target_dir |-> ResPath, sizes |-> CountList]]

RecipeSchemas ==
    [crafting_execute |-> [recipe_id |-> SomeText],
     crafting_list_recipes |-> [filter |-> Opt(AnyText)],
     crafting_get_recipe |-> [recipe_id |-> SomeText],
     crafting_create_recipe |-> [id |-> SomeText, inputs |-> RecordList, outputs |-> RecordList,
                                 duration_seconds |-> NonNegative]]

RecipeChangeSchemas ==
    [crafting_update_recipe |-> [id |-> SomeText, patch |-> Dictionary],
     crafting_delete_recipe |-> [id |-> SomeText],
     crafting_validate_recipe |-> [id |-> Opt(AnyText), fields |-> Opt(Dictionary)],
     crafting_simulate_cost |-> [recipe_id |-> SomeText, iterations |-> Opt(Count)]]

InventorySchemas ==
    [inventory_add_item |-> [item_id |-> SomeText, amount |-> Count, owner |-> Opt(SomeText)],
     inventory_remove_item |-> [item_id |-> SomeText, amount |-> Count, owner |-> Opt(SomeText)],
     inventory_get_count |-> [item_id |-> SomeText, owner |-> Opt(SomeText)],
     inventory_snapshot |-> [owner |-> Opt(SomeText)],
     inventory_clear |-> [owner |-> Opt(SomeText)],
     inventory_transfer |-> [from_owner |-> SomeText, to_owner |-> SomeText, item_id |-> SomeText,
                             amount |-> Count],
     inventory_set_capacity |-> [owner |-> SomeText, capacity |-> Count]]

EditorSchemas ==
    [editor_set_selection |-> [node_paths |-> NameList],
     editor_get_output_log |-> [max_lines |-> Opt(Count)],
     editor_focus_node |-> [node_path |-> SomeText],
     editor_get_undo_stack |-> [max |-> Opt(Count)]]

ExportSchemas ==
    [export_run_preset |-> [preset_name |-> SomeText, output_path |-> SomeText,
                            debug |-> Opt(Flag)],
     export_validate_preset |-> [preset_name |-> SomeText],
     android_install_apk |-> [apk_path |-> SomeText, device_serial |-> Opt(AnyText)],
     android_run_logcat |-> [filter |-> Opt(AnyText), duration_ms |-> Opt(Count)]]

InputSchemas ==
    [input_simulate_action |-> [action |-> SomeText, strength |-> Opt(Fraction),
                                pressed |-> Opt(Flag)],
     input_simulate_key |-> [keycode |-> WholeNumber, pressed |-> Flag, echo |-> Opt(Flag)],
     input_simulate_mouse_button |-> [button |-> WholeNumber, pressed |-> Flag,
                                      position |-> Opt(Vector2)],
     input_simulate_mouse_motion |-> [position |-> Vector2, relative |-> Opt(Vector2)]]

InputMapSchemas ==
    [input_configure_action |-> [action |-> SomeText, events |-> ObjectList,
                                 deadzone |-> Opt(Fraction)],
     input_remove_action |-> [action |-> SomeText]]

ModuleSchemas ==
    [modules_inspect_manifest |-> [module_id |-> SomeText],
     modules_enable |-> [module_id |-> SomeText],
     modules_disable |-> [module_id |-> SomeText],
     modules_check_compatibility |-> [module_id |-> SomeText, core_version |-> Opt(AnyText)],
     modules_activate_license |-> [module_id |-> SomeText, license_key |-> SomeText]]

NodeSchemas ==
    [node_add |-> [scene_path |-> ScenePath, parent_path |-> SomeText, type |-> SomeText,
                   name |-> SomeText, properties |-> Opt(Dictionary)],
     node_remove |-> [scene_path |-> ScenePath, node_path |-> SomeText],
     node_set_property |-> [scene_path |-> ScenePath, node_path |-> SomeText, property |-> SomeText,
                            value |-> Anything],
     node_get_property |-> [node_path |-> SomeText, property |-> SomeText],
     node_get_properties |-> [node_path |-> SomeText, filter |-> Opt(AnyText)],
     node_rename |-> [scene_path |-> ScenePath, node_path |-> SomeText, new_name |-> SomeText]]

NodeQuerySchemas ==
    [node_reparent |-> [scene_path |-> ScenePath, node_path |-> SomeText,
                        new_parent_path |-> SomeText],
     node_duplicate |-> [scene_path |-> ScenePath, node_path |-> SomeText,
                         flags |-> Opt(WholeNumber)],
     node_find_by_type |-> [type |-> SomeText, root |-> Opt(SomeText)],
     node_find_by_name |-> [name |-> SomeText, root |-> Opt(SomeText), regex |-> Opt(Flag)],
     node_get_signals |-> [node_path |-> SomeText]]

NodeSignalSchemas ==
    [node_connect_signal |-> [from_path |-> SomeText, signal |-> SomeText, to_path |-> SomeText,
                              method |-> SomeText, flags |-> Opt(WholeNumber)],
     node_disconnect_signal |-> [from_path |-> SomeText, signal |-> SomeText, to_path |-> SomeText,
                                 method |-> SomeText],
     node_call_method |-> [node_path |-> SomeText, method |-> SomeText, args |-> Opt(AnyList)]]

PhysicsSchemas ==
    [physics_raycast |-> [from |-> Vector3, to |-> Vector3, collision_mask |-> Opt(WholeNumber),
                          exclude |-> Opt(NameList)],
     physics_shape_cast |-> [shape |-> Dictionary, from |-> Vector3, motion |-> Vector3,
                             collision_mask |-> Opt(WholeNumber)],
     physics_query_point |-> [position |-> Vector3, collision_mask |-> Opt(WholeNumber)],
     physics_set_gravity |-> [vector |-> Vector3],
     physics_configure_layer |-> [index |-> LayerNumber, name |-> SomeText,
                                  mask |-> Opt(WholeNumber)]]

ParticleSchemas ==
    [particle_create_gpu |-> [scene_path |-> SomeText, parent_path |-> SomeText, name |-> SomeText,
                              material_path |-> Opt(ResPath)],
     particle_create_cpu |-> [scene_path |-> SomeText, parent_path |-> SomeText, name |-> SomeText],
     particle_set_emission_shape |-> [material_path |-> ResPath, shape |-> SomeText,
                                      params |-> Dictionary],
     particle_preview_in_editor |-> [node_path |-> SomeText, duration |-> Opt(NonNegative)],
     particle_convert_cpu_to_gpu |-> [node_path |-> SomeText]]

NavigationSchemas ==
    [navigation_bake_mesh |-> [nav_region_path |-> SomeText, quality |-> Opt(AWord)],
     navigation_find_path |-> [from |-> Vector3, to |-> Vector3, optimize |-> Opt(Flag)],
     navigation_add_agent |-> [scene_path |-> SomeText, parent_path |-> SomeText,
                               params |-> Opt(Dictionary)],
     navigation_set_avoidance |-> [node_path |-> SomeText, enabled |-> Flag,
                                   radius |-> Opt(NonNegative)],
     navigation_configure_layers |-> [layers |-> Dictionary],
     navigation_debug_draw |-> [enabled |-> Flag]]

AudioSchemas ==
    [audio_set_bus_volume_db |-> [bus_name |-> SomeText, db |-> AnyNumber],
     audio_add_bus_effect |-> [bus_name |-> SomeText, effect_type |-> SomeText,
                               params |-> Opt(Dictionary)],
     audio_import_sound |-> [source_path |-> SomeText, target_path |-> ResPath,
                             import_flags |-> Opt(Dictionary)],
     audio_play_stream |-> [stream_path |-> ResPath, bus |-> Opt(AnyText),
                            volume_db |-> Opt(AnyNumber)],
     audio_stop_stream |-> [player_id |-> SomeText]]

ProfilingSchemas ==
    [profiling_get_performance_monitors |-> [monitors |-> Opt(TextList)],
     profiling_get_frame_stats |-> [window_frames |-> Opt(Count)]]

ProjectSchemas ==
    [project_info |-> [projectRoot |-> SomeText, apiVersion |-> SomeText],
     project_list_modules |-> [projectRoot |-> SomeText],
     project_check_imports |-> [projectRoot |-> SomeText],
     project_get_settings |-> [projectRoot |-> SomeText, section |-> Opt(AnyText)],
     project_update_settings |-> [projectRoot |-> SomeText, patch |-> Dictionary],
     project_reload |-> [projectRoot |-> SomeText]]

WorkspaceSchemas ==
    [project_list_addons |-> [projectRoot |-> SomeText],
     project_add |-> [project_root |-> SomeText, label |-> Opt(AnyText)],
     project_remove |-> [workspace_id |-> SomeText],
     project_switch |-> [workspace_id |-> SomeText]]

RefactorSchemas ==
    [refactor_rename_class |-> [old_name |-> SomeText, new_name |-> SomeText],
     refactor_rename_method |-> [class_name |-> SomeText, old |-> SomeText, new |-> SomeText],
     refactor_move_file |-> [from |-> ResPath, to |-> ResPath, update_refs |-> Opt(Flag)],
     refactor_find_unused_assets |-> [root |-> Opt(ResPath)],
     refactor_organize_imports |-> [path |-> ResPath]]

BatchSchemas ==
    [batch_execute |-> [ops |-> RecordList, transactional |-> Opt(Flag)],
     batch_dry_run |-> [ops |-> RecordList],
     transaction_begin |-> [timeout_ms |-> Opt(Count), label |-> Opt(AnyText)],
     transaction_commit |-> [transaction_id |-> SomeText],
     transaction_rollback |-> [transaction_id |-> SomeText]]

ResourceSchemas ==
    [resource_load |-> [path |-> ResPath],
     resource_save |-> [path |-> ResPath, fields |-> Dictionary],
     resource_inspect |-> [path |-> ResPath],
     resource_apply_fix |-> [path |-> ResPath, fix |-> Dictionary],
     resource_duplicate |-> [from |-> ResPath, to |-> ResPath, transform |-> Opt(Dictionary)],
     resource_list_by_type |-> [class_name |-> SomeText, root |-> Opt(ResPath)]]

RuntimeSchemas ==
    [runtime_handshake |-> [client_id |-> SomeText, auth_token |-> Opt(AnyText)],
     runtime_shutdown |-> [graceful |-> Opt(Flag)],
     runtime_get_scene_tree |-> [max_depth |-> Opt(Count)],
     runtime_change_scene |-> [scene_path |-> ScenePath]]

RuntimeStateSchemas ==
    [runtime_set_time_scale |-> [scale |-> NonNegative],
     runtime_screenshot |-> [format |-> Opt(OneWord)],
     runtime_get_autoload |-> [name |-> SomeText]]

RuntimeProbeSchemas ==
    [runtime_eval_safe |-> [expr |-> SomeText],
     runtime_emit_event |-> [signal_name |-> SomeText, payload |-> Dictionary],
     runtime_get_logs |-> [max_lines |-> Opt(Count), level |-> Opt(AWord)]]

Scene3dSchemas ==
    [scene3d_add_mesh_instance |-> [scene_path |-> SomeText, parent_path |-> SomeText,
                                    mesh_path |-> ResPath, transform |-> Opt(Dictionary)],
     scene3d_add_light |-> [scene_path |-> SomeText, parent_path |-> SomeText, type |-> AWord,
                            transform |-> Opt(Dictionary), params |-> Opt(Dictionary)],
     scene3d_add_camera |-> [scene_path |-> SomeText, parent_path |-> SomeText,
                             transform |-> Opt(Dictionary), current |-> Opt(Flag)],
     scene3d_set_environment |-> [scene_path |-> SomeText, env_path |-> ResPath],
     scene3d_bake_lightmap |-> [scene_path |-> SomeText, quality |-> Opt(AWord)],
     scene3d_import_gltf |-> [source_path |-> SomeText, target_path |-> ResPath]]

SceneSchemas ==
    [scene_open |-> [scene_path |-> ScenePath],
     scene_save |-> [scene_path |-> Opt(ScenePath)],
     scene_save_as |-> [scene_path |-> ScenePath, target_path |-> ScenePath],
     scene_close |-> [scene_path |-> ScenePath],
     scene_get_tree |-> [scene_path |-> Opt(ScenePath), max_depth |-> Opt(Count)],
     scene_get_tree_snapshot |-> [max_depth |-> Opt(Count)]]

SceneMakingSchemas ==
    [scene_instantiate |-> [scene_path |-> ScenePath, parent_path |-> SomeText,
                            transform |-> Opt(Dictionary)],
     scene_create |-> [scene_path |-> ScenePath, root_type |-> SomeText, root_name |-> SomeText]]

ScriptSchemas ==
    [gdscript_validate |-> [source |-> AnyText],
     gdscript_save_with_validation |-> [path |-> ResPath, source |-> AnyText],
     script_load |-> [path |-> ResPath],
     script_create |-> [path |-> ResPath, base_class |-> SomeText, template |-> Opt(AnyText)],
     script_attach |-> [scene_path |-> ScenePath, node_path |-> SomeText, script_path |-> ResPath],
     script_detach |-> [scene_path |-> ScenePath, node_path |-> SomeText]]

ScriptQuerySchemas ==
    [script_list_classes |-> [filter |-> Opt(AnyText)],
     script_get_documentation |-> [class_name |-> SomeText]]

ShaderSchemas ==
    [shader_create |-> [path |-> ResPath, template |-> Opt(AnyText)],
     shader_validate |-> [source |-> AnyText],
     shader_save_with_validation |-> [path |-> ResPath, source |-> AnyText],
     shader_set_uniform |-> [material_path |-> ResPath, uniform |-> SomeText, value |-> Anything],
     shader_list_uniforms |-> [material_path |-> ResPath],
     shader_convert_visual_to_text |-> [visual_shader_path |-> ResPath, target_path |-> ResPath]]

SearchSchemas ==
    [search_code |-> [query |-> SomeText, include |-> Opt(AnyText), exclude |-> Opt(AnyText)],
     search_references |-> [symbol |-> SomeText, class |-> Opt(AnyText)],
     analysis_count_nodes_by_type |-> [root |-> Opt(AnyText)],
     analysis_dependency_graph |-> [root |-> Opt(AnyText), format |-> Opt(AWord)]]

TestSchemas ==
    [tests_run_unit |-> [path |-> SomeText, pattern |-> Opt(AnyText)],
     tests_run_suite |-> [suite_name |-> SomeText],
     tests_run_gameplay |-> [scene_path |-> ResPath, steps |-> Opt(AnyList)],
     tests_run_property |-> [path |-> SomeText, iterations |-> Opt(Count),
                             seed |-> Opt(WholeNumber)]]

ThemeSchemas ==
    [theme_create |-> [path |-> ResPath],
     theme_set_default_font |-> [path |-> ResPath, font_path |-> ResPath, size |-> Count],
     theme_set_color |-> [path |-> ResPath, control_type |-> SomeText, color_name |-> SomeText,
                          value |-> LongText],
     theme_set_stylebox |-> [path |-> ResPath, control_type |-> SomeText,
                             stylebox_name |-> SomeText, stylebox_path |-> ResPath],
     ui_build_control_tree |-> [scene_path |-> SomeText, spec |-> Dictionary],
     ui_apply_layout_preset |-> [node_path |-> SomeText, preset |-> SomeText]]

TilemapSchemas ==
    [tilemap_set_cell |-> [node_path |-> SomeText, layer |-> Ordinal, coords |-> Vector2,
                           source_id |-> WholeNumber, atlas_coords |-> Opt(Vector2)],
     tilemap_get_cell |-> [node_path |-> SomeText, layer |-> Ordinal, coords |-> Vector2],
     tilemap_fill_rect |-> [node_path |-> SomeText, layer |-> Ordinal, rect |-> Dictionary,
                            source_id |-> WholeNumber, atlas_coords |-> Vector2],
     tilemap_clear_layer |-> [node_path |-> SomeText, layer |-> Ordinal],
     tilemap_import_from_json |-> [node_path |-> SomeText, json_path |-> ResPath],
     tilemap_export_to_json |-> [node_path |-> SomeText, target_path |-> ResPath]]

VisualizerSchemas ==
    [visualizer_start |-> [port |-> Opt(Count)],
     visualizer_render_scene_tree |-> [scene_path |-> Opt(ResPath), format |-> Opt(AWord)],
     visualizer_render_module_graph |-> [format |-> Opt(AWord)],
     visualizer_render_event_bus |-> [format |-> Opt(AWord)]]

HealingSchemas ==
    [healing_suggest_action |-> [report |-> Dictionary],
     healing_inspect_failure |-> [report_id |-> Opt(AnyText), failure_message |-> Opt(AnyText)],
     healing_get_retry_count |-> [resource_path |-> ResPath],
     healing_reset_retry_count |-> [resource_path |-> ResPath],
     healing_apply_and_retest |-> [fix |-> Dictionary, test_command |-> SomeText]]

Schemas ==
  AnimationSchemas @@ AnimationTreeSchemas @@ AssetSchemas @@ RecipeSchemas
    @@ RecipeChangeSchemas @@ InventorySchemas @@ EditorSchemas @@ ExportSchemas @@ InputSchemas
    @@ InputMapSchemas @@ ModuleSchemas @@ NodeSchemas @@ NodeQuerySchemas @@ NodeSignalSchemas
    @@ PhysicsSchemas @@ ParticleSchemas @@ NavigationSchemas @@ AudioSchemas
    @@ ProfilingSchemas @@ ProjectSchemas @@ WorkspaceSchemas @@ RefactorSchemas @@ BatchSchemas
    @@ ResourceSchemas @@ RuntimeSchemas @@ RuntimeStateSchemas @@ RuntimeProbeSchemas
    @@ Scene3dSchemas @@ SceneSchemas @@ SceneMakingSchemas @@ ScriptSchemas
    @@ ScriptQuerySchemas @@ ShaderSchemas @@ SearchSchemas @@ TestSchemas @@ ThemeSchemas
    @@ TilemapSchemas @@ VisualizerSchemas @@ HealingSchemas
=============================================================================
