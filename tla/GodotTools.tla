----------------------------- MODULE GodotTools -----------------------------
(***************************************************************************)
(* The tools as their handlers in the editor and in the game take them:    *)
(* for each field a handler reads, the values that reach the backend as    *)
(* they are.  _get_string_param() and its kin replace a value of another   *)
(* type, or none, by a default: nothing is refused.  _get_int_param()      *)
(* truncates a fraction.  _get_variant_param() hands on what it finds: the *)
(* values named are then those of the shape of the default, which the      *)
(* backend, outside this repository, is told to expect.                    *)
(***************************************************************************)
EXTENDS ToolSchemas

\* What a handler falls back from: a member of the enumeration it has no case for.
Known == AnyText \ {"other"}

HealingTools ==
    [healing_suggest_action |-> [report |-> Dictionary],
     healing_inspect_failure |-> [report |-> AnyText \cup Dictionary],
     healing_get_retry_count |-> [resource_path |-> AnyText],
     healing_reset_retry_count |-> [resource_path |-> AnyText],
     healing_apply_and_retest |-> [fix |-> Dictionary, test_command |-> AnyText]]

AnimationTools ==
    [animation_list |-> [player_path |-> AnyText],
     animation_play |-> [player_path |-> AnyText, name |-> AnyText, speed |-> AnyNumber],
     animation_stop |-> [player_path |-> AnyText],
     animation_add_track |-> [player_path |-> AnyText, animation_name |-> AnyText,
                              track_type |-> AnyText, path |-> AnyText],
     animation_insert_keyframe |-> [player_path |-> AnyText, animation_name |-> AnyText,
                                    track |-> WholeNumber, time |-> AnyNumber, value |-> Anything],
     animation_remove_track |-> [player_path |-> AnyText, animation_name |-> AnyText,
                                 track_index |-> WholeNumber]]

AnimationTreeTools ==
    [animation_tree_create |-> [scene_path |-> AnyText, parent_path |-> AnyText,
                                anim_player_path |-> AnyText],
     animation_tree_set_parameter |-> [tree_path |-> AnyText, parameter_path |-> AnyText,
                                       value |-> Anything],
     animation_tree_get_parameters |-> [tree_path |-> AnyText],
     animation_tree_set_active |-> [tree_path |-> AnyText, active |-> Flag]]

\* A noise the generator has no case for is Perlin noise, and a seed of zero a random one.
AssetGeneratorTools ==
    [assetgen_sprite_from_svg |-> [svg_source |-> AnyText, target_path |-> AnyText,
                                   size |-> WholeNumber],
     assetgen_atlas_pack |-> [source_paths |-> AnyList, target_path |-> AnyText,
                              max_size |-> WholeNumber],
     assetgen_noise_texture |-> [target_path |-> AnyText, width |-> WholeNumber,
                                 height |-> WholeNumber, noise_type |-> Known,
                                 seed |-> WholeNumber \ {"zero"}],
     assetgen_icon_set |-> [source_svg |-> AnyText, target_dir |-> AnyText, sizes |-> AnyList]]

AudioTools ==
    [audio_set_bus_volume_db |-> [bus_name |-> AnyText, db |-> AnyNumber],
     audio_add_bus_effect |-> [bus_name |-> AnyText, effect_type |-> AnyText,
                               params |-> Dictionary],
     audio_import_sound |-> [source_path |-> AnyText, target_path |-> AnyText,
                             import_flags |-> Dictionary]]

BatchTools ==
    [batch_execute |-> [ops |-> AnyList, transactional |-> Flag],
     batch_dry_run |-> [ops |-> AnyList]]

BlendTreeTools ==
    [blend_tree_configure_node |-> [tree_path |-> AnyText, node_id |-> AnyText, type |-> AnyText,
                                    params |-> Dictionary]]

EditorTools ==
    [editor_set_selection |-> [node_paths |-> AnyList],
     editor_focus_node |-> [node_path |-> AnyText],
     editor_get_output_log |-> [max_lines |-> WholeNumber],
     editor_get_undo_stack |-> [max |-> WholeNumber]]

InputTools ==
    [input_configure_action |-> [action |-> AnyText, events |-> AnyList, deadzone |-> AnyNumber],
     input_remove_action |-> [action |-> AnyText]]

\* configure_layers defaults to a list: one of {index, name}.
NavigationTools ==
    [navigation_bake_mesh |-> [nav_region_path |-> AnyText, quality |-> AnyText],
     navigation_add_agent |-> [scene_path |-> AnyText, parent_path |-> AnyText,
                               params |-> Dictionary],
     navigation_set_avoidance |-> [agent_path |-> AnyText, enabled |-> Flag, params |-> Dictionary],
     navigation_configure_layers |-> [layers |-> RecordList]]

NodeTools ==
    [node_add |-> [scene_path |-> AnyText, parent_path |-> AnyText, type |-> AnyText,
                   name |-> AnyText, properties |-> Dictionary],
     node_remove |-> [scene_path |-> AnyText, node_path |-> AnyText],
     node_set_property |-> [scene_path |-> AnyText, node_path |-> AnyText, property |-> AnyText,
                            value |-> Anything],
     node_get_property |-> [scene_path |-> AnyText, node_path |-> AnyText, property |-> AnyText],
     node_get_properties |-> [scene_path |-> AnyText, node_path |-> AnyText],
     node_rename |-> [scene_path |-> AnyText, node_path |-> AnyText, new_name |-> AnyText],
     node_reparent |-> [scene_path |-> AnyText, node_path |-> AnyText, new_parent_path |-> AnyText],
     node_duplicate |-> [scene_path |-> AnyText, node_path |-> AnyText, new_name |-> AnyText],
     node_find_by_type |-> [scene_path |-> AnyText, type |-> AnyText, root_path |-> AnyText],
     node_find_by_name |-> [scene_path |-> AnyText, pattern |-> AnyText, root_path |-> AnyText,
                            regex |-> Flag],
     node_get_signals |-> [scene_path |-> AnyText, node_path |-> AnyText],
     node_connect_signal |-> [scene_path |-> AnyText, source_path |-> AnyText,
                              signal_name |-> AnyText, target_path |-> AnyText, method |-> AnyText],
     node_disconnect_signal |-> [scene_path |-> AnyText, source_path |-> AnyText,
                                 signal_name |-> AnyText, target_path |-> AnyText,
                                 method |-> AnyText]]

ParticleTools ==
    [particle_create_gpu |-> [scene_path |-> AnyText, parent_path |-> AnyText,
                              transform |-> Anything],
     particle_create_cpu |-> [scene_path |-> AnyText, parent_path |-> AnyText,
                              transform |-> Anything],
     particle_set_emission_shape |-> [material_path |-> AnyText, shape |-> AnyText,
                                      params |-> Dictionary],
     particle_preview_in_editor |-> [node_path |-> AnyText, duration |-> WholeNumber],
     particle_convert_cpu_to_gpu |-> [node_path |-> AnyText]]

PhysicsTools ==
    [physics_set_gravity |-> [vector |-> Vector3],
     physics_configure_layer |-> [index |-> WholeNumber, name |-> AnyText, mask |-> WholeNumber]]

RefactorTools ==
    [refactor_rename_class |-> [old_name |-> AnyText, new_name |-> AnyText],
     refactor_rename_method |-> [class_name |-> AnyText, old |-> AnyText, new |-> AnyText],
     refactor_move_file |-> [from |-> AnyText, to |-> AnyText, update_refs |-> Flag],
     refactor_find_unused_assets |-> [root |-> AnyText],
     refactor_organize_imports |-> [path |-> AnyText]]

ResourceTools ==
    [resource_load |-> [path |-> AnyText],
     resource_save |-> [path |-> AnyText, fields |-> Dictionary],
     resource_inspect |-> [path |-> AnyText],
     resource_apply_fix |-> [path |-> AnyText, fix |-> Dictionary],
     resource_duplicate |-> [from |-> AnyText, to |-> AnyText, transform |-> Anything],
     resource_list_by_type |-> [class_name |-> AnyText, root |-> AnyText]]

Scene3dTools ==
    [scene3d_add_mesh_instance |-> [scene_path |-> AnyText, parent_path |-> AnyText,
                                    mesh_path |-> AnyText, transform |-> Anything],
     scene3d_add_light |-> [scene_path |-> AnyText, parent_path |-> AnyText, type |-> AnyText,
                            transform |-> Anything, params |-> Dictionary],
     scene3d_add_camera |-> [scene_path |-> AnyText, parent_path |-> AnyText,
                             transform |-> Anything, params |-> Dictionary],
     scene3d_set_environment |-> [scene_path |-> AnyText, env_path |-> AnyText],
     scene3d_bake_lightmap |-> [scene_path |-> AnyText, quality |-> AnyText],
     scene3d_import_gltf |-> [source_path |-> AnyText, target_path |-> AnyText]]

SceneTools ==
    [scene_open |-> [scene_path |-> AnyText],
     scene_save |-> [scene_path |-> AnyText],
     scene_save_as |-> [scene_path |-> AnyText, target_path |-> AnyText],
     scene_close |-> [scene_path |-> AnyText],
     scene_get_tree |-> [scene_path |-> AnyText, max_depth |-> WholeNumber],
     scene_instantiate |-> [scene_path |-> AnyText, parent_path |-> AnyText,
                            transform |-> Anything],
     scene_create |-> [scene_path |-> AnyText, root_type |-> AnyText, root_name |-> AnyText]]

ScriptTools ==
    [gdscript_validate |-> [source |-> AnyText],
     gdscript_save_with_validation |-> [path |-> AnyText, source |-> AnyText],
     script_load |-> [path |-> AnyText],
     script_create |-> [path |-> AnyText, source |-> AnyText],
     script_attach |-> [scene_path |-> AnyText, node_path |-> AnyText, script_path |-> AnyText],
     script_detach |-> [scene_path |-> AnyText, node_path |-> AnyText],
     script_list_classes |-> [path |-> AnyText],
     script_get_documentation |-> [class_name |-> AnyText]]

ShaderTools ==
    [shader_create |-> [path |-> AnyText, template |-> AnyText],
     shader_validate |-> [source |-> AnyText],
     shader_save_with_validation |-> [path |-> AnyText, source |-> AnyText],
     shader_set_uniform |-> [material_path |-> AnyText, uniform |-> AnyText, value |-> Anything],
     shader_list_uniforms |-> [material_path |-> AnyText],
     shader_convert_visual_to_text |-> [visual_shader_path |-> AnyText, target_path |-> AnyText]]

StateMachineTools ==
    [state_machine_list_states |-> [tree_path |-> AnyText, playback_param |-> AnyText]]

ThemeUiTools ==
    [theme_create |-> [path |-> AnyText],
     theme_set_default_font |-> [path |-> AnyText, font_path |-> AnyText, size |-> WholeNumber],
     theme_set_color |-> [path |-> AnyText, class_name |-> AnyText, color_name |-> AnyText,
                          value |-> Anything],
     theme_set_stylebox |-> [path |-> AnyText, class_name |-> AnyText, stylebox_name |-> AnyText,
                             stylebox_resource_path |-> AnyText],
     ui_build_control_tree |-> [scene_path |-> AnyText, spec |-> Dictionary],
     ui_apply_layout_preset |-> [node_path |-> AnyText, preset |-> AnyText]]

TilemapTools ==
    [tilemap_set_cell |-> [node_path |-> AnyText, layer |-> WholeNumber, coords |-> Vector2,
                           source_id |-> WholeNumber, atlas_coords |-> Vector2],
     tilemap_get_cell |-> [node_path |-> AnyText, layer |-> WholeNumber, coords |-> Vector2],
     tilemap_fill_rect |-> [node_path |-> AnyText, layer |-> WholeNumber, rect |-> {"four"},
                            source_id |-> WholeNumber, atlas_coords |-> Vector2],
     tilemap_clear_layer |-> [node_path |-> AnyText, layer |-> WholeNumber],
     tilemap_import_from_json |-> [node_path |-> AnyText, json_path |-> AnyText],
     tilemap_export_to_json |-> [node_path |-> AnyText, target_path |-> AnyText]]

\* The formats known are "json" and "svg"; of any other, the JSON document is returned.
VisualizerTools ==
    [visualizer_start |-> [port |-> Count],
     visualizer_render_scene_tree |-> [format |-> Known],
     visualizer_render_module_graph |-> [format |-> Known],
     visualizer_render_event_bus |-> [format |-> Known]]

TransactionTools ==
    [transaction_begin |-> [name |-> AnyText],
     transaction_commit |-> [transaction_id |-> AnyText],
     transaction_rollback |-> [transaction_id |-> AnyText]]

AudioRuntimeTools ==
    [audio_play_stream |-> [stream_path |-> AnyText, bus |-> AnyText, volume_db |-> AnyNumber],
     audio_stop_stream |-> [player_id |-> AnyText]]

DiagnosticTools ==
    [runtime_handshake |-> [client_id |-> AnyText, auth_token |-> AnyText],
     runtime_shutdown |-> [graceful |-> Flag]]

EvalTools ==
    [runtime_eval_safe |-> [expr |-> AnyText]]

EventTools ==
    [runtime_emit_event |-> [signal_name |-> AnyText, payload |-> Dictionary],
     runtime_get_logs |-> [max_lines |-> WholeNumber, level |-> AnyText]]

InfoTools ==
    [runtime_screenshot |-> [target_path |-> AnyText],
     runtime_get_autoload |-> [name |-> AnyText]]

GameInputTools ==
    [input_simulate_action |-> [action |-> AnyText, strength |-> AnyNumber, pressed |-> Flag],
     input_simulate_key |-> [keycode |-> WholeNumber, pressed |-> Flag, echo |-> Flag],
     input_simulate_mouse_button |-> [button |-> WholeNumber, pressed |-> Flag,
                                      position |-> Vector2],
     input_simulate_mouse_motion |-> [position |-> Vector2, relative |-> Vector2]]

NavigationRuntimeTools ==
    [navigation_find_path |-> [from |-> Vector3, to |-> Vector3, optimize |-> Flag],
     navigation_debug_draw |-> [enabled |-> Flag]]

GameNodeTools ==
    [node_call_method |-> [node_path |-> AnyText, method |-> AnyText, args |-> AnyList]]

PhysicsRuntimeTools ==
    [physics_raycast |-> [from |-> Vector3, to |-> Vector3, collision_mask |-> WholeNumber,
                          exclude |-> AnyList],
     physics_shape_cast |-> [shape |-> Dictionary, from |-> Vector3, motion |-> Vector3,
                             collision_mask |-> WholeNumber],
     physics_query_point |-> [position |-> Vector3, collision_mask |-> WholeNumber]]

ProfilingTools ==
    [profiling_get_performance_monitors |-> [monitors |-> AnyList],
     profiling_get_frame_stats |-> [window_frames |-> Count]]

SceneControlTools ==
    [runtime_get_scene_tree |-> [max_depth |-> WholeNumber],
     runtime_change_scene |-> [scene_path |-> AnyText]]

GameSceneTools ==
    [scene_get_tree_snapshot |-> [max_depth |-> WholeNumber]]

StateMachineRuntimeTools ==
    [state_machine_travel |-> [tree_path |-> AnyText, playback_param |-> AnyText,
                               state_name |-> AnyText],
     state_machine_get_current |-> [tree_path |-> AnyText, playback_param |-> AnyText]]

TimeTools ==
    [runtime_set_time_scale |-> [scale |-> AnyNumber]]

GodotHandlers ==
  HealingTools @@ AnimationTools @@ AnimationTreeTools @@ AssetGeneratorTools @@ AudioTools
    @@ BatchTools @@ BlendTreeTools @@ EditorTools @@ InputTools @@ NavigationTools @@ NodeTools
    @@ ParticleTools @@ PhysicsTools @@ RefactorTools @@ ResourceTools @@ Scene3dTools
    @@ SceneTools @@ ScriptTools @@ ShaderTools @@ StateMachineTools @@ ThemeUiTools
    @@ TilemapTools @@ VisualizerTools @@ TransactionTools @@ AudioRuntimeTools
    @@ DiagnosticTools @@ EvalTools @@ EventTools @@ InfoTools @@ GameInputTools
    @@ NavigationRuntimeTools @@ GameNodeTools @@ PhysicsRuntimeTools @@ ProfilingTools
    @@ SceneControlTools @@ GameSceneTools @@ StateMachineRuntimeTools @@ TimeTools
=============================================================================
