--------------------------- MODULE ToolArguments ---------------------------
(***************************************************************************)
(* What becomes of the arguments of a tools/call: Ajv holds them against   *)
(* the schema of the tool, the router passes them on as they are, and the  *)
(* function or the Godot handler that implements the tool reads its        *)
(* fields.  Schemas and implementations are written by hand in three       *)
(* places; the cast of every tool is checked, one field at a time.         *)
(***************************************************************************)
EXTENDS ToolFunctions, GodotTools

VARIABLES
  tool, impl,   \* the tool called, and whether a function or a Godot handler implements it
  args,         \* its arguments: a value for each field that anybody knows
  connected,    \* whether the function was given a dispatcher
  outcome,      \* what became of the call
  received      \* the value the implementation works with, for each field it reads

argumentVars == <<tool, impl, args, connected, outcome, received>>

Handlers == [node |-> Functions, godot |-> GodotHandlers]
Implemented(i) == DOMAIN Schemas \cap DOMAIN Handlers[i]
Read(t, i)   == Handlers[i][t]
Fields(t, i) == DOMAIN Schemas[t] \cup DOMAIN Read(t, i)

\* Fields that only the implementation knows are offered as well: no schema allows them.
Offered(t, f) == IF f \in DOMAIN Schemas[t] THEN Schemas[t][f] \cup {"absent", "null", "dict", "empty"}
                 ELSE {"absent", "text"}
Typical(t, f) == IF "absent" \in Offered(t, f) /\ (f \in DOMAIN Schemas[t] => "absent" \in Schemas[t][f])
                 THEN "absent" ELSE CHOOSE v \in Schemas[t][f] : v \notin {"empty", "blank"}

Outcomes == {"asked", "valid", "invalid", "refused", "unconnected", "ran"}

ArgumentTypeOK ==
  /\ impl \in DOMAIN Handlers /\ tool \in Implemented(impl)
  /\ DOMAIN args = Fields(tool, impl) /\ connected \in BOOLEAN
  /\ outcome \in Outcomes
  /\ outcome = "ran" => DOMAIN received = DOMAIN Read(tool, impl)

\* bound: at most one field of a call is other than usual
ArgumentInit ==
  /\ impl \in DOMAIN Handlers
  /\ tool \in Implemented(impl)
  /\ connected \in {TRUE, impl = "godot" \/ tool \notin DOMAIN Forwarding}
  /\ \E f \in Fields(tool, impl) \cup {"none"} :
       \E v \in IF f = "none" THEN {"absent"} ELSE Offered(tool, f) :
         args = [g \in Fields(tool, impl) |-> IF g = f THEN v ELSE Typical(tool, g)]
  /\ outcome = "asked" /\ received = [f \in {} |-> "absent"]

\* The validator of a tool: the fields of the schema, each with a value it accepts, and no other.
Accepted(t, a) ==
  \A f \in DOMAIN a : IF f \in DOMAIN Schemas[t] THEN a[f] \in Schemas[t][f] ELSE a[f] = "absent"

Validate ==
  /\ outcome = "asked"
  /\ outcome' = IF Accepted(tool, args) THEN "valid" ELSE "invalid"
  /\ UNCHANGED <<tool, impl, args, connected, received>>

\* A field is given when the arguments have it, and null counts as none where it is read with `??`.
Given(f) == args[f] # "absent"
Takes(t, i, f, v) == v \in Read(t, i)[f]
Works == [f \in DOMAIN Read(tool, impl) |->
            IF Given(f) /\ Takes(tool, impl, f, args[f]) THEN args[f] ELSE "default"]

\* crafting.validate_recipe: one of the two.
OneOf == tool = "crafting_validate_recipe" => Given("id") \/ Given("fields")

HandleByFunction ==
  /\ outcome = "valid" /\ impl = "node"
  /\ IF ~connected THEN outcome' = "unconnected" /\ UNCHANGED received
     ELSE IF OneOf /\ \A f \in DOMAIN Read(tool, impl) : Takes(tool, impl, f, args[f])
     THEN outcome' = "ran" /\ received' = Works
     ELSE outcome' = "refused" /\ UNCHANGED received
  /\ UNCHANGED <<tool, impl, args, connected>>

\* visualizer.start: a server that listens already keeps its port.
Ignores == IF tool = "visualizer_start" THEN {[f \in DOMAIN Read(tool, impl) |-> "default"]} ELSE {}

HandleInGodot ==
  /\ outcome = "valid" /\ impl = "godot"
  /\ outcome' = "ran" /\ received' \in {Works} \cup Ignores
  /\ UNCHANGED <<tool, impl, args, connected>>

ArgumentsNext == Validate \/ HandleByFunction \/ HandleInGodot

-----------------------------------------------------------------------------
\* The fields that a client may give and that do not reach the implementation, or not with every
\* value: it knows them by another name, not at all, or has no use for some value.
Astray ==
  [godot |->
     [animation_tree_set_parameter |-> {"param"}, assetgen_sprite_from_svg |-> {"size"},
      assetgen_noise_texture |-> {"noise_type", "seed"},
      healing_inspect_failure |-> {"report_id", "failure_message"},
      navigation_set_avoidance |-> {"node_path", "radius"},
      navigation_configure_layers |-> {"layers"},
      node_get_properties |-> {"filter"}, node_duplicate |-> {"flags"},
      node_find_by_type |-> {"root"}, node_find_by_name |-> {"name", "root"},
      node_connect_signal |-> {"from_path", "signal", "to_path", "flags"},
      node_disconnect_signal |-> {"from_path", "signal", "to_path"},
      particle_create_gpu |-> {"name", "material_path"}, particle_create_cpu |-> {"name"},
      particle_preview_in_editor |-> {"duration"}, runtime_screenshot |-> {"format"},
      scene3d_add_camera |-> {"current"}, script_create |-> {"base_class", "template"},
      script_list_classes |-> {"filter"}, theme_set_color |-> {"control_type"},
      theme_set_stylebox |-> {"control_type", "stylebox_path"},
      tilemap_fill_rect |-> {"rect"}, transaction_begin |-> {"timeout_ms", "label"},
      visualizer_start |-> {"port"}, visualizer_render_scene_tree |-> {"scene_path", "format"},
      visualizer_render_module_graph |-> {"format"}, visualizer_render_event_bus |-> {"format"}],
   node |->
     [inventory_add_item |-> {"owner"}, inventory_remove_item |-> {"owner"},
      inventory_get_count |-> {"owner"}, inventory_snapshot |-> {"owner"},
      android_run_logcat |-> {"duration_ms"}, project_reload |-> {"projectRoot"}]]

AstrayOf(t, i) == IF t \in DOMAIN Astray[i] THEN Astray[i][t] ELSE {}

\* The tools that read a field no client can give, although none of the client's goes astray.
Wanting == {"node_get_property", "node_get_signals", "export_validate_preset"}

\* The tools that cannot be called: they need fields which the schema does not allow.
Uncallable ==
  {"modules_inspect_manifest", "modules_enable", "modules_disable", "modules_check_compatibility",
   "modules_activate_license", "project_add"}

\* The fields of which a function refuses values, other than blank ones, that the schema accepts.
Strict ==
  [input_simulate_key |-> {"keycode"}, input_simulate_mouse_button |-> {"button"},
   profiling_get_performance_monitors |-> {"monitors"}, tests_run_gameplay |-> {"steps"},
   project_get_settings |-> {"section"}, search_references |-> {"symbol"},
   search_code |-> {"include", "exclude"}]

\* Why a call with acceptable arguments is refused.
Refusable ==
  \/ tool \in Uncallable
  \/ \E f \in DOMAIN args : args[f] \in {"empty", "blank"}
  \/ tool \in DOMAIN Strict /\ \E f \in Strict[tool] : Given(f)
  \/ tool = "crafting_validate_recipe" /\ ~Given("id") /\ ~Given("fields")

\* A call whose arguments the schema of the tool accepts is refused for one of the reasons known, and
\* when it runs, whatever the client gave is what the tool works with, outside of the fields known to
\* go astray: no field is lost under another name, none read that a client cannot give, none replaced
\* by a default.  A tool that cannot be called never runs.
ArgumentsArrive ==
  /\ outcome = "refused" => Refusable
  /\ outcome = "ran" =>
       /\ tool \notin Uncallable
       /\ \/ DOMAIN Read(tool, impl) \subseteq DOMAIN Schemas[tool]
          \/ AstrayOf(tool, impl) # {} \/ tool \in Wanting
       /\ \A f \in DOMAIN args \ AstrayOf(tool, impl) :
            Given(f) => f \in DOMAIN received /\ received[f] = args[f]
=============================================================================
