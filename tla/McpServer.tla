------------------------------ MODULE McpServer ------------------------------
(***************************************************************************)
(* The MCP server and its two fronts, the tool handlers of the SDK and the *)
(* stdio bridge, each over the dispatcher with its channels.               *)
(*                                                                         *)
(* A behaviour has one front: a process is started with one of them.       *)
(***************************************************************************)
EXTENDS StdioBridge, ToolRequests

CONSTANT Catalogs           \* contents of profiles.json: valid or not

VARIABLE front

vars == <<front, dispatchVars, licenseVars, requestVars, bridgeVars>>

ServerTypeOK ==
  /\ front \in {"sdk", "bridge"}
  /\ DispatchTypeOK /\ LicenseTypeOK /\ RequestTypeOK /\ BridgeTypeOK

\* A server that has read its profiles: a wrong file ends the process (LoadDefaultProfiles).
LoadedCatalogs == {loadProfiles(raw).tools : raw \in {c \in Catalogs : loadProfiles(c).ok}}

\* The bridge knows nothing of profiles and licenses.
Init ==
  /\ front \in {"sdk", "bridge"}
  /\ DispatchInit(LoadedCatalogs) /\ BridgeInit
  /\ LicenseInit /\ RequestInit
  /\ front = "bridge" =>
       profile = "Full" /\ ~live /\ keys = [f \in KeyFiles |-> [stamp |-> 0, good |-> FALSE]]

SdkNext   == front = "sdk" /\ RequestNext /\ UNCHANGED <<front, bridgeVars>>
StdioNext == front = "bridge" /\ BridgeNext /\ UNCHANGED <<front, licenseVars, requestVars>>
Next == SdkNext \/ StdioNext

\* Timers fire and promises settle, but no tool need ever end and no client ever write: what is
\* fair is the router's timer, the reading of the licenses and the loop of the bridge.
Fairness ==
  /\ \A c \in Calls : WF_dispatchVars(RouterTimeout(c))
  /\ WF_licenseVars(front = "sdk" /\ LicenseStep)
  /\ WF_<<dispatchVars, bridgeVars>>(front = "bridge" /\ BridgeStep)

Spec == Init /\ [][Next]_vars /\ Fairness

-----------------------------------------------------------------------------
\* Whoever asks is answered, at either front, although a tool may never end: no call of a
\* tool and no frame is left without an answer for good.
EverybodyAnswered == CallsAnswered /\ FramesAnswered
=============================================================================
