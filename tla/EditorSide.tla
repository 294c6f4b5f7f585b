----------------------------- MODULE EditorSide -----------------------------
(***************************************************************************)
(* Three objects of the editor plugin, each called by one thread:          *)
(* McpHeartbeatMonitor, which declares a link lost;                        *)
(* McpEditorChannelBackend, which edits scenes as text and undoes; and     *)
(* McpUndoRedoWrapper with McpTransactionManager, which perform changes of *)
(* properties at once or queue them in a transaction.                      *)
(*                                                                         *)
(* A text is the value of each property, EmptyText when the file could not *)
(* be read.  Godot's own undo history is the stack of the actions committed;  *)
(* the user undoes, and redoes nothing.                                    *)
(***************************************************************************)
EXTENDS Integers, Sequences, SequencesExt, FiniteSets

CONSTANTS
  PING_INTERVAL,  \* ping_interval_ms
  MAX_MISSED,     \* max_missed_pings
  MaxPings,       \* bound: pings
  Scenes, Props, SetTo, \* scenes, properties and their values
  TxIds,
  MaxEditorSteps  \* bound: edits of scenes, and changes of properties

NoScene   == "no scene"
NoTx      == "no transaction"

ASSUME EditorAssumption ==
  /\ PING_INTERVAL \in Nat \ {0} /\ MAX_MISSED \in Nat \ {0} /\ MaxPings \in Nat /\ MaxEditorSteps \in Nat
  /\ SetTo # {} /\ NoScene \notin Scenes /\ NoTx \notin TxIds

VARIABLES
  monitor,        \* [running, elapsed, next, pending, misses, drops]
  pongs,          \* the pongs on their way
  timely,         \* history: pings whose pong came while they were outstanding
  disk,           \* the text of each scene on disk
  scenes,         \* of each scene: NotOpened, or [text, stack]
  currentScene,
  edits,          \* history: of each scene, what it was opened with and its edits that stand
  world,          \* the properties that transactions change
  wired,          \* whether there is an EditorUndoRedoManager
  queued,         \* of each transaction: its state and its operations
  history,        \* the actions of the EditorUndoRedoManager
  outdated,       \* history: of each transaction, its properties that others have changed meanwhile
  editorSteps

linkVars   == <<monitor, pongs, timely>>
sceneVars  == <<disk, scenes, currentScene, edits>>
batchVars  == <<world, wired, queued, history, outdated>>
editorVars == <<linkVars, sceneVars, batchVars, editorSteps>>

NotOpened == [opened |-> FALSE, text |-> <<>>, stack |-> <<>>]
Tx(state, ops) == [state |-> state, ops |-> ops]
EmptyText == [p \in {} |-> 0]

EditorTypeOK ==
  /\ monitor.misses \in 0 .. MaxPings /\ monitor.pending \in 0 .. MaxPings
  /\ monitor.elapsed \in Nat /\ pongs \subseteq 1 .. MaxPings /\ timely \subseteq 1 .. MaxPings
  /\ disk \in [Scenes -> [Props -> SetTo] \cup {EmptyText}]
  /\ currentScene \in Scenes \cup {NoScene}
  /\ world \in [Props -> SetTo]
  /\ editorSteps \in 0 .. MaxEditorSteps

EditorInit ==
  /\ monitor = [running |-> FALSE, elapsed |-> 0, next |-> 1, pending |-> 0, misses |-> 0, drops |-> 0]
  /\ pongs = {} /\ timely = {}
  /\ disk = [s \in Scenes |-> [p \in Props |-> CHOOSE v \in SetTo : TRUE]]
  /\ scenes = [s \in Scenes |-> NotOpened]
  /\ currentScene = NoScene
  /\ edits = [s \in Scenes |-> [base |-> EmptyText, made |-> <<>>]]
  /\ world = [p \in Props |-> CHOOSE v \in SetTo : TRUE]
  /\ wired \in BOOLEAN
  /\ queued = [t \in TxIds |-> Tx("new", <<>>)]
  /\ history = <<>>
  /\ outdated = [t \in TxIds |-> {}]
  /\ editorSteps = 0

-----------------------------------------------------------------------------
\* _send_next_ping(): an outstanding ping counts as missed; too many, and the monitor reports
\* and stops.
sendNextPing(m) ==
  LET missed == IF m.pending = 0 THEN m.misses ELSE m.misses + 1
      lost   == missed >= MAX_MISSED
  IN  [m EXCEPT !.misses = missed, !.pending = m.next, !.next = @ + 1,
                !.drops = IF lost THEN @ + 1 ELSE @, !.running = @ /\ ~lost]

\* Pings that are sent may be answered later.
Sends(m) ==
  /\ m.next <= MaxPings + 1
  /\ monitor' = m
  /\ pongs' = pongs \cup (monitor.next .. m.next - 1)
  /\ UNCHANGED timely

\* start(): a ping at once, on top of what is outstanding from before.
StartMonitor ==
  /\ ~monitor.running
  /\ Sends(sendNextPing([monitor EXCEPT !.running = TRUE, !.elapsed = 0]))

StopMonitor ==
  /\ monitor.running
  /\ monitor' = [monitor EXCEPT !.running = FALSE]
  /\ UNCHANGED <<pongs, timely>>

\* tick(): after a long frame several pings are due, and they are sent together, until one of
\* them finds the link lost.
duePing(m, i) == IF m.running THEN sendNextPing([m EXCEPT !.elapsed = @ - PING_INTERVAL]) ELSE m

TickMonitor(delta) ==
  /\ monitor.running
  /\ LET now == [monitor EXCEPT !.elapsed = @ + delta]
     IN  Sends(FoldLeft(duePing, now, [i \in 1 .. now.elapsed \div PING_INTERVAL |-> i]))

\* on_pong_received(): counts for the outstanding ping only, running or not.
Pong(id) ==
  /\ id \in pongs
  /\ pongs' = pongs \ {id}
  /\ IF id = monitor.pending
     THEN /\ monitor' = [monitor EXCEPT !.pending = 0, !.misses = 0]
          /\ timely' = timely \cup {id}
     ELSE UNCHANGED <<monitor, timely>>

LinkNext ==
  /\ \/ StartMonitor \/ StopMonitor
     \/ \E delta \in {1, 3 * PING_INTERVAL} : TickMonitor(delta)
     \/ \E id \in 1 .. MaxPings : Pong(id)
  /\ UNCHANGED <<sceneVars, batchVars, editorSteps>>

-----------------------------------------------------------------------------
EditorStep == editorSteps < MaxEditorSteps /\ editorSteps' = editorSteps + 1

\* scene_open(): the text comes from the disk, whatever was there before.  An empty file is no
\* scene, and one that the engine loads may still not be readable as text.
SceneOpen_KeepsStack(s) ==
  /\ disk[s] # EmptyText
  /\ scenes' = [scenes EXCEPT ![s] = [opened |-> TRUE, text |-> disk[s], stack |-> scenes[s].stack]]
  /\ edits' = [edits EXCEPT ![s] = [base |-> disk[s], made |-> <<>>]]
  /\ currentScene' = s
  /\ UNCHANGED disk

SceneOpen(s) ==
  /\ disk[s] # EmptyText
  /\ \E text \in {disk[s], EmptyText} :
       /\ scenes' = [scenes EXCEPT ![s] = [opened |-> TRUE, text |-> text, stack |-> <<>>]]
       /\ edits' = [edits EXCEPT ![s] = [base |-> text, made |-> <<>>]]
  /\ currentScene' = s
  /\ UNCHANGED disk

\* Calls that leave out the path mean the scene opened last; a scene that is not open is refused.
resolved(path) == IF path = NoScene THEN currentScene ELSE path
IsOpen(s) == s # NoScene /\ scenes[s].opened

\* scene_save() writes the file in place.
SceneSave(path) ==
  LET s == resolved(path) IN
  /\ IsOpen(s)
  /\ disk' = [disk EXCEPT ![s] = scenes[s].text]
  /\ UNCHANGED <<scenes, currentScene, edits>>

\* _replace_or_append_property(): a text without the node stays as it is.
replaced(text, p, v) == IF p \in DOMAIN text THEN [text EXCEPT ![p] = v] ELSE text

\* node_set_property(): the snapshot is pushed even if the text stays the same.
NodeSetProperty(path, p, v) ==
  LET s == resolved(path) IN
  /\ IsOpen(s)
  /\ scenes' = [scenes EXCEPT ![s].stack = Append(@, scenes[s].text),
                              ![s].text = replaced(@, p, v)]
  /\ edits' = [edits EXCEPT ![s].made = Append(@, [prop |-> p, value |-> v])]
  /\ UNCHANGED <<disk, currentScene>>

\* editor_undo(): of the scene opened last.
EditorUndo ==
  LET s == currentScene IN
  /\ IsOpen(s) /\ scenes[s].stack # <<>>
  /\ scenes' = [scenes EXCEPT ![s].text = Last(scenes[s].stack), ![s].stack = Front(@)]
  /\ edits' = [edits EXCEPT ![s].made = Front(@)]
  /\ UNCHANGED <<disk, currentScene>>

ScenesNext ==
  /\ EditorStep
  /\ \/ \E s \in Scenes : SceneOpen(s)
     \/ \E path \in Scenes \cup {NoScene} :
          SceneSave(path) \/ \E p \in Props \cup {"nowhere"}, v \in SetTo : NodeSetProperty(path, p, v)
     \/ EditorUndo
  /\ UNCHANGED <<linkVars, batchVars>>

-----------------------------------------------------------------------------
\* Properties of an operation list, and what performing or undoing it makes of the world.
PropsOf(ops)     == {ops[i].prop : i \in DOMAIN ops}
doOne(w, o)       == [w EXCEPT ![o.prop] = o.new]
undoOne(w, o)     == [w EXCEPT ![o.prop] = o.old]
performed(w, ops) == FoldLeft(doOne, w, ops)
undone(w, ops)    == FoldLeft(undoOne, w, ops)

\* The world becomes w, by the doing of transaction t or of nobody's.
Becomes(w, t) ==
  /\ world' = w
  /\ outdated' = [u \in TxIds |-> IF u = t THEN outdated[u]
                                  ELSE outdated[u] \cup {p \in PropsOf(queued[u].ops) : w[p] # world[p]}]

\* One action of the EditorUndoRedoManager.  Without it nothing is performed: a warning.
CommitAction(ops, t) ==
  IF wired
  THEN /\ Becomes(performed(world, ops), t)
       /\ history' = Append(history, [ops |-> ops, before |-> world,
                                      outdated |-> IF t = NoTx THEN {} ELSE outdated[t]])
  ELSE UNCHANGED <<world, outdated, history>>

\* wrap_property(): queued if the transaction is open; otherwise, and with an id that is not open
\* any more, performed at once.
WrapProperty(p, v, t) ==
  LET op == [prop |-> p, new |-> v, old |-> world[p]] IN
  /\ UNCHANGED wired
  /\ IF t # NoTx /\ queued[t].state = "open"
     THEN queued' = [queued EXCEPT ![t].ops = Append(@, op)] /\ UNCHANGED <<world, outdated, history>>
     ELSE CommitAction(<<op>>, NoTx) /\ UNCHANGED queued

BeginTx(t) ==
  /\ queued[t].state = "new"
  /\ queued' = [queued EXCEPT ![t] = Tx("open", <<>>)]
  /\ UNCHANGED <<world, wired, history, outdated>>

CommitTx(t) ==
  /\ queued[t].state = "open"
  /\ CommitAction(queued[t].ops, t)
  /\ queued' = [queued EXCEPT ![t] = Tx("closed", <<>>)]
  /\ UNCHANGED wired

\* rollback(): the undo of each operation, last first, although none has been performed.
RollbackTx(t) ==
  /\ queued[t].state = "open"
  /\ Becomes(undone(world, Reverse(queued[t].ops)), t)
  /\ queued' = [queued EXCEPT ![t] = Tx("closed", <<>>)]
  /\ UNCHANGED <<wired, history>>

\* Ctrl+Z
UserUndoes ==
  /\ history # <<>>
  /\ Becomes(undone(world, Last(history).ops), NoTx)
  /\ history' = Front(history)
  /\ UNCHANGED <<wired, queued>>

BatchNext ==
  /\ EditorStep
  /\ \/ \E p \in Props, v \in SetTo, t \in TxIds \cup {NoTx} : WrapProperty(p, v, t)
     \/ \E t \in TxIds : BeginTx(t) \/ CommitTx(t) \/ RollbackTx(t)
     \/ UserUndoes
  /\ UNCHANGED <<linkVars, sceneVars>>

-----------------------------------------------------------------------------
\* The monitor counts the pings in a row whose pong did not come in time, however late pongs, long
\* frames and restarts fall, and it runs only while there are fewer than max_missed_pings.
\* (Restarts do not begin a new row: after a loss, start() reports the next one at once.)
MissesCounted ==
  /\ monitor.misses =
       Cardinality({k \in 1 .. monitor.next - 2 : timely \cap (k .. monitor.next - 1) = {}})
  /\ monitor.running => monitor.misses < MAX_MISSED

\* What a scene's text is: what it was when it was opened last, with the edits since then that no
\* undo took back, in their order, whatever other scenes were edited and undone in between.
edited(text, e) == replaced(text, e.prop, e.value)
TextIsItsEdits ==
  \A s \in Scenes : scenes[s].opened =>
    /\ scenes[s].text = FoldLeft(edited, edits[s].base, edits[s].made)
    /\ Len(scenes[s].stack) = Len(edits[s].made)

\* A rollback changes only what others have changed since the transaction's operations were queued
\* (those changes it overwrites), and a single undo takes back all that an action changed, except
\* where others had changed it between queueing and commit.
TakesBackItsOwn ==
  /\ \A t \in TxIds : (queued[t].state = "open" /\ queued'[t].state = "closed" /\ history' = history) =>
       \A p \in Props : world'[p] # world[p] => p \in outdated[t]
  /\ Len(history') < Len(history) =>
       \A p \in PropsOf(Last(history).ops) \ Last(history).outdated :
         world'[p] = Last(history).before[p]
BatchesUndone == [][TakesBackItsOwn]_batchVars

\* The editor's own books: pings missed, edits that stand, and operations to take back.
EditorKeepsBooks == [](MissesCounted /\ TextIsItsEdits) /\ BatchesUndone
=============================================================================
