------------------------------ MODULE Discovery ------------------------------
(***************************************************************************)
(* The discovery service (discovery/registry.go, watcher.go, handler.go):  *)
(* a registry of tools, resources and prompts, the watcher that scans a    *)
(* directory of plugin manifests into it, the loader of the tools'         *)
(* handlers and a listener for registration events.                        *)
(*                                                                         *)
(* A scan holds the watcher's mutex, but the registry's only for one item  *)
(* at a time: files change, the application registers and unregisters      *)
(* items, and requests discover, between any two of its steps.  The loader *)
(* belongs to the watcher.  The first scan runs in Start, later ones in    *)
(* the loop; the application calls Stop after Start has returned.          *)
(***************************************************************************)
EXTENDS Integers, FiniteSets, Sequences, SequencesExt

CONSTANTS Plugins,            \* directories of plugins
          Manifests,          \* what a manifest may list: tools, resources, prompts, in order
          QueueSize,          \* capacity of a listener's channel
          MaxChanges, MaxCalls \* bounds: changes of files, calls by the application

VARIABLES disk,               \* each plugin's manifest file
          phase,              \* of the watcher
          scan,               \* the scan under way
          known,              \* w.plugins: the manifests registered, by plugin
          registry,           \* a map from items to entries
          loaded,             \* tools that have a handler in the loader
          listener,           \* the listener's channel and what it has made of it
          history             \* what happened so far that the properties depend on

vars == <<disk, phase, scan, known, registry, loaded, listener, history>>

Items == UNION {Range(m) : m \in Manifests}     \* an item is <<category, name>>
IsTool(i) == i[1] = "tool"
Absent == <<<<"no", "file">>>>
Broken == <<<<"no", "manifest">>>>              \* a file that cannot be read or parsed
App == "app"
NoScan == [pc |-> "none", todo |-> {}, seen |-> {}, plugin |-> App, ops |-> <<>>, next |-> Absent]

\* clean: no registration failed and no one else touched a plugin's item;
\* still: the files are as they were when the last scan began.
TypeOK ==
    /\ disk \in [Plugins -> Manifests \cup {Absent, Broken}]
    /\ phase \in {"off", "starting", "running", "stopping"}
    /\ scan.pc \in {"none", "manifests", "items", "sweep"}
    /\ scan.todo \subseteq Plugins /\ scan.seen \subseteq Plugins
    /\ DOMAIN known \subseteq Plugins /\ Range(known) \subseteq Manifests
    /\ DOMAIN registry \subseteq Items
    /\ \A i \in DOMAIN registry : /\ registry[i].source \in Plugins \cup {App}
                                  /\ registry[i].handler \in BOOLEAN
                                  /\ registry[i].available \in BOOLEAN
    /\ loaded \subseteq {i \in Items : IsTool(i)}
    /\ Len(listener.queue) <= QueueSize
    /\ history.changes <= MaxChanges /\ history.calls <= MaxCalls

Init ==
    /\ disk = [p \in Plugins |-> Absent] /\ phase = "off" /\ scan = NoScan
    /\ known = <<>> /\ registry = <<>> /\ loaded = {}
    /\ listener = [pc |-> "none", queue |-> <<>>, view |-> {}, missed |-> FALSE]
    /\ history = [clean |-> TRUE, still |-> TRUE, stopped |-> FALSE, changes |-> 0, calls |-> 0]

----------------------------------------------------------------------------
(* Registry: one operation under the registry's mutex.                     *)

Has(i) == i \in DOMAIN registry

\* An event for which a listener's channel has no room is lost to it.
NotifyListeners(type, i) ==
    listener' = IF listener.pc = "none" THEN listener
                ELSE IF Len(listener.queue) < QueueSize
                       THEN [listener EXCEPT !.queue = Append(@, <<type, i>>)]
                       ELSE [listener EXCEPT !.missed = TRUE]

Register(i, source, handler) ==
    /\ ~Has(i)
    /\ registry' = [j \in DOMAIN registry \cup {i} |->
                      IF j = i THEN [source |-> source, handler |-> handler, available |-> TRUE]
                      ELSE registry[j]]
    /\ NotifyListeners("register", i)

Unregister(i) ==
    /\ Has(i)
    /\ registry' = [j \in DOMAIN registry \ {i} |-> registry[j]]
    /\ NotifyListeners("unregister", i)

UpdateAvailability(i, available) ==
    /\ Has(i) /\ registry' = [registry EXCEPT ![i].available = available]
    /\ UNCHANGED listener

\* What Discover lists for a filter on availability and source.
Discover(available, sources) ==
    {i \in DOMAIN registry : registry[i].available \in available /\ registry[i].source \in sources}

\* A tool GetToolHandler has a handler for.
GetToolHandler(i) == Has(i) /\ IsTool(i) /\ registry[i].handler

----------------------------------------------------------------------------
(* The watcher.                                                            *)

RegisterOps(m) == [n \in DOMAIN m |-> <<"register", m[n]>>]
UnregisterOps(m) == [n \in DOMAIN m |-> <<IF IsTool(m[n]) THEN "unload" ELSE "unregister", m[n]>>]

WithoutPlugin(p) == [q \in DOMAIN known \ {p} |-> known[q]]
WithPlugin(p, m) == [q \in DOMAIN known \cup {p} |-> IF q = p THEN m ELSE known[q]]

BeginScan ==
    LET present == {p \in Plugins : disk[p] # Absent}
    IN /\ scan.pc = "none"
       /\ scan' = [NoScan EXCEPT !.pc = "manifests", !.todo = present, !.seen = present]
       /\ history' = [history EXCEPT !.still = TRUE]
       /\ UNCHANGED <<disk, known, registry, loaded, listener>>

Start == phase = "off" /\ phase' = "starting" /\ BeginScan

Tick == phase \in {"running", "stopping"} /\ UNCHANGED phase /\ BeginScan

\* A file gone since the directory was listed, or not readable, is passed
\* over: what is known of the plugin stays.
NextManifest(p) ==
    /\ scan.pc = "manifests" /\ p \in scan.todo
    /\ LET m == disk[p]
           step(ops) == [scan EXCEPT !.pc = "items", !.todo = @ \ {p}, !.plugin = p,
                                     !.ops = ops, !.next = m]
       IN scan' = IF m \in {Absent, Broken} \/ (p \in DOMAIN known /\ known[p] = m)
                    THEN [scan EXCEPT !.todo = @ \ {p}]
                  ELSE IF p \in DOMAIN known
                    THEN step(UnregisterOps(known[p]) \o RegisterOps(m))
                  ELSE step(RegisterOps(m))
    /\ UNCHANGED <<disk, phase, known, registry, loaded, listener, history>>

\* Loading a tool's handler fails when one of that name is loaded, or for the
\* file's or the command's sake; the tool is then registered without one.
LoadHandlerFromManifest(i, ok) ==
    /\ ok => IsTool(i) /\ i \notin loaded
    /\ loaded' = IF ok THEN loaded \cup {i} ELSE loaded

\* A failed registration abandons the manifest where it stands.
RegisterItem ==
    /\ scan.pc = "items" /\ scan.ops # <<>> /\ Head(scan.ops)[1] = "register"
    /\ LET i == Head(scan.ops)[2]
       IN \E ok \in BOOLEAN :
            /\ LoadHandlerFromManifest(i, ok)
            /\ \/ /\ Register(i, scan.plugin, ok)
                  /\ scan' = [scan EXCEPT !.ops = Tail(@)] /\ UNCHANGED history
               \/ /\ Has(i)
                  /\ scan' = [scan EXCEPT !.pc = "manifests", !.ops = <<>>]
                  /\ history' = [history EXCEPT !.clean = FALSE]
                  /\ UNCHANGED <<registry, listener>>
    /\ UNCHANGED <<disk, phase, known>>

\* Unloading fails when there is nothing loaded; that is only logged, and the
\* tool is unregistered next.
UnloadHandler ==
    /\ scan.pc = "items" /\ scan.ops # <<>> /\ Head(scan.ops)[1] = "unload"
    /\ loaded' = loaded \ {Head(scan.ops)[2]}
    /\ scan' = [scan EXCEPT !.ops[1] = <<"unregister", Head(scan.ops)[2]>>]
    /\ UNCHANGED <<disk, phase, known, registry, listener, history>>

\* Items are unregistered by name, whoever registered them.
UnregisterItem ==
    /\ scan.pc = "items" /\ scan.ops # <<>> /\ Head(scan.ops)[1] = "unregister"
    /\ LET i == Head(scan.ops)[2]
       IN Unregister(i) \/ (~Has(i) /\ UNCHANGED <<registry, listener>>)
    /\ scan' = [scan EXCEPT !.ops = Tail(@)]
    /\ UNCHANGED <<disk, phase, known, loaded, history>>

\* Mutant of PluginDone: a manifest that was registered is not kept.
PluginDoneUnrecorded ==
    /\ scan.pc = "items" /\ scan.ops = <<>>
    /\ known' = IF scan.next = Absent THEN WithoutPlugin(scan.plugin) ELSE known
    /\ scan' = [scan EXCEPT !.pc = IF scan.next = Absent THEN "sweep" ELSE "manifests"]
    /\ UNCHANGED <<disk, phase, registry, loaded, listener, history>>

\* The plugin is known by its new manifest, or no longer.
PluginDone ==
    /\ scan.pc = "items" /\ scan.ops = <<>>
    /\ known' = IF scan.next = Absent THEN WithoutPlugin(scan.plugin)
                ELSE WithPlugin(scan.plugin, scan.next)
    /\ scan' = [scan EXCEPT !.pc = IF scan.next = Absent THEN "sweep" ELSE "manifests"]
    /\ UNCHANGED <<disk, phase, registry, loaded, listener, history>>

ManifestsDone ==
    /\ scan.pc = "manifests" /\ scan.todo = {}
    /\ scan' = [scan EXCEPT !.pc = "sweep", !.todo = DOMAIN known \ scan.seen]
    /\ UNCHANGED <<disk, phase, known, registry, loaded, listener, history>>

UnregisterVanished(p) ==
    /\ scan.pc = "sweep" /\ p \in scan.todo
    /\ scan' = [scan EXCEPT !.pc = "items", !.todo = @ \ {p}, !.plugin = p,
                            !.ops = UnregisterOps(known[p]), !.next = Absent]
    /\ UNCHANGED <<disk, phase, known, registry, loaded, listener, history>>

\* Start returns after its scan and leaves the loop running.
EndScan ==
    /\ scan.pc = "sweep" /\ scan.todo = {} /\ scan' = NoScan
    /\ phase' = IF phase = "starting" THEN "running" ELSE phase
    /\ UNCHANGED <<disk, known, registry, loaded, listener, history>>

\* Stop cancels, waits for the loop, which may find its ticker first, and
\* unloads the handlers; what is registered and known stays.
Stop ==
    /\ phase = "running" /\ phase' = "stopping"
    /\ UNCHANGED <<disk, scan, known, registry, loaded, listener, history>>

Stopped ==
    /\ phase = "stopping" /\ scan.pc = "none" /\ phase' = "off"
    /\ loaded' = loaded \ UNION {Range(m) : m \in Range(known)}
    /\ history' = [history EXCEPT !.stopped = TRUE]
    /\ UNCHANGED <<disk, scan, known, registry, listener>>

----------------------------------------------------------------------------
(* The files, the application and its listener.                            *)

ChangeFile(p) ==
    /\ history.changes < MaxChanges
    /\ \E m \in (Manifests \cup {Absent, Broken}) \ {disk[p]} : disk' = [disk EXCEPT ![p] = m]
    /\ history' = [history EXCEPT !.changes = @ + 1, !.still = FALSE]
    /\ UNCHANGED <<phase, scan, known, registry, loaded, listener>>

AppCalls(i) ==
    /\ history.calls < MaxCalls
    /\ \/ Register(i, App, IsTool(i))
       \/ Unregister(i)
       \/ \E available \in BOOLEAN : UpdateAvailability(i, available)
    /\ history' = [history EXCEPT !.calls = @ + 1,
                                  !.clean = @ /\ (~Has(i) \/ registry[i].source = App
                                                  \/ DOMAIN registry' = DOMAIN registry)]
    /\ UNCHANGED <<disk, phase, scan, known, loaded>>

Subscribe ==
    /\ listener.pc = "none" /\ listener' = [listener EXCEPT !.pc = "subscribed"]
    /\ UNCHANGED <<disk, phase, scan, known, registry, loaded, history>>

\* A listener that discovers what there is after it has subscribed ...
Discovers ==
    /\ listener.pc = "subscribed"
    /\ listener' = [listener EXCEPT !.pc = "listening",
                                    !.view = Discover(BOOLEAN, Plugins \cup {App})]
    /\ UNCHANGED <<disk, phase, scan, known, registry, loaded, history>>

\* ... and follows the events from there.
Receive ==
    /\ listener.pc = "listening" /\ listener.queue # <<>>
    /\ LET e == Head(listener.queue)
       IN listener' = [listener EXCEPT !.queue = Tail(@),
                         !.view = IF e[1] = "register" THEN @ \cup {e[2]} ELSE @ \ {e[2]}]
    /\ UNCHANGED <<disk, phase, scan, known, registry, loaded, history>>

Unsubscribe ==
    /\ listener.pc # "none"
    /\ listener' = [pc |-> "none", queue |-> <<>>, view |-> {}, missed |-> FALSE]
    /\ UNCHANGED <<disk, phase, scan, known, registry, loaded, history>>

Next ==
    \/ Start \/ Tick \/ RegisterItem \/ UnloadHandler \/ UnregisterItem
    \/ PluginDone \/ ManifestsDone \/ EndScan \/ Stop \/ Stopped
    \/ \E p \in Plugins : NextManifest(p) \/ UnregisterVanished(p) \/ ChangeFile(p)
    \/ \E i \in Items : AppCalls(i)
    \/ Subscribe \/ Discovers \/ Receive \/ Unsubscribe

Spec == Init /\ [][Next]_vars

----------------------------------------------------------------------------
\* After a scan the registry holds for the plugins what the watcher knows of
\* them and, if no file changed meanwhile, what the files say.
RegistryMatchesManifests ==
    scan.pc = "none" /\ history.clean =>
       /\ \A p \in Plugins :
             Discover(BOOLEAN, {p}) = IF p \in DOMAIN known THEN Range(known[p]) ELSE {}
       /\ history.still /\ phase # "off" =>
             \A p \in Plugins : IF disk[p] = Absent THEN p \notin DOMAIN known
                                ELSE disk[p] # Broken => p \in DOMAIN known /\ known[p] = disk[p]

\* A handler a plugin's tool was registered with is loaded, except while the
\* tool is being unregistered, as long as the watcher was never stopped.
ServedHandlersLoaded ==
    ~history.stopped =>
       \A i \in Items : GetToolHandler(i) /\ registry[i].source # App =>
          \/ i \in loaded
          \/ scan.ops # <<>> /\ Head(scan.ops) = <<"unregister", i>>

\* A listener that discovered after subscribing, and missed no event, knows
\* what is registered once it has taken its events.
ListenerFollows ==
    listener.pc = "listening" /\ listener.queue = <<>> /\ ~listener.missed =>
       listener.view = DOMAIN registry

\* Files, registry, handlers and listeners agree through every interleaving of
\* scans, calls and changed files (scan, registerPlugin, notifyListeners).
DiscoveryAgrees == TypeOK /\ RegistryMatchesManifests /\ ServedHandlersLoaded /\ ListenerFollows
=============================================================================
