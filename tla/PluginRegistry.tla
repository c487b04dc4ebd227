--------------------------- MODULE PluginRegistry ---------------------------
(***************************************************************************)
(* PluginRegistry and PluginManager.LoadFromPath (plugin/plugin.go).       *)
(*                                                                         *)
(* Every operation of the registry holds its mutex throughout, calls of    *)
(* the plugin's Init, Start and Stop included, so it is one action; each   *)
(* of those calls may fail.  LoadFromPath is three such operations in a    *)
(* row with the mutex free in between: Register, Load and, when the load   *)
(* failed, Unregister, and other callers come in between.                  *)
(*                                                                         *)
(* A plugin is <<name, copy>>: two of the same name contend for one entry. *)
(***************************************************************************)
EXTENDS Integers, FiniteSets, Functions

CONSTANTS Names, Copies,
          Loaders            \* goroutines in LoadFromPath

VARIABLES plugins,           \* the registry: a map from names to entries
          running,           \* plugins started and not stopped since
          orphans,           \* of those, the ones whose Stop, or a later load, failed
          loader,            \* what each LoadFromPath is doing
          undisturbed        \* loaders whose name no one else has worked on

vars == <<plugins, running, orphans, loader, undisturbed>>

AllPlugins == Names \X Copies
NameOf(p) == p[1]
States == {"unloaded", "enabled", "error"}
Idle == [pc |-> "idle", plugin |-> CHOOSE p \in AllPlugins : TRUE]

TypeOK ==
    /\ DOMAIN plugins \subseteq Names
    /\ \A n \in DOMAIN plugins : /\ plugins[n].plugin \in AllPlugins
                                 /\ NameOf(plugins[n].plugin) = n
                                 /\ plugins[n].state \in States
    /\ running \subseteq AllPlugins /\ orphans \subseteq running
    /\ \A l \in Loaders : /\ loader[l].pc \in {"idle", "load", "rollback", "loaded", "failed"}
                          /\ loader[l].plugin \in AllPlugins
    /\ undisturbed \subseteq Loaders

Init ==
    /\ plugins = <<>> /\ running = {} /\ orphans = {}
    /\ loader = [l \in Loaders |-> Idle] /\ undisturbed = {}

----------------------------------------------------------------------------
(* The operations, as what they make of the registry and of the plugins.   *)

Found(n) == n \in DOMAIN plugins

Register(p) ==
    /\ ~Found(NameOf(p))                           \* ErrPluginAlreadyExists
    /\ plugins' = [m \in DOMAIN plugins \cup {NameOf(p)} |->
                     IF m = NameOf(p) THEN [plugin |-> p, state |-> "unloaded"] ELSE plugins[m]]
    /\ UNCHANGED <<running, orphans>>

\* A Stop that fails is logged and the entry removed all the same.
Unregister(n, stops) ==
    /\ Found(n)
    /\ LET p == plugins[n].plugin
           asked == plugins[n].state = "enabled"
       IN /\ running' = IF asked /\ stops THEN running \ {p} ELSE running
          /\ orphans' = IF asked /\ stops THEN orphans \ {p}
                        ELSE IF asked THEN orphans \cup {p} ELSE orphans
    /\ plugins' = Restrict(plugins, DOMAIN plugins \ {n})

\* A Stop that fails leaves the plugin enabled.
Unload(n, stops) ==
    /\ Found(n) /\ plugins[n].state = "enabled"
    /\ IF stops
         THEN /\ plugins' = [plugins EXCEPT ![n].state = "unloaded"]
              /\ running' = running \ {plugins[n].plugin}
              /\ orphans' = orphans \ {plugins[n].plugin}
         ELSE UNCHANGED <<plugins, running, orphans>>

\* Init and Start are called whatever the entry's state: a plugin that runs
\* already runs on when they fail, in an entry that Unregister will not stop.
Load(n, inits, starts) ==
    /\ Found(n)
    /\ LET p == plugins[n].plugin
           ok == inits /\ starts
       IN /\ plugins' = [plugins EXCEPT ![n].state = IF ok THEN "enabled" ELSE "error"]
          /\ running' = IF ok THEN running \cup {p} ELSE running
          /\ orphans' = IF ok THEN orphans \ {p} ELSE orphans \cup ({p} \cap running)

\* The plugin Get answers with, if any; GetByType and Health go over the same.
Get(n) == IF Found(n) /\ plugins[n].state = "enabled" THEN {plugins[n].plugin} ELSE {}

----------------------------------------------------------------------------
(* Callers of the registry, and LoadFromPath step by step.                 *)

Disturb(n, by) == undisturbed' = {l \in undisturbed \ by : NameOf(loader[l].plugin) # n}
                                    \cup (undisturbed \cap by)

Caller(n) ==
    /\ \/ \E p \in AllPlugins : NameOf(p) = n /\ Register(p)
       \/ \E stops \in BOOLEAN : Unregister(n, stops) \/ Unload(n, stops)
       \/ \E inits, starts \in BOOLEAN : Load(n, inits, starts)
    /\ Disturb(n, {}) /\ UNCHANGED loader

\* The loader makes a plugin of a file; registering it may be refused.
LoadFromPath(l) ==
    /\ loader[l].pc = "idle"
    /\ \E p \in AllPlugins :
          /\ Register(p)
          /\ loader' = [loader EXCEPT ![l] = [pc |-> "load", plugin |-> p]]
          /\ undisturbed' = {k \in undisturbed : NameOf(loader[k].plugin) # NameOf(p)} \cup {l}

LoadRegistered(l) ==
    LET n == NameOf(loader[l].plugin)
    IN /\ loader[l].pc = "load"
       /\ \/ \E inits, starts \in BOOLEAN :
                /\ Load(n, inits, starts)
                /\ loader' = [loader EXCEPT ![l].pc = IF inits /\ starts THEN "loaded" ELSE "rollback"]
          \/ /\ ~Found(n)
             /\ loader' = [loader EXCEPT ![l].pc = "rollback"]
             /\ UNCHANGED <<plugins, running, orphans>>
       /\ Disturb(n, {l})

\* Mutant of Rollback: a failed load is reported and its entry left behind.
RollbackNothing(l) ==
    /\ loader[l].pc = "rollback"
    /\ loader' = [loader EXCEPT ![l].pc = "failed"]
    /\ UNCHANGED <<plugins, running, orphans, undisturbed>>

Rollback(l) ==
    LET n == NameOf(loader[l].plugin)
    IN /\ loader[l].pc = "rollback"
       /\ IF Found(n) THEN \E stops \in BOOLEAN : Unregister(n, stops)
          ELSE UNCHANGED <<plugins, running, orphans>>
       /\ loader' = [loader EXCEPT ![l].pc = "failed"]
       /\ Disturb(n, {l})

\* The caller has the result and may come again.
LoaderReturns(l) ==
    /\ loader[l].pc \in {"loaded", "failed"}
    /\ loader' = [loader EXCEPT ![l] = Idle] /\ undisturbed' = undisturbed \ {l}
    /\ UNCHANGED <<plugins, running, orphans>>

Next ==
    \/ \E n \in Names : Caller(n)
    \/ \E l \in Loaders : LoadFromPath(l) \/ LoadRegistered(l) \/ Rollback(l) \/ LoaderReturns(l)

Spec == Init /\ [][Next]_vars

----------------------------------------------------------------------------
\* What Get hands out runs.
ServedPluginsRun == \A n \in Names : Get(n) \subseteq running

\* A plugin runs unserved only when its Stop failed or a second load of it did.
NoPluginIsLost == running \ orphans \subseteq UNION {Get(n) : n \in Names}

\* LoadFromPath is all or nothing while no one else works on the name.
LoadsWholeOrNot ==
    \A l \in undisturbed : LET p == loader[l].plugin
                           IN /\ loader[l].pc = "loaded" => p \in Get(NameOf(p))
                              /\ loader[l].pc = "failed" => ~Found(NameOf(p)) /\ p \notin running \ orphans

\* The registry, what really runs and the loads under way agree through every
\* interleaving and failure (Load, Unload, Unregister, LoadFromPath).
PluginsAccountedFor == TypeOK /\ ServedPluginsRun /\ NoPluginIsLost /\ LoadsWholeOrNot
=============================================================================
