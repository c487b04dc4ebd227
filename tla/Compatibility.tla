--------------------------- MODULE Compatibility ---------------------------
(***************************************************************************)
(* The compatibility package: which features the known clients support,    *)
(* how a client is recognised, and what a server tells it.  A client is    *)
(* given by the profiles whose pattern its name and version match.         *)
(***************************************************************************)
EXTENDS Sequences, SequencesExt

Profile(name, features, workarounds) ==
    [name |-> name, features |-> features, workarounds |-> workarounds]

GetKnownProfiles ==
    << Profile("Claude Desktop", {"tools", "resources", "prompts"}, {"discovery"}),
       Profile("Claude.ai", {"tools", "resources", "prompts"}, {"local_files"}),
       Profile("Claude Code", {"tools", "prompts"}, {"resources"}),
       Profile("VS Code GitHub Copilot", {"tools", "discovery", "roots"}, {"prompts"}),
       Profile("Cursor", {"tools"}, {"resources", "prompts"}),
       Profile("Continue", {"tools", "prompts", "resources"}, {"discovery"}),
       Profile("Cline", {"tools", "resources"}, {"prompts"}),
       Profile("Windsurf Editor", {"tools", "discovery"}, {"resources"}),
       Profile("Zed", {"prompts"}, {"tools"}),
       Profile("Generic/Unknown", {"tools"}, {"advanced"}) >>

Profiles == ToSet(GetKnownProfiles)
FirstProfile(Test(_)) == GetKnownProfiles[SelectInSeq(GetKnownProfiles, Test)]

\* The first profile whose pattern matches, then one for clients that sample,
\* then the generic one.
DetectClient(matches, samples) ==
    CASE \E p \in Profiles : p.name \in matches ->
            FirstProfile(LAMBDA p : p.name \in matches)
      [] (\A p \in Profiles : p.name \notin matches) /\ samples
           /\ (\E p \in Profiles : "sampling" \in p.features) ->
            FirstProfile(LAMBDA p : "sampling" \in p.features)
      [] OTHER -> FirstProfile(LAMBDA p : p.name = "Generic/Unknown")

\* Whether a feature is supported and, if not, whether a workaround is known.
CheckFeatureSupport(p, feature) ==
    [supported  |-> feature \in p.features,
     workaround |-> feature \notin p.features /\ feature \in p.workarounds]

ServerCapabilities == {"tools", "resources", "prompts", "sampling", "roots"}

GetSupportedCapabilities(p) ==
    (p.features \cap ServerCapabilities)
        \cup IF "discovery" \in p.features THEN {"experimental.discovery"} ELSE {}

Features == {"tools", "resources", "prompts", "roots", "sampling", "discovery"}

\* The prefix of the method's name up to the slash.
MethodToFeature(prefix) == IF prefix \in Features THEN prefix ELSE "unknown"

\* The code of the error; a feature that is supported should not come here.
HandleUnsupportedMethod(p, prefix) ==
    IF CheckFeatureSupport(p, MethodToFeature(prefix)).supported
    THEN "InternalError" ELSE "Unsupported"
=============================================================================
