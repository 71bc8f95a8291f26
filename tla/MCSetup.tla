------------------------------ MODULE MCSetup ------------------------------
EXTENDS Setup, TLC
TwoClients == <<"vscode", "claude">>
TwoRoots == [vscode |-> "servers", claude |-> "mcpServers"]
FourFiles == [settings |-> "yaml", vscode |-> "vs", claude |-> "cl"]
TheKeys == ("dc-a" :> "DC_A" @@ "dc_a" :> "DC_A" @@ Blank :> "")

Instances(names) == [k \in DOMAIN names |-> [name |-> names[k], user |-> "admin"]]
Rag(provider, model) == [provider |-> provider, model |-> model]
SmallWishes ==
  {[name |-> "dc-a", user |-> "op", rag |-> Rag(Ollama, "m1")],
   [name |-> Blank, user |-> "op", rag |-> None]}
SmallIndexes == {None, Blank}
Bare == [file |-> None, single |-> None, users |-> <<>>, rag |-> None]
SmallEnvironments ==
  {[Bare EXCEPT !.file = "yaml", !.users = "DC_B" :> "ci", !.rag = Rag(Ollama, "m2")],
   [Bare EXCEPT !.single = [name |-> "default", user |-> "env"], !.users = "DC_A" :> "ci"]}

OtherFile == [instances |-> Instances(<<"dc-a", "dc_a">>), rag |-> Rag("lmstudio", "m2")]
Mine(root) == <<root, "other">> :> "theirs"
Both(root) == Mine(root) @@ (<<root, "apstra">> :> "theirs")
SmallForeign ==
  ("yaml" :> {OtherFile} @@ "pkg" :> {} @@ "vs" :> {Mine("servers")} @@ "cl" :> {Both("mcpServers")})
ADisk(yaml, pkg, vs) == [yaml |-> yaml, pkg |-> pkg, vs |-> vs, cl |-> Both("mcpServers")]
SmallDisks ==
  {ADisk(None, OtherFile, Mine("servers")), ADisk(OtherFile, NoInstances, None)}
-----------------------------------------------------------------------------
(* Two machines at first: one on which nothing was set up, and one with a    *)
(* settings file and an index that does not say its model.                   *)
TwoMachines == SetupInit /\ (disk["yaml"] = None <=> index = None)
TwoMachinesSpec == TwoMachines /\ [][SetupNext]_setupVars
=============================================================================
