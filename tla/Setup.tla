------------------------------- MODULE Setup -------------------------------
(***************************************************************************)
(* The setup wizard (src/setup_cli.py): it writes the settings of one      *)
(* instance and enters the server into the configuration files of the MCP  *)
(* clients, one file after the other, each backed up before, and a script  *)
(* that puts the backups back.  It refuses, or is told to go on, at every  *)
(* file; the files belong to other programs too, which write them while    *)
(* the wizard waits for an answer; it can end anywhere.                    *)
(*                                                                         *)
(* A client's file is the map from a root key and a server name to the     *)
(* entry; the replacement of a file (backup and write) is one step that    *)
(* may be cut short, as nothing in it waits.                               *)
(***************************************************************************)
EXTENDS Settings, FiniteSetsExt, Functions

CONSTANTS
  Clients,      \* the targets after the settings, in the order of the wizard: a sequence
  RootKey,      \* of every client: "servers" for VS Code, else "mcpServers"
  PathOf,       \* the file of every target; "settings" is one of them
  Wishes,       \* the settings asked for: [name, user, rag], rag with a model
  Indexes,      \* the index there may be before the first run
  Disks,        \* the files there may be before the first run
  Foreign,      \* of every file, what another program may put there
  MaxRuns,      \* how often the wizard is run (bound)
  MaxEdits      \* how often another program writes (bound)

Yaml == "settings"
Targets == <<Yaml>> \o Clients
Paths == {PathOf[t] : t \in Range(Targets)} \cup {DefaultFile}
Cut == <<>>     \* a client's file with nothing in it is no JSON
Ours == "ours"  \* the entry _build_mcp_server_entry makes

Entry(t) == <<RootKey[t], "apstra">>
Settled(wish) == [instances |-> <<[name |-> wish.name, user |-> wish.user]>>, rag |-> wish.rag]

Complete(rag) == rag # None /\ Blank \notin {rag.provider, rag.model}

\* No two targets are configured with one file, and the user is never blank
\* (_require asks for it).
ASSUME SetupAssumption ==
  /\ Clients \in Seq(DOMAIN RootKey)
  /\ \A i, j \in DOMAIN Targets : PathOf[Targets[i]] = PathOf[Targets[j]] => i = j
  /\ \A d \in Disks : DOMAIN d = Paths
  /\ \A w \in Wishes : w.user # Blank /\ Settled(w) # None
  /\ None \notin Paths /\ Failure \notin Paths

VARIABLES
  wizard,       \* the run in progress, or None
  runs,         \* the number of runs so far
  backups,      \* the backups on disk, by file and stamp
  scripts,      \* the rollback scripts, by stamp: which backup is of which file
  theirs,       \* what another program last put into each file
  met,          \* by file and run, what the run replaced
  changes       \* how often another program wrote

wizardVars == <<wizard, runs, backups, scripts, theirs, met, changes>>
setupVars == <<disk, index, server, wizardVars>>

With(f, k, v) == [x \in DOMAIN f \cup {k} |-> IF x = k THEN v ELSE f[x]]

\* Mutation: the backups of all runs have one name.
BackupOfAll(path, n) == <<path, 0>>

\* _backup_target: named for the file and the second the run began; two runs
\* begin in two seconds.
BackupTarget(path, n) == <<path, n>>

SetupInit ==
  /\ disk \in Disks
  /\ index \in Indexes /\ server = None /\ wizard = None /\ runs = 0
  /\ backups = <<>> /\ scripts = <<>> /\ theirs = disk /\ met = <<>> /\ changes = 0
-----------------------------------------------------------------------------
\* What is asked and checked before the first file changes nothing.
Begin ==
  /\ wizard = None /\ runs < MaxRuns
  /\ \E wish \in Wishes, S \in SUBSET DOMAIN Targets, dry, force, build \in BOOLEAN :
       /\ 1 \in S
       /\ build => wish.rag # None
       /\ wizard' = [stamp |-> runs + 1, wish |-> wish, dry |-> dry, force |-> force, build |-> build,
                     todo |-> S,
                     examined |-> FALSE, read |-> None, saved |-> <<>>]
  /\ runs' = runs + 1
  /\ UNCHANGED <<disk, index, server, backups, scripts, theirs, met, changes>>

\* The wizard ends, with an error or because it is stopped; nothing is undone.
Ends == wizard' = None /\ UNCHANGED <<runs, scripts, theirs, changes>>

Kill == wizard # None /\ Ends /\ UNCHANGED <<disk, index, server, backups, met>>

Held(t) ==
  IF t = Yaml THEN disk[PathOf[t]] # None
  ELSE disk[PathOf[t]] # None /\ Entry(t) \in DOMAIN disk[PathOf[t]]
NoJson(t) == t # Yaml /\ disk[PathOf[t]] = Cut

\* The file is read; what is there is replaced only if the flag or the answer
\* says so, and a client's file that is no JSON ends the run.
Examine ==
  /\ wizard # None /\ wizard.todo # {} /\ ~ wizard.examined
  /\ LET t == Targets[Min(wizard.todo)]
     IN  \/ /\ NoJson(t) \/ (Held(t) /\ ~ wizard.force)
            /\ Ends
         \/ /\ ~ NoJson(t)
            /\ wizard' = [wizard EXCEPT !.examined = TRUE,
                            !.read = IF t = Yaml THEN None ELSE disk[PathOf[t]]]
            /\ UNCHANGED <<runs, scripts, theirs, changes>>
  /\ UNCHANGED <<disk, index, server, backups, met>>

\* The settings are written anew; to a client's file, as it was read, the entry
\* is added.
Content(t) ==
  IF t = Yaml
  THEN Settled(wizard.wish)
  ELSE With(IF wizard.read = None THEN <<>> ELSE wizard.read, Entry(t), Ours)

NextTarget(t) ==
  [wizard EXCEPT !.todo = @ \ {Min(@)}, !.examined = FALSE,
     !.saved = IF disk[PathOf[t]] = None THEN @
               ELSE With(@, PathOf[t], BackupTarget(PathOf[t], wizard.stamp))]

\* _write_instances_yaml, _write_json_mcp_config: the backup is of the file as
\* it is now.  The step may be cut short in the backup, before the write, or in
\* the write.
Replace ==
  /\ wizard # None /\ wizard.todo # {} /\ wizard.examined
  /\ LET t == Targets[Min(wizard.todo)]
         p == PathOf[t]
         key == BackupTarget(p, wizard.stamp)
         there == disk[p] # None
         Empty == IF t = Yaml THEN NoInstances ELSE Cut
     IN  IF wizard.dry
         THEN wizard' = NextTarget(t) /\ UNCHANGED <<disk, backups, met, runs, scripts, theirs, changes>>
         ELSE \/ /\ wizard' = NextTarget(t)
                 /\ disk' = [disk EXCEPT ![p] = Content(t)]
                 /\ backups' = IF there THEN With(backups, key, disk[p]) ELSE backups
                 /\ met' = IF there THEN With(met, <<p, wizard.stamp>>, disk[p]) ELSE met
                 /\ UNCHANGED <<runs, scripts, theirs, changes>>
              \/ /\ there /\ Ends
                 /\ \E copy \in {Empty, disk[p]} : backups' = With(backups, key, copy)
                 /\ UNCHANGED <<disk, met>>
              \/ /\ Ends
                 /\ backups' = IF there THEN With(backups, key, disk[p]) ELSE backups
                 /\ disk' = [disk EXCEPT ![p] = Empty]
                 /\ UNCHANGED met
  /\ UNCHANGED <<index, server>>

\* _run_embedding_build: another program makes the index, or fails, and then
\* may leave a part of one.
Build ==
  /\ wizard # None /\ wizard.todo = {} /\ wizard.build /\ ~ wizard.dry
  /\ \/ index' = wizard.wish.rag.model /\ wizard' = [wizard EXCEPT !.build = FALSE] /\ UNCHANGED <<runs, scripts, theirs, changes>>
     \/ Ends /\ index' \in {index, Garbled}
  /\ UNCHANGED <<disk, server, backups, met>>

\* _write_rollback_script, at the end of a run that saved something.
Finish ==
  /\ wizard # None /\ wizard.todo = {} /\ (wizard.build => wizard.dry)
  /\ scripts' = IF wizard.saved = <<>> \/ wizard.dry THEN scripts
                ELSE With(scripts, wizard.stamp, wizard.saved)
  /\ wizard' = None
  /\ UNCHANGED <<disk, index, server, runs, backups, theirs, met, changes>>

\* The user runs a script, and takes what it restores for theirs.
Rollback ==
  /\ wizard = None
  /\ \E n \in DOMAIN scripts :
       disk' = [p \in Paths |-> IF p \in DOMAIN scripts[n] THEN backups[scripts[n][p]] ELSE disk[p]]
  /\ theirs' = disk'
  /\ UNCHANGED <<index, server, wizard, runs, backups, scripts, met, changes>>

\* A client, or the user, writes a file.
Edit ==
  /\ changes < MaxEdits /\ changes' = changes + 1
  /\ \E p \in Paths : \E c \in Foreign[p] :
       disk' = [disk EXCEPT ![p] = c] /\ theirs' = [theirs EXCEPT ![p] = c]
  /\ UNCHANGED <<index, server, wizard, runs, backups, scripts, met>>

SetupNext ==
  \/ Begin \/ Kill \/ Examine \/ Replace \/ Build \/ Finish \/ Rollback \/ Edit
  \/ ServerNext /\ UNCHANGED wizardVars

SetupSpec == SetupInit /\ [][SetupNext]_setupVars
-----------------------------------------------------------------------------
\* "Existing files are backed up before write": wherever a run ends, what
\* another program last wrote to a file is there or in a backup of it, also if
\* it was written while the wizard waited for an answer; and the script of any
\* run that ended well, however many came after it, holds everything the run
\* replaced, as the run found it.
NothingLost ==
  /\ \A p \in Paths : theirs[p] \in {None, disk[p]} \cup {backups[k] : k \in {j \in DOMAIN backups : j[1] = p}}
  /\ \A n \in DOMAIN scripts :
       /\ DOMAIN scripts[n] = {k[1] : k \in {j \in DOMAIN met : j[2] = n}}
       /\ \A p \in DOMAIN scripts[n] : backups[scripts[n][p]] = met[<<p, n>>]

\* A server that is given a file serves the instances of that file, whatever
\* else its machine has.  A file the wizard wrote, with a name that is not blank,
\* holds the instance a server can begin with; a server that found it at both its
\* reads has that instance, and the documentation asked for if provider and model
\* are not blank.  All that a server answers from documentation in its life was
\* found by one model, the one configured, in one index, although settings and
\* index are replaced, removed and cut short meanwhile; with a provider that is not
\* Ollama it answers nothing.
ServesAsSetUp ==
  /\ server # None =>
       /\ server.up /\ server.env.file # None =>
            /\ server.path = server.env.file
            /\ [k \in DOMAIN server.sessions |-> server.sessions[k].name] =
                 [k \in DOMAIN server.file.instances |-> server.file.instances[k].name]
       /\ \A w \in Wishes :
            /\ server.env.file = PathOf[Yaml] /\ EnvKey[w.name] \notin DOMAIN server.env.users
            /\ server.up /\ server.read = Settled(w) /\ server.file = Settled(w)
            => /\ server.sessions = <<[name |-> w.name, user |-> w.user]>>
               /\ Complete(w.rag) => server.rag = w.rag
       /\ \A a, b \in server.answers :
            /\ a = b /\ a.asked = server.rag.model /\ a.against \in {server.rag.model, Blank}
            /\ server.rag.provider = Ollama
  /\ \A w \in Wishes, env \in Environments :
       ( /\ env.file = PathOf[Yaml] /\ w.name # Blank /\ EnvKey[w.name] \notin DOMAIN env.users
         /\ disk[env.file] = Settled(w) ) =>
         Sessions(ConfigPath(env), env) = <<[name |-> w.name, user |-> w.user]>>
=============================================================================
