------------------------------ MODULE Settings ------------------------------
(***************************************************************************)
(* What a server starts with (src/config/settings.py) and what it answers  *)
(* documentation queries from (src/primitives/rag_client.py): the file it  *)
(* reads, the variables of its environment, and the index on disk, of      *)
(* which it keeps what it first read.  It reads the file twice, for the    *)
(* documentation when its module is imported and for the instances when    *)
(* its lifespan begins.                                                    *)
(*                                                                         *)
(* A file of settings is a record of its instances and its rag block, that *)
(* of a provider and a model.  A write that was cut short leaves a file    *)
(* with nothing in it.                                                     *)
(***************************************************************************)
EXTENDS Integers, Sequences

CONSTANTS
  Environments, \* the environments a server is started in
  EnvKey,       \* _env_key: the prefix of the variables of an instance name
  DefaultFile,  \* config/instances.yaml beside the code of the server
  Ollama,       \* the provider of embeddings the server can ask
  None,         \* no file, no block, not set, no server
  Blank,        \* an empty text
  Garbled,      \* an index that is no JSON
  Failure       \* the server does not start

VARIABLES
  disk,         \* the content of every file
  index,        \* the model of knowledge/index.embeddings.json, Garbled or None
  server        \* the server that runs, or None

NoInstances == [instances |-> <<>>, rag |-> None]

\* Mutation: the default file, if there is one, is read first.
ConfigPathDefault(env) ==
  IF disk[DefaultFile] # None THEN DefaultFile
  ELSE IF env.file # None /\ disk[env.file] # None THEN env.file ELSE None

\* _resolve_config_path: the file named in the environment, which must exist;
\* else the default one if there is one.
ConfigPath(env) ==
  IF env.file # None THEN IF disk[env.file] = None THEN Failure ELSE env.file
  ELSE IF disk[DefaultFile] # None THEN DefaultFile ELSE None

\* _build_single_instance_session
FromVariables(env) == IF env.single = None THEN Failure ELSE <<env.single>>

\* _resolve_credentials: a variable wins over the file; two names with one
\* prefix have one variable.
UserOf(env, i) ==
  IF EnvKey[i.name] \in DOMAIN env.users THEN env.users[EnvKey[i.name]] ELSE i.user

\* load_sessions: only a file that is named must have instances.
Sessions(path, env) ==
  IF path = Failure THEN Failure
  ELSE IF path = None THEN FromVariables(env)
  ELSE LET listed == disk[path].instances
       IN  IF listed = <<>> THEN IF env.file = None THEN FromVariables(env) ELSE Failure
           ELSE IF \E k \in DOMAIN listed : listed[k].name = Blank \/ UserOf(env, listed[k]) = Blank
           THEN Failure
           ELSE [k \in DOMAIN listed |-> [name |-> listed[k].name, user |-> UserOf(env, listed[k])]]

\* get_rag_config; what is not valid, a file that is missing too, turns the
\* documentation off.
RagOf(path, env) ==
  LET block == IF path = None THEN None ELSE disk[path].rag
      rag   == IF block # None THEN block ELSE env.rag
  IN  IF path = Failure \/ rag = None \/ Blank \in {rag.provider, rag.model} THEN None ELSE rag

ContentOf(path) == IF path \in {None, Failure} THEN NoInstances ELSE disk[path]

\* _register_tools: preflight_rag reads the index if it is there.  One that is
\* no JSON ends the server.
Import ==
  /\ server = None
  /\ \E env \in Environments :
       LET path == ConfigPath(env)  rag == RagOf(path, env)
       IN  /\ rag # None => index # Garbled
           /\ server' = [env |-> env, read |-> ContentOf(path), rag |-> rag,
                         cached |-> IF rag = None THEN None ELSE index,
                         up |-> FALSE, path |-> None, file |-> NoInstances, sessions |-> <<>>,
                         answers |-> {}]
  /\ UNCHANGED <<disk, index>>

\* lifespan: without sessions the server ends.
Start ==
  /\ server # None /\ ~ server.up
  /\ LET path == ConfigPath(server.env)  sessions == Sessions(path, server.env)
     IN  server' = IF sessions = Failure THEN None
                   ELSE [server EXCEPT !.up = TRUE, !.path = path, !.file = ContentOf(path),
                           !.sessions = sessions]
  /\ UNCHANGED <<disk, index>>

Stop == server # None /\ server' = None /\ UNCHANGED <<disk, index>>

\* Mutation: the index on disk is read at every query.
FoundAnew == IF index \in {None, Garbled} THEN server.cached ELSE index

\* _load_index keeps the index it found; one that is missing, or that cannot be
\* read, is looked for again at the next query.
Found == IF server.cached # None THEN server.cached ELSE IF index = Garbled THEN None ELSE index

\* query_docs, _embed_query: an error unless the model of the index is the one
\* configured or is not known, and the provider is Ollama.
Answers(rag, cached) ==
  /\ cached # None /\ cached \in {rag.model, Blank}
  /\ rag.provider = Ollama

\* The request to Ollama may fail.
Query ==
  /\ server # None /\ server.up /\ server.rag # None
  /\ \E embedded \in BOOLEAN :
       server' = [server EXCEPT !.cached = Found,
                    !.answers = IF embedded /\ Answers(server.rag, Found)
                                THEN @ \cup {[asked |-> server.rag.model, against |-> Found]} ELSE @]
  /\ UNCHANGED <<disk, index>>

ServerNext == Import \/ Start \/ Stop \/ Query
=============================================================================
