------------------------------- MODULE Config -------------------------------
(***************************************************************************)
(* How the configuration of a process comes about (MustLoad): a file is    *)
(* read, the file for the environment that APP_ENV names is merged into    *)
(* it, and the variables of the environment take precedence over both.     *)
(* Viper, which does the work, is external.  The process runs or exits.    *)
(***************************************************************************)
EXTENDS Naturals

CONSTANTS
  Keys,       \* some keys: server.addr, auth.cache_ttl, ...
  Values,     \* what may be written for a key
  Malformed,  \* those of them that do not decode: a duration without a unit
  Unset,      \* a key that a source does not have
  Blank       \* a variable of the environment that is set to nothing

VARIABLES
  base,      \* config.yaml
  overlay,   \* config.<APP_ENV>.yaml
  env,       \* the variables OAUTH2_TOKEN_EXCHANGE_*
  stage,     \* off, read, merged, running, exited
  settings,  \* what viper holds
  cfg        \* the Config of the process

sources == <<base, overlay, env>>
vars == <<sources, stage, settings, cfg>>

Contents == [Keys -> Values \cup {Unset}]
Nothing == [k \in Keys |-> Unset]

(* A file is there and is YAML, or it is missing or broken.                *)
File(status, contents) == [status |-> status, contents |-> contents]
Files == {File("good", c) : c \in Contents} \cup {File("bad", Nothing)}

Init ==
  /\ base \in Files
  /\ overlay \in Files \cup {File("not named", Nothing)}
  /\ env \in [Keys -> Values \cup {Unset, Blank}]
  /\ stage = "off"
  /\ settings = Nothing
  /\ cfg = Nothing

(* Without the first file there is no process.                             *)
ReadInConfig ==
  /\ stage = "off"
  /\ stage' = IF base.status = "good" THEN "read" ELSE "exited"
  /\ settings' = base.contents
  /\ UNCHANGED <<sources, cfg>>

(* Keys of the second file replace those of the first, one by one.         *)
Merged(under, over) ==
  [k \in Keys |-> IF over[k] # Unset THEN over[k] ELSE under[k]]

(* The error of a second file that is missing or broken is dropped: it has *)
(* no contents then.                                                       *)
MergeInConfig ==
  /\ stage = "read"
  /\ stage' = "merged"
  /\ settings' = Merged(settings, overlay.contents)
  /\ UNCHANGED <<sources, cfg>>

(* Unmarshal walks over the keys of the files: a variable is asked for by  *)
(* key, and one that is set to nothing does not count.                     *)
Resolved ==
  [k \in Keys |->
     IF settings[k] # Unset /\ env[k] \in Values THEN env[k] ELSE settings[k]]

(* A value that does not decode ends the process.                          *)
Unmarshal ==
  /\ stage = "merged"
  /\ \/ /\ \E k \in Keys : Resolved[k] \in Malformed
        /\ stage' = "exited"
        /\ UNCHANGED cfg
     \/ /\ \A k \in Keys : Resolved[k] \notin Malformed
        /\ cfg' = Resolved
        /\ stage' = "running"
  /\ UNCHANGED <<sources, settings>>

Next == ReadInConfig \/ MergeInConfig \/ Unmarshal

Spec == Init /\ [][Next]_vars

-----------------------------------------------------------------------------

(* README.md:100: "All config values can be overridden via environment     *)
(* variables".  So a variable that is set decides the value of its key;    *)
(* but Unmarshal does not ask for one whose key neither file has.          *)
VariablesOverride ==
  stage = "running" => \A k \in Keys : env[k] \in Values => cfg[k] = env[k]
=============================================================================
