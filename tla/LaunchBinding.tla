--------------------------- MODULE LaunchBinding ---------------------------
(***************************************************************************)
(* How a start freezes what its worker runs with, and how the launcher     *)
(* checks it again.  The start reads the runner, then the profile config   *)
(* twice, and files a manifest; the launcher, a process of its own, reads  *)
(* the manifest and compares it with the runner, the scope file, the       *)
(* config and the credentials it finds.  Meanwhile somebody may edit the   *)
(* config, the keys or the runner, and the start of the same task may be   *)
(* repeated.                                                               *)
(***************************************************************************)
EXTENDS Naturals, FiniteSets

CONSTANTS
    Configs,   \* contents of the profile config: [provider, model, key]
    Runners,   \* identities of the installed runner
    Keys,      \* names of keys the global .env may hold
    MaxEdits,  \* bound: edits by somebody else
    NoConfig

(* Some config was there when a worker that already runs was started.      *)
ASSUME ConfigsAssumption == Configs # {}

VARIABLES
    config,    \* the profile config, or NoConfig when it cannot be read
    env,       \* the global .env: whether it can be parsed, and its keys
    runner,    \* the runner that is installed
    session,   \* the process session in scope.json
    edits,     \* number of edits
    sp,        \* where the start is
    seen,      \* what the start has read
    manifest,  \* launch.<task>.json
    lp,        \* where the launcher is
    held,      \* the manifest the launcher has loaded
    why        \* how it classifies its failure: stage and classification

files    == <<config, env, runner, session, edits>>
launcher == <<lp, held, why>>
launch   == <<files, sp, seen, manifest, launcher>>

Nothing == [stage |-> "none", class |-> "none", cause |-> "none"]

LaunchInit ==
    /\ config \in Configs
    /\ env \in [file : {"ok"}, keys : SUBSET Keys]
    /\ runner \in Runners
    /\ session = 0 /\ edits = 0
    /\ sp = "runner" /\ seen = <<>> /\ manifest = NoConfig
    /\ lp = "load" /\ held = NoConfig /\ why = Nothing

-----------------------------------------------------------------------------
(* _do_start_locked, after the checks: the runner contract first.          *)
FreezeRunner ==
    /\ sp = "runner"
    /\ seen' = [runner |-> runner] /\ sp' = "scope"
    /\ UNCHANGED <<files, manifest, launcher>>

(* scope.json with a new process session, and the workspace baseline.      *)
WriteScope ==
    /\ sp = "scope"
    /\ session' = session + 1 /\ sp' = "provider"
    /\ UNCHANGED <<config, env, runner, edits, seen, manifest, launcher>>

StartStops ==
    /\ sp' = "failed"
    /\ UNCHANGED <<files, seen, manifest, launcher>>

(* _load_profile_provider_config and _resolve_profile_credentials.         *)
ReadProvider ==
    /\ sp = "provider"
    /\ IF config = NoConfig THEN StartStops
       ELSE /\ seen' = [runner |-> seen.runner, provider |-> config.provider,
                        key |-> config.key]
            /\ sp' = "config"
            /\ UNCHANGED <<files, manifest, launcher>>

(* The bytes again: their digest, and the model in them.                   *)
ReadConfig ==
    /\ sp = "config"
    /\ IF config = NoConfig THEN StartStops
       ELSE /\ manifest' = [runner |-> seen.runner, provider |-> seen.provider,
                            key |-> seen.key, model |-> config.model,
                            digest |-> config, session |-> session]
            /\ sp' = "launched"
            /\ UNCHANGED <<files, seen, launcher>>

(* The commit of the start fails, and it is called again.                  *)
StartAgain ==
    /\ sp = "launched" /\ session < 2
    /\ sp' = "runner" /\ seen' = <<>>
    /\ UNCHANGED <<files, manifest, launcher>>

-----------------------------------------------------------------------------
(* run(): every check raises an error whose text is all that the handler   *)
(* at the end looks at.  These are the words in the texts.                 *)
Message(cause) ==
    CASE cause = "runner"      -> {"runner", "mismatch"}
      [] cause = "scope"       -> {"scope_binding_mismatch", "binding"}
      [] cause = "config"      -> {"profile_launch_binding", "binding"}
      [] cause = "config gone" -> {"no such file"}
      [] cause = "key missing" -> {"credential"}
      [] cause = "env invalid" -> {"global_env"}

Classify(words) ==
    LET Has(w) == w \in words
    IN IF Has("credential") THEN
            <<"credential_bootstrap",
              IF Has("credential_provider_unsupported") THEN "credential_provider_unsupported"
              ELSE IF Has("credential_authority_invalid") THEN "credential_authority_invalid"
              ELSE IF Has("missing") THEN "credential_missing" ELSE "credential_bootstrap">>
       ELSE IF Has("runner") THEN <<"runner_resolution", "runner_resolution">>
       ELSE IF Has("scope_binding_mismatch") THEN <<"binding_validation", "scope_binding_mismatch">>
       ELSE IF Has("profile_launch_binding") THEN <<"binding_validation", "profile_launch_binding_mismatch">>
       ELSE IF Has("manifest") \/ Has("binding") THEN <<"binding_validation", "binding_invalid">>
       ELSE <<"launcher_internal", "launcher_internal">>

(* A check of the launcher: it goes on, or stops for a cause.              *)
Check(at, ok, cause, next) ==
    /\ lp = at
    /\ IF ok THEN lp' = next /\ UNCHANGED why
       ELSE /\ lp' = "refused"
            /\ why' = [stage |-> Classify(Message(cause))[1],
                       class |-> Classify(Message(cause))[2], cause |-> cause]
    /\ UNCHANGED <<files, sp, seen, manifest, held>>

LoadManifest ==
    /\ lp = "load" /\ sp = "launched"
    /\ held' = manifest /\ lp' = "runner"
    /\ UNCHANGED <<files, sp, seen, manifest, why>>

ValidateManifest == Check("runner", runner = held.runner, "runner", "scope")

ScopeBinding == Check("scope", session = held.session, "scope", "config")

(* Mutation: the digest is taken to say it all.                            *)
SameDigest(m) == config = m.digest

(* _profile_binding: the digest, and provider and model once more.         *)
SameConfig(m) == config = m.digest /\ config.provider = m.provider /\ config.model = m.model

ProfileBinding ==
    Check("config", config # NoConfig /\ SameConfig(held),
          IF config = NoConfig THEN "config gone" ELSE "config", "credentials")

(* resolve_global_provider_credentials, then _child_env.  The runner is    *)
(* inspected again, but not compared; then the worker runs.                *)
Credentials ==
    Check("credentials", env.file = "ok" /\ held.key \in env.keys,
          IF env.file # "ok" THEN "env invalid" ELSE "key missing", "running")

-----------------------------------------------------------------------------
(* Somebody else.                                                          *)
Edit ==
    /\ edits < MaxEdits /\ edits' = edits + 1
    /\ \/ config' \in (Configs \union {NoConfig}) \ {config} /\ UNCHANGED <<env, runner>>
       \/ env' \in [file : {"ok", "invalid"}, keys : SUBSET Keys] \ {env}
          /\ UNCHANGED <<config, runner>>
       \/ runner' \in Runners \ {runner} /\ UNCHANGED <<config, env>>
    /\ UNCHANGED <<session, sp, seen, manifest, launcher>>

LaunchNext ==
    \/ FreezeRunner \/ WriteScope \/ ReadProvider \/ ReadConfig \/ StartAgain
    \/ LoadManifest \/ ValidateManifest \/ ScopeBinding \/ ProfileBinding \/ Credentials
    \/ Edit

-----------------------------------------------------------------------------
(* The worker never runs with the provider of one version of the config    *)
(* and the model of another, whenever the config is edited.                *)
OneConfig ==
    lp = "running" => \E c \in Configs : held.provider = c.provider /\ held.model = c.model
=============================================================================
