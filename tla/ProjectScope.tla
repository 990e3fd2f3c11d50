---------------------------- MODULE ProjectScope ----------------------------
(***************************************************************************)
(* What the scope of a frozen SPEC says of a path.  Three pieces of code   *)
(* decide it, each with a matcher of its own: the guard of the file tools, *)
(* the copy tool and the verifier that runs after the worker.              *)
(*                                                                         *)
(* A path is a sequence of names.  A pattern is one too, whose last name   *)
(* may be "*" or "**"; wildcards in front or inside a name are left out.   *)
(***************************************************************************)
EXTENDS SequencesExt

Wild(p)    == p # <<>> /\ Last(p) \in {"*", "**"}
Under(path, dir) == IsStrictPrefix(dir, path)

(* The guard takes a pattern without its trailing "/**" as a directory or  *)
(* file, and falls back to PurePosixPath.match, which compares from the    *)
(* right and takes "**" for one name.                                      *)
FromRight(path, p) ==
    /\ Len(p) <= Len(path)
    /\ \A i \in DOMAIN p :
          p[i] \in {"*", "**"} \/ p[i] = path[Len(path) - Len(p) + i]
GuardMatches(path, p) ==
    \/ IsPrefix(IF p # <<>> /\ Last(p) = "**" THEN Front(p) ELSE p, path)
    \/ FromRight(path, p)

(* The verifier tries fnmatch, whose "*" crosses "/", on the pattern and   *)
(* on the pattern with "/**" behind it.                                    *)
VerifierMatches(path, p) ==
    IF Wild(p) THEN Under(path, Front(p)) ELSE IsPrefix(p, path)

(* The copy tool tries fnmatch on the pattern alone.                       *)
CopyMatches(path, p) == IF Wild(p) THEN Under(path, Front(p)) ELSE path = p

GuardAllows(path, patterns)    == \E p \in patterns : GuardMatches(path, p)
VerifierAllows(path, patterns) == \E p \in patterns : VerifierMatches(path, p)
CopyAllows(path, patterns)     == \E p \in patterns : CopyMatches(path, p)

-----------------------------------------------------------------------------
(* extract_canonical_scope: the payload of the SPEC wins, an explicit      *)
(* empty list included; a field it does not have is taken from the top.    *)
Fields == {"read_scope", "write_scope", "forbidden_scope"}

CanonicalScope(spec) ==
    [f \in Fields |->
        CASE f \in DOMAIN spec.payload -> spec.payload[f]
          [] f \notin DOMAIN spec.payload /\ f \in DOMAIN spec.top -> spec.top[f]
          [] OTHER -> {}]

-----------------------------------------------------------------------------
(* classify_path: what a path of the workspace is to the verifier.  Code   *)
(* of the plugin is a runtime dependency wherever it lies, and so is       *)
(* everything in a workspace that lies below the runtime root.             *)
Tier(path, op, plugin, runtime) ==
    CASE runtime                         -> "RUNTIME_CONTROL_PLANE"
      [] ~runtime /\ path \in plugin     -> "PLUGIN_RUNTIME"
      [] ~runtime /\ path \notin plugin /\ ".aota" \in ToSet(path) -> "PROJECT_METADATA"
      [] OTHER -> IF op = "read" THEN "PROJECT_READ" ELSE "PROJECT_WRITE"

ProjectTiers == {"PROJECT_READ", "PROJECT_WRITE", "PROJECT_METADATA"}
=============================================================================
