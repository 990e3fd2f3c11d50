-------------------------- MODULE SymlinkProjection --------------------------
(***************************************************************************)
(* The check of a plugin projection (scripts/_host_symlink_projection.py): *)
(* profiles/<p>/plugins/aota-tools has to be a link to plugins/aota-tools  *)
(* of the runtime.  The deployment asks it around every write and never    *)
(* writes through the link.                                                *)
(*                                                                         *)
(* A tree gives an entry to each path: "dir", "file", "missing", or the    *)
(* path a link points to.  Links are absolute here.                        *)
(***************************************************************************)
EXTENDS Naturals

VARIABLE layout      \* the tree the check finds

Root     == "root"        \* the runtime root
Global   == "global"      \* plugins/aota-tools, the one that is written
Logical  == "logical"     \* profiles/<p>/plugins/aota-tools
Nowhere  == "nowhere"     \* what does not resolve

\* Of each path its lexical parent and its last component.
Parent ==
  [plugins |-> Root, global |-> "plugins",
   profiles |-> Root, own |-> "profiles", local |-> "own", logical |-> "local",
   spare |-> Root, side |-> "spare",
   other |-> "profiles", stray |-> "other"]

Name ==
  [plugins |-> "plugins", global |-> "aota-tools",
   profiles |-> "profiles", own |-> "p", local |-> "plugins",
   logical |-> "aota-tools", spare |-> "spare", side |-> "aota-tools",
   other |-> "q", stray |-> "aota-tools"]

Paths == DOMAIN Parent \union {Root, "outside"}

Trees == [Paths -> {"dir", "file", "missing"} \union Paths]

IsLink(entry) == entry \in Paths

\* The path of that name in a directory; links above it are not read.
Child(dir, name) ==
  LET found == {p \in DOMAIN Parent : Parent[p] = dir /\ Name[p] = name}
  IN IF found = {} THEN Nowhere ELSE CHOOSE p \in found : TRUE

\* A chain this long, twice the number of paths, is a circle.
MaxHops == 24

(***************************************************************************)
(* What the operating system does: where a path leads when every link on   *)
(* it is followed, and the entry itself when only those above it are.      *)
(***************************************************************************)
Reach(tree, real, p) ==
  IF p \notin DOMAIN Parent THEN p
  ELSE LET dir == real[Parent[p]]
       IN IF dir = Nowhere THEN Nowhere
          ELSE IF tree[dir] # "dir" THEN Nowhere ELSE Child(dir, Name[p])

\* Where they lead when links on the way lead to `real`.
Follow(tree, real) ==
  [p \in Paths |->
     LET q == Reach(tree, real, p)
     IN IF q = Nowhere THEN Nowhere
        ELSE IF tree[q] = "missing" THEN Nowhere
        ELSE IF IsLink(tree[q]) THEN real[tree[q]] ELSE q]

RealPaths(tree) ==
  LET real[n \in 0 .. MaxHops] ==
        IF n = 0 THEN [p \in Paths |-> Nowhere] ELSE Follow(tree, real[n-1])
  IN real[MaxHops]

\* lstat: the entry of a path, the last link not followed.
Lstat(tree, p) ==
  LET q == Reach(tree, RealPaths(tree), p)
  IN IF q = Nowhere THEN "missing" ELSE tree[q]

(***************************************************************************)
(* The helpers.                                                            *)
(***************************************************************************)
Ancestors(p) ==
  CASE p = Logical -> {"local", "own", "profiles"}
    [] p = Global  -> {"plugins"}

ParentChainHasSymlink(tree, p) ==
  \E a \in Ancestors(p) : IsLink(Lstat(tree, a))

Within(p) == p # "outside"      \* of the root

\* The link of a link is followed without looking at directories on the way;
\* a path outside of the root is not looked at.
LinkDepth(tree, p) ==
  LET hop == Lstat(tree, p)
  IN IF ~IsLink(hop) THEN 0
     ELSE IF ~Within(hop) \/ ~IsLink(Lstat(tree, hop)) THEN 1 ELSE 2

(***************************************************************************)
(* validate_projection: "valid" or the reason, in the order of the code.   *)
(***************************************************************************)
GlobalIsPlainAny(tree) == TRUE     \* mutant: the target is not looked at

GlobalIsPlain(tree) ==
  ~IsLink(Lstat(tree, Global)) /\ ~ParentChainHasSymlink(tree, Global)

Validate(tree) ==
  LET resolved == RealPaths(tree)[Logical]
  IN IF IsLink(tree[Root]) THEN "runtime_root_is_symlink"
     ELSE IF ~IsLink(Lstat(tree, Logical)) THEN "logical_path_is_not_symlink"
     ELSE IF ParentChainHasSymlink(tree, Logical)
       THEN "logical_parent_contains_symlink"
     ELSE IF LinkDepth(tree, Logical) # 1 THEN "symlink_chain"
     ELSE IF resolved = Nowhere THEN "dangling_or_circular_symlink"
     ELSE IF tree[resolved] # "dir" THEN "target_is_not_directory"
     ELSE IF ~Within(resolved) THEN "target_outside_runtime_root"
     ELSE IF resolved # RealPaths(tree)[Global] THEN "target_mismatch"
     ELSE IF ~GlobalIsPlain(tree) THEN "target_root_or_parent_is_symlink"
     ELSE "valid"

\* validate_contract_runtime: the declared projection is valid, and no other
\* profile has a link in its place.
ContractHolds(tree) ==
  /\ Validate(tree) = "valid"
  /\ Lstat(tree, "profiles") = "dir" => ~IsLink(Lstat(tree, "stray"))

(***************************************************************************)
(* Anybody may rearrange the tree between two checks.                      *)
(***************************************************************************)
ProjectionSpec == layout \in Trees /\ [][layout' \in Trees]_layout

-----------------------------------------------------------------------------
(* A projection that passes leads into the one plugin directory, over      *)
(* directories that are none of them links and by a single link: what is   *)
(* written to the global plugin is what the profile runs.                  *)
LandsHome ==
  ContractHolds(layout) =>
    /\ RealPaths(layout)[Logical] = Global
    /\ \A p \in Ancestors(Logical) \union Ancestors(Global) \union {Root, Global} :
         Lstat(layout, p) = "dir"
    /\ IsLink(layout[Logical])
=============================================================================
