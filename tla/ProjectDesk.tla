----------------------------- MODULE ProjectDesk -----------------------------
(***************************************************************************)
(* The tools that only read the projects of ProjectRegistry: scan, status  *)
(* and opening of the registry, opening of a project, and the brief.  Each *)
(* of them looks in its own place: a walk of its own, the list, or the     *)
(* list for the place and the manifest for the rest.  Here they are what   *)
(* they answer when nothing changes meanwhile.  Names, summaries, paths    *)
(* and commands of a project are left out, and so are size limits.         *)
(***************************************************************************)
EXTENDS ProjectRegistry, Sequences

CONSTANT Top     \* the directory of the workspace itself, or None

(* aota_project_scan: the first manifest with an id stands, in the order   *)
(* of the walk, and the others are listed as invalid.                      *)
WalkedFirst(places) == CHOOSE r \in places : TRUE

Discovered ==
    LET first == {r \in Loaded(tree) : r = WalkedFirst(SameId(tree, r))}
    IN  [projects |-> {[id |-> tree[r].id, root |-> r, text |-> tree[r].text] : r \in first},
         invalid  |-> {<<r, "manifest_invalid">> : r \in Manifests(tree) \ Loaded(tree)}
                          \cup {<<r, "duplicate_project_id">> : r \in Loaded(tree) \ first}]

RegistryStatus ==
    IF ~Readable(registry) THEN registry.state
    ELSE IF SameSources(registry.list, Scan(tree)) THEN "fresh" ELSE "stale"

(* aota_project_registry_open shows the list also when it is stale.        *)
RegistryOpened == [status |-> RegistryStatus, revision |-> registry.rev, list |-> registry.list]

SearchRecords ==
    IF RegistryStatus = "fresh" THEN registry.list.projects ELSE Scan(tree).projects

-----------------------------------------------------------------------------
(* observed.json, where there is one: it can be loaded, and names a project *)
(* and a plan, or it cannot.                                               *)
Observation(r, file) ==
    IF tree[r].stage = "core" THEN file ELSE [file EXCEPT !.state = "missing"]

Says(observed) == observed.state = "valid"

CardWarnings(p, declared, observed) ==
    {w \in {"observed_invalid", "observed_project_id_conflict", "observed_active_plan_conflict"} :
        CASE w = "observed_invalid"             -> observed.state = "invalid"
          [] w = "observed_project_id_conflict" -> Says(observed) /\ observed.id # p
          [] OTHER                              -> Says(observed) /\ observed.plan # declared}

(* aota_project_open                                                       *)
OpenedProject(p, declared, file) ==
    {[id |-> x.id, root |-> x.root, text |-> x.text,
      warnings |-> CardWarnings(p, declared, Observation(x.root, file))] :
        x \in {x \in Discovered.projects : x.id = p}}

-----------------------------------------------------------------------------
(* aota_project_prepare: the list says where to look, fresh or not; what   *)
(* is not listed is looked for at the top.                                 *)
ListedAs(p) == {x \in registry.list.projects : Readable(registry) /\ x.id = p}

PlaceOf(p) ==
    IF ListedAs(p) = {} THEN Top ELSE (CHOOSE x \in ListedAs(p) : TRUE).root

BriefRefusal(p) ==
    LET r == PlaceOf(p)
    IN  IF r \notin Manifests(tree)
        THEN IF ListedAs(p) = {} THEN "project_not_found" ELSE "manifest_missing"
        ELSE IF r \notin Loaded(tree) THEN "manifest_invalid"
        ELSE IF tree[r].id # p THEN "project_not_found" ELSE "none"

(* "fresh" is said of this project, not of the list as a whole.            *)
BriefFreshness(p) ==
    IF ~Readable(registry) THEN registry.state
    ELSE IF \E x \in ListedAs(p) : x.text = tree[x.root].text THEN "fresh" ELSE "stale"

PlanStatus(declared, observed) ==
    LET seen == IF Says(observed) THEN observed.plan ELSE None
    IN  IF declared = None /\ seen = None THEN "not_linked"
        ELSE IF ~Says(observed) THEN "declared"
        ELSE IF declared = seen THEN "declared_observed_match" ELSE "declared_observed_conflict"

BriefWarnings(p, declared, observed) ==
    CardWarnings(p, declared, observed)
        \cup {w \in {"registry_manifest_mismatch"} :
                ListedAs(p) # {} /\ BriefFreshness(p) = "stale"}

Brief(p, declared, file) ==
    LET r == PlaceOf(p)
        observed == Observation(r, file)
    IN  IF BriefRefusal(p) # "none" THEN [status |-> "error", code |-> BriefRefusal(p)]
        ELSE [status |-> "ok", root |-> r, text |-> tree[r].text,
              registry |-> BriefFreshness(p),
              plan |-> PlanStatus(declared, observed),
              warnings |-> BriefWarnings(p, declared, observed)]

-----------------------------------------------------------------------------
(* What the tools say of a project a search lists: opened, it is the same  *)
(* manifest at the same place, with what is odd about it told as in its    *)
(* brief.  The brief is of that manifest too, or fails, which it only does *)
(* when the registry is not fresh; a fresh registry is told as such by all *)
(* of them.                                                                *)
DeskAgrees(plans, observations) ==
    LET fresh == RegistryStatus = "fresh"
    IN  \A x \in SearchRecords :
          LET same(y) == y.root = x.root /\ y.text = x.text
              refused == BriefRefusal(x.id) # "none"
          IN  /\ fresh \/ (~refused /\ BriefFreshness(x.id) = "fresh") =>
                    x \in RegistryOpened.list.projects
              /\ fresh => ~refused /\ BriefFreshness(x.id) = "fresh"
              /\ \A declared \in plans, file \in observations :
                    LET b == Brief(x.id, declared, file)
                        opened == OpenedProject(x.id, declared, file)
                    IN  /\ opened # {}
                        /\ \A o \in opened :
                              same(o) /\ (~refused => o.warnings =
                                 b.warnings \ {"registry_manifest_mismatch"})
                        /\ ~refused => same(b)

Observations ==
    {[state |-> "valid", id |-> None, plan |-> "plan"],   \* of another project
     [state |-> "invalid", id |-> None, plan |-> None]}

(* A search finds what is there, and the other tools that look for what it *)
(* found, each in a place of its own, tell of the same project.            *)
FoundAlike == SearchFinds /\ DeskAgrees({None}, Observations)
=============================================================================
