-------------------------- MODULE ProjectRegistry --------------------------
(***************************************************************************)
(* The projects of a workspace.  A project is a directory with a manifest  *)
(* .aota/project.yaml; the registry .aota/projects.json lists the projects *)
(* a walk over the directories finds.  initialize_core scaffolds a         *)
(* directory and registers it, registry_refresh rebuilds the list, search  *)
(* reads the list when it is fresh and walks the tree otherwise.  A walk   *)
(* takes its time: other calls, and people who edit the tree, come in      *)
(* between.  Only the writers of the registry take its lock, and give up   *)
(* when somebody else holds it.                                            *)
(***************************************************************************)
EXTENDS Naturals

CONSTANTS
    Roots,     \* directories a project may live in
    Ids,       \* project ids
    Callers,
    MaxCalls,  \* bound: calls
    MaxHarms,  \* bound: edits of the tree or the registry, and deaths
    Edited,    \* what an edit may leave at a root
    None

VARIABLES
    tree,      \* what is at each root: [stage, id, text]
    registry,  \* projects.json: [state, rev, list]
    lock,      \* the caller that holds projects.lock, or None
    call,      \* where each caller's call is
    calls, harms,
    made,      \* history: <<id, root>> that initialize_core reported
    kept,      \* history: those of them nothing has happened to since
    owed       \* history: the records a search of each caller must find

files  == <<tree, registry, lock>>
bounds == <<calls, harms>>
history == <<made, kept, owed>>
registryVars == <<files, call, bounds, history>>

NoList  == [projects |-> {}, invalid |-> {}, duplicates |-> {}]
Missing == [state |-> "missing", rev |-> 0, list |-> NoList]
Bad     == [state |-> "invalid", rev |-> 0, list |-> NoList]
Idle    == [at |-> "idle"]

(* "dirs": .aota without a manifest; "yaml": no observed.json yet;         *)
(* "other": files of somebody else.  Text stands for the manifest's bytes. *)
Places == [stage : {"empty", "other", "dirs", "yaml", "core"}, id : Ids \cup {None},
           text : {None, "broken", "made", "edited"}]

ASSUME RegistryAssumption == None \notin Callers /\ Edited \subseteq Places

-----------------------------------------------------------------------------
(* _scan_sources: what a walk that saw t lists.                            *)
Manifests(t) == {r \in DOMAIN t : t[r].stage \in {"yaml", "core"}}
Loaded(t)    == {r \in Manifests(t) : t[r].text # "broken"}
SameId(t, r) == {q \in Loaded(t) : t[q].id = t[r].id}
ScanFirst(t) ==   \* mutant: as _project_discovery, the first one stays
    LET first == {r \in Loaded(t) : r = CHOOSE q \in SameId(t, r) : TRUE}
    IN  [projects   |-> {[id |-> t[r].id, root |-> r, text |-> t[r].text] : r \in first},
         invalid    |-> {<<r, "manifest_invalid">> : r \in Manifests(t) \ Loaded(t)},
         duplicates |-> {}]
Scan(t) ==
    LET twins == {r \in Loaded(t) : SameId(t, r) # {r}}
    IN  [projects   |-> {[id |-> t[r].id, root |-> r, text |-> t[r].text] : r \in Loaded(t) \ twins},
         invalid    |-> {<<r, "manifest_invalid">> : r \in Manifests(t) \ Loaded(t)}
                            \cup {<<r, "duplicate_project_id">> : r \in twins},
         duplicates |-> {t[r].id : r \in twins}]

(* _source_fingerprint over records, invalid projects and duplicates.      *)
SameSources(a, b) == a = b

Readable(reg) == reg.state = "ok"

(* _build_registry: the revision moves with the fingerprint.               *)
Build(t, previous) ==
    LET list == Scan(t)
    IN  [state |-> "ok",
         list |-> list,
         rev  |-> IF ~Readable(previous) THEN 1
                  ELSE IF SameSources(previous.list, list) THEN previous.rev
                  ELSE previous.rev + 1]

-----------------------------------------------------------------------------
Begin(c, new) ==
    /\ call[c] = Idle /\ calls < MaxCalls
    /\ calls' = calls + 1
    /\ call' = [call EXCEPT ![c] = new]

Goto(c, at)  == call' = [call EXCEPT ![c].at = at]
Return(c)    == call' = [call EXCEPT ![c] = Idle]

(* The history follows every change of the tree: what is made stays made   *)
(* while its place holds that manifest, kept also while it is the only one *)
(* with its id, owed while the record is unchanged.                        *)
Holds(t, x)  == t[x[2]].stage \in {"yaml", "core"} /\ t[x[2]].id = x[1] /\ t[x[2]].text = "made"
Alone(t, x)  == \A r \in Roots \ {x[2]} : t[r].id # x[1]
Follow ==
    /\ made' = {x \in made : Holds(tree', x)}
    /\ kept' = {x \in kept : Holds(tree', x) /\ Alone(tree', x)}
    /\ owed' = [c \in Callers |-> owed[c] \cap Scan(tree').projects]

-----------------------------------------------------------------------------
(* A walk reads one directory after another, always in the same order; the *)
(* call goes on when it has seen them all.                                 *)
Walking == {"prescan", "register", "rebuild", "status", "live"}
Walk(c) ==
    /\ call[c].at \in Walking
    /\ LET seen == call[c].seen
           left == Roots \ DOMAIN seen
           next == CHOOSE r \in left : TRUE
       IN  /\ left # {}
           /\ call' = [call EXCEPT ![c].seen =
                 [s \in DOMAIN seen \cup {next} |-> IF s = next THEN tree[s] ELSE seen[s]]]
    /\ UNCHANGED <<files, bounds, history>>

Walked(c, at) == call[c].at = at /\ DOMAIN call[c].seen = Roots

(* _check_root_state.  The directory of a project is whole when manifest   *)
(* and observed.json can be loaded, and partial with anything less of it.  *)
RootState(place) ==
    CASE place.stage = "empty" -> "not_exists"
      [] place.stage = "other" -> "non_empty"
      [] place.stage = "core" /\ place.text # "broken" -> "initialized_core"
      [] OTHER -> "partial_scaffold"

(* handle_initialize_core, the steward's binding accepted.  A whole        *)
(* project with this id is a repeated call, an absent or empty directory   *)
(* goes on to the scan; all else is rejected.                              *)
Initialize(c, p, r) ==
    LET state == RootState(tree[r])
        new(at) == [at |-> at, id |-> p, root |-> r, seen |-> <<>>, previous |-> Missing]
    IN  /\ Begin(c, CASE state = "initialized_core" /\ tree[r].id = p -> new("repeat")
                      [] state = "not_exists" -> new("prescan")
                      [] OTHER -> Idle)
        /\ UNCHANGED <<files, harms, history>>

(* The repeated call succeeds when the registry lists the project there;    *)
(* it changes nothing, and its answer is not kept.                         *)
Repeat(c) ==
    /\ call[c].at = "repeat"
    /\ Return(c)
    /\ UNCHANGED <<files, bounds, history>>

Prescan(c) ==
    /\ Walked(c, "prescan")
    /\ LET found == Scan(call[c].seen)
       IN  IF call[c].id \in found.duplicates \/ \E x \in found.projects : x.id = call[c].id
           THEN Return(c) ELSE Goto(c, "make")
    /\ UNCHANGED <<files, bounds, history>>

(* _create_scaffold, three durable steps that overwrite what they meet.    *)
MakeDirs(c) ==
    /\ call[c].at = "make"
    /\ LET r == call[c].root
       IN  tree' = [tree EXCEPT ![r].stage = IF @ \in {"empty", "other"} THEN "dirs" ELSE @]
    /\ Goto(c, "manifest") /\ Follow
    /\ UNCHANGED <<registry, lock, bounds>>

WriteManifest(c) ==
    /\ call[c].at = "manifest"
    /\ LET r == call[c].root
       IN  tree' = [tree EXCEPT ![r] = [stage |-> IF @.stage = "core" THEN "core" ELSE "yaml",
                                        id |-> call[c].id, text |-> "made"]]
    /\ Goto(c, "observed") /\ Follow
    /\ UNCHANGED <<registry, lock, bounds>>

WriteObserved(c) ==
    /\ call[c].at = "observed"
    /\ LET r == call[c].root
       IN  tree' = [tree EXCEPT ![r].stage = CASE @ = "yaml" -> "core"
                                               [] @ \in {"empty", "other"} -> "dirs"
                                               [] OTHER -> @]
    /\ Goto(c, "enrol") /\ Follow
    /\ UNCHANGED <<registry, lock, bounds>>

-----------------------------------------------------------------------------
(* The writers: _register_in_registry and refresh_registry.  Under the     *)
(* lock they read the registry, walk the tree and write.                   *)
TakeLock(c, at) ==
    IF lock = None
    THEN /\ lock' = c
         /\ call' = [call EXCEPT ![c].at = at, ![c].seen = <<>>, ![c].previous = registry]
    ELSE /\ UNCHANGED lock /\ Return(c)

Publish(built) == registry' = built

Enrol(c) ==
    /\ call[c].at = "enrol"
    /\ TakeLock(c, "register")
    /\ UNCHANGED <<tree, registry, bounds, history>>

(* The project must be listed, once, at its own root.                      *)
Listed(built, p, r) ==
    /\ p \notin built.list.duplicates
    /\ \E x \in built.list.projects : x.id = p /\ x.root = r

RegisterBuilt(c) ==
    /\ Walked(c, "register")
    /\ LET built == Build(call[c].seen, call[c].previous)
       IN  IF Listed(built, call[c].id, call[c].root)
           THEN /\ call' = [call EXCEPT ![c].at = "write", ![c].previous = built]
                /\ UNCHANGED lock
           ELSE Return(c) /\ lock' = None
    /\ UNCHANGED <<tree, registry, bounds, history>>

RegisterWrite(c) ==
    /\ call[c].at = "write"
    /\ Publish(call[c].previous)
    /\ lock' = None /\ Return(c)
    /\ LET x == <<call[c].id, call[c].root>>
       IN  /\ made' = made \cup {y \in {x} : Holds(tree, y)}
           /\ kept' = kept \cup {y \in {x} : Holds(tree, y) /\ Alone(tree, y)}
    /\ UNCHANGED <<tree, bounds, owed>>

RefreshUnlocked(c, dry) ==   \* mutant: does not ask for the lock
    /\ call[c] = Idle /\ calls < MaxCalls /\ calls' = calls + 1
    /\ call' = [call EXCEPT ![c] = [at |-> "rebuild", dry |-> dry, seen |-> <<>>, previous |-> registry]]
    /\ UNCHANGED <<files, harms, history>>
Refresh(c, dry) ==
    /\ call[c] = Idle /\ calls < MaxCalls /\ calls' = calls + 1
    /\ IF lock = None
       THEN /\ lock' = c
            /\ call' = [call EXCEPT ![c] = [at |-> "rebuild", dry |-> dry, seen |-> <<>>, previous |-> registry]]
       ELSE UNCHANGED <<lock, call>>
    /\ UNCHANGED <<tree, registry, harms, history>>

RefreshWrite(c) ==
    /\ Walked(c, "rebuild")
    /\ LET built == Build(call[c].seen, call[c].previous)
       IN  IF call[c].dry \/ built = call[c].previous THEN UNCHANGED registry ELSE Publish(built)
    /\ lock' = None /\ Return(c)
    /\ UNCHANGED <<tree, bounds, history>>

-----------------------------------------------------------------------------
(* load_search_records: registry_status, then the registry is read again.  *)
(* The history notes what is there to be found when no writer is under way. *)
Search(c) ==
    /\ Begin(c, [at |-> IF Readable(registry) THEN "status" ELSE "live", seen |-> <<>>, previous |-> registry])
    /\ owed' = [owed EXCEPT ![c] = IF lock = None THEN Scan(tree).projects ELSE {}]
    /\ UNCHANGED <<files, harms, made, kept>>

FreshAlways(c) == TRUE   \* mutant: the registry is believed
Fresh(c) == SameSources(call[c].previous.list, Scan(call[c].seen))

Status(c) ==
    /\ Walked(c, "status")
    /\ call' = [call EXCEPT ![c] = IF Fresh(c) THEN [at |-> "reread"] ELSE [at |-> "live", seen |-> <<>>]]
    /\ UNCHANGED <<files, bounds, history>>

Reread(c) ==
    /\ call[c].at = "reread"
    /\ call' = [call EXCEPT ![c] = IF Readable(registry) THEN [at |-> "found", answer |-> registry.list.projects]
                                   ELSE [at |-> "live", seen |-> <<>>]]
    /\ UNCHANGED <<files, bounds, history>>

Live(c) ==
    /\ Walked(c, "live")
    /\ call' = [call EXCEPT ![c] = [at |-> "found", answer |-> Scan(call[c].seen).projects]]
    /\ UNCHANGED <<files, bounds, history>>

Answered(c) ==
    /\ call[c].at = "found" /\ Return(c)
    /\ owed' = [owed EXCEPT ![c] = {}]
    /\ UNCHANGED <<files, bounds, made, kept>>

-----------------------------------------------------------------------------
(* People put projects into the tree, copy, edit and remove them.          *)
EditTree(r, v) ==
    /\ harms < MaxHarms /\ v # tree[r]
    /\ harms' = harms + 1
    /\ tree' = [tree EXCEPT ![r] = v]
    /\ Follow
    /\ UNCHANGED <<registry, lock, call, calls>>

(* The registry is removed, or spoilt; nothing is kept by it then.         *)
Damage ==
    /\ harms < MaxHarms
    /\ harms' = harms + 1 /\ kept' = {}
    /\ registry' \in {Missing, Bad}
    /\ UNCHANGED <<tree, lock, call, calls, made, owed>>

(* A call dies; the kernel releases its lock.                              *)
Die(c) ==
    /\ call[c] # Idle
    /\ harms < MaxHarms /\ harms' = harms + 1
    /\ Return(c)
    /\ lock' = IF lock = c THEN None ELSE lock
    /\ owed' = [owed EXCEPT ![c] = {}]
    /\ UNCHANGED <<tree, registry, calls, made, kept>>

RegistryInit ==
    /\ tree = [r \in Roots |-> [stage |-> "empty", id |-> None, text |-> None]]
    /\ registry = Missing /\ lock = None
    /\ call = [c \in Callers |-> Idle]
    /\ calls = 0 /\ harms = 0
    /\ made = {} /\ kept = {} /\ owed = [c \in Callers |-> {}]

RegistryNext ==
    \/ \E c \in Callers :
          \/ \E p \in Ids, r \in Roots : Initialize(c, p, r)
          \/ Repeat(c) \/ Prescan(c) \/ MakeDirs(c) \/ WriteManifest(c) \/ WriteObserved(c)
          \/ Enrol(c) \/ RegisterBuilt(c) \/ RegisterWrite(c)
          \/ \E dry \in BOOLEAN : Refresh(c, dry)
          \/ RefreshWrite(c)
          \/ Search(c) \/ Status(c) \/ Reread(c) \/ Live(c) \/ Answered(c)
          \/ Walk(c) \/ Die(c)
    \/ \E r \in Roots, v \in Edited : EditTree(r, v)
    \/ Damage
RegistrySpec == RegistryInit /\ [][RegistryNext]_registryVars

-----------------------------------------------------------------------------
(* Two initializations of one id at two roots are not both reported as     *)
(* done, unless somebody has changed the manifest of one of them since     *)
(* (the scan before the scaffold and the one under the lock).              *)
NoTwoHomes == \A x, y \in made : x[1] = y[1] => x = y

(* A project whose initialization was reported is in the registry, at its  *)
(* root, for as long as its manifest stays, no second one has its id and   *)
(* nobody harms the registry: no refresh that was under way, no other      *)
(* initialization and no call that dies takes it out again.                *)
SuccessStays ==
    \A x \in kept :
        /\ Readable(registry)
        /\ \E y \in registry.list.projects : y.id = x[1] /\ y.root = x[2]

(* A search returns every project that was there, alone with its id and    *)
(* with the same manifest, from the beginning of the search to its end,    *)
(* whether the registry is fresh, stale, spoilt or missing; provided no    *)
(* writer held the lock when it began.                                     *)
SearchFinds ==
    \A c \in Callers : call[c].at = "found" => owed[c] \subseteq call[c].answer
=============================================================================
