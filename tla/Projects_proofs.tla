---------------------------- MODULE Projects_proofs ----------------------------
(* Proofs about the registry of projects and the tools that read it, for   *)
(* any number of callers, roots, calls and edits: an id has one home, a    *)
(* project that was reported stays listed, a search finds what is there    *)
(* and the tools agree on it.  At the end, the codegraph: for any sources, *)
(* rebuilders and edits, it says ready only of an index that is.           *)
EXTENDS ProjectDesk, CodegraphIndex, FiniteSetTheorems, TLAPS

(* Types.  The fields of a call go with where it is.                       *)
Entries == [id : Ids \cup {None}, root : Roots, text : {None, "broken", "made", "edited"}]
Lists == [projects : SUBSET Entries,
          invalid : SUBSET (Roots \X {"manifest_invalid", "duplicate_project_id"}),
          duplicates : SUBSET (Ids \cup {None})]
Registries == [state : {"ok", "missing", "invalid"}, rev : Nat, list : Lists]
Walks == UNION {[S -> Places] : S \in SUBSET Roots}
InitSteps == {"repeat", "prescan", "make", "manifest", "observed", "enrol", "register", "write"}
InitCalls == [at : InitSteps, id : Ids, root : Roots, seen : Walks, previous : Registries]
RefreshCalls == [at : {"rebuild"}, dry : BOOLEAN, seen : Walks, previous : Registries]
StatusCalls == [at : {"status", "live"}, seen : Walks, previous : Registries]
LiveCalls == [at : {"live"}, seen : Walks]
Calls == {Idle} \cup InitCalls \cup RefreshCalls \cup StatusCalls \cup LiveCalls
             \cup [at : {"reread"}] \cup [at : {"found"}, answer : SUBSET Entries]

RTypeOK ==
    /\ tree \in [Roots -> Places] /\ registry \in Registries
    /\ lock \in Callers \cup {None} /\ call \in [Callers -> Calls]
    /\ calls \in Nat /\ harms \in Nat
    /\ made \subseteq Ids \X Roots /\ kept \subseteq Ids \X Roots
    /\ owed \in [Callers -> SUBSET Entries]

Writing == {"register", "write", "rebuild"}
LockOK == \A c \in Callers : call[c].at \in Writing => lock = c

TreeOK ==
    /\ \A x \in made : Holds(tree, x)
    /\ \A x \in kept : Holds(tree, x) /\ Alone(tree, x)
    /\ \A c \in Callers : owed[c] \subseteq Scan(tree).projects

(* What a walk has seen so far of a project it must list.                  *)
Sees(seen, y) ==
    /\ y.root \in DOMAIN seen =>
           y.root \in Loaded(seen) /\ seen[y.root].id = y.id /\ seen[y.root].text = y.text
    /\ \A s \in Loaded(seen) : seen[s].id = y.id => s = y.root
SeesKept(seen, x) ==
    /\ x[2] \in DOMAIN seen => Holds(seen, x)
    /\ \A s \in DOMAIN seen \ {x[2]} : seen[s].id # x[1]
ListsAt(list, x) == \E y \in list.projects : y.id = x[1] /\ y.root = x[2]
OneEach(list) == \A y, z \in list.projects : y.id = z.id => y = z

(* A writer has seen, as far as its walk has come, what it must not lose:  *)
(* m is what was made, k what is kept of it, w what searches are owed.     *)
WriterFits(n, m, k, w) ==
    /\ n.at = "register" => \A x \in m : x[2] \in DOMAIN n.seen => Holds(n.seen, x)
    /\ n.at \in {"register", "rebuild"} =>
        /\ \A x \in k : SeesKept(n.seen, x)
        /\ \A d \in Callers : \A y \in w[d] : Sees(n.seen, y)
    /\ n.at = "write" =>
        /\ Readable(n.previous) /\ OneEach(n.previous.list)
        /\ ListsAt(n.previous.list, <<n.id, n.root>>)
        /\ \A x \in m : x[1] = n.id => x[2] = n.root
        /\ \A x \in k : ListsAt(n.previous.list, x)
        /\ \A d \in Callers : w[d] \subseteq n.previous.list.projects

SearchFits(n, mine, reg) ==
    /\ n.at \in {"status", "live"} => \A y \in mine : Sees(n.seen, y)
    /\ n.at = "status" =>
           reg = n.previous \/ (Readable(reg) => mine \subseteq reg.list.projects)
    /\ n.at = "reread" => (Readable(reg) => mine \subseteq reg.list.projects)
    /\ n.at = "found" => mine \subseteq n.answer

CallsOK == \A c \in Callers : /\ WriterFits(call[c], made, kept, owed)
                              /\ SearchFits(call[c], owed[c], registry)

ListOK ==
    /\ Readable(registry) => OneEach(registry.list)
    /\ \A x \in kept : Readable(registry) /\ ListsAt(registry.list, x)

RInv == RTypeOK /\ LockOK /\ TreeOK /\ ListOK /\ NoTwoHomes /\ CallsOK

-----------------------------------------------------------------------------
(* Walks and lists *)

LEMMA WalkType ==
    ASSUME NEW t \in Walks
    PROVE  /\ DOMAIN t \subseteq Roots
           /\ \A r \in DOMAIN t : /\ t[r] \in Places /\ t[r].id \in Ids \cup {None}
                                  /\ t[r].text \in {None, "broken", "made", "edited"}
BY DEF Walks, Places

LEMMA NothingSeen == <<>> \in Walks /\ DOMAIN <<>> = {}
<1>1. <<>> \in [{} -> Places] /\ DOMAIN <<>> = {} OBVIOUS
<1>2. QED BY <1>1 DEF Walks

LEMMA TreeWalk == ASSUME NEW t \in [Roots -> Places] PROVE t \in Walks
BY DEF Walks

(* A project is listed just when it can be loaded and is alone with its id. *)
LEMMA ScanLists ==
    ASSUME NEW t \in Walks
    PROVE  \A y : y \in Scan(t).projects <=>
               \E r \in Loaded(t) : /\ y = [id |-> t[r].id, root |-> r, text |-> t[r].text]
                                    /\ \A q \in Loaded(t) : t[q].id = t[r].id => q = r
<1>1. \A r \in Loaded(t) : SameId(t, r) = {r} <=> \A q \in Loaded(t) : t[q].id = t[r].id => q = r
    BY DEF SameId
<1>2. Scan(t).projects =
          {[id |-> t[r].id, root |-> r, text |-> t[r].text] :
              r \in Loaded(t) \ {r \in Loaded(t) : SameId(t, r) # {r}}}
    BY DEF Scan
<1>3. QED BY <1>1, <1>2

LEMMA ScanType == ASSUME NEW t \in Walks PROVE Scan(t) \in Lists
<1>1. Scan(t).projects \subseteq Entries
    BY WalkType, ScanLists DEF Entries, Loaded, Manifests
<1>2. Scan(t).invalid \subseteq Roots \X {"manifest_invalid", "duplicate_project_id"}
    BY WalkType DEF Scan, Loaded, Manifests
<1>3. Scan(t).duplicates \subseteq Ids \cup {None}
    BY WalkType DEF Scan, Loaded, Manifests
<1>4. Scan(t) = [projects |-> Scan(t).projects, invalid |-> Scan(t).invalid,
                 duplicates |-> Scan(t).duplicates]
    BY DEF Scan
<1>5. QED BY <1>1, <1>2, <1>3, <1>4 DEF Lists

LEMMA ScanOneEach == ASSUME NEW t \in Walks PROVE OneEach(Scan(t))
BY ScanLists DEF OneEach

(* What is listed of a tree is seen by a walk that reads that tree, and    *)
(* what a whole walk has seen so is listed.                                *)
LEMMA ScanSees ==
    ASSUME NEW t \in Walks, NEW y \in Scan(t).projects
    PROVE  Sees(t, y) /\ y.root \in Loaded(t) /\ y \in Entries
<1>1. y \in Entries BY ScanType DEF Lists
<1>2. QED BY <1>1, ScanLists DEF Sees

LEMMA SeesAll ==
    ASSUME NEW t \in Walks, DOMAIN t = Roots, NEW y \in Entries, Sees(t, y)
    PROVE  y \in Scan(t).projects
<1>1. y.root \in Loaded(t) /\ t[y.root].id = y.id /\ t[y.root].text = y.text
    BY DEF Sees, Entries
<1>2. y = [id |-> t[y.root].id, root |-> y.root, text |-> t[y.root].text]
    BY <1>1 DEF Entries
<1>3. QED BY <1>1, <1>2, ScanLists DEF Sees

LEMMA KeptListed ==
    ASSUME NEW t \in Walks, DOMAIN t = Roots, NEW x \in Ids \X Roots, SeesKept(t, x)
    PROVE  ListsAt(Scan(t), x)
<1>1. Holds(t, x) /\ x[2] \in Roots BY DEF SeesKept
<1>2. x[2] \in Loaded(t) BY <1>1 DEF Holds, Loaded, Manifests
<1>3. \A q \in Loaded(t) : t[q].id = t[x[2]].id => q = x[2]
    BY <1>1, WalkType DEF SeesKept, Holds, Loaded, Manifests
<1>4. [id |-> t[x[2]].id, root |-> x[2], text |-> t[x[2]].text] \in Scan(t).projects
    BY <1>2, <1>3, ScanLists
<1>5. QED BY <1>1, <1>4 DEF ListsAt, Holds

(* One more directory read.                                                *)
LEMMA Reads ==
    ASSUME NEW t \in [Roots -> Places], NEW u \in Walks, NEW r \in Roots, r \notin DOMAIN u
    PROVE  LET v == [s \in DOMAIN u \cup {r} |-> IF s = r THEN t[s] ELSE u[s]]
           IN  /\ v \in Walks
               /\ \A y : Sees(u, y) /\ Sees(t, y) => Sees(v, y)
               /\ \A x \in Ids \X Roots : SeesKept(u, x) /\ Holds(t, x) /\ Alone(t, x) => SeesKept(v, x)
               /\ \A x : (x[2] \in DOMAIN u => Holds(u, x)) /\ Holds(t, x) =>
                             (x[2] \in DOMAIN v => Holds(v, x))
<1> DEFINE v == [s \in DOMAIN u \cup {r} |-> IF s = r THEN t[s] ELSE u[s]]
<1>1. DOMAIN u \subseteq Roots /\ DOMAIN t = Roots BY WalkType
<1>2. v \in [DOMAIN u \cup {r} -> Places] BY WalkType
<1>3. v \in Walks
    <2>1. DOMAIN u \cup {r} \in SUBSET Roots BY <1>1
    <2> HIDE DEF v
    <2>2. QED BY <1>2, <2>1 DEF Walks
<1>4. \A s \in DOMAIN v : v[s] = IF s = r THEN t[s] ELSE u[s] OBVIOUS
<1>5. DOMAIN v = DOMAIN u \cup {r} OBVIOUS
<1> HIDE DEF v
<1>6. Loaded(v) \subseteq Loaded(u) \cup {r}
    BY <1>4, <1>5 DEF Loaded, Manifests
<1>7. ASSUME NEW y, Sees(u, y), Sees(t, y) PROVE Sees(v, y)
    BY <1>1, <1>4, <1>5, <1>7 DEF Sees, Loaded, Manifests
<1>8. ASSUME NEW x \in Ids \X Roots, SeesKept(u, x), Holds(t, x), Alone(t, x)
      PROVE  SeesKept(v, x)
    BY <1>1, <1>4, <1>5, <1>8 DEF SeesKept, Holds, Alone
<1>9. ASSUME NEW x, x[2] \in DOMAIN u => Holds(u, x), Holds(t, x), x[2] \in DOMAIN v
      PROVE  Holds(v, x)
    BY <1>4, <1>5, <1>9 DEF Holds
<1>10. QED BY <1>3, <1>7, <1>8, <1>9 DEF v
-----------------------------------------------------------------------------
(* What a call carries follows from where it is.                           *)
LEMMA CallKinds ==
    ASSUME NEW n \in Calls
    PROVE  /\ n.at = "idle" => n = Idle
           /\ n.at \in InitSteps => n \in InitCalls
           /\ n.at = "rebuild" => n \in RefreshCalls
           /\ n.at = "status" => n \in StatusCalls
           /\ n.at = "live" => n \in StatusCalls \cup LiveCalls
           /\ n.at = "found" => n.answer \subseteq Entries
           /\ n.at \in Walking => n.seen \in Walks
BY DEF Calls, Idle, InitSteps, InitCalls, RefreshCalls, StatusCalls, LiveCalls, Walking

(* A call that is at no such step promises nothing.                        *)
LEMMA Promises ==
    ASSUME NEW n, NEW m, NEW k, NEW w, NEW mine, NEW reg
    PROVE  /\ n.at \notin Writing => WriterFits(n, m, k, w)
           /\ n.at \notin {"status", "live", "reread", "found"} => SearchFits(n, mine, reg)
BY DEF WriterFits, SearchFits, Writing

(* It promises no more when the history has less in it.                    *)
LEMMA LessOwed ==
    ASSUME NEW n, NEW m, NEW k, NEW w, NEW m1, NEW k1, NEW w1,
           WriterFits(n, m, k, w), m1 \subseteq m, k1 \subseteq k,
           \A d \in Callers : w1[d] \subseteq w[d]
    PROVE  WriterFits(n, m1, k1, w1)
BY DEF WriterFits

LEMMA LessMine ==
    ASSUME NEW n, NEW mine, NEW less, NEW reg, SearchFits(n, mine, reg), less \subseteq mine
    PROVE  SearchFits(n, less, reg)
BY DEF SearchFits

LEMMA InitRInv == RegistryInit => RInv
<1> SUFFICES ASSUME RegistryInit PROVE RInv OBVIOUS
<1>1. RTypeOK
    <2>1. tree \in [Roots -> Places] BY DEF RegistryInit, Places
    <2>2. registry \in Registries
        BY DEF RegistryInit, Registries, Missing, NoList, Lists
    <2>3. call \in [Callers -> Calls] BY DEF RegistryInit, Calls
    <2>4. QED BY <2>1, <2>2, <2>3 DEF RegistryInit, RTypeOK
<1>2. \A c \in Callers : call[c].at = "idle" BY DEF RegistryInit, Idle
<1>3. LockOK BY <1>2 DEF LockOK, Writing
<1>4. TreeOK BY DEF RegistryInit, TreeOK
<1>5. ListOK BY DEF RegistryInit, ListOK, Readable, Missing
<1>6. NoTwoHomes BY DEF RegistryInit, NoTwoHomes
<1>7. CallsOK BY <1>2, Promises DEF CallsOK, Writing
<1>8. QED BY <1>1, <1>3, <1>4, <1>5, <1>6, <1>7 DEF RInv

(* One call goes on; tree, registry and history stay.                      *)
LEMMA CallStep ==
    ASSUME RInv, NEW c \in Callers, NEW n \in Calls,
           call' = [call EXCEPT ![c] = n],
           UNCHANGED <<tree, registry, made, kept, owed>>,
           calls' \in Nat, harms' \in Nat, lock' \in Callers \cup {None},
           \A d \in Callers \ {c} : lock = d => lock' = d,
           n.at \in Writing => lock' = c,
           WriterFits(n, made, kept, owed), SearchFits(n, owed[c], registry)
    PROVE  RInv'
<1> USE DEF RInv
<1>1. call'[c] = n /\ \A d \in Callers \ {c} : call'[d] = call[d]
    BY DEF RTypeOK
<1>2. RTypeOK' BY DEF RTypeOK
<1>3. LockOK' BY <1>1 DEF LockOK
<1>4. TreeOK' /\ ListOK' /\ NoTwoHomes' BY DEF TreeOK, ListOK, NoTwoHomes
<1>5. CallsOK'
    <2> SUFFICES ASSUME NEW d \in Callers
                 PROVE  /\ WriterFits(call'[d], made, kept, owed)
                        /\ SearchFits(call'[d], owed[d], registry)
        BY DEF CallsOK
    <2>1. CASE d = c BY <1>1, <2>1
    <2>2. CASE d # c BY <1>1, <2>2 DEF CallsOK
    <2>3. QED BY <2>1, <2>2
<1>6. QED BY <1>2, <1>3, <1>4, <1>5

(* The tree changes and the history follows it.                            *)
LEMMA TreeStep ==
    ASSUME RInv, tree' \in [Roots -> Places], Follow,
           UNCHANGED <<registry, lock, calls>>, harms' \in Nat,
           \/ call' = call
           \/ \E c \in Callers, at \in {"manifest", "observed", "enrol"} :
                  call[c].at \in InitSteps \ Writing /\ Goto(c, at)
    PROVE  RInv'
<1> USE DEF RInv
<1>1. made' \subseteq made /\ kept' \subseteq kept
      /\ \A d \in Callers : owed'[d] = owed[d] \cap Scan(tree').projects
    BY DEF Follow
<1>2. \A d \in Callers : \/ call'[d] = call[d]
                         \/ call'[d] \in InitCalls /\ call'[d].at \notin Writing
    <2>1. ASSUME NEW c \in Callers, NEW at \in {"manifest", "observed", "enrol"},
                 call[c].at \in InitSteps \ Writing, Goto(c, at)
          PROVE  \A d \in Callers : \/ call'[d] = call[d]
                                    \/ call'[d] \in InitCalls /\ call'[d].at \notin Writing
        <3>1. call[c] \in InitCalls BY <2>1, CallKinds DEF RTypeOK
        <3>2. call'[c] = [call[c] EXCEPT !.at = at] BY <2>1 DEF Goto, RTypeOK
        <3>3. call'[c] \in InitCalls /\ call'[c].at = at
            BY <3>1, <3>2 DEF InitCalls, InitSteps
        <3>4. QED BY <2>1, <3>3 DEF Goto, RTypeOK, Writing
    <2>2. QED BY <2>1
<1>3. call' \in [Callers -> Calls]
    <2>1. \A d \in Callers : call'[d] \in Calls BY <1>2 DEF RTypeOK, Calls
    <2>2. \E f : call' = [d \in Callers |-> f[d]] BY DEF RTypeOK, Goto
    <2>3. QED BY <2>1, <2>2
<1>4. RTypeOK'
    <2>1. owed' = [d \in Callers |-> owed[d] \cap Scan(tree').projects] BY DEF Follow
    <2>2. QED BY <1>1, <1>3, <2>1 DEF RTypeOK
<1>5. LockOK' BY <1>2 DEF LockOK
<1>6. TreeOK' BY <1>1 DEF TreeOK, Follow
<1>7. ListOK' BY <1>1 DEF ListOK
<1>8. NoTwoHomes' BY <1>1 DEF NoTwoHomes
<1>9. CallsOK'
    <2> SUFFICES ASSUME NEW d \in Callers
                 PROVE  /\ WriterFits(call'[d], made', kept', owed')
                        /\ SearchFits(call'[d], owed'[d], registry)
        BY DEF CallsOK
    <2>1. CASE call'[d] = call[d]
        BY <1>1, <2>1, LessOwed, LessMine DEF CallsOK
    <2>2. CASE call'[d] \in InitCalls /\ call'[d].at \notin Writing
        BY <2>2, Promises DEF InitCalls, InitSteps
    <2>3. QED BY <1>2, <2>1, <2>2
<1>10. QED BY <1>4, <1>5, <1>6, <1>7, <1>8, <1>9
-----------------------------------------------------------------------------
(* The calls, one after the other *)

(* A call that returns promises nothing any more.                          *)
LEMMA ReturnStep ==
    ASSUME RInv, NEW c \in Callers, Return(c),
           UNCHANGED <<tree, registry, calls, made, kept, owed>>, harms' \in Nat,
           lock' = lock \/ (lock = c /\ lock' = None)
    PROVE  RInv'
<1>1. Idle \in Calls /\ Idle.at = "idle" BY DEF Calls, Idle
<1>2. call' = [call EXCEPT ![c] = Idle] BY DEF Return
<1>3. lock' \in Callers \cup {None} /\ calls' \in Nat BY DEF RInv, RTypeOK
<1>4. QED BY <1>1, <1>2, <1>3, Promises, CallStep DEF Writing

LEMMA InitializeStep ==
    ASSUME RInv, NEW c \in Callers, NEW p \in Ids, NEW r \in Roots, Initialize(c, p, r)
    PROVE  RInv'
<1> DEFINE new(at) == [at |-> at, id |-> p, root |-> r, seen |-> <<>>, previous |-> Missing]
<1>1. Missing \in Registries BY DEF Registries, Missing, NoList, Lists
<1>2. new("repeat") \in InitCalls /\ new("prescan") \in InitCalls
    BY <1>1, NothingSeen DEF InitCalls, InitSteps
<1>3. PICK n \in {new("repeat"), new("prescan"), Idle} : Begin(c, n)
    BY DEF Initialize
<1>4. n \in Calls /\ n.at \in {"repeat", "prescan", "idle"}
    BY <1>2, <1>3 DEF Calls, Idle
<1>5. calls' \in Nat /\ call' = [call EXCEPT ![c] = n]
    BY <1>3 DEF Begin, RInv, RTypeOK
<1>6. UNCHANGED <<tree, registry, lock, harms, made, kept, owed>>
    BY DEF Initialize, files, history
<1>7. QED BY <1>4, <1>5, <1>6, Promises, CallStep DEF RInv, RTypeOK, Writing

LEMMA RepeatStep == ASSUME RInv, NEW c \in Callers, Repeat(c) PROVE RInv'
BY ReturnStep DEF Repeat, files, bounds, history, RInv, RTypeOK

LEMMA PrescanStep == ASSUME RInv, NEW c \in Callers, Prescan(c) PROVE RInv'
<1>1. UNCHANGED <<tree, registry, lock, calls, harms, made, kept, owed>>
    BY DEF Prescan, files, bounds, history
<1>2. CASE Return(c) BY <1>1, <1>2, ReturnStep DEF RInv, RTypeOK
<1>3. CASE Goto(c, "make")
    <2>1. call[c] \in InitCalls BY CallKinds DEF Prescan, Walked, InitSteps, RInv, RTypeOK
    <2> DEFINE n == [call[c] EXCEPT !.at = "make"]
    <2>2. n \in Calls /\ n.at = "make" BY <2>1 DEF InitCalls, InitSteps, Calls
    <2>3. call' = [call EXCEPT ![c] = n] BY <1>3 DEF Goto
    <2> HIDE DEF n
    <2>4. QED BY <1>1, <2>2, <2>3, Promises, CallStep DEF RInv, RTypeOK, Writing
<1>4. QED BY <1>2, <1>3 DEF Prescan

LEMMA WalkStep == ASSUME RInv, NEW c \in Callers, Walk(c) PROVE RInv'
<1> DEFINE n == call[c]
           u == n.seen
           r == CHOOSE r \in Roots \ DOMAIN u : TRUE
           v == [s \in DOMAIN u \cup {r} |-> IF s = r THEN tree[s] ELSE u[s]]
           k == [n EXCEPT !.seen = v]
<1>1. n \in Calls /\ n.at \in Walking /\ u \in Walks
    BY CallKinds DEF Walk, RInv, RTypeOK
<1>2. r \in Roots /\ r \notin DOMAIN u
    <2>1. Roots \ DOMAIN u # {} BY DEF Walk
    <2>2. QED BY <2>1
<1>3. call' = [call EXCEPT ![c] = k]
    BY DEF Walk
<1>4. UNCHANGED <<tree, registry, lock, calls, harms, made, kept, owed>>
    BY DEF Walk, files, bounds, history
<1>5. /\ v \in Walks
      /\ \A y : Sees(u, y) /\ Sees(tree, y) => Sees(v, y)
      /\ \A x \in Ids \X Roots :
             SeesKept(u, x) /\ Holds(tree, x) /\ Alone(tree, x) => SeesKept(v, x)
      /\ \A x : (x[2] \in DOMAIN u => Holds(u, x)) /\ Holds(tree, x) =>
                    (x[2] \in DOMAIN v => Holds(v, x))
    <2>1. tree \in [Roots -> Places] BY DEF RInv, RTypeOK
    <2> HIDE DEF u, r
    <2>2. QED BY <1>1, <1>2, <2>1, Reads
<1> HIDE DEF v, r, u
<1>6. k \in Calls /\ k.at = n.at /\ k.seen = v
    <2>1. CASE n.at \in {"prescan", "register"}
        BY <1>5, <2>1, <1>1, CallKinds DEF Calls, InitCalls, InitSteps
    <2>2. CASE n.at = "rebuild" BY <1>5, <2>2, <1>1, CallKinds DEF Calls, RefreshCalls
    <2>3. CASE n.at = "status" BY <1>5, <2>3, <1>1, CallKinds DEF Calls, StatusCalls
    <2>4. CASE n.at = "live" BY <1>5, <2>4, <1>1, CallKinds DEF Calls, StatusCalls, LiveCalls
    <2>5. QED BY <1>1, <2>1, <2>2, <2>3, <2>4 DEF Walking
<1>7. n.at = "status" => k.previous = n.previous
    BY <1>1, CallKinds DEF StatusCalls
<1>8. WriterFits(n, made, kept, owed) /\ SearchFits(n, owed[c], registry)
    BY DEF RInv, CallsOK
<1>9. \A d \in Callers : \A y \in owed[d] : Sees(tree, y)
    <2>1. tree \in Walks BY TreeWalk DEF RInv, RTypeOK
    <2>2. QED BY <2>1, ScanSees DEF RInv, TreeOK
<1>10. WriterFits(k, made, kept, owed)
    <2>1. n.at = "register" => \A x \in made : x[2] \in DOMAIN v => Holds(v, x)
        BY <1>5, <1>8 DEF WriterFits, RInv, TreeOK, u
    <2>2. n.at \in {"register", "rebuild"} => \A x \in kept : SeesKept(v, x)
        BY <1>5, <1>8 DEF WriterFits, RInv, TreeOK, RTypeOK, u
    <2>3. n.at \in {"register", "rebuild"} => \A d \in Callers : \A y \in owed[d] : Sees(v, y)
        BY <1>5, <1>8, <1>9 DEF WriterFits, u
    <2>4. QED BY <1>1, <1>6, <2>1, <2>2, <2>3 DEF WriterFits, Walking
<1>11. SearchFits(k, owed[c], registry)
    <2>1. n.at \in {"status", "live"} => \A y \in owed[c] : Sees(v, y)
        BY <1>5, <1>8, <1>9 DEF SearchFits, u
    <2>2. QED BY <1>1, <1>6, <1>7, <1>8, <2>1 DEF SearchFits, Walking
<1> HIDE DEF k
<1>12. n.at \in Writing => lock = c BY DEF RInv, LockOK
<1>13. QED
    BY <1>3, <1>4, <1>6, <1>10, <1>11, <1>12, CallStep DEF RInv, RTypeOK

LEMMA MakeStep ==
    ASSUME RInv, NEW c \in Callers, MakeDirs(c) \/ WriteManifest(c) \/ WriteObserved(c)
    PROVE  RInv'
<1>1. call[c].at \in {"make", "manifest", "observed"}
    BY DEF MakeDirs, WriteManifest, WriteObserved
<1>2. call[c] \in InitCalls BY <1>1, CallKinds DEF InitSteps, RInv, RTypeOK
<1>3. call[c].root \in Roots /\ call[c].id \in Ids BY <1>2 DEF InitCalls
<1>4. /\ Follow /\ UNCHANGED <<registry, lock, calls, harms>>
      /\ Goto(c, "manifest") \/ Goto(c, "observed") \/ Goto(c, "enrol")
    BY DEF MakeDirs, WriteManifest, WriteObserved, bounds
<1>5. tree' \in [Roots -> Places]
    <2>1. tree \in [Roots -> Places] /\ tree[call[c].root] \in Places
        BY <1>3 DEF RInv, RTypeOK
    <2>2. CASE MakeDirs(c) BY <1>3, <2>1, <2>2 DEF MakeDirs, Places
    <2>3. CASE WriteManifest(c) BY <1>3, <2>1, <2>3 DEF WriteManifest, Places
    <2>4. CASE WriteObserved(c) BY <1>3, <2>1, <2>4 DEF WriteObserved, Places
    <2>5. QED BY <2>2, <2>3, <2>4
<1>6. call[c].at \in InitSteps \ Writing BY <1>1 DEF InitSteps, Writing
<1>7. harms' \in Nat BY <1>4 DEF RInv, RTypeOK
<1>8. QED BY <1>4, <1>5, <1>6, <1>7, TreeStep
(* A walk that begins has seen nothing wrong.                              *)
LEMMA FreshWalk ==
    /\ \A y : Sees(<<>>, y)
    /\ \A x : SeesKept(<<>>, x)
    /\ \A x : x[2] \in DOMAIN <<>> => Holds(<<>>, x)
<1>1. DOMAIN <<>> = {} /\ Loaded(<<>>) = {} BY DEF Loaded, Manifests
<1>2. QED BY <1>1 DEF Sees, SeesKept

LEMMA EnrolStep == ASSUME RInv, NEW c \in Callers, Enrol(c) PROVE RInv'
<1>1. UNCHANGED <<tree, registry, calls, harms, made, kept, owed>>
    BY DEF Enrol, bounds, history
<1>2. CASE lock = None
    <2> DEFINE n == [call[c] EXCEPT !.at = "register", !.seen = <<>>, !.previous = registry]
    <2>1. call[c] \in InitCalls BY CallKinds DEF Enrol, InitSteps, RInv, RTypeOK
    <2>2. registry \in Registries BY DEF RInv, RTypeOK
    <2>3. n \in Calls /\ n.at = "register" /\ n.seen = <<>>
        BY <2>1, <2>2, NothingSeen DEF Calls, InitCalls, InitSteps
    <2>4. call' = [call EXCEPT ![c] = n] /\ lock' = c
        BY <1>2 DEF Enrol, TakeLock
    <2> HIDE DEF n
    <2>5. WriterFits(n, made, kept, owed) BY <2>3, FreshWalk DEF WriterFits
    <2>6. SearchFits(n, owed[c], registry) BY <2>3, Promises
    <2>7. \A d \in Callers : lock # d BY <1>2, RegistryAssumption
    <2>8. QED BY <1>1, <2>3, <2>4, <2>5, <2>6, <2>7, CallStep DEF RInv, RTypeOK
<1>3. CASE lock # None
    BY <1>1, <1>3, ReturnStep DEF Enrol, TakeLock, RInv, RTypeOK
<1>4. QED BY <1>2, <1>3

(* A build of a whole walk lists what the writer must not lose.            *)
LEMMA BuildFits ==
    ASSUME RInv, NEW c \in Callers, call[c].at \in {"register", "rebuild"},
           DOMAIN call[c].seen = Roots,
           NEW built, built = Build(call[c].seen, call[c].previous)
    PROVE  /\ built \in Registries /\ Readable(built) /\ OneEach(built.list)
           /\ built.list = Scan(call[c].seen)
           /\ \A x \in kept : ListsAt(built.list, x)
           /\ \A d \in Callers : owed[d] \subseteq built.list.projects
<1> DEFINE t == call[c].seen
           q == call[c].previous
<1>1. t \in Walks /\ q \in Registries
    <2>1. call[c] \in InitCalls \cup RefreshCalls
        BY CallKinds DEF InitSteps, RInv, RTypeOK
    <2>2. QED BY <2>1 DEF InitCalls, RefreshCalls
<1>2. Scan(t) \in Lists /\ OneEach(Scan(t)) BY <1>1, ScanType, ScanOneEach
<1>3. q.rev \in Nat BY <1>1 DEF Registries
<1>4. built.state = "ok" /\ built.list = Scan(t) BY DEF Build
<1>5. built \in Registries BY <1>2, <1>3 DEF Build, Registries
<1>6. WriterFits(call[c], made, kept, owed) BY DEF RInv, CallsOK
<1>7. \A x \in kept : ListsAt(Scan(t), x)
    BY <1>1, <1>6, KeptListed DEF WriterFits, RInv, RTypeOK
<1>8. ASSUME NEW d \in Callers, NEW y \in owed[d] PROVE y \in Scan(t).projects
    <2>1. y \in Entries BY DEF RInv, RTypeOK
    <2>2. Sees(t, y) BY <1>6 DEF WriterFits
    <2>3. QED BY <1>1, <2>1, <2>2, SeesAll
<1>9. QED BY <1>2, <1>4, <1>5, <1>7, <1>8 DEF Readable

(* The project is listed, once, at its root: then no other root it was     *)
(* made at holds its id any more.                                          *)
LEMMA RegisterBuiltStep == ASSUME RInv, NEW c \in Callers, RegisterBuilt(c) PROVE RInv'
<1> DEFINE n == call[c]
           built == Build(n.seen, n.previous)
<1>1. /\ n.at = "register" /\ DOMAIN n.seen = Roots
      /\ UNCHANGED <<tree, registry, calls, harms, made, kept, owed>>
    BY DEF RegisterBuilt, Walked, bounds, history
<1>2. n \in InitCalls /\ n.seen \in Walks /\ lock = c
    <2>1. n \in InitCalls BY <1>1, CallKinds DEF InitSteps, RInv, RTypeOK
    <2>2. QED BY <1>1, <2>1 DEF InitCalls, RInv, LockOK, Writing
<1>3. CASE Listed(built, n.id, n.root)
    <2> DEFINE k == [n EXCEPT !.at = "write", !.previous = built]
    <2>1. call' = [call EXCEPT ![c] = k] /\ lock' = lock
        BY <1>3 DEF RegisterBuilt
    <2>2. /\ built \in Registries /\ Readable(built) /\ OneEach(built.list)
          /\ built.list = Scan(n.seen)
          /\ \A x \in kept : ListsAt(built.list, x)
          /\ \A d \in Callers : owed[d] \subseteq built.list.projects
        BY <1>1, BuildFits
    <2> HIDE DEF built
    <2>3. /\ k \in Calls /\ k.at = "write" /\ k.previous = built
          /\ k.id = n.id /\ k.root = n.root
        BY <1>2, <2>2 DEF Calls, InitCalls, InitSteps
    <2>4. ListsAt(built.list, <<n.id, n.root>>) BY <1>3 DEF Listed, ListsAt
    <2>5. ASSUME NEW x \in made, x[1] = n.id PROVE x[2] = n.root
        <3>1. x[2] \in Roots /\ Holds(n.seen, x)
            BY <1>1 DEF RInv, RTypeOK, CallsOK, WriterFits
        <3>2. x[2] \in Loaded(n.seen) /\ n.seen[x[2]].id = n.id
            BY <1>1, <2>5, <3>1 DEF Holds, Loaded, Manifests
        <3>3. PICK y \in Scan(n.seen).projects : y.id = n.id /\ y.root = n.root
            BY <2>2, <2>4 DEF ListsAt
        <3>4. Sees(n.seen, y) BY <1>2, ScanSees
        <3>5. QED BY <3>2, <3>3, <3>4 DEF Sees
    <2> HIDE DEF k
    <2>6. WriterFits(k, made, kept, owed)
        BY <2>2, <2>3, <2>4, <2>5 DEF WriterFits
    <2>7. SearchFits(k, owed[c], registry) BY <2>3, Promises
    <2>8. QED
        BY <1>1, <1>2, <2>1, <2>3, <2>6, <2>7, CallStep DEF RInv, RTypeOK
<1>4. CASE ~Listed(built, n.id, n.root)
    <2>1. Return(c) /\ lock' = None BY <1>4 DEF RegisterBuilt
    <2>2. QED BY <1>1, <1>2, <2>1, ReturnStep DEF RInv, RTypeOK
<1>5. QED BY <1>3, <1>4

LEMMA RefreshStep ==
    ASSUME RInv, NEW c \in Callers, NEW dry \in BOOLEAN, Refresh(c, dry) PROVE RInv'
<1>1. UNCHANGED <<tree, registry, harms, made, kept, owed>> /\ calls' \in Nat
    BY DEF Refresh, history, RInv, RTypeOK
<1>2. CASE lock = None
    <2> DEFINE n == [at |-> "rebuild", dry |-> dry, seen |-> <<>>, previous |-> registry]
    <2>1. n \in Calls /\ n.at = "rebuild" /\ n.seen = <<>>
        BY NothingSeen DEF Calls, RefreshCalls, RInv, RTypeOK
    <2>2. call' = [call EXCEPT ![c] = n] /\ lock' = c BY <1>2 DEF Refresh
    <2> HIDE DEF n
    <2>3. WriterFits(n, made, kept, owed) BY <2>1, FreshWalk DEF WriterFits
    <2>4. SearchFits(n, owed[c], registry) BY <2>1, Promises
    <2>5. \A d \in Callers : lock # d BY <1>2, RegistryAssumption
    <2>6. QED BY <1>1, <2>1, <2>2, <2>3, <2>4, <2>5, CallStep DEF RInv, RTypeOK
<1>3. CASE lock # None
    <2>1. UNCHANGED <<lock, call>> BY <1>3 DEF Refresh
    <2>2. QED
        BY <1>1, <2>1 DEF RInv, RTypeOK, LockOK, TreeOK, ListOK, NoTwoHomes, CallsOK
<1>4. QED BY <1>2, <1>3
(* A new list is published: it has what every search is owed, and nobody   *)
(* else is writing.                                                        *)
LEMMA PublishStep ==
    ASSUME RInv, NEW c \in Callers, lock = c, lock' = None, Return(c),
           UNCHANGED <<tree, calls, harms, owed>>,
           registry' \in Registries, Readable(registry'), OneEach(registry'.list),
           \A d \in Callers : owed[d] \subseteq registry'.list.projects,
           \A x \in made' : x \in Ids \X Roots /\ Holds(tree, x),
           \A x \in kept' : x \in Ids \X Roots /\ Holds(tree, x) /\ Alone(tree, x)
                            /\ ListsAt(registry'.list, x),
           NoTwoHomes'
    PROVE  RInv'
<1> USE DEF RInv
<1>1. call'[c] = Idle /\ \A d \in Callers \ {c} : call'[d] = call[d]
    BY DEF Return, RTypeOK
<1>2. Idle \in Calls /\ Idle.at = "idle" BY DEF Calls, Idle
<1>3. call' \in [Callers -> Calls] BY <1>2 DEF Return, RTypeOK
<1>4. RTypeOK' BY <1>3 DEF RTypeOK
<1>5. \A d \in Callers : call'[d].at \notin Writing
    BY <1>1, <1>2 DEF LockOK, Writing
<1>6. LockOK' BY <1>5 DEF LockOK
<1>7. TreeOK' BY DEF TreeOK
<1>8. ListOK' BY DEF ListOK
<1>9. CallsOK'
    <2> SUFFICES ASSUME NEW d \in Callers
                 PROVE  SearchFits(call'[d], owed[d], registry')
        BY <1>5, Promises DEF CallsOK
    <2>1. CASE d = c BY <1>1, <1>2, <2>1, Promises
    <2>2. CASE d # c
        <3>1. SearchFits(call[d], owed[d], registry) BY DEF CallsOK
        <3>2. SearchFits(call[d], owed[d], registry') BY <3>1 DEF SearchFits
        <3>3. QED BY <1>1, <2>2, <3>2
    <2>3. QED BY <2>1, <2>2
<1>10. QED BY <1>4, <1>6, <1>7, <1>8, <1>9

LEMMA RegisterWriteStep == ASSUME RInv, NEW c \in Callers, RegisterWrite(c) PROVE RInv'
<1> DEFINE n == call[c]
           x == <<n.id, n.root>>
<1>1. /\ n.at = "write" /\ Return(c) /\ lock = c /\ lock' = None
      /\ registry' = n.previous /\ UNCHANGED <<tree, calls, harms, owed>>
    BY DEF RegisterWrite, Publish, bounds, RInv, LockOK, Writing
<1>2. n \in InitCalls BY <1>1, CallKinds DEF InitSteps, RInv, RTypeOK
<1>3. n.previous \in Registries /\ x \in Ids \X Roots /\ x[1] = n.id /\ x[2] = n.root
    BY <1>2 DEF InitCalls
<1>4. /\ Readable(n.previous) /\ OneEach(n.previous.list) /\ ListsAt(n.previous.list, x)
      /\ \A y \in made : y[1] = n.id => y[2] = n.root
      /\ \A y \in kept : ListsAt(n.previous.list, y)
      /\ \A d \in Callers : owed[d] \subseteq n.previous.list.projects
    BY <1>1 DEF RInv, CallsOK, WriterFits
<1>5. /\ made' = made \cup {y \in {x} : Holds(tree, y)}
      /\ kept' = kept \cup {y \in {x} : Holds(tree, y) /\ Alone(tree, y)}
    BY DEF RegisterWrite
<1> HIDE DEF x
<1>6. \A y \in made' : y \in Ids \X Roots /\ Holds(tree, y)
    BY <1>3, <1>5 DEF RInv, RTypeOK, TreeOK
<1>7. \A y \in kept' : y \in Ids \X Roots /\ Holds(tree, y) /\ Alone(tree, y)
                       /\ ListsAt(n.previous.list, y)
    BY <1>3, <1>4, <1>5 DEF RInv, RTypeOK, TreeOK
<1>8. NoTwoHomes'
    <2> SUFFICES ASSUME NEW y \in made', NEW z \in made', y[1] = z[1] PROVE y = z
        BY DEF NoTwoHomes
    <2>1. CASE y \in made /\ z \in made BY <2>1 DEF RInv, NoTwoHomes
    <2>2. y = <<y[1], y[2]>> /\ z = <<z[1], z[2]>> /\ x = <<x[1], x[2]>>
        BY <1>3, <1>6
    <2>3. CASE y = x \/ z = x BY <1>3, <1>4, <1>5, <2>2, <2>3
    <2>4. QED BY <1>5, <2>1, <2>3
<1>9. QED BY <1>1, <1>3, <1>4, <1>6, <1>7, <1>8, PublishStep

LEMMA RefreshWriteStep == ASSUME RInv, NEW c \in Callers, RefreshWrite(c) PROVE RInv'
<1> DEFINE n == call[c]
           built == Build(n.seen, n.previous)
<1>1. /\ n.at = "rebuild" /\ DOMAIN n.seen = Roots
      /\ Return(c) /\ lock = c /\ lock' = None
      /\ UNCHANGED <<tree, calls, harms, made, kept, owed>>
      /\ registry' \in {registry, built}
    BY DEF RefreshWrite, Walked, Publish, bounds, history, RInv, LockOK, Writing
<1>2. CASE registry' = registry
    BY <1>1, <1>2, ReturnStep DEF RInv, RTypeOK
<1>3. CASE registry' = built
    <2>1. /\ built \in Registries /\ Readable(built) /\ OneEach(built.list)
          /\ \A x \in kept : ListsAt(built.list, x)
          /\ \A d \in Callers : owed[d] \subseteq built.list.projects
        BY <1>1, BuildFits
    <2> HIDE DEF built
    <2>2. NoTwoHomes' BY <1>1 DEF RInv, NoTwoHomes
    <2>3. \A x \in made' : x \in Ids \X Roots /\ Holds(tree, x)
        BY <1>1 DEF RInv, RTypeOK, TreeOK
    <2>4. \A x \in kept' : x \in Ids \X Roots /\ Holds(tree, x) /\ Alone(tree, x)
                            /\ ListsAt(built.list, x)
        BY <1>1, <2>1 DEF RInv, RTypeOK, TreeOK
    <2>5. QED BY <1>1, <1>3, <2>1, <2>2, <2>3, <2>4, PublishStep
<1>4. QED BY <1>1, <1>2, <1>3

(* What a search is owed is what is there when it begins, and no writer    *)
(* has begun before.                                                       *)
LEMMA SearchStep == ASSUME RInv, NEW c \in Callers, Search(c) PROVE RInv'
<1> USE DEF RInv
<1> DEFINE n == [at |-> IF Readable(registry) THEN "status" ELSE "live", seen |-> <<>>,
                 previous |-> registry]
           new == IF lock = None THEN Scan(tree).projects ELSE {}
<1>1. /\ call' = [call EXCEPT ![c] = n] /\ calls' \in Nat
      /\ owed' = [owed EXCEPT ![c] = new]
      /\ UNCHANGED <<tree, registry, lock, harms, made, kept>>
    BY DEF Search, Begin, files, RTypeOK
<1>2. n \in Calls /\ n.at \in {"status", "live"} /\ n.seen = <<>> /\ n.previous = registry
    BY NothingSeen DEF Calls, StatusCalls, RTypeOK
<1> HIDE DEF n
<1>3. new \subseteq Entries /\ new \subseteq Scan(tree).projects
    <2>1. tree \in Walks BY TreeWalk DEF RTypeOK
    <2>2. QED BY <2>1, ScanType DEF Lists
<1>4. new # {} => \A d \in Callers : call[d].at \notin Writing
    BY RegistryAssumption DEF LockOK
<1> HIDE DEF new
<1>5. /\ call'[c] = n /\ \A d \in Callers \ {c} : call'[d] = call[d]
      /\ owed'[c] = new /\ \A d \in Callers \ {c} : owed'[d] = owed[d]
    BY <1>1 DEF RTypeOK
<1>6. RTypeOK' BY <1>1, <1>2, <1>3 DEF RTypeOK
<1>7. LockOK' BY <1>1, <1>2, <1>5 DEF LockOK, Writing
<1>8. TreeOK' BY <1>1, <1>3, <1>5 DEF TreeOK
<1>9. ListOK' /\ NoTwoHomes' BY <1>1 DEF ListOK, NoTwoHomes
<1>10. CallsOK'
    <2> SUFFICES ASSUME NEW d \in Callers
                 PROVE  /\ WriterFits(call'[d], made, kept, owed')
                        /\ SearchFits(call'[d], owed'[d], registry)
        BY <1>1 DEF CallsOK
    <2>1. CASE d = c
        <3>1. WriterFits(n, made, kept, owed') BY <1>2, Promises DEF Writing
        <3>2. SearchFits(n, new, registry) BY <1>2, FreshWalk DEF SearchFits
        <3>3. QED BY <1>5, <2>1, <3>1, <3>2
    <2>2. CASE d # c
        <3>1. WriterFits(call[d], made, kept, owed')
            <4>1. CASE new = {}
                <5>1. \A e \in Callers : owed'[e] \subseteq owed[e] BY <1>5, <4>1
                <5>2. QED BY <5>1, LessOwed DEF CallsOK
            <4>2. CASE new # {} BY <1>4, <4>2, Promises
            <4>3. QED BY <4>1, <4>2
        <3>2. QED BY <1>5, <2>2, <3>1 DEF CallsOK
    <2>3. QED BY <2>1, <2>2
<1>11. QED BY <1>6, <1>7, <1>8, <1>9, <1>10
(* A whole walk of a search finds what the search is owed.                 *)
LEMMA WholeSearch ==
    ASSUME RInv, NEW c \in Callers, call[c].at \in {"status", "live"},
           DOMAIN call[c].seen = Roots
    PROVE  owed[c] \subseteq Scan(call[c].seen).projects /\ Scan(call[c].seen).projects \subseteq Entries
<1>1. call[c].seen \in Walks BY CallKinds DEF RInv, RTypeOK, Walking
<1>2. owed[c] \subseteq Entries BY DEF RInv, RTypeOK
<1>3. \A y \in owed[c] : Sees(call[c].seen, y) BY DEF RInv, CallsOK, SearchFits
<1>4. QED BY <1>1, <1>2, <1>3, SeesAll, ScanType DEF Lists

(* The list was fresh: unless it was replaced meanwhile, by one that has   *)
(* everything as well, it has what the search is owed.                     *)
LEMMA StatusStep == ASSUME RInv, NEW c \in Callers, Status(c) PROVE RInv'
<1> DEFINE m == call[c]
<1>1. /\ m.at = "status" /\ DOMAIN m.seen = Roots
      /\ UNCHANGED <<tree, registry, lock, calls, harms, made, kept, owed>>
    BY DEF Status, Walked, files, bounds, history
<1>2. PICK n : /\ call' = [call EXCEPT ![c] = n]
               /\ n = IF Fresh(c) THEN [at |-> "reread"] ELSE [at |-> "live", seen |-> <<>>]
    BY DEF Status
<1>3. n \in Calls /\ n.at \in {"reread", "live"}
    BY <1>2, NothingSeen DEF Calls, LiveCalls
<1>4. SearchFits(n, owed[c], registry)
    <2>1. CASE Fresh(c)
        <3>1. owed[c] \subseteq m.previous.list.projects
            BY <1>1, <2>1, WholeSearch DEF Fresh, SameSources
        <3>2. Readable(registry) => owed[c] \subseteq registry.list.projects
            BY <1>1, <3>1 DEF RInv, CallsOK, SearchFits
        <3>3. n = [at |-> "reread"] BY <1>2, <2>1
        <3>4. QED BY <3>2, <3>3 DEF SearchFits
    <2>2. CASE ~Fresh(c)
        <3>1. n = [at |-> "live", seen |-> <<>>] BY <1>2, <2>2
        <3>2. QED BY <3>1, FreshWalk DEF SearchFits
    <2>3. QED BY <2>1, <2>2
<1>5. QED BY <1>1, <1>2, <1>3, <1>4, Promises, CallStep DEF RInv, RTypeOK, Writing

LEMMA RereadStep == ASSUME RInv, NEW c \in Callers, Reread(c) PROVE RInv'
<1>1. /\ call[c].at = "reread"
      /\ UNCHANGED <<tree, registry, lock, calls, harms, made, kept, owed>>
    BY DEF Reread, files, bounds, history
<1>2. PICK n : /\ call' = [call EXCEPT ![c] = n]
               /\ n = IF Readable(registry) THEN [at |-> "found", answer |-> registry.list.projects]
                      ELSE [at |-> "live", seen |-> <<>>]
    BY DEF Reread
<1>3. Readable(registry) => owed[c] \subseteq registry.list.projects
    BY <1>1 DEF RInv, CallsOK, SearchFits
<1>4. registry.list.projects \subseteq Entries
    BY DEF RInv, RTypeOK, Registries, Lists
<1>5. n \in Calls /\ n.at \in {"found", "live"} /\ SearchFits(n, owed[c], registry)
    <2>1. CASE Readable(registry)
        BY <1>2, <1>3, <1>4, <2>1 DEF Calls, SearchFits
    <2>2. CASE ~Readable(registry)
        BY <1>2, <2>2, NothingSeen, FreshWalk DEF Calls, LiveCalls, SearchFits
    <2>3. QED BY <2>1, <2>2
<1>6. QED BY <1>1, <1>2, <1>5, Promises, CallStep DEF RInv, RTypeOK, Writing

LEMMA LiveStep == ASSUME RInv, NEW c \in Callers, Live(c) PROVE RInv'
<1> DEFINE n == [at |-> "found", answer |-> Scan(call[c].seen).projects]
<1>1. /\ call[c].at = "live" /\ DOMAIN call[c].seen = Roots
      /\ UNCHANGED <<tree, registry, lock, calls, harms, made, kept, owed>>
      /\ call' = [call EXCEPT ![c] = n]
    BY DEF Live, Walked, files, bounds, history
<1>2. owed[c] \subseteq Scan(call[c].seen).projects /\ Scan(call[c].seen).projects \subseteq Entries
    BY <1>1, WholeSearch
<1>3. n \in Calls /\ n.at = "found" /\ SearchFits(n, owed[c], registry)
    BY <1>2 DEF Calls, SearchFits
<1> HIDE DEF n
<1>4. QED BY <1>1, <1>3, Promises, CallStep DEF RInv, RTypeOK, Writing

(* A call has ended, with its answer or without: it is owed nothing more.  *)
LEMMA EndStep ==
    ASSUME RInv, NEW c \in Callers, Answered(c) \/ Die(c) PROVE RInv'
<1> USE DEF RInv
<1>1. /\ Return(c) /\ owed' = [owed EXCEPT ![c] = {}] /\ harms' \in Nat /\ calls' \in Nat
      /\ UNCHANGED <<tree, registry, made, kept>>
      /\ lock' = lock \/ (lock = c /\ lock' = None)
    BY DEF Answered, Die, files, bounds, RTypeOK
<1>2. /\ call'[c] = Idle /\ \A d \in Callers \ {c} : call'[d] = call[d]
      /\ \A d \in Callers : owed'[d] \subseteq owed[d]
    BY <1>1 DEF Return, RTypeOK
<1>3. Idle \in Calls /\ Idle.at = "idle" BY DEF Calls, Idle
<1>4. call' \in [Callers -> Calls] BY <1>1, <1>3 DEF Return, RTypeOK
<1>5. RTypeOK' BY <1>1, <1>4 DEF RTypeOK
<1>6. LockOK' BY <1>1, <1>2, <1>3 DEF LockOK, Writing
<1>7. TreeOK' BY <1>1, <1>2 DEF TreeOK
<1>8. ListOK' /\ NoTwoHomes' BY <1>1 DEF ListOK, NoTwoHomes
<1>9. CallsOK'
    <2> SUFFICES ASSUME NEW d \in Callers
                 PROVE  /\ WriterFits(call'[d], made, kept, owed')
                        /\ SearchFits(call'[d], owed'[d], registry)
        BY <1>1 DEF CallsOK
    <2>1. CASE d = c BY <1>2, <1>3, <2>1, Promises DEF Writing
    <2>2. CASE d # c BY <1>2, <2>2, LessOwed, LessMine DEF CallsOK
    <2>3. QED BY <2>1, <2>2
<1>10. QED BY <1>5, <1>6, <1>7, <1>8, <1>9

LEMMA DamageStep == ASSUME RInv, Damage PROVE RInv'
<1> USE DEF RInv
<1>1. /\ harms' \in Nat /\ kept' = {} /\ registry' \in {Missing, Bad}
      /\ UNCHANGED <<tree, lock, call, calls, made, owed>>
    BY DEF Damage, RTypeOK
<1>2. registry' \in Registries /\ ~Readable(registry')
    BY <1>1 DEF Registries, Missing, Bad, NoList, Lists, Readable
<1>3. RTypeOK' BY <1>1, <1>2 DEF RTypeOK
<1>4. LockOK' /\ TreeOK' /\ ListOK' /\ NoTwoHomes'
    BY <1>1, <1>2 DEF LockOK, TreeOK, ListOK, NoTwoHomes
<1>5. CallsOK'
    <2> SUFFICES ASSUME NEW c \in Callers
                 PROVE  /\ WriterFits(call[c], made, {}, owed)
                        /\ SearchFits(call[c], owed[c], registry')
        BY <1>1 DEF CallsOK
    <2>1. WriterFits(call[c], made, {}, owed) BY LessOwed DEF CallsOK
    <2>2. SearchFits(call[c], owed[c], registry) BY DEF CallsOK
    <2>3. QED BY <1>2, <2>1, <2>2 DEF SearchFits
<1>6. QED BY <1>3, <1>4, <1>5

LEMMA EditStep ==
    ASSUME RInv, NEW r \in Roots, NEW v \in Edited, EditTree(r, v) PROVE RInv'
<1>1. /\ tree' = [tree EXCEPT ![r] = v] /\ Follow /\ harms' = harms + 1
      /\ UNCHANGED <<registry, lock, call, calls>>
    BY DEF EditTree
<1>2. tree' \in [Roots -> Places] BY <1>1, RegistryAssumption DEF RInv, RTypeOK
<1>3. harms' \in Nat BY <1>1 DEF RInv, RTypeOK
<1>4. QED BY <1>1, <1>2, <1>3, TreeStep

LEMMA RegistryStep == RInv /\ [RegistryNext]_registryVars => RInv'
<1> SUFFICES ASSUME RInv, [RegistryNext]_registryVars PROVE RInv' OBVIOUS
<1>1. CASE UNCHANGED registryVars
    BY <1>1 DEF registryVars, files, bounds, history, RInv, RTypeOK, LockOK, TreeOK,
       ListOK, NoTwoHomes, CallsOK
<1>2. ASSUME NEW c \in Callers,
             \/ \E p \in Ids, r \in Roots : Initialize(c, p, r)
             \/ Repeat(c) \/ Prescan(c) \/ MakeDirs(c) \/ WriteManifest(c) \/ WriteObserved(c)
             \/ Enrol(c) \/ RegisterBuilt(c) \/ RegisterWrite(c)
             \/ \E dry \in BOOLEAN : Refresh(c, dry)
             \/ RefreshWrite(c)
             \/ Search(c) \/ Status(c) \/ Reread(c) \/ Live(c) \/ Answered(c)
             \/ Walk(c) \/ Die(c)
      PROVE  RInv'
    BY <1>2, InitializeStep, RepeatStep, PrescanStep, MakeStep, EnrolStep, RegisterBuiltStep,
       RegisterWriteStep, RefreshStep, RefreshWriteStep, SearchStep, StatusStep, RereadStep,
       LiveStep, EndStep, WalkStep
<1>3. CASE \E r \in Roots, v \in Edited : EditTree(r, v) BY <1>3, EditStep
<1>4. CASE Damage BY <1>4, DamageStep
<1>5. QED BY <1>1, <1>2, <1>3, <1>4 DEF RegistryNext

-----------------------------------------------------------------------------
(* The theorems *)

THEOREM RegistryInductive == RegistrySpec => []RInv
BY InitRInv, RegistryStep, PTL DEF RegistrySpec

(* Every variable keeps its type, and a call the fields of its step.       *)
THEOREM RegistryTypeCorrect == RegistrySpec => []RTypeOK
<1>1. RInv => RTypeOK BY DEF RInv
<1>2. QED BY <1>1, RegistryInductive, PTL

(* Two initializations of one id at two roots are not both reported as     *)
(* done: the walk under the lock has seen the other one.                   *)
THEOREM NoTwoHomesHolds == RegistrySpec => []NoTwoHomes
<1>1. RInv => NoTwoHomes BY DEF RInv
<1>2. QED BY <1>1, RegistryInductive, PTL

(* A project whose initialization was reported stays in the registry: a    *)
(* writer that could take it out would have read the tree before it was    *)
(* there, and would have held the lock.                                    *)
THEOREM SuccessStaysHolds == RegistrySpec => []SuccessStays
<1>1. RInv => SuccessStays BY DEF RInv, ListOK, SuccessStays, ListsAt
<1>2. QED BY <1>1, RegistryInductive, PTL
(* What the desk says of a project that a search lists, for any tree and   *)
(* any list in which an id stands once: all of it is of that project.      *)
LEMMA DeskAlike ==
    ASSUME tree \in [Roots -> Places], registry \in Registries,
           Readable(registry) => OneEach(registry.list), NEW plans, NEW observations
    PROVE  DeskAgrees(plans, observations)
<1> DEFINE isFresh == RegistryStatus = "fresh"
<1>1. tree \in Walks BY TreeWalk
<1>2. isFresh => Readable(registry) /\ registry.list = Scan(tree)
    BY DEF RegistryStatus, Readable, SameSources, Registries
<1> SUFFICES ASSUME NEW x \in SearchRecords
             PROVE  LET same(y) == y.root = x.root /\ y.text = x.text
                        refused == BriefRefusal(x.id) # "none"
                    IN  /\ isFresh \/ (~refused /\ BriefFreshness(x.id) = "fresh") =>
                              x \in RegistryOpened.list.projects
                        /\ isFresh => ~refused /\ BriefFreshness(x.id) = "fresh"
                        /\ \A declared \in plans, file \in observations :
                              LET b == Brief(x.id, declared, file)
                                  opened == OpenedProject(x.id, declared, file)
                              IN  /\ opened # {}
                                  /\ \A o \in opened :
                                        same(o) /\ (~refused => o.warnings =
                                           b.warnings \ {"registry_manifest_mismatch"})
                                  /\ ~refused => same(b)
    BY DEF DeskAgrees
<1>3. x \in Scan(tree).projects
    BY <1>2 DEF SearchRecords
<1>4. /\ x.root \in Loaded(tree) /\ x.root \in Manifests(tree)
      /\ x.id = tree[x.root].id /\ x.text = tree[x.root].text
      /\ \A q \in Loaded(tree) : tree[q].id = x.id => q = x.root
      /\ x \in Entries
    <2>1. Sees(tree, x) /\ x.root \in Loaded(tree) /\ x \in Entries
        BY <1>1, <1>3, ScanSees
    <2>2. x.root \in Manifests(tree) /\ x.root \in DOMAIN tree
        BY <2>1 DEF Loaded, Manifests
    <2>3. QED BY <2>1, <2>2 DEF Sees
<1> DEFINE place == PlaceOf(x.id)
           shown == ListedAs(x.id)
           refused == BriefRefusal(x.id) # "none"
<1>5. \A y, z \in shown : /\ y = z /\ Readable(registry) /\ y.id = x.id
                          /\ y \in Entries /\ y \in registry.list.projects
    BY DEF ListedAs, OneEach, Registries, Lists
<1>6. shown # {} => \E z \in shown : place = z.root
    BY DEF PlaceOf
<1>7. ~refused => place = x.root
    <2>1. ~refused => place \in Loaded(tree) /\ tree[place].id = x.id
        BY DEF BriefRefusal
    <2>2. QED BY <1>4, <2>1
<1>8. ASSUME ~refused, BriefFreshness(x.id) = "fresh" PROVE x \in RegistryOpened.list.projects
    <2>1. Readable(registry)
        BY <1>8 DEF BriefFreshness, Readable, Registries
    <2>2. PICK y \in shown : y.text = tree[y.root].text
        BY <1>8, <2>1 DEF BriefFreshness
    <2>3. y.root = x.root /\ y.id = x.id /\ y.text = x.text
        BY <1>4, <1>5, <1>6, <1>7, <1>8, <2>2
    <2>4. y = x BY <1>4, <1>5, <2>2, <2>3 DEF Entries
    <2>5. QED BY <1>5, <2>2, <2>4 DEF RegistryOpened
<1>9. ASSUME isFresh
      PROVE  /\ x \in RegistryOpened.list.projects
             /\ ~refused /\ BriefFreshness(x.id) = "fresh"
    <2>1. Readable(registry) /\ x \in registry.list.projects BY <1>2, <1>3, <1>9
    <2>2. x \in shown BY <2>1 DEF ListedAs
    <2>3. place = x.root BY <1>5, <1>6, <2>2
    <2>4. ~refused BY <1>4, <2>3 DEF BriefRefusal
    <2>5. BriefFreshness(x.id) = "fresh" BY <1>4, <2>1, <2>2 DEF BriefFreshness
    <2>6. QED BY <2>1, <2>4, <2>5 DEF RegistryOpened
<1>10. \A y \in Discovered.projects : y.id = x.id => y.root = x.root /\ y.text = x.text
    BY <1>4 DEF Discovered
<1>11. \E y \in Discovered.projects : y.id = x.id
    <2>1. SameId(tree, x.root) = {x.root} BY <1>4 DEF SameId
    <2>2. x.root = WalkedFirst(SameId(tree, x.root)) BY <2>1 DEF WalkedFirst
    <2>3. [id |-> tree[x.root].id, root |-> x.root, text |-> tree[x.root].text]
              \in Discovered.projects
        BY <1>4, <2>2 DEF Discovered
    <2>4. QED BY <1>4, <2>3
<1>12. ASSUME NEW declared \in plans, NEW file \in observations
       PROVE  LET b == Brief(x.id, declared, file)
                  opened == OpenedProject(x.id, declared, file)
              IN  /\ opened # {}
                  /\ \A o \in opened :
                        /\ o.root = x.root /\ o.text = x.text
                        /\ ~refused => o.warnings = b.warnings \ {"registry_manifest_mismatch"}
                  /\ ~refused => b.root = x.root /\ b.text = x.text
    <2> DEFINE warned == CardWarnings(x.id, declared, Observation(x.root, file))
    <2>1. OpenedProject(x.id, declared, file) # {} BY <1>11 DEF OpenedProject
    <2>2. \A o \in OpenedProject(x.id, declared, file) :
              o.root = x.root /\ o.text = x.text /\ o.warnings = warned
        BY <1>10 DEF OpenedProject
    <2>3. ASSUME ~refused
          PROVE  LET b == Brief(x.id, declared, file)
                 IN  /\ b.root = x.root /\ b.text = x.text
                     /\ b.warnings = BriefWarnings(x.id, declared, Observation(x.root, file))
        BY <1>4, <1>7, <2>3 DEF Brief
    <2>4. BriefWarnings(x.id, declared, Observation(x.root, file))
              \ {"registry_manifest_mismatch"} = warned
        BY DEF BriefWarnings, CardWarnings
    <2>5. QED BY <2>1, <2>2, <2>3, <2>4
<1>13. QED BY <1>8, <1>9, <1>12

(* A search returns every project that was there all the while, and what   *)
(* the other tools tell of what it returns is of the same project.         *)
THEOREM FoundAlikeHolds == RegistrySpec => []FoundAlike
<1>1. RInv => SearchFinds BY DEF RInv, CallsOK, SearchFits, SearchFinds
<1>2. RInv => DeskAgrees({None}, Observations)
    <2>1. RInv => /\ tree \in [Roots -> Places] /\ registry \in Registries
                  /\ Readable(registry) => OneEach(registry.list)
        BY DEF RInv, RTypeOK, ListOK
    <2>2. QED BY <2>1, DeskAlike
<1>3. QED BY <1>1, <1>2, RegistryInductive, PTL DEF FoundAlike
-----------------------------------------------------------------------------
(* CodegraphIndex *)

Good(f) ==
    \/ \A k \in Kinds : f \notin Pending(k)
    \/ f \in Pending("added") /\ source[f].size = "large" /\ Fit(f)

Items == [path : Sources, reason : Kinds, indexed : BOOLEAN]

(* The report counts what was pending when it was made, P; of the files    *)
(* nothing has happened to since, the same is pending now.                 *)
ReportFits(report) ==
    \E P \in [Kinds -> SUBSET Sources] :
        /\ \A k \in Kinds : report.count[k] = Cardinality(P[k])
        /\ \A f \in still, k \in Kinds : f \in P[k] <=> f \in Pending(k)
        /\ \A i \in report.items : i \in Items /\ i.path \in P[i.reason]

CInv ==
    /\ still \subseteq Sources
    /\ source \in [Sources -> [size : {"none", "small", "large"}, version : Nat]]
    /\ ask.at = "look" => ReportFits(ask.report)
    /\ ask.at \in {"lock", "told"} /\ ask.state = "ready" => \A f \in still : Good(f)

(* As many eligible items as files to be added: each file is one of them.  *)
LEMMA AllEligible ==
    ASSUME NEW A \in SUBSET Sources, NEW E \in SUBSET Items,
           \A i \in E : i.path \in A /\ i.reason = "added" /\ ~i.indexed,
           Cardinality(E) >= Cardinality(A)
    PROVE  \A f \in A : \E i \in E : i.path = f
<1> DEFINE g == [i \in E |-> i.path]
<1>1. IsFiniteSet(A) BY FS_Subset, CodegraphAssumption
<1>2. g \in [E -> A] OBVIOUS
<1>3. \A i, j \in E : i.path = j.path => i = j BY DEF Items
<1>4. g \in Injection(E, A) BY <1>2, <1>3 DEF Injection, IsInjective
<1>5. /\ Cardinality(E) <= Cardinality(A) /\ IsFiniteSet(E)
      /\ Cardinality(E) = Cardinality(A) <=> g \in Surjection(E, A)
    BY <1>1, <1>4, FS_Injection
<1>6. Cardinality(E) \in Nat /\ Cardinality(A) \in Nat BY <1>1, <1>5, FS_CardinalityType
<1>7. g \in Surjection(E, A) BY <1>5, <1>6
<1>8. QED BY <1>7 DEF Surjection

(* When the projection takes everything that is pending off the count, it  *)
(* is new, of this project and too large.                                  *)
LEMMA NothingLeft ==
    ASSUME NEW report, NEW P \in [Kinds -> SUBSET Sources],
           \A k \in Kinds : report.count[k] = Cardinality(P[k]),
           NEW items, \A i \in items : i \in Items /\ i.path \in P[i.reason],
           ~(Projection(report, items).effective > 0),
           Projection(report, items).classified
    PROVE  /\ P["modified"] = {} /\ P["removed"] = {}
           /\ \A f \in P["added"] : source[f].size = "large" /\ Fit(f)
<1> DEFINE E == {i \in items : EligibleOversized(i)}
           n(k) == report.count[k]
           total == n("added") + n("modified") + n("removed")
           exclusions == IF total = 0 \/ ~report.limit THEN 0
                         ELSE IF Cardinality(E) < n("added") THEN Cardinality(E) ELSE n("added")
<1>1. \A k \in Kinds : IsFiniteSet(P[k]) /\ n(k) = Cardinality(P[k]) /\ n(k) \in Nat
    BY FS_Subset, FS_CardinalityType, CodegraphAssumption
<1>2. E \in SUBSET Items /\ \A i \in E : /\ i.path \in P["added"] /\ i.reason = "added"
                                        /\ ~i.indexed /\ Fit(i.path)
                                        /\ source[i.path].size = "large"
    BY DEF EligibleOversized
<1>3. Cardinality(E) \in Nat
    <2> DEFINE g == [i \in E |-> i.path]
    <2>1. g \in Injection(E, P["added"])
        BY <1>2 DEF Injection, IsInjective, Items
    <2>2. IsFiniteSet(E) BY <1>1, <2>1, FS_Injection DEF Kinds
    <2>3. QED BY <2>2, FS_CardinalityType
<1>4. total = exclusions
    BY DEF Projection
<1>5. n("added") \in Nat /\ n("modified") \in Nat /\ n("removed") \in Nat BY <1>1 DEF Kinds
<1> HIDE DEF E, n
<1>6. n("modified") = 0 /\ n("removed") = 0 /\ (n("added") = 0 \/ Cardinality(E) >= n("added"))
    BY <1>3, <1>4, <1>5
<1>7. P["modified"] = {} /\ P["removed"] = {} BY <1>1, <1>6, FS_EmptySet DEF Kinds
<1>8. CASE n("added") = 0 BY <1>1, <1>7, <1>8, FS_EmptySet DEF Kinds
<1>9. CASE Cardinality(E) >= n("added")
    <2>1. P["added"] \in SUBSET Sources /\ n("added") = Cardinality(P["added"])
        BY <1>1 DEF Kinds
    <2>2. \A f \in P["added"] : \E i \in E : i.path = f
        BY <1>2, <1>9, <2>1, AllEligible
    <2>3. QED BY <1>2, <1>7, <2>2
<1>10. QED BY <1>6, <1>8, <1>9
(* Nothing has happened to a file that is still there.                     *)
LEMMA StillFits ==
    ASSUME CInv, still' \subseteq still, ask' = ask,
           source' \in [Sources -> [size : {"none", "small", "large"}, version : Nat]],
           \A f \in still' : source'[f] = source[f] /\ index'.files[f] = index.files[f]
    PROVE  CInv'
<1>1. still' \subseteq Sources BY DEF CInv
<1>2. ASSUME NEW f \in still', NEW k \in Kinds PROVE f \in Pending(k) <=> f \in Pending(k)'
    BY <1>1 DEF Pending
<1>3. \A f \in still' : Good(f) => Good(f)'
    BY <1>1, <1>2 DEF Good, Kinds
<1>4. ask.at = "look" => ReportFits(ask.report)'
    BY <1>2 DEF CInv, ReportFits
<1>5. QED BY <1>1, <1>3, <1>4 DEF CInv

LEMMA AskStep ==
    ASSUME CInv, UNCHANGED <<source, index>>,
           AskBegin \/ AskReport \/ AskFails \/ AskLook \/ AskLock
    PROVE  CInv'
<1> USE DEF CInv
<1>0. \A k : Pending(k)' = Pending(k) BY DEF Pending
<1>1. CASE AskBegin BY <1>1 DEF AskBegin
<1>2. CASE AskReport
    <2>1. ask' = [at |-> "look", report |-> Report] /\ still' = still BY <1>2 DEF AskReport
    <2> DEFINE P == [k \in Kinds |-> Pending(k)]
    <2>2. \A k \in Kinds : Pending(k) \subseteq Sources BY DEF Pending
    <2>3. P \in [Kinds -> SUBSET Sources] BY <2>2
    <2>4. \A k \in Kinds : Report.count[k] = Cardinality(P[k]) BY DEF Report
    <2>5. ASSUME NEW i \in Report.items PROVE i \in Items /\ i.path \in P[i.reason]
        <3>1. PICK k \in Kinds : i \in {[path |-> f, reason |-> k, indexed |-> index.files[f] # 0] :
                                           f \in Pending(k)}
            BY <2>5 DEF Report
        <3>2. PICK f \in Pending(k) : i = [path |-> f, reason |-> k, indexed |-> index.files[f] # 0]
            BY <3>1
        <3>3. QED BY <2>2, <3>2 DEF Items
    <2>6. \A f \in still', k \in Kinds : f \in P[k] <=> f \in Pending(k)' BY <1>0
    <2> HIDE DEF P
    <2>7. ask'.at = "look" /\ ask'.report = Report BY <2>1
    <2>8. ReportFits(ask.report)'
        BY <2>3, <2>4, <2>5, <2>6, <2>7 DEF ReportFits
    <2>9. QED BY <2>1, <2>7, <2>8
<1>3. CASE AskFails BY <1>3 DEF AskFails
<1>4. CASE AskLook
    <2>1. PICK items \in Cut(ask.report.items) :
              ask' = [at |-> "lock", state |-> Lifecycle(TRUE, ask.report,
                                                        Projection(ask.report, items))]
        BY <1>4 DEF AskLook
    <2>2. still' = still /\ ask.at = "look" BY <1>4 DEF AskLook
    <2> DEFINE report == ask.report
               projection == Projection(report, items)
    <2>3. ASSUME Lifecycle(TRUE, report, projection) = "ready", NEW f \in still
          PROVE  Good(f)
        <3>1. ~(projection.effective > 0) /\ projection.classified
            BY <2>3 DEF Lifecycle
        <3>2. PICK P \in [Kinds -> SUBSET Sources] :
                  /\ \A k \in Kinds : report.count[k] = Cardinality(P[k])
                  /\ \A g \in still, k \in Kinds : g \in P[k] <=> g \in Pending(k)
                  /\ \A i \in report.items : i \in Items /\ i.path \in P[i.reason]
            BY <2>2 DEF ReportFits
        <3>3. \A i \in items : i \in Items /\ i.path \in P[i.reason]
            BY <2>1, <3>2 DEF Cut
        <3>4. /\ P["modified"] = {} /\ P["removed"] = {}
              /\ \A g \in P["added"] : source[g].size = "large" /\ Fit(g)
            BY <3>1, <3>2, <3>3, NothingLeft
        <3>5. QED BY <3>2, <3>4 DEF Good, Kinds
    <2> HIDE DEF projection
    <2>4. \A f \in still : Good(f)' <=> Good(f) BY <1>0 DEF Good
    <2>5. ask'.at = "lock" /\ (ask'.state = "ready" => Lifecycle(TRUE, report, projection) = "ready")
        BY <2>1 DEF projection
    <2>6. QED BY <2>2, <2>3, <2>4, <2>5
<1>5. CASE AskLock
    <2>1. ask.at = "lock" /\ ask'.at = "told" /\ still' = still BY <1>5 DEF AskLock
    <2>2. ask'.state = "ready" => ask.state = "ready"
        BY <1>5 DEF AskLock, Answer
    <2>3. \A f \in still : Good(f)' <=> Good(f) BY <1>0 DEF Good
    <2>4. QED BY <2>1, <2>2, <2>3
<1>6. QED BY <1>1, <1>2, <1>3, <1>4, <1>5

LEMMA CodegraphStep == CInv /\ [CodegraphNext]_codegraphVars => CInv'
<1> SUFFICES ASSUME CInv, [CodegraphNext]_codegraphVars PROVE CInv' OBVIOUS
<1> USE DEF CInv
<1>1. CASE UNCHANGED codegraphVars BY <1>1, StillFits DEF codegraphVars
<1>2. CASE AskBegin \/ AskReport \/ AskFails \/ AskLook \/ AskLock
    BY <1>2, AskStep DEF AskBegin, AskReport, AskFails, AskLook, AskLock
<1>3. ASSUME NEW b \in Rebuilders, RebuildBegin(b) \/ RebuildSpawn(b) \/ RebuildTimeout(b)
      PROVE  CInv'
    BY <1>3, StillFits DEF RebuildBegin, RebuildSpawn, RebuildTimeout
<1>4. ASSUME NEW b \in Rebuilders, RebuildDone(b) PROVE CInv'
    BY <1>4, StillFits DEF RebuildDone
<1>5. ASSUME NEW f \in Sources, EditSource(f) PROVE CInv'
    <2>1. PICK size \in {"none", "small", "large"} :
              source' = [source EXCEPT ![f] = [size |-> size, version |-> source[f].version + 1]]
        BY <1>5 DEF EditSource
    <2>2. source[f].version + 1 \in Nat OBVIOUS
    <2>3. source' \in [Sources -> [size : {"none", "small", "large"}, version : Nat]]
        BY <2>1, <2>2
    <2>4. QED BY <1>5, <2>1, <2>3, StillFits DEF EditSource
<1>6. CASE RemoveLock BY <1>6, StillFits DEF RemoveLock
<1>7. QED BY <1>1, <1>2, <1>3, <1>4, <1>5, <1>6 DEF CodegraphNext

(* "ready" is only said when every file nothing has happened to meanwhile  *)
(* is indexed as it is, or left out for its size: exclusions never cover   *)
(* for a changed, a removed or an ordinary new file, whichever of the      *)
(* reported items the status call keeps.                                   *)
THEOREM ReadyMeansIndexedHolds == CodegraphSpec => []ReadyMeansIndexed
<1>1. CodegraphInit => CInv BY DEF CodegraphInit, CInv
<1>2. CInv => ReadyMeansIndexed BY DEF CInv, ReadyMeansIndexed, Good
<1>3. QED BY <1>1, <1>2, CodegraphStep, PTL DEF CodegraphSpec
================================================================================
