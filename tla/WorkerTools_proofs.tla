------------------------- MODULE WorkerTools_proofs -------------------------
(* Proofs about LaunchBinding and WorkerTools, for any configs, files,     *)
(* scopes and places of the project, any number of events and changes by   *)
(* others, and any of the faults: what the launcher runs comes from one    *)
(* version of the config, and the finalizer's verdict on a worker neither  *)
(* covers a change the worker's tools did not make nor accuses an honest   *)
(* one.                                                                    *)
EXTENDS WorkerTools, SequenceTheorems, TLAPS

-----------------------------------------------------------------------------
(* The launch.  Once the launcher has compared the manifest with the       *)
(* config, the manifest is that of a config there was.                     *)
BoundToOne ==
    /\ config \in Configs \union {NoConfig}
    /\ lp \in {"credentials", "running"} =>
          /\ held.digest \in Configs
          /\ held.provider = held.digest.provider
          /\ held.model = held.digest.model

LEMMA LaunchKeepsBound ==
    ASSUME BoundToOne, LaunchNext
    PROVE  BoundToOne'
<1> USE DEF BoundToOne
<1>1. CASE FreezeRunner \/ WriteScope \/ ReadProvider \/ ReadConfig \/ StartAgain
    BY <1>1 DEF FreezeRunner, WriteScope, ReadProvider, ReadConfig, StartAgain, StartStops,
                files, launcher
<1>2. CASE LoadManifest
    BY <1>2 DEF LoadManifest, files
<1>3. CASE ValidateManifest \/ ScopeBinding
    BY <1>3 DEF ValidateManifest, ScopeBinding, Check, files
<1>4. CASE ProfileBinding
    BY <1>4 DEF ProfileBinding, Check, SameConfig, files
<1>5. CASE Credentials
    BY <1>5 DEF Credentials, Check, files
<1>6. CASE Edit
    BY <1>6 DEF Edit, launcher
<1> QED
    BY <1>1, <1>2, <1>3, <1>4, <1>5, <1>6 DEF LaunchNext

LEMMA WorkLeavesLaunch ==
    ASSUME WorkerNext
    PROVE  LaunchNext \/ UNCHANGED launch
BY DEF WorkerNext, ReadFile, WriteBegin, WriteFile, WriteEvent, CopyRefused, CopyFile,
       CopyEntry, WorkerEnds, Finalize, Foreign, LosesTask, GitFails

LEMMA BoundAtFirst ==
    ASSUME WorkerInit
    PROVE  BoundToOne
<1>1. CASE Launched
    <2> DEFINE c == CHOOSE x \in Configs : TRUE
    <2>1. c \in Configs
        BY ConfigsAssumption
    <2>2. config = c /\ held = manifest /\ manifest.digest = c /\ manifest.provider = c.provider
          /\ manifest.model = c.model
        BY <1>1 DEF Launched
    <2> HIDE DEF c
    <2> QED
        BY <2>1, <2>2 DEF BoundToOne
<1>2. CASE LaunchInit
    BY <1>2 DEF LaunchInit, BoundToOne
<1> QED
    BY <1>1, <1>2 DEF WorkerInit

(* A worker that runs was bound to one version of the config, whenever the *)
(* config, the keys or the runner are edited and the start is repeated.    *)
THEOREM LaunchBound == WorkerSpec => []BoundToOne
<1>1. BoundToOne /\ [WorkerNext]_<<launch, work>> => BoundToOne'
    <2> SUFFICES ASSUME BoundToOne, [WorkerNext]_<<launch, work>>
                 PROVE  BoundToOne'
        OBVIOUS
    <2>1. CASE LaunchNext
        BY <2>1, LaunchKeepsBound
    <2>2. CASE UNCHANGED launch
        BY <2>2 DEF launch, files, launcher, BoundToOne
    <2> QED
        BY <2>1, <2>2, WorkLeavesLaunch
<1> QED
    BY BoundAtFirst, <1>1, PTL DEF WorkerSpec

(* The provider and the model a worker runs with are those of one version  *)
(* of its profile's config.                                                *)
THEOREM OneConfigHolds == WorkerSpec => []OneConfig
<1>1. BoundToOne => OneConfig
    BY DEF BoundToOne, OneConfig
<1> QED
    BY LaunchBound, <1>1, PTL

-----------------------------------------------------------------------------
(* The work.                                                               *)
Contents == {"old", "edited", "mine", "theirs"}
Accesses == [op : {"read", "write"}, path : Seq(STRING), allowed : BOOLEAN, mine : BOOLEAN]
Calls    == [tool : {"none", "write", "patch", "copy"}, path : Paths \union {<<>>},
             stage : {"idle", "checked", "written", "gone"}]
Pasts    == [begin : [Paths -> Contents], wrote : SUBSET Paths,
             others : BOOLEAN, mishap : BOOLEAN, copied : BOOLEAN]
Verdicts == {"none", "violated", "unknown", "compliant", "not_applicable"}
Results  == {"empty", "copied", "STALE_SPEC", "WRITE_SCOPE_VIOLATION", "FORBIDDEN_SCOPE",
             "DIRTY_CONFLICT"}

WorkTypeOK ==
    /\ site \in Sites /\ spec \in FrozenSpecs
    /\ disk \in [Paths -> Contents] /\ head \in [Paths -> Contents]
    /\ DOMAIN baseline \subseteq Paths
    /\ events \in Seq(Accesses)
    /\ audit \in Results
    /\ call \in Calls
    /\ task \in {"running", "revised", "ended"}
    /\ verdict \in Verdicts
    /\ git \in BOOLEAN /\ troubles \in Nat
    /\ past \in Pasts

FileTools == {"write", "patch"}

(* The guard grants a write of q in the scopes sc.                         *)
MayWrite(q, sc) ==
    GuardAllows(q, sc["write_scope"]) /\ ~GuardAllows(q, sc["forbidden_scope"])

OwnWrite(evs, i, q) == evs[i].mine /\ evs[i].op = "write" /\ evs[i].path = q

(* A read is granted by its scope, or by an earlier write of this run that *)
(* the verifier agrees with.                                               *)
ReadGranted(evs, i, sc, runtime) ==
    LET q == evs[i].path
    IN /\ ~GuardAllows(q, sc["forbidden_scope"])
       /\ \/ GuardAllows(q, sc["read_scope"])
          \/ /\ VerifierAllows(q, sc["write_scope"])
             /\ ~VerifierAllows(q, sc["forbidden_scope"])
             /\ Tier(q, "write", Plugin, runtime) = "PROJECT_WRITE"
             /\ \E j \in DOMAIN evs : j < i /\ OwnWrite(evs, j, q)

(* Every event of this run tells a write that was granted and made, or a   *)
(* read that was granted unless it says otherwise.                         *)
EventFits(evs, i, sc, here, wrote) ==
    evs[i].mine =>
        /\ evs[i].op = "write" =>
              /\ MayWrite(evs[i].path, sc)
              /\ \E p \in wrote : evs[i].path = SubSeq(p, Len(here.root) + 1, Len(p))
        /\ evs[i].op = "read" /\ evs[i].allowed => ReadGranted(evs, i, sc, here.runtime)

EventsOK == \A i \in DOMAIN events : EventFits(events, i, Scope, site, past.wrote)

AllowedOK == ~past.mishap => \A i \in DOMAIN events : events[i].mine => events[i].allowed

(* The baseline is what was dirty when the worker was started.             *)
BaselineOK ==
    /\ \A p \in DOMAIN baseline : baseline[p] = past.begin[p]
    /\ ~past.others => \A p \in Paths : p \in DOMAIN baseline <=> past.begin[p] # head[p]

(* A write under way was granted, and one that was made is remembered.     *)
CallOK ==
    call.tool \in FileTools =>
        /\ call.stage \in {"checked", "written"} =>
              call.path \in Paths /\ MayWrite(Relative(call.path), Scope)
        /\ call.stage = "written" => call.path \in past.wrote

(* Where nothing went wrong, every write made left its event, or is about  *)
(* to.                                                                     *)
WroteOK ==
    ~past.mishap =>
        \A p \in past.wrote :
            \/ \E i \in DOMAIN events : OwnWrite(events, i, Relative(p))
            \/ call.stage = "written" /\ call.tool \in FileTools /\ call.path = p

(* Where nobody else changed a file, what changed was written.             *)
ChangesOK ==
    ~past.others /\ ~past.copied =>
        \A p \in Paths : disk[p] # past.begin[p] => p \in past.wrote

VerdictOK ==
    /\ verdict # "none" => call.stage = "gone"
    /\ CompliantMeansInScope
    /\ HonestIsCompliant

WInv ==
    /\ WorkTypeOK /\ BaselineOK /\ EventsOK /\ AllowedOK
    /\ CallOK /\ WroteOK /\ ChangesOK /\ VerdictOK

-----------------------------------------------------------------------------
LEMMA RelativeIsPath ==
    ASSUME site \in Sites, NEW p \in Paths
    PROVE  /\ Relative(p) \in Seq(STRING)
           /\ site.root = <<>> => Relative(p) = p
<1>1. p \in Seq(STRING) /\ site.root \in Seq(STRING)
    BY PathsAssumption
<1>2. Relative(p) = SubSeq(p, Len(site.root) + 1, Len(p))
    BY DEF Relative
<1>3. Relative(p) \in Seq(STRING)
    BY <1>1, <1>2
<1>4. ASSUME site.root = <<>>
      PROVE  Relative(p) = p
    BY <1>1, <1>2, <1>4, SubSeqFull
<1> QED
    BY <1>3, <1>4

(* Before the verdict, what is said about it holds.                        *)
LEMMA NoVerdict ==
    ASSUME verdict' = "none"
    PROVE  VerdictOK'
BY DEF VerdictOK, CompliantMeansInScope, HonestIsCompliant

(* What is said about the verdict does not depend on the launch.           *)
LEMMA VerdictStays ==
    ASSUME VerdictOK, UNCHANGED <<site, spec, disk, head, baseline, events, call, verdict,
                                  git, past>>
    PROVE  VerdictOK'
<1>1. CompliantMeansInScope' <=> CompliantMeansInScope
    BY DEF CompliantMeansInScope, Dirty, TierOf, InScope, Scope
<1>2. Honest' <=> Honest
    BY DEF Honest, Alike, TierOf, Scope
<1>3. HonestIsCompliant' <=> HonestIsCompliant
    BY <1>2 DEF HonestIsCompliant
<1> QED
    BY <1>1, <1>3 DEF VerdictOK

-----------------------------------------------------------------------------
LEMMA WorkAtFirst ==
    ASSUME WorkerInit
    PROVE  WInv
<1>1. WorkInit
    BY DEF WorkerInit
<1>2. /\ site \in Sites /\ spec \in FrozenSpecs
      /\ head = [p \in Paths |-> "old"]
      /\ disk \in {head} \union {[head EXCEPT ![p] = "edited"] : p \in Paths}
      /\ baseline = [p \in Dirty |-> disk[p]]
      /\ audit = "empty" /\ call = Idle
      /\ task = "running" /\ verdict = "none" /\ git = TRUE /\ troubles = 0
      /\ past = Clear
    BY <1>1 DEF WorkInit, Snapshot
<1>3. head \in [Paths -> Contents] /\ disk \in [Paths -> Contents]
    <2>1. head \in [Paths -> Contents]
        BY <1>2 DEF Contents
    <2>2. disk \in [Paths -> Contents]
        BY <1>2, <2>1 DEF Contents
    <2> QED
        BY <2>1, <2>2
<1>4. past \in Pasts /\ past.begin = disk /\ past.wrote = {} /\ ~past.mishap
    BY <1>2, <1>3 DEF Clear, Pasts
<1>5. events \in Seq(Accesses) /\ \A i \in DOMAIN events : ~events[i].mine
    <2>1. CASE events = <<>>
        BY <2>1
    <2>2. CASE events = <<[op |-> "write", path |-> <<>>, allowed |-> TRUE, mine |-> FALSE]>>
        <3>1. <<>> \in Seq(STRING)
            OBVIOUS
        <3>2. [op |-> "write", path |-> <<>>, allowed |-> TRUE, mine |-> FALSE] \in Accesses
            BY <3>1 DEF Accesses
        <3> QED
            BY <2>2, <3>2
    <2> QED
        BY <1>1, <2>1, <2>2 DEF WorkInit
<1>6. call \in Calls /\ call.stage = "idle" /\ call.tool = "none"
    BY <1>2 DEF Idle, Calls
<1>7. Dirty \subseteq Paths /\ DOMAIN baseline = Dirty
    BY <1>2 DEF Dirty
<1>8. WorkTypeOK
    BY <1>2, <1>3, <1>4, <1>5, <1>6, <1>7 DEF WorkTypeOK, Results, Verdicts
<1>9. BaselineOK
    BY <1>2, <1>4, <1>7 DEF BaselineOK, Dirty
<1>10. EventsOK /\ AllowedOK
    BY <1>5 DEF EventsOK, EventFits, AllowedOK
<1>11. CallOK /\ WroteOK /\ ChangesOK
    BY <1>4, <1>6 DEF CallOK, WroteOK, ChangesOK, FileTools
<1>12. VerdictOK
    BY <1>2 DEF VerdictOK, CompliantMeansInScope, HonestIsCompliant
<1> QED
    BY <1>8, <1>9, <1>10, <1>11, <1>12 DEF WInv

(* What an event that is recorded does: it is granted, or it says so.      *)
LEMMA RecordFits ==
    ASSUME WorkTypeOK, EventsOK, AllowedOK, UNCHANGED <<site, spec>>,
           NEW op \in {"read", "write"}, NEW q \in Seq(STRING), NEW allowed \in BOOLEAN,
           Record(op, q, allowed),
           op = "write" => /\ MayWrite(q, Scope)
                           /\ \E p \in past.wrote : q = Relative(p),
           op = "read" /\ allowed =>
               /\ ~GuardAllows(q, Scope["forbidden_scope"])
               /\ GuardAllows(q, Scope["read_scope"]) \/ PriorWrite(q)
    PROVE  /\ events' \in Seq(Accesses) /\ past' \in Pasts
           /\ past'.begin = past.begin /\ past'.wrote = past.wrote
           /\ past'.others = past.others /\ past'.copied = past.copied
           /\ past.mishap => past'.mishap
           /\ EventsOK' /\ AllowedOK'
           /\ \A p : ~past'.mishap /\ (\E i \in DOMAIN events : OwnWrite(events, i, p)) =>
                         \E i \in DOMAIN events' : OwnWrite(events', i, p)
           /\ ~past'.mishap /\ op = "write" =>
                  \E i \in DOMAIN events' : OwnWrite(events', i, q)
<1> DEFINE e == [op |-> op, path |-> q, allowed |-> allowed, mine |-> TRUE]
<1>0. events \in Seq(Accesses) /\ past \in Pasts /\ Scope' = Scope
    BY DEF WorkTypeOK, Scope
<1>1. e \in Accesses
    BY DEF Accesses
<1>2. CASE events' = events /\ past' = [past EXCEPT !.mishap = TRUE]
    <2>1. past' \in Pasts /\ past'.wrote = past.wrote /\ past'.mishap
          /\ past'.begin = past.begin
          /\ past'.others = past.others /\ past'.copied = past.copied
        BY <1>0, <1>2 DEF Pasts
    <2>2. EventsOK'
        BY <1>0, <1>2, <2>1 DEF EventsOK
    <2> QED
        BY <1>0, <1>2, <2>1, <2>2 DEF AllowedOK
<1>3. CASE events' = Append(events, e) /\ past' = [past EXCEPT !.mishap = @ \/ ~allowed]
    <2>1. past' \in Pasts /\ past'.wrote = past.wrote /\ past'.mishap = (past.mishap \/ ~allowed)
          /\ past'.begin = past.begin
          /\ past'.others = past.others /\ past'.copied = past.copied
        BY <1>0, <1>3 DEF Pasts
    <2>2. events' \in Seq(Accesses) /\ DOMAIN events' = 1 .. Len(events) + 1
          /\ events'[Len(events) + 1] = e /\ \A i \in 1 .. Len(events) : events'[i] = events[i]
        BY <1>0, <1>1, <1>3
    <2>3. DOMAIN events = 1 .. Len(events) /\ Len(events) \in Nat
        BY <1>0
    <2>4. e.op = op /\ e.path = q /\ e.allowed = allowed /\ e.mine = TRUE
        OBVIOUS
    <2> HIDE DEF e
    <2>5. \A i \in DOMAIN events : EventFits(events', i, Scope, site, past.wrote)
        <3> SUFFICES ASSUME NEW i \in DOMAIN events, events[i].mine
                     PROVE  /\ events[i].op = "write" =>
                               /\ MayWrite(events[i].path, Scope)
                               /\ \E p \in past.wrote : events[i].path
                                          = SubSeq(p, Len(site.root) + 1, Len(p))
                            /\ events[i].op = "read" /\ events[i].allowed =>
                                  ReadGranted(events', i, Scope, site.runtime)
            BY <2>2, <2>3 DEF EventFits
        <3>1. EventFits(events, i, Scope, site, past.wrote)
            BY DEF EventsOK
        <3>2. ReadGranted(events, i, Scope, site.runtime) =>
                  ReadGranted(events', i, Scope, site.runtime)
            BY <2>2, <2>3 DEF ReadGranted, OwnWrite
        <3> QED
            BY <3>1, <3>2 DEF EventFits
    <2>6. EventFits(events', Len(events) + 1, Scope, site, past.wrote)
        <3>1. op = "write" => \E p \in past.wrote : q = SubSeq(p, Len(site.root) + 1, Len(p))
            BY DEF Relative
        <3>2. op = "read" /\ allowed =>
                  ReadGranted(events', Len(events) + 1, Scope, site.runtime)
            <4> SUFFICES ASSUME op = "read", allowed,
                                ~GuardAllows(q, Scope["read_scope"])
                         PROVE  /\ VerifierAllows(q, Scope["write_scope"])
                                /\ ~VerifierAllows(q, Scope["forbidden_scope"])
                                /\ Tier(q, "write", Plugin, site.runtime) = "PROJECT_WRITE"
                                /\ \E j \in DOMAIN events' :
                                       j < Len(events) + 1 /\ OwnWrite(events', j, q)
                BY <2>2, <2>4 DEF ReadGranted
            <4>1. PriorWrite(q)
                OBVIOUS
            <4>2. PICK j \in DOMAIN events : OwnWrite(events, j, q)
                BY <4>1 DEF PriorWrite, OwnWrite
            <4>3. j \in DOMAIN events' /\ j < Len(events) + 1 /\ OwnWrite(events', j, q)
                BY <2>2, <2>3, <4>2 DEF OwnWrite
            <4> QED
                BY <4>1, <4>3 DEF PriorWrite, TierOf
        <3> QED
            BY <2>2, <2>4, <3>1, <3>2 DEF EventFits
    <2>7. EventsOK'
        <3>1. \A i \in DOMAIN events' : EventFits(events', i, Scope, site, past.wrote)
            BY <2>2, <2>3, <2>5, <2>6
        <3> QED
            BY <1>0, <2>1, <3>1 DEF EventsOK
    <2>8. AllowedOK'
        <3> SUFFICES ASSUME ~past'.mishap, NEW i \in DOMAIN events', events'[i].mine
                     PROVE  events'[i].allowed
            BY DEF AllowedOK
        <3>1. ~past.mishap /\ allowed
            BY <2>1
        <3>2. CASE i = Len(events) + 1
            BY <2>2, <2>4, <3>1, <3>2
        <3>3. CASE i \in DOMAIN events
            BY <2>2, <2>3, <3>1, <3>3 DEF AllowedOK
        <3> QED
            BY <2>2, <2>3, <3>2, <3>3
    <2>9. \A p : (\E i \in DOMAIN events : OwnWrite(events, i, p)) =>
                     \E i \in DOMAIN events' : OwnWrite(events', i, p)
        BY <2>2, <2>3 DEF OwnWrite
    <2>10. op = "write" => OwnWrite(events', Len(events) + 1, q)
        BY <2>2, <2>4 DEF OwnWrite
    <2>11. Len(events) + 1 \in DOMAIN events'
        BY <2>2, <2>3
    <2> QED
        BY <2>1, <2>2, <2>7, <2>8, <2>9, <2>10, <2>11
<1> QED
    BY <1>2, <1>3 DEF Record

-----------------------------------------------------------------------------
LEMMA ReadFileKeeps ==
    ASSUME WInv, NEW p \in Project, ReadFile(p)
    PROVE  WInv'
<1> DEFINE q == Relative(p)
           granted == /\ ~GuardAllows(q, Scope["forbidden_scope"])
                      /\ GuardAllows(q, Scope["read_scope"]) \/ PriorWrite(q)
<1>0. /\ UNCHANGED <<site, spec, disk, head, baseline, audit, call, task, verdict, git, troubles>>
      /\ Record("read", q, granted) /\ Working /\ WorkTypeOK
    BY DEF ReadFile, WInv
<1>1. p \in Paths /\ q \in Seq(STRING)
    BY <1>0, RelativeIsPath DEF Project, WorkTypeOK
<1>2. granted \in BOOLEAN
    BY DEF GuardAllows, PriorWrite
<1>3. granted => /\ ~GuardAllows(q, Scope["forbidden_scope"])
                 /\ GuardAllows(q, Scope["read_scope"]) \/ PriorWrite(q)
    OBVIOUS
<1> HIDE DEF granted, q
<1>4. /\ events' \in Seq(Accesses) /\ past' \in Pasts
      /\ past'.begin = past.begin /\ past'.wrote = past.wrote
      /\ past'.others = past.others /\ past'.copied = past.copied
      /\ past.mishap => past'.mishap
      /\ EventsOK' /\ AllowedOK'
      /\ \A r : ~past'.mishap /\ (\E i \in DOMAIN events : OwnWrite(events, i, r)) =>
                    \E i \in DOMAIN events' : OwnWrite(events', i, r)
    BY <1>0, <1>1, <1>2, <1>3, RecordFits DEF WInv
<1>5. WorkTypeOK'
    BY <1>0, <1>4 DEF WorkTypeOK
<1>6. BaselineOK' /\ ChangesOK'
    BY <1>0, <1>4 DEF WInv, BaselineOK, ChangesOK
<1>7. CallOK'
    BY <1>0, <1>4 DEF WInv, CallOK, Relative, Scope
<1>8. WroteOK'
    BY <1>0, <1>4 DEF WInv, WroteOK, Relative
<1>9. VerdictOK'
    BY <1>0, NoVerdict DEF Working
<1> QED
    BY <1>4, <1>5, <1>6, <1>7, <1>8, <1>9 DEF WInv

LEMMA WriteBeginKeeps ==
    ASSUME WInv, NEW p \in Project, NEW tool \in FileTools, WriteBegin(p, tool)
    PROVE  WInv'
<1>0. /\ UNCHANGED <<site, spec, disk, head, baseline, events, audit, task, verdict, git,
                     troubles, past>>
      /\ call' = [tool |-> tool, path |-> p, stage |-> "checked"]
      /\ MayWrite(Relative(p), Scope)
      /\ call.stage = "idle" /\ verdict = "none"
    BY DEF WriteBegin, Working, MayWrite
<1>1. p \in Paths /\ WorkTypeOK
    BY DEF Project, WInv
<1>2. WorkTypeOK'
    BY <1>0, <1>1 DEF WorkTypeOK, Calls, FileTools
<1>3. BaselineOK' /\ AllowedOK' /\ ChangesOK'
    BY <1>0 DEF WInv, BaselineOK, AllowedOK, ChangesOK
<1>4. EventsOK'
    BY <1>0 DEF WInv, EventsOK, Scope
<1>5. CallOK'
    BY <1>0, <1>1 DEF CallOK, Relative, Scope
<1>6. WroteOK'
    BY <1>0 DEF WInv, WroteOK, Relative
<1>7. VerdictOK'
    BY <1>0, NoVerdict
<1> QED
    BY <1>2, <1>3, <1>4, <1>5, <1>6, <1>7 DEF WInv

LEMMA WriteFileKeeps ==
    ASSUME WInv, WriteFile
    PROVE  WInv'
<1> DEFINE p == call.path
<1>0. /\ UNCHANGED <<site, spec, head, baseline, events, audit, task, verdict, git, troubles>>
      /\ call.stage = "checked" /\ call.tool \in FileTools
      /\ past' = [past EXCEPT !.wrote = @ \union {p}]
      /\ call' = [call EXCEPT !.stage = "written"]
      /\ WorkTypeOK
    BY DEF WriteFile, WInv, FileTools
<1>1. p \in Paths /\ MayWrite(Relative(p), Scope) /\ verdict = "none"
    BY <1>0 DEF WInv, CallOK, VerdictOK
<1>2. PICK c \in Contents : disk' = [disk EXCEPT ![p] = c]
    BY DEF WriteFile, Contents
<1>3. call' \in Calls /\ call'.stage = "written" /\ call'.tool = call.tool /\ call'.path = p
    BY <1>0 DEF WorkTypeOK, Calls
<1>4. /\ past' \in Pasts /\ past'.wrote = past.wrote \union {p} /\ past'.begin = past.begin
      /\ past'.others = past.others /\ past'.copied = past.copied
      /\ past'.mishap = past.mishap
    BY <1>0, <1>1 DEF WorkTypeOK, Pasts
<1>5. WorkTypeOK'
    <2>1. disk' \in [Paths -> Contents]
        BY <1>0, <1>1, <1>2 DEF WorkTypeOK
    <2> QED
        BY <1>0, <1>3, <1>4, <2>1 DEF WorkTypeOK
<1> HIDE DEF p
<1>6. BaselineOK' /\ AllowedOK'
    BY <1>0, <1>4 DEF WInv, BaselineOK, AllowedOK
<1>7. EventsOK'
    BY <1>0, <1>4 DEF WInv, EventsOK, EventFits, Scope
<1>8. CallOK'
    BY <1>0, <1>1, <1>3, <1>4 DEF CallOK, Relative, Scope
<1>9. WroteOK'
    BY <1>0, <1>3, <1>4 DEF WInv, WroteOK, Relative
<1>10. ChangesOK'
    BY <1>0, <1>1, <1>2, <1>4 DEF WInv, WorkTypeOK, ChangesOK
<1>11. VerdictOK'
    BY <1>0, <1>1, NoVerdict
<1> QED
    BY <1>5, <1>6, <1>7, <1>8, <1>9, <1>10, <1>11 DEF WInv

LEMMA WriteEventKeeps ==
    ASSUME WInv, WriteEvent
    PROVE  WInv'
<1> DEFINE q == Relative(call.path)
<1>0. /\ UNCHANGED <<site, spec, disk, head, baseline, audit, task, verdict, git, troubles>>
      /\ call.stage = "written" /\ call.tool \in FileTools
      /\ Record("write", q, TRUE)
      /\ call' = Idle
      /\ WorkTypeOK
    BY DEF WriteEvent, WInv, FileTools
<1>1. /\ call.path \in Paths /\ MayWrite(q, Scope) /\ verdict = "none"
      /\ call.path \in past.wrote
    BY <1>0 DEF WInv, CallOK, VerdictOK
<1>2. q \in Seq(STRING)
    BY <1>0, <1>1, RelativeIsPath DEF WorkTypeOK
<1>3. \E p \in past.wrote : q = Relative(p)
    BY <1>1
<1> HIDE DEF q
<1>4. /\ events' \in Seq(Accesses) /\ past' \in Pasts
      /\ past'.begin = past.begin /\ past'.wrote = past.wrote
      /\ past'.others = past.others /\ past'.copied = past.copied
      /\ past.mishap => past'.mishap
      /\ EventsOK' /\ AllowedOK'
      /\ \A r : ~past'.mishap /\ (\E i \in DOMAIN events : OwnWrite(events, i, r)) =>
                    \E i \in DOMAIN events' : OwnWrite(events', i, r)
      /\ ~past'.mishap => \E i \in DOMAIN events' : OwnWrite(events', i, q)
    BY <1>0, <1>1, <1>2, <1>3, RecordFits DEF WInv
<1>5. call' \in Calls /\ call'.stage = "idle" /\ call'.tool = "none"
    BY <1>0 DEF Idle, Calls
<1>6. WorkTypeOK'
    BY <1>0, <1>4, <1>5 DEF WorkTypeOK
<1>7. BaselineOK' /\ ChangesOK'
    BY <1>0, <1>4 DEF WInv, BaselineOK, ChangesOK
<1>8. CallOK'
    BY <1>5 DEF CallOK, FileTools
<1>9. WroteOK'
    <2> SUFFICES ASSUME ~past'.mishap, NEW r \in past.wrote
                 PROVE  \E i \in DOMAIN events' : OwnWrite(events', i, Relative(r))
        BY <1>0, <1>4 DEF WroteOK, Relative
    <2>1. CASE call.path = r
        BY <1>4, <2>1 DEF q
    <2>2. CASE \E i \in DOMAIN events : OwnWrite(events, i, Relative(r))
        BY <1>4, <2>2
    <2> QED
        BY <1>4, <2>1, <2>2 DEF WInv, WroteOK
<1>10. VerdictOK'
    BY <1>0, <1>1, NoVerdict
<1> QED
    BY <1>4, <1>6, <1>7, <1>8, <1>9, <1>10 DEF WInv

LEMMA CopyKeeps ==
    ASSUME WInv, NEW src \in Paths, NEW dst \in Paths,
           CopyRefused(src, dst) \/ CopyFile(src, dst)
    PROVE  WInv'
<1>1. CASE CopyRefused(src, dst)
    <2>0. /\ UNCHANGED <<site, spec, disk, head, baseline, events, call, task, verdict, git,
                         troubles, past>>
          /\ verdict = "none" /\ WorkTypeOK
        BY <1>1 DEF CopyRefused, Working, WInv
    <2>1. audit' \in Results
        <3>1. Refusal(src, dst) \in Results \union {"none"}
            BY DEF Refusal, Results
        <3> QED
            BY <1>1, <2>0, <3>1 DEF CopyRefused, WorkTypeOK
    <2>2. WorkTypeOK'
        BY <2>0, <2>1 DEF WorkTypeOK
    <2>3. BaselineOK' /\ AllowedOK' /\ ChangesOK'
        BY <2>0 DEF WInv, BaselineOK, AllowedOK, ChangesOK
    <2>4. EventsOK' /\ CallOK' /\ WroteOK'
        BY <2>0 DEF WInv, EventsOK, CallOK, WroteOK, Relative, Scope
    <2>5. VerdictOK'
        BY <2>0, NoVerdict
    <2> QED
        BY <2>2, <2>3, <2>4, <2>5 DEF WInv
<1>2. CASE CopyFile(src, dst)
    <2>0. /\ UNCHANGED <<site, spec, head, baseline, events, audit, task, verdict, git,
                         troubles>>
          /\ disk' = [disk EXCEPT ![dst] = disk[src]]
          /\ past' = [past EXCEPT !.copied = TRUE]
          /\ call' = [tool |-> "copy", path |-> dst, stage |-> "written"]
          /\ call.stage = "idle" /\ verdict = "none" /\ WorkTypeOK
        BY <1>2 DEF CopyFile, Working, WInv
    <2>1. /\ past' \in Pasts /\ past'.copied
          /\ past'.wrote = past.wrote /\ past'.begin = past.begin
          /\ past'.others = past.others /\ past'.mishap = past.mishap
        BY <2>0 DEF WorkTypeOK, Pasts
    <2>2. call' \in Calls /\ call'.tool = "copy"
        BY <2>0 DEF Calls
    <2>3. disk' \in [Paths -> Contents]
        BY <2>0 DEF WorkTypeOK
    <2>4. WorkTypeOK'
        BY <2>0, <2>1, <2>2, <2>3 DEF WorkTypeOK
    <2>5. BaselineOK' /\ AllowedOK' /\ ChangesOK'
        BY <2>0, <2>1 DEF WInv, BaselineOK, AllowedOK, ChangesOK
    <2>6. EventsOK' /\ CallOK'
        BY <2>0, <2>1, <2>2 DEF WInv, EventsOK, CallOK, FileTools, Scope
    <2>7. WroteOK'
        BY <2>0, <2>1 DEF WInv, WroteOK, Relative
    <2>8. VerdictOK'
        BY <2>0, NoVerdict
    <2> QED
        BY <2>4, <2>5, <2>6, <2>7, <2>8 DEF WInv
<1> QED
    BY <1>1, <1>2

LEMMA CopyEntryKeeps ==
    ASSUME WInv, CopyEntry
    PROVE  WInv'
<1>0. /\ UNCHANGED <<site, spec, disk, head, baseline, events, task, verdict, git, troubles,
                     past>>
      /\ call.stage = "written" /\ call.tool = "copy" /\ call' = Idle
      /\ audit' \in {"copied", audit} /\ verdict = "none" /\ WorkTypeOK
    BY DEF CopyEntry, WInv, VerdictOK
<1>1. call' \in Calls /\ call'.stage = "idle" /\ call'.tool = "none"
    BY <1>0 DEF Idle, Calls
<1>2. WorkTypeOK'
    BY <1>0, <1>1 DEF WorkTypeOK, Results
<1>3. BaselineOK' /\ AllowedOK' /\ ChangesOK'
    BY <1>0 DEF WInv, BaselineOK, AllowedOK, ChangesOK
<1>4. EventsOK' /\ CallOK' /\ WroteOK'
    BY <1>0, <1>1 DEF WInv, EventsOK, CallOK, WroteOK, FileTools, Relative, Scope
<1>5. VerdictOK'
    BY <1>0, NoVerdict
<1> QED
    BY <1>2, <1>3, <1>4, <1>5 DEF WInv

LEMMA WorkerEndsKeeps ==
    ASSUME WInv, WorkerEnds
    PROVE  WInv'
<1>0. /\ UNCHANGED <<site, spec, disk, head, baseline, events, audit, task, verdict, git,
                     troubles>>
      /\ past' = [past EXCEPT !.mishap = @ \/ call.stage # "idle"]
      /\ call' = [Idle EXCEPT !.stage = "gone"]
      /\ verdict = "none" /\ WorkTypeOK
    BY DEF WorkerEnds, WInv
<1>1. /\ past' \in Pasts /\ past'.wrote = past.wrote /\ past'.begin = past.begin
      /\ past'.others = past.others /\ past'.copied = past.copied
      /\ ~past'.mishap => ~past.mishap /\ call.stage = "idle"
    BY <1>0 DEF WorkTypeOK, Pasts
<1>2. call' \in Calls /\ call'.stage = "gone" /\ call'.tool = "none"
    BY <1>0 DEF Idle, Calls
<1>3. WorkTypeOK'
    BY <1>0, <1>1, <1>2 DEF WorkTypeOK
<1>4. BaselineOK' /\ AllowedOK' /\ ChangesOK'
    BY <1>0, <1>1 DEF WInv, BaselineOK, AllowedOK, ChangesOK
<1>5. EventsOK' /\ CallOK'
    BY <1>0, <1>1, <1>2 DEF WInv, EventsOK, CallOK, FileTools, Scope
<1>6. WroteOK'
    BY <1>0, <1>1 DEF WInv, WroteOK, Relative
<1>7. VerdictOK'
    BY <1>0, NoVerdict
<1> QED
    BY <1>3, <1>4, <1>5, <1>6, <1>7 DEF WInv

LEMMA TroubleKeeps ==
    ASSUME WInv, Foreign \/ LosesTask \/ GitFails
    PROVE  WInv'
<1>0. /\ UNCHANGED <<site, spec, baseline, events, audit, call, verdict>>
      /\ verdict = "none" /\ WorkTypeOK /\ troubles' \in Nat
    BY DEF Foreign, LosesTask, GitFails, Trouble, WInv, WorkTypeOK
<1>1. VerdictOK'
    BY <1>0, NoVerdict
<1>2. CASE Foreign
    <2>1. UNCHANGED <<task, git>> /\ past' = [past EXCEPT !.others = TRUE]
        BY <1>2 DEF Foreign
    <2>2. /\ past' \in Pasts /\ past'.others
          /\ past'.wrote = past.wrote /\ past'.begin = past.begin
          /\ past'.copied = past.copied /\ past'.mishap = past.mishap
        BY <1>0, <2>1 DEF WorkTypeOK, Pasts
    <2>3. disk' \in [Paths -> Contents] /\ head' \in [Paths -> Contents]
        <3>1. CASE \E p \in Paths : \E c \in {"theirs", head[p]} :
                       disk' = [disk EXCEPT ![p] = c] /\ UNCHANGED head
            BY <1>0, <3>1 DEF WorkTypeOK, Contents
        <3>2. CASE head' = disk /\ UNCHANGED disk
            BY <1>0, <3>2 DEF WorkTypeOK
        <3> QED
            BY <1>2, <3>1, <3>2 DEF Foreign
    <2>4. WorkTypeOK'
        BY <1>0, <2>1, <2>2, <2>3 DEF WorkTypeOK
    <2>5. BaselineOK' /\ AllowedOK' /\ ChangesOK'
        BY <1>0, <2>2 DEF WInv, BaselineOK, AllowedOK, ChangesOK
    <2>6. EventsOK' /\ CallOK' /\ WroteOK'
        BY <1>0, <2>2 DEF WInv, EventsOK, CallOK, WroteOK, Relative, Scope
    <2> QED
        BY <1>1, <2>4, <2>5, <2>6 DEF WInv
<1>3. CASE LosesTask \/ GitFails
    <2>1. /\ UNCHANGED <<disk, head, past>>
          /\ task' \in {"running", "revised", "ended"} /\ git' \in BOOLEAN
        BY <1>0, <1>3 DEF LosesTask, GitFails, WorkTypeOK
    <2>2. WorkTypeOK'
        BY <1>0, <2>1 DEF WorkTypeOK
    <2>3. BaselineOK' /\ AllowedOK' /\ ChangesOK'
        BY <1>0, <2>1 DEF WInv, BaselineOK, AllowedOK, ChangesOK
    <2>4. EventsOK' /\ CallOK' /\ WroteOK'
        BY <1>0, <2>1 DEF WInv, EventsOK, CallOK, WroteOK, Relative, Scope
    <2> QED
        BY <1>1, <2>2, <2>3, <2>4 DEF WInv
<1> QED
    BY <1>2, <1>3

-----------------------------------------------------------------------------
(* An event of this run that has the tier of a write is a write.           *)
LEMMA WriteTier ==
    ASSUME NEW q, NEW op \in {"read", "write"}, site.runtime \in BOOLEAN
    PROVE  /\ TierOf(q, op) = "PROJECT_WRITE" => op = "write"
           /\ TierOf(q, "write") # "PROJECT_READ"
           /\ TierOf(q, "write") = "PROJECT_WRITE" => TierOf(q, "read") = "PROJECT_READ"
BY DEF TierOf, Tier

(* What changed since the start and is uncommitted, or was at the start,   *)
(* is in the difference the finalizer sees; and where nobody else worked,  *)
(* nothing else is.                                                        *)
LEMMA DeltaSees ==
    ASSUME WInv, git, NEW p \in Paths
    PROVE  /\ disk[p] # past.begin[p] /\ p \in Dirty \union DOMAIN baseline => p \in Delta
           /\ p \in Delta /\ ~past.others => disk[p] # past.begin[p]
<1>0. BaselineOK
    BY DEF WInv
<1>1. p \in Dirty <=> disk[p] # head[p]
    BY DEF Dirty
<1>2. p \in Dirty => Snapshot[p] = disk[p]
    BY DEF Snapshot
<1>3. p \in Delta <=> \/ (p \in Dirty) # (p \in DOMAIN baseline)
                      \/ p \in Dirty /\ Snapshot[p] # baseline[p]
    BY DEF Delta
<1>4. ASSUME disk[p] # past.begin[p], p \in Dirty \union DOMAIN baseline
      PROVE  p \in Delta
    BY <1>0, <1>2, <1>3, <1>4 DEF BaselineOK
<1>5. ASSUME p \in Delta, ~past.others
      PROVE  disk[p] # past.begin[p]
    <2>1. p \in DOMAIN baseline <=> past.begin[p] # head[p]
        BY <1>0, <1>5 DEF BaselineOK
    <2>2. CASE (p \in Dirty) # (p \in DOMAIN baseline)
        BY <1>1, <2>1, <2>2
    <2>3. CASE p \in Dirty /\ p \in DOMAIN baseline /\ Snapshot[p] # baseline[p]
        BY <1>0, <1>2, <2>3 DEF BaselineOK
    <2> QED
        BY <1>3, <1>5, <2>2, <2>3
<1> QED
    BY <1>4, <1>5

LEMMA VerdictCovers ==
    ASSUME WInv, Verdict = "compliant", git, site.root = <<>>,
           NEW p \in Paths, disk[p] # past.begin[p], p \in Dirty \union DOMAIN baseline,
           TierOf(p, "write") \in ProjectTiers
    PROVE  p \in past.wrote /\ InScope(p, "write_scope")
<1>0. WorkTypeOK /\ EventsOK
    BY DEF WInv
<1>1. Unexplained = {}
    BY DEF Verdict
<1>2. p \in Delta
    BY DeltaSees
<1>3. Attributed(p) /\ InScope(p, "write_scope")
    BY <1>1, <1>2 DEF Unexplained
<1>4. PICK i \in Writes : events[i].path = p
    BY <1>3 DEF Attributed
<1>5. /\ i \in DOMAIN events /\ events[i].mine /\ events[i] \in Accesses
      /\ TierOf(p, events[i].op) = "PROJECT_WRITE"
    BY <1>0, <1>4 DEF Writes, Relevant, WorkTypeOK
<1>6. events[i].op = "write"
    BY <1>0, <1>5, WriteTier, PathsAssumption DEF Accesses, WorkTypeOK
<1>7. EventFits(events, i, Scope, site, past.wrote)
    BY <1>0, <1>5 DEF EventsOK
<1>8. PICK r \in past.wrote : p = SubSeq(r, Len(site.root) + 1, Len(r))
    BY <1>4, <1>5, <1>6, <1>7 DEF EventFits
<1>9. p = Relative(r)
    BY <1>8 DEF Relative
<1>10. r \in Paths
    BY <1>0, <1>8 DEF WorkTypeOK, Pasts
<1>11. Relative(r) = r
    BY <1>0, <1>10, RelativeIsPath DEF WorkTypeOK
<1> QED
    BY <1>3, <1>8, <1>9, <1>11

LEMMA VerdictIsFair ==
    ASSUME WInv, Honest, call.stage = "gone"
    PROVE  Verdict \in {"compliant", "not_applicable"}
<1>0. /\ WorkTypeOK /\ EventsOK /\ AllowedOK /\ WroteOK /\ ChangesOK
      /\ ~past.others /\ ~past.mishap /\ ~past.copied /\ git /\ site.root = <<>>
      /\ \A i \in DOMAIN events : events[i].mine /\ Alike(events[i].path)
      /\ \A p \in past.wrote : TierOf(p, "write") # "PROJECT_METADATA"
    BY DEF WInv, Honest
<1>1. site.runtime \in BOOLEAN
    BY <1>0, PathsAssumption DEF WorkTypeOK
<1>2. \A i \in DOMAIN events : events[i].op \in {"read", "write"}
    <2>1. \A i \in DOMAIN events : events[i] \in Accesses
        BY <1>0 DEF WorkTypeOK
    <2> QED
        BY <2>1 DEF Accesses
<1>3. ASSUME NEW i \in DOMAIN events
      PROVE  \A f \in Fields : GuardAllows(events[i].path, Scope[f])
                                   <=> VerifierAllows(events[i].path, Scope[f])
    BY <1>0 DEF Alike
<1>4. "read_scope" \in Fields /\ "write_scope" \in Fields /\ "forbidden_scope" \in Fields
    BY DEF Fields
<1>5. ASSUME NEW i \in DOMAIN events, events[i].op = "write"
      PROVE  InScope(events[i].path, "write_scope")
    <2>1. MayWrite(events[i].path, Scope)
        BY <1>0, <1>5 DEF EventsOK, EventFits
    <2> QED
        BY <1>3, <1>4, <2>1 DEF MayWrite, InScope
<1>6. ASSUME NEW p \in Delta, TierOf(p, "write") \in ProjectTiers
      PROVE  Attributed(p) /\ InScope(p, "write_scope")
    <2>1. p \in Paths
        BY DEF Delta
    <2>2. p \in past.wrote
        BY <1>0, <2>1, DeltaSees DEF ChangesOK
    <2>3. PICK i \in DOMAIN events : OwnWrite(events, i, Relative(p))
        BY <1>0, <2>2 DEF WroteOK
    <2>4. Relative(p) = p
        BY <1>0, <2>1, RelativeIsPath DEF WorkTypeOK
    <2>5. events[i].op = "write" /\ events[i].path = p /\ events[i].mine
        BY <2>3, <2>4 DEF OwnWrite
    <2>6. TierOf(p, "write") = "PROJECT_WRITE"
        BY <1>0, <1>1, <1>6, <2>2, WriteTier DEF ProjectTiers
    <2>7. i \in Writes
        BY <2>5, <2>6 DEF Writes, Relevant, ProjectTiers
    <2> QED
        BY <1>5, <2>5, <2>7 DEF Attributed
<1>7. Unexplained = {}
    BY <1>6 DEF Unexplained
<1>8. ASSUME NEW i \in Relevant
      PROVE  EventAllowed(i)
    <2>1. i \in DOMAIN events /\ events[i].mine /\ events[i].allowed
        BY <1>0 DEF Relevant, AllowedOK
    <2>2. CASE events[i].op = "write"
        BY <1>5, <2>1, <2>2 DEF EventAllowed
    <2>3. CASE events[i].op = "read"
        <3>1. ReadGranted(events, i, Scope, site.runtime)
            BY <1>0, <2>1, <2>3 DEF EventsOK, EventFits
        <3>2. CASE GuardAllows(events[i].path, Scope["read_scope"])
            <4>1. InScope(events[i].path, "read_scope")
                BY <1>3, <1>4, <2>1, <3>1, <3>2 DEF ReadGranted, InScope
            <4> QED
                BY <2>3, <4>1 DEF EventAllowed
        <3>3. CASE ~GuardAllows(events[i].path, Scope["read_scope"])
            <4>1. /\ InScope(events[i].path, "write_scope")
                  /\ TierOf(events[i].path, "write") = "PROJECT_WRITE"
                BY <3>1, <3>3 DEF ReadGranted, InScope, TierOf
            <4>2. PICK j \in DOMAIN events : j < i /\ OwnWrite(events, j, events[i].path)
                BY <3>1, <3>3 DEF ReadGranted
            <4>3. j \in Writes /\ events[j].path = events[i].path
                BY <4>1, <4>2 DEF Writes, Relevant, OwnWrite, ProjectTiers
            <4>4. TierOf(events[i].path, events[i].op) = "PROJECT_READ"
                BY <1>1, <2>3, <4>1, WriteTier
            <4>5. ~VerifierAllows(events[i].path, Scope["forbidden_scope"])
                BY <4>1 DEF InScope
            <4> QED
                BY <4>1, <4>2, <4>3, <4>4, <4>5 DEF EventAllowed
        <3> QED
            BY <3>2, <3>3
    <2> QED
        BY <1>2, <2>1, <2>2, <2>3
<1> QED
    BY <1>0, <1>7, <1>8 DEF Verdict

LEMMA FinalizeKeeps ==
    ASSUME WInv, Finalize
    PROVE  WInv'
<1>0. /\ UNCHANGED <<site, spec, disk, head, baseline, events, audit, call, task, git,
                     troubles, past>>
      /\ call.stage = "gone" /\ verdict' = Verdict
    BY DEF Finalize
<1>1. Verdict \in Verdicts
    BY DEF Verdict, Verdicts
<1>2. WorkTypeOK'
    BY <1>0, <1>1 DEF WInv, WorkTypeOK
<1>3. BaselineOK' /\ AllowedOK' /\ ChangesOK'
    BY <1>0 DEF WInv, BaselineOK, AllowedOK, ChangesOK
<1>4. EventsOK' /\ CallOK' /\ WroteOK'
    BY <1>0 DEF WInv, EventsOK, CallOK, WroteOK, Relative, Scope
<1>5. CompliantMeansInScope'
    <2>1. Verdict = "compliant" /\ git /\ site.root = <<>> =>
              \A p \in Paths :
                  /\ disk[p] # past.begin[p] /\ p \in Dirty \union DOMAIN baseline
                  /\ TierOf(p, "write") \in ProjectTiers
                  => p \in past.wrote /\ InScope(p, "write_scope")
        BY VerdictCovers
    <2> QED
        BY <1>0, <2>1 DEF CompliantMeansInScope, Dirty, TierOf, InScope, Scope
<1>6. HonestIsCompliant'
    <2>1. Honest' <=> Honest
        BY <1>0 DEF Honest, Alike, TierOf, Scope
    <2>2. Honest => Verdict \in {"compliant", "not_applicable"}
        BY <1>0, VerdictIsFair
    <2> QED
        BY <1>0, <2>1, <2>2 DEF HonestIsCompliant
<1> QED
    BY <1>0, <1>2, <1>3, <1>4, <1>5, <1>6 DEF WInv, VerdictOK

LEMMA WorkUnchanged ==
    ASSUME WInv, UNCHANGED work
    PROVE  WInv'
<1>0. UNCHANGED <<site, spec, disk, head, baseline, events, audit, call, task, verdict, git,
                  troubles, past>>
    BY DEF work
<1>1. WorkTypeOK'
    BY <1>0 DEF WInv, WorkTypeOK
<1>2. BaselineOK' /\ AllowedOK' /\ ChangesOK'
    BY <1>0 DEF WInv, BaselineOK, AllowedOK, ChangesOK
<1>3. EventsOK' /\ CallOK' /\ WroteOK'
    BY <1>0 DEF WInv, EventsOK, CallOK, WroteOK, Relative, Scope
<1>4. VerdictOK'
    BY <1>0, VerdictStays DEF WInv
<1> QED
    BY <1>1, <1>2, <1>3, <1>4 DEF WInv

-----------------------------------------------------------------------------
(* The events of a run tell what was granted and made, the baseline what   *)
(* was there before, and the verdict agrees with both.                     *)
THEOREM WorkInductive == WorkerSpec => []WInv
<1>1. WInv /\ [WorkerNext]_<<launch, work>> => WInv'
    <2> SUFFICES ASSUME WInv, [WorkerNext]_<<launch, work>>
                 PROVE  WInv'
        OBVIOUS
    <2>1. CASE UNCHANGED work
        BY <2>1, WorkUnchanged
    <2>2. ASSUME NEW p \in Project, ReadFile(p)
          PROVE  WInv'
        BY <2>2, ReadFileKeeps
    <2>3. ASSUME NEW p \in Project, NEW tool \in {"write", "patch"}, WriteBegin(p, tool)
          PROVE  WInv'
        BY <2>3, WriteBeginKeeps DEF FileTools
    <2>4. CASE WriteFile
        BY <2>4, WriteFileKeeps
    <2>5. CASE WriteEvent
        BY <2>5, WriteEventKeeps
    <2>6. ASSUME NEW src \in Paths, NEW dst \in Paths,
                 CopyRefused(src, dst) \/ CopyFile(src, dst)
          PROVE  WInv'
        BY <2>6, CopyKeeps
    <2>7. CASE CopyEntry
        BY <2>7, CopyEntryKeeps
    <2>8. CASE WorkerEnds
        BY <2>8, WorkerEndsKeeps
    <2>9. CASE Finalize
        BY <2>9, FinalizeKeeps
    <2>10. CASE Foreign \/ LosesTask \/ GitFails
        BY <2>10, TroubleKeeps
    <2> QED
        BY <2>1, <2>2, <2>3, <2>4, <2>5, <2>6, <2>7, <2>8, <2>9, <2>10 DEF WorkerNext
<1> QED
    BY WorkAtFirst, <1>1, PTL DEF WorkerSpec

(* Every variable of a worker's run keeps its type.                        *)
THEOREM WorkTypeCorrect == WorkerSpec => []WorkTypeOK
<1>1. WInv => WorkTypeOK
    BY DEF WInv
<1> QED
    BY WorkInductive, <1>1, PTL

(* A run is called compliant only when what changed, and is uncommitted or *)
(* was at the start, is in the write scope and was written by a file tool  *)
(* of the run.                                                             *)
THEOREM CompliantMeansInScopeHolds == WorkerSpec => []CompliantMeansInScope
<1>1. WInv => CompliantMeansInScope
    BY DEF WInv, VerdictOK
<1> QED
    BY WorkInductive, <1>1, PTL

(* A worker whose every call was granted and recorded, in a workspace      *)
(* nobody else touched, is not accused.                                    *)
THEOREM HonestIsCompliantHolds == WorkerSpec => []HonestIsCompliant
<1>1. WInv => HonestIsCompliant
    BY DEF WInv, VerdictOK
<1> QED
    BY WorkInductive, <1>1, PTL
=============================================================================
