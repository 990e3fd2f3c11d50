------------------------ MODULE TaskContract_proofs ------------------------
(***************************************************************************)
(* Proofs about TaskContract, for any tasks, callers, texts and kinds and  *)
(* any number of revisions.                                                *)
(***************************************************************************)
EXTENDS TaskContract, TLAPS

-----------------------------------------------------------------------------
(* What a call carries, by where it is.                                    *)
Writing == {"create", "update", "freeze", "edit", "lock_in"}

CallInv ==
    \A c \in Callers :
        /\ pc[c] # "idle" => job[c] \in Jobs
        /\ pc[c] = "called" => job[c].op = "update"
        /\ pc[c] = "checked" => job[c].op \in {"edit", "lock_in", "approve"}
        /\ pc[c] = "gated" => job[c].op = "start"
        /\ pc[c] = "write" => job[c].op \in Writing /\ job[c].meta \in Metas
        /\ pc[c] \in {"called", "checked", "gated"} => meta[job[c].task] \in Metas
        /\ \/ pc[c] \in {"called", "checked"}
           \/ pc[c] = "write" /\ job[c].op \in {"update", "edit"}
           => job[c].saw \in Sights

Typed == TypeOK /\ CallInv

(* A call that writes has the lock, and so has a start between its gate    *)
(* and its launch; a task that is being created has no meta, and one       *)
(* creator.                                                                *)
Creates(c) == pc[c] = "write" /\ job[c].op = "create"

LockInv ==
    \A c \in Callers :
        /\ pc[c] = "gated" => lock[job[c].task] = c
        /\ pc[c] = "write" /\ job[c].op # "create" =>
               lock[job[c].task] = c /\ meta[job[c].task] \in Metas
        /\ Creates(c) => meta[job[c].task] = None
        /\ \A d \in Callers : Creates(c) /\ Creates(d) /\ job[c].task = job[d].task => c = d

(* The digest in meta is the one of its revision and text, also in the     *)
(* meta that is about to be written; SPEC.md has been written before it.   *)
Matches(m) == m.sha.rev = m.rev /\ m.sha.body = m.body
SameTask(m, n) == m.contract = n.contract /\ m.kind = n.kind /\ m.subject = n.subject

WriteInv ==
    /\ \A t \in Tasks : meta[t] # None => Matches(meta[t])
    /\ \A c \in Callers : pc[c] = "write" =>
           /\ specmd[job[c].task] = job[c].meta.sha
           /\ Matches(job[c].meta)
           /\ job[c].op # "create" => SameTask(job[c].meta, meta[job[c].task])

(* A review has a subject.                                                 *)
SubjectInv ==
    /\ \A t \in Tasks : meta[t] # None /\ meta[t].kind = "review" =>
           meta[t].subject \in Tasks /\ meta[meta[t].subject] # None
    /\ \A c \in Callers : pc[c] = "write" /\ job[c].meta.kind = "review" =>
           job[c].meta.subject \in Tasks /\ meta[job[c].meta.subject] # None

(* What is approved, or about to be, is what a human asked to approve.     *)
ApprovalInv ==
    /\ \A t \in Tasks : approval[t] # None =>
           [task |-> t, rev |-> approval[t].rev, hash |-> approval[t].hash] \in approved
    /\ \A c \in Callers : pc[c] = "checked" /\ job[c].op = "approve" =>
           [task |-> job[c].task, rev |-> job[c].saw.rev, hash |-> job[c].saw.bound] \in approved

(* What a start has found at its gate stays true until it launches.        *)
GatedInv ==
    \A c \in Callers : pc[c] = "gated" =>
        LET t == job[c].task
            m == meta[t]
        IN /\ m.status = "running" /\ m.exec \in Bindings
           /\ m.exec.sha = m.sha
           /\ Canonical(m) => m.exec.hash.rev = m.sha.rev /\ m.exec.hash.body = m.sha.body
           /\ m.kind = "implementation" =>
                  [task |-> t, rev |-> m.exec.rev, hash |-> m.exec.hash] \in approved

ContractInv ==
    Typed /\ LockInv /\ WriteInv /\ SubjectInv /\ ApprovalInv /\ GatedInv /\ LaunchedAsApproved

-----------------------------------------------------------------------------
(* A task no edit has overtaken.                                           *)

(* A canonical draft is nowhere frozen, unless the legacy freeze was used  *)
(* on it; once the canonical freeze was, its SPEC.md is what that wrote.   *)
CanonicalInv ==
    \A t \in Tasks : meta[t] # None /\ t \notin overtaken =>
        LET m == meta[t]
        IN IF Canonical(m)
           THEN /\ m.srev # 0 /\ m.srev <= m.rev
                /\ m.status = "draft" =>
                       m.sstatus = "draft" /\ (m.frozen = 0 \/ (m.foreign /\ m.frozen = m.rev))
                /\ m.status # "draft" =>
                       /\ m.srev = m.rev /\ m.frozen = m.rev /\ ~m.foreign
                       /\ specmd[t] = m.sha
                       /\ [task |-> t, content |-> m.sha] \in frozen
           ELSE m.rev # 0

(* A caller whose revision is still the present one has read the present   *)
(* text, as long as the task has not been frozen by the canonical freeze,  *)
(* which may take its revision back.                                       *)
Open(m) == Canonical(m) => m.status = "draft"
SightInv ==
    \A c \in Callers :
        LET t == job[c].task
        IN pc[c] \in {"called", "checked"} /\ t \notin overtaken /\ Open(meta[t]) =>
               /\ job[c].saw.rev <= meta[t].rev
               /\ job[c].saw.rev = meta[t].rev =>
                      /\ job[c].saw.body = meta[t].body
                      /\ job[c].op \in {"edit", "lock_in"} => meta[t].frozen = 0

(* What is about to be written, next to what is there.                     *)
Drafted(m, n, op) ==
    /\ n.rev # 0
    /\ op # "create" => m.frozen = 0 /\ Open(m)
    /\ op = "freeze" => n.rev = m.srev /\ n.body = m.body
    /\ op \in {"update", "edit", "lock_in"} => n.rev = m.rev + 1
    /\ op \in {"create", "update", "freeze"} =>
           /\ Canonical(n) /\ n.srev = n.rev /\ ~n.foreign
           /\ IF op = "freeze" THEN n.status = "frozen" /\ n.frozen = n.rev
              ELSE n.status = "draft" /\ n.sstatus = "draft" /\ n.frozen = 0
    /\ op \in {"edit", "lock_in"} /\ Canonical(n) =>
           /\ n.status = "draft" /\ n.sstatus = "draft" /\ n.srev # 0 /\ n.srev <= n.rev
           /\ n.frozen = 0 \/ (n.foreign /\ n.frozen = n.rev)
DraftInv ==
    \A c \in Callers : pc[c] = "write" /\ job[c].task \notin overtaken =>
        Drafted(meta[job[c].task], job[c].meta, job[c].op)

(* Of any task: what passes the gate as frozen was written by a freeze.    *)
(* An update of an overtaken task may restore the status, not the hash.    *)
Genuine(m) == m.status = "frozen" /\ m.hash # None
Frozen(t) == [task |-> t, content |-> meta[t].sha] \in frozen
FreezeInv ==
    /\ \A t \in Tasks : meta[t] # None /\ Canonical(meta[t]) =>
           /\ meta[t].foreign => meta[t].status = "draft"
           /\ Genuine(meta[t]) => Frozen(t)
    /\ \A c \in Callers : pc[c] = "write" /\ Canonical(job[c].meta) =>
           /\ job[c].meta.foreign => job[c].meta.status = "draft"
           /\ Genuine(job[c].meta) => job[c].op = "freeze"
    /\ \A c \in Callers : pc[c] = "gated" /\ Canonical(meta[job[c].task]) =>
           Frozen(job[c].task)

(* What was launched is a canonical task with the digest it was launched   *)
(* with, and its subject is as it was.                                     *)
Launched(l) ==
    /\ meta[l.task] # None /\ Canonical(meta[l.task])
    /\ [task |-> l.task, content |-> l.exec.sha] \in frozen
    /\ l.task \notin overtaken =>
           meta[l.task].status # "draft" /\ meta[l.task].sha = l.exec.sha
    /\ l.subject # None =>
           /\ meta[l.task].subject \in Tasks
           /\ l.subject \in Metas /\ l.subject.status \in Reviewable
           /\ Committed(l.subject) /\ meta[l.task].subject \notin overtaken =>
                  meta[meta[l.task].subject] = l.subject
LaunchInv == \A l \in launches : Launched(l)

SeparateInv ==
    CanonicalInv /\ SightInv /\ DraftInv /\ FreezeInv /\ LaunchInv /\ NoLostUpdate
-----------------------------------------------------------------------------
(* Types *)

LEMMA InitTyped == Init => Typed
<1> SUFFICES ASSUME Init PROVE Typed
  OBVIOUS
<1>. DEFINE Firsts(old) ==
         [old -> [kind : Kinds \ {"review"}, schema : {2, 3},
                  status : {"draft", "needs_input"}, body : Bodies]]
       Specs(old, first) ==
         [t \in Tasks |-> IF t \in old
             THEN [rev |-> 1, body |-> first[t].body, status |-> "draft",
                   form |-> "markdown"] ELSE None]
       Olds(old, first) ==
         [t \in Tasks |-> IF t \in old
             THEN [contract |-> "legacy", kind |-> first[t].kind,
                   subject |-> None, schema |-> first[t].schema,
                   status |-> first[t].status, rev |-> 1, frozen |-> 0,
                   sha |-> specmd[t], hash |-> None, body |-> first[t].body,
                   srev |-> 0, sstatus |-> "draft", foreign |-> FALSE,
                   exec |-> None] ELSE None]
<1>0. PICK old \in SUBSET OldTasks : \E first \in Firsts(old) :
          specmd = Specs(old, first) /\ meta = Olds(old, first)
  BY DEF Init
<1>1. PICK first \in Firsts(old) : specmd = Specs(old, first) /\ meta = Olds(old, first)
  BY <1>0
<1>2. 0 \in Revs /\ 1 \in Revs
  BY ContractAssumption DEF Revs
<1>. DEFINE spec(t) == [rev |-> 1, body |-> first[t].body, status |-> "draft",
                        form |-> "markdown"]
<1>a. \A t \in old : first[t] \in [kind : Kinds, schema : {2, 3},
                                   status : {"draft", "needs_input"}, body : Bodies]
  OBVIOUS
<1>b. \A t \in old : spec(t) \in Contents
  BY <1>2, <1>a DEF Contents, Statuses
<1>3. specmd \in [Tasks -> Contents \union {None}]
  BY <1>1, <1>b
<1>c. \A t \in old : specmd[t] = spec(t)
  BY <1>1, ContractAssumption
<1>4. meta \in [Tasks -> Metas \union {None}]
  <2>1. ASSUME NEW t \in old PROVE meta[t] \in Metas
    BY <1>1, <1>2, <1>a, <1>b, <1>c, ContractAssumption DEF Metas, Contracts, Statuses
  <2>2. \A t \in Tasks : t \notin old => meta[t] = None
    BY <1>1
  <2> QED
    BY <1>1, <2>1, <2>2
<1>5. TypeOK
  BY <1>3, <1>4 DEF Init, TypeOK
<1> QED
  BY <1>5 DEF Typed, CallInv, Init

FilesTyped ==
    /\ meta \in [Tasks -> Metas \union {None}]
    /\ specmd \in [Tasks -> Contents \union {None}]
    /\ approval \in [Tasks -> [rev : Revs, hash : Digests \union {None}] \union {None}]
HistoryTyped ==
    /\ approved \subseteq [task : Tasks, rev : Revs, hash : Digests \union {None}]
    /\ frozen \subseteq [task : Tasks, content : Contents]
    /\ launches \subseteq [task : Tasks, kind : Kinds, exec : Bindings,
                           subject : Metas \union {None}]
    /\ overtaken \subseteq Tasks

(* A call that ends leaves the types alone, whatever it has done to meta.  *)
LEMMA ReturnTyped ==
    ASSUME Typed, NEW c \in Callers, Return(c), (FilesTyped /\ HistoryTyped)',
           \A t \in Tasks : meta[t] \in Metas => meta'[t] \in Metas
    PROVE  Typed'
<1>1. TypeOK'
  BY DEF Typed, TypeOK, Return, FilesTyped, HistoryTyped
<1>2. ASSUME NEW d \in Callers PROVE d = c \/ (pc'[d] = pc[d] /\ job'[d] = job[d])
  BY DEF Return, Typed, TypeOK
<1>3. pc'[c] = "idle"
  BY DEF Return, Typed, TypeOK
<1>4. CallInv'
  BY <1>2, <1>3 DEF Typed, CallInv, Jobs
<1> QED
  BY <1>1, <1>4 DEF Typed

(* What a call can be about to write.                                      *)
LEMMA MetaTypes ==
    ASSUME NEW m \in Metas
    PROVE  /\ Json(m) \in Contents /\ CanonicalHash(m) \in Hashes
           /\ \A s \in Statuses : Markdown(m, s) \in Contents
           /\ m.rev \in Revs /\ m.srev \in Revs /\ m.frozen \in Revs /\ m.body \in Bodies
           /\ m.rev < MaxRev => m.rev + 1 \in Revs
           /\ 0 \in Revs /\ 1 \in Revs /\ Revs \subseteq Nat
           /\ m # None
BY ContractAssumption
   DEF Metas, Contents, Hashes, Statuses, Json, Markdown, CanonicalHash, Revs

LEMMA SightTyped ==
    ASSUME TypeOK, NEW t \in Tasks, meta[t] \in Metas
    PROVE  Sight(t) \in Sights /\ BoundHash(t) \in Digests \union {None}
BY MetaTypes DEF TypeOK, Sight, Sights, BoundHash, Digests, Metas

(* A call that begins with a look at meta, or goes on under the lock.      *)
LEMMA BeginTyped ==
    ASSUME Typed, NEW c \in Callers, NEW label, NEW op, NEW t \in Tasks, NEW body \in Bodies, NEW saw,
           Begin(c, label, op, t, body, saw),
           \/ label = "called" /\ op = "update" /\ saw \in Sights
           \/ label = "checked" /\ op \in {"edit", "lock_in", "approve"} /\ saw \in Sights
           \/ label = "gated" /\ op = "start" /\ saw = None,
           (FilesTyped /\ HistoryTyped)', lock' \in [Tasks -> Callers \union {None}],
           meta'[t] \in Metas,
           \A u \in Tasks : meta[u] \in Metas => meta'[u] \in Metas
    PROVE  Typed'
<1>1. [op |-> op, task |-> t, body |-> body, saw |-> saw, meta |-> None] \in Jobs
  BY DEF Jobs, Ops
<1>2. TypeOK'
  BY <1>1 DEF Typed, TypeOK, FilesTyped, HistoryTyped, Begin
<1>3. ASSUME NEW d \in Callers PROVE d = c \/ (pc'[d] = pc[d] /\ job'[d] = job[d])
  BY DEF Begin, Typed, TypeOK
<1>4. pc'[c] = label
      /\ job'[c] = [op |-> op, task |-> t, body |-> body, saw |-> saw, meta |-> None]
  BY DEF Begin, Typed, TypeOK
<1>5. CallInv'
  BY <1>1, <1>3, <1>4 DEF Typed, CallInv, Jobs
<1> QED
  BY <1>2, <1>5 DEF Typed

(* The first of two writes.                                                *)
LEMMA WriteTyped ==
    ASSUME Typed, NEW c \in Callers, NEW t \in Tasks, NEW content \in Contents, NEW m \in Metas,
           pc[c] # "idle", job[c].op \in Writing,
           job[c].op \in {"update", "edit"} => job[c].saw \in Sights,
           WriteSpec(c, t, content, m),
           Lock(c, t), UNCHANGED <<meta, approved, frozen, launches>>, overtaken' \subseteq Tasks,
           approval' \in [Tasks -> [rev : Revs, hash : Digests \union {None}] \union {None}]
    PROVE  Typed'
<1>1. [m EXCEPT !.sha = content] \in Metas
  BY DEF Metas
<1>2. job[c] \in Jobs
  BY DEF Typed, CallInv
<1>3. [job[c] EXCEPT !.meta = [m EXCEPT !.sha = content]] \in Jobs
  BY <1>1, <1>2 DEF Jobs
<1>4. TypeOK'
  BY <1>3 DEF Typed, TypeOK, WriteSpec, Lock, history
<1>5. ASSUME NEW d \in Callers PROVE d = c \/ (pc'[d] = pc[d] /\ job'[d] = job[d])
  BY DEF WriteSpec, Typed, TypeOK
<1>6. pc'[c] = "write" /\ job'[c] = [job[c] EXCEPT !.meta = [m EXCEPT !.sha = content]]
  BY DEF WriteSpec, Typed, TypeOK
<1>7. job'[c].op = job[c].op /\ job'[c].saw = job[c].saw /\ job'[c].task = job[c].task
      /\ job'[c].meta = [m EXCEPT !.sha = content]
  BY <1>2, <1>6 DEF Jobs
<1>8. meta' = meta
  OBVIOUS
<1>9. CallInv'
  <2>1. job'[c] \in Jobs /\ job'[c].op \in Writing /\ job'[c].meta \in Metas
    BY <1>1, <1>3, <1>6, <1>7
  <2>2. job'[c].op \in {"update", "edit"} => job'[c].saw \in Sights
    BY <1>7
  <2>3. ASSUME NEW d \in Callers, d # c
        PROVE  pc'[d] = pc[d] /\ job'[d] = job[d] /\ meta' = meta
    BY <1>5, <1>8, <2>3
  <2>4. CallInv
    BY DEF Typed
  <2>5. pc'[c] = "write"
    BY <1>6
  <2> HIDE DEF Writing
  <2> QED
    BY <2>1, <2>2, <2>3, <2>4, <2>5 DEF CallInv
<1> QED
  BY <1>4, <1>9 DEF Typed

LEMMA TypedStep == ContractInv /\ [Next]_vars => Typed'
<1> SUFFICES ASSUME ContractInv, [Next]_vars PROVE Typed'
  OBVIOUS
<1>0. Typed /\ TypeOK /\ CallInv /\ FilesTyped /\ HistoryTyped
  BY DEF ContractInv, Typed, TypeOK, FilesTyped, HistoryTyped
<1>1. ASSUME NEW c \in Callers, NEW t \in Tasks, NEW k \in Kinds, NEW b \in Bodies,
             NEW s \in Tasks \union {None}, Create(c, t, k, b, s)
      PROVE  Typed'
  <2> DEFINE sha == [rev |-> 1, body |-> b, status |-> "draft", form |-> "json"]
             m == [contract |-> "canonical", kind |-> k, subject |-> s,
                   schema |-> 2, status |-> "draft", rev |-> 1, frozen |-> 0,
                   sha |-> sha, hash |-> None, body |-> b, srev |-> 1,
                   sstatus |-> "draft", foreign |-> FALSE, exec |-> None]
             j == [op |-> "create", task |-> t, body |-> b, saw |-> None, meta |-> m]
  <2>1. sha \in Contents
    BY ContractAssumption DEF Contents, Revs, Statuses
  <2>2. m \in Metas
    BY <2>1, ContractAssumption DEF Metas, Revs, Statuses, Contracts
  <2>3. j \in Jobs
    BY <2>2 DEF Jobs, Ops
  <2>4. /\ specmd' = [specmd EXCEPT ![t] = sha] /\ job' = [job EXCEPT ![c] = j]
        /\ pc' = [pc EXCEPT ![c] = "write"]
        /\ UNCHANGED <<meta, approval, lock, approved, frozen, launches, overtaken>>
    BY <1>1 DEF Create, history
  <2>5. TypeOK'
    BY <1>0, <2>1, <2>3, <2>4 DEF TypeOK
  <2>6. CallInv'
    BY <1>0, <2>2, <2>3, <2>4 DEF TypeOK, CallInv, Writing
  <2> QED
    BY <2>5, <2>6 DEF Typed
<1>2. ASSUME NEW c \in Callers, NEW t \in Tasks, NEW b \in Bodies, CallUpdate(c, t, b)
      PROVE  Typed'
  <2>1. meta[t] \in Metas
    BY <1>0, <1>2 DEF CallUpdate, TypeOK
  <2>2. Sight(t) \in Sights
    BY <1>0, <2>1, SightTyped
  <2> QED
    BY <1>0, <1>2, <2>1, <2>2, BeginTyped
       DEF CallUpdate, files, history, FilesTyped, HistoryTyped, TypeOK
<1>3. ASSUME NEW c \in Callers, NEW t \in Tasks, NEW op \in {"edit", "lock_in"},
             NEW b \in Bodies, EditCheck(c, t, op, b)
      PROVE  Typed'
  <2>1. meta[t] \in Metas
    BY <1>0, <1>3 DEF EditCheck, TypeOK
  <2>2. Sight(t) \in Sights
    BY <1>0, <2>1, SightTyped
  <2> QED
    BY <1>0, <1>3, <2>1, <2>2, BeginTyped
       DEF EditCheck, files, history, FilesTyped, HistoryTyped, TypeOK
<1>4. ASSUME NEW c \in Callers, NEW t \in Tasks, Freeze(c, t)
      PROVE  Typed'
  <2> DEFINE m == meta[t]
             n == [m EXCEPT !.status = "frozen", !.sstatus = "frozen", !.rev = m.srev,
                      !.frozen = m.srev, !.hash = CanonicalHash(m),
                      !.sha = Json([m EXCEPT !.sstatus = "frozen"])]
             j == [op |-> "freeze", task |-> t, body |-> m.body, saw |-> None, meta |-> n]
  <2>1. m \in Metas
    BY <1>0, <1>4 DEF Freeze, TypeOK
  <2>2. [m EXCEPT !.sstatus = "frozen"] \in Metas
    BY <2>1 DEF Metas, Statuses
  <2>3. Json([m EXCEPT !.sstatus = "frozen"]) \in Contents /\ CanonicalHash(m) \in Hashes
        /\ m.srev \in Revs /\ m.body \in Bodies
    BY <2>1, <2>2, MetaTypes
  <2>4. n \in Metas
    BY <2>1, <2>3 DEF Metas, Statuses
  <2>5. j \in Jobs
    BY <2>3, <2>4 DEF Jobs, Ops
  <2>6. /\ specmd' = [specmd EXCEPT ![t] = n.sha] /\ job' = [job EXCEPT ![c] = j]
        /\ pc' = [pc EXCEPT ![c] = "write"] /\ lock' = [lock EXCEPT ![t] = c]
        /\ UNCHANGED <<meta, approval, approved, frozen, launches, overtaken>>
    BY <1>4 DEF Freeze, history, Lock
  <2>7. n.sha \in Contents
    BY <2>4 DEF Metas
  <2>8. TypeOK'
    BY <1>0, <2>5, <2>6, <2>7 DEF TypeOK
  <2>9. CallInv'
    BY <1>0, <2>4, <2>5, <2>6 DEF TypeOK, CallInv, Writing
  <2> QED
    BY <2>8, <2>9 DEF Typed
<1>5. ASSUME NEW c \in Callers, NEW t \in Tasks, ApproveCheck(c, t)
      PROVE  Typed'
  <2>1. meta[t] \in Metas
    BY <1>0, <1>5 DEF ApproveCheck, TypeOK
  <2>2. Sight(t) \in Sights /\ BoundHash(t) \in Digests \union {None}
    BY <1>0, <2>1, SightTyped
  <2>3. [task |-> t, rev |-> meta[t].rev, hash |-> BoundHash(t)]
            \in [task : Tasks, rev : Revs, hash : Digests \union {None}]
    BY <2>1, <2>2, MetaTypes
  <2>4. meta[t].body \in Bodies
    BY <2>1, MetaTypes
  <2>5. (FilesTyped /\ HistoryTyped)' /\ lock' \in [Tasks -> Callers \union {None}]
    BY <1>0, <1>5, <2>3 DEF ApproveCheck, files, FilesTyped, HistoryTyped, TypeOK
  <2>6. Begin(c, "checked", "approve", t, meta[t].body, Sight(t)) /\ meta' = meta
    BY <1>5 DEF ApproveCheck, files
  <2> QED
    BY <1>0, <2>1, <2>2, <2>4, <2>5, <2>6, BeginTyped
<1>6. ASSUME NEW c \in Callers, NEW t \in Tasks, StartGate(c, t)
      PROVE  Typed'
  <2>1. meta[t] \in Metas
    BY <1>0, <1>6 DEF StartGate, TypeOK
  <2> DEFINE m == meta[t]
             e == [rev |-> m.rev, sha |-> specmd[t], hash |-> BoundHash(t)]
  <2>2. e \in Bindings
    <3>1. specmd[t] \in Contents
      BY <1>6, <2>1 DEF StartGate, Intact, Metas
    <3>2. BoundHash(t) \in Digests
      BY <1>6, <2>1, <3>1, MetaTypes DEF StartGate, Bound, BoundHash, Digests
    <3> QED
      BY <2>1, <3>1, <3>2, MetaTypes DEF Bindings
  <2>3. meta' = [meta EXCEPT ![t] = [m EXCEPT !.status = "running",
                    !.frozen = IF Canonical(m) THEN m.rev ELSE m.frozen, !.exec = e]]
    BY <1>0, <1>6, <2>1 DEF StartGate, TypeOK, Metas
  <2>4. [m EXCEPT !.status = "running",
             !.frozen = IF Canonical(m) THEN m.rev ELSE m.frozen, !.exec = e] \in Metas
    BY <2>1, <2>2 DEF Metas, Statuses
  <2>5. (FilesTyped /\ HistoryTyped)' /\ lock' \in [Tasks -> Callers \union {None}]
    BY <1>0, <1>6, <2>3, <2>4 DEF StartGate, FilesTyped, HistoryTyped, TypeOK, Lock, history
  <2>6. m.body \in Bodies
    BY <2>1, MetaTypes
  <2>7. \A u \in Tasks : meta[u] \in Metas => meta'[u] \in Metas
    BY <1>0, <2>3, <2>4 DEF TypeOK
  <2>8. meta'[t] \in Metas
    BY <2>1, <2>7
  <2> QED
    BY <1>0, <1>6, <2>5, <2>6, <2>7, <2>8, BeginTyped DEF StartGate
<1>7. ASSUME NEW c \in Callers, Dies(c) PROVE Typed'
  BY <1>0, <1>7, ReturnTyped DEF Dies, files, history, FilesTyped, HistoryTyped
<1>8. ASSUME NEW c \in Callers, WriteMeta(c) PROVE Typed'
  <2>1. job[c] \in Jobs /\ job[c].meta \in Metas
    BY <1>0, <1>8 DEF WriteMeta, CallInv
  <2>2. job[c].task \in Tasks /\ job[c].meta.sha \in Contents
    BY <2>1 DEF Jobs, Metas
  <2>3. meta' = [meta EXCEPT ![job[c].task] = job[c].meta] /\ Return(c)
        /\ UNCHANGED <<specmd, approval, approved, launches, overtaken>>
    BY <1>8 DEF WriteMeta
  <2>4. frozen' \subseteq [task : Tasks, content : Contents]
    BY <1>0, <1>8, <2>2 DEF WriteMeta, TypeOK
  <2>5. FilesTyped' /\ HistoryTyped'
    BY <1>0, <2>1, <2>2, <2>3, <2>4 DEF FilesTyped, HistoryTyped, TypeOK
  <2>6. \A t \in Tasks : meta[t] \in Metas => meta'[t] \in Metas
    BY <1>0, <2>1, <2>2, <2>3 DEF TypeOK
  <2> QED
    BY <1>0, <2>3, <2>5, <2>6, ReturnTyped
<1>9. ASSUME NEW c \in Callers, Update(c) PROVE Typed'
  <2>1. pc[c] = "called" /\ job[c].op = "update"
    BY <1>9 DEF Update, At
  <2>2. job[c] \in Jobs /\ meta[job[c].task] \in Metas /\ job[c].saw \in Sights
    BY <1>0, <2>1 DEF CallInv
  <2> DEFINE t == job[c].task
             m == meta[t]
             n == [m EXCEPT !.rev = m.rev + 1, !.srev = m.rev + 1, !.body = job[c].body,
                            !.status = m.sstatus, !.hash = None, !.frozen = 0]
  <2>3. t \in Tasks /\ job[c].body \in Bodies
    BY <2>2 DEF Jobs
  <2>4. m.rev + 1 \in Revs /\ 0 \in Revs
    BY <1>9, <2>2, MetaTypes DEF Update, Revisable
  <2>5. n \in Metas
    BY <2>2, <2>3, <2>4 DEF Metas
  <2>6. Json(n) \in Contents
    BY <2>5, MetaTypes
  <2>7. /\ Lock(c, t) /\ WriteSpec(c, t, Json(n), n) /\ approval' = approval
        /\ UNCHANGED <<meta, approved, frozen, launches>> /\ overtaken' \subseteq Tasks
    BY <1>0, <1>9 DEF Update, history, TypeOK
  <2>8. approval' \in [Tasks -> [rev : Revs, hash : Digests \union {None}] \union {None}]
    BY <1>0, <2>7 DEF TypeOK
  <2> QED
    BY <1>0, <2>1, <2>2, <2>3, <2>5, <2>6, <2>7, <2>8, WriteTyped DEF Writing
<1>10. ASSUME NEW c \in Callers, Edit(c) PROVE Typed'
  <2>1. pc[c] = "checked" /\ job[c].op = "edit"
    BY <1>10 DEF Edit, At
  <2>2. job[c] \in Jobs /\ meta[job[c].task] \in Metas /\ job[c].saw \in Sights
    BY <1>0, <2>1 DEF CallInv
  <2> DEFINE t == job[c].task
             m == meta[t]
             n(foreign) == [m EXCEPT !.rev = m.rev + 1, !.body = job[c].body,
                                     !.status = "draft", !.foreign = foreign]
  <2>3. PICK foreign \in {m.foreign, Canonical(m)} :
            /\ Rechecked(c) /\ Lock(c, t)
            /\ approval' = IF job[c].saw.asked
                           THEN [approval EXCEPT ![t] = None] ELSE approval
            /\ WriteSpec(c, t, Markdown(n(foreign), "draft"), n(foreign))
            /\ overtaken' \in {overtaken, overtaken \union {t}}
            /\ UNCHANGED <<meta, approved, frozen, launches>>
    BY <1>10 DEF Edit
  <2>4. t \in Tasks /\ job[c].body \in Bodies
    BY <2>2 DEF Jobs
  <2>5. m.rev + 1 \in Revs /\ foreign \in BOOLEAN
    BY <2>2, <2>3, MetaTypes DEF Rechecked, Canonical, Metas, Revisable
  <2>6. n(foreign) \in Metas
    BY <2>2, <2>4, <2>5 DEF Metas, Statuses
  <2>7. Markdown(n(foreign), "draft") \in Contents
    BY <2>6, MetaTypes DEF Statuses
  <2>8. approval' \in [Tasks -> [rev : Revs, hash : Digests \union {None}] \union {None}]
    BY <1>0, <2>3, <2>4 DEF TypeOK
  <2>9. overtaken' \subseteq Tasks
    BY <1>0, <2>3, <2>4 DEF TypeOK
  <2> QED
    BY <1>0, <2>1, <2>2, <2>3, <2>4, <2>6, <2>7, <2>8, <2>9, WriteTyped DEF Writing
<1>11. ASSUME NEW c \in Callers, LockIn(c) PROVE Typed'
  <2>1. pc[c] = "checked" /\ job[c].op = "lock_in"
    BY <1>11 DEF LockIn, At
  <2>2. job[c] \in Jobs /\ meta[job[c].task] \in Metas /\ job[c].saw \in Sights
    BY <1>0, <2>1 DEF CallInv
  <2> DEFINE t == job[c].task
             m == meta[t]
             n == [m EXCEPT !.rev = m.rev + 1, !.frozen = m.rev + 1]
  <2>3. t \in Tasks
    BY <2>2 DEF Jobs
  <2>4. m.rev + 1 \in Revs
    BY <1>11, <2>2, MetaTypes DEF LockIn, Rechecked, Revisable
  <2>5. n \in Metas
    BY <2>2, <2>4 DEF Metas
  <2>6. Markdown(n, "frozen") \in Contents
    BY <2>5, MetaTypes DEF Statuses
  <2>7. /\ Lock(c, t) /\ WriteSpec(c, t, Markdown(n, "frozen"), n) /\ approval' = approval
        /\ UNCHANGED <<meta, approved, frozen, launches>> /\ overtaken' \subseteq Tasks
    BY <1>0, <1>11 DEF LockIn, history, TypeOK
  <2>8. approval' \in [Tasks -> [rev : Revs, hash : Digests \union {None}] \union {None}]
    BY <1>0, <2>7 DEF TypeOK
  <2> QED
    BY <1>0, <2>1, <2>2, <2>3, <2>5, <2>6, <2>7, <2>8, WriteTyped DEF Writing
<1>12. ASSUME NEW c \in Callers, Approve(c) PROVE Typed'
  <2>1. pc[c] = "checked" /\ job[c].op = "approve"
    BY <1>12 DEF Approve, At
  <2>2. job[c] \in Jobs /\ job[c].saw \in Sights
    BY <1>0, <2>1 DEF CallInv
  <2>3. [rev |-> job[c].saw.rev, hash |-> job[c].saw.bound]
            \in [rev : Revs, hash : Digests \union {None}]
    BY <2>2 DEF Sights
  <2>4. FilesTyped' /\ HistoryTyped' /\ meta' = meta /\ Return(c)
    BY <1>0, <1>12, <2>3 DEF Approve, FilesTyped, HistoryTyped, history
  <2> QED
    BY <1>0, <2>4, ReturnTyped
<1>13. ASSUME NEW c \in Callers, StartLaunch(c) PROVE Typed'
  <2>1. pc[c] = "gated"
    BY <1>13 DEF StartLaunch
  <2>2. job[c] \in Jobs /\ meta[job[c].task] \in Metas
    BY <1>0, <2>1 DEF CallInv
  <2> DEFINE t == job[c].task
             m == meta[t]
             l == [task |-> t, kind |-> m.kind, exec |-> m.exec,
                   subject |-> IF m.kind = "review" THEN meta[m.subject] ELSE None]
  <2>3. t \in Tasks /\ m.kind \in Kinds /\ m # None
    BY <2>2, MetaTypes DEF Jobs, Metas
  <2>4. m.exec \in Bindings
    BY <2>1 DEF ContractInv, GatedInv
  <2>5. m.kind = "review" => meta[m.subject] \in Metas
    BY <1>0, <2>3 DEF ContractInv, SubjectInv, TypeOK
  <2>6. l \in [task : Tasks, kind : Kinds, exec : Bindings, subject : Metas \union {None}]
    BY <2>3, <2>4, <2>5
  <2>7. FilesTyped' /\ HistoryTyped' /\ meta' = meta /\ Return(c)
    BY <1>0, <1>13, <2>6 DEF StartLaunch, FilesTyped, HistoryTyped, files
  <2> QED
    BY <1>0, <2>7, ReturnTyped
<1>14. ASSUME NEW c \in Callers, StartFails(c) PROVE Typed'
  <2>1. job[c] \in Jobs /\ meta[job[c].task] \in Metas
    BY <1>0, <1>14 DEF CallInv, StartFails
  <2>2. job[c].task \in Tasks /\ [meta[job[c].task] EXCEPT !.status = "failed"] \in Metas
    BY <2>1 DEF Jobs, Metas, Statuses
  <2>3. meta' = [meta EXCEPT ![job[c].task] = [meta[job[c].task] EXCEPT !.status = "failed"]]
    BY <1>0, <1>14, <2>2 DEF StartFails, TypeOK
  <2>4. FilesTyped' /\ HistoryTyped' /\ Return(c)
    BY <1>0, <1>14, <2>2, <2>3 DEF StartFails, FilesTyped, HistoryTyped, history
  <2>5. \A t \in Tasks : meta[t] \in Metas => meta'[t] \in Metas
    BY <1>0, <2>2, <2>3 DEF TypeOK
  <2> QED
    BY <1>0, <2>4, <2>5, ReturnTyped
<1>15. ASSUME NEW c \in Callers, StartDies(c) PROVE Typed'
  BY <1>0, <1>15, ReturnTyped DEF StartDies, files, history, FilesTyped, HistoryTyped
<1>16. ASSUME NEW t \in Tasks, Conclude(t) PROVE Typed'
  <2>1. meta[t] \in Metas
    BY <1>0, <1>16 DEF Conclude, TypeOK
  <2>2. PICK s \in {"done", "failed", "needs_input"} :
            meta' = [meta EXCEPT ![t] = [meta[t] EXCEPT !.status = s]]
    BY <1>0, <1>16 DEF Conclude, TypeOK
  <2>3. [meta[t] EXCEPT !.status = s] \in Metas
    BY <2>1 DEF Metas, Statuses
  <2>4. TypeOK' /\ CallInv'
    BY <1>0, <1>16, <2>1, <2>2, <2>3 DEF Conclude, TypeOK, CallInv, history
  <2> QED
    BY <2>4 DEF Typed
<1>17. CASE UNCHANGED vars
  BY <1>0, <1>17 DEF Typed, TypeOK, CallInv, vars
<1> QED
  BY <1>1, <1>2, <1>3, <1>4, <1>5, <1>6, <1>7, <1>8, <1>9, <1>10, <1>11, <1>12, <1>13,
     <1>14, <1>15, <1>16, <1>17 DEF Next

-----------------------------------------------------------------------------
(* The steps, by what they do to calls and files.                          *)

(* A call looks at a task without the lock.                                *)
Looks(c, t) ==
    /\ pc[c] = "idle" /\ meta[t] \in Metas
    /\ pc' = [pc EXCEPT ![c] = IF job'[c].op = "update" THEN "called" ELSE "checked"]
    /\ \A d \in Callers : d # c => job'[d] = job[d]
    /\ job'[c].task = t /\ job'[c].saw = Sight(t)
    /\ job'[c].op \in {"update", "edit", "lock_in", "approve"}
    /\ job'[c].op \in {"edit", "lock_in"} => meta[t].frozen = 0
    /\ approved \subseteq approved'
    /\ job'[c].op = "approve" =>
           [task |-> t, rev |-> meta[t].rev, hash |-> BoundHash(t)] \in approved'
    /\ UNCHANGED <<meta, specmd, approval, lock, frozen, launches, overtaken>>

(* A call takes the lock and writes SPEC.md, with n as what it will write  *)
(* to meta.                                                                *)
Revises(c, t, n) ==
    /\ meta[t] \in Metas /\ n \in Metas
    /\ Matches(n) /\ SameTask(n, meta[t])
    /\ pc[c] \in {"idle", "called", "checked"}
    /\ lock[t] = None /\ lock' = [lock EXCEPT ![t] = c]
    /\ specmd' = [specmd EXCEPT ![t] = n.sha]
    /\ pc' = [pc EXCEPT ![c] = "write"]
    /\ \A d \in Callers : d # c => job'[d] = job[d]
    /\ job'[c].task = t /\ job'[c].meta = n
    /\ CASE job'[c].op = "update" ->
              /\ pc[c] = "called" /\ job'[c].saw = job[c].saw /\ job[c].task = t
              /\ Canonical(meta[t]) /\ meta[t].status = "draft" /\ job[c].saw.rev = meta[t].rev
              /\ ~meta[t].foreign /\ ~n.foreign /\ n.hash = None
              /\ n.rev = meta[t].rev + 1 /\ n.srev = n.rev
              /\ n.status = meta[t].sstatus /\ n.sstatus = meta[t].sstatus /\ n.frozen = 0
         [] job'[c].op = "freeze" ->
              /\ Canonical(meta[t]) /\ meta[t].status = "draft"
              /\ ~meta[t].foreign /\ ~n.foreign
              /\ n.rev = meta[t].srev /\ n.srev = n.rev /\ n.body = meta[t].body
              /\ n.status = "frozen" /\ n.frozen = n.rev
         [] OTHER ->
              /\ job'[c].op \in {"edit", "lock_in"} /\ job'[c].op = job[c].op
              /\ pc[c] = "checked" /\ job'[c].saw = job[c].saw /\ job[c].task = t
              /\ job[c].saw.rev = meta[t].rev /\ n.rev = meta[t].rev + 1
              /\ n.srev = meta[t].srev /\ n.sstatus = meta[t].sstatus
              /\ IF job[c].op = "edit" THEN n.status = "draft" /\ n.frozen = meta[t].frozen
                 ELSE /\ n.status = meta[t].status /\ n.frozen = n.rev
                      /\ n.foreign = meta[t].foreign
                      /\ Canonical(meta[t]) => meta[t].foreign
    /\ \A u \in Tasks : approval'[u] = approval[u] \/ approval'[u] = None
    /\ overtaken' = IF job'[c].op = "edit" /\ Canonical(meta[t]) /\ Committed(meta[t])
                    THEN overtaken \union {t} ELSE overtaken
    /\ UNCHANGED <<meta, approved, frozen, launches>>

LEMMA LooksCases ==
    ASSUME Typed, NEW c \in Callers, NEW t \in Tasks,
           \/ \E b \in Bodies : CallUpdate(c, t, b)
           \/ \E op \in {"edit", "lock_in"}, b \in Bodies : EditCheck(c, t, op, b)
           \/ ApproveCheck(c, t)
    PROVE  Looks(c, t)
<1>1. ASSUME NEW b \in Bodies, CallUpdate(c, t, b) PROVE Looks(c, t)
  BY <1>1 DEF CallUpdate, Looks, Begin, Typed, TypeOK, files, history
<1>2. ASSUME NEW op \in {"edit", "lock_in"}, NEW b \in Bodies, EditCheck(c, t, op, b)
      PROVE  Looks(c, t)
  BY <1>2 DEF EditCheck, Looks, Begin, Typed, TypeOK, files, history
<1>3. ASSUME ApproveCheck(c, t) PROVE Looks(c, t)
  BY <1>3 DEF ApproveCheck, Looks, Begin, Typed, TypeOK, files, history
<1> QED
  BY <1>1, <1>2, <1>3

LEMMA FreezeCase ==
    ASSUME Typed, NEW c \in Callers, NEW t \in Tasks, Freeze(c, t)
    PROVE  \E n \in Metas : Revises(c, t, n) /\ job'[c].op = "freeze"
<1> DEFINE m == meta[t]
           n == [m EXCEPT !.status = "frozen", !.sstatus = "frozen", !.rev = m.srev,
                    !.frozen = m.srev, !.hash = CanonicalHash(m),
                    !.sha = Json([m EXCEPT !.sstatus = "frozen"])]
           j == [op |-> "freeze", task |-> t, body |-> m.body, saw |-> None, meta |-> n]
<1>1. m \in Metas
  BY DEF Freeze, Typed, TypeOK
<1>2. [m EXCEPT !.sstatus = "frozen"] \in Metas
  BY <1>1 DEF Metas, Statuses
<1>3. Json([m EXCEPT !.sstatus = "frozen"]) \in Contents /\ CanonicalHash(m) \in Hashes
      /\ m.srev \in Revs /\ m.body \in Bodies
  BY <1>1, <1>2, MetaTypes
<1>4. n \in Metas
  BY <1>1, <1>3 DEF Metas, Statuses
<1>5. Matches(n) /\ SameTask(n, m)
  BY <1>1 DEF Matches, SameTask, Json, Metas
<1>6. /\ n.rev = m.srev /\ n.srev = m.srev /\ n.foreign = m.foreign /\ n.body = m.body
      /\ n.status = "frozen" /\ n.frozen = n.rev /\ ~m.foreign
  BY <1>1 DEF Freeze, Metas
<1>7. /\ specmd' = [specmd EXCEPT ![t] = n.sha] /\ job' = [job EXCEPT ![c] = j]
      /\ pc' = [pc EXCEPT ![c] = "write"] /\ lock' = [lock EXCEPT ![t] = c]
      /\ lock[t] = None /\ pc[c] = "idle" /\ Canonical(m) /\ m.status = "draft"
      /\ UNCHANGED <<meta, approval, approved, frozen, launches, overtaken>>
  BY DEF Freeze, history, Lock
<1>8. job'[c] = j /\ \A d \in Callers : d # c => job'[d] = job[d]
  BY <1>7 DEF Typed, TypeOK
<1>9. j.op = "freeze" /\ j.task = t /\ j.meta = n
  OBVIOUS
<1> HIDE DEF j, n
<1>10. Revises(c, t, n) /\ job'[c].op = "freeze"
  BY <1>1, <1>4, <1>5, <1>6, <1>7, <1>8, <1>9 DEF Revises
<1> QED
  BY <1>4, <1>10

LEMMA UpdateCase ==
    ASSUME Typed, NEW c \in Callers, Update(c)
    PROVE  \E n \in Metas : Revises(c, job[c].task, n) /\ job'[c].op = "update"
<1> DEFINE t == job[c].task
           m == meta[t]
           n == [m EXCEPT !.rev = m.rev + 1, !.srev = m.rev + 1, !.body = job[c].body,
                          !.status = m.sstatus, !.hash = None, !.frozen = 0]
           w == [n EXCEPT !.sha = Json(n)]
<1>1. pc[c] = "called" /\ job[c].op = "update" /\ job[c] \in Jobs /\ m \in Metas
  BY DEF Update, At, Typed, CallInv
<1>2. t \in Tasks /\ job[c].body \in Bodies
  BY <1>1 DEF Jobs
<1>3. m.rev + 1 \in Revs /\ 0 \in Revs
  BY <1>1, MetaTypes DEF Update, Revisable
<1>4. n \in Metas
  BY <1>1, <1>2, <1>3 DEF Metas
<1>5. Json(n) \in Contents
  BY <1>4, MetaTypes
<1>6. w \in Metas
  BY <1>4, <1>5 DEF Metas
<1>7. Matches(w) /\ SameTask(w, m)
  BY <1>1 DEF Matches, SameTask, Json, Metas
<1>8. /\ w.rev = m.rev + 1 /\ w.srev = w.rev /\ w.foreign = m.foreign /\ w.frozen = 0
      /\ w.status = m.sstatus /\ w.sstatus = m.sstatus /\ w.sha = Json(n)
      /\ w.hash = None /\ ~m.foreign
  BY <1>1 DEF Update, Metas
<1>9. /\ specmd' = [specmd EXCEPT ![t] = Json(n)]
      /\ pc' = [pc EXCEPT ![c] = "write"] /\ lock' = [lock EXCEPT ![t] = c]
      /\ job' = [job EXCEPT ![c].meta = w]
      /\ lock[t] = None /\ Canonical(m) /\ m.status = "draft" /\ m.rev = job[c].saw.rev
      /\ UNCHANGED <<meta, approval, approved, frozen, launches, overtaken>>
  BY DEF Update, history, Lock, WriteSpec
<1>10. job'[c] = [job[c] EXCEPT !.meta = w] /\ \A d \in Callers : d # c => job'[d] = job[d]
  BY <1>9 DEF Typed, TypeOK
<1>11. /\ job'[c].op = "update" /\ job'[c].task = t /\ job'[c].meta = w
       /\ job'[c].saw = job[c].saw
  BY <1>1, <1>10 DEF Jobs
<1> HIDE DEF n, w
<1>12. Revises(c, t, w)
  BY <1>1, <1>6, <1>7, <1>8, <1>9, <1>10, <1>11 DEF Revises
<1> QED
  BY <1>6, <1>11, <1>12

LEMMA EditCase ==
    ASSUME Typed, NEW c \in Callers, Edit(c)
    PROVE  \E n \in Metas : Revises(c, job[c].task, n) /\ job'[c].op = "edit"
<1> DEFINE t == job[c].task
           m == meta[t]
           n(foreign) == [m EXCEPT !.rev = m.rev + 1, !.body = job[c].body,
                                   !.status = "draft", !.foreign = foreign]
           w(foreign) == [n(foreign) EXCEPT !.sha = Markdown(n(foreign), "draft")]
<1>1. pc[c] = "checked" /\ job[c].op = "edit" /\ job[c] \in Jobs /\ m \in Metas
  BY DEF Edit, At, Typed, CallInv
<1>2. t \in Tasks /\ job[c].body \in Bodies
  BY <1>1 DEF Jobs
<1>3. PICK foreign \in {m.foreign, Canonical(m)} :
          /\ Rechecked(c) /\ Lock(c, t)
          /\ approval' = IF job[c].saw.asked
                         THEN [approval EXCEPT ![t] = None] ELSE approval
          /\ WriteSpec(c, t, Markdown(n(foreign), "draft"), n(foreign))
          /\ overtaken' = IF Canonical(m) /\ Committed(m)
                          THEN overtaken \union {t} ELSE overtaken
          /\ UNCHANGED <<meta, approved, frozen, launches>>
  BY DEF Edit
<1>4. m.rev + 1 \in Revs /\ foreign \in BOOLEAN
  BY <1>1, <1>3, MetaTypes DEF Rechecked, Canonical, Metas, Revisable
<1>5. n(foreign) \in Metas
  BY <1>1, <1>2, <1>4 DEF Metas, Statuses
<1>6. Markdown(n(foreign), "draft") \in Contents
  BY <1>5, MetaTypes DEF Statuses
<1>7. w(foreign) \in Metas
  BY <1>5, <1>6 DEF Metas
<1>8. /\ Matches(w(foreign)) /\ SameTask(w(foreign), m)
      /\ w(foreign).rev = m.rev + 1 /\ w(foreign).sha = Markdown(n(foreign), "draft")
      /\ w(foreign).srev = m.srev /\ w(foreign).sstatus = m.sstatus
      /\ w(foreign).status = "draft" /\ w(foreign).frozen = m.frozen
  BY <1>1 DEF Matches, SameTask, Markdown, Metas
<1>9. /\ specmd' = [specmd EXCEPT ![t] = Markdown(n(foreign), "draft")]
      /\ pc' = [pc EXCEPT ![c] = "write"] /\ lock' = [lock EXCEPT ![t] = c]
      /\ job' = [job EXCEPT ![c].meta = w(foreign)]
      /\ lock[t] = None /\ m.rev = job[c].saw.rev
      /\ overtaken' = IF Canonical(m) /\ Committed(m) THEN overtaken \union {t} ELSE overtaken
      /\ UNCHANGED <<meta, approved, frozen, launches>>
  BY <1>3 DEF Lock, WriteSpec, Rechecked
<1>10. /\ job'[c] = [job[c] EXCEPT !.meta = w(foreign)]
       /\ \A d \in Callers : d # c => job'[d] = job[d]
       /\ \A u \in Tasks : approval'[u] = approval[u] \/ approval'[u] = None
  BY <1>3, <1>9 DEF Typed, TypeOK
<1>11. /\ job'[c].op = "edit" /\ job'[c].task = t /\ job'[c].meta = w(foreign)
       /\ job'[c].saw = job[c].saw
  BY <1>1, <1>10 DEF Jobs
<1> HIDE DEF n, w
<1>12. Revises(c, t, w(foreign))
  BY <1>1, <1>7, <1>8, <1>9, <1>10, <1>11 DEF Revises
<1> QED
  BY <1>7, <1>11, <1>12

LEMMA LockInCase ==
    ASSUME Typed, NEW c \in Callers, LockIn(c)
    PROVE  \E n \in Metas : Revises(c, job[c].task, n) /\ job'[c].op = "lock_in"
<1> DEFINE t == job[c].task
           m == meta[t]
           n == [m EXCEPT !.rev = m.rev + 1, !.frozen = m.rev + 1]
           w == [n EXCEPT !.sha = Markdown(n, "frozen")]
<1>1. pc[c] = "checked" /\ job[c].op = "lock_in" /\ job[c] \in Jobs /\ m \in Metas
  BY DEF LockIn, At, Typed, CallInv
<1>2. m.rev + 1 \in Revs
  BY <1>1, MetaTypes DEF LockIn, Rechecked, Revisable
<1>3. n \in Metas
  BY <1>1, <1>2 DEF Metas
<1>4. Markdown(n, "frozen") \in Contents
  BY <1>3, MetaTypes DEF Statuses
<1>5. w \in Metas
  BY <1>3, <1>4 DEF Metas
<1>6. /\ Matches(w) /\ SameTask(w, m)
      /\ w.rev = m.rev + 1 /\ w.sha = Markdown(n, "frozen") /\ w.srev = m.srev
      /\ w.sstatus = m.sstatus /\ w.status = m.status /\ w.frozen = w.rev
      /\ w.foreign = m.foreign /\ (Canonical(m) => m.foreign)
  BY <1>1 DEF LockIn, Matches, SameTask, Markdown, Metas
<1>7. /\ specmd' = [specmd EXCEPT ![t] = Markdown(n, "frozen")]
      /\ pc' = [pc EXCEPT ![c] = "write"] /\ lock' = [lock EXCEPT ![t] = c]
      /\ job' = [job EXCEPT ![c].meta = w]
      /\ lock[t] = None /\ m.rev = job[c].saw.rev
      /\ UNCHANGED <<meta, approval, approved, frozen, launches, overtaken>>
  BY DEF LockIn, history, Lock, WriteSpec, Rechecked
<1>8. job'[c] = [job[c] EXCEPT !.meta = w] /\ \A d \in Callers : d # c => job'[d] = job[d]
  BY <1>7 DEF Typed, TypeOK
<1>9. /\ job'[c].op = "lock_in" /\ job'[c].task = t /\ job'[c].meta = w
      /\ job'[c].saw = job[c].saw
  BY <1>1, <1>8 DEF Jobs
<1> HIDE DEF n, w
<1>10. Revises(c, t, w)
  BY <1>1, <1>5, <1>6, <1>7, <1>8, <1>9 DEF Revises
<1> QED
  BY <1>5, <1>9, <1>10

-----------------------------------------------------------------------------
(* The invariant that holds however the legacy tools are used.             *)
FileInv ==
    LockInv /\ WriteInv /\ SubjectInv /\ ApprovalInv /\ GatedInv /\ LaunchedAsApproved

(* A look changes no file.                                                 *)
LEMMA LooksFiles ==
    ASSUME ContractInv, NEW c \in Callers, NEW t \in Tasks, Looks(c, t)
    PROVE  FileInv'
<1>1. Typed /\ TypeOK /\ CallInv /\ FileInv
  BY DEF ContractInv, FileInv, Typed
<1>2. /\ pc'[c] \in {"called", "checked"}
      /\ \A d \in Callers : d # c => pc'[d] = pc[d] /\ job'[d] = job[d]
      /\ UNCHANGED <<meta, specmd, approval, lock, frozen, launches, overtaken>>
  BY <1>1 DEF Looks, TypeOK
<1>3. LockInv'
  BY <1>1, <1>2 DEF FileInv, LockInv, Creates
<1>4. WriteInv' /\ SubjectInv'
  BY <1>1, <1>2 DEF FileInv, WriteInv, SubjectInv, SameTask, Matches
<1>5. Sight(t).rev = meta[t].rev /\ Sight(t).bound = BoundHash(t)
  BY DEF Sight
<1>6. ApprovalInv'
  BY <1>1, <1>2, <1>5 DEF FileInv, ApprovalInv, Looks
<1>7. GatedInv'
  BY <1>1, <1>2 DEF FileInv, GatedInv, Canonical, Looks
<1>8. LaunchedAsApproved'
  BY <1>1, <1>2 DEF FileInv, LaunchedAsApproved, Looks
<1> QED
  BY <1>3, <1>4, <1>6, <1>7, <1>8 DEF FileInv

(* The first write of a revision.                                          *)
LEMMA RevisesFiles ==
    ASSUME ContractInv, NEW c \in Callers, NEW t \in Tasks, NEW n \in Metas, Revises(c, t, n)
    PROVE  FileInv'
<1>1. Typed /\ TypeOK /\ CallInv /\ FileInv
  BY DEF ContractInv, FileInv, Typed
<1>2. /\ pc'[c] = "write" /\ job'[c].op # "create" /\ job'[c].task = t /\ job'[c].meta = n
      /\ \A d \in Callers : d # c => pc'[d] = pc[d] /\ job'[d] = job[d]
      /\ \A u \in Tasks : u # t => lock'[u] = lock[u] /\ specmd'[u] = specmd[u]
      /\ lock[t] = None /\ lock'[t] = c /\ specmd'[t] = n.sha
      /\ UNCHANGED <<meta, approved, frozen, launches>>
  BY <1>1 DEF Revises, TypeOK
<1>3. meta[t] \in Metas /\ meta[t] # None /\ c # None /\ None \notin Callers
  BY ContractAssumption DEF Revises
<1>4. \A d \in Callers : pc[d] # "idle" => job[d].task \in Tasks
  BY <1>1 DEF CallInv, Jobs
<1>5. \A d \in Callers : pc[d] = "gated" \/ pc[d] = "write" => job[d].task # t
  BY <1>1, <1>2, <1>3 DEF FileInv, LockInv, Creates
<1>6. LockInv'
  BY <1>1, <1>2, <1>3, <1>4, <1>5 DEF FileInv, LockInv, Creates
<1>7. WriteInv'
  BY <1>1, <1>2, <1>3, <1>4, <1>5 DEF FileInv, WriteInv, SameTask, Matches, Revises
<1>8. n.kind = meta[t].kind /\ n.subject = meta[t].subject
  BY DEF Revises, SameTask
<1>9. SubjectInv'
  BY <1>1, <1>2, <1>3, <1>8 DEF FileInv, SubjectInv
<1>10. ApprovalInv'
  BY <1>1, <1>2, <1>3 DEF FileInv, ApprovalInv, Revises
<1>11. GatedInv'
  BY <1>1, <1>2, <1>4 DEF FileInv, GatedInv, Canonical
<1>12. LaunchedAsApproved'
  BY <1>1, <1>2 DEF FileInv, LaunchedAsApproved
<1> QED
  BY <1>6, <1>7, <1>9, <1>10, <1>11, <1>12 DEF FileInv

(* A call that ends without touching a file.                               *)
LEMMA EndsFiles ==
    ASSUME ContractInv, NEW c \in Callers, Return(c), UNCHANGED <<meta, specmd, history>>,
           \/ approval' = approval
           \/ \E t \in Tasks, a \in approved :
                  /\ a.task = t
                  /\ approval' = [approval EXCEPT ![t] = [rev |-> a.rev, hash |-> a.hash]]
    PROVE  FileInv'
<1>1. Typed /\ TypeOK /\ CallInv /\ FileInv
  BY DEF ContractInv, FileInv, Typed
<1>2. /\ pc'[c] = "idle"
      /\ \A d \in Callers : d # c => pc'[d] = pc[d] /\ job'[d] = job[d]
      /\ \A u \in Tasks : lock[u] # c => lock'[u] = lock[u]
      /\ UNCHANGED <<meta, specmd, approved, frozen, launches, overtaken>>
  BY <1>1 DEF Return, TypeOK, history
<1>3. \A d \in Callers : pc[d] # "idle" => job[d].task \in Tasks
  BY <1>1 DEF CallInv, Jobs
<1>4. LockInv'
  BY <1>1, <1>2, <1>3 DEF FileInv, LockInv, Creates
<1>5. WriteInv' /\ SubjectInv'
  BY <1>1, <1>2 DEF FileInv, WriteInv, SubjectInv, SameTask, Matches
<1>6. \A t \in Tasks : approval'[t] # None =>
          [task |-> t, rev |-> approval'[t].rev, hash |-> approval'[t].hash] \in approved
  <2>1. CASE approval' = approval
    BY <1>1, <2>1 DEF FileInv, ApprovalInv
  <2>2. ASSUME NEW t \in Tasks, NEW a \in approved, a.task = t,
               approval' = [approval EXCEPT ![t] = [rev |-> a.rev, hash |-> a.hash]]
        PROVE  \A u \in Tasks : approval'[u] # None =>
                   [task |-> u, rev |-> approval'[u].rev, hash |-> approval'[u].hash] \in approved
    <3>1. a = [task |-> t, rev |-> a.rev, hash |-> a.hash]
      BY <1>1, <2>2 DEF TypeOK
    <3>2. approval'[t] = [rev |-> a.rev, hash |-> a.hash]
          /\ \A u \in Tasks : u # t => approval'[u] = approval[u]
      BY <1>1, <2>2 DEF TypeOK
    <3> QED
      BY <1>1, <3>1, <3>2 DEF FileInv, ApprovalInv
  <2> QED
    BY <2>1, <2>2
<1>7. ApprovalInv'
  BY <1>1, <1>2, <1>6 DEF FileInv, ApprovalInv
<1>8. GatedInv'
  BY <1>1, <1>2 DEF FileInv, GatedInv, Canonical
<1>9. LaunchedAsApproved'
  BY <1>1, <1>2 DEF FileInv, LaunchedAsApproved
<1> QED
  BY <1>4, <1>5, <1>7, <1>8, <1>9 DEF FileInv

(* A new task: nobody else knows its directory.                            *)
LEMMA CreateFiles ==
    ASSUME ContractInv, NEW c \in Callers, NEW t \in Tasks, NEW k \in Kinds, NEW b \in Bodies,
           NEW s \in Tasks \union {None}, Create(c, t, k, b, s)
    PROVE  FileInv'
<1> DEFINE sha == [rev |-> 1, body |-> b, status |-> "draft", form |-> "json"]
           m == [contract |-> "canonical", kind |-> k, subject |-> s,
                 schema |-> 2, status |-> "draft", rev |-> 1, frozen |-> 0,
                 sha |-> sha, hash |-> None, body |-> b, srev |-> 1,
                 sstatus |-> "draft", foreign |-> FALSE, exec |-> None]
           j == [op |-> "create", task |-> t, body |-> b, saw |-> None, meta |-> m]
<1>1. Typed /\ TypeOK /\ CallInv /\ FileInv
  BY DEF ContractInv, FileInv, Typed
<1>2. sha \in Contents /\ sha # None
  BY ContractAssumption DEF Contents, Revs, Statuses
<1>3. /\ pc'[c] = "write" /\ job'[c] = j /\ pc[c] = "idle"
      /\ \A d \in Callers : d # c => pc'[d] = pc[d] /\ job'[d] = job[d]
      /\ specmd'[t] = sha /\ \A u \in Tasks : u # t => specmd'[u] = specmd[u]
      /\ specmd[t] = None /\ meta[t] = None
      /\ UNCHANGED <<meta, approval, lock, approved, frozen, launches, overtaken>>
  BY <1>1 DEF Create, TypeOK, history
<1>4. /\ j.op = "create" /\ j.task = t /\ j.meta = m /\ m.sha = sha /\ Matches(m)
      /\ m.kind = k /\ m.subject = s
  BY DEF Matches
<1> HIDE DEF j, m, sha
<1>5. \A d \in Callers : pc[d] # "idle" => job[d].task \in Tasks
  BY <1>1 DEF CallInv, Jobs
<1>6. \A d \in Callers : pc[d] = "write" => job[d].task # t
  <2> SUFFICES ASSUME NEW d \in Callers, pc[d] = "write" PROVE job[d].task # t
    OBVIOUS
  <2>1. job[d].meta \in Metas /\ specmd[job[d].task] = job[d].meta.sha
    BY <1>1 DEF CallInv, FileInv, WriteInv
  <2>2. specmd[job[d].task] \in Contents
    BY <2>1 DEF Metas
  <2> QED
    BY <1>3, <2>2, ContractAssumption
<1>7. LockInv'
  BY <1>1, <1>3, <1>4, <1>6 DEF FileInv, LockInv, Creates
<1>8. WriteInv'
  BY <1>1, <1>3, <1>4, <1>5, <1>6 DEF FileInv, WriteInv, SameTask, Matches
<1>9. k = "review" => s \in Tasks /\ meta[s] # None
  BY DEF Create
<1>10. SubjectInv'
  BY <1>1, <1>3, <1>4, <1>9 DEF FileInv, SubjectInv
<1>11. ApprovalInv'
  BY <1>1, <1>3 DEF FileInv, ApprovalInv
<1>12. GatedInv'
  BY <1>1, <1>3 DEF FileInv, GatedInv, Canonical
<1>13. LaunchedAsApproved'
  BY <1>1, <1>3 DEF FileInv, LaunchedAsApproved
<1> QED
  BY <1>7, <1>8, <1>10, <1>11, <1>12, <1>13 DEF FileInv

(* The second write.                                                       *)
LEMMA WriteMetaFiles ==
    ASSUME ContractInv, NEW c \in Callers, WriteMeta(c)
    PROVE  FileInv'
<1> DEFINE t == job[c].task
           n == job[c].meta
<1>1. Typed /\ TypeOK /\ CallInv /\ FileInv
  BY DEF ContractInv, FileInv, Typed
<1>2. pc[c] = "write" /\ t \in Tasks /\ n \in Metas /\ n # None
  BY <1>1, MetaTypes DEF WriteMeta, CallInv, Jobs
<1>3. /\ pc'[c] = "idle"
      /\ \A d \in Callers : d # c => pc'[d] = pc[d] /\ job'[d] = job[d]
      /\ \A u \in Tasks : lock[u] # c => lock'[u] = lock[u]
      /\ meta'[t] = n /\ \A u \in Tasks : u # t => meta'[u] = meta[u]
      /\ UNCHANGED <<specmd, approval, approved, launches, overtaken>>
  BY <1>1, <1>2 DEF WriteMeta, Return, TypeOK
<1>4. \A d \in Callers : pc[d] # "idle" => job[d].task \in Tasks
  BY <1>1 DEF CallInv, Jobs
<1>5. \A d \in Callers : d # c /\ (pc[d] = "write" \/ pc[d] = "gated") => job[d].task # t
  <2> SUFFICES ASSUME NEW d \in Callers, d # c, pc[d] = "write" \/ pc[d] = "gated",
                      job[d].task = t
               PROVE  FALSE
    OBVIOUS
  <2>1. CASE Creates(c)
    BY <1>1, <1>2, <2>1, ContractAssumption DEF FileInv, LockInv, Creates, CallInv
  <2>2. CASE ~Creates(c)
    BY <1>1, <1>2, <2>2, ContractAssumption DEF FileInv, LockInv, Creates
  <2> QED
    BY <2>1, <2>2
<1>6. \A u \in Tasks : meta[u] # None => meta'[u] # None
  BY <1>2, <1>3
<1>7. LockInv'
  BY <1>1, <1>3, <1>4, <1>5 DEF FileInv, LockInv, Creates
<1>8. Matches(n)
  BY <1>1, <1>2 DEF FileInv, WriteInv
<1>9. WriteInv'
  <2>1. \A u \in Tasks : meta'[u] # None => Matches(meta'[u])
    BY <1>1, <1>3, <1>8 DEF FileInv, WriteInv
  <2>2. ASSUME NEW d \in Callers, pc'[d] = "write"
        PROVE  /\ specmd'[job'[d].task] = job'[d].meta.sha
               /\ Matches(job'[d].meta)
               /\ job'[d].op # "create" => SameTask(job'[d].meta, meta'[job'[d].task])
    <3>1. d # c
      BY <1>3, <2>2
    <3>2. pc[d] = "write" /\ job'[d] = job[d] /\ specmd' = specmd
      BY <1>3, <2>2, <3>1
    <3>3. job[d].task \in Tasks /\ job[d].task # t
      BY <1>4, <1>5, <3>1, <3>2
    <3>4. meta'[job[d].task] = meta[job[d].task]
      BY <1>3, <3>3
    <3> QED
      BY <1>1, <3>2, <3>4 DEF FileInv, WriteInv
  <2> QED
    BY <2>1, <2>2 DEF WriteInv, Matches, SameTask
<1>10. SubjectInv'
  BY <1>1, <1>2, <1>3, <1>6 DEF FileInv, SubjectInv
<1>11. ApprovalInv'
  BY <1>1, <1>3 DEF FileInv, ApprovalInv
<1>12. GatedInv'
  BY <1>1, <1>3, <1>4, <1>5 DEF FileInv, GatedInv, Canonical
<1>13. LaunchedAsApproved'
  BY <1>1, <1>3 DEF FileInv, LaunchedAsApproved
<1> QED
  BY <1>7, <1>9, <1>10, <1>11, <1>12, <1>13 DEF FileInv

(* The gate compares the approval with what it finds.                      *)
LEMMA StartGateFiles ==
    ASSUME ContractInv, NEW c \in Callers, NEW t \in Tasks, StartGate(c, t)
    PROVE  FileInv'
<1> DEFINE m == meta[t]
           e == [rev |-> m.rev, sha |-> specmd[t], hash |-> BoundHash(t)]
           n == [m EXCEPT !.status = "running",
                    !.frozen = IF Canonical(m) THEN m.rev ELSE m.frozen, !.exec = e]
           j == [op |-> "start", task |-> t, body |-> m.body, saw |-> None, meta |-> None]
<1>1. Typed /\ TypeOK /\ CallInv /\ FileInv
  BY DEF ContractInv, FileInv, Typed
<1>2. m \in Metas /\ lock[t] = None /\ specmd[t] = m.sha
  BY <1>1 DEF StartGate, TypeOK, Lock, Intact
<1>3. meta' = [meta EXCEPT ![t] = n]
  BY <1>1, <1>2 DEF StartGate, TypeOK, Metas
<1>4. /\ pc'[c] = "gated" /\ job'[c] = j
      /\ \A d \in Callers : d # c => pc'[d] = pc[d] /\ job'[d] = job[d]
      /\ lock'[t] = c /\ \A u \in Tasks : u # t => lock'[u] = lock[u]
      /\ meta'[t] = n /\ \A u \in Tasks : u # t => meta'[u] = meta[u]
      /\ UNCHANGED <<specmd, approval, approved, frozen, launches, overtaken>>
  BY <1>1, <1>3 DEF StartGate, TypeOK, Begin, Lock, history
<1>5. /\ j.task = t /\ n.sha = m.sha /\ n.rev = m.rev /\ n.body = m.body /\ n.kind = m.kind
      /\ n.subject = m.subject /\ n.contract = m.contract /\ n.status = "running" /\ n.exec = e
      /\ e.rev = m.rev /\ e.sha = m.sha /\ e.hash = BoundHash(t)
  BY <1>2 DEF Metas
<1>6. n \in Metas
  <2>1. specmd[t] \in Contents
    BY <1>2 DEF Metas
  <2>2. BoundHash(t) \in Digests
    BY <1>2, <2>1, MetaTypes DEF StartGate, Bound, BoundHash, Digests
  <2>3. e \in Bindings
    BY <1>2, <2>1, <2>2, MetaTypes DEF Bindings
  <2> QED
    BY <1>2, <2>3 DEF Metas, Statuses
<1>7. n # None /\ m # None /\ n.exec \in Bindings
  <2>1. specmd[t] \in Contents
    BY <1>2 DEF Metas
  <2>2. BoundHash(t) \in Digests
    BY <1>2, <2>1, MetaTypes DEF StartGate, Bound, BoundHash, Digests
  <2> QED
    BY <1>2, <1>5, <1>6, <2>1, <2>2, MetaTypes DEF Bindings
<1>8. Canonical(m) => e.hash.rev = m.sha.rev /\ e.hash.body = m.sha.body
  BY <1>1, <1>2, <1>5, MetaTypes
     DEF FileInv, WriteInv, Matches, StartGate, Bound, BoundHash, CanonicalHash
<1>9. m.kind = "implementation" => [task |-> t, rev |-> e.rev, hash |-> e.hash] \in approved
  BY <1>1, <1>5 DEF FileInv, ApprovalInv, StartGate, Approved
<1> HIDE DEF n, e, j
<1>10. \A d \in Callers : pc[d] # "idle" => job[d].task \in Tasks
  BY <1>1 DEF CallInv, Jobs
<1>11. \A d \in Callers : pc[d] = "gated" \/ pc[d] = "write" => job[d].task # t
  BY <1>1, <1>2, <1>7, ContractAssumption DEF FileInv, LockInv, Creates
<1>12. LockInv'
  BY <1>1, <1>4, <1>5, <1>10, <1>11 DEF FileInv, LockInv, Creates
<1>13. WriteInv'
  BY <1>1, <1>4, <1>5, <1>7, <1>10, <1>11 DEF FileInv, WriteInv, SameTask, Matches
<1>14. SubjectInv'
  BY <1>1, <1>4, <1>5, <1>7 DEF FileInv, SubjectInv
<1>15. ApprovalInv'
  BY <1>1, <1>4 DEF FileInv, ApprovalInv
<1>16. GatedInv'
  <2> DEFINE G(d) == LET u == job[d].task
                         o == meta[u]
                     IN /\ o.status = "running" /\ o.exec \in Bindings
                        /\ o.exec.sha = o.sha
                        /\ Canonical(o) => o.exec.hash.rev = o.sha.rev /\ o.exec.hash.body = o.sha.body
                        /\ o.kind = "implementation" =>
                               [task |-> u, rev |-> o.exec.rev, hash |-> o.exec.hash] \in approved
  <2>1. job'[c].task = t /\ meta'[job'[c].task] = n
    BY <1>4, <1>5
  <2>2. Canonical(n) => e.hash.rev = n.sha.rev /\ e.hash.body = n.sha.body
    BY <1>5, <1>8 DEF Canonical
  <2>3. n.exec.sha = n.sha /\ n.exec = e
    BY <1>5
  <2>4. n.kind = "implementation" => [task |-> t, rev |-> e.rev, hash |-> e.hash] \in approved'
    BY <1>4, <1>5, <1>9
  <2>5. G(c)'
    BY <1>5, <1>7, <2>1, <2>2, <2>3, <2>4 DEF Canonical
  <2>6. ASSUME NEW d \in Callers, d # c, pc[d] = "gated" PROVE G(d)'
    <3>1. job[d].task \in Tasks /\ job[d].task # t
      BY <1>10, <1>11, <2>6
    <3>2. job'[d] = job[d] /\ meta'[job[d].task] = meta[job[d].task] /\ approved' = approved
      BY <1>4, <2>6, <3>1
    <3>3. G(d)
      BY <1>1, <2>6 DEF FileInv, GatedInv
    <3> QED
      BY <3>2, <3>3 DEF Canonical
  <2>7. \A d \in Callers : pc'[d] = "gated" => G(d)'
    BY <1>4, <2>5, <2>6
  <2> QED
    BY <2>7 DEF GatedInv
<1>17. LaunchedAsApproved'
  BY <1>1, <1>4 DEF FileInv, LaunchedAsApproved
<1> QED
  BY <1>12, <1>13, <1>14, <1>15, <1>16, <1>17 DEF FileInv

(* The worker is launched on what the gate has found.                      *)
LEMMA StartLaunchFiles ==
    ASSUME ContractInv, NEW c \in Callers, StartLaunch(c)
    PROVE  FileInv'
<1> DEFINE t == job[c].task
           m == meta[t]
           l == [task |-> t, kind |-> m.kind, exec |-> m.exec,
                 subject |-> IF m.kind = "review" THEN meta[m.subject] ELSE None]
<1>1. Typed /\ TypeOK /\ CallInv /\ FileInv
  BY DEF ContractInv, FileInv, Typed
<1>2. /\ pc'[c] = "idle"
      /\ \A d \in Callers : d # c => pc'[d] = pc[d] /\ job'[d] = job[d]
      /\ \A u \in Tasks : lock[u] # c => lock'[u] = lock[u]
      /\ UNCHANGED <<meta, specmd, approval, approved, frozen>>
      /\ launches' = launches \union {l}
      /\ pc[c] = "gated" /\ Canonical(m)
  BY <1>1 DEF StartLaunch, Return, TypeOK, files
<1>3. \A d \in Callers : pc[d] # "idle" => job[d].task \in Tasks
  BY <1>1 DEF CallInv, Jobs
<1>4. LockInv'
  BY <1>1, <1>2, <1>3 DEF FileInv, LockInv, Creates
<1>5. WriteInv' /\ SubjectInv'
  BY <1>1, <1>2 DEF FileInv, WriteInv, SubjectInv, SameTask, Matches
<1>6. ApprovalInv'
  BY <1>1, <1>2 DEF FileInv, ApprovalInv
<1>7. GatedInv'
  BY <1>1, <1>2 DEF FileInv, GatedInv, Canonical
<1>8. l.kind = m.kind /\ l.task = t /\ l.exec = m.exec
  OBVIOUS
<1>9. /\ m.exec.sha.rev = m.exec.hash.rev /\ m.exec.sha.body = m.exec.hash.body
      /\ m.kind = "implementation" =>
             [task |-> t, rev |-> m.exec.rev, hash |-> m.exec.hash] \in approved
  BY <1>1, <1>2 DEF FileInv, GatedInv
<1> HIDE DEF l
<1>10. LaunchedAsApproved'
  BY <1>1, <1>2, <1>8, <1>9 DEF FileInv, LaunchedAsApproved
<1> QED
  BY <1>4, <1>5, <1>6, <1>7, <1>10 DEF FileInv

(* A status is written to a task that runs.                                *)
LEMMA StatusFiles ==
    ASSUME ContractInv, NEW t \in Tasks, meta[t] \in Metas, NEW s \in Statuses,
           meta' = [meta EXCEPT ![t] = [meta[t] EXCEPT !.status = s]],
           \/ lock[t] = None /\ UNCHANGED <<pc, job, lock>>
           \/ \E c \in Callers : pc[c] = "gated" /\ job[c].task = t /\ Return(c),
           UNCHANGED <<specmd, approval, history>>
    PROVE  FileInv'
<1> DEFINE n == [meta[t] EXCEPT !.status = s]
<1>1. Typed /\ TypeOK /\ CallInv /\ FileInv
  BY DEF ContractInv, FileInv, Typed
<1>2. /\ n.sha = meta[t].sha /\ n.rev = meta[t].rev /\ n.body = meta[t].body
      /\ n.kind = meta[t].kind /\ n.subject = meta[t].subject /\ n.contract = meta[t].contract
      /\ n \in Metas
  BY DEF Metas
<1>3. n # None /\ meta[t] # None
  BY <1>2, MetaTypes
<1>4. /\ meta'[t] = n /\ \A u \in Tasks : u # t => meta'[u] = meta[u]
      /\ UNCHANGED <<specmd, approval, approved, frozen, launches, overtaken>>
  BY <1>1 DEF TypeOK, history
<1> HIDE DEF n
<1>5. \A d \in Callers : pc[d] # "idle" => job[d].task \in Tasks
  BY <1>1 DEF CallInv, Jobs
<1>6. \A d \in Callers : pc'[d] # "idle" =>
          /\ pc'[d] = pc[d] /\ job'[d] = job[d]
          /\ \A u \in Tasks : lock[u] = d => lock'[u] = d
          /\ pc[d] \in {"gated", "write"} => job[d].task # t
  <2>1. CASE lock[t] = None /\ UNCHANGED <<pc, job, lock>>
    <3>1. \A d \in Callers : pc[d] \in {"gated", "write"} => job[d].task # t
      BY <1>1, <1>3, <2>1, ContractAssumption DEF FileInv, LockInv, Creates
    <3> QED
      BY <2>1, <3>1
  <2>2. ASSUME NEW c \in Callers, pc[c] = "gated", job[c].task = t, Return(c)
        PROVE  \A d \in Callers : pc'[d] # "idle" =>
                  /\ pc'[d] = pc[d] /\ job'[d] = job[d]
                  /\ \A u \in Tasks : lock[u] = d => lock'[u] = d
                  /\ pc[d] \in {"gated", "write"} => job[d].task # t
    <3>1. /\ pc'[c] = "idle"
          /\ \A d \in Callers : d # c => pc'[d] = pc[d] /\ job'[d] = job[d]
          /\ \A u \in Tasks : lock[u] # c => lock'[u] = lock[u]
      BY <1>1, <2>2 DEF Return, TypeOK
    <3>2. \A d \in Callers : d # c /\ pc[d] \in {"gated", "write"} => job[d].task # t
      BY <1>1, <1>3, <2>2 DEF FileInv, LockInv, Creates
    <3> QED
      BY <3>1, <3>2
  <2> QED
    BY <2>1, <2>2
<1>7. LockInv'
  BY <1>1, <1>4, <1>5, <1>6 DEF FileInv, LockInv, Creates
<1>8. WriteInv'
  BY <1>1, <1>2, <1>3, <1>4, <1>5, <1>6 DEF FileInv, WriteInv, SameTask, Matches
<1>9. SubjectInv'
  BY <1>1, <1>2, <1>3, <1>4, <1>6 DEF FileInv, SubjectInv
<1>10. ApprovalInv'
  BY <1>1, <1>4, <1>6 DEF FileInv, ApprovalInv
<1>11. GatedInv'
  BY <1>1, <1>4, <1>5, <1>6 DEF FileInv, GatedInv, Canonical
<1>12. LaunchedAsApproved'
  BY <1>1, <1>4 DEF FileInv, LaunchedAsApproved
<1> QED
  BY <1>7, <1>8, <1>9, <1>10, <1>11, <1>12 DEF FileInv

(* The whole step.                                                         *)
LEMMA FilesStep == ContractInv /\ [Next]_vars => FileInv'
<1> SUFFICES ASSUME ContractInv, [Next]_vars PROVE FileInv'
  OBVIOUS
<1>0. Typed /\ TypeOK /\ CallInv /\ FileInv
  BY DEF ContractInv, FileInv, Typed
<1>1. ASSUME NEW c \in Callers, NEW t \in Tasks, NEW k \in Kinds, NEW b \in Bodies,
             NEW s \in Tasks \union {None}, Create(c, t, k, b, s)
      PROVE  FileInv'
  BY <1>1, CreateFiles
<1>2. ASSUME NEW c \in Callers, NEW t \in Tasks,
             \/ \E b \in Bodies : CallUpdate(c, t, b)
             \/ \E op \in {"edit", "lock_in"}, b \in Bodies : EditCheck(c, t, op, b)
             \/ ApproveCheck(c, t)
      PROVE  FileInv'
  BY <1>0, <1>2, LooksCases, LooksFiles
<1>3. ASSUME NEW c \in Callers, NEW t \in Tasks, Freeze(c, t) PROVE FileInv'
  BY <1>0, <1>3, FreezeCase, RevisesFiles
<1>4. ASSUME NEW c \in Callers, NEW t \in Tasks, StartGate(c, t) PROVE FileInv'
  BY <1>4, StartGateFiles
<1>5. ASSUME NEW c \in Callers, Dies(c) \/ StartDies(c) PROVE FileInv'
  BY <1>5, EndsFiles DEF Dies, StartDies, files
<1>6. ASSUME NEW c \in Callers, WriteMeta(c) PROVE FileInv'
  BY <1>6, WriteMetaFiles
<1>7. ASSUME NEW c \in Callers, Update(c) \/ Edit(c) \/ LockIn(c) PROVE FileInv'
  <2>1. pc[c] \in {"called", "checked"}
    BY <1>7 DEF Update, Edit, LockIn, At
  <2>2. job[c].task \in Tasks
    BY <1>0, <2>1 DEF CallInv, Jobs
  <2>3. PICK n \in Metas : Revises(c, job[c].task, n)
    BY <1>0, <1>7, UpdateCase, EditCase, LockInCase
  <2> QED
    BY <2>2, <2>3, RevisesFiles
<1>8. ASSUME NEW c \in Callers, Approve(c) PROVE FileInv'
  <2> DEFINE t == job[c].task
             a == [task |-> t, rev |-> job[c].saw.rev, hash |-> job[c].saw.bound]
  <2>1. a \in approved /\ t \in Tasks
    BY <1>0, <1>8 DEF Approve, At, FileInv, ApprovalInv, CallInv, Jobs
  <2>2. a.task = t /\ approval' = [approval EXCEPT ![t] = [rev |-> a.rev, hash |-> a.hash]]
    BY <1>8 DEF Approve
  <2>3. Return(c) /\ UNCHANGED <<meta, specmd, history>>
    BY <1>8 DEF Approve
  <2> HIDE DEF a, t
  <2> QED
    BY <2>1, <2>2, <2>3, EndsFiles
<1>9. ASSUME NEW c \in Callers, StartLaunch(c) PROVE FileInv'
  BY <1>9, StartLaunchFiles
<1>10. ASSUME NEW c \in Callers, StartFails(c) PROVE FileInv'
  <2>1. job[c] \in Jobs /\ meta[job[c].task] \in Metas
    BY <1>0, <1>10 DEF CallInv, StartFails
  <2>2. meta' = [meta EXCEPT ![job[c].task] = [meta[job[c].task] EXCEPT !.status = "failed"]]
    BY <1>0, <1>10, <2>1 DEF StartFails, TypeOK
  <2>3. job[c].task \in Tasks /\ "failed" \in Statuses
    BY <2>1 DEF Jobs, Statuses
  <2>4. pc[c] = "gated" /\ Return(c) /\ UNCHANGED <<specmd, approval, history>>
    BY <1>10 DEF StartFails
  <2> QED
    BY <2>1, <2>2, <2>3, <2>4, StatusFiles
<1>11. ASSUME NEW t \in Tasks, Conclude(t) PROVE FileInv'
  <2>1. meta[t] \in Metas
    BY <1>0, <1>11 DEF Conclude, TypeOK
  <2>2. PICK s \in {"done", "failed", "needs_input"} :
            meta' = [meta EXCEPT ![t] = [meta[t] EXCEPT !.status = s]]
    BY <1>0, <1>11 DEF Conclude, TypeOK
  <2>3. s \in Statuses
    BY DEF Statuses
  <2>4. lock[t] = None /\ UNCHANGED <<pc, job, lock>> /\ UNCHANGED <<specmd, approval, history>>
    BY <1>11 DEF Conclude
  <2> QED
    BY <2>1, <2>2, <2>3, <2>4, StatusFiles
<1>12. CASE UNCHANGED vars
  BY <1>0, <1>12 DEF FileInv, LockInv, WriteInv, SubjectInv, ApprovalInv, GatedInv,
     LaunchedAsApproved, Creates, Matches, SameTask, Canonical, vars
<1> QED
  BY <1>1, <1>2, <1>3, <1>4, <1>5, <1>6, <1>7, <1>8, <1>9, <1>10, <1>11, <1>12 DEF Next

LEMMA InitFiles == Init => FileInv
<1> SUFFICES ASSUME Init PROVE FileInv
  OBVIOUS
<1>1. PICK old \in SUBSET OldTasks :
          \E first \in [old -> [kind : Kinds \ {"review"}, schema : {2, 3},
                                status : {"draft", "needs_input"}, body : Bodies]] :
              /\ specmd = [t \in Tasks |-> IF t \in old
                      THEN [rev |-> 1, body |-> first[t].body, status |-> "draft",
                            form |-> "markdown"] ELSE None]
              /\ meta = [t \in Tasks |-> IF t \in old
                      THEN [contract |-> "legacy", kind |-> first[t].kind,
                            subject |-> None, schema |-> first[t].schema,
                            status |-> first[t].status, rev |-> 1, frozen |-> 0,
                            sha |-> specmd[t], hash |-> None, body |-> first[t].body,
                            srev |-> 0, sstatus |-> "draft", foreign |-> FALSE,
                            exec |-> None] ELSE None]
  BY DEF Init
<1>2. PICK first \in [old -> [kind : Kinds \ {"review"}, schema : {2, 3},
                              status : {"draft", "needs_input"}, body : Bodies]] :
              /\ specmd = [t \in Tasks |-> IF t \in old
                      THEN [rev |-> 1, body |-> first[t].body, status |-> "draft",
                            form |-> "markdown"] ELSE None]
              /\ meta = [t \in Tasks |-> IF t \in old
                      THEN [contract |-> "legacy", kind |-> first[t].kind,
                            subject |-> None, schema |-> first[t].schema,
                            status |-> first[t].status, rev |-> 1, frozen |-> 0,
                            sha |-> specmd[t], hash |-> None, body |-> first[t].body,
                            srev |-> 0, sstatus |-> "draft", foreign |-> FALSE,
                            exec |-> None] ELSE None]
  BY <1>1
<1>3. ASSUME NEW t \in Tasks, meta[t] # None
      PROVE  Matches(meta[t]) /\ meta[t].kind # "review"
  BY <1>2, <1>3 DEF Matches
<1>4. /\ \A c \in Callers : pc[c] = "idle"
      /\ \A t \in Tasks : approval[t] = None
      /\ launches = {}
  BY DEF Init
<1> QED
  BY <1>3, <1>4 DEF FileInv, LockInv, WriteInv, SubjectInv, ApprovalInv, GatedInv,
     LaunchedAsApproved, Creates

LEMMA ContractInvariance == Spec => []ContractInv
<1>1. Init => ContractInv
  BY InitTyped, InitFiles DEF ContractInv, FileInv
<1>2. ContractInv /\ [Next]_vars => ContractInv'
  BY TypedStep, FilesStep DEF ContractInv, FileInv
<1> QED
  BY <1>1, <1>2, PTL DEF Spec

(* The files, calls and histories have their types.                        *)
THEOREM ContractTyped == Spec => []TypeOK
<1>1. ContractInv => TypeOK
  BY DEF ContractInv, Typed
<1> QED
  BY <1>1, ContractInvariance, PTL

(* However updates, freezes, approvals and starts interleave and die, and  *)
(* whichever tools are used, an implementation is launched under what a    *)
(* human asked to approve, and with the SPEC.md of that revision and text. *)
THEOREM ApprovedLaunch == Spec => []LaunchedAsApproved
<1>1. ContractInv => LaunchedAsApproved
  BY DEF ContractInv
<1> QED
  BY <1>1, ContractInvariance, PTL

-----------------------------------------------------------------------------
(* Of a task no edit has overtaken, step by step.  A committed task is     *)
(* left alone by every step or overtaken, which is FrozenStays.            *)
FrozenStep ==
    \A t \in Tasks : Committed(meta[t]) => Unchanging(t) \/ t \in overtaken'

AllInv == ContractInv /\ SeparateInv

LEMMA LooksApart ==
    ASSUME AllInv, NEW c \in Callers, NEW t \in Tasks, Looks(c, t)
    PROVE  SeparateInv' /\ FrozenStep
<1>1. Typed /\ TypeOK /\ CallInv /\ SeparateInv
  BY DEF AllInv, ContractInv, Typed
<1>2. /\ pc'[c] \in {"called", "checked"} /\ meta[t] \in Metas
      /\ job'[c].task = t /\ job'[c].saw = Sight(t)
      /\ job'[c].op \in {"edit", "lock_in"} => meta[t].frozen = 0
      /\ \A d \in Callers : d # c => pc'[d] = pc[d] /\ job'[d] = job[d]
      /\ UNCHANGED <<meta, specmd, approval, lock, frozen, launches, overtaken>>
  BY <1>1 DEF Looks, TypeOK
<1>3. Sight(t).rev = meta[t].rev /\ Sight(t).body = meta[t].body /\ meta[t].rev \in Nat
  BY <1>2, MetaTypes DEF Sight
<1>4. SightInv'
  BY <1>1, <1>2, <1>3 DEF SeparateInv, SightInv, Open, Canonical
<1>5. CanonicalInv' /\ FreezeInv'
  BY <1>1, <1>2 DEF SeparateInv, CanonicalInv, FreezeInv, Frozen, Genuine, Canonical
<1>6. LaunchInv'
  BY <1>1, <1>2 DEF SeparateInv, LaunchInv, Launched, Canonical, Committed
<1>7. DraftInv' /\ NoLostUpdate'
  BY <1>1, <1>2 DEF SeparateInv, DraftInv, Drafted, Open, NoLostUpdate, Canonical
<1>8. FrozenStep
  BY <1>2 DEF FrozenStep, Unchanging, SpecPart
<1> QED
  BY <1>4, <1>5, <1>6, <1>7, <1>8 DEF SeparateInv

(* Whoever writes a task that is not overtaken found it nowhere frozen.    *)
LEMMA RevisesDraft ==
    ASSUME AllInv, NEW c \in Callers, NEW t \in Tasks, NEW n \in Metas, Revises(c, t, n),
           t \notin overtaken'
    PROVE  /\ t \notin overtaken /\ meta[t].rev # 0 /\ meta[t].frozen = 0 /\ Open(meta[t])
           /\ Canonical(meta[t]) =>
                  meta[t].sstatus = "draft" /\ meta[t].srev # 0 /\ meta[t].srev <= meta[t].rev
           /\ job'[c].op \in {"update", "edit"} => job[c].saw.body = meta[t].body
<1> DEFINE m == meta[t]
           op == job'[c].op
<1>1. TypeOK /\ CanonicalInv /\ SightInv /\ FreezeInv
  BY DEF AllInv, ContractInv, Typed, SeparateInv
<1>2. /\ m \in Metas /\ m # None /\ m.rev \in Nat /\ m.srev \in Nat
      /\ op \in {"update", "freeze", "edit", "lock_in"}
  BY MetaTypes DEF Revises
<1>3. t \notin overtaken
  BY DEF Revises
<1>4. m.rev # 0
  <2>1. CASE Canonical(m)
    <3>1. m.srev # 0 /\ m.srev <= m.rev
      BY <1>1, <1>2, <1>3, <2>1 DEF CanonicalInv
    <3> QED
      BY <1>2, <3>1
  <2>2. CASE ~Canonical(m)
    BY <1>1, <1>2, <1>3, <2>2 DEF CanonicalInv
  <2> QED
    BY <2>1, <2>2
<1>5. Open(m)
  <2>1. CASE op \in {"update", "freeze"}
    BY <2>1 DEF Revises, Open
  <2>2. CASE op = "edit"
    <3>1. Canonical(m) => ~Committed(m)
      BY <2>2 DEF Revises
    <3> QED
      BY <1>1, <1>2, <1>3, <1>4, <3>1 DEF CanonicalInv, Committed, Open
  <2>3. CASE op = "lock_in"
    <3>1. Canonical(m) => m.foreign
      BY <2>3 DEF Revises
    <3> QED
      BY <1>1, <1>2, <3>1 DEF FreezeInv, Open
  <2> QED
    BY <1>2, <2>1, <2>2, <2>3
<1>6. Canonical(m) => m.sstatus = "draft" /\ m.srev # 0 /\ m.srev <= m.rev
  BY <1>1, <1>2, <1>3, <1>5 DEF CanonicalInv, Open
<1>7. m.frozen = 0
  <2>1. CASE op \in {"update", "freeze"}
    <3>1. Canonical(m) /\ ~m.foreign
      BY <2>1 DEF Revises
    <3> QED
      BY <1>1, <1>2, <1>3, <1>5, <3>1 DEF CanonicalInv, Open
  <2>2. CASE op \in {"edit", "lock_in"}
    <3>1. pc[c] = "checked" /\ job[c].op = op /\ job[c].task = t /\ job[c].saw.rev = m.rev
      BY <2>2 DEF Revises
    <3> QED
      BY <1>1, <1>3, <1>5, <2>2, <3>1 DEF SightInv
  <2> QED
    BY <1>2, <2>1, <2>2
<1>8. ASSUME op \in {"update", "edit"} PROVE job[c].saw.body = m.body
  <2>1. /\ pc[c] \in {"called", "checked"} /\ job[c].task = t
        /\ job[c].saw.rev = m.rev
    BY <1>8 DEF Revises
  <2> QED
    BY <1>1, <1>3, <1>5, <2>1 DEF SightInv
<1> QED
  BY <1>3, <1>4, <1>5, <1>6, <1>7, <1>8

LEMMA RevisesApart ==
    ASSUME AllInv, NEW c \in Callers, NEW t \in Tasks, NEW n \in Metas, Revises(c, t, n)
    PROVE  SeparateInv' /\ FrozenStep
<1> DEFINE m == meta[t]
           op == job'[c].op
<1>1. Typed /\ TypeOK /\ CallInv /\ SeparateInv
  BY DEF AllInv, ContractInv, Typed
<1>2. /\ pc'[c] = "write" /\ job'[c].task = t /\ job'[c].meta = n /\ m \in Metas
      /\ \A d \in Callers : d # c => pc'[d] = pc[d] /\ job'[d] = job[d]
      /\ \A u \in Tasks : u # t => specmd'[u] = specmd[u]
      /\ overtaken \subseteq overtaken' /\ overtaken' \subseteq overtaken \union {t}
      /\ UNCHANGED <<meta, approved, frozen, launches>>
  BY <1>1 DEF Revises, TypeOK
<1>3. /\ m.rev \in Nat /\ m # None /\ m.contract = n.contract
      /\ op \in {"update", "freeze", "edit", "lock_in"}
  BY <1>2, MetaTypes DEF Revises, SameTask
<1>4. t \notin overtaken' =>
          /\ t \notin overtaken /\ m.rev # 0 /\ m.frozen = 0 /\ Open(m)
          /\ Canonical(m) => m.sstatus = "draft" /\ m.srev # 0 /\ m.srev <= m.rev
          /\ op \in {"update", "edit"} => job[c].saw.body = m.body
  BY RevisesDraft
<1>5. CanonicalInv'
  BY <1>1, <1>2, <1>4 DEF SeparateInv, CanonicalInv, Canonical, Open
<1>6. SightInv'
  BY <1>1, <1>2 DEF SeparateInv, SightInv, Canonical, Open
<1>7. DraftInv'
  <2>0. SUFFICES ASSUME t \notin overtaken' PROVE Drafted(m, n, op)
    <3>1. \A d \in Callers : d # c /\ pc'[d] = "write" /\ job'[d].task \notin overtaken' =>
              Drafted(meta[job[d].task], job[d].meta, job[d].op)
      BY <1>1, <1>2 DEF SeparateInv, DraftInv
    <3>2. \A d \in Callers : pc'[d] = "write" /\ job'[d].task \notin overtaken' =>
              Drafted(meta'[job'[d].task], job'[d].meta, job'[d].op)
      BY <1>2, <2>0, <3>1
    <3> QED
      BY <3>2 DEF DraftInv, Drafted, Open, Canonical
  <2>1. CASE op = "update"
    <3>1. /\ Canonical(m) /\ m.status = "draft" /\ n.rev = m.rev + 1 /\ n.srev = n.rev
          /\ ~n.foreign /\ n.status = m.sstatus /\ n.sstatus = m.sstatus /\ n.frozen = 0
      BY <2>1 DEF Revises
    <3> QED
      BY <1>3, <1>4, <2>0, <2>1, <3>1 DEF Canonical, Drafted
  <2>2. CASE op = "freeze"
    <3>1. /\ Canonical(m) /\ n.rev = m.srev /\ n.srev = n.rev /\ n.body = m.body
          /\ ~n.foreign /\ n.status = "frozen" /\ n.frozen = n.rev
      BY <2>2 DEF Revises
    <3> QED
      BY <1>3, <1>4, <2>0, <2>2, <3>1 DEF Canonical, Drafted
  <2>3. CASE op \in {"edit", "lock_in"}
    <3>1. /\ n.rev = m.rev + 1 /\ n.srev = m.srev /\ n.sstatus = m.sstatus
          /\ job[c].op = op
          /\ IF job[c].op = "edit" THEN n.status = "draft" /\ n.frozen = m.frozen
             ELSE /\ n.status = m.status /\ n.frozen = n.rev /\ n.foreign = m.foreign
                  /\ Canonical(m) => m.foreign
      BY <2>3 DEF Revises
    <3>2. n.rev # 0 /\ (Canonical(n) <=> Canonical(m))
      BY <1>3, <3>1 DEF Canonical
    <3>3. m.frozen = 0 /\ Open(m)
      BY <1>4, <2>0
    <3>4. Canonical(n) => n.status = "draft" /\ n.sstatus = "draft" /\ n.srev # 0 /\ m.srev <= m.rev
      BY <1>4, <2>0, <2>3, <3>1, <3>2, <3>3 DEF Open
    <3>5. Canonical(n) => n.srev <= n.rev
      BY <1>2, <1>3, <3>1, <3>4, MetaTypes
    <3>6. Canonical(n) => n.frozen = 0 \/ (n.foreign /\ n.frozen = n.rev)
      BY <2>3, <3>1, <3>2, <3>3
    <3> QED
      BY <2>3, <3>1, <3>2, <3>3, <3>4, <3>5, <3>6 DEF Drafted
  <2> QED
    BY <1>3, <2>1, <2>2, <2>3
<1>8. LaunchInv'
  BY <1>1, <1>2 DEF SeparateInv, LaunchInv, Launched, Canonical, Committed
<1>9. NoLostUpdate'
  <2>1. op \in {"update", "edit"} => job'[c].saw = job[c].saw
    BY DEF Revises
  <2> QED
    BY <1>1, <1>2, <1>4, <2>1 DEF SeparateInv, NoLostUpdate
<1>10. FreezeInv'
  <2> SUFFICES ASSUME Canonical(n)
               PROVE  /\ n.foreign => n.status = "draft"
                      /\ Genuine(n) => op = "freeze"
    BY <1>1, <1>2 DEF SeparateInv, FreezeInv, Frozen, Genuine, Canonical
  <2>1. Canonical(m) /\ (m.foreign => m.status = "draft")
    BY <1>1, <1>3 DEF SeparateInv, FreezeInv, Canonical
  <2>2. CASE op \in {"update", "freeze"}
    BY <2>2 DEF Revises, Genuine
  <2>3. CASE op \in {"edit", "lock_in"}
    BY <2>1, <2>3 DEF Revises, Genuine
  <2> QED
    BY <1>3, <2>2, <2>3
<1>11. FrozenStep
  BY <1>2, <1>4 DEF FrozenStep, Unchanging, SpecPart, Committed
<1> QED
  BY <1>5, <1>6, <1>7, <1>8, <1>9, <1>10, <1>11 DEF SeparateInv

LEMMA EndsApart ==
    ASSUME AllInv, NEW c \in Callers, Return(c),
           UNCHANGED <<meta, specmd, frozen, launches, overtaken>>
    PROVE  SeparateInv' /\ FrozenStep
<1>1. Typed /\ TypeOK /\ SeparateInv
  BY DEF AllInv, ContractInv, Typed
<1>2. /\ pc'[c] = "idle"
      /\ \A d \in Callers : d # c => pc'[d] = pc[d] /\ job'[d] = job[d]
      /\ UNCHANGED <<meta, specmd, frozen, launches, overtaken>>
  BY <1>1 DEF Return, TypeOK
<1>3. CanonicalInv' /\ LaunchInv'
  BY <1>1, <1>2 DEF SeparateInv, CanonicalInv, LaunchInv, Launched, Canonical, Committed
<1>4. SightInv' /\ NoLostUpdate'
  BY <1>1, <1>2 DEF SeparateInv, SightInv, NoLostUpdate, Open, Canonical
<1>5. DraftInv'
  BY <1>1, <1>2 DEF SeparateInv, DraftInv, Drafted, Open, Canonical
<1>6. FreezeInv'
  BY <1>1, <1>2 DEF SeparateInv, FreezeInv, Frozen, Genuine, Canonical
<1>7. FrozenStep
  BY <1>2 DEF FrozenStep, Unchanging, SpecPart
<1> QED
  BY <1>3, <1>4, <1>5, <1>6, <1>7 DEF SeparateInv

LEMMA CreateApart ==
    ASSUME AllInv, NEW c \in Callers, NEW t \in Tasks, NEW k \in Kinds, NEW b \in Bodies,
           NEW s \in Tasks \union {None}, Create(c, t, k, b, s)
    PROVE  SeparateInv' /\ FrozenStep
<1> DEFINE sha == [rev |-> 1, body |-> b, status |-> "draft", form |-> "json"]
           m == [contract |-> "canonical", kind |-> k, subject |-> s,
                 schema |-> 2, status |-> "draft", rev |-> 1, frozen |-> 0,
                 sha |-> sha, hash |-> None, body |-> b, srev |-> 1,
                 sstatus |-> "draft", foreign |-> FALSE, exec |-> None]
           j == [op |-> "create", task |-> t, body |-> b, saw |-> None, meta |-> m]
<1>1. Typed /\ TypeOK /\ CallInv /\ SeparateInv
  BY DEF AllInv, ContractInv, Typed
<1>2. /\ pc'[c] = "write" /\ job'[c] = j
      /\ \A d \in Callers : d # c => pc'[d] = pc[d] /\ job'[d] = job[d]
      /\ \A u \in Tasks : u # t => specmd'[u] = specmd[u]
      /\ meta[t] = None
      /\ UNCHANGED <<meta, frozen, launches, overtaken>>
  BY <1>1 DEF Create, TypeOK, history
<1>3. /\ j.op = "create" /\ j.meta = m /\ m.rev = 1 /\ m.srev = 1 /\ Canonical(m) /\ ~m.foreign
      /\ m.status = "draft" /\ m.sstatus = "draft" /\ m.frozen = 0
  BY DEF Canonical
<1> HIDE DEF j, m, sha
<1>4. CanonicalInv'
  BY <1>1, <1>2 DEF SeparateInv, CanonicalInv, Canonical
<1>5. LaunchInv'
  BY <1>1, <1>2 DEF SeparateInv, LaunchInv, Launched, Canonical, Committed
<1>6. SightInv' /\ NoLostUpdate'
  BY <1>1, <1>2, <1>3 DEF SeparateInv, SightInv, NoLostUpdate, Open, Canonical
<1>7. DraftInv'
  BY <1>1, <1>2, <1>3 DEF SeparateInv, DraftInv, Drafted, Open, Canonical
<1>8. FreezeInv'
  BY <1>1, <1>2, <1>3 DEF SeparateInv, FreezeInv, Frozen, Genuine, Canonical
<1>9. FrozenStep
  BY <1>2 DEF FrozenStep, Unchanging, SpecPart, Committed
<1> QED
  BY <1>4, <1>5, <1>6, <1>7, <1>8, <1>9 DEF SeparateInv

(* The task a call is writing is nobody else's to write.                   *)
LEMMA Alone ==
    ASSUME ContractInv, NEW c \in Callers, pc[c] = "write"
    PROVE  \A d \in Callers : d # c /\ pc[d] \in {"write", "gated"} => job[d].task # job[c].task
<1>1. CallInv /\ LockInv
  BY DEF ContractInv, Typed
<1> SUFFICES ASSUME NEW d \in Callers, d # c, pc[d] \in {"write", "gated"},
                    job[d].task = job[c].task
             PROVE  FALSE
  OBVIOUS
<1>2. CASE Creates(c)
  BY <1>1, <1>2, MetaTypes DEF LockInv, Creates, CallInv
<1>3. CASE ~Creates(c)
  BY <1>1, <1>3, MetaTypes, ContractAssumption DEF LockInv, Creates
<1> QED
  BY <1>2, <1>3
LEMMA WriteMetaApart ==
    ASSUME AllInv, NEW c \in Callers, WriteMeta(c)
    PROVE  SeparateInv' /\ FrozenStep
<1> DEFINE t == job[c].task
           m == meta[t]
           n == job[c].meta
           op == job[c].op
<1>1. Typed /\ TypeOK /\ CallInv /\ SeparateInv /\ LockInv /\ WriteInv /\ ContractInv
  BY DEF AllInv, ContractInv, Typed
<1>2. pc[c] = "write" /\ t \in Tasks /\ n \in Metas /\ op \in Writing
  BY <1>1 DEF WriteMeta, CallInv, Jobs
<1>3. /\ pc'[c] = "idle"
      /\ \A d \in Callers : d # c => pc'[d] = pc[d] /\ job'[d] = job[d]
      /\ meta'[t] = n /\ \A u \in Tasks : u # t => meta'[u] = meta[u]
      /\ frozen \subseteq frozen'
      /\ op = "freeze" => [task |-> t, content |-> n.sha] \in frozen'
      /\ UNCHANGED <<specmd, launches, overtaken>>
  BY <1>1, <1>2 DEF WriteMeta, Return, TypeOK
<1>4. /\ n.rev \in Nat /\ n.srev \in Nat /\ specmd[t] = n.sha
      /\ op = "create" => m = None
      /\ op # "create" => m \in Metas /\ m # None /\ m.rev \in Nat /\ m.contract = n.contract
  BY <1>1, <1>2, MetaTypes DEF LockInv, Creates, WriteInv, SameTask
<1>5. op \in {"create", "update", "freeze", "edit", "lock_in"}
  BY <1>2 DEF Writing
<1>6. \A d \in Callers : d # c /\ pc[d] \in {"write", "gated"} => job[d].task # t
  BY <1>1, <1>2, Alone
<1>7. \A d \in Callers : pc[d] # "idle" => job[d].task \in Tasks
  BY <1>1 DEF CallInv, Jobs
<1>8. t \notin overtaken => Drafted(m, n, op)
  BY <1>1, <1>2 DEF SeparateInv, DraftInv
<1>9. n # None
  BY <1>2, MetaTypes
<1>10. t \notin overtaken => m = None \/ m.frozen = 0
  BY <1>4, <1>5, <1>8 DEF Drafted
<1>11. FreezeInv'
  <2>1. Canonical(n) => (n.foreign => n.status = "draft") /\ (Genuine(n) => op = "freeze")
    BY <1>1, <1>2 DEF SeparateInv, FreezeInv
  <2>2. \A u \in Tasks : meta'[u] # None /\ Canonical(meta'[u]) =>
            /\ meta'[u].foreign => meta'[u].status = "draft"
            /\ Genuine(meta'[u]) => [task |-> u, content |-> meta'[u].sha] \in frozen'
    BY <1>1, <1>3, <2>1 DEF SeparateInv, FreezeInv, Frozen
  <2>3. \A d \in Callers : pc'[d] = "write" /\ Canonical(job'[d].meta) =>
            /\ job'[d].meta.foreign => job'[d].meta.status = "draft"
            /\ Genuine(job'[d].meta) => job'[d].op = "freeze"
    BY <1>1, <1>3 DEF SeparateInv, FreezeInv
  <2>4. ASSUME NEW d \in Callers, pc'[d] = "gated", Canonical(meta'[job'[d].task])
        PROVE  [task |-> job'[d].task, content |-> meta'[job'[d].task].sha] \in frozen'
    <3>1. d # c /\ pc[d] = "gated" /\ job'[d] = job[d]
      BY <1>3, <2>4
    <3>2. meta'[job[d].task] = meta[job[d].task]
      BY <1>3, <1>6, <1>7, <3>1
    <3> QED
      BY <1>1, <1>3, <2>4, <3>1, <3>2 DEF SeparateInv, FreezeInv, Frozen
  <2> QED
    BY <2>2, <2>3, <2>4 DEF FreezeInv, Frozen, Genuine, Canonical
<1>12. t \notin overtaken /\ ~Canonical(n) => n.rev # 0
  BY <1>8 DEF Drafted
<1>13. t \notin overtaken /\ Canonical(n) =>
          /\ n.srev # 0 /\ n.srev <= n.rev
          /\ n.status = "draft" =>
                 n.sstatus = "draft" /\ (n.frozen = 0 \/ (n.foreign /\ n.frozen = n.rev))
          /\ n.status # "draft" =>
                 /\ n.srev = n.rev /\ n.frozen = n.rev /\ ~n.foreign
                 /\ specmd[t] = n.sha
                 /\ [task |-> t, content |-> n.sha] \in frozen'
  BY <1>3, <1>4, <1>5, <1>8 DEF Drafted
<1>14. t \notin overtaken => (m = None \/ Open(m))
  BY <1>4, <1>5, <1>8 DEF Drafted
<1>15. t \notin overtaken /\ op # "create" /\ op # "freeze" => n.rev = m.rev + 1
  BY <1>5, <1>8 DEF Drafted
<1>16. op = "freeze" /\ t \notin overtaken => ~Open(n)
  BY <1>8 DEF Drafted, Open
<1> HIDE DEF m, n, t, op
<1>17. CanonicalInv'
  <2>1. \A u \in Tasks : u # t => meta'[u] = meta[u]
    BY <1>3
  <2>2. ASSUME NEW u \in Tasks, u # t, meta[u] # None, u \notin overtaken
        PROVE  IF Canonical(meta[u])
               THEN /\ meta[u].srev # 0 /\ meta[u].srev <= meta[u].rev
                    /\ meta[u].status = "draft" =>
                           /\ meta[u].sstatus = "draft"
                           /\ meta[u].frozen = 0 \/ (meta[u].foreign /\ meta[u].frozen = meta[u].rev)
                    /\ meta[u].status # "draft" =>
                           /\ meta[u].srev = meta[u].rev /\ meta[u].frozen = meta[u].rev
                           /\ ~meta[u].foreign
                           /\ specmd[u] = meta[u].sha
                           /\ [task |-> u, content |-> meta[u].sha] \in frozen'
               ELSE meta[u].rev # 0
    BY <1>1, <1>3, <2>2 DEF SeparateInv, CanonicalInv
  <2> QED
    BY <1>2, <1>3, <1>12, <1>13, <2>1, <2>2 DEF CanonicalInv, Canonical
<1>18. SightInv'
  <2> SUFFICES ASSUME NEW d \in Callers, pc'[d] \in {"called", "checked"},
                      job'[d].task \notin overtaken, Open(meta'[job'[d].task])
               PROVE  LET u == job'[d].task
                      IN /\ job'[d].saw.rev <= meta'[u].rev
                         /\ job'[d].saw.rev = meta'[u].rev =>
                                /\ job'[d].saw.body = meta'[u].body
                                /\ job'[d].op \in {"edit", "lock_in"} => meta'[u].frozen = 0
    BY <1>3 DEF SightInv, Open, Canonical
  <2>1. d # c /\ pc[d] = pc'[d] /\ job'[d] = job[d]
    BY <1>3
  <2>2. job[d].task \in Tasks /\ meta[job[d].task] \in Metas /\ job[d].saw \in Sights
    BY <1>1, <1>7, <2>1 DEF CallInv
  <2>3. job[d].saw.rev \in Nat
    BY <2>2, ContractAssumption DEF Sights, Revs
  <2>4. LET u == job[d].task
        IN Open(meta[u]) =>
           /\ job[d].saw.rev <= meta[u].rev
           /\ job[d].saw.rev = meta[u].rev =>
                  /\ job[d].saw.body = meta[u].body
                  /\ job[d].op \in {"edit", "lock_in"} => meta[u].frozen = 0
    BY <1>1, <2>1 DEF SeparateInv, SightInv
  <2>5. CASE job[d].task # t
    BY <1>3, <2>1, <2>2, <2>4, <2>5
  <2>6. CASE job[d].task = t
    <3>1. op # "create" /\ m # None
      BY <1>4, <2>2, <2>6, MetaTypes DEF m
    <3>2. op # "freeze" /\ Open(m)
      BY <1>3, <1>14, <1>16, <2>1, <2>6, <3>1
    <3>3. n.rev = m.rev + 1
      BY <1>15, <2>1, <2>6, <3>1, <3>2
    <3>4. job[d].saw.rev <= m.rev
      BY <2>4, <2>6, <3>2 DEF m
    <3>5. job[d].saw.rev < n.rev
      BY <1>4, <2>3, <3>1, <3>3, <3>4
    <3> QED
      BY <1>3, <1>4, <2>1, <2>3, <2>6, <3>5
  <2> QED
    BY <2>5, <2>6
<1>19. \A d \in Callers : pc'[d] = "write" =>
           /\ pc[d] = "write" /\ job'[d] = job[d]
           /\ meta'[job[d].task] = meta[job[d].task]
  BY <1>3, <1>6, <1>7
<1>20. DraftInv'
  BY <1>1, <1>3, <1>19 DEF SeparateInv, DraftInv, Drafted, Open, Canonical
<1>21. NoLostUpdate'
  BY <1>1, <1>3, <1>19 DEF SeparateInv, NoLostUpdate
<1>22. LaunchInv'
  <2> SUFFICES ASSUME NEW l \in launches PROVE Launched(l)'
    BY <1>3 DEF LaunchInv
  <2>1. l.task \in Tasks /\ Launched(l)
    BY <1>1 DEF TypeOK, SeparateInv, LaunchInv
  <2>2. CASE l.task = t
    <3>1. m # None /\ n.contract = m.contract /\ n.subject = m.subject
      BY <1>1, <1>2, <1>4, <1>5, <2>1, <2>2 DEF Launched, WriteInv, SameTask, m, n, t, op
    <3>2. t \in overtaken
      <4> SUFFICES ASSUME t \notin overtaken PROVE FALSE
        OBVIOUS
      <4>1. meta[t].status # "draft" /\ Canonical(meta[t])
        BY <2>1, <2>2 DEF Launched
      <4> QED
        BY <1>14, <3>1, <4>1 DEF m, Open
    <3>3. meta[t] = m /\ meta'[t] = n /\ n # None /\ Canonical(n)
      BY <1>3, <1>9, <2>1, <2>2, <3>1 DEF m, Launched, Canonical
    <3>4. ASSUME l.subject # None, Committed(l.subject), m.subject \notin overtaken
          PROVE  meta'[m.subject] = l.subject
      BY <1>3, <2>1, <2>2, <3>2, <3>3, <3>4 DEF Launched
    <3> QED
      BY <1>3, <2>1, <2>2, <3>1, <3>2, <3>3, <3>4 DEF Launched, Committed, Canonical
  <2>3. CASE l.task # t
    <3>1. meta'[l.task] = meta[l.task]
      BY <1>3, <2>1, <2>3
    <3>2. ASSUME l.subject # None, Committed(l.subject), meta[l.task].subject \notin overtaken
          PROVE  meta'[meta[l.task].subject] = l.subject
      <4>1. meta[l.task].subject \in Tasks /\ meta[meta[l.task].subject] = l.subject
        BY <2>1, <3>2 DEF Launched
      <4>2. l.subject \in Metas /\ l.subject # None /\ l.subject.frozen # 0
        BY <2>1, <3>2 DEF Launched, Committed
      <4>3. meta[l.task].subject # t
        BY <1>10, <3>2, <4>1, <4>2 DEF m
      <4> QED
        BY <1>3, <4>1, <4>3
    <3> QED
      BY <1>3, <2>1, <3>1, <3>2 DEF Launched, Committed, Canonical
  <2> QED
    BY <2>2, <2>3
<1>23. FrozenStep
  BY <1>3, <1>10 DEF FrozenStep, Unchanging, SpecPart, Committed, m
<1> QED
  BY <1>11, <1>17, <1>18, <1>20, <1>21, <1>22, <1>23 DEF SeparateInv

(* The start gate and the run rail change the status, the binding and, of  *)
(* a canonical task that was frozen, the frozen revision.                  *)
LEMMA MarksApart ==
    ASSUME AllInv, NEW t \in Tasks, NEW n \in Metas, meta[t] \in Metas,
           /\ n.contract = meta[t].contract /\ n.subject = meta[t].subject
           /\ n.rev = meta[t].rev /\ n.body = meta[t].body /\ n.sha = meta[t].sha
           /\ n.hash = meta[t].hash /\ n.srev = meta[t].srev /\ n.foreign = meta[t].foreign,
           t \notin overtaken =>
               n.frozen = IF Canonical(meta[t]) THEN meta[t].rev ELSE meta[t].frozen,
           n.status \notin {"draft", "frozen"}, meta[t].status \notin Reviewable,
           Canonical(meta[t]) => meta[t].status # "draft",
           meta'[t] = n, \A u \in Tasks : u # t => meta'[u] = meta[u],
           UNCHANGED <<specmd, frozen, launches, overtaken>>,
           \A d \in Callers : pc'[d] \in {"called", "checked", "write"} =>
               pc'[d] = pc[d] /\ job'[d] = job[d],
           \A d \in Callers : pc'[d] = "gated" =>
               \/ pc[d] = "gated" /\ job'[d] = job[d]
               \/ job'[d].task = t /\ (Canonical(meta[t]) => Frozen(t)),
           \A d \in Callers : pc[d] = "write" => job[d].task # t
    PROVE  SeparateInv' /\ FrozenStep
<1> DEFINE m == meta[t]
<1>1. Typed /\ TypeOK /\ CallInv /\ SeparateInv
  BY DEF AllInv, ContractInv, Typed
<1>2. m # None /\ n # None /\ (Canonical(m) <=> Canonical(n))
  BY MetaTypes DEF Canonical
<1>3. t \notin overtaken /\ Canonical(m) => m.frozen = m.rev
  BY <1>1, <1>2 DEF SeparateInv, CanonicalInv
<1>4. t \notin overtaken => n.frozen = m.frozen
  BY <1>3
<1>5. \A d \in Callers : pc[d] # "idle" => job[d].task \in Tasks
  BY <1>1 DEF CallInv, Jobs
<1>6. CanonicalInv'
  BY <1>1, <1>2 DEF SeparateInv, CanonicalInv, Canonical
<1>7. SightInv'
  BY <1>1, <1>2, <1>4, <1>5 DEF SeparateInv, SightInv, Open, Canonical
<1>8. \A d \in Callers : pc'[d] = "write" =>
          /\ pc[d] = "write" /\ job'[d] = job[d]
          /\ meta'[job[d].task] = meta[job[d].task]
  BY <1>5
<1>9. DraftInv'
  BY <1>1, <1>8 DEF SeparateInv, DraftInv, Drafted, Open, Canonical
<1>10. NoLostUpdate'
  BY <1>1, <1>8 DEF SeparateInv, NoLostUpdate
<1>11. FreezeInv'
  <2>1. Canonical(m) => ~m.foreign
    BY <1>1, <1>2 DEF SeparateInv, FreezeInv
  <2>2. \A u \in Tasks : meta'[u] # None /\ Canonical(meta'[u]) =>
            /\ meta'[u].foreign => meta'[u].status = "draft"
            /\ Genuine(meta'[u]) => [task |-> u, content |-> meta'[u].sha] \in frozen'
    BY <1>1, <1>2, <2>1 DEF SeparateInv, FreezeInv, Frozen, Genuine
  <2>3. \A d \in Callers : pc'[d] = "write" /\ Canonical(job'[d].meta) =>
            /\ job'[d].meta.foreign => job'[d].meta.status = "draft"
            /\ Genuine(job'[d].meta) => job'[d].op = "freeze"
    BY <1>1 DEF SeparateInv, FreezeInv
  <2>4. ASSUME NEW d \in Callers, pc'[d] = "gated", Canonical(meta'[job'[d].task])
        PROVE  [task |-> job'[d].task, content |-> meta'[job'[d].task].sha] \in frozen'
    <3>1. CASE job'[d].task = t /\ (Canonical(m) => Frozen(t))
      BY <1>2, <2>4, <3>1 DEF Frozen
    <3>2. CASE pc[d] = "gated" /\ job'[d] = job[d]
      <4>1. job[d].task \in Tasks
        BY <1>5, <3>2
      <4>2. Canonical(meta[job[d].task]) /\ meta'[job[d].task].sha = meta[job[d].task].sha
        BY <1>2, <2>4, <3>2, <4>1
      <4> QED
        BY <1>1, <3>2, <4>2 DEF SeparateInv, FreezeInv, Frozen
    <3> QED
      BY <2>4, <3>1, <3>2
  <2> QED
    BY <2>2, <2>3, <2>4 DEF FreezeInv, Frozen, Genuine, Canonical
<1>12. LaunchInv'
  <2> SUFFICES ASSUME NEW l \in launches PROVE Launched(l)'
    BY DEF LaunchInv
  <2>1. l.task \in Tasks /\ Launched(l)
    BY <1>1 DEF TypeOK, SeparateInv, LaunchInv
  <2>2. /\ meta'[l.task] # None /\ Canonical(meta'[l.task])
        /\ l.task \notin overtaken => meta'[l.task].status # "draft" /\ meta'[l.task].sha = l.exec.sha
        /\ meta'[l.task].subject = meta[l.task].subject
    BY <1>2, <2>1 DEF Launched
  <2>3. ASSUME l.subject # None, Committed(l.subject), meta[l.task].subject \notin overtaken
        PROVE  meta'[meta[l.task].subject] = l.subject
    <3>1. meta[l.task].subject \in Tasks /\ meta[meta[l.task].subject] = l.subject
          /\ l.subject.status \in Reviewable
      BY <2>1, <2>3 DEF Launched
    <3>2. meta[l.task].subject # t
      BY <3>1
    <3> QED
      BY <3>1, <3>2
  <2> QED
    BY <2>1, <2>2, <2>3 DEF Launched, Committed, Canonical
<1>13. FrozenStep
  BY <1>4 DEF FrozenStep, Unchanging, SpecPart
<1> QED
  BY <1>6, <1>7, <1>9, <1>10, <1>11, <1>12, <1>13 DEF SeparateInv
LEMMA StartGateApart ==
    ASSUME AllInv, NEW c \in Callers, NEW t \in Tasks, StartGate(c, t)
    PROVE  SeparateInv' /\ FrozenStep
<1> DEFINE m == meta[t]
           e == [rev |-> m.rev, sha |-> specmd[t], hash |-> BoundHash(t)]
           n == [m EXCEPT !.status = "running",
                    !.frozen = IF Canonical(m) THEN m.rev ELSE m.frozen, !.exec = e]
<1>1. Typed /\ TypeOK /\ CallInv /\ LockInv /\ ContractInv /\ FreezeInv
  BY DEF AllInv, ContractInv, Typed, SeparateInv
<1>2. m \in Metas /\ m # None /\ lock[t] = None
  BY <1>1 DEF StartGate, TypeOK, Lock
<1>3. meta' = [meta EXCEPT ![t] = n]
  BY <1>1, <1>2 DEF StartGate, TypeOK, Metas
<1>4. /\ meta'[t] = n /\ \A u \in Tasks : u # t => meta'[u] = meta[u]
      /\ pc'[c] = "gated" /\ job'[c].task = t
      /\ \A d \in Callers : d # c => pc'[d] = pc[d] /\ job'[d] = job[d]
      /\ UNCHANGED <<specmd, frozen, launches, overtaken>>
  BY <1>1, <1>3 DEF StartGate, TypeOK, Begin, history
<1>5. /\ n.contract = m.contract /\ n.subject = m.subject /\ n.rev = m.rev /\ n.body = m.body
      /\ n.sha = m.sha /\ n.hash = m.hash /\ n.srev = m.srev /\ n.foreign = m.foreign
      /\ n.frozen = IF Canonical(m) THEN m.rev ELSE m.frozen
      /\ n.status = "running"
  BY <1>2 DEF Metas
<1>6. n \in Metas
  <2>1. CallInv'
    BY <1>1, TypedStep DEF Next, Typed
  <2>2. job'[c].task = t
    BY <1>1 DEF StartGate, Begin, TypeOK
  <2> QED
    BY <1>4, <2>1, <2>2 DEF CallInv
<1>7. m.status \notin Reviewable /\ (Canonical(m) => m.status # "draft")
  BY DEF StartGate, Bound, Reviewable
<1>8. \A d \in Callers : pc[d] = "write" => job[d].task # t
  BY <1>1, <1>2, MetaTypes, ContractAssumption DEF LockInv, Creates
<1>9. \A d \in Callers : pc'[d] \in {"called", "checked", "write"} =>
          pc'[d] = pc[d] /\ job'[d] = job[d]
  BY <1>4
<1>10. Canonical(m) => Frozen(t)
  <2> SUFFICES ASSUME Canonical(m) PROVE Frozen(t)
    OBVIOUS
  <2>1. m.status = "frozen" /\ m.hash = CanonicalHash(m)
    BY DEF StartGate, Bound
  <2>2. m.hash # None
    BY <1>2, <2>1, MetaTypes, ContractAssumption
  <2> QED
    BY <1>1, <1>2, <2>1, <2>2 DEF FreezeInv, Genuine
<1>11. \A d \in Callers : pc'[d] = "gated" =>
           \/ pc[d] = "gated" /\ job'[d] = job[d]
           \/ job'[d].task = t /\ (Canonical(m) => Frozen(t))
  BY <1>4, <1>10
<1>12. n.status \notin {"draft", "frozen"}
  BY <1>5
<1> HIDE DEF n, e
<1> QED
  BY <1>2, <1>4, <1>5, <1>6, <1>7, <1>8, <1>9, <1>11, <1>12, MarksApart

LEMMA StatusApart ==
    ASSUME AllInv, NEW t \in Tasks, meta[t] \in Metas, NEW s \in Statuses \ {"draft", "frozen"},
           meta[t].status = "running",
           meta' = [meta EXCEPT ![t] = [meta[t] EXCEPT !.status = s]],
           \/ lock[t] = None /\ UNCHANGED <<pc, job, lock>>
           \/ \E c \in Callers : pc[c] = "gated" /\ job[c].task = t /\ Return(c),
           UNCHANGED <<specmd, approval, history>>
    PROVE  SeparateInv' /\ FrozenStep
<1> DEFINE m == meta[t]
           n == [m EXCEPT !.status = s]
<1>1. Typed /\ TypeOK /\ CallInv /\ LockInv /\ SeparateInv
  BY DEF AllInv, ContractInv, Typed
<1>2. meta'[t] = n /\ \A u \in Tasks : u # t => meta'[u] = meta[u]
  BY <1>1 DEF TypeOK
<1>3. n \in Metas /\ m # None
  BY MetaTypes DEF Metas
<1>4. /\ n.contract = m.contract /\ n.subject = m.subject /\ n.rev = m.rev /\ n.body = m.body
      /\ n.sha = m.sha /\ n.hash = m.hash /\ n.srev = m.srev /\ n.foreign = m.foreign
      /\ n.frozen = m.frozen /\ n.status = s
  BY DEF Metas
<1>5. t \notin overtaken => n.frozen = IF Canonical(m) THEN m.rev ELSE m.frozen
  BY <1>1, <1>3, <1>4 DEF SeparateInv, CanonicalInv
<1>6. m.status \notin Reviewable /\ m.status # "draft" /\ n.status \notin {"draft", "frozen"}
  BY <1>4 DEF Reviewable
<1>7. /\ \A d \in Callers : pc'[d] \in {"called", "checked", "write"} =>
             pc'[d] = pc[d] /\ job'[d] = job[d]
      /\ \A d \in Callers : pc'[d] = "gated" => pc[d] = "gated" /\ job'[d] = job[d]
      /\ \A d \in Callers : pc[d] = "write" => job[d].task # t
  <2>1. CASE lock[t] = None /\ UNCHANGED <<pc, job, lock>>
    BY <1>1, <1>3, <2>1, ContractAssumption DEF LockInv, Creates
  <2>2. ASSUME NEW c \in Callers, pc[c] = "gated", job[c].task = t, Return(c)
        PROVE  \A d \in Callers : pc'[d] \in {"called", "checked", "write", "gated"} =>
                   pc'[d] = pc[d] /\ job'[d] = job[d]
    <3>1. pc'[c] = "idle" /\ \A d \in Callers : d # c => pc'[d] = pc[d] /\ job'[d] = job[d]
      BY <1>1, <2>2 DEF Return, TypeOK
    <3> QED
      BY <3>1
  <2>3. ASSUME NEW c \in Callers, pc[c] = "gated", job[c].task = t, Return(c)
        PROVE  \A d \in Callers : pc[d] = "write" => job[d].task # t
    BY <1>1, <1>3, <2>3 DEF LockInv, Creates
  <2> QED
    BY <2>1, <2>2, <2>3
<1> HIDE DEF n
<1> QED
  BY <1>2, <1>3, <1>4, <1>5, <1>6, <1>7, MarksApart DEF history

LEMMA StartLaunchApart ==
    ASSUME AllInv, NEW c \in Callers, StartLaunch(c)
    PROVE  SeparateInv' /\ FrozenStep
<1> DEFINE t == job[c].task
           m == meta[t]
           l == [task |-> t, kind |-> m.kind, exec |-> m.exec,
                 subject |-> IF m.kind = "review" THEN meta[m.subject] ELSE None]
<1>1. Typed /\ TypeOK /\ CallInv /\ SeparateInv /\ SubjectInv /\ GatedInv
  BY DEF AllInv, ContractInv, Typed
<1>2. /\ pc'[c] = "idle"
      /\ \A d \in Callers : d # c => pc'[d] = pc[d] /\ job'[d] = job[d]
      /\ UNCHANGED <<meta, specmd, frozen, overtaken>>
      /\ launches' = launches \union {l}
      /\ pc[c] = "gated" /\ Canonical(m)
  BY <1>1 DEF StartLaunch, Return, TypeOK, files
<1>3. t \in Tasks /\ m \in Metas /\ m # None
  BY <1>1, <1>2, MetaTypes DEF CallInv, Jobs
<1>4. /\ m.status = "running" /\ m.exec.sha = m.sha
      /\ [task |-> t, content |-> m.exec.sha] \in frozen
  BY <1>1, <1>2 DEF GatedInv, SeparateInv, FreezeInv, Frozen
<1>5. m.kind = "review" =>
          /\ m.subject \in Tasks /\ meta[m.subject] \in Metas
          /\ meta[m.subject].status \in Reviewable
  BY <1>1, <1>3 DEF StartLaunch, SubjectInv, TypeOK
<1>6. l.task = t /\ l.exec = m.exec
      /\ l.subject = IF m.kind = "review" THEN meta[m.subject] ELSE None
  OBVIOUS
<1> HIDE DEF l
<1>7. LaunchInv'
  <2>1. Launched(l)
    BY <1>2, <1>3, <1>4, <1>5, <1>6 DEF Launched
  <2>2. \A k \in launches' : Launched(k)
    BY <1>1, <1>2, <2>1 DEF SeparateInv, LaunchInv
  <2>3. \A k \in launches' : Launched(k)'
    BY <1>2, <2>2 DEF Launched, Canonical, Committed
  <2> QED
    BY <2>3 DEF LaunchInv
<1>8. CanonicalInv'
  BY <1>1, <1>2 DEF SeparateInv, CanonicalInv, Canonical
<1>9. SightInv' /\ NoLostUpdate'
  BY <1>1, <1>2 DEF SeparateInv, SightInv, NoLostUpdate, Open, Canonical
<1>10. DraftInv'
  BY <1>1, <1>2 DEF SeparateInv, DraftInv, Drafted, Open, Canonical
<1>11. FreezeInv'
  BY <1>1, <1>2 DEF SeparateInv, FreezeInv, Frozen, Genuine, Canonical
<1>12. FrozenStep
  BY <1>2 DEF FrozenStep, Unchanging, SpecPart
<1> QED
  BY <1>7, <1>8, <1>9, <1>10, <1>11, <1>12 DEF SeparateInv

LEMMA ApartStep == AllInv /\ [Next]_vars => SeparateInv' /\ FrozenStep
<1> SUFFICES ASSUME AllInv, [Next]_vars PROVE SeparateInv' /\ FrozenStep
  OBVIOUS
<1>0. Typed /\ TypeOK /\ CallInv /\ ContractInv /\ SeparateInv
  BY DEF AllInv, ContractInv, Typed
<1>1. ASSUME NEW c \in Callers, NEW t \in Tasks, NEW k \in Kinds, NEW b \in Bodies,
             NEW s \in Tasks \union {None}, Create(c, t, k, b, s)
      PROVE  SeparateInv' /\ FrozenStep
  BY <1>1, CreateApart
<1>2. ASSUME NEW c \in Callers, NEW t \in Tasks,
             \/ \E b \in Bodies : CallUpdate(c, t, b)
             \/ \E op \in {"edit", "lock_in"}, b \in Bodies : EditCheck(c, t, op, b)
             \/ ApproveCheck(c, t)
      PROVE  SeparateInv' /\ FrozenStep
  BY <1>0, <1>2, LooksCases, LooksApart
<1>3. ASSUME NEW c \in Callers, NEW t \in Tasks, Freeze(c, t)
      PROVE  SeparateInv' /\ FrozenStep
  BY <1>0, <1>3, FreezeCase, RevisesApart
<1>4. ASSUME NEW c \in Callers, NEW t \in Tasks, StartGate(c, t)
      PROVE  SeparateInv' /\ FrozenStep
  BY <1>4, StartGateApart
<1>5. ASSUME NEW c \in Callers, Dies(c) \/ StartDies(c) \/ Approve(c)
      PROVE  SeparateInv' /\ FrozenStep
  BY <1>5, EndsApart DEF Dies, StartDies, Approve, files, history
<1>6. ASSUME NEW c \in Callers, WriteMeta(c) PROVE SeparateInv' /\ FrozenStep
  BY <1>6, WriteMetaApart
<1>7. ASSUME NEW c \in Callers, Update(c) \/ Edit(c) \/ LockIn(c)
      PROVE  SeparateInv' /\ FrozenStep
  <2>1. pc[c] \in {"called", "checked"}
    BY <1>7 DEF Update, Edit, LockIn, At
  <2>2. job[c].task \in Tasks
    BY <1>0, <2>1 DEF CallInv, Jobs
  <2>3. PICK n \in Metas : Revises(c, job[c].task, n)
    BY <1>0, <1>7, UpdateCase, EditCase, LockInCase
  <2> QED
    BY <2>2, <2>3, RevisesApart
<1>8. ASSUME NEW c \in Callers, StartLaunch(c) PROVE SeparateInv' /\ FrozenStep
  BY <1>8, StartLaunchApart
<1>9. ASSUME NEW c \in Callers, StartFails(c) PROVE SeparateInv' /\ FrozenStep
  <2>1. job[c] \in Jobs /\ meta[job[c].task] \in Metas
    BY <1>0, <1>9 DEF CallInv, StartFails
  <2>2. meta' = [meta EXCEPT ![job[c].task] = [meta[job[c].task] EXCEPT !.status = "failed"]]
    BY <1>0, <1>9, <2>1 DEF StartFails, TypeOK
  <2>3. job[c].task \in Tasks /\ "failed" \in Statuses \ {"draft", "frozen"}
    BY <2>1 DEF Jobs, Statuses
  <2>4. pc[c] = "gated" /\ Return(c) /\ UNCHANGED <<specmd, approval, history>>
    BY <1>9 DEF StartFails
  <2>5. meta[job[c].task].status = "running"
    BY <1>0, <2>4 DEF ContractInv, GatedInv
  <2> QED
    BY <2>1, <2>2, <2>3, <2>4, <2>5, StatusApart
<1>10. ASSUME NEW t \in Tasks, Conclude(t) PROVE SeparateInv' /\ FrozenStep
  <2>1. meta[t] \in Metas /\ meta[t].status = "running"
    BY <1>0, <1>10 DEF Conclude, TypeOK
  <2>2. PICK s \in {"done", "failed", "needs_input"} :
            meta' = [meta EXCEPT ![t] = [meta[t] EXCEPT !.status = s]]
    BY <1>0, <1>10 DEF Conclude, TypeOK
  <2>3. s \in Statuses \ {"draft", "frozen"}
    BY DEF Statuses
  <2>4. lock[t] = None /\ UNCHANGED <<pc, job, lock>> /\ UNCHANGED <<specmd, approval, history>>
    BY <1>10 DEF Conclude
  <2> QED
    BY <2>1, <2>2, <2>3, <2>4, StatusApart
<1>11. CASE UNCHANGED vars
  BY <1>0, <1>11 DEF SeparateInv, CanonicalInv, SightInv, DraftInv, FreezeInv, LaunchInv,
     NoLostUpdate, FrozenStep, Unchanging, SpecPart, Drafted, Frozen, Genuine, Launched, Open,
     Canonical, Committed, vars
<1> QED
  BY <1>1, <1>2, <1>3, <1>4, <1>5, <1>6, <1>7, <1>8, <1>9, <1>10, <1>11 DEF Next

LEMMA InitApart == Init => SeparateInv
<1> SUFFICES ASSUME Init PROVE SeparateInv
  OBVIOUS
<1>1. \A t \in Tasks : meta[t] # None => ~Canonical(meta[t]) /\ meta[t].rev = 1
  BY DEF Init, Canonical
<1>2. (\A c \in Callers : pc[c] = "idle") /\ launches = {}
  BY DEF Init
<1> QED
  BY <1>1, <1>2 DEF SeparateInv, CanonicalInv, SightInv, DraftInv, FreezeInv, LaunchInv,
     NoLostUpdate

LEMMA ApartInvariance == Spec => []AllInv
<1>1. Init => AllInv
  BY InitTyped, InitFiles, InitApart DEF AllInv, ContractInv, FileInv
<1>2. AllInv /\ [Next]_vars => AllInv'
  BY TypedStep, FilesStep, ApartStep DEF AllInv, ContractInv, FileInv
<1> QED
  BY <1>1, <1>2, PTL DEF Spec

(* An update that is accepted for a revision is applied to the text its    *)
(* caller had read under it, whichever of the two paths it takes, before   *)
(* an edit overtakes the task.                                             *)
THEOREM UpdatesKept == Spec => []NoLostUpdate
<1>1. AllInv => NoLostUpdate
  BY DEF AllInv, SeparateInv
<1> QED
  BY <1>1, ApartInvariance, PTL

(* Every worker is launched with a SPEC.md that a freeze has written; it   *)
(* finds it so ever after, and the task a reviewer was launched on stays   *)
(* as the gate has seen it, unless an edit overtakes it.                   *)
THEOREM LaunchedOnFrozen == Spec => []WorkedOnAsFrozen
<1>1. AllInv => WorkedOnAsFrozen
  <2> SUFFICES ASSUME AllInv PROVE WorkedOnAsFrozen
    OBVIOUS
  <2>1. TypeOK /\ CanonicalInv /\ LaunchInv
    BY DEF AllInv, ContractInv, Typed, SeparateInv
  <2>2. LaunchedAsFrozen
    <3> SUFFICES ASSUME NEW l \in launches
                 PROVE  /\ [task |-> l.task, content |-> l.exec.sha] \in frozen
                        /\ l.task \notin overtaken => specmd[l.task] = l.exec.sha
      BY DEF LaunchedAsFrozen
    <3>1. l.task \in Tasks /\ Launched(l)
      BY <2>1 DEF TypeOK, LaunchInv
    <3> QED
      BY <2>1, <3>1 DEF CanonicalInv, Launched
  <2>3. SubjectStays
    BY <2>1 DEF LaunchInv, Launched, SubjectStays
  <2> QED
    BY <2>2, <2>3 DEF WorkedOnAsFrozen
<1> QED
  BY <1>1, ApartInvariance, PTL

(* Once a SPEC is frozen, the only step that changes it is the edit of a   *)
(* canonical task on the legacy path that looked at it before the freeze.  *)
THEOREM FrozenForGood == Spec => FrozenStays
<1>1. AllInv /\ [Next]_vars => [FrozenStep]_vars
  BY ApartStep
<1>2. FrozenStep <=>
        \A t \in Tasks : Committed(meta[t]) => Unchanging(t) \/ t \in overtaken'
  BY DEF FrozenStep
<1> QED
  BY <1>1, <1>2, ApartInvariance, PTL DEF Spec, FrozenStays
=============================================================================
