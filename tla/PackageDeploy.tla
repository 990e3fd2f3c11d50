---------------------------- MODULE PackageDeploy ----------------------------
(***************************************************************************)
(* Deployment of the package to the Hermes runtime, its backups and its    *)
(* rollback (scripts/aota_forge_plan_package.py), with the gate of         *)
(* scripts/profile_runtime_assembly.py.  Nothing is locked: several        *)
(* operators may run commands, people edit both trees, a command may be    *)
(* killed anywhere.                                                        *)
(*                                                                         *)
(* One file stands for its like: "plugin", which one ordinary copy writes  *)
(* and a projection shows through a link; "skill", a file of a profile's   *)
(* skill that the sources may lack; "retired", listed in removed_files;    *)
(* "orphan", a file the evidence allows to be removed by its hash, and     *)
(* "alias", the same file under the runtime name of its profile; "doc", a  *)
(* source that is backed up and never deployed.                            *)
(***************************************************************************)
EXTENDS Naturals, Sequences

CONSTANTS Operators, Missing,
          MaxCalls,      \* bound: command lines
          MaxEvents      \* bound: those, edits, kills and changes of the link

RuntimeFiles == {"plugin", "skill", "retired", "orphan", "alias"}

SourceFiles == {"plugin", "skill", "doc"}

Approved == "old"        \* the content whose hash is in the evidence

\* Further contents: "new", "edited", and "broken", which does not parse.

VARIABLES source,    \* [SourceFiles -> content]
          runtime,   \* [RuntimeFiles -> content]
          link,      \* what SymlinkProjection!ContractHolds says of it
          backups,   \* .deploy-backups, oldest first
          command,   \* [Operators -> a command line under way or ended]
          calls,     \* command lines so far
          troubles   \* and what else happened

deployVars == <<source, runtime, link, backups, command,
                calls, troubles>>

\* A backup names the files of both trees.
Content(f) == IF f = "doc" THEN source[f] ELSE runtime[f]

Contents == [f \in RuntimeFiles \union {"doc"} |-> Content(f)]

(***************************************************************************)
(* The plan: what the manifest and the assembly declare, expanded over the *)
(* sources as they are now.  It is worked off in its order; what is left   *)
(* to do is a set of its positions.                                        *)
(***************************************************************************)
Entry(file, kind) == [file |-> file, kind |-> kind]

\* load_manifest: "own" is the copy of the plugin in a profile.
Declared ==
  <<Entry("plugin", "copy"), Entry("retired", "remove"),
    Entry("doc", "source_only"), Entry("own", "copy"),
    Entry("skill", "copy"), Entry("orphan", "remove")>>

\* build_entries: a pattern stands for the files that are there.
Expanded ==
  {i \in DOMAIN Declared :
     Declared[i].file = "skill" => source["skill"] # Missing}

\* apply_projection_plan: a copy behind a link is left to who owns the file.
Plan ==
  [i \in Expanded |->
     IF Declared[i].file = "own" THEN Entry("plugin", "projected")
     ELSE Declared[i]]

Of(plan, kinds) == {i \in DOMAIN plan : plan[i].kind \in kinds}

First(todo) == CHOOSE i \in todo : \A j \in todo : i <= j

Rest(todo) == todo \ {First(todo)}

Ready ==
  /\ \A f \in {"plugin", "doc"} : source[f] # Missing
  /\ \A f \in SourceFiles : source[f] # "broken"

\* The path that is looked at: the alias when it is there, or when the
\* orphan is not.  Absent is fine, anything but the approved content is not.
Examined == IF runtime["alias"] # Missing \/ runtime["orphan"] = Missing
            THEN "alias" ELSE "orphan"

EvidenceHoldsAny == TRUE      \* mutant: the evidence is not looked at again

EvidenceHolds == runtime[Examined] \in {Missing, Approved}

(***************************************************************************)
(* Command lines.                                                          *)
(***************************************************************************)
None == [at |-> "none", run |-> "none", plan |-> << >>, todo |-> {},
         cut |-> FALSE, backup |-> 0, result |-> "none",
         before |-> [f \in RuntimeFiles \union {"doc"} |-> Missing],
         touched |-> {}, late |-> {}]

Active(o) == command[o].at \notin {"none", "ended", "killed"}

\* What somebody else writes is noted by those it may concern.
Noted(o, f, c) ==
  [p \in Operators |->
     IF p = o THEN c
     ELSE [command[p] EXCEPT !.touched = @ \union {f},
                             !.late = @ \union {f}]]

Step(o, c) == command' = [command EXCEPT ![o] = c]

Goto(o, at, todo) ==
  [command[o] EXCEPT !.at = at, !.todo = todo]

Ended(o, result) == [command[o] EXCEPT !.at = "ended", !.result = result]

More == calls + troubles < MaxEvents

Begin(o, c) ==
  /\ ~Active(o) /\ calls < MaxCalls /\ More
  /\ calls' = calls + 1
  /\ Step(o, [c EXCEPT !.before = Contents])
  /\ UNCHANGED <<source, runtime, link, troubles>>

\* A backup in the making; a projected entry has the record of its owner.
Saving(run) ==
  [None EXCEPT !.run = run, !.at = "backup", !.plan = Plan,
               !.todo = Of(Plan, {"copy", "remove", "source_only"}),
               !.backup = Len(backups) + 1]

NewDirectory == backups' = Append(backups, [files |-> << >>, done |-> FALSE])

(***************************************************************************)
(* deploy_package: nothing is written before readiness, the link and the   *)
(* evidence have been looked at.                                           *)
(***************************************************************************)
Deploy(o) ==
  IF Ready /\ link = "valid" /\ EvidenceHolds
  THEN Begin(o, Saving("deploy")) /\ NewDirectory
  ELSE /\ Begin(o, [None EXCEPT !.run = "deploy", !.at = "ended",
                                !.result = "refused"])
       /\ UNCHANGED backups

\* The backup command saves what the plan names, ready or not.
Archive(o) == Begin(o, Saving("archive")) /\ NewDirectory

With(files, f, v) ==
  [x \in DOMAIN files \union {f} |-> IF x = f THEN v ELSE files[x]]

\* Saved under its name; what is not there is recorded as absent.
SavedIfCopied(entry) == entry.kind # "remove"   \* mutant: removals not saved

Saved(entry) == TRUE

Backup(o) ==
  LET c == command[o]
      e == c.plan[First(c.todo)]
  IN /\ c.at = "backup" /\ c.todo # {}
     /\ backups' = [backups EXCEPT ![c.backup].files =
          IF Saved(e) THEN With(@, e.file, Content(e.file)) ELSE @]
     /\ Step(o, Goto(o, "backup", Rest(c.todo)))
     /\ UNCHANGED <<source, runtime, link, calls, troubles>>

\* The manifest makes a directory a backup.
BackupWritten(o) ==
  LET c == command[o]
  IN /\ c.at = "backup" /\ c.todo = {}
     /\ backups' = [backups EXCEPT ![c.backup].done = TRUE]
     /\ Step(o, IF c.run = "archive" THEN Ended(o, "saved")
                ELSE Goto(o, "copy", Of(c.plan, {"copy"})))
     /\ UNCHANGED <<source, runtime, link, calls, troubles>>

Copy(o) ==
  LET c == command[o]
      f == c.plan[First(c.todo)].file
  IN /\ c.at = "copy" /\ c.todo # {}
     /\ IF source[f] # Missing /\ link = "valid"
        THEN /\ runtime' = [runtime EXCEPT ![f] = source[f]]
             /\ command' = Noted(o, f, Goto(o, "copy", Rest(c.todo)))
        ELSE Step(o, Goto(o, "undo", {})) /\ UNCHANGED runtime
     /\ UNCHANGED <<source, link, backups, calls, troubles>>

\* Projections are there, sources and runtime agree, and the evidence is
\* looked at once more before anything is removed.
Parity(o) ==
  LET c == command[o]
      wrong(f) == source[f] = Missing \/ runtime[f] # source[f]
      gone(f)  == Missing \in {source[f], runtime[f]}
  IN /\ c.at = "copy" /\ c.todo = {}
     /\ Step(o, IF /\ \A i \in Of(c.plan, {"copy"}) : ~wrong(c.plan[i].file)
                   /\ \A i \in Of(c.plan, {"projected"}) : ~gone(c.plan[i].file)
                   /\ link = "valid" /\ EvidenceHolds
                THEN [Goto(o, "remove", Of(c.plan, {"remove"}))
                        EXCEPT !.late = {}]
                ELSE Goto(o, "undo", {}))
     /\ UNCHANGED <<source, runtime, link, backups, calls, troubles>>

RemoveFile(o) ==
  LET c == command[o]
      f == c.plan[First(c.todo)].file
  IN /\ c.at = "remove" /\ c.todo # {}
     /\ runtime' = [runtime EXCEPT ![f] = Missing]
     /\ command' = IF runtime[f] = Missing
                   THEN [command EXCEPT ![o] = Goto(o, "remove", Rest(c.todo))]
                   ELSE Noted(o, f, Goto(o, "remove", Rest(c.todo)))
     /\ UNCHANGED <<source, link, backups, calls, troubles>>

\* skill_tree_errors: the files of the source and no others.
SkillTreeFits == runtime["skill"] = source["skill"]

\* pre_activation_errors: of a plugin behind a link only the link is looked at.
PreActivation == SkillTreeFits /\ link = "valid"

Receipt(o) ==
  LET c == command[o]
  IN /\ c.at = "remove" /\ c.todo = {}
     /\ Step(o, IF /\ \A i \in Of(c.plan, {"remove"}) :
                        runtime[c.plan[i].file] = Missing
                   /\ PreActivation
                THEN Ended(o, "deployed") ELSE Goto(o, "undo", {}))
     /\ UNCHANGED <<source, runtime, link, backups, calls, troubles>>

(***************************************************************************)
(* rollback_package, by a command of its own or by a deployment that       *)
(* failed.  It needs the manifest and refuses when the link is wrong.      *)
(***************************************************************************)
Rollback(o, k) ==
  /\ k \in DOMAIN backups
  /\ Begin(o, [None EXCEPT !.run = "rollback", !.at = "undo", !.backup = k])
  /\ UNCHANGED backups

\* Its files, in an order that does not matter.
Records(k) == DOMAIN backups[k].files

Whichever(todo) == CHOOSE f \in todo : TRUE

Undo(o) ==
  LET c == command[o]
  IN /\ c.at = "undo"
     /\ Step(o, IF ~backups[c.backup].done THEN Ended(o, "unreadable")
                ELSE IF link # "valid" THEN Ended(o, "bad_link")
                ELSE Goto(o, "restore", Records(c.backup)))
     /\ UNCHANGED <<source, runtime, link, backups, calls, troubles>>

Put(f, v) ==
  IF f = "doc"
  THEN source' = [source EXCEPT ![f] = v] /\ UNCHANGED runtime
  ELSE runtime' = [runtime EXCEPT ![f] = v] /\ UNCHANGED source

\* A file that was there is unlinked first and copied back afterwards.
RestoreUnlink(o) ==
  LET c == command[o]
      f == Whichever(c.todo)
  IN /\ c.at = "restore" /\ c.todo # {}
     /\ Content(f) # Missing /\ ~c.cut
     /\ Put(f, Missing)
     /\ command' = Noted(o, f, [c EXCEPT !.cut = TRUE])
     /\ UNCHANGED <<link, backups, calls, troubles>>

RestoreCopy(o) ==
  LET c == command[o]
      f == Whichever(c.todo)
  IN /\ c.at = "restore" /\ c.todo # {}
     /\ c.cut \/ Content(f) = Missing
     /\ Put(f, IF backups[c.backup].files[f] = Missing THEN Content(f)
               ELSE backups[c.backup].files[f])
     /\ command' = Noted(o, f, [c EXCEPT !.cut = FALSE, !.todo = @ \ {f}])
     /\ UNCHANGED <<link, backups, calls, troubles>>

Restored(o) ==
  LET c == command[o]
      saved == backups[c.backup].files
  IN /\ c.at = "restore" /\ c.todo = {}
     /\ Step(o, IF /\ \A f \in DOMAIN saved : Content(f) = saved[f]
                   /\ link = "valid"
                THEN Ended(o, "undone") ELSE Ended(o, "mismatch"))
     /\ UNCHANGED <<source, runtime, link, backups, calls, troubles>>

(***************************************************************************)
(* verify_deployment, which only reads.                                    *)
(***************************************************************************)
VerifyPasses ==
  /\ link = "valid"
  /\ \A i \in Of(Plan, {"copy"}) : runtime[Plan[i].file] = source[Plan[i].file]
  /\ \A i \in Of(Plan, {"remove"}) : runtime[Plan[i].file] = Missing

(***************************************************************************)
(* What else happens.  Bound: people do not meddle while two commands run. *)
(***************************************************************************)
OneAtMost == \A p, q \in Operators : Active(p) /\ Active(q) => p = q

Edit(f, v) ==
  /\ More /\ OneAtMost
  /\ troubles' = troubles + 1
  /\ command' = [p \in Operators |->
       [command[p] EXCEPT !.touched = @ \union {f}, !.late = @ \union {f}]]
  /\ UNCHANGED <<link, backups, calls>>

EditRuntime(f, v) ==
  /\ runtime[f] # v
  /\ runtime' = [runtime EXCEPT ![f] = v]
  /\ Edit(f, v) /\ UNCHANGED source

\* An edit of a source concerns a deployment as one of its target does.
EditSource(f, v) ==
  /\ source[f] # v
  /\ source' = [source EXCEPT ![f] = v]
  /\ Edit(f, v) /\ UNCHANGED runtime

Relink ==
  /\ More /\ OneAtMost
  /\ link' = IF link = "valid" THEN "invalid" ELSE "valid"
  /\ troubles' = troubles + 1
  /\ command' = [p \in Operators |->
       [command[p] EXCEPT !.touched = @ \union {"link"}]]
  /\ UNCHANGED <<source, runtime, backups, calls>>

Kill(o) ==
  /\ Active(o) /\ More
  /\ Step(o, [command[o] EXCEPT !.at = "killed"])
  /\ troubles' = troubles + 1
  /\ UNCHANGED <<source, runtime, link, backups, calls>>

DeployInit ==
  /\ source = [plugin |-> "new", skill |-> "new", doc |-> "new"]
  /\ runtime = [f \in RuntimeFiles |->
                  IF f \in {"skill", "alias"} THEN Missing ELSE "old"]
  /\ link = "valid"
  /\ backups = << >>
  /\ command = [o \in Operators |-> None]
  /\ calls = 0 /\ troubles = 0

\* A profile's alias and its orphan, a skill and a plugin are edited by hand.
DeployNext ==
  \/ \E o \in Operators :
       \/ Deploy(o) \/ Archive(o) \/ (\E k \in 1..MaxCalls : Rollback(o, k))
       \/ Backup(o) \/ BackupWritten(o) \/ Copy(o) \/ Parity(o)
       \/ RemoveFile(o) \/ Receipt(o)
       \/ Undo(o) \/ RestoreUnlink(o) \/ RestoreCopy(o) \/ Restored(o)
       \/ Kill(o)
  \/ \E f \in {"plugin", "skill", "orphan", "alias"} : EditRuntime(f, "edited")
  \/ EditSource("plugin", "broken") \/ EditSource("skill", Missing)
  \/ EditSource("doc", "edited")
  \/ Relink

DeploySpec == DeployInit /\ [][DeployNext]_deployVars

-----------------------------------------------------------------------------
(* A command that has ended left the trees whole, save for the files that  *)
(* others have written meanwhile: deployed and fit for verification, or as *)
(* they were before the deployment, or as they were when they were saved.  *)
(* What was refused changed nothing; a rollback fails only by what others  *)
(* did, or on a backup that is not complete.                               *)
AllOrNothing ==
  \A o \in Operators :
    LET c == command[o]
        as(was) == \A f \in DOMAIN was \ c.touched : Content(f) = was[f]
    IN c.at = "ended" =>
         CASE c.result = "deployed"   -> c.touched = {} => VerifyPasses
           [] c.result = "undone"     ->
                as(IF c.run = "deploy" THEN c.before
                   ELSE backups[c.backup].files)
           [] c.result = "mismatch"   -> c.touched # {}
           [] c.result = "unreadable" -> c.run = "rollback"
           [] c.result = "bad_link"   -> c.run = "deploy" => c.touched # {}
           [] OTHER                   -> as(c.before)

(* An orphan is removed only with the content whose hash is on record,     *)
(* unless it is written between the last look at it and the removal, or an *)
(* alias of it is there, which is then what is looked at.                  *)
RemovalApproved ==
  [][\A o \in Operators :
       /\ command[o].at = "remove" /\ command'[o].todo # command[o].todo
       /\ runtime["orphan"] # Missing /\ runtime'["orphan"] = Missing
       /\ runtime["alias"] = Missing
       /\ command[o].late \intersect {"orphan", "alias"} = {}
       => runtime["orphan"] = Approved]_deployVars
=============================================================================
