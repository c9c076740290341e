---------------------------- MODULE TftpArchive ----------------------------
(***************************************************************************)
(* The build-centric TFTP archive /var/lib/tftpboot/builds/<build_id>/ and *)
(* the CI jobs that share it: the composite action                         *)
(* .github/actions/a210-yocto-netboot-test/action.yml stages a bundle,     *)
(* prunes old builds, boots the bundle (test_yocto_netboot.py checks the   *)
(* files on the host and then has U-Boot fetch them one after the other)   *)
(* and, when the boot passes, moves the latest-yocto label.  A job with    *)
(* skip_stage boots a directory that another run has staged.               *)
(*                                                                         *)
(* A file's content is abstracted to the job that built it, or Torn while  *)
(* a copy is under way.  Whether a kernel boots is left open: a boot of    *)
(* three fetched files passes or fails.                                    *)
(***************************************************************************)
EXTENDS Naturals, FiniteSets, Sequences

CONSTANTS
  Jobs,        \* attempts of the hw-test-osu-osl job
  Ids,         \* build ids
  IdOf,        \* IdOf[j]: the build id of job j
  Skippers,    \* jobs run with skip_stage (existing_build_id)
  Promoters,   \* jobs run with update_latest_label
  Retries,     \* <<j, k>>: k is a later attempt of the run of j
  None, Torn   \* no file; a file whose copy is not complete

(* A run's number is part of its build id (yocto-zhihe-a210.yml), so only  *)
(* attempts of one run stage under the same id, and attempts follow one    *)
(* another.                                                                *)
ASSUME ArchiveAssumption ==
  /\ IdOf \in [Jobs -> Ids]
  /\ Skippers \subseteq Jobs /\ Promoters \subseteq Jobs
  /\ Retries \subseteq Jobs \X Jobs
  /\ \A j, k \in Jobs \ Skippers :
        j # k /\ IdOf[j] = IdOf[k] => <<j, k>> \in Retries \/ <<k, j>> \in Retries
  /\ None \notin Jobs \cup Ids /\ Torn \notin Jobs \cup {None}

VARIABLES
  pc,       \* where each job is
  stage,    \* stage[j]: the files of the private directory .staging-<id>-$$
  dir,      \* dir[i]: the files of builds/<i>, all None when it does not exist
  old,      \* the builds whose directory is more than 90 days old
  victims,  \* victims[j]: the directories job j's find has handed to rm -rf
  got,      \* got[j]: what the board of job j has fetched
  label     \* the build latest-yocto points to, or None

vars == <<pc, stage, dir, old, victims, got, label>>

Files   == <<"Image", "dtb", "rootfs">>   \* in the order of cp and of tftpboot
Names   == {Files[n] : n \in 1..3}
NoFiles == [f \in Names |-> None]
Absent(i) == dir[i] = NoFiles

Ended == {"done", "failed"}

TypeOK ==
  /\ pc \in [Jobs -> {"queued", "copy", "clear", "move", "find", "prune", "check",
                      "fetch", "boot", "promote"} \cup Ended]
  /\ stage \in [Jobs -> [Names -> Jobs \cup {None, Torn}]]
  /\ dir \in [Ids -> [Names -> Jobs \cup {None, Torn}]]
  /\ old \subseteq Ids
  /\ victims \in [Jobs -> SUBSET Ids]
  /\ got \in [Jobs -> [Names -> Jobs \cup {None, Torn}]]
  /\ label \in Ids \cup {None}

Init ==
  /\ pc = [j \in Jobs |-> "queued"]
  /\ stage = [j \in Jobs |-> NoFiles]
  /\ dir = [i \in Ids |-> NoFiles]
  /\ old = {}
  /\ victims = [j \in Jobs |-> {}]
  /\ got = [j \in Jobs |-> NoFiles]
  /\ label = None

Goto(j, place) == pc' = [pc EXCEPT ![j] = place]

(* The first file, in the order of Files, that the directory d still lacks *)
NextFile(d) == Files[CHOOSE n \in 1..3 : /\ d[Files[n]] \in {None, Torn}
                                      /\ \A m \in 1..(n - 1) : d[Files[m]] \notin {None, Torn}]
Complete(d) == \A f \in Names : d[f] \notin {None, Torn}

-----------------------------------------------------------------------------
(* A runner takes the job up: a later attempt only when the earlier ended, *)
(* and within the 30 days a run may be repeated.                           *)
Start(j) ==
  /\ pc[j] = "queued"
  /\ \A k \in Jobs : <<k, j>> \in Retries => pc[k] \in Ended /\ IdOf[j] \notin old
  /\ Goto(j, IF j \in Skippers THEN "check" ELSE "copy")
  /\ UNCHANGED <<stage, dir, old, victims, got, label>>

\* Mutant: the files are copied straight into builds/<id>.
CopyFile_InPlace(j) ==
  /\ pc[j] = "copy"
  /\ ~Complete(stage[j])
  /\ LET f == NextFile(stage[j])
         content == IF stage[j][f] = None THEN Torn ELSE j
     IN /\ stage' = [stage EXCEPT ![j][f] = content]
        /\ dir' = [dir EXCEPT ![IdOf[j]][f] = content]
  /\ UNCHANGED <<pc, old, victims, got, label>>

(* cp -f of one file into the staging directory: it exists before it is    *)
(* complete.                                                               *)
CopyFile(j) ==
  /\ pc[j] = "copy"
  /\ ~Complete(stage[j])
  /\ LET f == NextFile(stage[j])
     IN stage' = [stage EXCEPT ![j][f] = IF @ = None THEN Torn ELSE j]
  /\ UNCHANGED <<pc, dir, old, victims, got, label>>

Copied(j) ==
  /\ pc[j] = "copy"
  /\ Complete(stage[j])
  /\ Goto(j, "clear")
  /\ UNCHANGED <<stage, dir, old, victims, got, label>>

(* rm -rf DEST, a file at a time in the order the directory lists them.    *)
ClearFile(j) ==
  /\ pc[j] = "clear"
  /\ \E f \in Names :
        /\ dir[IdOf[j]][f] # None
        /\ dir' = [dir EXCEPT ![IdOf[j]][f] = None]
  /\ UNCHANGED <<pc, stage, old, victims, got, label>>

\* Mutant: an existing DEST is not removed before the mv.
Cleared_Skipped(j) ==
  /\ pc[j] = "clear"
  /\ Goto(j, "move")
  /\ UNCHANGED <<stage, dir, old, victims, got, label>>

Cleared(j) ==
  /\ pc[j] = "clear"
  /\ Absent(IdOf[j])
  /\ Goto(j, "move")
  /\ UNCHANGED <<stage, dir, old, victims, got, label>>

\* Mutant: the label moves as soon as the build is staged.
MoveIn_Labels(j) ==
  /\ pc[j] = "move"
  /\ LET i == IdOf[j] IN
       /\ dir' = IF Absent(i) THEN [dir EXCEPT ![i] = stage[j]] ELSE dir
       /\ old' = old \ {i}
       /\ label' = i
  /\ stage' = [stage EXCEPT ![j] = NoFiles]
  /\ Goto(j, "find")
  /\ UNCHANGED <<victims, got>>

(* mv STAGE DEST: a rename, unless DEST exists: then the staging directory *)
(* lands inside it and DEST's own files stay.                              *)
MoveIn(j) ==
  /\ pc[j] = "move"
  /\ LET i == IdOf[j] IN
       /\ dir' = IF Absent(i) THEN [dir EXCEPT ![i] = stage[j]] ELSE dir
       /\ old' = old \ {i}
  /\ stage' = [stage EXCEPT ![j] = NoFiles]
  /\ Goto(j, "find")
  /\ UNCHANGED <<victims, got, label>>

(* find ... -mtime +90 -exec rm -rf {} +: the list is made first, the      *)
(* directories on it are removed after.                                    *)
FindOld(j) ==
  /\ pc[j] = "find"
  /\ victims' = [victims EXCEPT ![j] = {i \in old : ~Absent(i)}]
  /\ Goto(j, "prune")
  /\ UNCHANGED <<stage, dir, old, got, label>>

PruneFile(j) ==
  /\ pc[j] = "prune"
  /\ \E i \in victims[j], f \in Names :
        /\ dir[i][f] # None
        /\ dir' = [dir EXCEPT ![i][f] = None]
  /\ UNCHANGED <<pc, stage, old, victims, got, label>>

Pruned(j) ==
  /\ pc[j] = "prune"
  /\ \A i \in victims[j] : Absent(i)
  /\ victims' = [victims EXCEPT ![j] = {}]
  /\ Goto(j, "check")
  /\ UNCHANGED <<stage, dir, old, got, label>>
-----------------------------------------------------------------------------
(* test_yocto_netboot.py: the three files must exist on the host.          *)
HostCheck(j) ==
  /\ pc[j] = "check"
  /\ Goto(j, IF \A f \in Names : dir[IdOf[j]][f] # None THEN "fetch" ELSE "failed")
  /\ UNCHANGED <<stage, dir, old, victims, got, label>>

(* tftpboot of the next file: the server opens it by path when asked.      *)
Fetch(j) ==
  /\ pc[j] = "fetch"
  /\ \E n \in 1..3 :
       LET f == Files[n]
           content == dir[IdOf[j]][f]
       IN /\ got[j][f] = None
          /\ \A m \in 1..(n - 1) : got[j][Files[m]] # None
          /\ IF content = None
             THEN Goto(j, "failed") /\ UNCHANGED got
             ELSE /\ got' = [got EXCEPT ![j][f] = content]
                  /\ Goto(j, IF n = 3 THEN "boot" ELSE "fetch")
  /\ UNCHANGED <<stage, dir, old, victims, label>>

BootPasses(j) ==
  /\ pc[j] = "boot"
  /\ Goto(j, IF j \in Promoters THEN "promote" ELSE "done")
  /\ UNCHANGED <<stage, dir, old, victims, got, label>>

BootFails(j) ==
  /\ pc[j] = "boot"
  /\ Goto(j, "failed")
  /\ UNCHANGED <<stage, dir, old, victims, got, label>>

\* Mutant: the label is given the run instead of the build.
PromoteLabel_Run(j) ==
  /\ pc[j] = "promote"
  /\ label' = j
  /\ Goto(j, "done")
  /\ UNCHANGED <<stage, dir, old, victims, got>>

(* ln -sfn ../builds/<build_id> labels/latest-yocto                        *)
PromoteLabel(j) ==
  /\ pc[j] = "promote"
  /\ label' = IdOf[j]
  /\ Goto(j, "done")
  /\ UNCHANGED <<stage, dir, old, victims, got>>

(* A command fails (set -e), the job is cancelled, or the runner dies: the *)
(* rest of the steps is not run, the staging directory stays.              *)
Abort(j) ==
  /\ pc[j] \notin Ended \cup {"queued"}
  /\ Goto(j, "failed")
  /\ UNCHANGED <<stage, dir, old, victims, got, label>>

(* Ninety days pass for a build no stager is about to replace.             *)
Age(i) ==
  /\ ~Absent(i)
  /\ i \notin old
  /\ \A j \in Jobs \ Skippers : IdOf[j] = i => pc[j] \in Ended \cup {"queued"}
  /\ old' = old \cup {i}
  /\ UNCHANGED <<pc, stage, dir, victims, got, label>>

Next ==
  \/ \E j \in Jobs :
       \/ Start(j) \/ CopyFile(j) \/ Copied(j) \/ ClearFile(j) \/ Cleared(j)
       \/ MoveIn(j) \/ FindOld(j) \/ PruneFile(j) \/ Pruned(j)
       \/ HostCheck(j) \/ Fetch(j) \/ BootPasses(j) \/ BootFails(j)
       \/ PromoteLabel(j) \/ Abort(j)
  \/ \E i \in Ids : Age(i)

Spec == Init /\ [][Next]_vars
-----------------------------------------------------------------------------
Passed(j) == pc[j] \in {"promote", "done"}

(* A boot that passes ran the kernel, the device tree and the rootfs of    *)
(* one and the same build, none of them half copied: neither staging nor   *)
(* pruning ever shows a board a mixture (the purpose of the private        *)
(* staging directory and the rename).                                      *)
BootsOneBuild ==
  \A j \in Jobs : Passed(j) =>
     \E k \in Jobs : \A f \in Names : got[j][f] = k

(* A job that staged a bundle and passed has tested that very bundle, also *)
(* when an earlier attempt of its run had staged another under the same    *)
(* id or was cut off while doing so.                                       *)
BootsOwnBuild ==
  \A j \in Jobs \ Skippers : Passed(j) => \A f \in Names : got[j][f] = j

(* latest-yocto leads to a bundle that booted: what is still there under   *)
(* the label is what some passing job fetched, unless a run whose attempt  *)
(* passed has been repeated since.                                         *)
Repeated(i) ==
  \E jk \in Retries : IdOf[jk[2]] = i /\ pc[jk[1]] = "done" /\ pc[jk[2]] # "queued"

LabelIsVerified ==
  label # None /\ ~Repeated(label) =>
    \E j \in Jobs :
       /\ pc[j] = "done" /\ IdOf[j] = label
       /\ \A f \in Names : dir[label][f] \in {None, got[j][f]}
=============================================================================
