------------------------- MODULE TftpArchive_proofs -------------------------
(* Proofs about TftpArchive for any jobs, builds, retries and promoters.   *)
EXTENDS TftpArchive, TLAPS

Content == Jobs \cup {None, Torn}

-----------------------------------------------------------------------------
(* The three files                                                         *)

\* The files of a bundle are those at the three places of the list.
LEMMA Files3 == /\ \A n \in 1..3 : Files[n] \in Names
                /\ \A f \in Names : f = Files[1] \/ f = Files[2] \/ f = Files[3]
<1>1. \A n \in 1..3 : n = 1 \/ n = 2 \/ n = 3
  OBVIOUS
<1>2. QED
  BY <1>1 DEF Names

\* The fetch of the n-th file.
FetchOf(j, n) ==
  /\ pc[j] = "fetch"
  /\ got[j][Files[n]] = None
  /\ \A m \in 1..(n - 1) : got[j][Files[m]] # None
  /\ IF dir[IdOf[j]][Files[n]] = None
     THEN Goto(j, "failed") /\ UNCHANGED got
     ELSE /\ got' = [got EXCEPT ![j][Files[n]] = dir[IdOf[j]][Files[n]]]
          /\ Goto(j, IF n = 3 THEN "boot" ELSE "fetch")
  /\ UNCHANGED <<stage, dir, old, victims, label>>

\* Fetching is fetching one of the three.
LEMMA FetchSplit == \A j : Fetch(j) => \E n \in 1..3 : FetchOf(j, n)
BY Zenon DEF Fetch, FetchOf

-----------------------------------------------------------------------------
(* Types                                                                   *)

\* Every step keeps directories and jobs typed.
LEMMA TypeStep == TypeOK /\ [Next]_vars => TypeOK'
<1> SUFFICES ASSUME TypeOK, [Next]_vars PROVE TypeOK'
  OBVIOUS
<1> USE ArchiveAssumption DEF TypeOK, Goto, NoFiles, Ended
<1>1. ASSUME NEW j \in Jobs, Start(j) PROVE TypeOK'
  BY <1>1 DEF Start
<1>2. ASSUME NEW j \in Jobs, CopyFile(j) PROVE TypeOK'
  BY <1>2 DEF CopyFile
<1>3. ASSUME NEW j \in Jobs, Copied(j) \/ Cleared(j) PROVE TypeOK'
  BY <1>3 DEF Copied, Cleared
<1>4. ASSUME NEW j \in Jobs, ClearFile(j) PROVE TypeOK'
  BY <1>4 DEF ClearFile
<1>5. ASSUME NEW j \in Jobs, MoveIn(j) PROVE TypeOK'
  BY <1>5 DEF MoveIn
<1>6. ASSUME NEW j \in Jobs, FindOld(j) PROVE TypeOK'
  BY <1>6 DEF FindOld
<1>7. ASSUME NEW j \in Jobs, PruneFile(j) PROVE TypeOK'
  BY <1>7 DEF PruneFile
<1>8. ASSUME NEW j \in Jobs, Pruned(j) PROVE TypeOK'
  BY <1>8 DEF Pruned
<1>9. ASSUME NEW j \in Jobs, HostCheck(j) PROVE TypeOK'
  BY <1>9 DEF HostCheck
<1>10. ASSUME NEW j \in Jobs, Fetch(j) PROVE TypeOK'
  <2>1. PICK n \in 1..3 : FetchOf(j, n)
    BY <1>10, FetchSplit
  <2>2. dir[IdOf[j]][Files[n]] \in Content /\ Files[n] \in Names
    BY Files3 DEF Content
  <2>3. got' \in [Jobs -> [Names -> Content]]
    <3>1. CASE UNCHANGED got
      BY <3>1 DEF Content
    <3>2. CASE got' = [got EXCEPT ![j][Files[n]] = dir[IdOf[j]][Files[n]]]
      BY <2>2, <3>2 DEF Content
    <3>3. QED
      BY <2>1, <3>1, <3>2 DEF FetchOf
  <2>4. pc' = [pc EXCEPT ![j] = "failed"] \/ pc' = [pc EXCEPT ![j] = "boot"] \/ pc' = [pc EXCEPT ![j] = "fetch"]
    BY <2>1 DEF FetchOf
  <2>5. QED
    BY <2>1, <2>3, <2>4 DEF FetchOf, Content
<1>11. ASSUME NEW j \in Jobs, BootPasses(j) \/ BootFails(j) \/ PromoteLabel(j) \/ Abort(j) PROVE TypeOK'
  BY <1>11 DEF BootPasses, BootFails, PromoteLabel, Abort
<1>12. ASSUME NEW i \in Ids, Age(i) PROVE TypeOK'
  BY <1>12 DEF Age
<1>13. CASE UNCHANGED vars
  BY <1>13 DEF vars
<1>14. QED
  BY <1>1, <1>2, <1>3, <1>4, <1>5, <1>6, <1>7, <1>8, <1>9, <1>10, <1>11, <1>12, <1>13 DEF Next

\* Jobs and directories are always well typed.
THEOREM TypeCorrect == Spec => []TypeOK
<1>1. Init => TypeOK
  BY DEF Init, TypeOK, NoFiles
<1>2. QED
  BY <1>1, TypeStep, PTL DEF Spec

-----------------------------------------------------------------------------
(* Attempts of one run follow one another                                  *)

Staging == {"copy", "clear", "move", "find", "prune"}

\* Only jobs that stage are in the staging steps; an attempt is taken up after
\* the earlier ones have ended.
Order ==
  /\ \A j \in Jobs : pc[j] \in Staging => j \notin Skippers
  /\ \A j, k \in Jobs : <<j, k>> \in Retries /\ pc[k] # "queued" => pc[j] \in Ended

\* What it is for: no two attempts under one build id are under way together.
LEMMA OneAttempt ==
    ASSUME Order, NEW j \in Jobs \ Skippers, NEW k \in Jobs \ Skippers,
           IdOf[j] = IdOf[k], pc[j] \notin Ended \cup {"queued"}, pc[k] \notin Ended \cup {"queued"}
    PROVE  j = k
BY ArchiveAssumption DEF Order, Ended

-----------------------------------------------------------------------------
(* Whose files are where                                                   *)

\* The staging directory holds the job's own files, whole before the rename;
\* DEST is gone when the rename comes.
StageInv(j) ==
  /\ \A f \in Names : stage[j][f] \in {None, Torn, j}
  /\ pc[j] \in {"clear", "move"} => \A f \in Names : stage[j][f] = j
  /\ pc[j] = "move" => \A f \in Names : dir[IdOf[j]][f] = None

\* From the rename to its end DEST holds the files of the job
\* that staged it, as far as pruning has left them; so does its board.
OwnInv(j) ==
  /\ pc[j] \in {"find", "prune", "check", "fetch", "boot", "promote"} =>
       \A f \in Names : dir[IdOf[j]][f] \in {None, j}
  /\ \A f \in Names : got[j][f] \in {None, j}

\* A board that boots has fetched all the files.
FetchedInv(j) ==
  pc[j] \in {"boot", "promote", "done"} => \A f \in Names : got[j][f] # None

OwnBuildInv ==
  /\ TypeOK /\ Order
  /\ \A j \in Jobs : StageInv(j) /\ FetchedInv(j)
  /\ \A j \in Jobs \ Skippers : OwnInv(j)

\* Every step keeps the files of a job and of its board the job's own.
LEMMA OwnBuildStep == OwnBuildInv /\ [Next]_vars => OwnBuildInv'
<1> SUFFICES ASSUME OwnBuildInv, [Next]_vars PROVE OwnBuildInv'
  OBVIOUS
<1>0. TypeOK'
  BY TypeStep DEF OwnBuildInv
<1> USE DEF OwnBuildInv, Order, StageInv, OwnInv, FetchedInv, Staging, Goto, Ended, NoFiles
<1>1. ASSUME NEW j \in Jobs, Start(j) PROVE OwnBuildInv'
  BY <1>0, <1>1, ArchiveAssumption DEF Start, TypeOK
<1>2. ASSUME NEW j \in Jobs, CopyFile(j) PROVE OwnBuildInv'
  BY <1>0, <1>2 DEF CopyFile, TypeOK
<1>3. ASSUME NEW j \in Jobs, Copied(j) PROVE OwnBuildInv'
  BY <1>0, <1>3 DEF Copied, Complete, TypeOK
<1>4. ASSUME NEW j \in Jobs, Cleared(j) PROVE OwnBuildInv'
  BY <1>0, <1>4 DEF Cleared, Absent, TypeOK
<1>5. ASSUME NEW j \in Jobs, ClearFile(j) PROVE OwnBuildInv'
  BY <1>0, <1>5, ArchiveAssumption DEF ClearFile, TypeOK
<1>6. ASSUME NEW j \in Jobs, MoveIn(j) PROVE OwnBuildInv'
  <2>1. pc[j] = "move" /\ j \notin Skippers /\ IdOf[j] \in Ids
    BY <1>6, ArchiveAssumption DEF MoveIn
  <2>2. Absent(IdOf[j])
    BY <2>1 DEF Absent, TypeOK
  <2>3. dir' = [dir EXCEPT ![IdOf[j]] = stage[j]]
    BY <1>6, <2>2 DEF MoveIn
  <2>4. stage' = [stage EXCEPT ![j] = NoFiles] /\ pc' = [pc EXCEPT ![j] = "find"] /\ UNCHANGED got
    BY <1>6 DEF MoveIn
  <2>5. \A k \in Jobs \ Skippers :
          k # j /\ pc[k] \notin Ended \cup {"queued"} => IdOf[k] # IdOf[j]
    BY <2>1, OneAttempt DEF OwnBuildInv, Ended
  <2>6. Order'
    BY <2>1, <2>4 DEF TypeOK
  <2>7. ASSUME NEW k \in Jobs PROVE StageInv(k)' /\ FetchedInv(k)'
    <3>1. CASE k = j
      BY <2>1, <2>4, <3>1 DEF TypeOK
    <3>2. CASE k # j
      <4>1. pc[k] = "move" => dir'[IdOf[k]] = dir[IdOf[k]]
        BY <2>3, <2>5, <3>2, ArchiveAssumption DEF TypeOK
      <4>2. QED
        BY <2>4, <3>2, <4>1 DEF TypeOK
    <3>3. QED
      BY <3>1, <3>2
  <2>8. ASSUME NEW k \in Jobs \ Skippers PROVE OwnInv(k)'
    <3>1. CASE k = j
      BY <2>1, <2>3, <2>4, <3>1 DEF TypeOK
    <3>2. CASE k # j
      <4>1. pc[k] \in {"find", "prune", "check", "fetch", "boot", "promote"} => dir'[IdOf[k]] = dir[IdOf[k]]
        BY <2>3, <2>5, <3>2, ArchiveAssumption DEF TypeOK
      <4>2. QED
        BY <2>4, <3>2, <4>1 DEF TypeOK
    <3>3. QED
      BY <3>1, <3>2
  <2>9. QED
    BY <1>0, <2>6, <2>7, <2>8
<1>7. ASSUME NEW j \in Jobs, FindOld(j) \/ Pruned(j) PROVE OwnBuildInv'
  <2>1. CASE FindOld(j)
    BY <1>0, <2>1 DEF FindOld, TypeOK
  <2>2. CASE Pruned(j)
    BY <1>0, <2>2 DEF Pruned, TypeOK
  <2>3. QED
    BY <1>7, <2>1, <2>2
<1>8. ASSUME NEW j \in Jobs, PruneFile(j) PROVE OwnBuildInv'
  BY <1>0, <1>8, ArchiveAssumption DEF PruneFile, TypeOK
<1>9. ASSUME NEW j \in Jobs, HostCheck(j) PROVE OwnBuildInv'
  BY <1>0, <1>9 DEF HostCheck, TypeOK
<1>10. ASSUME NEW j \in Jobs, Fetch(j) PROVE OwnBuildInv'
  <2>1. PICK n \in 1..3 : FetchOf(j, n)
    BY <1>10, FetchSplit
  <2>2. UNCHANGED <<stage, dir>> /\ IdOf[j] \in Ids /\ Files[n] \in Names
    BY <2>1, Files3, ArchiveAssumption DEF FetchOf
  <2>3. CASE dir[IdOf[j]][Files[n]] = None
    <3>1. pc' = [pc EXCEPT ![j] = "failed"] /\ UNCHANGED got
      BY <2>1, <2>3 DEF FetchOf
    <3>2. QED
      BY <1>0, <2>1, <2>2, <3>1 DEF FetchOf, TypeOK
  <2>4. CASE dir[IdOf[j]][Files[n]] # None
    <3>1. /\ got' = [got EXCEPT ![j][Files[n]] = dir[IdOf[j]][Files[n]]]
          /\ pc' = [pc EXCEPT ![j] = IF n = 3 THEN "boot" ELSE "fetch"]
      BY <2>1, <2>4 DEF FetchOf
    <3>2. Order' /\ \A k \in Jobs : StageInv(k)'
      BY <2>1, <2>2, <3>1 DEF FetchOf, TypeOK
    <3>3. ASSUME NEW k \in Jobs \ Skippers PROVE OwnInv(k)'
      BY <2>1, <2>2, <3>1 DEF FetchOf, TypeOK
    <3>4. ASSUME NEW k \in Jobs PROVE FetchedInv(k)'
      <4>1. CASE k # j
        BY <3>1, <4>1 DEF TypeOK
      <4>2. CASE k = j /\ n = 3
        <5>1. got[j][Files[1]] # None /\ got[j][Files[2]] # None
          BY <2>1, <4>2 DEF FetchOf
        <5>2. got'[j][Files[1]] # None /\ got'[j][Files[2]] # None /\ got'[j][Files[3]] # None
          BY <2>2, <2>4, <3>1, <4>2, <5>1, Files3 DEF TypeOK
        <5>3. QED
          BY <4>2, <5>2, Files3
      <4>3. CASE k = j /\ n # 3
        BY <3>1, <4>3 DEF TypeOK
      <4>4. QED
        BY <4>1, <4>2, <4>3
    <3>5. QED
      BY <1>0, <3>2, <3>3, <3>4
  <2>5. QED
    BY <2>3, <2>4
<1>11. ASSUME NEW j \in Jobs, BootPasses(j) \/ BootFails(j) \/ PromoteLabel(j) \/ Abort(j)
       PROVE  OwnBuildInv'
  <2>1. CASE BootPasses(j)
    BY <1>0, <2>1 DEF BootPasses, TypeOK
  <2>2. CASE BootFails(j) \/ Abort(j)
    <3>1. pc[j] # "queued" /\ pc' = [pc EXCEPT ![j] = "failed"] /\ UNCHANGED <<stage, dir, got>>
      BY <2>2 DEF BootFails, Abort
    <3>2. QED
      BY <1>0, <3>1 DEF TypeOK
  <2>3. CASE PromoteLabel(j)
    BY <1>0, <2>3 DEF PromoteLabel, TypeOK
  <2>4. QED
    BY <1>11, <2>1, <2>2, <2>3
<1>12. ASSUME NEW i \in Ids, Age(i) PROVE OwnBuildInv'
  BY <1>0, <1>12 DEF Age, TypeOK
<1>13. CASE UNCHANGED vars
  BY <1>0, <1>13 DEF vars
<1>14. QED
  BY <1>1, <1>2, <1>3, <1>4, <1>5, <1>6, <1>7, <1>8, <1>9, <1>10, <1>11, <1>12, <1>13 DEF Next
\* A job that staged a bundle and passed has tested that very bundle, whatever
\* other attempts, other builds, prunes and cancellations came between.
THEOREM BootsOwnBuildHolds == Spec => []BootsOwnBuild
<1>1. Init => OwnBuildInv
  BY DEF Init, OwnBuildInv, TypeOK, Order, StageInv, OwnInv, FetchedInv, Staging, NoFiles
<1>2. OwnBuildInv => BootsOwnBuild
  BY DEF OwnBuildInv, OwnInv, FetchedInv, BootsOwnBuild, Passed
<1>3. QED
  BY <1>1, <1>2, OwnBuildStep, PTL DEF Spec

-----------------------------------------------------------------------------
(* Jobs that boot what another run has staged                              *)

Stagers(i) == {j \in Jobs \ Skippers : IdOf[j] = i}

\* What is in builds/<i> was built by a job of that id, and so is what a board
\* told to boot <i> has fetched.
StagedInv ==
  /\ \A i \in Ids, f \in Names : dir[i][f] \in {None} \cup Stagers(i)
  /\ \A j \in Jobs, f \in Names : got[j][f] \in {None} \cup Stagers(IdOf[j])

\* Every step keeps it: the rename brings in complete files of the job's own.
LEMMA StagedStep == OwnBuildInv /\ StagedInv /\ [Next]_vars => StagedInv'
<1> SUFFICES ASSUME OwnBuildInv, StagedInv, [Next]_vars PROVE StagedInv'
  OBVIOUS
<1> USE DEF StagedInv
<1>0. TypeOK
  BY DEF OwnBuildInv
<1>1. ASSUME NEW j \in Jobs, ClearFile(j) \/ PruneFile(j) PROVE StagedInv'
  <2>1. UNCHANGED got /\ \E i \in Ids, f \in Names : dir' = [dir EXCEPT ![i][f] = None]
    BY <1>0, <1>1, ArchiveAssumption DEF ClearFile, PruneFile, TypeOK
  <2>2. QED
    BY <1>0, <2>1 DEF TypeOK
<1>2. ASSUME NEW j \in Jobs, MoveIn(j) PROVE StagedInv'
  <2>1. UNCHANGED got /\ IdOf[j] \in Ids /\ j \in Stagers(IdOf[j])
    BY <1>2, ArchiveAssumption DEF MoveIn, OwnBuildInv, Order, Staging, Stagers
  <2>2. \A f \in Names : stage[j][f] = j
    BY <1>2 DEF MoveIn, OwnBuildInv, StageInv
  <2>3. dir' = [dir EXCEPT ![IdOf[j]] = stage[j]] \/ dir' = dir
    BY <1>2 DEF MoveIn
  <2>4. QED
    BY <1>0, <2>1, <2>2, <2>3 DEF TypeOK
<1>3. ASSUME NEW j \in Jobs, Fetch(j) PROVE StagedInv'
  <2>1. PICK n \in 1..3 : FetchOf(j, n)
    BY <1>3, FetchSplit
  <2>2. UNCHANGED dir /\ IdOf[j] \in Ids /\ Files[n] \in Names
    BY <2>1, Files3, ArchiveAssumption DEF FetchOf
  <2>3. got' = got \/ got' = [got EXCEPT ![j][Files[n]] = dir[IdOf[j]][Files[n]]]
    BY <2>1 DEF FetchOf
  <2>4. \A k \in Jobs, f \in Names : got'[k][f] \in {None} \cup Stagers(IdOf[k])
    <3>1. dir[IdOf[j]][Files[n]] \in {None} \cup Stagers(IdOf[j])
      BY <2>2
    <3>2. got \in [Jobs -> [Names -> Jobs \cup {None, Torn}]]
      BY <1>0 DEF TypeOK
    <3>3. QED
      BY <2>2, <2>3, <3>1, <3>2
  <2>5. QED
    BY <2>2, <2>4 DEF Stagers
<1>4. ASSUME UNCHANGED <<dir, got>> PROVE StagedInv'
  BY <1>4
<1>5. QED
  BY <1>1, <1>2, <1>3, <1>4
     DEF Next, vars, Start, CopyFile, Copied, Cleared, FindOld, Pruned, HostCheck,
         BootPasses, BootFails, PromoteLabel, Abort, Age

\* When the run whose bundle a skip_stage job boots has staged it once, no boot
\* that passes, of a skip_stage job or of a staging one, ran a mixture.  (With
\* the run repeated meanwhile it may: run archive_restage.)
THEOREM BootsOneBuildHolds ==
  ASSUME \A s \in Skippers : \A j, k \in Stagers(IdOf[s]) : j = k
  PROVE  Spec => []BootsOneBuild
<1>1. Init => OwnBuildInv /\ StagedInv
  BY ArchiveAssumption DEF Init, OwnBuildInv, TypeOK, Order, StageInv, OwnInv, FetchedInv,
     Staging, NoFiles, StagedInv
<1>2. OwnBuildInv /\ StagedInv => BootsOneBuild
  <2> SUFFICES ASSUME OwnBuildInv, StagedInv, NEW j \in Jobs, Passed(j)
               PROVE  \E k \in Jobs : \A f \in Names : got[j][f] = k
    BY DEF BootsOneBuild
  <2>1. \A f \in Names : got[j][f] # None
    BY DEF OwnBuildInv, FetchedInv, Passed
  <2>2. CASE j \notin Skippers
    BY <2>1, <2>2 DEF OwnBuildInv, OwnInv
  <2>3. CASE j \in Skippers
    <3>1. \A f \in Names : got[j][f] \in Stagers(IdOf[j])
      BY <2>1 DEF StagedInv
    <3>2. \A f \in Names : got[j][f] = got[j]["Image"]
      BY <2>3, <3>1, Files3 DEF Files
    <3>3. got[j]["Image"] \in Jobs
      BY <3>1, Files3 DEF Stagers, Files
    <3>4. QED
      BY <3>2, <3>3
  <2>4. QED
    BY <2>2, <2>3
<1>3. OwnBuildInv /\ StagedInv /\ [Next]_vars => (OwnBuildInv /\ StagedInv)'
  BY OwnBuildStep, StagedStep
<1>4. QED
  BY <1>1, <1>2, <1>3, PTL DEF Spec
-----------------------------------------------------------------------------
(* The label                                                               *)

\* What has been taken up stays so, and what is done stays done.
LEMMA EndsStay ==
  TypeOK /\ [Next]_vars =>
    \A k \in Jobs : /\ pc[k] # "queued" => pc'[k] # "queued"
                    /\ pc[k] = "done" => pc'[k] = "done"
<1> SUFFICES ASSUME TypeOK, [Next]_vars, NEW k \in Jobs
             PROVE  /\ pc[k] # "queued" => pc'[k] # "queued"
                    /\ pc[k] = "done" => pc'[k] = "done"
  OBVIOUS
<1> DEFINE Moves(j) == pc[j] # "done" /\ \E p : p # "queued" /\ pc' = [pc EXCEPT ![j] = p]
<1>1. ASSUME NEW j \in Jobs, Moves(j)
      PROVE  (pc[k] # "queued" => pc'[k] # "queued") /\ (pc[k] = "done" => pc'[k] = "done")
  BY <1>1 DEF TypeOK
<1>2. ASSUME NEW j \in Jobs, Fetch(j) PROVE pc' = pc \/ Moves(j)
  <2>1. PICK n \in 1..3 : FetchOf(j, n)
    BY <1>2, FetchSplit
  <2>2. QED
    BY <2>1 DEF FetchOf, Goto
<1>3. ASSUME NEW j \in Jobs, Start(j) \/ Copied(j) \/ Cleared(j) \/ MoveIn(j) \/ FindOld(j) \/ Pruned(j)
                               \/ HostCheck(j)
      PROVE  Moves(j)
  BY <1>3 DEF Start, Copied, Cleared, MoveIn, FindOld, Pruned, HostCheck, Goto
<1>4. ASSUME NEW j \in Jobs, BootPasses(j) \/ BootFails(j) \/ PromoteLabel(j) \/ Abort(j)
      PROVE  Moves(j)
  BY <1>4 DEF BootPasses, BootFails, PromoteLabel, Abort, Goto, Ended
<1> HIDE DEF Moves
<1>5. pc' = pc \/ \E j \in Jobs : Moves(j)
  BY <1>2, <1>3, <1>4 DEF Next, vars, CopyFile, ClearFile, PruneFile, Age
<1>6. QED
  BY <1>1, <1>5

\* A job j that is done accounts for the label: the directory holds its files,
\* as far as they have not been pruned, or j booted what another had staged.
Accounts(j) ==
  /\ pc[j] = "done" /\ IdOf[j] = label
  /\ j \notin Skippers => \A f \in Names : dir[label][f] \in {None, j}

LabelInv == label # None /\ ~Repeated(label) => \E j \in Jobs : Accounts(j)

\* Files vanish at any time; others take their place only when a later attempt
\* stages.
LEMMA LabelStep == OwnBuildInv /\ LabelInv /\ [Next]_vars => LabelInv'
<1> SUFFICES ASSUME OwnBuildInv, LabelInv, [Next]_vars, label' # None, ~Repeated(label)'
             PROVE  \E j \in Jobs : Accounts(j)'
  BY DEF LabelInv
<1>0. TypeOK
  BY DEF OwnBuildInv
<1>1. \A k \in Jobs : /\ pc[k] # "queued" => pc'[k] # "queued"
                      /\ pc[k] = "done" => pc'[k] = "done"
  BY <1>0, EndsStay, Zenon
<1>2. ASSUME label' = label PROVE ~Repeated(label)
  <2> SUFFICES ASSUME NEW jk \in Retries, IdOf[jk[2]] = label, pc[jk[1]] = "done", pc[jk[2]] # "queued"
               PROVE  FALSE
    BY DEF Repeated
  <2>1. jk[1] \in Jobs /\ jk[2] \in Jobs
    BY ArchiveAssumption
  <2>2. pc'[jk[1]] = "done" /\ pc'[jk[2]] # "queued"
    BY <1>1, <2>1
  <2>3. QED
    BY <1>2, <2>2 DEF Repeated
<1>3. ASSUME label' = label, \A i \in Ids, f \in Names : dir'[i][f] \in {None, dir[i][f]}
      PROVE  \E j \in Jobs : Accounts(j)'
  <2>1. label \in Ids
    BY <1>0, <1>3 DEF TypeOK
  <2>2. PICK j \in Jobs : Accounts(j)
    BY <1>2, <1>3 DEF LabelInv
  <2>3. Accounts(j)'
    BY <1>1, <1>3, <2>1, <2>2 DEF Accounts
  <2>4. QED
    BY <2>3
<1>4. ASSUME NEW k \in Jobs, MoveIn(k) PROVE \E j \in Jobs : Accounts(j)'
  <2>1. label' = label /\ pc[k] = "move" /\ pc' = [pc EXCEPT ![k] = "find"] /\ IdOf[k] \in Ids
    BY <1>4, ArchiveAssumption DEF MoveIn, Goto
  <2>2. dir' = dir \/ dir' = [dir EXCEPT ![IdOf[k]] = stage[k]]
    BY <1>4 DEF MoveIn
  <2>3. PICK j \in Jobs : Accounts(j)
    BY <1>2, <2>1 DEF LabelInv
  <2>4. CASE IdOf[k] # label \/ j \in Skippers
    BY <1>0, <1>1, <2>1, <2>2, <2>3, <2>4 DEF Accounts, TypeOK
  <2>5. CASE IdOf[k] = label /\ j \notin Skippers
    <3>1. k # j /\ k \notin Skippers /\ IdOf[j] = IdOf[k] /\ pc[j] = "done"
      BY <2>1, <2>3, <2>5 DEF Accounts, OwnBuildInv, Order, Staging
    <3>2. <<j, k>> \in Retries \/ <<k, j>> \in Retries
      BY <2>5, <3>1, ArchiveAssumption
    <3>3. <<k, j>> \notin Retries
      BY <2>1, <3>1 DEF OwnBuildInv, Order, Ended
    <3>4. Repeated(label)
      <4>1. <<j, k>> \in Retries /\ IdOf[k] = label /\ pc[k] # "queued"
        BY <2>1, <2>5, <3>2, <3>3
      <4>2. QED
        BY <3>1, <4>1 DEF Repeated
    <3>5. QED
      BY <1>2, <2>1, <3>4
  <2>6. QED
    BY <2>4, <2>5
<1>5. ASSUME NEW k \in Jobs, PromoteLabel(k) PROVE \E j \in Jobs : Accounts(j)'
  <2>1. /\ pc[k] = "promote" /\ pc' = [pc EXCEPT ![k] = "done"]
        /\ label' = IdOf[k] /\ dir' = dir
    BY <1>5 DEF PromoteLabel, Goto
  <2>2. k \notin Skippers => \A f \in Names : dir[IdOf[k]][f] \in {None, k}
    BY <2>1 DEF OwnBuildInv, OwnInv
  <2>3. pc'[k] = "done"
    BY <1>0, <2>1 DEF TypeOK
  <2>4. QED
    BY <2>1, <2>2, <2>3 DEF Accounts
<1>6. ASSUME NEW k \in Jobs, ClearFile(k) \/ PruneFile(k) PROVE \E j \in Jobs : Accounts(j)'
  <2>1. label' = label /\ \E i \in Ids, f \in Names : dir' = [dir EXCEPT ![i][f] = None]
    BY <1>0, <1>6, ArchiveAssumption DEF ClearFile, PruneFile, TypeOK
  <2>2. QED
    BY <1>0, <1>3, <2>1 DEF TypeOK
<1>7. ASSUME UNCHANGED <<dir, label>> PROVE \E j \in Jobs : Accounts(j)'
  BY <1>3, <1>7
<1>8. QED
  BY <1>4, <1>5, <1>6, <1>7
     DEF Next, vars, Start, CopyFile, Copied, Cleared, FindOld, Pruned, HostCheck, Fetch,
         BootPasses, BootFails, Abort, Age

\* Under the same assumption latest-yocto leads to files that booted, until a
\* run whose attempt passed is repeated: whatever other jobs stage, prune, fail
\* or promote.
THEOREM LabelIsVerifiedHolds ==
  ASSUME \A s \in Skippers : \A j, k \in Stagers(IdOf[s]) : j = k
  PROVE  Spec => []LabelIsVerified
<1>1. Init => OwnBuildInv /\ StagedInv /\ LabelInv
  BY ArchiveAssumption DEF Init, OwnBuildInv, TypeOK, Order, StageInv, OwnInv, FetchedInv,
     Staging, NoFiles, StagedInv, LabelInv
<1>2. OwnBuildInv /\ StagedInv /\ LabelInv => LabelIsVerified
  <2> SUFFICES ASSUME OwnBuildInv, StagedInv, LabelInv, label # None, ~Repeated(label)
               PROVE  \E j \in Jobs :
                        /\ pc[j] = "done" /\ IdOf[j] = label
                        /\ \A f \in Names : dir[label][f] \in {None, got[j][f]}
    BY DEF LabelIsVerified
  <2>1. PICK j \in Jobs : Accounts(j)
    BY DEF LabelInv
  <2>2. \A f \in Names : got[j][f] # None
    BY <2>1 DEF OwnBuildInv, FetchedInv, Accounts
  <2>3. CASE j \notin Skippers
    BY <2>1, <2>2, <2>3 DEF OwnBuildInv, OwnInv, Accounts
  <2>4. CASE j \in Skippers
    <3>1. label \in Ids /\ IdOf[j] = label
      BY <2>1 DEF OwnBuildInv, TypeOK, Accounts
    <3>2. \A f \in Names : /\ dir[label][f] \in {None} \cup Stagers(IdOf[j])
                           /\ got[j][f] \in Stagers(IdOf[j])
      BY <2>2, <3>1 DEF StagedInv
    <3>3. \A f \in Names : dir[label][f] \in {None, got[j][f]}
      BY <2>4, <3>2
    <3>4. QED
      BY <2>1, <3>3 DEF Accounts
  <2>5. QED
    BY <2>3, <2>4
<1>3. OwnBuildInv /\ StagedInv /\ LabelInv /\ [Next]_vars => (OwnBuildInv /\ StagedInv /\ LabelInv)'
  BY OwnBuildStep, StagedStep, LabelStep
<1>4. QED
  BY <1>1, <1>2, <1>3, PTL DEF Spec
=============================================================================
