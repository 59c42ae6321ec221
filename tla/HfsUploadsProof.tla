--------------------------- MODULE HfsUploadsProof ---------------------------
(***************************************************************************)
(* Proofs about HfsUploads, for any number of requests, names and slots.   *)
(* A name a request has published, and that the owner of the directory has *)
(* not touched, belongs to that request until it takes the name back       *)
(* itself: nobody else publishes there, and a roll back, which removes by  *)
(* name, only visits such names.                                           *)
(***************************************************************************)
EXTENDS HfsUploads, FiniteSetTheorems, TLAPS

Publishing == {"commit", "copy", "link"}

\* What a request has published and not taken back.
Own(r) == {batch[r][i] : i \in 1..done[r]}

\* The answer ends a request, and its batch is fixed once it is checked.
ProgressOf(r) ==
    /\ pc[r] = "end" <=> reply[r] # "none"
    /\ pc[r] \in {"start", "mkdir"} => batch[r] = <<>>
    /\ pc[r] \in {"start", "mkdir", "open", "stage"} => done[r] = 0
    /\ pc[r] \in {"copy", "link"} => done[r] < Len(batch[r])
    /\ pc[r] \in Publishing \cup {"rollback"} => ~HasDuplicate(r)

\* The files of a request are those it has published, its roll back included
\* unless a step of it failed; they stay but for the owner's own removals.
OwnershipOf(r) ==
    /\ pc[r] \in Publishing \cup {"rollback"} =>
          \A n \in Own(r) \ touched : entry[n] = r
    /\ pc[r] \in {"start", "mkdir", "open", "stage"} \cup Publishing
          \/ (pc[r] = "rollback" /\ undone[r]) =>
             \A n \in Names : entry[n] = r => n \in Own(r)

\* What was said when a request was answered stays true.
AnsweredOf(r) ==
    /\ reply[r] = "ok" => \A n \in NamesOf(r) \ touched : entry[n] = r
    /\ reply[r] = "refused" => \A n \in Names : entry[n] # r

Progress == \A r \in Requests : ProgressOf(r)
Ownership == \A r \in Requests : OwnershipOf(r)
Answered == \A r \in Requests : AnsweredOf(r)

AtomicInv == Progress /\ Ownership /\ Answered

-----------------------------------------------------------------------------
(* The types, and the slots                                                *)

TypeInv == TypeOK /\ IsFiniteSet(holders)

LEMMA TypeInvInit == Init => TypeInv
<1> SUFFICES ASSUME Init PROVE TypeInv
  OBVIOUS
<1>1. holders = {} /\ {r \in Requests : pc[r] \notin {"start", "end"}} = {}
  BY DEF Init
<1>2. IsFiniteSet(holders) /\ Cardinality({r \in Requests : pc[r] \notin {"start", "end"}}) <= MaxMutations
  BY <1>1, FS_EmptySet, HfsAssumption
<1>3. undone \in [Requests -> BOOLEAN]
  BY Zenon DEF Init
<1> QED BY <1>1, <1>2, <1>3, HfsAssumption DEF Init, TypeInv, TypeOK, Steps

\* A removal concerns one request; what it names is gone, or is kept.
LEMMA RemoveStagedOf ==
  ASSUME TypeInv, NEW r \in Requests, NEW files \in SUBSET (1..MaxFiles), RemoveStaged(r, files)
  PROVE  /\ staged' \in [Requests -> SUBSET (1..MaxFiles)]
         /\ stagedKept' \in [Requests -> SUBSET (1..MaxFiles)]
         /\ \A q \in Requests : q # r => staged'[q] = staged[q] /\ stagedKept'[q] = stagedKept[q]
         /\ \E still \in SUBSET files :
               /\ staged'[r] = (staged[r] \ files) \cup still
               /\ stagedKept'[r] = (stagedKept[r] \ files) \cup still
<1>1. PICK still \in SUBSET files :
         /\ staged' = [staged EXCEPT ![r] = (@ \ files) \cup still]
         /\ stagedKept' = [stagedKept EXCEPT ![r] = (@ \ files) \cup still]
  BY DEF RemoveStaged
<1>2. /\ staged \in [Requests -> SUBSET (1..MaxFiles)]
      /\ stagedKept \in [Requests -> SUBSET (1..MaxFiles)]
  BY DEF TypeInv, TypeOK
<1>3. staged'[r] = (staged[r] \ files) \cup still /\ stagedKept'[r] = (stagedKept[r] \ files) \cup still
  BY <1>1, <1>2
<1>4. /\ staged' \in [Requests -> SUBSET (1..MaxFiles)]
      /\ stagedKept' \in [Requests -> SUBSET (1..MaxFiles)]
      /\ \A q \in Requests : q # r => staged'[q] = staged[q] /\ stagedKept'[q] = stagedKept[q]
  BY <1>1, <1>2
<1> QED BY <1>3, <1>4

LEMMA RemoveTempOf ==
  ASSUME TypeInv, NEW r \in Requests, NEW files \in SUBSET (1..MaxFiles), RemoveTemp(r, files)
  PROVE  /\ temp' \in [Requests -> SUBSET (1..MaxFiles)]
         /\ tempKept' \in [Requests -> SUBSET (1..MaxFiles)]
         /\ \A q \in Requests : q # r => temp'[q] = temp[q] /\ tempKept'[q] = tempKept[q]
         /\ \E still \in SUBSET files :
               /\ temp'[r] = (temp[r] \ files) \cup still
               /\ tempKept'[r] = (tempKept[r] \ files) \cup still
<1>1. PICK still \in SUBSET files :
         /\ temp' = [temp EXCEPT ![r] = (@ \ files) \cup still]
         /\ tempKept' = [tempKept EXCEPT ![r] = (@ \ files) \cup still]
  BY DEF RemoveTemp
<1>2. /\ temp \in [Requests -> SUBSET (1..MaxFiles)]
      /\ tempKept \in [Requests -> SUBSET (1..MaxFiles)]
  BY DEF TypeInv, TypeOK
<1>3. temp'[r] = (temp[r] \ files) \cup still /\ tempKept'[r] = (tempKept[r] \ files) \cup still
  BY <1>1, <1>2
<1>4. /\ temp' \in [Requests -> SUBSET (1..MaxFiles)]
      /\ tempKept' \in [Requests -> SUBSET (1..MaxFiles)]
      /\ \A q \in Requests : q # r => temp'[q] = temp[q] /\ tempKept'[q] = tempKept[q]
  BY <1>1, <1>2
<1> QED BY <1>3, <1>4

\* What every answer does, aborted files apart.
Ends(r, answer) ==
    /\ Goto(r, "end")
    /\ reply' = [reply EXCEPT ![r] = answer]
    /\ holders' = holders \ {r}

\* An answer, whatever was unfinished.
LEMMA AnswerIs ==
  ASSUME TypeInv, NEW r \in Requests, NEW answer, NEW unfinished \in SUBSET (1..MaxFiles),
         AnswerAborting(r, answer, unfinished)
  PROVE  /\ Ends(r, answer)
         /\ staged' \in [Requests -> SUBSET (1..MaxFiles)]
         /\ stagedKept' \in [Requests -> SUBSET (1..MaxFiles)]
         /\ \A q \in Requests : q # r => staged'[q] = staged[q] /\ stagedKept'[q] = stagedKept[q]
         /\ stagedKept[r] \subseteq staged[r] => staged'[r] = stagedKept'[r]
<1> DEFINE files == (staged[r] \ stagedKept[r]) \cup unfinished
<1>1. files \in SUBSET (1..MaxFiles)
  BY DEF TypeInv, TypeOK
<1>2. RemoveStaged(r, files)
  BY DEF AnswerAborting
<1>3. \E still \in SUBSET files :
         /\ staged'[r] = (staged[r] \ files) \cup still
         /\ stagedKept'[r] = (stagedKept[r] \ files) \cup still
  BY <1>1, <1>2, RemoveStagedOf
<1>4. stagedKept[r] \subseteq staged[r] => staged[r] \ files = stagedKept[r] \ files
  OBVIOUS
<1>5. stagedKept[r] \subseteq staged[r] => staged'[r] = stagedKept'[r]
  BY <1>3, <1>4
<1>6. Ends(r, answer)
  BY DEF AnswerAborting, Ends
<1> QED BY <1>1, <1>2, <1>5, <1>6, RemoveStagedOf

\* The requests between slot and answer.
Busy == {r \in Requests : pc[r] \notin {"start", "end"}}

\* A request that ends gives its slot back.
LEMMA AnswerKeepsSlots ==
  ASSUME TypeInv, NEW r \in Requests, pc[r] # "start", pc[r] # "end", NEW answer, Ends(r, answer)
  PROVE  holders' = Busy' /\ IsFiniteSet(holders') /\ Cardinality(Busy') <= MaxMutations
<1>1. holders' = Busy'
  BY DEF Ends, Goto, TypeInv, TypeOK, Busy
<1>2. IsFiniteSet(holders') /\ Cardinality(holders') <= Cardinality(holders)
  <2>1. holders' \subseteq holders /\ IsFiniteSet(holders)
    BY DEF Ends, TypeInv
  <2> QED BY <2>1, FS_Subset
<1>3. Cardinality(holders) <= MaxMutations /\ Cardinality(holders) \in Nat /\ Cardinality(holders') \in Nat
  BY <1>2, FS_CardinalityType DEF TypeInv, TypeOK
<1> QED BY <1>1, <1>2, <1>3, HfsAssumption

\* A step between slot and answer.
LEMMA GotoKeepsSlots ==
  ASSUME TypeInv, NEW r \in Requests, pc[r] \notin {"start", "end"},
         NEW step \in Steps \ {"start", "end"}, Goto(r, step) \/ UNCHANGED pc, UNCHANGED holders
  PROVE  holders' = Busy' /\ IsFiniteSet(holders') /\ Cardinality(Busy') <= MaxMutations
<1>1. Busy' = Busy
  BY DEF Goto, TypeInv, TypeOK, Busy
<1> QED BY <1>1 DEF TypeInv, TypeOK, Busy

\* The types of the staged and the temporary files.
Files ==
    /\ staged \in [Requests -> SUBSET (1..MaxFiles)]
    /\ stagedKept \in [Requests -> SUBSET (1..MaxFiles)]
    /\ temp \in [Requests -> SUBSET (1..MaxFiles)]
    /\ tempKept \in [Requests -> SUBSET (1..MaxFiles)]

FilesOf(q) == <<staged[q], stagedKept[q], temp[q], tempKept[q]>>

\* The types without the slots.
Typed ==
    /\ directory \in BOOLEAN
    /\ entry \in [Names -> Requests \cup {Host, None}]
    /\ ~directory => \A n \in Names : entry[n] = None
    /\ across \in BOOLEAN
    /\ holders \subseteq Requests
    /\ pc \in [Requests -> Steps]
    /\ batch \in [Requests -> Seq(Names)]
    /\ done \in [Requests -> 0..MaxFiles]
    /\ \A r \in Requests : done[r] <= Len(batch[r]) /\ Len(batch[r]) <= MaxFiles
    /\ undone \in [Requests -> BOOLEAN]
    /\ reply \in [Requests -> {"none", "ok", "refused", "rollbackFailed", "lost"}]
    /\ touched \subseteq Names
    /\ debris \subseteq Requests
    /\ Files
    /\ hostSteps \in 0..MaxHostSteps
    /\ crashes \in 0..MaxCrashes

LEMMA TypedAndSlots ==
  TypeInv <=> Typed /\ holders = Busy /\ IsFiniteSet(holders) /\ Cardinality(Busy) <= MaxMutations
  BY DEF TypeInv, TypeOK, Typed, Files, Busy

\* A request that publishes a file has one left.
LEMMA NextFile ==
  ASSUME TypeInv, NEW r \in Requests, done[r] < Len(batch[r])
  PROVE  done[r] + 1 \in 1..MaxFiles
<1>1. done[r] \in Nat /\ Len(batch[r]) \in Nat /\ Len(batch[r]) <= MaxFiles /\ MaxFiles \in Nat
  BY HfsAssumption DEF TypeInv, TypeOK
<1> QED BY <1>1

\* A request handles its own files only.
LEMMA FilesKept ==
  ASSUME TypeInv, Progress, NEW r \in Requests, Mutation(r)
  PROVE  Files' /\ \A q \in Requests : q # r => FilesOf(q)' = FilesOf(q)
<1> USE DEF Files, FilesOf, kept
<1>0. Files
  BY DEF TypeInv, TypeOK
<1>1. ASSUME NEW answer, Answer(r, answer), UNCHANGED <<temp, tempKept>>
      PROVE  Files' /\ \A q \in Requests : q # r => FilesOf(q)' = FilesOf(q)
  BY <1>0, <1>1, AnswerIs DEF Answer
<1>2. ASSUME UNCHANGED <<staged, temp, kept>>
      PROVE  Files' /\ \A q \in Requests : q # r => FilesOf(q)' = FilesOf(q)
  BY <1>0, <1>2
<1>3. CASE AcquireMutation(r) \/ Cancelled(r) \/ CommitFails(r) \/ RollbackFile(r)
  BY <1>2, <1>3 DEF AcquireMutation, Cancelled, CommitFails, RollbackFile
<1>4. CASE CreateDirectory(r) \/ CommitDone(r) \/ RollbackDone(r)
  BY <1>1, <1>4 DEF CreateDirectory, CommitDone, RollbackDone
<1>5. CASE OpenDirectory(r)
  BY <1>1, <1>2, <1>5 DEF OpenDirectory
<1>6. CASE CheckBatch(r)
  BY <1>1, <1>2, <1>6 DEF CheckBatch
<1>7. CASE StageFails(r)
  <2>1. PICK unfinished \in SUBSET ({Len(batch[r]) + 1} \cap 1..MaxFiles) : AnswerAborting(r, "refused", unfinished)
    BY <1>7 DEF StageFails
  <2>2. UNCHANGED <<temp, tempKept>>
    BY <1>7 DEF StageFails
  <2> QED BY <1>0, <2>1, <2>2, AnswerIs
<1>8. CASE StageFile(r)
  <2>1. Len(batch[r]) + 1 \in 1..MaxFiles
    BY <1>8, HfsAssumption DEF StageFile, TypeInv, TypeOK
  <2>2. staged' = [staged EXCEPT ![r] = @ \cup {Len(batch[r]) + 1}] /\ UNCHANGED <<temp, stagedKept, tempKept>>
    BY <1>8 DEF StageFile
  <2> QED BY <1>0, <2>1, <2>2
<1>9. CASE Commit(r)
  <2>1. CASE RemoveStaged(r, {done[r] + 1})
    BY <1>0, <1>9, <2>1, NextFile, RemoveStagedOf DEF Commit
  <2>2. CASE UNCHANGED <<staged, stagedKept>>
    BY <1>0, <1>9, <2>2 DEF Commit
  <2> QED BY <1>9, <2>1, <2>2 DEF Commit
<1>10. CASE CopyBeside(r)
  <2>1. done[r] + 1 \in 1..MaxFiles
    BY <1>10, NextFile DEF CopyBeside, Progress, ProgressOf
  <2>2. temp' = [temp EXCEPT ![r] = @ \cup {done[r] + 1}] /\ UNCHANGED <<staged, stagedKept, tempKept>>
    BY <1>10 DEF CopyBeside
  <2> QED BY <1>0, <2>1, <2>2
<1>11. CASE CopyFails(r)
  <2>1. {done[r] + 1} \in SUBSET (1..MaxFiles) /\ UNCHANGED <<staged, stagedKept>>
    BY <1>11, NextFile DEF CopyFails, Progress, ProgressOf
  <2>2. CASE UNCHANGED <<temp, tempKept>>
    BY <1>0, <2>1, <2>2
  <2>3. CASE RemoveTemp(r, {done[r] + 1})
    BY <1>0, <2>1, <2>3, RemoveTempOf
  <2> QED BY <1>11, <2>2, <2>3 DEF CopyFails
<1>12. CASE LinkBeside(r)
  <2>1. {done[r] + 1} \in SUBSET (1..MaxFiles) /\ RemoveTemp(r, {done[r] + 1})
    BY <1>12, NextFile DEF LinkBeside, Progress, ProgressOf
  <2>2. CASE RemoveStaged(r, {done[r] + 1})
    BY <2>1, <2>2, RemoveTempOf, RemoveStagedOf
  <2>3. CASE UNCHANGED <<staged, stagedKept>>
    BY <1>0, <2>1, <2>3, RemoveTempOf
  <2> QED BY <1>12, <2>2, <2>3 DEF LinkBeside
<1> QED BY <1>3, <1>4, <1>5, <1>6, <1>7, <1>8, <1>9, <1>10, <1>11, <1>12 DEF Mutation

\* Every answer ends its request.
LEMMA AnswerEnds ==
  ASSUME TypeInv, NEW r \in Requests, NEW answer, Answer(r, answer)
  PROVE  Ends(r, answer)
  BY DEF Answer, AnswerAborting, Ends

LEMMA StageFailsEnds ==
  ASSUME TypeInv, NEW r \in Requests, StageFails(r)
  PROVE  Ends(r, "refused")
  BY DEF StageFails, AnswerAborting, Ends

LEMMA MutationKeepsTyped ==
  ASSUME TypeInv, Progress, NEW r \in Requests, Mutation(r)
  PROVE  Typed'
<1> USE HfsAssumption DEF Typed, Steps, Ends, Goto
<1>0. Typed
  BY TypedAndSlots
<1>f. Files'
  BY FilesKept
<1>1. CASE AcquireMutation(r) \/ Cancelled(r)
  BY <1>0, <1>1, <1>f DEF AcquireMutation, Cancelled, bounds
<1>2. CASE CreateDirectory(r)
  <2>1. directory' \in BOOLEAN /\ (~directory' => ~directory)
    BY <1>0, <1>2, Zenon DEF CreateDirectory
  <2>2. \E answer \in {"ok", "refused"} : Ends(r, answer)
    BY <1>2, AnswerEnds DEF CreateDirectory
  <2>3. UNCHANGED <<entry, across, batch, done, undone, touched, debris, hostSteps, crashes>>
    BY <1>2 DEF CreateDirectory, bounds
  <2> QED BY <1>0, <1>f, <2>1, <2>2, <2>3
<1>3. CASE OpenDirectory(r) \/ StageFails(r) \/ CheckBatch(r)
  <2>1. CASE OpenDirectory(r)
    <3>1. Ends(r, "refused") \/ (Goto(r, "stage") /\ UNCHANGED <<reply, holders>>)
      BY <2>1, AnswerEnds DEF OpenDirectory
    <3> QED BY <1>0, <1>f, <2>1, <3>1 DEF OpenDirectory, bounds
  <2>2. CASE StageFails(r)
    BY <1>0, <2>2, <1>f, StageFailsEnds DEF StageFails, bounds
  <2>3. CASE CheckBatch(r)
    <3>1. Ends(r, "refused") \/ (Goto(r, "commit") /\ UNCHANGED <<reply, holders>>)
      BY <2>3, AnswerEnds DEF CheckBatch
    <3> QED BY <1>0, <1>f, <2>3, <3>1 DEF CheckBatch, bounds
  <2> QED BY <1>3, <2>1, <2>2, <2>3
<1>4. CASE StageFile(r)
  BY <1>0, <1>4, <1>f DEF StageFile, bounds
<1>p. ASSUME pc[r] \in Publishing, done[r] < Len(batch[r]), directory, Published(r)
      PROVE  /\ entry' \in [Names -> Requests \cup {Host, None}]
             /\ done' \in [Requests -> 0..MaxFiles]
             /\ \A q \in Requests : done'[q] <= Len(batch[q])
  <2>1. Target(r) \in Names /\ Len(batch[r]) \in Nat /\ done[r] \in Nat /\ Len(batch[r]) <= MaxFiles
    BY <1>0, <1>p DEF Target
  <2>2. done[r] + 1 \in 0..MaxFiles
    BY <2>1, <1>p
  <2>3. done' = [done EXCEPT ![r] = done[r] + 1] /\ entry' = [entry EXCEPT ![Target(r)] = r]
    BY <1>p DEF Published
  <2>4. done' \in [Requests -> 0..MaxFiles]
    BY <1>0, <2>2, <2>3
  <2>5. \A q \in Requests : done'[q] <= Len(batch[q])
    BY <1>0, <1>p, <2>1, <2>3
  <2> QED BY <1>0, <2>1, <2>3, <2>4, <2>5
<1>5. CASE Commit(r)
  <2>1. pc' \in [Requests -> Steps]
    BY <1>0, <1>5 DEF Commit
  <2>2. /\ entry' \in [Names -> Requests \cup {Host, None}] /\ done' \in [Requests -> 0..MaxFiles]
        /\ \A q \in Requests : done'[q] <= Len(batch[q])
    BY <1>0, <1>5, <1>p DEF Commit, Publishing
  <2>3. directory /\ UNCHANGED <<directory, across, holders, batch, undone, reply, touched, debris, hostSteps, crashes>>
    BY <1>5 DEF Commit, bounds
  <2> QED BY <1>0, <1>f, <2>1, <2>2, <2>3
<1>6. CASE LinkBeside(r)
  <2>0. done[r] < Len(batch[r])
    BY <1>6 DEF LinkBeside, Progress, ProgressOf
  <2>1. pc' \in [Requests -> Steps]
    BY <1>0, <1>6 DEF LinkBeside
  <2>2. /\ entry' \in [Names -> Requests \cup {Host, None}] /\ done' \in [Requests -> 0..MaxFiles]
        /\ \A q \in Requests : done'[q] <= Len(batch[q])
    BY <1>0, <1>6, <1>p, <2>0 DEF LinkBeside, Publishing
  <2>3. (directory \/ entry' = entry) /\ UNCHANGED <<directory, across, holders, batch, undone, reply, touched, debris, hostSteps, crashes>>
    BY <1>6 DEF LinkBeside, bounds
  <2> QED BY <1>0, <1>f, <2>1, <2>2, <2>3
<1>7. CASE CommitFails(r) \/ CopyBeside(r) \/ CopyFails(r)
  BY <1>0, <1>7, <1>f DEF CommitFails, CopyBeside, CopyFails, bounds
<1>8. CASE CommitDone(r) \/ RollbackDone(r)
  <2>1. CASE CommitDone(r)
    <3>1. Ends(r, "ok")
      BY <2>1, AnswerEnds DEF CommitDone
    <3> QED BY <1>0, <1>f, <2>1, <3>1 DEF CommitDone, bounds
  <2>2. CASE RollbackDone(r)
    <3>1. Ends(r, "refused") \/ Ends(r, "rollbackFailed")
      BY <2>2, AnswerEnds DEF RollbackDone
    <3> QED BY <1>0, <1>f, <2>2, <3>1 DEF RollbackDone, bounds
  <2> QED BY <1>8, <2>1, <2>2
<1>9. CASE RollbackFile(r)
  <2>1. undone' \in [Requests -> BOOLEAN]
    BY <1>0, <1>9, Zenon DEF RollbackFile
  <2>2. batch[r][done[r]] \in Names
    BY <1>0, <1>9 DEF RollbackFile
  <2>3. entry' \in [Names -> Requests \cup {Host, None}] /\ \A n \in Names : entry'[n] = entry[n] \/ entry'[n] = None
    BY <1>0, <1>9, <2>2 DEF RollbackFile
  <2>4. done' \in [Requests -> 0..MaxFiles] /\ \A q \in Requests : done'[q] <= Len(batch[q])
    <3>1. done' = [done EXCEPT ![r] = done[r] - 1] /\ done[r] - 1 \in 0..MaxFiles /\ done[r] - 1 <= Len(batch[r])
      BY <1>0, <1>9 DEF RollbackFile
    <3> QED BY <1>0, <3>1
  <2>5. UNCHANGED <<directory, across, holders, pc, batch, reply, touched, debris, hostSteps, crashes>>
    BY <1>9 DEF RollbackFile, bounds
  <2> QED BY <1>0, <1>f, <2>1, <2>3, <2>4, <2>5
<1> QED BY <1>1, <1>2, <1>3, <1>4, <1>5, <1>6, <1>7, <1>8, <1>9 DEF Mutation

LEMMA MutationKeepsSlots ==
  ASSUME TypeInv, NEW r \in Requests, Mutation(r)
  PROVE  holders' = Busy' /\ IsFiniteSet(holders') /\ Cardinality(Busy') <= MaxMutations
<1> USE DEF Steps
<1>1. CASE AcquireMutation(r)
  <2>1. holders' = Busy' /\ holders' = holders \cup {r} /\ r \notin holders
    BY <1>1 DEF AcquireMutation, Goto, Busy, TypeInv, TypeOK
  <2>2. IsFiniteSet(holders') /\ Cardinality(holders') = Cardinality(holders) + 1
    BY <2>1, FS_AddElement DEF TypeInv
  <2>3. Cardinality(holders) < MaxMutations /\ Cardinality(holders) \in Nat
    BY <1>1, FS_CardinalityType DEF AcquireMutation, HasSlot, TypeInv
  <2> QED BY <2>1, <2>2, <2>3, HfsAssumption
<1>2. CASE Cancelled(r)
  <2>1. Busy' = Busy /\ holders' = holders
    BY <1>2 DEF Cancelled, Goto, Busy, TypeInv, TypeOK
  <2> QED BY <2>1 DEF TypeInv, TypeOK, Busy
<1>3. CASE \E answer \in {"ok", "refused", "rollbackFailed"} : Ends(r, answer) /\ pc[r] \notin {"start", "end"}
  BY <1>3, AnswerKeepsSlots
<1>4. CASE \E step \in Steps \ {"start", "end"} :
              (Goto(r, step) \/ UNCHANGED pc) /\ UNCHANGED holders /\ pc[r] \notin {"start", "end"}
  BY <1>4, GotoKeepsSlots, Zenon
<1>5. CASE CreateDirectory(r) \/ OpenDirectory(r) \/ StageFails(r) \/ CheckBatch(r)
  BY <1>3, <1>4, <1>5, AnswerEnds, StageFailsEnds DEF CreateDirectory, OpenDirectory, StageFails, CheckBatch
<1>6. CASE StageFile(r) \/ CommitFails(r) \/ CopyBeside(r) \/ CopyFails(r) \/ RollbackFile(r)
  BY <1>4, <1>6 DEF StageFile, CommitFails, CopyBeside, CopyFails, RollbackFile
<1>7. CASE Commit(r) \/ LinkBeside(r)
  BY <1>4, <1>7 DEF Commit, LinkBeside
<1>8. CASE CommitDone(r) \/ RollbackDone(r)
  BY <1>3, <1>8, AnswerEnds DEF CommitDone, RollbackDone
<1> QED BY <1>1, <1>2, <1>5, <1>6, <1>7, <1>8 DEF Mutation

LEMMA TypeInvNext == TypeInv /\ Progress /\ [Next]_vars => TypeInv'
<1> SUFFICES ASSUME TypeInv, Progress, [Next]_vars PROVE TypeInv'
  OBVIOUS
<1>0. TypeInv' <=> Typed' /\ holders' = Busy' /\ IsFiniteSet(holders') /\ Cardinality(Busy') <= MaxMutations
  BY DEF TypeInv, TypeOK, Typed, Files, Busy
<1>1. ASSUME NEW r \in Requests, Mutation(r) PROVE TypeInv'
  BY <1>0, <1>1, MutationKeepsTyped, MutationKeepsSlots
<1>2. CASE HostStep
  <2>1. holders' = Busy' /\ IsFiniteSet(holders') /\ Cardinality(Busy') <= MaxMutations
    BY <1>2 DEF HostStep, requestVars, Busy, TypeInv, TypeOK
  <2>2. Typed'
    <3>0. Typed
      BY TypedAndSlots
    <3>1. directory' \in BOOLEAN
      BY <1>2, <3>0, Zenon DEF HostStep, Typed
    <3>2. entry' \in [Names -> Requests \cup {Host, None}] /\ touched' \subseteq Names /\ hostSteps' \in 0..MaxHostSteps
      BY <1>2, <3>0, HfsAssumption DEF HostStep, Typed
    <3>3. ~directory' => \A n \in Names : entry'[n] = None
      BY <1>2, <3>0 DEF HostStep, Typed
    <3>4. UNCHANGED <<across, holders, pc, batch, staged, done, undone, reply, temp, debris, stagedKept, tempKept, crashes>>
      BY <1>2 DEF HostStep, requestVars, kept
    <3> QED BY <3>0, <3>1, <3>2, <3>3, <3>4 DEF Typed, Files
  <2> QED BY <1>0, <2>1, <2>2
<1>3. CASE Crash
  <2>1. holders' = {} /\ Busy' = {}
    BY <1>3 DEF Crash, Busy
  <2>2. IsFiniteSet(holders') /\ Cardinality(Busy') <= MaxMutations
    BY <2>1, FS_EmptySet, HfsAssumption
  <2>3. Typed'
    BY <1>3, <2>1, HfsAssumption, TypedAndSlots DEF Crash, Typed, Files, kept, Steps
  <2> QED BY <1>0, <2>1, <2>2, <2>3
<1>4. CASE UNCHANGED vars
  BY <1>4 DEF vars, requestVars, kept, bounds, TypeInv, TypeOK
<1> QED BY <1>1, <1>2, <1>3, <1>4 DEF Next

-----------------------------------------------------------------------------
(* The batch is published as a whole or not at all                         *)

\* What a request does to the directory: it publishes where nothing is, and
\* takes away what is its own, or a name the owner has touched.
EntriesBy(r) ==
    \A n \in Names :
        \/ entry'[n] = entry[n]
        \/ entry[n] = None /\ entry'[n] = r
        \/ entry'[n] = None /\ (n \in touched \/ entry[n] = r)

\* Nothing another request does can disturb what is known of this one.
LEMMA OthersKept ==
  ASSUME TypeInv, AtomicInv, NEW r \in Requests, NEW q \in Requests, q # r, EntriesBy(r),
         touched' = touched, pc'[q] = pc[q], batch'[q] = batch[q], done'[q] = done[q],
         undone'[q] = undone[q], reply'[q] = reply[q]
  PROVE  ProgressOf(q)' /\ OwnershipOf(q)' /\ AnsweredOf(q)'
<1> USE HfsAssumption
<1>0. ProgressOf(q) /\ OwnershipOf(q) /\ AnsweredOf(q)
  BY DEF AtomicInv, Progress, Ownership, Answered
<1>1. Own(q)' = Own(q) /\ NamesOf(q)' = NamesOf(q) /\ HasDuplicate(q)' = HasDuplicate(q)
  BY DEF Own, NamesOf, HasDuplicate
<1>2. Own(q) \subseteq Names /\ NamesOf(q) \subseteq Names
  BY DEF Own, NamesOf, TypeInv, TypeOK
<1>3. \A n \in Names : (entry[n] = q /\ n \notin touched) => entry'[n] = q
  BY DEF EntriesBy, TypeInv, TypeOK
<1>4. \A n \in Names : entry'[n] = q => entry[n] = q
  BY DEF EntriesBy
<1>5. ProgressOf(q)'
  BY <1>0, <1>1 DEF ProgressOf
<1>6. OwnershipOf(q)'
  BY <1>0, <1>1, <1>2, <1>3, <1>4 DEF OwnershipOf
<1>7. AnsweredOf(q)'
  BY <1>0, <1>1, <1>2, <1>3, <1>4 DEF AnsweredOf
<1> QED BY <1>5, <1>6, <1>7

\* The frame of a request's step.
LEMMA MutationFrame ==
  ASSUME TypeInv, NEW r \in Requests, Mutation(r), NEW q \in Requests, q # r
  PROVE  /\ pc'[q] = pc[q] /\ batch'[q] = batch[q] /\ done'[q] = done[q]
         /\ undone'[q] = undone[q] /\ reply'[q] = reply[q]
<1> USE AnswerEnds, StageFailsEnds DEF Ends, Goto, TypeInv, TypeOK
<1>1. CASE AcquireMutation(r) \/ Cancelled(r) \/ CreateDirectory(r) \/ OpenDirectory(r)
  BY <1>1 DEF AcquireMutation, Cancelled, CreateDirectory, OpenDirectory
<1>2. CASE StageFile(r) \/ StageFails(r) \/ CheckBatch(r)
  BY <1>2 DEF StageFile, StageFails, CheckBatch
<1>3. CASE Commit(r) \/ LinkBeside(r)
  BY <1>3 DEF Commit, LinkBeside, Published
<1>4. CASE CommitFails(r) \/ CopyBeside(r) \/ CopyFails(r)
  BY <1>4 DEF CommitFails, CopyBeside, CopyFails
<1>5. CASE CommitDone(r) \/ RollbackFile(r) \/ RollbackDone(r)
  BY <1>5 DEF CommitDone, RollbackFile, RollbackDone
<1> QED BY <1>1, <1>2, <1>3, <1>4, <1>5 DEF Mutation

\* A step that publishes the next file, whose name nobody has.
LEMMA PublishedKeeps ==
  ASSUME TypeInv, AtomicInv, NEW r \in Requests, pc[r] \in {"commit", "link"}, done[r] < Len(batch[r]),
         entry[Target(r)] = None, Published(r), batch' = batch, undone' = undone, reply' = reply,
         touched' = touched, pc'[r] = "commit"
  PROVE  EntriesBy(r) /\ ProgressOf(r)' /\ OwnershipOf(r)' /\ AnsweredOf(r)'
<1>0. ProgressOf(r) /\ OwnershipOf(r) /\ AnsweredOf(r)
  BY DEF AtomicInv, Progress, Ownership, Answered
<1>1. /\ Target(r) \in Names /\ done[r] \in Nat /\ Len(batch[r]) \in Nat
      /\ entry' = [entry EXCEPT ![Target(r)] = r] /\ done'[r] = done[r] + 1
      /\ entry \in [Names -> Requests \cup {Host, None}]
  BY DEF Target, Published, TypeInv, TypeOK
<1>2. Own(r)' = Own(r) \cup {Target(r)}
  BY <1>1 DEF Own, Target
<1>3. EntriesBy(r)
  BY <1>1 DEF EntriesBy
<1>4. reply'[r] = "none" /\ HasDuplicate(r)' = HasDuplicate(r)
  BY <1>0 DEF ProgressOf, HasDuplicate
<1>5. ProgressOf(r)'
  BY <1>0, <1>4 DEF ProgressOf, Publishing
<1>6. OwnershipOf(r)'
  <2>1. Own(r) \subseteq Names
    BY DEF Own, TypeInv, TypeOK
  <2>2. /\ \A n \in Own(r) \ touched : entry[n] = r
        /\ \A n \in Names : entry[n] = r => n \in Own(r)
    BY <1>0 DEF OwnershipOf, Publishing
  <2>3. \A n \in Own(r)' \ touched' : entry'[n] = r
    BY <1>1, <1>2, <2>1, <2>2
  <2>4. \A n \in Names : entry'[n] = r => n \in Own(r)'
    BY <1>1, <1>2, <2>2
  <2> QED BY <2>3, <2>4 DEF OwnershipOf
<1>7. AnsweredOf(r)'
  BY <1>4 DEF AnsweredOf
<1> QED BY <1>3, <1>5, <1>6, <1>7

\* A step of the roll back removes by name what this request has published,
\* and the other names of the batch are different ones.
LEMMA RollbackKeeps ==
  ASSUME TypeInv, AtomicInv, NEW r \in Requests, RollbackFile(r)
  PROVE  EntriesBy(r) /\ ProgressOf(r)' /\ OwnershipOf(r)' /\ AnsweredOf(r)'
<1> DEFINE last == batch[r][done[r]]
<1>0. ProgressOf(r) /\ OwnershipOf(r) /\ AnsweredOf(r)
  BY DEF AtomicInv, Progress, Ownership, Answered
<1>1. /\ pc[r] = "rollback" /\ pc' = pc /\ batch' = batch /\ reply' = reply /\ touched' = touched
      /\ done[r] \in 1..Len(batch[r]) /\ Len(batch[r]) \in Nat /\ done'[r] = done[r] - 1
      /\ last \in Names /\ entry \in [Names -> Requests \cup {Host, None}]
  BY DEF RollbackFile, TypeInv, TypeOK
<1>2. Own(r)' = Own(r) \ {last} /\ last \in Own(r) /\ Own(r) \subseteq Names
  <2>1. \A i \in 1..done[r] - 1 : batch[r][i] # last
    BY <1>0, <1>1 DEF ProgressOf, HasDuplicate
  <2>2. 1..done[r] = (1..done[r] - 1) \cup {done[r]}
    BY <1>1
  <2>3. Own(r)' = {batch[r][i] : i \in 1..done[r] - 1}
    BY <1>1 DEF Own
  <2>4. Own(r) \subseteq Names
    BY <1>1 DEF Own, TypeInv, TypeOK
  <2> QED BY <2>1, <2>2, <2>3, <2>4 DEF Own
<1>3. last \in touched \/ entry[last] = r
  BY <1>0, <1>1, <1>2 DEF OwnershipOf
<1>4. \/ entry' = [entry EXCEPT ![last] = None] /\ undone' = undone
      \/ entry' = entry /\ undone' = [undone EXCEPT ![r] = FALSE]
  BY DEF RollbackFile
<1>5. EntriesBy(r)
  BY <1>1, <1>3, <1>4 DEF EntriesBy
<1>6. ProgressOf(r)' /\ AnsweredOf(r)'
  BY <1>0, <1>1 DEF ProgressOf, AnsweredOf, HasDuplicate, Publishing
<1>7. \A n \in Own(r)' \ touched' : entry'[n] = r
  BY <1>0, <1>1, <1>2, <1>4 DEF OwnershipOf
<1>8. ASSUME undone'[r] PROVE \A n \in Names : entry'[n] = r => n \in Own(r)'
  <2>1. entry' = [entry EXCEPT ![last] = None] /\ undone[r]
    BY <1>4, <1>8, Zenon DEF TypeInv, TypeOK
  <2>2. \A n \in Names : entry[n] = r => n \in Own(r)
    BY <1>0, <1>1, <2>1 DEF OwnershipOf
  <2> QED BY <1>1, <1>2, <2>1, <2>2, HfsAssumption
<1>9. OwnershipOf(r)'
  BY <1>1, <1>7, <1>8 DEF OwnershipOf, Publishing
<1> QED BY <1>5, <1>6, <1>9

\* A request that has published nothing may be refused.
LEMMA NothingPublished ==
  ASSUME TypeInv, AtomicInv, NEW r \in Requests, done[r] = 0, pc[r] # "end",
         pc[r] = "rollback" => undone[r]
  PROVE  \A n \in Names : entry[n] # r
<1>1. OwnershipOf(r) /\ Own(r) = {}
  BY DEF AtomicInv, Ownership, Own
<1>2. pc[r] \in Steps
  BY DEF TypeInv, TypeOK
<1> QED BY <1>1, <1>2 DEF OwnershipOf, Publishing, Steps

LEMMA AnswerKeeps ==
  ASSUME TypeInv, AtomicInv, NEW r \in Requests, NEW answer \in {"ok", "refused", "rollbackFailed"},
         Goto(r, "end"), reply' = [reply EXCEPT ![r] = answer],
         entry' = entry, touched' = touched, batch' = batch, done' = done, undone' = undone,
         answer = "ok" => \A n \in NamesOf(r) \ touched : entry[n] = r,
         answer = "refused" => \A n \in Names : entry[n] # r
  PROVE  EntriesBy(r) /\ ProgressOf(r)' /\ OwnershipOf(r)' /\ AnsweredOf(r)'
<1>1. pc'[r] = "end" /\ reply'[r] = answer
  BY DEF Goto, TypeInv, TypeOK
<1>2. EntriesBy(r) /\ ProgressOf(r)' /\ OwnershipOf(r)'
  BY <1>1 DEF EntriesBy, ProgressOf, OwnershipOf, Publishing
<1>3. NamesOf(r)' = NamesOf(r)
  BY DEF NamesOf
<1>4. AnsweredOf(r)'
  BY <1>1, <1>3 DEF AnsweredOf
<1> QED BY <1>2, <1>4

LEMMA GotoKeeps ==
  ASSUME TypeInv, AtomicInv, NEW r \in Requests, NEW step \in Steps \ {"start", "end"}, pc[r] # "end",
         Goto(r, step), entry' = entry, touched' = touched, batch' = batch, done' = done,
         undone' = undone, reply' = reply,
         step = "mkdir" => batch[r] = <<>>,
         step \in {"mkdir", "open", "stage"} => done[r] = 0,
         step \in {"copy", "link"} => done[r] < Len(batch[r]),
         step \in Publishing \cup {"rollback"} => ~HasDuplicate(r),
         step \in Publishing \cup {"rollback"} => pc[r] \in Publishing \cup {"rollback"} \/ done[r] = 0,
         pc[r] = "rollback" => step = "rollback"
  PROVE  EntriesBy(r) /\ ProgressOf(r)' /\ OwnershipOf(r)' /\ AnsweredOf(r)'
<1>0. ProgressOf(r) /\ OwnershipOf(r) /\ AnsweredOf(r)
  BY DEF AtomicInv, Progress, Ownership, Answered
<1>1. pc'[r] = step /\ pc[r] \in Steps
  BY DEF Goto, TypeInv, TypeOK
<1>2. EntriesBy(r) /\ reply'[r] = "none"
  BY <1>0 DEF EntriesBy, ProgressOf
<1>3. Own(r)' = Own(r) /\ HasDuplicate(r)' = HasDuplicate(r)
  BY DEF Own, HasDuplicate
<1>4. ProgressOf(r)'
  BY <1>0, <1>1, <1>2, <1>3 DEF ProgressOf, Publishing
<1>5. \A n \in Own(r) \ touched : step \in Publishing \cup {"rollback"} => entry[n] = r
  BY <1>0 DEF OwnershipOf, Own
<1>6. pc[r] # "rollback" \/ undone[r] => \A n \in Names : entry[n] = r => n \in Own(r)
  BY <1>0, <1>1 DEF OwnershipOf, Publishing, Steps
<1>7. OwnershipOf(r)'
  <2>1. pc[r] = "rollback" => pc'[r] = "rollback" /\ undone'[r] = undone[r]
    BY <1>1
  <2>2. \A n \in Own(r)' \ touched' : pc'[r] \in Publishing \cup {"rollback"} => entry'[n] = r
    BY <1>1, <1>3, <1>5
  <2>3. (pc'[r] # "rollback" \/ undone'[r]) => \A n \in Names : entry'[n] = r => n \in Own(r)'
    BY <1>3, <1>6, <2>1
  <2> QED BY <1>1, <2>2, <2>3 DEF OwnershipOf, Publishing
<1>8. AnsweredOf(r)'
  BY <1>2 DEF AnsweredOf
<1> QED BY <1>2, <1>4, <1>7, <1>8

LEMMA MutationKeepsAtomic ==
  ASSUME TypeInv, AtomicInv, NEW r \in Requests, Mutation(r)
  PROVE  EntriesBy(r) /\ ProgressOf(r)' /\ OwnershipOf(r)' /\ AnsweredOf(r)'
<1>0. ProgressOf(r) /\ OwnershipOf(r) /\ AnsweredOf(r) /\ pc[r] \in Steps
  BY DEF AtomicInv, Progress, Ownership, Answered, TypeInv, TypeOK
<1>n. pc[r] \in {"start", "mkdir", "open", "stage"} => \A n \in Names : entry[n] # r
  BY <1>0, NothingPublished DEF ProgressOf
<1>f. touched' = touched
  BY DEF Mutation, AcquireMutation, Cancelled, CreateDirectory, OpenDirectory, StageFile, StageFails,
     CheckBatch, Commit, CommitFails, CopyBeside, CopyFails, LinkBeside, CommitDone, RollbackFile, RollbackDone
<1>1. CASE AcquireMutation(r)
  BY <1>0, <1>1, GotoKeeps DEF AcquireMutation, ProgressOf, Publishing, Steps
<1>2. CASE Cancelled(r)
  BY <1>2, <1>n, AnswerKeeps DEF Cancelled
<1>3. CASE CreateDirectory(r)
  <2>1. Own(r) = {} /\ NamesOf(r) = {}
    BY <1>0, <1>3 DEF CreateDirectory, ProgressOf, Own, NamesOf
  <2> QED BY <1>3, <1>n, <2>1, AnswerEnds, AnswerKeeps DEF CreateDirectory, Ends
<1>4. CASE OpenDirectory(r)
  <2>1. CASE Goto(r, "stage") /\ reply' = reply
    BY <1>0, <1>4, <2>1, GotoKeeps DEF OpenDirectory, ProgressOf, Publishing, Steps
  <2>2. CASE Answer(r, "refused")
    BY <1>4, <1>n, <2>2, AnswerEnds, AnswerKeeps DEF OpenDirectory, Ends
  <2> QED BY <1>4, <2>1, <2>2 DEF OpenDirectory
<1>5. CASE StageFile(r)
  <2>1. pc' = pc /\ pc[r] = "stage" /\ done' = done /\ done[r] = 0 /\ entry' = entry /\ reply' = reply
    BY <1>0, <1>5 DEF StageFile, ProgressOf
  <2>2. Own(r) = {} /\ Own(r)' = {}
    BY <2>1 DEF Own
  <2>3. reply'[r] = "none"
    BY <1>0, <2>1 DEF ProgressOf
  <2>4. ProgressOf(r)' /\ AnsweredOf(r)'
    BY <2>1, <2>3 DEF ProgressOf, AnsweredOf, Publishing
  <2>5. OwnershipOf(r)'
    BY <1>n, <2>1, <2>2 DEF OwnershipOf, Publishing
  <2> QED BY <2>1, <2>4, <2>5 DEF EntriesBy
<1>6. CASE StageFails(r)
  BY <1>6, <1>n, StageFailsEnds, AnswerKeeps DEF StageFails, Ends
<1>7. CASE CheckBatch(r)
  <2>1. CASE Goto(r, "commit") /\ reply' = reply /\ ~HasDuplicate(r)
    BY <1>0, <1>7, <2>1, GotoKeeps DEF CheckBatch, ProgressOf, Publishing, Steps
  <2>2. CASE Answer(r, "refused")
    BY <1>7, <1>n, <2>2, AnswerEnds, AnswerKeeps DEF CheckBatch, Ends
  <2> QED BY <1>7, <2>1, <2>2 DEF CheckBatch
<1>8. CASE Commit(r)
  <2>1. CASE Published(r) /\ pc' = pc
    BY <1>8, <2>1, PublishedKeeps DEF Commit
  <2>2. CASE Goto(r, "copy") /\ UNCHANGED <<entry, done>>
    BY <1>0, <1>8, <2>2, GotoKeeps DEF Commit, ProgressOf, Publishing, Steps
  <2> QED BY <1>8, <2>1, <2>2 DEF Commit
<1>9. CASE CommitFails(r) \/ CopyBeside(r) \/ CopyFails(r)
  <2>1. \E step \in {"rollback", "link"} :
           Goto(r, step) /\ (step = "link" => pc[r] = "copy") /\ pc[r] \in {"commit", "copy"}
    BY <1>9 DEF CommitFails, CopyBeside, CopyFails
  <2>2. entry' = entry /\ batch' = batch /\ done' = done /\ undone' = undone /\ reply' = reply
    BY <1>9 DEF CommitFails, CopyBeside, CopyFails
  <2>3. ~HasDuplicate(r)
    BY <1>0, <2>1 DEF ProgressOf, Publishing
  <2> QED BY <1>0, <1>f, <2>1, <2>2, <2>3, GotoKeeps DEF ProgressOf, Publishing, Steps
<1>10. CASE LinkBeside(r)
  <2>1. done[r] < Len(batch[r]) /\ ~HasDuplicate(r) /\ pc[r] = "link"
    BY <1>0, <1>10 DEF LinkBeside, ProgressOf, Publishing
  <2>2. CASE Published(r) /\ Goto(r, "commit") /\ entry[Target(r)] = None
    <3>1. pc'[r] = "commit"
      BY <2>2 DEF Goto, TypeInv, TypeOK
    <3> QED BY <1>10, <2>1, <2>2, <3>1, PublishedKeeps DEF LinkBeside
  <2>3. CASE Goto(r, "rollback") /\ UNCHANGED <<entry, done>>
    BY <1>10, <2>1, <2>3, GotoKeeps DEF LinkBeside, Publishing, Steps
  <2> QED BY <1>10, <2>2, <2>3 DEF LinkBeside
<1>11. CASE CommitDone(r)
  <2>1. NamesOf(r) = Own(r)
    BY <1>11 DEF CommitDone, NamesOf, Own
  <2>2. \A n \in NamesOf(r) \ touched : entry[n] = r
    BY <1>0, <1>11, <2>1 DEF CommitDone, OwnershipOf, Publishing
  <2> QED BY <1>11, <2>2, AnswerEnds, AnswerKeeps DEF CommitDone, Ends
<1>12. CASE RollbackFile(r)
  BY <1>12, RollbackKeeps
<1>13. CASE RollbackDone(r)
  <2>1. undone[r] => \A n \in Names : entry[n] # r
    BY <1>13, NothingPublished DEF RollbackDone
  <2>2. CASE undone[r]
    BY <1>13, <2>1, <2>2, AnswerEnds, AnswerKeeps DEF RollbackDone, Ends
  <2>3. CASE ~undone[r]
    BY <1>13, <2>3, AnswerEnds, AnswerKeeps DEF RollbackDone, Ends
  <2> QED BY <2>2, <2>3
<1> QED BY <1>1, <1>2, <1>3, <1>4, <1>5, <1>6, <1>7, <1>8, <1>9, <1>10, <1>11, <1>12, <1>13 DEF Mutation

\* The owner of the directory takes away what is then touched, and puts his
\* own files only where nothing is.
LEMMA HostKeepsAtomic == TypeInv /\ AtomicInv /\ HostStep => AtomicInv'
<1> SUFFICES ASSUME TypeInv, AtomicInv, HostStep, NEW r \in Requests
             PROVE  ProgressOf(r)' /\ OwnershipOf(r)' /\ AnsweredOf(r)'
  BY DEF AtomicInv, Progress, Ownership, Answered
<1>0. ProgressOf(r) /\ OwnershipOf(r) /\ AnsweredOf(r)
  BY DEF AtomicInv, Progress, Ownership, Answered
<1>1. UNCHANGED <<pc, batch, done, undone, reply>>
  BY DEF HostStep, requestVars
<1>2. Own(r)' = Own(r) /\ NamesOf(r)' = NamesOf(r) /\ HasDuplicate(r)' = HasDuplicate(r)
  BY <1>1 DEF Own, NamesOf, HasDuplicate
<1>3. Own(r) \subseteq Names /\ NamesOf(r) \subseteq Names
  BY DEF Own, NamesOf, TypeInv, TypeOK
<1>4. \A n \in Names : entry'[n] = entry[n] \/ entry'[n] = None \/ entry'[n] = Host
  BY DEF HostStep, TypeInv, TypeOK
<1>5. \A n \in Names : entry'[n] = r => entry[n] = r
  BY <1>4, HfsAssumption
<1>6. touched \subseteq touched' /\ \A n \in Names : entry[n] = r /\ n \notin touched' => entry'[n] = r
  BY HfsAssumption DEF HostStep, TypeInv, TypeOK
<1>7. ProgressOf(r)'
  BY <1>0, <1>1, <1>2 DEF ProgressOf
<1>8. OwnershipOf(r)'
  BY <1>0, <1>1, <1>2, <1>3, <1>5, <1>6 DEF OwnershipOf
<1>9. AnsweredOf(r)'
  BY <1>0, <1>1, <1>2, <1>3, <1>5, <1>6 DEF AnsweredOf
<1> QED BY <1>7, <1>8, <1>9

\* A crash leaves the directory as it is and answers nobody.
LEMMA CrashKeepsAtomic == TypeInv /\ AtomicInv /\ Crash => AtomicInv'
<1> SUFFICES ASSUME TypeInv, AtomicInv, Crash, NEW r \in Requests
             PROVE  ProgressOf(r)' /\ OwnershipOf(r)' /\ AnsweredOf(r)'
  BY DEF AtomicInv, Progress, Ownership, Answered
<1>0. AnsweredOf(r)
  BY DEF AtomicInv, Answered
<1>1. /\ pc'[r] = "end" /\ reply'[r] = IF reply[r] = "none" THEN "lost" ELSE reply[r]
      /\ UNCHANGED <<entry, batch, touched>>
  BY DEF Crash
<1>2. ProgressOf(r)' /\ OwnershipOf(r)'
  BY <1>1 DEF ProgressOf, OwnershipOf, Publishing
<1>3. NamesOf(r)' = NamesOf(r)
  BY <1>1 DEF NamesOf
<1>4. AnsweredOf(r)'
  BY <1>0, <1>1, <1>3 DEF AnsweredOf
<1> QED BY <1>2, <1>4

LEMMA AtomicInvInit == Init => AtomicInv
<1> SUFFICES ASSUME Init, NEW r \in Requests PROVE ProgressOf(r) /\ OwnershipOf(r) /\ AnsweredOf(r)
  BY DEF AtomicInv, Progress, Ownership, Answered
<1>1. pc[r] = "start" /\ reply[r] = "none" /\ batch[r] = <<>> /\ done[r] = 0
  BY DEF Init
<1>2. \A n \in Names : entry[n] # r
  BY HfsAssumption DEF Init
<1> QED BY <1>1, <1>2 DEF ProgressOf, OwnershipOf, AnsweredOf, Publishing

LEMMA AtomicInvNext == TypeInv /\ AtomicInv /\ [Next]_vars => AtomicInv'
<1> SUFFICES ASSUME TypeInv, AtomicInv, [Next]_vars PROVE AtomicInv'
  OBVIOUS
<1>1. ASSUME NEW r \in Requests, Mutation(r) PROVE AtomicInv'
  <2>1. EntriesBy(r) /\ ProgressOf(r)' /\ OwnershipOf(r)' /\ AnsweredOf(r)'
    BY <1>1, MutationKeepsAtomic
  <2>2. touched' = touched
    BY <1>1 DEF Mutation, AcquireMutation, Cancelled, CreateDirectory, OpenDirectory, StageFile,
       StageFails, CheckBatch, Commit, CommitFails, CopyBeside, CopyFails, LinkBeside, CommitDone,
       RollbackFile, RollbackDone
  <2>3. \A q \in Requests : q # r => ProgressOf(q)' /\ OwnershipOf(q)' /\ AnsweredOf(q)'
    BY <1>1, <2>1, <2>2, MutationFrame, OthersKept
  <2> QED BY <2>1, <2>3 DEF AtomicInv, Progress, Ownership, Answered
<1>2. CASE HostStep \/ Crash
  BY <1>2, HostKeepsAtomic, CrashKeepsAtomic
<1>3. CASE UNCHANGED vars
  BY <1>3 DEF vars, requestVars, AtomicInv, Progress, Ownership, Answered, ProgressOf, OwnershipOf,
     AnsweredOf, Own, NamesOf, HasDuplicate
<1> QED BY <1>1, <1>2, <1>3 DEF Next

\* In every reachable state the variables have their types and at most
\* MaxMutations requests are between slot and answer.
THEOREM TypesAndSlots == Spec => []TypeOK
<1>1. Init => TypeInv /\ AtomicInv
  BY TypeInvInit, AtomicInvInit
<1>2. TypeInv /\ AtomicInv /\ [Next]_vars => (TypeInv /\ AtomicInv)'
  BY TypeInvNext, AtomicInvNext DEF AtomicInv
<1>3. TypeInv => TypeOK
  BY DEF TypeInv
<1> QED BY <1>1, <1>2, <1>3, PTL DEF Spec

\* An accepted batch is complete and a refused one has left nothing, whatever
\* other requests, the owner of the directory or a crash did.
THEOREM BatchesAreAtomic == Spec => []BatchIsAtomic
<1>1. Init => TypeInv /\ AtomicInv
  BY TypeInvInit, AtomicInvInit
<1>2. TypeInv /\ AtomicInv /\ [Next]_vars => (TypeInv /\ AtomicInv)'
  BY TypeInvNext, AtomicInvNext DEF AtomicInv
<1>3. TypeInv /\ AtomicInv => BatchIsAtomic
  <2>1. TypeInv => \A r \in Requests : NamesOf(r) \subseteq Names
    BY DEF TypeInv, TypeOK, NamesOf
  <2> QED BY <2>1 DEF AtomicInv, Answered, AnsweredOf, BatchIsAtomic
<1> QED BY <1>1, <1>2, <1>3, PTL DEF Spec

\* A step of the application takes a file away only in the roll back of the
\* request that published it, names the owner has touched apart.
THEOREM RollBackTakesItsOwn == Spec => OnlyOwnFilesGo
<1>1. Init => TypeInv /\ AtomicInv
  BY TypeInvInit, AtomicInvInit
<1>2. TypeInv /\ AtomicInv /\ [Next]_vars => (TypeInv /\ AtomicInv)'
  BY TypeInvNext, AtomicInvNext DEF AtomicInv
<1> DEFINE Goes(n) == entry[n] # None /\ entry'[n] # entry[n] =>
             /\ entry'[n] = None
             /\ \/ hostSteps' # hostSteps
                \/ n \in touched
                \/ entry[n] \in Requests /\ pc[entry[n]] = "rollback"
<1>3. TypeInv /\ AtomicInv /\ [Next]_vars => \A n \in Names : Goes(n)
  <2> SUFFICES ASSUME TypeInv, AtomicInv, [Next]_vars, NEW n \in Names, entry[n] # None, entry'[n] # entry[n]
               PROVE  /\ entry'[n] = None
                      /\ \/ hostSteps' # hostSteps
                         \/ n \in touched
                         \/ entry[n] \in Requests /\ pc[entry[n]] = "rollback"
    OBVIOUS
  <2>1. ASSUME NEW r \in Requests, Mutation(r)
        PROVE  entry'[n] = None /\ (n \in touched \/ (entry[n] \in Requests /\ pc[entry[n]] = "rollback"))
    <3>1. EntriesBy(r)
      BY <2>1, MutationKeepsAtomic
    <3>2. RollbackFile(r) \/ \A k \in Names : entry'[k] # entry[k] => entry[k] = None
      BY <2>1 DEF Mutation, AcquireMutation, Cancelled, CreateDirectory, OpenDirectory, StageFile,
         StageFails, CheckBatch, Commit, CommitFails, CopyBeside, CopyFails, LinkBeside, CommitDone,
         RollbackDone, Published, TypeInv, TypeOK
    <3>3. pc[r] = "rollback"
      BY <3>2 DEF RollbackFile
    <3> QED BY <3>1, <3>3 DEF EntriesBy
  <2>2. CASE HostStep
    BY <2>2, HfsAssumption DEF HostStep, TypeInv, TypeOK
  <2>3. CASE Crash \/ UNCHANGED vars
    BY <2>3 DEF Crash, vars
  <2> QED BY <2>1, <2>2, <2>3 DEF Next
<1>4. TypeInv /\ AtomicInv /\ [Next]_vars => [\A n \in Names : Goes(n)]_vars
  BY <1>3
<1> QED BY <1>1, <1>2, <1>4, PTL DEF Spec, OnlyOwnFilesGo

-----------------------------------------------------------------------------
(* Staged files                                                            *)

\* The deferred calls of a request remove what it has staged, or try to; a
\* temporary file beside the destination lives for one step.
StagedOf(q) ==
    /\ stagedKept[q] \subseteq staged[q]
    /\ pc[q] \in {"start", "mkdir", "open"} => staged[q] = {}
    /\ pc[q] = "end" => staged[q] = stagedKept[q]
    /\ temp[q] = tempKept[q] \/ pc[q] = "link"
    /\ pc[q] = "link" => temp[q] \ {done[q] + 1} = tempKept[q] \ {done[q] + 1}

StagedInv == \A r \in Requests \ debris : StagedOf(r)

\* An answer tries to remove what is still staged.
LEMMA AnswerUnstages ==
  ASSUME TypeInv, NEW r \in Requests, StagedOf(r), pc[r] # "link", NEW answer,
         NEW unfinished \in SUBSET (1..MaxFiles), AnswerAborting(r, answer, unfinished),
         UNCHANGED <<temp, tempKept>>
  PROVE  StagedOf(r)'
<1>1. pc'[r] = "end" /\ staged'[r] = stagedKept'[r]
  BY AnswerIs DEF Ends, Goto, StagedOf, TypeInv, TypeOK
<1>2. temp'[r] = tempKept'[r]
  BY DEF StagedOf
<1> QED BY <1>1, <1>2 DEF StagedOf

\* A step that leaves the files of its request alone.
LEMMA GotoUnstages ==
  ASSUME TypeInv, NEW r \in Requests, StagedOf(r), pc[r] # "link",
         NEW step \in {"mkdir", "open", "stage", "commit", "copy", "rollback"},
         Goto(r, step), UNCHANGED <<staged, temp, kept>>,
         step \in {"mkdir", "open"} => pc[r] \in {"start", "mkdir", "open"}
  PROVE  StagedOf(r)'
<1>1. pc'[r] = step
  BY DEF Goto, TypeInv, TypeOK
<1> QED BY <1>1 DEF StagedOf, kept

LEMMA MutationUnstages ==
  ASSUME TypeInv, Progress, NEW r \in Requests, StagedOf(r), Mutation(r)
  PROVE  StagedOf(r)'
<1>1. ASSUME NEW answer, Answer(r, answer), UNCHANGED <<temp, tempKept>>, pc[r] # "link"
      PROVE  StagedOf(r)'
  BY <1>1, AnswerUnstages DEF Answer
<1>2. CASE AcquireMutation(r)
  BY <1>2, GotoUnstages DEF AcquireMutation
<1>3. CASE Cancelled(r)
  <2>1. staged[r] = {} /\ stagedKept[r] = {} /\ temp[r] = tempKept[r]
    BY <1>3 DEF Cancelled, StagedOf
  <2>2. pc'[r] = "end" /\ UNCHANGED <<staged, temp, kept>>
    BY <1>3 DEF Cancelled, Goto, TypeInv, TypeOK
  <2> QED BY <2>1, <2>2 DEF StagedOf, kept
<1>4. CASE CreateDirectory(r) \/ CommitDone(r) \/ RollbackDone(r)
  BY <1>1, <1>4 DEF CreateDirectory, CommitDone, RollbackDone
<1>5. CASE OpenDirectory(r)
  BY <1>1, <1>5, GotoUnstages DEF OpenDirectory, kept
<1>6. CASE CheckBatch(r)
  BY <1>1, <1>6, GotoUnstages DEF CheckBatch, kept
<1>7. CASE StageFails(r)
  <2>1. PICK unfinished \in SUBSET ({Len(batch[r]) + 1} \cap 1..MaxFiles) : AnswerAborting(r, "refused", unfinished)
    BY <1>7 DEF StageFails
  <2>2. UNCHANGED <<temp, tempKept>> /\ pc[r] # "link"
    BY <1>7 DEF StageFails
  <2> QED BY <2>1, <2>2, AnswerUnstages
<1>8. CASE StageFile(r)
  <2>1. pc'[r] = "stage" /\ pc[r] = "stage" /\ UNCHANGED <<temp, kept>> /\ staged[r] \subseteq staged'[r]
    BY <1>8 DEF StageFile, TypeInv, TypeOK
  <2> QED BY <2>1 DEF StagedOf, kept
<1>9. CASE Commit(r)
  <2>1. CASE Goto(r, "copy") /\ UNCHANGED <<staged, stagedKept>>
    BY <1>9, <2>1, GotoUnstages DEF Commit, kept
  <2>2. CASE RemoveStaged(r, {done[r] + 1}) /\ pc' = pc
    <3>1. stagedKept'[r] \subseteq staged'[r]
      BY <1>9, <2>2, NextFile, RemoveStagedOf DEF Commit, StagedOf
    <3>2. pc'[r] = "commit" /\ pc[r] = "commit" /\ UNCHANGED <<temp, tempKept>>
      BY <1>9, <2>2 DEF Commit
    <3> QED BY <3>1, <3>2 DEF StagedOf
  <2> QED BY <1>9, <2>1, <2>2 DEF Commit
<1>10. CASE CommitFails(r)
  BY <1>10, GotoUnstages DEF CommitFails
<1>11. CASE CopyBeside(r)
  <2>1. temp[r] = tempKept[r] /\ temp'[r] = temp[r] \cup {done[r] + 1}
    BY <1>11 DEF CopyBeside, StagedOf, TypeInv, TypeOK
  <2>2. pc'[r] = "link" /\ UNCHANGED <<staged, kept, done>>
    BY <1>11 DEF CopyBeside, Goto, TypeInv, TypeOK
  <2> QED BY <2>1, <2>2 DEF StagedOf, kept
<1>12. CASE CopyFails(r)
  <2>1. pc'[r] = "rollback" /\ pc[r] = "copy" /\ UNCHANGED <<staged, stagedKept>>
    BY <1>12 DEF CopyFails, Goto, TypeInv, TypeOK
  <2>2. temp'[r] = tempKept'[r]
    <3>1. temp[r] = tempKept[r] /\ {done[r] + 1} \in SUBSET (1..MaxFiles)
      BY <1>12, <2>1, NextFile DEF StagedOf, Progress, ProgressOf
    <3>2. CASE UNCHANGED <<temp, tempKept>>
      BY <3>1, <3>2
    <3>3. CASE RemoveTemp(r, {done[r] + 1})
      BY <3>1, <3>3, RemoveTempOf
    <3> QED BY <1>12, <3>2, <3>3 DEF CopyFails
  <2> QED BY <2>1, <2>2 DEF StagedOf
<1>13. CASE LinkBeside(r)
  <2>1. {done[r] + 1} \in SUBSET (1..MaxFiles) /\ pc[r] = "link" /\ RemoveTemp(r, {done[r] + 1})
    BY <1>13, NextFile DEF LinkBeside, Progress, ProgressOf
  <2>2. temp'[r] = tempKept'[r]
    <3>1. temp[r] \ {done[r] + 1} = tempKept[r] \ {done[r] + 1}
      BY <2>1 DEF StagedOf
    <3>2. \E still \in SUBSET {done[r] + 1} :
             /\ temp'[r] = (temp[r] \ {done[r] + 1}) \cup still
             /\ tempKept'[r] = (tempKept[r] \ {done[r] + 1}) \cup still
      BY <2>1, RemoveTempOf
    <3> QED BY <3>1, <3>2
  <2>3. pc'[r] \in {"commit", "rollback"}
    BY <1>13 DEF LinkBeside, Goto, TypeInv, TypeOK
  <2>4. stagedKept'[r] \subseteq staged'[r]
    <3>1. CASE UNCHANGED <<staged, stagedKept>>
      BY <3>1 DEF StagedOf
    <3>2. CASE RemoveStaged(r, {done[r] + 1})
      BY <2>1, <3>2, RemoveStagedOf DEF StagedOf
    <3> QED BY <1>13, <3>1, <3>2 DEF LinkBeside
  <2> QED BY <2>2, <2>3, <2>4 DEF StagedOf
<1>14. CASE RollbackFile(r)
  <2>1. pc'[r] = pc[r] /\ pc[r] = "rollback" /\ UNCHANGED <<staged, temp, kept>>
    BY <1>14 DEF RollbackFile
  <2> QED BY <2>1 DEF StagedOf, kept
<1> QED BY <1>2, <1>3, <1>4, <1>5, <1>6, <1>7, <1>8, <1>9, <1>10, <1>11, <1>12, <1>13, <1>14 DEF Mutation

LEMMA StagedInvNext == TypeInv /\ Progress /\ StagedInv /\ [Next]_vars => StagedInv'
<1> SUFFICES ASSUME TypeInv, Progress, StagedInv, [Next]_vars PROVE StagedInv'
  OBVIOUS
<1>1. ASSUME NEW r \in Requests, Mutation(r) PROVE StagedInv'
  <2>1. debris' = debris
    BY <1>1 DEF Mutation, AcquireMutation, Cancelled, CreateDirectory, OpenDirectory, StageFile,
       StageFails, CheckBatch, Commit, CommitFails, CopyBeside, CopyFails, LinkBeside, CommitDone,
       RollbackFile, RollbackDone
  <2>2. r \notin debris => StagedOf(r)'
    BY <1>1, MutationUnstages DEF StagedInv
  <2>3. ASSUME NEW q \in Requests \ debris, q # r PROVE StagedOf(q)'
    <3>1. FilesOf(q)' = FilesOf(q)
      BY <1>1, <2>3, FilesKept
    <3>2. pc'[q] = pc[q] /\ done'[q] = done[q]
      BY <1>1, <2>3, MutationFrame
    <3> QED BY <2>3, <3>1, <3>2 DEF StagedInv, StagedOf, FilesOf
  <2> QED BY <2>1, <2>2, <2>3 DEF StagedInv
<1>2. CASE HostStep
  BY <1>2 DEF HostStep, requestVars, kept, StagedInv, StagedOf
<1>3. CASE Crash
  <2>1. ASSUME NEW q \in Requests \ debris' PROVE StagedOf(q)'
    <3>1. q \notin debris /\ q \notin holders
      BY <1>3, <2>1 DEF Crash
    <3>2. pc[q] \in {"start", "end"}
      BY <3>1 DEF TypeInv, TypeOK
    <3>3. staged[q] = stagedKept[q] /\ temp[q] = tempKept[q]
      BY <3>1, <3>2 DEF StagedInv, StagedOf
    <3>4. pc'[q] = "end" /\ UNCHANGED <<staged, temp, kept>>
      BY <1>3 DEF Crash
    <3> QED BY <3>3, <3>4 DEF StagedOf, kept
  <2> QED BY <2>1 DEF StagedInv
<1>4. CASE UNCHANGED vars
  BY <1>4 DEF vars, requestVars, kept, StagedInv, StagedOf
<1> QED BY <1>1, <1>2, <1>3, <1>4 DEF Next

\* Each staged or temporary file is removed on every way out of its request,
\* unless that removal fails: only a crash leaves files nobody tried to remove.
THEOREM EveryExitRemoves == Spec => []NothingStaysStaged
<1>1. Init => TypeInv /\ AtomicInv /\ StagedInv
  BY TypeInvInit, AtomicInvInit DEF Init, StagedInv, StagedOf
<1>2. TypeInv /\ AtomicInv /\ StagedInv /\ [Next]_vars => (TypeInv /\ AtomicInv /\ StagedInv)'
  BY TypeInvNext, AtomicInvNext, StagedInvNext DEF AtomicInv
<1>3. StagedInv => NothingStaysStaged
  <2>1. ASSUME NEW q \in Requests, StagedOf(q)
        PROVE  /\ pc[q] \in {"start", "end"} => staged[q] = stagedKept[q]
               /\ pc[q] # "link" => temp[q] = tempKept[q]
    BY <2>1 DEF StagedOf
  <2> QED BY <2>1 DEF StagedInv, NothingStaysStaged
<1> QED BY <1>1, <1>2, <1>3, PTL DEF Spec

====
