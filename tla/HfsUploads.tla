------------------------------ MODULE HfsUploads ------------------------------
(***************************************************************************)
(* Mutations of a file-browser directory (internal/httpapi HFSWriteHandler,*)
(* internal/hfs Registry, internal/storage StagedFile): a request holds one*)
(* of the mutation slots, stages its files under tmp and publishes them one*)
(* by one without replacement, across file systems through a temporary file*)
(* beside the destination. A failure takes the published ones back.        *)
(*                                                                         *)
(* Abstractions: one directory, which may be missing, of a writable root;  *)
(* an entry is the request that published it, or Host for a file whose     *)
(* owner manages the directory by other means; names are distinct after    *)
(* lower-casing exactly if they are different.                             *)
(***************************************************************************)
EXTENDS Naturals, Sequences, FiniteSets

CONSTANTS
    Requests,      \* mutation requests
    Names,         \* file names
    Host,          \* whoever manages the directory outside the application
    None,          \* no entry
    MaxMutations,  \* DefaultMaxMutations
    MaxFiles,      \* the limit on the files of one request
    MaxHostSteps,  \* bound: what the owner of the directory does meanwhile
    MaxCrashes,    \* bound: crashes
    MaxUnremoved   \* bound: requests some of whose files cannot be removed

ASSUME HfsAssumption ==
    /\ Host \notin Requests
    /\ None \notin Requests \cup {Host}
    /\ MaxMutations \in Nat \ {0}
    /\ MaxFiles \in Nat \ {0}
    /\ MaxHostSteps \in Nat
    /\ MaxCrashes \in Nat
    /\ MaxUnremoved \in Nat

VARIABLES
    directory,  \* does the directory exist?
    entry,      \* name -> who published the file there, or None
    across,     \* is tmp on another file system than the directory?
    holders,    \* the requests that hold a mutation slot
    pc,         \* request -> its next step
    batch,      \* request -> the names of its files, in order
    staged,     \* request -> the files of its batch that are under tmp
    done,       \* request -> how many files it has published
    temp,       \* request -> the files of its batch that have a temporary file
                \* beside the destination
    undone,     \* request -> did every step of its roll back succeed?
    reply,      \* request -> what it was told
    touched,    \* names the owner of the directory removed (history)
    debris,     \* requests a crash interrupted (history)
    stagedKept, \* request -> the staged files whose removal failed (history)
    tempKept,   \* request -> the temporary files whose removal failed (history)
    hostSteps,
    crashes

bounds == <<hostSteps, crashes>>
requestVars == <<pc, batch, staged, done, undone, reply>>
kept == <<stagedKept, tempKept>>
vars == <<directory, entry, across, holders, requestVars, temp, touched, debris, kept, bounds>>

Steps == {"start", "mkdir", "open", "stage", "commit", "copy", "link", "rollback", "end"}

\* Every variable has its type, and at most MaxMutations requests are between
\* the moment they got a slot and their answer ("At most two HFS mutations
\* stage or publish concurrently across all roots").
TypeOK ==
    /\ directory \in BOOLEAN
    /\ entry \in [Names -> Requests \cup {Host, None}]
    /\ ~directory => \A n \in Names : entry[n] = None
    /\ across \in BOOLEAN
    /\ holders \subseteq Requests
    /\ Cardinality({r \in Requests : pc[r] \notin {"start", "end"}}) <= MaxMutations
    /\ holders = {r \in Requests : pc[r] \notin {"start", "end"}}
    /\ pc \in [Requests -> Steps]
    /\ batch \in [Requests -> Seq(Names)]
    /\ staged \in [Requests -> SUBSET (1..MaxFiles)]
    /\ done \in [Requests -> 0..MaxFiles]
    /\ \A r \in Requests : done[r] <= Len(batch[r]) /\ Len(batch[r]) <= MaxFiles
    /\ temp \in [Requests -> SUBSET (1..MaxFiles)]
    /\ undone \in [Requests -> BOOLEAN]
    /\ reply \in [Requests -> {"none", "ok", "refused", "rollbackFailed", "lost"}]
    /\ touched \subseteq Names
    /\ debris \subseteq Requests
    /\ stagedKept \in [Requests -> SUBSET (1..MaxFiles)]
    /\ tempKept \in [Requests -> SUBSET (1..MaxFiles)]
    /\ hostSteps \in 0..MaxHostSteps
    /\ crashes \in 0..MaxCrashes

Init ==
    /\ directory \in BOOLEAN
    /\ entry \in [Names -> {Host, None}]
    /\ ~directory => \A n \in Names : entry[n] = None
    /\ across \in BOOLEAN
    /\ holders = {}
    /\ pc = [r \in Requests |-> "start"]
    /\ batch = [r \in Requests |-> <<>>]
    /\ staged = [r \in Requests |-> {}]
    /\ done = [r \in Requests |-> 0]
    /\ temp = [r \in Requests |-> {}]
    /\ undone = [r \in Requests |-> TRUE]
    /\ reply = [r \in Requests |-> "none"]
    /\ touched = {}
    /\ debris = {}
    /\ stagedKept = [r \in Requests |-> {}]
    /\ tempKept = [r \in Requests |-> {}]
    /\ hostSteps = 0
    /\ crashes = 0

Goto(r, step) == pc' = [pc EXCEPT ![r] = step]

\* Mutant: a failure before publication forgets the staged files.
AnswerKeepsStaged(r, answer) ==
    /\ Goto(r, "end")
    /\ reply' = [reply EXCEPT ![r] = answer]
    /\ UNCHANGED <<staged, stagedKept>>
    /\ holders' = holders \ {r}

\* The bound leaves room for files of the request that stay.
MayKeep(r) ==
    Cardinality({q \in Requests \ {r} : stagedKept[q] \cup tempKept[q] # {}}) < MaxUnremoved

\* os.Remove on staged files. Its error is dropped: any of them may stay, and
\* nobody removes it again.
RemoveStaged(r, files) ==
    \E still \in SUBSET files :
        /\ still # {} => MayKeep(r)
        /\ staged' = [staged EXCEPT ![r] = (@ \ files) \cup still]
        /\ stagedKept' = [stagedKept EXCEPT ![r] = (@ \ files) \cup still]

\* The same for temporary files beside the destination.
RemoveTemp(r, files) ==
    \E still \in SUBSET files :
        /\ still # {} => MayKeep(r)
        /\ temp' = [temp EXCEPT ![r] = (@ \ files) \cup still]
        /\ tempKept' = [tempKept EXCEPT ![r] = (@ \ files) \cup still]

\* The handler answers; its deferred calls abort what is neither published nor
\* aborted, a file it was still staging too, and give the slot back.
AnswerAborting(r, answer, unfinished) ==
    /\ Goto(r, "end")
    /\ reply' = [reply EXCEPT ![r] = answer]
    /\ RemoveStaged(r, (staged[r] \ stagedKept[r]) \cup unfinished)
    /\ holders' = holders \ {r}

Answer(r, answer) == AnswerAborting(r, answer, {})

-----------------------------------------------------------------------------
(* HFSWriteHandler.ServeHTTP                                               *)

\* Mutant: the slots are counted one short.
HasSlotOneMore == Cardinality(holders) <= MaxMutations

HasSlot == Cardinality(holders) < MaxMutations

AcquireMutation(r) ==
    /\ pc[r] = "start" /\ HasSlot
    /\ holders' = holders \cup {r}
    /\ Goto(r, "mkdir") \/ Goto(r, "open")
    /\ UNCHANGED <<directory, entry, across, batch, staged, done, temp, undone, reply, touched, debris, kept, bounds>>

\* The request is cancelled while it waits for a slot.
Cancelled(r) ==
    /\ pc[r] = "start"
    /\ Goto(r, "end")
    /\ reply' = [reply EXCEPT ![r] = "refused"]
    /\ UNCHANGED <<directory, entry, across, holders, batch, staged, done, temp, undone, touched, debris, kept, bounds>>

\* An existing directory is refused; the parent may be gone, or mkdir fails.
CreateDirectory(r) ==
    /\ pc[r] = "mkdir"
    /\ \/ ~directory /\ directory' = TRUE /\ Answer(r, "ok")
       \/ UNCHANGED directory /\ Answer(r, "refused")
    /\ UNCHANGED <<entry, across, batch, done, temp, tempKept, undone, touched, debris, bounds>>

OpenDirectory(r) ==
    /\ pc[r] = "open"
    /\ \/ directory /\ Goto(r, "stage") /\ UNCHANGED <<reply, staged, stagedKept, holders>>
       \/ ~directory /\ Answer(r, "refused")
    /\ UNCHANGED <<directory, entry, across, batch, done, temp, tempKept, undone, touched, debris, bounds>>

\* readMultipart stages one more file.
StageFile(r) ==
    /\ pc[r] = "stage" /\ Len(batch[r]) < MaxFiles
    /\ \E n \in Names : batch' = [batch EXCEPT ![r] = Append(@, n)]
    /\ staged' = [staged EXCEPT ![r] = @ \cup {Len(batch[r]) + 1}]
    /\ UNCHANGED <<directory, entry, across, holders, pc, done, temp, undone, reply, touched, debris, kept, bounds>>

\* The body ends badly, a file is too large, too many or badly named.
StageFails(r) ==
    /\ pc[r] = "stage"
    /\ \E unfinished \in SUBSET ({Len(batch[r]) + 1} \cap 1..MaxFiles) :
          AnswerAborting(r, "refused", unfinished)
    /\ UNCHANGED <<directory, entry, across, batch, done, temp, tempKept, undone, touched, debris, bounds>>

HasDuplicate(r) == \E i, j \in 1..Len(batch[r]) : i # j /\ batch[r][i] = batch[r][j]

\* CommitFiles looks at the directory and at the names before it publishes.
CheckBatch(r) ==
    /\ pc[r] = "stage" /\ batch[r] # <<>>
    /\ \/ directory /\ ~HasDuplicate(r) /\ Goto(r, "commit") /\ UNCHANGED <<reply, staged, stagedKept, holders>>
       \/ /\ ~directory \/ HasDuplicate(r)
          /\ Answer(r, "refused")
    /\ UNCHANGED <<directory, entry, across, batch, done, temp, tempKept, undone, touched, debris, bounds>>

-----------------------------------------------------------------------------
(* CommitFiles, CommitAbsolute and rollbackFiles                           *)

Target(r) == batch[r][done[r] + 1]

\* The next file is in the directory and no longer under tmp.
Published(r) ==
    /\ entry' = [entry EXCEPT ![Target(r)] = r]
    /\ done' = [done EXCEPT ![r] = @ + 1]

\* A hard link publishes the staged file; none is possible across file
\* systems, where the bytes are copied first.
Commit(r) ==
    /\ pc[r] = "commit" /\ done[r] < Len(batch[r])
    /\ directory /\ entry[Target(r)] = None
    /\ \/ /\ ~across
          /\ Published(r)
          /\ RemoveStaged(r, {done[r] + 1})
          /\ UNCHANGED pc
       \/ /\ across
          /\ Goto(r, "copy")
          /\ UNCHANGED <<entry, done, staged, stagedKept>>
    /\ UNCHANGED <<directory, across, holders, batch, temp, tempKept, undone, reply, touched, debris, bounds>>

\* The destination exists, the directory is gone, or a call fails.
CommitFails(r) ==
    /\ pc[r] = "commit" /\ done[r] < Len(batch[r])
    /\ Goto(r, "rollback")
    /\ UNCHANGED <<directory, entry, across, holders, batch, staged, done, temp, undone, reply, touched, debris, kept, bounds>>

CopyBeside(r) ==
    /\ pc[r] = "copy" /\ directory
    /\ temp' = [temp EXCEPT ![r] = @ \cup {done[r] + 1}]
    /\ Goto(r, "link")
    /\ UNCHANGED <<directory, entry, across, holders, batch, staged, done, undone, reply, touched, debris, kept, bounds>>

\* There is no temporary file, or a deferred call removes the unfinished one.
CopyFails(r) ==
    /\ pc[r] = "copy"
    /\ Goto(r, "rollback")
    /\ \/ UNCHANGED <<temp, tempKept>>
       \/ directory /\ RemoveTemp(r, {done[r] + 1})
    /\ UNCHANGED <<directory, entry, across, holders, batch, staged, stagedKept, done, undone, reply, touched, debris, bounds>>

\* Mutant: the temporary file is renamed over the destination.
LinkBesideReplaces(r) ==
    /\ pc[r] = "link"
    /\ RemoveTemp(r, {done[r] + 1})
    /\ \/ /\ directory
          /\ Published(r)
          /\ RemoveStaged(r, {done[r] + 1})
          /\ Goto(r, "commit")
       \/ /\ Goto(r, "rollback")
          /\ UNCHANGED <<entry, done, staged, stagedKept>>
    /\ UNCHANGED <<directory, across, holders, batch, undone, reply, touched, debris, bounds>>

\* The temporary file is linked to the name if nobody has taken it meanwhile,
\* and a deferred call removes it in any case.
LinkBeside(r) ==
    /\ pc[r] = "link"
    /\ RemoveTemp(r, {done[r] + 1})
    /\ \/ /\ directory /\ entry[Target(r)] = None
          /\ Published(r)
          /\ RemoveStaged(r, {done[r] + 1})
          /\ Goto(r, "commit")
       \/ /\ Goto(r, "rollback")
          /\ UNCHANGED <<entry, done, staged, stagedKept>>
    /\ UNCHANGED <<directory, across, holders, batch, undone, reply, touched, debris, bounds>>

CommitDone(r) ==
    /\ pc[r] = "commit" /\ done[r] = Len(batch[r])
    /\ Answer(r, "ok")
    /\ UNCHANGED <<directory, entry, across, batch, done, temp, tempKept, undone, touched, debris, bounds>>

\* The last published file is removed by its name; a file that is gone, or
\* that cannot be removed, makes the roll back a failed one.
RollbackFile(r) ==
    /\ pc[r] = "rollback" /\ done[r] > 0
    /\ done' = [done EXCEPT ![r] = @ - 1]
    /\ \/ /\ entry[batch[r][done[r]]] # None
          /\ entry' = [entry EXCEPT ![batch[r][done[r]]] = None]
          /\ UNCHANGED undone
       \/ /\ undone' = [undone EXCEPT ![r] = FALSE]
          /\ UNCHANGED entry
    /\ UNCHANGED <<directory, across, holders, pc, batch, staged, temp, reply, touched, debris, kept, bounds>>

\* Mutant: the loop stops before the first file.
RollbackDoneEarly(r) ==
    /\ pc[r] = "rollback" /\ done[r] <= 1
    /\ Answer(r, IF undone[r] THEN "refused" ELSE "rollbackFailed")
    /\ UNCHANGED <<directory, entry, across, batch, done, temp, tempKept, undone, touched, debris, bounds>>

RollbackDone(r) ==
    /\ pc[r] = "rollback" /\ done[r] = 0
    /\ Answer(r, IF undone[r] THEN "refused" ELSE "rollbackFailed")
    /\ UNCHANGED <<directory, entry, across, batch, done, temp, tempKept, undone, touched, debris, bounds>>

-----------------------------------------------------------------------------
\* The owner of the directory adds or removes a file.
HostStep ==
    /\ hostSteps < MaxHostSteps
    /\ hostSteps' = hostSteps + 1
    /\ \E n \in Names :
          \/ /\ directory /\ entry[n] = None
             /\ entry' = [entry EXCEPT ![n] = Host]
             /\ UNCHANGED <<directory, touched>>
          \/ /\ entry[n] # None
             /\ entry' = [entry EXCEPT ![n] = None]
             /\ touched' = touched \cup {n}
             /\ UNCHANGED directory
          \/ /\ directory /\ (\A q \in Requests : temp[q] = {}) /\ \A k \in Names : entry[k] = None
             /\ directory' = FALSE
             /\ UNCHANGED <<entry, touched>>
    /\ UNCHANGED <<across, holders, requestVars, temp, debris, kept, crashes>>

\* The process dies: what is staged or half copied stays where it is.
Crash ==
    /\ crashes < MaxCrashes
    /\ crashes' = crashes + 1
    /\ debris' = debris \cup holders
    /\ reply' = [r \in Requests |-> IF reply[r] = "none" THEN "lost" ELSE reply[r]]
    /\ pc' = [r \in Requests |-> "end"]
    /\ holders' = {}
    /\ UNCHANGED <<directory, entry, across, batch, staged, done, temp, undone, touched, kept, hostSteps>>

Mutation(r) ==
    \/ AcquireMutation(r) \/ Cancelled(r) \/ CreateDirectory(r) \/ OpenDirectory(r)
    \/ StageFile(r) \/ StageFails(r) \/ CheckBatch(r)
    \/ Commit(r) \/ CommitFails(r) \/ CopyBeside(r) \/ CopyFails(r) \/ LinkBeside(r)
    \/ CommitDone(r) \/ RollbackFile(r) \/ RollbackDone(r)

Next == HostStep \/ Crash \/ \E r \in Requests : Mutation(r)

Spec == Init /\ [][Next]_vars

-----------------------------------------------------------------------------
NamesOf(r) == {batch[r][i] : i \in 1..Len(batch[r])}

\* A batch is published as a whole or not at all: an accepted one is complete,
\* and a refused one has left nothing behind, whatever other requests did
\* with the same names meanwhile. Files the owner removed are apart.
BatchIsAtomic ==
    \A r \in Requests : \A n \in NamesOf(r) \ touched :
        /\ reply[r] = "ok" => entry[n] = r
        /\ reply[r] = "refused" => entry[n] # r

\* A file is replaced by none, and only its own request or the owner of the
\* directory takes it away ("rolls back only files created by that request").
OnlyOwnFilesGo ==
    [][\A n \in Names : entry[n] # None /\ entry'[n] # entry[n] =>
          /\ entry'[n] = None
          /\ \/ hostSteps' # hostSteps
             \/ n \in touched
             \/ entry[n] \in Requests /\ pc[entry[n]] = "rollback"]_vars

\* On every way out of a request each staged file has been removed, and beside
\* the destination each temporary file, or its removal was tried and failed
\* (the code drops that error): only a crash leaves files nobody tried to remove.
NothingStaysStaged ==
    \A r \in Requests \ debris :
        /\ pc[r] \in {"start", "end"} => staged[r] = stagedKept[r]
        /\ pc[r] # "link" => temp[r] = tempKept[r]

=============================================================================
