-------------------------- MODULE ImageCacheProof --------------------------
(***************************************************************************)
(* Proofs about ImageCache, for any number of concurrent requests, crashes *)
(* and damaged files: the flight excludes a second transformation, and a   *)
(* file without a row has an owner that is about to settle it, or was left *)
(* by a crash or by a removal that failed.                                 *)
(***************************************************************************)
EXTENDS ImageCache, TLAPS

Inv == TypeOK /\ OneTransformation /\ LooseFileHasOwner

LEMMA InvInit == Init => Inv
<1> SUFFICES ASSUME Init PROVE Inv
  OBVIOUS
<1>1. row \in BOOLEAN
  BY Zenon DEF Init
<1>2. TypeOK
  BY <1>1, ImageCacheAssumption DEF Init, TypeOK, Steps
<1>3. OneTransformation /\ LooseFileHasOwner
  BY DEF Init, OneTransformation, LeaderSteps, LooseFileHasOwner
<1> QED BY <1>2, <1>3 DEF Inv

\* A step of one request keeps the flight exclusive.
LEMMA StepKeepsFlight ==
  ASSUME Inv, NEW r \in Requests, Start(r) \/ Step(r) \/ GiveUp(r)
  PROVE  TypeOK' /\ OneTransformation'
<1> USE ImageCacheAssumption DEF Inv, TypeOK, OneTransformation, Steps, LeaderSteps, Leads
<1>1. CASE Start(r) \/ GiveUp(r)
  BY <1>1 DEF Start, GiveUp, Goto
<1>2. CASE LoadRow(r)
  BY <1>2 DEF LoadRow, Goto, Miss, Return
<1>3. CASE ReadFile(r)
  BY <1>3 DEF ReadFile, Goto, Return
<1>4. CASE InvalidateRow(r)
  <2>1. CASE row' = FALSE /\ Goto(r, "deleteFile")
    BY <1>4, <2>1 DEF InvalidateRow, Goto
  <2>2. CASE row' = row /\ Return(r)
    BY <1>4, <2>2 DEF InvalidateRow, Goto, Return
  <2> QED BY <1>4, <2>1, <2>2 DEF InvalidateRow
<1>5. CASE InvalidateFile(r)
  <2>1. CASE Removed /\ Miss(r)
    BY <1>5, <2>1 DEF InvalidateFile, Removed, Goto, Miss
  <2>2. CASE Unremoved /\ Return(r)
    BY <1>5, <2>2 DEF InvalidateFile, Unremoved, Goto, Return
  <2> QED BY <1>5, <2>1, <2>2 DEF InvalidateFile
<1>6. CASE Join(r)
  BY <1>6 DEF Join, Goto
<1>7. CASE Land(r)
  BY <1>7 DEF Land
<1>8. CASE Transform(r) \/ Publish(r)
  BY <1>8 DEF Transform, Publish, Goto
<1>9. CASE InsertRow(r)
  <2>1. CASE ~row /\ row' = TRUE /\ left' = None /\ Goto(r, "land")
    BY <1>9, <2>1 DEF InsertRow, Goto
  <2>2. CASE UNCHANGED <<row, left>> /\ Goto(r, "rollback")
    BY <1>9, <2>2 DEF InsertRow, Goto
  <2> QED BY <1>9, <2>1, <2>2 DEF InsertRow
<1>10. CASE Rollback(r)
  <2>1. CASE Removed
    BY <1>10, <2>1 DEF Rollback, Removed, Goto
  <2>2. CASE Unremoved
    BY <1>10, <2>2 DEF Rollback, Unremoved, Goto
  <2> QED BY <1>10, <2>1, <2>2 DEF Rollback
<1> QED BY <1>1, <1>2, <1>3, <1>4, <1>5, <1>6, <1>7, <1>8, <1>9, <1>10 DEF Step

\* A step of one request keeps every loose file owned.
LEMMA StepKeepsOwner ==
  ASSUME Inv, NEW r \in Requests, Start(r) \/ Step(r) \/ GiveUp(r)
  PROVE  LooseFileHasOwner'
<1> USE DEF Inv, TypeOK, LooseFileHasOwner
<1>1. CASE Start(r) \/ GiveUp(r)
  BY <1>1 DEF Start, GiveUp, Goto
<1>2. CASE LoadRow(r)
  BY <1>2 DEF LoadRow, Goto, Miss, Return
<1>3. CASE ReadFile(r)
  BY <1>3 DEF ReadFile, Goto, Return
<1>4. CASE InvalidateRow(r)
  BY <1>4 DEF InvalidateRow, Goto, Return
<1>5. CASE InvalidateFile(r)
  <2>1. CASE Removed /\ Miss(r)
    BY <1>5, <2>1 DEF InvalidateFile, Removed, Goto, Miss
  <2>2. CASE Unremoved /\ Return(r)
    BY <1>5, <2>2, ImageCacheAssumption DEF InvalidateFile, Unremoved, Goto, Return
  <2> QED BY <1>5, <2>1, <2>2 DEF InvalidateFile
<1>6. CASE Join(r)
  BY <1>6 DEF Join, Goto
<1>7. CASE Land(r)
  BY <1>7 DEF Land
<1>8. CASE Transform(r) \/ Publish(r)
  BY <1>8 DEF Transform, Publish, Goto
<1>9. CASE InsertRow(r)
  BY <1>9 DEF InsertRow, Goto
<1>10. CASE Rollback(r)
  <2>1. CASE Removed
    BY <1>10, <2>1 DEF Rollback, Removed, Goto
  <2>2. CASE Unremoved
    BY <1>10, <2>2, ImageCacheAssumption DEF Rollback, Unremoved, Goto
  <2> QED BY <1>10, <2>1, <2>2 DEF Rollback
<1> QED BY <1>1, <1>2, <1>3, <1>4, <1>5, <1>6, <1>7, <1>8, <1>9, <1>10 DEF Step

LEMMA InvNext == Inv /\ [Next]_vars => Inv'
<1> SUFFICES ASSUME Inv, [Next]_vars PROVE Inv'
  OBVIOUS
<1>1. ASSUME NEW r \in Requests, Start(r) \/ Step(r) \/ GiveUp(r) PROVE Inv'
  BY <1>1, StepKeepsFlight, StepKeepsOwner DEF Inv
<1>2. CASE Damage
  BY <1>2, ImageCacheAssumption DEF Damage, Inv, TypeOK, OneTransformation, LooseFileHasOwner
<1>3. CASE Crash
  BY <1>3, ImageCacheAssumption
     DEF Crash, Inv, TypeOK, Steps, LeaderSteps, OneTransformation, LooseFileHasOwner
<1>4. CASE UNCHANGED vars
  BY <1>4 DEF vars, Inv, TypeOK, OneTransformation, LooseFileHasOwner
<1> QED BY <1>1, <1>2, <1>3, <1>4 DEF Next

LEMMA Invariance == Spec => []Inv
  BY InvInit, InvNext, PTL DEF Spec

\* The types, and that nobody waits for a flight that has ended.
THEOREM TypeCorrect == Spec => []TypeOK
<1>1. Inv => TypeOK
  BY DEF Inv
<1> QED BY <1>1, Invariance, PTL

\* Concurrent misses of one key lead to one transformation.
THEOREM SingleFlight == Spec => []OneTransformation
<1>1. Inv => OneTransformation
  BY DEF Inv
<1> QED BY <1>1, Invariance, PTL

\* Only a crash, or a removal that failed, leaves a file without a row behind,
\* the state in which the key can never be cached again.
THEOREM LooseFilesAreOwned == Spec => []LooseFileHasOwner
<1>1. Inv => LooseFileHasOwner
  BY DEF Inv
<1> QED BY <1>1, Invariance, PTL

=============================================================================
