---------------------------- MODULE StructureScan ----------------------------
(***************************************************************************)
(* The protection of a structure's blocks in the rooms that were built from *)
(* it (gameComponent/region/structureProtector.ts) and the cache of block   *)
(* masks the rooms share (gameStructure/structureBlockMask.ts).             *)
(*                                                                          *)
(* One structure, whose blocks are numbered in the order of the scan.  A    *)
(* scan is a job of its room: it runs a batch of blocks at a time, and is   *)
(* cancelled when the room's component is detached.  A room is protected    *)
(* once it has a mask.  The rules of a game (allowBreak, allowPlace) and    *)
(* the players they apply to only add cancellations and are left out.       *)
(***************************************************************************)
EXTENDS Naturals

CONSTANTS
  Rooms,
  Size,     \* number of blocks
  Batch,    \* batchSize
  None,
  Careful   \* the structure is saved anew only while no scan is under way

Blocks == 0..Size - 1

ScanAssumption ==
  /\ Size \in Nat \ {0} /\ Batch \in Nat \ {0}
  /\ None \notin Nat /\ (\A found \in SUBSET Blocks : found # None) /\ Careful \in BOOLEAN

VARIABLES
  template,  \* the blocks of the structure that are not air
  mask,      \* StructureBlockMaskCache.masks for it
  jobs,      \* per room: the scan, None, or where it is and what it has found
  guarded,   \* per room: is the component attached
  scanned,   \* per room: StructureProtector.scanned
  intact,    \* per room: the original blocks that stand
  owed       \* history: the original blocks that stood when the room became ready, until the
             \* structure is saved anew; without those whose rollback failed

vars == <<template, mask, jobs, guarded, scanned, intact, owed>>

Waiting == [at |-> None, found |-> {}]

Init ==
  /\ template \in SUBSET Blocks /\ mask = None
  /\ jobs = [r \in Rooms |-> None] /\ guarded = [r \in Rooms |-> FALSE]
  /\ scanned = [r \in Rooms |-> None]
  /\ intact = [r \in Rooms |-> template] /\ owed = [r \in Rooms |-> {}]

\* onReady of the scan: a component that has been detached does not take the mask.
Ready(r, found) ==
  /\ scanned' = IF guarded[r] THEN [scanned EXCEPT ![r] = found] ELSE scanned
  /\ owed' = IF guarded[r] THEN [owed EXCEPT ![r] = intact[r] \intersect found] ELSE owed

\* onAttach() of a room just built: the scan is a job.
Attach(r) ==
  /\ ~guarded[r] /\ jobs[r] = None
  /\ guarded' = [guarded EXCEPT ![r] = TRUE] /\ jobs' = [jobs EXCEPT ![r] = Waiting]
  /\ intact' = [intact EXCEPT ![r] = template]
  /\ UNCHANGED <<template, mask, scanned, owed>>

\* onDetach(): the job is cancelled and never runs to its end.
Detach(r) ==
  /\ guarded[r]
  /\ guarded' = [guarded EXCEPT ![r] = FALSE] /\ jobs' = [jobs EXCEPT ![r] = None]
  /\ scanned' = [scanned EXCEPT ![r] = None] /\ owed' = [owed EXCEPT ![r] = {}]
  /\ UNCHANGED <<template, mask, intact>>

\* The job runs: a mask that is cached is used, otherwise the blocks are walked.
ScanBegins(r) ==
  /\ jobs[r] = Waiting
  /\ IF mask # None THEN Ready(r, mask) /\ jobs' = [jobs EXCEPT ![r] = None]
     ELSE jobs' = [jobs EXCEPT ![r] = [at |-> 0, found |-> {}]] /\ UNCHANGED <<scanned, owed>>
  /\ UNCHANGED <<template, mask, guarded, intact>>

UpTo(n) == IF n + Batch < Size THEN n + Batch ELSE Size

Found(r) ==
  jobs[r].found \union {b \in template : jobs[r].at <= b /\ b < UpTo(jobs[r].at)}

\* Mutant: a mask is cached while its scan goes on.
ScanBatchPublishes(r) ==
  /\ jobs[r] \notin {None, Waiting} /\ jobs[r].at < Size
  /\ jobs' = [jobs EXCEPT ![r] = [at |-> UpTo(jobs[r].at), found |-> Found(r)]]
  /\ mask' = Found(r)
  /\ UNCHANGED <<template, guarded, scanned, intact, owed>>

\* A batch, after which the job yields.
ScanBatch(r) ==
  /\ jobs[r] \notin {None, Waiting} /\ jobs[r].at < Size
  /\ jobs' = [jobs EXCEPT ![r] = [at |-> UpTo(jobs[r].at), found |-> Found(r)]]
  /\ UNCHANGED <<template, mask, guarded, scanned, intact, owed>>

ScanEnds(r) ==
  /\ jobs[r] \notin {None, Waiting} /\ jobs[r].at = Size
  /\ mask' = jobs[r].found /\ Ready(r, jobs[r].found)
  /\ jobs' = [jobs EXCEPT ![r] = None]
  /\ UNCHANGED <<template, guarded, intact>>

\* Game code saves the structure anew under its name and has the cache forget it.
SaveAnew(t) ==
  /\ Careful => \A r \in Rooms : jobs[r] \in {None, Waiting}
  /\ template' = t /\ mask' = None /\ owed' = [r \in Rooms |-> {}]
  /\ UNCHANGED <<jobs, guarded, scanned, intact>>

Original(r, b) == scanned[r] # None /\ b \in scanned[r]

\* A player breaks a block: cancelled before it happens if it is one of the structure's.
Break(r, b) ==
  /\ ~(guarded[r] /\ Original(r, b))
  /\ intact' = [intact EXCEPT ![r] = @ \ {b}]
  /\ UNCHANGED <<template, mask, jobs, guarded, scanned, owed>>

\* A player builds over a block: a placement over one of the structure's is rolled back
\* afterwards, to the block the structure has there, or to air if it has none any more.
Place(r, b) ==
  /\ intact' = [intact EXCEPT ![r] =
       IF guarded[r] /\ Original(r, b) /\ b \in template THEN @ \union {b} ELSE @ \ {b}]
  /\ UNCHANGED <<template, mask, jobs, guarded, scanned, owed>>

\* setPermutation() throws (the chunk was unloaded), which is caught: the block built over
\* stays as it is until the map is reset.
RollbackFails(r, b) ==
  /\ guarded[r] /\ Original(r, b)
  /\ intact' = [intact EXCEPT ![r] = @ \ {b}] /\ owed' = [owed EXCEPT ![r] = @ \ {b}]
  /\ UNCHANGED <<template, mask, jobs, guarded, scanned>>

Next ==
  \/ \E r \in Rooms :
       \/ Attach(r) \/ Detach(r) \/ ScanBegins(r) \/ ScanBatch(r) \/ ScanEnds(r)
       \/ \E b \in Blocks : Break(r, b) \/ Place(r, b) \/ RollbackFails(r, b)
  \/ \E t \in SUBSET Blocks : SaveAnew(t)

Spec == Init /\ [][Next]_vars

-----------------------------------------------------------------------------
(* Properties *)

\* Nobody gets a mask that was scanned half: what is cached is the structure as it was saved
\* last, whoever was cancelled meanwhile (structureBlockMask.ts:94-97).
MaskIsWhole == mask # None => mask = template

\* From when a room is ready, what stands of the structure stays, as long as the structure is
\* there to restore it from (structureProtector.ts:62-70) and restoring it does not fail
\* (261-266).
OwedStands == \A r \in Rooms : owed[r] \subseteq intact[r]

RoomsAreProtected == MaskIsWhole /\ OwedStands
=============================================================================
