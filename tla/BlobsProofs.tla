----------------------------- MODULE BlobsProofs -----------------------------
(***************************************************************************)
(* Proofs about Blobs, for any number of pins: what a run may change of    *)
(* the directory and of its manifest, and what its exit code says.         *)
(***************************************************************************)
EXTENDS Blobs, TLAPS

Done(p) == reports[p] \in {"written", "present"}

\* A file under the name of the pin being fetched was put there meanwhile.
NothingThere ==
  pc \in {"fetch", "part"} =>
    \A p \in Pins : First(p) => held[p] = None \/ p \in touched

\* A good report is of a file that holds, until it is touched, the pin's bytes.
ReportsHold == \A p \in Pins \ touched : Done(p) => held[p] = "pinned"

\* The manifest about to be written adds to the one there, and lists every pin
\* that was put or found.
LinesHold ==
  pc = "manifest" =>
    /\ manifest \subseteq lines
    /\ \A p \in targets \ touched : Done(p) => p \in lines

RunningHasNoCode == pc # "idle" => code = None

IInv ==
  /\ TypeOK
  /\ NothingThere
  /\ ReportsHold
  /\ LinesHold
  /\ RunningHasNoCode
  /\ GreenRunsAreComplete

ActionProperties ==
  Run => /\ \A p \in Pins :
              held'[p] # held[p] =>
                held'[p] = "pinned" /\ (held[p] = None \/ p \in touched)
         /\ manifest \subseteq manifest'

LEMMA InitHolds == Init => IInv
  BY BlobsAssumption DEF Init, IInv, TypeOK, NothingThere, ReportsHold, Done, LinesHold,
         RunningHasNoCode, GreenRunsAreComplete, Lines, Contents, Statuses

\* A run begins.
LEMMA StartHolds == IInv /\ Start => IInv' /\ ActionProperties
  BY BlobsAssumption DEF Start, IInv, TypeOK, NothingThere, ReportsHold, Done, LinesHold,
         RunningHasNoCode, GreenRunsAreComplete, ActionProperties, Statuses

\* The steps that deal with one pin.
LEMMA PinHolds ==
  ASSUME NEW p \in Pins, IInv, Found(p) \/ NotAsked(p) \/ Ask(p) \/ Fetch(p) \/ Keep(p)
  PROVE  IInv' /\ ActionProperties
<1> USE DEF IInv
<1>1. pc # "idle" /\ code = None /\ code' = None /\ manifest' = manifest
      /\ lines' = lines /\ pc' # "manifest" /\ targets' = targets /\ kind' = kind
  BY DEF Found, NotAsked, Ask, Fetch, Keep, Report, RunningHasNoCode
<1>2. GreenRunsAreComplete'
  BY <1>1, BlobsAssumption DEF GreenRunsAreComplete
<1>3. CASE Found(p)
  <2>1. TypeOK'
    BY <1>1, <1>3 DEF Found, Report, TypeOK, Statuses
  <2>2. ReportsHold'
    BY <1>1, <1>3 DEF Found, Report, TypeOK, ReportsHold, Done
  <2> QED
    BY <1>1, <1>2, <1>3, <2>1, <2>2 DEF Found, Report, NothingThere, LinesHold,
       RunningHasNoCode, ActionProperties
<1>4. CASE NotAsked(p)
  <2>1. TypeOK'
    BY <1>1, <1>4 DEF NotAsked, Report, TypeOK, Statuses
  <2>2. ReportsHold'
    BY <1>1, <1>4 DEF NotAsked, Report, TypeOK, ReportsHold, Done
  <2> QED
    BY <1>1, <1>2, <1>4, <2>1, <2>2 DEF NotAsked, Report, NothingThere, LinesHold,
       RunningHasNoCode, ActionProperties
<1>5. CASE Ask(p)
  <2>1. NothingThere'
    BY <1>5 DEF Ask, NothingThere, First, Pins
  <2> QED
    BY <1>1, <1>2, <1>5, <2>1 DEF Ask, TypeOK, ReportsHold, Done, LinesHold,
       RunningHasNoCode, ActionProperties
<1>6. CASE Fetch(p)
  <2>1. TypeOK'
    BY <1>1, <1>6 DEF Fetch, Report, TypeOK, Statuses
  <2>2. ReportsHold'
    BY <1>1, <1>6 DEF Fetch, Report, TypeOK, ReportsHold, Done
  <2>3. NothingThere'
    BY <1>6 DEF Fetch, Report, NothingThere, First
  <2> QED
    BY <1>1, <1>2, <1>6, <2>1, <2>2, <2>3 DEF Fetch, LinesHold,
       RunningHasNoCode, ActionProperties
<1>7. CASE Keep(p)
  <2>1. TypeOK'
    BY <1>1, <1>7 DEF Keep, Report, TypeOK, Statuses, Contents
  <2>2. ReportsHold'
    BY <1>1, <1>7 DEF Keep, Report, TypeOK, ReportsHold, Done
  <2>3. ActionProperties
    BY <1>1, <1>7 DEF Keep, NothingThere, TypeOK, ActionProperties
  <2> QED
    BY <1>1, <1>2, <1>7, <2>1, <2>2, <2>3 DEF Keep, Report, NothingThere, LinesHold,
       RunningHasNoCode
<1> QED
  BY <1>3, <1>4, <1>5, <1>6, <1>7

\* The steps of the manifest.
LEMMA ManifestHolds ==
  ASSUME IInv, LeaveManifest \/ WritePart \/ KeepManifest
  PROVE  IInv' /\ ActionProperties
<1> USE DEF IInv
<1>1. CASE LeaveManifest
  <2>1. ~Failing /\ Dropped = {} => GreenRunsAreComplete'
    <3> SUFFICES ASSUME ~Failing, Dropped = {}
                 PROVE  GreenRunsAreComplete'
      OBVIOUS
    <3>1. manifest = Verified
      BY <1>1 DEF LeaveManifest, Dropped
    <3>2. Stray \notin manifest
      BY <3>1, BlobsAssumption DEF Verified
    <3>3. \A p \in targets \ touched : Done(p) => held[p] = "pinned" /\ p \in manifest
      BY <3>1 DEF ReportsHold, TypeOK, Verified
    <3> QED
      BY <1>1, <3>2, <3>3 DEF LeaveManifest, Failing, GreenRunsAreComplete, Done
  <2>2. GreenRunsAreComplete'
    BY <1>1, <2>1 DEF LeaveManifest, Exit, GreenRunsAreComplete
  <2> QED
    BY <1>1, <2>2 DEF LeaveManifest, Exit, TypeOK, NothingThere, ReportsHold, Done,
       LinesHold, RunningHasNoCode, ActionProperties
<1>2. CASE WritePart
  <2>1. LinesHold'
    BY <1>2 DEF WritePart, LinesHold, ReportsHold, Done, Verified, Dropped, TypeOK
  <2> QED
    BY <1>2, <2>1 DEF WritePart, TypeOK, NothingThere, ReportsHold, Done, Verified,
       RunningHasNoCode, GreenRunsAreComplete, ActionProperties
<1>3. CASE KeepManifest
  <2>1. GreenRunsAreComplete'
    <3> SUFFICES ASSUME ~Failing
                 PROVE  GreenRunsAreComplete'
      BY <1>3 DEF KeepManifest, Exit, GreenRunsAreComplete
    <3>1. Stray \notin lines
      BY BlobsAssumption DEF TypeOK
    <3>2. \A p \in targets \ touched : Done(p) => held[p] = "pinned" /\ p \in lines
      BY <1>3 DEF KeepManifest, LinesHold, ReportsHold, TypeOK
    <3> QED
      BY <1>3, <3>1, <3>2 DEF KeepManifest, Failing, GreenRunsAreComplete, Done
  <2> QED
    BY <1>3, <2>1 DEF KeepManifest, Exit, TypeOK, Lines, NothingThere, ReportsHold, Done,
       LinesHold, RunningHasNoCode, ActionProperties
<1> QED
  BY <1>1, <1>2, <1>3

\* A kill, and what happens to the directory from outside.
LEMMA WorldHolds == IInv /\ World => IInv'
<1> SUFFICES ASSUME IInv, World PROVE IInv'
  OBVIOUS
<1> USE DEF IInv
<1>1. CASE Crash
  BY <1>1 DEF Crash, TypeOK, NothingThere, ReportsHold, Done, LinesHold,
     RunningHasNoCode, GreenRunsAreComplete
<1>2. CASE EditManifest
  BY <1>2, BlobsAssumption DEF EditManifest, TypeOK, NothingThere, ReportsHold, Done, LinesHold,
     RunningHasNoCode, GreenRunsAreComplete
<1>3. ASSUME NEW p \in Pins, Damage(p) \/ Lose(p) \/ Put(p) PROVE IInv'
  <2>1. TypeOK'
    BY <1>3 DEF Damage, Lose, Put, TypeOK, Contents
  <2>2. ReportsHold'
    BY <1>3 DEF Damage, Lose, Put, TypeOK, ReportsHold, Done
  <2>3. NothingThere'
    BY <1>3 DEF Damage, Lose, Put, TypeOK, NothingThere, First
  <2>4. GreenRunsAreComplete'
    BY <1>3 DEF Damage, Lose, Put, TypeOK, GreenRunsAreComplete
  <2> QED
    BY <1>3, <2>1, <2>2, <2>3, <2>4 DEF Damage, Lose, Put, LinesHold, Done,
       RunningHasNoCode
<1> QED
  BY <1>1, <1>2, <1>3 DEF World

LEMMA StepHolds == IInv /\ [Next]_vars => IInv' /\ [ActionProperties]_vars
<1> SUFFICES ASSUME IInv, [Next]_vars PROVE IInv' /\ [ActionProperties]_vars
  OBVIOUS
<1>1. CASE Run
  BY <1>1, StartHolds, PinHolds, ManifestHolds DEF Run
<1>2. CASE World /\ ~Run
  BY <1>2, WorldHolds DEF ActionProperties
<1>3. CASE UNCHANGED vars
  BY <1>3 DEF vars, IInv, TypeOK, NothingThere, First, ReportsHold, Done, LinesHold,
     RunningHasNoCode, GreenRunsAreComplete
<1> QED
  BY <1>1, <1>2, <1>3 DEF Next

THEOREM Invariance == Spec => []IInv
  BY InitHolds, StepHolds, PTL DEF Spec

\* Every variable keeps its type, over any number of runs (save_blobs).
THEOREM TypeCorrect == Spec => []TypeOK
<1>1. IInv => TypeOK
  BY DEF IInv
<1> QED
  BY <1>1, Invariance, PTL

\* A run that exits 0 has put and listed each of its targets (_cmd_blobs).
THEOREM GreenIsComplete == Spec => []GreenRunsAreComplete
<1>1. IInv => GreenRunsAreComplete
  BY DEF IInv
<1> QED
  BY <1>1, Invariance, PTL

\* A run changes of the directory only that pinned bytes appear where no file
\* was when it looked, whenever it is killed and whatever others put there
\* (save_blobs).
THEOREM FilesAreSafe == Spec => OnlyPinnedBytesAppear
<1>1. [ActionProperties]_vars =>
        [Run => \A p \in Pins :
           held'[p] # held[p] =>
             held'[p] = "pinned" /\ (held[p] = None \/ p \in touched)]_vars
  BY DEF ActionProperties
<1> QED
  BY <1>1, Invariance, StepHolds, PTL DEF Spec, OnlyPinnedBytesAppear

\* No run takes a line out of the manifest (write_blob_manifest).
THEOREM ManifestIsSafe == Spec => ManifestOnlyGrows
<1>1. [ActionProperties]_vars => [Run => manifest \subseteq manifest']_vars
  BY DEF ActionProperties
<1> QED
  BY <1>1, Invariance, StepHolds, PTL DEF Spec, ManifestOnlyGrows
=============================================================================
