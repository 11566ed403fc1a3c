-------------------------------- MODULE Blobs --------------------------------
(***************************************************************************)
(* `pin blobs`: save_blobs and write_blob_manifest of                      *)
(* registers_crosswalk/pin.py, as run again and again, over some or all of *)
(* the pins, into one directory.                                           *)
(*                                                                         *)
(* A run may be killed anywhere.  Files of the directory are damaged, lost *)
(* and put there by others at any time, while the run fetches the same pin *)
(* too; between runs a person may also edit the manifest.                  *)
(***************************************************************************)
EXTENDS Integers

CONSTANTS N, None, Stray

Pins == 1 .. N   \* the pins of the register, in id order

\* A pin's line in MANIFEST.sha256, which names its file and digest; and a line
\* that this command did not write.
Lines == Pins \cup {Stray}

\* What the drift key and the fetcher's hooks make of a pin: bytes that hash to
\* the pin, bytes that vary per request, a capture pin, one whose request or
\* whose capture cannot be named.
Kinds == {"hash", "vary", "capture", "unaskable"}

\* What a file in the directory holds: the pinned bytes, or others.  No file
\* under a pin's name is ever torn: what is half written has another name.
Contents == {"pinned", "other"}

Statuses == {"written", "present", "mismatch", "conflict", "not_fetched"}

ASSUME BlobsAssumption ==
  /\ N \in Nat
  /\ Stray \notin Pins
  /\ None \notin Contents \cup Statuses
  /\ None \notin {0, 1}

VARIABLES
  kind,      \* each pin's kind
  held,      \* the file under each pin's manifest name, None where there is none
  manifest,  \* the lines of MANIFEST.sha256; {} where there is no such file
  targets,   \* the pins this run was asked for
  todo,      \* those it has still to put
  pc,        \* where the run is; "idle" between runs
  refused,   \* whether Wayback has answered 429 in this run
  reports,   \* BlobReport.status by target, None before its report
  lines,     \* the lines that the manifest is about to hold
  code,      \* the exit code of the last run, None while one runs or was killed
  touched    \* history: pins whose file was changed from outside since the run
             \* reported on it

vars == <<kind, held, manifest, targets, todo, pc, refused, reports, lines, code,
          touched>>

Init ==
  /\ kind \in [Pins -> Kinds]
  /\ held = [p \in Pins |-> None]
  /\ manifest = {}
  /\ targets = {} /\ todo = {}
  /\ pc = "idle"
  /\ refused = FALSE
  /\ reports = [p \in Pins |-> None]
  /\ lines = {}
  /\ code = None
  /\ touched = {}

(***************************************************************************)
(* save_blobs.                                                             *)
(***************************************************************************)
Start ==
  /\ pc = "idle"
  /\ targets' \in (SUBSET Pins) \ {{}}
  /\ todo' = targets'
  /\ pc' = "next"
  /\ refused' = FALSE
  /\ reports' = [p \in Pins |-> None]
  /\ code' = None
  /\ touched' = {}
  /\ UNCHANGED <<kind, held, manifest, lines>>

\* The pins are taken in id order.
First(p) == p \in todo /\ \A q \in todo : p <= q

Report(p, status) ==
  /\ reports' = [reports EXCEPT ![p] = status]
  /\ todo' = todo \ {p}
  /\ touched' = touched \ {p}
  /\ pc' = "next"

\* Mutant: a file with other bytes makes room for the pin's.
FoundReplaced(p) ==
  /\ pc = "next" /\ First(p)
  /\ held[p] # None
  /\ held' = [held EXCEPT ![p] = IF @ = "pinned" THEN @ ELSE None]
  /\ IF held[p] = "pinned"
     THEN Report(p, "present")
     ELSE pc' = "next" /\ UNCHANGED <<reports, todo, touched>>
  /\ UNCHANGED <<kind, manifest, targets, refused, lines, code>>

\* A file already there is compared with the pin and left as it is.
Found(p) ==
  /\ pc = "next" /\ First(p)
  /\ held[p] # None
  /\ Report(p, IF held[p] = "pinned" THEN "present" ELSE "conflict")
  /\ UNCHANGED <<kind, held, manifest, targets, refused, lines, code>>

\* No request can be made of it: no key, no capture, or a 429 earlier.
NotAsked(p) ==
  /\ pc = "next" /\ First(p)
  /\ held[p] = None
  /\ kind[p] \in {"unaskable"} \cup IF refused THEN {"capture"} ELSE {}
  /\ Report(p, "not_fetched")
  /\ UNCHANGED <<kind, held, manifest, targets, refused, lines, code>>

Ask(p) ==
  /\ pc = "next" /\ First(p)
  /\ held[p] = None
  /\ kind[p] # "unaskable" /\ (kind[p] = "capture" => ~refused)
  /\ pc' = "fetch"
  /\ UNCHANGED <<kind, held, manifest, targets, todo, refused, reports, lines, code,
                 touched>>

\* The fetch fails, of a capture perhaps with a 429; or its bytes are not the
\* pin's; or they are, and go to a .part file.
Fetch(p) ==
  /\ pc = "fetch" /\ First(p)
  /\ \/ Report(p, "not_fetched") /\ UNCHANGED refused
     \/ kind[p] = "capture" /\ Report(p, "not_fetched") /\ refused' = TRUE
     \/ Report(p, "mismatch") /\ UNCHANGED refused
     \/ pc' = "part" /\ UNCHANGED <<refused, reports, todo, touched>>
  /\ UNCHANGED <<kind, held, manifest, targets, lines, code>>

\* os.replace of the .part file, which nothing has read; what has come to be
\* under the pin's name since Ask is not looked at.
Keep(p) ==
  /\ pc = "part" /\ First(p)
  /\ held' = [held EXCEPT ![p] = "pinned"]
  /\ Report(p, "written")
  /\ UNCHANGED <<kind, manifest, targets, refused, lines, code>>

(***************************************************************************)
(* write_blob_manifest, and the command's exit code.                       *)
(***************************************************************************)
\* Every pin is looked for, not this run's targets only.
Verified == {p \in Pins : held[p] = "pinned"}

\* Mutant: only a line of this run's targets is missed.
DroppedTargets == (manifest \ Verified) \cap targets

Dropped == manifest \ Verified

\* Mutant: a file that was there needs no check.
FailingUnread ==
  \E p \in targets : /\ reports[p] \notin {"written", "present", "conflict"}
                     /\ ~(reports[p] = "mismatch" /\ kind[p] = "vary")

\* A report that fails the run: of a pin that promised its bytes.
Failing ==
  \E p \in targets : /\ reports[p] \notin {"written", "present"}
                     /\ ~(reports[p] = "mismatch" /\ kind[p] = "vary")

Exit(failed) == pc' = "idle" /\ code' = IF failed THEN 1 ELSE 0

\* The manifest lists a line that cannot be kept, or would list nothing, or
\* would be as it is: it is left alone.
LeaveManifest ==
  /\ pc = "next" /\ todo = {}
  /\ Dropped # {} \/ Verified \subseteq manifest
  /\ Exit(Failing \/ Dropped # {})
  /\ UNCHANGED <<kind, held, manifest, targets, todo, refused, reports, lines, touched>>

WritePart ==
  /\ pc = "next" /\ todo = {}
  /\ Dropped = {} /\ ~(Verified \subseteq manifest)
  /\ lines' = Verified
  /\ pc' = "manifest"
  /\ UNCHANGED <<kind, held, manifest, targets, todo, refused, reports, code, touched>>

KeepManifest ==
  /\ pc = "manifest"
  /\ manifest' = lines
  /\ lines' = {}
  /\ Exit(Failing)
  /\ UNCHANGED <<kind, held, targets, todo, refused, reports, touched>>

Run ==
  \/ Start
  \/ \E p \in Pins : Found(p) \/ NotAsked(p) \/ Ask(p) \/ Fetch(p) \/ Keep(p)
  \/ LeaveManifest \/ WritePart \/ KeepManifest

(***************************************************************************)
(* The world.                                                              *)
(***************************************************************************)
Crash ==
  /\ pc # "idle"
  /\ pc' = "idle"
  /\ lines' = {}
  /\ UNCHANGED <<kind, held, manifest, targets, todo, refused, reports, code, touched>>

Damage(p) ==
  /\ held[p] # None
  /\ held' = [held EXCEPT ![p] = "other"]
  /\ touched' = touched \cup {p}
  /\ UNCHANGED <<kind, manifest, targets, todo, pc, refused, reports, lines, code>>

Lose(p) ==
  /\ held[p] # None
  /\ held' = [held EXCEPT ![p] = None]
  /\ touched' = touched \cup {p}
  /\ UNCHANGED <<kind, manifest, targets, todo, pc, refused, reports, lines, code>>

Put(p) ==
  /\ \E c \in {"pinned", "other"} : held' = [held EXCEPT ![p] = c]
  /\ touched' = touched \cup {p}
  /\ UNCHANGED <<kind, manifest, targets, todo, pc, refused, reports, lines, code>>

EditManifest ==
  /\ pc = "idle"
  /\ manifest' \in SUBSET Lines
  /\ code' = None
  /\ UNCHANGED <<kind, held, targets, todo, pc, refused, reports, lines, touched>>

World == Crash \/ EditManifest \/ \E p \in Pins : Damage(p) \/ Lose(p) \/ Put(p)

Next == Run \/ World

Spec == Init /\ [][Next]_vars

(***************************************************************************)
(* Properties.                                                             *)
(***************************************************************************)
\* A file under a pin's name holds whole bytes, and a run is at one place
\* (save_blobs).
TypeOK ==
  /\ kind \in [Pins -> Kinds]
  /\ held \in [Pins -> Contents \cup {None}]
  /\ manifest \subseteq Lines
  /\ targets \subseteq Pins
  /\ todo \subseteq Pins
  /\ pc \in {"idle", "next", "fetch", "part", "manifest"}
  /\ refused \in BOOLEAN
  /\ reports \in [Pins -> Statuses \cup {None}]
  /\ lines \subseteq Pins
  /\ code \in {0, 1, None}
  /\ touched \subseteq Pins

\* "A file already there is never overwritten": a run changes the directory
\* only by putting a pin's bytes where nothing was, or where somebody has put a
\* file while the run was at it, after exists() and before os.replace, which
\* overwrites it.  Nothing is removed, and no file gets other bytes (save_blobs).
OnlyPinnedBytesAppear ==
  [][Run => \A p \in Pins :
       held'[p] # held[p] =>
         held'[p] = "pinned" /\ (held[p] = None \/ p \in touched)]_vars

\* "The manifest only ever grows", whatever pins a run was asked for and
\* whatever has become of the files it lists (write_blob_manifest).
ManifestOnlyGrows ==
  [][Run => manifest \subseteq manifest']_vars

\* A run that exits 0 has each of its targets on disk and in the manifest, but
\* for those that never promised their bytes: unless something else has
\* touched their files since they were reported (_cmd_blobs).
GreenRunsAreComplete ==
  code = 0 =>
    /\ Stray \notin manifest
    /\ \A p \in targets \ touched :
         \/ held[p] = "pinned" /\ p \in manifest
         \/ kind[p] = "vary" /\ reports[p] = "mismatch"
=============================================================================
