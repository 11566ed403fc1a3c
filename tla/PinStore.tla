------------------------------ MODULE PinStore ------------------------------
(***************************************************************************)
(* data/sources on disk and the operations that write it: add_source,      *)
(* archive_source, repair_archive and note_source of                       *)
(* registers_crosswalk/pin.py.                                             *)
(*                                                                         *)
(* Each operation is a run of one operator, a CLI process or a console     *)
(* thread, in the steps between which another operator may act: it loads   *)
(* the register, asks the publisher or Wayback (seconds to minutes), and   *)
(* writes one file.  Nothing locks the directory.  An input of a call is   *)
(* chosen at the step that first reads it.                                 *)
(***************************************************************************)
EXTENDS Registry

CONSTANT Operators

VARIABLES
  files,   \* the files that parse: a register
  torn,    \* ids whose file exists and does not parse: truncated, or garbled
  lost,    \* captures Wayback no longer serves at their timestamp
  pc,      \* where each operator's call is; "idle" between calls
  snap,    \* the register the call loaded (its Crosswalk)
  id,      \* the id the call will write
  draft,   \* the record the call is assembling
  result   \* what the operator's last call reported

vars == <<files, torn, lost, pc, snap, id, draft, result>>

Steps ==
  {"idle", "mint", "exists", "fetch", "archive", "check", "archived",
   "capture", "recheck", "set_archive", "set_notes", "open", "flush",
   "overlay"}

Results ==
  {"none", "written", "unchanged", "refused", "archive_failed", "raised"}

\* A record under assembly has no drift value before its document is fetched.
Draft == [version: Versions, citation: Citations, drift: Drifts \cup {None},
          archive: Captures \cup {None}, cited: BOOLEAN,
          supersedes: Ids \cup {None}, merged_into: Ids \cup {None},
          notes: Notes \cup {None}]

Names == DOMAIN files \cup torn   \* every xr_src_NNNN.json in the directory

Init ==
  /\ files = [i \in {} |-> None]
  /\ torn = {}
  /\ lost = {}
  /\ pc = [o \in Operators |-> "idle"]
  /\ snap = [o \in Operators |-> files]
  /\ id = [o \in Operators |-> None]
  /\ draft = [o \in Operators |-> None]
  /\ result = [o \in Operators |-> "none"]

(***************************************************************************)
(* Pieces the operations share.                                            *)
(***************************************************************************)
Go(o, here, there) == pc[o] = here /\ pc' = [pc EXCEPT ![o] = there]

\* The call returns to its caller; its local state goes with it.
Return(o, r) ==
  /\ pc' = [pc EXCEPT ![o] = "idle"]
  /\ snap' = [snap EXCEPT ![o] = [i \in {} |-> None]]
  /\ id' = [id EXCEPT ![o] = None]
  /\ draft' = [draft EXCEPT ![o] = None]
  /\ result' = [result EXCEPT ![o] = r]

\* Crosswalk(data_dir): a file that does not parse, or a broken rule, raises.
Loads == torn = {} /\ SourceInvariants(files)

\* Mutant of Reproducing: any capture Wayback serves is attached, unread.
ReproducingUnread(d) == {c \in Captures \ lost : d \in Drifts}

\* What archive() can attach to a document with this drift value: a capture
\* Wayback serves at its timestamp, and that reproduces the value.
Reproducing(d) == {c \in Captures \ lost : Shows[c] = d}

(***************************************************************************)
(* add_source.                                                             *)
(***************************************************************************)
AddLoad(o, v, cit) ==
  /\ pc[o] = "idle"
  /\ \/ /\ Loads
        /\ DuplicateOf(files, v) = {}
        /\ pc' = [pc EXCEPT ![o] = "mint"]
        /\ snap' = [snap EXCEPT ![o] = files]
        /\ draft' = [draft EXCEPT ![o] =
             [version |-> v, citation |-> cit, drift |-> None,
              archive |-> None, cited |-> FALSE, supersedes |-> None,
              merged_into |-> None, notes |-> None]]
        /\ UNCHANGED <<id, result>>
     \* already pinned, or --archive asked of a capture pin
     \/ Loads /\ Return(o, "refused")
     \/ ~Loads /\ Return(o, "raised")
  /\ UNCHANGED <<files, torn, lost>>

\* Mutant of NextSourceId: some id above the highest name.
NextSourceIdSparse(i) == \A j \in Names : j < i

\* next_source_id reads the directory again: one more than the highest name.
NextSourceId(i) ==
  /\ \A j \in Names : j < i
  /\ i = 1 \/ i - 1 \in Names

\* Mutant of AddMint: the number is not held to the four digits of an id.
AddMintUnbounded(o) ==
  /\ Go(o, "mint", "exists")
  /\ \E i \in 1 .. MaxId + 1 : NextSourceId(i) /\ id' = [id EXCEPT ![o] = i]
  /\ UNCHANGED <<files, torn, lost, snap, draft, result>>

\* A number of five digits is no id of a record; it is None here.
AddMint(o) ==
  /\ Go(o, "mint", "exists")
  /\ \/ \E i \in Ids : NextSourceId(i) /\ id' = [id EXCEPT ![o] = i]
     \/ MaxId \in Names /\ id' = [id EXCEPT ![o] = None]
  /\ UNCHANGED <<files, torn, lost, snap, draft, result>>

\* path.exists(): "refusing to overwrite" what has come to be there since.
AddExists(o) ==
  /\ \/ /\ id[o] \notin Names
        /\ Go(o, "exists", "fetch")
        /\ UNCHANGED <<snap, id, draft, result>>
     \/ /\ pc[o] = "exists"
        /\ id[o] \in Names
        /\ Return(o, "refused")
  /\ UNCHANGED <<files, torn, lost>>

\* Mutant of Fetched: the second duplicate rule is left to the final check.
FetchedUnruled(o, d, c, sup) ==
  /\ \E p \in IF c = None THEN {"archive", "check"} ELSE {"check"} :
       pc' = [pc EXCEPT ![o] = p]
  /\ draft' = [draft EXCEPT ![o].drift = d, ![o].archive = c,
                            ![o].supersedes = sup]
  /\ UNCHANGED <<snap, id, result>>

\* pin() and the second duplicate rule, with --supersedes applied first.
\* Either the document is fetched from its publisher, whose text may read as
\* any drift value, or (a capture pin) from a capture Wayback still serves,
\* which becomes its archive copy.
Fetched(o, d, c, sup) ==
  LET cand == [draft[o] EXCEPT !.drift = d, !.archive = c, !.supersedes = sup]
      held == SameDocumentOf(With(snap[o], id[o], cand), cand) \ {id[o]}
      next == IF c = None THEN {"archive", "check"} ELSE {"check"}
  IN \/ /\ held = {}
        /\ \E p \in next : pc' = [pc EXCEPT ![o] = p]
        /\ draft' = [draft EXCEPT ![o] = cand]
        /\ UNCHANGED <<snap, id, result>>
     \/ held # {} /\ Return(o, "refused")

AddFetch(o) ==
  /\ pc[o] = "fetch"
  /\ \/ /\ id[o] # None
        /\ \E d \in Drifts, sup \in Ids \cup {None} : Fetched(o, d, None, sup)
     \/ /\ id[o] # None
        /\ \E c \in Captures \ lost, sup \in Ids \cup {None} :
             Fetched(o, Shows[c], c, sup)
     \/ Return(o, "refused")   \* CaptureNotServed
     \* the fetch failed, or answered an empty body, or the record has no id
     \/ Return(o, "raised")
  /\ UNCHANGED <<files, torn, lost>>

AddArchive(o) ==
  /\ \/ /\ Go(o, "archive", "archived")
        /\ \E c \in Reproducing(draft[o].drift) :
             draft' = [draft EXCEPT ![o].archive = c]
        /\ UNCHANGED <<snap, id, result>>
     \/ pc[o] = "archive" /\ Return(o, "archive_failed")
  /\ UNCHANGED <<files, torn, lost>>

\* Mutant of AddCheck: the record is written without the final check.
AddCheckNone(o, cited, note) ==
  /\ pc[o] \in {"check", "archived"}
  /\ pc' = [pc EXCEPT ![o] = "open"]
  /\ draft' = [draft EXCEPT ![o].cited = cited, ![o].notes = note]
  /\ UNCHANGED <<files, torn, lost, snap, id, result>>

\* The assembled record, against the rules of the load path applied to the
\* register the call loaded and not to the one now on disk.
AddCheck(o, cited, note) ==
  /\ pc[o] \in {"check", "archived"}
  /\ LET rec == [draft[o] EXCEPT !.cited = cited, !.notes = note]
     IN \/ /\ SourceInvariants(With(snap[o], id[o], rec))
           /\ pc' = [pc EXCEPT ![o] = "open"]
           /\ draft' = [draft EXCEPT ![o] = rec]
           /\ UNCHANGED <<snap, id, result>>
        \/ /\ ~SourceInvariants(With(snap[o], id[o], rec))
           /\ Return(o, "refused")
  /\ UNCHANGED <<files, torn, lost>>

(***************************************************************************)
(* archive_source, repair_archive, note_source: amendments of one field.   *)
(***************************************************************************)
\* The call loads the register and refuses, or goes on with record i.
AmendLoad(o, i, ok(_), next) ==
  /\ pc[o] = "idle"
  /\ \/ /\ Loads
        /\ i \in DOMAIN files /\ ok(files[i])
        /\ pc' = [pc EXCEPT ![o] = next]
        /\ snap' = [snap EXCEPT ![o] = files]
        /\ id' = [id EXCEPT ![o] = i]
        /\ draft' = [draft EXCEPT ![o] = files[i]]
        /\ UNCHANGED result
     \/ /\ Loads
        /\ i \notin DOMAIN files \/ (i \in DOMAIN files /\ ~ok(files[i]))
        /\ Return(o, "refused")
     \/ ~Loads /\ Return(o, "raised")
  /\ UNCHANGED <<files, torn, lost>>

ArchiveLoad(o, i) == LET bare(r) == r.archive = None
                     IN AmendLoad(o, i, bare, "capture")

RepairLoad(o, i) == LET archived(r) == r.archive # None
                    IN AmendLoad(o, i, archived, "recheck")

NoteLoad(o, i) == LET any(r) == TRUE IN AmendLoad(o, i, any, "set_notes")

ArchiveCapture(o) ==
  /\ \/ /\ Go(o, "capture", "set_archive")
        /\ \E c \in Reproducing(draft[o].drift) :
             draft' = [draft EXCEPT ![o].archive = c]
        /\ UNCHANGED <<snap, id, result>>
     \/ pc[o] = "capture" /\ Return(o, "archive_failed")
  /\ UNCHANGED <<files, torn, lost>>

\* Mutant of RepairRecheck: a capture that is gone is dropped, not replaced.
RepairRecheckDrops(o) ==
  /\ Go(o, "recheck", "set_archive")
  /\ draft[o].archive \in lost
  /\ draft' = [draft EXCEPT ![o].archive = None]
  /\ UNCHANGED <<files, torn, lost, snap, id, result>>

\* The attached capture, asked for at its own timestamp, is gone or does not
\* reproduce the pin.
Fails(o) == draft[o].archive \in lost \/ ~Reproduced(draft[o])

\* A capture that fails is replaced by an existing one that reproduces the pin.
RepairRecheck(o) ==
  /\ \/ /\ Go(o, "recheck", "set_archive")
        /\ Fails(o)
        /\ \E c \in Reproducing(draft[o].drift) :
             draft' = [draft EXCEPT ![o].archive = c]
        /\ UNCHANGED <<snap, id, result>>
     \/ /\ pc[o] = "recheck"
        /\ ~Fails(o)
        /\ Return(o, "unchanged")
     \* unreachable, or no other capture verifies
     \/ pc[o] = "recheck" /\ Return(o, "archive_failed")
  /\ UNCHANGED <<files, torn, lost>>

\* The amended record is checked against the register the call loaded; then
\* the file is read again and one field of what it now holds is replaced.
Amend(o, rec, onto(_)) ==
  \/ /\ SourceInvariants(With(snap[o], id[o], rec))
     /\ id[o] \in DOMAIN files
     /\ draft' = [draft EXCEPT ![o] = onto(files[id[o]])]
     /\ pc' = [pc EXCEPT ![o] = "open"]
     /\ UNCHANGED <<snap, id, result>>
  \/ /\ SourceInvariants(With(snap[o], id[o], rec))
     /\ id[o] \notin DOMAIN files
     /\ Return(o, "raised")
  \/ /\ ~SourceInvariants(With(snap[o], id[o], rec))
     /\ Return(o, "refused")

WriteArchives(o) ==
  /\ pc[o] = "set_archive"
  /\ LET onto(r) == [r EXCEPT !.archive = draft[o].archive]
     IN Amend(o, draft[o], onto)
  /\ UNCHANGED <<files, torn, lost>>

NoteWrite(o, n) ==
  /\ pc[o] = "set_notes"
  /\ LET onto(r) == [r EXCEPT !.notes = n]
     IN Amend(o, onto(draft[o]), onto)
  /\ UNCHANGED <<files, torn, lost>>

(***************************************************************************)
(* path.write_text: open truncates, close leaves the content.  Two writers *)
(* of one file share no offset, so the later content lands over the        *)
(* earlier: whole, or followed by what stuck out.                          *)
(***************************************************************************)
Open(o) ==
  /\ Go(o, "open", "flush")
  /\ files' = Without(files, id[o])
  /\ torn' = torn \cup {id[o]}
  /\ UNCHANGED <<lost, snap, id, draft, result>>

Flush(o) ==
  /\ pc[o] \in {"flush", "overlay"}
  /\ \/ /\ files' = With(files, id[o], draft[o])
        /\ torn' = torn \ {id[o]}
     \/ /\ pc[o] = "overlay"
        /\ files' = Without(files, id[o])
        /\ torn' = torn \cup {id[o]}
  /\ pc' = [p \in Operators |->
              IF p = o THEN "idle"
              ELSE IF pc[p] = "flush" /\ id[p] = id[o] THEN "overlay"
              ELSE pc[p]]
  /\ snap' = [snap EXCEPT ![o] = [i \in {} |-> None]]
  /\ id' = [id EXCEPT ![o] = None]
  /\ draft' = [draft EXCEPT ![o] = None]
  /\ result' = [result EXCEPT ![o] = "written"]
  /\ UNCHANGED lost

(***************************************************************************)
(* The world: a call dies, Wayback stops serving a capture, a maintainer   *)
(* marks pin i as a duplicate of j by editing its file.                    *)
(***************************************************************************)
Crash(o) ==
  /\ pc[o] # "idle"
  /\ Return(o, "raised")
  /\ UNCHANGED <<files, torn, lost>>

Lose(c) ==
  /\ lost' = lost \cup {c}
  /\ UNCHANGED <<files, torn, pc, snap, id, draft, result>>

MergeByHand(i, j) ==
  /\ {i, j} \subseteq DOMAIN files /\ i # j
  /\ files' = [files EXCEPT ![i].merged_into = j]
  /\ UNCHANGED <<torn, lost, pc, snap, id, draft, result>>

(***************************************************************************)
(* Behaviours.                                                             *)
(***************************************************************************)
Start(o) ==
  \/ \E v \in Versions, cit \in Citations : AddLoad(o, v, cit)
  \/ \E i \in Ids : ArchiveLoad(o, i) \/ RepairLoad(o, i) \/ NoteLoad(o, i)

Step(o) ==
  \/ AddMint(o) \/ AddExists(o) \/ AddFetch(o) \/ AddArchive(o)
  \/ \E cited \in BOOLEAN, n \in Notes \cup {None} : AddCheck(o, cited, n)
  \/ ArchiveCapture(o) \/ RepairRecheck(o) \/ WriteArchives(o)
  \/ \E n \in Notes : NoteWrite(o, n)
  \/ Open(o) \/ Flush(o)

\* A call killed while its file is open leaves the file truncated.
KilledMidWrite(o) == pc[o] \in {"flush", "overlay"} /\ Crash(o)
KilledElsewhere(o) == pc[o] \notin {"flush", "overlay"} /\ Crash(o)

Idle == \A o \in Operators : pc[o] = "idle"

\* One call at a time, as one person at one terminal runs them.
SerialNext ==
  \/ Idle /\ \E o \in Operators : Start(o)
  \/ \E o \in Operators : Step(o) \/ KilledElsewhere(o)
  \/ \E c \in Captures : Lose(c)
  \/ Idle /\ \E i, j \in Ids : MergeByHand(i, j)

\* Calls overlap, as the console's threads and a second terminal's do.
ConcurrentNext ==
  \/ \E o \in Operators : Start(o) \/ Step(o) \/ KilledElsewhere(o)
  \/ \E o \in Operators : KilledMidWrite(o)
  \/ \E c \in Captures : Lose(c)

SerialSpec == Init /\ [][SerialNext]_vars
ConcurrentSpec == Init /\ [][ConcurrentNext]_vars

(***************************************************************************)
(* Properties.                                                             *)
(***************************************************************************)
TypeOK ==
  /\ IsRegister(files)
  /\ torn \in SUBSET Ids
  /\ lost \in SUBSET Captures
  /\ pc \in [Operators -> Steps]
  /\ \A o \in Operators : IsRegister(snap[o])
  /\ DOMAIN snap = Operators
  /\ id \in [Operators -> Ids \cup {None}]
  /\ draft \in [Operators -> Draft \cup {None}]
  /\ result \in [Operators -> Results]

\* Between calls the load path accepts what the calls have written: no
\* sequence of add, archive, repair and note leaves a directory the next
\* command refuses to load (add_source, archive_source, _write_archives).
RegisterLoads == Idle => Loads

\* The capture attached to a pin reads as the pin's drift value, whatever
\* was attached, lost and repaired since.
ArchivesReproduce == \A i \in DOMAIN files : Reproduced(files[i])

\* A call about to write over a file is amending the pin that file holds: an
\* add never replaces somebody's record (add_source's "refusing to
\* overwrite"), and no amendment lands on another pin.
NeverOverwrites ==
  \A o \in Operators :
    pc[o] = "open" /\ id[o] \in Names =>
      /\ id[o] \in DOMAIN files \cap DOMAIN snap[o]
      /\ files[id[o]].version = snap[o][id[o]].version
      /\ draft[o].version = files[id[o]].version

\* The duplicate rules run before the archive step and agree with the final
\* check: a call that has paid for a capture is refused by that check only
\* when --supersedes names no pin (add_source).
LateRefusalIsADanglingLink ==
  [][\A o \in Operators :
       /\ pc[o] = "archived" /\ pc'[o] = "idle" /\ result'[o] = "refused"
       => draft[o].supersedes \notin DOMAIN snap[o] \cup {id[o], None}]_vars

\* Whatever overlaps and whatever is killed, a cited pin that can be read at
\* all carries an archive copy (check_source_invariants, _write_archives).
CitedIsRecoverable == CitedHasArchive(files)

\* Ids leave no gap, and every link of a record leads to a name of the
\* directory, though each was minted and checked against a directory that has
\* moved on since (next_source_id, check_source_invariants).  It is not that the
\* name still holds the pin the link was made to: an id that two calls minted
\* is written twice (NeverOverwrites).
LinksLeadToNames ==
  /\ \A i \in Names : i = 1 \/ i - 1 \in Names
  /\ \A i \in DOMAIN files :
       {files[i].supersedes, files[i].merged_into} \subseteq Names \cup {None}

\* What a reader who never catches a file half written sees: while a call
\* writes, the register it loaded.
Pins ==
  IF \E o \in Operators : pc[o] = "flush"
  THEN snap[CHOOSE o \in Operators : pc[o] = "flush"]
  ELSE files

Register == INSTANCE PinRegister WITH pins <- Pins

\* One call at a time, the directory is the register PinRegister promises:
\* it only grows, by consistent records, and a record keeps its facts and
\* its archive copy.
ImplementsRegister == Register!Spec
=============================================================================
