------------------------------ MODULE CrossRefs ------------------------------
(***************************************************************************)
(* The references the crosswalk holds into the three registers, and what   *)
(* reads the registers by them: the pre-commit hook, on the working copies *)
(* a maintainer has on disk; the two jobs of cross-repo.yml, each on its   *)
(* own checkouts of main; and the join (refresolve.py, xref_ci.py,         *)
(* hooks/check_refs.py, join/, registry.py).                               *)
(*                                                                         *)
(* A register is the set of its files, each with its directory, its id and *)
(* what it names: the official of a counted conflict, the filer of a       *)
(* filing, a record another record of records.json mentions.  The          *)
(* registers and their working copies change at any time, between two      *)
(* fetches of a job too.  References are well-formed, or nothing loads.    *)
(***************************************************************************)
EXTENDS Integers

CONSTANTS
  Nodes,      \* holders and orgs
  Sources,    \* pins, with their cited_in
  Officials, Recipients, Conflicts, Persons, Entities, Filings, Records,
  RecipientOf,    \* the recipient each conflict names
  MaxEdits,   \* bound: the edits of a behaviour
  None

Registers == {"vi", "cp", "sovereign"}

Jobs == {"refs", "join"}    \* cross-repo-refs and join-integration

File(dirs, ids, names) == [dir: dirs, id: ids, names: names \cup {None}]

Files(r) ==
  CASE r = "vi" -> File({"officials"}, Officials, {})
                   \cup File({"recipients"}, Recipients, {})
                   \cup File({"conflicts"}, Conflicts, Officials)
                   \cup File({"holdings"}, Conflicts, {})
    [] r = "cp" -> File({"persons"}, Persons, {})
                   \cup File({"entities"}, Entities, {})
                   \cup File({"filings"}, Filings, Persons)
    [] r = "sovereign" -> File({"records"}, Records, Records)

AllFiles == UNION {Files(r) : r \in Registers}

Results == {"pass", "dangling", "no checkout", "raises"}

\* Ids are told apart by their namespaces.
ASSUME CrossRefsAssumption ==
  /\ MaxEdits \in Nat
  /\ Nodes \cap Sources = {}
  /\ Persons \cap Entities = {}
  /\ RecipientOf \in [Conflicts -> Recipients \cup {None}]
  /\ \A files \in SUBSET AllFiles : files # None
  /\ None \notin Results

Ref(r, t, ids) == [register: {r}, ref_type: {t}, local_id: ids]

\* What RegisterRef admits: a register and a type that go together, and an id
\* of their namespace.  Sovereign records are only ever mentioned.
Identities ==
  Ref("vi", "identity", Officials \cup Recipients)
  \cup Ref("cp", "identity", Persons \cup Entities)

Mentions ==
  Ref("vi", "record_mention", Conflicts)
  \cup Ref("cp", "record_mention", Filings)
  \cup Ref("sovereign", "record_mention", Records)

Refs == Identities \cup Mentions

Held == [Nodes \cup Sources -> SUBSET Refs]

Holdable(x) == IF x \in Nodes THEN Refs ELSE Mentions

VARIABLES
  main,    \* each register's files on its main
  copy,    \* the working copy beside the crosswalk, None when absent
  data,    \* the references in the crosswalk's working tree; a node or pin
           \* without any is not there
  index,   \* those staged for the next commit
  commit,  \* the last commit, with what the hook read when it let it pass
  run,     \* the cross-repo workflow on that commit, None before
  edits    \* edits so far

vars == <<main, copy, data, index, commit, run, edits>>

(***************************************************************************)
(* refresolve: does a reference resolve in a checkout?                     *)
(***************************************************************************)
\* _FILE_DIRS and _IN_FILE.
DirsOf(ref) ==
  CASE ref.register = "vi" /\ ref.ref_type = "identity" -> {"officials", "recipients"}
    [] ref.register = "vi" /\ ref.ref_type = "record_mention" -> {"conflicts"}
    [] ref.register = "cp" /\ ref.ref_type = "identity" -> {"persons", "entities"}
    [] ref.register = "cp" /\ ref.ref_type = "record_mention" -> {"filings"}
    [] OTHER -> {"records"}

\* A file of that name; in the one sovereign file, the id in quotes anywhere.
Bears(f, ref) ==
  /\ f.dir \in DirsOf(ref)
  /\ \/ f.id = ref.local_id
     \/ f.dir = "records" /\ f.names = ref.local_id

ResolveRef(ref, root) == \E f \in root : Bears(f, ref)

Dangling(ref, roots) ==
  /\ roots[ref.register] # None
  /\ ~ResolveRef(ref, roots[ref.register])

\* The problems found; a register without a root is skipped.
CheckRefs(refs, roots) ==
  {p \in (Nodes \cup Sources) \X Refs :
     p[2] \in refs[p[1]] /\ Dangling(p[2], roots)}

(***************************************************************************)
(* Crosswalk and join.                                                     *)
(***************************************************************************)
\* Mutant of Loads: an id may stand on two nodes.
LoadsAny(refs) == TRUE

\* A (register, local_id) stands on at most one node.  Pins are not counted.
Loads(refs) ==
  \A m, n \in Nodes : \A a \in refs[m], b \in refs[n] :
    a.register = b.register /\ a.local_id = b.local_id => m = n

\* VIResolver: the counted conflicts that name the official, each with
\* whether its recipient and its holding could be read.
CountedConflicts(id, root) ==
  {[conflict |-> f.id,
    recipient |-> \E h \in root : h.dir = "recipients" /\ h.id = RecipientOf[f.id],
    holding |-> \E h \in root : h.dir = "holdings" /\ h.id = f.id] :
     f \in {g \in root : g.dir = "conflicts" /\ g.names = id}}

Reads(dir, ref, root) == \E f \in root : f.dir = dir /\ f.id = ref.local_id

\* What a section holds: whether the reference's own record was read, and the
\* conflicts or filings listed with it.  The vi resolver reads no record of
\* the reference's own, and lists nothing for a recipient or a conflict.
VISection(ref, root) ==
  [own |-> FALSE, with |-> CountedConflicts(ref.local_id, root)]

\* A filing alone; a person, with the filings they filed; or an entity, raw.
CPSection(ref, root) ==
  IF ref.ref_type = "record_mention"
  THEN [own |-> Reads("filings", ref, root), with |-> {}]
  ELSE IF ref.local_id \in Persons
  THEN [own |-> Reads("persons", ref, root),
        with |-> {f.id : f \in {g \in root : /\ g.dir = "filings"
                                            /\ g.names = ref.local_id}}]
  ELSE [own |-> Reads("entities", ref, root), with |-> {}]

\* The record of that very id.
SovereignSection(ref, root) == [own |-> Reads("records", ref, root), with |-> {}]

Section(ref, root) ==
  CASE ref.register = "vi" -> VISection(ref, root)
    [] ref.register = "cp" -> CPSection(ref, root)
    [] ref.register = "sovereign" -> SovereignSection(ref, root)

\* The sections of a node; None when the crosswalk does not load, the node is
\* unknown or a register has no root.
Join(n, refs, roots) ==
  IF \/ ~Loads(refs) \/ refs[n] = {}
     \/ \E ref \in refs[n] : roots[ref.register] = None
  THEN None
  ELSE [ref \in refs[n] |-> Section(ref, roots[ref.register])]

(***************************************************************************)
(* cross-repo.yml.                                                         *)
(***************************************************************************)
\* Mutant of Sparse: the existence check lacks a directory the hook reads.
SparseNoEntities(j) ==
  {"recipients", "conflicts", "persons", "filings", "records"}
  \cup IF j = "refs" THEN {"officials"} ELSE {"holdings"}

\* Mutant of Sparse: the join's checkouts are those of the existence check.
SparseSame(j) ==
  {"officials", "recipients", "conflicts", "persons", "entities", "filings",
   "records"}

\* The directories each job's sparse checkouts hold.
Sparse(j) ==
  {"recipients", "conflicts", "persons", "filings", "records"}
  \cup IF j = "refs" THEN {"officials", "entities"} ELSE {"holdings"}

\* What job j has on disk of what it fetched.
Checkout(j) ==
  [r \in Registers |->
     IF run.got[j][r] = None THEN None
     ELSE {f \in run.got[j][r] : f.dir \in Sparse(j)}]

Before == [vi |-> {}, cp |-> {"vi"}, sovereign |-> {"vi", "cp"}]

\* Every record is in place, or all but one, each conflict counted for an
\* official and each filing filed by a person.
Init ==
  /\ \E o \in Officials, p \in Persons :
     \E missing \in {None} \cup UNION {Files(r) : r \in Registers} :
       main = [r \in Registers |->
                 {f \in Files(r) \ {missing} :
                    f.names = IF f.dir = "conflicts" THEN o
                              ELSE IF f.dir = "filings" THEN p
                              ELSE None}]
  /\ copy = main
  /\ data = [x \in Nodes \cup Sources |-> {}]
  /\ index = data
  /\ commit = None
  /\ run = None
  /\ edits = 0

(***************************************************************************)
(* People: the registers, the working copies, the crosswalk's own files.   *)
(***************************************************************************)
Without(files, f) == {g \in files : g.dir # f.dir \/ g.id # f.id}

\* A file written anew, or removed.
Rewrites(files, f) == {Without(files, f), Without(files, f) \cup {f}}

Edit ==
  /\ edits < MaxEdits
  /\ edits' = edits + 1

EditMain(r, f) ==
  /\ Edit
  /\ \E files \in Rewrites(main[r], f) : main' = [main EXCEPT ![r] = files]
  /\ UNCHANGED <<copy, data, index, commit, run>>

EditCopy(r, f) ==
  /\ Edit
  /\ copy[r] # None
  /\ \E files \in Rewrites(copy[r], f) : copy' = [copy EXCEPT ![r] = files]
  /\ UNCHANGED <<main, data, index, commit, run>>

RemoveCopy(r) ==
  /\ Edit
  /\ copy' = [copy EXCEPT ![r] = None]
  /\ UNCHANGED <<main, data, index, commit, run>>

Pull(r) ==
  /\ copy' = [copy EXCEPT ![r] = main[r]]
  /\ UNCHANGED <<main, data, index, commit, run, edits>>

EditRefs(x, ref) ==
  /\ Edit
  /\ data' = [data EXCEPT ![x] =
       IF ref \in data[x] THEN data[x] \ {ref} ELSE data[x] \cup {ref}]
  /\ UNCHANGED <<main, copy, index, commit, run>>

Stage ==
  /\ index' = data
  /\ UNCHANGED <<main, copy, data, commit, run, edits>>

\* The hook reads the crosswalk's working tree, and absent siblings are not
\* among its roots.
HookPasses == CheckRefs(data, copy) = {}

\* A commit, with the hook installed or not.
Commit(hooked) ==
  /\ hooked => HookPasses
  /\ index # IF commit = None THEN [x \in Nodes \cup Sources |-> {}]
             ELSE commit.refs
  /\ commit' = [refs |-> index,
                tree |-> IF hooked THEN data ELSE None,
                copies |-> IF hooked THEN copy ELSE None]
  /\ run' = None
  /\ UNCHANGED <<main, copy, data, index, edits>>

(***************************************************************************)
(* The workflow.  The jobs run side by side.                               *)
(***************************************************************************)
Start ==
  /\ commit # None
  /\ run # None => \A j \in Jobs : run.result[j] # None
  /\ run' = [got |-> [j \in Jobs |-> [r \in Registers |-> None]],
             result |-> [j \in Jobs |-> None]]
  /\ UNCHANGED <<main, copy, data, index, commit, edits>>

Fetch(j, r) ==
  /\ run # None /\ run.result[j] = None
  /\ run.got[j][r] = None
  /\ \A s \in Before[r] : run.got[j][s] # None
  /\ run' = [run EXCEPT !.got[j][r] = main[r]]
  /\ UNCHANGED <<main, copy, data, index, commit, edits>>

\* No token, or no answer: the job's later steps do not run.
FetchFails(j) ==
  /\ run # None /\ run.result[j] = None
  /\ \E r \in Registers : run.got[j][r] = None
  /\ run' = [run EXCEPT !.result[j] = "no checkout"]
  /\ UNCHANGED <<main, copy, data, index, commit, edits>>

\* xref_ci's exit, with its three roots.
XrefCI(refs, roots) ==
  IF \E r \in Registers : roots[r] = None THEN "no checkout"
  ELSE IF CheckRefs(refs, roots) # {} THEN "dangling" ELSE "pass"

Finish(j) ==
  /\ run # None /\ run.result[j] = None
  /\ \A r \in Registers : run.got[j][r] # None
  /\ run' = [run EXCEPT !.result[j] =
       IF j = "refs" THEN XrefCI(commit.refs, Checkout(j))
       ELSE IF Loads(commit.refs) THEN "pass" ELSE "raises"]
  /\ UNCHANGED <<main, copy, data, index, commit, edits>>

Next ==
  \/ \E r \in Registers : \E f \in Files(r) : EditMain(r, f) \/ EditCopy(r, f)
  \/ \E r \in Registers : RemoveCopy(r) \/ Pull(r)
  \/ \E x \in Nodes \cup Sources : \E ref \in Holdable(x) : EditRefs(x, ref)
  \/ Stage
  \/ \E hooked \in BOOLEAN : Commit(hooked)
  \/ Start
  \/ \E j \in Jobs : FetchFails(j) \/ Finish(j)
  \/ \E j \in Jobs, r \in Registers : Fetch(j, r)

Spec == Init /\ [][Next]_vars

(***************************************************************************)
(* Properties.                                                             *)
(***************************************************************************)
\* A checkout holds one file of a name.
Checkouts(r) ==
  {files \in SUBSET Files(r) :
     \A f, g \in files : f.dir = g.dir /\ f.id = g.id => f = g}

TypeOK ==
  /\ main \in [Registers -> SUBSET AllFiles]
  /\ \A r \in Registers : main[r] \in Checkouts(r)
  /\ copy \in [Registers -> (SUBSET AllFiles) \cup {None}]
  /\ \A r \in Registers : copy[r] \in Checkouts(r) \cup {None}
  /\ {data, index} \subseteq Held
  /\ commit # None =>
       commit \in [refs: Held, tree: Held \cup {None},
                  copies: [Registers -> (SUBSET AllFiles) \cup {None}] \cup {None}]
  /\ run # None =>
       /\ commit # None
       /\ run \in [got: [Jobs -> [Registers -> (SUBSET AllFiles) \cup {None}]],
                  result: [Jobs -> Results \cup {None}]]
  /\ edits \in 0 .. MaxEdits

\* "The authoritative existence check" and the hook, "its fast local mirror",
\* apply one rule: a reference the check finds dangling in a commit the hook
\* let pass was not in the working tree the hook read, or its sibling was
\* absent, or the working copy had a file for it that main, when fetched, had
\* not.
RedAfterTheHookHasACause ==
  run # None /\ run.result["refs"] = "dangling" /\ commit.tree # None =>
    \E x \in Nodes \cup Sources : \E ref \in commit.refs[x] :
      LET r == ref.register
      IN /\ ~ResolveRef(ref, run.got["refs"][r])
         /\ \/ ref \notin commit.tree[x]
            \/ commit.copies[r] = None
            \/ \E f \in commit.copies[r] \ run.got["refs"][r] : Bears(f, ref)

OnlyMentioned(ref, root) ==
  /\ ref.register = "sovereign"
  /\ ~Reads("records", ref, root)
  /\ \E f \in root : f.names = ref.local_id

\* The existence check and the join keep two tables of where a register's
\* records are, and the workflow a third for each job.  When both jobs pass,
\* the join job, for each reference of a node of the commit, reads from its
\* checkouts what it would from all of the main it fetched; and it reads the
\* record the check found, but for an entity, which its checkouts leave out,
\* a vi reference, of which no resolver reads the record, a sovereign id that
\* another record only mentions, and a record that main lost between the two
\* jobs' fetches.
GreenMeansJoined ==
  run # None /\ run.result = [j \in Jobs |-> "pass"] =>
    \A n \in Nodes : \A ref \in commit.refs[n] :
      LET r == ref.register
          section == Join(n, commit.refs, Checkout("join"))[ref]
      IN ref.local_id \notin Entities =>
           /\ section = Section(ref, run.got["join"][r])
           /\ \/ section.own
              \/ r = "vi"
              \/ OnlyMentioned(ref, run.got["refs"][r])
              \/ \E f \in run.got["refs"][r] \ run.got["join"][r] : Bears(f, ref)

\* One conflict is counted for one node: whatever the crosswalk's working
\* tree holds and whichever checkouts it is joined with, no two nodes that
\* load list the same conflict (_check_invariants, VIResolver).
NoConflictIsCountedTwice ==
  \A roots \in {main, copy} : \A m, n \in Nodes :
    LET Listed(x) == UNION {Join(x, data, roots)[ref].with :
                              ref \in {r \in data[x] : r.register = "vi"}}
    IN m # n /\ Join(m, data, roots) # None /\ Join(n, data, roots) # None =>
         Listed(m) \cap Listed(n) = {}
=============================================================================
