------------------------------ MODULE Registry ------------------------------
(***************************************************************************)
(* The pinned documents as the load path sees them, and the cross-record   *)
(* rules it enforces: registers_crosswalk/registry.py.                     *)
(*                                                                         *)
(* A register is Crosswalk.sources, a function from the ids pinned so far  *)
(* to their records.  A record keeps the fields the rules read:            *)
(*   version      the pair (canonical_url, point_in_time);                 *)
(*   citation     the citation after normalize_citation;                   *)
(*   drift        the pair (drift_key, drift_value) of its artifact;       *)
(*   archive      the head of archives, None when the list is empty (every *)
(*                entry the program writes is the head);                   *)
(*   cited        whether cited_in is non-empty;                           *)
(*   supersedes, merged_into, notes as in the code.                        *)
(***************************************************************************)
EXTENDS Naturals

CONSTANTS
  MaxId,      \* the highest id a name can carry: 9999, from "xr_src_NNNN"
  Versions,   \* (canonical_url, point_in_time) pairs
  Citations,  \* normalised citations
  Drifts,     \* (drift_key, drift_value) pairs
  Captures,   \* Wayback captures
  Shows,      \* what each capture's bytes read as: [Captures -> Drifts]
  Notes,      \* labels a pin may carry
  None

Ids == 1 .. MaxId

ASSUME RegistryAssumption ==
  /\ MaxId \in Nat \ {0}
  /\ None \notin Ids \cup Captures \cup Notes \cup Drifts
  /\ Shows \in [Captures -> Drifts]

(***************************************************************************)
(* Records and registers.                                                  *)
(***************************************************************************)
Source ==
  [version: Versions, citation: Citations, drift: Drifts,
   archive: Captures \cup {None}, cited: BOOLEAN,
   supersedes: Ids \cup {None}, merged_into: Ids \cup {None},
   notes: Notes \cup {None}]

IsRegister(s) == DOMAIN s \in SUBSET Ids /\ s \in [DOMAIN s -> Source]

\* {**sources, i: r}: the register with record r at id i.
With(s, i, r) == [j \in DOMAIN s \cup {i} |-> IF j = i THEN r ELSE s[j]]

Without(s, i) == [j \in DOMAIN s \ {i} |-> s[j]]

(***************************************************************************)
(* The one definition of each notion the callers share.                    *)
(***************************************************************************)
\* The ids already pinning this document version.
DuplicateOf(s, v) == {i \in DOMAIN s : s[i].version = v}

SupersededIds(s) == {s[i].supersedes : i \in DOMAIN s} \ {None}

LiveSources(s) ==
  {i \in DOMAIN s : s[i].merged_into = None /\ i \notin SupersededIds(s)}

\* The live pins holding the document that record r describes.
SameDocumentOf(s, r) ==
  {i \in LiveSources(s) : s[i].citation = r.citation /\ s[i].drift = r.drift}

\* check_source_invariants.  A node's id cannot clash with a source's: each
\* model requires its own prefix.
LinksResolve(s) ==
  \A i \in DOMAIN s :
    /\ s[i].supersedes \in DOMAIN s \cup {None}
    /\ s[i].merged_into \in DOMAIN s \cup {None}

CitedHasArchive(s) == \A i \in DOMAIN s : s[i].cited => s[i].archive # None

OnePinPerVersion(s) == \A i \in DOMAIN s : DuplicateOf(s, s[i].version) = {i}

OneLivePinPerDocument(s) ==
  \A i \in LiveSources(s) : SameDocumentOf(s, s[i]) = {i}

SourceInvariants(s) ==
  /\ LinksResolve(s)
  /\ CitedHasArchive(s)
  /\ OnePinPerVersion(s)
  /\ OneLivePinPerDocument(s)

(***************************************************************************)
(* What the properties say of records and registers.                       *)
(***************************************************************************)
\* The facts about the document, its citations and its chain.
Facts(r) ==
  <<r.version, r.citation, r.drift, r.cited, r.supersedes>>

\* The attached capture reads as the pin's drift value.
Reproduced(r) == r.archive # None => Shows[r.archive] = r.drift

Sound(s) ==
  /\ IsRegister(s)
  /\ SourceInvariants(s)
  /\ \A i \in DOMAIN s : Reproduced(s[i])
=============================================================================
