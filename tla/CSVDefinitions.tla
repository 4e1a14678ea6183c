--------------------------- MODULE CSVDefinitions ---------------------------
(***************************************************************************)
(* `generate kustomize manifests` for a Go project fills the owned CRDs of *)
(* the CSV base from markers in the API packages                           *)
(* (internal/generate/clusterserviceversion/bases/definitions).  The       *)
(* packages are loaded one after the other, the type of every API of the   *)
(* PROJECT file is walked for marked fields, and the descriptions are      *)
(* merged into the list the base has.  Kinds and fields are numbers that   *)
(* sort as their names do; the kind tells APIs apart.                      *)
(***************************************************************************)
EXTENDS Integers, Sequences, FiniteSets, SequencesExt

CONSTANTS
  Sources,    \* sequences of API packages [skip, group, kinds]
  Bases,      \* lists of owned descriptions a base may start with
  KindInfo,   \* kind -> [order, parses, spec, status] from its markers
  TypeFields, \* type -> set of fields
  APIs,       \* the APIs of the PROJECT file
  NoGroup,    \* a package without a groupName marker
  NoType,     \* a field whose type is not among the API types
  MaxRuns,    \* bound: how often the command is run
  MaxDepth    \* bound: segments of a path that are told apart

VARIABLES
  pkgs,    \* the API packages on disk
  owned,   \* owned descriptions of the base: [api, manual, desc]
  before,  \* owned before the last run
  types,   \* g.types with their groups: the loaded APIs
  root,    \* index of the package needTypes looks at
  todo,    \* loaded APIs of the PROJECT file not yet described
  defs,    \* definitionsByGVK: descriptions built so far
  walk,    \* [api, next, marked] of getMarkedChildrenOfField
  runs,
  pc

vars == <<pkgs, owned, before, types, root, todo, defs, walk, runs, pc>>

API(p, k) == [group |-> p.group, kind |-> k]

(* getPathSegmentForField: what a field adds to the path of its children. *)
Inline == [tag |-> "inline", id |-> 0, array |-> FALSE]
Ignore == [tag |-> "ignore", id |-> 0, array |-> FALSE]
PathSegment(f) ==
  IF f.embedded \/ (f.exported /\ f.json = "inline") THEN Inline
  ELSE IF ~f.exported \/ f.json = "-" THEN Ignore
  ELSE [tag |-> "field", id |-> f.id, array |-> f.array]

(* makePath: no path through an ignored field or to an inlined one; an       *)
(* array shows as such only above another segment.                           *)
makePath(segs) ==
  LET last == Len(segs)
      trim == [segs EXCEPT ![last].array = FALSE]
  IN  [include |-> segs[last].tag /= "inline" /\ \A i \in DOMAIN segs : segs[i].tag /= "ignore",
       path |-> SelectSeq(trim, LAMBDA s : s.tag = "field")]

(* getTypedDescriptors, setDescriptorFields: the included paths by order.   *)
(* The markers below the spec describe the spec, those below the status     *)
(* the status.                                                              *)
Descriptors(marked) ==
  LET ok     == {m \in marked : makePath(m.path).include}
      orders == SetToSortSeq({m.order : m \in ok}, <)
  IN  [i \in DOMAIN orders |-> {makePath(m.path).path : m \in {n \in ok : n.order = orders[i]}}]

NoWalk == [api |-> [group |-> NoGroup, kind |-> 0], next |-> {}, marked |-> {}]

Init ==
  /\ pkgs \in Sources /\ owned \in Bases /\ before = owned
  /\ types = {} /\ root = 1 /\ todo = {} /\ defs = {} /\ walk = NoWalk
  /\ runs = 0 /\ pc = "idle"

Start ==
  /\ pc = "idle" /\ runs < MaxRuns
  /\ pc' = "load" /\ root' = 1 /\ types' = {} /\ defs' = {} /\ runs' = runs + 1
  /\ before' = owned
  /\ UNCHANGED <<pkgs, owned, todo, walk>>

(* needTypes: a skip marker ends the loop over the packages. *)
needTypes ==
  /\ pc = "load" /\ root <= Len(pkgs)
  /\ LET p == pkgs[root] IN
       IF p.skip THEN root' = Len(pkgs) + 1 /\ types' = types
       ELSE /\ root' = root + 1
            /\ types' = types \cup {API(p, k) : k \in IF p.group = NoGroup THEN {} ELSE p.kinds}
  /\ UNCHANGED <<pkgs, owned, before, todo, defs, walk, runs, pc>>

Match ==
  /\ pc = "load" /\ root > Len(pkgs)
  /\ todo' = types \cap APIs /\ pc' = "describe"
  /\ UNCHANGED <<pkgs, owned, before, types, root, defs, walk, runs>>

(* buildCRDDescriptionFromType starts: resources that do not parse, or a    *)
(* type without a spec or status field, fail the command.                   *)
BeginType ==
  /\ pc = "describe"
  /\ \E api \in todo :
       LET info == KindInfo[api.kind] IN
       /\ todo' = todo \ {api}
       /\ IF info.parses /\ info.spec /= NoType /\ info.status /= NoType
            THEN /\ pc' = "walk"
                 /\ walk' = [api |-> api, marked |-> {},
                             next |-> {[type |-> t, path |-> <<>>] : t \in {info.spec, info.status}}]
            ELSE pc' = "failed" /\ walk' = walk
  /\ UNCHANGED <<pkgs, owned, before, types, root, defs, runs>>

Extend(path, f) == IF Len(path) < MaxDepth THEN Append(path, PathSegment(f)) ELSE path

(* One level of getMarkedChildrenOfField: the fields of every type on the   *)
(* level before.                                                            *)
WalkLevel ==
  /\ pc = "walk" /\ walk.next /= {}
  /\ LET steps == UNION {{[f |-> f, path |-> Extend(n.path, f)] : f \in TypeFields[n.type]}
                           : n \in walk.next}
     IN  walk' = [walk EXCEPT
           !.next = {[type |-> s.f.type, path |-> s.path] : s \in {t \in steps : t.f.type /= NoType}},
           !.marked = @ \cup {[path |-> s.path, order |-> s.f.order] : s \in {t \in steps : t.f.marked}}]
  /\ UNCHANGED <<pkgs, owned, before, types, root, todo, defs, runs, pc>>

FinishType ==
  /\ pc = "walk" /\ walk.next = {}
  /\ defs' = defs \cup {[api |-> walk.api, manual |-> FALSE, desc |-> Descriptors(walk.marked)]}
  /\ walk' = NoWalk /\ pc' = "describe"
  /\ UNCHANGED <<pkgs, owned, before, types, root, todo, runs>>

Order(d) == KindInfo[d.api.kind].order

(* Mutant: every owned description is kept, generated anew or not. *)
AllKept(list, new) == DOMAIN list

(* The positions in the base of what is not generated now. *)
Kept(list, new) == {i \in DOMAIN list : \A d \in new : d.api /= list[i].api}

(* crdBuckets: generated descriptions by their order, then the others with  *)
(* their index in the base as order.                                        *)
Buckets(list, new) ==
  {[order |-> Order(d), kept |-> 0, kind |-> d.api.kind, crd |-> d] : d \in new}
  \cup {[order |-> i - 1, kept |-> 1, kind |-> 0, crd |-> list[i]] : i \in Kept(list, new)}

(* Ascending orders; in a bucket the generated ones by name, then the kept. *)
Before(a, b) ==
  \/ a.order < b.order
  \/ a.order = b.order /\ a.kept < b.kept
  \/ a.order = b.order /\ a.kept = b.kept /\ a.kind < b.kind

(* updateDefinitionsByKey: the buckets one after the other. *)
Merged(list, new) ==
  LET all == Buckets(list, new)
      place(e) == Cardinality({f \in all : Before(f, e)}) + 1
  IN  [k \in {place(e) : e \in all} |-> (CHOOSE e \in all : place(e) = k).crd]

updateDefinitionsByKey ==
  /\ pc = "describe" /\ todo = {}
  /\ owned' = Merged(owned, defs)
  /\ pc' = "idle"
  /\ UNCHANGED <<pkgs, before, types, root, todo, defs, walk, runs>>

Next ==
  \/ Start \/ needTypes \/ Match \/ BeginType \/ WalkLevel \/ FinishType
  \/ updateDefinitionsByKey

Spec == Init /\ [][Next]_vars

---------------------------------------------------------------------------

Ended == pc = "idle" /\ runs > 0
Elements(s) == {s[i] : i \in DOMAIN s}

(* After a run the base describes every API it described       *)
(* before, once: hand-written descriptions of APIs without Go markers are   *)
(* kept as they were, and generated ones replace their older versions.      *)
OwnedMerged ==
  Ended =>
    /\ \A i, j \in DOMAIN owned : owned[i].api = owned[j].api => i = j
    /\ Elements(owned) = defs \cup {d \in Elements(before) : \A e \in defs : e.api /= d.api}
=============================================================================
