---------------------------- MODULE ReleaseValues ----------------------------
(***************************************************************************)
(* The values a release is rendered with: the spec of the custom resource, *)
(* overridden by the overrideValues of watches.yaml.  A tree of values is  *)
(* the set of its leaves, each a path of keys and a value; overrides are   *)
(* parsed in the order of a Go map, which is any order.  The recursive     *)
(* calls of mergeMaps are steps, one for each map that both trees have.    *)
(***************************************************************************)
EXTENDS SequencesExt

CONSTANTS Specs, Overrides  \* sets of trees; one leaf per override

VARIABLES spec,       \* cr.Object["spec"]
          overrides,  \* overrideValues still to be parsed
          given,      \* all of them
          parsed,     \* expOverrides
          calls,      \* the paths mergeMaps is called at and has yet to merge
          values,     \* what the manager gets
          pc

vars == <<spec, overrides, given, parsed, calls, values, pc>>

Init == /\ spec \in Specs /\ given \in Overrides /\ overrides = given
        /\ parsed = {} /\ calls = {} /\ values = {} /\ pc = "parse"

\* strvals sets a leaf: it replaces a subtree, and a step through a leaf that
\* is not a map is an error.
Blocked(tree, path) == \E l \in tree : IsStrictPrefix(l[1], path)

SetLeaf(tree, leaf) == {l \in tree : ~IsPrefix(leaf[1], l[1])} \cup {leaf}

ParseOverride ==
  /\ pc = "parse"
  /\ \E leaf \in overrides :
       IF Blocked(parsed, leaf[1])
       THEN pc' = "error" /\ UNCHANGED <<overrides, parsed>>
       ELSE /\ parsed' = SetLeaf(parsed, leaf)
            /\ overrides' = overrides \ {leaf}
            /\ UNCHANGED pc
  /\ UNCHANGED <<spec, given, calls, values>>

NewManager ==
  /\ pc = "parse" /\ overrides = {}
  /\ values' = spec /\ calls' = {<<>>}
  /\ pc' = "merge"
  /\ UNCHANGED <<spec, overrides, given, parsed>>

\* The keys of the map at a path, as paths.
Below(tree, p) == {l \in tree : IsStrictPrefix(p, l[1])}
KeysOf(tree, p) == {Append(p, l[1][Len(p) + 1]) : l \in Below(tree, p)}
IsMap(tree, p) == Below(tree, p) # {}

\* What remains when the subtrees at some paths are taken from the overrides.
Replace(paths) ==
  {l \in values : \A k \in paths : ~IsPrefix(k, l[1])}
  \cup {l \in parsed : \E k \in paths : IsPrefix(k, l[1])}

Merge(p, maps) ==
  /\ pc = "merge" /\ p \in calls
  /\ values' = Replace(KeysOf(parsed, p) \ maps)
  /\ calls' = (calls \ {p}) \cup maps
  /\ pc' = IF calls' = {} THEN "done" ELSE "merge"
  /\ UNCHANGED <<spec, overrides, given, parsed>>

\* Mutant: maps are replaced, not merged.
MergeShallow(p) == Merge(p, {})

MergeMaps(p) == Merge(p, {k \in KeysOf(parsed, p) : IsMap(values, k) /\ IsMap(parsed, k)})

Next == ParseOverride \/ NewManager \/ \E p \in calls : MergeMaps(p)

Spec == Init /\ [][Next]_vars

-----------------------------------------------------------------------------
(* Properties *)

\* Every value of the spec survives unless an override sets it, something
\* above it or something below it; nothing else is in the merged values.
MergeIsOverride ==
  pc = "done" =>
    values = parsed \cup {l \in spec : \A m \in parsed :
                            ~IsPrefix(l[1], m[1]) /\ ~IsPrefix(m[1], l[1])}
=============================================================================
