-------------------------- MODULE MCHelmOperator --------------------------
(***************************************************************************)
(* Two specs whose manifests share an object: the second one adds an       *)
(* object that cannot carry an owner reference and one kept by policy.     *)
(***************************************************************************)
EXTENDS HelmOperatorProperties, TLC

CONSTANTS s1, s2,   \* specs
          a, b, c   \* objects

MCRenders == (s1 :> {a}) @@ (s2 :> {a, b, c})
=============================================================================
