---------------------------- MODULE RelatedImages ----------------------------
(***************************************************************************)
(* The images a CSV lists as related, found in the environments of the     *)
(* operator's containers (generate/internal/relatedimages.go).  Names and  *)
(* image references are sequences of words, joined by "-" (by "_" in the   *)
(* name of a variable, whose prefix RELATED_IMAGE_ is left out), because   *)
(* two of the joins the code makes are ambiguous.  The environments are    *)
(* chosen variable by variable as the code walks over them.                *)
(***************************************************************************)
EXTENDS Integers, Sequences, FiniteSets

CONSTANTS
  Names,            \* names of variables after the prefix, as sequences of words
  Lower,            \* word -> the word in lower case
  Images,           \* image references, as sequences of words
  Deployments,      \* sequence of [name, containers]: names as sequences of words
  MaxVars           \* bound: related variables in all environments

VARIABLES
  at,               \* [deployment, container] being read
  relatedImages,    \* what was collected, in order: [name, image, ref]
  seen,             \* keys of what was collected
  env,              \* every [name, image] read so far, names as formatted
  count,            \* related variables read
  final,            \* the list for the CSV: [name, image] by their place in relatedImages
  pc

vars == <<at, relatedImages, seen, env, count, final, pc>>

Init ==
  /\ at = [deployment |-> 1, container |-> 1]
  /\ relatedImages = <<>> /\ seen = {} /\ env = {} /\ count = 0
  /\ final = <<>> /\ pc = "read"

(* formatName: lower case, "-" for "_". *)
formatName(name) == [i \in DOMAIN name |-> Lower[name[i]]]

(* The deployment's name, and the container's where there are several. *)
containerRef(deployment, container) ==
  LET d == Deployments[deployment]
  IN  IF Len(d.containers) > 1 THEN d.name \o d.containers[container] ELSE d.name

(* name + "-" + imageRef *)
Key(name, image) == name \o image

(* collect: a key that was seen before is a duplicate. *)
collect(name, image) ==
  IF Key(name, image) \in seen THEN UNCHANGED <<relatedImages, seen>>
  ELSE /\ seen' = seen \cup {Key(name, image)}
       /\ relatedImages' = Append(relatedImages,
            [name |-> name, image |-> image, ref |-> containerRef(at.deployment, at.container)])

(* collectFromEnvironment, one variable.  One that takes its value from     *)
(* elsewhere ends the search with an error.                                 *)
Variable ==
  /\ pc = "read" /\ count < MaxVars
  /\ \E n \in Names, i \in Images :
       /\ collect(formatName(n), i)
       /\ env' = env \cup {[name |-> formatName(n), image |-> i]}
  /\ count' = count + 1
  /\ UNCHANGED <<at, final, pc>>

ValueFrom ==
  /\ pc = "read" /\ count < MaxVars
  /\ pc' = "failed"
  /\ UNCHANGED <<at, relatedImages, seen, env, count, final>>

NextContainer ==
  /\ pc = "read"
  /\ \/ /\ at.container < Len(Deployments[at.deployment].containers)
        /\ at' = [at EXCEPT !.container = @ + 1] /\ UNCHANGED pc
     \/ /\ at.container = Len(Deployments[at.deployment].containers)
        /\ at.deployment < Len(Deployments)
        /\ at' = [deployment |-> at.deployment + 1, container |-> 1] /\ UNCHANGED pc
     \/ /\ at = [deployment |-> Len(Deployments),
                 container |-> Len(Deployments[Len(Deployments)].containers)]
        /\ pc' = "list" /\ UNCHANGED at
  /\ UNCHANGED <<relatedImages, seen, env, count, final>>

relatedImagesByName(n) == {k \in DOMAIN relatedImages : relatedImages[k].name = n}
relatedImagesByImageRef(i) == {k \in DOMAIN relatedImages : relatedImages[k].image = i}
First(places) == CHOOSE k \in places : \A j \in places : k <= j

(* The name in the list: none for an image of several names, prefixed for a *)
(* name of several images.                                                  *)
ListedName(r) ==
  IF Cardinality(relatedImagesByImageRef(r.image)) > 1 THEN <<>>
  ELSE IF Cardinality(relatedImagesByName(r.name)) > 1 THEN r.ref \o r.name
  ELSE r.name

(* Mutant: every occurrence of an image is listed. *)
ListedAlways(r) == TRUE

(* Only the first occurrence of an image is listed. *)
Listed(r) == relatedImages[First(relatedImagesByImageRef(r.image))].name = r.name

collectedRelatedImages ==
  /\ pc = "list"
  /\ final' = [k \in {j \in DOMAIN relatedImages : Listed(relatedImages[j])} |->
                 [name |-> ListedName(relatedImages[k]), image |-> relatedImages[k].image]]
  /\ pc' = "done"
  /\ UNCHANGED <<at, relatedImages, seen, env, count>>

Next == Variable \/ ValueFrom \/ NextContainer \/ collectedRelatedImages

Spec == Init /\ [][Next]_vars

---------------------------------------------------------------------------
ContainerRefs ==
  UNION {{containerRef(d, c) : c \in DOMAIN Deployments[d].containers} : d \in DOMAIN Deployments}

(* Every image of the environments is in the list exactly once: under the   *)
(* name they give it, prefixed with a container's on a collision, or with   *)
(* no name if they give it several (collectedRelatedImages), whatever names *)
(* containers share.                                                        *)
ImagesListedOnce ==
  pc = "done" =>
    /\ {final[i].image : i \in DOMAIN final} = {e.image : e \in env}
    /\ \A i, j \in DOMAIN final : final[i].image = final[j].image => i = j
    /\ \A i \in DOMAIN final :
         LET names == {e.name : e \in {x \in env : x.image = final[i].image}}
         IN  IF Cardinality(names) > 1 THEN final[i].name = <<>>
             ELSE \E n \in names : final[i].name \in {n} \cup {ref \o n : ref \in ContainerRefs}
=============================================================================
