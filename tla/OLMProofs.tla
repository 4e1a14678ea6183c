------------------------------ MODULE OLMProofs ------------------------------
(***************************************************************************)
(* Proofs about the commands that work with OLM in a cluster.  For every   *)
(* manifest laid out as OLM's are, olm install and olm uninstall leave     *)
(* everything or nothing when they succeed; for all package directories    *)
(* none of which is a part of another one, run packagemanifests leaves a   *)
(* registry with the directory it was given; for all versions, modes and   *)
(* groups, run bundle, its upgrade and cleanup leave what they report; for *)
(* all catalogs, however they are split over ConfigMaps, registry pods     *)
(* serve them; and for all index images an upgrade is the channel's head.  *)
(***************************************************************************)
EXTENDS OLMCommands, Naturals, FiniteSetTheorems, SequenceTheorems, WellFoundedInduction, TLAPS

-----------------------------------------------------------------------------
(* olm install and olm uninstall. *)
ObjectStates == {"absent", "present", "terminating"}

OLMTyped ==
  /\ state \in [Manifest -> ObjectStates]
  /\ olmPc \in {"idle", "check", "crds", "create", "rollout", "version", "objects", "delete", "gone"}
  /\ olmPc = "crds" => olmTodo \in Seq(OLM!Range(Crds))
  /\ olmPc \in {"delete", "gone"} => olmTodo \in Seq(Manifest)
  /\ olmPc = "gone" => olmTodo # <<>>

\* An object of one of OLM's kinds is not there without its definition.
KindInv ==
  \A o \in Manifest : state[o] # "absent" => KindOf[o] = NoCRD \/ state[KindOf[o]] # "absent"

\* An install has found nothing, and has created what it has no longer to do.
CreateInv ==
  /\ olmPc = "crds" => \A o \in Manifest :
       /\ state[o] # "terminating"
       /\ o \notin OLM!Range(Crds) => state[o] = "absent"
       /\ o \in OLM!Range(Crds) /\ o \notin OLM!Range(olmTodo) => state[o] = "present"
  /\ olmPc = "create" => \E k \in 0 .. Len(Resources) :
       /\ olmTodo = SubSeq(Resources, k + 1, Len(Resources))
       /\ \A o \in OLM!Range(Crds) : state[o] = "present"
       /\ \A i \in 1 .. k : state[Resources[i]] = "present"
       /\ \A o \in Manifest :
            /\ state[o] # "terminating"
            /\ state[o] = "present" =>
                 o \in OLM!Range(Crds) \/ \E i \in 1 .. k : o = Resources[i]
  /\ olmPc = "rollout" => state = OLM!Complete

\* An uninstall leaves what it has still to delete.
DeleteInv ==
  olmPc \in {"delete", "gone"} =>
    \A o \in Manifest : state[o] # "absent" => o \in OLM!Range(olmTodo)

DoneInv ==
  /\ olmPc # "idle" => olmResult = "none"
  /\ OLM!OutcomeComplete

OLMInv == OLMTyped /\ KindInv /\ CreateInv /\ DeleteInv /\ DoneInv

\* An empty list has no elements.
LEMMA EmptyRange == OLM!Range(<<>>) = {}
  BY DEF OLM!Range

\* The elements of a list are its head and those of its tail.
LEMMA RangeHeadTail ==
  ASSUME NEW S, NEW s \in Seq(S), s # <<>>
  PROVE  /\ Head(s) \in S /\ Tail(s) \in Seq(S) /\ Head(s) \in OLM!Range(s)
         /\ OLM!Range(s) = {Head(s)} \cup OLM!Range(Tail(s))
<1>1. /\ Head(s) \in S /\ Tail(s) \in Seq(S) /\ Len(s) \in Nat /\ Len(s) > 0
      /\ DOMAIN s = 1 .. Len(s) /\ DOMAIN Tail(s) = 1 .. Len(s) - 1
      /\ Head(s) = s[1] /\ \A i \in 1 .. Len(s) - 1 : Tail(s)[i] = s[i + 1]
  OBVIOUS
<1>2. Head(s) \in OLM!Range(s)
  BY <1>1 DEF OLM!Range
<1>3. ASSUME NEW x \in OLM!Range(s) PROVE x = Head(s) \/ x \in OLM!Range(Tail(s))
  <2>1. PICK i \in 1 .. Len(s) : x = s[i]
    BY <1>1 DEF OLM!Range
  <2>2. CASE i = 1 BY <1>1, <2>1, <2>2
  <2>3. CASE i # 1
    <3>1. i - 1 \in DOMAIN Tail(s) /\ Tail(s)[i - 1] = x
      BY <1>1, <2>1, <2>3
    <3> QED BY <3>1 DEF OLM!Range
  <2> QED BY <2>2, <2>3
<1>4. ASSUME NEW x \in OLM!Range(Tail(s)) PROVE x \in OLM!Range(s)
  <2>1. PICK i \in 1 .. Len(s) - 1 : x = Tail(s)[i]
    BY <1>1 DEF OLM!Range
  <2>2. i + 1 \in DOMAIN s /\ s[i + 1] = x
    BY <1>1, <2>1
  <2> QED BY <2>2 DEF OLM!Range
<1> QED BY <1>1, <1>2, <1>3, <1>4

\* The elements of two lists are those of their concatenation.
LEMMA RangeOfBoth ==
  ASSUME NEW S, NEW s \in Seq(S), NEW t \in Seq(S)
  PROVE  s \o t \in Seq(S) /\ OLM!Range(s) \cup OLM!Range(t) \subseteq OLM!Range(s \o t)
<1>1. /\ s \o t \in Seq(S) /\ Len(s \o t) = Len(s) + Len(t)
      /\ \A i \in 1 .. Len(s) : (s \o t)[i] = s[i]
      /\ \A i \in 1 .. Len(t) : (s \o t)[Len(s) + i] = t[i]
  OBVIOUS
<1>2. /\ DOMAIN s = 1 .. Len(s) /\ Len(s) \in Nat /\ DOMAIN t = 1 .. Len(t) /\ Len(t) \in Nat
      /\ DOMAIN (s \o t) = 1 .. Len(s) + Len(t)
  BY <1>1
<1>4. ASSUME NEW x \in OLM!Range(s) PROVE x \in OLM!Range(s \o t)
  BY <1>1, <1>2, <1>4 DEF OLM!Range
<1>5. ASSUME NEW x \in OLM!Range(t) PROVE x \in OLM!Range(s \o t)
  <2>1. PICK i \in 1 .. Len(t) : x = t[i]
    BY <1>2 DEF OLM!Range
  <2>2. Len(s) + i \in DOMAIN (s \o t)
    BY <1>2, <2>1
  <2> QED BY <1>1, <2>1, <2>2 DEF OLM!Range
<1> QED BY <1>1, <1>4, <1>5

\* The objects an object is deleted with are objects of the manifest.
LEMMA ParentsKnown ==
  ASSUME ManifestOrder, NEW o \in Manifest
  PROVE  /\ OLM!Parents(o) \subseteq Manifest
         /\ KindOf[o] \in OLM!Range(Crds) \cup {NoCRD} /\ OLM!Range(Crds) \subseteq Manifest
         /\ OLM!Range(Resources) \subseteq Manifest
         /\ o \in OLM!Range(Crds) => OLM!Parents(o) = {}
  BY DEF ManifestOrder, OLM!Parents, Manifest, OLM!All

\* Nothing is there at first, or everything.
LEMMA OLMStart == ASSUME ManifestOrder, OLM!Init PROVE OLMInv
<1>1. olmPc = "idle" /\ olmResult = "none"
  BY DEF OLM!Init
<1>2. state \in [Manifest -> ObjectStates] /\ KindInv
  <2>1. CASE state = OLM!Untouched
    BY <2>1 DEF OLM!Untouched, ObjectStates, KindInv, Manifest
  <2>2. CASE state = OLM!Complete
    <3>1. state \in [Manifest -> ObjectStates] /\ \A o \in Manifest : state[o] = "present"
      BY <2>2 DEF OLM!Complete, ObjectStates, Manifest
    <3> QED BY <3>1, ParentsKnown DEF KindInv
  <2> QED BY <2>1, <2>2 DEF OLM!Init
<1> QED BY <1>1, <1>2 DEF OLMInv, OLMTyped, CreateInv, DeleteInv, DoneInv, OLM!OutcomeComplete

\* Steps of the commands that touch nothing at the API server and begin or end
\* a command without success.
LEMMA OLMQuiet ==
  ASSUME ManifestOrder, OLMInv, UNCHANGED state,
         \/ olmPc' = "idle" /\ olmResult' \in {"none", "refused", "error", "notInstalled", "aborted"}
         \/ olmPc' \in {"check", "version", "objects"} /\ olmResult' = "none"
  PROVE  OLMInv'
  BY DEF OLMInv, OLMTyped, KindInv, CreateInv, DeleteInv, DoneInv, OLM!OutcomeComplete,
         OLM!Complete, OLM!Untouched

\* While an install creates, and once everything is there, nothing goes away:
\* what an object is deleted with was created before it.
LEMMA NothingGoes ==
  ASSUME ManifestOrder, OLMInv, NEW o \in Manifest, OLM!Cascade(o) \/ OLM!Finish(o)
  PROVE  olmPc \notin {"crds", "create", "rollout"} /\ state # OLM!Complete
<1>1. state[o] # "absent" /\ state[o] # "terminating" => \E p \in OLM!Parents(o) : state[p] # "present"
  BY DEF OLM!Cascade, OLM!Finish
<1>2. state[o] \in {"present", "terminating"}
  BY DEF OLM!Cascade, OLM!Finish
<1>3. ASSUME \A p \in Manifest : state[p] = "present" PROVE FALSE
  BY <1>1, <1>2, <1>3, ParentsKnown
<1>4. state # OLM!Complete /\ olmPc # "rollout"
  BY <1>3 DEF OLM!Complete, Manifest, OLMInv, CreateInv
<1>5. olmPc # "crds"
  <2> SUFFICES ASSUME olmPc = "crds" PROVE FALSE
    OBVIOUS
  <2>1. state[o] = "present" /\ o \in OLM!Range(Crds)
    BY <1>2 DEF OLMInv, CreateInv
  <2> QED BY <1>1, <2>1, ParentsKnown
<1>6. olmPc # "create"
  <2> SUFFICES ASSUME olmPc = "create" PROVE FALSE
    OBVIOUS
  <2>1. PICK k \in 0 .. Len(Resources) :
          /\ \A c \in OLM!Range(Crds) : state[c] = "present"
          /\ \A i \in 1 .. k : state[Resources[i]] = "present"
          /\ \A q \in Manifest :
               /\ state[q] # "terminating"
               /\ state[q] = "present" =>
                    q \in OLM!Range(Crds) \/ \E i \in 1 .. k : q = Resources[i]
    BY DEF OLMInv, CreateInv
  <2>2. state[o] = "present" /\ o \notin OLM!Range(Crds)
    BY <1>1, <1>2, <2>1, ParentsKnown
  <2>3. PICK i \in 1 .. k : o = Resources[i]
    BY <2>1, <2>2
  <2>4. Len(Resources) \in Nat
    BY DEF ManifestOrder
  <2>5. Within[o] # NoCRD => state[Within[o]] = "present"
    <3>1. Within[o] # NoCRD => \E j \in 1 .. i - 1 : Resources[j] = Within[o]
      BY <2>3, <2>4 DEF ManifestOrder
    <3> QED BY <2>1, <2>3, <2>4, <3>1
  <2>6. KindOf[o] # NoCRD => state[KindOf[o]] = "present"
    BY <2>1, ParentsKnown
  <2> QED BY <1>1, <2>2, <2>5, <2>6, <2>1 DEF OLM!Parents
<1> QED BY <1>4, <1>5, <1>6

\* The API server ends deletions and starts those of contained objects.
LEMMA OLMEnvironment ==
  ASSUME ManifestOrder, OLMInv, OLM!Environment
  PROVE  OLMInv'
<1>1. UNCHANGED <<olmPc, olmTodo, olmResult>>
  BY DEF OLM!Environment, OLM!Establish, OLM!Cascade, OLM!Finish, OLM!RollOut, OLM!GoDown,
    OLM!process
<1>2. CASE UNCHANGED state
  BY <1>1, <1>2 DEF OLMInv, OLMTyped, KindInv, CreateInv, DeleteInv, DoneInv,
       OLM!OutcomeComplete, OLM!Complete, OLM!Untouched
<1>3. ASSUME NEW o \in Manifest, OLM!Cascade(o) \/ OLM!Finish(o) PROVE OLMInv'
  <2>1. olmPc \notin {"crds", "create", "rollout"} /\ state # OLM!Complete
    BY <1>3, NothingGoes
  <2>2. /\ state \in [Manifest -> ObjectStates] /\ state[o] # "absent"
        /\ \E v \in ObjectStates : state' = [state EXCEPT ![o] = v]
    BY <1>3 DEF OLM!Cascade, OLM!Finish, OLMInv, OLMTyped, ObjectStates
  <2>3. state' \in [Manifest -> ObjectStates] /\ \A q \in Manifest \ {o} : state'[q] = state[q]
    BY <2>2
  <2>4. state # OLM!Untouched
    BY <2>2 DEF OLM!Untouched, Manifest
  <2>5. OLMTyped' /\ CreateInv' /\ DeleteInv' /\ DoneInv'
    BY <1>1, <2>1, <2>2, <2>3, <2>4 DEF OLMInv, OLMTyped, CreateInv, DeleteInv, DoneInv,
      OLM!OutcomeComplete
  <2>6. KindInv'
    <3> SUFFICES ASSUME NEW q \in Manifest, state'[q] # "absent", KindOf[q] # NoCRD
                 PROVE  state'[KindOf[q]] # "absent"
      BY DEF KindInv
    <3>1. KindOf[q] \in Manifest /\ KindOf[q] \in OLM!Parents(q)
      BY ParentsKnown DEF OLM!Parents
    <3>2. state[q] # "absent" /\ state[KindOf[q]] # "absent"
      BY <2>2, <2>3 DEF OLMInv, KindInv
    <3>3. CASE KindOf[q] # o BY <2>3, <3>1, <3>2, <3>3
    <3>4. CASE KindOf[q] = o
      <4>1. ~OLM!Finish(o)
        BY <3>1, <3>2, <3>4 DEF OLM!Finish, Manifest
      <4> QED BY <1>3, <2>2, <3>4, <4>1 DEF OLM!Cascade
    <3> QED BY <3>3, <3>4
  <2> QED BY <2>5, <2>6 DEF OLMInv
<1>4. UNCHANGED state \/ \E o \in Manifest : OLM!Cascade(o) \/ OLM!Finish(o)
  BY DEF OLM!Environment, OLM!Establish, OLM!RollOut, OLM!GoDown, Manifest
<1> QED BY <1>2, <1>3, <1>4

\* An install that finds neither a definition nor an object of a built-in kind
\* finds nothing at all.
LEMMA OLMCheck ==
  ASSUME ManifestOrder, OLMInv, OLM!CheckExisting
  PROVE  OLMInv'
<1>1. CASE olmPc' = "idle"
  BY <1>1, OLMQuiet DEF OLM!CheckExisting, OLM!cluster
<1>2. CASE olmPc' # "idle"
  <2>1. /\ olmPc = "check" /\ olmPc' = "crds" /\ olmTodo' = Crds /\ UNCHANGED <<state, olmResult>>
        /\ \A o \in OLM!Range(Crds) : state[o] = "absent"
        /\ \A o \in Manifest : KindOf[o] = NoCRD => state[o] = "absent"
    BY <1>2 DEF OLM!CheckExisting, OLM!HasInstalledResources, OLM!cluster, Manifest
  <2>2. \A o \in Manifest : state[o] = "absent"
    BY <2>1, ParentsKnown DEF OLMInv, KindInv
  <2>3. Crds \in Seq(OLM!Range(Crds))
    BY DEF ManifestOrder, OLM!Range
  <2> QED BY <2>1, <2>2, <2>3 DEF OLMInv, OLMTyped, KindInv, CreateInv, DeleteInv, DoneInv,
            OLM!OutcomeComplete
<1> QED BY <1>1, <1>2

\* An install creates a definition.
LEMMA OLMCreateCRD ==
  ASSUME ManifestOrder, OLMInv, OLM!SafeCreateOneResource, olmPc = "crds"
  PROVE  OLMInv'
<1> DEFINE c == Head(olmTodo)
<1>1. /\ c \in OLM!Range(Crds) /\ olmTodo' \in Seq(OLM!Range(Crds))
      /\ OLM!Range(olmTodo) = {c} \cup OLM!Range(olmTodo')
  BY RangeHeadTail DEF OLM!SafeCreateOneResource, OLMInv, OLMTyped
<1>2. /\ state' = [state EXCEPT ![c] = IF @ = "absent" THEN "present" ELSE @]
      /\ UNCHANGED <<olmPc, olmResult>>
  BY DEF OLM!SafeCreateOneResource
<1>3. c \in Manifest /\ state \in [Manifest -> ObjectStates] /\ OLM!Range(Crds) \subseteq Manifest
  BY <1>1, ParentsKnown DEF OLMInv, OLMTyped, Manifest, OLM!All
<1>4. /\ state' \in [Manifest -> ObjectStates] /\ state'[c] = "present"
      /\ \A o \in Manifest \ {c} : state'[o] = state[o]
  BY <1>2, <1>3 DEF ObjectStates, OLMInv, CreateInv
<1>5. KindInv'
  <2> SUFFICES ASSUME NEW o \in Manifest, state'[o] # "absent", KindOf[o] # NoCRD
               PROVE  state'[KindOf[o]] # "absent"
    BY DEF KindInv
  <2>1. KindOf[o] \in Manifest /\ o # c
    BY <1>1, <1>3, ParentsKnown DEF ManifestOrder
  <2> QED BY <1>4, <2>1 DEF OLMInv, KindInv
<1>6. CreateInv'
  BY <1>1, <1>2, <1>3, <1>4 DEF OLMInv, CreateInv
<1> QED BY <1>1, <1>2, <1>4, <1>5, <1>6 DEF OLMInv, OLMTyped, DeleteInv, DoneInv,
        OLM!OutcomeComplete

\* An install creates another object.
LEMMA OLMCreateResource ==
  ASSUME ManifestOrder, OLMInv, OLM!SafeCreateOneResource, olmPc = "create"
  PROVE  OLMInv'
<1> DEFINE Upto(k) == {Resources[i] : i \in 1 .. k}
<1>1. PICK k \in 0 .. Len(Resources) :
       /\ olmTodo = SubSeq(Resources, k + 1, Len(Resources))
       /\ \A o \in OLM!Range(Crds) : state[o] = "present"
       /\ \A i \in 1 .. k : state[Resources[i]] = "present"
       /\ \A o \in Manifest :
            /\ state[o] # "terminating"
            /\ state[o] = "present" =>
                 o \in OLM!Range(Crds) \/ \E i \in 1 .. k : o = Resources[i]
  BY DEF OLMInv, CreateInv
<1> DEFINE r == Resources[k + 1]
<1>2. /\ olmTodo # <<>> /\ olmTodo' = Tail(olmTodo) /\ UNCHANGED <<olmPc, olmResult>>
      /\ state' = [state EXCEPT ![Head(olmTodo)] = IF @ = "absent" THEN "present" ELSE @]
  BY DEF OLM!SafeCreateOneResource
<1>3. Resources \in Seq(Manifest) /\ Len(Resources) \in Nat
  BY DEF ManifestOrder
<1>4. k < Len(Resources)
  BY <1>1, <1>2, <1>3
<1>5. /\ Head(olmTodo) = r /\ r \in Manifest
      /\ Tail(olmTodo) = SubSeq(Resources, (k + 1) + 1, Len(Resources))
  <2>1. k + 1 \in 1 .. Len(Resources) /\ Len(Resources) \in k + 1 .. Len(Resources)
    BY <1>3, <1>4
  <2>2. Resources[k + 1] \in Manifest
    BY <1>3, <2>1
  <2> HIDE DEF r
  <2>3. /\ Head(SubSeq(Resources, k + 1, Len(Resources))) = Resources[k + 1]
        /\ Tail(SubSeq(Resources, k + 1, Len(Resources)))
             = SubSeq(Resources, (k + 1) + 1, Len(Resources))
    BY <1>3, <2>1, HeadTailOfSubSeq
  <2> QED BY <1>1, <2>2, <2>3 DEF r
<1>6. /\ state' = [state EXCEPT ![r] = IF @ = "absent" THEN "present" ELSE @]
      /\ olmTodo' = SubSeq(Resources, (k + 1) + 1, Len(Resources))
  BY <1>2, <1>5
<1> HIDE DEF r
<1>7. /\ state' \in [Manifest -> ObjectStates] /\ state'[r] = "present"
      /\ \A o \in Manifest \ {r} : state'[o] = state[o]
  BY <1>1, <1>5, <1>6 DEF OLMInv, OLMTyped, ObjectStates
<1>8. \A o \in Manifest : state[o] = "present" => state'[o] = "present"
  BY <1>7
<1>9. \A o \in OLM!Range(Crds) : state'[o] = "present"
  BY <1>1, <1>5, <1>8, ParentsKnown
<1>10. KindInv'
  <2> SUFFICES ASSUME NEW o \in Manifest, state'[o] # "absent", KindOf[o] # NoCRD
               PROVE  state'[KindOf[o]] # "absent"
    BY DEF KindInv
  <2> QED BY <1>9, ParentsKnown
<1>11. CreateInv'
  <2>1. \A i \in 1 .. k + 1 : state'[Resources[i]] = "present"
    <3> TAKE i \in 1 .. k + 1
    <3>1. CASE i = k + 1 BY <1>7, <3>1 DEF r
    <3>2. CASE i \in 1 .. k
      <4>1. Resources[i] \in Manifest
        BY <1>3, <1>4, <3>2
      <4> QED BY <1>1, <1>8, <3>2, <4>1
    <3> QED BY <3>1, <3>2, <1>4
  <2>2. ASSUME NEW o \in Manifest
        PROVE  /\ state'[o] # "terminating"
               /\ state'[o] = "present" =>
                    o \in OLM!Range(Crds) \/ \E i \in 1 .. k + 1 : o = Resources[i]
    <3>1. CASE o = r
      <4>1. k + 1 \in 1 .. k + 1
        BY <1>3, <1>4
      <4> QED BY <1>7, <3>1, <4>1 DEF r
    <3>2. CASE o # r
      <4>1. state'[o] = state[o] /\ state[o] # "terminating"
        BY <1>1, <1>7, <3>2
      <4>2. \A i \in 1 .. k : i \in 1 .. k + 1
        BY <1>3, <1>4
      <4> QED BY <1>1, <4>1, <4>2
    <3> QED BY <3>1, <3>2
  <2>3. k + 1 \in 0 .. Len(Resources)
    BY <1>3, <1>4
  <2>4. olmPc' = "create"
    BY <1>2
  <2> QED BY <1>6, <1>9, <2>1, <2>2, <2>3, <2>4 DEF CreateInv
<1> QED BY <1>2, <1>7, <1>10, <1>11 DEF OLMInv, OLMTyped, DeleteInv, DoneInv, OLM!OutcomeComplete

\* An install that has created the definitions goes on to the other objects.
LEMMA OLMAwaitCRDs ==
  ASSUME ManifestOrder, OLMInv, OLM!AwaitCRDs
  PROVE  OLMInv'
<1>1. /\ olmPc = "crds" /\ olmTodo = <<>> /\ olmPc' = "create" /\ olmTodo' = Resources
      /\ UNCHANGED <<state, olmResult>>
  BY DEF OLM!AwaitCRDs, OLM!cluster
<1>2. /\ \A o \in OLM!Range(Crds) : state'[o] = "present"
      /\ \A o \in Manifest : /\ state'[o] # "terminating"
                             /\ state'[o] = "present" => o \in OLM!Range(Crds)
  BY <1>1, EmptyRange, ParentsKnown DEF OLMInv, CreateInv, Manifest, OLM!All
<1>3. Resources = SubSeq(Resources, 0 + 1, Len(Resources)) /\ Len(Resources) \in Nat
  BY DEF ManifestOrder
<1>4. 1 .. 0 = {} /\ 0 \in 0 .. Len(Resources)
  BY <1>3
<1>5. CreateInv'
  <2>1. \A i \in 1 .. 0 : state'[Resources[i]] = "present"
    BY <1>4
  <2> QED BY <1>1, <1>2, <1>3, <1>4, <2>1 DEF CreateInv
<1> QED BY <1>1, <1>5 DEF OLMInv, OLMTyped, KindInv, DeleteInv, DoneInv, OLM!OutcomeComplete

\* An install that has created everything waits for the rollouts.
LEMMA OLMAwaitRollouts ==
  ASSUME ManifestOrder, OLMInv, OLM!AwaitRollouts
  PROVE  OLMInv'
<1>1. /\ olmPc = "create" /\ olmTodo = <<>> /\ olmPc' = "rollout" /\ UNCHANGED <<state, olmResult>>
  BY DEF OLM!AwaitRollouts, OLM!cluster
<1>2. PICK k \in 0 .. Len(Resources) :
       /\ olmTodo = SubSeq(Resources, k + 1, Len(Resources))
       /\ \A o \in OLM!Range(Crds) : state[o] = "present"
       /\ \A i \in 1 .. k : state[Resources[i]] = "present"
  BY <1>1 DEF OLMInv, CreateInv
<1>3. Resources \in Seq(Manifest) /\ Len(Resources) \in Nat
  BY DEF ManifestOrder
<1>4. k = Len(Resources)
  <2>1. k < Len(Resources) => Len(SubSeq(Resources, k + 1, Len(Resources))) = Len(Resources) - k
    BY <1>3
  <2>2. Len(olmTodo) = 0 /\ olmTodo = SubSeq(Resources, k + 1, Len(Resources))
    <3>1. Len(olmTodo) = 0
      BY <1>1
    <3> QED BY <1>2, <3>1
  <2> QED BY <1>3, <2>1, <2>2
<1>5. ASSUME NEW o \in Manifest PROVE state[o] = "present"
  <2>1. CASE o \in OLM!Range(Crds) BY <1>2, <2>1
  <2>2. CASE o \in OLM!Range(Resources)
    <3>1. PICK i \in 1 .. Len(Resources) : o = Resources[i]
      BY <1>3, <2>2 DEF OLM!Range
    <3> QED BY <1>2, <1>4, <3>1
  <2> QED BY <2>1, <2>2 DEF Manifest, OLM!All
<1>6. state' = OLM!Complete
  BY <1>1, <1>5 DEF OLMInv, OLMTyped, OLM!Complete, Manifest
<1> QED BY <1>1, <1>6 DEF OLMInv, OLMTyped, KindInv, CreateInv, DeleteInv, DoneInv,
        OLM!OutcomeComplete

\* An uninstall deletes one object after the other and waits for each.
LEMMA OLMDelete ==
  ASSUME ManifestOrder, OLMInv, OLM!DeleteOne \/ OLM!AwaitGone
  PROVE  OLMInv'
<1> DEFINE o == Head(olmTodo)
<1>1. /\ olmPc \in {"delete", "gone"} /\ olmTodo \in Seq(Manifest) /\ olmTodo # <<>>
      /\ state \in [Manifest -> ObjectStates]
  BY DEF OLM!DeleteOne, OLM!AwaitGone, OLMInv, OLMTyped
<1>2. /\ o \in Manifest /\ Tail(olmTodo) \in Seq(Manifest)
      /\ OLM!Range(olmTodo) = {o} \cup OLM!Range(Tail(olmTodo))
  BY <1>1, RangeHeadTail
<1> HIDE DEF o
<1>3. CASE OLM!AwaitGone
  <2>1. /\ state[o] = "absent" /\ olmPc' = "delete" /\ olmTodo' = Tail(olmTodo)
        /\ UNCHANGED <<state, olmResult>>
    BY <1>3 DEF OLM!AwaitGone, o, OLM!cluster
  <2> QED BY <1>1, <1>2, <2>1 DEF OLMInv, OLMTyped, KindInv, CreateInv, DeleteInv, DoneInv,
          OLM!OutcomeComplete
<1>4. CASE OLM!DeleteOne /\ OLM!Mapped(o)
  <2>1. /\ state' = [state EXCEPT ![o] = IF @ = "present" THEN "terminating" ELSE @]
        /\ olmPc' = "gone" /\ UNCHANGED <<olmTodo, olmResult>>
    BY <1>4 DEF OLM!DeleteOne, o
  <2>2. /\ state' \in [Manifest -> ObjectStates]
        /\ \A q \in Manifest : state'[q] = "absent" <=> state[q] = "absent"
    BY <1>1, <1>2, <2>1 DEF ObjectStates
  <2>3. KindInv'
    BY <2>2, ParentsKnown DEF OLMInv, KindInv
  <2> QED BY <1>1, <2>1, <2>2, <2>3 DEF OLMInv, OLMTyped, CreateInv, DeleteInv, DoneInv,
          OLM!OutcomeComplete
<1>5. CASE OLM!DeleteOne /\ ~OLM!Mapped(o)
  BY <1>5, OLMQuiet DEF OLM!DeleteOne, OLM!End, o
<1> QED BY <1>3, <1>4, <1>5

\* The command takes a step, or the API server, or a new command starts.
LEMMA OLMStep ==
  ASSUME ManifestOrder, OLMInv, [OLM!Next]_(OLM!vars)
  PROVE  OLMInv'
<1>1. CASE OLM!Install \/ OLM!Uninstall \/ OLM!Abort
  BY <1>1, OLMQuiet DEF OLM!Install, OLM!Uninstall, OLM!Abort, OLM!Start, OLM!End, OLM!cluster
<1>2. ASSUME NEW given \in {"same", "none", "other"}, OLM!CheckVersion(given) PROVE OLMInv'
  <2>1. UNCHANGED state
    BY <1>2 DEF OLM!CheckVersion, OLM!cluster
  <2>2. CASE olmPc' = "idle"
    BY <1>2, <2>1, <2>2, OLMQuiet DEF OLM!CheckVersion, OLM!End
  <2>3. CASE olmPc' # "idle"
    <3>1. olmPc' = "objects" /\ olmResult' = "none"
      BY <1>2, <2>3 DEF OLM!CheckVersion, OLM!End, OLMInv, DoneInv
    <3> QED BY <2>1, <3>1, OLMQuiet
  <2> QED BY <2>2, <2>3
<1>3. CASE OLM!CheckExisting BY <1>3, OLMCheck
<1>4. CASE OLM!SafeCreateOneResource
  BY <1>4, OLMCreateCRD, OLMCreateResource DEF OLM!SafeCreateOneResource
<1>5. CASE OLM!AwaitCRDs BY <1>5, OLMAwaitCRDs
<1>6. CASE OLM!AwaitRollouts BY <1>6, OLMAwaitRollouts
<1>7. CASE OLM!RolloutWait \/ OLM!Installed
  <2>1. /\ olmPc = "rollout" /\ UNCHANGED state
        /\ \/ UNCHANGED <<olmPc, olmResult>>
           \/ olmPc' = "idle" /\ olmResult' = "installed"
    BY <1>7 DEF OLM!RolloutWait, OLM!Installed, OLM!End, OLM!cluster
  <2> QED BY <2>1 DEF OLMInv, OLMTyped, KindInv, CreateInv, DeleteInv, DoneInv,
          OLM!OutcomeComplete,
            OLM!Complete
<1>8. CASE OLM!UninstallVersion
  <2>1. olmPc = "objects" /\ UNCHANGED state
    BY <1>8 DEF OLM!UninstallVersion, OLM!cluster
  <2>2. CASE olmPc' = "idle"
    BY <1>8, <2>1, <2>2, OLMQuiet DEF OLM!UninstallVersion
  <2>3. CASE olmPc' # "idle"
    <3>1. olmPc' = "delete" /\ olmTodo' = Crds \o Resources /\ UNCHANGED olmResult
      BY <1>8, <2>3 DEF OLM!UninstallVersion
    <3>2. olmTodo' \in Seq(Manifest) /\ Manifest \subseteq OLM!Range(olmTodo')
      BY <3>1, RangeOfBoth DEF ManifestOrder, Manifest, OLM!All
    <3> QED BY <2>1, <3>1, <3>2 DEF OLMInv, OLMTyped, KindInv, CreateInv, DeleteInv, DoneInv,
              OLM!OutcomeComplete
  <2> QED BY <2>2, <2>3
<1>9. CASE OLM!DeleteOne \/ OLM!AwaitGone BY <1>9, OLMDelete
<1>10. CASE OLM!Uninstalled
  <2>1. /\ olmPc = "delete" /\ olmTodo = <<>> /\ UNCHANGED state
        /\ olmPc' = "idle" /\ olmResult' = "uninstalled"
    BY <1>10 DEF OLM!Uninstalled, OLM!End, OLM!cluster
  <2>2. \A o \in Manifest : state[o] = "absent"
    BY <2>1, EmptyRange DEF OLMInv, DeleteInv
  <2>3. state' = OLM!Untouched
    BY <2>1, <2>2 DEF OLMInv, OLMTyped, OLM!Untouched, Manifest
  <2> QED BY <2>1, <2>3 DEF OLMInv, OLMTyped, KindInv, CreateInv, DeleteInv, DoneInv,
          OLM!OutcomeComplete
<1>11. CASE OLM!Environment BY <1>11, OLMEnvironment
<1>12. CASE UNCHANGED OLM!vars
  BY <1>12 DEF OLM!vars, OLM!cluster, OLM!process, OLMInv, OLMTyped, KindInv, CreateInv,
       DeleteInv, DoneInv, OLM!OutcomeComplete, OLM!Complete, OLM!Untouched
<1> QED
  BY <1>1, <1>2, <1>3, <1>4, <1>5, <1>6, <1>7, <1>8, <1>9, <1>10, <1>11, <1>12
  DEF OLM!Next, OLM!Command

\* For every OLM version whose manifests are laid out this way: a successful
\* install leaves every object there to stay, and a successful uninstall
\* nothing, whatever cut-off commands came before (InstallVersion,
\* UninstallVersion).
THEOREM OutcomesComplete ==
  ASSUME ManifestOrder
  PROVE  OLM!Spec => []OutcomeComplete
<1>1. OLM!Init => OLMInv
  BY OLMStart
<1>2. OLMInv /\ [OLM!Next]_(OLM!vars) => OLMInv'
  BY OLMStep
<1>3. OLMInv => OutcomeComplete
  BY DEF OLMInv, DoneInv, OutcomeComplete
<1> QED BY <1>1, <1>2, <1>3, PTL DEF OLM!Spec

-----------------------------------------------------------------------------
(* run packagemanifests, with a garbage collector that is prompt. *)

\* The cardinality of the instance is that of the library.
LEMMA SameCardinality == \A S : Registry!Cardinality(S) = Cardinality(S)
  BY DEF Registry!Cardinality, Cardinality

ConfigMapNames == {c.name : c \in cms}

\* What an earlier registry has left without an owner is of one directory; its
\* Deployment goes after its ConfigMaps and before its Service.
OrphansInv ==
  /\ \E p \in Packages :
       /\ \A c \in cms : c.owner = Registry!Orphan => c \in Registry!MakeConfigMaps(p, Registry!Orphan)
       /\ \A d \in dep : d.owner = Registry!Orphan => d = Registry!Deployment(p, Registry!Orphan)
  /\ (\E c \in cms : c.owner = Registry!Orphan) => \E d \in dep : d.owner = Registry!Orphan
  /\ (\E d \in dep : d.owner = Registry!Orphan) => Registry!Orphan \in service

\* Only what it owns and what nobody owns is there with the catalog source.
OwnersInv ==
  /\ runs \in Nat /\ source \in Nat /\ pkg \in Packages
  /\ cmPc \in {"idle", "exists", "stale", "delete", "deleteService", "create", "createService",
               "rollout", "address"}
  /\ cmPc # "idle" => source # 0 /\ cmResult = "none"
  /\ source # 0 => Registry!Owners \subseteq {Registry!Orphan, source}

Serving == /\ {[name |-> c.name, data |-> c.data] : c \in cms} =
                {[name |-> n, data |-> pkg[n]] : n \in DOMAIN pkg}
           /\ \E d \in dep : d.mounts = DOMAIN pkg
           /\ service # {}

\* The steps of a run.
PhaseInv ==
  /\ cmPc \in {"exists", "stale", "delete", "deleteService"} => Registry!Owners \subseteq {Registry!Orphan}
  /\ cmPc = "stale" => dep # {}
  /\ cmPc = "delete" => ConfigMapNames \subseteq cmTodo
  /\ cmPc = "deleteService" => cms = {} /\ dep = {}
  /\ cmPc = "create" => /\ dep = {} /\ cmTodo \subseteq DOMAIN pkg
                        /\ cms = {[name |-> n, data |-> pkg[n], owner |-> source] : n \in DOMAIN pkg \ cmTodo}
  /\ cmPc \in {"createService", "rollout"} => /\ cms = Registry!MakeConfigMaps(pkg, source)
                                              /\ dep = {Registry!Deployment(pkg, source)}
  /\ cmPc = "rollout" => service # {}
  /\ cmPc = "address" => Serving

UpInv == cmResult = "up" => cmPc = "idle" /\ source # 0 /\ Serving

RegistryInv == OrphansInv /\ OwnersInv /\ PhaseInv /\ UpInv

\* The owners of the objects, one kind after the other.
LEMMA OwnersOf ==
  ASSUME NEW S
  PROVE  Registry!Owners \subseteq S <=> /\ \A c \in cms : c.owner \in S
                                         /\ \A d \in dep : d.owner \in S
                                         /\ service \subseteq S
  BY DEF Registry!Owners

\* At first there is nothing or a registry without an owner.
LEMMA RegistryStart == ASSUME Registry!Init PROVE RegistryInv
<1>1. /\ source = 0 /\ runs = 0 /\ cmPc = "idle" /\ cmResult = "none" /\ pkg \in Packages
  BY DEF Registry!Init
<1>2. OrphansInv
  <2>1. CASE cms = {} /\ dep = {} /\ service = {}
    BY <1>1, <2>1 DEF OrphansInv
  <2>2. ASSUME NEW p \in Packages, cms = Registry!MakeConfigMaps(p, Registry!Orphan),
               dep = {Registry!Deployment(p, Registry!Orphan)}, service = {Registry!Orphan}
        PROVE  OrphansInv
    <3>1. \A d \in dep : d.owner = Registry!Orphan
      BY <2>2 DEF Registry!Deployment
    <3> QED BY <2>2, <3>1 DEF OrphansInv
  <2> QED BY <2>1, <2>2 DEF Registry!Init
<1> QED BY <1>1, <1>2 DEF RegistryInv, OwnersInv, PhaseInv, UpInv

\* A run compares ConfigMaps by number, name and contents: when they agree, the
\* Deployment left behind mounts the ConfigMaps of the directory.
LEMMA NotStale ==
  ASSUME DirectoriesApart, RegistryInv, cmPc = "stale", ~Registry!IsRegistryDataStale
  PROVE  Serving
<1>1. /\ Registry!Owners \subseteq {Registry!Orphan} /\ dep # {} /\ pkg \in Packages
  BY DEF RegistryInv, PhaseInv, OwnersInv
<1>2. /\ \A c \in cms : c.owner = Registry!Orphan
      /\ \A d \in dep : d.owner = Registry!Orphan
  BY <1>1, OwnersOf
<1>3. PICK p \in Packages : /\ \A c \in cms : c \in Registry!MakeConfigMaps(p, Registry!Orphan)
                            /\ \A d \in dep : d = Registry!Deployment(p, Registry!Orphan)
  BY <1>2 DEF RegistryInv, OrphansInv
<1>4. service # {}
  BY <1>1, <1>2 DEF RegistryInv, OrphansInv
<1>5. /\ Cardinality(cms) = Cardinality(DOMAIN pkg)
      /\ \A c \in cms : c.name \in DOMAIN pkg /\ c.data = pkg[c.name]
  BY SameCardinality DEF Registry!IsRegistryDataStale
<1>6. \A c \in cms : c.name \in DOMAIN p /\ c = [name |-> c.name, data |-> p[c.name], owner |-> Registry!Orphan]
  BY <1>3 DEF Registry!MakeConfigMaps
<1>7. \A n \in DOMAIN pkg : \E c \in cms : c.name = n
  <2> DEFINE f == [c \in cms |-> c.name]
  <2>1. f \in [cms -> DOMAIN pkg] /\ \A c, e \in cms : f[c] = f[e] => c = e
    BY <1>5, <1>6
  <2>2. f \in Injection(cms, DOMAIN pkg)
    BY <2>1 DEF Injection, IsInjective
  <2>3. IsFiniteSet(DOMAIN pkg)
    BY <1>1 DEF DirectoriesApart
  <2>4. f \in Surjection(cms, DOMAIN pkg)
    <3> HIDE DEF f
    <3> QED BY <1>5, <2>2, <2>3, FS_Injection
  <2> QED BY <2>4 DEF Surjection
<1>8. DOMAIN pkg \subseteq DOMAIN p /\ \A n \in DOMAIN pkg : pkg[n] = p[n]
  BY <1>5, <1>6, <1>7
<1>9. DOMAIN pkg = DOMAIN p
  BY <1>1, <1>8 DEF DirectoriesApart
<1>10. \E d \in dep : d.mounts = DOMAIN pkg
  BY <1>1, <1>3, <1>9 DEF Registry!Deployment
<1>11. {[name |-> c.name, data |-> c.data] : c \in cms} = {[name |-> n, data |-> pkg[n]] : n \in DOMAIN pkg}
  <2>1. ASSUME NEW c \in cms
        PROVE  [name |-> c.name, data |-> c.data] \in {[name |-> n, data |-> pkg[n]] : n \in DOMAIN pkg}
    BY <1>5
  <2>2. ASSUME NEW n \in DOMAIN pkg
        PROVE  [name |-> n, data |-> pkg[n]] \in {[name |-> c.name, data |-> c.data] : c \in cms}
    <3>1. PICK c \in cms : c.name = n
      BY <1>7
    <3> QED BY <1>5, <3>1
  <2> QED BY <2>1, <2>2
<1> QED BY <1>4, <1>10, <1>11 DEF Serving

\* What is made of a directory serves it.
LEMMA MadeServes ==
  ASSUME cms = Registry!MakeConfigMaps(pkg, source), dep = {Registry!Deployment(pkg, source)},
         service # {}
  PROVE  Serving
<1>1. {[name |-> c.name, data |-> c.data] : c \in cms} = {[name |-> n, data |-> pkg[n]] : n \in DOMAIN pkg}
  <2>1. ASSUME NEW c \in cms
        PROVE  [name |-> c.name, data |-> c.data] \in {[name |-> n, data |-> pkg[n]] : n \in DOMAIN pkg}
    <3>1. PICK n \in DOMAIN pkg : c = [name |-> n, data |-> pkg[n], owner |-> source]
      BY DEF Registry!MakeConfigMaps
    <3> QED BY <3>1
  <2>2. ASSUME NEW n \in DOMAIN pkg
        PROVE  [name |-> n, data |-> pkg[n]] \in {[name |-> c.name, data |-> c.data] : c \in cms}
    <3> DEFINE c == [name |-> n, data |-> pkg[n], owner |-> source]
    <3>1. c \in cms /\ c.name = n /\ c.data = pkg[n]
      BY DEF Registry!MakeConfigMaps
    <3> QED BY <3>1
  <2> QED BY <2>1, <2>2
<1>2. \E d \in dep : d.mounts = DOMAIN pkg
  BY DEF Registry!Deployment
<1> QED BY <1>1, <1>2 DEF Serving

\* Steps that change no object.
LEMMA RegistryQuiet ==
  ASSUME RegistryInv, UNCHANGED <<cms, dep, service>>
  PROVE  OrphansInv' /\ (pkg' = pkg => (Serving' <=> Serving)) /\ Registry!Owners' = Registry!Owners
         /\ ConfigMapNames' = ConfigMapNames
  BY DEF RegistryInv, OrphansInv, Serving, Registry!Owners, ConfigMapNames

\* A run starts: without a catalog source and with the garbage collected, only
\* objects without an owner are left.
LEMMA RegistryRun ==
  ASSUME RegistryInv, NEW p \in Packages, Registry!CreateCatalog(p)
  PROVE  RegistryInv'
<1>1. /\ UNCHANGED <<cms, dep, service>> /\ pkg' = p /\ runs' = runs + 1 /\ cmPc = "idle"
      /\ ~\E o \in Registry!Owners : Registry!Garbage(o)
  BY DEF Registry!CreateCatalog, Registry!objects
<1>2. OrphansInv' /\ Registry!Owners' = Registry!Owners
  BY <1>1, RegistryQuiet
<1>3. runs \in Nat /\ source \in Nat
  BY DEF RegistryInv, OwnersInv
<1>4. CASE source # 0
  <2>1. cmPc' = "idle" /\ cmResult' = "error" /\ UNCHANGED source
    BY <1>4 DEF Registry!CreateCatalog
  <2> QED BY <1>1, <1>2, <1>3, <2>1 DEF RegistryInv, OwnersInv, PhaseInv, UpInv
<1>5. CASE source = 0
  <2>1. cmPc' = "exists" /\ cmResult' = "none" /\ source' = runs + 1
    BY <1>1, <1>5 DEF Registry!CreateCatalog
  <2>2. Registry!Owners \subseteq {Registry!Orphan}
    BY <1>1, <1>5 DEF Registry!Garbage, Registry!Orphan
  <2>3. source' \in Nat /\ source' # 0 /\ runs' \in Nat
    BY <1>1, <1>3, <2>1
  <2> QED BY <1>1, <1>2, <2>1, <2>2, <2>3 DEF RegistryInv, OwnersInv, PhaseInv, UpInv
<1> QED BY <1>4, <1>5

\* A run looks for a registry and compares it.
LEMMA RegistryCompare ==
  ASSUME DirectoriesApart, RegistryInv,
         Registry!IsRegistryExist \/ Registry!CheckStale \/ Registry!RolloutWait
  PROVE  RegistryInv'
<1>1. /\ UNCHANGED <<cms, dep, service>> /\ UNCHANGED <<source, runs, pkg, cmResult>>
      /\ cmPc \in {"exists", "stale", "rollout"}
      /\ cmPc' \in {"stale", "create", "delete", "address"}
  BY DEF Registry!IsRegistryExist, Registry!CheckStale, Registry!RolloutWait, Registry!Go,
    Registry!objects
<1>2. /\ OrphansInv' /\ (Serving' <=> Serving) /\ Registry!Owners' = Registry!Owners
      /\ ConfigMapNames' = ConfigMapNames
  BY <1>1, RegistryQuiet
<1>3. OwnersInv' /\ UpInv'
  BY <1>1, <1>2 DEF RegistryInv, OwnersInv, UpInv
<1>4. PhaseInv'
  <2>1. CASE Registry!IsRegistryExist
    <3>1. cmPc = "exists" /\ Registry!Owners \subseteq {Registry!Orphan}
      BY <2>1 DEF Registry!IsRegistryExist, RegistryInv, PhaseInv
    <3>2. CASE dep # {}
      <4>1. cmPc' = "stale"
        BY <2>1, <3>2 DEF Registry!IsRegistryExist, Registry!Go
      <4> QED BY <1>1, <1>2, <3>1, <3>2, <4>1 DEF PhaseInv
    <3>3. CASE dep = {}
      <4>1. cmPc' = "create" /\ cmTodo' = DOMAIN pkg
        BY <2>1, <3>3 DEF Registry!IsRegistryExist, Registry!Go
      <4>2. cms = {}
        <5>1. \A c \in cms : c.owner = Registry!Orphan
          BY <3>1, OwnersOf
        <5> QED BY <3>3, <5>1 DEF RegistryInv, OrphansInv
      <4>3. cms' = {[name |-> n, data |-> pkg'[n], owner |-> source'] : n \in DOMAIN pkg' \ cmTodo'}
        BY <1>1, <4>1, <4>2
      <4> QED BY <1>1, <3>3, <4>1, <4>3 DEF PhaseInv
    <3> QED BY <3>2, <3>3
  <2>2. CASE Registry!CheckStale /\ Registry!IsRegistryDataStale
    <3>1. cmPc = "stale" /\ cmPc' = "delete" /\ cmTodo' = ConfigMapNames
      BY <2>2 DEF Registry!CheckStale, Registry!Go, ConfigMapNames
    <3> QED BY <1>2, <3>1 DEF RegistryInv, PhaseInv
  <2>3. CASE Registry!CheckStale /\ ~Registry!IsRegistryDataStale
    <3>1. cmPc = "stale" /\ cmPc' = "address"
      BY <2>3 DEF Registry!CheckStale, Registry!Go
    <3>2. Serving
      BY <2>3, <3>1, NotStale
    <3> QED BY <1>2, <3>1, <3>2 DEF PhaseInv
  <2>4. CASE Registry!RolloutWait
    <3>1. cmPc = "rollout" /\ cmPc' = "address"
      BY <2>4 DEF Registry!RolloutWait, Registry!Go
    <3>2. Serving
      BY <3>1, MadeServes DEF RegistryInv, PhaseInv
    <3> QED BY <1>2, <3>1, <3>2 DEF PhaseInv
  <2> QED BY <2>1, <2>2, <2>3, <2>4
<1> QED BY <1>2, <1>3, <1>4 DEF RegistryInv

\* A run deletes a stale registry.
LEMMA RegistryDelete ==
  ASSUME RegistryInv, Registry!DeleteConfigMap \/ Registry!DeleteDeployment \/ Registry!DeleteService
  PROVE  RegistryInv'
<1>1. /\ UNCHANGED <<source, runs, pkg, cmResult>> /\ cmPc \in {"delete", "deleteService"}
      /\ cmPc' \in {"delete", "deleteService", "create"}
      /\ cms' \subseteq cms /\ dep' \subseteq dep /\ service' \subseteq service
  BY DEF Registry!DeleteConfigMap, Registry!DeleteDeployment, Registry!DeleteService, Registry!Go
<1>2. Registry!Owners \subseteq {Registry!Orphan}
  BY <1>1 DEF RegistryInv, PhaseInv
<1>3. Registry!Owners' \subseteq {Registry!Orphan}
  BY <1>1, <1>2 DEF Registry!Owners
<1>4. OwnersInv' /\ UpInv'
  BY <1>1, <1>3 DEF RegistryInv, OwnersInv, UpInv
<1>5. CASE Registry!DeleteConfigMap
  <2>1. PICK n \in cmTodo : cms' = {c \in cms : c.name # n} /\ cmTodo' = cmTodo \ {n}
    BY <1>5 DEF Registry!DeleteConfigMap, Registry!Go
  <2>2. /\ cmPc = "delete" /\ cmPc' = "delete" /\ UNCHANGED <<dep, service>>
    BY <1>5 DEF Registry!DeleteConfigMap, Registry!Go
  <2>3. OrphansInv'
    BY <1>1, <2>2 DEF RegistryInv, OrphansInv
  <2>4. ConfigMapNames' \subseteq cmTodo'
    BY <2>1, <2>2 DEF RegistryInv, PhaseInv, ConfigMapNames
  <2> QED BY <1>3, <1>4, <2>2, <2>3, <2>4 DEF RegistryInv, PhaseInv
<1>6. CASE Registry!DeleteDeployment
  <2>1. /\ cmPc = "delete" /\ cmTodo = {} /\ cmPc' = "deleteService" /\ dep' = {} /\ UNCHANGED cms
    BY <1>6 DEF Registry!DeleteDeployment, Registry!Go
  <2>2. cms' = {}
    BY <2>1 DEF RegistryInv, PhaseInv, ConfigMapNames
  <2>3. OrphansInv'
    BY <2>1, <2>2 DEF RegistryInv, OrphansInv
  <2> QED BY <1>3, <1>4, <2>1, <2>2, <2>3 DEF RegistryInv, PhaseInv
<1>7. CASE Registry!DeleteService
  <2>1. /\ cmPc = "deleteService" /\ cmPc' = "create" /\ cmTodo' = DOMAIN pkg /\ UNCHANGED <<cms, dep>>
    BY <1>7 DEF Registry!DeleteService, Registry!Go
  <2>2. cms' = {} /\ dep' = {}
    BY <2>1 DEF RegistryInv, PhaseInv
  <2>3. OrphansInv'
    BY <2>2 DEF RegistryInv, OrphansInv
  <2>4. cms' = {[name |-> n, data |-> pkg'[n], owner |-> source'] : n \in DOMAIN pkg' \ cmTodo'}
    BY <1>1, <2>1, <2>2
  <2> QED BY <1>1, <1>4, <2>1, <2>2, <2>3, <2>4 DEF RegistryInv, PhaseInv
<1> QED BY <1>5, <1>6, <1>7

\* A run creates a registry: nothing of an older one is in its way but a
\* Service, which is the same for every directory.
LEMMA RegistryCreate ==
  ASSUME RegistryInv, Registry!CreateConfigMap \/ Registry!CreateDeployment \/ Registry!CreateService
  PROVE  RegistryInv'
<1>1. /\ UNCHANGED <<source, runs, pkg, cmResult>> /\ cmPc \in {"create", "createService"}
      /\ cmPc' \in {"create", "createService", "rollout"}
  BY DEF Registry!CreateConfigMap, Registry!CreateDeployment, Registry!CreateService, Registry!Go
<1>2. source # 0 /\ Registry!Owners \subseteq {Registry!Orphan, source} /\ pkg \in Packages
  BY <1>1 DEF RegistryInv, OwnersInv
<1>3. /\ \A c \in cms : c.owner \in {Registry!Orphan, source}
      /\ \A d \in dep : d.owner \in {Registry!Orphan, source}
      /\ service \subseteq {Registry!Orphan, source}
  BY <1>2, OwnersOf
<1>4. CASE Registry!CreateConfigMap
  <2> DEFINE Made(n) == [name |-> n, data |-> pkg[n], owner |-> source]
  <2>1. /\ cmPc = "create" /\ cmPc' = "create" /\ UNCHANGED <<dep, service>> /\ dep = {}
        /\ cmTodo \subseteq DOMAIN pkg /\ cms = {Made(n) : n \in DOMAIN pkg \ cmTodo}
    BY <1>4 DEF Registry!CreateConfigMap, Registry!Go, RegistryInv, PhaseInv
  <2>2. PICK n \in cmTodo : /\ cmTodo' = cmTodo \ {n}
                            /\ cms' = IF \E c \in cms : c.name = n THEN cms ELSE cms \cup {Made(n)}
    BY <1>4 DEF Registry!CreateConfigMap, Registry!Go
  <2>3. ~\E c \in cms : c.name = n
    BY <2>1
  <2>4. cms' = {Made(m) : m \in DOMAIN pkg \ cmTodo'}
    BY <2>1, <2>2, <2>3
  <2>5. \A c \in cms' : c.owner = source
    BY <2>4
  <2>6. OrphansInv'
    BY <1>2, <2>1, <2>5 DEF OrphansInv, Registry!Orphan
  <2>7. Registry!Owners' \subseteq {Registry!Orphan, source}
    BY <1>3, <2>1, <2>5 DEF Registry!Owners
  <2> QED BY <1>1, <2>1, <2>2, <2>4, <2>6, <2>7 DEF RegistryInv, OwnersInv, PhaseInv, UpInv
<1>5. CASE Registry!CreateDeployment
  <2>1. /\ cmPc = "create" /\ cmTodo = {} /\ cmPc' = "createService" /\ UNCHANGED <<cms, service>>
        /\ dep' = {Registry!Deployment(pkg, source)}
    BY <1>5 DEF Registry!CreateDeployment, Registry!Go, RegistryInv, PhaseInv
  <2>2. cms = Registry!MakeConfigMaps(pkg, source)
    BY <2>1 DEF RegistryInv, PhaseInv, Registry!MakeConfigMaps
  <2>3. (\A c \in cms' : c.owner = source) /\ \A d \in dep' : d.owner = source
    BY <2>1, <2>2 DEF Registry!MakeConfigMaps, Registry!Deployment
  <2>4. OrphansInv'
    BY <1>2, <2>3 DEF OrphansInv, Registry!Orphan
  <2>5. Registry!Owners' \subseteq {Registry!Orphan, source}
    BY <1>3, <2>1, <2>3 DEF Registry!Owners
  <2>6. Registry!MakeConfigMaps(pkg, source)' = Registry!MakeConfigMaps(pkg, source)
        /\ Registry!Deployment(pkg, source)' = Registry!Deployment(pkg, source)
    BY <1>1 DEF Registry!MakeConfigMaps, Registry!Deployment
  <2> QED BY <1>1, <2>1, <2>2, <2>4, <2>5, <2>6 DEF RegistryInv, OwnersInv, PhaseInv, UpInv
<1>6. CASE Registry!CreateService
  <2>1. /\ cmPc = "createService" /\ cmPc' = "rollout" /\ UNCHANGED <<cms, dep>>
        /\ service' # {} /\ service' \subseteq service \cup {source}
        /\ cms = Registry!MakeConfigMaps(pkg, source) /\ dep = {Registry!Deployment(pkg, source)}
    BY <1>6 DEF Registry!CreateService, Registry!Go, RegistryInv, PhaseInv
  <2>2. (\A c \in cms' : c.owner = source) /\ \A d \in dep' : d.owner = source
    BY <2>1 DEF Registry!MakeConfigMaps, Registry!Deployment
  <2>3. OrphansInv'
    BY <1>2, <2>2 DEF OrphansInv, Registry!Orphan
  <2>4. Registry!Owners' \subseteq {Registry!Orphan, source}
    BY <1>3, <2>1, <2>2 DEF Registry!Owners
  <2>5. Registry!MakeConfigMaps(pkg, source)' = Registry!MakeConfigMaps(pkg, source)
        /\ Registry!Deployment(pkg, source)' = Registry!Deployment(pkg, source)
    BY <1>1 DEF Registry!MakeConfigMaps, Registry!Deployment
  <2> QED BY <1>1, <2>1, <2>3, <2>4, <2>5 DEF RegistryInv, OwnersInv, PhaseInv, UpInv
<1> QED BY <1>4, <1>5, <1>6

\* A run ends, or a cleanup takes the catalog source away.
LEMMA RegistryEnd ==
  ASSUME RegistryInv, Registry!UpdateCatalogSource \/ Registry!Cleanup \/ Registry!TimeOut
  PROVE  RegistryInv'
<1>1. UNCHANGED <<cms, dep, service>> /\ UNCHANGED <<runs, pkg>> /\ cmPc' = "idle"
  BY DEF Registry!UpdateCatalogSource, Registry!Cleanup, Registry!TimeOut, Registry!End,
    Registry!objects
<1>2. OrphansInv' /\ (Serving' <=> Serving) /\ Registry!Owners' = Registry!Owners
  BY <1>1, RegistryQuiet
<1>3. CASE Registry!UpdateCatalogSource
  <2>1. cmPc = "address" /\ source # 0 /\ Serving
    BY <1>3 DEF Registry!UpdateCatalogSource, RegistryInv, OwnersInv, PhaseInv
  <2>2. UNCHANGED source /\ cmResult' = "up"
    BY <1>3, <2>1 DEF Registry!UpdateCatalogSource, Registry!End
  <2> QED BY <1>1, <1>2, <2>1, <2>2 DEF RegistryInv, OwnersInv, PhaseInv, UpInv
<1>4. CASE Registry!Cleanup
  <2>1. source' = 0 /\ cmResult' = "none"
    BY <1>4 DEF Registry!Cleanup, Registry!End
  <2> QED BY <1>1, <1>2, <2>1 DEF RegistryInv, OwnersInv, PhaseInv, UpInv
<1>5. CASE Registry!TimeOut
  <2>1. UNCHANGED source /\ cmResult' = "timeout"
    BY <1>5 DEF Registry!TimeOut
  <2> QED BY <1>1, <1>2, <2>1 DEF RegistryInv, OwnersInv, PhaseInv, UpInv
<1> QED BY <1>3, <1>4, <1>5

\* Garbage is there only without a catalog source.
LEMMA RegistryCollect ==
  ASSUME RegistryInv, Registry!Collect
  PROVE  RegistryInv'
<1>1. PICK o \in Registry!Owners :
        /\ Registry!Garbage(o)
        /\ \/ \E c \in cms : c.owner = o /\ cms' = cms \ {c} /\ UNCHANGED <<dep, service>>
           \/ dep' = {d \in dep : d.owner # o} /\ UNCHANGED <<cms, service>>
           \/ service' = service \ {o} /\ UNCHANGED <<cms, dep>>
  BY DEF Registry!Collect
<1>2. UNCHANGED <<source, runs, pkg, cmPc, cmTodo, cmResult>>
  BY DEF Registry!Collect
<1>3. source = 0 /\ o # Registry!Orphan
  BY <1>1 DEF Registry!Garbage, RegistryInv, OwnersInv
<1>4. cmPc = "idle" /\ cmResult # "up"
  BY <1>3 DEF RegistryInv, OwnersInv, UpInv
<1>5. OrphansInv'
  <2>1. /\ cms' \subseteq cms /\ dep' \subseteq dep
        /\ \A d \in dep : d.owner = Registry!Orphan => d \in dep'
        /\ Registry!Orphan \in service => Registry!Orphan \in service'
    BY <1>1, <1>3
  <2> QED BY <2>1 DEF RegistryInv, OrphansInv
<1> QED BY <1>2, <1>3, <1>4, <1>5 DEF RegistryInv, OwnersInv, PhaseInv, UpInv

\* For all directories none of which is a part of another one, and a garbage
\* collector that is done before the next run: a registry in use has the
\* contents of the directory the last run was given, whatever earlier runs and
\* deletions were cut off (IsRegistryDataStale, DeletePackageManifestsRegistry,
\* CreatePackageManifestsRegistry).
THEOREM RegistryServesDirectory ==
  ASSUME DirectoriesApart
  PROVE  Registry!Spec => []RegistryCurrent
<1>1. Registry!Init => RegistryInv
  BY RegistryStart
<1>2. RegistryInv /\ [Registry!Next]_(Registry!vars) => RegistryInv'
  <2> SUFFICES ASSUME RegistryInv, [Registry!Next]_(Registry!vars) PROVE RegistryInv'
    OBVIOUS
  <2>1. CASE UNCHANGED Registry!vars
    BY <2>1 DEF Registry!vars, Registry!objects, RegistryInv, OrphansInv, OwnersInv, PhaseInv,
      UpInv,
         Serving, ConfigMapNames, Registry!Owners, Registry!MakeConfigMaps, Registry!Deployment
  <2>2. CASE Registry!Next
    BY <2>2, RegistryRun, RegistryCompare, RegistryDelete, RegistryCreate, RegistryEnd,
      RegistryCollect
    DEF Registry!Next, Registry!Command
  <2> QED BY <2>1, <2>2
<1>3. RegistryInv => RegistryCurrent
  BY DEF RegistryCurrent, RegistryInv, UpInv, Serving, Registry!RegistryCurrent
<1> QED BY <1>1, <1>2, <1>3, PTL DEF Registry!Spec

-----------------------------------------------------------------------------
(* run bundle, run bundle-upgrade and cleanup of one package. *)

\* The package's part of the state.
Cat == cat[ThePackage]
Sub == sub[ThePackage]
Csv == csv[ThePackage]
Plans == approved[ThePackage]
At == pc[ThePackage]
Cmd == cmd[ThePackage]
Got == got[ThePackage]
Result == result[ThePackage]
Pod(v) == <<ThePackage, v>>

CatalogSources == [there : BOOLEAN, pod : Nat, items : Seq(Nat)]
Subscriptions == [there : BOOLEAN, start : Nat, ref : Nat, installed : Nat]
CSVs == [v : Nat, ok : BOOLEAN, crds : BOOLEAN]
Steps == {"idle", "catalog", "pod", "annotate", "oldpod", "groups", "ensure", "subscribe", "plan",
          "approve", "csv", "unsubscribe", "delete", "ungroup"}

OpTyped ==
  /\ cat \in [{ThePackage} -> CatalogSources] /\ sub \in [{ThePackage} -> Subscriptions]
  /\ csv \in [{ThePackage} -> CSVs] /\ pc \in [{ThePackage} -> Steps]
  /\ DOMAIN approved = {ThePackage} /\ DOMAIN cmd = {ThePackage} /\ DOMAIN got = {ThePackage}
  /\ DOMAIN result = {ThePackage} /\ IsFiniteSet(ogs)

ReadTyped == DOMAIN Got = {"ref", "pod", "items", "csv", "found", "todo", "ogs", "any"}

\* The catalog source's pod serves its last bundle; a subscription has a catalog
\* source, and its plan is installed, the first, or the next in the catalog.
CatalogInv ==
  /\ ~Cat.there => Cat = Op!NoCat
  /\ ~Sub.there => Sub = Op!NoSub
  /\ Op!ValidItems(Cat.items)
  /\ Cat.items = <<>> => Cat.pod = 0
  /\ Cat.items # <<>> => Cat.pod = Cat.items[Len(Cat.items)]
  /\ Sub.there => Cat.there /\ Cat.items # <<>>
  /\ \/ Sub.ref = Sub.installed \/ Sub.installed = 0
     \/ \E j \in 1 .. Len(Cat.items) - 1 : Cat.items[j] = Sub.installed

\* OLM carries out a plan only while a command waits for the CSV; the CSV is the
\* one the subscription has installed, except in the middle of a cleanup.
PlanInv ==
  /\ Plans # {} => At = "csv" /\ Sub.there /\ Sub.ref # Sub.installed /\ Plans = {Sub.ref}
  /\ At \notin {"delete", "ungroup"} => Csv.v = Sub.installed

Upgrading == Cmd.kind = "upgrade" /\ At \in {"pod", "annotate", "oldpod"}
Running == At \in {"catalog", "pod", "annotate", "groups", "ensure", "subscribe"} /\ ~Upgrading

GroupAsAsked ==
  Cmd.mode.type # "none" =>
    \E g \in ogs : ogs = {g} /\
      g.targets = IF Cmd.mode.type = "OwnNamespace" THEN {Own} ELSE Cmd.mode.targets

\* The steps of a run or an upgrade.
RunInv ==
  /\ At \in {"catalog", "pod", "annotate", "oldpod", "groups", "ensure", "subscribe", "plan",
             "approve", "csv"} =>
       /\ Cmd.v \in Nat \ {0} /\ Got.pod \in Nat /\ Got.pod # Cmd.v
  /\ Running =>
       /\ Cmd.kind = "run" /\ Got.pod = 0 /\ Got.ref = 0 /\ Got.items = <<Cmd.v>>
       /\ Op!Validate(Cmd.mode) /\ Op!CheckCompatibility(ThePackage, Cmd.mode)
       /\ Cmd.mode \in Modes \cup {Op!NoMode}
  /\ At \in {"pod", "annotate", "groups", "ensure", "subscribe"} /\ Running => Cat.there /\ ~Sub.there
  /\ At \in {"pod", "annotate"} /\ Upgrading =>
       Got.items = Append(Cat.items, Cmd.v) /\ Op!ValidItems(Got.items) /\ Got.pod = Cat.pod
  /\ Upgrading \/ At \in {"plan", "approve", "csv"} => Sub.there
  /\ Upgrading \/ At = "plan" => Sub.installed = Got.ref \/ Sub.ref = Got.ref
  /\ Upgrading => Cmd.mode = Op!NoMode
  /\ At = "approve" => Got.ref = Sub.ref /\ Sub.ref # Sub.installed
  /\ At = "oldpod" => Upgrading
  /\ At \in {"annotate", "oldpod", "groups", "ensure", "subscribe", "plan", "approve", "csv"} =>
       Pod(Cmd.v) \in pods
  /\ At \in {"oldpod", "groups", "ensure", "subscribe", "plan", "approve", "csv"} =>
       Cat.items # <<>> /\ Cat.pod = Cmd.v
  /\ At = "ensure" => Got.ogs = ogs /\ ~(Cardinality(ogs) > 1)
  /\ At \in {"subscribe", "plan", "approve", "csv"} => GroupAsAsked
  /\ At \in {"plan", "approve", "csv"} /\ Got.pod # 0 => Pod(Got.pod) \notin pods

\* What a cleanup has found is what it still has to delete.
CleanupInv ==
  /\ At \in {"unsubscribe", "delete"} =>
       /\ Got.todo \in Seq({"crds", "csv", "catalog"})
       /\ Csv.v # 0 => /\ Got.csv = Csv.v /\ Got.found
                       /\ \E k \in 1 .. Len(Got.todo) : Got.todo[k] = "csv"
       /\ Cat.there => \E k \in 1 .. Len(Got.todo) : Got.todo[k] = "catalog"
  /\ At \in {"delete", "ungroup"} => ~Sub.there
  /\ At = "ungroup" => ~Cat.there /\ Csv.v = 0

\* What a command that has ended with success leaves.
EndInv ==
  /\ Result \in {"installed", "clean"} => At = "idle"
  /\ Result = "installed" =>
       /\ Cmd.v # 0 /\ Csv.v = Cmd.v /\ Cat.pod = Cmd.v /\ Pod(Cmd.v) \in pods
       /\ Got.pod # 0 => Pod(Got.pod) \notin pods
       /\ GroupAsAsked
  /\ Result = "clean" =>
       /\ ~Sub.there /\ Csv.v = 0 /\ ~Cat.there
       /\ \A g \in ogs : ~g.sdk

OpInv == OpTyped /\ ReadTyped /\ CatalogInv /\ PlanInv /\ RunInv /\ CleanupInv /\ EndInv

\* The invariant says of the one package what the two properties say.
LEMMA OpInvGivesProperties == OpInv => Op!SuccessServed /\ Op!CleanupComplete
BY DEF OpInv, EndInv, GroupAsAsked, Op!SuccessServed, Op!CleanupComplete, Cat, Sub, Csv, At,
  Cmd, Got,
       Result, Pod

\* Nothing is there before the first command, but for groups that users made.
LEMMA OpInit == ASSUME CommandInputs, Op!Init PROVE OpInv
<1> USE DEF Cat, Sub, Csv, Plans, At, Cmd, Got, Result, Pod, Op!NoCat, Op!NoSub, Op!NoCSV
<1>1. /\ Cat = Op!NoCat /\ Sub = Op!NoSub /\ Csv = Op!NoCSV /\ Plans = {} /\ At = "idle"
      /\ Result = "none"
  BY DEF Op!Init
<1>2. IsFiniteSet(ogs)
  <2>1. PICK u \in UserGroups : ogs = {[sdk |-> FALSE, targets |-> t] : t \in u}
    BY DEF Op!Init
  <2> DEFINE made == [t \in u |-> [sdk |-> FALSE, targets |-> t]]
  <2>2. made \in Surjection(u, ogs) BY <2>1 DEF Surjection
  <2>3. IsFiniteSet(u) BY DEF CommandInputs
  <2> QED BY <2>2, <2>3, FS_Surjection
<1>3. OpTyped
  BY <1>2 DEF OpTyped, Op!Init, CatalogSources, Subscriptions, CSVs, Steps
<1>6. ReadTyped
  BY DEF ReadTyped, Op!Init, Op!NoRead
<1>4. CatalogInv
  BY <1>1 DEF CatalogInv, Op!ValidItems
<1>5. PlanInv /\ RunInv /\ CleanupInv /\ EndInv
  BY <1>1 DEF PlanInv, RunInv, CleanupInv, EndInv, Running, Upgrading
<1> QED BY <1>3, <1>4, <1>5, <1>6 DEF OpInv

\* A command that ends in an error or at its time-out with no plan of its
\* approved leaves the cluster to the next command as it should be.
LEMMA OpEnded ==
  ASSUME OpInv, UNCHANGED <<cat, pods, ogs, sub, approved, csv>>, UNCHANGED <<cmd, got>>,
         NEW how \in {"error", "timeout", "notFound"}, Op!End(ThePackage, how),
         Plans = {}, Csv.v = Sub.installed
  PROVE  OpInv'
<1>1. At' = "idle" /\ Result' = how
  BY DEF At, Result, Op!End, OpInv, OpTyped
<1>2. Cat' = Cat /\ Sub' = Sub /\ Csv' = Csv /\ Plans' = Plans
  BY DEF Cat, Sub, Csv, Plans
<1>3. OpTyped'
  BY DEF OpInv, OpTyped, Op!End, Steps
<1>4. CatalogInv'
  BY <1>2 DEF OpInv, CatalogInv, Op!ValidItems
<1>5. PlanInv' /\ RunInv' /\ CleanupInv' /\ EndInv'
  BY <1>1, <1>2 DEF PlanInv, RunInv, CleanupInv, EndInv, Running, Upgrading
<1>6. ReadTyped'
  BY DEF OpInv, ReadTyped, Got
<1> QED BY <1>3, <1>4, <1>5, <1>6 DEF OpInv

\* What is said of the state while no command runs.
LEMMA OpIdle ==
  ASSUME OpInv, At # "csv", At \notin {"delete", "ungroup"}
  PROVE  Plans = {} /\ Csv.v = Sub.installed
BY DEF OpInv, PlanInv

\* run bundle starts: with a mode the CSV supports, or it ends in an error.
LEMMA OpRunBundle ==
  ASSUME CommandInputs, OpInv, NEW v \in Versions, NEW m \in Modes \cup {Op!NoMode},
         Op!RunBundle(ThePackage, v, m)
  PROVE  OpInv'
<1>1. /\ At = "idle" /\ UNCHANGED <<cat, pods, ogs, sub, approved, csv>>
      /\ Op!Validate(m)
  BY DEF At, Op!RunBundle, Op!Start, Op!cluster
<1>2. Cat' = Cat /\ Sub' = Sub /\ Csv' = Csv /\ Plans' = Plans
  BY <1>1 DEF Cat, Sub, Csv, Plans
<1>3. /\ Cmd' = [kind |-> "run", v |-> v, mode |-> m]
      /\ Got' = [Op!NoRead EXCEPT !.items = <<v>>]
  BY DEF Cmd, Got, Op!RunBundle, Op!Start, OpInv, OpTyped
<1>4. /\ Cmd'.kind = "run" /\ Cmd'.v = v /\ Cmd'.mode = m
      /\ Got'.pod = 0 /\ Got'.ref = 0 /\ Got'.items = <<v>> /\ v \in Nat \ {0}
  BY <1>3 DEF Op!NoRead, CommandInputs
<1>5. \/ At' = "catalog" /\ Result' = "none" /\ Op!CheckCompatibility(ThePackage, m)
      \/ At' = "idle" /\ Result' = "error"
  BY DEF At, Result, Op!RunBundle, Op!To, Op!End, OpInv, OpTyped
<1>6. OpTyped'
  BY <1>1, <1>5 DEF At, Result, OpInv, OpTyped, Op!RunBundle, Op!Start, Op!To, Op!End, Steps
<1>7. CatalogInv'
  BY <1>2 DEF OpInv, CatalogInv, Op!ValidItems
<1>8. PlanInv' /\ CleanupInv' /\ EndInv'
  BY <1>1, <1>2, <1>5, OpIdle DEF PlanInv, CleanupInv, EndInv
<1>9. RunInv'
  <2>1. CASE At' = "idle"
    BY <2>1 DEF RunInv, Running, Upgrading
  <2>2. CASE At' = "catalog"
    <3>1. Op!Validate(Cmd'.mode) /\ Op!CheckCompatibility(ThePackage, Cmd'.mode)
      BY <1>1, <1>4, <1>5, <2>2
    <3>2. Op!Validate(Cmd.mode)' /\ Op!CheckCompatibility(ThePackage, Cmd.mode)'
      BY <3>1 DEF Op!Validate, Op!CheckCompatibility
    <3> QED BY <1>4, <2>2, <3>2 DEF RunInv, Running, Upgrading
  <2> QED BY <1>5, <2>1, <2>2
<1>10. ReadTyped'
  BY <1>3 DEF ReadTyped, Op!NoRead
<1> QED BY <1>6, <1>7, <1>8, <1>9, <1>10 DEF OpInv

\* run bundle-upgrade starts: it takes over the bundles of the catalog source
\* and adds another one, or ends in an error.
LEMMA OpUpgradeOperator ==
  ASSUME CommandInputs, OpInv, NEW v \in Versions, Op!UpgradeOperator(ThePackage, v)
  PROVE  OpInv'
<1> DEFINE items == Append(Cat.items, v)
<1>1. At = "idle" /\ UNCHANGED <<cat, pods, ogs, sub, approved, csv>>
  BY DEF At, Op!UpgradeOperator, Op!Start, Op!cluster
<1>2. Cat' = Cat /\ Sub' = Sub /\ Csv' = Csv /\ Plans' = Plans
  BY <1>1 DEF Cat, Sub, Csv, Plans
<1>3. /\ Cmd' = [kind |-> "upgrade", v |-> v, mode |-> Op!NoMode]
      /\ Got' = [Op!NoRead EXCEPT !.ref = Sub.ref, !.pod = Cat.pod, !.items = items]
  BY DEF Cat, Sub, Cmd, Got, Op!UpgradeOperator, Op!Start, OpInv, OpTyped
<1>4. /\ Cmd'.kind = "upgrade" /\ Cmd'.v = v /\ Cmd'.mode = Op!NoMode
      /\ Got'.pod = Cat.pod /\ Got'.ref = Sub.ref /\ Got'.items = items /\ v \in Nat \ {0}
  BY <1>3 DEF Op!NoRead, CommandInputs
<1>5. \/ /\ At' = "pod" /\ Result' = "none"
         /\ Sub.there /\ Cat.there /\ Cat.items # <<>> /\ Op!ValidItems(items)
      \/ At' = "idle" /\ Result' = "error"
  BY DEF At, Cat, Sub, Result, Op!UpgradeOperator, Op!To, Op!End, OpInv, OpTyped
<1>6. OpTyped'
  BY <1>1, <1>5 DEF At, Result, OpInv, OpTyped, Op!UpgradeOperator, Op!Start, Op!To, Op!End, Steps
<1>7. CatalogInv'
  BY <1>2 DEF OpInv, CatalogInv, Op!ValidItems
<1>8. PlanInv' /\ CleanupInv' /\ EndInv'
  BY <1>1, <1>2, <1>5, OpIdle DEF PlanInv, CleanupInv, EndInv
<1>9. RunInv'
  <2>1. CASE At' = "idle"
    BY <2>1 DEF RunInv, Running, Upgrading
  <2>2. CASE At' = "pod"
    <3>1. Cat.pod \in Nat /\ Cat.items \in Seq(Nat)
      BY DEF Cat, OpInv, OpTyped, CatalogSources
    <3>2. Cat.pod # v
      <4>1. Cat.pod = Cat.items[Len(Cat.items)] /\ Len(Cat.items) \in Nat \ {0}
        BY <1>5, <2>2, <3>1 DEF OpInv, CatalogInv
      <4>2. /\ Len(items) = Len(Cat.items) + 1 /\ items[Len(items)] = v
            /\ items[Len(Cat.items)] = Cat.items[Len(Cat.items)]
            /\ DOMAIN items = 1 .. Len(items)
        BY <1>4, <3>1, <4>1
      <4>3. items[Len(Cat.items)] # items[Len(items)]
        BY <1>5, <2>2, <4>1, <4>2 DEF Op!ValidItems
      <4> QED BY <4>1, <4>2, <4>3
    <3>3. Op!ValidItems(Got.items)' /\ Got.items' = Append(Cat.items', Cmd.v')
      BY <1>2, <1>4, <1>5, <2>2 DEF Op!ValidItems
    <3>4. Sub'.there /\ Got'.pod = Cat'.pod /\ Got'.ref = Sub'.ref
      BY <1>2, <1>4, <1>5, <2>2
    <3> QED BY <1>4, <2>2, <3>1, <3>2, <3>3, <3>4 DEF RunInv, Running, Upgrading
  <2> QED BY <1>5, <2>1, <2>2
<1>10. ReadTyped'
  BY <1>3 DEF ReadTyped, Op!NoRead
<1> QED BY <1>6, <1>7, <1>8, <1>9, <1>10 DEF OpInv

\* cleanup starts: what it reads is all that is there.
LEMMA OpUninstall ==
  ASSUME OpInv, NEW deleteCRDs \in BOOLEAN, Op!Uninstall(ThePackage, deleteCRDs)
  PROVE  OpInv'
<1> DEFINE name == IF Sub.installed # 0 THEN Sub.installed ELSE Sub.ref
           found == name # 0 /\ Csv.v = name
           crds == IF deleteCRDs /\ found /\ Csv.crds THEN <<"crds">> ELSE <<>>
           csvs == IF name # 0 THEN <<"csv">> ELSE <<>>
           cats == IF Cat.there THEN <<"catalog">> ELSE <<>>
<1>1. At = "idle" /\ UNCHANGED <<cat, pods, ogs, sub, approved, csv>>
  BY DEF At, Op!Uninstall, Op!Start, Op!cluster
<1>2. Cat' = Cat /\ Sub' = Sub /\ Csv' = Csv /\ Plans' = Plans
  BY <1>1 DEF Cat, Sub, Csv, Plans
<1>3. Got' = [Op!NoRead EXCEPT !.csv = name, !.found = found, !.todo = crds \o csvs \o cats,
                              !.any = Sub.there \/ Cat.there]
  BY DEF Cat, Sub, Csv, Got, Op!Uninstall, Op!Start, OpInv, OpTyped
<1>4. Got'.csv = name /\ Got'.found = found /\ Got'.todo = crds \o csvs \o cats
  BY <1>3 DEF Op!NoRead
<1>5. At' = "unsubscribe" /\ Result' = "none"
  BY DEF At, Result, Op!Uninstall, Op!To, OpInv, OpTyped
<1>6. OpTyped'
  BY <1>1, <1>5 DEF At, Result, OpInv, OpTyped, Op!Uninstall, Op!Start, Op!To, Steps
<1>7. CatalogInv'
  BY <1>2 DEF OpInv, CatalogInv, Op!ValidItems
<1>8. Csv.v = Sub.installed /\ Plans = {}
  BY <1>1, OpIdle
<1>9. CleanupInv'
  <2>1. /\ crds \in Seq({"crds", "csv", "catalog"}) /\ csvs \in Seq({"crds", "csv", "catalog"})
        /\ cats \in Seq({"crds", "csv", "catalog"})
    <3> DEFINE S == {"crds", "csv", "catalog"}
    <3>1. <<"crds">> \in Seq(S) /\ <<"csv">> \in Seq(S) /\ <<"catalog">> \in Seq(S) /\ <<>> \in Seq(S)
      OBVIOUS
    <3> HIDE DEF S
    <3>2. crds \in Seq(S) /\ csvs \in Seq(S) /\ cats \in Seq(S)
      BY <3>1
    <3> QED BY <3>2 DEF S
  <2>2. Csv.v # 0 => csvs = <<"csv">> /\ name = Csv.v /\ found
    BY <1>8
  <2> HIDE DEF crds, csvs, cats, name, found
  <2>3. crds \o csvs \o cats \in Seq({"crds", "csv", "catalog"})
    BY <2>1
  <2>4. csvs = <<"csv">> => \E k \in 1 .. Len(crds \o csvs \o cats) : (crds \o csvs \o cats)[k] = "csv"
    <3>1. SUFFICES ASSUME csvs = <<"csv">>
                   PROVE  /\ Len(crds) + 1 \in 1 .. Len(crds \o csvs \o cats)
                          /\ (crds \o csvs \o cats)[Len(crds) + 1] = "csv"
      OBVIOUS
    <3> QED BY <2>1, <3>1
  <2>5. cats = <<"catalog">> =>
          \E k \in 1 .. Len(crds \o csvs \o cats) : (crds \o csvs \o cats)[k] = "catalog"
    <3>1. SUFFICES ASSUME cats = <<"catalog">>
                   PROVE  /\ Len(crds) + Len(csvs) + 1 \in 1 .. Len(crds \o csvs \o cats)
                          /\ (crds \o csvs \o cats)[Len(crds) + Len(csvs) + 1] = "catalog"
      OBVIOUS
    <3> QED BY <2>1, <3>1
  <2>6. Cat.there => cats = <<"catalog">>
    BY DEF cats
  <2> QED BY <1>2, <1>4, <1>5, <2>2, <2>3, <2>4, <2>5, <2>6 DEF CleanupInv
<1>10. PlanInv' /\ RunInv' /\ EndInv'
  BY <1>2, <1>5, <1>8 DEF PlanInv, RunInv, EndInv, Running, Upgrading
<1>11. ReadTyped'
  BY <1>3 DEF ReadTyped, Op!NoRead
<1> QED BY <1>6, <1>7, <1>9, <1>10, <1>11 DEF OpInv

\* The step of a command changes the package's entry of each variable.
LEMMA OpGo ==
  ASSUME OpTyped, NEW step, Op!Go(ThePackage, step)
  PROVE  /\ At' = step /\ Result' = "none" /\ Cmd' = Cmd
         /\ pc' = [pc EXCEPT ![ThePackage] = step] /\ DOMAIN result' = {ThePackage}
         /\ DOMAIN cmd' = {ThePackage}
BY DEF At, Result, Cmd, OpTyped, Op!Go, Op!To

\* A new catalog source has no bundles yet; one that is there is an error.
LEMMA OpCreateCatalog ==
  ASSUME OpInv, Op!CreateCatalog(ThePackage) PROVE OpInv'
<1> USE DEF Op!CreateCatalog
<1>1. At = "catalog" /\ UNCHANGED <<pods, ogs, sub, approved, csv, got>> BY DEF At
<1>2. CASE Cat.there
  <2>1. UNCHANGED cat /\ Op!End(ThePackage, "error") /\ UNCHANGED cmd
    BY <1>2 DEF Cat, Op!Stop
  <2> QED BY <1>1, <2>1, OpIdle, OpEnded
<1>3. CASE ~Cat.there
  <2>1. Op!Go(ThePackage, "pod") /\ cat' = [cat EXCEPT ![ThePackage] = [Op!NoCat EXCEPT !.there = TRUE]]
    BY <1>3 DEF Cat
  <2>2. /\ Cat'.there = TRUE /\ Cat'.pod = 0 /\ Cat'.items = <<>> /\ Cat' \in CatalogSources
        /\ Sub' = Sub /\ Csv' = Csv /\ Plans' = Plans /\ Got' = Got
    <3>1. Cat' = [Op!NoCat EXCEPT !.there = TRUE]
      BY <2>1 DEF Cat, OpInv, OpTyped
    <3>2. Cat' = [there |-> TRUE, pod |-> 0, items |-> <<>>]
      BY <3>1 DEF Op!NoCat
    <3>3. <<>> \in Seq(Nat) OBVIOUS
    <3>4. Cat' \in CatalogSources BY <3>2, <3>3 DEF CatalogSources
    <3> QED BY <1>1, <3>2, <3>4 DEF Sub, Csv, Plans, Got
  <2>3. At' = "pod" /\ Result' = "none" /\ Cmd' = Cmd
    BY <2>1, OpGo DEF OpInv
  <2>4. OpTyped'
    BY <1>1, <2>1, <2>2, OpGo DEF OpInv, OpTyped, Cat, Steps
  <2>5. ~Sub.there /\ Sub.ref = Sub.installed
    BY <1>3 DEF OpInv, CatalogInv, Op!NoSub
  <2>6. CatalogInv'
    BY <2>2, <2>5 DEF OpInv, CatalogInv, Op!ValidItems
  <2>7. PlanInv' /\ CleanupInv' /\ EndInv'
    BY <1>1, <2>2, <2>3, OpIdle DEF PlanInv, CleanupInv, EndInv
  <2>8. RunInv'
    <3>1. Cmd.kind = "run" BY <1>1 DEF OpInv, RunInv, Running, Upgrading
    <3> QED BY <1>1, <2>2, <2>3, <2>5, <3>1 DEF OpInv, RunInv, Running, Upgrading, Op!Validate,
            Op!CheckCompatibility
  <2>9. ReadTyped'
    BY <2>2 DEF OpInv, ReadTyped
  <2> QED BY <2>4, <2>6, <2>7, <2>8, <2>9 DEF OpInv
<1> QED BY <1>2, <1>3

\* The pod is named after the bundle the command adds.
LEMMA OpCreateRegistryPod ==
  ASSUME OpInv, Op!CreateRegistryPod(ThePackage) PROVE OpInv'
<1> USE DEF Op!CreateRegistryPod
<1>1. At = "pod" /\ UNCHANGED <<cat, ogs, sub, approved, csv, got>> BY DEF At
<1>2. CASE Pod(Cmd.v) \in pods
  <2>1. UNCHANGED pods /\ Op!End(ThePackage, "error") /\ UNCHANGED cmd
    BY <1>2 DEF Cmd, Pod, Op!Stop
  <2> QED BY <1>1, <2>1, OpIdle, OpEnded
<1>3. CASE Pod(Cmd.v) \notin pods
  <2>1. Op!Go(ThePackage, "annotate") /\ pods' = pods \cup {Pod(Cmd.v)}
    BY <1>3 DEF Cmd, Pod
  <2>2. Cat' = Cat /\ Sub' = Sub /\ Csv' = Csv /\ Plans' = Plans /\ Got' = Got
    BY <1>1 DEF Cat, Sub, Csv, Plans, Got
  <2>3. At' = "annotate" /\ Result' = "none" /\ Cmd' = Cmd
    BY <2>1, OpGo DEF OpInv
  <2>4. OpTyped'
    BY <1>1, <2>1, OpGo DEF OpInv, OpTyped, Steps
  <2>5. CatalogInv'
    BY <2>2 DEF OpInv, CatalogInv, Op!ValidItems
  <2>6. PlanInv' /\ CleanupInv' /\ EndInv'
    BY <1>1, <2>2, <2>3, OpIdle DEF PlanInv, CleanupInv, EndInv
  <2>7. RunInv'
    <3>1. Pod(Cmd.v)' \in pods' BY <2>1, <2>3 DEF Pod
    <3> QED BY <1>1, <2>2, <2>3, <3>1
            DEF OpInv, RunInv, Running, Upgrading, Op!ValidItems, Op!Validate,
              Op!CheckCompatibility
  <2>9. ReadTyped'
    BY <2>2 DEF OpInv, ReadTyped
  <2> QED BY <2>4, <2>5, <2>6, <2>7, <2>9 DEF OpInv
<1> QED BY <1>2, <1>3

\* The catalog source takes the bundles and the pod of the command: the last
\* bundle is the pod's, and an installed one stays before it.
LEMMA OpUpdateCatalogSourceFields ==
  ASSUME OpInv, Op!UpdateCatalogSourceFields(ThePackage) PROVE OpInv'
<1> USE DEF Op!UpdateCatalogSourceFields
<1>1. At = "annotate" /\ UNCHANGED <<pods, ogs, sub, approved, csv, got>> BY DEF At
<1>2. Cat.there /\ Cmd.v \in Nat \ {0} /\ Got.pod \in Nat
  BY <1>1 DEF OpInv, RunInv, CatalogInv, Running, Upgrading
<1>3. /\ cat' = [cat EXCEPT ![ThePackage].pod = Cmd.v, ![ThePackage].items = Got.items]
      /\ Op!Go(ThePackage, CASE Cmd.kind = "run" -> "groups"
                             [] Cmd.kind = "upgrade" /\ Got.pod # 0 -> "oldpod"
                             [] OTHER -> "plan")
  BY <1>2 DEF Cat, Cmd, Got
<1>4. Sub' = Sub /\ Csv' = Csv /\ Plans' = Plans /\ Got' = Got
  BY <1>1 DEF Sub, Csv, Plans, Got
<1>5. Cat \in CatalogSources /\ Sub \in Subscriptions
  BY DEF OpInv, OpTyped, Cat, Sub
<1>6. Cat'.there = TRUE /\ Cat'.pod = Cmd.v /\ Cat'.items = Got.items
  BY <1>2, <1>3, <1>5 DEF Cat, OpInv, OpTyped, CatalogSources
<1>7. Cmd.kind \in {"run", "upgrade"}
  BY <1>1 DEF OpInv, RunInv, Running, Upgrading
<1>8. /\ At' \in {"groups", "oldpod", "plan"} /\ Result' = "none" /\ Cmd' = Cmd
      /\ At' = "groups" <=> Cmd.kind = "run"
      /\ At' = "plan" => Got.pod = 0
  BY <1>3, <1>7, OpGo DEF OpInv
<1>9. /\ Got.items \in Seq(Nat) /\ Op!ValidItems(Got.items) /\ Got.items # <<>>
      /\ Got.items[Len(Got.items)] = Cmd.v
      /\ \A j \in 1 .. Len(Cat.items) - 1 : Cmd.kind = "upgrade" =>
           /\ j \in 1 .. Len(Got.items) - 1 /\ Got.items[j] = Cat.items[j]
  <2>1. CASE Cmd.kind = "run"
    <3>1. Got.items = <<Cmd.v>> BY <1>1, <2>1 DEF OpInv, RunInv, Running, Upgrading
    <3> QED BY <1>2, <2>1, <3>1 DEF Op!ValidItems
  <2>2. CASE Cmd.kind = "upgrade"
    <3>1. Got.items = Append(Cat.items, Cmd.v) /\ Op!ValidItems(Got.items)
      BY <1>1, <2>2 DEF OpInv, RunInv, Upgrading
    <3>2. Cat.items \in Seq(Nat) BY <1>5 DEF CatalogSources
    <3> HIDE DEF Op!UpdateCatalogSourceFields
    <3>3. /\ Append(Cat.items, Cmd.v) \in Seq(Nat) /\ Append(Cat.items, Cmd.v) # <<>>
          /\ Len(Append(Cat.items, Cmd.v)) = Len(Cat.items) + 1
          /\ Append(Cat.items, Cmd.v)[Len(Cat.items) + 1] = Cmd.v
          /\ \A j \in 1 .. Len(Cat.items) : Append(Cat.items, Cmd.v)[j] = Cat.items[j]
          /\ Len(Cat.items) \in Nat
      BY ONLY <1>2, <3>2
    <3> QED BY <3>1, <3>3
  <2> QED BY <1>7, <2>1, <2>2
<1>10. OpTyped'
  <2>1. cat' \in [{ThePackage} -> CatalogSources]
    BY <1>2, <1>3, <1>9 DEF OpInv, OpTyped, CatalogSources
  <2> QED BY <1>1, <1>3, <1>8, <2>1, OpGo DEF OpInv, OpTyped, Steps, At
<1>11. CatalogInv'
  <2>1. (~Sub.there => Sub = Op!NoSub)' BY <1>4 DEF OpInv, CatalogInv
  <2>2. Op!ValidItems(Cat.items)' BY <1>6, <1>9 DEF Op!ValidItems
  <2>3. \/ Sub.ref = Sub.installed \/ Sub.installed = 0
        \/ \E j \in 1 .. Len(Cat'.items) - 1 : Cat'.items[j] = Sub.installed
    <3>1. CASE Cmd.kind = "run"
      <4>1. Sub = Op!NoSub
        BY <1>1, <3>1 DEF OpInv, RunInv, CatalogInv, Running, Upgrading
      <4> QED BY <4>1 DEF Op!NoSub
    <3>2. CASE Cmd.kind = "upgrade"
      BY <1>6, <1>9, <3>2 DEF OpInv, CatalogInv
    <3> QED BY <1>7, <3>1, <3>2
  <2> QED BY <1>4, <1>6, <1>9, <2>1, <2>2, <2>3 DEF CatalogInv
<1>12. PlanInv' /\ CleanupInv' /\ EndInv'
  BY <1>1, <1>4, <1>8, OpIdle DEF PlanInv, CleanupInv, EndInv
<1>13. RunInv'
  <2>1. Pod(Cmd.v)' \in pods' BY <1>1, <1>8 DEF OpInv, RunInv, Pod
  <2>2. Cmd.kind = "upgrade" => /\ Cmd.mode = Op!NoMode /\ Sub.there
                                /\ Sub.installed = Got.ref \/ Sub.ref = Got.ref
    BY <1>1 DEF OpInv, RunInv, Upgrading
  <2>3. GroupAsAsked' \/ Cmd.kind = "run" BY <1>7, <1>8, <2>2 DEF GroupAsAsked, Op!NoMode
  <2> QED BY <1>1, <1>2, <1>4, <1>6, <1>7, <1>8, <1>9, <2>1, <2>2, <2>3
          DEF OpInv, RunInv, Running, Upgrading, Op!Validate, Op!CheckCompatibility
<1>14. ReadTyped'
  BY <1>4 DEF OpInv, ReadTyped
<1> QED BY <1>10, <1>11, <1>12, <1>13, <1>14 DEF OpInv

\* run bundle goes on with at most one group.
LEMMA OpGetOperatorGroup ==
  ASSUME OpInv, Op!GetOperatorGroup(ThePackage) PROVE OpInv'
<1> USE DEF Op!GetOperatorGroup
<1>1. At = "groups" /\ UNCHANGED <<cat, pods, ogs, sub, approved, csv>> BY DEF At, Op!cluster
<1>2. CASE Cardinality(ogs) > 1
  <2>1. UNCHANGED got /\ Op!End(ThePackage, "error") /\ UNCHANGED cmd
    BY <1>2 DEF Op!Stop, Op!Cardinality, Cardinality, IsFiniteSet, Op!IsFiniteSet
  <2> QED BY <1>1, <2>1, OpIdle, OpEnded
<1>3. CASE ~(Cardinality(ogs) > 1)
  <2>1. Op!Go(ThePackage, "ensure") /\ got' = [got EXCEPT ![ThePackage].ogs = ogs]
    BY <1>3 DEF Op!Cardinality, Cardinality, IsFiniteSet, Op!IsFiniteSet
  <2>2. Cat' = Cat /\ Sub' = Sub /\ Csv' = Csv /\ Plans' = Plans
    BY <1>1 DEF Cat, Sub, Csv, Plans
  <2>3. /\ Got' = [Got EXCEPT !.ogs = ogs] /\ DOMAIN got' = {ThePackage}
    BY <2>1 DEF Got, OpInv, OpTyped
  <2>4. At' = "ensure" /\ Result' = "none" /\ Cmd' = Cmd
    BY <2>1, OpGo DEF OpInv
  <2>5. /\ Got'.pod = Got.pod /\ Got'.ref = Got.ref /\ Got'.items = Got.items
        /\ Got'.ogs = ogs
    BY <2>3 DEF OpInv, ReadTyped
  <2>6. OpTyped'
    BY <1>1, <2>1, <2>3, OpGo DEF OpInv, OpTyped, Steps
  <2>7. CatalogInv'
    BY <2>2 DEF OpInv, CatalogInv, Op!ValidItems
  <2>8. PlanInv' /\ CleanupInv' /\ EndInv'
    BY <1>1, <2>2, <2>4, OpIdle DEF PlanInv, CleanupInv, EndInv
  <2>9. RunInv'
    <3>1. Pod(Cmd.v)' \in pods' BY <1>1, <2>4 DEF OpInv, RunInv, Pod
    <3> QED BY <1>1, <1>3, <2>2, <2>3, <2>4, <2>5, <3>1
            DEF OpInv, RunInv, Running, Upgrading, Op!ValidItems, Op!Validate,
              Op!CheckCompatibility
  <2>10. ReadTyped'
    BY <2>3 DEF OpInv, ReadTyped
  <2> QED BY <2>6, <2>7, <2>8, <2>9, <2>10 DEF OpInv
<1> QED BY <1>2, <1>3

\* The group that run bundle finds or makes targets what the mode asks for:
\* there is at most one, and the CSV supports the mode.
LEMMA OpEnsureOperatorGroup ==
  ASSUME CommandInputs, OpInv, Op!EnsureOperatorGroup(ThePackage) PROVE OpInv'
<1> USE DEF Op!EnsureOperatorGroup
<1> DEFINE targets == Op!GetTargetNamespaces(ThePackage, Cmd.mode)
           made == [sdk |-> TRUE, targets |-> targets]
           create == Got.ogs = {} /\ ~\E g \in ogs : g.sdk
           fits == Got.ogs # {} /\ (Cmd.mode.type = "none" \/ \A g \in Got.ogs : g.targets = targets)
<1>1. At = "ensure" /\ UNCHANGED <<cat, pods, sub, approved, csv, got>> BY DEF At
<1>2. ogs' = IF create THEN ogs \cup {made} ELSE ogs BY DEF Cmd, Got
<1>3. IF create \/ fits THEN Op!Go(ThePackage, "subscribe") ELSE Op!Stop(ThePackage, "error")
  BY DEF Cmd, Got
<1>4. /\ Got.ogs = ogs /\ ~(Cardinality(ogs) > 1) /\ IsFiniteSet(ogs)
      /\ Op!Validate(Cmd.mode) /\ Op!CheckCompatibility(ThePackage, Cmd.mode)
      /\ Cmd.mode \in Modes \cup {Op!NoMode}
  BY <1>1 DEF OpInv, OpTyped, RunInv, Running, Upgrading
<1>5. Cmd.mode.type # "none" =>
        targets = IF Cmd.mode.type = "OwnNamespace" THEN {Own} ELSE Cmd.mode.targets
  <2>1. SUFFICES ASSUME Cmd.mode.type # "none"
                 PROVE  targets = IF Cmd.mode.type = "OwnNamespace" THEN {Own} ELSE Cmd.mode.targets
    OBVIOUS
  <2>2. /\ Cmd.mode.type \in {"AllNamespaces", "OwnNamespace", "SingleNamespace", "MultiNamespace"}
        /\ Cmd.mode.type \in Supported[ThePackage]
    BY <1>4, <2>1 DEF CommandInputs, Op!CheckCompatibility, Op!NoMode
  <2>3. Supported[ThePackage] \cap {Cmd.mode.type} = {Cmd.mode.type}
    BY <2>2
  <2>4. Cmd.mode.type = "AllNamespaces" => Cmd.mode.targets = {}
    BY <1>4 DEF Op!Validate
  <2> QED BY <2>1, <2>2, <2>3, <2>4 DEF Op!GetTargetNamespaces
<1> HIDE DEF targets
<1>6. CASE ~(create \/ fits)
  <2>1. UNCHANGED ogs /\ Op!End(ThePackage, "error") /\ UNCHANGED cmd
    BY <1>2, <1>3, <1>6 DEF Op!Stop
  <2> QED BY <1>1, <2>1, OpIdle, OpEnded
<1>7. CASE create \/ fits
  <2>1. Op!Go(ThePackage, "subscribe") BY <1>3, <1>7
  <2>2. Cat' = Cat /\ Sub' = Sub /\ Csv' = Csv /\ Plans' = Plans /\ Got' = Got
    BY <1>1 DEF Cat, Sub, Csv, Plans, Got
  <2>3. At' = "subscribe" /\ Result' = "none" /\ Cmd' = Cmd
    BY <2>1, OpGo DEF OpInv
  <2>4. IsFiniteSet(ogs')
    <3> HIDE DEF made, create
    <3>1. IsFiniteSet(ogs \cup {made}) BY ONLY <1>4, FS_AddElement
    <3> QED BY <1>2, <1>4, <3>1
  <2>5. OpTyped' /\ ReadTyped'
    BY <1>1, <2>1, <2>2, <2>4, OpGo DEF OpInv, OpTyped, ReadTyped, Steps
  <2>6. CatalogInv'
    BY <2>2 DEF OpInv, CatalogInv, Op!ValidItems
  <2>7. PlanInv' /\ CleanupInv' /\ EndInv'
    BY <1>1, <2>2, <2>3, OpIdle DEF PlanInv, CleanupInv, EndInv
  <2>8. GroupAsAsked'
    <3>1. SUFFICES ASSUME Cmd.mode.type # "none"
                   PROVE  \E g \in ogs' : ogs' = {g} /\ g.targets = targets
      BY <1>5, <2>3 DEF GroupAsAsked
    <3>2. CASE create
      <4>1. made.targets = targets OBVIOUS
      <4>2. ogs' = {made} BY <1>2, <1>4, <3>2
      <4> HIDE DEF made
      <4> QED BY <4>1, <4>2
    <3>3. CASE fits /\ ~create
      <4>1. ogs' = ogs /\ ogs # {} /\ \A g \in ogs : g.targets = targets
        BY <1>2, <1>4, <3>1, <3>3
      <4>2. Cardinality(ogs) \in Nat /\ Cardinality(ogs) # 0
        BY <1>4, <4>1, FS_CardinalityType, FS_EmptySet
      <4>3. Cardinality(ogs) = 1 BY <1>4, <4>2
      <4>4. \E g : ogs = {g} BY <1>4, <4>3, FS_Singleton
      <4> QED BY <4>1, <4>4
    <3> QED BY <1>7, <3>2, <3>3
  <2>9. RunInv'
    <3>1. Pod(Cmd.v)' \in pods' BY <1>1, <2>3 DEF OpInv, RunInv, Pod
    <3> HIDE DEF Op!EnsureOperatorGroup
    <3> QED BY <1>1, <2>2, <2>3, <2>8, <3>1
            DEF OpInv, RunInv, Running, Upgrading, Op!ValidItems, Op!Validate,
              Op!CheckCompatibility
  <2> QED BY <2>5, <2>6, <2>7, <2>8, <2>9 DEF OpInv
<1> QED BY <1>6, <1>7

\* A new subscription has no plan, as no CSV is installed.
LEMMA OpCreateSubscription ==
  ASSUME OpInv, Op!CreateSubscription(ThePackage) PROVE OpInv'
<1> USE DEF Op!CreateSubscription
<1>1. At = "subscribe" /\ UNCHANGED <<cat, pods, ogs, approved, csv, got>> BY DEF At
<1>2. /\ ~Sub.there /\ Cmd.v \in Nat /\ Got.ref = 0 /\ Got.pod = 0 /\ Cat.there
      /\ Cat.items # <<>> /\ Cat.pod = Cmd.v
  BY <1>1 DEF OpInv, RunInv, Running, Upgrading
<1>3. /\ Op!Go(ThePackage, "plan")
      /\ sub' = [sub EXCEPT ![ThePackage] = [Op!NoSub EXCEPT !.there = TRUE, !.start = Cmd.v]]
  BY <1>2 DEF Sub, Cmd
<1>4. Cat' = Cat /\ Csv' = Csv /\ Plans' = Plans /\ Got' = Got
  BY <1>1 DEF Cat, Csv, Plans, Got
<1>5. Sub' = [Op!NoSub EXCEPT !.there = TRUE, !.start = Cmd.v]
  BY <1>3 DEF Sub, OpInv, OpTyped
<1>6. Sub' = [there |-> TRUE, start |-> Cmd.v, ref |-> 0, installed |-> 0]
  BY <1>5 DEF Op!NoSub
<1>7. Sub' \in Subscriptions BY <1>2, <1>6 DEF Subscriptions
<1>8. At' = "plan" /\ Result' = "none" /\ Cmd' = Cmd
  BY <1>3, OpGo DEF OpInv
<1>9. OpTyped' /\ ReadTyped'
  BY <1>1, <1>3, <1>4, <1>5, <1>7, OpGo DEF OpInv, OpTyped, ReadTyped, Steps
<1>10. CatalogInv'
  BY <1>2, <1>4, <1>6 DEF OpInv, CatalogInv, Op!ValidItems
<1>11. PlanInv' /\ CleanupInv' /\ EndInv'
  <2>1. Csv.v = 0 /\ Plans = {}
    BY <1>1, <1>2, OpIdle DEF OpInv, CatalogInv, Op!NoSub
  <2> QED BY <1>1, <1>4, <1>6, <1>8, <2>1 DEF PlanInv, CleanupInv, EndInv
<1>12. RunInv'
  <2>1. Pod(Cmd.v)' \in pods' /\ GroupAsAsked'
    BY <1>1, <1>8 DEF OpInv, RunInv, Pod, GroupAsAsked
  <2> QED BY <1>1, <1>2, <1>4, <1>6, <1>8, <2>1 DEF OpInv, RunInv, Running, Upgrading
<1> QED BY <1>9, <1>10, <1>11, <1>12 DEF OpInv

\* The plan a command waits for is not the one installed before.
LEMMA OpWaitForInstallPlan ==
  ASSUME OpInv, Op!WaitForInstallPlan(ThePackage) PROVE OpInv'
<1> USE DEF Op!WaitForInstallPlan
<1>1. At = "plan" /\ UNCHANGED <<cat, pods, ogs, sub, approved, csv>> BY DEF At, Op!cluster
<1>2. Sub.there /\ (Sub.installed = Got.ref \/ Sub.ref = Got.ref)
  BY <1>1 DEF OpInv, RunInv
<1>3. /\ Sub.ref # Got.ref /\ Op!Go(ThePackage, "approve")
      /\ got' = [got EXCEPT ![ThePackage].ref = Sub.ref]
  BY <1>2 DEF Sub, Got
<1>4. Cat' = Cat /\ Sub' = Sub /\ Csv' = Csv /\ Plans' = Plans
  BY <1>1 DEF Cat, Sub, Csv, Plans
<1>5. Got' = [Got EXCEPT !.ref = Sub.ref] /\ DOMAIN got' = {ThePackage}
  BY <1>3 DEF Got, OpInv, OpTyped
<1>6. At' = "approve" /\ Result' = "none" /\ Cmd' = Cmd
  BY <1>3, OpGo DEF OpInv
<1>7. Got'.ref = Sub.ref /\ Got'.pod = Got.pod
  BY <1>5 DEF OpInv, ReadTyped
<1>8. OpTyped' /\ ReadTyped'
  <2>1. ReadTyped' BY <1>5 DEF OpInv, ReadTyped
  <2> QED BY <1>1, <1>3, <1>5, <2>1, OpGo DEF OpInv, OpTyped, Steps
<1>9. CatalogInv'
  BY <1>4 DEF OpInv, CatalogInv, Op!ValidItems
<1>10. PlanInv' /\ CleanupInv' /\ EndInv'
  BY <1>1, <1>4, <1>6, OpIdle DEF PlanInv, CleanupInv, EndInv
<1>11. RunInv'
  <2>1. Pod(Cmd.v)' \in pods' /\ GroupAsAsked' /\ (Got'.pod # 0 => Pod(Got.pod)' \notin pods')
    BY <1>1, <1>6, <1>7 DEF OpInv, RunInv, Pod, GroupAsAsked
  <2> QED BY <1>1, <1>2, <1>3, <1>4, <1>6, <1>7, <2>1 DEF OpInv, RunInv, Running, Upgrading
<1> QED BY <1>8, <1>9, <1>10, <1>11 DEF OpInv

\* The approved plan is the subscription's, and the only one.
LEMMA OpApproveInstallPlan ==
  ASSUME OpInv, Op!ApproveInstallPlan(ThePackage) PROVE OpInv'
<1> USE DEF Op!ApproveInstallPlan
<1>1. At = "approve" /\ UNCHANGED <<cat, pods, ogs, sub, csv, got>> BY DEF At
<1>2. Sub.there /\ Got.ref = Sub.ref /\ Sub.ref # Sub.installed
  BY <1>1 DEF OpInv, RunInv
<1>3. /\ Op!Go(ThePackage, "csv")
      /\ approved' = [approved EXCEPT ![ThePackage] = @ \cup {Got.ref}]
  BY <1>2 DEF Sub, Got
<1>4. Cat' = Cat /\ Sub' = Sub /\ Csv' = Csv /\ Got' = Got
  BY <1>1 DEF Cat, Sub, Csv, Got
<1>5. Plans = {} /\ Csv.v = Sub.installed BY <1>1, OpIdle
<1>6. Plans' = {Sub.ref} BY <1>2, <1>3, <1>5 DEF Plans, OpInv, OpTyped
<1>7. At' = "csv" /\ Result' = "none" /\ Cmd' = Cmd
  BY <1>3, OpGo DEF OpInv
<1>8. OpTyped' /\ ReadTyped'
  BY <1>1, <1>3, <1>4, OpGo DEF OpInv, OpTyped, ReadTyped, Steps
<1>9. CatalogInv'
  BY <1>4 DEF OpInv, CatalogInv, Op!ValidItems
<1>10. PlanInv' /\ CleanupInv' /\ EndInv'
  BY <1>2, <1>4, <1>5, <1>6, <1>7 DEF PlanInv, CleanupInv, EndInv
<1>11. RunInv'
  <2>1. Pod(Cmd.v)' \in pods' /\ GroupAsAsked' /\ (Got'.pod # 0 => Pod(Got.pod)' \notin pods')
    BY <1>1, <1>4, <1>7 DEF OpInv, RunInv, Pod, GroupAsAsked
  <2> QED BY <1>1, <1>2, <1>4, <1>7, <2>1 DEF OpInv, RunInv, Running, Upgrading
<1> QED BY <1>8, <1>9, <1>10, <1>11 DEF OpInv

\* The CSV waited for is the last of the catalog, so it is the plan's.
LEMMA OpGetInstalledCSV ==
  ASSUME OpInv, Op!GetInstalledCSV(ThePackage) PROVE OpInv'
<1> USE DEF Op!GetInstalledCSV
<1>1. /\ At = "csv" /\ UNCHANGED <<cat, pods, ogs, sub, approved, csv, got>> /\ Csv.v = Cmd.v
      /\ Op!Stop(ThePackage, IF Csv.ok THEN "installed" ELSE "error")
  BY DEF At, Csv, Cmd, Op!cluster
<1>2. /\ Csv.v = Sub.installed /\ Cmd.v \in Nat \ {0} /\ Cat.pod = Cmd.v /\ Cat.items # <<>>
  BY <1>1 DEF OpInv, PlanInv, RunInv
<1>3. Plans = {}
  <2>1. SUFFICES ASSUME Sub.ref # Sub.installed PROVE FALSE
    BY DEF OpInv, PlanInv
  <2>2. PICK j \in 1 .. Len(Cat.items) - 1 : Cat.items[j] = Sub.installed
    BY <1>1, <1>2, <2>1 DEF OpInv, CatalogInv
  <2>3. Cat.items \in Seq(Nat) BY DEF Cat, OpInv, OpTyped, CatalogSources
  <2>4. /\ Len(Cat.items) \in DOMAIN Cat.items /\ j \in DOMAIN Cat.items /\ j # Len(Cat.items)
    BY <2>2, <2>3
  <2>5. Cat.items[Len(Cat.items)] = Cmd.v
    BY <1>2 DEF OpInv, CatalogInv
  <2> QED BY <1>1, <1>2, <2>2, <2>4, <2>5 DEF OpInv, CatalogInv, Op!ValidItems
<1>4. UNCHANGED cmd BY <1>1 DEF Op!Stop
<1>5. CASE ~Csv.ok
  <2>1. Op!End(ThePackage, "error") BY <1>1, <1>5 DEF Op!Stop
  <2> QED BY <1>1, <1>2, <1>3, <1>4, <2>1, OpEnded
<1>6. CASE Csv.ok
  <2>1. /\ pc' = [pc EXCEPT ![ThePackage] = "idle"]
        /\ result' = [result EXCEPT ![ThePackage] = "installed"]
    BY <1>1, <1>6 DEF Op!Stop, Op!End
  <2>2. /\ Cat' = Cat /\ Sub' = Sub /\ Csv' = Csv /\ Got' = Got /\ Cmd' = Cmd /\ Plans' = {}
        /\ At' = "idle" /\ Result' = "installed"
    BY <1>1, <1>3, <1>4, <2>1 DEF Cat, Sub, Csv, Got, Cmd, Plans, At, Result, OpInv, OpTyped
  <2>3. OpTyped' /\ ReadTyped'
    BY <1>1, <1>4, <2>1, <2>2 DEF OpInv, OpTyped, ReadTyped, Steps
  <2>4. CatalogInv'
    BY <2>2 DEF OpInv, CatalogInv, Op!ValidItems
  <2>5. PlanInv' /\ CleanupInv' /\ RunInv'
    BY <1>2, <2>2 DEF PlanInv, CleanupInv, RunInv, Running, Upgrading
  <2>6. EndInv'
    <3>1. Pod(Cmd.v)' \in pods' /\ GroupAsAsked' /\ (Got'.pod # 0 => Pod(Got.pod)' \notin pods')
      BY <1>1, <2>2 DEF OpInv, RunInv, Pod, GroupAsAsked
    <3> QED BY <1>1, <1>2, <2>2, <3>1 DEF EndInv
  <2> QED BY <2>3, <2>4, <2>5, <2>6 DEF OpInv
<1> QED BY <1>5, <1>6

\* The old pod goes, and it is not the new one.
LEMMA OpDeleteRegistryPod ==
  ASSUME OpInv, Op!DeleteRegistryPod(ThePackage) PROVE OpInv'
<1> USE DEF Op!DeleteRegistryPod
<1>1. At = "oldpod" /\ UNCHANGED <<cat, ogs, sub, approved, csv, got>> BY DEF At
<1>2. CASE Pod(Got.pod) \notin pods
  <2>1. UNCHANGED pods /\ Op!End(ThePackage, "error") /\ UNCHANGED cmd
    BY <1>2 DEF Got, Pod, Op!Stop
  <2> QED BY <1>1, <2>1, OpIdle, OpEnded
<1>3. CASE Pod(Got.pod) \in pods
  <2>1. Op!Go(ThePackage, "plan") /\ pods' = pods \ {Pod(Got.pod)}
    BY <1>3 DEF Got, Pod
  <2>2. Cat' = Cat /\ Sub' = Sub /\ Csv' = Csv /\ Plans' = Plans /\ Got' = Got
    BY <1>1 DEF Cat, Sub, Csv, Plans, Got
  <2>3. At' = "plan" /\ Result' = "none" /\ Cmd' = Cmd
    BY <2>1, OpGo DEF OpInv
  <2>4. OpTyped' /\ ReadTyped'
    BY <1>1, <2>1, <2>2, OpGo DEF OpInv, OpTyped, ReadTyped, Steps
  <2>5. CatalogInv'
    BY <2>2 DEF OpInv, CatalogInv, Op!ValidItems
  <2>6. PlanInv' /\ CleanupInv' /\ EndInv'
    BY <1>1, <2>2, <2>3, OpIdle DEF PlanInv, CleanupInv, EndInv
  <2>7. RunInv'
    <3>1. Pod(Cmd.v)' \in pods' /\ Pod(Got.pod)' \notin pods'
      BY <1>1, <2>1, <2>2, <2>3 DEF OpInv, RunInv, Pod
    <3>2. GroupAsAsked'
      BY <1>1, <2>3 DEF OpInv, RunInv, GroupAsAsked, Op!NoMode
    <3> QED BY <1>1, <2>2, <2>3, <3>1, <3>2 DEF OpInv, RunInv, Running, Upgrading
  <2> QED BY <2>4, <2>5, <2>6, <2>7 DEF OpInv
<1> QED BY <1>2, <1>3

\* Without its subscription the CSV is still on the cleanup's list.
LEMMA OpDeleteSubscription ==
  ASSUME OpInv, Op!DeleteSubscription(ThePackage) PROVE OpInv'
<1> USE DEF Op!DeleteSubscription
<1>1. /\ At = "unsubscribe" /\ UNCHANGED <<cat, pods, ogs, approved, csv, got>>
      /\ sub' = [sub EXCEPT ![ThePackage] = Op!NoSub] /\ Op!Go(ThePackage, "delete")
  BY DEF At
<1>2. /\ Cat' = Cat /\ Csv' = Csv /\ Plans' = Plans /\ Got' = Got /\ Sub' = Op!NoSub
  BY <1>1 DEF Cat, Sub, Csv, Plans, Got, OpInv, OpTyped
<1>3. At' = "delete" /\ Result' = "none" /\ Cmd' = Cmd
  BY <1>1, OpGo DEF OpInv
<1>4. Op!NoSub \in Subscriptions /\ ~Op!NoSub.there /\ Op!NoSub.ref = Op!NoSub.installed
  BY DEF Op!NoSub, Subscriptions
<1>5. OpTyped' /\ ReadTyped'
  BY <1>1, <1>2, <1>4, OpGo DEF OpInv, OpTyped, ReadTyped, Steps
<1>6. CatalogInv'
  BY <1>2, <1>4 DEF OpInv, CatalogInv, Op!ValidItems
<1>7. PlanInv' /\ RunInv' /\ EndInv'
  BY <1>1, <1>2, <1>3, OpIdle DEF PlanInv, RunInv, EndInv, Running, Upgrading
<1>8. CleanupInv'
  BY <1>1, <1>2, <1>3, <1>4 DEF OpInv, CleanupInv
<1> QED BY <1>5, <1>6, <1>7, <1>8 DEF OpInv

\* Each object the cleanup has found goes when its turn comes.
LEMMA OpDeleteObjects ==
  ASSUME OpInv, Op!DeleteObjects(ThePackage) PROVE OpInv'
<1> DEFINE o == Head(Got.todo)
<1>1. At = "delete" /\ Got.todo # <<>> /\ UNCHANGED <<pods, ogs, sub, approved>>
  BY DEF At, Got, Op!DeleteObjects
<1>2. /\ ~Sub.there /\ Sub = Op!NoSub /\ Sub.ref = 0 /\ Sub.installed = 0 /\ Plans = {}
  BY <1>1 DEF OpInv, CleanupInv, CatalogInv, PlanInv, Op!NoSub
<1>3. /\ Got.todo \in Seq({"crds", "csv", "catalog"})
      /\ Csv.v # 0 => /\ Got.csv = Csv.v /\ Got.found
                      /\ \E k \in 1 .. Len(Got.todo) : Got.todo[k] = "csv"
      /\ Cat.there => \E k \in 1 .. Len(Got.todo) : Got.todo[k] = "catalog"
  BY <1>1 DEF OpInv, CleanupInv
<1>4. /\ o \in {"crds", "csv", "catalog"} /\ Tail(Got.todo) \in Seq({"crds", "csv", "catalog"})
      /\ \A x : (\E k \in 1 .. Len(Got.todo) : Got.todo[k] = x) =>
           x = o \/ \E k \in 1 .. Len(Tail(Got.todo)) : Tail(Got.todo)[k] = x
  <2>1. o = Got.todo[1] /\ o \in {"crds", "csv", "catalog"}
        /\ Tail(Got.todo) \in Seq({"crds", "csv", "catalog"})
        /\ Len(Tail(Got.todo)) = Len(Got.todo) - 1 /\ Len(Got.todo) \in Nat
    BY ONLY <1>1, <1>3, HeadTailProperties
  <2>2. \A k \in 2 .. Len(Got.todo) : Tail(Got.todo)[k - 1] = Got.todo[k]
    BY ONLY <1>1, <1>3, <2>1, HeadTailProperties
  <2>3. SUFFICES ASSUME NEW k \in 1 .. Len(Got.todo), k # 1
                 PROVE  \E i \in 1 .. Len(Tail(Got.todo)) : Tail(Got.todo)[i] = Got.todo[k]
    BY <2>1
  <2>4. k - 1 \in 1 .. Len(Tail(Got.todo)) BY <2>1, <2>3
  <2>5. Tail(Got.todo)[k - 1] = Got.todo[k] BY <2>1, <2>2, <2>3
  <2> QED BY ONLY <2>4, <2>5
<1>5. CASE o = "csv" /\ ~Got.found
  <2>1. UNCHANGED <<cat, csv, got>> /\ Op!End(ThePackage, "error") /\ UNCHANGED cmd
    BY <1>5 DEF Got, Op!DeleteObjects, Op!Stop
  <2>2. Csv.v = 0 BY <1>3, <1>5
  <2> QED BY <1>1, <1>2, <2>1, <2>2, OpEnded
<1>6. CASE ~(o = "csv" /\ ~Got.found)
  <2>1. /\ csv' = CASE o = "crds" -> [csv EXCEPT ![ThePackage].crds = FALSE]
                    [] o = "csv" /\ Csv.v = Got.csv
                         -> [csv EXCEPT ![ThePackage].v = 0, ![ThePackage].ok = FALSE]
                    [] OTHER -> csv
        /\ cat' = IF o = "catalog" THEN [cat EXCEPT ![ThePackage] = Op!NoCat] ELSE cat
        /\ got' = [got EXCEPT ![ThePackage].todo = Tail(@)]
        /\ Op!Go(ThePackage, "delete")
    BY <1>6 DEF Got, Csv, Op!DeleteObjects
  <2>2. Sub' = Sub /\ Plans' = Plans BY <1>1 DEF Sub, Plans
  <2>3. At' = "delete" /\ Result' = "none" /\ Cmd' = Cmd
    BY <2>1, OpGo DEF OpInv
  <2>4. Got' = [Got EXCEPT !.todo = Tail(@)] /\ DOMAIN got' = {ThePackage}
    BY <2>1 DEF Got, OpInv, OpTyped
  <2>5. Got'.csv = Got.csv /\ Got'.found = Got.found /\ Got'.todo = Tail(Got.todo) /\ ReadTyped'
    BY <2>4 DEF OpInv, ReadTyped
  <2>6. Csv \in CSVs /\ csv \in [{ThePackage} -> CSVs] /\ cat \in [{ThePackage} -> CatalogSources]
    BY DEF OpInv, OpTyped, Csv
  <2> HIDE DEF o
  <2>7. /\ csv' \in [{ThePackage} -> CSVs]
        /\ IF o = "csv" /\ Csv.v = Got.csv THEN Csv'.v = 0 ELSE Csv'.v = Csv.v
    <3>1. CASE o = "crds"
      <4>1. csv' = [csv EXCEPT ![ThePackage].crds = FALSE] BY <2>1, <3>1
      <4> QED BY <2>6, <3>1, <4>1 DEF Csv, CSVs
    <3>2. CASE o = "csv" /\ Csv.v = Got.csv
      <4>1. csv' = [csv EXCEPT ![ThePackage].v = 0, ![ThePackage].ok = FALSE] BY <2>1, <3>2
      <4> QED BY <2>6, <3>2, <4>1 DEF Csv, CSVs
    <3>3. CASE o # "crds" /\ ~(o = "csv" /\ Csv.v = Got.csv)
      <4>1. csv' = csv BY <2>1, <3>3
      <4> QED BY <2>6, <3>3, <4>1 DEF Csv
    <3> QED BY <3>1, <3>2, <3>3
  <2>8. /\ Cat' = IF o = "catalog" THEN Op!NoCat ELSE Cat
        /\ Op!NoCat = [there |-> FALSE, pod |-> 0, items |-> <<>>] /\ Op!NoCat \in CatalogSources
    <3>1. <<>> \in Seq(Nat) OBVIOUS
    <3>2. Op!NoCat = [there |-> FALSE, pod |-> 0, items |-> <<>>] BY DEF Op!NoCat
    <3>3. Op!NoCat \in CatalogSources BY <3>1, <3>2 DEF CatalogSources
    <3> QED BY <2>1, <2>6, <3>2, <3>3 DEF Cat
  <2>9. OpTyped'
    <3>1. cat' \in [{ThePackage} -> CatalogSources] BY <2>1, <2>6, <2>8
    <3> QED BY <1>1, <2>1, <2>4, <2>7, <3>1, OpGo DEF OpInv, OpTyped, Steps
  <2>10. CatalogInv'
    <3>1. CASE o = "catalog"
      BY <1>2, <2>2, <2>8, <3>1 DEF CatalogInv, Op!ValidItems
    <3>2. CASE o # "catalog"
      BY <2>2, <2>8, <3>2 DEF OpInv, CatalogInv, Op!ValidItems
    <3> QED BY <3>1, <3>2
  <2>11. PlanInv' /\ RunInv' /\ EndInv'
    BY <1>2, <2>2, <2>3 DEF PlanInv, RunInv, EndInv, Running, Upgrading
  <2>12. CleanupInv'
    <3>1. Csv'.v # 0 => /\ Got'.csv = Csv'.v /\ Got'.found
                        /\ \E k \in 1 .. Len(Got'.todo) : Got'.todo[k] = "csv"
      <4>1. SUFFICES ASSUME Csv'.v # 0
                     PROVE  /\ Got'.csv = Csv'.v /\ Got'.found
                            /\ \E k \in 1 .. Len(Got'.todo) : Got'.todo[k] = "csv"
        OBVIOUS
      <4>2. Csv'.v = Csv.v /\ ~(o = "csv" /\ Csv.v = Got.csv) BY <2>7, <4>1
      <4> QED BY <1>3, <1>4, <2>5, <4>1, <4>2
    <3>2. Cat'.there => \E k \in 1 .. Len(Got'.todo) : Got'.todo[k] = "catalog"
      BY <1>3, <1>4, <2>5, <2>8
    <3> QED BY <1>2, <1>4, <2>2, <2>3, <2>5, <3>1, <3>2 DEF CleanupInv
  <2> QED BY <2>5, <2>9, <2>10, <2>11, <2>12 DEF OpInv
<1> QED BY <1>5, <1>6

\* When the list is empty, CSV and catalog source are gone.
LEMMA OpListSubscriptions ==
  ASSUME OpInv, Op!ListSubscriptions(ThePackage) PROVE OpInv'
<1> USE DEF Op!ListSubscriptions
<1>1. /\ At = "delete" /\ Got.todo = <<>> /\ UNCHANGED <<cat, pods, ogs, sub, approved, csv, got>>
  BY DEF At, Got, Op!cluster
<1>2. /\ ~Sub.there /\ Sub.ref = 0 /\ Sub.installed = 0 /\ Plans = {}
  BY <1>1 DEF OpInv, CleanupInv, CatalogInv, PlanInv, Op!NoSub
<1>3. Csv.v = 0 /\ ~Cat.there
  <2>1. ~\E k \in 1 .. Len(Got.todo) : TRUE BY <1>1
  <2> QED BY <1>1, <2>1 DEF OpInv, CleanupInv
<1>4. Op!Go(ThePackage, "ungroup") BY <1>2 DEF Sub
<1>5. Cat' = Cat /\ Sub' = Sub /\ Csv' = Csv /\ Plans' = Plans /\ Got' = Got
  BY <1>1 DEF Cat, Sub, Csv, Plans, Got
<1>6. At' = "ungroup" /\ Result' = "none" /\ Cmd' = Cmd
  BY <1>4, OpGo DEF OpInv
<1>7. OpTyped' /\ ReadTyped'
  BY <1>1, <1>4, <1>5, OpGo DEF OpInv, OpTyped, ReadTyped, Steps
<1>8. CatalogInv'
  BY <1>5 DEF OpInv, CatalogInv, Op!ValidItems
<1>9. PlanInv' /\ RunInv' /\ CleanupInv' /\ EndInv'
  BY <1>2, <1>3, <1>5, <1>6 DEF PlanInv, RunInv, CleanupInv, EndInv, Running, Upgrading
<1> QED BY <1>7, <1>8, <1>9 DEF OpInv

\* The cleanup ends with the groups of operator-sdk.
LEMMA OpDeleteOperatorGroup ==
  ASSUME OpInv, Op!DeleteOperatorGroup(ThePackage) PROVE OpInv'
<1> USE DEF Op!DeleteOperatorGroup
<1>1. /\ At = "ungroup" /\ UNCHANGED <<cat, pods, sub, approved, csv, got, cmd>>
      /\ ogs' = {g \in ogs : ~g.sdk}
      /\ pc' = [pc EXCEPT ![ThePackage] = "idle"]
      /\ result' = [result EXCEPT ![ThePackage] = IF Got.any THEN "clean" ELSE "notFound"]
  BY DEF At, Got, Op!Stop, Op!End
<1>2. /\ ~Sub.there /\ Sub.installed = 0 /\ Plans = {} /\ ~Cat.there /\ Csv.v = 0
  BY <1>1 DEF OpInv, CleanupInv, CatalogInv, PlanInv, Op!NoSub
<1>3. /\ Cat' = Cat /\ Sub' = Sub /\ Csv' = Csv /\ Plans' = Plans /\ Got' = Got
      /\ At' = "idle" /\ Result' \in {"clean", "notFound"}
  BY <1>1 DEF Cat, Sub, Csv, Plans, Got, At, Result, OpInv, OpTyped
<1>4. IsFiniteSet(ogs')
  BY <1>1, FS_Subset DEF OpInv, OpTyped
<1>5. OpTyped' /\ ReadTyped'
  BY <1>1, <1>3, <1>4 DEF OpInv, OpTyped, ReadTyped, Steps
<1>6. CatalogInv'
  BY <1>3 DEF OpInv, CatalogInv, Op!ValidItems
<1>7. PlanInv' /\ RunInv' /\ CleanupInv' /\ EndInv'
  BY <1>1, <1>2, <1>3 DEF PlanInv, RunInv, CleanupInv, EndInv, Running, Upgrading
<1> QED BY <1>5, <1>6, <1>7 DEF OpInv

\* Nowhere but in waiting for the CSV has a command an approved plan.
LEMMA OpTimeOut ==
  ASSUME CommandInputs, OpInv, Op!TimeOut(ThePackage) PROVE OpInv'
<1>1. /\ At # "csv" /\ At # "delete" /\ UNCHANGED <<cat, pods, ogs, sub, approved, csv, cmd, got>>
      /\ Op!End(ThePackage, "timeout")
  BY DEF At, Op!TimeOut, Op!cluster, CommandInputs
<1>2. Plans = {} /\ Csv.v = Sub.installed
  BY <1>1 DEF OpInv, PlanInv, CleanupInv, CatalogInv, Op!NoSub
<1> QED BY <1>1, <1>2, OpEnded

\* OLM's next plan is of another version than the installed one.
LEMMA OpGeneratePlan ==
  ASSUME OpInv, Op!GeneratePlan(ThePackage) PROVE OpInv'
<1> USE DEF Op!GeneratePlan
<1>1. /\ Sub.there /\ Sub.ref = Sub.installed
      /\ UNCHANGED <<cat, pods, ogs, approved, csv, pc, cmd, got, result>>
  BY DEF Sub, Op!process
<1>2. PICK v \in Op!NextVersion(ThePackage) : sub' = [sub EXCEPT ![ThePackage].ref = v]
  OBVIOUS
<1>3. /\ Cat' = Cat /\ Csv' = Csv /\ Plans' = Plans /\ At' = At /\ Cmd' = Cmd /\ Got' = Got
      /\ Result' = Result
  BY <1>1 DEF Cat, Csv, Plans, At, Cmd, Got, Result
<1>4. Cat \in CatalogSources /\ Sub \in Subscriptions /\ Cat.items \in Seq(Nat)
  BY DEF Cat, Sub, OpInv, OpTyped, CatalogSources
<1>5. v \in Nat /\ \/ Sub.installed = 0
                   \/ \E j \in 1 .. Len(Cat.items) - 1 : Cat.items[j] = Sub.installed
  <2>1. CASE Sub.installed = 0
    <3>1. v = Sub.start BY <2>1 DEF Op!NextVersion, Sub
    <3> QED BY <1>4, <2>1, <3>1 DEF Subscriptions
  <2>2. CASE Sub.installed # 0
    <3>1. PICK j \in DOMAIN Cat.items :
            j < Len(Cat.items) /\ Cat.items[j] = Sub.installed /\ v = Cat.items[j + 1]
      BY <2>2 DEF Op!NextVersion, Sub, Cat
    <3>2. j \in 1 .. Len(Cat.items) - 1 /\ j + 1 \in 1 .. Len(Cat.items) BY <1>4, <3>1
    <3> QED BY <1>4, <3>1, <3>2
  <2> QED BY <2>1, <2>2
<1>6. Sub' = [Sub EXCEPT !.ref = v]
  BY <1>2 DEF Sub, OpInv, OpTyped
<1>7. /\ Sub'.there = Sub.there /\ Sub'.installed = Sub.installed /\ Sub'.ref = v
      /\ Sub' \in Subscriptions
  BY <1>4, <1>5, <1>6 DEF Subscriptions
<1>8. OpTyped' /\ ReadTyped'
  <2>1. sub' \in [{ThePackage} -> Subscriptions]
    BY <1>2, <1>6, <1>7 DEF OpInv, OpTyped, Sub
  <2> QED BY <1>1, <1>3, <2>1 DEF OpInv, OpTyped, ReadTyped
<1>9. CatalogInv'
  BY <1>1, <1>3, <1>5, <1>7 DEF OpInv, CatalogInv, Op!ValidItems
<1>10. PlanInv' /\ CleanupInv'
  BY <1>1, <1>3, <1>7 DEF OpInv, PlanInv, CleanupInv
<1>11. RunInv'
  <2>1. /\ Pod(Cmd.v)' = Pod(Cmd.v) /\ Pod(Got.pod)' = Pod(Got.pod)
        /\ GroupAsAsked => GroupAsAsked'
    BY <1>1, <1>3 DEF Pod, GroupAsAsked
  <2> HIDE DEF Op!GeneratePlan
  <2> QED BY <1>1, <1>3, <1>7, <2>1
          DEF OpInv, RunInv, Running, Upgrading, Op!ValidItems, Op!Validate, Op!CheckCompatibility
<1>12. EndInv'
  BY <1>1, <1>3, <1>7 DEF OpInv, EndInv, Pod, GroupAsAsked
<1> QED BY <1>8, <1>9, <1>10, <1>11, <1>12 DEF OpInv

\* OLM carries out the one plan approved, which the subscription refers to.
LEMMA OpInstallCSV ==
  ASSUME OpInv, Op!InstallCSV(ThePackage) PROVE OpInv'
<1>1. PICK v \in Plans :
        /\ approved' = [approved EXCEPT ![ThePackage] = @ \ {v}]
        /\ csv' = [csv EXCEPT ![ThePackage] = [v |-> v, ok |-> FALSE, crds |-> TRUE]]
        /\ sub' = [sub EXCEPT ![ThePackage].installed = IF Sub.there THEN v ELSE 0]
        /\ UNCHANGED <<cat, pods, ogs, pc, cmd, got, result>>
  BY DEF Plans, Sub, Op!InstallCSV, Op!process
<1>2. At = "csv" /\ Sub.there /\ v = Sub.ref /\ Plans = {v} /\ Result \notin {"installed", "clean"}
  BY <1>1 DEF OpInv, PlanInv, EndInv
<1>3. Cat' = Cat /\ At' = At /\ Cmd' = Cmd /\ Got' = Got /\ Result' = Result
  BY <1>1 DEF Cat, At, Cmd, Got, Result
<1>4. Sub \in Subscriptions /\ v \in Nat
  BY <1>2 DEF Sub, OpInv, OpTyped, Subscriptions
<1>5. /\ Plans' = {} /\ Csv' = [v |-> v, ok |-> FALSE, crds |-> TRUE]
      /\ Sub' = [Sub EXCEPT !.installed = v]
  BY <1>1, <1>2 DEF Plans, Csv, Sub, OpInv, OpTyped
<1>6. /\ Csv'.v = v /\ Sub'.there = Sub.there /\ Sub'.installed = v /\ Sub'.ref = v
      /\ Csv' \in CSVs /\ Sub' \in Subscriptions
  BY <1>2, <1>4, <1>5 DEF CSVs, Subscriptions
<1>7. OpTyped' /\ ReadTyped'
  <2>1. sub' \in [{ThePackage} -> Subscriptions] /\ csv' \in [{ThePackage} -> CSVs]
    BY <1>1, <1>2, <1>5, <1>6 DEF OpInv, OpTyped, Sub, Csv
  <2> QED BY <1>1, <1>3, <2>1 DEF OpInv, OpTyped, ReadTyped
<1>8. CatalogInv'
  BY <1>2, <1>3, <1>6 DEF OpInv, CatalogInv, Op!ValidItems
<1>9. PlanInv' /\ CleanupInv' /\ EndInv'
  BY <1>2, <1>3, <1>5, <1>6 DEF PlanInv, CleanupInv, EndInv
<1>10. RunInv'
  <2>1. /\ Pod(Cmd.v)' = Pod(Cmd.v) /\ Pod(Got.pod)' = Pod(Got.pod)
        /\ GroupAsAsked => GroupAsAsked'
    BY <1>1, <1>3 DEF Pod, GroupAsAsked
  <2> QED BY <1>1, <1>2, <1>3, <1>6, <2>1 DEF OpInv, RunInv, Running, Upgrading
<1> QED BY <1>7, <1>8, <1>9, <1>10 DEF OpInv

\* The success of a CSV changes nothing else.
LEMMA OpSucceedCSV ==
  ASSUME OpInv, Op!SucceedCSV(ThePackage) PROVE OpInv'
<1>1. /\ csv' = [csv EXCEPT ![ThePackage].ok = TRUE]
      /\ UNCHANGED <<cat, pods, ogs, sub, approved, pc, cmd, got, result>>
  BY DEF Op!SucceedCSV, Op!process
<1>2. /\ Cat' = Cat /\ Sub' = Sub /\ Plans' = Plans /\ At' = At /\ Cmd' = Cmd /\ Got' = Got
      /\ Result' = Result
  BY <1>1 DEF Cat, Sub, Plans, At, Cmd, Got, Result
<1>3. Csv'.v = Csv.v /\ csv' \in [{ThePackage} -> CSVs]
  BY <1>1 DEF Csv, OpInv, OpTyped, CSVs
<1>4. OpTyped' /\ ReadTyped'
  BY <1>1, <1>2, <1>3 DEF OpInv, OpTyped, ReadTyped
<1>5. CatalogInv'
  BY <1>2 DEF OpInv, CatalogInv, Op!ValidItems
<1>6. PlanInv' /\ CleanupInv'
  BY <1>2, <1>3 DEF OpInv, PlanInv, CleanupInv
<1>7. RunInv' /\ EndInv'
  <2>1. /\ Pod(Cmd.v)' = Pod(Cmd.v) /\ Pod(Got.pod)' = Pod(Got.pod)
        /\ GroupAsAsked => GroupAsAsked'
    BY <1>1, <1>2 DEF Pod, GroupAsAsked
  <2>2. RunInv'
    BY <1>1, <1>2, <2>1
       DEF OpInv, RunInv, Running, Upgrading, Op!ValidItems, Op!Validate, Op!CheckCompatibility
  <2>3. EndInv'
    BY <1>1, <1>2, <1>3, <2>1 DEF OpInv, EndInv
  <2> QED BY <2>2, <2>3
<1> QED BY <1>4, <1>5, <1>6, <1>7 DEF OpInv

\* The collector takes no pod that a catalog source still owns.
LEMMA OpCollect ==
  ASSUME OpInv, Op!Collect(ThePackage) PROVE OpInv'
<1>1. /\ pods' = {x \in pods : x[1] = ThePackage => Cat.there}
      /\ approved' = [approved EXCEPT ![ThePackage] = IF Sub.there THEN @ ELSE {}]
      /\ UNCHANGED <<cat, ogs, sub, csv, pc, cmd, got, result>>
  BY DEF Op!Collect, Op!process, Cat, Sub
<1>2. /\ Cat' = Cat /\ Sub' = Sub /\ Csv' = Csv /\ At' = At /\ Cmd' = Cmd /\ Got' = Got
      /\ Result' = Result /\ Plans' \in {Plans, {}}
  BY <1>1 DEF Cat, Sub, Csv, Plans, At, Cmd, Got, Result, OpInv, OpTyped
<1>3. \A v : /\ Pod(v) \in pods' => Pod(v) \in pods
             /\ Pod(v) \in pods /\ Cat.there => Pod(v) \in pods'
  BY <1>1 DEF Pod
<1>4. OpTyped' /\ ReadTyped'
  BY <1>1, <1>2 DEF OpInv, OpTyped, ReadTyped
<1>5. CatalogInv'
  BY <1>2 DEF OpInv, CatalogInv, Op!ValidItems
<1>6. PlanInv' /\ CleanupInv'
  BY <1>2 DEF OpInv, PlanInv, CleanupInv
<1>7. RunInv' /\ EndInv'
  <2>1. /\ Pod(Cmd.v)' = Pod(Cmd.v) /\ Pod(Got.pod)' = Pod(Got.pod)
        /\ GroupAsAsked => GroupAsAsked'
    BY <1>1, <1>2 DEF Pod, GroupAsAsked
  <2>2. Cat.items # <<>> \/ Cat.pod # 0 => Cat.there
    BY DEF OpInv, CatalogInv, Op!NoCat
  <2>3. At \in {"annotate", "oldpod", "groups", "ensure", "subscribe", "plan", "approve", "csv"} =>
          Cat.there
    BY <2>2 DEF OpInv, RunInv, CatalogInv, Running, Upgrading
  <2>4. RunInv'
    BY <1>1, <1>2, <1>3, <2>1, <2>3
       DEF OpInv, RunInv, Running, Upgrading, Op!ValidItems, Op!Validate, Op!CheckCompatibility
  <2>5. EndInv'
    BY <1>1, <1>2, <1>3, <2>1, <2>2 DEF OpInv, EndInv
  <2> QED BY <2>4, <2>5
<1> QED BY <1>4, <1>5, <1>6, <1>7 DEF OpInv

\* Every step of the commands, of OLM and of the collector preserves OpInv.
LEMMA OpNext ==
  ASSUME CommandInputs, OpInv, [Op!Next]_(Op!vars) PROVE OpInv'
<1>1. CASE UNCHANGED Op!vars
  <2>1. UNCHANGED <<cat, pods, ogs, sub, approved, csv, pc, cmd, got, result>>
    BY <1>1 DEF Op!vars, Op!cluster, Op!process
  <2>2. /\ Cat' = Cat /\ Sub' = Sub /\ Csv' = Csv /\ At' = At /\ Cmd' = Cmd /\ Got' = Got
        /\ Result' = Result /\ Plans' = Plans
    BY <2>1 DEF Cat, Sub, Csv, Plans, At, Cmd, Got, Result
  <2>3. OpTyped' /\ ReadTyped'
    BY <2>1, <2>2 DEF OpInv, OpTyped, ReadTyped
  <2>4. CatalogInv' /\ PlanInv' /\ CleanupInv'
    BY <2>2 DEF OpInv, CatalogInv, PlanInv, CleanupInv, Op!ValidItems
  <2>5. /\ Pod(Cmd.v)' = Pod(Cmd.v) /\ Pod(Got.pod)' = Pod(Got.pod)
        /\ GroupAsAsked => GroupAsAsked'
    BY <2>1, <2>2 DEF Pod, GroupAsAsked
  <2>6. RunInv'
    BY <2>1, <2>2, <2>5
       DEF OpInv, RunInv, Running, Upgrading, Op!ValidItems, Op!Validate, Op!CheckCompatibility
  <2>7. EndInv'
    BY <2>1, <2>2, <2>5 DEF OpInv, EndInv
  <2> QED BY <2>3, <2>4, <2>6, <2>7 DEF OpInv
<1>2. CASE Op!Next
  <2>1. \/ \E v \in Versions, m \in Modes \cup {Op!NoMode} : Op!RunBundle(ThePackage, v, m)
        \/ \E v \in Versions : Op!UpgradeOperator(ThePackage, v)
        \/ \E d \in BOOLEAN : Op!Uninstall(ThePackage, d)
        \/ Op!Command(ThePackage) \/ Op!TimeOut(ThePackage) \/ Op!OLM(ThePackage)
    BY <1>2 DEF Op!Next
  <2>2. CASE Op!Command(ThePackage)
    BY <2>2, OpCreateCatalog, OpCreateRegistryPod, OpUpdateCatalogSourceFields,
      OpGetOperatorGroup,
       OpEnsureOperatorGroup, OpCreateSubscription, OpWaitForInstallPlan, OpApproveInstallPlan,
       OpGetInstalledCSV, OpDeleteRegistryPod, OpDeleteSubscription, OpDeleteObjects,
       OpListSubscriptions, OpDeleteOperatorGroup
       DEF Op!Command
  <2>3. CASE Op!OLM(ThePackage)
    BY <2>3, OpGeneratePlan, OpInstallCSV, OpSucceedCSV, OpCollect DEF Op!OLM
  <2> QED BY <2>1, <2>2, <2>3, OpRunBundle, OpUpgradeOperator, OpUninstall, OpTimeOut
<1> QED BY <1>1, <1>2

\* For every set of versions, of install modes and of groups that users have
\* made, and however often commands are cut off before they wait for the CSV: a
\* run or an upgrade that reports success has its CSV installed, served by the
\* pod the catalog source names, with no older pod left and the group that the
\* install mode asks for.
THEOREM SuccessIsServed ==
  ASSUME CommandInputs PROVE Op!Spec => []SuccessServed
<1>1. Op!Init => OpInv BY OpInit
<1>2. OpInv /\ [Op!Next]_(Op!vars) => OpInv' BY OpNext
<1>3. OpInv => SuccessServed BY OpInvGivesProperties DEF SuccessServed
<1> QED BY <1>1, <1>2, <1>3, PTL DEF Op!Spec

\* Likewise, a cleanup that reports success leaves neither subscription, CSV nor
\* catalog source, and no operator group of operator-sdk.
THEOREM CleanupLeavesNothing ==
  ASSUME CommandInputs PROVE Op!Spec => []CleanupComplete
<1>1. Op!Init => OpInv BY OpInit
<1>2. OpInv /\ [Op!Next]_(Op!vars) => OpInv' BY OpNext
<1>3. OpInv => CleanupComplete BY OpInvGivesProperties DEF CleanupComplete
<1> QED BY <1>1, <1>2, <1>3, PTL DEF Op!Spec

-----------------------------------------------------------------------------
(* Induction. *)

\* A set of natural numbers has a least one.
LEMMA LeastNumber ==
  ASSUME NEW S, S \subseteq Nat, S # {}
  PROVE  \E v \in S : \A w \in S : v <= w
<1>1. PICK x \in S : TRUE
  OBVIOUS
<1> DEFINE R == OpToRel(<, Nat)
<1>2. PICK v \in S : \A w \in S : ~ (<<w, v>> \in R)
  BY <1>1, NatLessThanWellFounded, WFMin
<1>3. \A w \in S : ~ (w < v)
  BY <1>2 DEF OpToRel
<1> QED BY <1>3

\* Induction over the natural numbers, for a set.
LEMMA SetInduction ==
  ASSUME NEW S, 0 \in S, \A k \in Nat : k \in S => k + 1 \in S
  PROVE  Nat \subseteq S
<1> DEFINE B == Nat \ S
<1> SUFFICES ASSUME B # {} PROVE FALSE
  OBVIOUS
<1>1. B \subseteq Nat
  OBVIOUS
<1>2. PICK v \in B : \A w \in B : v <= w
  <2> HIDE DEF B
  <2> QED BY <1>1, LeastNumber
<1>3. v \in Nat /\ v \notin S /\ v # 0
  BY <1>2
<1>4. v - 1 \in Nat /\ ~(v <= v - 1) /\ (v - 1) + 1 = v
  BY <1>3
<1>5. v - 1 \in S
  BY <1>2, <1>4
<1> QED BY <1>3, <1>4, <1>5

-----------------------------------------------------------------------------
(* The ConfigMaps and pods of run bundle. *)

\* The function FlattenSeq defines for the first k sequences.
FlattensTo(s, k, f) ==
  f = [i \in 1 .. k |-> IF i = 1 THEN s[i] ELSE f[i - 1] \o s[i]]

LEMMA FlattenExists ==
  ASSUME NEW s, NEW k \in Nat
  PROVE  \E f : FlattensTo(s, k, f)
<1> DEFINE S == {j \in Nat : \E f : FlattensTo(s, j, f)}
<1>1. 0 \in S
  <2> DEFINE f == [i \in 1 .. 0 |-> IF i = 1 THEN s[i] ELSE i]
  <2>1. FlattensTo(s, 0, f)
    BY DEF FlattensTo
  <2> QED BY <2>1
<1>2. ASSUME NEW j \in Nat, j \in S PROVE j + 1 \in S
  <2>1. PICK g : FlattensTo(s, j, g)
    BY <1>2
  <2> DEFINE f == [i \in 1 .. j + 1 |->
                     IF i = j + 1 THEN (IF i = 1 THEN s[i] ELSE g[j] \o s[i]) ELSE g[i]]
  <2>2. ASSUME NEW i \in 1 .. j + 1
        PROVE  f[i] = IF i = 1 THEN s[i] ELSE f[i - 1] \o s[i]
    <3>1. CASE i = j + 1
      <4>1. i # 1 => i - 1 \in 1 .. j + 1 /\ i - 1 # j + 1 /\ i - 1 = j
        BY <3>1
      <4>2. i # 1 => f[i - 1] = g[j]
        BY <4>1
      <4>3. f[i] = IF i = 1 THEN s[i] ELSE g[j] \o s[i]
        BY <3>1
      <4> QED BY <4>2, <4>3
    <3>2. CASE i # j + 1
      <4>1. i \in 1 .. j /\ (i # 1 => i - 1 \in 1 .. j + 1 /\ i - 1 # j + 1)
        BY <3>2
      <4>2. g[i] = IF i = 1 THEN s[i] ELSE g[i - 1] \o s[i]
        BY <4>1, <2>1 DEF FlattensTo
      <4>3. f[i] = g[i]
        BY <3>2
      <4>4. i # 1 => f[i - 1] = g[i - 1]
        BY <4>1
      <4> QED BY <4>2, <4>3, <4>4
    <3> QED BY <3>1, <3>2
  <2>3. FlattensTo(s, j + 1, f)
    BY <2>2 DEF FlattensTo
  <2> QED BY <2>3
<1>3. Nat \subseteq S
  <2> HIDE DEF S
  <2> QED BY <1>1, <1>2, SetInduction
<1> QED BY <1>3

LEMMA FlattenTyped ==
  ASSUME NEW D, NEW s \in Seq(Seq(D)), NEW f, FlattensTo(s, Len(s), f)
  PROVE  \A i \in 1 .. Len(s) : f[i] \in Seq(D)
<1> DEFINE S == {j \in Nat : j + 1 \in 1 .. Len(s) => f[j + 1] \in Seq(D)}
<1>0. \A i \in 1 .. Len(s) : s[i] \in Seq(D)
  OBVIOUS
<1>1. 0 \in S
  <2>1. 1 \in 1 .. Len(s) => f[1] = s[1]
    BY DEF FlattensTo
  <2>2. 0 + 1 = 1
    OBVIOUS
  <2> QED BY <2>1, <2>2, <1>0
<1>2. ASSUME NEW j \in Nat, j \in S PROVE j + 1 \in S
  <2> SUFFICES ASSUME j + 2 \in 1 .. Len(s) PROVE f[j + 2] \in Seq(D)
    <3>1. (j + 1) + 1 = j + 2
      OBVIOUS
    <3> QED BY <3>1
  <2>1. j + 1 \in 1 .. Len(s) /\ j + 2 # 1 /\ (j + 2) - 1 = j + 1
    OBVIOUS
  <2>2. f[j + 2] = f[j + 1] \o s[j + 2]
    BY <2>1 DEF FlattensTo
  <2>3. f[j + 1] \in Seq(D) /\ s[j + 2] \in Seq(D)
    BY <2>1, <1>2, <1>0
  <2> QED BY <2>2, <2>3
<1>3. Nat \subseteq S
  <2> HIDE DEF S
  <2> QED BY <1>1, <1>2, SetInduction
<1>4. ASSUME NEW i \in 1 .. Len(s) PROVE f[i] \in Seq(D)
  <2>1. i - 1 \in Nat /\ (i - 1) + 1 = i
    OBVIOUS
  <2> QED BY <2>1, <1>3
<1> QED BY <1>4

LEMMA FlattenAgree ==
  ASSUME NEW k \in Nat, NEW m \in Nat, k <= m, NEW s, NEW t, \A i \in 1 .. k : s[i] = t[i],
         NEW f, FlattensTo(s, k, f), NEW g, FlattensTo(t, m, g)
  PROVE  \A i \in 1 .. k : f[i] = g[i]
<1> DEFINE S == {j \in Nat : j + 1 \in 1 .. k => f[j + 1] = g[j + 1]}
<1>1. 0 \in S
  <2>1. 1 \in 1 .. k => f[1] = s[1] /\ g[1] = t[1]
    BY DEF FlattensTo
  <2>2. 0 + 1 = 1
    OBVIOUS
  <2> QED BY <2>1, <2>2
<1>2. ASSUME NEW j \in Nat, j \in S PROVE j + 1 \in S
  <2> SUFFICES ASSUME j + 2 \in 1 .. k PROVE f[j + 2] = g[j + 2]
    <3>1. (j + 1) + 1 = j + 2
      OBVIOUS
    <3> QED BY <3>1
  <2>1. j + 1 \in 1 .. k /\ j + 2 # 1 /\ (j + 2) - 1 = j + 1 /\ j + 2 \in 1 .. m
    OBVIOUS
  <2>2. f[j + 2] = f[j + 1] \o s[j + 2]
    BY <2>1 DEF FlattensTo
  <2>3. g[j + 2] = g[j + 1] \o t[j + 2]
    BY <2>1 DEF FlattensTo
  <2>4. f[j + 1] = g[j + 1]
    BY <2>1, <1>2
  <2> QED BY <2>2, <2>3, <2>4
<1>3. Nat \subseteq S
  <2> HIDE DEF S
  <2> QED BY <1>1, <1>2, SetInduction
<1>4. ASSUME NEW i \in 1 .. k PROVE f[i] = g[i]
  <2>1. i - 1 \in Nat /\ (i - 1) + 1 = i
    OBVIOUS
  <2> QED BY <2>1, <1>3
<1> QED BY <1>4

LEMMA FlattenIs ==
  ASSUME NEW D, NEW s \in Seq(Seq(D)), s # <<>>
  PROVE  \E f : FlattensTo(s, Len(s), f) /\ Pods!FlattenSeq(s) = f[Len(s)]
<1>1. Len(s) \in Nat /\ Len(s) # 0
  OBVIOUS
<1>2. PICK g : FlattensTo(s, Len(s), g)
  BY <1>1, FlattenExists
<1> DEFINE f == CHOOSE h : FlattensTo(s, Len(s), h)
<1>3. FlattensTo(s, Len(s), f)
  BY <1>2
<1>4. Pods!FlattenSeq(s) = f[Len(s)]
  BY <1>1 DEF Pods!FlattenSeq, FlattensTo
<1> QED BY <1>3, <1>4

\* Flattening, one sequence after the other.
LEMMA FlattenAppend ==
  ASSUME NEW D, NEW s \in Seq(Seq(D)), NEW x \in Seq(D)
  PROVE  /\ Pods!FlattenSeq(s) \in Seq(D)
         /\ Pods!FlattenSeq(Append(s, x)) = Pods!FlattenSeq(s) \o x
<1> DEFINE t == Append(s, x)
           k == Len(s)
<1>0. /\ t \in Seq(Seq(D)) /\ Len(t) = k + 1 /\ t # <<>> /\ k \in Nat
      /\ t[k + 1] = x /\ \A i \in 1 .. k : s[i] = t[i]
  BY AppendProperties
<1>1. PICK g : FlattensTo(t, k + 1, g) /\ Pods!FlattenSeq(t) = g[k + 1]
  <2> HIDE DEF t
  <2> QED BY <1>0, FlattenIs
<1>2. CASE s = <<>>
  <2>1. Pods!FlattenSeq(s) = <<>>
    BY <1>2 DEF Pods!FlattenSeq
  <2>2. k = 0 /\ k + 1 = 1
    BY <1>2
  <2>3. g[1] = t[1]
    BY <1>1, <2>2 DEF FlattensTo
  <2>4. g[1] = x
    BY <2>3, <2>2, <1>0
  <2>5. <<>> \o x = x
    OBVIOUS
  <2> QED BY <1>1, <2>1, <2>2, <2>4, <2>5
<1>3. CASE s # <<>>
  <2>1. PICK f : FlattensTo(s, k, f) /\ Pods!FlattenSeq(s) = f[k]
    BY <1>3, FlattenIs
  <2>2. k \in 1 .. k /\ k + 1 \in 1 .. k + 1 /\ k + 1 # 1 /\ (k + 1) - 1 = k /\ k <= k + 1 /\ k + 1 \in Nat
    BY <1>3, <1>0
  <2>3. f[k] = g[k]
    <3>1. \A i \in 1 .. k : s[i] = t[i]
      BY <1>0
    <3>2. k \in Nat /\ k + 1 \in Nat /\ k <= k + 1
      BY <1>0
    <3> HIDE DEF t, k
    <3>3. \A i \in 1 .. k : f[i] = g[i]
      BY <3>1, <3>2, <1>1, <2>1, FlattenAgree
    <3> QED BY <3>3, <2>2
  <2>4. g[k + 1] = g[k] \o t[k + 1]
    <3> HIDE DEF t, k
    <3> QED BY <1>1, <2>2 DEF FlattensTo
  <2>5. f[k] \in Seq(D)
    BY <2>1, <2>2, FlattenTyped
  <2> QED BY <1>0, <1>1, <2>1, <2>3, <2>4, <2>5
<1> QED BY <1>2, <1>3

PodStates == [phase : {"none", "pending", "running"}, mounts : Nat,
              content : Seq(Documents) \cup Seq(BundleImages), serving : BOOLEAN]

PodsTyped ==
  /\ podRun \in 0 .. Len(Catalogs) /\ stored \in Nat
  /\ podPc \in {"idle", "partition", "store", "pod", "running"}
  /\ podPc # "idle" => podRun \in DOMAIN Catalogs
  /\ docs \in Seq(Documents) /\ buffer \in Seq(Documents)
  /\ written \in Seq(Seq(Documents)) /\ store \in Seq(Seq(Documents))
  /\ regPods \in [DOMAIN Catalogs -> PodStates] /\ podsSeen \subseteq DOMAIN Catalogs
  /\ \A i \in DOMAIN Catalogs :
       /\ regPods[i].mounts <= Len(store)
       /\ ~Catalogs[i].fbc => /\ regPods[i].content \in Seq(BundleImages)
                              /\ Len(regPods[i].content) <= Len(Catalogs[i].bundles)

\* The catalog's documents are those of the ConfigMaps, of the buffer and those
\* not yet written; the ConfigMaps of the cluster are this command's as far as
\* it has stored them, whatever comes after them.
Wanted == Catalogs[podRun].docs

SplitInv ==
  /\ podPc \in {"partition", "store"} => Catalogs[podRun].fbc
  /\ podPc = "partition" => /\ (Pods!FlattenSeq(written) \o buffer) \o docs = Wanted
                            /\ stored = 0
  /\ podPc = "store" => /\ Pods!FlattenSeq(written) = Wanted
                        /\ stored <= Len(written) /\ stored <= Len(store)
                        /\ \A i \in 1 .. stored : store[i] = written[i]
  /\ podPc \in {"pod", "running"} /\ Catalogs[podRun].fbc =>
       /\ Pods!FlattenSeq(written) = Wanted
       /\ Len(written) <= Len(store) /\ SubSeq(store, 1, Len(written)) = written

\* A pod is only there once its command has created it, and then mounts what the
\* command has stored.
ServeInv ==
  /\ \A i \in DOMAIN Catalogs : i > podRun => regPods[i].phase = "none"
  /\ podPc \in {"partition", "store", "pod"} => regPods[podRun].phase = "none"
  /\ podPc = "running" /\ Catalogs[podRun].fbc =>
       /\ regPods[podRun].phase = "pending" => regPods[podRun].mounts = Len(written)
       /\ regPods[podRun].phase = "running" => regPods[podRun].content = Wanted

\* What a pod adds by itself are its bundles in their order; a pod that was seen
\* running has kept the documents it was made for.
ContentInv ==
  \A i \in DOMAIN Catalogs :
    /\ ~Catalogs[i].fbc =>
         /\ \A j \in 1 .. Len(regPods[i].content) : regPods[i].content[j] = Catalogs[i].bundles[j]
         /\ regPods[i].serving => Len(regPods[i].content) = Len(Catalogs[i].bundles)
    /\ i \in podsSeen => /\ regPods[i].phase = "running"
                         /\ Catalogs[i].fbc => regPods[i].content = Catalogs[i].docs

PodInv == PodsTyped /\ SplitInv /\ ServeInv /\ ContentInv

LEMMA PodStart ==
  ASSUME CatalogInputs, Pods!Init
  PROVE  PodInv
<1>0. /\ podRun = 0 /\ podPc = "idle" /\ docs = <<>> /\ written = <<>> /\ buffer = <<>> /\ stored = 0
      /\ store = <<>> /\ podsSeen = {} /\ regPods = [i \in DOMAIN Catalogs |-> Pods!NoPod]
  BY DEF Pods!Init, Pods!Empty, Pods!Commands
<1>1. PodsTyped
  <2>1. <<>> \in Seq(Documents) /\ <<>> \in Seq(BundleImages) /\ <<>> \in Seq(Seq(Documents))
    OBVIOUS
  <2>2. Pods!NoPod \in PodStates
    BY <2>1 DEF Pods!NoPod, PodStates
  <2>3. 0 \in 0 .. Len(Catalogs) /\ \A i \in DOMAIN Catalogs : Len(Catalogs[i].bundles) \in Nat
    BY DEF CatalogInputs
  <2>4. \A i \in DOMAIN Catalogs :
          /\ regPods[i].mounts <= Len(store)
          /\ regPods[i].content \in Seq(BundleImages)
          /\ Len(regPods[i].content) <= Len(Catalogs[i].bundles)
    <3> SUFFICES ASSUME NEW i \in DOMAIN Catalogs
                 PROVE  /\ regPods[i].mounts <= Len(store)
                        /\ regPods[i].content \in Seq(BundleImages)
                        /\ Len(regPods[i].content) <= Len(Catalogs[i].bundles)
      OBVIOUS
    <3>1. regPods[i].mounts = 0 /\ regPods[i].content = <<>>
      BY <1>0 DEF Pods!NoPod
    <3>2. Len(store) = 0 /\ Catalogs[i].bundles \in Seq(BundleImages)
      BY <1>0 DEF CatalogInputs
    <3> QED BY <3>1, <3>2, <2>1, <2>3
  <2> QED BY <1>0, <2>1, <2>2, <2>3, <2>4 DEF PodsTyped
<1>2. SplitInv
  BY <1>0 DEF SplitInv
<1>3. ServeInv
  BY <1>0 DEF ServeInv, Pods!NoPod
<1>4. ContentInv
  BY <1>0 DEF ContentInv, Pods!NoPod
<1> QED BY <1>1, <1>2, <1>3, <1>4 DEF PodInv

\* A step of the command that touches neither pods nor what was seen of them.
LEMMA PodsKept ==
  ASSUME PodInv, UNCHANGED <<regPods, podsSeen>>
  PROVE  ContentInv'
BY DEF PodInv, ContentInv

LEMMA PodCreate ==
  ASSUME CatalogInputs, PodInv, Pods!Create
  PROVE  PodInv'
<1>1. podRun \in 0 .. Len(Catalogs) /\ podRun < Len(Catalogs) /\ podRun' = podRun + 1
  BY DEF PodInv, PodsTyped, Pods!Create
<1>2. podRun' \in DOMAIN Catalogs /\ podRun' \in 0 .. Len(Catalogs) /\ podRun' > podRun
  BY <1>1 DEF CatalogInputs
<1>3. PodsTyped'
  <2>1. Catalogs[podRun'].docs \in Seq(Documents)
    BY <1>2 DEF CatalogInputs
  <2>2. docs' \in Seq(Documents) /\ podPc' \in {"partition", "pod"}
    <3>1. docs' = Catalogs[podRun'].docs \/ docs' = <<>>
      BY DEF Pods!Create
    <3>2. podPc' \in {"partition", "pod"}
      BY DEF Pods!Create
    <3>3. <<>> \in Seq(Documents)
      OBVIOUS
    <3>4. docs' \in Seq(Documents)
      BY ONLY <3>1, <3>3, <2>1
    <3> QED BY <3>2, <3>4
  <2>3. /\ written' = <<>> /\ buffer' = <<>> /\ stored' = 0
        /\ UNCHANGED <<store, regPods, podsSeen>>
    BY DEF Pods!Create
  <2>4. <<>> \in Seq(Documents) /\ <<>> \in Seq(Seq(Documents)) /\ 0 \in Nat
    OBVIOUS
  <2> QED BY <1>2, <2>2, <2>3, <2>4 DEF PodInv, PodsTyped
<1>4. ContentInv'
  BY PodsKept DEF Pods!Create
<1>5. SplitInv'
  <2>1. Catalogs[podRun'].fbc \in BOOLEAN /\ Catalogs[podRun'].docs \in Seq(Documents)
    BY <1>2 DEF CatalogInputs
  <2>2. Pods!FlattenSeq(<<>>) = <<>>
    BY DEF Pods!FlattenSeq
  <2>3. podPc' = "partition" => written' = <<>> /\ buffer' = <<>> /\ docs' = Wanted' /\ Catalogs[podRun'].fbc
    BY DEF Pods!Create, Wanted
  <2>4. (<<>> \o <<>>) \o Wanted' = Wanted'
    BY <2>1 DEF Wanted
  <2>5. podPc' \in {"partition", "pod"} /\ (podPc' = "pod" => ~Catalogs[podRun'].fbc)
    BY <2>1 DEF Pods!Create
  <2>6. podPc' = "partition" => (Pods!FlattenSeq(written') \o buffer') \o docs' = Wanted'
    BY <2>2, <2>3, <2>4
  <2> QED BY <2>3, <2>5, <2>6 DEF SplitInv, Pods!Create
<1>6. ServeInv'
  <2>1. regPods' = regPods /\ podPc' \in {"partition", "pod"}
    BY DEF Pods!Create
  <2>2. \A i \in DOMAIN Catalogs : i > podRun => regPods[i].phase = "none"
    BY DEF PodInv, ServeInv
  <2>3. \A i \in DOMAIN Catalogs : i > podRun' => i > podRun
    BY <1>1 DEF CatalogInputs
  <2> QED BY <2>1, <2>2, <2>3, <1>2 DEF ServeInv
<1> QED BY <1>3, <1>4, <1>5, <1>6 DEF PodInv

\* A step that leaves a command's pod alone.
LEMMA PodAlone ==
  ASSUME PodInv, UNCHANGED <<podRun, regPods>>, podPc \in {"partition", "store"},
         podPc' \in {"partition", "store", "pod"}
  PROVE  ServeInv'
BY DEF PodInv, ServeInv

\* A document goes from those not yet written to the buffer, which may have been
\* made into a ConfigMap before.
LEMMA PodDocument ==
  ASSUME CatalogInputs, PodInv, Pods!FirstDocument \/ Pods!NextDocument
  PROVE  PodInv'
<1> DEFINE d == Head(docs)
<1>1. /\ docs \in Seq(Documents) /\ docs # <<>> /\ docs' = Tail(docs)
      /\ podPc' = podPc /\ podPc = "partition"
      /\ UNCHANGED <<podRun, stored, store, regPods, podsSeen>>
      /\ buffer \in Seq(Documents) /\ written \in Seq(Seq(Documents))
  BY DEF PodInv, PodsTyped, Pods!FirstDocument, Pods!NextDocument
<1>2. d \in Documents /\ Tail(docs) \in Seq(Documents) /\ docs = <<d>> \o Tail(docs)
  BY <1>1, HeadTailProperties
<1>3. \/ written' = Append(written, buffer) /\ buffer' = <<d>>
      \/ written' = written /\ buffer' = Append(buffer, d)
  BY DEF Pods!FirstDocument, Pods!NextDocument, Pods!AddData, Pods!NextCM
<1> HIDE DEF d
<1> DEFINE flat == Pods!FlattenSeq(written)
<1>5. /\ flat \in Seq(Documents) /\ Pods!FlattenSeq(Append(written, buffer)) = flat \o buffer
      /\ flat \o buffer \in Seq(Documents)
  <2>1. flat \in Seq(Documents) /\ Pods!FlattenSeq(Append(written, buffer)) = flat \o buffer
    BY <1>1, FlattenAppend
  <2> HIDE DEF flat
  <2> QED BY <2>1, <1>1, ConcatProperties
<1>6. (flat \o buffer) \o docs = Wanted /\ Catalogs[podRun].fbc /\ stored = 0
  BY <1>1 DEF PodInv, SplitInv
<1>7. <<d>> \in Seq(Documents)
  BY <1>2
<1> HIDE DEF flat
<1>8. ServeInv' /\ ContentInv'
  BY <1>1, PodAlone, PodsKept
<1>9. CASE written' = Append(written, buffer) /\ buffer' = <<d>>
  <2>1. written' \in Seq(Seq(Documents)) /\ buffer' \in Seq(Documents)
    BY <1>1, <1>7, <1>9, AppendProperties
  <2>2. PodsTyped'
    BY <2>1, <1>1, <1>2, <1>9 DEF PodInv, PodsTyped
  <2>3. SplitInv'
    <3>1. ((flat \o buffer) \o <<d>>) \o Tail(docs) = (flat \o buffer) \o docs
      BY <1>5, <1>7, <1>2, ConcatAssociative
    <3>2. (Pods!FlattenSeq(written') \o buffer') \o docs' = Wanted
      BY <3>1, <1>1, <1>5, <1>6, <1>9
    <3> QED BY <3>2, <1>1, <1>6 DEF SplitInv, Wanted, PodInv
  <2> QED BY <2>2, <2>3, <1>8 DEF PodInv
<1>10. CASE written' = written /\ buffer' = Append(buffer, d)
  <2>1. buffer' \in Seq(Documents) /\ buffer' = buffer \o <<d>>
    BY <1>1, <1>2, <1>10, AppendProperties, AppendIsConcat
  <2>2. PodsTyped'
    BY <2>1, <1>1, <1>2, <1>10 DEF PodInv, PodsTyped
  <2>3. SplitInv'
    <3>1. flat \o (buffer \o <<d>>) = (flat \o buffer) \o <<d>>
      BY <1>5, <1>7, <1>1, ConcatAssociative
    <3>2. ((flat \o buffer) \o <<d>>) \o Tail(docs) = (flat \o buffer) \o docs
      BY <1>5, <1>7, <1>2, ConcatAssociative
    <3>3. Pods!FlattenSeq(written') = flat
      BY <1>10 DEF flat
    <3>4. (Pods!FlattenSeq(written') \o buffer') \o docs' = Wanted
      BY <3>1, <3>2, <3>3, <2>1, <1>1, <1>6
    <3> QED BY <3>4, <1>1, <1>6 DEF SplitInv, Wanted, PodInv
  <2> QED BY <2>2, <2>3, <1>8 DEF PodInv
<1> QED BY <1>3, <1>9, <1>10

LEMMA PodWriteLastFragment ==
  ASSUME CatalogInputs, PodInv, Pods!WriteLastFragment
  PROVE  PodInv'
<1>1. /\ podPc = "partition" /\ docs = <<>> /\ written' = Append(written, buffer)
      /\ podPc' = "store"
      /\ UNCHANGED <<podRun, docs, buffer, stored, store, regPods, podsSeen>>
      /\ buffer \in Seq(Documents) /\ written \in Seq(Seq(Documents))
  BY DEF PodInv, PodsTyped, Pods!WriteLastFragment
<1>2. PodsTyped'
  <2>1. written' \in Seq(Seq(Documents))
    BY <1>1, AppendProperties
  <2> QED BY <2>1, <1>1 DEF PodInv, PodsTyped
<1>3. SplitInv'
  <2>1. Pods!FlattenSeq(written) \in Seq(Documents) /\ Pods!FlattenSeq(written') = Pods!FlattenSeq(written) \o buffer
    BY <1>1, FlattenAppend
  <2>2. (Pods!FlattenSeq(written) \o buffer) \o <<>> = Wanted /\ Catalogs[podRun].fbc
    BY <1>1 DEF PodInv, SplitInv
  <2>3. Pods!FlattenSeq(written') = Wanted
    <3>1. Pods!FlattenSeq(written) \o buffer \in Seq(Documents)
      BY <2>1, <1>1, ConcatProperties
    <3>2. (Pods!FlattenSeq(written) \o buffer) \o <<>> = Pods!FlattenSeq(written) \o buffer
      BY <3>1, ConcatEmptySeq
    <3> QED BY <3>2, <2>1, <2>2
  <2>4. stored = 0
    BY <1>1 DEF PodInv, SplitInv
  <2> QED BY <2>2, <2>3, <2>4, <1>1 DEF SplitInv, Wanted, PodInv, PodsTyped
<1>4. ServeInv' /\ ContentInv'
  BY <1>1, PodAlone, PodsKept
<1> QED BY <1>2, <1>3, <1>4 DEF PodInv

LEMMA PodStoreConfigMap ==
  ASSUME CatalogInputs, PodInv, Pods!CreateOrUpdateConfigMap
  PROVE  PodInv'
<1>1. /\ podPc = "store" /\ stored < Len(written) /\ stored' = stored + 1 /\ stored \in Nat
      /\ UNCHANGED <<podRun, podPc, docs, written, buffer, regPods, podsSeen>>
      /\ written \in Seq(Seq(Documents)) /\ store \in Seq(Seq(Documents))
      /\ stored <= Len(store) /\ \A i \in 1 .. stored : store[i] = written[i]
  BY DEF PodInv, PodsTyped, SplitInv, Pods!CreateOrUpdateConfigMap, Pods!writer
<1>2. /\ stored' \in DOMAIN store => store' = [store EXCEPT ![stored'] = written[stored']]
      /\ stored' \notin DOMAIN store => store' = Append(store, written[stored'])
  BY DEF Pods!CreateOrUpdateConfigMap
<1>3. stored' \in 1 .. Len(written) /\ written[stored'] \in Seq(Documents)
  BY <1>1
<1>4. /\ store' \in Seq(Seq(Documents)) /\ stored' <= Len(store') /\ Len(store) <= Len(store')
      /\ \A i \in 1 .. stored' : store'[i] = written[i]
  <2>1. CASE stored' \in DOMAIN store
    <3> DEFINE x == [store EXCEPT ![stored'] = written[stored']]
    <3>0. store' = x /\ stored' \in 1 .. Len(store)
      BY <2>1, <1>1, <1>2
    <3>1. /\ x \in Seq(Seq(Documents)) /\ Len(x) = Len(store)
          /\ \A j \in 1 .. Len(store) : x[j] = IF j = stored' THEN written[stored'] ELSE store[j]
      <4>1. \A i \in 1 .. Len(store), e \in Seq(Documents) :
              /\ [store EXCEPT ![i] = e] \in Seq(Seq(Documents))
              /\ Len([store EXCEPT ![i] = e]) = Len(store)
              /\ \A j \in 1 .. Len(store) : [store EXCEPT ![i] = e][j] = IF j = i THEN e ELSE store[j]
        BY <1>1, ExceptSeq
      <4> QED BY ONLY <4>1, <3>0, <1>3
    <3> HIDE DEF x
    <3>2. stored' <= Len(store') /\ Len(store) <= Len(store')
      BY <3>0, <3>1, <1>1
    <3>3. ASSUME NEW i \in 1 .. stored' PROVE store'[i] = written[i]
      <4>1. i \in 1 .. Len(store) /\ (i # stored' => i \in 1 .. stored)
        BY <3>0, <1>1
      <4> QED BY <3>0, <3>1, <4>1, <1>1
    <3> QED BY <3>0, <3>1, <3>2, <3>3
  <2>2. CASE stored' \notin DOMAIN store
    <3> DEFINE x == Append(store, written[stored'])
    <3>0. store' = x
      BY <2>2, <1>2
    <3>1. /\ x \in Seq(Seq(Documents)) /\ Len(x) = Len(store) + 1
          /\ \A j \in 1 .. Len(store) : x[j] = store[j]
          /\ x[Len(store) + 1] = written[stored']
      BY ONLY <1>1, <1>3, AppendProperties
    <3> HIDE DEF x
    <3>2. stored = Len(store)
      BY <2>2, <1>1
    <3>3. \A i \in 1 .. stored' : store'[i] = written[i]
      <4> SUFFICES ASSUME NEW i \in 1 .. stored' PROVE store'[i] = written[i]
        OBVIOUS
      <4>1. CASE i = Len(store) + 1
        BY <4>1, <3>0, <3>1, <3>2, <1>1
      <4>2. CASE i # Len(store) + 1
        <5>1. i \in 1 .. Len(store) /\ i \in 1 .. stored
          BY <4>2, <3>2, <1>1
        <5>2. store'[i] = store[i]
          BY <5>1, <3>0, <3>1
        <5> QED BY <5>1, <5>2, <1>1
      <4> QED BY <4>1, <4>2
    <3> QED BY <3>0, <3>1, <3>2, <3>3, <1>1
  <2> QED BY <2>1, <2>2
<1>5. PodsTyped'
  <2>1. \A i \in DOMAIN Catalogs : regPods'[i].mounts <= Len(store')
    BY <1>1, <1>4 DEF PodInv, PodsTyped, PodStates
  <2> QED BY <2>1, <1>1, <1>4 DEF PodInv, PodsTyped
<1>6. SplitInv'
  <2>1. stored' <= Len(written)
    BY <1>1
  <2> QED BY <2>1, <1>1, <1>4 DEF PodInv, SplitInv, Wanted
<1>7. ServeInv' /\ ContentInv'
  BY <1>1, PodAlone, PodsKept
<1> QED BY <1>5, <1>6, <1>7 DEF PodInv

LEMMA PodForRegistry ==
  ASSUME CatalogInputs, PodInv, Pods!PodForBundleRegistry
  PROVE  PodInv'
<1>1. /\ podPc = "store" /\ stored = Len(written) /\ podPc' = "pod"
      /\ UNCHANGED <<podRun, docs, written, buffer, stored, store, regPods, podsSeen>>
      /\ written \in Seq(Seq(Documents)) /\ store \in Seq(Seq(Documents))
      /\ stored <= Len(store) /\ \A i \in 1 .. stored : store[i] = written[i]
  BY DEF PodInv, PodsTyped, SplitInv, Pods!PodForBundleRegistry, Pods!writer
<1>2. PodsTyped'
  BY <1>1 DEF PodInv, PodsTyped
<1>4. SplitInv'
  <2>1. SubSeq(store, 1, Len(written)) = written
    <3>1. Len(written) \in Nat /\ Len(written) <= Len(store)
      BY <1>1
    <3>2. \A i \in 1 .. Len(written) : SubSeq(store, 1, Len(written))[i] = store[i]
      BY <3>1, <1>1
    <3>3. SubSeq(store, 1, Len(written)) \in Seq(Seq(Documents)) /\ Len(SubSeq(store, 1, Len(written))) = Len(written)
      BY <3>1, <1>1
    <3> QED BY <3>1, <3>2, <3>3, <1>1, SeqEqual
  <2> QED BY <2>1, <1>1 DEF PodInv, SplitInv, Wanted
<1>5. ServeInv' /\ ContentInv'
  BY <1>1, PodAlone, PodsKept
<1> QED BY <1>2, <1>4, <1>5 DEF PodInv

LEMMA PodCreatePod ==
  ASSUME CatalogInputs, PodInv, Pods!CreatePod \/ Pods!CreateSQLitePod
  PROVE  PodInv'
<1>1. /\ podPc = "pod" /\ podPc' = "running"
      /\ UNCHANGED <<podRun, docs, written, buffer, stored, store, podsSeen>>
  BY DEF Pods!CreatePod, Pods!CreateSQLitePod, Pods!writer
<1>2. /\ podRun \in DOMAIN Catalogs /\ regPods \in [DOMAIN Catalogs -> PodStates]
      /\ written \in Seq(Seq(Documents)) /\ regPods[podRun] \in PodStates
      /\ regPods[podRun].phase = "none"
  BY <1>1 DEF PodInv, PodsTyped, ServeInv
<1>3. PICK p \in PodStates : /\ regPods' = [regPods EXCEPT ![podRun] = p] /\ p.phase = "pending"
                             /\ Catalogs[podRun].fbc => p.mounts = Len(written)
                             /\ p.mounts <= Len(store)
                             /\ p.content = regPods[podRun].content
                             /\ p.serving = regPods[podRun].serving
  <2>1. CASE Pods!CreatePod
    <3> DEFINE p == [regPods[podRun] EXCEPT !.phase = "pending", !.mounts = Len(written)]
    <3>2. Len(written) \in Nat
      BY <1>2
    <3>3. /\ p \in PodStates /\ p.phase = "pending" /\ p.mounts = Len(written)
          /\ p.content = regPods[podRun].content /\ p.serving = regPods[podRun].serving
      BY <3>2, <1>2 DEF PodStates
    <3>4. regPods' = [regPods EXCEPT ![podRun] = p] /\ Catalogs[podRun].fbc
      BY <2>1, <1>2 DEF Pods!CreatePod
    <3>5. Len(written) <= Len(store)
      BY <3>4, <1>1 DEF PodInv, SplitInv
    <3> HIDE DEF p
    <3> QED BY <3>3, <3>4, <3>5
  <2>2. CASE Pods!CreateSQLitePod
    <3> DEFINE p == [regPods[podRun] EXCEPT !.phase = "pending"]
    <3>1. /\ p \in PodStates /\ p.phase = "pending" /\ p.mounts <= Len(store)
          /\ p.content = regPods[podRun].content /\ p.serving = regPods[podRun].serving
      BY <1>2 DEF PodStates, PodInv, PodsTyped
    <3>2. regPods' = [regPods EXCEPT ![podRun] = p] /\ ~Catalogs[podRun].fbc
      BY <2>2 DEF Pods!CreateSQLitePod
    <3> HIDE DEF p
    <3> QED BY <3>1, <3>2
  <2> QED BY <2>1, <2>2
<1>4. /\ regPods' \in [DOMAIN Catalogs -> PodStates] /\ regPods'[podRun] = p
      /\ \A i \in DOMAIN Catalogs :
           /\ i # podRun => regPods'[i] = regPods[i]
           /\ regPods'[i].content = regPods[i].content /\ regPods'[i].serving = regPods[i].serving
  BY <1>2, <1>3
<1>5. PodsTyped'
  <2>1. \A i \in DOMAIN Catalogs : regPods'[i].mounts <= Len(store')
    BY <1>1, <1>3, <1>4 DEF PodInv, PodsTyped
  <2>2. \A i \in DOMAIN Catalogs :
          ~Catalogs[i].fbc => /\ regPods'[i].content \in Seq(BundleImages)
                              /\ Len(regPods'[i].content) <= Len(Catalogs[i].bundles)
    BY <1>4 DEF PodInv, PodsTyped
  <2> QED BY <1>1, <1>4, <1>2, <2>1, <2>2 DEF PodInv, PodsTyped
<1>6. SplitInv'
  BY <1>1 DEF PodInv, SplitInv, Wanted
<1>7. ServeInv'
  <2>1. podRun \in Nat /\ \A i \in DOMAIN Catalogs : i \in Nat
    BY <1>2 DEF CatalogInputs
  <2>2. \A i \in DOMAIN Catalogs : i > podRun => i # podRun
    BY <2>1
  <2> QED BY <2>2, <1>1, <1>3, <1>4 DEF PodInv, ServeInv
<1>8. ContentInv'
  <2>1. podRun \notin podsSeen
    BY <1>2 DEF PodInv, ContentInv
  <2>2. \A i \in podsSeen : regPods'[i] = regPods[i]
    BY <2>1, <1>4 DEF PodInv, PodsTyped
  <2>3. podsSeen' = podsSeen
    BY <1>1
  <2> QED BY <2>2, <2>3, <1>4 DEF PodInv, ContentInv
<1> QED BY <1>5, <1>6, <1>7, <1>8 DEF PodInv

LEMMA PodReturn ==
  ASSUME CatalogInputs, PodInv, Pods!CheckPodStatus \/ Pods!TimeOut
  PROVE  PodInv'
<1>1. /\ podPc' = "idle" /\ podPc # "idle"
      /\ UNCHANGED <<podRun, docs, written, buffer, stored, store, regPods>>
  BY DEF Pods!CheckPodStatus, Pods!TimeOut, Pods!writer
<1>2. /\ podsSeen' \subseteq podsSeen \cup {podRun}
      /\ podRun \in podsSeen' /\ podRun \notin podsSeen =>
           podPc = "running" /\ regPods[podRun].phase = "running"
  BY DEF Pods!CheckPodStatus, Pods!TimeOut
<1>3. PodsTyped'
  BY <1>1, <1>2 DEF PodInv, PodsTyped
<1>4. SplitInv' /\ ServeInv'
  BY <1>1 DEF PodInv, SplitInv, ServeInv
<1>5. ContentInv'
  <2> SUFFICES ASSUME NEW i \in DOMAIN Catalogs, i \in podsSeen', i \notin podsSeen
               PROVE  /\ regPods[i].phase = "running"
                      /\ Catalogs[i].fbc => regPods[i].content = Catalogs[i].docs
    BY <1>1 DEF PodInv, ContentInv
  <2>1. i = podRun
    BY <1>2
  <2> QED BY <2>1, <1>2 DEF PodInv, ServeInv, Wanted
<1> QED BY <1>3, <1>4, <1>5 DEF PodInv

\* What a step of a pod may do to it: its bundles are added in order, it serves
\* when all are there, and documents are only unpacked while it is pending.
PodStepOf(i, p) ==
  /\ p \in PodStates /\ p.phase = "running" /\ p.mounts = regPods[i].mounts
  /\ Catalogs[i].fbc =>
       p.content = IF regPods[i].phase = "pending"
                   THEN Pods!FlattenSeq(SubSeq(store, 1, regPods[i].mounts)) ELSE regPods[i].content
  /\ ~Catalogs[i].fbc =>
       /\ p.content \in Seq(BundleImages) /\ Len(p.content) <= Len(Catalogs[i].bundles)
       /\ \A j \in 1 .. Len(p.content) : p.content[j] = Catalogs[i].bundles[j]
       /\ p.serving => Len(p.content) = Len(Catalogs[i].bundles)

LEMMA PodsOwnStep ==
  ASSUME CatalogInputs, PodInv, NEW i \in DOMAIN Catalogs, Pods!ClusterStep(i)
  PROVE  /\ regPods[i].phase # "none"
         /\ \E p : PodStepOf(i, p) /\ regPods' = [regPods EXCEPT ![i] = p]
<1> DEFINE r == regPods[i]
<1>1. /\ regPods \in [DOMAIN Catalogs -> PodStates] /\ r \in PodStates
      /\ store \in Seq(Seq(Documents)) /\ r.mounts \in Nat /\ r.mounts <= Len(store)
      /\ Catalogs[i].fbc \in BOOLEAN /\ Catalogs[i].bundles \in Seq(BundleImages)
      /\ ~Catalogs[i].fbc =>
           /\ r.content \in Seq(BundleImages) /\ Len(r.content) <= Len(Catalogs[i].bundles)
           /\ \A j \in 1 .. Len(r.content) : r.content[j] = Catalogs[i].bundles[j]
           /\ r.serving => Len(r.content) = Len(Catalogs[i].bundles)
  BY DEF PodInv, PodsTyped, PodStates, CatalogInputs, ContentInv
<1>2. CASE Pods!AddGZIPInitContainer(i)
  <2> DEFINE flat == Pods!FlattenSeq(SubSeq(store, 1, r.mounts))
             p == [r EXCEPT !.phase = "running", !.content = flat]
  <2>1. regPods' = [regPods EXCEPT ![i] = p] /\ Catalogs[i].fbc /\ r.phase = "pending"
    BY <1>1, <1>2 DEF Pods!AddGZIPInitContainer
  <2>2. SubSeq(store, 1, r.mounts) \in Seq(Seq(Documents)) /\ <<>> \in Seq(Documents)
    BY <1>1
  <2>3. flat \in Seq(Documents)
    BY <2>2, FlattenAppend
  <2> HIDE DEF flat
  <2>4. p \in PodStates /\ p.phase = "running" /\ p.mounts = r.mounts /\ p.content = flat
    BY <1>1, <2>3 DEF PodStates
  <2> HIDE DEF p
  <2>5. PodStepOf(i, p)
    BY <2>1, <2>4 DEF PodStepOf, flat
  <2> QED BY <2>1, <2>5
<1>3. CASE Pods!StartContainer(i)
  <2> DEFINE p == [r EXCEPT !.phase = "running"]
  <2>1. regPods' = [regPods EXCEPT ![i] = p] /\ ~Catalogs[i].fbc /\ r.phase = "pending"
    BY <1>1, <1>3 DEF Pods!StartContainer
  <2>2. /\ p \in PodStates /\ p.phase = "running" /\ p.mounts = r.mounts
        /\ p.content = r.content /\ p.serving = r.serving
    BY <1>1 DEF PodStates
  <2> HIDE DEF p
  <2>3. PodStepOf(i, p)
    BY <2>1, <2>2, <1>1 DEF PodStepOf
  <2> QED BY <2>1, <2>3
<1>4. CASE Pods!AddBundle(i)
  <2> DEFINE b == Catalogs[i].bundles[Len(r.content) + 1]
             c == Append(r.content, b)
             p == [r EXCEPT !.content = c]
  <2>1. /\ regPods' = [regPods EXCEPT ![i] = p] /\ ~Catalogs[i].fbc /\ r.phase = "running"
        /\ ~r.serving /\ Len(r.content) < Len(Catalogs[i].bundles)
    BY <1>1, <1>4 DEF Pods!AddBundle, Pods!Adding
  <2>2. r.content \in Seq(BundleImages) /\ Len(r.content) \in Nat /\ b \in BundleImages
    BY <1>1, <2>1
  <2>3. /\ c \in Seq(BundleImages) /\ Len(c) = Len(r.content) + 1 /\ c[Len(r.content) + 1] = b
        /\ \A j \in 1 .. Len(r.content) : c[j] = r.content[j]
    <3> HIDE DEF b, r
    <3> QED BY <2>2, AppendProperties
  <2>4. \A j \in 1 .. Len(c) : c[j] = Catalogs[i].bundles[j]
    <3> SUFFICES ASSUME NEW j \in 1 .. Len(c) PROVE c[j] = Catalogs[i].bundles[j]
      OBVIOUS
    <3>1. j \in 1 .. Len(r.content) \/ j = Len(r.content) + 1
      <4> HIDE DEF c
      <4> QED BY <2>2, <2>3
    <3>2. CASE j = Len(r.content) + 1
      BY <3>2, <2>3
    <3>3. CASE j \in 1 .. Len(r.content)
      BY <3>3, <2>1, <2>3, <1>1
    <3> QED BY <3>1, <3>2, <3>3
  <2>5. Len(c) <= Len(Catalogs[i].bundles)
    <3> HIDE DEF c
    <3> QED BY <2>1, <2>2, <2>3, <1>1
  <2> HIDE DEF c
  <2>6. /\ p \in PodStates /\ p.phase = "running" /\ p.mounts = r.mounts
        /\ p.content = c /\ ~p.serving
    BY <1>1, <2>1, <2>3 DEF PodStates
  <2> HIDE DEF p
  <2>7. PodStepOf(i, p)
    BY <2>1, <2>3, <2>4, <2>5, <2>6 DEF PodStepOf
  <2> QED BY <2>1, <2>7
<1>5. CASE Pods!Serve(i)
  <2> DEFINE p == [r EXCEPT !.serving = TRUE]
  <2>1. /\ regPods' = [regPods EXCEPT ![i] = p] /\ r.phase = "running"
        /\ Catalogs[i].fbc \/ Len(r.content) = Len(Catalogs[i].bundles)
    BY <1>1, <1>5 DEF Pods!Serve
  <2>2. /\ p \in PodStates /\ p.phase = "running" /\ p.mounts = r.mounts /\ p.content = r.content
    BY <1>1, <2>1 DEF PodStates
  <2> HIDE DEF p
  <2>3. PodStepOf(i, p)
    BY <2>1, <2>2, <1>1 DEF PodStepOf
  <2> QED BY <2>1, <2>3
<1>6. CASE Pods!Restart(i)
  <2> DEFINE c == IF Catalogs[i].fbc THEN r.content ELSE <<>>
             p == [r EXCEPT !.serving = FALSE, !.content = c]
  <2>1. regPods' = [regPods EXCEPT ![i] = p] /\ r.phase = "running"
    BY <1>1, <1>6 DEF Pods!Restart
  <2>2. c \in Seq(Documents) \cup Seq(BundleImages)
    <3>1. <<>> \in Seq(BundleImages) /\ r.content \in Seq(Documents) \cup Seq(BundleImages)
      BY <1>1 DEF PodStates
    <3> QED BY <3>1
  <2>3. ~Catalogs[i].fbc => c \in Seq(BundleImages) /\ Len(c) = 0 /\ Len(c) <= Len(Catalogs[i].bundles)
    BY <1>1
  <2>4. Catalogs[i].fbc => c = r.content
    OBVIOUS
  <2> HIDE DEF c
  <2>5. /\ p \in PodStates /\ p.phase = "running" /\ p.mounts = r.mounts
        /\ p.content = c /\ ~p.serving
    BY <1>1, <2>1, <2>2 DEF PodStates
  <2> HIDE DEF p
  <2>6. PodStepOf(i, p)
    BY <2>1, <2>3, <2>4, <2>5 DEF PodStepOf
  <2> QED BY <2>1, <2>6
<1> QED BY <1>2, <1>3, <1>4, <1>5, <1>6
     DEF Pods!ClusterStep, Pods!AddGZIPInitContainer, Pods!StartContainer, Pods!AddBundle,
         Pods!Adding, Pods!Serve, Pods!Restart

LEMMA PodCluster ==
  ASSUME CatalogInputs, PodInv, NEW i \in DOMAIN Catalogs, Pods!ClusterStep(i)
  PROVE  PodInv'
<1>1. /\ UNCHANGED <<podRun, podPc, docs, written, buffer, stored, store, podsSeen>>
      /\ regPods \in [DOMAIN Catalogs -> PodStates] /\ regPods[i].phase # "none"
  BY PodsOwnStep DEF Pods!ClusterStep, Pods!writer, PodInv, PodsTyped
<1>2. PICK p : PodStepOf(i, p) /\ regPods' = [regPods EXCEPT ![i] = p]
  BY PodsOwnStep
<1>3. /\ regPods' \in [DOMAIN Catalogs -> PodStates] /\ regPods'[i] = p
      /\ \A j \in DOMAIN Catalogs : j # i => regPods'[j] = regPods[j]
  BY <1>1, <1>2 DEF PodStepOf
<1>4. PodsTyped'
  <2>1. \A j \in DOMAIN Catalogs :
          /\ regPods'[j].mounts <= Len(store')
          /\ ~Catalogs[j].fbc => /\ regPods'[j].content \in Seq(BundleImages)
                                 /\ Len(regPods'[j].content) <= Len(Catalogs[j].bundles)
    BY <1>1, <1>2, <1>3 DEF PodInv, PodsTyped, PodStepOf
  <2> QED BY <2>1, <1>1, <1>3 DEF PodInv, PodsTyped
<1>5. SplitInv'
  BY <1>1 DEF PodInv, SplitInv, Wanted
<1>6. ServeInv'
  <2>1. \A j \in DOMAIN Catalogs : j > podRun => regPods'[j].phase = "none"
    BY <1>1, <1>3 DEF PodInv, ServeInv
  <2>2. podPc \in {"partition", "store", "pod"} => regPods'[podRun].phase = "none"
    BY <1>1, <1>3 DEF PodInv, ServeInv, PodsTyped
  <2>3. CASE podPc = "running" /\ Catalogs[podRun].fbc /\ i = podRun
    <3>1. regPods[i].phase \in {"pending", "running"}
      BY <1>1 DEF PodStates
    <3>2. p.phase = "running" /\ p.content = Wanted
      BY <2>3, <3>1, <1>2 DEF PodInv, ServeInv, SplitInv, PodStepOf
    <3> QED BY <3>2, <2>1, <2>3, <1>1, <1>3 DEF ServeInv, Wanted
  <2>4. CASE ~(podPc = "running" /\ Catalogs[podRun].fbc /\ i = podRun)
    <3>1. podPc = "running" /\ Catalogs[podRun].fbc => regPods'[podRun] = regPods[podRun]
      BY <2>4, <1>3 DEF PodInv, PodsTyped
    <3> QED BY <3>1, <2>1, <2>2, <1>1 DEF PodInv, ServeInv, Wanted
  <2> QED BY <2>3, <2>4
<1>7. ContentInv'
  <2>1. ASSUME NEW j \in DOMAIN Catalogs, ~Catalogs[j].fbc
        PROVE  /\ \A k \in 1 .. Len(regPods'[j].content) : regPods'[j].content[k] = Catalogs[j].bundles[k]
               /\ regPods'[j].serving => Len(regPods'[j].content) = Len(Catalogs[j].bundles)
    BY <2>1, <1>2, <1>3 DEF PodInv, ContentInv, PodStepOf
  <2>2. ASSUME NEW j \in podsSeen, j \in DOMAIN Catalogs
        PROVE  /\ regPods'[j].phase = "running"
               /\ Catalogs[j].fbc => regPods'[j].content = Catalogs[j].docs
    BY <2>2, <1>2, <1>3 DEF PodInv, ContentInv, PodStepOf
  <2> QED BY <2>1, <2>2, <1>1 DEF ContentInv
<1> QED BY <1>4, <1>5, <1>6, <1>7 DEF PodInv

LEMMA PodStep ==
  ASSUME CatalogInputs
  PROVE  PodInv /\ [Pods!Next]_(Pods!vars) => PodInv'
<1> SUFFICES ASSUME PodInv, [Pods!Next]_(Pods!vars) PROVE PodInv'
  OBVIOUS
<1>1. CASE Pods!Next
  BY <1>1, PodCreate, PodDocument, PodWriteLastFragment, PodStoreConfigMap,
     PodForRegistry, PodCreatePod, PodReturn, PodCluster DEF Pods!Next, Pods!Commands
<1>2. CASE UNCHANGED Pods!vars
  BY <1>2 DEF Pods!vars, Pods!writer, PodInv, PodsTyped, SplitInv, ServeInv, ContentInv, Wanted
<1> QED BY <1>1, <1>2

\* A served catalog is the one the pod was made for.
LEMMA PodServing ==
  ASSUME CatalogInputs, PodInv
  PROVE  PodServesCatalog
<1> SUFFICES ASSUME NEW i \in podsSeen, regPods[i].serving
             PROVE  regPods[i].content = Pods!CatalogOf(i)
  BY DEF PodServesCatalog, Pods!PodServesCatalog
<1>1. i \in DOMAIN Catalogs /\ Catalogs[i].fbc \in BOOLEAN /\ Catalogs[i].bundles \in Seq(BundleImages)
  BY DEF PodInv, PodsTyped, CatalogInputs
<1>2. CASE Catalogs[i].fbc
  BY <1>1, <1>2 DEF PodInv, ContentInv, Pods!CatalogOf
<1>3. CASE ~Catalogs[i].fbc
  <2>1. /\ regPods[i].content \in Seq(BundleImages) /\ Len(regPods[i].content) = Len(Catalogs[i].bundles)
        /\ \A j \in 1 .. Len(regPods[i].content) : regPods[i].content[j] = Catalogs[i].bundles[j]
    BY <1>1, <1>3 DEF PodInv, PodsTyped, ContentInv
  <2>2. regPods[i].content = Catalogs[i].bundles
    BY <2>1, <1>1, SeqEqual
  <2> QED BY <2>2, <1>3 DEF Pods!CatalogOf
<1> QED BY <1>2, <1>3

\* For all sequences of run bundle and bundle-upgrade commands, each cut off
\* anywhere, and all ways to split their catalogs: what a pod serves that its
\* command has seen running is that command's whole catalog in its order,
\* whatever ConfigMaps other commands leave and whenever the pod's container
\* starts anew (createOrUpdateConfigMap, addGZIPInitContainer, getContainerCmd).
THEOREM RunningPodServes ==
  ASSUME CatalogInputs PROVE Pods!Spec => []PodServesCatalog
<1>1. Pods!Init => PodInv BY PodStart
<1>2. PodInv /\ [Pods!Next]_(Pods!vars) => PodInv' BY PodStep
<1>3. PodInv => PodServesCatalog BY PodServing
<1> QED BY <1>1, <1>2, <1>3, PTL DEF Pods!Spec

-----------------------------------------------------------------------------
(* The catalogs of run bundle and its upgrade. *)

\* The sets that the parts of an index image are from.
LEMMA IndexRecords ==
  ASSUME IndexImages
  PROVE  \E C, P, Q, N, B :
           /\ Indexes \subseteq [packages : Q, channels : ChannelsOf(C, P, N), bundles : Seq(B)]
           /\ Names \subseteq N /\ 0 \in N
<1> DEFINE C == {c.name : c \in ChannelRecords}
           P == {c.package : c \in ChannelRecords}
           Q == {i.packages : i \in Indexes}
           B == UNION {Catalog!Range(i.bundles) : i \in Indexes}
<1>1. ASSUME NEW i \in Indexes
      PROVE  i \in [packages : Q, channels : ChannelsOf(C, P, BundleNames), bundles : Seq(B)]
  <2>1. i \in [packages : {i.packages}, channels : ChannelsOf(C, P, BundleNames),
               bundles : Seq(Catalog!Range(i.bundles))]
    BY DEF IndexImages
  <2>2. Seq(Catalog!Range(i.bundles)) \subseteq Seq(B)
    <3>1. Catalog!Range(i.bundles) \subseteq B OBVIOUS
    <3> HIDE DEF B
    <3> QED BY <3>1
  <2>3. i.packages \in Q OBVIOUS
  <2> HIDE DEF C, P, Q, B
  <2> QED BY <2>1, <2>2, <2>3
<1>2. Names \subseteq BundleNames /\ 0 \in BundleNames BY DEF BundleNames
<1> HIDE DEF C, P, Q, B
<1> QED BY <1>1, <1>2

LEMMA SingleHeads ==
  ASSUME IndexImages, NEW i \in Indexes, NEW c \in Catalog!Range(i.channels), c.package = Package
  PROVE  \E h : Catalog!GetChannelHead(c.entries) = {h}
<1>1. c \in ChannelRecords BY DEF ChannelRecords
<1> QED BY <1>1 DEF IndexImages

\* Before its first bundle is injected, a subscription is served from the index
\* image; afterwards the last bundle is the head of its channel.
ChannelInv ==
  /\ index \in Indexes /\ injected \in Seq(Names)
  /\ channel # "none" /\ injected = <<>> => catalog = index /\ Catalog!ChannelIndex(index, channel) # 0
  /\ injected # <<>> =>
       /\ channel # "none"
       /\ Catalog!GetChannelHead(Catalog!Channel(catalog).entries) = {injected[Len(injected)]}

\* The positions of the package's channels of that name.
Named(cfg, name) ==
  {i \in DOMAIN cfg.channels : cfg.channels[i].name = name /\ cfg.channels[i].package = Package}

LEMMA ChannelFound ==
  ASSUME NEW cfg, NEW S, cfg.channels \in Seq(S), NEW name
  PROVE  /\ Catalog!ChannelIndex(cfg, name) = 0 <=> Named(cfg, name) = {}
         /\ Named(cfg, name) # {} => /\ Catalog!ChannelIndex(cfg, name) \in Named(cfg, name)
                                     /\ \A j \in Named(cfg, name) : Catalog!ChannelIndex(cfg, name) <= j
<1> DEFINE at == Named(cfg, name)
<1>1. at \subseteq Nat /\ 0 \notin at
  BY DEF Named
<1>2. Catalog!ChannelIndex(cfg, name) = IF at = {} THEN 0 ELSE CHOOSE i \in at : \A j \in at : i <= j
  BY DEF Catalog!ChannelIndex, Named
<1> HIDE DEF at
<1>3. at # {} => \E v \in at : \A w \in at : v <= w
  BY <1>1, LeastNumber
<1> QED BY <1>1, <1>2, <1>3 DEF at

\* The only channel of that name.
LEMMA ChannelOnly ==
  ASSUME NEW cfg, NEW S, cfg.channels \in Seq(S), NEW name, NEW k, Named(cfg, name) = {k}
  PROVE  Catalog!ChannelIndex(cfg, name) = k
BY ChannelFound

\* The head of a valid channel is the only name that may be one, and every entry
\* is reached from it.
LEMMA ValidHead ==
  ASSUME NEW cfg, Catalog!ConvertToModel(cfg), NEW i \in DOMAIN cfg.channels, NEW h,
         Catalog!GetChannelHead(cfg.channels[i].entries) \subseteq {h}
  PROVE  /\ Catalog!GetChannelHead(cfg.channels[i].entries) = {h}
         /\ \A e \in Catalog!EntryNames(cfg.channels[i]) : Catalog!Reaches(cfg.channels[i], h, e)
<1> DEFINE c == cfg.channels[i]
<1>1. c \in Catalog!Range(cfg.channels)
  BY DEF Catalog!Range
<1>2. PICK g \in Catalog!EntryNames(c) : /\ Catalog!GetChannelHead(c.entries) = {g}
                                         /\ \A e \in Catalog!EntryNames(c) : Catalog!Reaches(c, g, e)
  BY <1>1 DEF Catalog!ConvertToModel
<1> QED BY <1>2

\* What a single entry replaces is reached from it.
LEMMA SingleReaches ==
  ASSUME NEW c, NEW a, NEW r, c.entries = <<[name |-> a, replaces |-> r]>>
  PROVE  Catalog!Reaches(c, a, r)
<1>1. Len(c.entries) = 1 /\ DOMAIN c.entries = {1}
  OBVIOUS
<1>2. c.entries[1].name = a /\ c.entries[1].replaces = r
  OBVIOUS
<1> DEFINE Step(f) == f = [k \in 0 .. Len(c.entries) |->
                             IF k = 0 THEN {a}
                             ELSE f[k - 1] \cup {c.entries[i].replaces :
                                    i \in {j \in DOMAIN c.entries : c.entries[j].name \in f[k - 1]}}]
           g == [k \in 0 .. 1 |-> IF k = 0 THEN {a} ELSE {a, r}]
<1>3. 0 .. 1 = {0, 1}
  OBVIOUS
<1>4. g[0] = {a} /\ g[1] = {a, r}
  BY <1>3
<1>5. {c.entries[i].replaces : i \in {j \in DOMAIN c.entries : c.entries[j].name \in {a}}} = {r}
  BY <1>1, <1>2
<1>6. Step(g)
  <2>1. \A k \in 0 .. 1 : g[k] = IF k = 0 THEN {a} ELSE g[k - 1] \cup {c.entries[i].replaces :
                                    i \in {j \in DOMAIN c.entries : c.entries[j].name \in g[k - 1]}}
    <3> SUFFICES ASSUME NEW k \in 0 .. 1, k # 0
                 PROVE g[k] = g[k - 1] \cup {c.entries[i].replaces :
                                    i \in {j \in DOMAIN c.entries : c.entries[j].name \in g[k - 1]}}
      BY <1>4
    <3>1. k = 1 /\ k - 1 = 0
      OBVIOUS
    <3> HIDE DEF g
    <3> QED BY <3>1, <1>4, <1>5
  <2> QED BY <2>1, <1>1
<1> DEFINE f == CHOOSE f : Step(f)
<1>7. Step(f)
  BY <1>6
<1>8. f[0] = {a} /\ f[1] = {a, r}
  <2>1. 0 \in 0 .. Len(c.entries) /\ 1 \in 0 .. Len(c.entries) /\ 1 - 1 = 0
    BY <1>1
  <2> HIDE DEF f
  <2>2. f[0] = {a}
    BY <1>7, <2>1
  <2>3. f[1] = f[0] \cup {c.entries[i].replaces : i \in {j \in DOMAIN c.entries : c.entries[j].name \in f[0]}}
    BY <1>7, <2>1
  <2> QED BY <2>2, <2>3, <1>5
<1>9. Catalog!Reaches(c, a, r) <=> r \in f[Len(c.entries)]
  BY DEF Catalog!Reaches
<1> HIDE DEF f
<1> QED BY <1>1, <1>8, <1>9

\* The catalog offers the bundle as the head of the subscription's channel, and
\* the heads offered now can be upgraded to it.
Offers(cfg, b) ==
  LET c == cfg.channels[Catalog!ChannelIndex(cfg, channel)]
  IN /\ Catalog!GetChannelHead(c.entries) = {b}
     /\ \A h \in Catalog!GetChannelHead(Catalog!Channel(catalog).entries) : Catalog!Reaches(c, b, h)

\* The first upgrade after an installation from the index image.
LEMMA UpgradeFromImage ==
  ASSUME IndexImages, ChannelInv, channel # "none", injected = <<>>, NEW b \in Names,
         NEW head \in Catalog!GetChannelHead(
                        index.channels[Catalog!ChannelIndex(index, channel)].entries),
         Catalog!ConvertToModel(Catalog!HandleTraditionalUpgrade(b, head))
  PROVE  Offers(Catalog!HandleTraditionalUpgrade(b, head), b)
<1> DEFINE k == Catalog!ChannelIndex(index, channel)
           old == index.channels[k].entries
           cfg == Catalog!HandleTraditionalUpgrade(b, head)
           new == Append(old, [name |-> b, replaces |-> head])
<1>1. PICK C, P, Q, N, B :
        /\ Indexes \subseteq [packages : Q, channels : ChannelsOf(C, P, N), bundles : Seq(B)]
        /\ Names \subseteq N /\ 0 \in N
  BY IndexRecords
<1>2. /\ index \in [packages : Q, channels : ChannelsOf(C, P, N), bundles : Seq(B)]
      /\ index \in Indexes /\ catalog = index /\ k # 0
  BY <1>1 DEF ChannelInv
<1>3. index.channels \in Seq([name : C, package : P, entries : EntriesOf(N)])
  BY <1>2 DEF ChannelsOf
<1>4. /\ k \in Named(index, channel) /\ \A j \in Named(index, channel) : k <= j
  BY <1>2, <1>3, ChannelFound
<1>5. /\ k \in DOMAIN index.channels /\ index.channels[k] \in [name : C, package : P, entries : EntriesOf(N)]
      /\ index.channels[k].name = channel /\ index.channels[k].package = Package
  <2>1. /\ k \in DOMAIN index.channels
        /\ index.channels[k].name = channel /\ index.channels[k].package = Package
    BY <1>4 DEF Named
  <2> HIDE DEF k
  <2>2. index.channels[k] \in [name : C, package : P, entries : EntriesOf(N)]
    <3>1. \A S : \A s \in Seq(S) : \A i \in DOMAIN s : s[i] \in S
      OBVIOUS
    <3> QED BY <3>1, <2>1, <1>3, Zenon
  <2> QED BY <2>1, <2>2
<1>6. old \in Seq([name : N, replaces : N])
  BY <1>5 DEF EntriesOf
<1>7. head \in {old[i].name : i \in DOMAIN old}
  BY DEF Catalog!GetChannelHead
<1>8. head \in N /\ b \in N
  <2>1. PICK i \in DOMAIN old : head = old[i].name
    BY <1>7
  <2> HIDE DEF old
  <2>2. old[i] \in [name : N, replaces : N]
    <3>1. \A S : \A s \in Seq(S) : \A j \in DOMAIN s : s[j] \in S
      OBVIOUS
    <3> QED BY <3>1, <2>1, <1>6, Zenon
  <2> QED BY <2>1, <2>2, <1>1
<1>9. Catalog!GetChannelHead(old) = {head}
  <2>1. index.channels[k] \in Catalog!Range(index.channels)
    BY <1>5 DEF Catalog!Range
  <2>2. \E h : Catalog!GetChannelHead(old) = {h}
    BY <2>1, <1>2, <1>5, SingleHeads
  <2> QED BY <2>2
<1>10. /\ new \in Seq([name : N, replaces : N]) /\ Len(new) = Len(old) + 1
       /\ DOMAIN new = 1 .. Len(old) + 1
       /\ \A i \in 1 .. Len(old) : new[i] = old[i]
       /\ new[Len(old) + 1] = [name |-> b, replaces |-> head]
  <2>1. [name |-> b, replaces |-> head] \in [name : N, replaces : N]
    BY <1>8
  <2> HIDE DEF old
  <2> QED BY <2>1, <1>6, AppendProperties
<1>11. /\ cfg.channels = [index.channels EXCEPT ![k] = [index.channels[k] EXCEPT !.entries = new]]
  BY <1>2, <1>5 DEF Catalog!HandleTraditionalUpgrade, Catalog!Entry
<1> HIDE DEF cfg, new
<1>12. /\ cfg.channels \in Seq([name : C, package : P, entries : EntriesOf(N)])
       /\ DOMAIN cfg.channels = DOMAIN index.channels
       /\ \A i \in DOMAIN index.channels : /\ cfg.channels[i].name = index.channels[i].name
                                           /\ cfg.channels[i].package = index.channels[i].package
       /\ cfg.channels[k].entries = new
  <2> DEFINE e == [index.channels[k] EXCEPT !.entries = new]
  <2>1. e \in [name : C, package : P, entries : EntriesOf(N)]
    BY <1>5, <1>10 DEF EntriesOf
  <2>2. e.name = index.channels[k].name /\ e.package = index.channels[k].package /\ e.entries = new
    BY <1>5
  <2>3. k \in 1 .. Len(index.channels) /\ cfg.channels = [index.channels EXCEPT ![k] = e]
    BY <1>3, <1>5, <1>11
  <2> HIDE DEF e, k
  <2>4. cfg.channels \in Seq([name : C, package : P, entries : EntriesOf(N)])
    BY <2>1, <2>3, <1>3, ExceptSeq
  <2>5. DOMAIN cfg.channels = DOMAIN index.channels
    BY <2>3
  <2> QED BY <2>2, <2>3, <2>4, <2>5, <1>3
<1>13. Catalog!ChannelIndex(cfg, channel) = k
  <2>1. Named(cfg, channel) = Named(index, channel)
    BY <1>12 DEF Named
  <2> HIDE DEF k
  <2>2. Catalog!ChannelIndex(cfg, channel) \in Named(index, channel)
        /\ \A j \in Named(index, channel) : Catalog!ChannelIndex(cfg, channel) <= j
    BY <2>1, <1>4, <1>12, ChannelFound
  <2>3. Named(index, channel) \subseteq Nat
    BY <1>3 DEF Named
  <2> QED BY <2>2, <2>3, <1>4
<1>14. Catalog!GetChannelHead(cfg.channels[k].entries) \subseteq {b}
  <2>1. ASSUME NEW x \in Catalog!GetChannelHead(new) PROVE x = b
    <3>1. PICK i \in DOMAIN new : x = new[i].name
      BY <2>1 DEF Catalog!GetChannelHead
    <3>2. \A j \in DOMAIN new : x # new[j].replaces
      BY <2>1 DEF Catalog!GetChannelHead
    <3>3. Len(old) \in Nat /\ DOMAIN old = 1 .. Len(old)
      BY <1>6
    <3>4. x # head
      BY <3>2, <3>3, <1>10
    <3>5. \A j \in DOMAIN old : x # old[j].replaces
      BY <3>2, <3>3, <1>10
    <3>6. CASE i = Len(old) + 1
      BY <3>6, <3>1, <1>10
    <3>7. CASE i # Len(old) + 1
      <4>1. i \in DOMAIN old /\ x = old[i].name
        <5> HIDE DEF old
        <5>1. i \in 1 .. Len(old)
          BY <3>7, <3>1, <3>3, <1>10
        <5> QED BY <5>1, <3>1, <3>3, <1>10
      <4>2. x \in Catalog!GetChannelHead(old)
        BY <4>1, <3>5 DEF Catalog!GetChannelHead
      <4> QED BY <4>2, <3>4, <1>9
    <3> QED BY <3>6, <3>7
  <2> QED BY <2>1, <1>12
<1>15. k \in DOMAIN cfg.channels /\ Catalog!ConvertToModel(cfg)
  BY <1>5, <1>12 DEF cfg
<1>16. /\ Catalog!GetChannelHead(cfg.channels[k].entries) = {b}
       /\ \A e \in Catalog!EntryNames(cfg.channels[k]) : Catalog!Reaches(cfg.channels[k], b, e)
  <2> HIDE DEF k
  <2> QED BY <1>14, <1>15, ValidHead
<1>17. head \in Catalog!EntryNames(cfg.channels[k])
  <2>1. PICK i \in DOMAIN old : head = old[i].name
    BY <1>7
  <2> HIDE DEF old
  <2>2. DOMAIN old = 1 .. Len(old) /\ Len(old) \in Nat BY <1>6
  <2>3. i \in 1 .. Len(old) /\ i \in 1 .. Len(old) + 1 BY <2>1, <2>2
  <2>4. i \in DOMAIN new /\ new[i].name = head BY <2>1, <2>3, <1>10
  <2> QED BY <2>4, <1>12 DEF Catalog!EntryNames
<1>18. Catalog!GetChannelHead(Catalog!Channel(catalog).entries) = {head}
  BY <1>2, <1>9 DEF Catalog!Channel
<1>19. Offers(cfg, b)
  BY <1>13, <1>16, <1>17, <1>18 DEF Offers
<1> QED BY <1>19 DEF cfg

\* A later upgrade, with the bundles injected before it.
LEMMA UpgradeFromItems ==
  ASSUME IndexImages, ChannelInv, channel # "none", injected # <<>>, NEW b \in Names, NEW head,
         ~(Catalog!ChannelIndex(index, channel) > 1),
         Catalog!ConvertToModel(Catalog!UpgradeFBC(Append(injected, b), head)),
         Catalog!ChannelIndex(index, channel) = 0 => head = 0
  PROVE  Offers(Catalog!UpgradeFBC(Append(injected, b), head), b)
<1> DEFINE k == Catalog!ChannelIndex(index, channel)
           names == Append(injected, b)
           l == Len(injected)
           all == [i \in DOMAIN names |-> Catalog!Entry(names[i], Catalog!Replaced(names, i, head))]
           entries == IF k = 0 THEN all ELSE <<Catalog!Last(all)>>
           cfg == Catalog!UpgradeFBC(names, head)
           chan == [name |-> channel, package |-> Package, entries |-> entries]
           before == injected[l]
<1>1. injected \in Seq(Names) /\ l \in Nat /\ l >= 1
  BY DEF ChannelInv
<1>2. /\ names \in Seq(Names) /\ Len(names) = l + 1 /\ DOMAIN names = 1 .. l + 1
      /\ names[l + 1] = b /\ \A i \in 1 .. l : names[i] = injected[i]
  BY <1>1, AppendProperties
<1>3. cfg.channels = <<chan>>
  BY DEF Catalog!UpgradeFBC
<1> HIDE DEF names, cfg
<1>4. /\ DOMAIN all = 1 .. l + 1
      /\ \A i \in 1 .. l + 1 : all[i] = [name |-> names[i],
                                          replaces |-> IF i > 1 THEN names[i - 1] ELSE head]
  BY <1>2 DEF Catalog!Entry, Catalog!Replaced
<1>5. Len(all) = l + 1 /\ Catalog!Last(all) = all[l + 1]
  <2>1. all \in Seq([name : {names[i] : i \in 1 .. l + 1},
                     replaces : {names[i] : i \in 1 .. l + 1} \cup {head}])
    <3> DEFINE T == [name : {names[j] : j \in 1 .. l + 1},
                     replaces : {names[j] : j \in 1 .. l + 1} \cup {head}]
    <3>1. ASSUME NEW i \in 1 .. l + 1 PROVE all[i] \in T
      <4>1. i > 1 => i - 1 \in 1 .. l + 1
        BY <1>1
      <4>2. all[i] = [name |-> names[i], replaces |-> IF i > 1 THEN names[i - 1] ELSE head]
        BY <1>4
      <4> QED BY <4>1, <4>2
    <3>2. all = [i \in 1 .. l + 1 |-> all[i]]
      BY <1>2
    <3> HIDE DEF all, T
    <3>3. all \in [1 .. l + 1 -> T]
      BY <3>1, <3>2
    <3>4. all \in Seq(T)
      BY <3>3, <1>1
    <3> QED BY <3>4 DEF T
  <2>2. Len(all) = l + 1
    BY <2>1, <1>1, <1>4
  <2> HIDE DEF all
  <2> QED BY <2>2 DEF Catalog!Last
<1>6. all[l + 1] = [name |-> b, replaces |-> before]
  <2>1. l + 1 > 1 /\ (l + 1) - 1 = l /\ l \in 1 .. l /\ l + 1 \in 1 .. l + 1
    BY <1>1
  <2>2. names[(l + 1) - 1] = before
    BY <2>1, <1>2
  <2>3. all[l + 1] = [name |-> names[l + 1],
                      replaces |-> IF l + 1 > 1 THEN names[(l + 1) - 1] ELSE head]
    BY <2>1, <1>4
  <2> HIDE DEF all
  <2> QED BY <2>1, <2>2, <2>3, <1>2
<1> HIDE DEF all
<1>7. Catalog!ChannelIndex(cfg, channel) = 1 /\ cfg.channels[1] = chan /\ 1 \in DOMAIN cfg.channels
  <2>1. cfg.channels \in Seq({chan})
    BY <1>3
  <2>2. Named(cfg, channel) = {1}
    BY <1>3 DEF Named
  <2>3. Catalog!ChannelIndex(cfg, channel) = 1
    BY <2>1, <2>2, ChannelOnly
  <2> QED BY <2>3, <1>3
<1>8. chan.entries = entries /\ Catalog!GetChannelHead(Catalog!Channel(catalog).entries) = {before}
  BY DEF ChannelInv
<1> HIDE DEF chan
<1>9. Catalog!GetChannelHead(entries) \subseteq {b}
  <2>1. CASE k = 0
    <3>1. entries = all
      BY <2>1
    <3>2. ASSUME NEW x \in Catalog!GetChannelHead(all) PROVE x = b
      <4>1. PICK i \in 1 .. l + 1 : x = all[i].name
        BY <3>2, <1>4 DEF Catalog!GetChannelHead
      <4>2. \A j \in 1 .. l + 1 : x # all[j].replaces
        BY <3>2, <1>4 DEF Catalog!GetChannelHead
      <4>3. x = names[i]
        BY <4>1, <1>4
      <4>4. CASE i # l + 1
        <5>1. i + 1 \in 1 .. l + 1 /\ i + 1 > 1 /\ (i + 1) - 1 = i
          BY <4>4, <1>1
        <5>2. all[i + 1].replaces = names[i]
          BY <5>1, <1>4
        <5> QED BY <5>1, <5>2, <4>2, <4>3
      <4> QED BY <4>3, <4>4, <1>2
    <3> HIDE DEF entries
    <3> QED BY <3>1, <3>2
  <2>2. CASE k # 0
    <3>1. entries = <<[name |-> b, replaces |-> before]>>
      BY <2>2, <1>5, <1>6
    <3> HIDE DEF entries
    <3> QED BY <3>1 DEF Catalog!GetChannelHead
  <2> QED BY <2>1, <2>2
<1>10. /\ Catalog!GetChannelHead(entries) = {b}
       /\ \A e \in Catalog!EntryNames(chan) : Catalog!Reaches(chan, b, e)
  <2>1. Catalog!ConvertToModel(cfg)
    BY DEF cfg, names
  <2> HIDE DEF entries
  <2>2. Catalog!GetChannelHead(cfg.channels[1].entries) \subseteq {b}
    BY <1>7, <1>8, <1>9
  <2>3. /\ Catalog!GetChannelHead(cfg.channels[1].entries) = {b}
        /\ \A e \in Catalog!EntryNames(cfg.channels[1]) : Catalog!Reaches(cfg.channels[1], b, e)
    BY <2>1, <2>2, <1>7, ValidHead
  <2> QED BY <2>3, <1>7, <1>8
<1>11. Catalog!Reaches(chan, b, before)
  <2>1. CASE k = 0
    <3>1. l \in DOMAIN all /\ all[l].name = before
      <4>1. l \in 1 .. l + 1 /\ l \in 1 .. l
        BY <1>1
      <4> QED BY <4>1, <1>2, <1>4
    <3>2. chan.entries = all
      BY <2>1, <1>8
    <3>3. before \in Catalog!EntryNames(chan)
      BY <3>1, <3>2 DEF Catalog!EntryNames
    <3> QED BY <3>3, <1>10
  <2>2. CASE k # 0
    <3>1. chan.entries = <<[name |-> b, replaces |-> before]>>
      BY <2>2, <1>5, <1>6, <1>8
    <3> HIDE DEF before
    <3> QED BY <3>1, SingleReaches
  <2> QED BY <2>1, <2>2
<1>12. Offers(cfg, b)
  <2> HIDE DEF entries, before
  <2> QED BY <1>7, <1>8, <1>10, <1>11 DEF Offers
<1> QED BY <1>12 DEF cfg, names

LEMMA CatalogStart ==
  ASSUME Catalog!Init PROVE ChannelInv
BY DEF Catalog!Init, ChannelInv

LEMMA CatalogRunBundle ==
  ASSUME IndexImages, ChannelInv, NEW b \in Names, Catalog!RunBundle(b)
  PROVE  ChannelInv'
<1> DEFINE cfg == IF index = Default THEN Catalog!CreateFBC(b) ELSE Catalog!GenerateFBC(b)
           entry == [name |-> b, replaces |-> 0]
           chan == [name |-> DefaultChannel, package |-> Package, entries |-> <<entry>>]
<1>1. channel = "none" /\ index' = index /\ injected = <<>>
  BY DEF Catalog!RunBundle, ChannelInv
<1>2. \/ UNCHANGED <<catalog, injected, channel>>
      \/ /\ Catalog!ConvertToModel(cfg) /\ Catalog!ChannelIndex(index, DefaultChannel) = 0
         /\ catalog' = cfg /\ injected' = <<b>> /\ channel' = DefaultChannel
  BY DEF Catalog!RunBundle
<1>3. CASE UNCHANGED <<catalog, injected, channel>>
  BY <1>1, <1>3 DEF ChannelInv
<1>4. CASE /\ Catalog!ConvertToModel(cfg) /\ Catalog!ChannelIndex(index, DefaultChannel) = 0
           /\ catalog' = cfg /\ injected' = <<b>> /\ channel' = DefaultChannel
  <2>1. PICK C, P, Q, N, B :
          /\ Indexes \subseteq [packages : Q, channels : ChannelsOf(C, P, N), bundles : Seq(B)]
          /\ Names \subseteq N /\ 0 \in N
    BY IndexRecords
  <2> DEFINE T == [name : C, package : P, entries : EntriesOf(N)]
  <2>2. index.channels \in Seq(T)
    BY <2>1 DEF ChannelInv, ChannelsOf
  <2>3. Named(index, DefaultChannel) = {}
    BY <2>2, <1>4, ChannelFound
  <2>4. cfg.channels = <<chan>> \/ cfg.channels = index.channels \o <<chan>>
    BY DEF Catalog!CreateFBC, Catalog!GenerateFBC, Catalog!Entry
  <2> HIDE DEF cfg, T, chan
  <2>5. PICK k \in Nat : /\ Named(cfg, DefaultChannel) = {k} /\ cfg.channels \in Seq(T \cup {chan})
                         /\ k \in DOMAIN cfg.channels /\ cfg.channels[k] = chan
    <3>0. chan.name = DefaultChannel /\ chan.package = Package
      BY DEF chan
    <3>1. CASE cfg.channels = <<chan>>
      <4>1. Named(cfg, DefaultChannel) = {1}
        BY <3>0, <3>1 DEF Named
      <4>2. cfg.channels \in Seq(T \cup {chan}) /\ 1 \in DOMAIN cfg.channels /\ cfg.channels[1] = chan
        BY <3>1
      <4> QED BY <4>1, <4>2
    <3>2. CASE cfg.channels = index.channels \o <<chan>>
      <4> DEFINE l == Len(index.channels)
      <4>1. index.channels \in Seq(T \cup {chan}) /\ <<chan>> \in Seq(T \cup {chan}) /\ l \in Nat
        BY <2>2
      <4>2. /\ cfg.channels \in Seq(T \cup {chan}) /\ Len(cfg.channels) = l + 1
            /\ \A i \in 1 .. l + 1 : cfg.channels[i] = IF i <= l THEN index.channels[i] ELSE <<chan>>[i - l]
        BY <4>1, <3>2, ConcatProperties
      <4>3. DOMAIN cfg.channels = 1 .. l + 1 /\ DOMAIN index.channels = 1 .. l
        BY <4>1, <4>2
      <4> HIDE DEF l
      <4>4. cfg.channels[l + 1] = chan
        BY <4>1, <4>2
      <4>5. \A i \in 1 .. l : cfg.channels[i] = index.channels[i]
        BY <4>1, <4>2
      <4>6. Named(cfg, DefaultChannel) = {l + 1}
        <5>1. \A i \in 1 .. l + 1 : i \in 1 .. l \/ i = l + 1
          BY <4>1
        <5>2. l + 1 \in 1 .. l + 1
          BY <4>1
        <5> QED BY <5>1, <5>2, <4>3, <4>4, <4>5, <2>3, <3>0 DEF Named
      <4>7. l + 1 \in Nat /\ l + 1 \in DOMAIN cfg.channels
        BY <4>1, <4>3
      <4> QED BY <4>2, <4>4, <4>6, <4>7
    <3> QED BY <2>4, <3>1, <3>2
  <2>6. Catalog!ChannelIndex(cfg, DefaultChannel) = k
    BY <2>5, ChannelOnly
  <2>7. Catalog!GetChannelHead(cfg.channels[k].entries) = {b}
    <3>1. chan.entries = <<entry>> /\ entry.name = b
      BY DEF chan
    <3> HIDE DEF entry
    <3>2. Catalog!GetChannelHead(chan.entries) \subseteq {b}
      BY <3>1 DEF Catalog!GetChannelHead
    <3> QED BY <3>2, <2>5, <1>4, ValidHead
  <2>8. Catalog!GetChannelHead(Catalog!Channel(catalog)'.entries) = {b}
    BY <1>4, <2>6, <2>7 DEF Catalog!Channel
  <2>9. injected' \in Seq(Names) /\ injected' # <<>> /\ injected'[Len(injected')] = b
    BY <1>4
  <2>10. channel' # "none" /\ index' \in Indexes
    BY <1>1, <1>4 DEF IndexImages, ChannelInv
  <2> QED BY <2>8, <2>9, <2>10 DEF ChannelInv
<1> QED BY <1>2, <1>3, <1>4

LEMMA CatalogFromImage ==
  ASSUME IndexImages, ChannelInv, Catalog!InstallFromImage
  PROVE  ChannelInv'
<1>1. PICK c \in Catalog!Range(index.channels) : c.package = Package /\ channel' = c.name
  BY DEF Catalog!InstallFromImage
<1>2. catalog' = index /\ index' = index /\ injected' = injected /\ injected = <<>>
  BY DEF Catalog!InstallFromImage, ChannelInv
<1>3. PICK C, P, Q, N, B :
        /\ Indexes \subseteq [packages : Q, channels : ChannelsOf(C, P, N), bundles : Seq(B)]
        /\ Names \subseteq N /\ 0 \in N
  BY IndexRecords
<1>4. index.channels \in Seq([name : C, package : P, entries : EntriesOf(N)])
  BY <1>3 DEF ChannelInv, ChannelsOf
<1>5. Named(index, channel') # {}
  BY <1>1 DEF Named, Catalog!Range
<1>6. Catalog!ChannelIndex(index, channel') # 0
  BY <1>4, <1>5, ChannelFound
<1> QED BY <1>2, <1>6 DEF ChannelInv

\* A successful upgrade offers its bundle.
LEMMA CatalogUpgrade ==
  ASSUME IndexImages, ChannelInv, NEW b \in Names, Catalog!UpdateCatalog(b), catalogResult' = "ok"
  PROVE  Offers(catalog', b) /\ injected' = Append(injected, b)
<1> DEFINE k == Catalog!ChannelIndex(index, channel)
<1>1. PICK head \in (IF k = 0 THEN {0} ELSE Catalog!GetChannelHead(index.channels[k].entries)) :
        LET cfg == IF injected = <<>> THEN Catalog!HandleTraditionalUpgrade(b, head)
                   ELSE Catalog!UpgradeFBC(Catalog!Refs(b), head)
            how == CASE injected # <<>> /\ k # 0 /\ b \in Catalog!EntryNames(index.channels[k]) -> "exists"
                     [] injected # <<>> /\ k > 1 -> "panic"
                     [] OTHER -> IF Catalog!ConvertToModel(cfg) THEN "ok" ELSE "invalid"
        IN /\ catalogResult' = how
           /\ IF how = "ok" THEN catalog' = cfg /\ injected' = Catalog!Annotate(b)
                            ELSE UNCHANGED <<catalog, injected>>
  BY DEF Catalog!UpdateCatalog
<1> DEFINE cfg == IF injected = <<>> THEN Catalog!HandleTraditionalUpgrade(b, head)
                  ELSE Catalog!UpgradeFBC(Catalog!Refs(b), head)
<1>2. channel # "none"
  BY DEF Catalog!UpdateCatalog
<1> HIDE DEF k
<1>3. catalog' = cfg /\ injected' = Append(injected, b)
  BY <1>1 DEF Catalog!Annotate
<1>4. Catalog!ConvertToModel(cfg) /\ ~(injected # <<>> /\ k > 1)
  BY <1>1
<1>5. CASE injected = <<>>
  <2>1. k # 0
    BY <1>2, <1>5 DEF ChannelInv, k
  <2>2. head \in Catalog!GetChannelHead(index.channels[Catalog!ChannelIndex(index, channel)].entries)
    BY <2>1, <1>1 DEF k
  <2> QED BY <2>2, <1>2, <1>3, <1>4, <1>5, UpgradeFromImage
<1>6. CASE injected # <<>>
  <2>1. k = 0 => head = 0
    BY <1>1
  <2>2. cfg = Catalog!UpgradeFBC(Append(injected, b), head)
    BY <1>6 DEF Catalog!Refs
  <2>3. ~(k > 1)
    BY <1>4, <1>6
  <2> HIDE DEF cfg
  <2> QED BY <2>1, <2>2, <2>3, <1>2, <1>3, <1>4, <1>6, UpgradeFromItems DEF k
<1> QED BY <1>5, <1>6

LEMMA CatalogUpdate ==
  ASSUME IndexImages, ChannelInv, NEW b \in Names, Catalog!UpdateCatalog(b)
  PROVE  ChannelInv'
<1>1. channel # "none" /\ channel' = channel /\ index' = index
  BY DEF Catalog!UpdateCatalog
<1>2. catalogResult' # "ok" => UNCHANGED <<catalog, injected>>
  BY DEF Catalog!UpdateCatalog
<1>3. CASE catalogResult' = "ok"
  <2>1. Offers(catalog', b) /\ injected' = Append(injected, b)
    BY <1>3, CatalogUpgrade
  <2>2. injected' \in Seq(Names) /\ injected' # <<>> /\ injected'[Len(injected')] = b
    BY <2>1 DEF ChannelInv
  <2>3. Catalog!GetChannelHead(Catalog!Channel(catalog)'.entries) = {b}
    BY <2>1, <1>1 DEF Offers, Catalog!Channel
  <2> QED BY <2>2, <2>3, <1>1 DEF ChannelInv
<1>4. CASE catalogResult' # "ok"
  BY <1>1, <1>2, <1>4 DEF ChannelInv, Catalog!Channel
<1> QED BY <1>3, <1>4

LEMMA CatalogStep ==
  ASSUME IndexImages
  PROVE  ChannelInv /\ [Catalog!Next]_(Catalog!vars) => ChannelInv'
<1> SUFFICES ASSUME ChannelInv, [Catalog!Next]_(Catalog!vars) PROVE ChannelInv'
  OBVIOUS
<1>1. CASE Catalog!Next
  BY <1>1, CatalogRunBundle, CatalogFromImage, CatalogUpdate DEF Catalog!Next
<1>2. CASE UNCHANGED Catalog!vars
  BY <1>2 DEF Catalog!vars, ChannelInv, Catalog!Channel
<1> QED BY <1>1, <1>2

\* For every index image whose channels have a single head, every sequence of
\* bundles and all failures in between: a successful upgrade makes its bundle the
\* head of the subscription's channel, and what was the head before can be
\* upgraded to it (handleTraditionalUpgrade, upgradeFBC).
THEOREM UpgradesOffered ==
  ASSUME IndexImages PROVE Catalog!Spec => UpgradePath
<1>1. Catalog!Init => ChannelInv BY CatalogStart
<1>2. ChannelInv /\ [Catalog!Next]_(Catalog!vars) => ChannelInv' BY CatalogStep
<1> DEFINE A == catalogResult' = "ok" /\ channel # "none" =>
        /\ Catalog!GetChannelHead(Catalog!Channel(catalog)'.entries) = {last'}
        /\ \A h \in Catalog!GetChannelHead(Catalog!Channel(catalog).entries) :
             Catalog!Reaches(Catalog!Channel(catalog)', last', h)
<1>3. ChannelInv /\ [Catalog!Next]_(Catalog!vars) => [A]_(Catalog!vars)
  <2> SUFFICES ASSUME ChannelInv, Catalog!Next, catalogResult' = "ok", channel # "none"
               PROVE  /\ Catalog!GetChannelHead(Catalog!Channel(catalog)'.entries) = {last'}
                      /\ \A h \in Catalog!GetChannelHead(Catalog!Channel(catalog).entries) :
                           Catalog!Reaches(Catalog!Channel(catalog)', last', h)
    OBVIOUS
  <2>1. PICK b \in Names : Catalog!UpdateCatalog(b)
    BY DEF Catalog!Next, Catalog!RunBundle, Catalog!InstallFromImage
  <2>2. Offers(catalog', b)
    BY <2>1, CatalogUpgrade
  <2>3. last' = b /\ channel' = channel
    BY <2>1 DEF Catalog!UpdateCatalog
  <2> QED BY <2>2, <2>3 DEF Offers, Catalog!Channel
<1> QED BY <1>1, <1>2, <1>3, PTL DEF Catalog!Spec, UpgradePath, Catalog!UpgradePath
=============================================================================
