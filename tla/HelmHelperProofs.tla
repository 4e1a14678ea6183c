-------------------------- MODULE HelmHelperProofs --------------------------
(***************************************************************************)
(* Theorems about what the reconciliations of the Helm operator share: the *)
(* watches of dependent resources, the informers of release secrets and    *)
(* the conditions of a status, and about the values of a release.  They    *)
(* hold for every set of workers, kinds, releases, namespaces and          *)
(* condition types and every bound on faults, restarts and time.           *)
(***************************************************************************)
EXTENDS HelmHelpers, Naturals, SequencesExt, SequenceTheorems, TLAPS

-----------------------------------------------------------------------------
(* The release hook and the table of watched kinds. *)
\* An empty list has no object.
LEMMA NothingInEmpty == Range(<<>>) = {}
  BY DEF Range

\* The first object of a list, or one of the rest.
LEMMA HeadOrTail ==
  ASSUME NEW S, NEW s \in Seq(S), s # <<>>, NEW x \in Range(s)
  PROVE  x = Head(s) \/ x \in Range(Tail(s))
<1>1. PICK i \in 1 .. Len(s) : x = s[i]
  BY DEF Range
<1>2. CASE i = 1 BY <1>1, <1>2
<1>3. CASE i > 1
  <2>1. i - 1 \in 1 .. Len(Tail(s)) /\ Tail(s)[i - 1] = x
    BY <1>1, <1>3
  <2>2. DOMAIN Tail(s) = 1 .. Len(Tail(s))
    OBVIOUS
  <2> QED BY <2>1, <2>2 DEF Range
<1> QED BY <1>2, <1>3

WatchesTyped ==
  /\ table \subseteq Kinds /\ started \in [Kinds \X Watches!Handlers -> Nat]
  /\ watchPc \in [Workers -> {"idle", "hook", "watch", "insert", "failed"}]
  /\ rel \in [Workers -> Releases] /\ docs \in [Workers -> SUBSET Documents]
  /\ items \in [Workers -> Seq(Rendered)]
  /\ \A w \in Workers : watchPc[w] \in {"watch", "insert"} => items[w] # <<>>

\* The table holds kinds that are watched, and an insertion follows its watch.
TableInv ==
  /\ \A k \in table : Watches!Watched(k)
  /\ \A w \in Workers : watchPc[w] = "insert" => Watches!Watched(Head(items[w]).kind)

\* What a worker has taken of its manifest is in the table or still in its hands.
ProgressInv ==
  \A w \in Workers : watchPc[w] \in {"hook", "watch", "insert"} =>
    \A d \in rel[w].docs \ docs[w] : \A obj \in Range(d.objects) :
      obj.kind \in table \/ obj \in Range(items[w])

HookedInv == \A r \in hooked : \A obj \in Watches!ObjectsOf(r) : obj.kind \in table

WatchesInv == WatchesTyped /\ TableInv /\ ProgressInv /\ HookedInv

\* A counter of watches only grows.
LEMMA WatchedStays ==
  ASSUME WatchesTyped, NEW w \in Workers, Watches!StartWatch(w), Head(items[w]).kind \in Kinds
  PROVE  /\ \A k \in Kinds : Watches!Watched(k) => Watches!Watched(k)'
         /\ \A k \in Kinds : k = Head(items[w]).kind => Watches!Watched(k)'
         /\ started' \in [Kinds \X Watches!Handlers -> Nat]
<1> DEFINE k0 == Head(items[w]).kind
           h0 == Watches!Handler(Head(items[w]), rel[w].ns)
<1>1. k0 \in Kinds /\ h0 \in Watches!Handlers
  BY DEF Watches!Handler, Watches!Handlers
<1>2. started' = [started EXCEPT ![<<k0, h0>>] = started[<<k0, h0>>] + 1]
  BY DEF Watches!StartWatch, Watches!Head1
<1>3. started \in [Kinds \X Watches!Handlers -> Nat]
  BY DEF WatchesTyped
<1> HIDE DEF k0, h0
<1>4. started' \in [Kinds \X Watches!Handlers -> Nat]
  BY <1>1, <1>2, <1>3
<1>5. \A k \in Kinds, h \in Watches!Handlers : started'[<<k, h>>] >= started[<<k, h>>]
  BY <1>1, <1>2, <1>3
<1>6. started'[<<k0, h0>>] > 0
  BY <1>1, <1>2, <1>3
<1>7. \A k \in Kinds : Watches!Watched(k) => Watches!Watched(k)'
  BY <1>3, <1>4, <1>5 DEF Watches!Watched, Watches!Handlers
<1>8. \A k \in Kinds : k = k0 => Watches!Watched(k)'
  BY <1>1, <1>6 DEF Watches!Watched, Watches!Handlers
<1> QED BY <1>4, <1>7, <1>8 DEF k0

\* The invariant holds when the process starts.
LEMMA WatchesStart == Watches!Init => WatchesInv
<1> SUFFICES ASSUME Watches!Init PROVE WatchesInv
  OBVIOUS
<1>1. WatchesTyped
  BY DEF Watches!Init, WatchesTyped
<1>2. TableInv /\ ProgressInv /\ HookedInv
  BY DEF Watches!Init, TableInv, ProgressInv, HookedInv
<1> QED BY <1>1, <1>2 DEF WatchesInv

\* Every step of a worker's hook keeps the invariant.
LEMMA WatchesStep ==
  ASSUME Releases \subseteq RenderedReleases, WatchesInv, [Watches!Next]_(Watches!vars)
  PROVE  WatchesInv'
<1> USE DEF WatchesInv
<1>0. \A w \in Workers : items[w] # <<>> =>
        /\ Head(items[w]) \in Rendered /\ Head(items[w]).kind \in Kinds
        /\ Tail(items[w]) \in Seq(Rendered)
  <2>1. \A w \in Workers : items[w] \in Seq(Rendered)
    BY DEF WatchesTyped
  <2>2. \A w \in Workers : items[w] # <<>> =>
          Head(items[w]) \in Rendered /\ Tail(items[w]) \in Seq(Rendered)
    BY <2>1, HeadTailProperties
  <2> QED BY <2>2 DEF Rendered
<1>1. ASSUME NEW w \in Workers, Watches!CallHook(w) PROVE WatchesInv'
  <2>1. WatchesTyped'
    BY <1>1 DEF Watches!CallHook, WatchesTyped, RenderedReleases
  <2>2. TableInv'
    BY <1>1 DEF Watches!CallHook, WatchesTyped, TableInv, Watches!Watched
  <2>3. ProgressInv'
    BY <1>1 DEF Watches!CallHook, WatchesTyped, ProgressInv
  <2>4. HookedInv'
    BY <1>1 DEF Watches!CallHook, HookedInv, Watches!ObjectsOf
  <2> QED BY <2>1, <2>2, <2>3, <2>4
<1>2. ASSUME NEW w \in Workers, Watches!NextDocument(w) PROVE WatchesInv'
  <2>0. PICK d \in docs[w] :
          /\ docs' = [docs EXCEPT ![w] = @ \ {d}]
          /\ IF d.malformed
             THEN watchPc' = [watchPc EXCEPT ![w] = "failed"] /\ UNCHANGED items
             ELSE items' = [items EXCEPT ![w] = d.objects] /\ UNCHANGED watchPc
    BY <1>2 DEF Watches!NextDocument
  <2>5. d.objects \in Seq(Rendered)
    BY DEF WatchesTyped, Documents
  <2>6. watchPc[w] = "hook" /\ items[w] = <<>> /\ UNCHANGED <<table, started, rel, hooked>>
    BY <1>2 DEF Watches!NextDocument
  <2>1. WatchesTyped'
    BY <2>0, <2>5, <2>6 DEF WatchesTyped
  <2>2. TableInv'
    BY <1>2 DEF Watches!NextDocument, WatchesTyped, TableInv, Watches!Watched
  <2>3. ProgressInv'
    <3>1. CASE d.malformed
      BY <2>0, <2>6, <3>1 DEF WatchesTyped, ProgressInv
    <3>2. CASE ~d.malformed
      <4> SUFFICES ASSUME NEW v \in Workers, watchPc'[v] \in {"hook", "watch", "insert"},
                          NEW e \in rel'[v].docs \ docs'[v], NEW obj \in Range(e.objects)
                   PROVE  obj.kind \in table' \/ obj \in Range(items'[v])
        BY DEF ProgressInv
      <4>1. CASE v # w
        BY <2>0, <2>6, <3>2, <4>1 DEF WatchesTyped, ProgressInv
      <4>2. CASE v = w
        <5>1. items'[v] = d.objects /\ docs'[v] = docs[v] \ {d}
          BY <2>0, <3>2, <4>2 DEF WatchesTyped
        <5>2. obj.kind \in table \/ obj \in Range(<<>>) \/ e = d
          BY <2>6, <4>2, <5>1 DEF ProgressInv
        <5> QED BY <2>6, <5>1, <5>2, NothingInEmpty
      <4> QED BY <4>1, <4>2
    <3> QED BY <3>1, <3>2
  <2>4. HookedInv'
    BY <1>2 DEF Watches!NextDocument, HookedInv, Watches!ObjectsOf
  <2> QED BY <2>1, <2>2, <2>3, <2>4
<1>3. ASSUME NEW w \in Workers, Watches!LookUp(w) PROVE WatchesInv'
  <2>1. WatchesTyped'
    BY <1>3, <1>0 DEF Watches!LookUp, WatchesTyped
  <2>2. TableInv'
    BY <1>3 DEF Watches!LookUp, WatchesTyped, TableInv, Watches!Watched
  <2>3. ProgressInv'
    <3>1. CASE Head(items[w]).kind \in table
      <4>1. /\ items[w] # <<>> /\ items' = [items EXCEPT ![w] = Tail(@)]
            /\ UNCHANGED <<watchPc, table, rel, docs>> /\ items[w] \in Seq(Rendered)
        BY <1>3, <3>1 DEF Watches!LookUp, Watches!Head1, WatchesTyped
      <4>2. \A x \in Range(items[w]) : x = Head(items[w]) \/ x \in Range(Tail(items[w]))
        BY <4>1, HeadOrTail
      <4> QED BY <3>1, <4>1, <4>2 DEF WatchesTyped, ProgressInv
    <3>2. CASE Head(items[w]).kind \notin table
      BY <1>3, <3>2 DEF Watches!LookUp, Watches!Head1, WatchesTyped, ProgressInv
    <3> QED BY <3>1, <3>2
  <2>4. HookedInv'
    BY <1>3 DEF Watches!LookUp, HookedInv, Watches!ObjectsOf
  <2> QED BY <2>1, <2>2, <2>3, <2>4
<1>4. ASSUME NEW w \in Workers, Watches!StartWatch(w) PROVE WatchesInv'
  <2>0. Head(items[w]).kind \in Kinds
    BY <1>4, <1>0 DEF Watches!StartWatch, WatchesTyped
  <2>1. WatchesTyped'
    BY <1>4, <2>0, WatchedStays DEF Watches!StartWatch, WatchesTyped
  <2>2. TableInv'
    <3>1. \A k \in Kinds : Watches!Watched(k) => Watches!Watched(k)'
      BY <1>4, <2>0, WatchedStays
    <3>2. \A k \in Kinds : k = Head(items[w]).kind => Watches!Watched(k)'
      BY <1>4, <2>0, WatchedStays
    <3>3. UNCHANGED <<table, items>> /\ watchPc' = [watchPc EXCEPT ![w] = "insert"]
      BY <1>4 DEF Watches!StartWatch
    <3>4. \A k \in table' : Watches!Watched(k)'
      BY <3>1, <3>3 DEF WatchesTyped, TableInv
    <3>5. ASSUME NEW v \in Workers, watchPc'[v] = "insert", NEW k, k = Head(items'[v]).kind
          PROVE  Watches!Watched(k)'
      BY <1>0, <2>0, <3>1, <3>2, <3>3, <3>5 DEF WatchesTyped, TableInv
    <3> HIDE DEF Watches!Watched
    <3> QED BY <3>4, <3>5 DEF TableInv, Watches!Watched
  <2>3. ProgressInv'
    BY <1>4 DEF Watches!StartWatch, WatchesTyped, ProgressInv
  <2>4. HookedInv'
    BY <1>4 DEF Watches!StartWatch, HookedInv, Watches!ObjectsOf
  <2> QED BY <2>1, <2>2, <2>3, <2>4
<1>5. ASSUME NEW w \in Workers, Watches!WatchFails(w) PROVE WatchesInv'
  <2>1. WatchesTyped'
    BY <1>5 DEF Watches!WatchFails, WatchesTyped
  <2>2. TableInv'
    BY <1>5 DEF Watches!WatchFails, WatchesTyped, TableInv, Watches!Watched
  <2>3. ProgressInv'
    BY <1>5 DEF Watches!WatchFails, WatchesTyped, ProgressInv
  <2>4. HookedInv'
    BY <1>5 DEF Watches!WatchFails, HookedInv, Watches!ObjectsOf
  <2> QED BY <2>1, <2>2, <2>3, <2>4
<1>6. ASSUME NEW w \in Workers, Watches!Insert(w) PROVE WatchesInv'
  <2>0. items[w] # <<>>
    BY <1>6 DEF Watches!Insert, WatchesTyped
  <2>1. WatchesTyped'
    BY <1>6, <1>0, <2>0 DEF Watches!Insert, Watches!Head1, WatchesTyped
  <2>2. TableInv'
    BY <1>6 DEF Watches!Insert, Watches!Head1, WatchesTyped, TableInv, Watches!Watched
  <2>3. ProgressInv'
    BY <1>6, <2>0, HeadOrTail DEF Watches!Insert, Watches!Head1, WatchesTyped, ProgressInv
  <2>4. HookedInv'
    BY <1>6 DEF Watches!Insert, HookedInv, Watches!ObjectsOf
  <2> QED BY <2>1, <2>2, <2>3, <2>4
<1>7. ASSUME NEW w \in Workers, Watches!HookReturns(w) PROVE WatchesInv'
  <2>1. WatchesTyped'
    BY <1>7 DEF Watches!HookReturns, WatchesTyped
  <2>2. TableInv'
    BY <1>7 DEF Watches!HookReturns, WatchesTyped, TableInv, Watches!Watched
  <2>3. ProgressInv'
    BY <1>7 DEF Watches!HookReturns, WatchesTyped, ProgressInv
  <2>4. \A obj \in Watches!ObjectsOf(rel[w]) : obj.kind \in table
    <3>1. \A d \in rel[w].docs : \A obj \in Range(d.objects) :
            obj.kind \in table \/ obj \in Range(<<>>)
      BY <1>7 DEF Watches!HookReturns, ProgressInv
    <3> QED BY <3>1, NothingInEmpty DEF Watches!ObjectsOf, Watches!Range, Range
  <2>5. HookedInv'
    BY <1>7, <2>4 DEF Watches!HookReturns, HookedInv, Watches!ObjectsOf
  <2> QED BY <2>1, <2>2, <2>3, <2>5
<1>8. CASE UNCHANGED Watches!vars
  BY <1>8 DEF Watches!vars, WatchesTyped, TableInv, ProgressInv, HookedInv,
       Watches!Watched, Watches!ObjectsOf
<1> QED
  BY <1>1, <1>2, <1>3, <1>4, <1>5, <1>6, <1>7, <1>8 DEF Watches!Next, Watches!Step

\* A release hook that returned nil has left every kind of its manifest in the
\* table and watched, whoever of the workers started the watch.
THEOREM HookedKindsWatched ==
  ASSUME Releases \subseteq RenderedReleases
  PROVE  Watches!Spec => []HookCovers
<1>1. WatchesInv => HookCovers
  BY DEF HookCovers, WatchesInv, TableInv, HookedInv, Watches!HookCovers
<1>2. WatchesInv /\ [Watches!Next]_(Watches!vars) => WatchesInv'
  BY WatchesStep
<1> QED BY <1>1, <1>2, WatchesStart, PTL DEF Watches!Spec

-----------------------------------------------------------------------------
(* The informers of release secrets. *)
\* A worker inside the mutex: it has not yet unlocked it.
Inside(w) == informerPc[w] \in {"write", "sync", "unlock"}

\* A worker that has been told that its namespace has an informer.
Told(w) == informerPc[w] \in {"unlock", "read", "use"}

InformersTyped ==
  /\ mutex \in BOOLEAN /\ entries \subseteq Namespaces
  /\ informer \in [Namespaces -> {"none", "running", "synced"}]
  /\ informerPc \in [Callers -> {"idle", "lock", "write", "sync", "unlock", "read", "use"}]
  /\ ns \in [Callers -> Namespaces]

\* The mutex excludes: who is inside holds it, alone.
MutexInv ==
  /\ \A w \in Callers : Inside(w) => mutex
  /\ \A v, w \in Callers : Inside(v) /\ Inside(w) => v = w

\* An entry without a synced informer is being waited for inside the mutex.
EntriesInv ==
  /\ \A n \in entries : \/ informer[n] = "synced"
                        \/ \E w \in Callers : informerPc[w] = "sync" /\ ns[w] = n
  /\ \A w \in Callers : informerPc[w] = "write" => ns[w] \notin entries
  /\ \A w \in Callers : informerPc[w] = "sync" => ns[w] \in entries
  /\ \A w \in Callers : Told(w) => ns[w] \in entries /\ informer[ns[w]] = "synced"

InformersInv == InformersTyped /\ MutexInv /\ EntriesInv

\* The invariant holds when the process starts, and again after a restart.
LEMMA InformersStart == Informers!Init => InformersInv
  BY DEF Informers!Init, Informers!NoInformers, Informers!AllIdle, InformersInv,
       InformersTyped, MutexInv, EntriesInv, Inside, Told

\* Every step of a worker and every answer of the API server keeps the invariant.
LEMMA InformersStep == InformersInv /\ [Informers!Next]_(Informers!vars) => InformersInv'
<1> SUFFICES ASSUME InformersInv, [Informers!Next]_(Informers!vars) PROVE InformersInv'
  OBVIOUS
<1> USE DEF InformersInv, Inside, Told
<1>1. ASSUME NEW w \in Callers, Informers!Call(w) PROVE InformersInv'
  BY <1>1 DEF Informers!Call, InformersTyped, MutexInv, EntriesInv
<1>2. ASSUME NEW w \in Callers, Informers!Lock(w) PROVE InformersInv'
  <2>1. InformersTyped' BY <1>2 DEF Informers!Lock, InformersTyped
  <2>2. MutexInv' BY <1>2 DEF Informers!Lock, InformersTyped, MutexInv
  <2>3. EntriesInv' BY <1>2 DEF Informers!Lock, InformersTyped, MutexInv, EntriesInv
  <2> QED BY <2>1, <2>2, <2>3
<1>3. ASSUME NEW w \in Callers, Informers!Store(w) PROVE InformersInv'
  <2>1. InformersTyped' BY <1>3 DEF Informers!Store, InformersTyped
  <2>2. MutexInv' BY <1>3 DEF Informers!Store, InformersTyped, MutexInv
  <2>3. EntriesInv' BY <1>3 DEF Informers!Store, InformersTyped, MutexInv, EntriesInv
  <2> QED BY <2>1, <2>2, <2>3
<1>4. ASSUME NEW w \in Callers, Informers!Synced(w) PROVE InformersInv'
  <2>1. InformersTyped' BY <1>4 DEF Informers!Synced, InformersTyped
  <2>2. MutexInv' BY <1>4 DEF Informers!Synced, InformersTyped, MutexInv
  <2>3. EntriesInv' BY <1>4 DEF Informers!Synced, InformersTyped, MutexInv, EntriesInv
  <2> QED BY <2>1, <2>2, <2>3
<1>5. ASSUME NEW w \in Callers, Informers!Unlock(w) PROVE InformersInv'
  <2>1. InformersTyped' BY <1>5 DEF Informers!Unlock, InformersTyped
  <2>2. MutexInv' BY <1>5 DEF Informers!Unlock, InformersTyped, MutexInv
  <2>3. EntriesInv' BY <1>5 DEF Informers!Unlock, InformersTyped, EntriesInv
  <2> QED BY <2>1, <2>2, <2>3
<1>6. ASSUME NEW w \in Callers, Informers!Read(w) PROVE InformersInv'
  BY <1>6 DEF Informers!Read, InformersTyped, MutexInv, EntriesInv
<1>7. ASSUME NEW w \in Callers, Informers!FatalRead(w) PROVE InformersInv'
  BY <1>7 DEF Informers!FatalRead, Informers!NoInformers, Informers!AllIdle,
       InformersTyped, MutexInv, EntriesInv
<1>8. ASSUME NEW w \in Callers, Informers!Finish(w) PROVE InformersInv'
  BY <1>8 DEF Informers!Finish, InformersTyped, MutexInv, EntriesInv
<1>9. ASSUME NEW n \in Namespaces, Informers!ListAnswered(n) PROVE InformersInv'
  BY <1>9 DEF Informers!ListAnswered, InformersTyped, MutexInv, EntriesInv
<1>10. CASE UNCHANGED Informers!vars
  BY <1>10 DEF Informers!vars, InformersTyped, MutexInv, EntriesInv
<1> QED
  BY <1>1, <1>2, <1>3, <1>4, <1>5, <1>6, <1>7, <1>8, <1>9, <1>10
  DEF Informers!Next, Informers!Step

\* No reconciliation works with an informer that has not loaded the releases of
\* its namespace.
THEOREM InformersSynced == Informers!Spec => []SyncedBeforeUse
<1>1. InformersInv => SyncedBeforeUse
  BY DEF SyncedBeforeUse, InformersInv, EntriesInv, Told, Informers!SyncedBeforeUse
<1> QED BY <1>1, InformersStart, InformersStep, PTL DEF Informers!Spec

-----------------------------------------------------------------------------
(* The conditions of a HelmApp's status. *)
ConditionRecords == [type : Types, status : Stati, time : Nat]

ConditionsTyped ==
  /\ conditions \in Seq(ConditionRecords)
  /\ since \in [Types -> Nat] /\ now \in Nat

\* The slice holds at most one condition of a type.
OnePerType ==
  \A i, j \in 1 .. Len(conditions) : conditions[i].type = conditions[j].type => i = j

TimesInv == \A i \in 1 .. Len(conditions) : conditions[i].time = since[conditions[i].type]

ConditionsInv == ConditionsTyped /\ OnePerType /\ TimesInv

\* With one condition of a type at most, the search finds it or there is none.
LEMMA FindFinds ==
  ASSUME OnePerType, NEW t
  PROVE  \/ /\ Conditions!Find(t) = 0
            /\ \A i \in 1 .. Len(conditions) : conditions[i].type # t
         \/ /\ Conditions!Find(t) \in 1 .. Len(conditions)
            /\ conditions[Conditions!Find(t)].type = t
<1> DEFINE I == {i \in 1 .. Len(conditions) : conditions[i].type = t}
<1>1. Conditions!Find(t) = IF I # {} THEN Conditions!Min(I) ELSE 0
  BY DEF Conditions!Find, Conditions!SelectInSeq
<1>2. CASE I = {}
  BY <1>1, <1>2
<1>3. CASE I # {}
  <2>1. PICK i \in 1 .. Len(conditions) : conditions[i].type = t
    BY <1>3
  <2>2. I = {i}
    BY <2>1 DEF OnePerType
  <2>3. Conditions!Min({i}) = i
    BY DEF Conditions!Min
  <2> QED BY <1>1, <2>1, <2>2, <2>3
<1> QED BY <1>2, <1>3

\* Removing the i-th element moves the ones behind it up by one.
LEMMA RemoveAtElements ==
  ASSUME NEW S, NEW s \in Seq(S), NEW i \in 1 .. Len(s)
  PROVE  LET r == Conditions!RemoveAt(s, i)
         IN  /\ r \in Seq(S) /\ Len(r) = Len(s) - 1
             /\ \A j \in 1 .. Len(r) : r[j] = IF j < i THEN s[j] ELSE s[j + 1]
<1> DEFINE a == SubSeq(s, 1, i - 1)
           b == SubSeq(s, i + 1, Len(s))
<1>1. a \in Seq(S) /\ Len(a) = i - 1 /\ \A j \in 1 .. i - 1 : a[j] = s[j]
  OBVIOUS
<1>2. b \in Seq(S) /\ Len(b) = Len(s) - i /\ \A j \in 1 .. Len(s) - i : b[j] = s[i + j]
  OBVIOUS
<1> HIDE DEF a, b
<1>3. /\ a \o b \in Seq(S) /\ Len(a \o b) = Len(s) - 1
      /\ \A j \in 1 .. Len(s) - 1 : (a \o b)[j] = IF j < i THEN s[j] ELSE s[j + 1]
  <2>1. a \o b \in Seq(S) /\ Len(a \o b) = Len(s) - 1
    <3>1. a \in Seq(S) /\ b \in Seq(S) BY <1>1, <1>2
    <3>2. a \o b \in Seq(S) /\ Len(a \o b) = Len(a) + Len(b) BY ONLY <3>1, ConcatProperties
    <3>3. Len(s) \in Nat /\ Len(a) + Len(b) = Len(s) - 1 BY <1>1, <1>2
    <3> QED BY <3>2, <3>3
  <2>2. ASSUME NEW j \in 1 .. Len(s) - 1, j < i PROVE (a \o b)[j] = s[j]
    BY <1>1, <1>2, <2>2
  <2>3. ASSUME NEW j \in 1 .. Len(s) - 1, ~(j < i) PROVE (a \o b)[j] = s[j + 1]
    <3>1. j - Len(a) \in 1 .. Len(b) /\ i + (j - Len(a)) = j + 1
      BY <1>1, <1>2, <2>3
    <3>2. (a \o b)[j] = b[j - Len(a)]
      BY <1>1, <1>2, <2>3, <3>1
    <3> QED BY <1>2, <3>1, <3>2
  <2> QED BY <2>1, <2>2, <2>3
<1>4. Conditions!RemoveAt(s, i) = a \o b
  BY DEF Conditions!RemoveAt, a, b
<1> QED BY <1>3, <1>4

\* A new status has no conditions.
LEMMA ConditionsStart == Conditions!Init => ConditionsInv
  BY DEF Conditions!Init, ConditionsInv, ConditionsTyped, OnePerType, TimesInv

\* Reporting a condition keeps one condition per type, with its time.
LEMMA ConditionsSet ==
  ASSUME ConditionsInv, NEW t \in Types, NEW s \in Stati, Conditions!Set(t, s)
  PROVE  ConditionsInv'
<1> USE DEF ConditionsInv
<1> DEFINE i == Conditions!Find(t)
           c == [type |-> t, status |-> s, time |-> Conditions!TransitionTime(i, s)]
<1>1. /\ conditions' = IF i = 0 THEN Append(conditions, c) ELSE [conditions EXCEPT ![i] = c]
      /\ since' = [since EXCEPT ![t] =
           IF \E d \in Conditions!Range(conditions) : d.type = t /\ d.status = s
           THEN @ ELSE now]
      /\ now' = now
  BY DEF Conditions!Set, Conditions!SetCondition
<1>0. /\ Len(conditions) \in Nat
      /\ \A j \in 1 .. Len(conditions) : conditions[j].type \in Types
      /\ now \in Nat /\ since \in [Types -> Nat]
      /\ \A d : d \in Conditions!Range(conditions)
                 <=> \E j \in 1 .. Len(conditions) : d = conditions[j]
  <2>1. DOMAIN conditions = 1 .. Len(conditions) /\ Len(conditions) \in Nat
    BY DEF ConditionsTyped
  <2>2. \A j \in 1 .. Len(conditions) : conditions[j] \in ConditionRecords
    BY DEF ConditionsTyped
  <2> QED BY <2>1, <2>2 DEF Conditions!Range, ConditionsTyped, ConditionRecords
<1>2. CASE i = 0
  <2>1. \A j \in 1 .. Len(conditions) : conditions[j].type # t
    BY <1>2, FindFinds DEF i
  <2>2. c = [type |-> t, status |-> s, time |-> now] /\ c \in ConditionRecords
    BY <1>2 DEF Conditions!TransitionTime, ConditionsTyped, ConditionRecords
  <2>3. since' = [since EXCEPT ![t] = now]
    <3>1. ~\E d \in Conditions!Range(conditions) : d.type = t /\ d.status = s
      BY <1>0, <2>1
    <3> QED BY <1>1, <3>1
  <2>4. conditions' = Append(conditions, c)
    BY <1>1, <1>2
  <2> HIDE DEF i, c
  <2>5. ConditionsTyped'
    BY <1>1, <2>2, <2>3, <2>4 DEF ConditionsTyped
  <2>6. /\ Len(conditions') = Len(conditions) + 1 /\ conditions'[Len(conditions) + 1] = c
        /\ \A j \in 1 .. Len(conditions) : conditions'[j] = conditions[j]
    BY <2>2, <2>4 DEF ConditionsTyped
  <2>7. OnePerType'
    BY <1>0, <2>1, <2>2, <2>6 DEF OnePerType
  <2>8. TimesInv'
    BY <1>0, <2>1, <2>2, <2>3, <2>6 DEF TimesInv
  <2> QED BY <2>5, <2>7, <2>8
<1>3. CASE i # 0
  <2>1. i \in 1 .. Len(conditions) /\ conditions[i].type = t
    BY <1>3, FindFinds DEF i
  <2>2. \A j \in 1 .. Len(conditions) : conditions[j].type = t => j = i
    BY <2>1 DEF OnePerType
  <2>3. conditions' = [conditions EXCEPT ![i] = c]
    BY <1>1, <1>3
  <2>4. conditions[i] \in ConditionRecords
    BY <2>1 DEF ConditionsTyped
  <2>5. /\ c \in ConditionRecords /\ c.type = t
        /\ c.time = IF conditions[i].status # s THEN now ELSE conditions[i].time
    BY <1>3, <2>4 DEF Conditions!TransitionTime, ConditionsTyped, ConditionRecords
  <2>6. since' = [since EXCEPT ![t] = IF conditions[i].status = s THEN @ ELSE now]
    <3>1. (\E d \in Conditions!Range(conditions) : d.type = t /\ d.status = s)
            <=> conditions[i].status = s
      BY <1>0, <2>1, <2>2
    <3> QED BY <1>1, <3>1
  <2> HIDE DEF i, c
  <2>7. ConditionsTyped'
    BY <1>1, <2>1, <2>3, <2>5, <2>6 DEF ConditionsTyped
  <2>8. /\ Len(conditions') = Len(conditions) /\ conditions'[i] = c
        /\ \A j \in 1 .. Len(conditions) : j # i => conditions'[j] = conditions[j]
    BY <2>1, <2>3 DEF ConditionsTyped
  <2>9. OnePerType'
    BY <2>1, <2>2, <2>5, <2>8 DEF OnePerType
  <2>10. TimesInv'
    BY <1>0, <2>1, <2>2, <2>5, <2>6, <2>8 DEF TimesInv
  <2> QED BY <2>7, <2>9, <2>10
<1> QED BY <1>2, <1>3

\* Removing a condition leaves the others and their times.
LEMMA ConditionsDrop ==
  ASSUME ConditionsInv, NEW t \in Types, Conditions!Drop(t)
  PROVE  ConditionsInv'
<1> USE DEF ConditionsInv
<1> DEFINE i == Conditions!Find(t)
<1>1. /\ conditions' = IF i = 0 THEN conditions ELSE Conditions!RemoveAt(conditions, i)
      /\ UNCHANGED <<since, now>>
  BY DEF Conditions!Drop, Conditions!RemoveCondition
<1>2. CASE i = 0
  BY <1>1, <1>2 DEF ConditionsTyped, OnePerType, TimesInv
<1>3. CASE i # 0
  <2>0. Len(conditions) \in Nat
    BY DEF ConditionsTyped
  <2>1. i \in 1 .. Len(conditions)
    BY <1>3, FindFinds
  <2>2. conditions' = Conditions!RemoveAt(conditions, i)
    BY <1>1, <1>3
  <2> HIDE DEF i
  <2>3. /\ conditions' \in Seq(ConditionRecords)
        /\ Len(conditions') = Len(conditions) - 1
        /\ \A j \in 1 .. Len(conditions') :
             conditions'[j] = IF j < i THEN conditions[j] ELSE conditions[j + 1]
    BY <2>1, <2>2, RemoveAtElements DEF ConditionsTyped
  <2>4. ConditionsTyped'
    BY <1>1, <2>3 DEF ConditionsTyped
  <2>5. OnePerType'
    BY <2>0, <2>1, <2>3 DEF OnePerType
  <2>6. TimesInv'
    <3> SUFFICES ASSUME NEW j \in 1 .. Len(conditions')
                 PROVE  conditions'[j].time = since[conditions'[j].type]
      BY <1>1 DEF TimesInv
    <3>1. j \in 1 .. Len(conditions) /\ j + 1 \in 1 .. Len(conditions)
      BY <2>0, <2>3
    <3>2. conditions'[j] = conditions[j] \/ conditions'[j] = conditions[j + 1]
      BY <2>3
    <3> QED BY <3>1, <3>2 DEF TimesInv
  <2> QED BY <2>4, <2>5, <2>6
<1> QED BY <1>2, <1>3

\* The transition time of a condition is when it got its present status, after
\* any sequence of reports and removals.
THEOREM TransitionTimes == Conditions!Spec => []TransitionTimeFaithful
<1>1. ConditionsInv /\ [Conditions!Next]_(Conditions!vars) => ConditionsInv'
  <2> SUFFICES ASSUME ConditionsInv, [Conditions!Next]_(Conditions!vars) PROVE ConditionsInv'
    OBVIOUS
  <2>1. CASE Conditions!Tick
    BY <2>1 DEF Conditions!Tick, ConditionsInv, ConditionsTyped, OnePerType, TimesInv
  <2>2. CASE UNCHANGED Conditions!vars
    BY <2>2 DEF Conditions!vars, ConditionsInv, ConditionsTyped, OnePerType, TimesInv
  <2> QED BY <2>1, <2>2, ConditionsSet, ConditionsDrop DEF Conditions!Next
<1>2. ConditionsInv => TransitionTimeFaithful
  BY DEF TransitionTimeFaithful, ConditionsInv, ConditionsTyped, TimesInv,
       Conditions!TransitionTimeFaithful, Conditions!Range
<1> QED BY <1>1, <1>2, ConditionsStart, PTL DEF Conditions!Spec

-----------------------------------------------------------------------------
(* The values of a release. *)

\* Paths are compared key by key.
LEMMA PrefixByKeys ==
  ASSUME NEW p \in Seq(STRING), NEW q \in Seq(STRING)
  PROVE  Values!IsPrefix(p, q) <=> Len(p) <= Len(q) /\ \A i \in 1 .. Len(p) : p[i] = q[i]
<1>1. CASE Len(p) <= Len(q)
  <2> DEFINE a == SubSeq(p, 1, Len(p))
             b == SubSeq(q, 1, Len(p))
  <2>1. /\ a \in Seq(STRING) /\ b \in Seq(STRING) /\ Len(a) = Len(p) /\ Len(b) = Len(p)
        /\ \A i \in 1 .. Len(p) : a[i] = p[i] /\ b[i] = q[i]
    BY <1>1
  <2> HIDE DEF a, b
  <2>2. a = b <=> \A i \in 1 .. Len(p) : p[i] = q[i]
    BY <2>1, SeqEqual
  <2> QED BY <2>2, <1>1 DEF a, b, Values!IsPrefix
<1>2. CASE ~(Len(p) <= Len(q)) BY <1>2 DEF Values!IsPrefix
<1> QED BY <1>1, <1>2

LEMMA PrefixOrder ==
  ASSUME NEW p \in Seq(STRING), NEW q \in Seq(STRING), NEW r \in Seq(STRING)
  PROVE  /\ Values!IsPrefix(p, p) /\ Values!IsPrefix(<<>>, p)
         /\ Values!IsPrefix(p, q) /\ Values!IsPrefix(q, p) => p = q
         /\ Values!IsPrefix(p, q) /\ Values!IsPrefix(q, r) => Values!IsPrefix(p, r)
         /\ Values!IsPrefix(p, r) /\ Values!IsPrefix(q, r) =>
              Values!IsPrefix(p, q) \/ Values!IsPrefix(q, p)
<1>1. Values!IsPrefix(p, p) BY PrefixByKeys
<1>2. Values!IsPrefix(<<>>, p)
  <2>1. <<>> \in Seq(STRING) OBVIOUS
  <2>2. Len(<<>>) <= Len(p) /\ \A i \in 1 .. Len(<<>>) : <<>>[i] = p[i] OBVIOUS
  <2> QED BY ONLY <2>1, <2>2, PrefixByKeys, p \in Seq(STRING)
<1>3. Values!IsPrefix(p, q) /\ Values!IsPrefix(q, p) => p = q
  BY PrefixByKeys, SeqEqual
<1>4. Values!IsPrefix(p, q) /\ Values!IsPrefix(q, r) => Values!IsPrefix(p, r)
  BY PrefixByKeys
<1>5. Values!IsPrefix(p, r) /\ Values!IsPrefix(q, r) =>
        Values!IsPrefix(p, q) \/ Values!IsPrefix(q, p)
  BY PrefixByKeys
<1> QED BY <1>1, <1>2, <1>3, <1>4, <1>5

\* The key of a map that leads to a leaf below it: nothing is between the two.
LEMMA KeyOfLeaf ==
  ASSUME NEW p \in Seq(STRING), NEW q \in Seq(STRING), Values!IsStrictPrefix(p, q),
         NEW k, k = Append(p, q[Len(p) + 1])
  PROVE  /\ k \in Seq(STRING) /\ Values!IsStrictPrefix(p, k) /\ Values!IsPrefix(k, q)
         /\ \A r \in Seq(STRING) : Values!IsPrefix(r, k) => r = k \/ Values!IsPrefix(r, p)
<1>1. Len(p) <= Len(q) /\ \A i \in 1 .. Len(p) : p[i] = q[i]
  BY PrefixByKeys DEF Values!IsStrictPrefix
<1>2. Len(p) # Len(q)
  BY <1>1, SeqEqual DEF Values!IsStrictPrefix
<1>3. Len(p) \in Nat /\ Len(q) \in Nat OBVIOUS
<1>4. Len(p) + 1 \in 1 .. Len(q) BY <1>1, <1>2, <1>3
<1>5. q[Len(p) + 1] \in STRING BY <1>4
<1>6. /\ k \in Seq(STRING) /\ Len(k) = Len(p) + 1
      /\ \A i \in 1 .. Len(p) : k[i] = p[i]
      /\ k[Len(p) + 1] = q[Len(p) + 1]
  BY <1>5
<1>7. \A i \in 1 .. Len(k) : k[i] = q[i]
  BY <1>6, <1>1, <1>3
<1>8. Values!IsPrefix(k, q)
  <2>1. Len(k) <= Len(q) BY <1>6, <1>4, <1>3
  <2> QED BY <2>1, <1>6, <1>7, PrefixByKeys
<1>9. Values!IsPrefix(p, k)
  <2>1. Len(p) <= Len(k) BY <1>6, <1>3
  <2> QED BY <2>1, <1>6, PrefixByKeys
<1>10. p # k BY <1>6, <1>3
<1>11. ASSUME NEW r \in Seq(STRING), Values!IsPrefix(r, k), ~Values!IsPrefix(r, p) PROVE r = k
  <2>1. Len(r) <= Len(k) /\ \A i \in 1 .. Len(r) : r[i] = k[i]
    BY <1>11, <1>6, PrefixByKeys
  <2>2. ~(Len(r) <= Len(p))
    <3> SUFFICES ASSUME Len(r) <= Len(p) PROVE FALSE OBVIOUS
    <3>1. \A i \in 1 .. Len(r) : r[i] = p[i] BY <2>1, <1>6, <1>3
    <3> QED BY <3>1, <1>11, PrefixByKeys
  <2>3. Len(r) = Len(k) BY <2>1, <2>2, <1>6, <1>3
  <2> QED BY <2>1, <2>3, <1>6, SeqEqual
<1> QED BY <1>6, <1>8, <1>9, <1>10, <1>11 DEF Values!IsStrictPrefix

\* An override that a call of mergeMaps has still to deal with.
Pending(m) == \E p \in calls : Values!IsStrictPrefix(p, m[1])
Incomparable(l, m) == ~Values!IsPrefix(l[1], m[1]) /\ ~Values!IsPrefix(m[1], l[1])

\* The calls are at different maps, which both trees have; what they have not
\* dealt with is still that of the spec.
CallsInv ==
  /\ \A p \in calls : p \in Seq(STRING)
  /\ \A p, q \in calls : Values!IsPrefix(p, q) => p = q
  /\ \A p \in calls : p # <<>> => Values!Below(spec, p) # {} /\ Values!Below(parsed, p) # {}
MergedInv ==
  values = {m \in parsed : ~Pending(m)}
           \cup {l \in spec : \A m \in parsed : Pending(m) \/ Incomparable(l, m)}

ValuesInv ==
  /\ spec \in Specs /\ given \in Overrides /\ overrides \subseteq given /\ parsed \subseteq given
  /\ Tree(parsed)
  /\ valuePc \in {"merge", "done"} => CallsInv /\ MergedInv
  /\ valuePc = "done" => calls = {}

\* Setting a leaf keeps a tree a tree.
LEMMA SetLeafTree ==
  ASSUME NEW tree, Leaves(tree), Tree(tree), NEW leaf, leaf[1] \in Seq(STRING),
         ~Values!Blocked(tree, leaf[1])
  PROVE  Tree(Values!SetLeaf(tree, leaf))
<1> SUFFICES ASSUME NEW l \in Values!SetLeaf(tree, leaf), NEW m \in Values!SetLeaf(tree, leaf),
                    Values!IsPrefix(l[1], m[1])
             PROVE  l = m
  BY DEF Tree
<1>1. CASE l = leaf BY <1>1 DEF Values!SetLeaf
<1>2. CASE m = leaf /\ l # leaf
  <2>1. l \in tree /\ l[1] \in Seq(STRING) /\ ~Values!IsPrefix(leaf[1], l[1])
    BY <1>2 DEF Values!SetLeaf, Leaves
  <2>2. l[1] = leaf[1] BY <2>1, <1>2 DEF Values!Blocked, Values!IsStrictPrefix
  <2> QED BY <2>1, <2>2, PrefixOrder
<1>3. CASE l # leaf /\ m # leaf BY <1>3 DEF Values!SetLeaf, Tree
<1> QED BY <1>1, <1>2, <1>3

LEMMA ValuesParse ==
  ASSUME ValueInputs, ValuesInv, Values!ParseOverride
  PROVE  ValuesInv'
<1>1. PICK leaf \in overrides :
        \/ /\ valuePc' = "error" /\ parsed' = parsed /\ overrides' = overrides
        \/ /\ ~Values!Blocked(parsed, leaf[1]) /\ parsed' = Values!SetLeaf(parsed, leaf)
           /\ overrides' = overrides \ {leaf} /\ valuePc' = valuePc
  BY DEF Values!ParseOverride
<1>2. valuePc = "parse" /\ UNCHANGED <<spec, given, calls, values>>
  BY DEF Values!ParseOverride
<1>3. leaf \in given /\ leaf[1] \in Seq(STRING) /\ Leaves(parsed)
  BY DEF ValuesInv, ValueInputs, Leaves
<1>4. parsed' \subseteq given /\ overrides' \subseteq given
  BY <1>1, <1>3 DEF ValuesInv, Values!SetLeaf
<1>5. Tree(parsed')
  BY <1>1, <1>3, SetLeafTree DEF ValuesInv
<1>6. Tree(parsed)' BY <1>5 DEF Tree
<1>7. valuePc' \notin {"merge", "done"} BY <1>1, <1>2
<1> QED BY <1>2, <1>4, <1>6, <1>7 DEF ValuesInv

LEMMA ValuesStart ==
  ASSUME ValueInputs, ValuesInv, Values!NewManager
  PROVE  ValuesInv'
<1>1. /\ calls' = {<<>>} /\ values' = spec /\ valuePc' = "merge"
      /\ UNCHANGED <<spec, overrides, given, parsed>>
  BY DEF Values!NewManager
<1>2. \A m \in parsed : m[1] \in Seq(STRING) /\ m[1] # <<>>
  BY DEF ValuesInv, ValueInputs, Leaves
<1>3. <<>> \in Seq(STRING) OBVIOUS
<1>4. \A m \in parsed : Pending(m)'
  <2>1. \A m \in parsed : Values!IsStrictPrefix(<<>>, m[1])
    BY <1>2, PrefixOrder DEF Values!IsStrictPrefix
  <2> QED BY <2>1, <1>1 DEF Pending
<1>5. CallsInv'
  <2>1. \A q \in calls' : q = <<>> /\ q \in Seq(STRING) BY <1>1, <1>3
  <2>2. \A p, q \in calls' : Values!IsPrefix(p, q) => p = q BY <2>1
  <2> QED BY <2>1, <2>2 DEF CallsInv
<1>6. MergedInv' BY <1>1, <1>4 DEF MergedInv
<1>7. Tree(parsed)' BY <1>1 DEF ValuesInv, Tree
<1> QED BY <1>1, <1>5, <1>6, <1>7 DEF ValuesInv

\* At a map it is called for, mergeMaps finds what the spec has there.
LEMMA BelowCall ==
  ASSUME ValueInputs, ValuesInv, valuePc = "merge", NEW p \in calls
  PROVE  Values!Below(values, p) = Values!Below(spec, p)
<1>0. CallsInv /\ MergedInv /\ p \in Seq(STRING) BY DEF ValuesInv, CallsInv
<1>1. \A m \in parsed : m[1] \in Seq(STRING) /\ m[1] # <<>>
  BY DEF ValuesInv, ValueInputs, Leaves
<1>2. \A l \in spec : l[1] \in Seq(STRING)
  BY DEF ValuesInv, ValueInputs, Leaves
<1>3. \A m \in parsed : Values!IsStrictPrefix(p, m[1]) => Pending(m) BY DEF Pending
<1>4. ASSUME NEW m \in parsed, ~Pending(m) PROVE ~Values!IsPrefix(m[1], p) /\ ~Values!IsPrefix(p, m[1])
  <2>1. CASE p = <<>>
    <3>1. Values!IsStrictPrefix(p, m[1]) BY <2>1, <1>1, PrefixOrder DEF Values!IsStrictPrefix
    <3> QED BY <3>1, <1>3, <1>4
  <2>2. CASE p # <<>>
    <3>1. PICK n \in parsed : Values!IsPrefix(p, n[1]) /\ p # n[1]
      BY <2>2, <1>0 DEF CallsInv, Values!Below, Values!IsStrictPrefix
    <3>2. ~Values!IsPrefix(m[1], p)
      <4> SUFFICES ASSUME Values!IsPrefix(m[1], p) PROVE FALSE OBVIOUS
      <4>1. Values!IsPrefix(m[1], n[1]) BY <3>1, <1>0, <1>1, PrefixOrder
      <4>2. m = n BY <4>1 DEF ValuesInv, Tree
      <4>3. p = m[1] BY <4>2, <3>1, <1>0, <1>1, PrefixOrder
      <4> QED BY <4>2, <4>3, <3>1
    <3>3. ~Values!IsPrefix(p, m[1])
      BY <3>2, <1>3, <1>4, <1>0, PrefixOrder DEF Values!IsStrictPrefix
    <3> QED BY <3>2, <3>3
  <2> QED BY <2>1, <2>2
<1>5. ASSUME NEW l \in spec, Values!IsStrictPrefix(p, l[1]), NEW m \in parsed, ~Pending(m)
      PROVE  Incomparable(l, m)
  <2>1. Values!IsPrefix(p, l[1]) BY <1>5 DEF Values!IsStrictPrefix
  <2>2. ~Values!IsPrefix(l[1], m[1])
    BY <2>1, <1>4, <1>5, <1>0, <1>1, <1>2, PrefixOrder
  <2>3. ~Values!IsPrefix(m[1], l[1])
    BY <2>1, <1>4, <1>5, <1>0, <1>1, <1>2, PrefixOrder
  <2> QED BY <2>2, <2>3 DEF Incomparable
<1>6. ASSUME NEW l \in spec, Values!IsStrictPrefix(p, l[1]) PROVE l \in values
  BY <1>5, <1>6, <1>0 DEF MergedInv
<1>7. ASSUME NEW v \in values, Values!IsStrictPrefix(p, v[1]) PROVE v \in spec
  BY <1>3, <1>7, <1>0 DEF MergedInv
<1> QED BY <1>6, <1>7 DEF Values!Below

LEMMA ValuesMerge ==
  ASSUME ValueInputs, ValuesInv, NEW p \in calls, Values!MergeMaps(p)
  PROVE  ValuesInv'
<1> DEFINE K == Values!KeysOf(parsed, p)
           M == {k \in K : Values!IsMap(values, k) /\ Values!IsMap(parsed, k)}
           R == K \ M
           Taken(m) == \E k \in R : Values!IsPrefix(k, m[1])
<1>1. /\ valuePc = "merge" /\ values' = Values!Replace(R) /\ calls' = (calls \ {p}) \cup M
      /\ valuePc' \in {"merge", "done"} /\ (valuePc' = "done" => calls' = {})
      /\ UNCHANGED <<spec, overrides, given, parsed>>
  BY DEF Values!MergeMaps, Values!Merge
<1>2. CallsInv /\ MergedInv /\ p \in Seq(STRING) BY <1>1 DEF ValuesInv, CallsInv
<1>3. /\ \A m \in parsed : m[1] \in Seq(STRING) /\ m[1] # <<>>
      /\ \A l \in spec : l[1] \in Seq(STRING) /\ l[1] # <<>>
      /\ Tree(spec) /\ Tree(parsed)
  BY DEF ValuesInv, ValueInputs, Leaves
<1>4. values \subseteq spec \cup parsed BY <1>2 DEF MergedInv
<1>5. ASSUME NEW k \in K
      PROVE  /\ k \in Seq(STRING) /\ Values!IsStrictPrefix(p, k)
             /\ \E m \in parsed : Values!IsStrictPrefix(p, m[1]) /\ Values!IsPrefix(k, m[1])
             /\ \A r \in Seq(STRING) : Values!IsPrefix(r, k) => r = k \/ Values!IsPrefix(r, p)
  <2>1. PICK m \in parsed : Values!IsStrictPrefix(p, m[1]) /\ k = Append(p, m[1][Len(p) + 1])
    BY DEF Values!KeysOf, Values!Below
  <2>2. m[1] \in Seq(STRING) BY <1>3
  <2>3. \A q \in Seq(STRING) : Values!IsStrictPrefix(p, q) /\ k = Append(p, q[Len(p) + 1]) =>
          /\ k \in Seq(STRING) /\ Values!IsStrictPrefix(p, k) /\ Values!IsPrefix(k, q)
          /\ \A r \in Seq(STRING) : Values!IsPrefix(r, k) => r = k \/ Values!IsPrefix(r, p)
    BY <1>2, KeyOfLeaf, Zenon
  <2> QED BY <2>1, <2>2, <2>3
<1>6. ASSUME NEW m \in parsed, Values!IsStrictPrefix(p, m[1])
      PROVE  \E k \in K : Values!IsPrefix(k, m[1])
  <2>1. Append(p, m[1][Len(p) + 1]) \in K
    BY <1>6 DEF Values!KeysOf, Values!Below
  <2> QED BY <2>1, <1>6, <1>2, <1>3, KeyOfLeaf
<1> HIDE DEF K
<1>7. \A k \in K : ~Values!IsPrefix(k, p)
  BY <1>5, <1>2, PrefixOrder DEF Values!IsStrictPrefix
<1>8. \A k, j \in K : Values!IsPrefix(k, j) => k = j
  BY <1>5, <1>7
<1>9. \A k \in K, m \in parsed \cup spec : Values!IsPrefix(k, m[1]) => Values!IsStrictPrefix(p, m[1])
  <2> SUFFICES ASSUME NEW k \in K, NEW m \in parsed \cup spec, Values!IsPrefix(k, m[1])
               PROVE  Values!IsStrictPrefix(p, m[1])
    OBVIOUS
  <2>1. Values!IsPrefix(p, m[1])
    BY <1>5, <1>2, <1>3, PrefixOrder DEF Values!IsStrictPrefix
  <2>2. p # m[1] BY <1>7
  <2> QED BY <2>1, <2>2 DEF Values!IsStrictPrefix
<1>10. CallsInv'
  <2>1. \A q \in calls' : q \in Seq(STRING) BY <1>1, <1>2, <1>5 DEF CallsInv
  <2>2. ASSUME NEW q \in calls \ {p}, NEW k \in K
        PROVE  ~Values!IsPrefix(q, k) /\ ~Values!IsPrefix(k, q)
    <3>1. q \in Seq(STRING) /\ ~Values!IsPrefix(p, q) /\ ~Values!IsPrefix(q, p)
      BY <1>2 DEF CallsInv
    <3>2. ~Values!IsPrefix(k, q)
      BY <3>1, <1>5, <1>2, PrefixOrder DEF Values!IsStrictPrefix
    <3>3. ~Values!IsPrefix(q, k)
      BY <3>1, <1>5, <1>2 DEF Values!IsStrictPrefix
    <3> QED BY <3>2, <3>3
  <2>3. \A q, r \in calls' : Values!IsPrefix(q, r) => q = r
    BY <1>1, <1>2, <1>8, <2>2 DEF CallsInv
  <2>4. ASSUME NEW k \in M PROVE Values!Below(spec, k) # {} /\ Values!Below(parsed, k) # {}
    <3>1. PICK l \in values : Values!IsStrictPrefix(k, l[1])
      BY DEF Values!IsMap, Values!Below
    <3>2. Values!IsStrictPrefix(p, l[1]) BY <3>1, <1>4, <1>9 DEF Values!IsStrictPrefix
    <3>3. l \in spec BY <3>2, <1>1, BelowCall DEF Values!Below
    <3> QED BY <3>1, <3>3 DEF Values!IsMap, Values!Below
  <2>5. \A q \in calls' : q # <<>> => Values!Below(spec, q) # {} /\ Values!Below(parsed, q) # {}
    BY <1>1, <1>2, <2>4 DEF CallsInv
  <2> QED BY <1>1, <2>1, <2>3, <2>5 DEF CallsInv, Values!Below
<1>11. ASSUME NEW m \in parsed PROVE Pending(m)' <=> Pending(m) /\ ~Taken(m)
  <2>1. ASSUME NEW q \in calls', Values!IsStrictPrefix(q, m[1]) PROVE Pending(m) /\ ~Taken(m)
    <3>0. Values!IsPrefix(q, m[1]) BY <2>1 DEF Values!IsStrictPrefix
    <3>1. CASE q \in calls \ {p}
      <4>1. ASSUME NEW k \in R, Values!IsPrefix(k, m[1]) PROVE FALSE
        <5>1. Values!IsPrefix(p, m[1]) BY <4>1, <1>9 DEF Values!IsStrictPrefix
        <5>2. Values!IsPrefix(p, q) \/ Values!IsPrefix(q, p)
          BY <5>1, <3>0, <3>1, <1>2, <1>3, PrefixOrder DEF CallsInv
        <5> QED BY <5>2, <3>1, <1>2 DEF CallsInv
      <4> QED BY <4>1, <3>1, <2>1 DEF Pending
    <3>2. CASE q \in M
      <4>1. ASSUME NEW k \in R, Values!IsPrefix(k, m[1]) PROVE FALSE
        <5>1. Values!IsPrefix(k, q) \/ Values!IsPrefix(q, k)
          BY <4>1, <3>0, <3>2, <1>5, <1>3, PrefixOrder
        <5> QED BY <5>1, <3>2, <1>8
      <4>2. Values!IsStrictPrefix(p, m[1]) BY <3>2, <3>0, <1>9
      <4> QED BY <4>1, <4>2 DEF Pending
    <3> QED BY <3>1, <3>2, <1>1
  <2>2. ASSUME NEW q \in calls, Values!IsStrictPrefix(q, m[1]), ~Taken(m)
        PROVE  \E r \in calls' : Values!IsStrictPrefix(r, m[1])
    <3>1. CASE q # p BY <3>1, <2>2, <1>1
    <3>2. CASE q = p
      <4>1. PICK k \in K : Values!IsPrefix(k, m[1]) BY <3>2, <2>2, <1>6
      <4>2. k \in M BY <4>1, <2>2
      <4>3. k # m[1]
        <5> SUFFICES ASSUME k = m[1] PROVE FALSE OBVIOUS
        <5>1. PICK n \in parsed : Values!IsStrictPrefix(k, n[1])
          BY <4>2 DEF Values!IsMap, Values!Below
        <5> QED BY <5>1, <1>3 DEF Tree, Values!IsStrictPrefix
      <4> QED BY <4>1, <4>2, <4>3, <1>1 DEF Values!IsStrictPrefix
    <3> QED BY <3>1, <3>2
  <2> QED BY <2>1, <2>2 DEF Pending
<1>12. ASSUME NEW l \in spec PROVE ~Values!IsPrefix(l[1], p)
  <2> SUFFICES ASSUME Values!IsPrefix(l[1], p) PROVE FALSE OBVIOUS
  <2>1. CASE p = <<>>
    <3>1. l[1] \in Seq(STRING) /\ l[1] # <<>> BY <1>3
    <3>2. Values!IsPrefix(p, l[1]) BY <2>1, <3>1, PrefixOrder
    <3> QED BY <3>1, <3>2, <2>1, <1>2, PrefixOrder
  <2>2. CASE p # <<>>
    <3>1. PICK n \in spec : Values!IsPrefix(p, n[1]) /\ p # n[1]
      BY <2>2, <1>2 DEF CallsInv, Values!Below, Values!IsStrictPrefix
    <3>2. Values!IsPrefix(l[1], n[1]) BY <3>1, <1>2, <1>3, PrefixOrder
    <3>3. l = n BY <3>2, <1>3 DEF Tree
    <3> QED BY <3>1, <3>3, <1>2, <1>3, PrefixOrder
  <2> QED BY <2>1, <2>2
<1> DEFINE After == {m \in parsed : ~(Pending(m) /\ ~Taken(m))}
                    \cup {l \in spec : \A m \in parsed : (Pending(m) /\ ~Taken(m)) \/ Incomparable(l, m)}
<1>13. values' = {v \in values : ~Taken(v)} \cup {m \in parsed : Taken(m)}
  BY <1>1 DEF Values!Replace
<1>14. values' \subseteq After
  <2>1. ASSUME NEW l \in spec, ~Taken(l), \A m \in parsed : Pending(m) \/ Incomparable(l, m),
               NEW m \in parsed, Taken(m)
        PROVE  Incomparable(l, m)
    <3>1. PICK k \in R : Values!IsPrefix(k, m[1]) BY <2>1
    <3>2. k \in Seq(STRING) /\ ~Values!IsPrefix(k, l[1]) BY <1>5, <2>1
    <3>3. ~Values!IsPrefix(m[1], l[1]) BY <3>1, <3>2, <1>3, PrefixOrder
    <3>4. ~Values!IsPrefix(l[1], k)
      BY <3>2, <1>5, <1>12, <1>3, PrefixOrder
    <3>5. ~Values!IsPrefix(l[1], m[1])
      BY <3>1, <3>2, <3>4, <1>3, PrefixOrder
    <3> QED BY <3>3, <3>5 DEF Incomparable
  <2> HIDE DEF Taken
  <2> QED BY <2>1, <1>13, <1>2 DEF MergedInv
<1>15. After \subseteq values'
  <2>1. ASSUME NEW l \in spec,
               \A m \in parsed : (Pending(m) /\ ~Taken(m)) \/ Incomparable(l, m)
        PROVE  l \in values /\ ~Taken(l)
    <3>1. l \in values BY <2>1, <1>2 DEF MergedInv
    <3>2. ASSUME NEW k \in R, Values!IsPrefix(k, l[1]) PROVE FALSE
      <4>1. PICK m \in parsed : Values!IsPrefix(k, m[1]) BY <1>5
      <4>2. Incomparable(l, m) BY <4>1, <2>1
      <4>3. k # m[1] /\ k # l[1] BY <4>1, <4>2, <3>2 DEF Incomparable
      <4>4. Values!IsMap(values, k) /\ Values!IsMap(parsed, k)
        BY <4>1, <4>3, <3>1, <3>2 DEF Values!IsMap, Values!Below, Values!IsStrictPrefix
      <4> QED BY <4>4
    <3> QED BY <3>1, <3>2
  <2> HIDE DEF Taken
  <2> QED BY <2>1, <1>13, <1>2 DEF MergedInv
<1> HIDE DEF Taken
<1>16. After = {m \in parsed : ~Pending(m)'}
               \cup {l \in spec : \A m \in parsed : Pending(m)' \/ Incomparable(l, m)}
  BY <1>11
<1> HIDE DEF After
<1>17. MergedInv'
  BY <1>14, <1>15, <1>16, <1>1 DEF MergedInv, Incomparable
<1>18. Tree(parsed)' BY <1>1, <1>3 DEF Tree
<1> QED BY <1>1, <1>10, <1>17, <1>18 DEF ValuesInv

\* For all specs and overrides, and whatever order the overrides are parsed in:
\* the values of a release are the overrides and what of the spec is neither
\* above nor below one of them (parseOverrides, mergeMaps).
THEOREM OverridesMerged ==
  ASSUME ValueInputs PROVE Values!Spec => []MergeIsOverride
<1>1. Values!Init => ValuesInv BY DEF Values!Init, ValuesInv, Tree
<1>2. ValuesInv /\ [Values!Next]_(Values!vars) => ValuesInv'
  <2> SUFFICES ASSUME ValuesInv, [Values!Next]_(Values!vars) PROVE ValuesInv' OBVIOUS
  <2>1. CASE Values!Next BY <2>1, ValuesParse, ValuesStart, ValuesMerge DEF Values!Next
  <2>2. CASE UNCHANGED Values!vars
    BY <2>2 DEF Values!vars, ValuesInv, CallsInv, MergedInv, Pending, Incomparable, Tree, Values!Below
  <2> QED BY <2>1, <2>2
<1>3. ValuesInv => MergeIsOverride
  BY DEF ValuesInv, MergedInv, Pending, Incomparable, MergeIsOverride, Values!MergeIsOverride
<1> QED BY <1>1, <1>2, <1>3, PTL DEF Values!Spec
=============================================================================
