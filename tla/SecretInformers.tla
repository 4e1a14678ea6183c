--------------------------- MODULE SecretInformers ---------------------------
(***************************************************************************)
(* getWatchedSecretsForNamespace: one Secret informer per namespace, made  *)
(* by the first reconciliation that needs it and shared by the others.  A  *)
(* mutex guards the map of informers while an entry is made, and is held   *)
(* until the new informer has synced; the final look-up is outside of it.  *)
(***************************************************************************)
EXTENDS Naturals

CONSTANTS Workers,     \* reconciling goroutines
          Namespaces,
          MaxRestarts  \* bound on restarts of the process

VARIABLES mutex,     \* is watchedSecretsMutex held
          entries,   \* the keys of the map watchedSecrets
          informer,  \* per namespace: "none", "running" or "synced"
          made,      \* informers made for a namespace by this process
          pc, ns,    \* per worker
          restarts

vars == <<mutex, entries, informer, made, pc, ns, restarts>>

NoInformers == [n \in Namespaces |-> "none"]
NoneMade    == [n \in Namespaces |-> 0]
AllIdle     == [w \in Workers |-> "idle"]

\* NewActionConfigGetter, when the process starts.
Init == /\ mutex = FALSE /\ entries = {}
        /\ informer = NoInformers /\ made = NoneMade /\ pc = AllIdle
        /\ ns \in [Workers -> Namespaces] /\ restarts = MaxRestarts

\* ActionConfigFor is called for an object in some namespace.
Call(w) ==
  /\ pc[w] = "idle"
  /\ \E n \in Namespaces : ns' = [ns EXCEPT ![w] = n]
  /\ pc' = [pc EXCEPT ![w] = "lock"]
  /\ UNCHANGED <<mutex, entries, informer, made, restarts>>

\* Mutant: the map is checked before the mutex is taken.
LockChecking(w) ==
  /\ pc[w] = "lock"
  /\ IF ns[w] \in entries
     THEN pc' = [pc EXCEPT ![w] = "read"] /\ UNCHANGED mutex
     ELSE /\ ~mutex /\ mutex' = TRUE
          /\ pc' = [pc EXCEPT ![w] = "write"]
  /\ UNCHANGED <<entries, informer, made, ns, restarts>>

\* Mutant: who finds the entry made by another lets go and tries again.
LockAgain(w) ==
  /\ pc[w] = "lock" /\ ~mutex
  /\ mutex' = (ns[w] \notin entries)
  /\ pc' = [pc EXCEPT ![w] = IF ns[w] \in entries THEN "lock" ELSE "write"]
  /\ UNCHANGED <<entries, informer, made, ns, restarts>>

Lock(w) ==
  /\ pc[w] = "lock" /\ ~mutex
  /\ mutex' = TRUE
  /\ pc' = [pc EXCEPT ![w] = IF ns[w] \in entries THEN "unlock" ELSE "write"]
  /\ UNCHANGED <<entries, informer, made, ns, restarts>>

\* The end of the assignment to the map, and the start of Run.
Store(w) ==
  /\ pc[w] = "write"
  /\ entries' = entries \cup {ns[w]}
  /\ made' = [made EXCEPT ![ns[w]] = @ + 1]
  /\ informer' = [informer EXCEPT ![ns[w]] = "running"]
  /\ pc' = [pc EXCEPT ![w] = "sync"]
  /\ UNCHANGED <<mutex, ns, restarts>>

\* WaitForCacheSync(NeverStop) returns.
Synced(w) ==
  /\ pc[w] = "sync" /\ informer[ns[w]] = "synced"
  /\ pc' = [pc EXCEPT ![w] = "unlock"]
  /\ UNCHANGED <<mutex, entries, informer, made, ns, restarts>>

Unlock(w) ==
  /\ pc[w] = "unlock"
  /\ mutex' = FALSE
  /\ pc' = [pc EXCEPT ![w] = "read"]
  /\ UNCHANGED <<entries, informer, made, ns, restarts>>

\* return acg.watchedSecrets[namespace], without the mutex.
Read(w) ==
  /\ pc[w] = "read"
  /\ pc' = [pc EXCEPT ![w] = "use"]
  /\ UNCHANGED <<mutex, entries, informer, made, ns, restarts>>

\* A read while another worker assigns to the map may be noticed by the
\* runtime, which then ends the process; the operator's pod is restarted.
FatalRead(w) ==
  /\ pc[w] = "read" /\ \E v \in Workers : pc[v] = "write"
  /\ restarts > 0 /\ restarts' = restarts - 1
  /\ mutex' = FALSE /\ entries' = {}
  /\ informer' = NoInformers /\ made' = NoneMade /\ pc' = AllIdle
  /\ UNCHANGED ns

Finish(w) ==
  /\ pc[w] = "use"
  /\ pc' = [pc EXCEPT ![w] = "idle"]
  /\ UNCHANGED <<mutex, entries, informer, made, ns, restarts>>

\* The API server answers the informer's list request.
ListAnswered(n) ==
  /\ informer[n] = "running"
  /\ informer' = [informer EXCEPT ![n] = "synced"]
  /\ UNCHANGED <<mutex, entries, made, pc, ns, restarts>>

Step(w) == \/ Lock(w) \/ Store(w) \/ Synced(w) \/ Unlock(w) \/ Read(w)
           \/ FatalRead(w) \/ Finish(w)

Next == \/ \E w \in Workers : Call(w) \/ Step(w)
        \/ \E n \in Namespaces : ListAnswered(n)

\* Go's mutex hands the lock to a waiter in the end, so locking is strongly
\* fair; the API server is assumed to answer list requests.
Fairness == /\ \A w \in Workers : WF_vars(Step(w)) /\ SF_vars(Lock(w))
            /\ \A n \in Namespaces : WF_vars(ListAnswered(n))

Spec == Init /\ [][Next]_vars /\ Fairness

-----------------------------------------------------------------------------
(* Properties *)

\* No reconciliation works with an informer that has not loaded the releases
\* of its namespace: an empty history would be taken for "not installed".
SyncedBeforeUse ==
  \A w \in Workers : pc[w] = "use" => informer[ns[w]] = "synced"

\* Every reconciliation gets its action configuration, whoever else is waiting
\* for an informer, unless the process ends first.
Served == \A w \in Workers : pc[w] = "lock" ~> pc[w] \in {"use", "idle"}
=============================================================================
