---------------------------- MODULE HelmConditions ----------------------------
(***************************************************************************)
(* The conditions of a HelmApp's status: a slice edited in place by        *)
(* SetCondition and RemoveCondition, with the time of the last transition. *)
(***************************************************************************)
EXTENDS Naturals, SequencesExt

CONSTANTS Types,    \* condition types
          Stati,    \* True, False, Unknown
          MaxTime   \* bound on the clock

VARIABLES conditions,  \* HelmAppStatus.Conditions
          since,       \* history: when a type got its present status
          now

vars == <<conditions, since, now>>

Init == conditions = <<>> /\ since = [t \in Types |-> 0] /\ now = 0

Find(type) == SelectInSeq(conditions, LAMBDA c : c.type = type)

\* Mutant: the time of an existing condition is always kept.
TransitionTimeKept(i, status) == IF i = 0 THEN now ELSE conditions[i].time

TransitionTime(i, status) ==
  IF i = 0 \/ conditions[i].status # status THEN now ELSE conditions[i].time

SetCondition(type, status) ==
  LET i == Find(type)
      c == [type |-> type, status |-> status, time |-> TransitionTime(i, status)]
  IN conditions' = IF i = 0 THEN Append(conditions, c)
                            ELSE [conditions EXCEPT ![i] = c]

\* append(s.Conditions[:i], s.Conditions[i+1:]...)
RemoveCondition(type) ==
  conditions' = IF Find(type) = 0 THEN conditions
                ELSE RemoveAt(conditions, Find(type))

Set(type, status) ==
  /\ SetCondition(type, status)
  /\ since' = [since EXCEPT ![type] =
       IF \E c \in Range(conditions) : c.type = type /\ c.status = status
       THEN @ ELSE now]
  /\ UNCHANGED now

Drop(type) == RemoveCondition(type) /\ UNCHANGED <<since, now>>

Tick == now < MaxTime /\ now' = now + 1 /\ UNCHANGED <<conditions, since>>

Next == \/ \E t \in Types, s \in Stati : Set(t, s)
        \/ \E t \in Types : Drop(t)
        \/ Tick

Spec == Init /\ [][Next]_vars

-----------------------------------------------------------------------------
(* Properties *)

\* The transition time tells since when the condition has had its status,
\* through any number of repeated reports of it.
TransitionTimeFaithful ==
  \A c \in Range(conditions) : c.time = since[c.type]
=============================================================================
