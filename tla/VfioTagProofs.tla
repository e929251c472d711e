--------------------------- MODULE VfioTagProofs ---------------------------
(***************************************************************************)
(* Theorems about VfioTag for any invocations, ids and devices.            *)
(***************************************************************************)
EXTENDS VfioTag, TLAPS

\* Only where vfio_pci is loaded has anything been dealt with; dstack does
\* not get to its writes otherwise.
WorksWhenLoaded ==
    /\ Loaded \/ \A r \in Run : left[r] = Work(tool[r])
    /\ \A r \in Run, d \in Id : left[r][d] = 0 => Loaded
    /\ \A r \in Run : tool[r] = "dstack" /\ pc[r] \in Active => Loaded

\* Between its two writes, a run's id is missing, unless another one tagged it.
GapIsOwn ==
    \A r \in Run : pc[r] = "again" => current[r] \notin ids \/ r \in overtaken

IInv == TypeOK /\ WorksWhenLoaded /\ TriedIsTagged /\ GapIsOwn

LEMMA InitIInv == Init => IInv
  <1> SUFFICES ASSUME Init PROVE IInv
    OBVIOUS
  <1>1. left \in [Run -> [Id -> Nat]] /\ \A r \in Run, d \in Id : left[r][d] > 0
    BY CountAssumption DEF Init, Work
  <1>2. TypeOK
    BY <1>1 DEF Init, TypeOK, Active
  <1>3. WorksWhenLoaded /\ TriedIsTagged /\ GapIsOwn
    BY <1>1 DEF Init, WorksWhenLoaded, TriedIsTagged, GapIsOwn, Active
  <1> QED  BY <1>2, <1>3 DEF IInv

\* Dealing with an id counts its writes down and leaves the others alone.
LEMMA Dealing ==
    ASSUME TypeOK, NEW r \in Run, NEW d \in Id, left[r][d] > 0, DealtWith(r, d)
    PROVE  /\ left' \in [Run -> [Id -> Nat]]
           /\ \A q \in Run, e \in Id : left'[q][e] = 0 => left[q][e] = 0 \/ e = d
  BY DEF TypeOK, DealtWith

\* A run cannot change the ids in the gap of another one unnoticed.
LEMMA OthersGaps ==
    ASSUME TypeOK, GapIsOwn, NEW r \in Run, NEW S, IdsBecome(r, S), current' = current
    PROVE  \A q \in Run : q # r /\ pc[q] = "again" => current'[q] \notin ids' \/ q \in overtaken'
  BY DEF TypeOK, GapIsOwn, IdsBecome

LEMMA TagIInv == ASSUME IInv, NEW r \in Run, NEW d \in Id, Tag(r, d) PROVE IInv'
  <1>1. TypeOK
    BY DEF IInv
  <1>2. CASE Accepts(d)
    <2>1. /\ ids' = ids \cup {d} /\ DealtWith(r, d) /\ left[r][d] > 0
          /\ UNCHANGED <<tool, modules, pc, current>> /\ pc[r] = "tag"
          /\ overtaken' \subseteq Run /\ Loaded
      BY <1>1, <1>2 DEF Tag, IdsBecome, TypeOK, Accepts
    <2>2. /\ left' \in [Run -> [Id -> Nat]]
          /\ \A q \in Run, e \in Id : left'[q][e] = 0 => left[q][e] = 0 \/ e = d
      BY <1>1, <2>1, Dealing
    <2>3. \A q \in Run, e \in Id : q # r => left'[q][e] = left[q][e]
      BY <1>1, <2>1 DEF DealtWith, TypeOK
    <2>4. TypeOK'
      <3>1. \A q \in Run : pc'[q] \in {"remove", "again"} => left'[q][current'[q]] > 0
        BY <1>1, <2>1, <2>2, <2>3 DEF TypeOK
      <3>2. \A q \in Run : pc'[q] = "done" => \A e \in Id : left'[q][e] = 0
        BY <1>1, <2>1, <2>3 DEF TypeOK
      <3>3. ids' \subseteq Id
        BY <1>1, <2>1 DEF TypeOK
      <3> QED  BY <1>1, <2>1, <2>2, <3>1, <3>2, <3>3 DEF TypeOK
    <2>5. WorksWhenLoaded' /\ TriedIsTagged'
      BY <1>1, <2>1, <2>2 DEF IInv, WorksWhenLoaded, TriedIsTagged, Loaded
    <2>6. GapIsOwn'
      BY <1>1, <1>2, <2>1, OthersGaps DEF IInv, Tag, GapIsOwn
    <2> QED  BY <2>4, <2>5, <2>6 DEF IInv
  <1>3. CASE ~Accepts(d)
    <2>1. /\ pc' = [pc EXCEPT ![r] = "remove"] /\ current' = [current EXCEPT ![r] = d]
          /\ UNCHANGED <<tool, modules, ids, left, overtaken>>
          /\ pc[r] = "tag" /\ left[r][d] > 0
      BY <1>3 DEF Tag, Goes
    <2>2. TypeOK'
      BY <1>1, <2>1 DEF TypeOK, Active
    <2>3. WorksWhenLoaded'
      BY <1>1, <2>1 DEF IInv, TypeOK, WorksWhenLoaded, Active, Loaded
    <2>4. \A q \in Run : pc[q] \in {"again", "stranded"} =>
              pc'[q] = pc[q] /\ current'[q] = current[q]
      BY <1>1, <2>1 DEF TypeOK
    <2>5. TriedIsTagged'
      BY <2>1, <2>4 DEF IInv, TriedIsTagged
    <2>6. GapIsOwn'
      BY <1>1, <2>1, <2>4 DEF IInv, TypeOK, GapIsOwn
    <2> QED  BY <2>2, <2>3, <2>5, <2>6 DEF IInv
  <1> QED  BY <1>2, <1>3

\* The removal is covered by the run that makes it.
LEMMA RemoveIInv == ASSUME IInv, NEW r \in Run, Remove(r) PROVE IInv'
  <1>1. TypeOK
    BY DEF IInv
  <1>2. /\ ids' = ids \ {current[r]} /\ pc' = [pc EXCEPT ![r] = "again"]
        /\ UNCHANGED <<tool, modules, current, left>> /\ pc[r] = "remove"
        /\ overtaken' \subseteq Run
    BY <1>1 DEF Remove, Goes, IdsBecome, TypeOK
  <1>3. TypeOK'
    BY <1>1, <1>2 DEF TypeOK, Active
  <1>4. WorksWhenLoaded'
    BY <1>1, <1>2 DEF IInv, TypeOK, WorksWhenLoaded, Active, Loaded
  <1>5. \A q \in Run : pc[q] \in {"again", "stranded"} => pc'[q] = pc[q]
    BY <1>1, <1>2 DEF TypeOK
  <1>6. pc'[r] = "again"
    BY <1>1, <1>2 DEF TypeOK
  <1>7. TriedIsTagged'
    BY <1>2, <1>5, <1>6 DEF IInv, TriedIsTagged
  <1>8. GapIsOwn'
    <2>1. \A q \in Run : q # r => pc'[q] = pc[q]
      BY <1>1, <1>2 DEF TypeOK
    <2>2. \A q \in Run : q # r /\ pc[q] = "again" => current'[q] \notin ids' \/ q \in overtaken'
      BY <1>1, <1>2, OthersGaps DEF Remove, IInv
    <2> QED  BY <1>2, <2>1, <2>2 DEF GapIsOwn
  <1> QED  BY <1>3, <1>4, <1>7, <1>8 DEF IInv

\* The second write puts the id back, or finds that another run did.
LEMMA AgainIInv == ASSUME IInv, NEW r \in Run, Again(r) PROVE IInv'
  <1> DEFINE d == current[r]
  <1>1. TypeOK /\ d \in Id
    BY DEF IInv, TypeOK
  <1>2. /\ ids' = IF Loaded THEN ids \cup {d} ELSE ids
        /\ UNCHANGED <<tool, modules, current>> /\ pc[r] = "again" /\ left[r][d] > 0
        /\ overtaken' \subseteq Run
    BY <1>1 DEF Again, IdsBecome, TypeOK
  <1>3. /\ left' \in [Run -> [Id -> Nat]]
        /\ \A q \in Run, e \in Id : left'[q][e] = 0 => left[q][e] = 0 \/ (e = d /\ Loaded)
        /\ \A q \in Run, e \in Id : q # r => left'[q][e] = left[q][e]
        /\ pc' = [pc EXCEPT ![r] = "tag"] \/ pc' = [pc EXCEPT ![r] = "failed"]
    <2>1. CASE Accepts(d) \/ tool[r] = "dstack"
      <3>1. DealtWith(r, d) /\ pc' = [pc EXCEPT ![r] = "tag"]
        BY <2>1 DEF Again, Goes
      <3>2. Loaded
        BY <1>2, <2>1 DEF Accepts, IInv, WorksWhenLoaded, Active
      <3>3. \A q \in Run, e \in Id : q # r => left'[q][e] = left[q][e]
        BY <1>1, <3>1 DEF DealtWith, TypeOK
      <3> QED  BY <1>1, <1>2, <3>1, <3>2, <3>3, Dealing
    <2>2. CASE ~(Accepts(d) \/ tool[r] = "dstack")
      <3>1. left' = left /\ pc' = [pc EXCEPT ![r] = "failed"]
        BY <2>2 DEF Again, Goes
      <3> QED  BY <1>1, <3>1 DEF TypeOK
    <2> QED  BY <2>1, <2>2
  <1>4. /\ \A q \in Run : q # r => pc'[q] = pc[q]
        /\ pc'[r] \in {"tag", "failed"}
        /\ pc' \in [Run -> Active \cup {"start", "unloaded", "done", "failed", "killed",
                                    "stranded"}]
    BY <1>1, <1>3 DEF TypeOK, Active
  <1>5. TypeOK'
    <2>1. ASSUME NEW q \in Run, pc'[q] \in {"remove", "again"}
          PROVE  left'[q][current'[q]] > 0
      <3>1. q # r /\ pc'[q] = pc[q] /\ current'[q] = current[q]
        BY <1>2, <1>4, <2>1
      <3>2. current[q] \in Id /\ left[q][current[q]] > 0
        BY <1>1, <2>1, <3>1 DEF TypeOK
      <3> QED  BY <1>3, <3>1, <3>2
    <2>2. \A q \in Run : pc'[q] = "done" => \A e \in Id : left'[q][e] = 0
      BY <1>1, <1>3, <1>4 DEF TypeOK
    <2> QED  BY <1>1, <1>2, <1>3, <1>4, <2>1, <2>2 DEF TypeOK
  <1>6. WorksWhenLoaded'
    <2>1. Loaded \/ left' = left
      <3>1. CASE Accepts(d) \/ tool[r] = "dstack"
        BY <1>2, <3>1 DEF Accepts, IInv, WorksWhenLoaded, Active
      <3>2. CASE ~(Accepts(d) \/ tool[r] = "dstack")
        BY <3>2 DEF Again
      <3> QED  BY <3>1, <3>2
    <2> QED  BY <1>2, <1>3, <1>4, <2>1 DEF IInv, WorksWhenLoaded, Active, Loaded
  <1>7. TriedIsTagged'
    <2> SUFFICES ASSUME NEW q \in Run, NEW e \in Id, left'[q][e] = 0
                 PROVE  e \in ids' \/ \E p \in Run :
                            current'[p] = e /\ pc'[p] \in {"again", "stranded"}
      BY DEF TriedIsTagged
    <2>1. Loaded
      BY <1>3 DEF IInv, WorksWhenLoaded
    <2>2. CASE e = d
      BY <1>2, <2>1, <2>2
    <2>3. CASE e # d
      <3>1. left[q][e] = 0
        BY <1>3, <2>3
      <3>2. e \in ids \/ \E p \in Run : current[p] = e /\ pc[p] \in {"again", "stranded"}
        BY <3>1 DEF IInv, TriedIsTagged
      <3> QED  BY <1>2, <1>4, <2>3, <3>2
    <2> QED  BY <2>2, <2>3
  <1>8. GapIsOwn'
    <2>1. \A q \in Run : q # r /\ pc[q] = "again" => current'[q] \notin ids' \/ q \in overtaken'
      BY <1>1, <1>2, OthersGaps DEF Again, IInv
    <2> QED  BY <1>4, <2>1 DEF GapIsOwn
  <1> QED  BY <1>5, <1>6, <1>7, <1>8 DEF IInv

LEMMA LoadModulesIInv == ASSUME IInv, NEW r \in Run, LoadModules(r) PROVE IInv'
  <1>1. TypeOK
    BY DEF IInv
  <1>2. /\ UNCHANGED <<tool, ids, current, left, overtaken>> /\ pc[r] = "start"
        /\ modules \subseteq modules' /\ modules' \subseteq {"vfio", "vfio_pci"}
        /\ \/ /\ pc' = [pc EXCEPT ![r] = "tag"]
              /\ tool[r] = "dstack" => "vfio_pci" \in modules'
           \/ pc' = [pc EXCEPT ![r] = "unloaded"]
    BY <1>1 DEF LoadModules, Goes, TypeOK
  <1>3. TypeOK'
    BY <1>1, <1>2 DEF TypeOK, Active
  <1>4. WorksWhenLoaded'
    BY <1>1, <1>2 DEF IInv, TypeOK, WorksWhenLoaded, Active, Loaded
  <1>5. \A q \in Run : pc[q] \in {"again", "stranded"} => pc'[q] = pc[q]
    BY <1>1, <1>2 DEF TypeOK
  <1>6. TriedIsTagged'
    BY <1>2, <1>5 DEF IInv, TriedIsTagged
  <1>7. GapIsOwn'
    BY <1>1, <1>2 DEF IInv, TypeOK, GapIsOwn
  <1> QED  BY <1>3, <1>4, <1>6, <1>7 DEF IInv

LEMMA EndIInv == ASSUME IInv, NEW r \in Run, Finish(r) \/ Kill(r) PROVE IInv'
  <1>1. TypeOK
    BY DEF IInv
  <1>2. /\ UNCHANGED <<tool, modules, ids, current, left, overtaken>> /\ pc[r] \in Active
        /\ \/ pc' = [pc EXCEPT ![r] = "done"] /\ \A d \in Id : left[r][d] = 0 /\ pc[r] = "tag"
           \/ pc' = [pc EXCEPT ![r] = "killed"] /\ pc[r] # "again"
           \/ pc' = [pc EXCEPT ![r] = "stranded"] /\ pc[r] = "again"
    BY DEF Finish, Kill, Goes, Active
  <1>3. TypeOK'
    BY <1>1, <1>2 DEF TypeOK, Active
  <1>4. WorksWhenLoaded'
    BY <1>1, <1>2 DEF IInv, TypeOK, WorksWhenLoaded, Active, Loaded
  <1>5. \A q \in Run : pc[q] \in {"again", "stranded"} => pc'[q] \in {"again", "stranded"}
    <2>1. \A q \in Run : q # r => pc'[q] = pc[q]
      BY <1>1, <1>2 DEF TypeOK
    <2>2. pc[r] \in {"again", "stranded"} => pc'[r] = "stranded"
      BY <1>1, <1>2 DEF TypeOK, Active
    <2> QED  BY <2>1, <2>2
  <1>6. TriedIsTagged'
    BY <1>2, <1>5 DEF IInv, TriedIsTagged
  <1>7. GapIsOwn'
    BY <1>1, <1>2 DEF IInv, TypeOK, GapIsOwn
  <1> QED  BY <1>3, <1>4, <1>6, <1>7 DEF IInv

LEMMA StepIInv == IInv /\ [Next]_vars => IInv'
  <1> SUFFICES ASSUME IInv, [Next]_vars PROVE IInv'
    OBVIOUS
  <1>1. ASSUME NEW r \in Run, LoadModules(r) PROVE IInv'
    BY <1>1, LoadModulesIInv
  <1>2. ASSUME NEW r \in Run, NEW d \in Id, Tag(r, d) PROVE IInv'
    BY <1>2, TagIInv
  <1>3. ASSUME NEW r \in Run, Remove(r) PROVE IInv'
    BY <1>3, RemoveIInv
  <1>4. ASSUME NEW r \in Run, Again(r) PROVE IInv'
    BY <1>4, AgainIInv
  <1>5. ASSUME NEW r \in Run, Finish(r) \/ Kill(r) PROVE IInv'
    BY <1>5, EndIInv
  <1>6. CASE UNCHANGED vars
    BY <1>6 DEF vars, IInv, TypeOK, WorksWhenLoaded, TriedIsTagged, Loaded, Active,
                GapIsOwn
  <1> QED  BY <1>1, <1>2, <1>3, <1>4, <1>5, <1>6 DEF Next

THEOREM Invariance == Spec => []IInv
  BY InitIInv, StepIInv, PTL DEF Spec

\* Every variable keeps its type, and a run only ever retries an id it still
\* has to deal with.
THEOREM TypeCorrectness == Spec => []TypeOK
  BY Invariance, PTL DEF IInv

\* However many invocations of either tool overlap and die, an id that one of
\* them has dealt with stays tagged but for the gaps of the others
\* (tag_device_for_vfio, enable_vfio_passthrough.sh).
THEOREM TriedStaysTagged == Spec => []TriedIsTagged
  BY Invariance, PTL DEF IInv

\* The script gives up only at its first id, when vfio_pci is missing, or
\* because another run tagged the id between its removal and its second write
\* (enable_vfio_passthrough.sh, set -e).
THEOREM AbortReasons == Spec => AbortIsExplained
  <1>1. IInv /\ [Next]_vars =>
            [\A r \in Run :
                 Again(r) /\ pc'[r] = "failed" =>
                     \/ ~Loaded /\ left[r] = Work("script")
                     \/ Loaded /\ r \in overtaken]_vars
    <2> SUFFICES ASSUME IInv, NEW r \in Run, Again(r), pc'[r] = "failed"
                 PROVE  \/ ~Loaded /\ left[r] = Work("script")
                        \/ Loaded /\ r \in overtaken
      OBVIOUS
    <2>1. ~Accepts(current[r]) /\ tool[r] = "script"
      <3>1. CASE Accepts(current[r]) \/ tool[r] = "dstack"
        <4>1. pc' = [pc EXCEPT ![r] = "tag"]
          BY <3>1 DEF Again, Goes
        <4> QED  BY <4>1 DEF IInv, TypeOK
      <3> QED  BY <3>1 DEF IInv, TypeOK, Tool
    <2>2. CASE ~Loaded
      BY <2>1, <2>2 DEF IInv, WorksWhenLoaded
    <2>3. CASE Loaded
      BY <2>1, <2>3 DEF Accepts, IInv, GapIsOwn, Again
    <2> QED  BY <2>2, <2>3
  <1> QED  BY <1>1, Invariance, PTL DEF Spec, AbortIsExplained
============================================================================
