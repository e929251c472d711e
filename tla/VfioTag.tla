------------------------------ MODULE VfioTag ------------------------------
(***************************************************************************)
(* Tagging NVIDIA devices for VFIO passthrough on the host: "dstack        *)
(* tag-vfio" (dstack.py) and enable_vfio_passthrough.sh.  Both detect the  *)
(* devices, load the kernel modules and write each device id to vfio-pci's *)
(* new_id; when that fails they remove the id and write it once more.      *)
(*                                                                         *)
(* The ids are the host's, not an invocation's: several may be at work,    *)
(* and each can die between any two writes.  Of the kernel is modelled     *)
(* that new_id refuses an id it has, and that neither file exists before   *)
(* vfio_pci is loaded; modprobe takes one module, and parameters for it.   *)
(***************************************************************************)
EXTENDS Naturals

CONSTANTS
    Run,     \* invocations of either tool
    Id,      \* device ids that lspci lists, of GPUs and NVSwitches
    Count    \* Count[d]: how many devices have the id d

ASSUME CountAssumption == Count \in [Id -> Nat \ {0}]

Tool == {"dstack", "script"}

VARIABLES
    tool,       \* which tool a run is
    modules,    \* kernel modules that are loaded
    ids,        \* the dynamic ids of vfio-pci
    pc,         \* where a run is; one that is interrupted between its removal
                \* and its second write is "stranded"
    current,    \* the id it is at work on
    left,       \* left[r][d]: writes of d that r has yet to deal with
    overtaken   \* history: runs whose id another one tagged between their
                \* removal and their second write

vars == <<tool, modules, ids, pc, current, left, overtaken>>

Active == {"tag", "remove", "again"}

Loaded == "vfio_pci" \in modules

Goes(r, where) == pc' = [pc EXCEPT ![r] = where]

\* tag_vfio: unique_dev_ids; the script goes through the devices one by one.
Work(t) == [d \in Id |-> IF t = "dstack" THEN 1 ELSE Count[d]]

DealtWith(r, d) == left' = [left EXCEPT ![r][d] = @ - 1]

\* The ids become S, perhaps under the hands of others.
IdsBecome(r, S) ==
    /\ ids' = S
    /\ overtaken' = (overtaken \cup {q \in Run : pc[q] = "again" /\ current[q] \in S \ ids})
                        \ {r}

\* load_vfio_modules runs modprobe twice; in the script's one call vfio_pci is
\* a parameter of vfio.  Any call may fail, which ends the run.
LoadModules(r) ==
    /\ pc[r] = "start"
    /\ \/ /\ modules' = modules \cup (IF tool[r] = "dstack" THEN {"vfio", "vfio_pci"}
                                                           ELSE {"vfio"})
          /\ Goes(r, "tag")
       \/ /\ modules' \in {modules, modules \cup {"vfio"}}
          /\ Goes(r, "unloaded")
    /\ UNCHANGED <<tool, ids, current, left, overtaken>>

\* Whether a write of d to new_id succeeds.
Accepts(d) == Loaded /\ d \notin ids

\* The first write to new_id.
Tag(r, d) ==
    /\ pc[r] = "tag" /\ left[r][d] > 0
    /\ IF Accepts(d)
       THEN IdsBecome(r, ids \cup {d}) /\ DealtWith(r, d) /\ UNCHANGED <<pc, current>>
       ELSE /\ Goes(r, "remove")
            /\ current' = [current EXCEPT ![r] = d]
            /\ UNCHANGED <<ids, left, overtaken>>
    /\ UNCHANGED <<tool, modules>>

\* Mutant: the retry does without the removal.
Remove_Skipped(r) ==
    /\ pc[r] = "remove"
    /\ Goes(r, "again")
    /\ UNCHANGED <<tool, modules, ids, current, left, overtaken>>

\* remove_id, whose errors are ignored.
Remove(r) ==
    /\ pc[r] = "remove"
    /\ IdsBecome(r, ids \ {current[r]})
    /\ Goes(r, "again")
    /\ UNCHANGED <<tool, modules, current, left>>

\* Mutant: dstack, too, counts an id it has removed as dealt with and only
\* logs, without writing it again.
Again_LogOnly(r) ==
    /\ pc[r] = "again"
    /\ DealtWith(r, current[r])
    /\ Goes(r, "tag")
    /\ UNCHANGED <<tool, modules, ids, current, overtaken>>

\* The second write: when it fails, dstack logs and goes on with the next
\* id, while the script (set -e) ends.
Again(r) ==
    /\ pc[r] = "again"
    /\ IdsBecome(r, IF Loaded THEN ids \cup {current[r]} ELSE ids)
    /\ IF Accepts(current[r]) \/ tool[r] = "dstack"
       THEN DealtWith(r, current[r]) /\ Goes(r, "tag")
       ELSE Goes(r, "failed") /\ UNCHANGED left
    /\ UNCHANGED <<tool, modules, current>>

\* Mutant: leaves the last write out.
Finish_Early(r) ==
    /\ pc[r] = "tag" /\ \E d \in Id : \A e \in Id \ {d} : left[r][e] = 0
    /\ Goes(r, "done")
    /\ UNCHANGED <<tool, modules, ids, current, left, overtaken>>

Finish(r) ==
    /\ pc[r] = "tag" /\ \A d \in Id : left[r][d] = 0
    /\ Goes(r, "done")
    /\ UNCHANGED <<tool, modules, ids, current, left, overtaken>>

\* The invocation is interrupted.
Kill(r) ==
    /\ pc[r] \in Active
    /\ Goes(r, IF pc[r] = "again" THEN "stranded" ELSE "killed")
    /\ UNCHANGED <<tool, modules, ids, current, left, overtaken>>

(***************************************************************************)
(* Specification                                                           *)
(***************************************************************************)
Init ==
    /\ tool \in [Run -> Tool]
    /\ modules \in {{}, {"vfio", "vfio_pci"}}
    /\ ids \in {S \in SUBSET Id : S # {} => Loaded}
    /\ pc = [r \in Run |-> "start"]
    /\ current \in [Run -> Id]
    /\ left = [r \in Run |-> Work(tool[r])]
    /\ overtaken = {}

Next == \E r \in Run :
    \/ LoadModules(r)
    \/ \E d \in Id : Tag(r, d)
    \/ Remove(r) \/ Again(r) \/ Finish(r) \/ Kill(r)

Spec == Init /\ [][Next]_vars

(***************************************************************************)
(* Properties                                                              *)
(***************************************************************************)
TypeOK ==
    /\ tool \in [Run -> Tool]
    /\ modules \subseteq {"vfio", "vfio_pci"}
    /\ ids \subseteq Id
    /\ pc \in [Run -> Active \cup {"start", "unloaded", "done", "failed", "killed",
                                     "stranded"}]
    /\ current \in [Run -> Id]
    /\ left \in [Run -> [Id -> Nat]]
    /\ overtaken \subseteq Run
    /\ \A r \in Run : pc[r] \in {"remove", "again"} => left[r][current[r]] > 0
    /\ \A r \in Run : pc[r] = "done" => \A d \in Id : left[r][d] = 0

\* An id that any run has dealt with stays tagged, however runs of the two
\* tools remove and add it over each other's heads; it is missing only while
\* a run is between its removal and its second write, or if one died there.
TriedIsTagged ==
    \A r \in Run, d \in Id : left[r][d] = 0 =>
        d \in ids \/ \E q \in Run : current[q] = d /\ pc[q] \in {"again", "stranded"}

\* The script gives up only if vfio_pci is not loaded, which its own modprobe
\* does not do - and then at its first id, with nothing tagged - or if another
\* run tagged the very id between its removal and its second write: an id that
\* was tagged before, or that several devices have, does not stop it.
AbortIsExplained ==
    [][\A r \in Run :
           Again(r) /\ pc'[r] = "failed" =>
               \/ ~Loaded /\ left[r] = Work("script")
               \/ Loaded /\ r \in overtaken]_vars
============================================================================
