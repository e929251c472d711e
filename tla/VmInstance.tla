----------------------------- MODULE VmInstance -----------------------------
(***************************************************************************)
(* The directory of one CVM instance and the dstack commands that work on  *)
(* it (meta-dstack-nvidia/scripts/bin/dstack.py): "new" prepares it, "run" *)
(* writes the guest's configuration and starts QEMU, "dry" is run          *)
(* --dry-run, "serve" runs the host API server only.  Each command is a    *)
(* process of its own; nothing keeps two of them apart, and each can die   *)
(* between any two system calls.                                           *)
(*                                                                         *)
(* Every file is written the same way: open(..., 'w') truncates it, and    *)
(* the JSON reaches it when the file is closed.  update_guest_config loads *)
(* the old contents first.  A command is a list of such jobs, so one set   *)
(* of actions (Load, Open, Dump) models all of them.                       *)
(***************************************************************************)
EXTENDS Naturals, Sequences

CONSTANTS
    Process,     \* invocations of dstack, each with a host API port of its own
    Scenario     \* what they may be: the command of each, and whether a "new"
                 \* has been completed before

ASSUME ScenarioAssumption ==
    Scenario \subseteq [command : [Process -> {"new", "run", "dry", "serve"}],
                        prepared : BOOLEAN]

File == {"app-compose.json", "vm-manifest.json", "config.json", ".sys-config.json"}

GuestConfig == {"config.json", ".sys-config.json"}

\* What the JSON of a file can hold, as <<key, value>>.
Entry == {<<"app", "compose">>, <<"vm", "manifest">>,
          <<"docker_registry", "registry">>, <<"vm_config", "manifest">>}
         \cup ({"host_port"} \X Process)

\* A file that is missing, one that is truncated, one that is written, and
\* one in which what one writer left follows what another wrote over it.
Absent == [state |-> "absent", has |-> {}]
Empty == [state |-> "empty", has |-> {}]
Whole(entries) == [state |-> "whole", has |-> entries]
Garbled == [state |-> "garbled", has |-> {}]

VARIABLES
    command,     \* which command each process is
    dir,         \* the instance directory exists, with its shared/
    file,        \* the files in it
    disk,        \* hda.img: "absent", "fresh" or "used" by a guest
    pc,          \* where a command is
    todo,        \* files it has yet to write
    loaded,      \* what json.load returned to it
    guests,      \* commands whose QEMU is running
    disturbed    \* history: what others changed while a command was active,
                 \* and "stale" if "new" wrote a file that it had in hand

vars == <<command, dir, file, disk, pc, todo, loaded, guests, disturbed>>

(***************************************************************************)
(* What each command writes                                                *)
(***************************************************************************)
Replace(f, entries) == [file |-> f, merge |-> FALSE, entries |-> entries]
Merge(f, entries) == [file |-> f, merge |-> TRUE, entries |-> entries]

\* Mutant: the manifest is written before the rest of the instance.
NewJobs_ManifestFirst ==
    << Replace("vm-manifest.json", {<<"vm", "manifest">>}),
       Replace("app-compose.json", {<<"app", "compose">>}),
       Merge(".sys-config.json", {<<"docker_registry", "registry">>}) >>

\* setup_instance, with a docker registry configured.
NewJobs ==
    << Replace("app-compose.json", {<<"app", "compose">>}),
       Merge(".sys-config.json", {<<"docker_registry", "registry">>}),
       Replace("vm-manifest.json", {<<"vm", "manifest">>}) >>

\* Mutant: leaves .sys-config.json as it is.
RunJobs_OneFile(p) ==
    << Merge("config.json", {<<"host_port", p>>}),
       Merge("config.json", {<<"vm_config", "manifest">>}) >>

\* Mutant: the port is written last.
RunJobs_PortLast(p) ==
    << Merge("config.json", {<<"vm_config", "manifest">>}),
       Merge("config.json", {<<"host_port", p>>}),
       Merge(".sys-config.json", {<<"vm_config", "manifest">>}),
       Merge(".sys-config.json", {<<"host_port", p>>}) >>

\* gen_vm_config with the manifest
RunJobs(p) ==
    << Merge("config.json", {<<"host_port", p>>}),
       Merge("config.json", {<<"vm_config", "manifest">>}),
       Merge(".sys-config.json", {<<"host_port", p>>}),
       Merge(".sys-config.json", {<<"vm_config", "manifest">>}) >>

\* gen_vm_config without it
ServeJobs(p) ==
    << Merge("config.json", {<<"host_port", p>>}),
       Merge(".sys-config.json", {<<"host_port", p>>}) >>

Goes(p, where) == pc' = [pc EXCEPT ![p] = where]

\* p has loaded f and has not written it back.
InHand(p, f) == pc[p] \in {"open", "dump"} /\ Head(todo[p]).file = f

\* Every other command that is under way is affected by what p changes.
Disturbs(p, what) ==
    disturbed' = [q \in Process |-> disturbed[q] \cup
        (IF q = p \/ pc[q] \in {"start", "done", "failed"} THEN {}
         ELSE {what} \cup {s \in {"stale"} :
                  command[p] = "new" /\ pc[p] = "dump" /\ InHand(q, what)})]

(***************************************************************************)
(* The first steps of a command                                            *)
(***************************************************************************)
\* Mutant: the check is gone; makedirs(exist_ok=True) accepts what is there.
CheckDirectory_Gone(p) ==
    /\ pc[p] = "start" /\ command[p] = "new"
    /\ Goes(p, "making")
    /\ UNCHANGED <<command, dir, file, disk, todo, loaded, guests, disturbed>>

\* _create_directories looks first and creates later.
CheckDirectory(p) ==
    /\ pc[p] = "start" /\ command[p] = "new"
    /\ Goes(p, IF dir THEN "failed" ELSE "making")
    /\ UNCHANGED <<command, dir, file, disk, todo, loaded, guests, disturbed>>

MakeDirectories(p) ==
    /\ pc[p] = "making"
    /\ dir' = TRUE
    /\ todo' = [todo EXCEPT ![p] = NewJobs]
    /\ Goes(p, "load")
    /\ Disturbs(p, "dir")
    /\ UNCHANGED <<command, file, disk, loaded, guests>>

\* run_instance: a manifest that is missing or cannot be parsed ends it.
ReadManifest(p) ==
    /\ pc[p] = "start" /\ command[p] \in {"run", "dry"}
    /\ IF file["vm-manifest.json"].state = "whole"
       THEN Goes(p, "load") /\ todo' = [todo EXCEPT ![p] = RunJobs(p)]
       ELSE Goes(p, "failed") /\ UNCHANGED todo
    /\ UNCHANGED <<command, dir, file, disk, loaded, guests, disturbed>>

StartServe(p) ==
    /\ pc[p] = "start" /\ command[p] = "serve"
    /\ todo' = [todo EXCEPT ![p] = ServeJobs(p)]
    /\ Goes(p, "load")
    /\ UNCHANGED <<command, dir, file, disk, loaded, guests, disturbed>>

(***************************************************************************)
(* Writing a file                                                          *)
(***************************************************************************)
\* config.update(data)
Updated(old, new) == {e \in old : \A n \in new : n[1] # e[1]} \cup new

\* Mutant: starts afresh when the file does not parse.
Load_Tolerant(p) ==
    /\ pc[p] = "load"
    /\ LET job == Head(todo[p]) IN
       /\ loaded' = [loaded EXCEPT ![p] = IF job.merge THEN file[job.file].has ELSE {}]
       /\ Goes(p, "open")
    /\ UNCHANGED <<command, dir, file, disk, todo, guests, disturbed>>

\* update_guest_config: a missing file counts as {}, one that does not
\* parse raises.
Load(p) ==
    /\ pc[p] = "load"
    /\ LET job == Head(todo[p]) IN
       IF job.merge /\ file[job.file].state \in {"empty", "garbled"}
       THEN Goes(p, "failed") /\ UNCHANGED loaded
       ELSE /\ loaded' = [loaded EXCEPT ![p] = IF job.merge THEN file[job.file].has ELSE {}]
            /\ Goes(p, "open")
    /\ UNCHANGED <<command, dir, file, disk, todo, guests, disturbed>>

\* open(config_file, 'w') truncates, or fails without the directory.
Open(p) ==
    /\ pc[p] = "open"
    /\ IF dir
       THEN /\ file' = [file EXCEPT ![Head(todo[p]).file] = Empty]
            /\ Disturbs(p, Head(todo[p]).file)
            /\ Goes(p, "dump")
       ELSE Goes(p, "failed") /\ UNCHANGED <<file, disturbed>>
    /\ UNCHANGED <<command, dir, disk, todo, loaded, guests>>

\* What a command does when all its files are written.
AfterJobs(p) == CASE command[p] = "new" -> "done"
                  [] command[p] = "serve" -> "serving"
                  [] OTHER -> "disk"

\* What p's file is when its JSON is flushed at offset 0: if another one has
\* dumped since p truncated it, a longer text of that one shows behind p's.
Dumped(p) ==
    LET whole == Whole(Updated(loaded[p], Head(todo[p]).entries)) IN
    IF file[Head(todo[p]).file].state = "empty" THEN {whole} ELSE {whole, Garbled}

\* Mutant: leaves the last file unwritten.
Dump_OneShort(p) ==
    /\ pc[p] = "dump"
    /\ \E text \in Dumped(p) : file' = [file EXCEPT ![Head(todo[p]).file] = text]
    /\ todo' = [todo EXCEPT ![p] = Tail(@)]
    /\ Goes(p, IF Len(todo[p]) <= 2 THEN AfterJobs(p) ELSE "load")
    /\ Disturbs(p, Head(todo[p]).file)
    /\ loaded' = [loaded EXCEPT ![p] = {}]
    /\ UNCHANGED <<command, dir, disk, guests>>

\* json.dump and the end of the with statement
Dump(p) ==
    /\ pc[p] = "dump"
    /\ \E text \in Dumped(p) : file' = [file EXCEPT ![Head(todo[p]).file] = text]
    /\ todo' = [todo EXCEPT ![p] = Tail(@)]
    /\ Goes(p, IF Len(todo[p]) = 1 THEN AfterJobs(p) ELSE "load")
    /\ Disturbs(p, Head(todo[p]).file)
    /\ loaded' = [loaded EXCEPT ![p] = {}]
    /\ UNCHANGED <<command, dir, disk, guests>>

(***************************************************************************)
(* The disk and QEMU                                                       *)
(***************************************************************************)
\* Mutant: creates the disk whether it exists or not.
LookForDisk_Always(p) ==
    /\ pc[p] = "disk"
    /\ Goes(p, "create")
    /\ UNCHANGED <<command, dir, file, disk, todo, loaded, guests, disturbed>>

LookForDisk(p) ==
    /\ pc[p] = "disk"
    /\ Goes(p, IF disk = "absent" THEN "create" ELSE "boot")
    /\ UNCHANGED <<command, dir, file, disk, todo, loaded, guests, disturbed>>

\* qemu-img create overwrites an image, unless a running QEMU has locked it.
CreateDisk(p) ==
    /\ pc[p] = "create"
    /\ IF guests = {}
       THEN disk' = "fresh" /\ Goes(p, "boot") /\ Disturbs(p, "disk")
       ELSE Goes(p, "failed") /\ UNCHANGED <<disk, disturbed>>
    /\ UNCHANGED <<command, dir, file, todo, loaded, guests>>

\* subprocess.run(cmd): QEMU locks the image, or fails if another one has.
Boot(p) ==
    /\ pc[p] = "boot"
    /\ CASE command[p] = "dry" -> Goes(p, "done") /\ UNCHANGED <<disk, guests>>
         [] command[p] = "run" /\ guests = {} ->
                /\ Goes(p, "running")
                /\ disk' = "used"
                /\ guests' = {p}
         [] command[p] = "run" /\ guests # {} ->
                Goes(p, "failed") /\ UNCHANGED <<disk, guests>>
    /\ UNCHANGED <<command, dir, file, todo, loaded, disturbed>>

\* QEMU ends; run returns, if it has not died before.
GuestEnds(p) ==
    /\ p \in guests
    /\ guests' = guests \ {p}
    /\ IF pc[p] = "running" THEN Goes(p, "done") ELSE UNCHANGED pc
    /\ UNCHANGED <<command, dir, file, disk, todo, loaded, disturbed>>

\* The command is killed or raises (no compose file, a bad port mapping, no
\* image metadata, ...): nothing is undone, and QEMU may survive it.
Stop(p) ==
    /\ pc[p] \notin {"start", "done", "failed"}
    /\ Goes(p, "failed")
    /\ guests' \in {guests, guests \ {p}}
    /\ loaded' = [loaded EXCEPT ![p] = {}]
    /\ UNCHANGED <<command, dir, file, disk, todo, disturbed>>

(***************************************************************************)
(* Specification                                                           *)
(***************************************************************************)
Init ==
    /\ \E scenario \in Scenario :
           command = scenario.command /\ dir = scenario.prepared
    /\ file = [f \in File |->
           CASE dir /\ f = "app-compose.json" -> Whole({<<"app", "compose">>})
             [] dir /\ f = "vm-manifest.json" -> Whole({<<"vm", "manifest">>})
             [] dir /\ f = ".sys-config.json" -> Whole({<<"docker_registry", "registry">>})
             [] OTHER -> Absent]
    /\ disk = "absent"
    /\ pc = [p \in Process |-> "start"]
    /\ todo = [p \in Process |-> <<>>]
    /\ loaded = [p \in Process |-> {}]
    /\ guests = {}
    /\ disturbed = [p \in Process |-> {}]

Next == \E p \in Process :
    \/ CheckDirectory(p) \/ MakeDirectories(p) \/ ReadManifest(p) \/ StartServe(p)
    \/ Load(p) \/ Open(p) \/ Dump(p)
    \/ LookForDisk(p) \/ CreateDisk(p) \/ Boot(p) \/ GuestEnds(p) \/ Stop(p)

Spec == Init /\ [][Next]_vars

(***************************************************************************)
(* Properties                                                              *)
(***************************************************************************)
Job == [file : File, merge : BOOLEAN, entries : SUBSET Entry]

TypeOK ==
    /\ command \in [Process -> {"new", "run", "dry", "serve"}]
    /\ dir \in BOOLEAN
    /\ \A f \in File : /\ file[f].state \in {"absent", "empty", "whole", "garbled"}
                       /\ file[f].has \subseteq Entry
    /\ disk \in {"absent", "fresh", "used"}
    /\ pc \in [Process -> {"start", "making", "load", "open", "dump", "disk", "create",
                           "boot", "running", "serving", "done", "failed"}]
    /\ \A p \in Process :
           /\ \A i \in DOMAIN todo[p] : todo[p][i].file \in File
           /\ pc[p] \in {"load", "open", "dump"} => todo[p] # <<>>
           /\ pc[p] \in {"disk", "create", "boot", "running", "serving", "done"} =>
                  todo[p] = <<>>
           /\ loaded[p] \subseteq Entry
    /\ guests \subseteq Process
    /\ disturbed \in [Process -> SUBSET (File \cup {"dir", "disk", "stale"})]

\* p has got past its look at the manifest.
Underway(p) == command[p] \in {"run", "dry"} /\ pc[p] \notin {"start", "failed"}

\* No two "new" got past the check of the directory and to work on its files.
SoleNew ==
    \A p, q \in {n \in Process : command[n] = "new" /\ (todo[n] # <<>> \/ pc[n] = "done")} :
        p = q

\* A VM is only ever configured and started from a completed instance, even
\* while "new" is at work or after it died half-way: the manifest is written
\* last.  It takes one "new" at a time: a second one that passes the check of
\* _create_directories rewrites the files of the first.
StartsComplete ==
    SoleNew => \A p \in Process :
                   Underway(p) => /\ file["app-compose.json"].state = "whole"
                                  /\ file[".sys-config.json"].state # "absent"

\* No server had .sys-config.json in hand when "new" wrote it.
ServedWhenMade == \A p \in Process : command[p] = "serve" => "stale" \notin disturbed[p]

\* The settings "new" left for the guest survive every rewriting of
\* .sys-config.json by runs, servers and a second "new" that overlap or die on
\* the way: a truncated file is never taken for an empty configuration.  Only
\* a server that had loaded the file before "new" wrote it, and writes it
\* back afterwards, can undo them.
RegistryKept ==
    /\ ServedWhenMade
    /\ file["vm-manifest.json"].state = "whole"
    /\ file[".sys-config.json"].state = "whole"
    => <<"docker_registry", "registry">> \in file[".sys-config.json"].has

\* p has written all its files; its guest is about to start, or runs.
Configured(p) == Underway(p) /\ pc[p] \in {"disk", "create", "boot", "running"}

\* Of the two files of its guest, a run finds those that nobody else wrote to
\* meanwhile whole and naming the host API port of its own, whatever earlier
\* commands left behind when they died.
StartsOnOwnConfig ==
    \A p \in Process : Configured(p) =>
        \A f \in GuestConfig \ disturbed[p] :
            {<<"host_port", p>>, <<"vm_config", "manifest">>} \subseteq file[f].has

\* And in those that others did write to, its guest is left with some server:
\* however runs, dry runs and servers interleave, none of them takes the host
\* API port away from a file without putting another one there, because each
\* of them writes its port to a file before anything else.  (The vm_config of
\* a run may get lost to a server that had loaded the file before.)
PortSurvives ==
    SoleNew => \A p \in Process, f \in GuestConfig :
        Configured(p) /\ file[f].state = "whole"
        => \E q \in Process : /\ <<"host_port", q>> \in file[f].has
                              /\ q = p \/ f \in disturbed[p]

\* A "new" on a directory that is already there, complete or half made, does
\* not touch it, unless it was made between its look and its makedirs.
NewRefusesExisting ==
    [][\A p \in Process : MakeDirectories(p) /\ dir => "dir" \in disturbed[p]]_vars

\* A disk that is there is not created anew by a run or dry run, has a guest
\* used it or not, unless another command created it while that one was at it.
DiskKept ==
    [][\A p \in Process :
           CreateDisk(p) /\ disk # "absent" /\ disk' = "fresh" => "disk" \in disturbed[p]]_vars
============================================================================
