-------------------------- MODULE VmInstanceProofs --------------------------
(***************************************************************************)
(* Theorems about VmInstance for every number of dstack commands and every *)
(* scenario of what they are.                                              *)
(***************************************************************************)
EXTENDS VmInstance, TLAPS

(***************************************************************************)
(* The inductive invariant.                                                *)
(***************************************************************************)
Where == {"start", "making", "load", "open", "dump", "disk", "create", "boot", "running",
          "serving", "done", "failed"}

Contents == [state : {"absent", "empty", "whole", "garbled"}, has : SUBSET Entry]

Thing == File \cup {"dir", "disk", "stale"}

\* TypeOK, with what is left to do as a sequence.
Shape ==
    /\ command \in [Process -> {"new", "run", "dry", "serve"}]
    /\ dir \in BOOLEAN
    /\ file \in [File -> Contents]
    /\ disk \in {"absent", "fresh", "used"}
    /\ pc \in [Process -> Where]
    /\ todo \in [Process -> Seq(Job)]
    /\ loaded \in [Process -> SUBSET Entry]
    /\ guests \subseteq Process
    /\ disturbed \in [Process -> SUBSET Thing]

\* A command has jobs left exactly while it writes files, or failed at it;
\* only run and dry go on to a disk.
TodoFollowsPc ==
    \A p \in Process :
        /\ pc[p] \in {"load", "open", "dump"} => todo[p] # <<>>
        /\ pc[p] \notin {"load", "open", "dump", "failed"} => todo[p] = <<>>
        /\ pc[p] = "making" => command[p] = "new"
        /\ pc[p] \in {"disk", "create", "boot", "running"} => command[p] \in {"run", "dry"}

\* What is left to do is the end of what the command set out to do.
IsEndOfNew(jobs) ==
    Len(jobs) <= 3 /\ \A i \in 1..Len(jobs) : jobs[i] = NewJobs[i + 3 - Len(jobs)]

JobsFit ==
    \A p \in Process :
        /\ command[p] = "new" => IsEndOfNew(todo[p])
        /\ command[p] # "new" => \A i \in 1..Len(todo[p]) :
                                     todo[p][i].merge /\ todo[p][i].file \in GuestConfig

\* The directory, or the disk, that a command has found missing is still
\* missing unless another command made it; no VM boots without a disk.
StillMissing ==
    \A p \in Process :
        /\ pc[p] = "making" /\ dir => "dir" \in disturbed[p]
        /\ pc[p] = "create" /\ disk # "absent" => "disk" \in disturbed[p]
        /\ pc[p] = "boot" => disk # "absent"

BaseInv == Shape /\ TodoFollowsPc /\ JobsFit /\ StillMissing

(***************************************************************************)
(* The lists of jobs                                                       *)
(***************************************************************************)
LEMMA JobTypes ==
    /\ NewJobs \in Seq(Job) /\ Len(NewJobs) = 3 /\ IsEndOfNew(NewJobs) /\ NewJobs # <<>>
    /\ \A p \in Process : /\ RunJobs(p) \in Seq(Job) /\ RunJobs(p) # <<>>
                          /\ ServeJobs(p) \in Seq(Job) /\ ServeJobs(p) # <<>>
                          /\ \A i \in 1..Len(RunJobs(p)) :
                                 RunJobs(p)[i].merge /\ RunJobs(p)[i].file \in GuestConfig
                          /\ \A i \in 1..Len(ServeJobs(p)) :
                                 ServeJobs(p)[i].merge /\ ServeJobs(p)[i].file \in GuestConfig
  <1>1. \A f \in File, entries \in SUBSET Entry :
            Replace(f, entries) \in Job /\ Merge(f, entries) \in Job /\ Merge(f, entries).merge
    BY DEF Replace, Merge, Job
  <1>2. /\ {<<"app", "compose">>} \in SUBSET Entry /\ {<<"vm", "manifest">>} \in SUBSET Entry
        /\ {<<"docker_registry", "registry">>} \in SUBSET Entry
        /\ {<<"vm_config", "manifest">>} \in SUBSET Entry
        /\ \A p \in Process : {<<"host_port", p>>} \in SUBSET Entry
    BY DEF Entry
  <1>3. NewJobs \in Seq(Job) /\ Len(NewJobs) = 3 /\ NewJobs # <<>>
    BY <1>1, <1>2 DEF NewJobs, File
  <1>4. IsEndOfNew(NewJobs)
    BY <1>3 DEF IsEndOfNew
  <1>5. ASSUME NEW p \in Process
        PROVE  /\ RunJobs(p) \in Seq(Job) /\ RunJobs(p) # <<>>
               /\ \A i \in 1..Len(RunJobs(p)) :
                      RunJobs(p)[i].merge /\ RunJobs(p)[i].file \in GuestConfig
    <2>1. RunJobs(p) \in Seq(Job) /\ RunJobs(p) # <<>> /\ Len(RunJobs(p)) = 4
      BY <1>1, <1>2 DEF RunJobs, File
    <2> QED  BY <2>1 DEF RunJobs, Merge, GuestConfig
  <1>6. ASSUME NEW p \in Process
        PROVE  /\ ServeJobs(p) \in Seq(Job) /\ ServeJobs(p) # <<>>
               /\ \A i \in 1..Len(ServeJobs(p)) :
                      ServeJobs(p)[i].merge /\ ServeJobs(p)[i].file \in GuestConfig
    <2>1. ServeJobs(p) \in Seq(Job) /\ ServeJobs(p) # <<>> /\ Len(ServeJobs(p)) = 2
      BY <1>1, <1>2 DEF ServeJobs, File
    <2> QED  BY <2>1 DEF ServeJobs, Merge, GuestConfig
  <1> QED  BY <1>3, <1>4, <1>5, <1>6

\* A job that is done leaves the end of the list.
LEMMA TailOfJobs ==
    ASSUME NEW jobs \in Seq(Job), jobs # <<>>
    PROVE  /\ Head(jobs) = jobs[1] /\ Head(jobs) \in Job
           /\ Tail(jobs) \in Seq(Job)
           /\ Len(jobs) \in Nat \ {0} /\ Len(Tail(jobs)) = Len(jobs) - 1
           /\ Len(jobs) = 1 <=> Tail(jobs) = <<>>
           /\ IsEndOfNew(jobs) => IsEndOfNew(Tail(jobs))
           /\ \A i \in 1..Len(Tail(jobs)) : Tail(jobs)[i] = jobs[i + 1] /\ i + 1 \in 1..Len(jobs)
  <1>1. /\ Head(jobs) = jobs[1] /\ Head(jobs) \in Job /\ Tail(jobs) \in Seq(Job)
        /\ Len(jobs) \in Nat \ {0} /\ Len(Tail(jobs)) = Len(jobs) - 1
        /\ Len(jobs) = 1 <=> Tail(jobs) = <<>>
    <2>1. /\ Head(jobs) = jobs[1] /\ Head(jobs) \in Job /\ Tail(jobs) \in Seq(Job)
          /\ Len(jobs) \in Nat \ {0} /\ Len(Tail(jobs)) = Len(jobs) - 1
      OBVIOUS
    <2>2. \A t \in Seq(Job) : Len(t) = 0 <=> t = <<>>
      OBVIOUS
    <2>3. Len(Tail(jobs)) = 0 <=> Tail(jobs) = <<>>
      BY <2>1, <2>2
    <2>4. Len(jobs) = 1 <=> Len(Tail(jobs)) = 0
      BY <2>1
    <2> QED  BY <2>1, <2>3, <2>4
  <1>2. \A i \in 1..Len(Tail(jobs)) : Tail(jobs)[i] = jobs[i + 1] /\ i + 1 \in 1..Len(jobs)
    BY <1>1
  <1>3. IsEndOfNew(jobs) => IsEndOfNew(Tail(jobs))
    BY <1>1, <1>2 DEF IsEndOfNew
  <1> QED  BY <1>1, <1>2, <1>3

\* What the JSON that a command dumps may make of the file.
LEMMA DumpedTypes ==
    ASSUME Shape, NEW p \in Process, todo[p] # <<>>, NEW text \in Dumped(p)
    PROVE  /\ text \in Contents /\ text.state \in {"whole", "garbled"}
           /\ text.state = "whole" => text.has = Updated(loaded[p], Head(todo[p]).entries)
  <1>1. Updated(loaded[p], Head(todo[p]).entries) \in SUBSET Entry
    <2>1. loaded[p] \in SUBSET Entry /\ Head(todo[p]).entries \in SUBSET Entry
      BY TailOfJobs DEF Shape, Job
    <2> QED  BY <2>1 DEF Updated
  <1> DEFINE new == Updated(loaded[p], Head(todo[p]).entries)
  <1>2. text \in {Whole(new), Garbled}
    BY DEF Dumped
  <1> HIDE DEF new
  <1> QED  BY <1>1, <1>2 DEF Whole, Garbled, Contents, new

\* The file that a command is at is one of them.
LEMMA HeadIsFile ==
    ASSUME Shape, NEW p \in Process, todo[p] # <<>>
    PROVE  Head(todo[p]).file \in File /\ Head(todo[p]).file \in Thing
  <1>1. Head(todo[p]) \in Job
    BY TailOfJobs DEF Shape
  <1> QED  BY <1>1 DEF Job, Thing

\* What p changes is added to what the others under way had changed for them.
LEMMA DisturbsEffect ==
    ASSUME Shape, NEW p \in Process, NEW what \in Thing, Disturbs(p, what)
    PROVE  /\ disturbed' \in [Process -> SUBSET Thing]
           /\ \A q \in Process : disturbed[q] \subseteq disturbed'[q]
           /\ disturbed'[p] = disturbed[p]
           /\ \A q \in Process :
                  q # p /\ pc[q] \notin {"start", "done", "failed"} =>
                      /\ what \in disturbed'[q]
                      /\ command[p] = "new" /\ pc[p] = "dump" /\ InHand(q, what) =>
                             "stale" \in disturbed'[q]
  <1>1. \A q \in Process : disturbed[q] \subseteq Thing /\ "stale" \in Thing
    BY DEF Shape, Thing
  <1>2. \A q \in Process : disturbed'[q] = disturbed[q] \cup
            (IF q = p \/ pc[q] \in {"start", "done", "failed"} THEN {}
             ELSE {what} \cup {s \in {"stale"} :
                      command[p] = "new" /\ pc[p] = "dump" /\ InHand(q, what)})
    BY DEF Disturbs
  <1>3. \A q \in Process : disturbed'[q] \subseteq Thing
    BY <1>1, <1>2
  <1>4. disturbed' = [q \in Process |-> disturbed'[q]]
    BY DEF Disturbs
  <1>5. disturbed' \in [Process -> SUBSET Thing]
    BY <1>3, <1>4
  <1> QED  BY <1>2, <1>5

(***************************************************************************)
(* The steps                                                               *)
(***************************************************************************)
LEMMA InitBase == Init => BaseInv
  <1> SUFFICES ASSUME Init PROVE BaseInv
    OBVIOUS
  <1>1. command \in [Process -> {"new", "run", "dry", "serve"}] /\ dir \in BOOLEAN
    BY ScenarioAssumption DEF Init
  <1>2. file \in [File -> Contents]
    <2>1. /\ Whole({<<"app", "compose">>}) \in Contents /\ Whole({<<"vm", "manifest">>}) \in Contents
          /\ Whole({<<"docker_registry", "registry">>}) \in Contents /\ Absent \in Contents
      BY DEF Whole, Absent, Contents, Entry
    <2> QED  BY <2>1 DEF Init
  <1>3. todo \in [Process -> Seq(Job)]
    <2>1. <<>> \in Seq(Job)
      OBVIOUS
    <2> QED  BY <2>1 DEF Init
  <1>4. Shape
    BY <1>1, <1>2, <1>3 DEF Init, Shape, Where, Thing
  <1>5. \A p \in Process : todo[p] = <<>> /\ Len(todo[p]) = 0 /\ pc[p] = "start"
    BY DEF Init
  <1>6. TodoFollowsPc /\ StillMissing
    BY <1>5 DEF TodoFollowsPc, StillMissing
  <1>7. JobsFit
    <2> SUFFICES ASSUME NEW p \in Process
                 PROVE  /\ IsEndOfNew(todo[p])
                        /\ \A i \in 1..Len(todo[p]) :
                               todo[p][i].merge /\ todo[p][i].file \in GuestConfig
      BY DEF JobsFit
    <2>1. Len(todo[p]) = 0
      BY <1>5
    <2>2. Len(todo[p]) <= 3 /\ ~ \E i : i \in 1..Len(todo[p])
      BY <2>1
    <2> QED  BY <2>2 DEF IsEndOfNew
  <1> QED  BY <1>4, <1>6, <1>7 DEF BaseInv

\* Booting ends a dry run, starts the guest, or fails.
LEMMA BootEffect ==
    ASSUME BaseInv, NEW p \in Process, Boot(p)
    PROVE  /\ \E next \in {"done", "running", "failed"} : Goes(p, next)
           /\ disk' \in {disk, "used"} /\ guests' \in {guests, {p}} /\ pc[p] = "boot"
           /\ UNCHANGED <<command, dir, file, todo, loaded, disturbed>>
  <1>1. command[p] \in {"run", "dry"} /\ pc[p] = "boot"
    BY DEF BaseInv, TodoFollowsPc, Boot
  <1>2. CASE command[p] = "dry"
    BY <1>1, <1>2 DEF Boot
  <1>3. CASE command[p] = "run" /\ guests = {}
    <2>1. Goes(p, "running") /\ disk' = "used" /\ guests' = {p}
      BY <1>3 DEF Boot
    <2> QED  BY <1>1, <2>1 DEF Boot
  <1>4. CASE command[p] = "run" /\ guests # {}
    <2>1. Goes(p, "failed") /\ UNCHANGED <<disk, guests>>
      BY <1>4 DEF Boot
    <2> QED  BY <1>1, <2>1 DEF Boot
  <1> QED  BY <1>1, <1>2, <1>3, <1>4

\* A step of p leaves what other commands are at and have to do alone, and
\* never makes a directory or a file disappear.
LEMMA OthersKept ==
    ASSUME BaseInv, NEW p \in Process,
           \/ CheckDirectory(p) \/ MakeDirectories(p) \/ ReadManifest(p) \/ StartServe(p)
           \/ Load(p) \/ Open(p) \/ Dump(p)
           \/ LookForDisk(p) \/ CreateDisk(p) \/ Boot(p) \/ GuestEnds(p) \/ Stop(p)
    PROVE  /\ command' = command
           /\ \A q \in Process \ {p} :
                  pc'[q] = pc[q] /\ todo'[q] = todo[q] /\ loaded'[q] = loaded[q]
           /\ \A q \in Process : disturbed[q] \subseteq disturbed'[q]
           /\ dir => dir'
  <1>0. Shape
    BY DEF BaseInv
  <1>1. CASE CheckDirectory(p) \/ StartServe(p) \/ LookForDisk(p)
    BY <1>0, <1>1 DEF Shape, CheckDirectory, StartServe, LookForDisk, Goes
  <1>7. CASE ReadManifest(p)
    BY <1>0, <1>7 DEF Shape, ReadManifest, Goes
  <1>2. CASE MakeDirectories(p) \/ CreateDisk(p)
    <2>1. \A q \in Process : disturbed[q] \subseteq disturbed'[q]
      BY <1>0, <1>2, DisturbsEffect DEF MakeDirectories, CreateDisk, Thing
    <2> QED  BY <1>0, <1>2, <2>1 DEF Shape, MakeDirectories, CreateDisk, Goes
  <1>3. CASE Load(p)
    BY <1>0, <1>3 DEF Shape, Load, Goes
  <1>4. CASE Open(p) \/ Dump(p)
    <2>1. Head(todo[p]).file \in Thing
      BY <1>0, <1>4, HeadIsFile DEF BaseInv, TodoFollowsPc, Open, Dump
    <2>2. \A q \in Process : disturbed[q] \subseteq disturbed'[q]
      BY <1>0, <1>4, <2>1, DisturbsEffect DEF Open, Dump
    <2> QED  BY <1>0, <1>4, <2>2 DEF Shape, Open, Dump, Goes
  <1>5. CASE GuestEnds(p) \/ Stop(p)
    BY <1>0, <1>5 DEF Shape, GuestEnds, Stop, Goes
  <1>6. CASE Boot(p)
    BY <1>0, <1>6, BootEffect DEF Shape, Goes
  <1> QED  BY <1>1, <1>2, <1>3, <1>4, <1>5, <1>6, <1>7

\* The first steps, that end in a list of jobs.
LEMMA FirstSteps ==
    ASSUME BaseInv, NEW p \in Process,
           CheckDirectory(p) \/ MakeDirectories(p) \/ ReadManifest(p) \/ StartServe(p)
    PROVE  BaseInv'
  <1>1. Shape /\ todo[p] = <<>> /\ UNCHANGED <<file, disk, loaded, guests, command>>
    BY DEF BaseInv, TodoFollowsPc, CheckDirectory, MakeDirectories, ReadManifest, StartServe
  <1>2. CASE CheckDirectory(p)
    <2>1. Shape'
      BY <1>1, <1>2 DEF Shape, CheckDirectory, Goes, Where
    <2>2. TodoFollowsPc' /\ JobsFit' /\ StillMissing'
      BY <1>1, <1>2 DEF BaseInv, Shape, TodoFollowsPc, JobsFit, StillMissing, CheckDirectory, Goes
    <2> QED  BY <2>1, <2>2 DEF BaseInv
  <1>3. CASE MakeDirectories(p)
    <2>1. Shape'
      <3>1. disturbed' \in [Process -> SUBSET Thing]
        BY <1>1, <1>3, DisturbsEffect DEF MakeDirectories, Thing
      <3> QED  BY <1>1, <1>3, <3>1, JobTypes DEF Shape, MakeDirectories, Goes, Where
    <2>2. command[p] = "new"
      BY <1>3 DEF MakeDirectories, BaseInv, TodoFollowsPc
    <2>5. /\ NewJobs # <<>> /\ IsEndOfNew(NewJobs)
          /\ todo \in [Process -> Seq(Job)] /\ pc \in [Process -> Where]
          /\ todo' = [todo EXCEPT ![p] = NewJobs]
      BY <1>1, <1>3, JobTypes DEF Shape, MakeDirectories
    <2>6. pc' = [pc EXCEPT ![p] = "load"]
      BY <1>3 DEF MakeDirectories, Goes
    <2>3. TodoFollowsPc' /\ JobsFit'
      <3>1. TodoFollowsPc'
        BY <1>1, <2>2, <2>5, <2>6 DEF BaseInv, TodoFollowsPc
      <3>2. JobsFit'
        BY <1>1, <2>2, <2>5 DEF BaseInv, JobsFit
      <3> QED  BY <3>1, <3>2
    <2>4. StillMissing'
      <3>1. \A q \in Process : /\ disturbed[q] \subseteq disturbed'[q]
                               /\ q # p /\ pc[q] = "making" => "dir" \in disturbed'[q]
        BY <1>1, <1>3, DisturbsEffect DEF MakeDirectories, Thing
      <3> QED  BY <1>1, <2>6, <3>1 DEF BaseInv, Shape, StillMissing
    <2> QED  BY <2>1, <2>3, <2>4 DEF BaseInv
  <1>4. CASE ReadManifest(p)
    <2>1. Shape'
      BY <1>1, <1>4, JobTypes DEF Shape, ReadManifest, Goes, Where
    <2>2. \/ todo' = [todo EXCEPT ![p] = RunJobs(p)] /\ pc' = [pc EXCEPT ![p] = "load"]
          \/ todo' = todo /\ pc' = [pc EXCEPT ![p] = "failed"]
      BY <1>4 DEF ReadManifest, Goes
    <2>4. TodoFollowsPc'
      <3>1. RunJobs(p) # <<>>
        BY JobTypes
      <3> QED  BY <1>1, <2>2, <3>1 DEF BaseInv, Shape, TodoFollowsPc
    <2>5. JobsFit'
      <3>1. command[p] # "new" /\ command' = command
        BY <1>4 DEF ReadManifest
      <3>2. \A i \in 1..Len(todo'[p]) : todo'[p][i].merge /\ todo'[p][i].file \in GuestConfig
        <4>1. todo'[p] = RunJobs(p) \/ todo'[p] = todo[p]
          BY <1>1, <2>2 DEF Shape
        <4> QED  BY <3>1, <4>1, JobTypes DEF BaseInv, JobsFit
      <3>3. \A q \in Process : q # p => todo'[q] = todo[q]
        BY <1>1, <2>2 DEF Shape
      <3> QED  BY <3>1, <3>2, <3>3 DEF BaseInv, JobsFit
    <2>3. StillMissing'
      BY <1>1, <1>4 DEF BaseInv, Shape, StillMissing, ReadManifest, Goes
    <2> QED  BY <2>1, <2>3, <2>4, <2>5 DEF BaseInv
  <1>5. CASE StartServe(p)
    <2>1. Shape'
      BY <1>1, <1>5, JobTypes DEF Shape, StartServe, Goes, Where
    <2>4. /\ todo' = [todo EXCEPT ![p] = ServeJobs(p)] /\ pc' = [pc EXCEPT ![p] = "load"]
          /\ command' = command /\ command[p] \notin {"new", "run", "dry"}
      BY <1>5 DEF StartServe, Goes
    <2>5. ServeJobs(p) # <<>> /\ \A i \in 1..Len(ServeJobs(p)) :
              ServeJobs(p)[i].merge /\ ServeJobs(p)[i].file \in GuestConfig
      BY JobTypes
    <2>2. TodoFollowsPc' /\ JobsFit'
      <3>1. TodoFollowsPc'
        BY <1>1, <2>4, <2>5 DEF BaseInv, Shape, TodoFollowsPc
      <3>2. JobsFit'
        BY <1>1, <2>4, <2>5 DEF BaseInv, Shape, JobsFit
      <3> QED  BY <3>1, <3>2
    <2>3. StillMissing'
      BY <1>1, <1>5 DEF BaseInv, Shape, StillMissing, StartServe, Goes
    <2> QED  BY <2>1, <2>2, <2>3 DEF BaseInv
  <1> QED  BY <1>2, <1>3, <1>4, <1>5

\* Reading and writing a file.
LEMMA WritingSteps ==
    ASSUME BaseInv, NEW p \in Process, Load(p) \/ Open(p) \/ Dump(p)
    PROVE  BaseInv'
  <1>1. /\ Shape /\ todo[p] # <<>> /\ todo[p] \in Seq(Job) /\ Head(todo[p]).file \in File
        /\ UNCHANGED <<command, dir, disk, guests>>
    <2>1. Shape /\ todo[p] # <<>> /\ todo[p] \in Seq(Job)
      BY DEF BaseInv, TodoFollowsPc, Load, Open, Dump, Shape
    <2> QED  BY <2>1, TailOfJobs DEF Load, Open, Dump, Job
  <1>2. CASE Load(p)
    <2>1. PICK old \in SUBSET Entry, next \in {"open", "failed"} :
              /\ loaded' = [loaded EXCEPT ![p] = old] /\ Goes(p, next)
              /\ UNCHANGED <<file, todo, disturbed>>
      <3>1. file[Head(todo[p]).file].has \in SUBSET Entry /\ loaded[p] \in SUBSET Entry
            /\ loaded = [loaded EXCEPT ![p] = loaded[p]]
        BY <1>1 DEF Shape, Contents
      <3> QED  BY <1>2, <3>1 DEF Load
    <2>2. Shape'
      BY <1>1, <2>1 DEF Shape, Goes, Where
    <2>3. TodoFollowsPc' /\ JobsFit' /\ StillMissing'
      BY <1>1, <2>1 DEF BaseInv, Shape, TodoFollowsPc, JobsFit, StillMissing, Goes
    <2> QED  BY <2>2, <2>3 DEF BaseInv
  <1>3. CASE Open(p)
    <2>1. Empty \in Contents
      BY DEF Empty, Contents
    <2>2. Shape'
      <3>1. disturbed' \in [Process -> SUBSET Thing]
        BY <1>1, <1>3, HeadIsFile, DisturbsEffect DEF Open, Shape
      <3> QED  BY <1>1, <1>3, <2>1, <3>1 DEF Shape, Open, Goes, Where
    <2>3. TodoFollowsPc' /\ JobsFit'
      BY <1>1, <1>3 DEF BaseInv, Shape, TodoFollowsPc, JobsFit, Open, Goes
    <2>4. StillMissing'
      <3>1. /\ pc' \in {[pc EXCEPT ![p] = "dump"], [pc EXCEPT ![p] = "failed"]}
            /\ UNCHANGED <<dir, disk>>
            /\ \A q \in Process : disturbed[q] \subseteq disturbed'[q]
        BY <1>3, OthersKept DEF Open, Goes
      <3> QED  BY <1>1, <3>1 DEF BaseInv, Shape, StillMissing
    <2> QED  BY <2>2, <2>3, <2>4 DEF BaseInv
  <1>4. CASE Dump(p)
    <2>1. PICK text \in Contents, next \in {"done", "serving", "disk", "load"} :
              /\ file' = [file EXCEPT ![Head(todo[p]).file] = text]
              /\ todo' = [todo EXCEPT ![p] = Tail(todo[p])]
              /\ pc' = [pc EXCEPT ![p] = next]
              /\ Tail(todo[p]) = <<>> <=> next # "load"
              /\ next = "disk" => command[p] \in {"run", "dry"}
              /\ loaded' = [loaded EXCEPT ![p] = {}]
              /\ Disturbs(p, Head(todo[p]).file)
      <3>1. Len(todo[p]) = 1 <=> Tail(todo[p]) = <<>>
        BY <1>1, TailOfJobs
      <3>2. /\ AfterJobs(p) \in {"done", "serving", "disk"}
            /\ AfterJobs(p) = "disk" => command[p] \in {"run", "dry"}
        BY <1>1 DEF AfterJobs, Shape
      <3>3. PICK text \in Dumped(p) : file' = [file EXCEPT ![Head(todo[p]).file] = text]
        BY <1>4 DEF Dump
      <3>4. text \in Contents
        BY <1>1, DumpedTypes
      <3> QED  BY <1>4, <3>1, <3>2, <3>3, <3>4 DEF Dump, Goes
    <2>2. Tail(todo[p]) \in Seq(Job)
      BY <1>1, TailOfJobs
    <2>3. Shape'
      <3>1. disturbed' \in [Process -> SUBSET Thing]
        BY <1>1, <2>1, HeadIsFile, DisturbsEffect
      <3> QED  BY <1>1, <2>1, <2>2, <3>1 DEF Shape, Where
    <2>4. TodoFollowsPc'
      BY <1>1, <2>1 DEF BaseInv, Shape, TodoFollowsPc
    <2>5. JobsFit'
      <3>1. /\ command[p] = "new" => IsEndOfNew(Tail(todo[p]))
            /\ command[p] # "new" => \A i \in 1..Len(Tail(todo[p])) :
                   Tail(todo[p])[i].merge /\ Tail(todo[p])[i].file \in GuestConfig
        BY <1>1, TailOfJobs DEF BaseInv, JobsFit
      <3> QED  BY <1>1, <2>1, <3>1 DEF BaseInv, Shape, JobsFit
    <2>6. StillMissing'
      <3>1. \A q \in Process : disturbed[q] \subseteq disturbed'[q]
        BY <1>4, OthersKept
      <3> QED  BY <1>1, <2>1, <3>1 DEF BaseInv, Shape, StillMissing
    <2> QED  BY <2>3, <2>4, <2>5, <2>6 DEF BaseInv
  <1> QED  BY <1>2, <1>3, <1>4

\* The disk, QEMU, and the end of a command.
LEMMA LastSteps ==
    ASSUME BaseInv, NEW p \in Process,
           LookForDisk(p) \/ CreateDisk(p) \/ Boot(p) \/ GuestEnds(p) \/ Stop(p)
    PROVE  BaseInv'
  <1>1. Shape /\ UNCHANGED <<command, dir, file, todo>>
    BY DEF BaseInv, LookForDisk, CreateDisk, Boot, GuestEnds, Stop
  <1>2. CASE LookForDisk(p)
    BY <1>1, <1>2 DEF BaseInv, Shape, TodoFollowsPc, JobsFit, StillMissing, LookForDisk, Goes, Where
  <1>3. CASE CreateDisk(p)
    <2>1. Shape'
      <3>1. disturbed' \in [Process -> SUBSET Thing]
        BY <1>1, <1>3, DisturbsEffect DEF CreateDisk, Shape, Thing
      <3> QED  BY <1>1, <1>3, <3>1 DEF Shape, CreateDisk, Goes, Where
    <2>2. TodoFollowsPc' /\ JobsFit'
      BY <1>1, <1>3 DEF BaseInv, Shape, TodoFollowsPc, JobsFit, CreateDisk, Goes
    <2>3. StillMissing'
      <3>1. CASE guests = {}
        <4>1. /\ disk' = "fresh" /\ pc' = [pc EXCEPT ![p] = "boot"] /\ dir' = dir
              /\ \A q \in Process :
                     /\ disturbed[q] \subseteq disturbed'[q]
                     /\ q # p /\ pc[q] = "create" => "disk" \in disturbed'[q]
          BY <1>1, <1>3, <3>1, DisturbsEffect DEF CreateDisk, Goes, Thing
        <4> QED  BY <1>1, <4>1 DEF BaseInv, Shape, StillMissing
      <3>2. CASE guests # {}
        BY <1>1, <1>3, <3>2 DEF BaseInv, Shape, StillMissing, CreateDisk, Goes
      <3> QED  BY <3>1, <3>2
    <2> QED  BY <2>1, <2>2, <2>3 DEF BaseInv
  <1>4. CASE Boot(p)
    <2>1. PICK next \in {"done", "running", "failed"} : pc' = [pc EXCEPT ![p] = next]
      BY <1>4, BootEffect DEF Goes
    <2>2. /\ disk' \in {disk, "used"} /\ guests' \in {guests, {p}} /\ pc[p] = "boot"
          /\ UNCHANGED <<command, dir, file, todo, loaded, disturbed>>
      BY <1>4, BootEffect
    <2>3. Shape'
      BY <1>1, <2>1, <2>2 DEF Shape, Where
    <2>4. TodoFollowsPc' /\ JobsFit'
      BY <1>1, <2>1, <2>2 DEF BaseInv, Shape, TodoFollowsPc, JobsFit
    <2>5. StillMissing'
      BY <1>1, <2>1, <2>2 DEF BaseInv, Shape, StillMissing
    <2> QED  BY <2>3, <2>4, <2>5 DEF BaseInv
  <1>5. CASE GuestEnds(p)
    <2>1. Shape'
      BY <1>1, <1>5 DEF Shape, GuestEnds, Goes, Where
    <2>3. /\ pc' = pc \/ (pc' = [pc EXCEPT ![p] = "done"] /\ pc[p] = "running")
          /\ UNCHANGED <<command, dir, disk, todo, disturbed>>
      <3>1. CASE pc[p] = "running"
        BY <1>5, <3>1 DEF GuestEnds, Goes
      <3>2. CASE pc[p] # "running"
        BY <1>5, <3>2 DEF GuestEnds
      <3> QED  BY <3>1, <3>2
    <2>4. TodoFollowsPc'
      BY <1>1, <2>3 DEF BaseInv, Shape, TodoFollowsPc
    <2>5. JobsFit' /\ StillMissing'
      BY <1>1, <2>3 DEF BaseInv, Shape, JobsFit, StillMissing
    <2>2. TodoFollowsPc' /\ JobsFit' /\ StillMissing'
      BY <2>4, <2>5
    <2> QED  BY <2>1, <2>2 DEF BaseInv
  <1>6. CASE Stop(p)
    BY <1>1, <1>6 DEF BaseInv, Shape, TodoFollowsPc, JobsFit, StillMissing, Stop, Goes, Where
  <1> QED  BY <1>2, <1>3, <1>4, <1>5, <1>6

LEMMA StepBase == BaseInv /\ [Next]_vars => BaseInv'
  <1> SUFFICES ASSUME BaseInv, [Next]_vars PROVE BaseInv'
    OBVIOUS
  <1>1. CASE UNCHANGED vars
    BY <1>1 DEF vars, BaseInv, Shape, TodoFollowsPc, JobsFit, StillMissing
  <1>2. CASE Next
    BY <1>2, FirstSteps, WritingSteps, LastSteps DEF Next
  <1> QED  BY <1>1, <1>2

(***************************************************************************)
(* Types, directories and disks.                                           *)
(***************************************************************************)
\* The invariant that carries the theorems of this section.
THEOREM InstanceInvariance == Spec => []BaseInv
  BY InitBase, StepBase, PTL DEF Spec

\* Every variable keeps its type, and a command that is past its files has
\* none left to write.
THEOREM InstanceTypeCorrectness == Spec => []TypeOK
  <1>1. BaseInv => TypeOK
    <2> SUFFICES ASSUME BaseInv PROVE TypeOK
      OBVIOUS
    <2>1. Shape
      BY DEF BaseInv
    <2>2. \A f \in File : /\ file[f].state \in {"absent", "empty", "whole", "garbled"}
                          /\ file[f].has \subseteq Entry
      BY <2>1 DEF Shape, Contents
    <2>3. ASSUME NEW p \in Process
          PROVE  /\ \A i \in DOMAIN todo[p] : todo[p][i].file \in File
                 /\ pc[p] \in {"load", "open", "dump"} => todo[p] # <<>>
                 /\ pc[p] \in {"disk", "create", "boot", "running", "serving", "done"} =>
                        todo[p] = <<>>
                 /\ loaded[p] \subseteq Entry
      <3>1. todo[p] \in Seq(Job) /\ loaded[p] \in SUBSET Entry
        BY <2>1 DEF Shape
      <3>2. \A i \in DOMAIN todo[p] : todo[p][i].file \in File
        <4>1. \A i \in DOMAIN todo[p] : todo[p][i] \in Job
          BY <3>1
        <4> QED  BY <4>1 DEF Job
      <3> QED  BY <3>1, <3>2 DEF BaseInv, TodoFollowsPc
    <2> QED  BY <2>1, <2>2, <2>3 DEF Shape, Where, Thing, TypeOK
  <1> QED  BY <1>1, InstanceInvariance, PTL

\* _create_directories: a directory that is already there is refused, however
\* many "new" there are, unless it was made since the look at it.
THEOREM ExistingRefused == Spec => NewRefusesExisting
  <1>1. BaseInv /\ [Next]_vars
        => [\A p \in Process : MakeDirectories(p) /\ dir => "dir" \in disturbed[p]]_vars
    BY DEF BaseInv, StillMissing, MakeDirectories
  <1> QED  BY <1>1, InstanceInvariance, PTL DEF Spec, NewRefusesExisting

\* run_instance never replaces a disk unless another command made
\* it since the look at it.
THEOREM DisksKept == Spec => DiskKept
  <1>1. BaseInv /\ [Next]_vars
        => [\A p \in Process :
               CreateDisk(p) /\ disk # "absent" /\ disk' = "fresh" => "disk" \in disturbed[p]]_vars
    BY DEF BaseInv, StillMissing, CreateDisk
  <1> QED  BY <1>1, InstanceInvariance, PTL DEF Spec, DiskKept

(***************************************************************************)
(* What "new" leaves behind                                                *)
(***************************************************************************)
Manifest == "vm-manifest.json"
Compose == "app-compose.json"
Sys == ".sys-config.json"
Registry == <<"docker_registry", "registry">>

\* "new" has got past .sys-config.json, or had when it stopped.
Made ==
    \/ file[Manifest].state # "absent"
    \/ \E q \in Process : command[q] = "new" /\ Len(todo[q]) = 1

\* Whatever is about to be written to .sys-config.json keeps the registry.
Keeps(p) == Registry \in loaded[p] \/ Registry \in Head(todo[p]).entries

RegistryInv ==
    /\ \A p \in Process : Underway(p) => file[Manifest].state # "absent"
    /\ Made => file[Sys].state # "absent"
    /\ Made /\ ServedWhenMade =>
           /\ file[Sys].state = "whole" => Registry \in file[Sys].has
           /\ \A p \in Process :
                  pc[p] \in {"open", "dump"} /\ Head(todo[p]).file = Sys => Keeps(p)

\* What "new" has yet to write tells how far it has got.
LEMMA NewIsOrdered ==
    ASSUME BaseInv, NEW p \in Process, command[p] = "new", todo[p] # <<>>
    PROVE  /\ Head(todo[p]).file = Compose <=> Len(todo[p]) = 3
           /\ Head(todo[p]).file = Sys <=> Len(todo[p]) = 2
           /\ Head(todo[p]).file = Manifest <=> Len(todo[p]) = 1
           /\ Head(todo[p]).file = Sys => Registry \in Head(todo[p]).entries
           /\ Len(todo[p]) \in 1..3
  <1>1. /\ todo[p] \in Seq(Job) /\ IsEndOfNew(todo[p])
    BY DEF BaseInv, Shape, JobsFit
  <1>2. /\ Len(todo[p]) \in Nat \ {0} /\ Len(todo[p]) <= 3
        /\ Head(todo[p]) = NewJobs[1 + 3 - Len(todo[p])]
    <2>1. Len(todo[p]) \in Nat \ {0} /\ Head(todo[p]) = todo[p][1]
      BY <1>1, TailOfJobs
    <2>2. 1 \in 1..Len(todo[p])
      BY <2>1
    <2> QED  BY <1>1, <2>1, <2>2 DEF IsEndOfNew
  <1>3. /\ NewJobs[1].file = Compose /\ NewJobs[2].file = Sys /\ NewJobs[3].file = Manifest
        /\ Registry \in NewJobs[2].entries
    BY DEF NewJobs, Replace, Merge, Compose, Sys, Manifest, Registry
  <1>4. CASE Len(todo[p]) = 1
    BY <1>2, <1>3, <1>4 DEF Compose, Sys, Manifest
  <1>5. CASE Len(todo[p]) = 2
    BY <1>2, <1>3, <1>5 DEF Compose, Sys, Manifest
  <1>6. CASE Len(todo[p]) = 3
    BY <1>2, <1>3, <1>6 DEF Compose, Sys, Manifest
  <1>7. Len(todo[p]) \in {1, 2, 3}
    <2>1. \A n \in Nat \ {0} : n <= 3 => n \in {1, 2, 3}
      OBVIOUS
    <2>2. Len(todo[p]) \in Nat \ {0} /\ Len(todo[p]) <= 3
      BY <1>2
    <2> QED  BY <2>1, <2>2
  <1> QED  BY <1>4, <1>5, <1>6, <1>7

\* The jobs of the other commands: they load before they write, and only
\* write the guest's configuration.
LEMMA OthersMerge ==
    ASSUME BaseInv, NEW p \in Process, command[p] # "new", todo[p] # <<>>
    PROVE  Head(todo[p]).merge /\ Head(todo[p]).file \in GuestConfig
  <1>1. todo[p] \in Seq(Job)
    BY DEF BaseInv, Shape
  <1>2. 1 \in 1..Len(todo[p]) /\ Head(todo[p]) = todo[p][1]
    BY <1>1, TailOfJobs
  <1> QED  BY <1>2 DEF BaseInv, JobsFit

\* Nobody but "new" is the reason that .sys-config.json is replaced afresh.
LEMMA SysIsMerged ==
    ASSUME BaseInv, NEW p \in Process, todo[p] # <<>>, Head(todo[p]).file = Sys
    PROVE  Head(todo[p]).merge
  <1>1. CASE command[p] = "new"
    <2>1. todo[p] \in Seq(Job) /\ IsEndOfNew(todo[p]) /\ Len(todo[p]) = 2
      BY <1>1, NewIsOrdered DEF BaseInv, Shape, JobsFit
    <2>2. Head(todo[p]) = NewJobs[2]
      BY <2>1, TailOfJobs DEF IsEndOfNew
    <2> QED  BY <2>2 DEF NewJobs, Merge
  <1>2. CASE command[p] # "new"
    BY <1>2, OthersMerge
  <1> QED  BY <1>1, <1>2

LEMMA InitRegistry == Init => RegistryInv
  <1> SUFFICES ASSUME Init PROVE RegistryInv
    OBVIOUS
  <1>1. \A p \in Process : todo[p] = <<>> /\ Len(todo[p]) = 0 /\ pc[p] = "start"
    BY DEF Init
  <1>2. CASE dir
    <2>1. /\ file[Sys] = Whole({Registry})
          /\ file[Manifest] = Whole({<<"vm", "manifest">>})
      BY <1>2 DEF Init, File, Sys, Manifest, Registry
    <2>2. /\ file[Sys].state = "whole" /\ Registry \in file[Sys].has
          /\ file[Manifest].state = "whole"
      BY <2>1 DEF Whole
    <2> QED  BY <1>1, <2>2 DEF RegistryInv, Underway
  <1>3. CASE ~dir
    <2>1. file[Manifest].state = "absent"
      BY <1>3 DEF Init, File, Manifest, Absent
    <2>2. ~Made
      BY <1>1, <2>1 DEF Made
    <2> QED  BY <1>1, <2>2 DEF RegistryInv, Underway
  <1> QED  BY <1>2, <1>3

\* Steps that write nothing and load nothing.
LEMMA QuietRegistry ==
    ASSUME RegistryInv, NEW p \in Process, UNCHANGED <<command, file>>,
           \A q \in Process \ {p} :
               pc'[q] = pc[q] /\ todo'[q] = todo[q] /\ loaded'[q] = loaded[q],
           \A q \in Process : disturbed[q] \subseteq disturbed'[q],
           command[p] = "new" /\ Len(todo'[p]) = 1 => Len(todo[p]) = 1,
           pc'[p] \notin {"open", "dump"},
           Underway(p)' => Underway(p) \/ file[Manifest].state # "absent"
    PROVE  RegistryInv'
  <1>1. Made' => Made
    BY DEF Made
  <1>2. ServedWhenMade' => ServedWhenMade
    BY DEF ServedWhenMade
  <1>3. \A q \in Process : Underway(q)' => file'[Manifest].state # "absent"
    BY DEF RegistryInv, Underway
  <1>4. \A q \in Process :
            pc'[q] \in {"open", "dump"} => /\ pc[q] \in {"open", "dump"}
                                           /\ todo'[q] = todo[q] /\ loaded'[q] = loaded[q]
    OBVIOUS
  <1> QED  BY <1>1, <1>2, <1>3, <1>4 DEF RegistryInv, Keeps

LEMMA QuietSteps ==
    ASSUME BaseInv, RegistryInv, NEW p \in Process,
           \/ CheckDirectory(p) \/ MakeDirectories(p) \/ ReadManifest(p) \/ StartServe(p)
           \/ LookForDisk(p) \/ CreateDisk(p) \/ Boot(p) \/ GuestEnds(p) \/ Stop(p)
    PROVE  RegistryInv'
  <1>1. Shape
    BY DEF BaseInv
  <1>2. /\ UNCHANGED command
        /\ \A q \in Process \ {p} :
               pc'[q] = pc[q] /\ todo'[q] = todo[q] /\ loaded'[q] = loaded[q]
        /\ \A q \in Process : disturbed[q] \subseteq disturbed'[q]
    BY OthersKept
  <1>3. CASE CheckDirectory(p)
    BY <1>1, <1>2, <1>3, QuietRegistry DEF CheckDirectory, Goes, Shape, Underway
  <1>4. CASE MakeDirectories(p)
    <2>1. todo'[p] = NewJobs /\ pc'[p] = "load" /\ file' = file /\ command[p] = "new"
      BY <1>1, <1>4 DEF MakeDirectories, Goes, Shape, BaseInv, TodoFollowsPc
    <2>2. Len(todo'[p]) # 1
      BY <2>1, JobTypes
    <2> QED  BY <1>2, <2>1, <2>2, QuietRegistry DEF Underway
  <1>5. CASE ReadManifest(p)
    <2>1. /\ file' = file /\ command[p] \in {"run", "dry"} /\ pc'[p] \in {"load", "failed"}
          /\ pc'[p] = "load" => file[Manifest].state = "whole"
      BY <1>1, <1>5 DEF ReadManifest, Goes, Shape, Manifest
    <2> QED  BY <1>2, <2>1, QuietRegistry DEF Underway
  <1>6. CASE StartServe(p)
    <2>1. file' = file /\ command[p] = "serve" /\ pc'[p] = "load"
      BY <1>1, <1>6 DEF StartServe, Goes, Shape
    <2> QED  BY <1>2, <2>1, QuietRegistry DEF Underway
  <1>7. CASE LookForDisk(p) \/ CreateDisk(p) \/ Boot(p)
    <2>1. /\ UNCHANGED <<file, todo>> /\ pc[p] \in {"disk", "create", "boot"}
          /\ pc'[p] \in {"create", "boot", "done", "running", "failed"}
      BY <1>1, <1>7, BootEffect DEF LookForDisk, CreateDisk, Goes, Shape
    <2> QED  BY <1>2, <2>1, QuietRegistry DEF Underway
  <1>8. CASE GuestEnds(p)
    <2>1. UNCHANGED <<file, todo, loaded, disturbed>>
      BY <1>8 DEF GuestEnds
    <2>2. pc'[p] = pc[p] \/ (pc'[p] = "done" /\ pc[p] = "running")
      BY <1>1, <1>8 DEF GuestEnds, Goes, Shape
    <2>3. CASE pc'[p] = pc[p]
      <3>1. pc' = pc
        BY <1>1, <1>8, <2>3 DEF GuestEnds, Goes, Shape
      <3> QED  BY <1>2, <2>1, <3>1 DEF RegistryInv, Made, Keeps, ServedWhenMade, Underway
    <2>4. CASE pc'[p] = "done" /\ pc[p] = "running"
      BY <1>2, <2>1, <2>4, QuietRegistry DEF Underway
    <2> QED  BY <2>2, <2>3, <2>4
  <1>9. CASE Stop(p)
    <2>1. UNCHANGED <<file, todo>> /\ pc'[p] = "failed"
      BY <1>1, <1>9 DEF Stop, Goes, Shape
    <2> QED  BY <1>2, <2>1, QuietRegistry DEF Underway
  <1> QED  BY <1>3, <1>4, <1>5, <1>6, <1>7, <1>8, <1>9

\* update_guest_config takes over what it finds in a whole file, and nothing
\* from one that it cannot parse.
LEMMA LoadKeepsRegistry ==
    ASSUME BaseInv, RegistryInv, NEW p \in Process, Load(p)
    PROVE  RegistryInv'
  <1>1. /\ Shape /\ todo[p] # <<>> /\ pc[p] = "load"
        /\ UNCHANGED <<command, file, todo, disturbed>>
    BY DEF BaseInv, TodoFollowsPc, Load
  <1>2. \A q \in Process \ {p} : pc'[q] = pc[q] /\ loaded'[q] = loaded[q]
    BY OthersKept
  <1>3. CASE pc'[p] = "failed"
    BY <1>1, <1>2, <1>3, QuietRegistry DEF Underway
  <1>4. CASE pc'[p] # "failed"
    <2>1. /\ pc'[p] = "open"
          /\ ~(Head(todo[p]).merge /\ file[Head(todo[p]).file].state \in {"empty", "garbled"})
          /\ Head(todo[p]).merge => loaded'[p] = file[Head(todo[p]).file].has
      BY <1>1, <1>4 DEF Load, Goes, Shape
    <2>2. /\ Made' <=> Made
          /\ ServedWhenMade' <=> ServedWhenMade
          /\ \A q \in Process : Underway(q)' => Underway(q)
      BY <1>1, <1>2, <2>1 DEF Made, ServedWhenMade, Underway
    <2>3. ASSUME Made, ServedWhenMade, Head(todo[p]).file = Sys
          PROVE  Registry \in loaded'[p]
      <3>1. file[Sys].state \in {"absent", "empty", "whole", "garbled"}
        BY <1>1 DEF Shape, Contents, File, Sys
      <3> QED  BY <1>1, <2>1, <2>3, <3>1, SysIsMerged DEF RegistryInv
    <2> QED  BY <1>1, <1>2, <2>1, <2>2, <2>3 DEF RegistryInv, Keeps
  <1> QED  BY <1>3, <1>4

\* A file that is opened for writing is empty, whatever it was.
LEMMA OpenKeepsRegistry ==
    ASSUME BaseInv, RegistryInv, NEW p \in Process, Open(p)
    PROVE  RegistryInv'
  <1>1. /\ Shape /\ todo[p] # <<>> /\ pc[p] = "open" /\ UNCHANGED <<command, todo, loaded>>
    BY DEF BaseInv, TodoFollowsPc, Open
  <1>2. /\ \A q \in Process \ {p} : pc'[q] = pc[q]
        /\ \A q \in Process : disturbed[q] \subseteq disturbed'[q]
    BY OthersKept
  <1>3. CASE pc'[p] = "failed"
    <2>1. file' = file
      BY <1>1, <1>3 DEF Open, Goes, Shape
    <2> QED  BY <1>1, <1>2, <1>3, <2>1, QuietRegistry DEF Underway
  <1>4. CASE pc'[p] # "failed"
    <2>1. pc'[p] = "dump" /\ file' = [file EXCEPT ![Head(todo[p]).file] = Empty]
      BY <1>1, <1>4 DEF Open, Goes, Shape
    <2>2. \A f \in File : /\ f # Head(todo[p]).file => file'[f] = file[f]
                          /\ f = Head(todo[p]).file => file'[f].state = "empty"
      BY <1>1, <2>1 DEF Shape, Empty
    <2>3. Sys \in File /\ Manifest \in File /\ Sys # Manifest
      BY DEF Sys, Manifest, File
    <2>4. Made' => Made
      <3>1. CASE Head(todo[p]).file = Manifest
        <4>1. command[p] = "new"
          BY <1>1, <3>1, OthersMerge DEF Manifest, GuestConfig
        <4> QED  BY <1>1, <3>1, <4>1, NewIsOrdered DEF Made
      <3>2. CASE Head(todo[p]).file # Manifest
        BY <1>1, <2>2, <2>3, <3>2 DEF Made
      <3> QED  BY <3>1, <3>2
    <2>5. ServedWhenMade' => ServedWhenMade
      BY <1>1, <1>2 DEF ServedWhenMade
    <2>6. \A q \in Process : Underway(q)' => file'[Manifest].state # "absent"
      BY <1>1, <1>2, <2>1, <2>2, <2>3 DEF RegistryInv, Underway
    <2>7. \A q \in Process : pc'[q] \in {"open", "dump"} => pc[q] \in {"open", "dump"}
      BY <1>1, <1>2
    <2> QED  BY <1>1, <2>2, <2>3, <2>4, <2>5, <2>6, <2>7 DEF RegistryInv, Keeps
  <1> QED  BY <1>3, <1>4

\* config.update keeps a registry that was loaded: nothing else is written
\* under its key.
LEMMA UpdateKeepsRegistry ==
    ASSUME NEW old \in SUBSET Entry, NEW new \in SUBSET Entry,
           Registry \in old \/ Registry \in new
    PROVE  Registry \in Updated(old, new)
  <1>1. \A n \in Entry : n[1] = "docker_registry" => n = Registry
    BY DEF Entry, Registry
  <1>2. CASE Registry \in new
    BY <1>2 DEF Updated
  <1>3. CASE Registry \notin new
    <2>1. \A n \in new : n[1] # "docker_registry"
      BY <1>1, <1>3
    <2>2. Registry[1] = "docker_registry"
      BY DEF Registry
    <2> QED  BY <1>3, <2>1, <2>2 DEF Updated
  <1> QED  BY <1>2, <1>3

\* A file that is dumped keeps the registry, and the dump by which "new" gets
\* past .sys-config.json finds no run at work and marks the servers it overtakes.
LEMMA DumpKeepsRegistry ==
    ASSUME BaseInv, RegistryInv, NEW p \in Process, Dump(p)
    PROVE  RegistryInv'
  <1>1. /\ Shape /\ todo[p] # <<>> /\ todo[p] \in Seq(Job) /\ Head(todo[p]).file \in File
        /\ Head(todo[p]).entries \in SUBSET Entry /\ loaded[p] \in SUBSET Entry
        /\ pc[p] = "dump" /\ UNCHANGED command
    <2>1. Shape /\ todo[p] # <<>> /\ todo[p] \in Seq(Job) /\ pc[p] = "dump"
          /\ loaded[p] \in SUBSET Entry /\ UNCHANGED command
      BY DEF BaseInv, TodoFollowsPc, Shape, Dump
    <2> QED  BY <2>1, TailOfJobs DEF Job
  <1>2. /\ \A q \in Process \ {p} :
               pc'[q] = pc[q] /\ todo'[q] = todo[q] /\ loaded'[q] = loaded[q]
        /\ \A q \in Process : disturbed[q] \subseteq disturbed'[q]
    BY OthersKept
  <1>3. PICK text \in Dumped(p) : file' = [file EXCEPT ![Head(todo[p]).file] = text]
    BY DEF Dump
  <1>4. /\ text.state \in {"whole", "garbled"}
        /\ text.state = "whole" => text.has = Updated(loaded[p], Head(todo[p]).entries)
    BY <1>1, DumpedTypes
  <1>5. \A f \in File : /\ f # Head(todo[p]).file => file'[f] = file[f]
                        /\ f = Head(todo[p]).file => file'[f] = text
                        /\ file[f].state # "absent" => file'[f].state # "absent"
    BY <1>1, <1>3, <1>4 DEF Shape
  <1>6. /\ pc'[p] \in {"done", "serving", "disk", "load"} /\ todo'[p] = Tail(todo[p])
        /\ \A q \in Process : command[p] = "new" /\ q # p /\ InHand(q, Head(todo[p]).file)
               => "stale" \in disturbed'[q]
    <2>1. pc'[p] \in {"done", "serving", "disk", "load"} /\ todo'[p] = Tail(todo[p])
      BY <1>1 DEF Dump, Goes, AfterJobs, Shape
    <2>2. ASSUME command[p] = "new", NEW q \in Process, q # p, InHand(q, Head(todo[p]).file)
          PROVE  "stale" \in disturbed'[q]
      <3>1. pc[q] \notin {"start", "done", "failed"}
        BY <2>2 DEF InHand
      <3>2. Disturbs(p, Head(todo[p]).file) /\ Head(todo[p]).file \in Thing
        BY <1>1, HeadIsFile DEF Dump
      <3> QED  BY <1>1, <2>2, <3>1, <3>2, DisturbsEffect
    <2> QED  BY <2>1, <2>2
  <1>7. Len(todo[p]) \in Nat /\ Len(todo'[p]) = Len(todo[p]) - 1
    BY <1>1, <1>6, TailOfJobs
  <1>8. Sys \in File /\ Manifest \in File /\ Sys # Manifest
    BY DEF Sys, Manifest, File
  <1>9. \A q \in Process : Underway(q)' => file'[Manifest].state # "absent"
    BY <1>1, <1>2, <1>5, <1>8 DEF RegistryInv, Underway
  <1>10. CASE Made
    <2>1. ServedWhenMade' => ServedWhenMade
      BY <1>1, <1>2 DEF ServedWhenMade
    <2>2. ASSUME ServedWhenMade, file'[Sys].state = "whole"
          PROVE  Registry \in file'[Sys].has
      <3>1. CASE Head(todo[p]).file = Sys
        <4>1. Keeps(p)
          BY <1>1, <1>10, <2>2, <3>1 DEF RegistryInv
        <4>2. Registry \in Updated(loaded[p], Head(todo[p]).entries)
          BY <1>1, <4>1, UpdateKeepsRegistry DEF Keeps
        <4> QED  BY <1>4, <1>5, <1>8, <2>2, <3>1, <4>2
      <3>2. CASE Head(todo[p]).file # Sys
        BY <1>5, <1>8, <1>10, <2>2, <3>2 DEF RegistryInv
      <3> QED  BY <3>1, <3>2
    <2>3. \A q \in Process : pc'[q] \in {"open", "dump"} =>
              /\ pc[q] \in {"open", "dump"} /\ todo'[q] = todo[q] /\ loaded'[q] = loaded[q]
      BY <1>1, <1>2, <1>6
    <2>4. file'[Sys].state # "absent"
      BY <1>5, <1>8, <1>10 DEF RegistryInv
    <2> QED  BY <1>9, <1>10, <2>1, <2>2, <2>3, <2>4 DEF RegistryInv, Keeps
  <1>11. CASE ~Made /\ Made'
    <2>1. command[p] = "new" /\ Len(todo[p]) = 2
      <3>1. CASE file'[Manifest].state # "absent"
        <4>1. Head(todo[p]).file = Manifest
          BY <1>5, <1>8, <1>11, <3>1 DEF Made
        <4>2. command[p] = "new"
          BY <1>1, <4>1, OthersMerge DEF Manifest, GuestConfig
        <4>3. Len(todo[p]) = 1
          BY <1>1, <4>1, <4>2, NewIsOrdered
        <4> QED  BY <1>11, <4>2, <4>3 DEF Made
      <3>2. CASE \E q \in Process : command'[q] = "new" /\ Len(todo'[q]) = 1
        <4>1. PICK q \in Process : command[q] = "new" /\ Len(todo'[q]) = 1
          BY <1>1, <3>2
        <4>2. q = p
          BY <1>2, <1>11, <4>1 DEF Made
        <4>3. command[p] = "new" /\ Len(todo'[p]) = 1
          BY <4>1, <4>2
        <4>4. \A n \in Nat : n - 1 = 1 => n = 2
          OBVIOUS
        <4>5. Len(todo[p]) - 1 = 1
          BY <1>7, <4>3
        <4> QED  BY <1>7, <4>3, <4>4, <4>5
      <3> QED  BY <1>11, <3>1, <3>2 DEF Made
    <2>2. Head(todo[p]).file = Sys /\ Registry \in Head(todo[p]).entries
      BY <1>1, <2>1, NewIsOrdered
    <2>3. /\ file'[Sys].state # "absent"
          /\ file'[Sys].state = "whole" => Registry \in file'[Sys].has
      <3>1. Registry \in Updated(loaded[p], Head(todo[p]).entries)
        BY <1>1, <2>2, UpdateKeepsRegistry
      <3> QED  BY <1>4, <1>5, <1>8, <2>2, <3>1
    <2>4. ASSUME ServedWhenMade', NEW q \in Process, pc'[q] \in {"open", "dump"},
                 Head(todo'[q]).file = Sys
          PROVE  Keeps(q)'
      <3>1. q # p /\ pc[q] \in {"open", "dump"} /\ todo'[q] = todo[q] /\ todo[q] # <<>>
        BY <1>2, <1>6, <2>4 DEF BaseInv, TodoFollowsPc
      <3>2. CASE command[q] = "new"
        BY <2>4, <3>1, <3>2, NewIsOrdered DEF Keeps
      <3>3. CASE command[q] \in {"run", "dry"}
        BY <1>11, <3>1, <3>3 DEF RegistryInv, Underway, Made
      <3>4. CASE command[q] = "serve"
        <4>1. InHand(q, Head(todo[p]).file)
          BY <2>2, <2>4, <3>1 DEF InHand
        <4>2. "stale" \in disturbed'[q]
          BY <1>6, <2>1, <3>1, <4>1
        <4> QED  BY <1>1, <2>4, <3>4, <4>2 DEF ServedWhenMade
      <3> QED  BY <1>1, <3>2, <3>3, <3>4 DEF Shape
    <2> QED  BY <1>9, <2>3, <2>4 DEF RegistryInv
  <1>12. CASE ~Made'
    BY <1>9, <1>12 DEF RegistryInv
  <1> QED  BY <1>10, <1>11, <1>12

LEMMA StepRegistry == BaseInv /\ RegistryInv /\ [Next]_vars => RegistryInv'
  <1> SUFFICES ASSUME BaseInv, RegistryInv, [Next]_vars PROVE RegistryInv'
    OBVIOUS
  <1>1. CASE UNCHANGED vars
    BY <1>1 DEF vars, RegistryInv, Made, Keeps, ServedWhenMade, Underway
  <1>2. CASE Next
    BY <1>2, QuietSteps, LoadKeepsRegistry, OpenKeepsRegistry, DumpKeepsRegistry DEF Next
  <1> QED  BY <1>1, <1>2

\* Whatever runs and servers overlap or die while they rewrite
\* .sys-config.json, the registry "new" put there stays.
THEOREM RegistrySurvives == Spec => []RegistryKept
  <1>1. RegistryInv => RegistryKept
    BY DEF RegistryInv, RegistryKept, Made, Manifest, Sys, Registry
  <1> QED  BY <1>1, InitRegistry, StepRegistry, InstanceInvariance, PTL DEF Spec
(***************************************************************************)
(* The order in which "new" writes                                         *)
(***************************************************************************)
\* A "new" that has made the directory its own, as SoleNew counts them.
Entered(p) == command[p] = "new" /\ (todo[p] # <<>> \/ pc[p] = "done")

\* The manifest comes last, after the compose file is whole.
ManifestLast ==
    /\ file[Manifest].state # "absent" => file[Compose].state = "whole"
    /\ \A p \in Process : command[p] = "new" =>
           /\ Len(todo[p]) \in {2, 3} => file[Manifest].state = "absent"
           /\ Len(todo[p]) \in {1, 2} => file[Compose].state = "whole"
           /\ Len(todo[p]) = 3 /\ pc[p] = "dump" => file[Compose].state = "empty"

\* A "new" that finds the directory made behind its back is not the only one.
CompleteInv ==
    /\ ~dir => file[Manifest].state = "absent" /\ \A p \in Process : pc[p] # "dump"
    /\ \A p \in Process : pc[p] = "making" /\ dir => \E q \in Process : Entered(q)
    /\ SoleNew => ManifestLast

LEMMA EmptyIsShort == \A jobs : Len(jobs) \in {1, 2, 3} => jobs # <<>>
  <1>1. Len(<<>>) = 0
    OBVIOUS
  <1> QED  BY <1>1

LEMMA LengthOfNew ==
    ASSUME BaseInv, NEW p \in Process, command[p] = "new", todo[p] # <<>>
    PROVE  Len(todo[p]) \in {1, 2, 3}
  <1>1. Len(todo[p]) \in 1..3
    BY NewIsOrdered
  <1> QED  BY <1>1

LEMMA SoleIsOne ==
    /\ SoleNew <=> \A p, q \in Process : Entered(p) /\ Entered(q) => p = q
    /\ SoleNew' <=> \A p, q \in Process : Entered(p)' /\ Entered(q)' => p = q
  BY DEF SoleNew, Entered

LEMMA InitComplete == Init => CompleteInv
  <1> SUFFICES ASSUME Init PROVE CompleteInv
    OBVIOUS
  <1>1. \A p \in Process : Len(todo[p]) = 0 /\ pc[p] = "start"
    BY DEF Init
  <1>2. \A p \in Process : Len(todo[p]) \notin {1, 2, 3}
    <2>1. 0 \notin {1, 2, 3}
      OBVIOUS
    <2> QED  BY <1>1, <2>1, Zenon
  <1>3. CASE dir
    <2>1. file[Compose] = Whole({<<"app", "compose">>})
      BY <1>3 DEF Init, File, Compose
    <2>2. file[Compose].state = "whole"
      BY <2>1 DEF Whole
    <2> QED  BY <1>1, <1>2, <1>3, <2>2 DEF CompleteInv, ManifestLast
  <1>4. CASE ~dir
    <2>1. file[Manifest].state = "absent"
      BY <1>4 DEF Init, File, Manifest, Absent
    <2> QED  BY <1>1, <1>2, <1>4, <2>1 DEF CompleteInv, ManifestLast
  <1> QED  BY <1>3, <1>4

\* Steps that write nothing and give no "new" another list of jobs.
LEMMA QuietComplete ==
    ASSUME CompleteInv, UNCHANGED <<command, dir, file>>,
           \A q \in Process : command[q] = "new" => todo'[q] = todo[q],
           \A q \in Process : pc[q] = "done" => pc'[q] = "done",
           \A q \in Process : pc'[q] = "dump" => pc[q] = "dump",
           \A q \in Process : pc'[q] = "making" => pc[q] = "making" \/ ~dir
    PROVE  CompleteInv'
  <1>1. \A q \in Process : Entered(q) => Entered(q)'
    BY DEF Entered
  <1>2. SoleNew' => SoleNew
    BY <1>1, SoleIsOne
  <1>3. ManifestLast => ManifestLast'
    BY DEF ManifestLast
  <1> QED  BY <1>1, <1>2, <1>3 DEF CompleteInv

LEMMA QuietStepsComplete ==
    ASSUME BaseInv, CompleteInv, NEW p \in Process,
           \/ CheckDirectory(p) \/ ReadManifest(p) \/ StartServe(p) \/ Load(p)
           \/ LookForDisk(p) \/ CreateDisk(p) \/ Boot(p) \/ GuestEnds(p) \/ Stop(p)
    PROVE  CompleteInv'
  <1>1. Shape
    BY DEF BaseInv
  <1>2. /\ UNCHANGED command
        /\ \A q \in Process \ {p} : pc'[q] = pc[q] /\ todo'[q] = todo[q]
    BY OthersKept
  <1>3. CASE CheckDirectory(p)
    BY <1>1, <1>2, <1>3, QuietComplete DEF CheckDirectory, Goes, Shape
  <1>4. CASE ReadManifest(p) \/ StartServe(p)
    <2>1. /\ UNCHANGED <<dir, file>> /\ command[p] # "new" /\ pc[p] = "start"
          /\ pc'[p] \in {"load", "failed"}
      BY <1>1, <1>4 DEF ReadManifest, StartServe, Goes, Shape
    <2> QED  BY <1>2, <2>1, QuietComplete
  <1>5. CASE Load(p) \/ LookForDisk(p) \/ CreateDisk(p) \/ Boot(p)
    <2>1. /\ UNCHANGED <<dir, file, todo>> /\ pc[p] \in {"load", "disk", "create", "boot"}
          /\ pc'[p] \in {"open", "create", "boot", "done", "running", "failed"}
      BY <1>1, <1>5, BootEffect DEF Load, LookForDisk, CreateDisk, Goes, Shape
    <2> QED  BY <1>2, <2>1, QuietComplete
  <1>6. CASE GuestEnds(p)
    <2>1. UNCHANGED <<dir, file, todo>> /\ (pc'[p] = pc[p] \/ pc'[p] = "done")
      BY <1>1, <1>6 DEF GuestEnds, Goes, Shape
    <2> QED  BY <1>2, <2>1, QuietComplete
  <1>7. CASE Stop(p)
    <2>1. UNCHANGED <<dir, file, todo>> /\ pc'[p] = "failed" /\ pc[p] # "done"
      BY <1>1, <1>7 DEF Stop, Goes, Shape
    <2> QED  BY <1>2, <2>1, QuietComplete
  <1> QED  BY <1>3, <1>4, <1>5, <1>6, <1>7

\* A second "new" that makes the directory ends SoleNew; the first one finds
\* nothing in it.
LEMMA MakeKeepsComplete ==
    ASSUME BaseInv, CompleteInv, NEW p \in Process, MakeDirectories(p)
    PROVE  CompleteInv'
  <1>1. /\ Shape /\ todo[p] = <<>> /\ command[p] = "new" /\ pc[p] = "making" /\ dir'
        /\ UNCHANGED <<command, file>>
    BY DEF BaseInv, TodoFollowsPc, MakeDirectories
  <1>2. \A q \in Process \ {p} : pc'[q] = pc[q] /\ todo'[q] = todo[q]
    BY OthersKept
  <1>3. todo'[p] = NewJobs /\ pc'[p] = "load"
    BY <1>1 DEF MakeDirectories, Goes, Shape
  <1>4. Entered(p)' /\ Len(todo'[p]) = 3
    BY <1>1, <1>3, JobTypes DEF Entered
  <1>5. \A q \in Process : Entered(q) => q # p /\ Entered(q)'
    BY <1>1, <1>2 DEF Entered
  <1>6. SoleNew' => SoleNew
    BY <1>5, SoleIsOne
  <1>7. CASE dir
    <2>1. PICK q \in Process : Entered(q)
      BY <1>1, <1>7 DEF CompleteInv
    <2>2. ~SoleNew'
      BY <1>4, <1>5, <2>1, SoleIsOne
    <2> QED  BY <1>1, <1>4, <2>2 DEF CompleteInv
  <1>8. CASE ~dir
    <2>1. file'[Manifest].state = "absent"
      BY <1>1, <1>8 DEF CompleteInv
    <2>2. ManifestLast => ManifestLast'
      BY <1>1, <1>2, <1>3, <1>4, <2>1 DEF ManifestLast
    <2> QED  BY <1>1, <1>4, <1>6, <2>2 DEF CompleteInv
  <1> QED  BY <1>7, <1>8

\* What a command may write beside the guest's configuration.
LEMMA OnlyNewWrites ==
    ASSUME BaseInv, NEW p \in Process, todo[p] # <<>>,
           Head(todo[p]).file \in {Compose, Manifest}
    PROVE  command[p] = "new"
  BY OthersMerge DEF Compose, Manifest, GuestConfig

\* While one "new" is at work, its length of jobs tells which file it opens.
LEMMA OpenKeepsComplete ==
    ASSUME BaseInv, CompleteInv, NEW p \in Process, Open(p)
    PROVE  CompleteInv'
  <1>1. /\ Shape /\ todo[p] # <<>> /\ pc[p] = "open" /\ UNCHANGED <<command, dir, todo>>
    BY DEF BaseInv, TodoFollowsPc, Open
  <1>2. \A q \in Process \ {p} : pc'[q] = pc[q]
    BY OthersKept
  <1>3. CASE pc'[p] = "failed"
    <2>1. file' = file
      BY <1>1, <1>3 DEF Open, Goes, Shape
    <2> QED  BY <1>1, <1>2, <1>3, <2>1, QuietComplete
  <1>4. CASE pc'[p] # "failed"
    <2>1. dir /\ pc'[p] = "dump" /\ file' = [file EXCEPT ![Head(todo[p]).file] = Empty]
      BY <1>1, <1>4 DEF Open, Goes, Shape
    <2>2. \A f \in File : /\ f # Head(todo[p]).file => file'[f] = file[f]
                          /\ f = Head(todo[p]).file => file'[f].state = "empty"
      BY <1>1, <2>1 DEF Shape, Empty
    <2>3. Compose \in File /\ Manifest \in File /\ Compose # Manifest
      BY DEF Compose, Manifest, File
    <2>4. \A q \in Process : Entered(q) <=> Entered(q)'
      BY <1>1, <1>2, <2>1 DEF Entered
    <2>5. \A q \in Process : pc'[q] = "making" => pc[q] = "making"
      BY <1>2, <2>1
    <2>6. ASSUME SoleNew PROVE ManifestLast'
      <3>1. ManifestLast
        BY <2>6 DEF CompleteInv
      <3>2. CASE command[p] # "new"
        <4>1. file'[Compose] = file[Compose] /\ file'[Manifest] = file[Manifest]
          BY <1>1, <2>2, <2>3, <3>2, OnlyNewWrites
        <4> QED  BY <1>1, <1>2, <3>1, <3>2, <4>1 DEF ManifestLast
      <3>3. CASE command[p] = "new"
        <4>1. \A q \in Process : command[q] = "new" /\ Len(todo[q]) \in {1, 2, 3} => q = p
          <5>1. \A q \in Process : Len(todo[q]) \in {1, 2, 3} => todo[q] # <<>>
            BY EmptyIsShort
          <5> QED  BY <1>1, <2>6, <3>3, <5>1 DEF SoleNew
        <4>2. CASE Len(todo[p]) = 3
          <5>1. Head(todo[p]).file = Compose
            BY <1>1, <3>3, <4>2, NewIsOrdered
          <5>2. file'[Manifest].state = "absent" /\ file'[Compose].state = "empty"
            BY <2>2, <2>3, <3>1, <3>3, <4>2, <5>1 DEF ManifestLast
          <5> QED  BY <1>1, <4>1, <4>2, <5>2 DEF ManifestLast
        <4>3. CASE Len(todo[p]) = 2
          <5>1. Head(todo[p]).file \notin {Compose, Manifest}
            BY <1>1, <3>3, <4>3, NewIsOrdered
          <5>2. file'[Manifest] = file[Manifest] /\ file'[Compose] = file[Compose]
            BY <2>2, <2>3, <5>1
          <5> QED  BY <1>1, <3>1, <3>3, <4>1, <4>3, <5>2 DEF ManifestLast
        <4>4. CASE Len(todo[p]) = 1
          <5>1. Head(todo[p]).file = Manifest
            BY <1>1, <3>3, <4>4, NewIsOrdered
          <5>2. file'[Compose].state = "whole"
            BY <2>2, <2>3, <3>1, <3>3, <4>4, <5>1 DEF ManifestLast
          <5> QED  BY <1>1, <4>1, <4>4, <5>2 DEF ManifestLast
        <4> QED  BY <1>1, <3>3, <4>2, <4>3, <4>4, LengthOfNew
      <3> QED  BY <3>2, <3>3
    <2>7. SoleNew' => SoleNew
      BY <2>4, SoleIsOne
    <2> QED  BY <1>1, <2>1, <2>4, <2>5, <2>6, <2>7 DEF CompleteInv
  <1> QED  BY <1>3, <1>4

\* What "new" dumps is whole: it alone writes the compose file, which it
\* left empty.
LEMMA DumpKeepsComplete ==
    ASSUME BaseInv, CompleteInv, NEW p \in Process, Dump(p)
    PROVE  CompleteInv'
  <1>1. /\ Shape /\ todo[p] # <<>> /\ todo[p] \in Seq(Job) /\ Head(todo[p]).file \in File
        /\ pc[p] = "dump" /\ dir /\ UNCHANGED <<command, dir>>
    <2>1. Shape /\ todo[p] # <<>> /\ todo[p] \in Seq(Job) /\ pc[p] = "dump"
          /\ dir /\ UNCHANGED <<command, dir>>
      BY DEF BaseInv, CompleteInv, TodoFollowsPc, Shape, Dump
    <2> QED  BY <2>1, TailOfJobs DEF Job
  <1>2. \A q \in Process \ {p} : pc'[q] = pc[q] /\ todo'[q] = todo[q]
    BY OthersKept
  <1>3. PICK text \in Dumped(p) : file' = [file EXCEPT ![Head(todo[p]).file] = text]
    BY DEF Dump
  <1>4. \A f \in File : /\ f # Head(todo[p]).file => file'[f] = file[f]
                        /\ f = Head(todo[p]).file => file'[f] = text
    BY <1>1, <1>3 DEF Shape
  <1>5. /\ pc'[p] \in {"done", "serving", "disk", "load"} /\ todo'[p] = Tail(todo[p])
        /\ command[p] = "new" /\ Len(todo[p]) = 1 => pc'[p] = "done"
    BY <1>1 DEF Dump, Goes, AfterJobs, Shape
  <1>13. pc'[p] # "dump"
    BY <1>5
  <1>6. /\ Len(todo[p]) \in Nat \ {0} /\ Len(todo'[p]) = Len(todo[p]) - 1
        /\ todo'[p] = <<>> <=> Len(todo[p]) = 1
    BY <1>1, <1>5, TailOfJobs
  <1>7. Compose \in File /\ Manifest \in File /\ Compose # Manifest
    BY DEF Compose, Manifest, File
  <1>8. \A q \in Process : Entered(q) => Entered(q)'
    BY <1>1, <1>2, <1>5, <1>6 DEF Entered
  <1>9. SoleNew' => SoleNew
    BY <1>8, SoleIsOne
  <1>10. \A q \in Process : pc'[q] = "making" => pc[q] = "making"
    BY <1>2, <1>5
  <1>11. ASSUME SoleNew PROVE ManifestLast'
    <2>1. ManifestLast
      BY <1>11 DEF CompleteInv
    <2>2. CASE command[p] # "new"
      <3>1. file'[Compose] = file[Compose] /\ file'[Manifest] = file[Manifest]
        BY <1>1, <1>4, <1>7, <2>2, OnlyNewWrites
      <3> QED  BY <1>1, <1>2, <2>1, <2>2, <3>1 DEF ManifestLast
    <2>3. CASE command[p] = "new"
      <3>1. \A q \in Process \ {p} : command[q] = "new" => Len(todo'[q]) \notin {1, 2, 3}
        <4>1. \A q \in Process : Len(todo[q]) \in {1, 2, 3} => todo[q] # <<>>
          BY EmptyIsShort
        <4> QED  BY <1>1, <1>2, <1>11, <2>3, <4>1 DEF SoleNew
      <3>2. CASE Len(todo[p]) = 3
        <4>1. Head(todo[p]).file = Compose /\ file[Compose].state = "empty"
              /\ file[Manifest].state = "absent"
          BY <1>1, <2>1, <2>3, <3>2, NewIsOrdered DEF ManifestLast
        <4>2. text.state = "whole"
          BY <4>1 DEF Dumped, Whole
        <4>3. file'[Compose].state = "whole" /\ file'[Manifest].state = "absent"
          BY <1>4, <1>7, <4>1, <4>2
        <4> QED  BY <1>1, <1>13, <3>1, <4>3 DEF ManifestLast
      <3>3. CASE Len(todo[p]) = 2
        <4>1. Head(todo[p]).file \notin {Compose, Manifest}
          <5>1. Len(todo[p]) # 1 /\ Len(todo[p]) # 3
            BY <3>3
          <5> QED  BY <1>1, <2>3, <5>1, NewIsOrdered
        <4>2. file'[Compose] = file[Compose]
          BY <1>4, <1>7, <4>1
        <4>3. file'[Compose].state = "whole"
          BY <2>1, <2>3, <3>3, <4>2 DEF ManifestLast
        <4>4. Len(todo'[p]) \notin {2, 3}
          BY <1>6, <3>3
        <4> QED  BY <1>1, <1>13, <3>1, <4>3, <4>4 DEF ManifestLast
      <3>4. CASE Len(todo[p]) = 1
        <4>1. Head(todo[p]).file = Manifest
          BY <1>1, <2>3, <3>4, NewIsOrdered
        <4>2. file'[Compose].state = "whole"
          BY <1>4, <1>7, <2>1, <2>3, <3>4, <4>1 DEF ManifestLast
        <4>3. Len(todo'[p]) \notin {1, 2, 3}
          BY <1>6, <3>4
        <4> QED  BY <1>1, <3>1, <4>2, <4>3 DEF ManifestLast
      <3> QED  BY <1>1, <2>3, <3>2, <3>3, <3>4, LengthOfNew
    <2> QED  BY <2>2, <2>3
  <1>12. \A q \in Process : pc'[q] = "making" /\ dir' => \E r \in Process : Entered(r)'
    BY <1>1, <1>8, <1>10 DEF CompleteInv
  <1> QED  BY <1>1, <1>9, <1>11, <1>12 DEF CompleteInv

LEMMA StepComplete == BaseInv /\ CompleteInv /\ [Next]_vars => CompleteInv'
  <1> SUFFICES ASSUME BaseInv, CompleteInv, [Next]_vars PROVE CompleteInv'
    OBVIOUS
  <1>1. CASE UNCHANGED vars
    BY <1>1, QuietComplete DEF vars
  <1>2. CASE Next
    BY <1>2, QuietStepsComplete, MakeKeepsComplete, OpenKeepsComplete, DumpKeepsComplete
       DEF Next
  <1> QED  BY <1>1, <1>2

\* A run that is under way has read a manifest, and "new" writes that last:
\* the compose file is whole.
THEOREM StartsAreComplete == Spec => []StartsComplete
  <1>1. RegistryInv /\ CompleteInv => StartsComplete
    BY DEF RegistryInv, CompleteInv, ManifestLast, StartsComplete, Made, Manifest, Compose, Sys
  <1>2. Spec => []CompleteInv
    BY InitComplete, StepComplete, InstanceInvariance, PTL DEF Spec
  <1>3. Spec => []RegistryInv
    BY InitRegistry, StepRegistry, InstanceInvariance, PTL DEF Spec
  <1> QED  BY <1>1, <1>2, <1>3, PTL

(***************************************************************************)
(* The configuration a run starts its guest with                           *)
(***************************************************************************)
Config == "config.json"
Port(p) == <<"host_port", p>>
VmConfig == <<"vm_config", "manifest">>

Acting(p) ==
    /\ command[p] \in {"run", "dry"}
    /\ pc[p] \in {"load", "open", "dump", "disk", "create", "boot", "running"}

IsEndOfRun(p, jobs) ==
    Len(jobs) <= 4 /\ \A i \in 1..Len(jobs) : jobs[i] = RunJobs(p)[i + 4 - Len(jobs)]

\* p has dumped its port, or its vm_config, to f.
PortBehind(p, f) == Len(todo[p]) \in IF f = Config THEN {0, 1, 2, 3} ELSE {0, 1}
VmBehind(p, f) == Len(todo[p]) \in IF f = Config THEN {0, 1, 2} ELSE {0}

\* What a file holds, while p rewrites it too.
Held(p, f) == IF pc[p] = "dump" /\ Head(todo[p]).file = f THEN loaded[p] ELSE file[f].has

\* Each job on f that p has behind it has left its entry.
Progress(p, f) ==
    /\ pc[p] = "open" /\ Head(todo[p]).file = f => loaded[p] = file[f].has
    /\ pc[p] = "dump" /\ Head(todo[p]).file = f => file[f].state = "empty"
    /\ PortBehind(p, f) => Port(p) \in Held(p, f)
    /\ VmBehind(p, f) => VmConfig \in Held(p, f)

OwnProgress(p) ==
    Acting(p) => /\ IsEndOfRun(p, todo[p])
                 /\ \A f \in GuestConfig : f \notin disturbed[p] => Progress(p, f)

OwnInv == \A p \in Process : OwnProgress(p)

LEMMA TailOfRun ==
    ASSUME NEW p \in Process, NEW jobs \in Seq(Job), jobs # <<>>, IsEndOfRun(p, jobs)
    PROVE  IsEndOfRun(p, Tail(jobs))
  <1>1. /\ Len(jobs) \in Nat \ {0} /\ Len(Tail(jobs)) = Len(jobs) - 1
        /\ Tail(jobs) \in Seq(Job)
    BY TailOfJobs
  <1>2. \A i \in 1..Len(Tail(jobs)) : Tail(jobs)[i] = jobs[i + 1] /\ i + 1 \in 1..Len(jobs)
    BY TailOfJobs
  <1> QED  BY <1>1, <1>2 DEF IsEndOfRun

\* The four jobs of a run, by how many are left.
LEMMA RunIsOrdered ==
    ASSUME BaseInv, NEW p \in Process, IsEndOfRun(p, todo[p]), todo[p] # <<>>
    PROVE  /\ Len(todo[p]) \in {1, 2, 3, 4} /\ Head(todo[p]).merge
           /\ Len(todo[p]) \in {3, 4} => Head(todo[p]).file = Config
           /\ Len(todo[p]) \in {1, 2} => Head(todo[p]).file = Sys
           /\ Len(todo[p]) \in {2, 4} => Head(todo[p]).entries = {Port(p)}
           /\ Len(todo[p]) \in {1, 3} => Head(todo[p]).entries = {VmConfig}
  <1>1. todo[p] \in Seq(Job)
    BY DEF BaseInv, Shape
  <1>2. /\ Len(todo[p]) \in Nat \ {0} /\ Len(todo[p]) <= 4
        /\ Head(todo[p]) = RunJobs(p)[1 + 4 - Len(todo[p])]
    <2>1. Len(todo[p]) \in Nat \ {0} /\ Head(todo[p]) = todo[p][1]
      BY <1>1, TailOfJobs
    <2>2. 1 \in 1..Len(todo[p])
      BY <2>1
    <2> QED  BY <2>1, <2>2 DEF IsEndOfRun
  <1>3. Len(todo[p]) \in {1, 2, 3, 4}
    <2>1. \A n \in Nat \ {0} : n <= 4 => n \in {1, 2, 3, 4}
      OBVIOUS
    <2> QED  BY <1>2, <2>1
  <1>4. /\ RunJobs(p)[1] = Merge(Config, {Port(p)})
        /\ RunJobs(p)[2] = Merge(Config, {VmConfig})
        /\ RunJobs(p)[3] = Merge(Sys, {Port(p)})
        /\ RunJobs(p)[4] = Merge(Sys, {VmConfig})
    BY DEF RunJobs, Config, Sys, Port, VmConfig
  <1>5. CASE Len(todo[p]) = 4
    <2>1. Head(todo[p]) = Merge(Config, {Port(p)})
      BY <1>2, <1>4, <1>5
    <2> QED  BY <1>5, <2>1 DEF Merge
  <1>6. CASE Len(todo[p]) = 3
    <2>1. Head(todo[p]) = Merge(Config, {VmConfig})
      BY <1>2, <1>4, <1>6
    <2> QED  BY <1>6, <2>1 DEF Merge
  <1>7. CASE Len(todo[p]) = 2
    <2>1. Head(todo[p]) = Merge(Sys, {Port(p)})
      BY <1>2, <1>4, <1>7
    <2> QED  BY <1>7, <2>1 DEF Merge
  <1>8. CASE Len(todo[p]) = 1
    <2>1. Head(todo[p]) = Merge(Sys, {VmConfig})
      BY <1>2, <1>4, <1>8
    <2> QED  BY <1>8, <2>1 DEF Merge
  <1> QED  BY <1>3, <1>5, <1>6, <1>7, <1>8

\* What is behind p after its next job: only on that job's file more than before.
LEMMA NextOfRun ==
    ASSUME BaseInv, NEW p \in Process, IsEndOfRun(p, todo[p]), todo[p] # <<>>,
           Len(todo'[p]) = Len(todo[p]) - 1, NEW f \in GuestConfig
    PROVE  /\ Head(todo[p]).file # f => /\ PortBehind(p, f)' => PortBehind(p, f)
                                        /\ VmBehind(p, f)' => VmBehind(p, f)
           /\ Head(todo[p]).file = f =>
                  /\ Head(todo[p]).entries \in {{Port(p)}, {VmConfig}}
                  /\ Head(todo[p]).entries = {Port(p)} => ~VmBehind(p, f)'
                  /\ Head(todo[p]).entries = {VmConfig} => PortBehind(p, f)
  <1>1. f \in {Config, Sys} /\ Config # Sys
    BY DEF GuestConfig, Config, Sys
  <1>2. {Port(p)} # {VmConfig}
    <2>1. Port(p)[1] = "host_port" /\ VmConfig[1] = "vm_config"
      BY DEF Port, VmConfig
    <2>2. Port(p) # VmConfig
      BY <2>1
    <2> QED  BY <2>2
  <1>3. Len(todo[p]) \in {1, 2, 3, 4}
    BY RunIsOrdered
  <1>4. CASE Len(todo[p]) = 4
    <2>1. Head(todo[p]).file = Config /\ Head(todo[p]).entries = {Port(p)} /\ Len(todo'[p]) = 3
      BY <1>4, RunIsOrdered
    <2>2. 3 \notin {0, 1, 2} /\ 3 \notin {0, 1} /\ 3 \notin {0}
      OBVIOUS
    <2>3. CASE f = Config
      BY <1>1, <1>2, <2>1, <2>2, <2>3 DEF PortBehind, VmBehind
    <2>4. CASE f = Sys
      BY <1>1, <1>2, <2>1, <2>2, <2>4 DEF PortBehind, VmBehind
    <2> QED  BY <1>1, <2>3, <2>4
  <1>5. CASE Len(todo[p]) = 3
    <2>1. Head(todo[p]).file = Config /\ Head(todo[p]).entries = {VmConfig} /\ Len(todo'[p]) = 2
      BY <1>5, RunIsOrdered
    <2> QED  BY <1>1, <1>2, <1>5, <2>1 DEF PortBehind, VmBehind
  <1>6. CASE Len(todo[p]) = 2
    <2>1. Head(todo[p]).file = Sys /\ Head(todo[p]).entries = {Port(p)} /\ Len(todo'[p]) = 1
      BY <1>6, RunIsOrdered
    <2> QED  BY <1>1, <1>2, <1>6, <2>1 DEF PortBehind, VmBehind
  <1>7. CASE Len(todo[p]) = 1
    <2>1. Head(todo[p]).file = Sys /\ Head(todo[p]).entries = {VmConfig} /\ Len(todo'[p]) = 0
      BY <1>7, RunIsOrdered
    <2> QED  BY <1>1, <1>2, <1>7, <2>1 DEF PortBehind, VmBehind
  <1> QED  BY <1>3, <1>4, <1>5, <1>6, <1>7

\* A run's first list of jobs is all of them, with nothing behind it.
LEMMA ManifestRead ==
    ASSUME BaseInv, NEW p \in Process, ReadManifest(p)
    PROVE  \/ pc'[p] = "failed"
           \/ /\ pc'[p] = "load" /\ IsEndOfRun(p, todo'[p])
              /\ \A f \in GuestConfig : ~PortBehind(p, f)' /\ ~VmBehind(p, f)'
  <1>1. \/ pc'[p] = "failed"
        \/ pc'[p] = "load" /\ todo'[p] = RunJobs(p)
    BY DEF ReadManifest, Goes, BaseInv, Shape
  <1>2. ASSUME todo'[p] = RunJobs(p)
        PROVE  IsEndOfRun(p, todo'[p]) /\ Len(todo'[p]) = 4
    <2>1. RunJobs(p) \in Seq(Job) /\ Len(RunJobs(p)) = 4
      BY JobTypes DEF RunJobs
    <2>2. IsEndOfRun(p, RunJobs(p))
      BY <2>1 DEF IsEndOfRun
    <2> QED  BY <1>2, <2>1, <2>2
  <1>3. ASSUME Len(todo'[p]) = 4, NEW f \in GuestConfig
        PROVE  ~PortBehind(p, f)' /\ ~VmBehind(p, f)'
    <2>1. 4 \notin {0, 1, 2, 3} /\ 4 \notin {0, 1, 2} /\ 4 \notin {0, 1} /\ 4 \notin {0}
      OBVIOUS
    <2>2. CASE f = Config
      BY <1>3, <2>1, <2>2 DEF PortBehind, VmBehind
    <2>3. CASE f # Config
      BY <1>3, <2>1, <2>3 DEF PortBehind, VmBehind
    <2> QED  BY <2>2, <2>3
  <1> QED  BY <1>1, <1>2, <1>3

\* Another command's step leaves what p counts on, or disturbs it.
LEMMA OthersProgress ==
    ASSUME BaseInv, OwnInv, NEW p \in Process, NEW q \in Process, q # p,
           \/ CheckDirectory(q) \/ MakeDirectories(q) \/ ReadManifest(q) \/ StartServe(q)
           \/ Load(q) \/ Open(q) \/ Dump(q)
           \/ LookForDisk(q) \/ CreateDisk(q) \/ Boot(q) \/ GuestEnds(q) \/ Stop(q)
    PROVE  OwnProgress(p)'
  <1>1. /\ UNCHANGED command /\ pc'[p] = pc[p] /\ todo'[p] = todo[p] /\ loaded'[p] = loaded[p]
        /\ disturbed[p] \subseteq disturbed'[p]
    BY OthersKept
  <1>2. \A f \in GuestConfig :
            file'[f] = file[f] \/ (pc[p] \notin {"start", "done", "failed"} => f \in disturbed'[p])
    <2>1. CASE Open(q) \/ Dump(q)
      <3>1. Shape /\ todo[q] # <<>> /\ Head(todo[q]).file \in Thing
        BY <2>1, HeadIsFile DEF BaseInv, TodoFollowsPc, Open, Dump
      <3>2. file' = file \/ Disturbs(q, Head(todo[q]).file)
        BY <2>1 DEF Open, Dump
      <3>3. \A f \in GuestConfig : f # Head(todo[q]).file => file'[f] = file[f]
        BY <2>1, <3>1 DEF Open, Dump, Shape, GuestConfig, File
      <3>4. CASE Disturbs(q, Head(todo[q]).file)
        <4>1. pc[p] \notin {"start", "done", "failed"} => Head(todo[q]).file \in disturbed'[p]
          BY <3>1, <3>4, DisturbsEffect
        <4> QED  BY <3>3, <4>1
      <3> QED  BY <3>2, <3>4
    <2>2. CASE Boot(q)
      BY <2>2 DEF Boot
    <2>3. CASE \/ CheckDirectory(q) \/ MakeDirectories(q) \/ ReadManifest(q) \/ StartServe(q)
               \/ Load(q) \/ LookForDisk(q) \/ CreateDisk(q) \/ GuestEnds(q) \/ Stop(q)
      BY <2>3 DEF CheckDirectory, MakeDirectories, ReadManifest, StartServe, Load,
                  LookForDisk, CreateDisk, GuestEnds, Stop
    <2> QED  BY <2>1, <2>2, <2>3
  <1>3. Acting(p)' => Acting(p) /\ IsEndOfRun(p, todo[p])
    BY <1>1 DEF Acting, OwnInv, OwnProgress
  <1>4. ASSUME Acting(p), NEW f \in GuestConfig, f \notin disturbed'[p] PROVE Progress(p, f)'
    <2>1. file'[f] = file[f] /\ Progress(p, f)
      BY <1>1, <1>2, <1>4 DEF OwnInv, OwnProgress, Acting
    <2> QED  BY <1>1, <2>1 DEF Progress, Held, PortBehind, VmBehind
  <1> QED  BY <1>1, <1>3, <1>4 DEF OwnProgress, IsEndOfRun

\* p's own steps other than writing a file.
LEMMA QuietProgress ==
    ASSUME BaseInv, OwnInv, NEW p \in Process,
           \/ CheckDirectory(p) \/ MakeDirectories(p) \/ ReadManifest(p) \/ StartServe(p)
           \/ Load(p) \/ LookForDisk(p) \/ CreateDisk(p) \/ Boot(p) \/ GuestEnds(p) \/ Stop(p)
    PROVE  OwnProgress(p)'
  <1>1. Shape /\ UNCHANGED command /\ disturbed[p] \subseteq disturbed'[p]
    BY OthersKept DEF BaseInv
  <1>2. CASE CheckDirectory(p) \/ MakeDirectories(p) \/ StartServe(p)
    BY <1>2 DEF BaseInv, TodoFollowsPc, CheckDirectory, MakeDirectories, StartServe, Acting,
                OwnProgress
  <1>3. CASE ReadManifest(p)
    <2>1. \A f \in GuestConfig : ~PortBehind(p, f)' /\ ~VmBehind(p, f)' /\ pc'[p] = "load"
              => Progress(p, f)'
      BY DEF Progress
    <2> QED  BY <1>3, <2>1, ManifestRead DEF Acting, OwnProgress, IsEndOfRun
  <1>4. CASE Load(p)
    <2>1. /\ UNCHANGED <<file, todo, disturbed>> /\ pc[p] = "load" /\ todo[p] # <<>>
          /\ \/ pc'[p] = "failed"
             \/ /\ pc'[p] = "open"
                /\ Head(todo[p]).merge => loaded'[p] = file[Head(todo[p]).file].has
      BY <1>1, <1>4 DEF Load, Goes, Shape, BaseInv, TodoFollowsPc
    <2>2. ASSUME Acting(p)' PROVE Acting(p) /\ pc'[p] = "open"
      BY <1>1, <2>1, <2>2 DEF Acting
    <2>3. ASSUME Acting(p) PROVE IsEndOfRun(p, todo[p]) /\ Head(todo[p]).merge
      BY <2>1, <2>3, RunIsOrdered DEF OwnInv, OwnProgress
    <2>4. ASSUME NEW f \in GuestConfig, Progress(p, f), Head(todo[p]).merge, pc'[p] = "open"
          PROVE  Progress(p, f)'
      BY <2>1, <2>4 DEF Progress, Held, PortBehind, VmBehind
    <2> QED  BY <2>1, <2>2, <2>3, <2>4 DEF OwnInv, OwnProgress, IsEndOfRun
  <1>5. CASE LookForDisk(p) \/ CreateDisk(p) \/ Boot(p)
    <2>1. /\ UNCHANGED <<file, todo>> /\ pc[p] \in {"disk", "create", "boot"}
          /\ pc'[p] \in {"create", "boot", "done", "running", "failed"}
      BY <1>1, <1>5, BootEffect DEF LookForDisk, CreateDisk, Goes, Shape
    <2>2. Acting(p)' => Acting(p)
      BY <1>1, <2>1 DEF Acting
    <2>3. \A f \in GuestConfig : Progress(p, f) => Progress(p, f)'
      BY <2>1 DEF Progress, Held, PortBehind, VmBehind
    <2> QED  BY <1>1, <2>1, <2>2, <2>3 DEF OwnInv, OwnProgress, IsEndOfRun
  <1>6. CASE GuestEnds(p)
    <2>1. UNCHANGED <<file, todo, loaded, disturbed>> /\ (pc'[p] = pc[p] \/ pc'[p] = "done")
      BY <1>1, <1>6 DEF GuestEnds, Goes, Shape
    <2>2. Acting(p)' => Acting(p) /\ pc'[p] = pc[p]
      BY <1>1, <2>1 DEF Acting
    <2>3. \A f \in GuestConfig : pc'[p] = pc[p] /\ Progress(p, f) => Progress(p, f)'
      BY <2>1 DEF Progress, Held, PortBehind, VmBehind
    <2> QED  BY <1>1, <2>1, <2>2, <2>3 DEF OwnInv, OwnProgress, IsEndOfRun
  <1>7. CASE Stop(p)
    BY <1>1, <1>7 DEF Stop, Goes, Shape, Acting, OwnProgress
  <1> QED  BY <1>2, <1>3, <1>4, <1>5, <1>6, <1>7

\* While the file is open, what it held is in the memory of the run.
LEMMA OpenProgress ==
    ASSUME BaseInv, OwnInv, NEW p \in Process, Open(p)
    PROVE  OwnProgress(p)'
  <1>1. /\ Shape /\ todo[p] # <<>> /\ pc[p] = "open" /\ UNCHANGED <<command, todo, loaded>>
        /\ disturbed[p] \subseteq disturbed'[p]
    BY OthersKept DEF BaseInv, TodoFollowsPc, Open
  <1>2. CASE pc'[p] = "failed"
    BY <1>2 DEF Acting, OwnProgress
  <1>3. CASE pc'[p] # "failed"
    <2>1. pc'[p] = "dump" /\ file' = [file EXCEPT ![Head(todo[p]).file] = Empty]
      BY <1>1, <1>3 DEF Open, Goes, Shape
    <2>2. \A f \in GuestConfig : /\ f # Head(todo[p]).file => file'[f] = file[f]
                                 /\ f = Head(todo[p]).file => file'[f].state = "empty"
      BY <1>1, <2>1 DEF Shape, Empty, GuestConfig, File
    <2>3. Acting(p)' => Acting(p)
      BY <1>1, <2>1 DEF Acting
    <2>4. ASSUME NEW f \in GuestConfig, Progress(p, f) PROVE Progress(p, f)'
      <3>1. Held(p, f)' = Held(p, f)
        BY <1>1, <2>1, <2>2, <2>4 DEF Progress, Held
      <3> QED  BY <1>1, <2>1, <2>2, <2>4, <3>1 DEF Progress, PortBehind, VmBehind
    <2> QED  BY <1>1, <2>3, <2>4 DEF OwnInv, OwnProgress, IsEndOfRun
  <1> QED  BY <1>2, <1>3

\* The file p dumps holds what it loaded, and the new entry.
LEMMA DumpProgress ==
    ASSUME BaseInv, OwnInv, NEW p \in Process, Dump(p)
    PROVE  OwnProgress(p)'
  <1>1. /\ Shape /\ todo[p] # <<>> /\ todo[p] \in Seq(Job) /\ Head(todo[p]).file \in File
        /\ pc[p] = "dump" /\ UNCHANGED command
        /\ disturbed[p] \subseteq disturbed'[p]
    <2>1. Shape /\ todo[p] # <<>> /\ todo[p] \in Seq(Job) /\ pc[p] = "dump" /\ UNCHANGED command
      BY DEF BaseInv, TodoFollowsPc, Shape, Dump
    <2> QED  BY <2>1, TailOfJobs, OthersKept DEF Job
  <1>2. /\ todo'[p] = Tail(todo[p]) /\ pc'[p] \in {"done", "serving", "disk", "load"}
    BY <1>1 DEF Dump, Goes, AfterJobs, Shape
  <1>3. Len(todo[p]) \in Nat \ {0} /\ Len(todo'[p]) = Len(todo[p]) - 1
    BY <1>1, <1>2, TailOfJobs
  <1>4. Acting(p)' => Acting(p)
    BY <1>1 DEF Acting
  <1>5. IsEndOfRun(p, todo[p]) => IsEndOfRun(p, todo'[p])
    BY <1>1, <1>2, TailOfRun
  <1>6. ASSUME IsEndOfRun(p, todo[p]), NEW f \in GuestConfig, Progress(p, f)
        PROVE  Progress(p, f)'
    <2>1. f \in File
      BY DEF GuestConfig, File
    <2>2. pc'[p] \notin {"open", "dump"}
      BY <1>2
    <2>3. CASE f # Head(todo[p]).file
      <3>1. Held(p, f)' = Held(p, f)
        BY <1>1, <1>2, <2>1, <2>3 DEF Dump, Shape, Held
      <3> QED  BY <1>1, <1>3, <1>6, <2>2, <2>3, <3>1, NextOfRun DEF Progress
    <2>4. CASE f = Head(todo[p]).file
      <3>1. Dumped(p) = {Whole(Updated(loaded[p], Head(todo[p]).entries))}
        BY <1>1, <1>6, <2>4 DEF Dumped, Progress
      <3>2. file'[f] = Whole(Updated(loaded[p], Head(todo[p]).entries))
        BY <1>1, <2>4, <3>1 DEF Dump, Shape
      <3>3. /\ Held(p, f) = loaded[p]
            /\ Held(p, f)' = Updated(loaded[p], Head(todo[p]).entries)
        BY <1>1, <2>2, <2>4, <3>2 DEF Held, Whole
      <3>4. /\ Head(todo[p]).entries \in {{Port(p)}, {VmConfig}}
            /\ Head(todo[p]).entries = {Port(p)} => ~VmBehind(p, f)'
            /\ Head(todo[p]).entries = {VmConfig} => PortBehind(p, f)
        BY <1>1, <1>3, <1>6, <2>4, NextOfRun
      <3>5. /\ Port(p) \in Updated(loaded[p], {Port(p)})
            /\ VmConfig \in Updated(loaded[p], {VmConfig})
            /\ Port(p) \in loaded[p] => Port(p) \in Updated(loaded[p], {VmConfig})
        BY DEF Updated, Port, VmConfig
      <3>6. CASE Head(todo[p]).entries = {Port(p)}
        BY <2>2, <3>3, <3>4, <3>5, <3>6 DEF Progress
      <3>7. CASE Head(todo[p]).entries = {VmConfig}
        BY <1>6, <2>2, <3>3, <3>4, <3>5, <3>7 DEF Progress
      <3> QED  BY <3>4, <3>6, <3>7
    <2> QED  BY <2>3, <2>4
  <1> QED  BY <1>1, <1>4, <1>5, <1>6 DEF OwnInv, OwnProgress, IsEndOfRun

LEMMA StepOwn == BaseInv /\ OwnInv /\ [Next]_vars => OwnInv'
  <1> SUFFICES ASSUME BaseInv, OwnInv, [Next]_vars, NEW p \in Process
               PROVE  OwnProgress(p)'
    BY DEF OwnInv
  <1>1. CASE UNCHANGED vars
    BY <1>1 DEF vars, OwnInv, OwnProgress, IsEndOfRun, Acting, Progress, Held, PortBehind, VmBehind
  <1>2. CASE Next
    <2>1. PICK q \in Process :
              \/ CheckDirectory(q) \/ MakeDirectories(q) \/ ReadManifest(q) \/ StartServe(q)
              \/ Load(q) \/ Open(q) \/ Dump(q)
              \/ LookForDisk(q) \/ CreateDisk(q) \/ Boot(q) \/ GuestEnds(q) \/ Stop(q)
      BY <1>2 DEF Next
    <2>2. CASE q # p
      BY <2>1, <2>2, OthersProgress
    <2>3. CASE q = p
      BY <2>1, <2>3, QuietProgress, OpenProgress, DumpProgress
    <2> QED  BY <2>2, <2>3
  <1> QED  BY <1>1, <1>2

LEMMA InitOwn == Init => OwnInv
  BY DEF Init, OwnInv, OwnProgress, Acting

THEOREM OwnInvariance == Spec => []OwnInv
  BY InitOwn, StepOwn, InstanceInvariance, PTL DEF Spec

\* A run that is configured has all its jobs behind it.
LEMMA ConfiguredIsDone ==
    ASSUME BaseInv, NEW p \in Process, Configured(p)
    PROVE  /\ Acting(p) /\ pc[p] # "dump"
           /\ \A f \in GuestConfig : PortBehind(p, f) /\ VmBehind(p, f)
  <1>1. Acting(p) /\ todo[p] = <<>> /\ pc[p] # "dump"
    BY DEF Configured, Acting, Underway, BaseInv, TodoFollowsPc
  <1>2. Len(todo[p]) = 0
    BY <1>1
  <1> QED  BY <1>1, <1>2 DEF PortBehind, VmBehind

\* A guest starts with those of its files that no other command wrote to
\* meanwhile naming the port of its own run: update_guest_config adds each
\* entry to what the file held, however earlier commands left it.
THEOREM StartsOnOwn == Spec => []StartsOnOwnConfig
  <1>1. BaseInv /\ OwnInv => StartsOnOwnConfig
    <2> SUFFICES ASSUME BaseInv, OwnInv, NEW p \in Process, Configured(p),
                        NEW f \in GuestConfig \ disturbed[p]
                 PROVE  {Port(p), VmConfig} \subseteq file[f].has
      BY DEF StartsOnOwnConfig, Port, VmConfig
    <2>1. Acting(p) /\ pc[p] # "dump" /\ PortBehind(p, f) /\ VmBehind(p, f)
      BY ConfiguredIsDone
    <2>2. Progress(p, f)
      BY <2>1 DEF OwnInv, OwnProgress
    <2> QED  BY <2>1, <2>2 DEF Progress, Held
  <1> QED  BY <1>1, OwnInvariance, InstanceInvariance, PTL

(***************************************************************************)
(* The host API port in a file that others write to                        *)
(***************************************************************************)
HasPort(entries) == \E q \in Process : Port(q) \in entries

ServesPort ==
    \A p \in Process : command[p] = "serve" =>
        \A i \in 1..Len(todo[p]) : todo[p][i].entries = {Port(p)}

\* Once p has dumped its port to f, f names a port whenever it is whole, and
\* so does what p has loaded from it.
PortKept(p, f) ==
    PortBehind(p, f) => /\ file[f].state # "absent"
                        /\ file[f].state = "whole" => HasPort(file[f].has)
                        /\ InHand(p, f) => HasPort(loaded[p])

PortInv ==
    /\ ServesPort
    /\ SoleNew => \A p \in Process, f \in GuestConfig : Acting(p) => PortKept(p, f)

LEMMA ServeHead ==
    ASSUME BaseInv, ServesPort, NEW p \in Process, command[p] = "serve", todo[p] # <<>>
    PROVE  Head(todo[p]).entries = {Port(p)}
  <1>1. todo[p] \in Seq(Job)
    BY DEF BaseInv, Shape
  <1>2. 1 \in 1..Len(todo[p]) /\ Head(todo[p]) = todo[p][1]
    BY <1>1, TailOfJobs
  <1> QED  BY <1>2 DEF ServesPort

\* While a run is at work next to a single "new", that one has nothing left
\* to write but the manifest.
LEMMA NewLeavesConfig ==
    ASSUME BaseInv, RegistryInv, CompleteInv, SoleNew,
           NEW p \in Process, Acting(p),
           NEW q \in Process, command[q] = "new", todo[q] # <<>>
    PROVE  Head(todo[q]).file \notin GuestConfig
  <1>1. file[Manifest].state # "absent"
    BY DEF Acting, Underway, RegistryInv
  <1>2. Len(todo[q]) = 1
    BY <1>1, LengthOfNew DEF CompleteInv, ManifestLast
  <1>3. Head(todo[q]).file = Manifest
    BY <1>2, NewIsOrdered
  <1> QED  BY <1>3 DEF Manifest, GuestConfig

\* What is dumped to a file of the guest names a port: the writer's own, or
\* the one that the writer had found in it.
LEMMA DumpedPort ==
    ASSUME BaseInv, OwnInv, RegistryInv, CompleteInv, PortInv, SoleNew,
           NEW p \in Process, Acting(p),
           NEW q \in Process, Dump(q), NEW f \in GuestConfig, Head(todo[q]).file = f
    PROVE  file'[f].state # "absent" /\ (file'[f].state = "whole" => HasPort(file'[f].has))
  <1>1. Shape /\ todo[q] # <<>> /\ todo[q] \in Seq(Job) /\ pc[q] = "dump" /\ InHand(q, f)
    BY DEF BaseInv, TodoFollowsPc, Shape, Dump, InHand
  <1>2. PICK text \in Dumped(q) : file'[f] = text
    <2>1. f \in File
      BY DEF GuestConfig, File
    <2> QED  BY <1>1, <2>1 DEF Dump, Shape
  <1>3. /\ text.state \in {"whole", "garbled"}
        /\ text.state = "whole" => text.has = Updated(loaded[q], Head(todo[q]).entries)
    BY <1>1, DumpedTypes
  <1>4. HasPort(Updated(loaded[q], Head(todo[q]).entries))
    <2>1. command[q] # "new"
      BY <1>1, NewLeavesConfig
    <2>2. CASE Head(todo[q]).entries = {Port(q)}
      BY <2>2 DEF Updated, HasPort
    <2>3. CASE command[q] \in {"run", "dry"} /\ Head(todo[q]).entries # {Port(q)}
      <3>1. Acting(q) /\ IsEndOfRun(q, todo[q])
        BY <1>1, <2>3 DEF Acting, OwnInv, OwnProgress
      <3>2. Len(todo[q]) \in {1, 2, 3, 4} /\ Head(todo[q]).entries = {VmConfig}
        BY <1>1, <2>3, <3>1, RunIsOrdered
      <3>3. /\ Len(todo[q]) \in {3, 4} => f = Config
            /\ Len(todo[q]) \in {1, 2} => f = Sys
            /\ Len(todo[q]) \in {2, 4} => Head(todo[q]).entries = {Port(q)}
        BY <1>1, <3>1, RunIsOrdered
      <3>4. PortBehind(q, f)
        <4>1. CASE Len(todo[q]) = 1
          BY <3>3, <4>1 DEF PortBehind
        <4>2. CASE Len(todo[q]) = 3
          BY <3>3, <4>2 DEF PortBehind
        <4> QED  BY <2>3, <3>2, <3>3, <4>1, <4>2
      <3>5. PICK r \in Process : Port(r) \in loaded[q]
        BY <1>1, <3>1, <3>4 DEF PortInv, PortKept, HasPort
      <3>6. Port(r)[1] = "host_port" /\ VmConfig[1] = "vm_config"
        BY DEF Port, VmConfig
      <3>7. Port(r) \in Updated(loaded[q], {VmConfig})
        BY <3>5, <3>6 DEF Updated
      <3> QED  BY <3>2, <3>7 DEF HasPort
    <2>4. CASE command[q] = "serve"
      BY <1>1, <2>2, <2>4, ServeHead DEF PortInv
    <2> QED  BY <1>1, <2>1, <2>2, <2>3, <2>4 DEF Shape
  <1> QED  BY <1>2, <1>3, <1>4

\* Every file part of PortKept, for any step of any command.
LEMMA FileKeepsPort ==
    ASSUME BaseInv, OwnInv, RegistryInv, CompleteInv, PortInv, SoleNew,
           NEW p \in Process, Acting(p), NEW f \in GuestConfig,
           NEW q \in Process,
           \/ CheckDirectory(q) \/ MakeDirectories(q) \/ ReadManifest(q) \/ StartServe(q)
           \/ Load(q) \/ Open(q) \/ Dump(q)
           \/ LookForDisk(q) \/ CreateDisk(q) \/ Boot(q) \/ GuestEnds(q) \/ Stop(q),
           PortBehind(p, f) \/ (Dump(q) /\ Head(todo[q]).file = f)
    PROVE  file'[f].state # "absent" /\ (file'[f].state = "whole" => HasPort(file'[f].has))
  <1>0. f \in File /\ file \in [File -> Contents]
    BY DEF GuestConfig, File, BaseInv, Shape
  <1>1. CASE Dump(q) /\ Head(todo[q]).file = f
    BY <1>1, DumpedPort
  <1>2. CASE PortBehind(p, f) /\ file'[f] = file[f]
    BY <1>2 DEF PortInv, PortKept
  <1>3. CASE Dump(q) /\ Head(todo[q]).file # f
    <2>1. file'[f] = file[f]
      BY <1>0, <1>3 DEF Dump
    <2> QED  BY <1>2, <1>3, <2>1
  <1>4. CASE Open(q)
    <2>1. file'[f] = file[f] \/ file'[f] = Empty
      BY <1>0, <1>4 DEF Open
    <2>2. CASE file'[f] = Empty
      BY <2>2 DEF Empty
    <2>3. PortBehind(p, f)
      BY <1>4 DEF Open, Dump
    <2> QED  BY <1>2, <2>1, <2>2, <2>3
  <1>5. CASE \/ CheckDirectory(q) \/ MakeDirectories(q) \/ ReadManifest(q) \/ StartServe(q)
             \/ Load(q) \/ LookForDisk(q) \/ CreateDisk(q) \/ GuestEnds(q) \/ Stop(q)
    <2>1. file' = file
      BY <1>5 DEF CheckDirectory, MakeDirectories, ReadManifest, StartServe, Load,
                  LookForDisk, CreateDisk, GuestEnds, Stop
    <2> QED  BY <1>1, <1>2, <2>1
  <1>6. CASE Boot(q)
    <2>1. file' = file
      BY <1>6 DEF Boot
    <2> QED  BY <1>1, <1>2, <2>1
  <1> QED  BY <1>1, <1>3, <1>4, <1>5, <1>6

\* The step of another command leaves p's own part of PortKept alone.
LEMMA OthersPort ==
    ASSUME BaseInv, OwnInv, RegistryInv, CompleteInv, PortInv, SoleNew,
           NEW p \in Process, Acting(p)', NEW f \in GuestConfig,
           NEW q \in Process, q # p,
           \/ CheckDirectory(q) \/ MakeDirectories(q) \/ ReadManifest(q) \/ StartServe(q)
           \/ Load(q) \/ Open(q) \/ Dump(q)
           \/ LookForDisk(q) \/ CreateDisk(q) \/ Boot(q) \/ GuestEnds(q) \/ Stop(q)
    PROVE  PortKept(p, f)'
  <1>1. /\ UNCHANGED command /\ pc'[p] = pc[p] /\ todo'[p] = todo[p] /\ loaded'[p] = loaded[p]
    BY OthersKept
  <1>2. /\ Acting(p)
        /\ PortBehind(p, f)' => PortBehind(p, f)
        /\ InHand(p, f)' => InHand(p, f)
    BY <1>1 DEF Acting, PortBehind, InHand
  <1>3. PortBehind(p, f) => HasPort(loaded[p]) \/ ~InHand(p, f)
    BY <1>2 DEF PortInv, PortKept
  <1>4. PortBehind(p, f) =>
            file'[f].state # "absent" /\ (file'[f].state = "whole" => HasPort(file'[f].has))
    BY <1>2, FileKeepsPort
  <1>5. HasPort(loaded[p]) => HasPort(loaded[p])'
    BY <1>1 DEF HasPort
  <1>6. HasPort(file'[f].has) => HasPort(file[f].has)'
    BY DEF HasPort
  <1> QED  BY <1>2, <1>3, <1>4, <1>5, <1>6 DEF PortKept

\* p's own step.
LEMMA OwnPort ==
    ASSUME BaseInv, OwnInv, RegistryInv, CompleteInv, PortInv, SoleNew,
           NEW p \in Process, Acting(p)', NEW f \in GuestConfig,
           \/ CheckDirectory(p) \/ MakeDirectories(p) \/ ReadManifest(p) \/ StartServe(p)
           \/ Load(p) \/ Open(p) \/ Dump(p)
           \/ LookForDisk(p) \/ CreateDisk(p) \/ Boot(p) \/ GuestEnds(p) \/ Stop(p)
    PROVE  PortKept(p, f)'
  <1>1. Shape /\ UNCHANGED command
    BY OthersKept DEF BaseInv
  <1>2. HasPort(file'[f].has) => HasPort(file[f].has)'
    BY DEF HasPort
  <1>3. CASE CheckDirectory(p) \/ MakeDirectories(p) \/ StartServe(p)
    BY <1>1, <1>3 DEF BaseInv, TodoFollowsPc, CheckDirectory, MakeDirectories, StartServe, Acting
  <1>4. CASE ReadManifest(p)
    <2>1. ~PortBehind(p, f)'
      BY <1>4, ManifestRead DEF Acting
    <2> QED  BY <2>1 DEF PortKept
  <1>5. CASE Load(p)
    <2>1. Acting(p) /\ UNCHANGED <<file, todo>> /\ pc[p] = "load" /\ todo[p] # <<>>
      BY <1>1, <1>5 DEF Load, Acting, BaseInv, TodoFollowsPc
    <2>2. Head(todo[p]).merge
      BY <2>1, RunIsOrdered DEF OwnInv, OwnProgress
    <2>3. pc'[p] # "failed" =>
              /\ loaded'[p] = file[Head(todo[p]).file].has
              /\ file[Head(todo[p]).file].state \notin {"empty", "garbled"}
      BY <1>1, <1>5, <2>2 DEF Load, Goes, Shape
    <2>4. pc'[p] # "failed"
      BY DEF Acting
    <2>5. file[f].state \in {"absent", "empty", "whole", "garbled"}
      BY <1>1 DEF Shape, Contents, GuestConfig, File
    <2>6. PortBehind(p, f)' => PortBehind(p, f)
      BY <2>1 DEF PortBehind
    <2>7. PortBehind(p, f) /\ InHand(p, f)' => HasPort(loaded[p])'
      BY <2>1, <2>3, <2>4, <2>5 DEF InHand, PortInv, PortKept, HasPort
    <2>8. PortBehind(p, f) =>
              file'[f].state # "absent" /\ (file'[f].state = "whole" => HasPort(file'[f].has))
      BY <1>5, <2>1, FileKeepsPort
    <2> QED  BY <1>2, <2>6, <2>7, <2>8 DEF PortKept
  <1>6. CASE Open(p)
    <2>1. Acting(p) /\ UNCHANGED <<todo, loaded>> /\ pc[p] = "open"
      BY <1>1, <1>6 DEF Open, Acting
    <2>2. (PortBehind(p, f)' => PortBehind(p, f)) /\ (InHand(p, f)' => InHand(p, f))
      BY <2>1 DEF PortBehind, InHand
    <2>3. PortBehind(p, f) =>
              file'[f].state # "absent" /\ (file'[f].state = "whole" => HasPort(file'[f].has))
      BY <1>6, <2>1, FileKeepsPort
    <2>4. PortBehind(p, f) /\ InHand(p, f) => HasPort(loaded[p])'
      BY <2>1 DEF PortInv, PortKept, HasPort
    <2> QED  BY <1>2, <2>2, <2>3, <2>4 DEF PortKept
  <1>7. CASE Dump(p)
    <2>1. /\ Acting(p) /\ todo[p] # <<>> /\ todo[p] \in Seq(Job) /\ todo'[p] = Tail(todo[p])
          /\ IsEndOfRun(p, todo[p])
      BY <1>1, <1>7 DEF Dump, Acting, BaseInv, TodoFollowsPc, Shape, OwnInv, OwnProgress
    <2>2. pc'[p] \in {"done", "serving", "disk", "load"}
      BY <1>1, <1>7 DEF Dump, Goes, AfterJobs, Shape
    <2>3. ~InHand(p, f)'
      BY <2>2 DEF InHand
    <2>4. Len(todo'[p]) = Len(todo[p]) - 1
      BY <2>1, TailOfJobs
    <2>5. PortBehind(p, f)' => PortBehind(p, f) \/ Head(todo[p]).file = f
      BY <2>1, <2>4, NextOfRun
    <2>6. PortBehind(p, f)' =>
              file'[f].state # "absent" /\ (file'[f].state = "whole" => HasPort(file'[f].has))
      BY <1>7, <2>1, <2>5, FileKeepsPort
    <2> QED  BY <1>2, <2>3, <2>6 DEF PortKept
  <1>8. CASE LookForDisk(p) \/ CreateDisk(p) \/ Boot(p) \/ GuestEnds(p) \/ Stop(p)
    <2>1. UNCHANGED <<file, todo>>
      BY <1>8, BootEffect DEF LookForDisk, CreateDisk, GuestEnds, Stop
    <2>2. Acting(p) /\ (UNCHANGED loaded \/ pc'[p] = "failed")
      <3>1. CASE LookForDisk(p) \/ CreateDisk(p) \/ Boot(p)
        <4>1. pc[p] \in {"disk", "create", "boot"} /\ UNCHANGED loaded
          BY <3>1, BootEffect DEF LookForDisk, CreateDisk
        <4> QED  BY <1>1, <4>1 DEF Acting
      <3>2. CASE GuestEnds(p)
        BY <1>1, <3>2 DEF GuestEnds, Goes, Shape, Acting
      <3>3. CASE Stop(p)
        BY <1>1, <3>3 DEF Stop, Goes, Shape, Acting
      <3> QED  BY <1>8, <3>1, <3>2, <3>3
    <2>3. (PortBehind(p, f)' => PortBehind(p, f)) /\ UNCHANGED loaded
      BY <2>1, <2>2 DEF PortBehind, Acting
    <2>4. InHand(p, f)' => InHand(p, f)
      <3>1. CASE LookForDisk(p) \/ CreateDisk(p) \/ Boot(p) \/ Stop(p)
        <4>1. pc'[p] \notin {"open", "dump"}
          BY <1>1, <3>1, BootEffect DEF LookForDisk, CreateDisk, Stop, Goes, Shape
        <4> QED  BY <4>1 DEF InHand
      <3>2. CASE GuestEnds(p)
        <4>1. pc'[p] = pc[p] \/ pc'[p] = "done"
          BY <1>1, <3>2 DEF GuestEnds, Goes, Shape
        <4> QED  BY <2>1, <4>1 DEF InHand
      <3> QED  BY <1>8, <3>1, <3>2
    <2>5. PortBehind(p, f) =>
              file'[f].state # "absent" /\ (file'[f].state = "whole" => HasPort(file'[f].has))
      BY <1>8, <2>2, FileKeepsPort
    <2>6. PortBehind(p, f) /\ InHand(p, f) => HasPort(loaded[p])'
      BY <2>2, <2>3 DEF PortInv, PortKept, HasPort
    <2> QED  BY <1>2, <2>3, <2>4, <2>5, <2>6 DEF PortKept
  <1> QED  BY <1>3, <1>4, <1>5, <1>6, <1>7, <1>8

\* A server never writes anything but its port.
LEMMA StepServes ==
    ASSUME BaseInv, ServesPort, NEW q \in Process,
           \/ CheckDirectory(q) \/ MakeDirectories(q) \/ ReadManifest(q) \/ StartServe(q)
           \/ Load(q) \/ Open(q) \/ Dump(q)
           \/ LookForDisk(q) \/ CreateDisk(q) \/ Boot(q) \/ GuestEnds(q) \/ Stop(q)
    PROVE  ServesPort'
  <1>1. /\ UNCHANGED command /\ \A r \in Process \ {q} : todo'[r] = todo[r]
        /\ Shape /\ todo[q] \in Seq(Job)
    BY OthersKept DEF BaseInv, Shape
  <1>2. ASSUME command[q] = "serve"
        PROVE  \A i \in 1..Len(todo'[q]) : todo'[q][i].entries = {Port(q)}
    <2>1. CASE StartServe(q)
      <3>1. todo'[q] = ServeJobs(q)
        BY <1>1, <2>1 DEF StartServe, Shape
      <3>2. Len(ServeJobs(q)) = 2 /\ \A i \in 1..2 : ServeJobs(q)[i].entries = {Port(q)}
        BY DEF ServeJobs, Merge, Port
      <3> QED  BY <3>1, <3>2
    <2>2. CASE Dump(q)
      <3>1. todo'[q] = Tail(todo[q]) /\ todo[q] # <<>>
        BY <1>1, <2>2 DEF Dump, Shape, BaseInv, TodoFollowsPc
      <3>2. \A i \in 1..Len(Tail(todo[q])) :
                Tail(todo[q])[i] = todo[q][i + 1] /\ i + 1 \in 1..Len(todo[q])
        BY <1>1, <3>1, TailOfJobs
      <3> QED  BY <1>2, <3>1, <3>2 DEF ServesPort
    <2>3. CASE todo' = todo
      BY <1>2, <2>3 DEF ServesPort
    <2>4. CASE \/ CheckDirectory(q) \/ Load(q) \/ Open(q) \/ LookForDisk(q) \/ CreateDisk(q)
               \/ GuestEnds(q) \/ Stop(q)
      BY <2>3, <2>4 DEF CheckDirectory, Load, Open, LookForDisk, CreateDisk, GuestEnds, Stop
    <2>5. CASE MakeDirectories(q) \/ ReadManifest(q)
      BY <1>2, <2>5 DEF BaseInv, TodoFollowsPc, MakeDirectories, ReadManifest
    <2>6. CASE Boot(q)
      BY <2>3, <2>6, BootEffect
    <2> QED  BY <2>1, <2>2, <2>4, <2>5, <2>6
  <1>3. \A r \in Process \ {q} : command[r] = "serve" =>
            \A i \in 1..Len(todo'[r]) : todo'[r][i].entries = {Port(r)}
    BY <1>1 DEF ServesPort
  <1> QED  BY <1>1, <1>2, <1>3 DEF ServesPort

\* A "new" that has entered stays so, dead or alive.
LEMMA EnteredStays ==
    ASSUME BaseInv, NEW q \in Process,
           \/ CheckDirectory(q) \/ MakeDirectories(q) \/ ReadManifest(q) \/ StartServe(q)
           \/ Load(q) \/ Open(q) \/ Dump(q)
           \/ LookForDisk(q) \/ CreateDisk(q) \/ Boot(q) \/ GuestEnds(q) \/ Stop(q)
    PROVE  SoleNew' => SoleNew
  <1>1. /\ UNCHANGED command /\ \A r \in Process \ {q} : todo'[r] = todo[r] /\ pc'[r] = pc[r]
        /\ Shape /\ todo[q] \in Seq(Job)
    BY OthersKept DEF BaseInv, Shape
  <1>2. ASSUME Entered(q) PROVE Entered(q)'
    <2>1. command[q] = "new" /\ command'[q] = "new" /\ (todo[q] # <<>> \/ pc[q] = "done")
      BY <1>1, <1>2 DEF Entered
    <2>2. CASE Dump(q)
      <3>1. todo'[q] = Tail(todo[q]) /\ todo[q] # <<>>
        BY <1>1, <2>2 DEF Dump, Shape, BaseInv, TodoFollowsPc
      <3>2. Len(todo[q]) = 1 => pc'[q] = "done"
        BY <1>1, <2>1, <2>2 DEF Dump, Goes, AfterJobs, Shape
      <3>3. Tail(todo[q]) = <<>> => Len(todo[q]) = 1
        BY <1>1, <3>1, TailOfJobs
      <3> QED  BY <2>1, <3>1, <3>2, <3>3 DEF Entered
    <2>3. CASE \/ CheckDirectory(q) \/ MakeDirectories(q) \/ ReadManifest(q) \/ StartServe(q)
      BY <2>1, <2>3 DEF BaseInv, TodoFollowsPc, CheckDirectory, MakeDirectories, ReadManifest,
                        StartServe
    <2>4. CASE \/ Load(q) \/ Open(q) \/ LookForDisk(q) \/ CreateDisk(q) \/ Boot(q)
      <3>1. todo' = todo /\ pc[q] # "done"
        BY <2>4, BootEffect DEF Load, Open, LookForDisk, CreateDisk
      <3> QED  BY <2>1, <3>1 DEF Entered
    <2>5. CASE GuestEnds(q) \/ Stop(q)
      <3>1. todo' = todo /\ (pc[q] = "done" => pc'[q] = "done")
        BY <1>1, <2>5 DEF GuestEnds, Stop, Goes, Shape
      <3> QED  BY <2>1, <3>1 DEF Entered
    <2> QED  BY <2>2, <2>3, <2>4, <2>5
  <1>3. \A r \in Process : Entered(r) => Entered(r)'
    BY <1>1, <1>2 DEF Entered
  <1> QED  BY <1>3, SoleIsOne

LEMMA StepPort ==
    BaseInv /\ OwnInv /\ RegistryInv /\ CompleteInv /\ PortInv /\ [Next]_vars => PortInv'
  <1> SUFFICES ASSUME BaseInv, OwnInv, RegistryInv, CompleteInv, PortInv, [Next]_vars
               PROVE  PortInv'
    OBVIOUS
  <1>1. CASE UNCHANGED vars
    BY <1>1 DEF vars, PortInv, ServesPort, SoleNew, Acting, PortKept, PortBehind, HasPort, InHand
  <1>2. CASE Next
    <2>1. PICK q \in Process :
              \/ CheckDirectory(q) \/ MakeDirectories(q) \/ ReadManifest(q) \/ StartServe(q)
              \/ Load(q) \/ Open(q) \/ Dump(q)
              \/ LookForDisk(q) \/ CreateDisk(q) \/ Boot(q) \/ GuestEnds(q) \/ Stop(q)
      BY <1>2 DEF Next
    <2>2. ServesPort'
      BY <2>1, StepServes DEF PortInv
    <2>3. SoleNew' => SoleNew
      BY <2>1, EnteredStays
    <2>4. ASSUME SoleNew, NEW p \in Process, NEW f \in GuestConfig, Acting(p)'
          PROVE  PortKept(p, f)'
      <3>1. CASE q # p
        BY <2>1, <2>4, <3>1, OthersPort
      <3>2. CASE q = p
        BY <2>1, <2>4, <3>2, OwnPort
      <3> QED  BY <3>1, <3>2
    <2> QED  BY <2>2, <2>3, <2>4 DEF PortInv
  <1> QED  BY <1>1, <1>2

LEMMA InitPort == Init => PortInv
  <1> SUFFICES ASSUME Init PROVE PortInv
    OBVIOUS
  <1>1. \A p \in Process : Len(todo[p]) = 0 /\ ~Acting(p)
    BY DEF Init, Acting
  <1>2. ServesPort
    <2> SUFFICES ASSUME NEW p \in Process
                 PROVE  \A i \in 1..Len(todo[p]) : todo[p][i].entries = {Port(p)}
      BY DEF ServesPort
    <2>1. Len(todo[p]) = 0
      BY <1>1
    <2>2. ~ \E i : i \in 1..Len(todo[p])
      BY <2>1
    <2> QED  BY <2>2
  <1> QED  BY <1>1, <1>2 DEF PortInv

\* However runs, dry runs and servers interleave, a guest that is configured
\* finds some host API port in each of its files that is whole, and its own
\* run's in one that nobody else wrote to.
THEOREM PortsSurvive == Spec => []PortSurvives
  <1>1. Spec => []PortInv
    <2>1. Spec => [](BaseInv /\ OwnInv /\ RegistryInv /\ CompleteInv)
      BY InitRegistry, StepRegistry, InitComplete, StepComplete, OwnInvariance,
         InstanceInvariance, PTL DEF Spec
    <2> QED  BY <2>1, InitPort, StepPort, PTL DEF Spec
  <1>2. BaseInv /\ OwnInv /\ PortInv => PortSurvives
    <2> SUFFICES ASSUME BaseInv, OwnInv, PortInv, SoleNew, NEW p \in Process,
                        NEW f \in GuestConfig, Configured(p), file[f].state = "whole"
                 PROVE  \E q \in Process : Port(q) \in file[f].has /\ (q = p \/ f \in disturbed[p])
      BY DEF PortSurvives, Port
    <2>1. Acting(p) /\ pc[p] # "dump" /\ PortBehind(p, f)
      BY ConfiguredIsDone
    <2>2. CASE f \in disturbed[p]
      BY <2>1, <2>2 DEF PortInv, PortKept, HasPort
    <2>3. CASE f \notin disturbed[p]
      <3>1. Progress(p, f)
        BY <2>1, <2>3 DEF OwnInv, OwnProgress
      <3> QED  BY <2>1, <3>1 DEF Progress, Held
    <2> QED  BY <2>2, <2>3
  <1> QED  BY <1>1, <1>2, OwnInvariance, InstanceInvariance, PTL
============================================================================
