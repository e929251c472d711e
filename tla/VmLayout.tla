------------------------------ MODULE VmLayout ------------------------------
(***************************************************************************)
(* How dstack.py lays out a CVM: "dstack new" turns its arguments into the *)
(* manifest, "dstack run" turns the manifest into the vm_config the guest  *)
(* is told about and into QEMU's memory, CPUs, NUMA nodes and PCI Express  *)
(* buses.  A GPU stands for the host NUMA node it sits on; text (QEMU's    *)
(* arguments, JSON, PCI slots) is left out.                                *)
(***************************************************************************)
EXTENDS Integers, Sequences, SequencesExt, FiniteSets

CONSTANTS
    VcpuCount,    \* values of --vcpus
    MemorySize,   \* values of --memory: <<number, unit>>
    DiskSize,     \* values of --disk
    HostGpus,     \* what lspci may show: sequences of the GPUs' NUMA nodes
    MaxSwitches   \* bound on the NVSwitches of a host

ASSUME VcpuAssumption == VcpuCount \subseteq (Nat \ {0})
ASSUME SizeAssumption == MemorySize \cup DiskSize \subseteq (Nat \ {0}) \X {"T", "G", "M", ""}
ASSUME HostAssumption == HostGpus \subseteq Seq(Int) /\ MaxSwitches \in Nat

VARIABLES
    args,         \* arguments of "new"
    host,         \* GPUs and NVSwitches of the host
    manifest,     \* vm-manifest.json
    machine       \* what QEMU is started with

vars == <<args, host, manifest, machine>>

Nothing == [made |-> FALSE]

(***************************************************************************)
(* dstack new                                                              *)
(***************************************************************************)
\* _convert_memory_to_mb
Megabytes(size) == CASE size[2] = "T" -> (size[1] * 1024) * 1024
                     [] size[2] = "G" -> size[1] * 1024
                     [] OTHER -> size[1]

\* resolve_gpus: listed ones come without bridges, "all" with the bridges.
Attached(gpu) == CASE gpu = "none" -> [gpus |-> <<>>, bridges |-> 0]
                   [] gpu = "first" -> [gpus |-> SubSeq(host.gpus, 1, 1), bridges |-> 0]
                   [] gpu = "all" -> host

\* setup_instance
New ==
    /\ manifest = Nothing
    /\ manifest' = [made |-> TRUE,
                    vcpu |-> args.vcpus,
                    memory |-> Megabytes(args.memory),
                    diskSize |-> Megabytes(args.disk) \div 1024,
                    attached |-> Attached(args.gpu),
                    hugepages |-> args.hugepages]
    /\ UNCHANGED <<args, host, machine>>

(***************************************************************************)
(* dstack run                                                              *)
(***************************************************************************)
\* Mutant: adds a whole multiple to what is one already.
RoundUp_Always(value, multiple) ==
    IF multiple <= 1 THEN value ELSE value + (multiple - (value % multiple))

\* round_up
RoundUp(value, multiple) ==
    IF multiple <= 1 \/ value % multiple = 0
    THEN value
    ELSE value + (multiple - (value % multiple))

\* Mutant: a GPU brings up a node unless the one before it sits there too.
Nodes_Consecutive(gpus) ==
    LET keys[n \in 0..Len(gpus)] ==
            IF n = 0 THEN <<>>
            ELSE IF n > 1 /\ gpus[n] = gpus[n - 1] THEN keys[n - 1]
            ELSE Append(keys[n - 1], gpus[n])
    IN IF gpus = <<>> THEN <<0>> ELSE keys[Len(gpus)]

\* The keys of numa_nodes in the order in which the GPUs bring them up (those
\* of the first n GPUs: keys[n]); node 0 if there is no GPU.
Nodes(gpus) ==
    LET keys[n \in 0..Len(gpus)] ==
            IF n = 0 THEN <<>>
            ELSE IF Contains(keys[n - 1], gpus[n]) THEN keys[n - 1]
            ELSE Append(keys[n - 1], gpus[n])
    IN IF gpus = <<>> THEN <<0>> ELSE keys[Len(gpus)]

\* numa_nodes[node]
GpusOn(gpus, node) == Cardinality({i \in DOMAIN gpus : gpus[i] = node})

FirstBus == 5

\* Mutant: forgets the bus of the expander bridge itself.
BusNumbers_NoSelf(gpus) ==
    LET nodes == Nodes(gpus)
        bus[i \in 1..Len(nodes)] ==
            IF i = 1 THEN FirstBus ELSE bus[i - 1] + GpusOn(gpus, nodes[i - 1])
    IN bus

\* bus_nr of each node's expander bridge: the buses behind it follow it.
BusNumbers(gpus) ==
    LET nodes == Nodes(gpus)
        bus[i \in 1..Len(nodes)] ==
            IF i = 1 THEN FirstBus ELSE bus[i - 1] + GpusOn(gpus, nodes[i - 1]) + 1
    IN bus

\* Mutant: the last CPU of a node is also the first one of the next.
NumaNodes_Overlap(gpus, vcpus, memory) ==
    LET nodes == Nodes(gpus)
        perNode == vcpus \div Len(nodes)
    IN [i \in 1..Len(nodes) |->
           [hostNode |-> nodes[i],
            cpus |-> ((i - 1) * perNode)..(i * perNode),
            memory |-> memory \div Len(nodes),
            bus |-> BusNumbers(gpus)[i]]]

\* One guest NUMA node per host node.
NumaNodes(gpus, vcpus, memory) ==
    LET nodes == Nodes(gpus)
        perNode == vcpus \div Len(nodes)
    IN [i \in 1..Len(nodes) |->
           [hostNode |-> nodes[i],
            cpus |-> ((i - 1) * perNode)..(i * perNode - 1),
            memory |-> memory \div Len(nodes),
            bus |-> BusNumbers(gpus)[i]]]

PcieRoot == <<"pcie.0", 0>>
PcieNode(node) == <<"pcie.node", node>>

\* Each GPU's root port sits on its node's bridge with hugepages, on pcie.0
\* without; an NVSwitch's on pcie.0, and only if there is a GPU.
RootPorts(m) ==
    [i \in DOMAIN m.attached.gpus |->
         IF m.hugepages THEN PcieNode(m.attached.gpus[i]) ELSE PcieRoot]
    \o IF m.attached.gpus = <<>> THEN <<>>
       ELSE [i \in 1..m.attached.bridges |-> PcieRoot]

\* Mutant: memory is rounded after it was divided among the nodes.
Qemu_NodesFirst(m) ==
    LET nodes == IF m.hugepages THEN Len(Nodes(m.attached.gpus)) ELSE 1
        vcpus == RoundUp(m.vcpu, nodes)
        memory == m.memory \div 1024
    IN [made |-> TRUE,
        toldVcpus |-> m.vcpu,
        toldMemory |-> m.memory,
        vcpus |-> vcpus,
        memory |-> RoundUp(memory, nodes),
        numa |-> IF m.hugepages THEN NumaNodes(m.attached.gpus, vcpus, memory) ELSE <<>>,
        ports |-> RootPorts(m)]

\* What run_instance makes of a manifest: the guest is told what the manifest
\* says; QEMU gets whole gigabytes, and with hugepages as many of them and of
\* the CPUs as can be divided among the nodes.
Qemu(m) ==
    LET nodes == IF m.hugepages THEN Len(Nodes(m.attached.gpus)) ELSE 1
        vcpus == RoundUp(m.vcpu, nodes)
        memory == RoundUp(m.memory \div 1024, nodes)
    IN [made |-> TRUE,
        toldVcpus |-> m.vcpu,
        toldMemory |-> m.memory,
        vcpus |-> vcpus,
        memory |-> memory,
        numa |-> IF m.hugepages THEN NumaNodes(m.attached.gpus, vcpus, memory) ELSE <<>>,
        ports |-> RootPorts(m)]

\* run_instance
Run ==
    /\ manifest # Nothing /\ machine = Nothing
    /\ machine' = Qemu(manifest)
    /\ UNCHANGED <<args, host, manifest>>

(***************************************************************************)
(* Specification                                                           *)
(***************************************************************************)
Init ==
    /\ args \in [vcpus : VcpuCount, memory : MemorySize, disk : DiskSize,
                 gpu : {"none", "first", "all"}, hugepages : BOOLEAN]
    /\ host \in [gpus : HostGpus, bridges : 0..MaxSwitches]
    /\ args.gpu = "first" => host.gpus # <<>>
    /\ manifest = Nothing
    /\ machine = Nothing

Next == New \/ Run

Spec == Init /\ [][Next]_vars

(***************************************************************************)
(* Properties                                                              *)
(***************************************************************************)
Started == machine # Nothing

\* The nodes' CPU ranges split 0..smp-1 without gap or overlap, so that QEMU
\* accepts them and every virtual CPU has its node.
CpusAreSplit ==
    Started /\ manifest.hugepages =>
        /\ UNION {machine.numa[i].cpus : i \in DOMAIN machine.numa} = 0..(machine.vcpus - 1)
        /\ \A i, j \in DOMAIN machine.numa :
               i # j => machine.numa[i].cpus \cap machine.numa[j].cpus = {}

\* The nodes' memory adds up to -m, as QEMU demands.
MemoryAddsUp ==
    LET total[n \in 0..Len(machine.numa)] ==
            IF n = 0 THEN 0 ELSE total[n - 1] + machine.numa[n].memory
    IN Started /\ manifest.hugepages => total[Len(machine.numa)] = machine.memory

\* How many root ports sit on a bus.
PortsOn(bus) == Cardinality({p \in DOMAIN machine.ports : machine.ports[p] = bus})

\* The buses behind an expander bridge: its own and one per root port.
BusesBehind(i) ==
    LET node == machine.numa[i] IN
    node.bus..(node.bus + PortsOn(PcieNode(node.hostNode)))

\* No bus number is used behind two bridges.  None is used behind a bridge and
\* behind pcie.0 either, whose root ports get the numbers from 1 on, exactly
\* as long as there are fewer of these than FirstBus: a fifth NVSwitch takes
\* the number of the first node's bridge.
BusesAreApart ==
    Started /\ manifest.hugepages =>
        /\ \A i, j \in DOMAIN machine.numa : i # j => BusesBehind(i) \cap BusesBehind(j) = {}
        /\ PortsOn(PcieRoot) < FirstBus
           <=> \A i \in DOMAIN machine.numa : 1..PortsOn(PcieRoot) \cap BusesBehind(i) = {}

\* A root port that is not on pcie.0 is on the bridge of exactly one node: the
\* nodes are collected in one pass over the GPUs, the ports are placed in a
\* second one, and QEMU accepts neither a bus that is not there nor one that
\* is there twice.
PortsHaveOneBus ==
    Started =>
        \A p \in DOMAIN machine.ports : machine.ports[p] # PcieRoot =>
            \E i \in DOMAIN machine.numa :
                \A j \in DOMAIN machine.numa :
                    machine.ports[p] = PcieNode(machine.numa[j].hostNode) <=> j = i

NodeCount == IF machine.numa = <<>> THEN 1 ELSE Len(machine.numa)

\* The machine gets the least number of CPUs, and the least number of whole
\* gigabytes, that is not below what the guest is told in vm_config and can
\* be divided among the nodes.  So the guest is told what it gets when the
\* memory is in whole gigabytes and both divide, and otherwise it misses less
\* than one CPU and one gigabyte per node, or hears of the part of a gigabyte
\* that is cut off.
RoundingIsLeast ==
    Started =>
        /\ machine.vcpus % NodeCount = 0 /\ machine.memory % NodeCount = 0
        /\ machine.vcpus - machine.toldVcpus \in 0..(NodeCount - 1)
        /\ machine.memory - machine.toldMemory \div 1024 \in 0..(NodeCount - 1)

(***************************************************************************)
(* What dstack.py's help says, "Memory size (e.g., 1G, 512M)": a size in    *)
(* megabytes is a size like another.                                       *)
(***************************************************************************)
SomeMemory == Started => machine.memory > 0
============================================================================
