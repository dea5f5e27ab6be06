------------------------- MODULE InfrastructureProofs -------------------------
(***************************************************************************)
(* The placement properties and those of the providers for every           *)
(* configuration: any number of machines, VMs and cores.  The first part   *)
(* proves what QEMU needs: names, disks, pins and the launch.  The second  *)
(* adds GCP and AWS, the addresses with all of them, the registry, that    *)
(* nothing but virtiofs fails, and the software that a VM gets.            *)
(***************************************************************************)
EXTENDS Infrastructure, SequenceTheorems, SetLemmas

PlacementTypeOK ==
    /\ config \in Configurations
    /\ tier \in Tiers
    /\ toGo \in [Tiers -> Nat]
    /\ node \in 1..(Len(config.cores) + 1)
    /\ left \in Nat
    /\ used \in [Hosts -> Nat]
    /\ perMachine \in [Hosts -> [Tiers -> Nat]]

\* Machine m has no room for some VM of the configuration.
Full(m) ==
    \E t \in Tiers : config.nodes[t] > 0 /\ Load(m) + config.vmCores[t] > config.cores[m]

PinInv ==
    /\ pc \in {"pin", "refused"} => config.cpu_pin
    /\ config.cpu_pin =>
          /\ \A m \in Hosts :
                /\ m = node => left + Load(m) = config.cores[m]
                /\ m > node => Load(m) = 0
                /\ m < node => Load(m) <= config.cores[m] /\ Full(m)
          /\ pc # "equal"
    /\ pc = "refused" => node > Len(config.cores)

PlacementInv ==
    /\ PlacementTypeOK
    /\ \A t \in Tiers : toGo[t] <= config.nodes[t]
    /\ PinInv
    /\ Balanced

-----------------------------------------------------------------------------
(* The invariant of the QEMU provider *)

\* How far the program has come: what it has not done when it is at one of these.
Unplaced == {"equal", "pin", "idle", "refused"}
Unnamed == Unplaced \cup {"placed"}
Unlisted == Unnamed \cup {"registry", "inventory"}
Unpinned == Unlisted \cup {"generate"}

\* Every VM is to be placed or on a machine; the first machine in use has a
\* cloud VM if there are any, as these are placed first.
Placed(t) == Sum([m \in Hosts |-> perMachine[m][t]], Hosts)

CountInv ==
    /\ \A t \in Tiers : Placed(t) + toGo[t] = config.nodes[t]
    /\ pc \notin {"pin", "equal", "refused"} => \A t \in Tiers : toGo[t] = 0
    /\ tier # "cloud" => toGo["cloud"] = 0
    /\ config.nodes["cloud"] > 0 =>
          \A m \in Hosts : InUse(m) =>
             IF config.cpu_pin THEN \E k \in 1..m : perMachine[k]["cloud"] > 0
             ELSE perMachine[1]["cloud"] > 0
    /\ config.cpu_pin => \A m \in Hosts : m > node => ~InUse(m)
    /\ \A m \in Hosts : ~InUse(m) => used[m] = 0

Used == {m \in Hosts : InUse(m)}
MachinesInv ==
    machines = IF pc \in Unplaced THEN <<>> ELSE InOrder(Used, {b \in Hosts \X Hosts : b[1] < b[2]})

\* The VMs of a machine but the controller, and those of the machines before
\* the i-th one.
Here(m) == [perMachine[m] EXCEPT !["cloud"] = Clouds(m).workers]
Start(i, t) == Sum([j \in DOMAIN machines |-> Here(machines[j])[t]], 1..(i - 1))

\* What SetIpNames makes of the VMs of the i-th machine.
NameList(i) ==
    LET here == Here(machines[i])
    IN (IF HasController(machines[i]) THEN <<Controller>> ELSE <<>>)
       \o Names("cloud", Start(i, "cloud"), here["cloud"])
       \o Names("edge", Start(i, "edge"), here["edge"])
       \o Names("endpoint", Start(i, "endpoint"), here["endpoint"])

Loop == at \in 1..(Len(machines) + 1)
HasNames(i) == pc \notin Unnamed \/ (pc = "placed" /\ i < at)
HasDisks(i) == pc \notin Unlisted \/ (pc = "inventory" /\ i < at)
HasPins(i) == pc \notin Unpinned \/ (pc = "generate" /\ i < at)

ListsInv ==
    /\ vms = [m \in Hosts |-> vms[m]] /\ bases = [m \in Hosts |-> bases[m]]
    /\ disks = [m \in Hosts |-> disks[m]] /\ pins = [m \in Hosts |-> pins[m]]
    /\ clouds = [m \in Hosts |-> clouds[m]]

StageInv ==
    Qemu =>
        /\ pc \notin {"apply", "install"}
        /\ pc \in Unplaced \cup {"registry"} => at = 1 /\ index = None
        /\ pc \in {"placed", "inventory", "generate"} => Loop
        /\ pc \in {"placed", "inventory"} => index = [t \in Tiers |-> Start(at, t)]

NamesOf(i) ==
    LET m == machines[i]
    IN /\ clouds[m] = Clouds(m)
       /\ DOMAIN vms[m] = DOMAIN NameList(i)
       /\ \A k \in DOMAIN vms[m] : /\ vms[m][k].role = NameList(i)[k].role
                                   /\ vms[m][k].name = NameList(i)[k].name
       /\ DOMAIN bases[m] = DOMAIN BaseImages(i)
       /\ \A k \in DOMAIN bases[m] : bases[m][k].name = BaseImages(i)[k]

NamesInv ==
    Qemu =>
        /\ \A i \in DOMAIN machines : HasNames(i) => NamesOf(i)
        /\ \A m \in Hosts : (\A i \in DOMAIN machines : HasNames(i) => machines[i] # m) => vms[m] = <<>>

\* The disks of the VMs counted on the i-th machine.
DiskList(i) ==
    LET m == machines[i]
    IN {[name |-> Controller.name, base |-> BaseFor(m, "cloud")] : k \in 1..Clouds(m).controller}
       \cup UNION {{[name |-> <<t, k>>, base |-> BaseFor(m, t)] :
                      k \in Start(i, t)..(Start(i, t) + Here(m)[t] - 1)} : t \in Tiers}

DisksInv ==
    Qemu =>
        /\ \A i \in DOMAIN machines : HasDisks(i) => disks[machines[i]] = DiskList(i)
        /\ \A m \in Hosts : (\A i \in DOMAIN machines : HasDisks(i) => machines[i] # m) => disks[m] = {}

PinsOf(s) ==
    [k \in DOMAIN s |->
        IF config.cpu_pin
        THEN StartCore(s, k)..(StartCore(s, k) + config.vmCores[TierOf(s[k])] - 1) ELSE {}]

PinsInv ==
    Qemu =>
        /\ \A i \in DOMAIN machines : HasPins(i) => pins[machines[i]] = PinsOf(vms[machines[i]])
        /\ \A m \in Hosts : (\A i \in DOMAIN machines : HasPins(i) => machines[i] # m) => pins[m] = <<>>

\* Every VM is running or about to be started.
LaunchInv ==
    /\ pc \in Unpinned \cup {"base"} => created = {}
    /\ pc = "launch" => commands \cup created = AllVms /\ commands \cap created = {}
    /\ pc \in {"install", "running"} => created = AllVms

IInv ==
    /\ PlacementInv /\ CountInv /\ MachinesInv /\ ListsInv /\ StageInv
    /\ NamesInv /\ DisksInv /\ PinsInv /\ LaunchInv

-----------------------------------------------------------------------------

\* The fields of a configuration have the types the assumption gives them.
LEMMA ConfigType ==
    ASSUME config \in Configurations
    PROVE  /\ config.cores \in Seq(Nat \ {0})
           /\ config.cores # <<>>
           /\ Len(config.cores) \in Nat \ {0}
           /\ Hosts = 1..Len(config.cores)
           /\ \A m \in Hosts : config.cores[m] \in Nat \ {0}
           /\ config.nodes \in [Tiers -> Nat]
           /\ config.vmCores \in [Tiers -> Nat]
           /\ config.cpu_pin \in BOOLEAN
           /\ \A t \in Tiers : config.nodes[t] > 0 => config.vmCores[t] > 0
<1>1. config \in Configuration
  BY PlacementAssumption
<1>2. config.cores \in Seq(Nat \ {0}) /\ config.cores # <<>>
  BY <1>1, PlacementAssumption DEF Configuration
<1>3. Hosts = 1..Len(config.cores) /\ Len(config.cores) \in Nat \ {0}
  BY <1>2 DEF Hosts
<1>4. \A m \in Hosts : config.cores[m] \in Nat \ {0}
  BY <1>2, <1>3
<1>5. QED
  BY <1>1, <1>2, <1>3, <1>4, PlacementAssumption DEF Configuration

\* The load of a machine is a number.
LEMMA LoadNat ==
    ASSUME PlacementTypeOK, NEW m \in Hosts
    PROVE  Load(m) \in Nat
<1>1. \A t \in Tiers : perMachine[m][t] \in Nat /\ config.vmCores[t] \in Nat
  BY ConfigType DEF PlacementTypeOK
<1>2. \A t \in Tiers : perMachine[m][t] * config.vmCores[t] \in Nat
  BY <1>1, ProductNat
<1>3. QED
  BY <1>2 DEF Load, Tiers

\* Placing a VM of the current tier on machine p adds its cores to the load of
\* p and leaves the other loads alone.
LEMMA PlaceOnLoad ==
    ASSUME PlacementTypeOK, NEW p \in Hosts, PlaceOn(p), UNCHANGED config
    PROVE  /\ perMachine' \in [Hosts -> [Tiers -> Nat]]
           /\ \A m \in Hosts :
                Load(m)' = IF m = p THEN Load(m) + config.vmCores[tier] ELSE Load(m)
<1>1. perMachine' \in [Hosts -> [Tiers -> Nat]]
  BY DEF PlaceOn, PlacementTypeOK
<1>2. \A t \in Tiers : config.vmCores[t] \in Nat
  BY ConfigType DEF PlacementTypeOK
<1>3. ASSUME NEW m \in Hosts, m # p
      PROVE  Load(m)' = Load(m)
  <2>1. perMachine'[m] = perMachine[m]
    BY <1>3 DEF PlaceOn, PlacementTypeOK
  <2>2. QED
    BY <2>1 DEF Load
<1>4. Load(p)' = Load(p) + config.vmCores[tier]
  <2>1. \A t \in Tiers :
          perMachine'[p][t] = IF t = tier THEN perMachine[p][t] + 1 ELSE perMachine[p][t]
    BY DEF PlaceOn, PlacementTypeOK
  <2>2. \A t \in Tiers : perMachine[p][t] \in Nat
    BY DEF PlacementTypeOK
  <2>3. \A t \in Tiers :
          perMachine'[p][t] * config.vmCores[t] =
            IF t = tier THEN perMachine[p][t] * config.vmCores[t] + config.vmCores[t]
            ELSE perMachine[p][t] * config.vmCores[t]
    BY <1>2, <2>1, <2>2, OneMore
  <2>4. \A t \in Tiers : perMachine[p][t] * config.vmCores[t] \in Nat
    BY <1>2, <2>2, ProductNat
  <2>5. tier \in {"cloud", "edge", "endpoint"}
    BY DEF PlacementTypeOK, Tiers
  <2>6. QED
    BY <1>2, <2>3, <2>4, <2>5 DEF Load, Tiers
<1>5. QED
  BY <1>1, <1>3, <1>4

\* Balanced holds after a VM goes to the machine that is used least.
LEMMA PlaceEqualBalanced ==
    ASSUME PlacementInv, PlaceEqual
    PROVE  Balanced'
<1>1. PICK p \in Hosts : LeastUsed(p) /\ used' = [used EXCEPT ![p] = @ + config.vmCores[tier]]
  BY DEF PlaceEqual
<1>2. config' = config /\ Hosts' = Hosts
  BY DEF PlaceEqual, Hosts
<1>3. /\ \A t \in Tiers : config.vmCores[t] \in Nat
      /\ \A m \in Hosts : config.cores[m] \in Nat /\ used[m] \in Nat
      /\ tier \in Tiers
  BY ConfigType DEF PlacementInv, PlacementTypeOK
<1>4. /\ used'[p] = used[p] + config.vmCores[tier]
      /\ \A m \in Hosts : m # p => used'[m] = used[m]
  BY <1>1 DEF PlacementInv, PlacementTypeOK
<1>5. ASSUME NEW m \in Hosts, NEW k \in Hosts
      PROVE  \E t \in Tiers :
               (used'[m] - config.vmCores[t]) * config.cores[k] <= used'[k] * config.cores[m]
  <2>1. used[k] <= used'[k] /\ used'[k] \in Nat
    BY <1>3, <1>4
  <2>2. used[k] * config.cores[m] <= used'[k] * config.cores[m]
    BY <1>3, <2>1, ProductMonotone
  <2>3. used[k] * config.cores[m] \in Nat /\ used'[k] * config.cores[m] \in Nat
    BY <1>3, <2>1, ProductNat
  <2>4. CASE m = p
    <3>1. used'[m] - config.vmCores[tier] = used[m]
      BY <1>3, <1>4, <2>4
    <3>2. used[m] * config.cores[k] <= used[k] * config.cores[m]
      BY <1>1, <2>4 DEF LeastUsed
    <3>3. used[m] * config.cores[k] \in Nat
      BY <1>3, ProductNat
    <3>4. used[m] * config.cores[k] <= used'[k] * config.cores[m]
      BY <2>2, <2>3, <3>2, <3>3
    <3>5. QED
      BY <1>3, <3>1, <3>4
  <2>5. CASE m # p
    <3>1. used'[m] = used[m]
      BY <1>4, <2>5
    <3>2. PICK t \in Tiers :
            (used[m] - config.vmCores[t]) * config.cores[k] <= used[k] * config.cores[m]
      BY DEF PlacementInv, Balanced
    <3>3. used[m] - config.vmCores[t] \in Int
      BY <1>3
    <3>4. (used[m] - config.vmCores[t]) * config.cores[k] \in Int
      BY <1>3, <3>3
    <3>5. (used[m] - config.vmCores[t]) * config.cores[k] <= used'[k] * config.cores[m]
      BY <2>2, <2>3, <3>2, <3>4
    <3>6. QED
      BY <3>1, <3>5
  <2>6. QED
    BY <2>4, <2>5
<1>6. QED
  BY <1>2, <1>5 DEF Balanced

-----------------------------------------------------------------------------

\* The invariant holds at the start.
LEMMA PlacementInit == Init => PlacementInv
<1> SUFFICES ASSUME Init PROVE PlacementInv
  OBVIOUS
<1>1. config \in Configurations
  BY DEF Init
<1>2. /\ Len(config.cores) \in Nat \ {0}
      /\ Hosts = 1..Len(config.cores)
      /\ \A m \in Hosts : config.cores[m] \in Nat \ {0}
      /\ config.nodes \in [Tiers -> Nat]
      /\ config.vmCores \in [Tiers -> Nat]
      /\ config.cpu_pin \in BOOLEAN
  BY <1>1, ConfigType
<1>3. PlacementTypeOK
  BY <1>1, <1>2 DEF Init, PlacementTypeOK, None, Tiers
<1>4. \A t \in Tiers : toGo[t] <= config.nodes[t]
  BY <1>2 DEF Init
<1>5. \A m \in Hosts : Load(m) = 0
  BY <1>2 DEF Init, Load, None, Tiers
<1>6. PinInv
  BY <1>2, <1>5 DEF Init, PinInv
<1>7. Balanced
  <2>1. ASSUME NEW m \in Hosts, NEW k \in Hosts
        PROVE  (used[m] - config.vmCores["cloud"]) * config.cores[k] <= used[k] * config.cores[m]
    <3>1. used[m] = 0 /\ used[k] = 0
      BY DEF Init
    <3>2. config.vmCores["cloud"] \in Nat /\ config.cores[k] \in Nat /\ config.cores[m] \in Nat
      BY <1>2 DEF Tiers
    <3>3. (0 - config.vmCores["cloud"]) * config.cores[k] <= 0 * config.cores[k]
      BY <3>2, ProductMonotone
    <3>4. QED
      BY <3>1, <3>2, <3>3
  <2>2. QED
    BY <2>1 DEF Balanced, Tiers
<1>8. QED
  BY <1>3, <1>4, <1>6, <1>7 DEF PlacementInv

\* What turning to the next machine leaves in node and left.
LEMMA Advance ==
    ASSUME PlacementTypeOK, node <= Len(config.cores), UNCHANGED config,
           NEW cores \in Nat, AdvanceNode(cores)
    PROVE  /\ node' = node + 1
           /\ node' \in 1..(Len(config.cores) + 1)
           /\ left' \in Nat
           /\ node' <= Len(config.cores) => left' = config.cores[node']
<1>1. /\ Len(config.cores) \in Nat \ {0}
      /\ Hosts = 1..Len(config.cores)
      /\ \A m \in Hosts : config.cores[m] \in Nat \ {0}
  BY ConfigType DEF PlacementTypeOK
<1>2. node \in 1..(Len(config.cores) + 1)
  BY DEF PlacementTypeOK
<1>3. QED
  BY <1>1, <1>2 DEF AdvanceNode

\* A step that neither places a VM nor turns to another machine keeps the
\* invariant.
LEMMA PlacementFrame ==
    ASSUME PlacementInv, PlacementTypeOK',
           UNCHANGED <<config, toGo, node, left, used, perMachine>>,
           pc' \in {"pin", "refused"} => config.cpu_pin,
           pc' = "equal" => pc = "equal",
           pc' = "refused" => node > Len(config.cores)
    PROVE  PlacementInv'
<1>1. \A m \in Hosts : Load(m)' = Load(m) /\ (Full(m)' <=> Full(m))
  BY DEF Load, Full
<1>2. Hosts' = Hosts
  BY DEF Hosts
<1>3. PinInv'
  BY <1>1, <1>2 DEF PinInv, PlacementInv
<1>4. Balanced'
  BY <1>2 DEF Balanced, PlacementInv
<1>5. QED
  BY <1>3, <1>4 DEF PlacementInv

\* Leaving a machine that cannot take the next VM keeps the invariant: the
\* machine is full for a VM of that tier.
LEMMA LeaveNodeInv ==
    ASSUME PlacementInv, LeaveNode
    PROVE  PlacementInv'
<1>1. PlacementTypeOK /\ config' = config /\ Hosts' = Hosts
  BY DEF PlacementInv, LeaveNode, Hosts
<1>2. /\ Hosts = 1..Len(config.cores)
      /\ Len(config.cores) \in Nat
      /\ \A m \in Hosts : config.cores[m] \in Nat
      /\ \A t \in Tiers : config.vmCores[t] \in Nat /\ config.nodes[t] \in Nat
      /\ left \in Nat /\ node \in 1..(Len(config.cores) + 1) /\ tier \in Tiers
      /\ toGo \in [Tiers -> Nat]
  BY <1>1, ConfigType DEF PlacementTypeOK
<1>3. /\ node' = node + 1
      /\ node' \in 1..(Len(config.cores) + 1)
      /\ left' \in Nat
      /\ node' <= Len(config.cores) => left' = config.cores[node']
  BY <1>1, <1>2, Advance DEF LeaveNode
<1>4. PlacementTypeOK'
  BY <1>1, <1>3 DEF PlacementTypeOK, LeaveNode
<1>5. \A m \in Hosts : Load(m) \in Nat /\ Load(m)' = Load(m) /\ (Full(m)' <=> Full(m))
  BY <1>1, LoadNat DEF Load, Full, LeaveNode
<1>6. config.cpu_pin /\ pc' = "pin"
  BY DEF PlacementInv, PinInv, LeaveNode
<1>7. Full(node) /\ Load(node) <= config.cores[node] /\ node \in Hosts
  <2>1. node \in Hosts
    BY <1>2 DEF LeaveNode
  <2>2. left + Load(node) = config.cores[node]
    BY <1>6, <2>1 DEF PlacementInv, PinInv
  <2>3. config.vmCores[tier] > left /\ config.nodes[tier] > 0
    BY <1>2 DEF LeaveNode, Fits, PlacementInv
  <2>4. Load(node) + config.vmCores[tier] > config.cores[node] /\ Load(node) <= config.cores[node]
    BY <1>2, <1>5, <2>1, <2>2, <2>3
  <2>5. QED
    BY <1>2, <2>1, <2>3, <2>4 DEF Full
<1>8. ASSUME NEW m \in Hosts
      PROVE  /\ m = node' => left' + Load(m)' = config.cores[m]
             /\ m > node' => Load(m)' = 0
             /\ m < node' => Load(m)' <= config.cores[m] /\ Full(m)'
  <2>1. /\ m > node => Load(m) = 0
        /\ m < node => Load(m) <= config.cores[m] /\ Full(m)
    BY <1>6 DEF PlacementInv, PinInv
  <2>2. CASE m = node'
    BY <1>2, <1>3, <1>5, <2>1, <2>2
  <2>3. CASE m > node'
    BY <1>2, <1>3, <1>5, <2>1, <2>3
  <2>4. CASE m < node'
    <3>1. m < node \/ m = node
      BY <1>2, <1>3, <2>4
    <3>2. QED
      BY <1>2, <1>3, <1>5, <1>7, <2>1, <2>4, <3>1
  <2>5. QED
    BY <1>2, <1>3, <2>2, <2>3, <2>4
<1>9. PinInv'
  BY <1>1, <1>6, <1>8 DEF PinInv
<1>10. Balanced'
  BY <1>1 DEF Balanced, PlacementInv, LeaveNode
<1>11. QED
  BY <1>1, <1>4, <1>9, <1>10 DEF PlacementInv, LeaveNode

\* Placing a VM on the machine being filled keeps the invariant: what the
\* count of free cores loses, the load of the machine gains.
LEMMA PlacePinInv ==
    ASSUME PlacementInv, PlacePin
    PROVE  PlacementInv'
<1> DEFINE rest == left - config.vmCores[tier]
<1>1. PlacementTypeOK /\ config' = config /\ Hosts' = Hosts /\ PlaceOn(node)
  BY DEF PlacementInv, PlacePin, Hosts
<1>2. /\ Hosts = 1..Len(config.cores)
      /\ Len(config.cores) \in Nat
      /\ \A m \in Hosts : config.cores[m] \in Nat
      /\ \A t \in Tiers : config.vmCores[t] \in Nat /\ config.nodes[t] \in Nat
      /\ \A t \in Tiers : config.nodes[t] > 0 => config.vmCores[t] > 0
      /\ left \in Nat /\ node \in 1..(Len(config.cores) + 1) /\ tier \in Tiers
      /\ toGo \in [Tiers -> Nat]
  BY <1>1, ConfigType DEF PlacementTypeOK
<1>3. node \in Hosts /\ config.cpu_pin /\ pc = "pin" /\ pc' = "pin"
  BY <1>2 DEF PlacementInv, PinInv, PlacePin
<1>4. rest \in Nat
  BY <1>2 DEF PlacePin, Fits
<1>5. /\ perMachine' \in [Hosts -> [Tiers -> Nat]]
      /\ \A m \in Hosts :
           Load(m)' = IF m = node THEN Load(m) + config.vmCores[tier] ELSE Load(m)
  BY <1>1, <1>3, PlaceOnLoad
<1>6. /\ toGo' \in [Tiers -> Nat]
      /\ \A t \in Tiers : toGo'[t] <= config.nodes[t]
  BY <1>1, <1>2 DEF PlaceOn, PlacePin, PlacementInv
<1>7. tier' \in Tiers
  BY <1>2 DEF PlacePin, NextTier, Tiers
<1>8. \A m \in Hosts : Load(m) \in Nat
  BY <1>1, LoadNat
<1>h. PICK h \in Hosts : h = node
  BY <1>3
<1>9. rest + Load(h)' = config.cores[h]
  <2>1. left + Load(node) = config.cores[node]
    BY <1>3 DEF PlacementInv, PinInv
  <2>2. QED
    BY <1>2, <1>h, <1>4, <1>5, <1>8, <2>1
<1>10. \A m \in Hosts : m # node => (Full(m)' <=> Full(m))
  BY <1>1, <1>5 DEF Full
<1>11. \A m \in Hosts :
         /\ m > node => Load(m)' = 0
         /\ m < node => Load(m)' <= config.cores[m] /\ Full(m)'
  BY <1>2, <1>3, <1>5, <1>10 DEF PlacementInv, PinInv
<1>12. Balanced'
  BY <1>1 DEF Balanced, PlacementInv, PlacePin
<1>13. CASE rest = 0 /\ AdvanceNode(rest)
  <2>1. /\ node' = node + 1
        /\ node' \in 1..(Len(config.cores) + 1)
        /\ left' \in Nat
        /\ node' <= Len(config.cores) => left' = config.cores[node']
    BY <1>1, <1>2, <1>4, <1>13, Advance DEF PlacePin
  <2>2. PlacementTypeOK'
    BY <1>1, <1>3, <1>5, <1>6, <1>7, <2>1 DEF PlacementTypeOK, PlacePin
  <2>3. Load(h)' = config.cores[h]
    <3>1. Load(h)' \in Nat
      BY <1>2, <1>5, <1>8
    <3>2. QED
      BY <1>9, <1>13, <3>1
  <2>4. Full(h)'
    <3>1. config.nodes[tier] > 0
      BY <1>2 DEF PlacePin, PlacementInv
    <3>2. Load(h)' + config.vmCores[tier] > config.cores[h]
      BY <1>2, <2>3, <3>1
    <3>3. QED
      BY <1>1, <1>2, <3>1, <3>2 DEF Full
  <2>5. ASSUME NEW m \in Hosts
        PROVE  /\ m = node' => left' + Load(m)' = config.cores[m]
               /\ m > node' => Load(m)' = 0
               /\ m < node' => Load(m)' <= config.cores[m] /\ Full(m)'
    <3>1. m < node \/ m = node \/ m > node
      BY <1>2
    <3>2. CASE m < node
      BY <1>2, <1>11, <2>1, <3>2
    <3>3. CASE m = node
      BY <1>2, <1>h, <2>1, <2>3, <2>4, <3>3
    <3>4. CASE m > node
      BY <1>2, <1>11, <2>1, <3>4
    <3>5. QED
      BY <3>1, <3>2, <3>3, <3>4
  <2>6. PinInv'
    BY <1>1, <1>3, <2>5 DEF PinInv
  <2>7. QED
    BY <1>1, <1>6, <1>12, <2>2, <2>6 DEF PlacementInv
<1>14. CASE left' = rest /\ node' = node
  <2>1. PlacementTypeOK'
    BY <1>1, <1>3, <1>4, <1>5, <1>6, <1>7, <1>14 DEF PlacementTypeOK, PlacePin
  <2>2. PinInv'
    BY <1>1, <1>2, <1>3, <1>h, <1>9, <1>11, <1>14 DEF PinInv
  <2>3. QED
    BY <1>1, <1>6, <1>12, <2>1, <2>2 DEF PlacementInv
<1>15. QED
  BY <1>13, <1>14 DEF PlacePin

\* Placing a VM by utilisation keeps the invariant.
LEMMA PlaceEqualInv ==
    ASSUME PlacementInv, PlaceEqual
    PROVE  PlacementInv'
<1>1. PICK p \in Hosts : /\ PlaceOn(p)
                         /\ used' = [used EXCEPT ![p] = @ + config.vmCores[tier]]
  BY DEF PlaceEqual
<1>2. PlacementTypeOK /\ config' = config /\ Hosts' = Hosts
  BY DEF PlacementInv, PlaceEqual, Hosts
<1>3. /\ \A t \in Tiers : config.vmCores[t] \in Nat /\ config.nodes[t] \in Nat
      /\ tier \in Tiers /\ toGo \in [Tiers -> Nat] /\ used \in [Hosts -> Nat]
  BY <1>2, ConfigType DEF PlacementTypeOK
<1>4. perMachine' \in [Hosts -> [Tiers -> Nat]]
  BY <1>1, <1>2, PlaceOnLoad
<1>5. /\ toGo' \in [Tiers -> Nat]
      /\ \A t \in Tiers : toGo'[t] <= config.nodes[t]
  BY <1>1, <1>3 DEF PlaceOn, PlaceEqual, PlacementInv
<1>6. used' \in [Hosts -> Nat]
  BY <1>1, <1>3
<1>7. PlacementTypeOK'
  BY <1>2, <1>4, <1>5, <1>6 DEF PlacementTypeOK, PlaceEqual
<1>8. PinInv'
  BY <1>2 DEF PinInv, PlacementInv, PlaceEqual
<1>9. QED
  BY <1>2, <1>5, <1>7, <1>8, PlaceEqualBalanced DEF PlacementInv

\* Every step keeps the invariant.
LEMMA PlacementStep == PlacementInv /\ [Next]_vars => PlacementInv'
<1> SUFFICES ASSUME PlacementInv, [Next]_vars PROVE PlacementInv'
  OBVIOUS
<1>1. CASE SkipTier
  <2>1. PlacementTypeOK'
    BY <1>1 DEF SkipTier, NextTier, Tiers, PlacementInv, PlacementTypeOK, Hosts
  <2>2. QED
    BY <1>1, <2>1, PlacementFrame DEF SkipTier, PlacementInv, PinInv
<1>2. CASE PlaceEqual
  BY <1>2, PlaceEqualInv
<1>3. CASE PlacePin
  BY <1>3, PlacePinInv
<1>4. CASE LeaveNode
  BY <1>4, LeaveNodeInv
<1>5. CASE Refuse
  <2>1. PlacementTypeOK'
    BY <1>5 DEF Refuse, PlacementInv, PlacementTypeOK, Hosts
  <2>2. QED
    BY <1>5, <2>1, PlacementFrame DEF Refuse, PlacementInv, PinInv
<1>6. CASE ScheduleDone
  <2>1. PlacementTypeOK'
    BY <1>6 DEF ScheduleDone, PlacementInv, PlacementTypeOK, Hosts
  <2>2. QED
    BY <1>6, <2>1, PlacementFrame DEF ScheduleDone
<1>7. CASE RemoveIdle
  <2>1. PlacementTypeOK'
    BY <1>7 DEF RemoveIdle, PlacementInv, PlacementTypeOK, Hosts
  <2>2. QED
    BY <1>7, <2>1, PlacementFrame DEF RemoveIdle
<1>8. CASE UNCHANGED vars
  <2>1. PlacementTypeOK'
    BY <1>8 DEF vars, PlacementInv, PlacementTypeOK, Hosts
  <2>2. QED
    BY <1>8, <2>1, PlacementFrame DEF vars, PlacementInv, PinInv
<1>9. QED
  BY <1>1, <1>2, <1>3, <1>4, <1>5, <1>6, <1>7, <1>8 DEF Next

-----------------------------------------------------------------------------
(* The steps of the program *)

\* A step places, or it comes after the placement and leaves it as it is.
LEMMA Steps ==
    ASSUME [InfrastructureNext]_everything
    PROVE  \/ UNCHANGED everything
           \/ Place
           \/ UNCHANGED placement /\ pc \notin Unplaced /\ pc' \notin Unplaced
<1> USE DEF Unplaced, vars, placement
<1>1. CASE SetIpNames
  BY <1>1 DEF SetIpNames
<1>2. CASE CreateInventory
  BY <1>2 DEF CreateInventory
<1>3. CASE Generate
  BY <1>3 DEF Generate
<1>4. CASE NextStage
  BY <1>4 DEF NextStage
<1>5. CASE DockerRegistry
  BY <1>5 DEF DockerRegistry
<1>6. CASE BaseImage
  BY <1>6 DEF BaseImage
<1>7. CASE LaunchVms
  BY <1>7 DEF LaunchVms
<1>8. CASE LaunchFails
  BY <1>8 DEF LaunchFails
<1>9. CASE SetNames
  BY <1>9 DEF SetNames
<1>10. CASE Apply
  BY <1>10 DEF Apply
<1>11. CASE BaseInstall
  BY <1>11 DEF BaseInstall
<1>12. CASE NetworkStart
  BY <1>12 DEF NetworkStart
<1>13. CASE NetworkBenchmark
  BY <1>13 DEF NetworkBenchmark
<1> QED BY <1>1, <1>2, <1>3, <1>4, <1>5, <1>6, <1>7, <1>8, <1>9, <1>10, <1>11, <1>12, <1>13
        DEF InfrastructureNext, ProvisionNext, TerraformNext

\* What comes after the placement keeps its invariant.
LEMMA PlacementKept == PlacementInv /\ [InfrastructureNext]_everything => PlacementInv'
<1> SUFFICES ASSUME PlacementInv, [InfrastructureNext]_everything PROVE PlacementInv'
  OBVIOUS
<1>1. CASE UNCHANGED everything
  BY <1>1, PlacementStep DEF everything, allVars
<1>2. CASE Place
  BY <1>2, PlacementStep DEF Place
<1>3. CASE UNCHANGED placement /\ pc' \notin Unplaced
  <2>1. PlacementTypeOK'
    BY <1>3 DEF placement, PlacementInv, PlacementTypeOK, Hosts
  <2> QED BY <1>3, <2>1, PlacementFrame DEF placement, Unplaced
<1> QED BY <1>1, <1>2, <1>3, Steps

-----------------------------------------------------------------------------
(* The numbers of VMs *)

\* The machines are finitely many and none is in use twice.
LEMMA HostsFinite ==
    ASSUME PlacementTypeOK
    PROVE  /\ IsFiniteSet(Hosts) /\ 1 \in Hosts /\ Hosts \subseteq Nat
           /\ \A m \in Hosts : 1..m \subseteq Hosts
           /\ \A m \in Hosts, t \in Tiers : perMachine[m][t] \in Nat
           /\ \A t \in Tiers : config.nodes[t] \in Nat /\ toGo[t] \in Nat
<1>1. /\ Len(config.cores) \in Nat \ {0} /\ Hosts = 1..Len(config.cores)
      /\ config.nodes \in [Tiers -> Nat]
  BY ConfigType DEF PlacementTypeOK
<1>2. IsFiniteSet(1..Len(config.cores))
  BY <1>1, FS_Interval
<1>3. 1 \in Hosts /\ Hosts \subseteq Nat /\ \A m \in Hosts : 1..m \subseteq Hosts
  BY <1>1
<1>4. /\ \A m \in Hosts, t \in Tiers : perMachine[m][t] \in Nat
      /\ \A t \in Tiers : config.nodes[t] \in Nat /\ toGo[t] \in Nat
  BY <1>1 DEF PlacementTypeOK
<1> QED BY <1>1, <1>2, <1>3, <1>4

\* A machine is in use if it has a VM of some tier.
LEMMA InUseMeans ==
    ASSUME PlacementTypeOK, NEW m \in Hosts
    PROVE  InUse(m) <=> \E t \in Tiers : perMachine[m][t] > 0
<1>1. \A t \in Tiers : perMachine[m][t] \in Nat
  BY DEF PlacementTypeOK
<1> QED BY <1>1 DEF InUse, Total, Tiers

\* A VM that is placed is one more on its machine and one less to place.
LEMMA PlaceOnCounts ==
    ASSUME PlacementTypeOK, NEW p \in Hosts, PlaceOn(p), UNCHANGED config, tier \in Tiers
    PROVE  /\ Hosts' = Hosts
           /\ \A m \in Hosts, t \in Tiers :
                perMachine'[m][t] = IF m = p /\ t = tier THEN perMachine[m][t] + 1 ELSE perMachine[m][t]
           /\ \A m \in Hosts : InUse(m)' <=> (m = p \/ InUse(m))
           /\ \A t \in Tiers : Placed(t)' = IF t = tier THEN Placed(t) + 1 ELSE Placed(t)
<1>1. Hosts' = Hosts
  BY DEF Hosts
<1>2. /\ perMachine \in [Hosts -> [Tiers -> Nat]] /\ perMachine' \in [Hosts -> [Tiers -> Nat]]
      /\ \A m \in Hosts, t \in Tiers :
           perMachine'[m][t] = IF m = p /\ t = tier THEN perMachine[m][t] + 1 ELSE perMachine[m][t]
  BY DEF PlaceOn, PlacementTypeOK
<1>3. ASSUME NEW m \in Hosts PROVE InUse(m)' <=> (m = p \/ InUse(m))
  <2>1. \A t \in Tiers : perMachine[m][t] \in Nat /\ perMachine'[m][t] \in Nat
    BY <1>2
  <2> QED BY <1>2, <2>1 DEF InUse, Total, Tiers
<1>4. ASSUME NEW t \in Tiers PROVE Placed(t)' = IF t = tier THEN Placed(t) + 1 ELSE Placed(t)
  <2> DEFINE F == [m \in Hosts |-> perMachine[m][t]]
             G == [m \in Hosts |-> perMachine'[m][t]]
             R == Hosts \ {p}
  <2>1. F \in [Hosts -> Nat] /\ G \in [Hosts -> Nat] /\ R \in SUBSET Hosts /\ p \in Hosts \ R /\ R \cup {p} = Hosts
    BY <1>2
  <2>2. G[p] = (IF t = tier THEN F[p] + 1 ELSE F[p]) /\ \A m \in R : F[m] = G[m]
    BY <1>2
  <2>3. Placed(t) = Sum(F, Hosts) /\ Placed(t)' = Sum(G, Hosts)
    BY <1>1 DEF Placed
  <2>4. IsFiniteSet(Hosts)
    BY HostsFinite
  <2> HIDE DEF F, G, R
  <2>5. Sum(F, R \cup {p}) = Sum(F, R) + F[p] /\ Sum(G, R \cup {p}) = Sum(G, R) + G[p]
    BY <2>1, <2>4, SumOverSet
  <2>6. Sum(F, R) = Sum(G, R)
    BY <2>1, <2>2, <2>4, SumSame
  <2>7. F[p] \in Nat /\ G[p] \in Nat /\ Sum(F, R) \in Nat
    BY <2>1, <2>4, SumOverSet
  <2>8. Sum(F, Hosts) = Sum(F, R) + F[p] /\ Sum(G, Hosts) = Sum(F, R) + G[p]
    BY <2>1, <2>5, <2>6
  <2>9. Sum(G, Hosts) = IF t = tier THEN Sum(F, Hosts) + 1 ELSE Sum(F, Hosts)
    BY <2>2, <2>7, <2>8
  <2> QED BY <2>3, <2>9
<1> QED BY <1>1, <1>2, <1>3, <1>4

\* The number of VMs of a tier that are placed is a number, and if it is not
\* zero one of them is on some machine.
LEMMA PlacedType ==
    ASSUME PlacementTypeOK, NEW t \in Tiers
    PROVE  Placed(t) \in Nat /\ (Placed(t) > 0 => \E m \in Hosts : perMachine[m][t] > 0)
<1> DEFINE F == [m \in Hosts |-> perMachine[m][t]]
<1>1. F \in [Hosts -> Nat] /\ IsFiniteSet(Hosts) /\ \A m \in Hosts : F[m] = perMachine[m][t]
  BY HostsFinite
<1>2. Placed(t) = Sum(F, Hosts)
  BY DEF Placed
<1> HIDE DEF F
<1>3. Sum(F, Hosts) \in Nat
  BY <1>1, SumOverSet
<1>4. (\A m \in Hosts : F[m] = 0) => Sum(F, Hosts) = 0
  BY <1>1, SumPositive
<1>5. \A m \in Hosts : F[m] \in Nat
  BY <1>1
<1> QED BY <1>1, <1>2, <1>3, <1>4, <1>5

\* At first all VMs are still to be placed.
LEMMA CountInit == Init => CountInv
<1> SUFFICES ASSUME Init PROVE CountInv
  OBVIOUS
<1>1. PlacementInv /\ PlacementTypeOK /\ config \in Configurations
  BY PlacementInit DEF PlacementInv, PlacementTypeOK
<1>2. \A m \in Hosts : \A t \in Tiers : perMachine[m][t] = 0
  BY DEF Init, None
<1>3. ASSUME NEW t \in Tiers PROVE Placed(t) = 0
  BY <1>1, <1>2, <1>3, PlacedType
<1>4. \A m \in Hosts : ~InUse(m)
  BY <1>1, <1>2, InUseMeans
<1>5. \A t \in Tiers : config.nodes[t] \in Nat
  BY <1>1, HostsFinite
<1> QED BY <1>3, <1>4, <1>5 DEF Init, CountInv

\* If no VM is placed the program is at the clouds, if there are any.
LEMMA CloudsFirst ==
    ASSUME PlacementTypeOK, CountInv, config.nodes["cloud"] > 0, tier # "cloud"
    PROVE  \E k \in Hosts : perMachine[k]["cloud"] > 0 /\ InUse(k)
<1>1. "cloud" \in Tiers /\ toGo["cloud"] = 0 /\ Placed("cloud") + toGo["cloud"] = config.nodes["cloud"]
  BY DEF CountInv, Tiers
<1>2. Placed("cloud") \in Nat /\ config.nodes["cloud"] \in Nat
  BY <1>1, PlacedType, HostsFinite
<1>3. Placed("cloud") > 0
  BY <1>1, <1>2
<1>4. PICK k \in Hosts : perMachine[k]["cloud"] > 0
  BY <1>1, <1>3, PlacedType
<1>5. InUse(k)
  BY <1>1, <1>4, InUseMeans
<1> QED BY <1>4, <1>5

\* Placing a VM by utilisation: the first one goes to the first machine.
LEMMA PlaceEqualCounts == PlacementInv /\ CountInv /\ PlaceEqual => CountInv'
<1> SUFFICES ASSUME PlacementInv, CountInv, PlaceEqual PROVE CountInv'
  OBVIOUS
<1>1. PICK p \in Hosts : LeastUsed(p) /\ PlaceOn(p) /\ used' = [used EXCEPT ![p] = @ + config.vmCores[tier]]
  BY DEF PlaceEqual
<1>2. /\ PlacementTypeOK /\ config' = config /\ tier' = tier /\ tier \in Tiers /\ toGo[tier] > 0
      /\ ~config.cpu_pin /\ pc = "equal" /\ pc' = "equal" /\ node' = node
  BY DEF PlacementInv, PlaceEqual, PlacementTypeOK, PinInv
<1>3. /\ Hosts' = Hosts
      /\ \A m \in Hosts, t \in Tiers :
           perMachine'[m][t] = IF m = p /\ t = tier THEN perMachine[m][t] + 1 ELSE perMachine[m][t]
      /\ \A m \in Hosts : InUse(m)' <=> (m = p \/ InUse(m))
      /\ \A t \in Tiers : Placed(t)' = IF t = tier THEN Placed(t) + 1 ELSE Placed(t)
  BY <1>1, <1>2, PlaceOnCounts
<1>4. /\ IsFiniteSet(Hosts) /\ 1 \in Hosts /\ Hosts \subseteq Nat /\ \A m \in Hosts : 1..m \subseteq Hosts
      /\ \A m \in Hosts, t \in Tiers : perMachine[m][t] \in Nat
      /\ \A t \in Tiers : config.nodes[t] \in Nat /\ toGo[t] \in Nat
  BY <1>2, HostsFinite
<1>5. \A t \in Tiers : Placed(t)' + toGo'[t] = config.nodes[t]
  <2>1. \A t \in Tiers : Placed(t) \in Nat
    BY <1>2, PlacedType
  <2>2. \A t \in Tiers : toGo'[t] = IF t = tier THEN toGo[t] - 1 ELSE toGo[t]
    BY <1>1, <1>2 DEF PlaceOn, PlacementTypeOK
  <2> QED BY <1>2, <1>3, <1>4, <2>1, <2>2 DEF CountInv
<1>6. tier' # "cloud" => toGo'["cloud"] = 0
  BY <1>1, <1>2 DEF PlaceOn, PlacementTypeOK, CountInv, Tiers
<1>7. ASSUME config.nodes["cloud"] > 0 PROVE perMachine'[1]["cloud"] > 0
  <2>1. perMachine'[1]["cloud"] \in Nat /\ perMachine'[1]["cloud"] >= perMachine[1]["cloud"] /\ perMachine[1]["cloud"] \in Nat
    BY <1>3, <1>4 DEF Tiers
  <2>2. CASE \E m \in Hosts : InUse(m)
    BY <1>2, <1>7, <2>1, <2>2 DEF CountInv
  <2>3. CASE ~\E m \in Hosts : InUse(m)
    <3>1. tier = "cloud"
      BY <1>2, <1>7, <2>3, CloudsFirst
    <3>2. used[p] = 0 /\ used[1] = 0
      BY <1>4, <2>3 DEF CountInv
    <3>3. p = 1
      <4>1. p \in Nat /\ p >= 1
        BY <1>2, ConfigType DEF PlacementTypeOK
      <4>2. config.cores[p] \in Nat /\ config.cores[1] \in Nat
        BY <1>2, <1>4, ConfigType DEF PlacementTypeOK
      <4>3. p > 1 => used[p] * config.cores[1] < used[1] * config.cores[p]
        BY <1>1, <4>1 DEF LeastUsed
      <4>4. 0 * config.cores[1] = 0 /\ 0 * config.cores[p] = 0
        BY <4>2
      <4> QED BY <3>2, <4>1, <4>3, <4>4
    <3> QED BY <1>3, <1>4, <3>1, <3>3 DEF Tiers
  <2> QED BY <2>2, <2>3
<1>8. ASSUME NEW m \in Hosts, ~InUse(m)' PROVE used'[m] = 0
  <2>1. m # p /\ ~InUse(m)
    BY <1>3, <1>8
  <2> QED BY <1>1, <1>2, <2>1 DEF CountInv, PlacementTypeOK
<1> QED BY <1>2, <1>3, <1>5, <1>6, <1>7, <1>8 DEF CountInv

\* Placing a VM on the machine being filled.
LEMMA PlacePinCounts == PlacementInv /\ CountInv /\ PlacePin => CountInv'
<1> SUFFICES ASSUME PlacementInv, CountInv, PlacePin PROVE CountInv'
  OBVIOUS
<1>1. /\ PlacementTypeOK /\ config' = config /\ tier \in Tiers /\ toGo[tier] > 0 /\ PlaceOn(node)
      /\ config.cpu_pin /\ pc = "pin" /\ pc' = "pin" /\ used' = used
      /\ tier' = IF toGo'[tier] = 0 THEN NextTier(tier) ELSE tier
  BY DEF PlacementInv, PlacePin, PlacementTypeOK, PinInv
<1>2. node \in Hosts /\ node' \in {node, node + 1} /\ node \in Nat
  <2>1. node \in 1..(Len(config.cores) + 1) /\ node <= Len(config.cores)
    BY <1>1 DEF PlacementTypeOK, PlacePin
  <2> QED BY <1>1, <2>1, ConfigType DEF PlacementTypeOK, PlacePin, AdvanceNode
<1>3. /\ Hosts' = Hosts
      /\ \A m \in Hosts, t \in Tiers :
           perMachine'[m][t] = IF m = node /\ t = tier THEN perMachine[m][t] + 1 ELSE perMachine[m][t]
      /\ \A m \in Hosts : InUse(m)' <=> (m = node \/ InUse(m))
      /\ \A t \in Tiers : Placed(t)' = IF t = tier THEN Placed(t) + 1 ELSE Placed(t)
  BY <1>1, <1>2, PlaceOnCounts
<1>4. /\ IsFiniteSet(Hosts) /\ 1 \in Hosts /\ Hosts \subseteq Nat /\ \A m \in Hosts : 1..m \subseteq Hosts
      /\ \A m \in Hosts, t \in Tiers : perMachine[m][t] \in Nat
      /\ \A t \in Tiers : config.nodes[t] \in Nat /\ toGo[t] \in Nat
  BY <1>1, HostsFinite
<1>5. \A t \in Tiers : toGo'[t] = IF t = tier THEN toGo[t] - 1 ELSE toGo[t]
  BY <1>1 DEF PlaceOn, PlacementTypeOK
<1>6. \A t \in Tiers : Placed(t)' + toGo'[t] = config.nodes[t]
  <2>1. \A t \in Tiers : Placed(t) \in Nat
    BY <1>1, PlacedType
  <2> QED BY <1>1, <1>3, <1>4, <1>5, <2>1 DEF CountInv
<1>7. tier' # "cloud" => toGo'["cloud"] = 0
  BY <1>1, <1>5 DEF CountInv, Tiers
<1>8. ASSUME NEW m \in Hosts, InUse(m)', config.nodes["cloud"] > 0
      PROVE  \E k \in 1..m : perMachine'[k]["cloud"] > 0
  <2>0. "cloud" \in Tiers
    BY DEF Tiers
  <2>1. ASSUME NEW k \in Hosts, perMachine[k]["cloud"] > 0 PROVE perMachine'[k]["cloud"] > 0
    <3>1. perMachine[k]["cloud"] \in Nat /\ perMachine'[k]["cloud"] \in {perMachine[k]["cloud"], perMachine[k]["cloud"] + 1}
      BY <1>3, <1>4, <2>0
    <3> QED BY <2>1, <3>1
  <2>2. CASE InUse(m)
    <3>1. PICK k \in 1..m : perMachine[k]["cloud"] > 0
      BY <1>1, <1>8, <2>2 DEF CountInv
    <3> QED BY <1>4, <2>1, <3>1
  <2>3. CASE m = node /\ tier = "cloud"
    <3>1. perMachine[node]["cloud"] \in Nat /\ perMachine'[node]["cloud"] = perMachine[node]["cloud"] + 1
      BY <1>2, <1>3, <1>4, <2>0, <2>3
    <3>2. perMachine'[m]["cloud"] > 0
      BY <2>3, <3>1
    <3>3. m \in 1..m
      BY <1>1, ConfigType DEF PlacementTypeOK
    <3> QED BY <3>2, <3>3
  <2>4. CASE m = node /\ tier # "cloud"
    <3>1. PICK k \in Hosts : perMachine[k]["cloud"] > 0 /\ InUse(k)
      BY <1>1, <1>8, <2>4, CloudsFirst
    <3>2. k \in 1..m
      <4>1. k \in Nat /\ k >= 1 /\ ~(k > node)
        BY <1>1, <3>1, ConfigType DEF CountInv, PlacementTypeOK
      <4> QED BY <1>2, <2>4, <4>1
    <3> QED BY <2>1, <3>1, <3>2
  <2> QED BY <1>3, <1>8, <2>2, <2>3, <2>4
<1>9. ASSUME NEW m \in Hosts, m > node' PROVE ~InUse(m)'
  <2>1. m > node
    BY <1>2, <1>4, <1>9
  <2> QED BY <1>1, <1>2, <1>3, <1>4, <2>1 DEF CountInv
<1>10. ASSUME NEW m \in Hosts, ~InUse(m)' PROVE used'[m] = 0
  BY <1>1, <1>3, <1>10 DEF CountInv
<1> QED BY <1>1, <1>3, <1>6, <1>7, <1>8, <1>9, <1>10 DEF CountInv

\* Nothing is left in total if nothing is left of each tier.
LEMMA TotalZero ==
    ASSUME NEW count \in [Tiers -> Nat]
    PROVE  Total(count) \in Nat /\ (Total(count) = 0 <=> \A t \in Tiers : count[t] = 0)
<1>1. count["cloud"] \in Nat /\ count["edge"] \in Nat /\ count["endpoint"] \in Nat
  BY DEF Tiers
<1>2. Total(count) = count["cloud"] + count["edge"] + count["endpoint"]
  BY DEF Total
<1>3. (\A t \in Tiers : count[t] = 0) <=> count["cloud"] = 0 /\ count["edge"] = 0 /\ count["endpoint"] = 0
  BY DEF Tiers
<1> QED BY <1>1, <1>2, <1>3

\* A step that places no VM.
LEMMA CountFrame ==
    ASSUME PlacementInv, CountInv, UNCHANGED <<config, toGo, used, perMachine>>,
           node' = node \/ (node \in Nat /\ node' = node + 1),
           pc' \notin {"pin", "equal", "refused"} => pc \notin {"pin", "equal", "refused"} \/ Total(toGo) = 0,
           tier' # "cloud" => tier # "cloud" \/ toGo["cloud"] = 0
    PROVE  CountInv'
<1>1. /\ PlacementTypeOK /\ Hosts' = Hosts /\ \A m \in Hosts : InUse(m)' <=> InUse(m)
      /\ \A t \in Tiers : Placed(t)' = Placed(t)
  BY DEF PlacementInv, Hosts, InUse, Placed
<1>2. /\ Hosts \subseteq Nat /\ \A t \in Tiers : toGo[t] \in Nat /\ toGo'[t] = toGo[t]
  BY <1>1, HostsFinite
<1>3. pc' \notin {"pin", "equal", "refused"} => \A t \in Tiers : toGo'[t] = 0
  <2>1. Total(toGo) = 0 => \A t \in Tiers : toGo[t] = 0
    BY <1>1, TotalZero DEF PlacementTypeOK
  <2> QED BY <1>2, <2>1 DEF CountInv
<1>4. \A m \in Hosts : m > node' => m > node
  BY <1>2, <1>1 DEF PlacementTypeOK
<1> QED BY <1>1, <1>2, <1>3, <1>4 DEF CountInv

\* No step loses a VM or places one twice, and none puts an edge VM or an
\* endpoint on a machine before the first with a cloud VM.
LEMMA CountStep == PlacementInv /\ CountInv /\ [InfrastructureNext]_everything => CountInv'
<1> SUFFICES ASSUME PlacementInv, CountInv, [InfrastructureNext]_everything PROVE CountInv'
  OBVIOUS
<1>1. CASE Place
  <2>1. CASE SkipTier
    BY <2>1, CountFrame DEF SkipTier, CountInv
  <2>2. CASE LeaveNode
    <3>1. node \in Nat
      BY ConfigType DEF PlacementInv, PlacementTypeOK
    <3> QED BY <2>2, <3>1, CountFrame DEF LeaveNode, AdvanceNode
  <2>3. CASE Refuse
    BY <2>3, CountFrame DEF Refuse
  <2>4. CASE ScheduleDone
    BY <2>4, CountFrame DEF ScheduleDone
  <2>5. CASE RemoveIdle
    BY <2>5, CountFrame DEF RemoveIdle
  <2> QED BY <1>1, <2>1, <2>2, <2>3, <2>4, <2>5, PlaceEqualCounts, PlacePinCounts DEF Place, Next
<1>2. CASE UNCHANGED everything
  BY <1>2, CountFrame DEF everything, allVars, vars
<1>3. CASE UNCHANGED placement /\ pc \notin Unplaced /\ pc' \notin Unplaced
  BY <1>3, CountFrame DEF placement, Unplaced
<1> QED BY <1>1, <1>2, <1>3, Steps

-----------------------------------------------------------------------------
(* The machines in use *)

\* remove_idle keeps the machines in use, in their order, and no other step
\* changes the list.
LEMMA MachinesStep ==
    PlacementInv /\ MachinesInv /\ [InfrastructureNext]_everything => MachinesInv'
<1> SUFFICES ASSUME PlacementInv, MachinesInv, [InfrastructureNext]_everything PROVE MachinesInv'
  OBVIOUS
<1> USE DEF Unplaced
<1>1. CASE Place
  <2>1. CASE RemoveIdle
    BY <2>1 DEF RemoveIdle, MachinesInv, Used, Hosts, InUse
  <2>2. CASE Next /\ ~RemoveIdle
    BY <2>2 DEF Next, SkipTier, PlaceEqual, PlacePin, LeaveNode, Refuse, ScheduleDone, MachinesInv
  <2> QED BY <1>1, <2>1, <2>2 DEF Place
<1>2. CASE UNCHANGED everything
  BY <1>2 DEF everything, allVars, vars, MachinesInv, Used, Hosts, InUse
<1>3. CASE UNCHANGED placement /\ pc \notin Unplaced /\ pc' \notin Unplaced
  BY <1>3 DEF placement, MachinesInv, Used, Hosts, InUse
<1> QED BY <1>1, <1>2, <1>3, Steps

\* What the parser and the resource managers make sure of.
LEMMA AcceptedConfig ==
    ASSUME config \in Configurations
    PROVE  /\ config.resource_manager \in {"kubernetes", "kubeedge", "mist", "none"}
           /\ Total(config.nodes) > 0
           /\ ~config.infra_only /\ Mode # "endpoint" /\ config.resource_manager # "mist"
                 => config.nodes["cloud"] > 0
<1>1. Accepted(config) /\ config.resource_manager \in {"kubernetes", "kubeedge", "mist", "none"}
  BY ProvisioningAssumption, PlacementAssumption DEF Configuration
<1>2. config.nodes["cloud"] \in Nat /\ config.nodes["edge"] \in Nat /\ config.nodes["endpoint"] \in Nat
  BY ConfigType DEF Tiers
<1>3. Total(config.nodes) > 0
  BY <1>1 DEF Accepted, Total
<1>4. ASSUME ~config.infra_only, Mode # "endpoint", config.resource_manager # "mist"
      PROVE  config.nodes["cloud"] > 0
  <2>1. CASE config.resource_manager = "kubernetes"
    <3>1. config.nodes["cloud"] >= 2
      BY <1>1, <1>4, <2>1 DEF Accepted
    <3> QED BY <1>2, <3>1
  <2>2. CASE config.resource_manager = "kubeedge"
    <3>1. config.nodes["cloud"] = 1
      BY <1>1, <1>4, <2>2 DEF Accepted
    <3> QED BY <3>1
  <2>3. CASE config.resource_manager = "none"
    <3>1. config.nodes["cloud"] = 0 /\ config.nodes["edge"] = 0
      BY <1>1, <1>4, <2>3 DEF Accepted
    <3> QED BY <1>4, <3>1 DEF Mode
  <2> QED BY <1>1, <1>4, <2>1, <2>2, <2>3
<1> QED BY <1>1, <1>3, <1>4

\* The list of the machines has those in use, each once and in their order.
LEMMA MachinesList ==
    ASSUME PlacementInv, CountInv, MachinesInv, pc \notin Unplaced
    PROVE  /\ Len(machines) \in Nat \ {0} /\ DOMAIN machines = 1..Len(machines)
           /\ machines \in [DOMAIN machines -> Hosts]
           /\ \A i \in DOMAIN machines : machines[i] \in Hosts /\ InUse(machines[i])
           /\ \A m \in Hosts : InUse(m) => \E i \in DOMAIN machines : machines[i] = m
           /\ \A i, j \in DOMAIN machines : i < j => machines[i] < machines[j]
           /\ \A i, j \in DOMAIN machines : machines[i] = machines[j] => i = j
<1> DEFINE R == {b \in Hosts \X Hosts : b[1] < b[2]}
           n == Cardinality(Used)
<1>1. PlacementTypeOK /\ config \in Configurations
  BY DEF PlacementInv, PlacementTypeOK
<1>2. IsFiniteSet(Hosts) /\ Hosts \subseteq Nat /\ Used \subseteq Hosts
  BY <1>1, HostsFinite DEF Used
<1>3. IsFiniteSet(Used) /\ n \in Nat
  BY <1>2, FS_Subset, FS_CardinalityType
<1>4. Orders(Used, R)
  <2>1. \A x, y \in Used : <<x, y>> \in R <=> x < y
    BY <1>2
  <2>2. \A x, y, z \in Used : /\ ~(x < x) /\ (x # y => x < y \/ y < x) /\ (x < y /\ y < z => x < z)
    BY <1>2
  <2> HIDE DEF R
  <2> QED BY <2>1, <2>2 DEF Orders
<1>5. machines = InOrder(Used, R)
  BY DEF MachinesInv
<1>6. \A x, y : <<x, y>> \in R => x < y
  OBVIOUS
<1> HIDE DEF R
<1>7. /\ machines \in [1..n -> Used]
      /\ \A x \in Used : \E k \in 1..n : machines[k] = x
      /\ \A j, k \in 1..n : j < k => machines[j] < machines[k]
  <2>1. /\ InOrder(Used, R) \in [1..Cardinality(Used) -> Used]
        /\ \A x \in Used : \E k \in 1..Cardinality(Used) : InOrder(Used, R)[k] = x
        /\ \A j, k \in 1..Cardinality(Used) : j < k => <<InOrder(Used, R)[j], InOrder(Used, R)[k]>> \in R
    BY <1>3, <1>4, InOrderSorts, Zenon
  <2> QED BY <1>5, <1>6, <2>1
<1>8. machines \in Seq(Used) /\ Len(machines) = n /\ DOMAIN machines = 1..n
  <2>1. machines \in Seq(Used)
    BY <1>3, <1>7, SeqDef
  <2>2. DOMAIN machines = 1..n /\ DOMAIN machines = 1..Len(machines) /\ Len(machines) \in Nat
    BY <1>7, <2>1, LenProperties
  <2> QED BY <1>3, <2>1, <2>2
<1>9. n # 0
  <2>1. \E m \in Hosts : InUse(m)
    <3>1. PICK t \in Tiers : config.nodes[t] # 0
      BY <1>1, AcceptedConfig, ConfigType, TotalZero
    <3>2. toGo[t] = 0 /\ Placed(t) = config.nodes[t]
      <4>1. toGo[t] = 0 /\ Placed(t) + toGo[t] = config.nodes[t]
        BY DEF CountInv, Unplaced
      <4> QED BY <1>1, <4>1, PlacedType
    <3>3. Placed(t) > 0
      BY <1>1, <3>1, <3>2, PlacedType
    <3> QED BY <1>1, <3>3, PlacedType, InUseMeans
  <2> QED BY <1>3, <1>7, <2>1 DEF Used
<1>10. \A i, j \in 1..n : machines[i] = machines[j] => i = j
  <2> SUFFICES ASSUME NEW i \in 1..n, NEW j \in 1..n, machines[i] = machines[j] PROVE i = j
    OBVIOUS
  <2>1. machines[i] \in Nat /\ machines[j] \in Nat
    BY <1>2, <1>7
  <2>2. ~(i < j) /\ ~(j < i)
    BY <1>7, <2>1
  <2> QED BY <1>3, <2>2
<1>11. machines \in [1..n -> Hosts]
  BY <1>2, <1>7
<1> QED BY <1>3, <1>7, <1>8, <1>9, <1>10, <1>11 DEF Used

\* Where a controller is needed, the first machine has a cloud VM for it.
LEMMA ControllerHasCloud ==
    ASSUME PlacementInv, CountInv, MachinesInv, pc \notin Unplaced,
           NEW i \in DOMAIN machines, HasController(machines[i])
    PROVE  i = 1 /\ perMachine[machines[i]]["cloud"] > 0
<1>1. /\ PlacementTypeOK /\ config \in Configurations /\ Hosts \subseteq Nat /\ 1 \in Hosts
      /\ \A m \in Hosts : 1..m \subseteq Hosts
  BY HostsFinite DEF PlacementInv, PlacementTypeOK
<1> DEFINE m == machines[i]
<1>2. /\ 1 \in DOMAIN machines /\ m = machines[1] /\ i = 1 /\ m \in Hosts /\ InUse(m)
      /\ \A k \in Hosts : InUse(k) => m <= k
  <2>1. 1 \in DOMAIN machines /\ m = machines[1]
    BY MachinesList DEF HasController
  <2>2. ASSUME NEW k \in Hosts, InUse(k) PROVE m <= k
    <3>1. PICK j \in DOMAIN machines : machines[j] = k
      BY <2>2, MachinesList
    <3>2. CASE j = 1
      BY <1>1, <2>1, <2>2, <3>1, <3>2
    <3>3. CASE j # 1
      <4>1. 1 \in DOMAIN machines /\ j \in DOMAIN machines /\ 1 < j
        BY <2>1, <3>1, <3>3, MachinesList
      <4>2. machines[1] < machines[j]
        BY <4>1, MachinesList
      <4>3. machines[1] \in Nat /\ machines[j] \in Nat
        BY <1>1, <4>1, MachinesList
      <4> QED BY <2>1, <3>1, <4>2, <4>3
    <3> QED BY <3>2, <3>3
  <2> QED BY <2>1, <2>2, MachinesList
<1>3. config.nodes["cloud"] > 0
  BY <1>1, AcceptedConfig DEF HasController
<1>4. CASE config.cpu_pin
  <2>1. PICK k \in 1..m : perMachine[k]["cloud"] > 0
    BY <1>2, <1>3, <1>4 DEF CountInv
  <2>2. k \in Hosts /\ InUse(k)
    <3>1. k \in Hosts /\ "cloud" \in Tiers
      BY <1>1, <1>2, <2>1 DEF Tiers
    <3> QED BY <1>1, <2>1, <3>1, InUseMeans
  <2>3. k = m
    <3>1. m <= k /\ k \in Nat /\ m \in Nat
      BY <1>1, <1>2, <2>2
    <3>2. k <= m
      BY <2>1, <3>1
    <3> QED BY <3>1, <3>2
  <2> QED BY <1>2, <2>1, <2>3
<1>5. CASE ~config.cpu_pin
  <2>1. perMachine[1]["cloud"] > 0
    BY <1>2, <1>3, <1>5 DEF CountInv
  <2>2. InUse(1)
    BY <1>1, <2>1, InUseMeans DEF Tiers
  <2>3. 1 = m
    <3>1. m <= 1 /\ m \in 1..Len(config.cores)
      BY <1>1, <1>2, <2>2, ConfigType
    <3> QED BY <3>1
  <2> QED BY <1>2, <2>1, <2>3
<1> QED BY <1>4, <1>5

\* A machine has as many VMs of a tier as are named for it, and a controller.
LEMMA HereType ==
    ASSUME PlacementInv, CountInv, MachinesInv, pc \notin Unplaced, NEW i \in DOMAIN machines
    PROVE  /\ Here(machines[i]) \in [Tiers -> Nat]
           /\ Clouds(machines[i]).controller = IF HasController(machines[i]) THEN 1 ELSE 0
           /\ Clouds(machines[i]).controller \in Nat
           /\ Here(machines[i])["cloud"] = Clouds(machines[i]).workers
           /\ \A t \in Tiers : perMachine[machines[i]][t] \in Nat
           /\ perMachine[machines[i]]["cloud"] = Here(machines[i])["cloud"] + Clouds(machines[i]).controller
           /\ \A t \in Tiers \ {"cloud"} : Here(machines[i])[t] = perMachine[machines[i]][t]
<1> DEFINE m == machines[i]
<1>1. PlacementTypeOK /\ m \in Hosts /\ perMachine[m] \in [Tiers -> Nat]
  BY MachinesList DEF PlacementInv, PlacementTypeOK
<1>2. HasController(m) => perMachine[m]["cloud"] > 0
  BY ControllerHasCloud
<1> HIDE DEF m
<1>3. perMachine[m]["cloud"] \in Nat /\ "cloud" \in Tiers
  BY <1>1 DEF Tiers
<1>4. /\ Clouds(m).controller = IF HasController(m) THEN 1 ELSE 0
      /\ Clouds(m).workers = perMachine[m]["cloud"] - Clouds(m).controller
  BY <1>2 DEF Clouds
<1>5. Clouds(m).controller \in Nat /\ Clouds(m).workers \in Nat
      /\ perMachine[m]["cloud"] = Clouds(m).workers + Clouds(m).controller
  BY <1>2, <1>3, <1>4
<1>6. /\ Here(m) \in [Tiers -> Nat] /\ Here(m)["cloud"] = Clouds(m).workers
      /\ \A t \in Tiers \ {"cloud"} : Here(m)[t] = perMachine[m][t]
  BY <1>1, <1>3, <1>5 DEF Here
<1> QED BY <1>1, <1>4, <1>5, <1>6 DEF m

\* The count of the VMs before a machine.
LEMMA StartType ==
    ASSUME PlacementInv, CountInv, MachinesInv, pc \notin Unplaced, NEW t \in Tiers
    PROVE  /\ Start(1, t) = 0
           /\ \A i \in 1..(Len(machines) + 1) : Start(i, t) \in Nat
           /\ \A i \in DOMAIN machines : Start(i + 1, t) = Start(i, t) + Here(machines[i])[t]
           /\ \A i, j \in 1..(Len(machines) + 1) : i <= j => Start(i, t) <= Start(j, t)
<1> DEFINE F == [j \in DOMAIN machines |-> Here(machines[j])[t]]
           D == DOMAIN machines
<1>1. Len(machines) \in Nat /\ D = 1..Len(machines)
  BY MachinesList
<1>2. F \in [D -> Nat] /\ \A j \in D : F[j] = Here(machines[j])[t]
  BY HereType
<1>3. IsFiniteSet(D)
  BY <1>1, FS_Interval
<1>4. \A i : Start(i, t) = Sum(F, 1..(i - 1))
  BY DEF Start
<1> HIDE DEF F, D
<1>5. \A i \in 1..(Len(machines) + 1) : 1..(i - 1) \in SUBSET D
  BY <1>1
<1>6. \A i \in 1..(Len(machines) + 1) : Start(i, t) \in Nat
  BY <1>2, <1>3, <1>4, <1>5, SumOverSet
<1>7. Start(1, t) = 0
  <2>1. 1..(1 - 1) = {}
    OBVIOUS
  <2> QED BY <1>2, <1>3, <1>4, <2>1, SumOverSet
<1>8. ASSUME NEW i \in D PROVE Start(i + 1, t) = Start(i, t) + Here(machines[i])[t]
  <2>1. 1..(i - 1) \in SUBSET D /\ i \in D \ (1..(i - 1)) /\ (1..(i - 1)) \cup {i} = 1..(i + 1 - 1)
    <3>1. i \in Nat /\ i >= 1 /\ i <= Len(machines) /\ i + 1 - 1 = i
      BY <1>1
    <3>2. 1..(i - 1) \in SUBSET (1..Len(machines)) /\ i \notin 1..(i - 1)
      BY <1>1, <3>1
    <3>3. (1..(i - 1)) \cup {i} = 1..i
      BY <3>1
    <3> QED BY <1>1, <3>1, <3>2, <3>3
  <2> DEFINE S == 1..(i - 1)
             next == i + 1
  <2>2. S \in SUBSET D /\ i \in D \ S /\ S \cup {i} = 1..(next - 1) /\ next = i + 1
    BY <2>1
  <2> HIDE DEF next
  <2>3. Start(i, t) = Sum(F, S)
    BY <1>4
  <2>6. Start(next, t) = Sum(F, 1..(next - 1))
    BY <1>4
  <2> HIDE DEF S
  <2>4. Sum(F, S \cup {i}) = Sum(F, S) + F[i]
    BY <1>2, <1>3, <2>2, SumOverSet
  <2>5. F[i] = Here(machines[i])[t]
    BY <1>2
  <2> QED BY <2>2, <2>3, <2>4, <2>5, <2>6
<1>9. ASSUME NEW i \in 1..(Len(machines) + 1), NEW j \in 1..(Len(machines) + 1), i <= j
      PROVE  Start(i, t) <= Start(j, t)
  <2>1. 1..(j - 1) \in SUBSET D /\ 1..(i - 1) \in SUBSET (1..(j - 1))
    BY <1>1, <1>9
  <2> DEFINE S == 1..(j - 1)
             R == 1..(i - 1)
  <2>2. Start(j, t) = Sum(F, S) /\ Start(i, t) = Sum(F, R)
    BY <1>4
  <2>3. S \in SUBSET D /\ R \in SUBSET S
    BY <2>1
  <2> HIDE DEF S, R
  <2>4. Sum(F, R) <= Sum(F, S)
    BY <1>2, <1>3, <2>3, SumMonotone
  <2> QED BY <2>2, <2>4
<1> QED BY <1>6, <1>7, <1>8, <1>9 DEF D


-----------------------------------------------------------------------------
(* The stages of the QEMU provider *)

\* The steps of a run with QEMU, by what they do to the Machine objects.
LEMMA QemuSteps ==
    ASSUME [InfrastructureNext]_everything, Qemu, StageInv
    PROVE  \/ SetIpNames
           \/ CreateInventory
           \/ Generate
           \/ NextStage
           \/ Place
           \/ /\ UNCHANGED <<placement, at, vms, bases, index, clouds, disks, pins>>
              /\ \/ pc' = pc
                 \/ pc = "registry" /\ pc' = "inventory"
                 \/ pc \notin Unpinned /\ pc' \notin Unpinned \cup {"apply", "install"}
<1> USE DEF Unplaced, Unnamed, Unlisted, Unpinned
<1>1. pc \notin {"apply", "install"}
  BY DEF StageInv
<1>2. CASE UNCHANGED everything
  BY <1>2 DEF everything, allVars, vars, placement, machineObjects, provision
<1>3. CASE DockerRegistry /\ UNCHANGED provision
  BY <1>3 DEF DockerRegistry, provision, Qemu
<1>4. CASE BaseImage
  BY <1>4 DEF BaseImage
<1>5. CASE LaunchVms
  BY <1>5 DEF LaunchVms
<1>6. CASE LaunchFails
  BY <1>6 DEF LaunchFails
<1>7. ASSUME TerraformNext PROVE FALSE
  BY <1>1, <1>7 DEF TerraformNext, SetNames, Apply, BaseInstall, Cloud, Qemu
<1>8. CASE NetworkStart
  BY <1>8 DEF NetworkStart, provision, machineObjects
<1>9. CASE NetworkBenchmark
  BY <1>9 DEF NetworkBenchmark, provision, machineObjects
<1> QED BY <1>2, <1>3, <1>4, <1>5, <1>6, <1>7, <1>8, <1>9 DEF InfrastructureNext, ProvisionNext

\* Every machine has its lists, from the start on.
LEMMA ListsStep == ListsInv /\ [InfrastructureNext]_everything => ListsInv'
<1> SUFFICES ASSUME ListsInv, [InfrastructureNext]_everything PROVE ListsInv'
  OBVIOUS
<1>1. config' = config /\ Hosts' = Hosts
  BY Steps DEF everything, allVars, vars, placement, Place, Next, SkipTier, PlaceEqual, PlacePin, LeaveNode,
               Refuse, ScheduleDone, RemoveIdle, Hosts
<1> USE DEF ListsInv
<1>2. CASE UNCHANGED <<vms, bases, disks, pins, clouds>>
  <2>1. vms' = [m \in Hosts' |-> vms'[m]] /\ bases' = [m \in Hosts' |-> bases'[m]]
    BY <1>1, <1>2
  <2>2. disks' = [m \in Hosts' |-> disks'[m]] /\ pins' = [m \in Hosts' |-> pins'[m]]
    BY <1>1, <1>2
  <2>3. clouds' = [m \in Hosts' |-> clouds'[m]]
    BY <1>1, <1>2
  <2> QED BY <2>1, <2>2, <2>3
<1>3. CASE SetIpNames
  <2>1. vms' = [m \in Hosts' |-> vms'[m]]
    BY <1>1, <1>3, ZenonT(60) DEF SetIpNames
  <2>2. bases' = [m \in Hosts' |-> bases'[m]]
    BY <1>1, <1>3 DEF SetIpNames
  <2>3. clouds' = [m \in Hosts' |-> clouds'[m]]
    BY <1>1, <1>3 DEF SetIpNames
  <2>4. disks' = [m \in Hosts' |-> disks'[m]] /\ pins' = [m \in Hosts' |-> pins'[m]]
    BY <1>1, <1>3 DEF SetIpNames
  <2> QED BY <2>1, <2>2, <2>3, <2>4
<1>4. CASE CreateInventory
  BY <1>1, <1>4 DEF CreateInventory
<1>5. CASE Generate
  BY <1>1, <1>5 DEF Generate
<1>6. CASE SetNames /\ UNCHANGED provision
  BY <1>1, <1>6 DEF SetNames, provision
<1>7. CASE Apply /\ UNCHANGED provision
  BY <1>1, <1>7 DEF Apply, provision
<1>8. CASE BaseInstall /\ UNCHANGED provision
  BY <1>1, <1>2, <1>8 DEF BaseInstall, provision
<1>9. CASE UNCHANGED everything \/ Place
  BY <1>2, <1>9 DEF everything, allVars, machineObjects, provision, Place
<1>10. CASE NextStage \/ (DockerRegistry /\ UNCHANGED provision) \/ BaseImage \/ LaunchVms \/ LaunchFails
  BY <1>2, <1>10 DEF NextStage, DockerRegistry, BaseImage, LaunchVms, LaunchFails, provision
<1>11. CASE NetworkStart \/ NetworkBenchmark
  BY <1>2, <1>11 DEF NetworkStart, NetworkBenchmark, machineObjects, provision
<1> QED BY <1>3, <1>4, <1>5, <1>6, <1>7, <1>8, <1>9, <1>10, <1>11
        DEF InfrastructureNext, ProvisionNext, TerraformNext

\* The VMs stay the same when only their addresses are read.
LEMMA LaunchStep == ListsInv /\ LaunchInv /\ [InfrastructureNext]_everything => LaunchInv'
<1> SUFFICES ASSUME ListsInv, LaunchInv, [InfrastructureNext]_everything PROVE LaunchInv'
  OBVIOUS
<1> USE DEF LaunchInv, Unplaced, Unnamed, Unlisted, Unpinned
<1>1. UNCHANGED <<config, vms>> => AllVms' = AllVms
  BY DEF AllVms, Places, Hosts
<1>2. CASE UNCHANGED everything
  BY <1>1, <1>2 DEF everything, allVars, vars, machineObjects, provision
<1>3. CASE Place
  BY <1>3 DEF Place, Next, SkipTier, PlaceEqual, PlacePin, LeaveNode, Refuse, ScheduleDone, RemoveIdle, machineObjects
<1>4. CASE SetIpNames \/ CreateInventory \/ Generate \/ SetNames \/ (DockerRegistry /\ UNCHANGED provision)
  BY <1>4 DEF SetIpNames, CreateInventory, Generate, SetNames, DockerRegistry, vars
<1>5. CASE NextStage
  BY <1>5 DEF NextStage
<1>6. CASE BaseImage
  BY <1>1, <1>6 DEF BaseImage, placement
<1>7. CASE LaunchVms
  <2>1. AllVms' = AllVms /\ pc = "launch" /\ commands \cup created = AllVms /\ commands \cap created = {}
    BY <1>1, <1>7 DEF LaunchVms, placement
  <2>2. PICK failed \in SUBSET commands :
          /\ created' = created \cup (commands \ failed) /\ commands' = failed
          /\ pc' = IF commands' = {} THEN "running" ELSE IF round = 1 THEN "aborted" ELSE "launch"
    BY <1>7 DEF LaunchVms, Repeat
  <2>3. commands' \cup created' = AllVms' /\ commands' \cap created' = {}
    BY <2>1, <2>2
  <2> QED BY <2>2, <2>3
<1>8. CASE LaunchFails
  BY <1>8 DEF LaunchFails
<1>9. CASE Apply
  <2>1. CASE pc' = "aborted"
    BY <2>1
  <2>2. CASE pc' # "aborted"
    <3> DEFINE read == [k \in DOMAIN vms[M] |-> [vms[M][k] EXCEPT !.ip = ReadAddress(k, External),
                                                                  !.internal = ReadAddress(k, Internal)]]
    <3>1. /\ created' = AllVms /\ vms' = [vms EXCEPT ![M] = read] /\ config' = config
          /\ pc' \in {"failed", "install"}
      BY <1>9, <2>2 DEF Apply, placement
    <3>2. \A m \in Hosts : DOMAIN vms'[m] = DOMAIN vms[m]
      BY <3>1 DEF ListsInv
    <3>3. AllVms' = AllVms
      BY <3>1, <3>2 DEF AllVms, Places, Hosts
    <3> QED BY <3>1, <3>3
  <2> QED BY <2>1, <2>2
<1>10. CASE BaseInstall
  BY <1>1, <1>10 DEF BaseInstall, placement
<1>11. CASE NetworkStart \/ NetworkBenchmark
  BY <1>1, <1>11 DEF NetworkStart, NetworkBenchmark
<1> QED BY <1>2, <1>3, <1>4, <1>5, <1>6, <1>7, <1>8, <1>9, <1>10, <1>11
        DEF InfrastructureNext, ProvisionNext, TerraformNext

\* The configuration stays the same.
LEMMA ConfigKept ==
    ASSUME [InfrastructureNext]_everything
    PROVE  config' = config /\ Hosts' = Hosts /\ (Qemu' <=> Qemu)
<1>1. config' = config
  BY Steps DEF everything, allVars, vars, placement, Place, Next, SkipTier, PlaceEqual, PlacePin, LeaveNode,
               Refuse, ScheduleDone, RemoveIdle
<1> QED BY <1>1 DEF Hosts, Qemu

\* The names follow from the placement alone.
LEMMA NamesFrame ==
    ASSUME UNCHANGED placement
    PROVE  /\ machines' = machines /\ config' = config /\ perMachine' = perMachine /\ Hosts' = Hosts
           /\ \A m : /\ HasController(m)' <=> HasController(m)
                     /\ Clouds(m)' = Clouds(m)
                     /\ Here(m)' = Here(m)
           /\ \A i, t : Start(i, t)' = Start(i, t)
           /\ \A i : NameList(i)' = NameList(i) /\ BaseImages(i)' = BaseImages(i)
<1>1. machines' = machines /\ config' = config /\ perMachine' = perMachine /\ Hosts' = Hosts
  BY DEF placement, Hosts
<1>2. Mode' = Mode
  BY <1>1 DEF Mode
<1>3. \A m : HasController(m)' <=> HasController(m)
  BY <1>1, <1>2 DEF HasController
<1>4. \A m : Clouds(m)' = Clouds(m)
  BY <1>1, <1>3 DEF Clouds
<1>5. \A m : Here(m)' = Here(m)
  BY <1>1, <1>4 DEF Here
<1>6. ASSUME NEW i, NEW t PROVE Start(i, t)' = Start(i, t)
  <2>1. [j \in DOMAIN machines |-> Here(machines[j])[t]]' = [j \in DOMAIN machines |-> Here(machines[j])[t]]
    BY <1>1, <1>5
  <2> QED BY <2>1 DEF Start
<1>7. \A i : NameList(i)' = NameList(i)
  BY <1>1, <1>3, <1>5, <1>6 DEF NameList
<1>8. \A i : BaseImages(i)' = BaseImages(i)
  BY <1>1 DEF BaseImages
<1> QED BY <1>1, <1>3, <1>4, <1>5, <1>6, <1>7, <1>8

\* The loops over the machines start with the first one, and no VM before it.
LEMMA LoopStarts ==
    PlacementInv /\ CountInv /\ MachinesInv /\ pc \notin Unplaced =>
        /\ Len(machines) \in Nat /\ DOMAIN machines = 1..Len(machines)
        /\ \A t \in Tiers : Start(1, t) = 0
  BY StartType, MachinesList

\* The same in the next state.
LEMMA LoopStartsNext ==
    ASSUME (PlacementInv /\ CountInv /\ MachinesInv)', pc' \notin Unplaced
    PROVE  /\ Len(machines') \in Nat /\ DOMAIN machines' = 1..Len(machines')
           /\ \A t \in Tiers : Start(1, t)' = 0
<1>1. (pc \notin Unplaced)'
  BY DEF Unplaced
<1>2. (/\ Len(machines) \in Nat /\ DOMAIN machines = 1..Len(machines)
       /\ \A t \in Tiers : Start(1, t) = 0)'
  BY <1>1, LoopStarts, PTL
<1> QED BY <1>2

\* Each loop counts the VMs of the machines it has passed.
LEMMA StageStep ==
    /\ PlacementInv /\ CountInv /\ MachinesInv /\ StageInv /\ NamesInv
    /\ (PlacementInv /\ CountInv /\ MachinesInv)'
    /\ [InfrastructureNext]_everything
    => StageInv'
<1> SUFFICES ASSUME PlacementInv, CountInv, MachinesInv, StageInv, NamesInv,
                    (PlacementInv /\ CountInv /\ MachinesInv)', [InfrastructureNext]_everything, Qemu'
             PROVE  StageInv'
  BY DEF StageInv
<1>1. Qemu /\ config' = config
  BY ConfigKept
<1>2. /\ pc \notin {"apply", "install"}
      /\ pc \in Unplaced \cup {"registry"} => at = 1 /\ index = None
      /\ pc \in {"placed", "inventory", "generate"} => Loop
      /\ pc \in {"placed", "inventory"} => index = [t \in Tiers |-> Start(at, t)]
  BY <1>1 DEF StageInv
<1>3. pc' \notin Unplaced => Len(machines') \in Nat /\ [t \in Tiers |-> Start(1, t)'] = None
  BY LoopStartsNext DEF None
<1>4. ASSUME UNCHANGED placement
      PROVE  /\ machines' = machines /\ perMachine' = perMachine
             /\ \A m : Clouds(m)' = Clouds(m) /\ Here(m)' = Here(m)
             /\ \A i, t : Start(i, t)' = Start(i, t)
  BY <1>4, NamesFrame
<1> USE DEF Unplaced, Unnamed, Unlisted, Unpinned
<1>5. ASSUME pc \notin Unplaced, pc' = pc, pc \in {"placed", "inventory"}, UNCHANGED placement,
             at <= Len(machines), at' = at + 1,
             index' = [t \in Tiers |-> index[t] + Here(machines[at])[t]]
      PROVE  StageInv'
  <2>1. at \in DOMAIN machines /\ Len(machines) \in Nat
    BY <1>2, <1>5, MachinesList DEF Loop
  <2>2. \A t \in Tiers : Start(at + 1, t) = Start(at, t) + Here(machines[at])[t]
    BY <1>5, <2>1, StartType
  <2>3. \A t \in Tiers : index[t] = Start(at, t)
    BY <1>2, <1>5
  <2>4. index' = [t \in Tiers |-> Start(at, t)']
    BY <1>4, <1>5, <2>2, <2>3
  <2>5. Loop'
    BY <1>2, <1>4, <1>5, <2>1 DEF Loop
  <2> QED BY <1>5, <2>4, <2>5 DEF StageInv
<1>6. CASE SetIpNames
  <2>1. /\ pc = "placed" /\ pc' = pc /\ UNCHANGED placement /\ at <= Len(machines) /\ at' = at + 1
        /\ index' = [t \in Tiers |-> index[t] + Here(machines[at])[t]]
    BY <1>6 DEF SetIpNames, vars, placement, Here
  <2> QED BY <1>5, <2>1
<1>7. CASE CreateInventory
  <2>1. /\ pc = "inventory" /\ pc' = pc /\ UNCHANGED placement /\ at <= Len(machines) /\ at' = at + 1
        /\ index' = [t \in Tiers |-> index[t] + Counted(machines[at])[t]]
    BY <1>7 DEF CreateInventory, vars, placement
  <2>2. at \in DOMAIN machines
    BY <1>2, <2>1, MachinesList DEF Loop
  <2>3. Counted(machines[at]) = Here(machines[at])
    BY <1>1, <2>1, <2>2 DEF NamesInv, NamesOf, HasNames, Counted, Here
  <2> QED BY <1>5, <2>1, <2>3
<1>8. CASE Generate
  <2>1. pc = "generate" /\ pc' = pc /\ UNCHANGED placement /\ at <= Len(machines) /\ at' = at + 1
    BY <1>8 DEF Generate, vars, placement
  <2>2. Loop'
    BY <1>2, <1>3, <1>4, <2>1 DEF Loop
  <2> QED BY <2>1, <2>2 DEF StageInv
<1>9. CASE NextStage
  <2>1. /\ at' = 1 /\ index' = None /\ pc' \in {"registry", "generate", "base"}
    BY <1>9 DEF NextStage
  <2>2. Loop'
    BY <1>3, <2>1 DEF Loop
  <2> QED BY <2>1, <2>2 DEF StageInv
<1>10. CASE Place
  <2>1. at' = at /\ index' = index /\ pc \in Unplaced /\ pc' \in Unplaced \cup {"placed"}
    BY <1>10 DEF Place, machineObjects, provision, Next, SkipTier, PlaceEqual, PlacePin, LeaveNode, Refuse,
                 ScheduleDone, RemoveIdle
  <2>2. at' = 1 /\ index' = None
    BY <1>2, <2>1
  <2>3. pc' = "placed" => Loop'
    BY <1>3, <2>2 DEF Loop
  <2>4. pc' = "placed" => index' = [t \in Tiers |-> Start(at, t)']
    BY <1>3, <2>2
  <2> QED BY <2>1, <2>2, <2>3, <2>4 DEF StageInv
<1>11. CASE UNCHANGED <<placement, at, index>> /\ pc' = pc
  <2>1. Loop' <=> Loop
    BY <1>4, <1>11 DEF Loop
  <2>2. [t \in Tiers |-> Start(at, t)'] = [t \in Tiers |-> Start(at, t)]
    BY <1>4, <1>11
  <2> QED BY <1>2, <1>11, <2>1, <2>2 DEF StageInv
<1>12. CASE UNCHANGED <<placement, at, index>> /\ pc = "registry" /\ pc' = "inventory"
  <2>1. at' = 1 /\ index' = None
    BY <1>2, <1>12
  <2>2. Loop' /\ index' = [t \in Tiers |-> Start(at, t)']
    BY <1>3, <1>12, <2>1 DEF Loop
  <2> QED BY <1>12, <2>1, <2>2 DEF StageInv
<1>13. CASE pc \notin Unpinned /\ pc' \notin Unpinned \cup {"apply", "install"}
  BY <1>13 DEF StageInv
<1> QED BY <1>1, <1>6, <1>7, <1>8, <1>9, <1>10, <1>11, <1>12, <1>13, QemuSteps

\* What a step makes of the names, the disks and the pins of one machine
\* leaves those of the others alone.
LEMMA NamesOfFrame ==
    ASSUME UNCHANGED placement, NEW i, UNCHANGED <<vms[machines[i]], bases[machines[i]], clouds[machines[i]]>>
    PROVE  NamesOf(i)' <=> NamesOf(i)
  BY NamesFrame DEF NamesOf

\* set_ip_names names the VMs of one machine after those of the machines
\* before it; no later step renames one.
LEMMA NamesStep ==
    /\ PlacementInv /\ CountInv /\ MachinesInv /\ ListsInv /\ StageInv /\ NamesInv
    /\ (PlacementInv /\ CountInv /\ MachinesInv)'
    /\ [InfrastructureNext]_everything
    => NamesInv'
<1> SUFFICES ASSUME PlacementInv, CountInv, MachinesInv, ListsInv, StageInv, NamesInv,
                    (PlacementInv /\ CountInv /\ MachinesInv)', [InfrastructureNext]_everything, Qemu'
             PROVE  NamesInv'
  BY DEF NamesInv
<1>1. Qemu /\ config' = config /\ Hosts' = Hosts
  BY ConfigKept
<1>2. /\ \A i \in DOMAIN machines : HasNames(i) => NamesOf(i)
      /\ \A m \in Hosts : (\A i \in DOMAIN machines : HasNames(i) => machines[i] # m) => vms[m] = <<>>
  BY <1>1 DEF NamesInv
<1> USE DEF Unplaced, Unnamed, Unlisted, Unpinned
<1>3. ASSUME UNCHANGED <<placement, vms, bases, clouds>>,
             \A i \in DOMAIN machines : HasNames(i)' <=> HasNames(i)
      PROVE  NamesInv'
  <2>1. machines' = machines /\ \A i : NamesOf(i)' <=> NamesOf(i)
    BY <1>3, NamesOfFrame DEF placement
  <2> QED BY <1>1, <1>2, <1>3, <2>1 DEF NamesInv
<1>4. CASE SetIpNames
  <2> DEFINE m == machines[at]
             here == [perMachine[m] EXCEPT !["cloud"] = Clouds(m).workers]
             list == (IF HasController(m) THEN <<Controller>> ELSE <<>>)
                     \o Names("cloud", index["cloud"], here["cloud"])
                     \o Names("edge", index["edge"], here["edge"])
                     \o Names("endpoint", index["endpoint"], here["endpoint"])
             address == Addresses(ip, Len(list))
             images == BaseImages(at)
             baseAddress == Addresses(ipBase, Len(images))
  <2>1. /\ pc = "placed" /\ pc' = "placed" /\ UNCHANGED placement /\ at <= Len(machines) /\ at' = at + 1
        /\ vms' = [vms EXCEPT ![m] = [k \in DOMAIN list |-> [role |-> list[k].role, name |-> list[k].name,
                                                             ip |-> address[k], internal |-> address[k]]]]
        /\ bases' = [bases EXCEPT ![m] = [k \in DOMAIN images |-> [name |-> images[k], ip |-> baseAddress[k]]]]
        /\ clouds' = [clouds EXCEPT ![m] = Clouds(m)]
    BY <1>4 DEF SetIpNames, vars, placement
  <2>2. at \in DOMAIN machines /\ DOMAIN machines = 1..Len(machines) /\ Len(machines) \in Nat /\ m \in Hosts
    <3>1. pc = "placed" /\ at <= Len(machines)
      BY <2>1
    <3>2. /\ Len(machines) \in Nat /\ DOMAIN machines = 1..Len(machines)
          /\ \A i \in DOMAIN machines : machines[i] \in Hosts
      BY <1>1, <3>1, MachinesList
    <3>3. at \in Nat \ {0}
      BY <1>1, <3>1 DEF StageInv, Loop
    <3> QED BY <3>1, <3>2, <3>3
  <2>3. list = NameList(at)
    <3>1. index["cloud"] = Start(at, "cloud") /\ index["edge"] = Start(at, "edge")
          /\ index["endpoint"] = Start(at, "endpoint")
      BY <1>1, <2>1 DEF StageInv, Tiers
    <3> QED BY <3>1 DEF NameList, Here
  <2> HIDE DEF list, address, images, baseAddress
  <2>4. /\ vms'[m] = [k \in DOMAIN list |-> [role |-> list[k].role, name |-> list[k].name,
                                             ip |-> address[k], internal |-> address[k]]]
        /\ bases'[m] = [k \in DOMAIN images |-> [name |-> images[k], ip |-> baseAddress[k]]]
        /\ clouds'[m] = Clouds(m)
        /\ \A k \in Hosts \ {m} : vms'[k] = vms[k] /\ bases'[k] = bases[k] /\ clouds'[k] = clouds[k]
    BY <2>1, <2>2 DEF ListsInv
  <2>5. /\ machines' = machines /\ \A i : NameList(i)' = NameList(i) /\ BaseImages(i)' = BaseImages(i)
        /\ \A k : Clouds(k)' = Clouds(k)
    <3>1. UNCHANGED placement
      BY <2>1
    <3> QED BY <3>1, NamesFrame
  <2>6. ASSUME NEW i \in DOMAIN machines, HasNames(i)' PROVE NamesOf(i)'
    <3>1. CASE i = at
      <4>1. clouds'[machines'[i]] = Clouds(machines[i])'
        BY <2>4, <2>5, <3>1
      <4>2. NameList(i) = list /\ BaseImages(i) = images /\ machines'[i] = m
        BY <2>3, <2>5, <3>1 DEF images
      <4> HIDE DEF m
      <4>3. /\ DOMAIN vms'[m] = DOMAIN list
            /\ \A k \in DOMAIN list : vms'[m][k].role = list[k].role /\ vms'[m][k].name = list[k].name
        BY <2>4
      <4>4. /\ DOMAIN bases'[m] = DOMAIN images
            /\ \A k \in DOMAIN images : bases'[m][k].name = images[k]
        BY <2>4
      <4> QED BY <2>5, <4>1, <4>2, <4>3, <4>4 DEF NamesOf
    <3>2. CASE i # at
      <4>1. HasNames(i)
        BY <2>1, <2>2, <2>6, <3>2 DEF HasNames
      <4>2. machines[i] \in Hosts \ {m}
        BY <2>1, <2>2, <3>2, MachinesList
      <4>3. UNCHANGED <<vms[machines[i]], bases[machines[i]], clouds[machines[i]]>>
        BY <2>4, <2>5, <4>2
      <4>4. UNCHANGED placement
        BY <2>1
      <4>5. NamesOf(i)' <=> NamesOf(i)
        BY <4>3, <4>4, NamesOfFrame
      <4> QED BY <1>2, <4>1, <4>5
    <3> QED BY <3>1, <3>2
  <2>7. ASSUME NEW n \in Hosts, \A i \in DOMAIN machines : HasNames(i)' => machines[i] # n PROVE vms'[n] = <<>>
    <3>1. n # m /\ \A i \in DOMAIN machines : HasNames(i) => machines[i] # n
      BY <2>1, <2>2, <2>7 DEF HasNames
    <3> QED BY <1>2, <2>4, <3>1
  <2> QED BY <1>1, <2>5, <2>6, <2>7 DEF NamesInv
<1>5. CASE CreateInventory
  BY <1>3, <1>5 DEF CreateInventory, HasNames, vars, placement
<1>6. CASE Generate
  BY <1>3, <1>6 DEF Generate, HasNames, vars, placement
<1>7. CASE NextStage
  <2>1. \A i \in DOMAIN machines : pc = "placed" => i < at
    <3>1. pc = "placed" => Loop /\ at > Len(machines) /\ DOMAIN machines = 1..Len(machines) /\ Len(machines) \in Nat
      BY <1>1, <1>7, MachinesList DEF NextStage, StageInv
    <3> QED BY <3>1 DEF Loop
  <2>2. \A i \in DOMAIN machines : HasNames(i)' <=> HasNames(i)
    BY <1>7, <2>1 DEF NextStage, HasNames
  <2> QED BY <1>3, <1>7, <2>2 DEF NextStage
<1>8. CASE Place
  <2>1. /\ at' = at /\ UNCHANGED <<vms, bases, clouds>> /\ pc \in Unplaced /\ pc' \in Unplaced \cup {"placed"}
    BY <1>8 DEF Place, machineObjects, provision, Next, SkipTier, PlaceEqual, PlacePin, LeaveNode, Refuse,
                ScheduleDone, RemoveIdle
  <2>2. \A m \in Hosts : vms[m] = <<>>
    BY <1>2, <2>1 DEF HasNames
  <2>3. \A i \in DOMAIN machines' : ~HasNames(i)'
    <3>1. at' = 1
      BY <1>1, <2>1 DEF StageInv
    <3>2. pc' = "placed" => DOMAIN machines' = 1..Len(machines') /\ Len(machines') \in Nat
      BY LoopStartsNext
    <3> QED BY <2>1, <3>1, <3>2 DEF HasNames
  <2> QED BY <1>1, <2>1, <2>2, <2>3 DEF NamesInv
<1>9. CASE UNCHANGED <<placement, at, vms, bases, clouds>> /\ pc' = pc
  BY <1>3, <1>9 DEF HasNames
<1>10. CASE UNCHANGED <<placement, at, vms, bases, clouds>> /\ pc = "registry" /\ pc' = "inventory"
  BY <1>3, <1>10 DEF HasNames
<1>11. CASE UNCHANGED <<placement, at, vms, bases, clouds>> /\ pc \notin Unpinned /\ pc' \notin Unpinned
  BY <1>3, <1>11 DEF HasNames
<1> QED BY <1>1, <1>4, <1>5, <1>6, <1>7, <1>8, <1>9, <1>10, <1>11, QemuSteps

-----------------------------------------------------------------------------
(* The disks and the pins *)

\* The disks counted depend on the placement and the base images alone.
LEMMA DiskListFrame ==
    ASSUME UNCHANGED <<placement, bases>>, NEW i
    PROVE  DiskList(i)' = DiskList(i)
<1>1. /\ machines' = machines /\ config' = config /\ \A m : Clouds(m)' = Clouds(m) /\ Here(m)' = Here(m)
      /\ \A k, t : Start(k, t)' = Start(k, t)
  BY NamesFrame
<1>2. \A m, t : BaseFor(m, t)' = BaseFor(m, t)
  BY <1>1 DEF BaseFor
<1> QED BY <1>1, <1>2 DEF DiskList

\* The inventory counts on each machine from where set_ip_names began there.
LEMMA DisksStep ==
    /\ PlacementInv /\ CountInv /\ MachinesInv /\ ListsInv /\ StageInv /\ NamesInv /\ DisksInv
    /\ (PlacementInv /\ CountInv /\ MachinesInv)'
    /\ [InfrastructureNext]_everything
    => DisksInv'
<1> SUFFICES ASSUME PlacementInv, CountInv, MachinesInv, ListsInv, StageInv, NamesInv, DisksInv,
                    (PlacementInv /\ CountInv /\ MachinesInv)', [InfrastructureNext]_everything, Qemu'
             PROVE  DisksInv'
  BY DEF DisksInv
<1>1. Qemu /\ config' = config /\ Hosts' = Hosts
  BY ConfigKept
<1>2. /\ \A i \in DOMAIN machines : HasDisks(i) => disks[machines[i]] = DiskList(i)
      /\ \A m \in Hosts : (\A i \in DOMAIN machines : HasDisks(i) => machines[i] # m) => disks[m] = {}
  BY <1>1 DEF DisksInv
<1> USE DEF Unplaced, Unnamed, Unlisted, Unpinned
<1>3. ASSUME UNCHANGED <<placement, bases, disks>>,
             \A i \in DOMAIN machines : HasDisks(i)' <=> HasDisks(i)
      PROVE  DisksInv'
  <2>1. machines' = machines /\ \A i : DiskList(i)' = DiskList(i)
    BY <1>3, DiskListFrame DEF placement
  <2> QED BY <1>1, <1>2, <1>3, <2>1 DEF DisksInv
<1>4. CASE CreateInventory
  <2> DEFINE m == machines[at]
             numbers(t) == index[t]..(index[t] + Counted(m)[t] - 1)
             ofTier(t) == {[name |-> <<t, k>>, base |-> BaseFor(m, t)] : k \in numbers(t)}
             controller == {[name |-> Controller.name, base |-> BaseFor(m, "cloud")] :
                              k \in 1..clouds[m].controller}
             list == controller \cup UNION {ofTier(t) : t \in Tiers}
  <2>1. /\ pc = "inventory" /\ pc' = "inventory" /\ UNCHANGED <<placement, bases>>
        /\ at <= Len(machines) /\ at' = at + 1 /\ disks' = [disks EXCEPT ![m] = list]
    BY <1>4 DEF CreateInventory, vars, placement
  <2>2. at \in DOMAIN machines /\ DOMAIN machines = 1..Len(machines) /\ Len(machines) \in Nat /\ m \in Hosts
    BY <1>1, <2>1, MachinesList DEF StageInv, Loop
  <2>3. list = DiskList(at)
    <3>1. clouds[m] = Clouds(m) /\ Counted(m) = Here(m)
      BY <1>1, <2>1, <2>2 DEF NamesInv, NamesOf, HasNames, Counted, Here
    <3>2. \A t \in Tiers : index[t] = Start(at, t)
      BY <1>1, <2>1 DEF StageInv
    <3> DEFINE named(t) == {[name |-> <<t, k>>, base |-> BaseFor(m, t)] :
                              k \in Start(at, t)..(Start(at, t) + Here(m)[t] - 1)}
    <3>3. \A t \in Tiers : ofTier(t) = named(t)
      BY <3>1, <3>2
    <3>4. DiskList(at) = {[name |-> Controller.name, base |-> BaseFor(m, "cloud")] : k \in 1..Clouds(m).controller}
                         \cup UNION {named(t) : t \in Tiers}
      BY DEF DiskList
    <3>5. controller = {[name |-> Controller.name, base |-> BaseFor(m, "cloud")] : k \in 1..Clouds(m).controller}
      BY <3>1
    <3> HIDE DEF ofTier, named, controller
    <3> QED BY <3>3, <3>4, <3>5
  <2> HIDE DEF list
  <2>4. disks'[m] = list /\ \A k \in Hosts \ {m} : disks'[k] = disks[k]
    BY <2>1, <2>2 DEF ListsInv
  <2>5. machines' = machines /\ \A i : DiskList(i)' = DiskList(i)
    BY <2>1, DiskListFrame DEF placement
  <2>6. ASSUME NEW i \in DOMAIN machines, HasDisks(i)' PROVE disks'[machines[i]] = DiskList(i)
    <3>1. CASE i = at
      BY <2>3, <2>4, <3>1
    <3>2. CASE i # at
      <4>1. HasDisks(i)
        BY <2>1, <2>2, <2>6, <3>2 DEF HasDisks
      <4>2. machines[i] \in Hosts \ {m}
        BY <2>1, <2>2, <3>2, MachinesList
      <4> QED BY <1>2, <2>4, <4>1, <4>2
    <3> QED BY <3>1, <3>2
  <2>7. ASSUME NEW n \in Hosts, \A i \in DOMAIN machines : HasDisks(i)' => machines[i] # n PROVE disks'[n] = {}
    <3>1. n # m /\ \A i \in DOMAIN machines : HasDisks(i) => machines[i] # n
      BY <2>1, <2>2, <2>7 DEF HasDisks
    <3> QED BY <1>2, <2>4, <3>1
  <2> QED BY <1>1, <2>5, <2>6, <2>7 DEF DisksInv
<1>5. ASSUME UNCHANGED disks, pc \in Unplaced \cup {"placed"}, pc' \in Unplaced \cup {"placed"}
      PROVE  DisksInv'
  BY <1>1, <1>2, <1>5 DEF DisksInv, HasDisks
<1>6. CASE SetIpNames
  BY <1>5, <1>6 DEF SetIpNames, vars
<1>7. CASE Place
  BY <1>5, <1>7 DEF Place, provision, Next, SkipTier, PlaceEqual, PlacePin, LeaveNode, Refuse, ScheduleDone, RemoveIdle
<1>8. CASE Generate
  BY <1>3, <1>8 DEF Generate, HasDisks, vars, placement
<1>9. CASE NextStage
  <2>1. \A i \in DOMAIN machines : pc = "inventory" => i < at
    <3>1. pc = "inventory" => Loop /\ at > Len(machines) /\ DOMAIN machines = 1..Len(machines) /\ Len(machines) \in Nat
      BY <1>1, <1>9, MachinesList DEF NextStage, StageInv
    <3> QED BY <3>1 DEF Loop
  <2>2. \A i \in DOMAIN machines : HasDisks(i)' <=> HasDisks(i)
    BY <1>9, <2>1 DEF NextStage, HasDisks
  <2> QED BY <1>3, <1>9, <2>2 DEF NextStage
<1>10. CASE UNCHANGED <<placement, at, bases, disks>> /\ pc' = pc
  BY <1>3, <1>10 DEF HasDisks
<1>11. CASE UNCHANGED <<placement, at, bases, disks>> /\ pc = "registry" /\ pc' = "inventory"
  <2>1. at = 1 /\ DOMAIN machines = 1..Len(machines) /\ Len(machines) \in Nat
    BY <1>1, <1>11, MachinesList DEF StageInv
  <2> QED BY <1>3, <1>11, <2>1 DEF HasDisks
<1>12. CASE UNCHANGED <<placement, at, bases, disks>> /\ pc \notin Unpinned /\ pc' \notin Unpinned
  BY <1>3, <1>12 DEF HasDisks
<1> QED BY <1>1, <1>4, <1>6, <1>7, <1>8, <1>9, <1>10, <1>11, <1>12, QemuSteps

\* The cores of each VM of a list.
CoresOf(s) == [j \in DOMAIN s |-> config.vmCores[TierOf(s[j])]]

\* The count of the cores handed out is the sum over the VMs before.
LEMMA StartCoreSum == \A s, k : StartCore(s, k) = Sum(CoresOf(s), 1..(k - 1))
  BY DEF StartCore, CoresOf, Sum

\* The same in the next state.
LEMMA StartCoreSumNext == (\A s, k : StartCore(s, k) = Sum(CoresOf(s), 1..(k - 1)))'
  BY StartCoreSum, PTL

\* The cores handed out depend on the VMs and the configuration.
LEMMA PinsOfFrame ==
    ASSUME config' = config, NEW s
    PROVE  PinsOf(s)' = PinsOf(s)
<1>1. ASSUME NEW k PROVE StartCore(s, k)' = StartCore(s, k)
  <2>1. CoresOf(s)' = CoresOf(s)
    BY DEF CoresOf
  <2> QED BY <2>1, StartCoreSum, StartCoreSumNext
<1> QED BY <1>1 DEF PinsOf

\* The domain files hand out the cores of one machine at a time.
LEMMA PinsStep ==
    /\ PlacementInv /\ CountInv /\ MachinesInv /\ ListsInv /\ StageInv /\ PinsInv
    /\ (PlacementInv /\ CountInv /\ MachinesInv)'
    /\ [InfrastructureNext]_everything
    => PinsInv'
<1> SUFFICES ASSUME PlacementInv, CountInv, MachinesInv, ListsInv, StageInv, PinsInv,
                    (PlacementInv /\ CountInv /\ MachinesInv)', [InfrastructureNext]_everything, Qemu'
             PROVE  PinsInv'
  BY DEF PinsInv
<1>1. Qemu /\ config' = config /\ Hosts' = Hosts
  BY ConfigKept
<1>2. /\ \A i \in DOMAIN machines : HasPins(i) => pins[machines[i]] = PinsOf(vms[machines[i]])
      /\ \A m \in Hosts : (\A i \in DOMAIN machines : HasPins(i) => machines[i] # m) => pins[m] = <<>>
  BY <1>1 DEF PinsInv
<1>3. \A s : PinsOf(s)' = PinsOf(s)
  BY <1>1, PinsOfFrame
<1> USE DEF Unplaced, Unnamed, Unlisted, Unpinned
<1>4. ASSUME UNCHANGED <<placement, vms, pins>>,
             \A i \in DOMAIN machines : HasPins(i)' <=> HasPins(i)
      PROVE  PinsInv'
  <2>1. machines' = machines /\ \A i : PinsOf(vms[machines[i]])' = PinsOf(vms[machines[i]])
    BY <1>3, <1>4 DEF placement
  <2> QED BY <1>1, <1>2, <1>4, <2>1 DEF PinsInv
<1>5. CASE Generate
  <2> DEFINE m == machines[at]
  <2>1. /\ pc = "generate" /\ pc' = "generate" /\ UNCHANGED <<placement, vms>>
        /\ at <= Len(machines) /\ at' = at + 1 /\ pins' = [pins EXCEPT ![m] = PinsOf(vms[m])]
    BY <1>5 DEF Generate, vars, placement, PinsOf
  <2>2. at \in DOMAIN machines /\ DOMAIN machines = 1..Len(machines) /\ Len(machines) \in Nat /\ m \in Hosts
    BY <1>1, <2>1, MachinesList DEF StageInv, Loop
  <2>3. pins'[m] = PinsOf(vms[m]) /\ \A k \in Hosts \ {m} : pins'[k] = pins[k]
    BY <2>1, <2>2 DEF ListsInv
  <2>4. machines' = machines /\ \A i : PinsOf(vms[machines[i]])' = PinsOf(vms[machines[i]])
    BY <1>3, <2>1 DEF placement
  <2>5. ASSUME NEW i \in DOMAIN machines, HasPins(i)' PROVE pins'[machines[i]] = PinsOf(vms[machines[i]])
    <3>1. CASE i = at
      BY <2>3, <3>1
    <3>2. CASE i # at
      <4>1. HasPins(i)
        BY <2>1, <2>2, <2>5, <3>2 DEF HasPins
      <4>2. machines[i] \in Hosts \ {m}
        BY <2>1, <2>2, <3>2, MachinesList
      <4> QED BY <1>2, <2>3, <4>1, <4>2
    <3> QED BY <3>1, <3>2
  <2>6. ASSUME NEW n \in Hosts, \A i \in DOMAIN machines : HasPins(i)' => machines[i] # n PROVE pins'[n] = <<>>
    <3>1. n # m /\ \A i \in DOMAIN machines : HasPins(i) => machines[i] # n
      BY <2>1, <2>2, <2>6 DEF HasPins
    <3> QED BY <1>2, <2>3, <3>1
  <2> QED BY <1>1, <2>4, <2>5, <2>6 DEF PinsInv
<1>6. ASSUME UNCHANGED pins, pc \in Unlisted, pc' \in Unlisted
      PROVE  PinsInv'
  BY <1>1, <1>2, <1>6 DEF PinsInv, HasPins
<1>7. CASE SetIpNames
  BY <1>6, <1>7 DEF SetIpNames, vars
<1>8. CASE Place
  BY <1>6, <1>8 DEF Place, provision, Next, SkipTier, PlaceEqual, PlacePin, LeaveNode, Refuse, ScheduleDone, RemoveIdle
<1>9. CASE CreateInventory
  BY <1>6, <1>9 DEF CreateInventory, vars
<1>10. CASE NextStage
  <2>1. /\ UNCHANGED <<placement, vms, pins>> /\ at' = 1 /\ at > Len(machines)
        /\ \/ pc = "placed" /\ pc' = "registry"
           \/ pc = "inventory" /\ pc' = "generate"
           \/ pc = "generate" /\ pc' = "base"
    BY <1>10 DEF NextStage
  <2>2. \A i \in DOMAIN machines : pc = "generate" => i < at
    <3>1. pc = "generate" => Loop /\ DOMAIN machines = 1..Len(machines) /\ Len(machines) \in Nat
      BY <1>1, MachinesList DEF StageInv
    <3> QED BY <2>1, <3>1 DEF Loop
  <2>3. \A i \in DOMAIN machines : ~(i < 1)
    <3>1. DOMAIN machines = 1..Len(machines) /\ Len(machines) \in Nat
      BY <2>1, MachinesList
    <3> QED BY <3>1
  <2>4. \A i \in DOMAIN machines : HasPins(i)' <=> HasPins(i)
    BY <2>1, <2>2, <2>3 DEF HasPins
  <2> QED BY <1>4, <2>1, <2>4
<1>11. CASE UNCHANGED <<placement, at, vms, pins>> /\ pc' = pc
  BY <1>4, <1>11 DEF HasPins
<1>12. CASE UNCHANGED <<placement, at, vms, pins>> /\ pc = "registry" /\ pc' = "inventory"
  BY <1>6, <1>12
<1>13. CASE UNCHANGED <<placement, at, vms, pins>> /\ pc \notin Unpinned /\ pc' \notin Unpinned
  BY <1>4, <1>13 DEF HasPins
<1> QED BY <1>1, <1>5, <1>7, <1>8, <1>9, <1>10, <1>11, <1>12, <1>13, QemuSteps

-----------------------------------------------------------------------------
(* The invariant as a whole *)

\* The invariant holds initially.
LEMMA IInvInit == InfrastructureInit => IInv
<1> SUFFICES ASSUME InfrastructureInit PROVE IInv
  OBVIOUS
<1>1. Init /\ MachinesInit /\ ProvisionInit
  BY DEF InfrastructureInit, ProvisionInit, MachinesInit
<1>2. pc \in {"pin", "equal"} /\ machines = <<>> /\ DOMAIN machines = {}
  BY <1>1 DEF Init
<1> USE DEF Unplaced, Unnamed, Unlisted, Unpinned
<1>3. PlacementInv /\ CountInv
  BY <1>1, PlacementInit, CountInit
<1>4. MachinesInv
  BY <1>2 DEF MachinesInv
<1>5. ListsInv
  BY <1>1 DEF MachinesInit, ProvisionInit, ListsInv
<1>6. StageInv
  BY <1>1, <1>2 DEF MachinesInit, ProvisionInit, StageInv
<1>7. NamesInv
  BY <1>1, <1>2 DEF MachinesInit, NamesInv
<1>8. DisksInv
  BY <1>1, <1>2 DEF ProvisionInit, DisksInv
<1>9. PinsInv
  BY <1>1, <1>2 DEF ProvisionInit, PinsInv
<1>10. LaunchInv
  BY <1>1, <1>2 DEF MachinesInit, LaunchInv
<1> QED BY <1>3, <1>4, <1>5, <1>6, <1>7, <1>8, <1>9, <1>10 DEF IInv

\* Each part is kept, some with the help of the parts before.
LEMMA IInvStep == IInv /\ [InfrastructureNext]_everything => IInv'
<1> SUFFICES ASSUME IInv, [InfrastructureNext]_everything PROVE IInv'
  OBVIOUS
<1>1. PlacementInv /\ CountInv /\ MachinesInv /\ ListsInv /\ StageInv /\ NamesInv /\ DisksInv /\ PinsInv /\ LaunchInv
  BY DEF IInv
<1>2. PlacementInv' /\ CountInv' /\ MachinesInv'
  BY <1>1, PlacementKept, CountStep, MachinesStep
<1>3. ListsInv' /\ LaunchInv'
  BY <1>1, ListsStep, LaunchStep
<1>4. StageInv' /\ NamesInv'
  BY <1>1, <1>2, StageStep, NamesStep
<1>5. DisksInv' /\ PinsInv'
  BY <1>1, <1>2, DisksStep, PinsStep
<1> QED BY <1>2, <1>3, <1>4, <1>5 DEF IInv

\* A VM that answers ssh-keyscan ends a wait and changes nothing else.
LEMMA AnswersChangeWaits == [WithAnswers]_<<everything, waits>> => [InfrastructureNext]_everything
  BY DEF WithAnswers, VmsAnswer

\* The inductive invariant holds in every reachable state.
THEOREM InfrastructureInvariant == InfrastructureSpec => []IInv
<1>1. IInv /\ [WithAnswers]_<<everything, waits>> => IInv'
  BY IInvStep, AnswersChangeWaits
<1> QED BY <1>1, IInvInit, PTL DEF InfrastructureSpec

\* The loads are the bounds that PinInv gives.
LEMMA WithinCoresHolds == PlacementInv => WithinCores
<1> SUFFICES ASSUME PlacementInv, config.cpu_pin, NEW m \in Hosts PROVE Load(m) <= config.cores[m]
  BY DEF WithinCores
<1>1. /\ Hosts = 1..Len(config.cores) /\ Len(config.cores) \in Nat
      /\ config.cores[m] \in Nat /\ node \in 1..(Len(config.cores) + 1) /\ left \in Nat
  BY ConfigType DEF PlacementInv, PlacementTypeOK
<1>2. Load(m) \in Nat
  BY LoadNat DEF PlacementInv
<1>3. /\ m = node => left + Load(m) = config.cores[m]
      /\ m > node => Load(m) = 0
      /\ m < node => Load(m) <= config.cores[m]
  BY DEF PlacementInv, PinInv
<1> QED BY <1>1, <1>2, <1>3

\* With cpu_pin, no machine is given VMs that need more cores than it has,
\* whatever the machines and the configuration.
THEOREM WithinCoresAlways == InfrastructureSpec => []WithinCores
<1>1. IInv => WithinCores
  BY WithinCoresHolds DEF IInv
<1> QED BY <1>1, InfrastructureInvariant, PTL

\* Placement by utilisation stays within one VM of the balance.
THEOREM BalancedAlways == InfrastructureSpec => []Balanced
<1>1. IInv => Balanced
  BY DEF IInv, PlacementInv
<1> QED BY <1>1, InfrastructureInvariant, PTL

\* When schedule_pin gives up, every machine lacks room for some VM of the
\* configuration.
THEOREM RefusedWhenFullAlways == InfrastructureSpec => []RefusedWhenFull
<1>1. ASSUME IInv PROVE RefusedWhenFull
  <2>1. SUFFICES ASSUME pc = "refused", NEW m \in Hosts PROVE Full(m)
    BY DEF RefusedWhenFull, Full
  <2>2. PlacementInv
    BY <1>1 DEF IInv
  <2>3. /\ Hosts = 1..Len(config.cores) /\ Len(config.cores) \in Nat
        /\ node \in 1..(Len(config.cores) + 1)
    BY <2>2, ConfigType DEF PlacementInv, PlacementTypeOK
  <2>4. config.cpu_pin /\ node > Len(config.cores)
    BY <2>1, <2>2 DEF PlacementInv, PinInv
  <2>5. m < node
    BY <2>3, <2>4
  <2> QED BY <2>2, <2>4, <2>5 DEF PlacementInv, PinInv
<1> QED BY <1>1, InfrastructureInvariant, PTL

\* No VM that runs is launched again, and all run when start_vms returns, for
\* QEMU and for Terraform.
THEOREM LaunchedOnceAlways == InfrastructureSpec => []LaunchedOnce
<1>1. IInv => LaunchedOnce
  BY DEF IInv, LaunchInv, LaunchedOnce
<1> QED BY <1>1, InfrastructureInvariant, PTL

-----------------------------------------------------------------------------
(* The names of the VMs *)

VmNames ==
    {vm \in [role : Tiers \cup {"controller"}, name : (Tiers \cup {"controller"}) \X Nat] :
        vm.name[1] = vm.role}

\* The names of two lists after each other.
LEMMA NamedConcat ==
    ASSUME NEW s \in Seq(VmNames), NEW r \in Seq(VmNames)
    PROVE  /\ s \o r \in Seq(VmNames) /\ Len(s \o r) = Len(s) + Len(r)
           /\ Len(s) \in Nat /\ Len(r) \in Nat
           /\ Named(s \o r) = Named(s) \cup Named(r)
           /\ \A k \in 1..Len(s) : (s \o r)[k] = s[k]
           /\ \A k \in 1..Len(r) : (s \o r)[Len(s) + k] = r[k]
<1>1. /\ Len(s) \in Nat /\ DOMAIN s = 1..Len(s) /\ Len(r) \in Nat /\ DOMAIN r = 1..Len(r)
  BY LenProperties
<1>2. /\ s \o r \in Seq(VmNames) /\ Len(s \o r) = Len(s) + Len(r)
      /\ \A k \in 1..(Len(s) + Len(r)) : (s \o r)[k] = IF k <= Len(s) THEN s[k] ELSE r[k - Len(s)]
  BY ConcatProperties
<1>3. DOMAIN (s \o r) = 1..(Len(s) + Len(r))
  BY <1>2, LenProperties
<1> DEFINE both == s \o r
<1> HIDE DEF both
<1>4. \A k \in 1..Len(s) : both[k] = s[k] /\ k \in DOMAIN both
  BY <1>1, <1>2, <1>3 DEF both
<1>5. ASSUME NEW k \in 1..Len(r) PROVE both[Len(s) + k] = r[k] /\ Len(s) + k \in DOMAIN both
  <2>1. /\ Len(s) + k \in 1..(Len(s) + Len(r)) /\ ~(Len(s) + k <= Len(s)) /\ Len(s) + k - Len(s) = k
    BY <1>1
  <2>2. both[Len(s) + k] = r[Len(s) + k - Len(s)]
    BY <1>2, <2>1 DEF both
  <2> QED BY <1>3, <2>1, <2>2 DEF both
<1>6. ASSUME NEW k \in DOMAIN both
      PROVE  both[k].name \in Named(s) \cup Named(r)
  <2>1. k \in 1..(Len(s) + Len(r))
    BY <1>3 DEF both
  <2>2. CASE k <= Len(s)
    BY <1>1, <1>4, <2>1, <2>2 DEF Named
  <2>3. CASE k > Len(s)
    <3>1. k - Len(s) \in DOMAIN r
      BY <1>1, <2>1, <2>3
    <3>2. both[k] = r[k - Len(s)]
      BY <1>1, <1>2, <2>1, <2>3 DEF both
    <3> QED BY <3>1, <3>2 DEF Named
  <2> QED BY <1>1, <2>1, <2>2, <2>3
<1>7. ASSUME NEW name \in Named(s) \cup Named(r)
      PROVE  name \in Named(both)
  <2>1. CASE \E k \in 1..Len(s) : name = s[k].name
    BY <1>4, <2>1 DEF Named
  <2>2. CASE \E k \in 1..Len(r) : name = r[k].name
    BY <1>5, <2>2 DEF Named
  <2> QED BY <1>1, <1>7, <2>1, <2>2 DEF Named
<1>8. Named(both) = Named(s) \cup Named(r)
  BY <1>6, <1>7 DEF Named
<1> QED BY <1>1, <1>2, <1>4, <1>5, <1>8 DEF both

\* The names of a tier from a number on.
LEMMA NamesAre ==
    ASSUME NEW t \in Tiers, NEW from \in Nat, NEW n \in Nat
    PROVE  /\ Names(t, from, n) \in Seq(VmNames) /\ Len(Names(t, from, n)) = n
           /\ \A k \in 1..n : Names(t, from, n)[k].role = t
           /\ Named(Names(t, from, n)) = {<<t, k>> : k \in from..(from + n - 1)}
<1> DEFINE s == Names(t, from, n)
<1>1. s = [k \in 1..n |-> [role |-> t, name |-> <<t, from + k - 1>>]]
  BY DEF Names
<1>2. \A k \in 1..n : from + k - 1 \in Nat /\ from + k - 1 \in from..(from + n - 1)
  OBVIOUS
<1>3. \A k \in 1..n : [role |-> t, name |-> <<t, from + k - 1>>] \in VmNames
  BY <1>2 DEF VmNames
<1>4. s \in [1..n -> VmNames]
  BY <1>1, <1>3
<1>5. s \in Seq(VmNames)
  BY <1>4, SeqDef
<1>6. DOMAIN s = 1..n /\ DOMAIN s = 1..Len(s) /\ Len(s) \in Nat
  BY <1>4, <1>5, LenProperties
<1>7. \A k \in 1..n : s[k].role = t /\ s[k].name = <<t, from + k - 1>>
  BY <1>1
<1> HIDE DEF s
<1>8. Len(s) = n
  BY <1>6
<1>9. ASSUME NEW k \in from..(from + n - 1) PROVE <<t, k>> \in Named(s)
  <2>1. k - from + 1 \in 1..n /\ from + (k - from + 1) - 1 = k
    OBVIOUS
  <2>2. s[k - from + 1].name = <<t, k>>
    BY <1>7, <2>1
  <2> QED BY <1>6, <2>1, <2>2 DEF Named
<1>10. Named(s) = {<<t, k>> : k \in from..(from + n - 1)}
  BY <1>2, <1>6, <1>7, <1>9 DEF Named
<1> QED BY <1>5, <1>7, <1>8, <1>10 DEF s

\* The VMs of a tier that are named on the i-th machine.
Numbers(i, t) == {<<t, k>> : k \in Start(i, t)..(Start(i + 1, t) - 1)}

\* A machine's list of names: the controller, the clouds, the edges and the
\* endpoints, each with the numbers that follow those of the machine before.
LEMMA NameListIs ==
    ASSUME PlacementInv, CountInv, MachinesInv, pc \notin Unplaced, NEW i \in DOMAIN machines
    PROVE  LET m == machines[i] IN
           /\ NameList(i) \in Seq(VmNames)
           /\ Len(NameList(i)) = Total(perMachine[m]) /\ DOMAIN NameList(i) = 1..Total(perMachine[m])
           /\ Named(NameList(i)) = (IF HasController(m) THEN {Controller.name} ELSE {})
                                   \cup Numbers(i, "cloud") \cup Numbers(i, "edge") \cup Numbers(i, "endpoint")
           /\ \A k \in 1..Total(perMachine[m]) :
                TierOf(NameList(i)[k]) =
                   IF k <= perMachine[m]["cloud"] THEN "cloud"
                   ELSE IF k <= perMachine[m]["cloud"] + perMachine[m]["edge"] THEN "edge" ELSE "endpoint"
<1> DEFINE m == machines[i]
           here == Here(m)
           first == IF HasController(m) THEN <<Controller>> ELSE <<>>
           s(t) == Names(t, Start(i, t), here[t])
           list2 == first \o s("cloud")
           list3 == list2 \o s("edge")
           one == IF HasController(m) THEN 1 ELSE 0
<1>1. /\ here \in [Tiers -> Nat] /\ \A t \in Tiers : perMachine[m][t] \in Nat
      /\ perMachine[m]["cloud"] = here["cloud"] + one
      /\ perMachine[m]["edge"] = here["edge"] /\ perMachine[m]["endpoint"] = here["endpoint"]
  BY HereType DEF Tiers
<1>2. \A t \in Tiers : Start(i, t) \in Nat /\ Start(i + 1, t) = Start(i, t) + here[t]
  <2>1. i \in 1..(Len(machines) + 1)
    BY MachinesList
  <2> QED BY <2>1, StartType
<1>3. NameList(i) = list3 \o s("endpoint")
  BY DEF NameList
<1>4. \A t \in Tiers : here[t] \in Nat
  BY <1>1
<1>5. "cloud" \in Tiers /\ "edge" \in Tiers /\ "endpoint" \in Tiers
  BY DEF Tiers
<1> HIDE DEF m, here
<1>6. ASSUME NEW t \in Tiers
      PROVE  /\ s(t) \in Seq(VmNames) /\ Len(s(t)) = here[t] /\ Named(s(t)) = Numbers(i, t)
             /\ \A k \in 1..here[t] : s(t)[k].role = t
  <2>1. Start(i + 1, t) - 1 = Start(i, t) + here[t] - 1
    BY <1>2, <1>4
  <2>2. /\ Names(t, Start(i, t), here[t]) \in Seq(VmNames) /\ Len(Names(t, Start(i, t), here[t])) = here[t]
        /\ \A k \in 1..here[t] : Names(t, Start(i, t), here[t])[k].role = t
        /\ Named(Names(t, Start(i, t), here[t])) = {<<t, k>> : k \in Start(i, t)..(Start(i, t) + here[t] - 1)}
    BY <1>2, <1>4, NamesAre
  <2> QED BY <2>1, <2>2 DEF Numbers
<1> HIDE DEF s
<1>7. /\ first \in Seq(VmNames) /\ Len(first) = one
      /\ Named(first) = (IF HasController(m) THEN {Controller.name} ELSE {})
      /\ \A k \in 1..one : first[k] = Controller
  <2>1. Controller \in VmNames
    BY DEF Controller, VmNames
  <2>2. CASE HasController(m)
    <3>1. first = <<Controller>> /\ one = 1
      BY <2>2
    <3>2. first \in Seq(VmNames) /\ Len(first) = 1 /\ first[1] = Controller /\ DOMAIN first = {1}
      BY <2>1, <3>1
    <3> HIDE DEF first
    <3>3. Named(first) = {Controller.name}
      BY <3>2 DEF Named
    <3> QED BY <2>2, <3>1, <3>2, <3>3
  <2>3. CASE ~HasController(m)
    <3>1. first = <<>> /\ one = 0
      BY <2>3
    <3>2. first \in Seq(VmNames) /\ Len(first) = 0 /\ DOMAIN first = {}
      BY <3>1, EmptySeq
    <3> HIDE DEF first
    <3>3. Named(first) = {}
      BY <3>2 DEF Named
    <3> QED BY <2>3, <3>1, <3>2, <3>3
  <2> QED BY <2>2, <2>3
<1> HIDE DEF first
<1>8. /\ list2 \in Seq(VmNames) /\ Len(list2) = one + here["cloud"]
      /\ Named(list2) = Named(first) \cup Numbers(i, "cloud")
      /\ \A k \in 1..one : list2[k] = first[k]
      /\ \A k \in 1..here["cloud"] : list2[one + k] = s("cloud")[k]
  <2>1. first \in Seq(VmNames) /\ s("cloud") \in Seq(VmNames)
    BY <1>5, <1>6, <1>7
  <2>2. /\ list2 \in Seq(VmNames) /\ Len(list2) = Len(first) + Len(s("cloud"))
        /\ Named(list2) = Named(first) \cup Named(s("cloud"))
        /\ \A k \in 1..Len(first) : list2[k] = first[k]
        /\ \A k \in 1..Len(s("cloud")) : list2[Len(first) + k] = s("cloud")[k]
    BY <2>1, NamedConcat
  <2> HIDE DEF list2
  <2> QED BY <1>5, <1>6, <1>7, <2>2
<1> HIDE DEF list2
<1>9. /\ list3 \in Seq(VmNames) /\ Len(list3) = one + here["cloud"] + here["edge"]
      /\ Named(list3) = Named(first) \cup Numbers(i, "cloud") \cup Numbers(i, "edge")
      /\ \A k \in 1..(one + here["cloud"]) : list3[k] = list2[k]
      /\ \A k \in 1..here["edge"] : list3[one + here["cloud"] + k] = s("edge")[k]
  <2>1. list2 \in Seq(VmNames) /\ s("edge") \in Seq(VmNames)
    BY <1>5, <1>6, <1>8
  <2>2. /\ list3 \in Seq(VmNames) /\ Len(list3) = Len(list2) + Len(s("edge"))
        /\ Named(list3) = Named(list2) \cup Named(s("edge"))
        /\ \A k \in 1..Len(list2) : list3[k] = list2[k]
        /\ \A k \in 1..Len(s("edge")) : list3[Len(list2) + k] = s("edge")[k]
    BY <2>1, NamedConcat
  <2> HIDE DEF list3
  <2> QED BY <1>5, <1>6, <1>8, <2>2
<1> HIDE DEF list3
<1> DEFINE c == one + here["cloud"]
           e == here["edge"]
           p == here["endpoint"]
           list == list3 \o s("endpoint")
<1>10. /\ list \in Seq(VmNames) /\ Len(list) = c + e + p
       /\ Named(list) = Named(first) \cup Numbers(i, "cloud") \cup Numbers(i, "edge") \cup Numbers(i, "endpoint")
       /\ \A k \in 1..(c + e) : list[k] = list3[k]
       /\ \A k \in 1..p : list[c + e + k] = s("endpoint")[k]
  <2>1. list3 \in Seq(VmNames) /\ s("endpoint") \in Seq(VmNames)
    BY <1>5, <1>6, <1>9
  <2>2. /\ list \in Seq(VmNames) /\ Len(list) = Len(list3) + Len(s("endpoint"))
        /\ Named(list) = Named(list3) \cup Named(s("endpoint"))
        /\ \A k \in 1..Len(list3) : list[k] = list3[k]
        /\ \A k \in 1..Len(s("endpoint")) : list[Len(list3) + k] = s("endpoint")[k]
    BY <2>1, NamedConcat
  <2> HIDE DEF list
  <2> QED BY <1>5, <1>6, <1>9, <2>2
<1>11. DOMAIN list = 1..Len(list)
  BY <1>10, LenProperties
<1>12. /\ c \in Nat /\ e \in Nat /\ p \in Nat /\ one \in {0, 1}
       /\ perMachine[m]["cloud"] = c /\ perMachine[m]["edge"] = e /\ perMachine[m]["endpoint"] = p
  BY <1>1, <1>4, <1>5
<1>13. Total(perMachine[m]) = c + e + p
  BY <1>12 DEF Total
<1> HIDE DEF list
<1>14. ASSUME NEW k \in 1..(c + e + p)
       PROVE  TierOf(list[k]) = IF k <= c THEN "cloud" ELSE IF k <= c + e THEN "edge" ELSE "endpoint"
  <2>1. CASE k <= one
    <3>1. list[k] = Controller /\ k <= c
      <4>1. k \in 1..one /\ k \in 1..(one + here["cloud"]) /\ k \in 1..(c + e)
        BY <1>4, <1>5, <1>12, <2>1
      <4> QED BY <1>7, <1>8, <1>9, <1>10, <4>1
    <3> QED BY <3>1 DEF Controller, TierOf
  <2>2. CASE ~(k <= one) /\ k <= c
    <3> DEFINE j == k - one
    <3>1. j \in 1..here["cloud"] /\ one + j = k /\ k \in 1..(one + here["cloud"]) /\ k \in 1..(c + e)
      BY <1>4, <1>5, <1>12, <2>2
    <3> HIDE DEF j
    <3>2. list[k] = s("cloud")[j] /\ s("cloud")[j].role = "cloud"
      BY <1>5, <1>6, <1>8, <1>9, <1>10, <3>1
    <3> QED BY <2>2, <3>2 DEF TierOf
  <2>3. CASE ~(k <= c) /\ k <= c + e
    <3> DEFINE j == k - c
    <3>1. j \in 1..here["edge"] /\ one + here["cloud"] + j = k /\ k \in 1..(c + e)
      BY <1>4, <1>5, <1>12, <2>3
    <3> HIDE DEF j
    <3>2. list[k] = s("edge")[j] /\ s("edge")[j].role = "edge"
      BY <1>5, <1>6, <1>9, <1>10, <3>1
    <3> QED BY <2>3, <3>2 DEF TierOf
  <2>4. CASE ~(k <= c) /\ ~(k <= c + e)
    <3> DEFINE j == k - (c + e)
    <3>1. j \in 1..p /\ c + e + j = k
      BY <1>12, <2>4
    <3> HIDE DEF j
    <3>2. list[k] = s("endpoint")[j] /\ s("endpoint")[j].role = "endpoint"
      BY <1>5, <1>6, <1>10, <3>1
    <3> QED BY <2>4, <3>2 DEF TierOf
  <2> QED BY <1>12, <2>1, <2>2, <2>3, <2>4
<1> QED BY <1>3, <1>7, <1>10, <1>11, <1>12, <1>13, <1>14 DEF m, list

\* As many VMs are named of a tier as the configuration has.
LEMMA EndOfNumbers ==
    ASSUME PlacementInv, CountInv, MachinesInv, pc \notin Unplaced, NEW t \in Tiers
    PROVE  Start(Len(machines) + 1, t) =
              config.nodes[t] - (IF t = "cloud" /\ HasController(machines[1]) THEN 1 ELSE 0)
<1> DEFINE n == Len(machines)
           D == DOMAIN machines
           G == [m \in Hosts |-> perMachine[m][t]]
           A == [j \in D |-> G[machines[j]]]
           F == [j \in D |-> Here(machines[j])[t]]
           C == [j \in D |-> IF t = "cloud" THEN Clouds(machines[j]).controller ELSE 0]
           one == IF t = "cloud" /\ HasController(machines[1]) THEN 1 ELSE 0
<1>1. /\ n \in Nat \ {0} /\ D = 1..n /\ 1 \in D /\ IsFiniteSet(D)
      /\ machines \in [D -> Hosts] /\ \A j \in D : InUse(machines[j])
      /\ \A m \in Hosts : InUse(m) => \E j \in D : machines[j] = m
      /\ \A j, k \in D : machines[j] = machines[k] => j = k
  <2>1. /\ n \in Nat \ {0} /\ D = 1..n
        /\ \A j \in D : machines[j] \in Hosts /\ InUse(machines[j])
        /\ \A m \in Hosts : InUse(m) => \E j \in D : machines[j] = m
        /\ \A j, k \in D : machines[j] = machines[k] => j = k
    BY MachinesList
  <2>2. machines \in [D -> Hosts]
    BY MachinesList
  <2>3. IsFiniteSet(1..n)
    BY <2>1, FS_Interval
  <2> QED BY <2>1, <2>2, <2>3
<1>2. /\ PlacementTypeOK /\ IsFiniteSet(Hosts) /\ \A m \in Hosts : perMachine[m][t] \in Nat
      /\ config.nodes[t] \in Nat
  BY HostsFinite DEF PlacementInv
<1>3. \A j \in D : /\ Here(machines[j])[t] \in Nat
                   /\ Clouds(machines[j]).controller = IF HasController(machines[j]) THEN 1 ELSE 0
                   /\ perMachine[machines[j]][t] =
                        Here(machines[j])[t] + (IF t = "cloud" THEN Clouds(machines[j]).controller ELSE 0)
  <2> SUFFICES ASSUME NEW j \in D
               PROVE  /\ Here(machines[j])[t] \in Nat
                      /\ Clouds(machines[j]).controller = IF HasController(machines[j]) THEN 1 ELSE 0
                      /\ perMachine[machines[j]][t] =
                           Here(machines[j])[t] + (IF t = "cloud" THEN Clouds(machines[j]).controller ELSE 0)
    OBVIOUS
  <2>1. /\ Here(machines[j]) \in [Tiers -> Nat]
        /\ Clouds(machines[j]).controller = IF HasController(machines[j]) THEN 1 ELSE 0
        /\ perMachine[machines[j]]["cloud"] = Here(machines[j])["cloud"] + Clouds(machines[j]).controller
        /\ \A u \in Tiers \ {"cloud"} : Here(machines[j])[u] = perMachine[machines[j]][u]
    BY HereType
  <2>2. CASE t = "cloud"
    BY <2>1, <2>2
  <2>3. CASE t # "cloud"
    BY <2>1, <2>3
  <2> QED BY <2>2, <2>3
<1>4. \A j \in D : HasController(machines[j]) => j = 1
  BY <1>1 DEF HasController
<1>5. /\ G \in [Hosts -> Nat] /\ A \in [D -> Nat] /\ F \in [D -> Nat] /\ C \in [D -> Nat]
      /\ \A m \in Hosts : G[m] = perMachine[m][t]
      /\ \A j \in D : A[j] = F[j] + C[j]
      /\ \A j \in D : C[j] = IF j = 1 THEN one ELSE 0
  <2>1. G \in [Hosts -> Nat] /\ \A m \in Hosts : G[m] = perMachine[m][t]
    BY <1>2
  <2>2. A \in [D -> Nat] /\ \A j \in D : A[j] = perMachine[machines[j]][t]
    BY <1>1, <2>1
  <2>3. F \in [D -> Nat] /\ \A j \in D : F[j] = Here(machines[j])[t]
    BY <1>3
  <2>4. \A j \in D : C[j] = IF j = 1 THEN one ELSE 0
    BY <1>1, <1>3, <1>4
  <2>5. C \in [D -> Nat]
    BY <2>4
  <2>6. \A j \in D : C[j] = IF t = "cloud" THEN Clouds(machines[j]).controller ELSE 0
    OBVIOUS
  <2> HIDE DEF G, A, F, C, one
  <2>7. \A j \in D : A[j] = F[j] + C[j]
    BY <1>3, <2>2, <2>3, <2>6
  <2> QED BY <2>1, <2>2, <2>3, <2>4, <2>5, <2>7
<1>6. Start(n + 1, t) = Sum(F, D)
  <2>1. 1..(n + 1 - 1) = D
    BY <1>1
  <2> QED BY <2>1 DEF Start
<1>7. Placed(t) = Sum(G, Hosts) /\ Placed(t) = config.nodes[t]
  <2>1. toGo[t] = 0 /\ Placed(t) + toGo[t] = config.nodes[t] /\ Placed(t) \in Nat
    BY <1>2, PlacedType DEF CountInv, Unplaced
  <2> QED BY <2>1 DEF Placed
<1>8. Sum(A, D) = Sum(G, {machines[j] : j \in D})
  <2>1. /\ IsFiniteSet(Hosts) /\ G \in [Hosts -> Nat] /\ IsFiniteSet(D) /\ machines \in [D -> Hosts]
        /\ \A j, k \in D : machines[j] = machines[k] => j = k
    BY <1>1, <1>2, <1>5
  <2> HIDE DEF G, D
  <2> QED BY <2>1, SumAlong
<1> HIDE DEF G, A, F, C, D, one
<1>9. Sum(A, D) = Sum(F, D) + Sum(C, D)
  <2>1. /\ IsFiniteSet(D) /\ F \in [D -> Nat] /\ C \in [D -> Nat] /\ A \in [D -> Nat]
        /\ \A j \in D : A[j] = F[j] + C[j]
    BY <1>1, <1>5
  <2> QED BY <2>1, SumAdd
<1>10. Sum(G, {machines[j] : j \in D}) = Sum(G, Hosts)
  <2> DEFINE U == {machines[j] : j \in D}
  <2>1. U \in SUBSET Hosts /\ Hosts \in SUBSET Hosts
    BY <1>1
  <2>2. ASSUME NEW m \in Hosts \ U PROVE G[m] = 0
    <3>1. ~InUse(m)
      BY <1>1
    <3>2. ~(perMachine[m][t] > 0)
      BY <1>2, <3>1, InUseMeans
    <3> QED BY <1>2, <1>5, <3>2
  <2> HIDE DEF U
  <2>3. Sum(G, U) = Sum(G, Hosts)
    BY <1>2, <1>5, <2>1, <2>2, SumSame
  <2> QED BY <2>3 DEF U
<1>11. Sum(C, D) = one
  <2> DEFINE R == D \ {1}
  <2>1. R \in SUBSET D /\ 1 \in D \ R /\ R \cup {1} = D /\ \A j \in R : C[j] = 0
    BY <1>1, <1>5
  <2> HIDE DEF R
  <2>5. IsFiniteSet(D) /\ C \in [D -> Nat]
    BY <1>1, <1>5
  <2>2. Sum(C, R) = 0
    BY <2>1, <2>5, SumPositive
  <2>3. Sum(C, R \cup {1}) = Sum(C, R) + C[1]
    BY <2>1, <2>5, SumOverSet
  <2>4. C[1] = one /\ one \in Nat
    BY <1>1, <1>5 DEF one
  <2> QED BY <2>1, <2>2, <2>3, <2>4
<1>12. Sum(F, D) \in Nat /\ one \in Nat
  <2>1. D \in SUBSET D
    OBVIOUS
  <2> QED BY <1>1, <1>5, <2>1, SumOverSet DEF one
<1>13. Start(n + 1, t) = config.nodes[t] - one
  BY <1>2, <1>6, <1>7, <1>8, <1>9, <1>10, <1>11, <1>12
<1> QED BY <1>13 DEF one

\* The numbers of the machines follow on each other.
LEMMA NumbersCover ==
    ASSUME PlacementInv, CountInv, MachinesInv, pc \notin Unplaced, NEW t \in Tiers
    PROVE  UNION {Numbers(i, t) : i \in DOMAIN machines} = {<<t, k>> : k \in 0..(Start(Len(machines) + 1, t) - 1)}
<1> DEFINE n == Len(machines)
           first(i) == Start(i, t)
<1>1. /\ n \in Nat \ {0} /\ DOMAIN machines = 1..n /\ first(1) = 0
      /\ \A i \in 1..(n + 1) : first(i) \in Nat
      /\ \A i, j \in 1..(n + 1) : i <= j => first(i) <= first(j)
  BY StartType, MachinesList
<1>2. \A i \in 1..n : Numbers(i, t) = {<<t, k>> : k \in first(i)..(first(i + 1) - 1)}
  BY DEF Numbers
<1> HIDE DEF n, first
<1>3. ASSUME NEW i \in 1..n, NEW k \in first(i)..(first(i + 1) - 1) PROVE k \in 0..(first(n + 1) - 1)
  <2>1. i \in 1..(n + 1) /\ i + 1 \in 1..(n + 1) /\ n + 1 \in 1..(n + 1) /\ i + 1 <= n + 1
    BY <1>1
  <2>2. first(i) \in Nat /\ first(i + 1) \in Nat /\ first(n + 1) \in Nat /\ first(i + 1) <= first(n + 1)
    BY <1>1, <2>1
  <2> QED BY <2>2
<1>4. ASSUME NEW k \in 0..(first(n + 1) - 1) PROVE \E i \in 1..n : k \in first(i)..(first(i + 1) - 1)
  <2> DEFINE S == {j \in 1..(n + 1) : k < first(j)}
  <2>1. n + 1 \in 1..(n + 1) /\ first(n + 1) \in Nat
    BY <1>1
  <2>2. S \in SUBSET Nat /\ n + 1 \in S
    BY <2>1
  <2>3. PICK j \in S : \A y \in S : j <= y
    <3> HIDE DEF S
    <3> QED BY <2>2, LeastNatural
  <2>4. j \in 1..(n + 1) /\ k < first(j) /\ k \in Nat /\ first(j) \in Nat
    BY <1>1, <2>1, <2>3
  <2>5. j # 1
    BY <1>1, <2>4
  <2> DEFINE i == j - 1
  <2>6. i \in 1..n /\ i \in 1..(n + 1) /\ i < j /\ i + 1 = j /\ i \in Nat /\ j \in Nat
    BY <1>1, <2>4, <2>5
  <2> HIDE DEF i
  <2>7. ~(k < first(i))
    BY <2>3, <2>6
  <2>8. first(i) \in Nat
    BY <1>1, <2>6
  <2> QED BY <2>4, <2>6, <2>7, <2>8
<1>5. ASSUME NEW x PROVE (\E i \in 1..n : x \in Numbers(i, t)) <=> x \in {<<t, k>> : k \in 0..(first(n + 1) - 1)}
  BY <1>2, <1>3, <1>4
<1> QED BY <1>1, <1>5 DEF n, first

\* The machines have as many VMs together as the configuration.
LEMMA PlacedInTotal ==
    ASSUME PlacementInv, CountInv, pc \notin Unplaced
    PROVE  Sum([m \in Hosts |-> Total(perMachine[m])], Hosts) = Total(config.nodes)
<1> DEFINE cloud == [m \in Hosts |-> perMachine[m]["cloud"]]
           edge == [m \in Hosts |-> perMachine[m]["edge"]]
           endpoint == [m \in Hosts |-> perMachine[m]["endpoint"]]
           two == [m \in Hosts |-> perMachine[m]["cloud"] + perMachine[m]["edge"]]
           F == [m \in Hosts |-> Total(perMachine[m])]
<1>1. /\ PlacementTypeOK /\ IsFiniteSet(Hosts) /\ \A m \in Hosts, t \in Tiers : perMachine[m][t] \in Nat
  BY HostsFinite DEF PlacementInv
<1>2. "cloud" \in Tiers /\ "edge" \in Tiers /\ "endpoint" \in Tiers
  BY DEF Tiers
<1>3. \A m \in Hosts : /\ perMachine[m]["cloud"] \in Nat /\ perMachine[m]["edge"] \in Nat
                       /\ perMachine[m]["endpoint"] \in Nat
  BY <1>1, <1>2
<1>4. /\ cloud \in [Hosts -> Nat] /\ edge \in [Hosts -> Nat] /\ endpoint \in [Hosts -> Nat]
      /\ two \in [Hosts -> Nat]
      /\ \A m \in Hosts : two[m] = cloud[m] + edge[m]
  BY <1>3
<1>5. F \in [Hosts -> Nat] /\ \A m \in Hosts : F[m] = two[m] + endpoint[m]
  BY <1>3 DEF Total
<1>6. \A t \in Tiers : Placed(t) = config.nodes[t]
  <2> SUFFICES ASSUME NEW t \in Tiers PROVE Placed(t) = config.nodes[t]
    OBVIOUS
  <2>1. toGo[t] = 0 /\ Placed(t) + toGo[t] = config.nodes[t] /\ Placed(t) \in Nat
    BY <1>1, PlacedType DEF CountInv, Unplaced
  <2>2. config.nodes[t] \in Nat
    BY <1>1, HostsFinite
  <2> QED BY <2>1, <2>2
<1>7. /\ Sum(cloud, Hosts) = config.nodes["cloud"] /\ Sum(edge, Hosts) = config.nodes["edge"]
      /\ Sum(endpoint, Hosts) = config.nodes["endpoint"]
  BY <1>2, <1>6 DEF Placed
<1> HIDE DEF cloud, edge, endpoint, two, F
<1>8. Sum(two, Hosts) = Sum(cloud, Hosts) + Sum(edge, Hosts)
  <2>1. /\ IsFiniteSet(Hosts) /\ cloud \in [Hosts -> Nat] /\ edge \in [Hosts -> Nat]
        /\ two \in [Hosts -> Nat] /\ \A m \in Hosts : two[m] = cloud[m] + edge[m]
    BY <1>1, <1>4
  <2> QED BY <2>1, SumAdd
<1>9. Sum(F, Hosts) = Sum(two, Hosts) + Sum(endpoint, Hosts)
  <2>1. /\ IsFiniteSet(Hosts) /\ two \in [Hosts -> Nat] /\ endpoint \in [Hosts -> Nat]
        /\ F \in [Hosts -> Nat] /\ \A m \in Hosts : F[m] = two[m] + endpoint[m]
    BY <1>1, <1>4, <1>5
  <2> QED BY <2>1, SumAdd
<1> QED BY <1>8, <1>9, <1>7 DEF Total, F

\* The VMs on the machines are those of the configuration in number.
LEMMA AllVmsCounted ==
    ASSUME PlacementInv, CountInv, pc \notin Unplaced,
           \A m \in Hosts : DOMAIN vms[m] = 1..Total(perMachine[m])
    PROVE  Cardinality(AllVms) = Total(config.nodes)
<1> DEFINE F == [m \in Hosts |-> Total(perMachine[m])]
<1>1. PlacementTypeOK /\ IsFiniteSet(Hosts) /\ perMachine \in [Hosts -> [Tiers -> Nat]]
  BY HostsFinite DEF PlacementInv, PlacementTypeOK
<1>2. F \in [Hosts -> Nat]
  BY <1>1, TotalZero
<1>3. \A m \in Hosts : F[m] = Total(perMachine[m])
  OBVIOUS
<1>4. Sum(F, Hosts) = Total(config.nodes)
  BY PlacedInTotal
<1> HIDE DEF F
<1>5. Hosts \in SUBSET Hosts
  OBVIOUS
<1>6. Sum(F, Hosts) \in Nat /\ Sum(F, Hosts) = Cardinality(Units(F, Hosts))
  BY <1>1, <1>2, <1>5, SumOverSet, SumIsUnits
<1>7. ASSUME NEW m \in Hosts PROVE F[m] <= Total(config.nodes)
  <2> DEFINE none == {}
  <2>1. {m} \in SUBSET Hosts /\ none \in SUBSET Hosts /\ m \in Hosts \ none /\ none \cup {m} = {m}
    OBVIOUS
  <2>5. IsFiniteSet(Hosts) /\ F \in [Hosts -> Nat] /\ F[m] \in Nat
    BY <1>1, <1>2
  <2>6. Sum(F, none) = 0
    BY <2>1, <2>5, SumOverSet
  <2> HIDE DEF none
  <2>2. Sum(F, none \cup {m}) = Sum(F, none) + F[m]
    BY <2>1, <2>5, SumOverSet
  <2>3. Sum(F, {m}) = F[m]
    <3>1. Sum(F, {m}) = Sum(F, none) + F[m]
      BY <2>1, <2>2
    <3> QED BY <2>5, <2>6, <3>1
  <2>4. Sum(F, {m}) <= Sum(F, Hosts)
    BY <1>5, <2>1, <2>5, SumMonotone
  <2> QED BY <1>4, <2>3, <2>4
<1>8. AllVms = Units(F, Hosts)
  <2>1. \A m \in Hosts, k \in Nat : k \in 1..F[m] => k \in 1..Total(config.nodes)
    BY <1>2, <1>4, <1>6, <1>7
  <2>2. \A m \in Hosts : DOMAIN vms[m] = 1..F[m]
    BY <1>3
  <2>3. \A k \in 1..Total(config.nodes) : k \in Nat
    BY <1>4, <1>6
  <2>4. \A u \in AllVms : u \in Hosts \X Nat /\ u[2] \in 1..F[u[1]]
    BY <2>2, <2>3 DEF AllVms, Places
  <2>5. \A u \in Hosts \X Nat : u[2] \in 1..F[u[1]] => u \in AllVms
    BY <2>1, <2>2 DEF AllVms, Places
  <2> QED BY <2>4, <2>5 DEF Units, AllVms, Places
<1> QED BY <1>4, <1>6, <1>8

\* When the loop of set_ip_names is done the lists of the machines are the
\* lists of names.
LEMMA ListsAre ==
    ASSUME IInv, Qemu, pc \notin Unnamed
    PROVE  /\ \A i \in DOMAIN machines : LET m == machines[i] IN
                 /\ m \in Hosts
                 /\ DOMAIN vms[m] = 1..Total(perMachine[m])
                 /\ DOMAIN vms[m] = DOMAIN NameList(i)
                 /\ Named(vms[m]) = Named(NameList(i))
                 /\ \A k \in DOMAIN vms[m] : TierOf(vms[m][k]) = TierOf(NameList(i)[k])
           /\ \A m \in Hosts : \/ \E i \in DOMAIN machines : machines[i] = m
                               \/ vms[m] = <<>> /\ Total(perMachine[m]) = 0
<1>1. PlacementInv /\ CountInv /\ MachinesInv /\ NamesInv /\ pc \notin Unplaced
  BY DEF IInv, Unnamed
<1>2. ASSUME NEW i \in DOMAIN machines
      PROVE  LET m == machines[i] IN
                 /\ m \in Hosts
                 /\ DOMAIN vms[m] = 1..Total(perMachine[m])
                 /\ DOMAIN vms[m] = DOMAIN NameList(i)
                 /\ Named(vms[m]) = Named(NameList(i))
                 /\ \A k \in DOMAIN vms[m] : TierOf(vms[m][k]) = TierOf(NameList(i)[k])
  <2> DEFINE m == machines[i]
  <2>1. NamesOf(i) /\ m \in Hosts
    BY <1>1, MachinesList DEF NamesInv, HasNames
  <2>2. DOMAIN NameList(i) = 1..Total(perMachine[m])
    BY <1>1, NameListIs
  <2>3. /\ DOMAIN vms[m] = DOMAIN NameList(i)
        /\ \A k \in DOMAIN vms[m] : /\ vms[m][k].role = NameList(i)[k].role
                                    /\ vms[m][k].name = NameList(i)[k].name
    BY <2>1 DEF NamesOf
  <2> HIDE DEF m
  <2>4. Named(vms[m]) = Named(NameList(i))
    BY <2>3 DEF Named
  <2>5. \A k \in DOMAIN vms[m] : TierOf(vms[m][k]) = TierOf(NameList(i)[k])
    BY <2>3 DEF TierOf
  <2> QED BY <2>1, <2>2, <2>3, <2>4, <2>5 DEF m
<1>3. ASSUME NEW m \in Hosts, \A i \in DOMAIN machines : machines[i] # m
      PROVE  vms[m] = <<>> /\ Total(perMachine[m]) = 0
  <2>1. vms[m] = <<>>
    BY <1>1, <1>3 DEF NamesInv
  <2>2. ~InUse(m) /\ perMachine[m] \in [Tiers -> Nat]
    BY <1>1, <1>3, MachinesList DEF PlacementInv, PlacementTypeOK
  <2> QED BY <2>1, <2>2, TotalZero DEF InUse
<1> QED BY <1>2, <1>3

\* The numbers of all machines together have no gap and no number twice.
LEMMA NamedHolds == IInv => EveryVmNamed
<1> SUFFICES ASSUME IInv, Qemu, pc \in {"registry", "inventory", "generate", "base", "launch", "running"}
             PROVE  EveryVmNamed
  BY DEF EveryVmNamed
<1>1. /\ PlacementInv /\ CountInv /\ MachinesInv /\ pc \notin Unplaced /\ pc \notin Unnamed
  BY DEF IInv, Unnamed, Unplaced
<1> DEFINE n == Len(machines)
           needed == \E m \in Hosts : HasController(m)
           one == IF needed THEN 1 ELSE 0
           numbered(t, k) == {<<t, j>> : j \in 0..(k - 1)}
           end(t) == Start(n + 1, t)
<1>2. n \in Nat \ {0} /\ DOMAIN machines = 1..n /\ 1 \in DOMAIN machines /\ machines[1] \in Hosts
  BY <1>1, MachinesList
<1>3. /\ \A i \in DOMAIN machines : /\ machines[i] \in Hosts
                                    /\ DOMAIN vms[machines[i]] = 1..Total(perMachine[machines[i]])
                                    /\ Named(vms[machines[i]]) = Named(NameList(i))
      /\ \A m \in Hosts : \/ \E i \in DOMAIN machines : machines[i] = m
                          \/ vms[m] = <<>> /\ Total(perMachine[m]) = 0
  BY <1>1, ListsAre
<1>4. /\ needed <=> HasController(machines[1])
      /\ \A i \in DOMAIN machines : HasController(machines[i]) <=> (i = 1 /\ needed)
  <2>1. \A m \in Hosts : HasController(m) => m = machines[1]
    BY DEF HasController
  <2>2. \A i \in DOMAIN machines : machines[i] = machines[1] => i = 1
    BY <1>1, <1>2, MachinesList
  <2> QED BY <1>2, <1>3, <2>1, <2>2
<1>5. /\ end("cloud") = config.nodes["cloud"] - one
      /\ end("edge") = config.nodes["edge"] /\ end("endpoint") = config.nodes["endpoint"]
  <2>1. \A t \in Tiers : end(t) = config.nodes[t] - (IF t = "cloud" /\ HasController(machines[1]) THEN 1 ELSE 0)
    BY <1>1, EndOfNumbers
  <2>2. \A t \in Tiers : config.nodes[t] \in Nat
    BY <1>1, HostsFinite DEF PlacementInv
  <2> HIDE DEF end
  <2> QED BY <1>4, <2>1, <2>2 DEF Tiers
<1>6. \A t \in Tiers : UNION {Numbers(i, t) : i \in DOMAIN machines} = numbered(t, end(t))
  BY <1>1, NumbersCover
<1>7. \A i \in DOMAIN machines :
        Named(NameList(i)) = (IF i = 1 /\ needed THEN {Controller.name} ELSE {})
                             \cup Numbers(i, "cloud") \cup Numbers(i, "edge") \cup Numbers(i, "endpoint")
  BY <1>1, <1>4, NameListIs
<1>8. numbered("controller", one) = IF needed THEN {Controller.name} ELSE {}
  <2>1. 0..(1 - 1) = {0} /\ 0..(0 - 1) = {}
    OBVIOUS
  <2>2. CASE needed
    <3>1. one = 1
      BY <2>2
    <3> QED BY <2>1, <2>2, <3>1 DEF Controller
  <2>3. CASE ~needed
    <3>1. one = 0
      BY <2>3
    <3> QED BY <2>1, <2>3, <3>1
  <2> QED BY <2>2, <2>3
<1>9. UNION {Named(vms[m]) : m \in Hosts} =
         numbered("controller", one) \cup numbered("cloud", end("cloud")) \cup numbered("edge", end("edge"))
         \cup numbered("endpoint", end("endpoint"))
  <2> DEFINE controller == IF needed THEN {Controller.name} ELSE {}
             every(t) == UNION {Numbers(i, t) : i \in DOMAIN machines}
             list(i) == Named(NameList(i))
  <2>1. Named(<<>>) = {}
    BY DEF Named
  <2> HIDE DEF needed, numbered, end, one
  <2>2. UNION {Named(vms[m]) : m \in Hosts} = UNION {list(i) : i \in DOMAIN machines}
    BY <1>3, <2>1
  <2>3. \A i \in DOMAIN machines :
           list(i) = (IF i = 1 THEN controller ELSE {})
                     \cup Numbers(i, "cloud") \cup Numbers(i, "edge") \cup Numbers(i, "endpoint")
    BY <1>7
  <2>4. every("cloud") = numbered("cloud", end("cloud")) /\ every("edge") = numbered("edge", end("edge"))
        /\ every("endpoint") = numbered("endpoint", end("endpoint"))
    BY <1>6 DEF Tiers
  <2>5. numbered("controller", one) = controller
    BY <1>8
  <2> HIDE DEF controller, list
  <2>6. UNION {list(i) : i \in DOMAIN machines} =
           controller \cup every("cloud") \cup every("edge") \cup every("endpoint")
    BY <1>2, <2>3
  <2> HIDE DEF every
  <2> QED BY <2>2, <2>4, <2>5, <2>6
<1>10. Cardinality(AllVms) = Total(config.nodes)
  <2>1. ASSUME NEW m \in Hosts PROVE DOMAIN vms[m] = 1..Total(perMachine[m])
    <3>1. CASE vms[m] = <<>> /\ Total(perMachine[m]) = 0
      BY <3>1
    <3> QED BY <1>3, <3>1
  <2> QED BY <1>1, <2>1, AllVmsCounted
<1>11. needed => Controller.name \in Named(vms[machines[1]])
  BY <1>2, <1>3, <1>7
<1> HIDE DEF needed
<1> QED BY <1>5, <1>9, <1>10, <1>11 DEF EveryVmNamed, needed

-----------------------------------------------------------------------------
(* The disks are those of the VMs *)

\* No machine has more VMs of a tier than the configuration.
LEMMA PartOfAll ==
    ASSUME PlacementInv, CountInv, pc \notin Unplaced, NEW m \in Hosts, NEW t \in Tiers
    PROVE  perMachine[m][t] \in Nat /\ config.nodes[t] \in Nat /\ perMachine[m][t] <= config.nodes[t]
<1> DEFINE F == [h \in Hosts |-> perMachine[h][t]]
           none == {}
<1>1. /\ IsFiniteSet(Hosts) /\ \A h \in Hosts : perMachine[h][t] \in Nat
      /\ config.nodes[t] \in Nat
  BY HostsFinite DEF PlacementInv
<1>2. Placed(t) = Sum(F, Hosts) /\ Placed(t) + toGo[t] = config.nodes[t] /\ toGo[t] = 0
  BY DEF Placed, CountInv, Unplaced
<1>3. F \in [Hosts -> Nat] /\ F[m] = perMachine[m][t]
  BY <1>1
<1> HIDE DEF F
<1>4. {m} \in SUBSET Hosts /\ none \in SUBSET Hosts /\ m \in Hosts \ none /\ none \cup {m} = {m} /\ F[m] \in Nat
  BY <1>1, <1>3
<1>5. Sum(F, none) = 0
  BY <1>1, <1>3, <1>4, SumOverSet
<1> HIDE DEF none
<1>8. Sum(F, none \cup {m}) = Sum(F, none) + F[m]
  BY <1>1, <1>3, <1>4, SumOverSet
<1>6. Sum(F, {m}) <= Sum(F, Hosts) /\ Sum(F, Hosts) \in Nat
  <2> DEFINE A == Hosts
  <2>1. A \in SUBSET A /\ {m} \in SUBSET A /\ F \in [A -> Nat] /\ IsFiniteSet(A)
    BY <1>1, <1>3, <1>4
  <2> HIDE DEF A
  <2>2. Sum(F, {m}) <= Sum(F, A)
    BY <2>1, SumMonotone
  <2>3. Sum(F, A) \in Nat
    BY <2>1, SumOverSet
  <2> QED BY <2>2, <2>3 DEF A
<1>7. Sum(F, {m}) = F[m]
  <2>1. Sum(F, {m}) = Sum(F, none) + F[m]
    BY <1>4, <1>8
  <2> QED BY <1>4, <1>5, <2>1
<1> QED BY <1>1, <1>2, <1>3, <1>6, <1>7

\* The base images of a machine are named for its tiers, or there is one.
LEMMA BaseNamesAre ==
    ASSUME IInv, Qemu, pc \notin Unnamed, NEW i \in DOMAIN machines
    PROVE  LET m == machines[i] IN
           /\ config.infra_only => DOMAIN bases[m] = {1} /\ bases[m][1].name = <<"base", i>>
           /\ ~config.infra_only =>
                 /\ \A k \in DOMAIN bases[m] :
                       \E t \in Tiers : perMachine[m][t] > 0 /\ bases[m][k].name = <<BaseWord[t], i>>
                 /\ \A t \in Tiers : perMachine[m][t] > 0 =>
                       \E k \in DOMAIN bases[m] : bases[m][k].name = <<BaseWord[t], i>>
                 /\ \A j, k \in DOMAIN bases[m] : bases[m][j].name[1] = bases[m][k].name[1] => j = k
           /\ DOMAIN bases[m] \subseteq 1..Total(config.nodes)
<1> DEFINE m == machines[i]
           S == {u \in Tiers : perMachine[m][u] > 0}
           here == InOrder(S, TierOrder)
           n == Cardinality(S)
           total == Total(config.nodes)
<1>1. NamesOf(i) /\ m \in Hosts /\ PlacementInv /\ CountInv /\ pc \notin Unplaced
  BY MachinesList DEF IInv, NamesInv, HasNames, Unnamed
<1>2. /\ DOMAIN bases[m] = DOMAIN BaseImages(i)
      /\ \A k \in DOMAIN bases[m] : bases[m][k].name = BaseImages(i)[k]
  BY <1>1 DEF NamesOf
<1>3. total \in Nat /\ total > 0
  BY <1>1, ConfigType, TotalZero, AcceptedConfig DEF PlacementInv, PlacementTypeOK
<1>4. CASE config.infra_only
  <2>1. BaseImages(i) = <<<<"base", i>>>> /\ DOMAIN BaseImages(i) = {1} /\ BaseImages(i)[1] = <<"base", i>>
    BY <1>4 DEF BaseImages
  <2>2. DOMAIN bases[m] = {1} /\ bases[m][1].name = <<"base", i>> /\ 1 \in 1..total
    BY <1>2, <1>3, <2>1
  <2> QED BY <1>4, <2>2 DEF m, total
<1>5. CASE ~config.infra_only
  <2>1. IsFiniteSet(S) /\ n \in Nat /\ n <= total
    <3> DEFINE T(t) == {u \in {t} : perMachine[m][u] > 0}
    <3>1. \A t \in Tiers : perMachine[m][t] \in Nat /\ config.nodes[t] \in Nat /\ perMachine[m][t] <= config.nodes[t]
      BY <1>1, PartOfAll
    <3>2. ASSUME NEW t \in Tiers
          PROVE  IsFiniteSet(T(t)) /\ Cardinality(T(t)) \in Nat /\ Cardinality(T(t)) <= config.nodes[t]
      <4>1. CASE perMachine[m][t] > 0
        <5>1. T(t) = {t}
          BY <4>1
        <5>2. IsFiniteSet({t}) /\ Cardinality({t}) = 1
          BY FS_Singleton
        <5> HIDE DEF T
        <5> QED BY <3>1, <4>1, <5>1, <5>2
      <4>2. CASE ~(perMachine[m][t] > 0)
        <5>1. T(t) = {}
          BY <4>2
        <5> HIDE DEF T
        <5> QED BY <3>1, <5>1, FS_EmptySet
      <4> QED BY <4>1, <4>2
    <3>3. S = T("cloud") \cup (T("edge") \cup T("endpoint"))
      BY DEF Tiers
    <3>4. /\ "cloud" \in Tiers /\ "edge" \in Tiers /\ "endpoint" \in Tiers
          /\ T("edge") \cap T("endpoint") = {} /\ T("cloud") \cap (T("edge") \cup T("endpoint")) = {}
      BY DEF Tiers
    <3> DEFINE a == T("cloud")
               b == T("edge")
               c == T("endpoint")
    <3>5. /\ IsFiniteSet(a) /\ IsFiniteSet(b) /\ IsFiniteSet(c)
          /\ Cardinality(a) \in Nat /\ Cardinality(b) \in Nat /\ Cardinality(c) \in Nat
          /\ Cardinality(a) <= config.nodes["cloud"] /\ Cardinality(b) <= config.nodes["edge"]
          /\ Cardinality(c) <= config.nodes["endpoint"]
          /\ S = a \cup (b \cup c) /\ b \cap c = {} /\ a \cap (b \cup c) = {}
      BY <3>2, <3>3, <3>4
    <3> HIDE DEF a, b, c, T, S
    <3>6. IsFiniteSet(b \cup c) /\ Cardinality(b \cup c) = Cardinality(b) + Cardinality(c) - Cardinality(b \cap c)
      BY <3>5, FS_Union
    <3>7. /\ IsFiniteSet(S)
          /\ Cardinality(S) = Cardinality(a) + Cardinality(b \cup c) - Cardinality(a \cap (b \cup c))
      BY <3>5, <3>6, FS_Union
    <3>8. Cardinality(b \cap c) = 0 /\ Cardinality(a \cap (b \cup c)) = 0
      BY <3>5, FS_EmptySet
    <3>9. n = Cardinality(a) + (Cardinality(b) + Cardinality(c))
      BY <3>5, <3>6, <3>7, <3>8
    <3> QED BY <3>1, <3>4, <3>5, <3>7, <3>9 DEF Total
  <2>2. Orders(S, TierOrder)
    <3>1. \A x \in S : <<x, x>> \notin TierOrder
      BY DEF TierOrder, Tiers
    <3>2. \A x, y \in S : x # y => <<x, y>> \in TierOrder \/ <<y, x>> \in TierOrder
      BY DEF TierOrder, Tiers
    <3>3. \A x, y, z \in S : <<x, y>> \in TierOrder /\ <<y, z>> \in TierOrder => <<x, z>> \in TierOrder
      BY DEF TierOrder, Tiers
    <3> QED BY <3>1, <3>2, <3>3 DEF Orders
  <2>3. \A x : x \in S <=> x \in Tiers /\ perMachine[m][x] > 0
    OBVIOUS
  <2>4. BaseImages(i) = [k \in DOMAIN here |-> <<BaseWord[here[k]], i>>]
    BY <1>5 DEF BaseImages
  <2> HIDE DEF S
  <2>5. /\ here \in [1..n -> S]
        /\ \A x \in S : \E k \in 1..n : here[k] = x
        /\ \A j, k \in 1..n : j < k => <<here[j], here[k]>> \in TierOrder
    BY <2>1, <2>2, InOrderSorts, Zenon
  <2>6. DOMAIN bases[m] = 1..n /\ \A k \in 1..n : bases[m][k].name = <<BaseWord[here[k]], i>>
    <3>1. DOMAIN here = 1..n
      BY <2>5
    <3>2. DOMAIN BaseImages(i) = 1..n /\ \A k \in 1..n : BaseImages(i)[k] = <<BaseWord[here[k]], i>>
      BY <2>4, <3>1
    <3> QED BY <1>2, <3>2
  <2> HIDE DEF here, n, m, total
  <2>7. \A k \in 1..n : here[k] \in S
    BY <2>5
  <2>8. ASSUME NEW j \in 1..n, NEW k \in 1..n, BaseWord[here[j]] = BaseWord[here[k]] PROVE j = k
    <3>1. here[j] \in Tiers /\ here[k] \in Tiers
      BY <2>3, <2>7
    <3>2. here[j] = here[k]
      BY <2>8, <3>1 DEF Tiers, BaseWord
    <3>3. ~(j < k) /\ ~(k < j)
      <4>1. <<here[k], here[k]>> \notin TierOrder
        BY <2>2, <2>7 DEF Orders
      <4> QED BY <2>5, <3>2, <4>1
    <3> QED BY <2>1, <3>3
  <2>9. \A k \in DOMAIN bases[m] :
           \E t \in Tiers : perMachine[m][t] > 0 /\ bases[m][k].name = <<BaseWord[t], i>>
    BY <2>3, <2>6, <2>7
  <2>10. \A t \in Tiers : perMachine[m][t] > 0 => \E k \in DOMAIN bases[m] : bases[m][k].name = <<BaseWord[t], i>>
    BY <2>3, <2>5, <2>6
  <2>11. \A j, k \in DOMAIN bases[m] : bases[m][j].name[1] = bases[m][k].name[1] => j = k
    BY <2>6, <2>8
  <2>12. DOMAIN bases[m] \subseteq 1..total
    BY <1>3, <2>1, <2>6
  <2> QED BY <1>5, <2>9, <2>10, <2>11, <2>12 DEF m, total
<1> QED BY <1>4, <1>5

\* The base image chosen for a tier is one that the machine has, if it has
\* a VM of the tier, and one for that tier.
LEMMA BaseForIs ==
    ASSUME IInv, Qemu, pc \notin Unnamed, NEW i \in DOMAIN machines,
           NEW t \in Tiers, perMachine[machines[i]][t] > 0
    PROVE  LET m == machines[i] IN
           /\ BaseFor(m, t) \in Named(bases[m])
           /\ ~config.infra_only => BaseFor(m, t)[1] = BaseWord[t]
<1> DEFINE m == machines[i]
<1>1. CASE config.infra_only
  <2>1. BaseFor(m, t) = bases[m][1].name /\ 1 \in DOMAIN bases[m]
    BY <1>1, BaseNamesAre DEF BaseFor
  <2> QED BY <1>1, <2>1 DEF Named
<1>2. CASE ~config.infra_only
  <2> DEFINE ofTier == {j \in DOMAIN bases[m] : bases[m][j].name[1] = BaseWord[t]}
  <2>1. PICK k \in DOMAIN bases[m] : bases[m][k].name = <<BaseWord[t], i>>
    BY <1>2, BaseNamesAre
  <2>2. \A j \in DOMAIN bases[m] : bases[m][j].name[1] = bases[m][k].name[1] => j = k
    BY <1>2, BaseNamesAre
  <2>3. DOMAIN bases[m] \subseteq 1..Total(config.nodes)
    BY BaseNamesAre
  <2>4. bases[m][k].name[1] = BaseWord[t]
    BY <2>1
  <2>5. BaseFor(m, t) = bases[m][Min(ofTier)].name
    BY <1>2 DEF BaseFor
  <2> HIDE DEF m
  <2>6. ofTier = {k}
    BY <2>2, <2>4
  <2>7. Min(ofTier) = k
    <3>1. k \in Nat
      BY <2>3
    <3> HIDE DEF ofTier
    <3> QED BY <2>6, <3>1 DEF Min
  <2> HIDE DEF ofTier
  <2>8. BaseFor(m, t) \in Named(bases[m]) /\ BaseFor(m, t)[1] = BaseWord[t]
    BY <2>4, <2>5, <2>7 DEF Named
  <2> QED BY <2>8 DEF m
<1> QED BY <1>1, <1>2

\* A disk on machine m from the base image of tier t, for a VM whose name tells
\* that it is of the tier.
DiskFor(d, m, t) ==
    /\ perMachine[m][t] > 0 /\ d.base = BaseFor(m, t)
    /\ d.name[1] = t \/ (t = "cloud" /\ d.name[1] = "controller")

\* The disks of a machine are those of its VMs, each from the base image of
\* its tier.
LEMMA DisksAre ==
    ASSUME IInv, Qemu, pc \notin Unlisted, NEW i \in DOMAIN machines, NEW m \in Hosts, machines[i] = m
    PROVE  /\ {d.name : d \in disks[m]} = Named(vms[m])
           /\ \A d \in disks[m] : \E t \in Tiers : DiskFor(d, m, t)
<1> DEFINE one == Clouds(m).controller
           count(t) == Start(i, t)..(Start(i, t) + Here(m)[t] - 1)
<1>1. /\ PlacementInv /\ CountInv /\ MachinesInv /\ DisksInv
      /\ pc \notin Unplaced /\ pc \notin Unnamed /\ pc \notin Unlisted
  BY DEF IInv, Unlisted, Unnamed, Unplaced
<1>2. disks[m] = DiskList(i)
  BY <1>1 DEF DisksInv, HasDisks
<1>3. /\ Named(vms[m]) = (IF HasController(m) THEN {Controller.name} ELSE {})
                         \cup Numbers(i, "cloud") \cup Numbers(i, "edge") \cup Numbers(i, "endpoint")
  BY <1>1, ListsAre, NameListIs
<1>4. /\ one = IF HasController(m) THEN 1 ELSE 0
      /\ Here(m) \in [Tiers -> Nat] /\ \A t \in Tiers : perMachine[m][t] \in Nat
      /\ perMachine[m]["cloud"] = Here(m)["cloud"] + one
      /\ \A t \in Tiers \ {"cloud"} : Here(m)[t] = perMachine[m][t]
  BY <1>1, HereType
<1>5. \A t \in Tiers : Numbers(i, t) = {<<t, k>> : k \in count(t)}
  <2> SUFFICES ASSUME NEW t \in Tiers PROVE Numbers(i, t) = {<<t, k>> : k \in count(t)}
    OBVIOUS
  <2>1. Start(i + 1, t) = Start(i, t) + Here(m)[t] /\ Start(i, t) \in Nat /\ Here(m)[t] \in Nat
    BY <1>1, <1>4, StartType, MachinesList
  <2>2. Start(i + 1, t) - 1 = Start(i, t) + Here(m)[t] - 1
    BY <2>1
  <2>3. Start(i, t)..(Start(i + 1, t) - 1) = count(t)
    BY <2>2
  <2> QED BY <2>3 DEF Numbers
<1>6. \A d : d \in disks[m] <=>
         \/ HasController(m) /\ d = [name |-> Controller.name, base |-> BaseFor(m, "cloud")]
         \/ \E t \in Tiers : \E k \in count(t) : d = [name |-> <<t, k>>, base |-> BaseFor(m, t)]
  <2> DEFINE a == [name |-> Controller.name, base |-> BaseFor(m, "cloud")]
             of(t) == {[name |-> <<t, k>>, base |-> BaseFor(m, t)] : k \in count(t)}
  <2>1. disks[m] = {a : k \in 1..one} \cup UNION {of(t) : t \in Tiers}
    BY <1>2 DEF DiskList
  <2>2. {a : k \in 1..one} = IF HasController(m) THEN {a} ELSE {}
    BY <1>4
  <2>3. \A t : \A d : d \in of(t) <=> \E k \in count(t) : d = [name |-> <<t, k>>, base |-> BaseFor(m, t)]
    OBVIOUS
  <2> HIDE DEF of, a, one, count
  <2>4. \A d : d \in disks[m] <=> (HasController(m) /\ d = a) \/ \E t \in Tiers : d \in of(t)
    BY <2>1, <2>2
  <2> QED BY <2>3, <2>4 DEF a
<1> HIDE DEF one, count
<1>7. \A x : x \in Named(vms[m]) <=>
         \/ HasController(m) /\ x = Controller.name
         \/ \E t \in Tiers : \E k \in count(t) : x = <<t, k>>
  <2>1. \A x : x \in Named(vms[m]) <=>
           (HasController(m) /\ x = Controller.name) \/ \E t \in Tiers : x \in Numbers(i, t)
    BY <1>3 DEF Tiers
  <2> QED BY <1>5, <2>1
<1>8. {d.name : d \in disks[m]} = Named(vms[m])
  <2>1. ASSUME NEW d \in disks[m] PROVE d.name \in Named(vms[m])
    BY <1>6, <1>7
  <2>2. ASSUME NEW x \in Named(vms[m]) PROVE \E d \in disks[m] : d.name = x
    <3>1. CASE HasController(m) /\ x = Controller.name
      <4> DEFINE d == [name |-> Controller.name, base |-> BaseFor(m, "cloud")]
      <4>1. d \in disks[m] /\ d.name = x
        BY <1>6, <3>1
      <4> QED BY <4>1
    <3>2. ASSUME NEW t \in Tiers, NEW k \in count(t), x = <<t, k>> PROVE \E d \in disks[m] : d.name = x
      <4> DEFINE d == [name |-> <<t, k>>, base |-> BaseFor(m, t)]
      <4>1. d \in disks[m] /\ d.name = x
        BY <1>6, <3>2
      <4> QED BY <4>1
    <3> QED BY <1>7, <3>1, <3>2
  <2> QED BY <2>1, <2>2
<1>9. ASSUME NEW d \in disks[m] PROVE \E t \in Tiers : DiskFor(d, m, t)
  <2>1. CASE HasController(m) /\ d = [name |-> Controller.name, base |-> BaseFor(m, "cloud")]
    <3>1. "cloud" \in Tiers /\ perMachine[m]["cloud"] > 0
      BY <1>4, <2>1 DEF Tiers
    <3>2. d.base = BaseFor(m, "cloud") /\ d.name[1] = "controller"
      BY <2>1 DEF Controller
    <3>3. DiskFor(d, m, "cloud")
      BY <3>1, <3>2 DEF DiskFor
    <3> QED BY <3>1, <3>3
  <2>2. ASSUME NEW t \in Tiers, NEW k \in count(t), d = [name |-> <<t, k>>, base |-> BaseFor(m, t)]
        PROVE  DiskFor(d, m, t)
    <3>1. Here(m)[t] \in Nat /\ Start(i, t) \in Nat
      BY <1>1, <1>4, StartType, MachinesList
    <3>2. Here(m)[t] > 0
      BY <3>1 DEF count
    <3>3. perMachine[m][t] > 0
      <4>1. CASE t = "cloud"
        BY <1>4, <3>1, <3>2, <4>1
      <4>2. CASE t # "cloud"
        BY <1>4, <3>2, <4>2
      <4> QED BY <4>1, <4>2
    <3> QED BY <2>2, <3>3 DEF DiskFor
  <2>3. CASE \E t \in Tiers : \E k \in count(t) : d = [name |-> <<t, k>>, base |-> BaseFor(m, t)]
    <3>1. PICK t \in Tiers : \E k \in count(t) : d = [name |-> <<t, k>>, base |-> BaseFor(m, t)]
      BY <2>3
    <3>2. DiskFor(d, m, t)
      BY <2>2, <3>1
    <3> QED BY <3>2
  <2> QED BY <1>6, <2>1, <2>3
<1> QED BY <1>8, <1>9

\* What the inventory counts on a machine is what was named there.
LEMMA DisksHold == IInv => DisksMatchVms
<1> SUFFICES ASSUME IInv, Qemu, pc \in {"generate", "base", "launch", "running"}, NEW m \in Hosts
             PROVE  /\ {d.name : d \in disks[m]} = Named(vms[m])
                    /\ {d.base : d \in disks[m]} \subseteq Named(bases[m])
  BY DEF DisksMatchVms
<1>1. pc \notin Unnamed /\ pc \notin Unlisted /\ DisksInv
  BY DEF IInv, Unlisted, Unnamed, Unplaced
<1>2. CASE \A i \in DOMAIN machines : machines[i] # m
  <2>1. disks[m] = {} /\ vms[m] = <<>>
    BY <1>1, <1>2, ListsAre DEF DisksInv
  <2> QED BY <2>1 DEF Named
<1>3. ASSUME NEW i \in DOMAIN machines, machines[i] = m
      PROVE  /\ {d.name : d \in disks[m]} = Named(vms[m])
             /\ {d.base : d \in disks[m]} \subseteq Named(bases[m])
  <2>1. /\ {d.name : d \in disks[m]} = Named(vms[m])
        /\ \A d \in disks[m] : \E t \in Tiers : DiskFor(d, m, t)
    BY <1>1, <1>3, DisksAre
  <2>2. \A t \in Tiers : perMachine[m][t] > 0 => BaseFor(m, t) \in Named(bases[m])
    BY <1>1, <1>3, BaseForIs
  <2>3. \A d \in disks[m] : d.base \in Named(bases[m])
    BY <2>1, <2>2 DEF DiskFor
  <2> QED BY <2>1, <2>3
<1> QED BY <1>2, <1>3

-----------------------------------------------------------------------------
(* The pins *)

\* How many numbers a range has.
LEMMA RangeSize ==
    ASSUME NEW a \in Nat, NEW b \in Int, NEW n \in Nat, b = a + n - 1
    PROVE  Cardinality(a..b) = n
<1>1. Cardinality(a..b) = IF a > b THEN 0 ELSE b - a + 1
  BY FS_Interval
<1> QED BY <1>1

\* Ranges of numbers that follow each other are disjoint.
LEMMA ConsecutiveRanges ==
    ASSUME NEW n \in Nat, NEW F \in [1..n -> Nat], NEW k \in 1..n
    PROVE  LET from(j) == Sum(F, 1..(j - 1))
               range(j) == from(j)..(from(j) + F[j] - 1)
           IN /\ range(k) \subseteq 0..(Sum(F, 1..n) - 1)
              /\ Cardinality(range(k)) = F[k]
              /\ \A j \in 1..(k - 1) : range(k) \cap range(j) = {}
<1> DEFINE from(j) == Sum(F, 1..(j - 1))
           range(j) == from(j)..(from(j) + F[j] - 1)
           all == Sum(F, 1..n)
           D == 1..n
<1>1. IsFiniteSet(D) /\ F \in [D -> Nat] /\ D \in SUBSET D
  BY FS_Interval
<1>2. all \in Nat
  BY <1>1, SumOverSet
<1>3. ASSUME NEW j \in D
      PROVE  from(j) \in Nat /\ F[j] \in Nat /\ from(j) + F[j] = Sum(F, 1..j)
  <2> DEFINE before == 1..(j - 1)
  <2>1. before \in SUBSET D /\ j \in D \ before /\ before \cup {j} = 1..j
    OBVIOUS
  <2> HIDE DEF D, before
  <2>2. Sum(F, before) \in Nat
    BY <1>1, <2>1, SumOverSet
  <2>3. Sum(F, before \cup {j}) = Sum(F, before) + F[j]
    BY <1>1, <2>1, SumOverSet
  <2>4. F[j] \in Nat
    BY <1>1
  <2>5. from(j) = Sum(F, before)
    BY DEF before
  <2> HIDE DEF from
  <2> QED BY <2>1, <2>2, <2>3, <2>4, <2>5
<1>4. from(k) + F[k] <= all
  <2>1. 1..k \in SUBSET D
    OBVIOUS
  <2> HIDE DEF D, from, all
  <2>2. Sum(F, 1..k) <= Sum(F, D)
    BY <1>1, <2>1, SumMonotone
  <2> QED BY <1>3, <2>2 DEF all, D
<1>5. ASSUME NEW j \in 1..(k - 1) PROVE from(j) + F[j] <= from(k)
  <2>1. j \in D /\ 1..(k - 1) \in SUBSET D /\ 1..j \in SUBSET (1..(k - 1))
    OBVIOUS
  <2> HIDE DEF D
  <2>2. Sum(F, 1..j) <= Sum(F, 1..(k - 1))
    BY <1>1, <2>1, SumMonotone
  <2>3. from(j) + F[j] = Sum(F, 1..j)
    BY <1>3, <2>1
  <2> QED BY <2>2, <2>3
<1>6. \A j \in 1..(k - 1) : j \in D
  OBVIOUS
<1> HIDE DEF from, all
<1>7. range(k) \subseteq 0..(all - 1)
  BY <1>2, <1>3, <1>4
<1>8. Cardinality(range(k)) = F[k]
  <2> DEFINE last == from(k) + F[k] - 1
  <2>1. from(k) \in Nat /\ F[k] \in Nat /\ last \in Int /\ last = from(k) + F[k] - 1
    BY <1>3
  <2> HIDE DEF last
  <2>2. Cardinality(from(k)..last) = F[k]
    BY <2>1, RangeSize
  <2> QED BY <2>2 DEF last
<1>9. ASSUME NEW j \in 1..(k - 1) PROVE range(k) \cap range(j) = {}
  <2>1. /\ from(j) \in Nat /\ F[j] \in Nat /\ from(k) \in Nat /\ F[k] \in Nat
        /\ from(j) + F[j] <= from(k)
    BY <1>3, <1>5, <1>6
  <2> QED BY <2>1
<1> QED BY <1>7, <1>8, <1>9 DEF from, all

\* The cores of a machine's VMs are as many as its load: the cloud VMs come
\* first, then the edge VMs and the endpoints.
LEMMA CoresAreLoad ==
    ASSUME IInv, Qemu, pc \notin Unnamed, NEW i \in DOMAIN machines
    PROVE  LET m == machines[i] IN
           /\ CoresOf(vms[m]) \in [1..Total(perMachine[m]) -> Nat]
           /\ Total(perMachine[m]) \in Nat
           /\ Sum(CoresOf(vms[m]), 1..Total(perMachine[m])) = Load(m)
<1> DEFINE m == machines[i]
           n == Total(perMachine[m])
           F == CoresOf(vms[m])
           c == perMachine[m]["cloud"]
           e == perMachine[m]["edge"]
           p == perMachine[m]["endpoint"]
           A == 1..c
           B == (c + 1)..(c + e)
           C == (c + e + 1)..n
           D == 1..n
           tierOf(k) == IF k <= c THEN "cloud" ELSE IF k <= c + e THEN "edge" ELSE "endpoint"
<1>1. /\ PlacementInv /\ CountInv /\ MachinesInv /\ pc \notin Unplaced /\ PlacementTypeOK
  BY DEF IInv, Unnamed, PlacementInv
<1>2. m \in Hosts
  BY <1>1, MachinesList
<1>3. c \in Nat /\ e \in Nat /\ p \in Nat /\ n \in Nat /\ n = c + e + p
  <2>1. c \in Nat /\ e \in Nat /\ p \in Nat
    BY <1>1, <1>2, HostsFinite DEF Tiers
  <2> QED BY <2>1 DEF Total
<1>4. /\ DOMAIN vms[m] = D
      /\ \A k \in D : TierOf(vms[m][k]) = tierOf(k)
  <2>1. /\ DOMAIN vms[m] = D /\ \A k \in DOMAIN vms[m] : TierOf(vms[m][k]) = TierOf(NameList(i)[k])
    BY <1>1, ListsAre
  <2>2. \A k \in D : TierOf(NameList(i)[k]) = tierOf(k)
    BY <1>1, NameListIs
  <2> QED BY <2>1, <2>2
<1>5. \A t \in Tiers : config.vmCores[t] \in Nat
  BY <1>1, ConfigType DEF PlacementTypeOK
<1>6. /\ F \in [D -> Nat] /\ \A k \in D : F[k] = config.vmCores[tierOf(k)]
  <2>1. \A k \in D : tierOf(k) \in Tiers
    BY DEF Tiers
  <2> HIDE DEF D, tierOf, m
  <2>2. F = [k \in D |-> config.vmCores[tierOf(k)]]
    BY <1>4 DEF CoresOf
  <2> HIDE DEF F
  <2> QED BY <1>5, <2>1, <2>2
<1>7. Load(m) = c * config.vmCores["cloud"] + e * config.vmCores["edge"] + p * config.vmCores["endpoint"]
  BY DEF Load
<1> HIDE DEF m, n, F, c, e, p
<1>8. /\ A \in SUBSET D /\ B \in SUBSET D /\ C \in SUBSET D /\ A \cup B \in SUBSET D
      /\ A \cap B = {} /\ (A \cup B) \cap C = {} /\ (A \cup B) \cup C = D
      /\ \A k \in A : k \in D /\ tierOf(k) = "cloud"
      /\ \A k \in B : k \in D /\ tierOf(k) = "edge"
      /\ \A k \in C : k \in D /\ tierOf(k) = "endpoint"
  BY <1>3
<1>9. Cardinality(A) = c /\ Cardinality(B) = e /\ Cardinality(C) = p /\ IsFiniteSet(D)
  <2> DEFINE afterA == c + 1
             endB == c + e
             afterB == c + e + 1
  <2>1. /\ 1 \in Nat /\ c \in Int /\ c \in Nat /\ c = 1 + c - 1
        /\ afterA \in Nat /\ endB \in Int /\ e \in Nat /\ endB = afterA + e - 1
        /\ afterB \in Nat /\ n \in Int /\ p \in Nat /\ n = afterB + p - 1
    BY <1>3
  <2> HIDE DEF afterA, endB, afterB
  <2>2. Cardinality(1..c) = c
    BY <2>1, RangeSize
  <2>3. Cardinality(afterA..endB) = e
    BY <2>1, RangeSize
  <2>4. Cardinality(afterB..n) = p
    BY <2>1, RangeSize
  <2>5. IsFiniteSet(1..n)
    BY <2>1, FS_Interval
  <2> QED BY <2>2, <2>3, <2>4, <2>5 DEF afterA, endB, afterB
<1>10. /\ \A k \in A : F[k] = config.vmCores["cloud"]
       /\ \A k \in B : F[k] = config.vmCores["edge"]
       /\ \A k \in C : F[k] = config.vmCores["endpoint"]
  BY <1>6, <1>8
<1>11. config.vmCores["cloud"] \in Nat /\ config.vmCores["edge"] \in Nat /\ config.vmCores["endpoint"] \in Nat
  BY <1>5 DEF Tiers
<1> HIDE DEF A, B, C, D, tierOf
<1>12. /\ Sum(F, A) = c * config.vmCores["cloud"]
       /\ Sum(F, B) = e * config.vmCores["edge"]
       /\ Sum(F, C) = p * config.vmCores["endpoint"]
  <2>1. Sum(F, A) = Cardinality(A) * config.vmCores["cloud"]
    BY <1>6, <1>8, <1>9, <1>10, <1>11, SumConstant
  <2>2. Sum(F, B) = Cardinality(B) * config.vmCores["edge"]
    BY <1>6, <1>8, <1>9, <1>10, <1>11, SumConstant
  <2>3. Sum(F, C) = Cardinality(C) * config.vmCores["endpoint"]
    BY <1>6, <1>8, <1>9, <1>10, <1>11, SumConstant
  <2> QED BY <1>9, <2>1, <2>2, <2>3
<1>13. Sum(F, A \cup B) = Sum(F, A) + Sum(F, B)
  BY <1>6, <1>8, <1>9, SumUnion
<1>14. Sum(F, (A \cup B) \cup C) = Sum(F, A \cup B) + Sum(F, C)
  BY <1>6, <1>8, <1>9, SumUnion
<1>15. Sum(F, D) = Load(m)
  BY <1>7, <1>8, <1>12, <1>13, <1>14
<1> QED BY <1>3, <1>6, <1>15 DEF D, m, n, F

\* The ranges counted out end at the load of the machine, within its cores.
LEMMA PinsHold == IInv => PinsDisjoint
<1> SUFFICES ASSUME IInv, Qemu, pc \in {"base", "launch", "running"}, config.cpu_pin, NEW m \in Hosts,
                    NEW k \in DOMAIN pins[m]
             PROVE  /\ pins[m][k] \subseteq 0..(config.cores[m] - 1)
                    /\ Cardinality(pins[m][k]) = config.vmCores[TierOf(vms[m][k])]
                    /\ \A l \in 1..(k - 1) : pins[m][k] \cap pins[m][l] = {}
  BY DEF PinsDisjoint
<1>1. /\ PlacementInv /\ PinsInv /\ pc \notin Unnamed /\ pc \notin Unpinned
  BY DEF IInv, Unpinned, Unlisted, Unnamed, Unplaced
<1>2. PICK i \in DOMAIN machines : machines[i] = m
  <2> SUFFICES ASSUME \A i \in DOMAIN machines : machines[i] # m PROVE FALSE
    OBVIOUS
  <2>1. pins[m] = <<>>
    BY <1>1 DEF PinsInv
  <2> QED BY <2>1
<1> DEFINE n == Total(perMachine[m])
           F == CoresOf(vms[m])
           from(j) == Sum(F, 1..(j - 1))
           range(j) == from(j)..(from(j) + F[j] - 1)
<1>3. F \in [1..n -> Nat] /\ n \in Nat /\ Sum(F, 1..n) = Load(m)
  BY <1>1, <1>2, CoresAreLoad
<1>4. DOMAIN vms[m] = 1..n /\ DOMAIN pins[m] = 1..n
      /\ \A j \in 1..n : pins[m][j] = range(j) /\ F[j] = config.vmCores[TierOf(vms[m][j])]
  <2>1. pins[m] = PinsOf(vms[m])
    BY <1>1, <1>2 DEF PinsInv, HasPins
  <2>2. DOMAIN vms[m] = 1..n
    <3>1. DOMAIN F = DOMAIN vms[m]
      BY DEF CoresOf
    <3> HIDE DEF F, n
    <3> QED BY <1>3, <3>1
  <2>3. \A j \in DOMAIN vms[m] : F[j] = config.vmCores[TierOf(vms[m][j])]
    BY DEF CoresOf
  <2>4. \A j : from(j) = StartCore(vms[m], j)
    BY StartCoreSum
  <2> HIDE DEF F, n, from
  <2>5. DOMAIN pins[m] = DOMAIN vms[m]
    BY <2>1 DEF PinsOf
  <2>6. \A j \in DOMAIN vms[m] : pins[m][j] = range(j)
    BY <2>1, <2>3, <2>4 DEF PinsOf
  <2> QED BY <2>2, <2>3, <2>5, <2>6
<1>5. Load(m) <= config.cores[m] /\ Load(m) \in Nat /\ config.cores[m] \in Nat
  <2>1. WithinCores /\ PlacementTypeOK
    BY <1>1, WithinCoresHolds DEF PlacementInv
  <2> QED BY <2>1, LoadNat, ConfigType DEF WithinCores, PlacementTypeOK
<1> HIDE DEF n, F
<1>6. k \in 1..n
  BY <1>4
<1>7. /\ range(k) \subseteq 0..(Sum(F, 1..n) - 1)
      /\ Cardinality(range(k)) = F[k]
      /\ \A j \in 1..(k - 1) : range(k) \cap range(j) = {}
  BY <1>3, <1>6, ConsecutiveRanges
<1> HIDE DEF range
<1>8. pins[m][k] = range(k) /\ \A l \in 1..(k - 1) : l \in 1..n /\ pins[m][l] = range(l)
  BY <1>3, <1>4, <1>6
<1>9. 0..(Sum(F, 1..n) - 1) \subseteq 0..(config.cores[m] - 1)
  BY <1>3, <1>5
<1>10. pins[m][k] \subseteq 0..(config.cores[m] - 1)
  BY <1>7, <1>8, <1>9
<1>11. Cardinality(pins[m][k]) = config.vmCores[TierOf(vms[m][k])]
  BY <1>4, <1>6, <1>7, <1>8
<1>12. \A l \in 1..(k - 1) : pins[m][k] \cap pins[m][l] = {}
  BY <1>7, <1>8
<1> QED BY <1>10, <1>11, <1>12

\* Each VM of a QEMU configuration gets one name on one machine, numbered
\* without gaps over all machines, the controller among the clouds.
THEOREM EveryVmNamedAlways == InfrastructureSpec => []EveryVmNamed
  BY NamedHolds, InfrastructureInvariant, PTL

\* Ansible creates on each machine the disks of the VMs that virsh launches
\* there, each from a base image that the machine has.
THEOREM DisksMatchVmsAlways == InfrastructureSpec => []DisksMatchVms
  BY DisksHold, InfrastructureInvariant, PTL

\* The cores that the domain files pin the VMs of a machine to exist and no
\* two VMs share one, for every number and size of VMs.
THEOREM PinsDisjointAlways == InfrastructureSpec => []PinsDisjoint
  BY PinsHold, InfrastructureInvariant, PTL



-----------------------------------------------------------------------------
(* The lists of a provider's machine *)

\* A machine that is alone has all VMs of the configuration.
LEMMA OnlyMachine ==
    ASSUME PlacementInv, CountInv, MachinesInv, pc \notin Unplaced, Len(machines) = 1
    PROVE  /\ M \in Hosts /\ DOMAIN machines = {1}
           /\ \A t \in Tiers : config.nodes[t] \in Nat /\ perMachine[M][t] = config.nodes[t]
<1>1. /\ PlacementTypeOK /\ IsFiniteSet(Hosts)
      /\ \A m \in Hosts, t \in Tiers : perMachine[m][t] \in Nat
      /\ \A t \in Tiers : config.nodes[t] \in Nat
  BY HostsFinite DEF PlacementInv
<1>2. /\ DOMAIN machines = 1..1 /\ M \in Hosts /\ \A m \in Hosts : InUse(m) => m = M
  BY MachinesList DEF M
<1>3. ASSUME NEW t \in Tiers PROVE perMachine[M][t] = config.nodes[t]
  <2> DEFINE F == [m \in Hosts |-> perMachine[m][t]]
  <2>1. F \in [Hosts -> Nat]
    BY <1>1
  <2>2. \A x \in Hosts \ {M} : F[x] = 0
    <3>1. \A x \in Hosts \ {M} : ~InUse(x)
      BY <1>2
    <3>2. \A x \in Hosts \ {M} : ~(perMachine[x][t] > 0) /\ perMachine[x][t] \in Nat
      BY <1>1, <3>1, InUseMeans
    <3>3. \A x \in Hosts \ {M} : perMachine[x][t] = 0
      BY <3>2
    <3> QED BY <3>3
  <2>3. F[M] = perMachine[M][t]
    BY <1>2
  <2>4. Placed(t) = Sum(F, Hosts) /\ Placed(t) + toGo[t] = config.nodes[t] /\ toGo[t] = 0
    BY DEF Placed, CountInv, Unplaced
  <2> HIDE DEF F
  <2>5. Sum(F, Hosts \ {M}) = 0
    BY <1>1, <2>1, <2>2, SumPositive
  <2>6. Sum(F, Hosts) = Sum(F, Hosts \ {M}) + F[M]
    <3> DEFINE R == Hosts \ {M}
    <3>1. R \cup {M} = Hosts /\ M \in Hosts \ R /\ R \in SUBSET Hosts
      BY <1>2
    <3> HIDE DEF R
    <3>2. Sum(F, R \cup {M}) = Sum(F, R) + F[M]
      BY <1>1, <2>1, <3>1, SumOverSet
    <3> QED BY <3>1, <3>2 DEF R
  <2>8. F[M] \in Nat
    BY <1>2, <2>1
  <2>9. Sum(F, Hosts) = F[M]
    BY <2>5, <2>6, <2>8
  <2> QED BY <2>3, <2>4, <2>8, <2>9
<1> QED BY <1>1, <1>2, <1>3

\* The VMs of a tier come after those of the tiers before it; the first of the
\* clouds is the controller.
Before(t) ==
    CASE t = "cloud" -> 0
      [] t = "edge" -> config.nodes["cloud"]
      [] t = "endpoint" -> config.nodes["cloud"] + config.nodes["edge"]

VmAt(t, j) ==
    IF t = "cloud" THEN NewVm(IF j = 1 THEN "controller" ELSE "cloud", CloudName(j - 1))
    ELSE NewVm(t, <<t, j - 1>>)

Unaddressed ==
    {NewVm(role, name) : role \in Tiers \cup {"controller"}, name \in (Tiers \cup {"ubuntu"}) \X Nat}

\* A place belongs to one tier, and has a number there.
LEMMA PlaceOfTier ==
    ASSUME \A t \in Tiers : config.nodes[t] \in Nat
    PROVE  /\ Total(config.nodes) \in Nat /\ \A t \in Tiers : Before(t) \in Nat
           /\ \A t \in Tiers : \A j \in 1..config.nodes[t] : Before(t) + j \in 1..Total(config.nodes)
           /\ \A k \in 1..Total(config.nodes) : \E t \in Tiers : \E j \in 1..config.nodes[t] : k = Before(t) + j
           /\ \A t, u \in Tiers : \A j \in 1..config.nodes[t], i \in 1..config.nodes[u] :
                 Before(t) + j = Before(u) + i => t = u /\ i = j
<1> DEFINE c == config.nodes["cloud"]
           e == config.nodes["edge"]
           p == config.nodes["endpoint"]
<1>1. c \in Nat /\ e \in Nat /\ p \in Nat /\ Total(config.nodes) = c + e + p
  BY DEF Tiers, Total
<1>2. /\ Before("cloud") = 0 /\ Before("edge") = c /\ Before("endpoint") = c + e
  BY DEF Before
<1>3. ASSUME NEW k \in 1..(c + e + p)
      PROVE  \E t \in Tiers : \E j \in 1..config.nodes[t] : k = Before(t) + j
  <2>1. CASE k <= c
    <3>1. k \in 1..config.nodes["cloud"] /\ k = Before("cloud") + k
      BY <1>1, <1>2, <2>1
    <3> QED BY <3>1 DEF Tiers
  <2>2. CASE k > c /\ k <= c + e
    <3>1. k - c \in 1..config.nodes["edge"] /\ k = Before("edge") + (k - c)
      BY <1>1, <1>2, <2>2
    <3> QED BY <3>1 DEF Tiers
  <2>3. CASE k > c + e
    <3>1. k - (c + e) \in 1..config.nodes["endpoint"] /\ k = Before("endpoint") + (k - (c + e))
      BY <1>1, <1>2, <2>3
    <3> QED BY <3>1 DEF Tiers
  <2> QED BY <1>1, <2>1, <2>2, <2>3
<1>4. /\ \A j \in 1..c : Before("cloud") + j \in 1..(c + e + p) /\ Before("cloud") + j <= c
      /\ \A j \in 1..e : /\ Before("edge") + j \in 1..(c + e + p)
                         /\ Before("edge") + j > c /\ Before("edge") + j <= c + e
      /\ \A j \in 1..p : Before("endpoint") + j \in 1..(c + e + p) /\ Before("endpoint") + j > c + e
  BY <1>1, <1>2
<1>5. \A t \in Tiers : \A j \in 1..config.nodes[t] : Before(t) + j \in 1..(c + e + p)
  BY <1>4 DEF Tiers
<1>6. ASSUME NEW t \in Tiers, NEW u \in Tiers, NEW j \in 1..config.nodes[t], NEW i \in 1..config.nodes[u],
             Before(t) + j = Before(u) + i
      PROVE  t = u /\ i = j
  <2>1. CASE t = u
    <3>1. Before(t) \in Nat
      BY <1>1, <1>2 DEF Tiers
    <3> QED BY <1>6, <2>1, <3>1
  <2>2. CASE t # u
    BY <1>1, <1>4, <1>6, <2>2 DEF Tiers
  <2> QED BY <2>1, <2>2
<1>7. \A t \in Tiers : Before(t) \in Nat
  BY <1>1, <1>2 DEF Tiers
<1> HIDE DEF c, e, p
<1>8. Total(config.nodes) \in Nat
  BY <1>1
<1> QED BY <1>1, <1>3, <1>5, <1>6, <1>7, <1>8

\* The list that set_ip_names makes, by tiers.
LEMMA NewVmsAre ==
    ASSUME PlacementInv, CountInv, MachinesInv, pc \notin Unplaced, Len(machines) = 1
    PROVE  /\ NewVms \in Seq(Unaddressed) /\ DOMAIN NewVms = 1..Total(config.nodes)
           /\ \A t \in Tiers : \A j \in 1..config.nodes[t] : NewVms[Before(t) + j] = VmAt(t, j)
<1> DEFINE c == config.nodes["cloud"]
           e == config.nodes["edge"]
           p == config.nodes["endpoint"]
           controller == NewVm("controller", CloudName(0))
           workers == [k \in 1..(c - 1) |-> NewVm("cloud", CloudName(k))]
           first == IF c = 0 THEN <<>> ELSE <<controller>> \o workers
           rest(t) == [k \in 1..config.nodes[t] |-> NewVm(t, <<t, k - 1>>)]
<1>1. /\ c \in Nat /\ e \in Nat /\ p \in Nat
      /\ perMachine[M]["cloud"] = c /\ perMachine[M]["edge"] = e /\ perMachine[M]["endpoint"] = p
      /\ {"cloud", "edge", "endpoint"} = Tiers
  BY OnlyMachine DEF Tiers
<1>2. NewVms = (first \o rest("edge")) \o rest("endpoint")
  BY <1>1 DEF NewVms
<1>3. \A k \in Nat : CloudName(k) \in (Tiers \cup {"ubuntu"}) \X Nat
  BY DEF CloudName, Tiers
<1>4. \A role \in Tiers \cup {"controller"}, name \in (Tiers \cup {"ubuntu"}) \X Nat :
         NewVm(role, name) \in Unaddressed
  BY DEF Unaddressed
<1>5. ASSUME NEW t \in Tiers
      PROVE  rest(t) \in Seq(Unaddressed) /\ Len(rest(t)) = config.nodes[t]
             /\ \A j \in 1..config.nodes[t] : rest(t)[j] = NewVm(t, <<t, j - 1>>)
  <2> DEFINE n == config.nodes[t]
             s == rest(t)
  <2>1. n \in Nat
    BY <1>1
  <2>2. \A j \in 1..n : <<t, j - 1>> \in (Tiers \cup {"ubuntu"}) \X Nat
    BY <2>1
  <2>3. s \in [1..n -> Unaddressed]
    BY <1>4, <2>2
  <2>4. \A j \in 1..n : s[j] = NewVm(t, <<t, j - 1>>)
    OBVIOUS
  <2> HIDE DEF n, s
  <2>5. s \in Seq(Unaddressed)
    BY <2>1, <2>3, SeqDef
  <2>6. Len(s) = n
    BY <2>1, <2>3, <2>5, LenProperties
  <2> QED BY <2>4, <2>5, <2>6 DEF n, s
<1>6. /\ first \in Seq(Unaddressed) /\ Len(first) = c
      /\ \A j \in 1..c : first[j] = NewVm(IF j = 1 THEN "controller" ELSE "cloud", CloudName(j - 1))
  <2>1. CASE c = 0
    <3>1. first = <<>> /\ 1..c = {}
      BY <2>1
    <3> QED BY <2>1, <3>1, EmptySeq
  <2>2. CASE c # 0
    <3> DEFINE one == <<controller>>
               vm(j) == NewVm(IF j = 1 THEN "controller" ELSE "cloud", CloudName(j - 1))
    <3>1. controller \in Unaddressed /\ \A k \in 1..(c - 1) : NewVm("cloud", CloudName(k)) \in Unaddressed
      <4>1. 0 \in Nat /\ \A k \in 1..(c - 1) : k \in Nat
        OBVIOUS
      <4> QED BY <1>1, <1>3, <1>4, <4>1
    <3>2. one \in Seq(Unaddressed) /\ Len(one) = 1 /\ one[1] = controller
      BY <3>1
    <3>3. workers \in [1..(c - 1) -> Unaddressed] /\ c - 1 \in Nat
      BY <1>1, <2>2, <3>1
    <3>4. \A k \in 1..(c - 1) : workers[k] = NewVm("cloud", CloudName(k))
      OBVIOUS
    <3>5. first = one \o workers
      BY <2>2
    <3>6. controller = vm(1) /\ \A k \in 1..(c - 1) : NewVm("cloud", CloudName(k)) = vm(1 + k)
      <4>1. 1 - 1 = 0
        OBVIOUS
      <4>2. \A k \in 1..(c - 1) : 1 + k - 1 = k /\ 1 + k # 1
        BY <1>1
      <4> QED BY <4>1, <4>2
    <3> HIDE DEF workers, one, first, controller, vm
    <3>7. workers \in Seq(Unaddressed)
      BY <3>3, SeqDef
    <3>8. Len(workers) = c - 1
      BY <3>3, <3>7, LenProperties
    <3>9. IsConcat(first, one, 1, workers, c - 1, Unaddressed)
      BY <3>2, <3>5, <3>7, <3>8, ConcatPlaces, Zenon
    <3>12. /\ first \in Seq(Unaddressed) /\ Len(first) = 1 + (c - 1)
           /\ \A k \in 1..1 : first[k] = one[k]
           /\ \A k \in 1..(c - 1) : first[1 + k] = workers[k]
      BY <3>9, Zenon DEF IsConcat
    <3>10. ASSUME NEW j \in 1..c PROVE first[j] = vm(j)
      <4>1. CASE j = 1
        BY <3>2, <3>6, <3>12, <4>1
      <4>2. CASE j # 1
        <5>1. j - 1 \in 1..(c - 1) /\ 1 + (j - 1) = j
          BY <1>1, <4>2
        <5> QED BY <3>4, <3>6, <3>12, <5>1
      <4> QED BY <4>1, <4>2
    <3>11. Len(first) = c
      BY <1>1, <3>12
    <3> QED BY <3>12, <3>10, <3>11 DEF vm
  <2> QED BY <2>1, <2>2
<1> DEFINE edges == rest("edge")
           endpoints == rest("endpoint")
           two == first \o edges
           all == two \o endpoints
<1>12. edges \in Seq(Unaddressed) /\ Len(edges) = e /\ endpoints \in Seq(Unaddressed) /\ Len(endpoints) = p
  BY <1>1, <1>5
<1> HIDE DEF first, edges, endpoints, c, e, p
<1>13. IsConcat(two, first, c, edges, e, Unaddressed)
  BY <1>6, <1>12, ConcatPlaces, Zenon
<1>7. /\ two \in Seq(Unaddressed) /\ Len(two) = c + e
      /\ \A k \in 1..c : two[k] = first[k]
      /\ \A k \in 1..e : two[c + k] = edges[k]
  BY <1>13, Zenon DEF IsConcat
<1> HIDE DEF two
<1>14. IsConcat(all, two, c + e, endpoints, p, Unaddressed)
  BY <1>7, <1>12, ConcatPlaces, Zenon
<1>8. /\ all \in Seq(Unaddressed) /\ Len(all) = c + e + p
      /\ \A k \in 1..(c + e) : all[k] = two[k]
      /\ \A k \in 1..p : all[c + e + k] = endpoints[k]
  BY <1>14, Zenon DEF IsConcat
<1>9. NewVms = all
  BY <1>2 DEF two, edges, endpoints
<1> HIDE DEF all
<1> USE DEF c, e, p
<1>10. DOMAIN NewVms = 1..Total(config.nodes)
  BY <1>8, <1>9, LenProperties DEF Total
<1>11. ASSUME NEW t \in Tiers, NEW j \in 1..config.nodes[t] PROVE all[Before(t) + j] = VmAt(t, j)
  <2>1. CASE t = "cloud"
    <3>1. j \in 1..c /\ j \in 1..(c + e) /\ 0 + j = j
      BY <1>1, <2>1
    <3>2. all[j] = NewVm(IF j = 1 THEN "controller" ELSE "cloud", CloudName(j - 1))
      BY <1>6, <1>7, <1>8, <3>1
    <3> QED BY <2>1, <3>1, <3>2 DEF Before, VmAt
  <2>2. CASE t = "edge"
    <3>1. j \in 1..e /\ c + j \in 1..(c + e)
      BY <1>1, <2>2
    <3>2. all[c + j] = NewVm("edge", <<"edge", j - 1>>)
      BY <1>1, <1>5, <1>7, <1>8, <3>1, <2>2 DEF edges
    <3> QED BY <2>2, <3>1, <3>2 DEF Before, VmAt
  <2>3. CASE t = "endpoint"
    <3>1. j \in 1..p
      BY <2>3
    <3>2. all[c + e + j] = NewVm("endpoint", <<"endpoint", j - 1>>)
      BY <1>1, <1>5, <1>8, <3>1, <2>3 DEF endpoints
    <3> QED BY <2>3, <3>1, <3>2 DEF Before, VmAt
  <2> QED BY <2>1, <2>2, <2>3 DEF Tiers
<1> QED BY <1>8, <1>9, <1>10, <1>11

\* The places of a tier in a list with the roles of the new VMs.
LEMMA OfTierIs ==
    ASSUME PlacementInv, CountInv, MachinesInv, pc \notin Unplaced, Len(machines) = 1,
           DOMAIN vms[M] = DOMAIN NewVms, \A k \in DOMAIN NewVms : vms[M][k].role = NewVms[k].role
    PROVE  /\ \A t \in Tiers : OfTier(t) = (Before(t) + 1)..(Before(t) + config.nodes[t])
           /\ \A t \in Tiers : Cardinality(OfTier(t)) = config.nodes[t]
           /\ \A t \in Tiers : config.nodes[t] > 0 => First(t) = Before(t) + 1
<1>1. \A t \in Tiers : config.nodes[t] \in Nat
  BY OnlyMachine
<1>2. /\ \A t \in Tiers : Before(t) \in Nat
      /\ \A t \in Tiers : \A j \in 1..config.nodes[t] : Before(t) + j \in 1..Total(config.nodes)
      /\ \A k \in 1..Total(config.nodes) : \E t \in Tiers : \E j \in 1..config.nodes[t] : k = Before(t) + j
      /\ \A t, u \in Tiers : \A j \in 1..config.nodes[t], i \in 1..config.nodes[u] :
            Before(t) + j = Before(u) + i => t = u /\ i = j
  BY <1>1, PlaceOfTier
<1>3. /\ DOMAIN vms[M] = 1..Total(config.nodes)
      /\ \A t \in Tiers : \A j \in 1..config.nodes[t] : NewVms[Before(t) + j] = VmAt(t, j)
  BY NewVmsAre
<1>4. ASSUME NEW t \in Tiers, NEW j \in 1..config.nodes[t]
      PROVE  Before(t) + j \in DOMAIN vms[M] /\ TierOf(vms[M][Before(t) + j]) = t
  <2>1. TierOf(VmAt(t, j)) = t /\ vms[M][Before(t) + j].role = VmAt(t, j).role
    BY <1>2, <1>3 DEF TierOf, VmAt, NewVm, Tiers
  <2> QED BY <1>2, <1>3, <2>1 DEF TierOf
<1>5. ASSUME NEW t \in Tiers, NEW k \in OfTier(t)
      PROVE  k \in (Before(t) + 1)..(Before(t) + config.nodes[t])
  <2>1. k \in 1..Total(config.nodes) /\ TierOf(vms[M][k]) = t
    BY <1>3 DEF OfTier
  <2>2. PICK u \in Tiers : \E j \in 1..config.nodes[u] : k = Before(u) + j
    BY <1>2, <2>1
  <2>3. PICK j \in 1..config.nodes[u] : k = Before(u) + j
    BY <2>2
  <2>4. u = t
    BY <1>4, <2>1, <2>3
  <2>5. Before(t) \in Nat /\ config.nodes[t] \in Nat /\ k = Before(t) + j /\ j \in 1..config.nodes[t]
    BY <1>1, <1>2, <2>3, <2>4
  <2> QED BY <2>5
<1>6. ASSUME NEW t \in Tiers, NEW k \in (Before(t) + 1)..(Before(t) + config.nodes[t])
      PROVE  k \in OfTier(t)
  <2>1. Before(t) \in Nat /\ config.nodes[t] \in Nat
    BY <1>1, <1>2
  <2>2. k - Before(t) \in 1..config.nodes[t] /\ Before(t) + (k - Before(t)) = k
    BY <2>1
  <2> QED BY <1>4, <2>2 DEF OfTier
<1>7. \A t \in Tiers : OfTier(t) = (Before(t) + 1)..(Before(t) + config.nodes[t])
  BY <1>5, <1>6
<1>8. ASSUME NEW t \in Tiers PROVE Cardinality(OfTier(t)) = config.nodes[t]
  <2> DEFINE a == Before(t)
             n == config.nodes[t]
  <2>1. a \in Nat /\ n \in Nat /\ OfTier(t) = (a + 1)..(a + n)
    BY <1>1, <1>2, <1>7
  <2> HIDE DEF a, n
  <2>2. a + 1 \in Int /\ a + n \in Int
    BY <2>1
  <2>3. Cardinality((a + 1)..(a + n)) = IF a + 1 > a + n THEN 0 ELSE (a + n) - (a + 1) + 1
    BY <2>2, FS_Interval
  <2>4. Cardinality(OfTier(t)) = n
    BY <2>1, <2>3
  <2> QED BY <2>4 DEF n
<1>9. ASSUME NEW t \in Tiers, config.nodes[t] > 0 PROVE First(t) = Before(t) + 1
  <2> DEFINE a == Before(t)
             n == config.nodes[t]
             least(k) == \A l \in (a + 1)..(a + n) : k <= l
  <2>1. a \in Nat /\ n \in Nat /\ n > 0 /\ OfTier(t) = (a + 1)..(a + n)
    BY <1>1, <1>2, <1>7, <1>9
  <2>2. First(t) = CHOOSE k \in (a + 1)..(a + n) : least(k)
    BY <2>1 DEF First
  <2> HIDE DEF a, n
  <2>3. a + 1 \in (a + 1)..(a + n) /\ \A k \in (a + 1)..(a + n) : least(k) <=> k = a + 1
    BY <2>1
  <2> HIDE DEF least
  <2>4. (CHOOSE k \in (a + 1)..(a + n) : least(k)) = a + 1
    BY <2>3
  <2> QED BY <2>2, <2>4 DEF a
<1> QED BY <1>7, <1>8, <1>9

\* How many lines a category has in terraform's output, with those that are
\* skipped after it.
LinesOf(t) == IF config.nodes[t] = 0 THEN 0 ELSE config.nodes[t] + OffsetBetweenCategories

\* Where set_ips looks for the first address of a category.
LEMMA LineOfIs ==
    ASSUME PlacementInv, CountInv, MachinesInv, pc \notin Unplaced, Len(machines) = 1,
           DOMAIN vms[M] = DOMAIN NewVms, \A k \in DOMAIN NewVms : vms[M][k].role = NewVms[k].role
    PROVE  LET c == LinesOf("cloud")
               e == LinesOf("edge")
               p == LinesOf("endpoint")
           IN /\ c \in Nat /\ e \in Nat /\ p \in Nat
              /\ LineOf(1) = 4 /\ LineOf(2) = 4 + c /\ LineOf(3) = 4 + c + c
              /\ LineOf(4) = 4 + c + c + e /\ LineOf(5) = 4 + c + c + e + e
              /\ LineOf(6) = 4 + c + c + e + e + p
<1> DEFINE lines == [j \in DOMAIN Categories |->
                       IF OfTier(Categories[j][1]) = {} THEN 0
                       ELSE Cardinality(OfTier(Categories[j][1])) + OffsetBetweenCategories]
           D == 1..6
           c == LinesOf("cloud")
           e == LinesOf("edge")
           p == LinesOf("endpoint")
<1>1. \A t \in Tiers : config.nodes[t] \in Nat /\ Before(t) \in Nat
  BY OnlyMachine, PlaceOfTier
<1>2. \A t \in Tiers : /\ OfTier(t) = (Before(t) + 1)..(Before(t) + config.nodes[t])
                       /\ Cardinality(OfTier(t)) = config.nodes[t]
  BY OfTierIs
<1>3. ASSUME NEW t \in Tiers
      PROVE  /\ (IF OfTier(t) = {} THEN 0 ELSE Cardinality(OfTier(t)) + OffsetBetweenCategories) = LinesOf(t)
             /\ LinesOf(t) \in Nat
  <2>1. config.nodes[t] \in Nat /\ Before(t) \in Nat /\ Cardinality(OfTier(t)) = config.nodes[t]
        /\ OfTier(t) = (Before(t) + 1)..(Before(t) + config.nodes[t])
    BY <1>1, <1>2
  <2>2. OfTier(t) = {} <=> config.nodes[t] = 0
    <3>1. config.nodes[t] # 0 => Before(t) + 1 \in (Before(t) + 1)..(Before(t) + config.nodes[t])
      BY <2>1
    <3>2. config.nodes[t] = 0 => (Before(t) + 1)..(Before(t) + config.nodes[t]) = {}
      BY <2>1
    <3> QED BY <2>1, <3>1, <3>2
  <2> QED BY <2>1, <2>2 DEF LinesOf, OffsetBetweenCategories
<1>4. /\ DOMAIN Categories = 1..6
      /\ Categories[1][1] = "cloud" /\ Categories[2][1] = "cloud" /\ Categories[3][1] = "edge"
      /\ Categories[4][1] = "edge" /\ Categories[5][1] = "endpoint" /\ Categories[6][1] = "endpoint"
  BY DEF Categories
<1>5. /\ lines = [j \in D |-> lines[j]]
      /\ lines[1] = c /\ lines[2] = c /\ lines[3] = e /\ lines[4] = e /\ lines[5] = p /\ lines[6] = p
  <2>1. lines = [j \in D |-> lines[j]]
    BY <1>4
  <2>2. /\ lines[1] = LinesOf(Categories[1][1]) /\ lines[2] = LinesOf(Categories[2][1])
        /\ lines[3] = LinesOf(Categories[3][1]) /\ lines[4] = LinesOf(Categories[4][1])
        /\ lines[5] = LinesOf(Categories[5][1]) /\ lines[6] = LinesOf(Categories[6][1])
    <3>1. \A j \in 1..6 : Categories[j][1] \in Tiers
      <4>1. \A j \in 1..6 : j = 1 \/ j = 2 \/ j = 3 \/ j = 4 \/ j = 5 \/ j = 6
        OBVIOUS
      <4> QED BY <1>4, <4>1 DEF Tiers
    <3>2. \A j \in 1..6 : lines[j] = LinesOf(Categories[j][1])
      BY <1>3, <1>4, <3>1
    <3> QED BY <3>2
  <2> QED BY <1>4, <2>1, <2>2
<1>6. c \in Nat /\ e \in Nat /\ p \in Nat
  BY <1>3 DEF Tiers
<1>7. \A i : LineOf(i) = 4 + Sum(lines, 1..(i - 1))
  BY DEF LineOf, Sum, OffsetBetweenCategories
<1> HIDE DEF lines, c, e, p
<1>8. lines \in [D -> Nat]
  <2>1. \A j \in D : j = 1 \/ j = 2 \/ j = 3 \/ j = 4 \/ j = 5 \/ j = 6
    OBVIOUS
  <2>2. \A j \in D : lines[j] \in Nat
    BY <1>5, <1>6, <2>1
  <2> HIDE DEF D
  <2> QED BY <1>5, <2>2
<1>9. Sum(lines, 1..0) = 0 /\ \A i \in 1..6 : Sum(lines, 1..i) = Sum(lines, 1..(i - 1)) + lines[i]
  BY <1>8, SumUpTo
<1> HIDE DEF D
<1>11. /\ Sum(lines, 1..1) = c /\ Sum(lines, 1..2) = c + c /\ Sum(lines, 1..3) = c + c + e
       /\ Sum(lines, 1..4) = c + c + e + e /\ Sum(lines, 1..5) = c + c + e + e + p
  <2>1. /\ Sum(lines, 1..1) = Sum(lines, 1..(1 - 1)) + lines[1]
        /\ Sum(lines, 1..2) = Sum(lines, 1..(2 - 1)) + lines[2]
        /\ Sum(lines, 1..3) = Sum(lines, 1..(3 - 1)) + lines[3]
        /\ Sum(lines, 1..4) = Sum(lines, 1..(4 - 1)) + lines[4]
        /\ Sum(lines, 1..5) = Sum(lines, 1..(5 - 1)) + lines[5]
    BY <1>9
  <2>2. 1 - 1 = 0 /\ 2 - 1 = 1 /\ 3 - 1 = 2 /\ 4 - 1 = 3 /\ 5 - 1 = 4
    OBVIOUS
  <2> QED BY <1>5, <1>6, <1>9, <2>1, <2>2
<1>12. /\ LineOf(1) = 4 + Sum(lines, 1..0) /\ LineOf(2) = 4 + Sum(lines, 1..1) /\ LineOf(3) = 4 + Sum(lines, 1..2)
       /\ LineOf(4) = 4 + Sum(lines, 1..3) /\ LineOf(5) = 4 + Sum(lines, 1..4) /\ LineOf(6) = 4 + Sum(lines, 1..5)
  <2>1. 1 - 1 = 0 /\ 2 - 1 = 1 /\ 3 - 1 = 2 /\ 4 - 1 = 3 /\ 5 - 1 = 4 /\ 6 - 1 = 5
    OBVIOUS
  <2> QED BY <1>7, <2>1
<1>13. /\ LineOf(1) = 4 /\ LineOf(2) = 4 + c /\ LineOf(3) = 4 + c + c
       /\ LineOf(4) = 4 + c + c + e /\ LineOf(5) = 4 + c + c + e + e
       /\ LineOf(6) = 4 + c + c + e + e + p
  BY <1>6, <1>9, <1>11, <1>12
<1> QED BY <1>6, <1>13 DEF c, e, p

\* The lines of terraform's output.
OutputLines ==
    {<<>>} \cup {Given(net, t, k) : net \in {External, Internal}, t \in Tiers, k \in Nat}

\* A list between two lines of text on either side.
LEMMA BlockIs ==
    ASSUME NEW T, NEW x \in T, NEW n \in Nat, NEW a \in Seq(T), Len(a) = n,
           NEW b, b = (<<x, x>> \o a) \o <<x, x>>
    PROVE  b \in Seq(T) /\ Len(b) = n + 4 /\ \A j \in 1..n : b[2 + j] = a[j]
<1> DEFINE two == <<x, x>>
           half == two \o a
<1>1. two \in Seq(T) /\ Len(two) = 2
  OBVIOUS
<1>2. b = half \o two
  OBVIOUS
<1> HIDE DEF two
<1>3. IsConcat(half, two, 2, a, n, T)
  BY <1>1, ConcatPlaces, Zenon
<1>4. half \in Seq(T) /\ Len(half) = 2 + n /\ \A j \in 1..n : half[2 + j] = a[j]
  BY <1>3, Zenon DEF IsConcat
<1> HIDE DEF half
<1>5. IsConcat(b, half, 2 + n, two, 2, T)
  BY <1>1, <1>2, <1>4, ConcatPlaces, Zenon
<1>6. b \in Seq(T) /\ Len(b) = 2 + n + 2 /\ \A k \in 1..(2 + n) : b[k] = half[k]
  BY <1>5, Zenon DEF IsConcat
<1>7. Len(b) = n + 4
  BY <1>6
<1>8. \A j \in 1..n : 2 + j \in 1..(2 + n)
  OBVIOUS
<1>9. \A j \in 1..n : b[2 + j] = a[j]
  BY <1>4, <1>6, <1>8, Zenon
<1> QED BY <1>6, <1>7, <1>9

\* The lines that terraform prints before those of a tier.
Skipped(t) ==
    CASE t = "cloud" -> 1
      [] t = "edge" -> 1 + (LinesOf("cloud") + LinesOf("cloud"))
      [] t = "endpoint" -> 1 + (LinesOf("cloud") + LinesOf("cloud")) + (LinesOf("edge") + LinesOf("edge"))

\* Where terraform prints an address.
LEMMA OutputIs ==
    ASSUME \A t \in Tiers : config.nodes[t] \in Nat
    PROVE  /\ DOMAIN TerraformOutput = 1..Len(TerraformOutput) /\ Len(TerraformOutput) \in Nat
           /\ \A t \in Tiers : \A j \in 1..config.nodes[t] :
                 /\ Skipped(t) + (2 + j) \in DOMAIN TerraformOutput
                 /\ Skipped(t) + (LinesOf(t) + (2 + j)) \in DOMAIN TerraformOutput
                 /\ TerraformOutput[Skipped(t) + (2 + j)] = Given(External, t, j)
                 /\ TerraformOutput[Skipped(t) + (LinesOf(t) + (2 + j))] = Given(Internal, t, j)
<1> DEFINE T == OutputLines
           text == <<>>
           list(t, net) == [k \in Declared(t) |-> Given(net, t, k)]
           block(t, net) == <<text, text>> \o list(t, net) \o <<text, text>>
           both(t) == IF config.nodes[t] = 0 THEN <<>> ELSE block(t, External) \o block(t, Internal)
           start == <<text>>
           cloud == both("cloud")
           edge == both("edge")
           endpoint == both("endpoint")
           s2 == start \o cloud
           s3 == s2 \o edge
           s4 == s3 \o endpoint
           L(t) == LinesOf(t)
           N(t) == config.nodes[t]
<1>1. TerraformOutput = s4
  BY DEF TerraformOutput
<1>2. \A t \in Tiers : N(t) \in Nat /\ L(t) \in Nat /\ (N(t) # 0 => L(t) = N(t) + 4)
  BY DEF LinesOf, OffsetBetweenCategories
<1>3. text \in T /\ start \in Seq(T) /\ Len(start) = 1
  <2>1. text \in T
    BY DEF OutputLines
  <2> HIDE DEF T, text
  <2> QED BY <2>1
<1>4. ASSUME NEW t \in Tiers, NEW net \in {External, Internal}
      PROVE  /\ block(t, net) \in Seq(T) /\ Len(block(t, net)) = N(t) + 4
             /\ \A j \in 1..N(t) : block(t, net)[2 + j] = Given(net, t, j)
  <2> DEFINE n == N(t)
             a == list(t, net)
             b == block(t, net)
  <2>1. n \in Nat
    OBVIOUS
  <2>2. a \in [1..n -> T] /\ \A j \in 1..n : a[j] = Given(net, t, j)
    <3>1. \A k \in 1..n : Given(net, t, k) \in T
      BY <2>1 DEF OutputLines
    <3> HIDE DEF T
    <3> QED BY <3>1 DEF Declared
  <2>3. b = (<<text, text>> \o a) \o <<text, text>>
    OBVIOUS
  <2> HIDE DEF n, a, b, T, text
  <2>4. a \in Seq(T)
    BY <2>1, <2>2, SeqDef
  <2>5. Len(a) = n
    BY <2>1, <2>2, <2>4, LenProperties
  <2>6. b \in Seq(T) /\ Len(b) = n + 4 /\ \A j \in 1..n : b[2 + j] = a[j]
    BY <1>3, <2>1, <2>3, <2>4, <2>5, BlockIs
  <2>7. \A j \in 1..n : b[2 + j] = Given(net, t, j)
    BY <2>2, <2>6
  <2> QED BY <2>6, <2>7 DEF n, a, b
<1> HIDE DEF block, T, text, list
<1>5. ASSUME NEW t \in Tiers
      PROVE  /\ both(t) \in Seq(T) /\ Len(both(t)) = L(t) + L(t)
             /\ \A j \in 1..N(t) : /\ both(t)[2 + j] = Given(External, t, j)
                                   /\ both(t)[L(t) + (2 + j)] = Given(Internal, t, j)
  <2>1. CASE N(t) = 0
    <3>1. both(t) = <<>> /\ 1..N(t) = {} /\ L(t) = 0
      BY <2>1 DEF LinesOf
    <3> HIDE DEF both, N, L
    <3> QED BY <3>1, EmptySeq
  <2>2. CASE N(t) # 0
    <3> DEFINE n == N(t)
               l == L(t)
               x == block(t, External)
               y == block(t, Internal)
               b == both(t)
    <3>1. b = x \o y /\ n \in Nat /\ l = n + 4
      BY <1>2, <2>2
    <3>2. /\ x \in Seq(T) /\ Len(x) = l /\ y \in Seq(T) /\ Len(y) = l
          /\ \A j \in 1..n : x[2 + j] = Given(External, t, j) /\ y[2 + j] = Given(Internal, t, j)
      BY <1>4, <3>1
    <3> HIDE DEF n, l, x, y, b
    <3>3. IsConcat(b, x, l, y, l, T)
      BY <3>1, <3>2, ConcatPlaces, Zenon
    <3>4. /\ b \in Seq(T) /\ Len(b) = l + l
          /\ \A k \in 1..l : b[k] = x[k] /\ b[l + k] = y[k]
      BY <3>3, Zenon DEF IsConcat
    <3>5. \A j \in 1..n : 2 + j \in 1..l
      BY <3>1
    <3>6. \A j \in 1..n : b[2 + j] = Given(External, t, j) /\ b[l + (2 + j)] = Given(Internal, t, j)
      BY <3>2, <3>4, <3>5, Zenon
    <3> QED BY <3>4, <3>6 DEF n, l, b
  <2> QED BY <2>1, <2>2
<1> HIDE DEF both, start
<1> DEFINE lc == L("cloud") + L("cloud")
           le == L("edge") + L("edge")
           lp == L("endpoint") + L("endpoint")
<1>6. /\ cloud \in Seq(T) /\ Len(cloud) = lc /\ edge \in Seq(T) /\ Len(edge) = le
      /\ endpoint \in Seq(T) /\ Len(endpoint) = lp
  BY <1>5 DEF Tiers
<1>7. lc \in Nat /\ le \in Nat /\ lp \in Nat
  BY <1>2 DEF Tiers
<1>8. \A t \in Tiers : \A j \in 1..N(t) : /\ 2 + j \in 1..(L(t) + L(t))
                                          /\ L(t) + (2 + j) \in 1..(L(t) + L(t))
  <2> SUFFICES ASSUME NEW t \in Tiers, NEW j \in 1..N(t)
               PROVE  2 + j \in 1..(L(t) + L(t)) /\ L(t) + (2 + j) \in 1..(L(t) + L(t))
    OBVIOUS
  <2> DEFINE n == N(t)
             l == L(t)
  <2>1. n \in Nat /\ l \in Nat /\ (n # 0 => l = n + 4) /\ j \in 1..n
    BY <1>2
  <2> HIDE DEF n, l
  <2>2. 2 + j \in 1..(l + l) /\ l + (2 + j) \in 1..(l + l)
    BY <2>1
  <2> QED BY <2>2 DEF n, l
<1> HIDE DEF cloud, edge, endpoint, lc, le, lp
<1>9. /\ s2 \in Seq(T) /\ Len(s2) = 1 + lc /\ \A k \in 1..lc : s2[1 + k] = cloud[k]
  <2>1. IsConcat(s2, start, 1, cloud, lc, T)
    BY <1>3, <1>6, ConcatPlaces, Zenon
  <2> QED BY <2>1, Zenon DEF IsConcat
<1> HIDE DEF s2
<1>10. /\ s3 \in Seq(T) /\ Len(s3) = 1 + lc + le
       /\ \A k \in 1..(1 + lc) : s3[k] = s2[k]
       /\ \A k \in 1..le : s3[1 + lc + k] = edge[k]
  <2>1. IsConcat(s3, s2, 1 + lc, edge, le, T)
    BY <1>9, <1>6, ConcatPlaces, Zenon
  <2> QED BY <2>1, Zenon DEF IsConcat
<1> HIDE DEF s3
<1>11. /\ s4 \in Seq(T) /\ Len(s4) = 1 + lc + le + lp
       /\ \A k \in 1..(1 + lc + le) : s4[k] = s3[k]
       /\ \A k \in 1..lp : s4[1 + lc + le + k] = endpoint[k]
  <2>1. IsConcat(s4, s3, 1 + lc + le, endpoint, lp, T)
    BY <1>10, <1>6, ConcatPlaces, Zenon
  <2> QED BY <2>1, Zenon DEF IsConcat
<1>12. DOMAIN s4 = 1..(1 + lc + le + lp) /\ DOMAIN s4 = 1..Len(s4) /\ Len(s4) \in Nat
  BY <1>7, <1>11, LenProperties
<1> HIDE DEF s4
<1>13. ASSUME NEW t \in Tiers, NEW k \in 1..(L(t) + L(t))
       PROVE  Skipped(t) + k \in DOMAIN s4 /\ s4[Skipped(t) + k] = both(t)[k]
  <2>1. CASE t = "cloud"
    <3>1. k \in 1..lc /\ 1 + k \in 1..(1 + lc) /\ 1 + k \in 1..(1 + lc + le) /\ 1 + k \in 1..(1 + lc + le + lp)
      <4>1. k \in 1..lc
        BY <2>1 DEF lc
      <4> QED BY <1>7, <4>1
    <3>2. s4[1 + k] = cloud[k]
      BY <1>9, <1>10, <1>11, <3>1, Zenon
    <3> QED BY <1>12, <2>1, <3>1, <3>2 DEF Skipped, cloud
  <2>2. CASE t = "edge"
    <3>1. k \in 1..le /\ 1 + lc + k \in 1..(1 + lc + le) /\ 1 + lc + k \in 1..(1 + lc + le + lp)
      <4>1. k \in 1..le
        BY <2>2 DEF le
      <4> QED BY <1>7, <4>1
    <3>2. s4[1 + lc + k] = edge[k]
      BY <1>10, <1>11, <3>1, Zenon
    <3> QED BY <1>12, <2>2, <3>1, <3>2 DEF Skipped, edge, lc
  <2>3. CASE t = "endpoint"
    <3>1. k \in 1..lp /\ 1 + lc + le + k \in 1..(1 + lc + le + lp)
      <4>1. k \in 1..lp
        BY <2>3 DEF lp
      <4> QED BY <1>7, <4>1
    <3>2. s4[1 + lc + le + k] = endpoint[k]
      BY <1>11, <3>1, Zenon
    <3> QED BY <1>12, <2>3, <3>1, <3>2 DEF Skipped, endpoint, lc, le
  <2> QED BY <2>1, <2>2, <2>3 DEF Tiers
<1>14. ASSUME NEW t \in Tiers, NEW j \in 1..N(t)
       PROVE  /\ Skipped(t) + (2 + j) \in DOMAIN s4
              /\ Skipped(t) + (L(t) + (2 + j)) \in DOMAIN s4
              /\ s4[Skipped(t) + (2 + j)] = Given(External, t, j)
              /\ s4[Skipped(t) + (L(t) + (2 + j))] = Given(Internal, t, j)
  <2> HIDE DEF L, N
  <2>1. 2 + j \in 1..(L(t) + L(t)) /\ L(t) + (2 + j) \in 1..(L(t) + L(t))
    BY <1>8
  <2>2. both(t)[2 + j] = Given(External, t, j) /\ both(t)[L(t) + (2 + j)] = Given(Internal, t, j)
    BY <1>5
  <2> QED BY <1>13, <2>1, <2>2
<1> QED BY <1>1, <1>12, <1>14

\* The category that set_ips reads an address of a tier and a network from,
\* and the line it starts there.
LEMMA CategoryIs ==
    ASSUME PlacementInv, CountInv, MachinesInv, pc \notin Unplaced, Len(machines) = 1,
           DOMAIN vms[M] = DOMAIN NewVms, \A k \in DOMAIN NewVms : vms[M][k].role = NewVms[k].role,
           NEW t \in Tiers
    PROVE  /\ LineOf(CHOOSE i \in DOMAIN Categories : Categories[i] = <<t, External>>) = Skipped(t) + 3
           /\ LineOf(CHOOSE i \in DOMAIN Categories : Categories[i] = <<t, Internal>>)
                 = Skipped(t) + LinesOf(t) + 3
           /\ Skipped(t) \in Nat /\ LinesOf(t) \in Nat
<1> DEFINE of(net) == CHOOSE i \in DOMAIN Categories : Categories[i] = <<t, net>>
           c == LinesOf("cloud")
           e == LinesOf("edge")
           p == LinesOf("endpoint")
<1>1. /\ c \in Nat /\ e \in Nat /\ p \in Nat
      /\ LineOf(1) = 4 /\ LineOf(2) = 4 + c /\ LineOf(3) = 4 + c + c
      /\ LineOf(4) = 4 + c + c + e /\ LineOf(5) = 4 + c + c + e + e
      /\ LineOf(6) = 4 + c + c + e + e + p
  BY LineOfIs
<1>2. /\ DOMAIN Categories = 1..6
      /\ Categories[1] = <<"cloud", External>> /\ Categories[2] = <<"cloud", Internal>>
      /\ Categories[3] = <<"edge", External>> /\ Categories[4] = <<"edge", Internal>>
      /\ Categories[5] = <<"endpoint", External>> /\ Categories[6] = <<"endpoint", Internal>>
  BY DEF Categories
<1>3. \A i \in 1..6 : i = 1 \/ i = 2 \/ i = 3 \/ i = 4 \/ i = 5 \/ i = 6
  OBVIOUS
<1>4. /\ \A i \in 1..6 : Categories[i] = <<"cloud", External>> <=> i = 1
      /\ \A i \in 1..6 : Categories[i] = <<"cloud", Internal>> <=> i = 2
      /\ \A i \in 1..6 : Categories[i] = <<"edge", External>> <=> i = 3
      /\ \A i \in 1..6 : Categories[i] = <<"edge", Internal>> <=> i = 4
      /\ \A i \in 1..6 : Categories[i] = <<"endpoint", External>> <=> i = 5
      /\ \A i \in 1..6 : Categories[i] = <<"endpoint", Internal>> <=> i = 6
  BY <1>2, <1>3, TerraformAssumption
<1>5. 1 \in 1..6 /\ 2 \in 1..6 /\ 3 \in 1..6 /\ 4 \in 1..6 /\ 5 \in 1..6 /\ 6 \in 1..6
  OBVIOUS
<1> DEFINE Found(l, k) == LineOf(of(External)) = k + 3 /\ LineOf(of(Internal)) = k + l + 3 /\ k \in Nat /\ l \in Nat
<1> HIDE DEF c, e, p
<1>6. ASSUME t = "cloud" PROVE Found(LinesOf(t), Skipped(t))
  <2>1. of(External) = 1 /\ of(Internal) = 2
    BY <1>2, <1>4, <1>5, <1>6
  <2>2. Skipped(t) = 1 /\ LinesOf(t) = c
    BY <1>6 DEF Skipped, c
  <2> HIDE DEF of
  <2>3. LineOf(of(External)) = 4 /\ LineOf(of(Internal)) = 4 + c
    BY <1>1, <2>1
  <2>4. 4 = (1) + 3 /\ 4 + c = (1) + c + 3
    BY <1>1
  <2>5. (1) \in Nat
    BY <1>1
  <2> QED BY <1>1, <2>2, <2>3, <2>4, <2>5
<1>7. ASSUME t = "edge" PROVE Found(LinesOf(t), Skipped(t))
  <2>1. of(External) = 3 /\ of(Internal) = 4
    BY <1>2, <1>4, <1>5, <1>7
  <2>2. Skipped(t) = 1 + (c + c) /\ LinesOf(t) = e
    BY <1>7 DEF Skipped, c, e
  <2> HIDE DEF of
  <2>3. LineOf(of(External)) = 4 + c + c /\ LineOf(of(Internal)) = 4 + c + c + e
    BY <1>1, <2>1
  <2>4. 4 + c + c = (1 + (c + c)) + 3 /\ 4 + c + c + e = (1 + (c + c)) + e + 3
    BY <1>1
  <2>5. (1 + (c + c)) \in Nat
    BY <1>1
  <2> QED BY <1>1, <2>2, <2>3, <2>4, <2>5
<1>8. ASSUME t = "endpoint" PROVE Found(LinesOf(t), Skipped(t))
  <2>1. of(External) = 5 /\ of(Internal) = 6
    BY <1>2, <1>4, <1>5, <1>8
  <2>2. Skipped(t) = 1 + (c + c) + (e + e) /\ LinesOf(t) = p
    BY <1>8 DEF Skipped, c, e, p
  <2> HIDE DEF of
  <2>3. LineOf(of(External)) = 4 + c + c + e + e /\ LineOf(of(Internal)) = 4 + c + c + e + e + p
    BY <1>1, <2>1
  <2>4. 4 + c + c + e + e = (1 + (c + c) + (e + e)) + 3 /\ 4 + c + c + e + e + p = (1 + (c + c) + (e + e)) + p + 3
    BY <1>1
  <2>5. (1 + (c + c) + (e + e)) \in Nat
    BY <1>1
  <2> QED BY <1>1, <2>2, <2>3, <2>4, <2>5
<1>9. Found(LinesOf(t), Skipped(t))
  BY <1>6, <1>7, <1>8 DEF Tiers
<1> QED BY <1>9

\* set_ips reads the address that the provider has given to the VM.
LEMMA ReadAddressIs ==
    ASSUME PlacementInv, CountInv, MachinesInv, pc \notin Unplaced, Len(machines) = 1,
           DOMAIN vms[M] = DOMAIN NewVms, \A k \in DOMAIN NewVms : vms[M][k].role = NewVms[k].role,
           NEW t \in Tiers, NEW j \in 1..config.nodes[t]
    PROVE  /\ ReadAddress(Before(t) + j, External) = Given(External, t, j)
           /\ ReadAddress(Before(t) + j, Internal) = Given(Internal, t, j)
<1> DEFINE k == Before(t) + j
           of(net) == CHOOSE i \in DOMAIN Categories : Categories[i] = <<t, net>>
           out(line) == IF line \in DOMAIN TerraformOutput THEN TerraformOutput[line] ELSE <<>>
<1>1. \A u \in Tiers : config.nodes[u] \in Nat
  BY OnlyMachine
<1>2. Before(t) \in Nat /\ k \in 1..Total(config.nodes)
  BY <1>1, PlaceOfTier
<1>3. First(t) = Before(t) + 1
  <2>1. config.nodes[t] > 0
    BY <1>1
  <2> QED BY <2>1, OfTierIs
<1>4. TierOf(vms[M][k]) = t
  <2>1. k \in DOMAIN NewVms /\ NewVms[k] = VmAt(t, j)
    BY <1>2, NewVmsAre
  <2>2. vms[M][k].role = VmAt(t, j).role
    BY <2>1
  <2> QED BY <2>2 DEF TierOf, VmAt, NewVm, Tiers
<1>5. \A net : ReadAddress(k, net) = out(LineOf(of(net)) + k - First(t))
  BY <1>4 DEF ReadAddress
<1>6. /\ LineOf(of(External)) = Skipped(t) + 3
      /\ LineOf(of(Internal)) = Skipped(t) + LinesOf(t) + 3
      /\ Skipped(t) \in Nat /\ LinesOf(t) \in Nat
  BY CategoryIs
<1>7. /\ Skipped(t) + (2 + j) \in DOMAIN TerraformOutput
      /\ Skipped(t) + (LinesOf(t) + (2 + j)) \in DOMAIN TerraformOutput
      /\ TerraformOutput[Skipped(t) + (2 + j)] = Given(External, t, j)
      /\ TerraformOutput[Skipped(t) + (LinesOf(t) + (2 + j))] = Given(Internal, t, j)
  BY <1>1, OutputIs
<1> DEFINE b == Before(t)
           s == Skipped(t)
           l == LinesOf(t)
<1>8. b \in Nat /\ s \in Nat /\ l \in Nat /\ j \in Int /\ k = b + j
  BY <1>1, <1>2, <1>6
<1> HIDE DEF of, out, b, s, l, k
<1>9. /\ LineOf(of(External)) + k - First(t) = s + (2 + j)
      /\ LineOf(of(Internal)) + k - First(t) = s + (l + (2 + j))
  <2>1. s + 3 + k - (b + 1) = s + (2 + j) /\ s + l + 3 + k - (b + 1) = s + (l + (2 + j))
    BY <1>8
  <2> QED BY <1>3, <1>6, <2>1 DEF b, s, l
<1>10. /\ out(s + (2 + j)) = Given(External, t, j)
       /\ out(s + (l + (2 + j))) = Given(Internal, t, j)
  BY <1>7 DEF out, s, l
<1> QED BY <1>5, <1>9, <1>10 DEF k

-----------------------------------------------------------------------------
(* The invariant of GCP and AWS *)

\* The VMs as set_ips leaves them, the base images of a list of VMs, and a list
\* that only the one machine has.
CloudVms ==
    [k \in DOMAIN NewVms |->
        LET t == TierOf(NewVms[k])
        IN [NewVms[k] EXCEPT !.ip = Given(External, t, k - Before(t)),
                             !.internal = Given(Internal, t, k - Before(t))]]
BasesOf(list) == [k \in DOMAIN list |-> [name |-> list[k].name, ip |-> list[k].ip]]
Only(list) == [m \in Hosts |-> IF m = M THEN list ELSE <<>>]
Empty == [m \in Hosts |-> <<>>]

\* The VMs have addresses when these are reached with GCP or AWS.
Addressed == {"install", "running", "shaped", "ready", "failed"}

\* The lists are empty, then those of set_ip_names, then those with the addresses.
CloudInv ==
    Cloud =>
        /\ pc \notin {"inventory", "generate", "base", "launch"}
        /\ pc \in Unnamed => vms = Empty /\ bases = Empty
        /\ pc \in {"registry", "apply"} =>
              Len(machines) = 1 /\ vms = Only(NewVms) /\ bases = Only(BasesOf(NewVms))
        /\ pc \in Addressed =>
              Len(machines) = 1 /\ vms = Only(CloudVms) /\ bases = Only(BasesOf(CloudVms))

\* set_ips gives the VMs these addresses.
LEMMA ReadIs ==
    ASSUME PlacementInv, CountInv, MachinesInv, pc \notin Unplaced, Len(machines) = 1, vms[M] = NewVms
    PROVE  [k \in DOMAIN vms[M] |-> [vms[M][k] EXCEPT !.ip = ReadAddress(k, External),
                                                     !.internal = ReadAddress(k, Internal)]] = CloudVms
<1> DEFINE D == DOMAIN NewVms
           t(k) == TierOf(NewVms[k])
<1>1. /\ D = 1..Total(config.nodes) /\ \A u \in Tiers : config.nodes[u] \in Nat
      /\ \A u \in Tiers : \A j \in 1..config.nodes[u] : NewVms[Before(u) + j] = VmAt(u, j)
  BY NewVmsAre, OnlyMachine
<1>2. ASSUME NEW k \in D
      PROVE  /\ ReadAddress(k, External) = Given(External, t(k), k - Before(t(k)))
             /\ ReadAddress(k, Internal) = Given(Internal, t(k), k - Before(t(k)))
  <2>1. PICK u \in Tiers : \E j \in 1..config.nodes[u] : k = Before(u) + j
    BY <1>1, PlaceOfTier
  <2>2. PICK j \in 1..config.nodes[u] : k = Before(u) + j
    BY <2>1
  <2>3. Before(u) \in Nat /\ j \in Int
    BY <1>1, PlaceOfTier
  <2>4. t(k) = u /\ k - Before(u) = j
    <3>1. NewVms[k] = VmAt(u, j)
      BY <1>1, <2>2
    <3>2. TierOf(VmAt(u, j)) = u
      BY DEF TierOf, VmAt, NewVm, Tiers
    <3> QED BY <2>2, <2>3, <3>1, <3>2
  <2>5. ReadAddress(k, External) = Given(External, u, j) /\ ReadAddress(k, Internal) = Given(Internal, u, j)
    BY <2>2, ReadAddressIs
  <2> QED BY <2>4, <2>5
<1> QED BY <1>2 DEF CloudVms

\* The lists follow from the placement alone.
LEMMA CloudFrame ==
    ASSUME UNCHANGED placement
    PROVE  /\ M' = M /\ Hosts' = Hosts /\ NewVms' = NewVms /\ CloudVms' = CloudVms /\ Empty' = Empty
           /\ \A s : Only(s)' = Only(s)
           /\ (Cloud' <=> Cloud) /\ machines' = machines
<1>1. M' = M /\ Hosts' = Hosts /\ config' = config /\ perMachine' = perMachine /\ machines' = machines
  BY DEF placement, M, Hosts
<1>2. NewVms' = NewVms
  BY <1>1 DEF NewVms, CloudName
<1>3. \A t : Before(t)' = Before(t)
  BY <1>1 DEF Before
<1>4. CloudVms' = CloudVms
  BY <1>2, <1>3 DEF CloudVms
<1>5. Empty' = Empty /\ \A s : Only(s)' = Only(s)
  BY <1>1 DEF Empty, Only
<1> QED BY <1>1, <1>2, <1>4, <1>5 DEF Cloud

\* The steps with GCP or AWS.
LEMMA CloudSteps ==
    ASSUME [InfrastructureNext]_everything, Cloud, CloudInv
    PROVE  \/ SetNames
           \/ Apply
           \/ Place
           \/ /\ UNCHANGED <<placement, vms, bases>>
              /\ \/ pc' = pc
                 \/ pc = "registry" /\ pc' = "apply"
                 \/ pc = "install" /\ pc' \in {"running", "failed"}
                 \/ pc = "running" /\ pc' \in {"shaped", "failed"}
                 \/ pc = "shaped" /\ pc' = "ready"
<1>1. pc \notin {"inventory", "generate", "base", "launch"} /\ ~Qemu
  BY DEF CloudInv, Cloud, Qemu
<1>2. CASE UNCHANGED everything
  BY <1>2 DEF everything, allVars, vars, placement, machineObjects
<1>3. CASE DockerRegistry
  BY <1>3 DEF DockerRegistry, Cloud
<1>4. ASSUME SetIpNames \/ CreateInventory \/ Generate \/ NextStage \/ BaseImage \/ LaunchVms \/ LaunchFails
      PROVE  FALSE
  BY <1>1, <1>4 DEF SetIpNames, CreateInventory, Generate, NextStage, BaseImage, LaunchVms, LaunchFails
<1>5. CASE BaseInstall
  BY <1>5 DEF BaseInstall
<1>6. CASE NetworkStart
  BY <1>6 DEF NetworkStart, machineObjects
<1>7. CASE NetworkBenchmark
  BY <1>7 DEF NetworkBenchmark, machineObjects
<1> QED BY <1>2, <1>3, <1>4, <1>5, <1>6, <1>7 DEF InfrastructureNext, ProvisionNext, TerraformNext

\* The invariant of GCP and AWS is kept.
LEMMA CloudStep ==
    /\ PlacementInv /\ CountInv /\ MachinesInv /\ ListsInv /\ CloudInv
    /\ (PlacementInv /\ CountInv /\ MachinesInv)'
    /\ [InfrastructureNext]_everything
    => CloudInv'
<1> SUFFICES ASSUME PlacementInv, CountInv, MachinesInv, ListsInv, CloudInv,
                    (PlacementInv /\ CountInv /\ MachinesInv)',
                    [InfrastructureNext]_everything, Cloud'
             PROVE  CloudInv'
  BY DEF CloudInv
<1>1. Cloud /\ Hosts' = Hosts
  BY ConfigKept DEF Cloud
<1>2. /\ pc \notin {"inventory", "generate", "base", "launch"}
      /\ pc \in Unnamed => vms = Empty /\ bases = Empty
      /\ pc \in {"registry", "apply"} =>
            Len(machines) = 1 /\ vms = Only(NewVms) /\ bases = Only(BasesOf(NewVms))
      /\ pc \in Addressed =>
            Len(machines) = 1 /\ vms = Only(CloudVms) /\ bases = Only(BasesOf(CloudVms))
  BY <1>1 DEF CloudInv
<1>3. ASSUME UNCHANGED placement
      PROVE  /\ M' = M /\ NewVms' = NewVms /\ CloudVms' = CloudVms /\ Empty' = Empty
             /\ machines' = machines /\ \A s : Only(s)' = Only(s)
  BY <1>3, CloudFrame
<1> USE DEF Unplaced, Unnamed, Addressed
<1>4. CASE SetNames
  <2>1. UNCHANGED placement /\ pc = "placed" /\ pc' \in {"aborted", "registry"}
    BY <1>4 DEF SetNames
  <2>2. CASE pc' = "aborted"
    BY <2>2 DEF CloudInv
  <2>3. CASE pc' # "aborted"
    <3>1. /\ pc' = "registry" /\ ~(Len(machines) > 1)
          /\ vms' = [vms EXCEPT ![M] = NewVms]
          /\ bases' = [bases EXCEPT ![M] = [k \in DOMAIN NewVms |-> [name |-> NewVms[k].name, ip |-> <<>>]]]
      BY <1>4, <2>3 DEF SetNames
    <3>2. Len(machines) \in Nat \ {0}
      BY <2>1, MachinesList
    <3>3. Len(machines) = 1
      <4> DEFINE n == Len(machines)
      <4>1. n \in Nat \ {0} /\ ~(n > 1)
        BY <3>1, <3>2
      <4> HIDE DEF n
      <4>2. n = 1
        BY <4>1
      <4> QED BY <4>2 DEF n
    <3>4. /\ NewVms \in Seq(Unaddressed)
      BY <2>1, <3>3, NewVmsAre
    <3>5. \A k \in DOMAIN NewVms : NewVms[k].ip = <<>>
      <4>1. \A k \in DOMAIN NewVms : NewVms[k] \in Unaddressed
        BY <3>4
      <4> QED BY <4>1 DEF Unaddressed, NewVm
    <3>6. BasesOf(NewVms) = [k \in DOMAIN NewVms |-> [name |-> NewVms[k].name, ip |-> <<>>]]
      BY <3>5 DEF BasesOf
    <3>7. vms = Empty /\ bases = Empty
      BY <1>2, <2>1
    <3>8. vms' = Only(NewVms) /\ bases' = Only(BasesOf(NewVms))
      BY <3>1, <3>6, <3>7 DEF Only, Empty
    <3>9. BasesOf(NewVms)' = BasesOf(NewVms)
      BY <1>3, <2>1 DEF BasesOf
    <3>10. vms' = Only(NewVms)' /\ bases' = Only(BasesOf(NewVms))'
      BY <1>3, <2>1, <3>8, <3>9 DEF Only
    <3> QED BY <1>3, <2>1, <3>1, <3>3, <3>10 DEF CloudInv
  <2> QED BY <2>2, <2>3
<1>5. CASE Apply
  <2>1. UNCHANGED placement /\ pc = "apply" /\ pc' \in {"aborted", "failed", "install"}
    BY <1>5 DEF Apply
  <2>2. CASE pc' = "aborted"
    BY <2>2 DEF CloudInv
  <2>3. CASE pc' # "aborted"
    <3> DEFINE read == [k \in DOMAIN vms[M] |->
                          [vms[M][k] EXCEPT !.ip = ReadAddress(k, External),
                                            !.internal = ReadAddress(k, Internal)]]
    <3>1. /\ vms' = [vms EXCEPT ![M] = read]
          /\ bases' = [bases EXCEPT ![M] = [k \in DOMAIN read |-> [name |-> read[k].name, ip |-> read[k].ip]]]
      BY <1>5, <2>3 DEF Apply
    <3>2. Len(machines) = 1 /\ vms = Only(NewVms) /\ bases = Only(BasesOf(NewVms))
      BY <1>2, <2>1
    <3>3. M \in Hosts
      BY <2>1, <3>2, OnlyMachine
    <3>4. vms[M] = NewVms
      BY <3>2, <3>3 DEF Only
    <3>5. read = CloudVms
      BY <2>1, <3>2, <3>4, ReadIs
    <3> HIDE DEF read
    <3>6. vms' = Only(CloudVms) /\ bases' = Only(BasesOf(CloudVms))
      BY <3>1, <3>2, <3>5 DEF Only, BasesOf
    <3>7. BasesOf(CloudVms)' = BasesOf(CloudVms)
      BY <1>3, <2>1 DEF BasesOf
    <3>8. vms' = Only(CloudVms)' /\ bases' = Only(BasesOf(CloudVms))'
      BY <1>3, <2>1, <3>6, <3>7 DEF Only
    <3> QED BY <1>3, <2>1, <2>3, <3>2, <3>8 DEF CloudInv
  <2> QED BY <2>2, <2>3
<1>6. CASE Place
  <2>1. UNCHANGED <<vms, bases>> /\ pc \in Unplaced /\ pc' \in Unplaced \cup {"placed"}
    BY <1>6 DEF Place, machineObjects, Next, SkipTier, PlaceEqual, PlacePin, LeaveNode, Refuse,
                ScheduleDone, RemoveIdle
  <2>2. vms' = Empty' /\ bases' = Empty'
    BY <1>1, <1>2, <2>1 DEF Empty
  <2> QED BY <2>1, <2>2 DEF CloudInv
<1>7. CASE /\ UNCHANGED <<placement, vms, bases>>
           /\ \/ pc' = pc
              \/ pc = "registry" /\ pc' = "apply"
              \/ pc = "install" /\ pc' \in {"running", "failed"}
              \/ pc = "running" /\ pc' \in {"shaped", "failed"}
              \/ pc = "shaped" /\ pc' = "ready"
  <2>1. /\ Only(NewVms)' = Only(NewVms) /\ Only(BasesOf(NewVms))' = Only(BasesOf(NewVms))
        /\ Only(CloudVms)' = Only(CloudVms) /\ Only(BasesOf(CloudVms))' = Only(BasesOf(CloudVms))
    BY <1>1, <1>3, <1>7 DEF Only, BasesOf
  <2> QED BY <1>2, <1>3, <1>7, <2>1 DEF CloudInv
<1> QED BY <1>1, <1>4, <1>5, <1>6, <1>7, CloudSteps

\* The VMs by their tiers.
LEMMA CloudVmsAre ==
    ASSUME PlacementInv, CountInv, MachinesInv, pc \notin Unplaced, Len(machines) = 1
    PROVE  /\ DOMAIN CloudVms = 1..Total(config.nodes) /\ DOMAIN NewVms = DOMAIN CloudVms
           /\ \A k \in DOMAIN NewVms : CloudVms[k].role = NewVms[k].role /\ CloudVms[k].name = NewVms[k].name
           /\ \A t \in Tiers : \A j \in 1..config.nodes[t] :
                 /\ CloudVms[Before(t) + j].role = VmAt(t, j).role
                 /\ CloudVms[Before(t) + j].name = VmAt(t, j).name
                 /\ CloudVms[Before(t) + j].ip = Given(External, t, j)
                 /\ CloudVms[Before(t) + j].internal = Given(Internal, t, j)
                 /\ TierOf(CloudVms[Before(t) + j]) = t
<1>1. /\ NewVms \in Seq(Unaddressed) /\ DOMAIN NewVms = 1..Total(config.nodes)
      /\ \A u \in Tiers : config.nodes[u] \in Nat
      /\ \A u \in Tiers : \A j \in 1..config.nodes[u] : NewVms[Before(u) + j] = VmAt(u, j)
  BY NewVmsAre, OnlyMachine
<1>2. DOMAIN CloudVms = DOMAIN NewVms
  BY DEF CloudVms
<1>3. \A k \in DOMAIN NewVms : NewVms[k] \in Unaddressed
  <2>1. NewVms \in Seq(Unaddressed)
    BY <1>1
  <2> QED BY <2>1
<1>4. ASSUME NEW k \in DOMAIN NewVms
      PROVE  LET t == TierOf(NewVms[k]) IN
             /\ CloudVms[k].role = NewVms[k].role /\ CloudVms[k].name = NewVms[k].name
             /\ CloudVms[k].ip = Given(External, t, k - Before(t))
             /\ CloudVms[k].internal = Given(Internal, t, k - Before(t))
  <2> DEFINE t == TierOf(NewVms[k])
             x == Given(External, t, k - Before(t))
             y == Given(Internal, t, k - Before(t))
  <2>1. CloudVms[k] = [NewVms[k] EXCEPT !.ip = x, !.internal = y]
    BY DEF CloudVms
  <2>2. PICK role, name : NewVms[k] = [role |-> role, name |-> name, ip |-> <<>>, internal |-> <<>>]
    BY <1>3 DEF Unaddressed, NewVm
  <2> HIDE DEF t, x, y
  <2> DEFINE old == NewVms[k]
  <2>3. "role" \in DOMAIN old /\ "name" \in DOMAIN old /\ "ip" \in DOMAIN old /\ "internal" \in DOMAIN old
    BY <2>2
  <2> HIDE DEF old
  <2>4. /\ CloudVms[k].role = old.role /\ CloudVms[k].name = old.name
        /\ CloudVms[k].ip = x /\ CloudVms[k].internal = y
    <3>1. CloudVms[k] = [old EXCEPT !.ip = x, !.internal = y]
      BY <2>1 DEF old
    <3> QED BY <2>3, <3>1
  <2> QED BY <2>4 DEF old, t, x, y
<1>5. ASSUME NEW t \in Tiers, NEW j \in 1..config.nodes[t]
      PROVE  /\ CloudVms[Before(t) + j].role = VmAt(t, j).role
             /\ CloudVms[Before(t) + j].name = VmAt(t, j).name
             /\ CloudVms[Before(t) + j].ip = Given(External, t, j)
             /\ CloudVms[Before(t) + j].internal = Given(Internal, t, j)
             /\ TierOf(CloudVms[Before(t) + j]) = t
  <2> DEFINE k == Before(t) + j
  <2>1. k \in DOMAIN NewVms /\ Before(t) \in Nat
    BY <1>1, PlaceOfTier
  <2>2. NewVms[k] = VmAt(t, j) /\ k - Before(t) = j
    BY <1>1, <2>1
  <2>3. TierOf(VmAt(t, j)) = t
    BY DEF TierOf, VmAt, NewVm, Tiers
  <2> HIDE DEF k
  <2>4. TierOf(NewVms[k]) = t /\ CloudVms[k].role = VmAt(t, j).role
    BY <1>4, <2>1, <2>2, <2>3
  <2>5. TierOf(CloudVms[k]) = t
    BY <2>2, <2>3, <2>4 DEF TierOf
  <2> QED BY <1>4, <2>1, <2>2, <2>3, <2>5 DEF k
<1>6. \A k \in DOMAIN NewVms : CloudVms[k].role = NewVms[k].role /\ CloudVms[k].name = NewVms[k].name
  BY <1>4
<1> QED BY <1>1, <1>2, <1>5, <1>6

\* With GCP or AWS, VMs and base images are where the invariant puts them.
LEMMA CloudLists ==
    ASSUME IInv, CloudInv, Cloud, pc \in Addressed
    PROVE  /\ PlacementInv /\ CountInv /\ MachinesInv /\ pc \notin Unplaced /\ Len(machines) = 1
           /\ M \in Hosts /\ DOMAIN machines = {1}
           /\ vms[M] = CloudVms /\ \A m \in Hosts : m # M => vms[m] = <<>>
           /\ bases[M] = BasesOf(CloudVms) /\ \A m \in Hosts : m # M => bases[m] = <<>>
<1>1. PlacementInv /\ CountInv /\ MachinesInv /\ pc \notin Unplaced
  BY DEF IInv, Addressed, Unplaced
<1>2. Len(machines) = 1 /\ vms = Only(CloudVms) /\ bases = Only(BasesOf(CloudVms))
  BY DEF CloudInv
<1>3. M \in Hosts /\ DOMAIN machines = {1}
  BY <1>1, <1>2, OnlyMachine
<1>4. vms[M] = CloudVms /\ \A m \in Hosts : m # M => vms[m] = <<>>
  BY <1>2, <1>3 DEF Only
<1>5. bases[M] = BasesOf(CloudVms) /\ \A m \in Hosts : m # M => bases[m] = <<>>
  BY <1>2, <1>3 DEF Only
<1> QED BY <1>1, <1>2, <1>3, <1>4, <1>5

\* A VM's address is the one that the provider has given it.
LEMMA ReportedHolds == IInv /\ CloudInv => AddressesReported
<1> SUFFICES ASSUME IInv, CloudInv, Cloud, pc \in Addressed, NEW t \in Tiers, NEW k \in OfTier(t)
             PROVE  /\ vms[M][k].ip = Given(External, t, k - First(t) + 1)
                    /\ vms[M][k].internal = Given(Internal, t, k - First(t) + 1)
  BY DEF AddressesReported, Addressed
<1>1. /\ PlacementInv /\ CountInv /\ MachinesInv /\ pc \notin Unplaced /\ Len(machines) = 1
      /\ vms[M] = CloudVms
  BY CloudLists
<1>2. /\ DOMAIN CloudVms = 1..Total(config.nodes) /\ DOMAIN NewVms = DOMAIN CloudVms
      /\ \A i \in DOMAIN NewVms : CloudVms[i].role = NewVms[i].role
      /\ \A j \in 1..config.nodes[t] :
            /\ CloudVms[Before(t) + j].ip = Given(External, t, j)
            /\ CloudVms[Before(t) + j].internal = Given(Internal, t, j)
  BY <1>1, CloudVmsAre
<1>3. /\ OfTier(t) = (Before(t) + 1)..(Before(t) + config.nodes[t])
      /\ config.nodes[t] > 0 => First(t) = Before(t) + 1
  BY <1>1, <1>2, OfTierIs
<1>4. config.nodes[t] \in Nat /\ Before(t) \in Nat
  BY <1>1, OnlyMachine, PlaceOfTier
<1> DEFINE b == Before(t)
           n == config.nodes[t]
           j == k - b
<1>5. b \in Nat /\ n \in Nat /\ k \in (b + 1)..(b + n)
  BY <1>3, <1>4
<1> HIDE DEF b, n
<1>6. j \in 1..n /\ b + j = k /\ k - (b + 1) + 1 = j /\ n > 0
  BY <1>5
<1>7. k - First(t) + 1 = j
  BY <1>3, <1>6 DEF b, n
<1> HIDE DEF j
<1> QED BY <1>1, <1>2, <1>6, <1>7 DEF b, n

-----------------------------------------------------------------------------
(* Addresses *)

\* How many addresses have one third part.
Width == PostfixUpper - PostfixLower

\* The addresses that update_ip gets to from one with the third part mid, and
\* how many calls it takes.
From(mid) == {a \in Nat \X Nat : a[1] >= mid /\ a[2] >= PostfixLower /\ a[2] < PostfixUpper}
Position(a, mid) == (a[1] - mid) * Width + (a[2] - PostfixLower)

\* There is at least one.
LEMMA WidthType ==
    /\ MiddleIP \in Nat /\ MiddleIPBase \in Nat /\ PostfixLower \in Nat /\ PostfixUpper \in Nat
    /\ PostfixLower < PostfixUpper /\ Width \in Nat \ {0}
<1>1. /\ MiddleIP \in Nat /\ MiddleIPBase \in Nat /\ PostfixLower \in Nat /\ PostfixUpper \in Nat
      /\ PostfixLower < PostfixUpper
  BY ProvisioningAssumption
<1> QED BY <1>1 DEF Width

\* A call of update_ip is one step, also when the last part starts again.
LEMMA UpdateIpSteps ==
    ASSUME NEW mid \in Nat, NEW a \in From(mid)
    PROVE  /\ Position(a, mid) \in Nat /\ Position(a, mid) \in Int
           /\ UpdateIp(a) \in From(mid)
           /\ Position(UpdateIp(a), mid) = Position(a, mid) + 1
<1> DEFINE x == a[1]
           y == a[2]
           l == PostfixLower
           u == PostfixUpper
           w == Width
<1>1. /\ a = <<x, y>> /\ x \in Nat /\ y \in Nat /\ x >= mid /\ y >= l /\ y < u
      /\ l \in Nat /\ u \in Nat /\ l < u /\ w = u - l /\ w \in Nat
  BY WidthType DEF From, Width
<1> HIDE DEF x, y, l, u, w
<1>2. x - mid \in Nat /\ (x + 1) - mid = (x - mid) + 1
  BY <1>1
<1>3. (x - mid) * w \in Nat /\ ((x + 1) - mid) * w = (x - mid) * w + w
  BY <1>1, <1>2, OneMore, ProductNat
<1> DEFINE p == (x - mid) * w
           q == ((x + 1) - mid) * w
<1>4. p \in Nat /\ q = p + w
  BY <1>3
<1>5. Position(a, mid) = p + (y - l)
  BY DEF Position, x, y, w, l
<1>9. /\ Position(<<x + 1, l>>, mid) = ((x + 1) - mid) * w + (l - l)
      /\ Position(<<x, y + 1>>, mid) = (x - mid) * w + ((y + 1) - l)
  <2>1. \A i, j : Position(<<i, j>>, mid) = (i - mid) * w + (j - l)
    BY DEF Position, w, l
  <2> QED BY <2>1, Zenon
<1> HIDE DEF p, q
<1>6. Position(a, mid) \in Nat
  BY <1>1, <1>4, <1>5
<1>7. CASE y + 1 = u
  <2>1. UpdateIp(a) = <<x + 1, l>>
    BY <1>7 DEF UpdateIp, x, y, u, l
  <2>2. UpdateIp(a) \in From(mid)
    <3>1. <<x + 1, l>> \in Nat \X Nat /\ x + 1 >= mid /\ l >= l /\ l < u
      BY <1>1
    <3> QED BY <2>1, <3>1 DEF From, l, u
  <2>3. Position(UpdateIp(a), mid) = q + (l - l)
    BY <1>9, <2>1, Zenon DEF q
  <2>4. q + (l - l) = p + (y - l) + 1
    BY <1>1, <1>4, <1>7
  <2> QED BY <1>5, <1>6, <2>2, <2>3, <2>4
<1>8. CASE y + 1 # u
  <2>1. UpdateIp(a) = <<x, y + 1>>
    BY <1>8 DEF UpdateIp, x, y, u, l
  <2>2. UpdateIp(a) \in From(mid)
    <3>1. <<x, y + 1>> \in Nat \X Nat /\ x >= mid /\ y + 1 >= l /\ y + 1 < u
      BY <1>1, <1>8
    <3> QED BY <2>1, <3>1 DEF From, l, u
  <2>3. Position(UpdateIp(a), mid) = p + ((y + 1) - l)
    BY <1>9, <2>1, Zenon DEF p
  <2>4. p + ((y + 1) - l) = p + (y - l) + 1
    BY <1>1, <1>4
  <2> QED BY <1>5, <1>6, <2>2, <2>3, <2>4
<1> QED BY <1>6, <1>7, <1>8

\* Addresses given one after the other are at positions one after the other.
LEMMA AddressesAre ==
    ASSUME NEW mid \in Nat, NEW a \in From(mid), NEW n \in Nat
    PROVE  /\ Addresses(a, n) \in [1..(n + 1) -> From(mid)]
           /\ Len(Addresses(a, n)) = n + 1
           /\ \A k \in 1..(n + 1) : Position(Addresses(a, n)[k], mid) = Position(a, mid) + (k - 1)
<1> DEFINE V == From(mid)
           Is(g) == g = [k \in 1..(n + 1) |-> IF k = 1 THEN a ELSE UpdateIp(g[k - 1])]
           address == CHOOSE g : Is(g)
<1>1. Addresses(a, n) = [k \in 1..(n + 1) |-> address[k]]
  BY DEF Addresses
<1>2. \E g : Is(g)
  <2> DEFINE G == [x \in (1..n) \X V |-> UpdateIp(x[2])]
  <2>1. G \in [(1..n) \X V -> V]
    <3>1. \A x \in (1..n) \X V : UpdateIp(x[2]) \in V
      BY UpdateIpSteps
    <3> HIDE DEF V
    <3> QED BY <3>1
  <2> HIDE DEF V, Is
  <2>2. PICK f : Steady(f, V, n, a, G)
    <3>1. a \in V
      BY DEF V
    <3> HIDE DEF G
    <3> QED BY <2>1, <3>1, StepByStep
  <2>3. f \in [0..n -> V] /\ f[0] = a /\ \A k \in 1..n : f[k] = G[<<k, f[k - 1]>>]
    BY <2>2 DEF Steady
  <2>4. \A k \in 1..n : f[k] = UpdateIp(f[k - 1])
    <3> SUFFICES ASSUME NEW k \in 1..n PROVE f[k] = UpdateIp(f[k - 1])
      OBVIOUS
    <3>1. k - 1 \in 0..n
      OBVIOUS
    <3>2. <<k, f[k - 1]>> \in (1..n) \X V
      BY <2>3, <3>1
    <3> QED BY <2>3, <3>2
  <2> DEFINE g == [k \in 1..(n + 1) |-> f[k - 1]]
             h == [k \in 1..(n + 1) |-> IF k = 1 THEN a ELSE UpdateIp(g[k - 1])]
  <2>5. ASSUME NEW k \in 1..(n + 1) PROVE g[k] = IF k = 1 THEN a ELSE UpdateIp(g[k - 1])
    <3>1. CASE k = 1
      <4>1. 1 - 1 = 0
        OBVIOUS
      <4> QED BY <2>3, <3>1, <4>1
    <3>2. CASE k # 1
      <4>1. k - 1 \in 1..n /\ k - 1 \in 1..(n + 1)
        BY <3>2
      <4>2. g[k] = f[k - 1] /\ g[k - 1] = f[k - 1 - 1]
        BY <4>1
      <4>3. f[k - 1] = UpdateIp(f[k - 1 - 1])
        BY <2>4, <4>1
      <4> QED BY <3>2, <4>2, <4>3
    <3> QED BY <3>1, <3>2
  <2>6. g = h
    <3>1. \A k \in 1..(n + 1) : g[k] = h[k]
      BY <2>5
    <3> QED BY <3>1
  <2>7. Is(g)
    BY <2>6 DEF Is
  <2> QED BY <2>7
<1>3. Is(address)
  <2> HIDE DEF Is
  <2> QED BY <1>2
<1> DEFINE Good(k) == address[k] \in V /\ Position(address[k], mid) = Position(a, mid) + (k - 1)
           S == {k \in Nat : k \in 1..(n + 1) /\ ~Good(k)}
<1>4. \A k \in 1..(n + 1) : address[k] = IF k = 1 THEN a ELSE UpdateIp(address[k - 1])
  <2> DEFINE entry(k) == IF k = 1 THEN a ELSE UpdateIp(address[k - 1])
  <2>1. address = [k \in 1..(n + 1) |-> entry(k)]
    BY <1>3
  <2> HIDE DEF address, entry
  <2>2. \A k \in 1..(n + 1) : address[k] = entry(k)
    BY <2>1
  <2> QED BY <2>2 DEF entry
<1> HIDE DEF address
<1>5. ASSUME S # {} PROVE FALSE
  <2>1. PICK k \in S : \A j \in S : k <= j
    <3>1. S \in SUBSET Nat
      OBVIOUS
    <3> HIDE DEF S
    <3> QED BY <1>5, <3>1, LeastNatural
  <2>2. k \in Nat /\ k \in 1..(n + 1) /\ ~Good(k)
    BY <2>1
  <2>3. Position(a, mid) \in Nat
    BY UpdateIpSteps
  <2>4. CASE k = 1
    <3>1. address[k] = a
      BY <1>4, <2>2, <2>4
    <3> QED BY <2>2, <2>3, <2>4, <3>1
  <2>5. CASE k # 1
    <3>1. k - 1 \in 1..(n + 1) /\ k - 1 \in Nat /\ ~(k <= k - 1)
      BY <2>2, <2>5
    <3>2. Good(k - 1)
      BY <2>1, <3>1
    <3>3. address[k] = UpdateIp(address[k - 1])
      BY <1>4, <2>2, <2>5
    <3>4. address[k] \in V /\ Position(address[k], mid) = Position(address[k - 1], mid) + 1
      BY <3>2, <3>3, UpdateIpSteps
    <3>5. Position(a, mid) + (k - 1 - 1) + 1 = Position(a, mid) + (k - 1)
      BY <2>2, <2>3
    <3> QED BY <2>2, <3>2, <3>4, <3>5
  <2> QED BY <2>4, <2>5
<1>6. \A k \in 1..(n + 1) : Good(k)
  <2>1. \A k \in 1..(n + 1) : k \in Nat
    OBVIOUS
  <2> HIDE DEF Good
  <2> QED BY <1>5, <2>1
<1> DEFINE s == Addresses(a, n)
           m == n + 1
<1>7. s \in [1..m -> V] /\ \A k \in 1..m : s[k] = address[k]
  BY <1>1, <1>6
<1>8. m \in Nat
  OBVIOUS
<1> HIDE DEF s, m, V
<1>9. s \in Seq(V)
  BY <1>7, <1>8, SeqDef
<1>10. Len(s) = m
  BY <1>7, <1>8, <1>9, LenProperties
<1> QED BY <1>6, <1>7, <1>10 DEF s, m, V

-----------------------------------------------------------------------------
(* The addresses that Continuum chooses *)

\* How many VMs and base images each machine gets.
VmCounts == [j \in DOMAIN machines |-> Total(perMachine[machines[j]])]
BaseCounts == [j \in DOMAIN machines |-> Len(BaseImages(j))]

\* The address that p calls of update_ip lead to.
Located(a, mid, p) == a \in From(mid) /\ Position(a, mid) = p

\* The VMs with an address that is chosen or read.
Spots == From(MiddleIP) \cup {Given(net, t, k) : net \in {External, Internal}, t \in Tiers, k \in Nat}
VmRecords ==
    [role : Tiers \cup {"controller"}, name : (Tiers \cup {"controller", "ubuntu"}) \X Nat,
     ip : Spots, internal : Spots]

\* The VMs of the machines follow each other in the order of their addresses,
\* and so do the base images; with QEMU both addresses of a VM are one.
AddressesOf(i) ==
    LET m == machines[i]
    IN /\ vms[m] \in Seq(VmRecords)
       /\ \A k \in DOMAIN vms[m] :
             /\ vms[m][k].internal = vms[m][k].ip
             /\ Located(vms[m][k].ip, MiddleIP, SumBefore(VmCounts, i) + (k - 1))
       /\ bases[m] = [k \in DOMAIN bases[m] |-> bases[m][k]]
       /\ \A k \in DOMAIN bases[m] :
             Located(bases[m][k].ip, MiddleIPBase, SumBefore(BaseCounts, i) + (k - 1))

AddressInv ==
    Qemu =>
        /\ pc \in Unplaced => Located(ip, MiddleIP, 0) /\ Located(ipBase, MiddleIPBase, 0)
        /\ pc = "placed" => /\ Located(ip, MiddleIP, SumBefore(VmCounts, at))
                            /\ Located(ipBase, MiddleIPBase, SumBefore(BaseCounts, at))
        /\ \A i \in DOMAIN machines : HasNames(i) => AddressesOf(i)
        /\ \A m \in Hosts : (\A i \in DOMAIN machines : HasNames(i) => machines[i] # m) => bases[m] = <<>>

\* A machine has at most one base image per tier.
LEMMA BaseImagesAre ==
    ASSUME NEW i
    PROVE  /\ Len(BaseImages(i)) \in Nat /\ Len(BaseImages(i)) <= 3
           /\ DOMAIN BaseImages(i) = 1..Len(BaseImages(i))
<1>1. CASE config.infra_only
  <2>1. BaseImages(i) = <<<<"base", i>>>>
    BY <1>1 DEF BaseImages
  <2>2. Len(<<<<"base", i>>>>) = 1 /\ DOMAIN <<<<"base", i>>>> = 1..1
    OBVIOUS
  <2> QED BY <2>1, <2>2
<1>2. CASE ~config.infra_only
  <2> DEFINE S == {t \in Tiers : perMachine[machines[i]][t] > 0}
             n == Cardinality(S)
             here == InOrder(S, TierOrder)
  <2>1. n \in Nat /\ n <= 3
    <3>1. IsFiniteSet({"cloud"}) /\ IsFiniteSet({"edge"}) /\ IsFiniteSet({"endpoint"})
      BY FS_Singleton
    <3>2. /\ Cardinality({"cloud"}) = 1 /\ Cardinality({"edge"}) = 1 /\ Cardinality({"endpoint"}) = 1
      BY FS_Singleton
    <3> DEFINE two == {"edge"} \cup {"endpoint"}
    <3>3. IsFiniteSet(two) /\ Cardinality(two) <= 2
      <4>1. /\ IsFiniteSet(two) /\ Cardinality(two) =
                 Cardinality({"edge"}) + Cardinality({"endpoint"}) - Cardinality({"edge"} \cap {"endpoint"})
        BY <3>1, FS_Union
      <4>2. {"edge"} \cap {"endpoint"} = {}
        OBVIOUS
      <4>3. Cardinality({"edge"} \cap {"endpoint"}) = 0
        BY <4>2, FS_EmptySet
      <4> QED BY <3>2, <4>1, <4>3
    <3>4. Tiers = {"cloud"} \cup two /\ {"cloud"} \cap two = {}
      BY DEF Tiers
    <3> HIDE DEF two
    <3>5. /\ IsFiniteSet(Tiers)
          /\ Cardinality(Tiers) = Cardinality({"cloud"}) + Cardinality(two) - Cardinality({"cloud"} \cap two)
      BY <3>1, <3>3, <3>4, FS_Union
    <3>6. Cardinality({"cloud"} \cap two) = 0 /\ Cardinality(two) \in Nat
      BY <3>3, <3>4, FS_EmptySet, FS_CardinalityType
    <3>7. Cardinality(Tiers) <= 3
      BY <3>2, <3>3, <3>5, <3>6
    <3>8. S \in SUBSET Tiers
      OBVIOUS
    <3>9. n <= Cardinality(Tiers) /\ n \in Nat /\ Cardinality(Tiers) \in Nat
      BY <3>5, <3>8, FS_Subset, FS_CardinalityType
    <3> QED BY <3>7, <3>9
  <2>2. BaseImages(i) = [k \in DOMAIN here |-> <<BaseWord[here[k]], i>>]
    BY <1>2 DEF BaseImages
  <2>3. DOMAIN here = 1..n
    BY DEF InOrder
  <2> HIDE DEF S, n, here
  <2> DEFINE name(k) == <<BaseWord[here[k]], i>>
             s == [k \in 1..n |-> name(k)]
  <2> HIDE DEF name
  <2>4. s \in [1..n -> {name(k) : k \in 1..n}]
    OBVIOUS
  <2>5. s \in Seq({name(k) : k \in 1..n}) /\ DOMAIN s = 1..n
    BY <2>1, <2>4, SeqDef
  <2>6. Len(s) = n
    BY <2>1, <2>5, LenProperties
  <2>7. BaseImages(i) = s
    BY <2>2, <2>3 DEF name
  <2> QED BY <2>1, <2>5, <2>6, <2>7
<1> QED BY <1>1, <1>2

\* The counts are numbers; there are no more base images than three times the
\* machines, no more VMs than the configuration has.
LEMMA CountsAre ==
    ASSUME PlacementInv, CountInv, MachinesInv, pc \notin Unplaced
    PROVE  LET n == Len(machines) IN
           /\ n \in Nat /\ DOMAIN machines = 1..n /\ n <= Len(config.cores)
           /\ VmCounts \in [1..n -> Nat] /\ BaseCounts \in [1..n -> Nat]
           /\ \A i \in 1..n : VmCounts[i] = Total(perMachine[machines[i]]) /\ BaseCounts[i] = Len(BaseImages(i))
           /\ SumBefore(VmCounts, n + 1) <= Total(config.nodes)
           /\ SumBefore(BaseCounts, n + 1) <= 3 * Len(config.cores)
<1> DEFINE n == Len(machines)
           F == [m \in Hosts |-> Total(perMachine[m])]
           D == 1..n
<1>1. /\ n \in Nat /\ DOMAIN machines = D /\ machines \in [D -> Hosts]
      /\ \A i, j \in D : machines[i] = machines[j] => i = j
  BY MachinesList
<1>2. /\ PlacementTypeOK /\ IsFiniteSet(Hosts) /\ Hosts = 1..Len(config.cores) /\ Len(config.cores) \in Nat
      /\ perMachine \in [Hosts -> [Tiers -> Nat]]
  BY HostsFinite, ConfigType DEF PlacementInv, PlacementTypeOK
<1>3. F \in [Hosts -> Nat]
  BY <1>2, TotalZero
<1>4. Sum(F, Hosts) = Total(config.nodes)
  BY PlacedInTotal
<1>5. VmCounts = [j \in D |-> F[machines[j]]]
  BY <1>1 DEF VmCounts
<1>6. \A j \in D : machines[j] \in Hosts
  BY <1>1
<1>7. VmCounts \in [D -> Nat] /\ \A i \in D : VmCounts[i] = Total(perMachine[machines[i]])
  <2>1. \A i \in D : F[machines[i]] = Total(perMachine[machines[i]]) /\ F[machines[i]] \in Nat
    BY <1>3, <1>6
  <2> HIDE DEF F, D
  <2> QED BY <1>5, <2>1
<1>8. BaseCounts \in [D -> Nat] /\ \A i \in D : BaseCounts[i] = Len(BaseImages(i)) /\ BaseCounts[i] <= 3
  <2>1. \A i : Len(BaseImages(i)) \in Nat /\ Len(BaseImages(i)) <= 3
    BY BaseImagesAre
  <2>2. BaseCounts = [j \in D |-> Len(BaseImages(j))]
    BY <1>1 DEF BaseCounts
  <2> HIDE DEF D
  <2> QED BY <2>1, <2>2
<1>9. IsFiniteSet(D)
  <2>1. \A k \in Nat : IsFiniteSet(1..k)
    BY FS_Interval
  <2> QED BY <1>1, <2>1
<1> HIDE DEF F, D
<1>10. n <= Len(config.cores)
  <2>1. Cardinality(D) = n
    <3>1. \A k \in Nat : Cardinality(1..k) = k
      BY FS_Interval
    <3> QED BY <1>1, <3>1 DEF D
  <2>2. Cardinality(Hosts) = Len(config.cores)
    <3>1. \A k \in Nat : Cardinality(1..k) = k
      BY FS_Interval
    <3> QED BY <1>2, <3>1
  <2> DEFINE I == {machines[j] : j \in D}
  <2>3. I \in SUBSET Hosts /\ machines \in [D -> I] /\ \A y \in I : \E x \in D : machines[x] = y
    BY <1>1
  <2> HIDE DEF I
  <2>4. Cardinality(I) = Cardinality(D)
    BY <1>1, <1>9, <2>3, ImageSize
  <2>5. Cardinality(I) <= Cardinality(Hosts)
    BY <1>2, <2>3, FS_Subset
  <2> QED BY <2>1, <2>2, <2>4, <2>5
<1>11. SumBefore(VmCounts, n + 1) <= Total(config.nodes)
  <2> DEFINE I == {machines[j] : j \in D}
  <2>1. Sum([j \in D |-> F[machines[j]]], D) = Sum(F, {machines[j] : j \in D})
    <3>1. /\ IsFiniteSet(Hosts) /\ F \in [Hosts -> Nat] /\ IsFiniteSet(D) /\ machines \in [D -> Hosts]
          /\ \A j, k \in D : machines[j] = machines[k] => j = k
      BY <1>1, <1>2, <1>3, <1>9
    <3> QED BY <3>1, SumAlong
  <2>2. I \in SUBSET Hosts
    BY <1>6
  <2> HIDE DEF I
  <2>3. Sum(F, I) <= Sum(F, Hosts)
    BY <1>2, <1>3, <2>2, SumMonotone
  <2>4. (n + 1) - 1 = n
    BY <1>1
  <2>5. SumBefore(VmCounts, n + 1) = Sum(VmCounts, D)
    BY <2>4 DEF SumBefore, D
  <2>6. Sum(VmCounts, D) = Sum(F, I)
    BY <1>5, <2>1, Zenon DEF I
  <2> QED BY <1>4, <2>3, <2>5, <2>6
<1>12. SumBefore(BaseCounts, n + 1) <= 3 * Len(config.cores)
  <2>1. SumBefore(BaseCounts, n + 1) <= n * 3
    <3>1. 3 \in Nat /\ BaseCounts \in [1..n -> Nat] /\ \A i \in 1..n : BaseCounts[i] <= 3
      BY <1>8 DEF D
    <3> HIDE DEF n
    <3> QED BY <1>1, <3>1, SumAtMost
  <2>2. SumBefore(BaseCounts, n + 1) \in Nat
    <3>1. BaseCounts \in [1..n -> Nat] /\ n + 1 \in 1..(n + 1)
      BY <1>1, <1>8 DEF D
    <3> HIDE DEF n
    <3> QED BY <1>1, <3>1, SumsBefore
  <2> HIDE DEF n
  <2> QED BY <1>1, <1>2, <1>10, <2>1, <2>2
<1> QED BY <1>1, <1>7, <1>8, <1>10, <1>11, <1>12 DEF D

\* No other step of Continuum gives addresses.
LEMMA AddressesKept ==
    ASSUME [InfrastructureNext]_everything, ~SetIpNames
    PROVE  UNCHANGED <<ip, ipBase>>
<1>1. CASE UNCHANGED everything
  BY <1>1 DEF everything, allVars, provision
<1>2. CASE ProvisionNext
  BY <1>2 DEF ProvisionNext, Place, CreateInventory, Generate, NextStage, BaseImage, LaunchVms,
              LaunchFails, provision
<1>3. CASE UNCHANGED <<provision, network>>
  BY <1>3 DEF provision
<1>4. CASE NetworkStart \/ NetworkBenchmark
  BY <1>4 DEF NetworkStart, NetworkBenchmark, provision
<1> QED BY <1>1, <1>2, <1>3, <1>4 DEF InfrastructureNext

\* The counts follow from the placement alone.
LEMMA CountsFrame ==
    ASSUME UNCHANGED placement
    PROVE  VmCounts' = VmCounts /\ BaseCounts' = BaseCounts
<1>1. machines' = machines /\ perMachine' = perMachine /\ \A i : BaseImages(i)' = BaseImages(i)
  BY NamesFrame
<1> QED BY <1>1 DEF VmCounts, BaseCounts

\* The addresses of a machine's VMs stay as long as the VMs and the placement do.
LEMMA AddressesOfFrame ==
    ASSUME UNCHANGED placement, NEW i, UNCHANGED <<vms[machines[i]], bases[machines[i]]>>
    PROVE  AddressesOf(i)' <=> AddressesOf(i)
<1>1. machines' = machines
  BY DEF placement
<1> QED BY <1>1, CountsFrame DEF AddressesOf

\* What a call of update_ip per VM gives the VMs of a machine.
LEMMA LocatedRun ==
    ASSUME NEW mid \in Nat, NEW a, NEW p \in Nat, Located(a, mid, p), NEW n \in Nat
    PROVE  /\ \A k \in 1..n : Located(Addresses(a, n)[k], mid, p + (k - 1))
           /\ Located(Addresses(a, n)[Len(Addresses(a, n))], mid, p + n)
<1> DEFINE s == Addresses(a, n)
<1>1. a \in From(mid) /\ Position(a, mid) = p
  BY DEF Located
<1>2. /\ s \in [1..(n + 1) -> From(mid)] /\ Len(s) = n + 1
      /\ \A k \in 1..(n + 1) : Position(s[k], mid) = p + (k - 1)
  BY <1>1, AddressesAre, ZenonT(60)
<1> HIDE DEF s
<1>3. \A k \in 1..(n + 1) : Located(s[k], mid, p + (k - 1))
  BY <1>2 DEF Located
<1>4. n + 1 \in 1..(n + 1) /\ (n + 1) - 1 = n
  OBVIOUS
<1>5. \A k \in 1..n : k \in 1..(n + 1)
  OBVIOUS
<1> QED BY <1>2, <1>3, <1>4, <1>5 DEF s

\* Before the first machine nothing is counted.
LEMMA CountsStart ==
    PlacementInv /\ CountInv /\ MachinesInv /\ pc \notin Unplaced =>
        SumBefore(VmCounts, 1) = 0 /\ SumBefore(BaseCounts, 1) = 0
<1> SUFFICES ASSUME PlacementInv, CountInv, MachinesInv, pc \notin Unplaced
             PROVE  SumBefore(VmCounts, 1) = 0 /\ SumBefore(BaseCounts, 1) = 0
  OBVIOUS
<1> DEFINE n == Len(machines)
<1>1. n \in Nat /\ VmCounts \in [1..n -> Nat] /\ BaseCounts \in [1..n -> Nat]
  BY CountsAre
<1> HIDE DEF n
<1> QED BY <1>1, SumsBefore

\* set_ip_names goes on with the addresses where it stopped on the machine
\* before; no later step changes one.
LEMMA AddressStep ==
    /\ PlacementInv /\ CountInv /\ MachinesInv /\ ListsInv /\ StageInv /\ AddressInv /\ NamesInv
    /\ (PlacementInv /\ CountInv /\ MachinesInv)'
    /\ [InfrastructureNext]_everything
    => AddressInv'
<1> SUFFICES ASSUME PlacementInv, CountInv, MachinesInv, ListsInv, StageInv, AddressInv, NamesInv,
                    (PlacementInv /\ CountInv /\ MachinesInv)', [InfrastructureNext]_everything, Qemu'
             PROVE  AddressInv'
  BY DEF AddressInv
<1>1. Qemu /\ config' = config /\ Hosts' = Hosts
  BY ConfigKept
<1>2. /\ pc \in Unplaced => Located(ip, MiddleIP, 0) /\ Located(ipBase, MiddleIPBase, 0)
      /\ pc = "placed" => /\ Located(ip, MiddleIP, SumBefore(VmCounts, at))
                          /\ Located(ipBase, MiddleIPBase, SumBefore(BaseCounts, at))
      /\ \A i \in DOMAIN machines : HasNames(i) => AddressesOf(i)
      /\ \A m \in Hosts : (\A i \in DOMAIN machines : HasNames(i) => machines[i] # m) => bases[m] = <<>>
  BY <1>1 DEF AddressInv
<1> USE DEF Unplaced, Unnamed, Unlisted, Unpinned
<1>3. ASSUME UNCHANGED <<placement, at, vms, bases>>, ~SetIpNames,
             pc' \in Unnamed => pc' = pc,
             \A i \in DOMAIN machines : HasNames(i)' <=> HasNames(i)
      PROVE  AddressInv'
  <2>1. machines' = machines /\ \A i : AddressesOf(i)' <=> AddressesOf(i)
    BY <1>3, AddressesOfFrame DEF placement
  <2>2. ip' = ip /\ ipBase' = ipBase /\ VmCounts' = VmCounts /\ BaseCounts' = BaseCounts /\ at' = at
    BY <1>3, AddressesKept, CountsFrame
  <2> QED BY <1>1, <1>2, <1>3, <2>1, <2>2 DEF AddressInv
<1>4. CASE SetIpNames
  <2> DEFINE m == machines[at]
             here == [perMachine[m] EXCEPT !["cloud"] = Clouds(m).workers]
             list == (IF HasController(m) THEN <<Controller>> ELSE <<>>)
                     \o Names("cloud", index["cloud"], here["cloud"])
                     \o Names("edge", index["edge"], here["edge"])
                     \o Names("endpoint", index["endpoint"], here["endpoint"])
             address == Addresses(ip, Len(list))
             images == BaseImages(at)
             baseAddress == Addresses(ipBase, Len(images))
  <2>1. /\ pc = "placed" /\ pc' = "placed" /\ UNCHANGED placement /\ at <= Len(machines) /\ at' = at + 1
        /\ vms' = [vms EXCEPT ![m] = [k \in DOMAIN list |-> [role |-> list[k].role, name |-> list[k].name,
                                                             ip |-> address[k], internal |-> address[k]]]]
        /\ bases' = [bases EXCEPT ![m] = [k \in DOMAIN images |-> [name |-> images[k], ip |-> baseAddress[k]]]]
        /\ ip' = address[Len(address)] /\ ipBase' = baseAddress[Len(baseAddress)]
    BY <1>4 DEF SetIpNames, vars, placement
  <2>2. at \in DOMAIN machines /\ DOMAIN machines = 1..Len(machines) /\ Len(machines) \in Nat /\ m \in Hosts
    <3>1. pc = "placed" /\ at <= Len(machines)
      BY <2>1
    <3>2. /\ Len(machines) \in Nat /\ DOMAIN machines = 1..Len(machines)
          /\ \A i \in DOMAIN machines : machines[i] \in Hosts
      BY <1>1, <3>1, MachinesList
    <3>3. at \in Nat \ {0}
      BY <1>1, <3>1 DEF StageInv, Loop
    <3> QED BY <3>1, <3>2, <3>3
  <2>3. list = NameList(at)
    <3>1. index["cloud"] = Start(at, "cloud") /\ index["edge"] = Start(at, "edge")
          /\ index["endpoint"] = Start(at, "endpoint")
      BY <1>1, <2>1 DEF StageInv, Tiers
    <3> QED BY <3>1 DEF NameList, Here
  <2> HIDE DEF list, address, images, baseAddress
  <2>4. /\ vms'[m] = [k \in DOMAIN list |-> [role |-> list[k].role, name |-> list[k].name,
                                             ip |-> address[k], internal |-> address[k]]]
        /\ bases'[m] = [k \in DOMAIN images |-> [name |-> images[k], ip |-> baseAddress[k]]]
        /\ \A k \in Hosts \ {m} : vms'[k] = vms[k] /\ bases'[k] = bases[k]
    BY <2>1, <2>2 DEF ListsInv
  <2>5. machines' = machines /\ VmCounts' = VmCounts /\ BaseCounts' = BaseCounts
    <3>1. UNCHANGED placement
      BY <2>1
    <3> QED BY <3>1, NamesFrame, CountsFrame
  <2> DEFINE p == SumBefore(VmCounts, at)
             q == SumBefore(BaseCounts, at)
             v == Len(list)
             b == Len(images)
  <2>6. /\ p \in Nat /\ q \in Nat /\ v \in Nat /\ b \in Nat
        /\ DOMAIN list = 1..v /\ DOMAIN images = 1..b
        /\ SumBefore(VmCounts, at + 1) = p + v /\ SumBefore(BaseCounts, at + 1) = q + b
    <3>1. v = Total(perMachine[m]) /\ DOMAIN list = 1..v
      BY <2>1, <2>2, <2>3, NameListIs
    <3>2. b \in Nat /\ DOMAIN images = 1..b
      BY BaseImagesAre DEF images
    <3> DEFINE n == Len(machines)
    <3>3. /\ n \in Nat /\ at \in 1..n /\ at \in 1..(n + 1)
          /\ VmCounts \in [1..n -> Nat] /\ BaseCounts \in [1..n -> Nat]
          /\ VmCounts[at] = v /\ BaseCounts[at] = b
      BY <2>1, <2>2, <3>1, CountsAre DEF images
    <3> HIDE DEF n, m, v, b
    <3>4. SumBefore(VmCounts, at + 1) = SumBefore(VmCounts, at) + VmCounts[at] /\ SumBefore(VmCounts, at) \in Nat
      BY <3>3, SumsBefore
    <3>5. /\ SumBefore(BaseCounts, at + 1) = SumBefore(BaseCounts, at) + BaseCounts[at]
          /\ SumBefore(BaseCounts, at) \in Nat
      BY <3>3, SumsBefore
    <3>6. v \in Nat
      BY <3>3
    <3> QED BY <3>1, <3>2, <3>3, <3>4, <3>5, <3>6
  <2> HIDE DEF p, q, v, b
  <2>7. /\ \A k \in 1..v : Located(address[k], MiddleIP, p + (k - 1))
        /\ Located(ip', MiddleIP, p + v)
    <3>1. Located(ip, MiddleIP, p) /\ MiddleIP \in Nat
      BY <1>2, <2>1, WidthType DEF p
    <3> QED BY <2>1, <2>6, <3>1, LocatedRun DEF address, v
  <2>8. /\ \A k \in 1..b : Located(baseAddress[k], MiddleIPBase, q + (k - 1))
        /\ Located(ipBase', MiddleIPBase, q + b)
    <3>1. Located(ipBase, MiddleIPBase, q) /\ MiddleIPBase \in Nat
      BY <1>2, <2>1, WidthType DEF q
    <3> QED BY <2>1, <2>6, <3>1, LocatedRun DEF baseAddress, b
  <2>9. ASSUME NEW i \in DOMAIN machines, HasNames(i)' PROVE AddressesOf(i)'
    <3>1. CASE i = at
      <4>1. /\ DOMAIN vms'[m] = 1..v
            /\ \A k \in 1..v : vms'[m][k].internal = address[k] /\ vms'[m][k].ip = address[k]
        <5> HIDE DEF m
        <5> QED BY <2>4, <2>6
      <4>2. DOMAIN bases'[m] = 1..b /\ \A k \in 1..b : bases'[m][k].ip = baseAddress[k]
        <5> HIDE DEF m
        <5> QED BY <2>4, <2>6
      <4>5. bases'[m] = [k \in DOMAIN bases'[m] |-> bases'[m][k]]
        <5> HIDE DEF m
        <5> QED BY <2>4
      <4>4. vms'[m] \in Seq(VmRecords)
        <5> DEFINE record(k) == [role |-> list[k].role, name |-> list[k].name,
                                 ip |-> address[k], internal |-> address[k]]
                   s == [k \in 1..v |-> record(k)]
        <5>1. list \in Seq(VmNames) /\ Len(list) = v
          BY <2>1, <2>2, <2>3, NameListIs DEF v
        <5>2. ASSUME NEW k \in 1..v PROVE record(k) \in VmRecords
          <6>1. list[k] \in VmNames
            <7>1. k \in 1..Len(list)
              BY <5>1
            <7> QED BY <5>1, <7>1
          <6>2. address[k] \in Spots
            BY <2>7 DEF Located, Spots
          <6>3. /\ list[k].role \in Tiers \cup {"controller"}
                /\ list[k].name \in (Tiers \cup {"controller", "ubuntu"}) \X Nat
            BY <6>1 DEF VmNames
          <6> QED BY <6>2, <6>3 DEF VmRecords
        <5> HIDE DEF record
        <5>3. s \in [1..v -> VmRecords]
          BY <5>2
        <5>4. s \in Seq(VmRecords)
          BY <2>6, <5>3, SeqDef
        <5>5. vms'[m] = s
          <6> HIDE DEF m
          <6> QED BY <2>4, <2>6 DEF record
        <5> QED BY <5>4, <5>5
      <4>3. machines'[i] = m /\ SumBefore(VmCounts', i) = p /\ SumBefore(BaseCounts', i) = q
        BY <2>5, <3>1 DEF p, q
      <4> HIDE DEF m
      <4> QED BY <2>7, <2>8, <4>1, <4>2, <4>3, <4>4, <4>5, ZenonT(60) DEF AddressesOf
    <3>2. CASE i # at
      <4>1. HasNames(i)
        BY <2>1, <2>2, <2>9, <3>2 DEF HasNames
      <4>2. machines[i] \in Hosts \ {m}
        BY <2>1, <2>2, <3>2, MachinesList
      <4>3. UNCHANGED <<vms[machines[i]], bases[machines[i]]>>
        BY <2>4, <2>5, <4>2
      <4>4. UNCHANGED placement
        BY <2>1
      <4>5. AddressesOf(i)' <=> AddressesOf(i)
        BY <4>3, <4>4, AddressesOfFrame
      <4> QED BY <1>2, <4>1, <4>5
    <3> QED BY <3>1, <3>2
  <2>10. ASSUME NEW n \in Hosts, \A i \in DOMAIN machines : HasNames(i)' => machines[i] # n PROVE bases'[n] = <<>>
    <3>1. n # m /\ \A i \in DOMAIN machines : HasNames(i) => machines[i] # n
      BY <2>1, <2>2, <2>10 DEF HasNames
    <3> QED BY <1>2, <2>4, <3>1
  <2>11. /\ Located(ip', MiddleIP, SumBefore(VmCounts', at'))
         /\ Located(ipBase', MiddleIPBase, SumBefore(BaseCounts', at'))
    BY <2>1, <2>5, <2>6, <2>7, <2>8
  <2> QED BY <1>1, <2>1, <2>5, <2>9, <2>10, <2>11 DEF AddressInv
<1>5. ASSUME UNCHANGED <<placement, vms, bases>>, pc \notin Unnamed, pc' \notin Unnamed PROVE AddressInv'
  <2>1. machines' = machines /\ \A i : AddressesOf(i)' <=> AddressesOf(i)
    BY <1>5, AddressesOfFrame DEF placement
  <2> QED BY <1>1, <1>2, <1>5, <2>1 DEF AddressInv, HasNames
<1>6. CASE CreateInventory \/ Generate
  BY <1>5, <1>6 DEF CreateInventory, Generate, vars, placement
<1>7. CASE NextStage
  <2>1. \A i \in DOMAIN machines : pc = "placed" => i < at
    <3>1. pc = "placed" => Loop /\ at > Len(machines) /\ DOMAIN machines = 1..Len(machines) /\ Len(machines) \in Nat
      BY <1>1, <1>7, MachinesList DEF NextStage, StageInv
    <3> QED BY <3>1 DEF Loop
  <2>2. \A i \in DOMAIN machines : HasNames(i)' <=> HasNames(i)
    BY <1>7, <2>1 DEF NextStage, HasNames
  <2>3. UNCHANGED placement /\ vms' = vms /\ bases' = bases /\ pc' \notin Unnamed
    BY <1>7 DEF NextStage
  <2>4. machines' = machines /\ \A i : AddressesOf(i)' <=> AddressesOf(i)
    BY <2>3, AddressesOfFrame DEF placement
  <2> QED BY <1>1, <1>2, <2>2, <2>3, <2>4 DEF AddressInv
<1>8. CASE Place
  <2>1. /\ at' = at /\ UNCHANGED <<vms, bases, ip, ipBase>> /\ pc \in Unplaced /\ pc' \in Unplaced \cup {"placed"}
    BY <1>8 DEF Place, machineObjects, provision, Next, SkipTier, PlaceEqual, PlacePin, LeaveNode, Refuse,
                ScheduleDone, RemoveIdle
  <2>2. \A m \in Hosts : bases[m] = <<>>
    BY <1>2, <2>1 DEF HasNames
  <2>3. \A i \in DOMAIN machines' : ~HasNames(i)'
    <3>1. at' = 1
      BY <1>1, <2>1 DEF StageInv
    <3>2. pc' = "placed" => DOMAIN machines' = 1..Len(machines') /\ Len(machines') \in Nat
      BY LoopStartsNext
    <3> QED BY <2>1, <3>1, <3>2 DEF HasNames
  <2>4. ASSUME pc' = "placed" PROVE SumBefore(VmCounts', at') = 0 /\ SumBefore(BaseCounts', at') = 0
    <3>1. at' = 1
      BY <1>1, <2>1 DEF StageInv
    <3>2. (pc \notin Unplaced)'
      BY <2>4
    <3>3. (SumBefore(VmCounts, 1) = 0 /\ SumBefore(BaseCounts, 1) = 0)'
      BY <3>2, CountsStart, PTL
    <3> QED BY <3>1, <3>3
  <2> QED BY <1>1, <1>2, <2>1, <2>2, <2>3, <2>4 DEF AddressInv
<1>9. CASE UNCHANGED <<placement, at, vms, bases>> /\ pc' = pc
  BY <1>3, <1>4, <1>9 DEF HasNames
<1>10. CASE UNCHANGED <<placement, at, vms, bases>> /\ pc = "registry" /\ pc' = "inventory"
  BY <1>5, <1>10
<1>11. CASE UNCHANGED <<placement, at, vms, bases>> /\ pc \notin Unpinned /\ pc' \notin Unpinned
  BY <1>5, <1>11
<1> QED BY <1>1, <1>4, <1>6, <1>7, <1>8, <1>9, <1>10, <1>11, QemuSteps

\* At first there is no address.
LEMMA AddressInvInit == InfrastructureInit => AddressInv
<1> SUFFICES ASSUME InfrastructureInit, Qemu PROVE AddressInv
  BY DEF AddressInv
<1>1. /\ machines = <<>> /\ bases = [m \in Hosts |-> <<>>] /\ pc \in Unplaced
      /\ ip = <<MiddleIP, PostfixLower>> /\ ipBase = <<MiddleIPBase, PostfixLower>>
  BY DEF InfrastructureInit, ProvisionInit, MachinesInit, Init, Unplaced
<1>2. ASSUME NEW mid \in Nat PROVE Located(<<mid, PostfixLower>>, mid, 0)
  <2> DEFINE l == PostfixLower
             a == <<mid, l>>
             w == Width
  <2>1. l \in Nat /\ l < PostfixUpper /\ w \in Nat /\ a[1] = mid /\ a[2] = l /\ a \in Nat \X Nat
    BY WidthType
  <2>2. Position(a, mid) = (mid - mid) * w + (l - l)
    BY <2>1 DEF Position
  <2> HIDE DEF w, l
  <2>3. (mid - mid) * w + (l - l) = 0
    <3>1. mid - mid = 0 /\ l - l = 0 /\ 0 * w = 0
      BY <2>1
    <3> QED BY <3>1
  <2>4. a \in From(mid)
    BY <2>1 DEF From, l
  <2> QED BY <2>2, <2>3, <2>4 DEF Located, l
<1>3. Located(ip, MiddleIP, 0) /\ Located(ipBase, MiddleIPBase, 0)
  BY <1>1, <1>2, WidthType
<1>4. DOMAIN machines = {} /\ \A m \in Hosts : bases[m] = <<>>
  BY <1>1
<1>5. pc # "placed"
  BY <1>1 DEF Unplaced
<1> QED BY <1>3, <1>4, <1>5 DEF AddressInv

\* The elements of S are the places in n lists behind each other, of the
\* lengths F, for which the hosts and A give the addresses.
Spread(n, F, host, mid, S, A) ==
    /\ n \in Nat /\ F \in [1..n -> Nat] /\ mid \in Nat /\ IsFiniteSet(S)
    /\ \A v \in S : v = <<v[1], v[2]>>
    /\ \A v \in S : \E i \in 1..n : /\ host[i] = v[1] /\ v[2] \in 1..F[i]
                                    /\ Located(A[v], mid, SumBefore(F, i) + (v[2] - 1))

\* Then all addresses are different.
LEMMA OwnAddresses ==
    ASSUME NEW n, NEW F, NEW host, NEW mid, NEW S, NEW A, Spread(n, F, host, mid, S, A)
    PROVE  /\ Cardinality({A[v] : v \in S}) = Cardinality(S)
           /\ \A a \in {A[v] : v \in S} : a \in From(mid) /\ Position(a, mid) < SumBefore(F, n + 1)
<1> USE DEF Spread
<1>1. ASSUME NEW v \in S, NEW w \in S, A[v] = A[w] PROVE v = w
  <2>1. PICK i \in 1..n : /\ host[i] = v[1] /\ v[2] \in 1..F[i]
                          /\ Located(A[v], mid, SumBefore(F, i) + (v[2] - 1))
    OBVIOUS
  <2>2. PICK j \in 1..n : /\ host[j] = w[1] /\ w[2] \in 1..F[j]
                          /\ Located(A[w], mid, SumBefore(F, j) + (w[2] - 1))
    OBVIOUS
  <2>3. SumBefore(F, i) + (v[2] - 1) = SumBefore(F, j) + (w[2] - 1)
    BY <1>1, <2>1, <2>2 DEF Located
  <2> DEFINE k == v[2]
             l == w[2]
  <2>6. k \in 1..F[i] /\ l \in 1..F[j] /\ SumBefore(F, i) + (k - 1) = SumBefore(F, j) + (l - 1)
    BY <2>1, <2>2, <2>3
  <2> HIDE DEF k, l
  <2>7. n \in Nat /\ F \in [1..n -> Nat]
    OBVIOUS
  <2>4. i = j /\ k = l
    <3> HIDE DEF Spread
    <3> QED BY <2>6, <2>7, PlacesApart
  <2>5. v = <<v[1], v[2]>> /\ w = <<w[1], w[2]>>
    OBVIOUS
  <2> QED BY <2>1, <2>2, <2>4, <2>5 DEF k, l
<1>2. ASSUME NEW v \in S PROVE A[v] \in From(mid) /\ Position(A[v], mid) < SumBefore(F, n + 1)
  <2>1. PICK i \in 1..n : /\ host[i] = v[1] /\ v[2] \in 1..F[i]
                          /\ Located(A[v], mid, SumBefore(F, i) + (v[2] - 1))
    OBVIOUS
  <2>2. SumBefore(F, i) + (v[2] - 1) < SumBefore(F, n + 1)
    BY <2>1, PlacesApart
  <2> QED BY <2>1, <2>2 DEF Located
<1> DEFINE T == {A[v] : v \in S}
           f == [v \in S |-> A[v]]
<1>3. /\ f \in [S -> T] /\ \A y \in T : \E x \in S : f[x] = y
      /\ \A x, y \in S : f[x] = f[y] => x = y
  BY <1>1
<1>4. Cardinality(T) = Cardinality(S)
  <2> HIDE DEF T, f
  <2> QED BY <1>3, ImageSize
<1> QED BY <1>2, <1>4

\* There are finitely many places.
LEMMA PlacesFinite ==
    ASSUME PlacementInv, NEW f
    PROVE  /\ IsFiniteSet(Places(f))
           /\ \A v \in Places(f) : v = <<v[1], v[2]>> /\ v[1] \in Hosts /\ v[2] \in DOMAIN f[v[1]]
<1>1. IsFiniteSet(Hosts) /\ config.nodes \in [Tiers -> Nat]
  BY HostsFinite, ConfigType DEF PlacementInv, PlacementTypeOK
<1>2. Total(config.nodes) \in Nat
  BY <1>1, TotalZero
<1> DEFINE n == Total(config.nodes)
<1>3. IsFiniteSet(1..n)
  <2>1. \A k \in Nat : IsFiniteSet(1..k)
    BY FS_Interval
  <2> QED BY <1>2, <2>1
<1> HIDE DEF n
<1>4. IsFiniteSet(Hosts \X (1..n))
  BY <1>1, <1>3, FS_Product
<1>5. Places(f) \in SUBSET (Hosts \X (1..n)) /\ \A v \in Places(f) : v[2] \in DOMAIN f[v[1]]
  BY DEF Places, n
<1> QED BY <1>4, <1>5, FS_Subset

\* The addresses of the VMs and those of the base images do not run into each
\* other: the third parts are far enough apart for as many machines and VMs.
RangesApart(c) ==
    IF MiddleIPBase < MiddleIP
    THEN 3 * Len(c.cores) <= (MiddleIP - MiddleIPBase) * Width
    ELSE Total(c.nodes) <= (MiddleIPBase - MiddleIP) * Width

\* An address from the third part hi on is far from that from lo on.
LEMMA FarApart ==
    ASSUME NEW lo \in Nat, NEW hi \in Nat, lo <= hi, NEW a \in From(lo) \cap From(hi)
    PROVE  (hi - lo) * Width <= Position(a, lo)
<1> DEFINE w == Width
           x == a[1] - lo
           y == hi - lo
           z == a[2] - PostfixLower
<1>1. w \in Nat /\ x \in Int /\ y \in Int /\ y <= x /\ z \in Nat /\ y \in Nat
  BY WidthType DEF From
<1>2. Position(a, lo) = x * w + z
  BY DEF Position
<1> HIDE DEF w, x, y, z
<1>3. y * w <= x * w
  BY <1>1, ProductMonotone
<1>4. y * w \in Nat /\ x * w \in Nat
  <2>1. x \in Nat
    BY <1>1
  <2> QED BY <1>1, <2>1, ProductNat
<1> QED BY <1>1, <1>2, <1>3, <1>4 DEF w, y

\* No two VMs, nor two base images, nor a VM and a base image have the same.
LEMMA DistinctHolds ==
    ASSUME IInv, AddressInv, RangesApart(config)
    PROVE  AddressesDistinct
<1> SUFFICES ASSUME Qemu PROVE AddressesDistinct
  BY DEF AddressesDistinct
<1> DEFINE addresses(f) == {f[v[1]][v[2]].ip : v \in Places(f)}
<1>1. SUFFICES /\ Cardinality(addresses(vms)) = Cardinality(AllVms)
               /\ Cardinality(addresses(bases)) = Cardinality(Places(bases))
               /\ addresses(vms) \cap addresses(bases) = {}
               /\ \A a \in addresses(vms) \cup addresses(bases) : a[2] < PostfixUpper
  BY DEF AddressesDistinct
<1>2. PlacementInv /\ CountInv /\ MachinesInv /\ NamesInv
  BY DEF IInv
<1>3. /\ \A i \in DOMAIN machines : HasNames(i) => AddressesOf(i) /\ NamesOf(i)
      /\ \A m \in Hosts : (\A i \in DOMAIN machines : HasNames(i) => machines[i] # m) =>
            bases[m] = <<>> /\ vms[m] = <<>>
  BY <1>2 DEF AddressInv, NamesInv
<1>4. CASE pc \in Unplaced
  <2>1. \A i \in DOMAIN machines : FALSE
    BY <1>2, <1>4 DEF MachinesInv
  <2>2. \A m \in Hosts : DOMAIN bases[m] = {} /\ DOMAIN vms[m] = {}
    BY <1>3, <2>1
  <2>3. Places(vms) = {} /\ Places(bases) = {}
    BY <2>2 DEF Places
  <2>4. addresses(vms) = {} /\ addresses(bases) = {}
    BY <2>3
  <2> HIDE DEF addresses
  <2> QED BY <2>3, <2>4 DEF AllVms
<1>5. CASE pc \notin Unplaced
  <2> DEFINE n == Len(machines)
             vm == [v \in Places(vms) |-> vms[v[1]][v[2]].ip]
             base == [v \in Places(bases) |-> bases[v[1]][v[2]].ip]
  <2>1. /\ n \in Nat /\ DOMAIN machines = 1..n
        /\ VmCounts \in [1..n -> Nat] /\ BaseCounts \in [1..n -> Nat]
        /\ \A i \in 1..n : VmCounts[i] = Total(perMachine[machines[i]]) /\ BaseCounts[i] = Len(BaseImages(i))
        /\ SumBefore(VmCounts, n + 1) <= Total(config.nodes)
        /\ SumBefore(BaseCounts, n + 1) <= 3 * Len(config.cores)
        /\ MiddleIP \in Nat /\ MiddleIPBase \in Nat
    BY <1>2, <1>5, CountsAre, WidthType
  <2> HIDE DEF n
  <2>2. ASSUME NEW i \in 1..n, HasNames(i)
        PROVE  DOMAIN vms[machines[i]] = 1..VmCounts[i] /\ DOMAIN bases[machines[i]] = 1..BaseCounts[i]
    <3>1. NamesOf(i) /\ DOMAIN NameList(i) = 1..Total(perMachine[machines[i]])
      BY <1>2, <1>3, <1>5, <2>1, <2>2, NameListIs
    <3>2. DOMAIN BaseImages(i) = 1..Len(BaseImages(i))
      BY BaseImagesAre
    <3> QED BY <2>1, <3>1, <3>2 DEF NamesOf
  <2>3. ASSUME NEW v \in Places(vms)
        PROVE  \E i \in 1..n : /\ machines[i] = v[1] /\ v[2] \in 1..VmCounts[i]
                               /\ Located(vm[v], MiddleIP, SumBefore(VmCounts, i) + (v[2] - 1))
    <3>1. v[1] \in Hosts /\ v[2] \in DOMAIN vms[v[1]]
      BY <1>2, PlacesFinite
    <3>2. PICK i \in 1..n : HasNames(i) /\ machines[i] = v[1]
      <4>1. vms[v[1]] # <<>>
        BY <3>1
      <4> QED BY <1>3, <2>1, <3>1, <4>1
    <3>3. AddressesOf(i)
      BY <1>3, <2>1, <3>2
    <3>4. Located(vms[v[1]][v[2]].ip, MiddleIP, SumBefore(VmCounts, i) + (v[2] - 1))
      BY <3>1, <3>2, <3>3 DEF AddressesOf
    <3> QED BY <2>2, <3>1, <3>2, <3>4
  <2>4. ASSUME NEW v \in Places(bases)
        PROVE  \E i \in 1..n : /\ machines[i] = v[1] /\ v[2] \in 1..BaseCounts[i]
                               /\ Located(base[v], MiddleIPBase, SumBefore(BaseCounts, i) + (v[2] - 1))
    <3>1. v[1] \in Hosts /\ v[2] \in DOMAIN bases[v[1]]
      BY <1>2, PlacesFinite
    <3>2. PICK i \in 1..n : HasNames(i) /\ machines[i] = v[1]
      <4>1. bases[v[1]] # <<>>
        BY <3>1
      <4> QED BY <1>3, <2>1, <3>1, <4>1
    <3>3. AddressesOf(i)
      BY <1>3, <2>1, <3>2
    <3>4. Located(bases[v[1]][v[2]].ip, MiddleIPBase, SumBefore(BaseCounts, i) + (v[2] - 1))
      BY <3>1, <3>2, <3>3 DEF AddressesOf
    <3> QED BY <2>2, <3>1, <3>2, <3>4
  <2>5. addresses(vms) = {vm[v] : v \in Places(vms)} /\ addresses(bases) = {base[v] : v \in Places(bases)}
    OBVIOUS
  <2> HIDE DEF vm, base, addresses
  <2>6. /\ Cardinality({vm[v] : v \in Places(vms)}) = Cardinality(Places(vms))
        /\ \A a \in {vm[v] : v \in Places(vms)} :
              a \in From(MiddleIP) /\ Position(a, MiddleIP) < SumBefore(VmCounts, n + 1)
    <3>1. IsFiniteSet(Places(vms)) /\ \A v \in Places(vms) : v = <<v[1], v[2]>>
      BY <1>2, PlacesFinite
    <3>2. Spread(n, VmCounts, machines, MiddleIP, Places(vms), vm)
      BY <2>1, <2>3, <3>1 DEF Spread
    <3> QED BY <3>2, OwnAddresses
  <2>7. /\ Cardinality({base[v] : v \in Places(bases)}) = Cardinality(Places(bases))
        /\ \A a \in {base[v] : v \in Places(bases)} :
              a \in From(MiddleIPBase) /\ Position(a, MiddleIPBase) < SumBefore(BaseCounts, n + 1)
    <3>1. IsFiniteSet(Places(bases)) /\ \A v \in Places(bases) : v = <<v[1], v[2]>>
      BY <1>2, PlacesFinite
    <3>2. Spread(n, BaseCounts, machines, MiddleIPBase, Places(bases), base)
      BY <2>1, <2>4, <3>1 DEF Spread
    <3> QED BY <3>2, OwnAddresses
  <2>8. ASSUME NEW a \in addresses(vms), a \in addresses(bases) PROVE FALSE
    <3>1. /\ a \in From(MiddleIP) /\ Position(a, MiddleIP) < SumBefore(VmCounts, n + 1)
          /\ a \in From(MiddleIPBase) /\ Position(a, MiddleIPBase) < SumBefore(BaseCounts, n + 1)
      BY <2>5, <2>6, <2>7, <2>8
    <3>2. Position(a, MiddleIP) \in Nat /\ Position(a, MiddleIPBase) \in Nat
      BY <2>1, <3>1, UpdateIpSteps
    <3>3. SumBefore(VmCounts, n + 1) \in Nat /\ SumBefore(BaseCounts, n + 1) \in Nat
      <4>1. n + 1 \in 1..(n + 1)
        BY <2>1
      <4> QED BY <2>1, <4>1, SumsBefore
    <3>4. Total(config.nodes) \in Nat /\ Len(config.cores) \in Nat
      BY <1>2, ConfigType, TotalZero DEF PlacementInv, PlacementTypeOK
    <3>5. CASE MiddleIPBase < MiddleIP
      <4>1. (MiddleIP - MiddleIPBase) * Width <= Position(a, MiddleIPBase)
        BY <2>1, <3>1, <3>5, FarApart
      <4>2. 3 * Len(config.cores) <= (MiddleIP - MiddleIPBase) * Width
        BY <3>5 DEF RangesApart
      <4>3. (MiddleIP - MiddleIPBase) * Width \in Nat
        <5>1. MiddleIP - MiddleIPBase \in Nat /\ Width \in Nat
          BY <2>1, <3>5, WidthType
        <5> QED BY <5>1, ProductNat
      <4> QED BY <2>1, <3>1, <3>2, <3>3, <3>4, <4>1, <4>2, <4>3
    <3>6. CASE ~(MiddleIPBase < MiddleIP)
      <4>1. (MiddleIPBase - MiddleIP) * Width <= Position(a, MiddleIP)
        BY <2>1, <3>1, <3>6, FarApart
      <4>2. Total(config.nodes) <= (MiddleIPBase - MiddleIP) * Width
        BY <3>6 DEF RangesApart
      <4>3. (MiddleIPBase - MiddleIP) * Width \in Nat
        <5>1. MiddleIPBase - MiddleIP \in Nat /\ Width \in Nat
          BY <2>1, <3>6, WidthType
        <5> QED BY <5>1, ProductNat
      <4> QED BY <2>1, <3>1, <3>2, <3>3, <3>4, <4>1, <4>2, <4>3
    <3> QED BY <3>5, <3>6
  <2>9. \A a \in addresses(vms) \cup addresses(bases) : a[2] < PostfixUpper
    BY <2>5, <2>6, <2>7 DEF From
  <2> QED BY <2>5, <2>6, <2>7, <2>8, <2>9 DEF AllVms
<1> QED BY <1>4, <1>5

-----------------------------------------------------------------------------
(* The lists gathered from the machines *)

\* WithRole chooses the VMs of the role.
LEMMA WithRoleIs ==
    ASSUME NEW T, NEW s \in Seq(T), NEW role
    PROVE  /\ WithRole(s, role) \in Seq(T)
           /\ IsChosen(WithRole(s, role), s, {k \in 1..Len(s) : s[k].role = role})
<1> DEFINE P == {k \in 1..Len(s) : s[k].role = role}
           Is(f) == f = [k \in 0..Len(s) |->
                           IF k = 0 THEN <<>>
                           ELSE IF s[k].role = role THEN Append(f[k - 1], s[k]) ELSE f[k - 1]]
           kept == CHOOSE f : Is(f)
<1>1. WithRole(s, role) = kept[Len(s)]
  BY DEF WithRole, Chosen
<1>2. ASSUME NEW f PROVE Is(f) <=> Chooses(f, s, P)
  <2> DEFINE a(k) == IF k = 0 THEN <<>>
                     ELSE IF s[k].role = role THEN Append(f[k - 1], s[k]) ELSE f[k - 1]
             b(k) == IF k = 0 THEN <<>> ELSE IF k \in P THEN Append(f[k - 1], s[k]) ELSE f[k - 1]
  <2>1. \A k \in 0..Len(s) : k # 0 => (k \in P <=> s[k].role = role)
    <3>1. Len(s) \in Nat
      OBVIOUS
    <3> QED BY <3>1
  <2>2. \A k \in 0..Len(s) : a(k) = b(k)
    <3> HIDE DEF P
    <3> QED BY <2>1
  <2> HIDE DEF a, b
  <2>3. [k \in 0..Len(s) |-> a(k)] = [k \in 0..Len(s) |-> b(k)]
    BY <2>2
  <2> QED BY <2>3 DEF Chooses, a, b
<1>3. \E f : Is(f)
  <2> HIDE DEF Is, P
  <2> QED BY <1>2, ChoosesExists
<1>4. Is(kept)
  <2> HIDE DEF Is
  <2> QED BY <1>3
<1>5. Chooses(kept, s, P)
  <2> HIDE DEF Is, kept, P
  <2> QED BY <1>2, <1>4
<1>6. P \in SUBSET (1..Len(s))
  OBVIOUS
<1> HIDE DEF kept, P
<1> QED BY <1>1, <1>5, <1>6, ChoosesAll DEF P

\* gather_ips: the lists of the machines behind each other.
LEMMA IpsIs ==
    ASSUME NEW role, Len(machines) \in Nat, NEW T, \A i \in 1..Len(machines) : vms[machines[i]] \in Seq(T)
    PROVE  LET L == [i \in 1..Len(machines) |-> OfRole(machines[i], role)]
           IN L \in ListsOf(T, Len(machines)) /\ JoinOf(Ips(role), L, Len(machines))
<1> DEFINE n == Len(machines)
           L == [i \in 1..n |-> OfRole(machines[i], role)]
           Is(f) == f = [i \in 0..n |-> IF i = 0 THEN <<>> ELSE f[i - 1] \o (OfRole(machines[i], role))]
           upTo == CHOOSE f : Is(f)
<1>1. Ips(role) = upTo[n]
  BY DEF Ips, OverMachines
<1>2. /\ L \in ListsOf(T, n)
      /\ \A i \in 1..n : L[i] = OfRole(machines[i], role)
  <2>1. \A i \in 1..n : (OfRole(machines[i], role)) \in Seq(T)
    BY WithRoleIs DEF OfRole
  <2>2. L \in [1..n -> Seq(T)]
    BY <2>1
  <2> QED BY <2>2 DEF ListsOf
<1> DEFINE element(i) == OfRole(machines[i], role)
<1>3. ASSUME NEW f PROVE Is(f) <=> Joins(f, L, n)
  <2> DEFINE a(i) == IF i = 0 THEN <<>> ELSE f[i - 1] \o element(i)
             b(i) == IF i = 0 THEN <<>> ELSE f[i - 1] \o L[i]
  <2>1. \A i \in 0..n : i # 0 => L[i] = element(i)
    <3>1. \A i \in 0..n : i # 0 => i \in 1..n
      OBVIOUS
    <3> QED BY <1>2, <3>1
  <2>2. \A i \in 0..n : a(i) = b(i)
    <3> HIDE DEF L, element
    <3> QED BY <2>1
  <2> HIDE DEF L, a, b
  <2>3. [i \in 0..n |-> a(i)] = [i \in 0..n |-> b(i)]
    BY <2>2
  <2> QED BY <2>3 DEF Joins, a, b, element
<1>4. \E f : Is(f)
  <2>1. n \in Nat /\ L \in [1..n -> Seq(T)]
    BY <1>2 DEF ListsOf
  <2>2. \E f : Joins(f, L, n)
    <3> HIDE DEF L, n
    <3> QED BY <2>1, JoinsExists, Zenon
  <2> HIDE DEF Is, L, n
  <2> QED BY <1>3, <2>2
<1>5. Is(upTo)
  <2> HIDE DEF Is
  <2> QED BY <1>4
<1>6. Joins(upTo, L, n)
  <2> HIDE DEF Is, L, n, upTo
  <2> QED BY <1>3, <1>5
<1> HIDE DEF upTo, L, n
<1>7. JoinOf(Ips(role), L, n)
  BY <1>1, <1>6 DEF JoinOf
<1> QED BY <1>2, <1>7 DEF L, n

\* gather_ssh: on each machine the controller before the clouds.
LEMMA CloudSshIs ==
    ASSUME Len(machines) \in Nat, NEW T, \A i \in 1..Len(machines) : vms[machines[i]] \in Seq(T)
    PROVE  LET L == [i \in 1..Len(machines) |-> OfRole(machines[i], "controller") \o OfRole(machines[i], "cloud")]
           IN L \in ListsOf(T, Len(machines)) /\ JoinOf(CloudSsh, L, Len(machines))
<1> DEFINE n == Len(machines)
           L == [i \in 1..n |-> OfRole(machines[i], "controller") \o OfRole(machines[i], "cloud")]
           Is(f) == f = [i \in 0..n |->
                           IF i = 0 THEN <<>>
                           ELSE f[i - 1] \o (OfRole(machines[i], "controller") \o OfRole(machines[i], "cloud"))]
           upTo == CHOOSE f : Is(f)
<1>1. CloudSsh = upTo[n]
  BY DEF CloudSsh, OverMachines
<1>2. /\ L \in ListsOf(T, n)
      /\ \A i \in 1..n : L[i] = OfRole(machines[i], "controller") \o OfRole(machines[i], "cloud")
  <2>1. \A i \in 1..n : (OfRole(machines[i], "controller") \o OfRole(machines[i], "cloud")) \in Seq(T)
    <3>1. \A i \in 1..n : OfRole(machines[i], "controller") \in Seq(T) /\ OfRole(machines[i], "cloud") \in Seq(T)
      BY WithRoleIs DEF OfRole
    <3> QED BY <3>1, ConcatProperties
  <2>2. L \in [1..n -> Seq(T)]
    BY <2>1
  <2> QED BY <2>2 DEF ListsOf
<1> DEFINE element(i) == OfRole(machines[i], "controller") \o OfRole(machines[i], "cloud")
<1>3. ASSUME NEW f PROVE Is(f) <=> Joins(f, L, n)
  <2> DEFINE a(i) == IF i = 0 THEN <<>> ELSE f[i - 1] \o element(i)
             b(i) == IF i = 0 THEN <<>> ELSE f[i - 1] \o L[i]
  <2>1. \A i \in 0..n : i # 0 => L[i] = element(i)
    <3>1. \A i \in 0..n : i # 0 => i \in 1..n
      OBVIOUS
    <3> QED BY <1>2, <3>1
  <2>2. \A i \in 0..n : a(i) = b(i)
    <3> HIDE DEF L, element
    <3> QED BY <2>1
  <2> HIDE DEF L, a, b
  <2>3. [i \in 0..n |-> a(i)] = [i \in 0..n |-> b(i)]
    BY <2>2
  <2> QED BY <2>3 DEF Joins, a, b, element
<1>4. \E f : Is(f)
  <2>1. n \in Nat /\ L \in [1..n -> Seq(T)]
    BY <1>2 DEF ListsOf
  <2>2. \E f : Joins(f, L, n)
    <3> HIDE DEF L, n
    <3> QED BY <2>1, JoinsExists, Zenon
  <2> HIDE DEF Is, L, n
  <2> QED BY <1>3, <2>2
<1>5. Is(upTo)
  <2> HIDE DEF Is
  <2> QED BY <1>4
<1>6. Joins(upTo, L, n)
  <2> HIDE DEF Is, L, n, upTo
  <2> QED BY <1>3, <1>5
<1> HIDE DEF upTo, L, n
<1>7. JoinOf(CloudSsh, L, n)
  BY <1>1, <1>6 DEF JoinOf
<1> QED BY <1>2, <1>7 DEF L, n

\* The VMs whose addresses set_ips has read.
LEMMA CloudVmsType ==
    ASSUME PlacementInv, CountInv, MachinesInv, pc \notin Unplaced, Len(machines) = 1
    PROVE  CloudVms \in Seq(VmRecords)
<1>1. /\ NewVms \in Seq(Unaddressed) /\ DOMAIN NewVms = 1..Total(config.nodes) /\ Total(config.nodes) \in Nat
      /\ \A u \in Tiers : config.nodes[u] \in Nat
      /\ \A k \in 1..Total(config.nodes) : \E t \in Tiers : \E j \in 1..config.nodes[t] : k = Before(t) + j
      /\ \A u \in Tiers : \A j \in 1..config.nodes[u] : NewVms[Before(u) + j] = VmAt(u, j)
  BY NewVmsAre, OnlyMachine, PlaceOfTier
<1> DEFINE n == Total(config.nodes)
           address(k, net) == Given(net, TierOf(NewVms[k]), k - Before(TierOf(NewVms[k])))
           vm(k) == [NewVms[k] EXCEPT !.ip = address(k, External), !.internal = address(k, Internal)]
<1>2. CloudVms = [k \in 1..n |-> vm(k)]
  BY <1>1 DEF CloudVms
<1>3. ASSUME NEW k \in 1..n PROVE vm(k) \in VmRecords
  <2>1. PICK t \in Tiers : \E j \in 1..config.nodes[t] : k = Before(t) + j
    BY <1>1
  <2>2. PICK j \in 1..config.nodes[t] : k = Before(t) + j
    BY <2>1
  <2>3. /\ NewVms[k] = VmAt(t, j) /\ j \in Nat /\ j >= 1 /\ j - 1 \in Nat /\ Before(t) \in Nat
    BY <1>1, <2>2, PlaceOfTier, SMTT(30)
  <2>4. TierOf(VmAt(t, j)) = t /\ k - Before(t) = j
    BY <2>2, <2>3 DEF TierOf, VmAt, NewVm, Tiers
  <2> DEFINE x == Given(External, t, j)
             y == Given(Internal, t, j)
  <2>5. vm(k) = [VmAt(t, j) EXCEPT !.ip = x, !.internal = y]
    BY <2>3, <2>4
  <2>6. x \in Spots /\ y \in Spots
    BY <2>3 DEF Spots
  <2> HIDE DEF x, y, vm
  <2>7. PICK role \in Tiers \cup {"controller"}, name \in (Tiers \cup {"controller", "ubuntu"}) \X Nat :
           VmAt(t, j) = [role |-> role, name |-> name, ip |-> <<>>, internal |-> <<>>]
    <3>1. CASE t = "cloud"
      <4>1. VmAt(t, j) = NewVm(IF j = 1 THEN "controller" ELSE "cloud", CloudName(j - 1))
        BY <3>1 DEF VmAt
      <4>2. CloudName(j - 1) \in (Tiers \cup {"controller", "ubuntu"}) \X Nat
        BY <2>3 DEF CloudName, Tiers
      <4>3. (IF j = 1 THEN "controller" ELSE "cloud") \in Tiers \cup {"controller"}
        BY DEF Tiers
      <4> QED BY <4>1, <4>2, <4>3 DEF NewVm
    <3>2. CASE t # "cloud"
      <4>1. VmAt(t, j) = NewVm(t, <<t, j - 1>>)
        BY <3>2 DEF VmAt
      <4>2. <<t, j - 1>> \in (Tiers \cup {"controller", "ubuntu"}) \X Nat
        BY <2>3
      <4> QED BY <4>1, <4>2 DEF NewVm
    <3> QED BY <3>1, <3>2
  <2> DEFINE R == Tiers \cup {"controller"}
             N == (Tiers \cup {"controller", "ubuntu"}) \X Nat
             E == {<<>>}
             old == VmAt(t, j)
  <2>8. old \in [role : R, name : N, ip : E, internal : E]
    BY <2>7
  <2> HIDE DEF R, N, E, old
  <2>9. [old EXCEPT !.ip = x, !.internal = y] \in [role : R, name : N, ip : Spots, internal : Spots]
    BY <2>6, <2>8
  <2> QED BY <2>5, <2>9 DEF VmRecords, R, N, old
<1> HIDE DEF vm, n
<1>4. n \in Nat
  BY <1>1 DEF n
<1>5. [k \in 1..n |-> vm(k)] \in [1..n -> VmRecords]
  BY <1>3
<1> QED BY <1>2, <1>4, <1>5, SeqDef

\* The providers there are.
LEMMA QemuOrCloud ==
    ASSUME PlacementInv
    PROVE  Qemu <=> ~Cloud
<1>1. config \in Configuration
  BY PlacementAssumption DEF PlacementInv, PlacementTypeOK
<1> QED BY <1>1 DEF Configuration, Qemu, Cloud

\* When the VMs have their addresses they are in lists.
LEMMA VmsListed ==
    ASSUME IInv, CloudInv, AddressInv, pc \in Addressed
    PROVE  /\ PlacementInv /\ CountInv /\ MachinesInv /\ pc \notin Unplaced
           /\ Len(machines) \in Nat \ {0} /\ DOMAIN machines = 1..Len(machines)
           /\ \A i \in 1..Len(machines) : machines[i] \in Hosts /\ vms[machines[i]] \in Seq(VmRecords)
<1>1. PlacementInv /\ CountInv /\ MachinesInv /\ pc \notin Unnamed
  BY DEF IInv, Addressed, Unnamed, Unplaced
<1>2. pc \notin Unplaced
  BY <1>1 DEF Unnamed
<1>3. /\ Len(machines) \in Nat \ {0} /\ DOMAIN machines = 1..Len(machines)
      /\ \A i \in 1..Len(machines) : machines[i] \in Hosts
  BY <1>1, <1>2, MachinesList
<1>4. CASE Qemu
  <2>1. \A i \in DOMAIN machines : AddressesOf(i)
    BY <1>1, <1>4 DEF AddressInv, HasNames
  <2> QED BY <1>1, <1>2, <1>3, <2>1 DEF AddressesOf
<1>5. CASE Cloud
  <2>1. Len(machines) = 1 /\ vms[M] = CloudVms
    BY <1>5, CloudLists
  <2>2. CloudVms \in Seq(VmRecords)
    BY <1>1, <1>2, <2>1, CloudVmsType
  <2>3. \A i \in 1..Len(machines) : machines[i] = M
    BY <2>1 DEF M
  <2> QED BY <1>1, <1>2, <1>3, <2>1, <2>2, <2>3
<1> QED BY <1>1, <1>4, <1>5, QemuOrCloud

-----------------------------------------------------------------------------
(* The registry and the images *)

\* The registry is the local one until move_registry; it holds every image as
\* long as images are to be pulled or moved, and moves to where set_registry said.
StoreInv ==
    /\ pc \notin Addressed \/ Qemu => registry = LocalRegistry
    /\ ~config.infra_only /\ pc \in {"inventory", "generate", "base", "apply", "install"} =>
          {LocalRegistry} \X Images \subseteq stored
    /\ Cloud /\ ~config.infra_only /\ pc = "install" => registry = SetRegistry(CloudVms)

\* A registry that holds every image serves every base image.
LEMMA AllImages ==
    ASSUME NEW places, NEW holds, {registry} \X Images \subseteq holds
    PROVE  PullWorks(places, holds)
<1>1. \A name : ImagesFor(name) \subseteq Images
  BY DEF ImagesFor, Images
<1> QED BY <1>1 DEF PullWorks

\* With infra_only no image is pulled.
LEMMA NothingPulled ==
    ASSUME config.infra_only, NEW places, NEW holds
    PROVE  PullWorks(places, holds)
BY DEF PullWorks, DockerBases

\* The first VM of the list of a machine is also the first of the lists gathered.
LEMMA RegistryVmIs ==
    ASSUME IInv, CloudInv, AddressInv, Cloud, pc \in Addressed
    PROVE  RegistryVm.internal = SetRegistry(CloudVms)
<1> DEFINE W(role) == WithRole(CloudVms, role)
           T == VmRecords
<1>1. /\ PlacementInv /\ CountInv /\ MachinesInv /\ pc \notin Unplaced /\ Len(machines) = 1 /\ M = machines[1]
      /\ vms[M] = CloudVms
  BY CloudLists DEF M
<1>2. CloudVms \in Seq(T) /\ Len(CloudVms) = Total(config.nodes) /\ DOMAIN CloudVms = 1..Total(config.nodes)
  <2>1. CloudVms \in Seq(T) /\ DOMAIN CloudVms = 1..Total(config.nodes)
    BY <1>1, CloudVmsType, CloudVmsAre
  <2>2. Total(config.nodes) \in Nat
    BY <1>1, OnlyMachine, PlaceOfTier
  <2> QED BY <2>1, <2>2, LenProperties
<1>3. ASSUME NEW role
      PROVE  /\ W(role) \in Seq(T) /\ OfRole(M, role) = W(role)
             /\ W(role) = <<>> <=> \A k \in 1..Len(CloudVms) : CloudVms[k].role # role
  <2> DEFINE P == {k \in 1..Len(CloudVms) : CloudVms[k].role = role}
  <2>1. W(role) \in Seq(T) /\ IsChosen(W(role), CloudVms, P)
    BY <1>2, WithRoleIs
  <2>2. P \in SUBSET (1..Len(CloudVms))
    OBVIOUS
  <2>3. OfRole(M, role) = W(role)
    BY <1>1 DEF OfRole
  <2> HIDE DEF P, W
  <2>4. W(role) = <<>> <=> P = {}
    BY <1>2, <2>1, <2>2, ChosenRange
  <2>5. P = {} <=> \A k \in 1..Len(CloudVms) : CloudVms[k].role # role
    BY DEF P
  <2> QED BY <2>1, <2>3, <2>4, <2>5
<1> HIDE DEF W, T
<1>4. \A i \in 1..1 : machines[i] = M
  BY <1>1
<1>5. Len(machines) \in Nat /\ \A i \in 1..Len(machines) : vms[machines[i]] \in Seq(T)
  BY <1>1, <1>2, <1>4
<1>6. ASSUME NEW role PROVE Ips(role) = W(role)
  <2> DEFINE L == [i \in 1..Len(machines) |-> OfRole(machines[i], role)]
  <2>1. L \in ListsOf(T, 1) /\ JoinOf(Ips(role), L, 1)
    BY <1>1, <1>5, IpsIs
  <2>2. L[1] = W(role)
    BY <1>1, <1>3, <1>4
  <2> HIDE DEF L
  <2> QED BY <2>1, <2>2, JoinOfOne
<1>7. CloudSsh = W("controller") \o W("cloud")
  <2> DEFINE L == [i \in 1..Len(machines) |-> OfRole(machines[i], "controller") \o OfRole(machines[i], "cloud")]
  <2>1. L \in ListsOf(T, 1) /\ JoinOf(CloudSsh, L, 1)
    BY <1>1, <1>5, CloudSshIs
  <2>2. L[1] = W("controller") \o W("cloud")
    BY <1>1, <1>3, <1>4
  <2> HIDE DEF L
  <2> QED BY <2>1, <2>2, JoinOfOne
<1>8. W("controller") = <<>> => W("cloud") = <<>>
  <2> SUFFICES ASSUME W("controller") = <<>>, NEW k \in 1..Len(CloudVms), CloudVms[k].role = "cloud" PROVE FALSE
    BY <1>3
  <2>1. /\ \A t \in Tiers : config.nodes[t] \in Nat
        /\ \A i \in 1..Total(config.nodes) : \E t \in Tiers : \E j \in 1..config.nodes[t] : i = Before(t) + j
        /\ \A t \in Tiers : \A j \in 1..config.nodes[t] : Before(t) + j \in 1..Total(config.nodes)
    BY <1>1, OnlyMachine, PlaceOfTier
  <2>2. \A t \in Tiers : \A j \in 1..config.nodes[t] :
           CloudVms[Before(t) + j].role = VmAt(t, j).role /\ TierOf(CloudVms[Before(t) + j]) = t
    BY <1>1, CloudVmsAre
  <2>3. PICK t \in Tiers : \E j \in 1..config.nodes[t] : k = Before(t) + j
    BY <1>2, <2>1
  <2>4. PICK j \in 1..config.nodes[t] : k = Before(t) + j
    BY <2>3
  <2>5. t = "cloud"
    BY <2>2, <2>4 DEF TierOf
  <2>6. 1 \in 1..config.nodes["cloud"] /\ "cloud" \in Tiers
    BY <2>1, <2>5
  <2>7. Before("cloud") + 1 \in 1..Len(CloudVms) /\ CloudVms[Before("cloud") + 1].role = VmAt("cloud", 1).role
    BY <1>2, <2>1, <2>2, <2>6
  <2>8. VmAt("cloud", 1).role = "controller"
    BY DEF VmAt, NewVm
  <2> QED BY <1>3, <2>7, <2>8
<1>9. CASE W("controller") # <<>>
  <2> DEFINE a == W("controller")
             b == W("cloud")
             both == a \o b
  <2>1. a \in Seq(T) /\ b \in Seq(T) /\ a # <<>> /\ Len(a) \in Nat /\ Len(a) # 0 /\ Len(b) \in Nat
    BY <1>3, <1>9, EmptySeq, LenProperties
  <2> HIDE DEF a, b
  <2>2. /\ both \in Seq(T) /\ Len(both) = Len(a) + Len(b)
        /\ \A i \in 1..(Len(a) + Len(b)) : both[i] = IF i <= Len(a) THEN a[i] ELSE b[i - Len(a)]
    BY <2>1, ConcatProperties
  <2> HIDE DEF both
  <2>3. both # <<>> /\ both[1] = a[1]
    <3>1. 1 \in 1..(Len(a) + Len(b)) /\ 1 <= Len(a) /\ Len(both) # 0
      BY <2>1, <2>2
    <3>2. Len(<<>>) = 0
      BY EmptySeq
    <3> QED BY <2>2, <3>1, <3>2
  <2>4. CloudSsh = both /\ RegistryVm = both[1]
    BY <1>7, <2>3 DEF RegistryVm, FirstOf, both, a, b
  <2>5. SetRegistry(CloudVms) = a[1].internal
    BY <1>9 DEF SetRegistry, FirstOf, a, W
  <2> QED BY <2>3, <2>4, <2>5
<1>10. CASE W("controller") = <<>>
  <2>1. CloudSsh = <<>>
    BY <1>7, <1>8, <1>10, ConcatEmptySeq, EmptySeq
  <2> QED BY <1>6, <1>10, <2>1 DEF RegistryVm, SetRegistry, FirstOf, W
<1> QED BY <1>9, <1>10

-----------------------------------------------------------------------------
(* The classes of a VM *)

\* The targets that have an address, in their order.
ChosenTargets(vm) == Chosen(Targets(vm), LAMBDA target : target.addresses # {})

\* They are the targets of those places.
LEMMA ChosenTargetsAre ==
    ASSUME NEW vm, NEW T, Targets(vm) \in Seq(T)
    PROVE  /\ ChosenTargets(vm) \in Seq(T)
           /\ IsChosen(ChosenTargets(vm), Targets(vm), {k \in 1..Len(Targets(vm)) : Targets(vm)[k].addresses # {}})
<1> DEFINE s == Targets(vm)
           P == {k \in 1..Len(s) : s[k].addresses # {}}
           Is(f) == f = [k \in 0..Len(s) |->
                           IF k = 0 THEN <<>>
                           ELSE IF s[k].addresses # {} THEN Append(f[k - 1], s[k]) ELSE f[k - 1]]
           kept == CHOOSE f : Is(f)
<1>1. ChosenTargets(vm) = kept[Len(s)]
  BY DEF ChosenTargets, Chosen
<1>0. s \in Seq(T)
  OBVIOUS
<1> HIDE DEF s
<1>2. ASSUME NEW f PROVE Is(f) <=> Chooses(f, s, P)
  <2> DEFINE a(k) == IF k = 0 THEN <<>>
                     ELSE IF s[k].addresses # {} THEN Append(f[k - 1], s[k]) ELSE f[k - 1]
             b(k) == IF k = 0 THEN <<>> ELSE IF k \in P THEN Append(f[k - 1], s[k]) ELSE f[k - 1]
  <2>1. \A k \in 0..Len(s) : k # 0 => (k \in P <=> s[k].addresses # {})
    <3>1. Len(s) \in Nat
      BY <1>0
    <3> QED BY <3>1
  <2>2. \A k \in 0..Len(s) : a(k) = b(k)
    <3> HIDE DEF P
    <3> QED BY <2>1
  <2> HIDE DEF a, b
  <2>3. [k \in 0..Len(s) |-> a(k)] = [k \in 0..Len(s) |-> b(k)]
    BY <2>2
  <2> QED BY <2>3 DEF Chooses, a, b
<1>3. \E f : Is(f)
  <2> HIDE DEF Is, P
  <2> QED BY <1>0, <1>2, ChoosesExists
<1>4. Is(kept)
  <2> HIDE DEF Is
  <2> QED BY <1>3
<1>5. Chooses(kept, s, P)
  <2> HIDE DEF Is, kept, P
  <2> QED BY <1>2, <1>4
<1>6. P \in SUBSET (1..Len(s))
  OBVIOUS
<1> HIDE DEF kept, P
<1>7. kept[Len(s)] \in Seq(T) /\ IsChosen(kept[Len(s)], s, P)
  BY <1>0, <1>5, <1>6, ChoosesAll
<1> QED BY <1>1, <1>7 DEF P, s

\* The targets of a VM are those of at most three tiers.
LEMMA TargetsListed ==
    ASSUME NEW vm, TierOf(vm) \in Tiers
    PROVE  /\ Targets(vm) \in Seq({Targets(vm)[k] : k \in DOMAIN Targets(vm)})
           /\ Len(Targets(vm)) = (IF TierOf(vm) = "endpoint" THEN 2 ELSE 3)
<1> DEFINE t == TierOf(vm)
           to(u, addresses) == [values |-> Values(t, u), addresses |-> addresses]
           cloud == to("cloud", InternalOf(CloudIps))
           edge == to("edge", InternalOf(Ips("edge")))
           endpoint == to("endpoint", InternalOf(Ips("endpoint")))
           others == to("cloud", Others(CloudIps, vm))
           same == to("edge", Others(Ips("edge"), vm))
<1>1. /\ t = "cloud" => Targets(vm) = <<others, edge, endpoint>>
      /\ t = "edge" => Targets(vm) = <<same, cloud, endpoint>>
      /\ t = "endpoint" => Targets(vm) = <<cloud, edge>>
  BY DEF Targets
<1>2. t \in {"cloud", "edge", "endpoint"}
  BY DEF Tiers
<1>3. /\ \A a, b, c : <<a, b, c>> \in Seq({a, b, c}) /\ Len(<<a, b, c>>) = 3
      /\ \A a, b, c : {<<a, b, c>>[k] : k \in DOMAIN <<a, b, c>>} = {a, b, c}
      /\ \A a, b : <<a, b>> \in Seq({a, b}) /\ Len(<<a, b>>) = 2
      /\ \A a, b : {<<a, b>>[k] : k \in DOMAIN <<a, b>>} = {a, b}
  OBVIOUS
<1> HIDE DEF to, cloud, edge, endpoint, others, same
<1>4. CASE t = "cloud" \/ t = "edge"
  <2>1. PICK a, b, c : Targets(vm) = <<a, b, c>>
    BY <1>1, <1>4, Zenon
  <2> HIDE DEF t
  <2> QED BY <1>3, <1>4, <2>1 DEF t
<1>5. CASE t = "endpoint"
  <2>1. PICK a, b : Targets(vm) = <<a, b>>
    BY <1>1, <1>5, Zenon
  <2> QED BY <1>3, <1>5, <2>1
<1> QED BY <1>2, <1>4, <1>5

\* A VM with a class has one with the root.
LEMMA RootFirst ==
    ASSUME NEW vm, TierOf(vm) \in Tiers, Classes(vm) # {}
    PROVE  \E f \in Classes(vm) : f.disk = 1
<1> DEFINE s == ChosenTargets(vm)
           T == {Targets(vm)[k] : k \in DOMAIN Targets(vm)}
           classes(k) == [disk : {k}, values : {s[k].values}, to : s[k].addresses]
<1>1. Classes(vm) = UNION {classes(k) : k \in DOMAIN s}
  BY DEF Classes, ChosenTargets
<1>2. /\ Targets(vm) \in Seq(T) /\ s \in Seq(T)
      /\ IsChosen(s, Targets(vm), {k \in 1..Len(Targets(vm)) : Targets(vm)[k].addresses # {}})
  BY TargetsListed, ChosenTargetsAre
<1> HIDE DEF s, T
<1>3. DOMAIN s = 1..Len(s) /\ Len(s) \in Nat
  BY <1>2, LenProperties
<1>4. 1 \in DOMAIN s
  <2>1. DOMAIN s # {}
    BY <1>1
  <2> QED BY <1>3, <2>1
<1>5. s[1].addresses # {}
  <2> DEFINE P == {k \in 1..Len(Targets(vm)) : Targets(vm)[k].addresses # {}}
  <2>1. PICK place \in [1..Len(s) -> P] : \A j \in 1..Len(s) : s[j] = Targets(vm)[place[j]]
    BY <1>2 DEF IsChosen
  <2>2. s[1] = Targets(vm)[place[1]] /\ place[1] \in P
    BY <1>3, <1>4, <2>1
  <2> QED BY <2>2
<1>6. PICK a : a \in s[1].addresses
  BY <1>5
<1> DEFINE f == [disk |-> 1, values |-> s[1].values, to |-> a]
<1>7. f \in classes(1) /\ f.disk = 1
  BY <1>6
<1> HIDE DEF f, classes
<1> QED BY <1>1, <1>4, <1>7

\* The addresses gathered are those of VMs of the tiers.
LEMMA GatheredVms ==
    ASSUME IInv, CloudInv, AddressInv, pc \in Addressed
    PROVE  /\ \A role : Ips(role) \in Seq(VmRecords)
           /\ CloudIps \in Seq(VmRecords) /\ CloudSsh \in Seq(VmRecords)
<1> DEFINE n == Len(machines)
           T == VmRecords
<1>1. n \in Nat /\ \A i \in 1..n : vms[machines[i]] \in Seq(T)
  BY VmsListed
<1> HIDE DEF T
<1>2. ASSUME NEW role PROVE Ips(role) \in Seq(T)
  <2> DEFINE L == [i \in 1..n |-> OfRole(machines[i], role)]
  <2>1. L \in ListsOf(T, n) /\ JoinOf(Ips(role), L, n)
    BY <1>1, IpsIs
  <2> HIDE DEF L, n
  <2> QED BY <1>1, <2>1, JoinOfRange
<1>3. CloudSsh \in Seq(T)
  <2> DEFINE L == [i \in 1..n |-> OfRole(machines[i], "controller") \o OfRole(machines[i], "cloud")]
  <2>1. L \in ListsOf(T, n) /\ JoinOf(CloudSsh, L, n)
    BY <1>1, CloudSshIs
  <2> HIDE DEF L, n
  <2> QED BY <1>1, <2>1, JoinOfRange
<1>4. CloudIps \in Seq(T)
  BY <1>2, ConcatProperties DEF CloudIps
<1> QED BY <1>2, <1>3, <1>4 DEF T

\* Only virtiofs keeps tc from working.
LEMMA NetworkStartFails ==
    ASSUME IInv, CloudInv, AddressInv, NetworkStart, pc' = "failed"
    PROVE  config.virtiofsd /\ config.network_emulation
<1> DEFINE ips == CloudIps \o Ips("edge") \o Ips("endpoint")
           ssh == CloudSsh \o Ips("edge") \o Ips("endpoint")
           runs == {<<ssh[k].ip, ips[k]>> : k \in DOMAIN ips}
<1>1. /\ pc \in Addressed /\ config.network_emulation
      /\ pc' = IF \A r \in runs : TcWorks(r[2]) THEN "shaped" ELSE "failed"
  BY DEF NetworkStart, Addressed
<1>2. PICK k \in DOMAIN ips : ~TcWorks(ips[k])
  <2>1. ~(\A r \in runs : TcWorks(r[2]))
    <3> HIDE DEF runs
    <3> QED BY <1>1
  <2>2. PICK r \in runs : ~TcWorks(r[2])
    BY <2>1
  <2>3. PICK k \in DOMAIN ips : r = <<ssh[k].ip, ips[k]>>
    BY <2>2
  <2>4. r[2] = ips[k]
    BY <2>3
  <2> QED BY <2>2, <2>4
<1>3. ips \in Seq(VmRecords)
  <2>1. CloudIps \in Seq(VmRecords) /\ Ips("edge") \in Seq(VmRecords) /\ Ips("endpoint") \in Seq(VmRecords)
    BY <1>1, GatheredVms
  <2>2. CloudIps \o Ips("edge") \in Seq(VmRecords)
    BY <2>1, ConcatProperties
  <2> QED BY <2>1, <2>2, ConcatProperties
<1> DEFINE vm == ips[k]
<1> HIDE DEF ips
<1>4. vm \in VmRecords
  BY <1>2, <1>3
<1>5. TierOf(vm) \in Tiers
  <2>1. vm.role \in Tiers \cup {"controller"}
    BY <1>4 DEF VmRecords
  <2> QED BY <2>1 DEF TierOf, Tiers
<1> HIDE DEF vm
<1>6. Classes(vm) # {} /\ (config.virtiofsd \/ ~\E f \in Classes(vm) : f.disk = 1)
  BY <1>2 DEF TcWorks, vm
<1> QED BY <1>1, <1>5, <1>6, RootFirst

\* set_ips reads an address for every VM.
LEMMA ApplyReads ==
    ASSUME PlacementInv, CountInv, MachinesInv, StageInv, CloudInv, Apply, pc' # "aborted"
    PROVE  /\ pc' = "install" /\ UNCHANGED <<placement, stored>> /\ Cloud
           /\ registry' = IF config.infra_only THEN registry ELSE SetRegistry(CloudVms)
<1> DEFINE read == [k \in DOMAIN vms[M] |->
                      [vms[M][k] EXCEPT !.ip = ReadAddress(k, External),
                                        !.internal = ReadAddress(k, Internal)]]
<1>1. /\ pc = "apply" /\ UNCHANGED <<placement, stored>>
      /\ registry' = IF config.infra_only THEN registry ELSE SetRegistry(read)
      /\ pc' = IF \E k \in DOMAIN read : <<>> \in {read[k].ip, read[k].internal}
               THEN "failed" ELSE "install"
  BY DEF Apply
<1>2. /\ Cloud /\ pc \notin Unplaced /\ Len(machines) = 1 /\ vms = Only(NewVms)
  BY <1>1, QemuOrCloud DEF StageInv, CloudInv, Unplaced
<1>3. M \in Hosts
  BY <1>2, OnlyMachine
<1>4. vms[M] = NewVms
  BY <1>2, <1>3 DEF Only
<1>5. read = CloudVms
  BY <1>2, <1>4, ReadIs
<1> HIDE DEF read
<1>6. ASSUME NEW k \in DOMAIN CloudVms PROVE CloudVms[k].ip # <<>> /\ CloudVms[k].internal # <<>>
  <2>1. /\ DOMAIN CloudVms = 1..Total(config.nodes)
        /\ \A t \in Tiers : \A j \in 1..config.nodes[t] :
              /\ CloudVms[Before(t) + j].ip = Given(External, t, j)
              /\ CloudVms[Before(t) + j].internal = Given(Internal, t, j)
    BY <1>2, CloudVmsAre
  <2>2. PICK t \in Tiers : \E j \in 1..config.nodes[t] : k = Before(t) + j
    BY <1>2, <2>1, OnlyMachine, PlaceOfTier
  <2>3. PICK j \in 1..config.nodes[t] : k = Before(t) + j
    BY <2>2
  <2>4. CloudVms[k].ip = Given(External, t, j) /\ CloudVms[k].internal = Given(Internal, t, j)
    BY <2>1, <2>3
  <2>5. Given(External, t, j) # <<>> /\ Given(Internal, t, j) # <<>>
    BY DEF Given
  <2> QED BY <2>4, <2>5
<1>7. pc' = "install"
  BY <1>1, <1>5, <1>6
<1> QED BY <1>1, <1>2, <1>5, <1>7

\* The registry chosen follows from the placement alone.
LEMMA RegistryFrame ==
    ASSUME UNCHANGED placement
    PROVE  SetRegistry(CloudVms)' = SetRegistry(CloudVms) /\ (Cloud' <=> Cloud) /\ (Qemu' <=> Qemu)
<1>1. CloudVms' = CloudVms /\ (Cloud' <=> Cloud)
  BY CloudFrame
<1>2. Qemu' <=> Qemu
  BY DEF Qemu, placement
<1> QED BY <1>1, <1>2

\* A step that leaves the registry and its images as they are, unless it comes
\* to a point where more is asked of them.
LEMMA StoreFrame ==
    ASSUME PlacementInv, StoreInv, UNCHANGED <<placement, registry, stored>>,
           pc' \in {"inventory", "generate", "base", "apply", "install"} =>
              pc' = pc \/ (pc \in {"inventory", "generate", "base"} /\ pc' \in {"inventory", "generate", "base"}),
           pc \in Addressed /\ Cloud => pc' \in Addressed
    PROVE  StoreInv'
<1>1. /\ SetRegistry(CloudVms)' = SetRegistry(CloudVms) /\ (Cloud' <=> Cloud) /\ (Qemu' <=> Qemu)
      /\ config' = config
  BY RegistryFrame DEF placement
<1>2. /\ pc \notin Addressed \/ Qemu => registry = LocalRegistry
      /\ ~config.infra_only /\ pc \in {"inventory", "generate", "base", "apply", "install"} =>
            {LocalRegistry} \X Images \subseteq stored
      /\ Cloud /\ ~config.infra_only /\ pc = "install" => registry = SetRegistry(CloudVms)
  BY DEF StoreInv
<1>3. pc' \notin Addressed \/ Qemu => registry = LocalRegistry
  BY <1>2, QemuOrCloud
<1>4. ~config.infra_only /\ pc' \in {"inventory", "generate", "base", "apply", "install"} =>
         {LocalRegistry} \X Images \subseteq stored
  BY <1>2
<1>5. Cloud /\ ~config.infra_only /\ pc' = "install" => registry = SetRegistry(CloudVms)
  BY <1>2
<1>6. Addressed' = Addressed
  BY DEF Addressed
<1> QED BY <1>1, <1>3, <1>4, <1>5, <1>6 DEF StoreInv

\* Continuum pushes images to where the registry is and pulls those it holds.
LEMMA StoreStep ==
    /\ IInv /\ CloudInv /\ AddressInv /\ StoreInv /\ FailsOnlyOnVirtiofs
    /\ [InfrastructureNext]_everything
    => StoreInv' /\ FailsOnlyOnVirtiofs'
<1> SUFFICES ASSUME IInv, CloudInv, AddressInv, StoreInv, FailsOnlyOnVirtiofs,
                    [InfrastructureNext]_everything
             PROVE  StoreInv' /\ FailsOnlyOnVirtiofs'
  OBVIOUS
<1>1. /\ PlacementInv /\ CountInv /\ MachinesInv /\ StageInv /\ config' = config
      /\ (Qemu <=> ~Cloud)
  BY ConfigKept, QemuOrCloud DEF IInv
<1>2. /\ pc \notin Addressed \/ Qemu => registry = LocalRegistry
      /\ ~config.infra_only /\ pc \in {"inventory", "generate", "base", "apply", "install"} =>
            {LocalRegistry} \X Images \subseteq stored
      /\ Cloud /\ ~config.infra_only /\ pc = "install" => registry = SetRegistry(CloudVms)
  BY DEF StoreInv
<1>3. pc' # "failed" \/ pc = "failed" => FailsOnlyOnVirtiofs'
  BY <1>1 DEF FailsOnlyOnVirtiofs
<1> USE DEF Addressed
<1>4. CASE UNCHANGED everything
  <2>1. UNCHANGED <<placement, registry, stored, pc>>
    BY <1>4 DEF everything, allVars, vars, placement, machineObjects
  <2> QED BY <1>1, <1>3, <2>1, StoreFrame
<1>5. CASE Place
  <2>1. UNCHANGED <<registry, stored>> /\ pc \in Unplaced /\ pc' \in Unplaced \cup {"placed"}
    BY <1>5 DEF Place, machineObjects, Next, SkipTier, PlaceEqual, PlacePin, LeaveNode, Refuse,
                ScheduleDone, RemoveIdle, Unplaced
  <2>2. registry' = LocalRegistry /\ pc' \notin Addressed
        /\ pc' \notin {"inventory", "generate", "base", "apply", "install"}
    BY <1>2, <2>1 DEF Unplaced
  <2> QED BY <1>3, <2>2 DEF StoreInv
<1>6. CASE SetIpNames \/ CreateInventory \/ Generate
  <2>1. UNCHANGED <<placement, registry, stored, pc>> /\ Qemu
    <3>1. pc \in {"placed", "inventory", "generate"} /\ UNCHANGED <<placement, registry, stored, pc>>
      BY <1>6 DEF SetIpNames, CreateInventory, Generate, vars, placement
    <3>2. pc = "placed" => Qemu
      BY <1>6 DEF SetIpNames, CreateInventory, Generate
    <3> QED BY <1>1, <3>1, <3>2 DEF CloudInv
  <2> QED BY <1>1, <1>3, <2>1, StoreFrame
<1>7. CASE NextStage
  <2>1. /\ UNCHANGED <<placement, registry, stored>> /\ Qemu
        /\ \/ pc = "placed" /\ pc' = "registry"
           \/ pc = "inventory" /\ pc' = "generate"
           \/ pc = "generate" /\ pc' = "base"
    BY <1>7 DEF NextStage
  <2> QED BY <1>1, <1>3, <2>1, StoreFrame
<1>8. CASE DockerRegistry
  <2>1. /\ pc = "registry" /\ UNCHANGED <<placement, registry>> /\ pc' \in {"inventory", "apply"}
        /\ registry = LocalRegistry
    BY <1>2, <1>8 DEF DockerRegistry
  <2>2. ~config.infra_only => {registry} \X Images \subseteq stored'
    <3> SUFFICES ASSUME ~config.infra_only PROVE {registry} \X Images \subseteq stored'
      OBVIOUS
    <3>1. PICK up \in BOOLEAN, present \in SUBSET Images :
             stored' = {registry} \X ((IF up THEN present ELSE {})
                                      \cup {image \in Images : NeedPull(up, present, image)})
      BY <1>8 DEF DockerRegistry
    <3>2. Images \subseteq (IF up THEN present ELSE {})
                           \cup {image \in Images : NeedPull(up, present, image)}
      BY DEF NeedPull
    <3> QED BY <3>1, <3>2
  <2> QED BY <1>1, <1>3, <2>1, <2>2 DEF StoreInv
<1>9. CASE BaseImage
  <2>1. pc = "base" /\ UNCHANGED <<placement, registry, stored>> /\ pc' \in {"launch", "failed"}
    BY <1>9 DEF BaseImage
  <2>2. Qemu /\ registry = LocalRegistry
    BY <1>1, <1>2, <2>1 DEF CloudInv
  <2>3. pc' = "launch"
    <3>1. \A places : PullWorks(places, stored)
      <4>1. CASE config.infra_only
        BY <4>1, NothingPulled
      <4>2. CASE ~config.infra_only
        <5>1. {registry} \X Images \subseteq stored
          BY <1>2, <2>1, <2>2, <4>2
        <5> QED BY <5>1, AllImages
      <4> QED BY <4>1, <4>2
    <3> QED BY <1>9, <3>1 DEF BaseImage
  <2> QED BY <1>1, <1>3, <2>1, <2>2, <2>3, StoreFrame
<1>10. CASE LaunchVms \/ LaunchFails
  <2>1. /\ pc = "launch" /\ UNCHANGED <<placement, registry, stored>>
        /\ pc' \in {"running", "aborted", "launch"}
    BY <1>10 DEF LaunchVms, LaunchFails
  <2> QED BY <1>1, <1>3, <2>1, StoreFrame
<1>11. CASE SetNames
  <2>1. pc = "placed" /\ UNCHANGED <<placement, registry, stored>> /\ pc' \in {"aborted", "registry"}
    BY <1>11 DEF SetNames
  <2> QED BY <1>1, <1>3, <2>1, StoreFrame
<1>12. CASE Apply
  <2>1. pc = "apply" /\ UNCHANGED <<placement, stored>>
    BY <1>12 DEF Apply
  <2>2. CASE pc' = "aborted"
    <3>1. UNCHANGED registry
      BY <1>12, <2>2 DEF Apply
    <3> QED BY <1>1, <1>3, <2>1, <2>2, <3>1, StoreFrame
  <2>3. CASE pc' # "aborted"
    <3>1. /\ pc' = "install" /\ Cloud
          /\ registry' = IF config.infra_only THEN registry ELSE SetRegistry(CloudVms)
      BY <1>1, <1>12, <2>3, ApplyReads
    <3>2. SetRegistry(CloudVms)' = SetRegistry(CloudVms) /\ (Cloud' <=> Cloud) /\ (Qemu' <=> Qemu)
      BY <2>1, RegistryFrame
    <3> QED BY <1>1, <1>2, <1>3, <2>1, <3>1, <3>2 DEF StoreInv
  <2> QED BY <2>2, <2>3
<1>13. CASE BaseInstall
  <2> DEFINE held == IF config.infra_only THEN stored
                     ELSE stored \cup {<<RegistryVm.internal, image>> :
                                         image \in {i \in Images : <<LocalRegistry, i>> \in stored}}
  <2>1. /\ pc = "install" /\ UNCHANGED <<placement, registry>> /\ pc' \in {"running", "failed"}
        /\ config.infra_only \/ (registry = RegistryVm.internal /\ PullWorks(Places(bases), held))
              => pc' = "running"
    BY <1>13 DEF BaseInstall
  <2>2. Cloud
    BY <1>1, <2>1 DEF StageInv
  <2>3. pc' = "running"
    <3>1. SUFFICES ASSUME ~config.infra_only
                   PROVE  registry = RegistryVm.internal /\ PullWorks(Places(bases), held)
      BY <2>1
    <3>2. registry = RegistryVm.internal
      BY <1>2, <2>1, <2>2, <3>1, RegistryVmIs
    <3>3. {i \in Images : <<LocalRegistry, i>> \in stored} = Images
      BY <1>2, <2>1, <3>1
    <3>4. {registry} \X Images \subseteq held
      BY <3>1, <3>2, <3>3
    <3> HIDE DEF held
    <3> QED BY <3>2, <3>4, AllImages
  <2>4. Cloud' /\ ~Qemu'
    BY <1>1, <2>2 DEF Cloud, Qemu
  <2> QED BY <1>3, <2>3, <2>4 DEF StoreInv
<1>14. CASE NetworkStart
  <2>1. pc = "running" /\ UNCHANGED <<placement, registry, stored>> /\ pc' \in {"shaped", "failed"}
    BY <1>14 DEF NetworkStart, machineObjects
  <2>2. pc' = "failed" => config.virtiofsd /\ config.network_emulation
    BY <1>14, NetworkStartFails
  <2>3. StoreInv'
    BY <1>1, <2>1, StoreFrame
  <2> QED BY <1>1, <2>2, <2>3 DEF FailsOnlyOnVirtiofs
<1>15. CASE NetworkBenchmark
  <2>1. pc = "shaped" /\ UNCHANGED <<placement, registry, stored>> /\ pc' = "ready"
    BY <1>15 DEF NetworkBenchmark, machineObjects
  <2> QED BY <1>1, <1>3, <2>1, StoreFrame
<1> QED BY <1>4, <1>5, <1>6, <1>7, <1>8, <1>9, <1>10, <1>11, <1>12, <1>13, <1>14, <1>15
        DEF InfrastructureNext, ProvisionNext, TerraformNext

-----------------------------------------------------------------------------
(* What the inventory tells *)

\* The inventory chooses the base images whose name tells the tier.
LEMMA ToldIs ==
    ASSUME NEW T, NEW s \in Seq(T), NEW t
    PROVE  /\ Telling(s, t) \in Seq(T)
           /\ IsChosen(Telling(s, t), s, {k \in 1..Len(s) : Tells(t, s[k].name)})
<1> DEFINE P == {k \in 1..Len(s) : Tells(t, s[k].name)}
           Is(f) == f = [k \in 0..Len(s) |->
                           IF k = 0 THEN <<>>
                           ELSE IF Tells(t, s[k].name) THEN Append(f[k - 1], s[k]) ELSE f[k - 1]]
           kept == CHOOSE f : Is(f)
<1>1. Telling(s, t) = kept[Len(s)]
  BY DEF Telling, Chosen
<1>2. ASSUME NEW f PROVE Is(f) <=> Chooses(f, s, P)
  <2> DEFINE a(k) == IF k = 0 THEN <<>>
                     ELSE IF Tells(t, s[k].name) THEN Append(f[k - 1], s[k]) ELSE f[k - 1]
             b(k) == IF k = 0 THEN <<>> ELSE IF k \in P THEN Append(f[k - 1], s[k]) ELSE f[k - 1]
  <2>1. \A k \in 0..Len(s) : k # 0 => (k \in P <=> Tells(t, s[k].name))
    <3>1. Len(s) \in Nat
      OBVIOUS
    <3> QED BY <3>1
  <2>2. \A k \in 0..Len(s) : a(k) = b(k)
    <3> HIDE DEF P
    <3> QED BY <2>1
  <2> HIDE DEF a, b
  <2>3. [k \in 0..Len(s) |-> a(k)] = [k \in 0..Len(s) |-> b(k)]
    BY <2>2
  <2> QED BY <2>3 DEF Chooses, a, b
<1>3. \E f : Is(f)
  <2> HIDE DEF Is, P
  <2> QED BY <1>2, ChoosesExists
<1>4. Is(kept)
  <2> HIDE DEF Is
  <2> QED BY <1>3
<1>5. Chooses(kept, s, P)
  <2> HIDE DEF Is, kept, P
  <2> QED BY <1>2, <1>4
<1>6. P \in SUBSET (1..Len(s))
  OBVIOUS
<1> HIDE DEF kept, P
<1> QED BY <1>1, <1>5, <1>6, ChoosesAll DEF P

\* The base images of the machines behind each other.
LEMMA AllBasesIs ==
    ASSUME Len(machines) \in Nat, NEW T, \A i \in 1..Len(machines) : bases[machines[i]] \in Seq(T)
    PROVE  LET L == [i \in 1..Len(machines) |-> bases[machines[i]]]
           IN L \in ListsOf(T, Len(machines)) /\ JoinOf(AllBases, L, Len(machines))
<1> DEFINE n == Len(machines)
           element(i) == bases[machines[i]]
           L == [i \in 1..n |-> element(i)]
           Is(f) == f = [i \in 0..n |-> IF i = 0 THEN <<>> ELSE f[i - 1] \o element(i)]
           upTo == CHOOSE f : Is(f)
<1>1. AllBases = upTo[n]
  BY DEF AllBases, OverMachines
<1>2. L \in ListsOf(T, n) /\ \A i \in 1..n : L[i] = element(i)
  BY DEF ListsOf
<1>3. ASSUME NEW f PROVE Is(f) <=> Joins(f, L, n)
  <2> DEFINE a(i) == IF i = 0 THEN <<>> ELSE f[i - 1] \o element(i)
             b(i) == IF i = 0 THEN <<>> ELSE f[i - 1] \o L[i]
  <2>1. \A i \in 0..n : i # 0 => L[i] = element(i)
    <3>1. \A i \in 0..n : i # 0 => i \in 1..n
      OBVIOUS
    <3> QED BY <1>2, <3>1
  <2>2. \A i \in 0..n : a(i) = b(i)
    <3> HIDE DEF L, element
    <3> QED BY <2>1
  <2> HIDE DEF L, a, b
  <2>3. [i \in 0..n |-> a(i)] = [i \in 0..n |-> b(i)]
    BY <2>2
  <2> QED BY <2>3 DEF Joins, a, b
<1>4. \E f : Is(f)
  <2>1. n \in Nat /\ L \in [1..n -> Seq(T)]
    BY <1>2 DEF ListsOf
  <2>2. \E f : Joins(f, L, n)
    <3> HIDE DEF L, n
    <3> QED BY <2>1, JoinsExists, Zenon
  <2> HIDE DEF Is, L, n
  <2> QED BY <1>3, <2>2
<1>5. Is(upTo)
  <2> HIDE DEF Is
  <2> QED BY <1>4
<1>6. Joins(upTo, L, n)
  <2> HIDE DEF Is, L, n, upTo
  <2> QED BY <1>3, <1>5
<1> HIDE DEF upTo, L, n
<1>7. JoinOf(AllBases, L, n)
  BY <1>1, <1>6 DEF JoinOf
<1> QED BY <1>2, <1>7 DEF L, n

\* Those of a tier.
LEMMA BasesForIs ==
    ASSUME Len(machines) \in Nat, NEW T, \A i \in 1..Len(machines) : bases[machines[i]] \in Seq(T), NEW t
    PROVE  LET L == [i \in 1..Len(machines) |-> Telling(bases[machines[i]], t)]
           IN L \in ListsOf(T, Len(machines)) /\ JoinOf(BasesFor(t), L, Len(machines))
<1> DEFINE n == Len(machines)
           element(i) == Telling(bases[machines[i]], t)
           L == [i \in 1..n |-> element(i)]
           Is(f) == f = [i \in 0..n |-> IF i = 0 THEN <<>> ELSE f[i - 1] \o element(i)]
           upTo == CHOOSE f : Is(f)
<1>1. BasesFor(t) = upTo[n]
  BY DEF BasesFor, OverMachines
<1>2. L \in ListsOf(T, n) /\ \A i \in 1..n : L[i] = element(i)
  <2>1. \A i \in 1..n : element(i) \in Seq(T)
    BY ToldIs
  <2> HIDE DEF element
  <2> QED BY <2>1 DEF ListsOf
<1>3. ASSUME NEW f PROVE Is(f) <=> Joins(f, L, n)
  <2> DEFINE a(i) == IF i = 0 THEN <<>> ELSE f[i - 1] \o element(i)
             b(i) == IF i = 0 THEN <<>> ELSE f[i - 1] \o L[i]
  <2>1. \A i \in 0..n : i # 0 => L[i] = element(i)
    <3>1. \A i \in 0..n : i # 0 => i \in 1..n
      OBVIOUS
    <3> HIDE DEF L, element
    <3> QED BY <1>2, <3>1
  <2>2. \A i \in 0..n : a(i) = b(i)
    <3> HIDE DEF L, element
    <3> QED BY <2>1
  <2> HIDE DEF L, a, b
  <2>3. [i \in 0..n |-> a(i)] = [i \in 0..n |-> b(i)]
    BY <2>2
  <2> QED BY <2>3 DEF Joins, a, b, element
<1>4. \E f : Is(f)
  <2>1. n \in Nat /\ L \in [1..n -> Seq(T)]
    BY <1>2 DEF ListsOf
  <2>2. \E f : Joins(f, L, n)
    <3> HIDE DEF L, n
    <3> QED BY <2>1, JoinsExists, Zenon
  <2> HIDE DEF Is, L, n
  <2> QED BY <1>3, <2>2
<1>5. Is(upTo)
  <2> HIDE DEF Is
  <2> QED BY <1>4
<1>6. Joins(upTo, L, n)
  <2> HIDE DEF Is, L, n, upTo
  <2> QED BY <1>3, <1>5
<1> HIDE DEF upTo, L, n
<1>7. JoinOf(BasesFor(t), L, n)
  BY <1>1, <1>6 DEF JoinOf
<1> QED BY <1>2, <1>7 DEF L, n, element

\* A line of the inventory.
Line(group, x) == [group |-> group, name |-> x.name, ip |-> x.ip]

\* A name has one address, so what a group reaches are the addresses of its lines.
LEMMA ReachedIs ==
    ASSUME NEW S, NEW entries \in Seq(S), NEW group,
           \A l, k \in Range(entries) : l.group = group /\ k.name = l.name => k.ip = l.ip
    PROVE  \A a : a \in Reached(entries, group) <=> \E l \in Range(entries) : l.group = group /\ l.ip = a
<1> DEFINE n == Len(entries)
           Last(name, k) == /\ k \in DOMAIN entries
                            /\ entries[k].name = name
                            /\ \A l \in (k + 1)..n : entries[l].name # name
           last(name) == CHOOSE k \in DOMAIN entries :
                           /\ entries[k].name = name
                           /\ \A l \in (k + 1)..n : entries[l].name # name
<1>1. n \in Nat /\ DOMAIN entries = 1..n
  BY LenProperties
<1>2. ASSUME NEW j \in DOMAIN entries PROVE \E k : Last(entries[j].name, k)
  <2> DEFINE name == entries[j].name
             D == {d \in Nat : d < n /\ entries[n - d].name = name}
  <2>1. D # {}
    <3>1. n - j \in Nat /\ n - j < n /\ n - (n - j) = j
      BY <1>1
    <3>2. n - j \in D
      BY <3>1
    <3> QED BY <3>2
  <2>2. D \in SUBSET Nat
    OBVIOUS
  <2>3. PICK d \in D : \A e \in D : d <= e
    <3> HIDE DEF D
    <3> QED BY <2>1, <2>2, LeastNatural
  <2>4. d \in Nat /\ d < n /\ entries[n - d].name = name /\ n - d \in 1..n
    BY <1>1, <2>3
  <2>5. ASSUME NEW l \in (n - d + 1)..n PROVE entries[l].name # name
    <3>1. n - l \in Nat /\ n - l < n /\ n - (n - l) = l /\ ~(d <= n - l)
      BY <1>1, <2>4
    <3>2. n - l \notin D
      BY <2>3, <3>1
    <3> QED BY <3>1, <3>2
  <2>6. Last(name, n - d)
    BY <1>1, <2>4, <2>5
  <2> HIDE DEF Last
  <2> QED BY <2>6
<1>3. \A j \in DOMAIN entries : Last(entries[j].name, last(entries[j].name))
  BY <1>2
<1>4. Reached(entries, group) = {entries[last(entries[k].name)].ip : k \in {l \in DOMAIN entries : entries[l].group = group}}
  BY DEF Reached
<1> HIDE DEF last
<1>5. ASSUME NEW j \in DOMAIN entries, entries[j].group = group PROVE entries[last(entries[j].name)].ip = entries[j].ip
  <2>1. /\ last(entries[j].name) \in DOMAIN entries /\ entries[last(entries[j].name)].name = entries[j].name
    BY <1>3
  <2> QED BY <1>5, <2>1 DEF Range
<1> HIDE DEF Last, n
<1>6. \A a : a \in Reached(entries, group) <=>
               \E k \in DOMAIN entries : entries[k].group = group /\ entries[last(entries[k].name)].ip = a
  BY <1>4
<1>7. \A a : a \in Reached(entries, group) <=> \E k \in DOMAIN entries : entries[k].group = group /\ entries[k].ip = a
  BY <1>5, <1>6
<1> QED BY <1>7 DEF Range

\* The groups of the inventory.
Groups ==
    {"cloudcontroller", "clouds", "edges", "endpoints", "base", "base_cloud", "base_edge", "base_endpoint"}

\* The lines of a group for a list.
Lines(group, list) == [k \in DOMAIN list |-> Line(group, list[k])]
LinesFor(T) == {Line(group, x) : group \in Groups, x \in T}
LinesWhen(condition, group, list) == IF condition THEN Lines(group, list) ELSE <<>>
HasLine(l, group, list) == \E x \in Range(list) : l = Line(group, x)

\* They are there only on a condition.
LEMMA LinesAre ==
    ASSUME NEW T, NEW list \in Seq(T), NEW group \in Groups, NEW condition \in BOOLEAN
    PROVE  /\ LinesWhen(condition, group, list) \in Seq(LinesFor(T))
           /\ \A l : l \in Range(LinesWhen(condition, group, list)) <=> condition /\ HasLine(l, group, list)
<1>1. DOMAIN list = 1..Len(list) /\ Len(list) \in Nat /\ \A k \in DOMAIN list : list[k] \in T
  BY LenProperties
<1>2. CASE condition
  <2> DEFINE n == Len(list)
             line(k) == Line(group, list[k])
             f == [k \in 1..n |-> line(k)]
  <2>1. LinesWhen(condition, group, list) = f
    <3>1. Lines(group, list) = f
      BY <1>1 DEF Lines
    <3> QED BY <1>2, <3>1 DEF LinesWhen
  <2>2. \A x \in T : Line(group, x) \in LinesFor(T)
    BY DEF LinesFor
  <2>3. \A k \in 1..n : line(k) \in LinesFor(T)
    BY <1>1, <2>2
  <2>4. \A l : HasLine(l, group, list) <=> \E k \in 1..n : l = line(k)
    BY <1>1 DEF HasLine, Range
  <2>5. n \in Nat
    BY <1>1
  <2> HIDE DEF n, line
  <2>6. f \in [1..n -> LinesFor(T)] /\ DOMAIN f = 1..n /\ \A k \in 1..n : f[k] = line(k)
    BY <2>3
  <2>7. f \in Seq(LinesFor(T))
    BY <2>5, <2>6, SeqDef
  <2> HIDE DEF f
  <2>8. \A l : l \in Range(f) <=> \E k \in 1..n : l = line(k)
    BY <2>6 DEF Range
  <2> QED BY <1>2, <2>1, <2>4, <2>7, <2>8
<1>3. CASE ~condition
  <2>1. LinesWhen(condition, group, list) = <<>>
    BY <1>3 DEF LinesWhen
  <2>2. DOMAIN <<>> = {} /\ <<>> \in Seq(LinesFor(T))
    BY EmptySeq
  <2>3. \A l : l \notin Range(<<>>)
    BY <2>2 DEF Range
  <2> QED BY <1>3, <2>1, <2>2, <2>3
<1> QED BY <1>2, <1>3

\* Where the inventory has the lines of the controller, of edges and so on.
WithController == ~config.infra_only /\ Mode # "endpoint" /\ config.resource_manager # "mist"
Benchmarked == ~config.infra_only

\* The lists the inventory is made from.
Listed(T) ==
    /\ OfRole(machines[1], "controller") \in Seq(T)
    /\ \A role : Ips(role) \in Seq(T)
    /\ AllBases \in Seq(T) /\ \A t : BasesFor(t) \in Seq(T)

\* The lines of the inventory.
LEMMA EntriesAre ==
    ASSUME NEW T, Listed(T)
    PROVE  /\ Entries \in Seq(LinesFor(T))
           /\ \A l : l \in Range(Entries) <=>
                \/ WithController /\ HasLine(l, "cloudcontroller", OfRole(machines[1], "controller"))
                \/ Mode = "cloud" /\ HasLine(l, "clouds", Ips("cloud"))
                \/ Mode = "edge" /\ HasLine(l, "edges", Ips("edge"))
                \/ HasLine(l, "endpoints", Ips("endpoint"))
                \/ HasLine(l, "base", AllBases)
                \/ Benchmarked /\ Mode # "endpoint" /\ HasLine(l, "base_cloud", BasesFor("cloud"))
                \/ Benchmarked /\ Mode = "edge" /\ HasLine(l, "base_edge", BasesFor("edge"))
                \/ Benchmarked /\ HasLine(l, "base_endpoint", BasesFor("endpoint"))
<1> DEFINE S == LinesFor(T)
           a == LinesWhen(WithController, "cloudcontroller", OfRole(machines[1], "controller"))
           b == LinesWhen(Mode = "cloud", "clouds", Ips("cloud"))
           c == LinesWhen(Mode = "edge", "edges", Ips("edge"))
           d == LinesWhen(TRUE, "endpoints", Ips("endpoint"))
           e == LinesWhen(TRUE, "base", AllBases)
           f == LinesWhen(Benchmarked /\ Mode # "endpoint", "base_cloud", BasesFor("cloud"))
           g == LinesWhen(Benchmarked /\ Mode = "edge", "base_edge", BasesFor("edge"))
           h == LinesWhen(Benchmarked, "base_endpoint", BasesFor("endpoint"))
           ab == a \o b
           abc == ab \o c
           abcd == abc \o d
           upToBase == abcd \o e
           withCloud == upToBase \o f
           withEdge == withCloud \o g
<1>1. Entries = withEdge \o h
  BY DEF Entries, LinesWhen, Lines, Line, WithController, Benchmarked
<1>2. /\ WithController \in BOOLEAN /\ (Mode = "cloud") \in BOOLEAN /\ (Mode = "edge") \in BOOLEAN
      /\ TRUE \in BOOLEAN /\ (Benchmarked /\ Mode # "endpoint") \in BOOLEAN
      /\ (Benchmarked /\ Mode = "edge") \in BOOLEAN /\ Benchmarked \in BOOLEAN
  BY DEF WithController, Benchmarked
<1>3. /\ "cloudcontroller" \in Groups /\ "clouds" \in Groups /\ "edges" \in Groups /\ "endpoints" \in Groups
      /\ "base" \in Groups /\ "base_cloud" \in Groups /\ "base_edge" \in Groups /\ "base_endpoint" \in Groups
  BY DEF Groups
<1>4. /\ OfRole(machines[1], "controller") \in Seq(T) /\ AllBases \in Seq(T)
      /\ Ips("cloud") \in Seq(T) /\ Ips("edge") \in Seq(T) /\ Ips("endpoint") \in Seq(T)
      /\ BasesFor("cloud") \in Seq(T) /\ BasesFor("edge") \in Seq(T) /\ BasesFor("endpoint") \in Seq(T)
  BY DEF Listed
<1>5. /\ a \in Seq(S)
      /\ \A l : l \in Range(a) <=>
            WithController /\ HasLine(l, "cloudcontroller", OfRole(machines[1], "controller"))
  BY <1>3, <1>2, <1>4, LinesAre, Zenon
<1>6. b \in Seq(S) /\ \A l : l \in Range(b) <=> Mode = "cloud" /\ HasLine(l, "clouds", Ips("cloud"))
  BY <1>3, <1>2, <1>4, LinesAre, Zenon
<1>7. c \in Seq(S) /\ \A l : l \in Range(c) <=> Mode = "edge" /\ HasLine(l, "edges", Ips("edge"))
  BY <1>3, <1>2, <1>4, LinesAre, Zenon
<1>8. d \in Seq(S) /\ \A l : l \in Range(d) <=> HasLine(l, "endpoints", Ips("endpoint"))
  BY <1>3, <1>2, <1>4, LinesAre, Zenon
<1>9. e \in Seq(S) /\ \A l : l \in Range(e) <=> HasLine(l, "base", AllBases)
  BY <1>3, <1>2, <1>4, LinesAre, Zenon
<1>10. /\ f \in Seq(S)
      /\ \A l : l \in Range(f) <=>
            Benchmarked /\ Mode # "endpoint" /\ HasLine(l, "base_cloud", BasesFor("cloud"))
  BY <1>3, <1>2, <1>4, LinesAre, Zenon
<1>11. /\ g \in Seq(S)
      /\ \A l : l \in Range(g) <=> Benchmarked /\ Mode = "edge" /\ HasLine(l, "base_edge", BasesFor("edge"))
  BY <1>3, <1>2, <1>4, LinesAre, Zenon
<1>12. h \in Seq(S) /\ \A l : l \in Range(h) <=> Benchmarked /\ HasLine(l, "base_endpoint", BasesFor("endpoint"))
  BY <1>3, <1>2, <1>4, LinesAre, Zenon
<1> HIDE DEF S, a, b, c, d, e, f, g, h
<1>13. ab \in Seq(S) /\ Range(ab) = Range(a) \cup Range(b)
  BY <1>5, <1>6, RangeConcat
<1> HIDE DEF ab
<1>14. abc \in Seq(S) /\ Range(abc) = Range(ab) \cup Range(c)
  BY <1>7, <1>13, RangeConcat
<1> HIDE DEF abc
<1>15. abcd \in Seq(S) /\ Range(abcd) = Range(abc) \cup Range(d)
  BY <1>8, <1>14, RangeConcat
<1> HIDE DEF abcd
<1>16. upToBase \in Seq(S) /\ Range(upToBase) = Range(abcd) \cup Range(e)
  BY <1>9, <1>15, RangeConcat
<1> HIDE DEF upToBase
<1>17. withCloud \in Seq(S) /\ Range(withCloud) = Range(upToBase) \cup Range(f)
  BY <1>10, <1>16, RangeConcat
<1> HIDE DEF withCloud
<1>18. withEdge \in Seq(S) /\ Range(withEdge) = Range(withCloud) \cup Range(g)
  BY <1>11, <1>17, RangeConcat
<1> HIDE DEF withEdge
<1>19. Entries \in Seq(S) /\ Range(Entries) = Range(withEdge) \cup Range(h)
  BY <1>1, <1>12, <1>18, RangeConcat
<1>20. \A l : l \in Range(Entries) <=>
          \/ l \in Range(a) \/ l \in Range(b) \/ l \in Range(c) \/ l \in Range(d)
          \/ l \in Range(e) \/ l \in Range(f) \/ l \in Range(g) \/ l \in Range(h)
  BY <1>13, <1>14, <1>15, <1>16, <1>17, <1>18, <1>19
<1>21. Entries \in Seq(LinesFor(T))
  BY <1>19 DEF S
<1> QED BY <1>5, <1>6, <1>7, <1>8, <1>9, <1>10, <1>11, <1>12, <1>20, <1>21

-----------------------------------------------------------------------------
(* What the playbooks reach *)

BaseAt(b) == bases[b[1]][b[2]]

\* The groups of base images are told from their names, and no name is that of
\* another host.
Recognised ==
    /\ \A b, c \in Places(bases) : BaseAt(b).ip = BaseAt(c).ip => b = c
    /\ \E S : Entries \in Seq(S)
    /\ \A l \in Range(Entries), b \in Places(bases) : l.name = BaseAt(b).name => l.ip = BaseAt(b).ip
    /\ \A l : l \in Range(Entries) /\ l.group = "base" <=> \E b \in Places(bases) : l = Line("base", BaseAt(b))
    /\ ~config.infra_only =>
          \A t \in Tiers : \A l :
             l \in Range(Entries) /\ l.group = BaseWord[t] <=>
                \E b \in Places(bases) : Tells(t, BaseAt(b).name) /\ l = Line(BaseWord[t], BaseAt(b))

\* The playbooks of a group reach its base images and no other.
LEMMA ReachedBases ==
    ASSUME Recognised, NEW b \in Places(bases)
    PROVE  /\ BaseAt(b).ip \in Reached(Entries, "base")
           /\ ~config.infra_only =>
                 \A t \in Tiers : BaseAt(b).ip \in Reached(Entries, BaseWord[t]) <=> Tells(t, BaseAt(b).name)
<1>1. PICK S : Entries \in Seq(S)
  BY DEF Recognised
<1>2. /\ \A c \in Places(bases) : BaseAt(b).ip = BaseAt(c).ip => b = c
      /\ \A l \in Range(Entries), c \in Places(bases) : l.name = BaseAt(c).name => l.ip = BaseAt(c).ip
  BY DEF Recognised
<1>3. \A group, c : /\ Line(group, BaseAt(c)).name = BaseAt(c).name /\ Line(group, BaseAt(c)).ip = BaseAt(c).ip
                    /\ Line(group, BaseAt(c)).group = group
  BY DEF Line
<1>4. BaseAt(b).ip \in Reached(Entries, "base")
  <2>1. \A l : l \in Range(Entries) /\ l.group = "base" <=> \E c \in Places(bases) : l = Line("base", BaseAt(c))
    BY DEF Recognised
  <2>2. \A l, k \in Range(Entries) : l.group = "base" /\ k.name = l.name => k.ip = l.ip
    BY <1>2, <1>3, <2>1
  <2>3. \A a : a \in Reached(Entries, "base") <=> \E l \in Range(Entries) : l.group = "base" /\ l.ip = a
    BY <1>1, <2>2, ReachedIs
  <2>4. Line("base", BaseAt(b)) \in Range(Entries) /\ Line("base", BaseAt(b)).group = "base"
    BY <2>1
  <2> QED BY <1>3, <2>3, <2>4
<1>5. ASSUME ~config.infra_only, NEW t \in Tiers
      PROVE  BaseAt(b).ip \in Reached(Entries, BaseWord[t]) <=> Tells(t, BaseAt(b).name)
  <2> DEFINE word == BaseWord[t]
  <2>1. \A l : l \in Range(Entries) /\ l.group = word <=>
                  \E c \in Places(bases) : Tells(t, BaseAt(c).name) /\ l = Line(word, BaseAt(c))
    BY <1>5 DEF Recognised
  <2> HIDE DEF word
  <2>2. \A l, k \in Range(Entries) : l.group = word /\ k.name = l.name => k.ip = l.ip
    BY <1>2, <1>3, <2>1
  <2>3. \A a : a \in Reached(Entries, word) <=> \E l \in Range(Entries) : l.group = word /\ l.ip = a
    BY <1>1, <2>2, ReachedIs
  <2>4. ASSUME BaseAt(b).ip \in Reached(Entries, word) PROVE Tells(t, BaseAt(b).name)
    <3>1. PICK l \in Range(Entries) : l.group = word /\ l.ip = BaseAt(b).ip
      BY <2>3, <2>4
    <3>2. PICK c \in Places(bases) : Tells(t, BaseAt(c).name) /\ l = Line(word, BaseAt(c))
      BY <2>1, <3>1
    <3> QED BY <1>2, <1>3, <3>1, <3>2
  <2>5. ASSUME Tells(t, BaseAt(b).name) PROVE BaseAt(b).ip \in Reached(Entries, word)
    <3>1. Line(word, BaseAt(b)) \in Range(Entries) /\ Line(word, BaseAt(b)).group = word
      BY <2>1, <2>5
    <3> QED BY <1>3, <2>3, <3>1
  <2> QED BY <2>4, <2>5 DEF word
<1> QED BY <1>4, <1>5

\* What a base image gets from the playbooks and docker_pull.
LEMMA InstalledIs ==
    ASSUME Recognised, NEW plays, NEW places, NEW b \in places
    PROVE  Installed(Entries, plays, places)[b] =
              {p.item : p \in {q \in plays : BaseAt(b).ip \in Reached(Entries, q.group)}}
              \cup (IF b \in DockerBases(places) THEN ImagesFor(BaseAt(b).name) ELSE {})
<1> DEFINE played == {[item |-> p.item, reached |-> Reached(Entries, p.group)] : p \in plays}
           a == BaseAt(b).ip
           images == IF b \in DockerBases(places) THEN ImagesFor(BaseAt(b).name) ELSE {}
<1>1. Installed(Entries, plays, places)[b] = {p.item : p \in {q \in played : a \in q.reached}} \cup images
  BY DEF Installed, BaseAt
<1>2. \A i : i \in {p.item : p \in {q \in played : a \in q.reached}} <=>
             \E p \in plays : a \in Reached(Entries, p.group) /\ i = p.item
  <2> DEFINE made(p) == [item |-> p.item, reached |-> Reached(Entries, p.group)]
  <2>1. \A p : made(p).item = p.item /\ made(p).reached = Reached(Entries, p.group)
    OBVIOUS
  <2>2. played = {made(p) : p \in plays}
    OBVIOUS
  <2> HIDE DEF made, played
  <2>3. \A i : i \in {p.item : p \in {q \in played : a \in q.reached}} <=>
               \E q \in played : a \in q.reached /\ i = q.item
    OBVIOUS
  <2>4. \A q : q \in played <=> \E p \in plays : q = made(p)
    BY <2>2
  <2> HIDE DEF a
  <2> QED BY <2>1, <2>3, <2>4
<1> HIDE DEF played, a, images
<1>3. {p.item : p \in {q \in played : a \in q.reached}} = {p.item : p \in {q \in plays : a \in Reached(Entries, q.group)}}
  <2>1. \A i : i \in {p.item : p \in {q \in plays : a \in Reached(Entries, q.group)}} <=>
               \E p \in plays : a \in Reached(Entries, p.group) /\ i = p.item
    OBVIOUS
  <2> QED BY <1>2, <2>1
<1> QED BY <1>1, <1>3 DEF a, images

-----------------------------------------------------------------------------
(* The software of a tier *)

Containers(t) ==
    IF t = "endpoint" THEN {"endpoint image", "combined image"}
    ELSE IF config.resource_manager = "mist" \/ config.resource_manager = "none" THEN {"worker image"} ELSE {}
TierSoftware(t) ==
    (IF config.infra_only THEN {} ELSE {t} \cup Containers(t))
    \cup (IF Qemu \/ config.netperf THEN {"netperf"} ELSE {})

\* The first word of the name of a base image of a tier.
TierWord(t) == IF Qemu THEN BaseWord[t] ELSE t

\* Which tier it is of is told from it.
LEMMA NameTells ==
    ASSUME NEW t \in Tiers, NEW name, name[1] = TierWord(t)
    PROVE  /\ \A u \in Tiers : Tells(u, name) <=> u = t
           /\ Occurrences("endpoint", name) > 0 <=> t = "endpoint"
           /\ Occurrences("cloud", name) + Occurrences("edge", name) > 0 <=> t # "endpoint"
           /\ ~Qemu => \A u \in Tiers : Occurrences(u, name) > 0 <=> u = t
<1> DEFINE w == name[1]
<1>1. /\ \A u \in Tiers : Occurrences(u, name) =
            (IF w = u \/ w = BaseWord[u] THEN 1 ELSE 0)
            + (IF u = "edge" /\ NamedKubeedge /\ w \in {"base_cloud", "base_edge"} THEN 1 ELSE 0)
      /\ BaseWord["cloud"] = "base_cloud" /\ BaseWord["edge"] = "base_edge" /\ BaseWord["endpoint"] = "base_endpoint"
      /\ "cloud" \in Tiers /\ "edge" \in Tiers /\ "endpoint" \in Tiers
      /\ \A u \in Tiers : u \in {"cloud", "edge", "endpoint"}
  BY DEF Occurrences, BaseWord, Tiers
<1>2. \A u : Tells(u, name) <=>
         IF u = "edge" THEN Occurrences("edge", name) = (IF Qemu /\ NamedKubeedge THEN 2 ELSE 1)
         ELSE Occurrences(u, name) > 0
  BY DEF Tells, EdgeBase, Qemu
<1>3. w = IF Qemu THEN BaseWord[t] ELSE t
  BY DEF TierWord
<1> HIDE DEF w
<1>4. CASE t = "cloud"
  <2>1. /\ Occurrences("cloud", name) = 1 /\ Occurrences("endpoint", name) = 0
        /\ Occurrences("edge", name) = IF NamedKubeedge /\ Qemu THEN 1 ELSE 0
    BY <1>1, <1>3, <1>4
  <2> QED BY <1>1, <1>2, <1>4, <2>1
<1>5. CASE t = "edge"
  <2>1. /\ Occurrences("cloud", name) = 0 /\ Occurrences("endpoint", name) = 0
        /\ Occurrences("edge", name) = IF NamedKubeedge /\ Qemu THEN 2 ELSE 1
    BY <1>1, <1>3, <1>5
  <2> QED BY <1>1, <1>2, <1>5, <2>1
<1>6. CASE t = "endpoint"
  <2>1. /\ Occurrences("cloud", name) = 0 /\ Occurrences("endpoint", name) = 1
        /\ Occurrences("edge", name) = 0
    BY <1>1, <1>3, <1>6
  <2> QED BY <1>1, <1>2, <1>6, <2>1
<1> QED BY <1>1, <1>4, <1>5, <1>6

\* docker_pull pulls the images of the tier.
LEMMA ImagesOfTier ==
    ASSUME PlacementInv, NEW t \in Tiers, NEW places, NEW b \in places, BaseAt(b).name[1] = TierWord(t)
    PROVE  (IF b \in DockerBases(places) THEN ImagesFor(BaseAt(b).name) ELSE {}) =
              IF config.infra_only THEN {} ELSE Containers(t)
<1> DEFINE name == BaseAt(b).name
           kube == config.resource_manager \in {"kubernetes", "kubeedge"}
<1>1. /\ Occurrences("endpoint", name) > 0 <=> t = "endpoint"
      /\ Occurrences("cloud", name) + Occurrences("edge", name) > 0 <=> t # "endpoint"
  BY NameTells
<1>2. kube <=> ~(config.resource_manager = "mist" \/ config.resource_manager = "none")
  <2>1. config \in Configuration
    BY PlacementAssumption DEF PlacementInv, PlacementTypeOK
  <2>2. config.resource_manager \in {"kubernetes", "kubeedge", "mist", "none"}
    BY <2>1, ProvisioningAssumption DEF Configuration
  <2> QED BY <2>2
<1>3. b \in DockerBases(places) <=> ~config.infra_only /\ (kube => Occurrences("endpoint", name) > 0)
  BY DEF DockerBases, BaseAt
<1>4. ImagesFor(name) = IF t # "endpoint" THEN {"worker image"} ELSE {"endpoint image", "combined image"}
  BY <1>1 DEF ImagesFor
<1> HIDE DEF name, kube
<1>5. CASE config.infra_only
  BY <1>3, <1>5
<1>6. CASE ~config.infra_only
  <2>1. b \in DockerBases(places) <=> (kube => t = "endpoint")
    BY <1>1, <1>3, <1>6
  <2> QED BY <1>2, <1>4, <1>6, <2>1 DEF Containers, name
<1> QED BY <1>5, <1>6

\* With QEMU the playbooks for the words of the base images install on each
\* what its tier needs.
LEMMA QemuInstalled ==
    ASSUME PlacementInv, Recognised, Qemu, NEW words, NEW places, NEW b \in places, b \in Places(bases),
           IF config.infra_only THEN words \subseteq {"base"} ELSE BaseAt(b).name[1] \in words,
           NEW t \in Tiers, config.infra_only \/ BaseAt(b).name[1] = TierWord(t)
    PROVE  Installed(Entries, BasePlays(words), places)[b] = TierSoftware(t)
<1> DEFINE name == BaseAt(b).name
           a == BaseAt(b).ip
           items == {p.item : p \in {q \in BasePlays(words) : a \in Reached(Entries, q.group)}}
           images == IF b \in DockerBases(places) THEN ImagesFor(name) ELSE {}
<1>1. Installed(Entries, BasePlays(words), places)[b] = items \cup images
  BY InstalledIs
<1>2. \A p : p \in BasePlays(words) <=>
         \/ \E u \in Tiers : BaseWord[u] \in words /\ p = [group |-> BaseWord[u], item |-> u]
         \/ p = [group |-> "base", item |-> "netperf"]
  BY DEF BasePlays
<1>3. /\ a \in Reached(Entries, "base")
      /\ ~config.infra_only => \A u \in Tiers : a \in Reached(Entries, BaseWord[u]) <=> Tells(u, name)
  BY ReachedBases
<1>4. \A i : i \in items <=>
         \/ \E u \in Tiers : BaseWord[u] \in words /\ a \in Reached(Entries, BaseWord[u]) /\ i = u
         \/ i = "netperf"
  <2>1. \A i : i \in items <=> \E p \in BasePlays(words) : a \in Reached(Entries, p.group) /\ i = p.item
    OBVIOUS
  <2> HIDE DEF items, a
  <2>2. \A u : /\ [group |-> BaseWord[u], item |-> u].group = BaseWord[u]
               /\ [group |-> BaseWord[u], item |-> u].item = u
    OBVIOUS
  <2>3. [group |-> "base", item |-> "netperf"].group = "base" /\ [group |-> "base", item |-> "netperf"].item = "netperf"
    OBVIOUS
  <2>4. ASSUME NEW i \in items
        PROVE  \/ \E u \in Tiers : BaseWord[u] \in words /\ a \in Reached(Entries, BaseWord[u]) /\ i = u
               \/ i = "netperf"
    BY <1>2, <2>1, <2>2, <2>3
  <2>5. ASSUME NEW u \in Tiers, BaseWord[u] \in words, a \in Reached(Entries, BaseWord[u]) PROVE u \in items
    BY <1>2, <2>1, <2>2, <2>5
  <2>6. "netperf" \in items
    BY <1>2, <1>3, <2>1, <2>3
  <2> QED BY <2>4, <2>5, <2>6
<1> HIDE DEF items, a
<1>5. CASE config.infra_only
  <2>1. \A u \in Tiers : BaseWord[u] \notin words
    BY <1>5 DEF BaseWord, Tiers
  <2>2. items = {"netperf"}
    BY <1>4, <2>1
  <2>3. images = {}
    BY <1>5 DEF DockerBases
  <2> QED BY <1>1, <1>5, <2>2, <2>3 DEF TierSoftware
<1>6. CASE ~config.infra_only
  <2>1. /\ \A u \in Tiers : Tells(u, name) <=> u = t
        /\ BaseWord[t] \in words
    <3>1. name[1] = TierWord(t)
      BY <1>6
    <3>2. BaseWord[t] = name[1]
      BY <3>1 DEF TierWord
    <3> QED BY <1>6, <3>1, <3>2, NameTells
  <2>2. items = {t, "netperf"}
    BY <1>3, <1>4, <1>6, <2>1
  <2>3. images = Containers(t)
    BY <1>6, ImagesOfTier
  <2> HIDE DEF images, name
  <2> QED BY <1>1, <1>6, <2>2, <2>3 DEF TierSoftware
<1> QED BY <1>5, <1>6

\* With GCP the playbooks for the tiers there are do so on each VM.
LEMMA CloudInstalled ==
    ASSUME PlacementInv, Recognised, ~Qemu, NEW b \in Places(bases), b[1] = M, b[2] \in DOMAIN bases[M],
           NEW t \in Tiers, BaseAt(b).name[1] = TierWord(t)
    PROVE  Installed(Entries, VmPlays, Places(bases))[b] = TierSoftware(t)
<1> DEFINE name == BaseAt(b).name
           a == BaseAt(b).ip
           items == {p.item : p \in {q \in VmPlays : a \in Reached(Entries, q.group)}}
           images == IF b \in DockerBases(Places(bases)) THEN ImagesFor(name) ELSE {}
           There(u) == \E k \in DOMAIN bases[M] : Occurrences(u, bases[M][k].name) > 0
<1>1. Installed(Entries, VmPlays, Places(bases))[b] = items \cup images
  BY InstalledIs
<1>2. \A p : p \in VmPlays <=>
         \/ ~config.infra_only /\ \E u \in Tiers : There(u) /\ p = [group |-> BaseWord[u], item |-> u]
         \/ config.netperf /\ p = [group |-> "base", item |-> "netperf"]
  <2> HIDE DEF There
  <2>1. VmPlays = (IF config.infra_only THEN {}
                   ELSE {[group |-> BaseWord[u], item |-> u] : u \in {x \in Tiers : There(x)}})
                  \cup (IF config.netperf THEN {[group |-> "base", item |-> "netperf"]} ELSE {})
    BY DEF VmPlays, There
  <2> QED BY <2>1
<1>3. /\ a \in Reached(Entries, "base")
      /\ ~config.infra_only => \A u \in Tiers : a \in Reached(Entries, BaseWord[u]) <=> Tells(u, name)
  BY ReachedBases
<1>4. There(t)
  <2>1. Occurrences(t, name) > 0
    BY NameTells
  <2> QED BY <2>1 DEF BaseAt
<1> HIDE DEF There
<1>5. \A i : i \in items <=>
         \/ ~config.infra_only /\ \E u \in Tiers : There(u) /\ a \in Reached(Entries, BaseWord[u]) /\ i = u
         \/ config.netperf /\ i = "netperf"
  <2>1. \A i : i \in items <=> \E p \in VmPlays : a \in Reached(Entries, p.group) /\ i = p.item
    OBVIOUS
  <2> HIDE DEF items, a
  <2>2. \A u : /\ [group |-> BaseWord[u], item |-> u].group = BaseWord[u]
               /\ [group |-> BaseWord[u], item |-> u].item = u
    OBVIOUS
  <2>3. [group |-> "base", item |-> "netperf"].group = "base" /\ [group |-> "base", item |-> "netperf"].item = "netperf"
    OBVIOUS
  <2>4. ASSUME NEW i \in items
        PROVE  \/ ~config.infra_only /\ \E u \in Tiers : There(u) /\ a \in Reached(Entries, BaseWord[u]) /\ i = u
               \/ config.netperf /\ i = "netperf"
    BY <1>2, <2>1, <2>2, <2>3
  <2>5. ASSUME ~config.infra_only, NEW u \in Tiers, There(u), a \in Reached(Entries, BaseWord[u]) PROVE u \in items
    BY <1>2, <2>1, <2>2, <2>5
  <2>6. config.netperf => "netperf" \in items
    BY <1>2, <1>3, <2>1, <2>3
  <2> QED BY <2>4, <2>5, <2>6
<1>6. images = IF config.infra_only THEN {} ELSE Containers(t)
  BY ImagesOfTier
<1>7. \A u \in Tiers : Tells(u, name) <=> u = t
  BY NameTells
<1> HIDE DEF items, a, images, name
<1>8. items = (IF config.infra_only THEN {} ELSE {t}) \cup (IF config.netperf THEN {"netperf"} ELSE {})
  BY <1>3, <1>4, <1>5, <1>7
<1> QED BY <1>1, <1>6, <1>8 DEF TierSoftware

-----------------------------------------------------------------------------
(* The names in the inventory *)

\* Every machine in use has a list of VMs and one of base images.
Gathered(T) ==
    /\ Len(machines) \in Nat \ {0} /\ DOMAIN machines = 1..Len(machines)
    /\ \A i \in 1..Len(machines) :
          machines[i] \in Hosts /\ vms[machines[i]] \in Seq(T) /\ bases[machines[i]] \in Seq(T)

\* What the gathered lists have in them.
LEMMA ListsGathered ==
    ASSUME NEW T, Gathered(T)
    PROVE  /\ Listed(T)
           /\ \A x : x \in Range(AllBases) <=> \E i \in 1..Len(machines) : x \in Range(bases[machines[i]])
           /\ \A t, x : x \in Range(BasesFor(t)) <=>
                 \E i \in 1..Len(machines) : x \in Range(bases[machines[i]]) /\ Tells(t, x.name)
           /\ \A role : \A x \in Range(Ips(role)) :
                 \E i \in 1..Len(machines) : x \in Range(vms[machines[i]]) /\ x.role = role
           /\ \A x \in Range(OfRole(machines[1], "controller")) : x \in Range(vms[machines[1]])
<1> DEFINE n == Len(machines)
<1>1. /\ n \in Nat /\ 1 \in 1..n
      /\ \A i \in 1..n : vms[machines[i]] \in Seq(T) /\ bases[machines[i]] \in Seq(T)
  BY DEF Gathered
<1>2. ASSUME NEW s \in Seq(T), NEW role
      PROVE  WithRole(s, role) \in Seq(T) /\ \A x \in Range(WithRole(s, role)) : x \in Range(s) /\ x.role = role
  <2> DEFINE P == {k \in 1..Len(s) : s[k].role = role}
  <2>1. WithRole(s, role) \in Seq(T) /\ IsChosen(WithRole(s, role), s, P)
    BY WithRoleIs
  <2>2. P \in SUBSET (1..Len(s)) /\ \A k \in P : s[k].role = role /\ k \in DOMAIN s
    OBVIOUS
  <2> HIDE DEF P
  <2>3. \A y : y \in Range(WithRole(s, role)) <=> \E k \in P : y = s[k]
    BY <2>1, <2>2, ChosenRange
  <2> QED BY <2>1, <2>2, <2>3 DEF Range
<1>3. ASSUME NEW s \in Seq(T), NEW t
      PROVE  /\ Telling(s, t) \in Seq(T)
             /\ \A x : x \in Range(Telling(s, t)) <=> x \in Range(s) /\ Tells(t, x.name)
  <2> DEFINE P == {k \in 1..Len(s) : Tells(t, s[k].name)}
  <2>1. Telling(s, t) \in Seq(T) /\ IsChosen(Telling(s, t), s, P)
    BY ToldIs
  <2>2. P \in SUBSET (1..Len(s)) /\ \A k \in DOMAIN s : k \in P <=> Tells(t, s[k].name)
    OBVIOUS
  <2>3. P \subseteq DOMAIN s
    OBVIOUS
  <2> HIDE DEF P
  <2>4. \A y : y \in Range(Telling(s, t)) <=> \E k \in P : y = s[k]
    BY <2>1, <2>2, ChosenRange
  <2> QED BY <2>1, <2>2, <2>3, <2>4 DEF Range
<1>4. OfRole(machines[1], "controller") \in Seq(T)
      /\ \A x \in Range(OfRole(machines[1], "controller")) : x \in Range(vms[machines[1]])
  BY <1>1, <1>2 DEF OfRole
<1>5. ASSUME NEW role
      PROVE  /\ Ips(role) \in Seq(T)
             /\ \A x \in Range(Ips(role)) : \E i \in 1..n : x \in Range(vms[machines[i]]) /\ x.role = role
  <2> DEFINE L == [i \in 1..n |-> OfRole(machines[i], role)]
  <2>1. L \in ListsOf(T, n) /\ JoinOf(Ips(role), L, n)
    BY <1>1, IpsIs
  <2>2. \A i \in 1..n : L[i] = WithRole(vms[machines[i]], role)
    BY DEF OfRole
  <2> HIDE DEF L, n
  <2>3. Ips(role) \in Seq(T) /\ Gathers(Ips(role), L, n)
    BY <1>1, <2>1, JoinOfRange
  <2>4. \A x \in Range(Ips(role)) : \E i \in 1..n : x \in Range(L[i])
    BY <2>3 DEF Gathers
  <2> QED BY <1>1, <1>2, <2>2, <2>3, <2>4
<1>6. /\ AllBases \in Seq(T)
      /\ \A x : x \in Range(AllBases) <=> \E i \in 1..n : x \in Range(bases[machines[i]])
  <2> DEFINE L == [i \in 1..n |-> bases[machines[i]]]
  <2>1. L \in ListsOf(T, n) /\ JoinOf(AllBases, L, n)
    BY <1>1, AllBasesIs
  <2>2. \A i \in 1..n : L[i] = bases[machines[i]]
    OBVIOUS
  <2> HIDE DEF L, n
  <2>3. AllBases \in Seq(T) /\ Gathers(AllBases, L, n)
    BY <1>1, <2>1, JoinOfRange
  <2>4. \A x : x \in Range(AllBases) <=> \E i \in 1..n : x \in Range(L[i])
    BY <2>3 DEF Gathers
  <2> QED BY <2>2, <2>3, <2>4
<1>7. ASSUME NEW t
      PROVE  /\ BasesFor(t) \in Seq(T)
             /\ \A x : x \in Range(BasesFor(t)) <=>
                          \E i \in 1..n : x \in Range(bases[machines[i]]) /\ Tells(t, x.name)
  <2> DEFINE L == [i \in 1..n |-> Telling(bases[machines[i]], t)]
  <2>1. L \in ListsOf(T, n) /\ JoinOf(BasesFor(t), L, n)
    BY <1>1, BasesForIs
  <2>2. \A i \in 1..n : L[i] = Telling(bases[machines[i]], t)
    OBVIOUS
  <2> HIDE DEF L, n
  <2>3. BasesFor(t) \in Seq(T) /\ Gathers(BasesFor(t), L, n)
    BY <1>1, <2>1, JoinOfRange
  <2>4. \A x : x \in Range(BasesFor(t)) <=> \E i \in 1..n : x \in Range(L[i])
    BY <2>3 DEF Gathers
  <2>5. \A i \in 1..n : \A x : x \in Range(L[i]) <=> x \in Range(bases[machines[i]]) /\ Tells(t, x.name)
    BY <1>1, <1>3, <2>2
  <2> QED BY <2>3, <2>4, <2>5
<1> QED BY <1>4, <1>5, <1>6, <1>7 DEF Listed

\* A base image is alone with its name and its address, and its name tells a
\* tier that there is.
NamesTell ==
    /\ config.nodes \in [Tiers -> Nat]
    /\ \A m \in Hosts : (\A i \in DOMAIN machines : machines[i] # m) => bases[m] = <<>>
    /\ \A m \in Hosts : \A k \in DOMAIN bases[m] : k \in 1..Total(config.nodes)
    /\ \A b, c \in Places(bases) :
          BaseAt(b).ip = BaseAt(c).ip \/ BaseAt(b).name = BaseAt(c).name => b = c
    /\ \A i \in DOMAIN machines : \A vm \in Range(vms[machines[i]]), b \in Places(bases) :
          vm.name = BaseAt(b).name => vm.ip = BaseAt(b).ip
    /\ ~config.infra_only =>
          \A b \in Places(bases) : \E t \in Tiers : BaseAt(b).name[1] = TierWord(t) /\ config.nodes[t] > 0

\* Then the inventory tells the base images of each tier.
LEMMA RecognisedIs ==
    ASSUME NEW T, Gathered(T), NamesTell
    PROVE  Recognised
<1> DEFINE n == Len(machines)
           B == Places(bases)
<1>1. /\ Listed(T)
      /\ \A x : x \in Range(AllBases) <=> \E i \in 1..n : x \in Range(bases[machines[i]])
      /\ \A t, x : x \in Range(BasesFor(t)) <=> \E i \in 1..n : x \in Range(bases[machines[i]]) /\ Tells(t, x.name)
      /\ \A role : \A x \in Range(Ips(role)) :
            \E i \in 1..n : x \in Range(vms[machines[i]]) /\ x.role = role
      /\ \A x \in Range(OfRole(machines[1], "controller")) : x \in Range(vms[machines[1]])
  BY ListsGathered
<1>2. /\ n \in Nat /\ 1 \in 1..n /\ DOMAIN machines = 1..n /\ \A i \in 1..n : machines[i] \in Hosts
  BY DEF Gathered
<1>3. \A x : (\E i \in 1..n : x \in Range(bases[machines[i]])) <=> \E b \in B : x = BaseAt(b)
  <2>1. ASSUME NEW i \in 1..n, NEW x \in Range(bases[machines[i]]) PROVE \E b \in B : x = BaseAt(b)
    <3>1. PICK k \in DOMAIN bases[machines[i]] : x = bases[machines[i]][k]
      BY DEF Range
    <3>2. machines[i] \in Hosts /\ k \in 1..Total(config.nodes)
      BY <1>2 DEF NamesTell
    <3>3. <<machines[i], k>> \in B /\ x = BaseAt(<<machines[i], k>>)
      BY <3>1, <3>2 DEF Places, BaseAt
    <3> QED BY <3>3
  <2>2. ASSUME NEW b \in B PROVE \E i \in 1..n : BaseAt(b) \in Range(bases[machines[i]])
    <3>1. b[1] \in Hosts /\ b[2] \in DOMAIN bases[b[1]]
      BY DEF Places
    <3>2. DOMAIN <<>> = {}
      OBVIOUS
    <3>3. PICK i \in 1..n : machines[i] = b[1]
      BY <1>2, <3>1, <3>2 DEF NamesTell
    <3> QED BY <3>1, <3>3 DEF BaseAt, Range
  <2> QED BY <2>1, <2>2
<1>4. /\ Entries \in Seq(LinesFor(T))
      /\ \A l : l \in Range(Entries) <=>
            \/ WithController /\ HasLine(l, "cloudcontroller", OfRole(machines[1], "controller"))
            \/ Mode = "cloud" /\ HasLine(l, "clouds", Ips("cloud"))
            \/ Mode = "edge" /\ HasLine(l, "edges", Ips("edge"))
            \/ HasLine(l, "endpoints", Ips("endpoint"))
            \/ HasLine(l, "base", AllBases)
            \/ Benchmarked /\ Mode # "endpoint" /\ HasLine(l, "base_cloud", BasesFor("cloud"))
            \/ Benchmarked /\ Mode = "edge" /\ HasLine(l, "base_edge", BasesFor("edge"))
            \/ Benchmarked /\ HasLine(l, "base_endpoint", BasesFor("endpoint"))
  BY <1>1, EntriesAre
<1>5. \A group, x : /\ Line(group, x).group = group /\ Line(group, x).name = x.name /\ Line(group, x).ip = x.ip
  BY DEF Line
<1>6. \A l, group, list : HasLine(l, group, list) => l.group = group
  BY <1>5 DEF HasLine
<1>7. \A b, c \in B : BaseAt(b).ip = BaseAt(c).ip \/ BaseAt(b).name = BaseAt(c).name => b = c
  BY DEF NamesTell
<1> HIDE DEF B, n
<1>8. ASSUME NEW l \in Range(Entries)
      PROVE  \/ \E i \in 1..n : \E vm \in Range(vms[machines[i]]) : l.name = vm.name /\ l.ip = vm.ip
             \/ \E b \in B : l.name = BaseAt(b).name /\ l.ip = BaseAt(b).ip
  <2>1. \/ HasLine(l, "cloudcontroller", OfRole(machines[1], "controller"))
        \/ \E role : \E group : HasLine(l, group, Ips(role))
        \/ HasLine(l, "base", AllBases)
        \/ \E t : \E group : HasLine(l, group, BasesFor(t))
    BY <1>4
  <2>2. CASE HasLine(l, "cloudcontroller", OfRole(machines[1], "controller"))
    BY <1>1, <1>2, <1>5, <2>2 DEF HasLine
  <2>3. ASSUME NEW role, NEW group, HasLine(l, group, Ips(role))
        PROVE  \E i \in 1..n : \E vm \in Range(vms[machines[i]]) : l.name = vm.name /\ l.ip = vm.ip
    BY <1>1, <1>5, <2>3 DEF HasLine
  <2>4. CASE HasLine(l, "base", AllBases)
    BY <1>1, <1>3, <1>5, <2>4 DEF HasLine
  <2>5. ASSUME NEW t, NEW group, HasLine(l, group, BasesFor(t))
        PROVE  \E b \in B : l.name = BaseAt(b).name /\ l.ip = BaseAt(b).ip
    BY <1>1, <1>3, <1>5, <2>5 DEF HasLine
  <2> QED BY <2>1, <2>2, <2>3, <2>4, <2>5
<1>9. \A l \in Range(Entries), b \in B : l.name = BaseAt(b).name => l.ip = BaseAt(b).ip
  <2> SUFFICES ASSUME NEW l \in Range(Entries), NEW b \in B, l.name = BaseAt(b).name PROVE l.ip = BaseAt(b).ip
    OBVIOUS
  <2>1. ASSUME NEW i \in 1..n, NEW vm \in Range(vms[machines[i]]), l.name = vm.name, l.ip = vm.ip
        PROVE  l.ip = BaseAt(b).ip
    BY <1>2, <2>1 DEF NamesTell, B
  <2>2. ASSUME NEW c \in B, l.name = BaseAt(c).name, l.ip = BaseAt(c).ip PROVE l.ip = BaseAt(b).ip
    BY <1>7, <2>2
  <2> QED BY <1>8, <2>1, <2>2
<1>10. ASSUME NEW l PROVE l \in Range(Entries) /\ l.group = "base" <=> \E b \in B : l = Line("base", BaseAt(b))
  <2>1. l \in Range(Entries) /\ l.group = "base" <=> HasLine(l, "base", AllBases)
    BY <1>4, <1>6
  <2>2. HasLine(l, "base", AllBases) <=> \E b \in B : l = Line("base", BaseAt(b))
    BY <1>1, <1>3 DEF HasLine
  <2> QED BY <2>1, <2>2
<1>11. ASSUME ~config.infra_only, NEW t \in Tiers, NEW l
       PROVE  l \in Range(Entries) /\ l.group = BaseWord[t] <=>
                \E b \in B : Tells(t, BaseAt(b).name) /\ l = Line(BaseWord[t], BaseAt(b))
  <2> DEFINE word == BaseWord[t]
             Wanted == \/ t = "cloud" /\ Mode # "endpoint"
                       \/ t = "edge" /\ Mode = "edge"
                       \/ t = "endpoint"
  <2>1. /\ t = "cloud" => word = "base_cloud"
        /\ t = "edge" => word = "base_edge"
        /\ t = "endpoint" => word = "base_endpoint"
        /\ t \in {"cloud", "edge", "endpoint"}
    BY DEF BaseWord, Tiers
  <2> HIDE DEF word
  <2>2. l \in Range(Entries) /\ l.group = word <=> Wanted /\ HasLine(l, word, BasesFor(t))
    <3>1. Benchmarked
      BY <1>11 DEF Benchmarked
    <3>2. CASE t = "cloud"
      BY <1>4, <1>6, <2>1, <3>1, <3>2
    <3>3. CASE t = "edge"
      BY <1>4, <1>6, <2>1, <3>1, <3>3
    <3>4. CASE t = "endpoint"
      BY <1>4, <1>6, <2>1, <3>1, <3>4
    <3> QED BY <2>1, <3>2, <3>3, <3>4
  <2>3. HasLine(l, word, BasesFor(t)) <=> \E b \in B : Tells(t, BaseAt(b).name) /\ l = Line(word, BaseAt(b))
    BY <1>1, <1>3 DEF HasLine
  <2>4. ASSUME NEW b \in B, Tells(t, BaseAt(b).name) PROVE Wanted
    <3>1. PICK u \in Tiers : BaseAt(b).name[1] = TierWord(u) /\ config.nodes[u] > 0
      BY <1>11 DEF NamesTell, B
    <3>2. u = t
      BY <2>4, <3>1, NameTells
    <3> QED BY <2>1, <3>1, <3>2 DEF Mode
  <2> HIDE DEF Wanted
  <2> QED BY <2>2, <2>3, <2>4 DEF word
<1>12. \E S : Entries \in Seq(S)
  BY <1>4
<1> QED BY <1>7, <1>9, <1>10, <1>11, <1>12 DEF Recognised, B

\* With QEMU the names of the base images have a word of their tier and the
\* number of their machine.
LEMMA QemuNames ==
    ASSUME IInv, AddressInv, Qemu, pc \notin Unnamed
    PROVE  NamesTell /\ \E T : Gathered(T)
<1> DEFINE n == Len(machines)
           B == Places(bases)
<1>1. /\ PlacementInv /\ CountInv /\ MachinesInv /\ pc \notin Unplaced
      /\ \A i \in DOMAIN machines : AddressesOf(i) /\ NamesOf(i)
      /\ \A m \in Hosts : (\A i \in DOMAIN machines : machines[i] # m) => bases[m] = <<>>
  BY DEF IInv, AddressInv, NamesInv, HasNames, Unnamed
<1>2. /\ n \in Nat \ {0} /\ DOMAIN machines = 1..n /\ \A i \in 1..n : machines[i] \in Hosts
      /\ \A i, j \in 1..n : machines[i] = machines[j] => i = j
      /\ \A t \in Tiers : config.nodes[t] \in Nat
  BY <1>1, MachinesList, HostsFinite DEF PlacementInv
<1>3. ASSUME NEW i \in 1..n
      PROVE  /\ DOMAIN bases[machines[i]] = 1..BaseCounts[i] /\ BaseCounts[i] \in Nat
             /\ bases[machines[i]] = [k \in DOMAIN bases[machines[i]] |-> bases[machines[i]][k]]
             /\ vms[machines[i]] \in Seq(VmRecords)
             /\ \A k \in DOMAIN bases[machines[i]] :
                   Located(bases[machines[i]][k].ip, MiddleIPBase, SumBefore(BaseCounts, i) + (k - 1))
  <2>1. BaseCounts[i] = Len(BaseImages(i)) /\ DOMAIN BaseImages(i) = 1..Len(BaseImages(i)) /\ Len(BaseImages(i)) \in Nat
    BY <1>1, <1>2, BaseImagesAre, CountsAre
  <2>2. DOMAIN bases[machines[i]] = DOMAIN BaseImages(i)
    BY <1>1, <1>2 DEF NamesOf
  <2>3. AddressesOf(i)
    BY <1>1, <1>2
  <2> QED BY <2>1, <2>2, <2>3 DEF AddressesOf
<1>4. ASSUME NEW b \in B
      PROVE  /\ b = <<b[1], b[2]>> /\ b[1] \in Hosts
             /\ \E i \in 1..n : machines[i] = b[1] /\ b[2] \in DOMAIN bases[machines[i]] /\ BaseAt(b) = bases[machines[i]][b[2]]
  <2>1. b = <<b[1], b[2]>> /\ b[1] \in Hosts /\ b[2] \in DOMAIN bases[b[1]]
    BY <1>1, PlacesFinite
  <2>2. DOMAIN <<>> = {}
    OBVIOUS
  <2>3. PICK i \in 1..n : machines[i] = b[1]
    BY <1>1, <1>2, <2>1, <2>2
  <2> QED BY <2>1, <2>3 DEF BaseAt
<1>5. BaseCounts \in [1..n -> Nat] /\ MiddleIPBase \in Nat
  BY <1>1, CountsAre, WidthType
<1> HIDE DEF n, B
<1>6. ASSUME NEW i \in 1..n, NEW k \in DOMAIN bases[machines[i]]
      PROVE  /\ bases[machines[i]][k].name[2] = i
             /\ bases[machines[i]][k].name[1] \in {"base", "base_cloud", "base_edge", "base_endpoint"}
             /\ ~config.infra_only =>
                   \E t \in Tiers : bases[machines[i]][k].name[1] = BaseWord[t] /\ config.nodes[t] > 0
             /\ \A j \in DOMAIN bases[machines[i]] :
                   bases[machines[i]][j].name[1] = bases[machines[i]][k].name[1] => j = k
  <2> DEFINE m == machines[i]
  <2>1. i \in DOMAIN machines /\ m \in Hosts
    BY <1>2
  <2>2. CASE config.infra_only
    <3>1. DOMAIN bases[m] = {1} /\ bases[m][1].name = <<"base", i>>
      BY <2>1, <2>2, BaseNamesAre
    <3> QED BY <2>2, <3>1
  <2>3. CASE ~config.infra_only
    <3>1. /\ \E t \in Tiers : perMachine[m][t] > 0 /\ bases[m][k].name = <<BaseWord[t], i>>
          /\ \A j \in DOMAIN bases[m] : bases[m][j].name[1] = bases[m][k].name[1] => j = k
      BY <2>1, <2>3, BaseNamesAre
    <3>2. PICK t \in Tiers : perMachine[m][t] > 0 /\ bases[m][k].name = <<BaseWord[t], i>>
      BY <3>1
    <3>3. config.nodes[t] > 0
      <4>1. perMachine[m][t] \in Nat /\ config.nodes[t] \in Nat /\ perMachine[m][t] <= config.nodes[t]
        BY <1>1, <2>1, PartOfAll
      <4> HIDE DEF m
      <4> QED BY <3>2, <4>1
    <3>4. BaseWord[t] \in {"base", "base_cloud", "base_edge", "base_endpoint"}
      BY DEF BaseWord, Tiers
    <3> HIDE DEF m
    <3>5. bases[m][k].name[1] = BaseWord[t] /\ bases[m][k].name[2] = i
      BY <3>2
    <3> QED BY <3>1, <3>3, <3>4, <3>5 DEF m
  <2> QED BY <2>2, <2>3
<1>7. \A b, c \in B : BaseAt(b).name = BaseAt(c).name => b = c
  <2> SUFFICES ASSUME NEW b \in B, NEW c \in B, BaseAt(b).name = BaseAt(c).name PROVE b = c
    OBVIOUS
  <2>1. PICK i \in 1..n : machines[i] = b[1] /\ b[2] \in DOMAIN bases[machines[i]] /\ BaseAt(b) = bases[machines[i]][b[2]]
    BY <1>4
  <2>2. PICK j \in 1..n : machines[j] = c[1] /\ c[2] \in DOMAIN bases[machines[j]] /\ BaseAt(c) = bases[machines[j]][c[2]]
    BY <1>4
  <2>3. i = j
    BY <1>6, <2>1, <2>2
  <2>4. b[2] = c[2]
    BY <1>6, <2>1, <2>2, <2>3
  <2> QED BY <1>4, <2>1, <2>2, <2>3, <2>4
<1>8. \A b, c \in B : BaseAt(b).ip = BaseAt(c).ip => b = c
  <2> SUFFICES ASSUME NEW b \in B, NEW c \in B, BaseAt(b).ip = BaseAt(c).ip PROVE b = c
    OBVIOUS
  <2>1. PICK i \in 1..n : machines[i] = b[1] /\ b[2] \in DOMAIN bases[machines[i]] /\ BaseAt(b) = bases[machines[i]][b[2]]
    BY <1>4
  <2>2. PICK j \in 1..n : machines[j] = c[1] /\ c[2] \in DOMAIN bases[machines[j]] /\ BaseAt(c) = bases[machines[j]][c[2]]
    BY <1>4
  <2> DEFINE k == b[2]
             l == c[2]
  <2>3. k \in 1..BaseCounts[i] /\ l \in 1..BaseCounts[j]
    BY <1>3, <2>1, <2>2
  <2>4. /\ Located(BaseAt(b).ip, MiddleIPBase, SumBefore(BaseCounts, i) + (k - 1))
        /\ Located(BaseAt(c).ip, MiddleIPBase, SumBefore(BaseCounts, j) + (l - 1))
    BY <1>3, <2>1, <2>2
  <2> HIDE DEF k, l
  <2>5. SumBefore(BaseCounts, i) + (k - 1) = SumBefore(BaseCounts, j) + (l - 1)
    BY <2>4 DEF Located
  <2>6. n \in Nat
    BY <1>2
  <2>7. i = j /\ k = l
    BY <1>5, <2>3, <2>5, <2>6, PlacesApart, SMTT(30)
  <2> QED BY <1>4, <2>1, <2>2, <2>7 DEF k, l
<1>9. ASSUME NEW i \in DOMAIN machines, NEW vm \in Range(vms[machines[i]]), NEW b \in B PROVE vm.name # BaseAt(b).name
  <2>1. vm \in VmRecords
    <3> DEFINE s == vms[machines[i]]
    <3>1. s \in Seq(VmRecords)
      BY <1>2, <1>3
    <3>2. vm \in Range(s)
      OBVIOUS
    <3> HIDE DEF s
    <3>3. Range(s) \subseteq VmRecords
      BY <3>1, RangeConcat
    <3> QED BY <3>2, <3>3
  <2>2. vm.name[1] \in Tiers \cup {"controller", "ubuntu"}
    BY <2>1 DEF VmRecords
  <2>3. BaseAt(b).name[1] \in {"base", "base_cloud", "base_edge", "base_endpoint"}
    BY <1>4, <1>6
  <2> QED BY <2>2, <2>3 DEF Tiers
<1>10. ~config.infra_only => \A b \in B : \E t \in Tiers : BaseAt(b).name[1] = TierWord(t) /\ config.nodes[t] > 0
  BY <1>4, <1>6 DEF TierWord
<1>11. \A m \in Hosts : \A k \in DOMAIN bases[m] : k \in 1..Total(config.nodes)
  <2> SUFFICES ASSUME NEW m \in Hosts, NEW k \in DOMAIN bases[m] PROVE k \in 1..Total(config.nodes)
    OBVIOUS
  <2>1. PICK i \in DOMAIN machines : machines[i] = m
    <3>1. DOMAIN <<>> = {}
      OBVIOUS
    <3> QED BY <1>1, <3>1
  <2>2. DOMAIN bases[machines[i]] \subseteq 1..Total(config.nodes)
    BY BaseNamesAre
  <2> QED BY <2>1, <2>2
<1>12. config.nodes \in [Tiers -> Nat]
  BY <1>1, ConfigType DEF PlacementInv, PlacementTypeOK
<1>13. NamesTell
  BY <1>1, <1>7, <1>8, <1>9, <1>10, <1>11, <1>12 DEF NamesTell, B
<1>14. \E T : Gathered(T)
  <2> DEFINE S == UNION {Range(bases[machines[i]]) : i \in 1..n}
             T == VmRecords \cup S
  <2>1. ASSUME NEW i \in 1..n PROVE vms[machines[i]] \in Seq(T) /\ bases[machines[i]] \in Seq(T)
    <3> DEFINE s == bases[machines[i]]
               c == BaseCounts[i]
    <3>1. c \in Nat /\ DOMAIN s = 1..c /\ s = [k \in DOMAIN s |-> s[k]]
      BY <1>3
    <3>2. \A k \in DOMAIN s : s[k] \in T
      BY DEF Range
    <3>3. vms[machines[i]] \in Seq(VmRecords) /\ VmRecords \subseteq T
      BY <1>3
    <3> HIDE DEF T, s, c
    <3>4. s \in [1..c -> T]
      BY <3>1, <3>2
    <3>5. s \in Seq(T)
      BY <3>1, <3>4, SeqDef
    <3>6. vms[machines[i]] \in Seq(T)
      BY <3>3
    <3> QED BY <3>5, <3>6 DEF s
  <2> HIDE DEF T
  <2>2. Gathered(T)
    BY <1>2, <2>1 DEF Gathered, n
  <2> QED BY <2>2
<1> QED BY <1>13, <1>14

\* With GCP every VM is its own base image, and its name has the word of its tier.
LEMMA CloudNames ==
    ASSUME IInv, CloudInv, Cloud, config.provider # "aws", pc \in Addressed
    PROVE  /\ NamesTell /\ \E T : Gathered(T)
           /\ Places(bases) = AllVms
           /\ \A b \in Places(bases) :
                 /\ b[1] = M /\ b[2] \in DOMAIN bases[M]
                 /\ TierOf(Vm(b)) \in Tiers /\ BaseAt(b).name[1] = TierWord(TierOf(Vm(b)))
<1> DEFINE B == Places(bases)
           total == Total(config.nodes)
<1>1. /\ PlacementInv /\ CountInv /\ MachinesInv /\ pc \notin Unplaced /\ Len(machines) = 1
      /\ M \in Hosts /\ DOMAIN machines = {1}
      /\ vms[M] = CloudVms /\ \A m \in Hosts : m # M => vms[m] = <<>>
      /\ bases[M] = BasesOf(CloudVms) /\ \A m \in Hosts : m # M => bases[m] = <<>>
  BY CloudLists
<1>2. /\ DOMAIN CloudVms = 1..total
      /\ \A t \in Tiers : \A j \in 1..config.nodes[t] :
            /\ CloudVms[Before(t) + j].name = VmAt(t, j).name
            /\ CloudVms[Before(t) + j].ip = Given(External, t, j)
            /\ TierOf(CloudVms[Before(t) + j]) = t
  BY <1>1, CloudVmsAre
<1>3. CloudVms \in Seq(VmRecords)
  BY <1>1, CloudVmsType
<1>4. /\ \A t \in Tiers : config.nodes[t] \in Nat
      /\ config.nodes \in [Tiers -> Nat] /\ ~Qemu
  BY <1>1, ConfigType, HostsFinite, QemuOrCloud DEF PlacementInv, PlacementTypeOK
<1>5. /\ total \in Nat
      /\ \A k \in 1..total : \E t \in Tiers : \E j \in 1..config.nodes[t] : k = Before(t) + j
  BY <1>4, PlaceOfTier
<1>6. \A t \in Tiers : \A j \in 1..config.nodes[t] : VmAt(t, j).name = <<t, j - 1>>
  <2> SUFFICES ASSUME NEW t \in Tiers, NEW j \in 1..config.nodes[t] PROVE VmAt(t, j).name = <<t, j - 1>>
    OBVIOUS
  <2> QED BY <1>4 DEF VmAt, NewVm, CloudName
<1>7. /\ DOMAIN bases[M] = 1..total
      /\ \A k \in 1..total : bases[M][k].name = CloudVms[k].name /\ bases[M][k].ip = CloudVms[k].ip
  <2> DEFINE s == CloudVms
  <2>1. bases[M] = [k \in DOMAIN s |-> [name |-> s[k].name, ip |-> s[k].ip]] /\ DOMAIN s = 1..total
    BY <1>1, <1>2 DEF BasesOf
  <2> HIDE DEF s, total
  <2>2. bases[M] = [k \in 1..total |-> [name |-> s[k].name, ip |-> s[k].ip]]
    BY <2>1
  <2> HIDE DEF M
  <2> QED BY <2>2 DEF s
<1>8. \A b : b \in B <=> \E k \in 1..total : b = <<M, k>>
  <2>1. ASSUME NEW b \in B PROVE \E k \in 1..total : b = <<M, k>>
    <3>1. b = <<b[1], b[2]>> /\ b[1] \in Hosts /\ b[2] \in DOMAIN bases[b[1]]
      BY <1>1, PlacesFinite
    <3>2. DOMAIN <<>> = {}
      OBVIOUS
    <3>3. b[1] = M
      BY <1>1, <3>1, <3>2
    <3> QED BY <1>7, <3>1, <3>3
  <2>2. ASSUME NEW k \in 1..total PROVE <<M, k>> \in B
    BY <1>1, <1>7 DEF Places
  <2> QED BY <2>1, <2>2
<1>9. \A b : b \in AllVms <=> \E k \in 1..total : b = <<M, k>>
  <2>1. ASSUME NEW b \in AllVms PROVE \E k \in 1..total : b = <<M, k>>
    <3>1. b = <<b[1], b[2]>> /\ b[1] \in Hosts /\ b[2] \in DOMAIN vms[b[1]]
      BY <1>1, PlacesFinite DEF AllVms
    <3>2. DOMAIN <<>> = {}
      OBVIOUS
    <3>3. b[1] = M
      BY <1>1, <3>1, <3>2
    <3> QED BY <1>1, <1>2, <3>1, <3>3
  <2>2. ASSUME NEW k \in 1..total PROVE <<M, k>> \in AllVms
    BY <1>1, <1>2 DEF Places, AllVms
  <2> QED BY <2>1, <2>2
<1>10. \A k \in 1..total : BaseAt(<<M, k>>) = bases[M][k] /\ Vm(<<M, k>>) = CloudVms[k]
  BY <1>1 DEF BaseAt, Vm
<1>11. \A k \in 1..total : \E t \in Tiers : \E j \in 1..config.nodes[t] :
           /\ k = Before(t) + j /\ TierOf(CloudVms[k]) = t
           /\ CloudVms[k].name = <<t, j - 1>> /\ CloudVms[k].ip = <<External, t, j>>
  BY <1>2, <1>5, <1>6 DEF Given
<1> HIDE DEF B, total
<1>12. ASSUME NEW k \in 1..total, NEW l \in 1..total,
              CloudVms[k].name = CloudVms[l].name \/ CloudVms[k].ip = CloudVms[l].ip
       PROVE  k = l
  <2> DEFINE Is(r, t, j) == r = Before(t) + j /\ CloudVms[r].name = <<t, j - 1>> /\ CloudVms[r].ip = <<External, t, j>>
  <2>5. PICK t \in Tiers : \E j \in 1..config.nodes[t] : Is(k, t, j)
    BY <1>11
  <2>1. PICK j \in 1..config.nodes[t] : Is(k, t, j)
    BY <2>5
  <2>6. PICK u \in Tiers : \E i \in 1..config.nodes[u] : Is(l, u, i)
    BY <1>11
  <2>2. PICK i \in 1..config.nodes[u] : Is(l, u, i)
    BY <2>6
  <2>3. t = u /\ (j - 1 = i - 1 \/ j = i)
    BY <1>12, <2>1, <2>2
  <2>4. j \in Int /\ i \in Int
    BY <1>4
  <2> QED BY <2>1, <2>2, <2>3, <2>4
<1>13. \A b \in B : \E k \in 1..total : b = <<M, k>> /\ BaseAt(b).name = CloudVms[k].name /\ BaseAt(b).ip = CloudVms[k].ip
  BY <1>7, <1>8, <1>10
<1>14. \A b, c \in B : BaseAt(b).ip = BaseAt(c).ip \/ BaseAt(b).name = BaseAt(c).name => b = c
  BY <1>12, <1>13
<1>15. ASSUME NEW i \in DOMAIN machines, NEW vm \in Range(vms[machines[i]]), NEW b \in B, vm.name = BaseAt(b).name
       PROVE  vm.ip = BaseAt(b).ip
  <2>1. vms[machines[i]] = CloudVms
    BY <1>1 DEF M
  <2>2. PICK l \in 1..total : vm = CloudVms[l]
    BY <1>2, <2>1 DEF Range, total
  <2>3. PICK k \in 1..total : BaseAt(b).name = CloudVms[k].name /\ BaseAt(b).ip = CloudVms[k].ip
    BY <1>13
  <2> QED BY <1>12, <1>15, <2>2, <2>3
<1>16. ASSUME NEW b \in B
       PROVE  /\ b[1] = M /\ b[2] \in DOMAIN bases[M]
              /\ TierOf(Vm(b)) \in Tiers /\ BaseAt(b).name[1] = TierWord(TierOf(Vm(b)))
              /\ \E t \in Tiers : BaseAt(b).name[1] = TierWord(t) /\ config.nodes[t] > 0
  <2>1. PICK k \in 1..total : b = <<M, k>> /\ BaseAt(b).name = CloudVms[k].name
    BY <1>13
  <2>5. PICK t \in Tiers : \E j \in 1..config.nodes[t] : TierOf(CloudVms[k]) = t /\ CloudVms[k].name = <<t, j - 1>>
    BY <1>11
  <2>2. PICK j \in 1..config.nodes[t] : TierOf(CloudVms[k]) = t /\ CloudVms[k].name = <<t, j - 1>>
    BY <2>5
  <2>3. Vm(b) = CloudVms[k] /\ b[1] = M /\ b[2] = k
    BY <1>10, <2>1
  <2>4. BaseAt(b).name[1] = t /\ TierWord(t) = t /\ config.nodes[t] > 0
    BY <1>4, <2>1, <2>2 DEF TierWord
  <2> QED BY <1>7, <2>2, <2>3, <2>4 DEF total
<1>17. \A m \in Hosts : \A k \in DOMAIN bases[m] : k \in 1..total
  <2>1. DOMAIN <<>> = {}
    OBVIOUS
  <2> QED BY <1>1, <1>7, <2>1 DEF total
<1>18. \A m \in Hosts : (\A i \in DOMAIN machines : machines[i] # m) => bases[m] = <<>>
  BY <1>1 DEF M
<1>19. NamesTell
  BY <1>4, <1>14, <1>15, <1>16, <1>17, <1>18 DEF NamesTell, B, total
<1>20. \E T : Gathered(T)
  <2> DEFINE T == VmRecords \cup Range(bases[M])
             s == bases[M]
  <2>1. CloudVms \in Seq(T)
    <3>1. VmRecords \subseteq T
      OBVIOUS
    <3> HIDE DEF T
    <3> QED BY <1>3, <3>1
  <2>2. s \in Seq(T)
    <3>1. s = BasesOf(CloudVms) /\ DOMAIN s = 1..total /\ total \in Nat
      BY <1>1, <1>5, <1>7 DEF total
    <3>2. s = [k \in DOMAIN s |-> s[k]]
      <4> HIDE DEF s
      <4> QED BY <3>1 DEF BasesOf
    <3>3. \A k \in DOMAIN s : s[k] \in T
      BY DEF Range
    <3> HIDE DEF s, T
    <3>4. s \in [1..total -> T]
      BY <3>1, <3>2, <3>3
    <3> QED BY <3>1, <3>4, SeqDef
  <2> HIDE DEF T
  <2>3. Gathered(T)
    <3>1. DOMAIN machines = 1..1 /\ Len(machines) \in Nat \ {0}
      BY <1>1
    <3>2. machines[1] \in Hosts /\ vms[machines[1]] \in Seq(T) /\ bases[machines[1]] \in Seq(T)
      BY <1>1, <2>1, <2>2 DEF M, s
    <3> QED BY <1>1, <3>1, <3>2 DEF Gathered
  <2> QED BY <2>3
<1>21. B = AllVms
  BY <1>8, <1>9 DEF total
<1> QED BY <1>16, <1>19, <1>20, <1>21 DEF B

-----------------------------------------------------------------------------
(* The software of a VM *)

\* Once installed, a base image has the software of the tier it is named for,
\* with infra_only that of each tier; with GCP a VM has that of its own.
Installing == {"launch", "running", "shaped", "ready"}
SoftwareInv ==
    /\ Qemu /\ pc \in Installing =>
          \A b \in Places(bases), t \in Tiers :
             config.infra_only \/ BaseAt(b).name[1] = TierWord(t) => software[b] = TierSoftware(t)
    /\ Cloud /\ config.provider # "aws" /\ pc \in Installing =>
          \A v \in AllVms : software[v] = TierSoftware(TierOf(Vm(v)))

\* A step that installs nothing, after all is installed.
LEMMA SoftwareFrame ==
    ASSUME SoftwareInv, UNCHANGED <<placement, vms, bases, software>>, pc' \in Installing => pc \in Installing
    PROVE  SoftwareInv'
<1>1. config' = config /\ vms' = vms /\ bases' = bases /\ software' = software /\ Hosts' = Hosts
  BY DEF placement, Hosts
<1>2. /\ (Qemu' <=> Qemu) /\ (Cloud' <=> Cloud)
      /\ Places(bases)' = Places(bases) /\ AllVms' = AllVms
      /\ \A b : BaseAt(b)' = BaseAt(b) /\ Vm(b)' = Vm(b)
  BY <1>1 DEF Qemu, Cloud, Places, AllVms, BaseAt, Vm
<1>3. \A t : TierWord(t)' = TierWord(t) /\ TierSoftware(t)' = TierSoftware(t)
  BY <1>1, <1>2 DEF TierWord, TierSoftware, Containers
<1>4. \A v : TierOf(Vm(v))' = TierOf(Vm(v))
  BY <1>2 DEF TierOf
<1>5. Installing' = Installing
  BY DEF Installing
<1>6. /\ Qemu /\ pc \in Installing =>
            \A b \in Places(bases), t \in Tiers :
               config.infra_only \/ BaseAt(b).name[1] = TierWord(t) => software[b] = TierSoftware(t)
      /\ Cloud /\ config.provider # "aws" /\ pc \in Installing =>
            \A v \in AllVms : software[v] = TierSoftware(TierOf(Vm(v)))
  BY DEF SoftwareInv
<1>7. Qemu' /\ pc' \in Installing =>
         \A b \in Places(bases)', t \in Tiers :
            config'.infra_only \/ BaseAt(b)'.name[1] = TierWord(t)' => software'[b] = TierSoftware(t)'
  BY <1>1, <1>2, <1>3, <1>6
<1>8. Cloud' /\ config'.provider # "aws" /\ pc' \in Installing =>
         \A v \in AllVms' : software'[v] = TierSoftware(TierOf(Vm(v)))'
  <2>1. \A v : TierSoftware(TierOf(Vm(v)))' = TierSoftware(TierOf(Vm(v)))
    BY <1>1, <1>2, <1>4 DEF TierSoftware, Containers
  <2> QED BY <1>1, <1>2, <1>6, <2>1
<1> QED BY <1>5, <1>7, <1>8 DEF SoftwareInv

\* base_image starts the machines with missing images, and an image that is
\* not missing has what an earlier run installed.
LEMMA BaseImageInstalls ==
    ASSUME IInv, AddressInv, Qemu, BaseImage, pc' = "launch"
    PROVE  \A b \in Places(bases), t \in Tiers :
              config.infra_only \/ BaseAt(b).name[1] = TierWord(t) => software'[b] = TierSoftware(t)
<1> DEFINE B == Places(bases)
           all == WordsOf(B)
<1>1. pc = "base" /\ pc \notin Unnamed /\ PlacementInv
  BY DEF BaseImage, IInv, Unnamed, Unplaced
<1>2. Recognised
  BY <1>1, QemuNames, RecognisedIs
<1>3. PICK missing \in SUBSET B :
         software' = [b \in B |->
                        IF b \in Started(missing) THEN Installed(Entries, BasePlays(WordsOf(missing)), Started(missing))[b]
                        ELSE IF b \in OfWords(WordsOf(missing)) THEN {}
                        ELSE Installed(Entries, BasePlays(all), B)[b]]
  BY <1>1 DEF BaseImage
<1> DEFINE some == WordsOf(missing)
           started == Started(missing)
<1>4. started = OfWords(some)
  BY DEF Started
<1>5. ASSUME NEW b \in B PROVE config.infra_only => BaseAt(b).name[1] = "base"
  <2>1. b[1] \in Hosts /\ b[2] \in DOMAIN bases[b[1]]
    BY DEF Places
  <2>2. PICK i \in DOMAIN machines : machines[i] = b[1]
    <3>1. DOMAIN <<>> = {}
      OBVIOUS
    <3> QED BY <1>1, <2>1, <3>1 DEF AddressInv
  <2>3. config.infra_only => DOMAIN bases[machines[i]] = {1} /\ bases[machines[i]][1].name = <<"base", i>>
    BY <1>1, BaseNamesAre
  <2> QED BY <2>1, <2>2, <2>3 DEF BaseAt
<1>6. ASSUME NEW places \in SUBSET B
      PROVE  /\ \A b \in places : BaseAt(b).name[1] \in WordsOf(places)
             /\ config.infra_only => WordsOf(places) \subseteq {"base"}
  BY <1>5 DEF WordsOf, BaseAt
<1>7. \A b \in started : b \in B /\ BaseAt(b).name[1] \in some
  BY <1>4 DEF OfWords, BaseAt
<1>8. /\ config.infra_only => some \subseteq {"base"} /\ all \subseteq {"base"}
      /\ \A b \in B : BaseAt(b).name[1] \in all
  BY <1>6
<1> SUFFICES ASSUME NEW b \in B, NEW t \in Tiers, config.infra_only \/ BaseAt(b).name[1] = TierWord(t)
             PROVE  software'[b] = TierSoftware(t)
  OBVIOUS
<1> HIDE DEF some, all, started
<1>9. CASE b \in started
  <2>1. IF config.infra_only THEN some \subseteq {"base"} ELSE BaseAt(b).name[1] \in some
    BY <1>7, <1>8, <1>9
  <2>2. Installed(Entries, BasePlays(some), started)[b] = TierSoftware(t)
    BY <1>1, <1>2, <1>9, <2>1, QemuInstalled
  <2> QED BY <1>3, <1>9, <2>2 DEF some, started
<1>10. CASE b \notin started
  <2>1. IF config.infra_only THEN all \subseteq {"base"} ELSE BaseAt(b).name[1] \in all
    BY <1>8
  <2>2. Installed(Entries, BasePlays(all), B)[b] = TierSoftware(t)
    BY <1>1, <1>2, <2>1, QemuInstalled
  <2>3. b \notin OfWords(WordsOf(missing)) /\ b \notin Started(missing)
    BY <1>4, <1>10 DEF some, started
  <2> HIDE DEF B
  <2> QED BY <1>3, <2>2, <2>3
<1> QED BY <1>9, <1>10

\* base_install installs on every VM what its tier needs.
LEMMA BaseInstallInstalls ==
    ASSUME IInv, CloudInv, Cloud, config.provider # "aws", BaseInstall, pc' = "running"
    PROVE  \A v \in AllVms : software'[v] = TierSoftware(TierOf(Vm(v)))
<1>1. pc = "install" /\ software' = Installed(Entries, VmPlays, Places(bases))
  BY DEF BaseInstall
<1>2. pc \in Addressed /\ PlacementInv /\ ~Qemu
  BY <1>1, QemuOrCloud DEF Addressed, IInv
<1>3. /\ NamesTell /\ \E T : Gathered(T)
      /\ Places(bases) = AllVms
      /\ \A b \in Places(bases) :
            /\ b[1] = M /\ b[2] \in DOMAIN bases[M]
            /\ TierOf(Vm(b)) \in Tiers /\ BaseAt(b).name[1] = TierWord(TierOf(Vm(b)))
  BY <1>2, CloudNames
<1>4. Recognised
  BY <1>3, RecognisedIs
<1> SUFFICES ASSUME NEW v \in Places(bases) PROVE software'[v] = TierSoftware(TierOf(Vm(v)))
  BY <1>3
<1>5. /\ v[1] = M /\ v[2] \in DOMAIN bases[M]
      /\ TierOf(Vm(v)) \in Tiers /\ BaseAt(v).name[1] = TierWord(TierOf(Vm(v)))
  BY <1>3
<1>6. Installed(Entries, VmPlays, Places(bases))[v] = TierSoftware(TierOf(Vm(v)))
  BY <1>2, <1>4, <1>5, CloudInstalled
<1> QED BY <1>1, <1>6

\* Nothing else installs anything.
LEMMA SoftwareStep ==
    /\ IInv /\ CloudInv /\ AddressInv /\ SoftwareInv
    /\ [InfrastructureNext]_everything
    => SoftwareInv'
<1> SUFFICES ASSUME IInv, CloudInv, AddressInv, SoftwareInv, [InfrastructureNext]_everything
             PROVE  SoftwareInv'
  OBVIOUS
<1>1. PlacementInv /\ StageInv /\ config' = config /\ (Qemu <=> ~Cloud)
  BY ConfigKept, QemuOrCloud DEF IInv
<1>2. (Qemu' <=> Qemu) /\ (Cloud' <=> Cloud) /\ Installing' = Installing
  BY <1>1 DEF Qemu, Cloud, Installing
<1>3. pc' \notin Installing => SoftwareInv'
  BY <1>2 DEF SoftwareInv
<1>4. ASSUME UNCHANGED <<placement, vms, bases>>
      PROVE  /\ Places(bases)' = Places(bases) /\ AllVms' = AllVms
             /\ \A b : BaseAt(b)' = BaseAt(b) /\ Vm(b)' = Vm(b) /\ TierOf(Vm(b))' = TierOf(Vm(b))
             /\ \A t : TierWord(t)' = TierWord(t) /\ TierSoftware(t)' = TierSoftware(t)
             /\ \A v : TierSoftware(TierOf(Vm(v)))' = TierSoftware(TierOf(Vm(v)))
  <2>1. Hosts' = Hosts
    BY <1>1 DEF Hosts
  <2>2. Places(bases)' = Places(bases) /\ AllVms' = AllVms /\ \A b : BaseAt(b)' = BaseAt(b) /\ Vm(b)' = Vm(b)
    BY <1>1, <1>4, <2>1 DEF Places, AllVms, BaseAt, Vm
  <2>3. \A t : TierWord(t)' = TierWord(t) /\ TierSoftware(t)' = TierSoftware(t)
    BY <1>1, <1>2 DEF TierWord, TierSoftware, Containers
  <2>4. \A b : TierOf(Vm(b))' = TierOf(Vm(b))
    BY <2>2 DEF TierOf
  <2>5. \A v : TierSoftware(TierOf(Vm(v)))' = TierSoftware(TierOf(Vm(v)))
    <3>1. config' = config /\ (Qemu' <=> Qemu)
      BY <1>1, <1>2
    <3> QED BY <2>2, <2>4, <3>1 DEF TierSoftware, Containers
  <2> QED BY <2>2, <2>3, <2>4, <2>5
<1>5. CASE UNCHANGED everything
  <2>1. UNCHANGED <<placement, vms, bases, software, pc>>
    BY <1>5 DEF everything, allVars, vars, placement, machineObjects
  <2> QED BY <2>1, SoftwareFrame
<1>6. CASE BaseImage
  <2>1. UNCHANGED <<placement, vms, bases>> /\ pc = "base" /\ pc' \in {"launch", "failed"}
    BY <1>6 DEF BaseImage
  <2>2. Qemu
    BY <1>1, <2>1 DEF CloudInv
  <2>3. CASE pc' = "launch"
    <3>1. \A b \in Places(bases), t \in Tiers :
              config.infra_only \/ BaseAt(b).name[1] = TierWord(t) => software'[b] = TierSoftware(t)
      BY <1>6, <2>2, <2>3, BaseImageInstalls
    <3> QED BY <1>1, <1>2, <1>4, <2>1, <2>2, <3>1 DEF SoftwareInv
  <2>4. CASE pc' = "failed"
    BY <1>3, <2>4 DEF Installing
  <2> QED BY <2>1, <2>3, <2>4
<1>7. CASE BaseInstall
  <2>1. UNCHANGED <<placement, vms, bases>> /\ pc = "install" /\ pc' \in {"running", "failed"}
    BY <1>7 DEF BaseInstall
  <2>2. Cloud /\ ~Qemu
    BY <1>1, <2>1 DEF StageInv
  <2>3. CASE pc' = "running"
    <3>1. config.provider # "aws" => \A v \in AllVms : software'[v] = TierSoftware(TierOf(Vm(v)))
      BY <1>7, <2>2, <2>3, BaseInstallInstalls
    <3> QED BY <1>1, <1>2, <1>4, <2>1, <2>2, <3>1 DEF SoftwareInv
  <2>4. CASE pc' = "failed"
    BY <1>3, <2>4 DEF Installing
  <2> QED BY <2>1, <2>3, <2>4
<1>8. CASE LaunchVms
  <2>1. UNCHANGED <<placement, vms, bases, software>> /\ pc = "launch"
    BY <1>8 DEF LaunchVms
  <2> QED BY <2>1, SoftwareFrame DEF Installing
<1>9. CASE NetworkStart
  <2>1. UNCHANGED <<placement, vms, bases, software>> /\ pc = "running"
    BY <1>9 DEF NetworkStart, machineObjects
  <2> QED BY <2>1, SoftwareFrame DEF Installing
<1>10. CASE NetworkBenchmark
  <2>1. UNCHANGED <<placement, vms, bases, software>> /\ pc = "shaped"
    BY <1>10 DEF NetworkBenchmark, machineObjects
  <2> QED BY <2>1, SoftwareFrame DEF Installing
<1>11. CASE Place
  <2>1. pc' \in Unplaced \cup {"placed"}
    BY <1>11 DEF Place, Next, SkipTier, PlaceEqual, PlacePin, LeaveNode, Refuse, ScheduleDone, RemoveIdle, Unplaced
  <2> QED BY <1>3, <2>1 DEF Unplaced, Installing
<1>12. CASE SetIpNames \/ CreateInventory \/ Generate
  <2>1. pc' \in {"placed", "inventory", "generate"}
    BY <1>12 DEF SetIpNames, CreateInventory, Generate, vars
  <2> QED BY <1>3, <2>1 DEF Installing
<1>13. CASE NextStage \/ LaunchFails
  <2>1. pc' \in {"registry", "generate", "base", "aborted"}
    BY <1>13 DEF NextStage, LaunchFails
  <2> QED BY <1>3, <2>1 DEF Installing
<1>14. CASE DockerRegistry
  <2>1. pc' \in {"inventory", "apply"}
    BY <1>14 DEF DockerRegistry
  <2> QED BY <1>3, <2>1 DEF Installing
<1>15. CASE SetNames \/ Apply
  <2>1. pc' \in {"registry", "aborted", "failed", "install"}
    BY <1>15 DEF SetNames, Apply
  <2> QED BY <1>3, <2>1 DEF Installing
<1> QED BY <1>5, <1>6, <1>7, <1>8, <1>9, <1>10, <1>11, <1>12, <1>13, <1>14, <1>15
        DEF InfrastructureNext, ProvisionNext, TerraformNext

\* The base image of a VM's disk is the one for its tier.
LEMMA QemuDisk ==
    ASSUME IInv, Qemu, pc \notin Unlisted, NEW v \in AllVms
    PROVE  LET t == TierOf(Vm(v))
               disk == CHOOSE d \in disks[v[1]] : d.name = Vm(v).name
           IN t \in Tiers /\ perMachine[v[1]][t] > 0 /\ disk.base = BaseFor(v[1], t)
<1> DEFINE m == v[1]
           vm == Vm(v)
           disk == CHOOSE d \in disks[m] : d.name = vm.name
<1>1. /\ PlacementInv /\ CountInv /\ MachinesInv /\ NamesInv /\ pc \notin Unplaced /\ pc \notin Unnamed
      /\ m \in Hosts /\ v[2] \in DOMAIN vms[m]
  BY DEF IInv, Unlisted, Unnamed, Unplaced, AllVms, Places
<1>2. PICK i \in DOMAIN machines : machines[i] = m
  <2>1. DOMAIN <<>> = {}
    OBVIOUS
  <2> QED BY <1>1, <2>1, ListsAre
<1>3. vm.name[1] = vm.role /\ vm.role \in Tiers \cup {"controller"}
  <2>1. NameList(i) \in Seq(VmNames)
    BY <1>1, NameListIs
  <2>2. /\ v[2] \in DOMAIN NameList(i)
        /\ vm.role = NameList(i)[v[2]].role /\ vm.name = NameList(i)[v[2]].name
    BY <1>1, <1>2 DEF NamesInv, HasNames, NamesOf, Vm
  <2>3. NameList(i)[v[2]] \in VmNames
    BY <2>1, <2>2
  <2> HIDE DEF vm
  <2> QED BY <2>2, <2>3 DEF VmNames
<1>4. /\ {d.name : d \in disks[m]} = Named(vms[m])
      /\ \A d \in disks[m] : \E t \in Tiers : DiskFor(d, m, t)
  BY <1>1, <1>2, DisksAre
<1>5. vm.name \in Named(vms[m])
  BY <1>1 DEF Named, Vm
<1> HIDE DEF m, vm
<1>6. disk \in disks[m] /\ disk.name = vm.name
  BY <1>4, <1>5
<1> HIDE DEF disk
<1>7. PICK t \in Tiers : DiskFor(disk, m, t)
  BY <1>4, <1>6
<1>8. t = TierOf(vm)
  <2>1. vm.role = t \/ (t = "cloud" /\ vm.role = "controller")
    BY <1>3, <1>6, <1>7 DEF DiskFor
  <2>2. t # "controller"
    BY DEF Tiers
  <2> QED BY <2>1, <2>2 DEF TierOf
<1>9. TierOf(vm) \in Tiers /\ DiskFor(disk, m, TierOf(vm))
  BY <1>7, <1>8
<1>10. TierOf(vm) \in Tiers /\ perMachine[m][TierOf(vm)] > 0 /\ disk.base = BaseFor(m, TierOf(vm))
  BY <1>9 DEF DiskFor
<1> QED BY <1>10 DEF m, vm, disk

\* So a VM has the software of its tier.
LEMMA SoftwareHolds == IInv /\ CloudInv /\ SoftwareInv => SoftwareOfTier
<1> SUFFICES ASSUME IInv, CloudInv, SoftwareInv, pc \in {"running", "shaped", "ready"}, config.provider # "aws",
                    NEW v \in AllVms
             PROVE  SoftwareOf(v) = TierSoftware(TierOf(Vm(v)))
  BY DEF SoftwareOfTier, TierSoftware, Containers
<1>1. PlacementInv /\ pc \in Installing /\ pc \notin Unlisted /\ pc \notin Unnamed /\ (Qemu <=> ~Cloud)
  BY QemuOrCloud DEF IInv, Installing, Unlisted, Unnamed, Unplaced
<1>2. CASE Qemu
  <2> DEFINE m == v[1]
             t == TierOf(Vm(v))
             disk == CHOOSE d \in disks[m] : d.name = Vm(v).name
             k == CHOOSE j \in DOMAIN bases[m] : bases[m][j].name = disk.base
  <2>1. SoftwareOf(v) = software[<<m, k>>]
    BY <1>2 DEF SoftwareOf
  <2>2. t \in Tiers /\ perMachine[m][t] > 0 /\ disk.base = BaseFor(m, t)
    BY <1>1, <1>2, QemuDisk
  <2>3. m \in Hosts /\ v[2] \in DOMAIN vms[m]
    BY DEF AllVms, Places
  <2>4. PICK i \in DOMAIN machines : machines[i] = m
    <3>1. DOMAIN <<>> = {}
      OBVIOUS
    <3> QED BY <1>1, <1>2, <2>3, <3>1, ListsAre
  <2> HIDE DEF t, disk, m
  <2>5. BaseFor(m, t) \in Named(bases[m]) /\ (~config.infra_only => BaseFor(m, t)[1] = BaseWord[t])
    BY <1>1, <1>2, <2>2, <2>4, BaseForIs
  <2>6. k \in DOMAIN bases[m] /\ bases[m][k].name = BaseFor(m, t)
    BY <2>2, <2>5 DEF Named
  <2>7. DOMAIN bases[m] \subseteq 1..Total(config.nodes)
    BY <1>1, <1>2, <2>4, BaseNamesAre
  <2> HIDE DEF k
  <2>8. <<m, k>> \in Places(bases) /\ BaseAt(<<m, k>>).name = BaseFor(m, t)
    BY <2>3, <2>6, <2>7 DEF Places, BaseAt
  <2>9. config.infra_only \/ BaseAt(<<m, k>>).name[1] = TierWord(t)
    BY <1>2, <2>5, <2>8 DEF TierWord
  <2>10. software[<<m, k>>] = TierSoftware(t)
    BY <1>1, <1>2, <2>2, <2>8, <2>9 DEF SoftwareInv
  <2> QED BY <2>1, <2>10 DEF t
<1>3. CASE Cloud
  BY <1>1, <1>3 DEF SoftwareInv, SoftwareOf
<1> QED BY <1>1, <1>2, <1>3

-----------------------------------------------------------------------------
(* The VMs in the network *)

\* No two VMs share an address.
VmsApart ==
    \A v, w \in AllVms : Vm(v).ip = Vm(w).ip \/ Vm(v).internal = Vm(w).internal => v = w

\* The VMs are those in the lists of the machines, and only the first machine
\* has a controller.
VmsOfMachines ==
    /\ \A x : (\E i \in 1..Len(machines) : x \in Range(vms[machines[i]])) <=> \E v \in AllVms : x = Vm(v)
    /\ \A i \in 1..Len(machines) : i # 1 => \A x \in Range(vms[machines[i]]) : x.role # "controller"
    /\ \A v \in AllVms : Vm(v).role \in Tiers \cup {"controller"}

\* With QEMU.
LEMMA QemuVms ==
    ASSUME IInv, AddressInv, Qemu, pc \notin Unnamed
    PROVE  VmsApart /\ VmsOfMachines
<1> DEFINE n == Len(machines)
<1>1. /\ PlacementInv /\ CountInv /\ MachinesInv /\ pc \notin Unplaced
      /\ \A i \in DOMAIN machines : AddressesOf(i) /\ NamesOf(i)
      /\ \A m \in Hosts : (\A i \in DOMAIN machines : machines[i] # m) => vms[m] = <<>>
  BY DEF IInv, AddressInv, NamesInv, HasNames, Unnamed
<1>2. /\ n \in Nat \ {0} /\ DOMAIN machines = 1..n /\ \A i \in 1..n : machines[i] \in Hosts
      /\ \A i, j \in 1..n : machines[i] = machines[j] => i = j
      /\ VmCounts \in [1..n -> Nat] /\ \A i \in 1..n : VmCounts[i] = Total(perMachine[machines[i]])
  BY <1>1, MachinesList, CountsAre
<1>3. ASSUME NEW i \in 1..n
      PROVE  /\ DOMAIN vms[machines[i]] = 1..VmCounts[i] /\ VmCounts[i] \in Nat
             /\ \A k \in 1..VmCounts[i] :
                   /\ vms[machines[i]][k].internal = vms[machines[i]][k].ip
                   /\ Located(vms[machines[i]][k].ip, MiddleIP, SumBefore(VmCounts, i) + (k - 1))
                   /\ vms[machines[i]][k].role \in Tiers \cup {"controller"}
                   /\ vms[machines[i]][k].role = "controller" => i = 1
  <2>1. /\ NameList(i) \in Seq(VmNames) /\ DOMAIN NameList(i) = 1..Total(perMachine[machines[i]])
        /\ Named(NameList(i)) = (IF HasController(machines[i]) THEN {Controller.name} ELSE {})
                                \cup Numbers(i, "cloud") \cup Numbers(i, "edge") \cup Numbers(i, "endpoint")
    BY <1>1, <1>2, NameListIs
  <2>2. /\ DOMAIN vms[machines[i]] = DOMAIN NameList(i)
        /\ \A k \in DOMAIN vms[machines[i]] : vms[machines[i]][k].role = NameList(i)[k].role
    BY <1>1, <1>2 DEF NamesOf
  <2>3. \A k \in DOMAIN vms[machines[i]] :
           /\ vms[machines[i]][k].internal = vms[machines[i]][k].ip
           /\ Located(vms[machines[i]][k].ip, MiddleIP, SumBefore(VmCounts, i) + (k - 1))
    <3>1. AddressesOf(i)
      BY <1>1, <1>2
    <3> QED BY <3>1 DEF AddressesOf
  <2>4. ASSUME NEW k \in DOMAIN NameList(i)
        PROVE  /\ NameList(i)[k].role \in Tiers \cup {"controller"}
               /\ NameList(i)[k].role = "controller" => i = 1
    <3> DEFINE s == NameList(i)
               x == s[k]
    <3>1. s \in Seq(VmNames) /\ k \in DOMAIN s
      BY <2>1
    <3> HIDE DEF s
    <3>2. x \in VmNames /\ x.name \in Named(s)
      BY <3>1 DEF Named
    <3> HIDE DEF x
    <3>3. x.role \in Tiers \cup {"controller"} /\ x.name[1] = x.role
      BY <3>2 DEF VmNames
    <3>4. ASSUME x.role = "controller" PROVE HasController(machines[i])
      <4>1. \A t : \A y \in Numbers(i, t) : y[1] = t
        BY DEF Numbers
      <4>2. x.name \in Named(NameList(i)) /\ x.name[1] = "controller"
        BY <3>2, <3>3, <3>4 DEF s
      <4> QED BY <2>1, <4>1, <4>2
    <3>5. HasController(machines[i]) => i = 1
      <4>1. HasController(machines[i]) => machines[i] = machines[1]
        BY DEF HasController
      <4> QED BY <1>2, <4>1
    <3> QED BY <3>3, <3>4, <3>5 DEF x, s
  <2> QED BY <1>2, <2>1, <2>2, <2>3, <2>4
<1>4. ASSUME NEW v \in AllVms
      PROVE  /\ v = <<v[1], v[2]>>
             /\ \E i \in 1..n : machines[i] = v[1] /\ v[2] \in 1..VmCounts[i] /\ Vm(v) = vms[machines[i]][v[2]]
  <2>1. v = <<v[1], v[2]>> /\ v[1] \in Hosts /\ v[2] \in DOMAIN vms[v[1]]
    BY <1>1, PlacesFinite DEF AllVms
  <2>2. DOMAIN <<>> = {}
    OBVIOUS
  <2>3. PICK i \in 1..n : machines[i] = v[1]
    BY <1>1, <1>2, <2>1, <2>2
  <2> QED BY <1>3, <2>1, <2>3 DEF Vm
<1>5. ASSUME NEW i \in 1..n, NEW k \in 1..VmCounts[i]
      PROVE  <<machines[i], k>> \in AllVms /\ Vm(<<machines[i], k>>) = vms[machines[i]][k]
  <2>1. machines[i] \in Hosts /\ k \in DOMAIN vms[machines[i]]
    BY <1>2, <1>3
  <2>2. VmCounts[i] <= Total(config.nodes) /\ VmCounts[i] \in Nat /\ Total(config.nodes) \in Nat
    <3> DEFINE p == perMachine[machines[i]]
    <3>1. \A t \in Tiers : p[t] \in Nat /\ config.nodes[t] \in Nat /\ p[t] <= config.nodes[t]
      BY <1>1, <2>1, PartOfAll
    <3>2. VmCounts[i] = Total(p)
      BY <1>2
    <3> HIDE DEF p, n
    <3>3. /\ p["cloud"] \in Nat /\ config.nodes["cloud"] \in Nat /\ p["cloud"] <= config.nodes["cloud"]
          /\ p["edge"] \in Nat /\ config.nodes["edge"] \in Nat /\ p["edge"] <= config.nodes["edge"]
          /\ p["endpoint"] \in Nat /\ config.nodes["endpoint"] \in Nat /\ p["endpoint"] <= config.nodes["endpoint"]
      BY <3>1 DEF Tiers
    <3>4. VmCounts[i] = p["cloud"] + p["edge"] + p["endpoint"]
      BY <3>2 DEF Total
    <3>5. Total(config.nodes) = config.nodes["cloud"] + config.nodes["edge"] + config.nodes["endpoint"]
      BY DEF Total
    <3> QED BY <3>3, <3>4, <3>5
  <2>3. k \in 1..Total(config.nodes)
    BY <2>2
  <2> QED BY <2>1, <2>3 DEF AllVms, Places, Vm
<1> HIDE DEF n
<1>6. VmsApart
  <2> SUFFICES ASSUME NEW v \in AllVms, NEW w \in AllVms, Vm(v).ip = Vm(w).ip \/ Vm(v).internal = Vm(w).internal
               PROVE  v = w
    BY DEF VmsApart
  <2>1. PICK i \in 1..n : machines[i] = v[1] /\ v[2] \in 1..VmCounts[i] /\ Vm(v) = vms[machines[i]][v[2]]
    BY <1>4
  <2>2. PICK j \in 1..n : machines[j] = w[1] /\ w[2] \in 1..VmCounts[j] /\ Vm(w) = vms[machines[j]][w[2]]
    BY <1>4
  <2> DEFINE k == v[2]
             l == w[2]
  <2>3. k \in 1..VmCounts[i] /\ l \in 1..VmCounts[j]
    BY <2>1, <2>2
  <2>4. /\ Located(Vm(v).ip, MiddleIP, SumBefore(VmCounts, i) + (k - 1))
        /\ Located(Vm(w).ip, MiddleIP, SumBefore(VmCounts, j) + (l - 1))
        /\ Vm(v).ip = Vm(w).ip
    BY <1>3, <2>1, <2>2
  <2> HIDE DEF k, l
  <2>5. SumBefore(VmCounts, i) + (k - 1) = SumBefore(VmCounts, j) + (l - 1)
    BY <2>4 DEF Located
  <2>6. n \in Nat /\ VmCounts \in [1..n -> Nat]
    BY <1>2
  <2>7. i = j /\ k = l
    <3>1. \A a, b \in 1..n : \A x \in 1..VmCounts[a], y \in 1..VmCounts[b] :
             SumBefore(VmCounts, a) + (x - 1) = SumBefore(VmCounts, b) + (y - 1) => a = b /\ x = y
      BY <2>6, PlacesApart
    <3> QED BY <2>3, <2>5, <3>1
  <2> QED BY <1>4, <2>1, <2>2, <2>7 DEF k, l
<1>7. ASSUME NEW x PROVE (\E i \in 1..n : x \in Range(vms[machines[i]])) <=> \E v \in AllVms : x = Vm(v)
  <2>1. ASSUME NEW i \in 1..n, x \in Range(vms[machines[i]]) PROVE \E v \in AllVms : x = Vm(v)
    <3>1. PICK k \in 1..VmCounts[i] : x = vms[machines[i]][k]
      BY <1>3, <2>1 DEF Range
    <3> QED BY <1>5, <3>1
  <2>2. ASSUME NEW v \in AllVms, x = Vm(v) PROVE \E i \in 1..n : x \in Range(vms[machines[i]])
    <3>1. PICK i \in 1..n : v[2] \in 1..VmCounts[i] /\ Vm(v) = vms[machines[i]][v[2]]
      BY <1>4
    <3>2. v[2] \in DOMAIN vms[machines[i]]
      BY <1>3, <3>1
    <3> QED BY <2>2, <3>1, <3>2 DEF Range
  <2> QED BY <2>1, <2>2
<1>8. \A i \in 1..n : i # 1 => \A x \in Range(vms[machines[i]]) : x.role # "controller"
  BY <1>3 DEF Range
<1>9. \A v \in AllVms : Vm(v).role \in Tiers \cup {"controller"}
  BY <1>3, <1>4
<1> QED BY <1>6, <1>7, <1>8, <1>9 DEF VmsOfMachines, n

\* With GCP and AWS.
LEMMA ProviderVms ==
    ASSUME IInv, CloudInv, Cloud, pc \in Addressed
    PROVE  VmsApart /\ VmsOfMachines
<1> DEFINE total == Total(config.nodes)
<1>1. /\ PlacementInv /\ CountInv /\ MachinesInv /\ pc \notin Unplaced /\ Len(machines) = 1
      /\ M \in Hosts /\ vms[M] = CloudVms /\ \A m \in Hosts : m # M => vms[m] = <<>>
  BY CloudLists
<1>2. /\ DOMAIN CloudVms = 1..total
      /\ \A t \in Tiers : \A j \in 1..config.nodes[t] :
            /\ CloudVms[Before(t) + j].ip = Given(External, t, j)
            /\ CloudVms[Before(t) + j].internal = Given(Internal, t, j)
  BY <1>1, CloudVmsAre
<1>3. CloudVms \in Seq(VmRecords)
  BY <1>1, CloudVmsType
<1>4. \A t \in Tiers : config.nodes[t] \in Nat
  BY <1>1, HostsFinite DEF PlacementInv
<1>5. \A k \in 1..total : \E t \in Tiers : \E j \in 1..config.nodes[t] : k = Before(t) + j
  BY <1>4, PlaceOfTier
<1>6. \A v : v \in AllVms <=> \E k \in 1..total : v = <<M, k>>
  <2>1. ASSUME NEW v \in AllVms PROVE \E k \in 1..total : v = <<M, k>>
    <3>1. v = <<v[1], v[2]>> /\ v[1] \in Hosts /\ v[2] \in DOMAIN vms[v[1]]
      BY <1>1, PlacesFinite DEF AllVms
    <3>2. DOMAIN <<>> = {}
      OBVIOUS
    <3>3. v[1] = M
      BY <1>1, <3>1, <3>2
    <3> QED BY <1>1, <1>2, <3>1, <3>3
  <2>2. ASSUME NEW k \in 1..total PROVE <<M, k>> \in AllVms
    BY <1>1, <1>2 DEF Places, AllVms
  <2> QED BY <2>1, <2>2
<1>7. \A k \in 1..total : Vm(<<M, k>>) = CloudVms[k] /\ CloudVms[k] \in VmRecords
  <2> DEFINE s == CloudVms
             T == VmRecords
  <2>1. s \in Seq(T) /\ DOMAIN s = 1..total
    BY <1>2, <1>3
  <2> HIDE DEF s, total, T
  <2>2. \A k \in DOMAIN s : s[k] \in T
    <3>1. Range(s) \subseteq T
      BY <2>1, RangeConcat
    <3> QED BY <3>1 DEF Range
  <2>3. \A k : Vm(<<M, k>>) = vms[M][k]
    BY DEF Vm
  <2> QED BY <1>1, <2>1, <2>2, <2>3 DEF s, T
<1>8. \A k \in 1..total : \E t \in Tiers : \E j \in 1..config.nodes[t] :
           k = Before(t) + j /\ CloudVms[k].ip = <<External, t, j>> /\ CloudVms[k].internal = <<Internal, t, j>>
  BY <1>2, <1>5 DEF Given
<1> HIDE DEF total
<1>9. ASSUME NEW k \in 1..total, NEW l \in 1..total,
             CloudVms[k].ip = CloudVms[l].ip \/ CloudVms[k].internal = CloudVms[l].internal
      PROVE  k = l
  <2> DEFINE Is(r, t, j) == /\ r = Before(t) + j
                            /\ CloudVms[r].ip = <<External, t, j>> /\ CloudVms[r].internal = <<Internal, t, j>>
  <2>1. PICK t \in Tiers : \E j \in 1..config.nodes[t] : Is(k, t, j)
    BY <1>8
  <2>2. PICK j \in 1..config.nodes[t] : Is(k, t, j)
    BY <2>1
  <2>3. PICK u \in Tiers : \E i \in 1..config.nodes[u] : Is(l, u, i)
    BY <1>8
  <2>4. PICK i \in 1..config.nodes[u] : Is(l, u, i)
    BY <2>3
  <2> QED BY <1>9, <2>2, <2>4
<1>10. VmsApart
  BY <1>6, <1>7, <1>9 DEF VmsApart
<1>11. ASSUME NEW x PROVE (\E i \in 1..1 : x \in Range(vms[machines[i]])) <=> \E v \in AllVms : x = Vm(v)
  <2>1. (\E i \in 1..1 : x \in Range(vms[machines[i]])) <=> x \in Range(CloudVms)
    BY <1>1 DEF M
  <2>2. x \in Range(CloudVms) <=> \E k \in 1..total : x = CloudVms[k]
    BY <1>2 DEF Range, total
  <2>3. (\E k \in 1..total : x = CloudVms[k]) <=> \E v \in AllVms : x = Vm(v)
    <3>1. ASSUME NEW k \in 1..total, x = CloudVms[k] PROVE \E v \in AllVms : x = Vm(v)
      <4>1. <<M, k>> \in AllVms /\ x = Vm(<<M, k>>)
        BY <1>6, <1>7, <3>1
      <4> QED BY <4>1
    <3>2. ASSUME NEW v \in AllVms, x = Vm(v) PROVE \E k \in 1..total : x = CloudVms[k]
      BY <1>6, <1>7, <3>2
    <3> QED BY <3>1, <3>2
  <2> QED BY <2>1, <2>2, <2>3
<1>12. \A v \in AllVms : Vm(v).role \in Tiers \cup {"controller"}
  BY <1>6, <1>7 DEF VmRecords
<1> QED BY <1>1, <1>10, <1>11, <1>12 DEF VmsOfMachines

\* The lists from which the network is made.
ListOf(t) == IF t = "cloud" THEN CloudIps ELSE Ips(t)

\* gather_ssh lists the clouds in the order of gather_ips, and the list of a
\* tier has its VMs.
NetworkLists ==
    /\ CloudSsh = CloudIps
    /\ \A t \in Tiers :
          /\ ListOf(t) \in Seq(VmRecords)
          /\ \A x : x \in Range(ListOf(t)) <=> \E v \in AllVms : x = Vm(v) /\ TierOf(x) = t

\* The lists are gathered like this: a controller is on the first machine only.
LEMMA NetworkListsAre ==
    ASSUME IInv, CloudInv, AddressInv, pc \in Addressed, VmsOfMachines
    PROVE  NetworkLists
<1> DEFINE n == Len(machines)
           T == VmRecords
           A == [i \in 1..n |-> OfRole(machines[i], "controller")]
           B == [i \in 1..n |-> OfRole(machines[i], "cloud")]
           C == [i \in 1..n |-> OfRole(machines[i], "controller") \o OfRole(machines[i], "cloud")]
<1>1. n \in Nat \ {0} /\ \A i \in 1..n : vms[machines[i]] \in Seq(T)
  BY VmsListed
<1>2. n \in Nat
  BY <1>1
<1>3. /\ A \in ListsOf(T, n) /\ JoinOf(Ips("controller"), A, n)
      /\ B \in ListsOf(T, n) /\ JoinOf(Ips("cloud"), B, n)
      /\ C \in ListsOf(T, n) /\ JoinOf(CloudSsh, C, n)
  <2>1. A \in ListsOf(T, n) /\ JoinOf(Ips("controller"), A, n)
    BY <1>1, <1>2, IpsIs
  <2>2. B \in ListsOf(T, n) /\ JoinOf(Ips("cloud"), B, n)
    BY <1>1, <1>2, IpsIs
  <2>3. C \in ListsOf(T, n) /\ JoinOf(CloudSsh, C, n)
    BY <1>1, <1>2, CloudSshIs
  <2> QED BY <2>1, <2>2, <2>3
<1>4. /\ \A i \in 1..n : A[i] = WithRole(vms[machines[i]], "controller")
      /\ \A i \in 1..n : C[i] = A[i] \o B[i]
  BY DEF OfRole
<1> HIDE DEF n, T, A, B, C
<1>5. ASSUME NEW s \in Seq(T), NEW role
      PROVE  /\ WithRole(s, role) \in Seq(T)
             /\ \A x : x \in Range(WithRole(s, role)) <=> x \in Range(s) /\ x.role = role
             /\ (\A x \in Range(s) : x.role # role) => WithRole(s, role) = <<>>
  <2> DEFINE P == {k \in 1..Len(s) : s[k].role = role}
  <2>1. WithRole(s, role) \in Seq(T) /\ IsChosen(WithRole(s, role), s, P)
    BY WithRoleIs
  <2>2. P \in SUBSET (1..Len(s)) /\ \A k \in DOMAIN s : k \in P <=> s[k].role = role
    OBVIOUS
  <2>6. P \subseteq DOMAIN s
    OBVIOUS
  <2> HIDE DEF P
  <2>3. /\ \A y : y \in Range(WithRole(s, role)) <=> \E k \in P : y = s[k]
        /\ WithRole(s, role) = <<>> <=> P = {}
    BY <2>1, <2>2, ChosenRange
  <2>4. \A x : x \in Range(WithRole(s, role)) <=> x \in Range(s) /\ x.role = role
    <3>1. ASSUME NEW x, x \in Range(WithRole(s, role)) PROVE x \in Range(s) /\ x.role = role
      <4>1. PICK k \in P : x = s[k]
        BY <2>3, <3>1
      <4> QED BY <2>2, <2>6, <4>1 DEF Range
    <3>2. ASSUME NEW x, x \in Range(s), x.role = role PROVE x \in Range(WithRole(s, role))
      <4>1. PICK k \in DOMAIN s : x = s[k]
        BY <3>2 DEF Range
      <4> QED BY <2>2, <2>3, <3>2, <4>1
    <3> QED BY <3>1, <3>2
  <2>5. (\A x \in Range(s) : x.role # role) => P = {}
    BY <2>2, <2>6 DEF Range
  <2> QED BY <2>1, <2>3, <2>4, <2>5
<1>6. CloudSsh = CloudIps
  <2>1. ASSUME NEW i \in 1..n, i # 1 PROVE A[i] = <<>>
    <3>1. \A x \in Range(vms[machines[i]]) : x.role # "controller"
      BY <2>1 DEF VmsOfMachines, n
    <3> QED BY <1>1, <1>4, <1>5, <3>1
  <2>2. Prepends(C, A, B, n)
    BY <1>4, <2>1 DEF Prepends
  <2>3. PICK f : Joins(f, A, n) /\ Ips("controller") = f[n]
    BY <1>3 DEF JoinOf
  <2>4. PICK g : Joins(g, B, n) /\ Ips("cloud") = g[n]
    BY <1>3 DEF JoinOf
  <2>5. PICK h : Joins(h, C, n) /\ CloudSsh = h[n]
    BY <1>3 DEF JoinOf
  <2>6. JoinsThree(T, n, A, B, C, f, g, h)
    BY <1>1, <1>3, <2>3, <2>4, <2>5 DEF JoinsThree
  <2>7. h[n] = f[n] \o g[n]
    <3>1. JoinsBoth(h, f, g, n)
      BY <2>2, <2>6, JoinsFirst
    <3> QED BY <3>1 DEF JoinsBoth
  <2> QED BY <2>3, <2>4, <2>5, <2>7 DEF CloudIps
<1>7. ASSUME NEW role
      PROVE  /\ Ips(role) \in Seq(T)
             /\ \A x : x \in Range(Ips(role)) <=> \E v \in AllVms : x = Vm(v) /\ x.role = role
  <2> DEFINE L == [i \in 1..n |-> OfRole(machines[i], role)]
  <2>1. L \in ListsOf(T, n) /\ JoinOf(Ips(role), L, n)
    BY <1>1, <1>2, IpsIs DEF n
  <2>2. \A i \in 1..n : L[i] = WithRole(vms[machines[i]], role)
    BY DEF OfRole
  <2> HIDE DEF L
  <2>3. Ips(role) \in Seq(T) /\ Gathers(Ips(role), L, n)
    BY <1>2, <2>1, JoinOfRange
  <2>4. \A x : x \in Range(Ips(role)) <=> \E i \in 1..n : x \in Range(L[i])
    BY <2>3 DEF Gathers
  <2>5. \A i \in 1..n : \A x : x \in Range(L[i]) <=> x \in Range(vms[machines[i]]) /\ x.role = role
    BY <1>1, <1>5, <2>2
  <2>6. \A x : (\E i \in 1..n : x \in Range(vms[machines[i]])) <=> \E v \in AllVms : x = Vm(v)
    BY DEF VmsOfMachines, n
  <2> QED BY <2>3, <2>4, <2>5, <2>6
<1>8. CloudIps \in Seq(T) /\ Range(CloudIps) = Range(Ips("controller")) \cup Range(Ips("cloud"))
  BY <1>7, RangeConcat DEF CloudIps
<1>9. ASSUME NEW t \in Tiers
      PROVE  /\ ListOf(t) \in Seq(T)
             /\ \A x : x \in Range(ListOf(t)) <=> \E v \in AllVms : x = Vm(v) /\ TierOf(x) = t
  <2>1. CASE t = "cloud"
    <3>1. ListOf(t) = CloudIps
      BY <2>1 DEF ListOf
    <3>2. \A x : TierOf(x) = t <=> x.role = "controller" \/ x.role = "cloud"
      BY <2>1 DEF TierOf
    <3>3. \A x : x \in Range(CloudIps) <=> \E v \in AllVms : x = Vm(v) /\ (x.role = "controller" \/ x.role = "cloud")
      BY <1>7, <1>8
    <3> QED BY <1>8, <3>1, <3>2, <3>3
  <2>2. CASE t # "cloud"
    <3>1. ListOf(t) = Ips(t)
      BY <2>2 DEF ListOf
    <3>2. \A x : TierOf(x) = t <=> x.role = t
      BY <2>2 DEF TierOf, Tiers
    <3> QED BY <1>7, <3>1, <3>2
  <2> QED BY <2>1, <2>2
<1> QED BY <1>6, <1>9 DEF NetworkLists, T

-----------------------------------------------------------------------------
(* What the network is made of *)

\* What is known of the VMs and of their lists.
NetworkKnown ==
    /\ VmsApart /\ NetworkLists
    /\ \A v \in AllVms : TierOf(Vm(v)) \in Tiers

\* The addresses of the VMs of a tier, but of that VM.
Towards(v, u) == {Vm(w).internal : w \in {x \in AllVms : TierOf(Vm(x)) = u} \ {v}}

\* They are what a target of the VM lists.
LEMMA TowardsAre ==
    ASSUME NetworkKnown, NEW v \in AllVms, NEW u \in Tiers
    PROVE  /\ TierOf(Vm(v)) # u => InternalOf(ListOf(u)) = Towards(v, u)
           /\ TierOf(Vm(v)) = u => Others(ListOf(u), Vm(v)) = Towards(v, u)
<1>1. \A a : a \in InternalOf(ListOf(u)) <=> \E w \in AllVms : TierOf(Vm(w)) = u /\ a = Vm(w).internal
  <2>1. \A x : x \in Range(ListOf(u)) <=> \E w \in AllVms : x = Vm(w) /\ TierOf(x) = u
    BY DEF NetworkKnown, NetworkLists
  <2>2. \A a : a \in InternalOf(ListOf(u)) <=> \E x \in Range(ListOf(u)) : a = x.internal
    BY DEF InternalOf, Range
  <2> QED BY <2>1, <2>2
<1>2. \A w \in AllVms : Vm(w).internal = Vm(v).internal => w = v
  BY DEF NetworkKnown, VmsApart
<1>3. \A a : a \in Towards(v, u) <=> \E w \in AllVms : TierOf(Vm(w)) = u /\ w # v /\ a = Vm(w).internal
  BY DEF Towards
<1>4. CASE TierOf(Vm(v)) # u
  BY <1>1, <1>3, <1>4
<1>5. CASE TierOf(Vm(v)) = u
  <2>1. \A a : a \in Others(ListOf(u), Vm(v)) <=> a \in InternalOf(ListOf(u)) /\ a # Vm(v).internal
    BY DEF Others
  <2> QED BY <1>1, <1>2, <1>3, <1>5, <2>1
<1> QED BY <1>4, <1>5

\* The target of a VM for a tier, and the tiers of its targets.
To(v, u) == [values |-> Values(TierOf(Vm(v)), u), addresses |-> Towards(v, u)]
TargetTiers(v) == {u \in Tiers : ~(TierOf(Vm(v)) = "endpoint" /\ u = "endpoint")}

\* A VM has one target for each of these tiers.
TargetsOf(v, s) ==
    /\ \A k \in DOMAIN s : \E u \in TargetTiers(v) : s[k] = To(v, u)
    /\ \A u \in TargetTiers(v) : \E k \in DOMAIN s : s[k] = To(v, u)
    /\ \A k, l \in DOMAIN s : s[k].values = s[l].values => k = l

LEMMA TargetsAre ==
    ASSUME NetworkKnown, NEW v \in AllVms
    PROVE  TargetsOf(v, Targets(Vm(v)))
<1> DEFINE vm == Vm(v)
           t == TierOf(vm)
           s == Targets(vm)
<1>1. t \in Tiers
  BY DEF NetworkKnown
<1>2. /\ ListOf("cloud") = CloudIps /\ ListOf("edge") = Ips("edge") /\ ListOf("endpoint") = Ips("endpoint")
      /\ {"cloud", "edge", "endpoint"} \subseteq Tiers
  BY DEF ListOf, Tiers
<1>3. /\ \A u \in Tiers : t # u => InternalOf(ListOf(u)) = Towards(v, u)
      /\ \A u \in Tiers : t = u => Others(ListOf(u), vm) = Towards(v, u)
  BY TowardsAre
<1>4. \A u, w \in Tiers : To(v, u).values = To(v, w).values => u = w
  BY <1>1 DEF To, Values
<1>5. \A u : To(v, u) = [values |-> Values(t, u), addresses |-> Towards(v, u)]
  BY DEF To
<1>6. \A a, b, c \in Tiers : a # b /\ b # c /\ a # c /\ TargetTiers(v) = {a, b, c} => TargetsOf(v, <<To(v, a), To(v, b), To(v, c)>>)
  <2> SUFFICES ASSUME NEW a \in Tiers, NEW b \in Tiers, NEW c \in Tiers, a # b, b # c, a # c, TargetTiers(v) = {a, b, c}
               PROVE  TargetsOf(v, <<To(v, a), To(v, b), To(v, c)>>)
    OBVIOUS
  <2> DEFINE r == <<To(v, a), To(v, b), To(v, c)>>
  <2>1. DOMAIN r = {1, 2, 3} /\ r[1] = To(v, a) /\ r[2] = To(v, b) /\ r[3] = To(v, c)
    OBVIOUS
  <2> HIDE DEF r
  <2>2. TargetsOf(v, r)
    BY <1>4, <2>1 DEF TargetsOf
  <2> QED BY <2>2 DEF r
<1>7. \A a, b \in Tiers : a # b /\ TargetTiers(v) = {a, b} => TargetsOf(v, <<To(v, a), To(v, b)>>)
  <2> SUFFICES ASSUME NEW a \in Tiers, NEW b \in Tiers, a # b, TargetTiers(v) = {a, b}
               PROVE  TargetsOf(v, <<To(v, a), To(v, b)>>)
    OBVIOUS
  <2> DEFINE r == <<To(v, a), To(v, b)>>
  <2>1. DOMAIN r = {1, 2} /\ r[1] = To(v, a) /\ r[2] = To(v, b)
    OBVIOUS
  <2> HIDE DEF r
  <2>2. TargetsOf(v, r)
    BY <1>4, <2>1 DEF TargetsOf
  <2> QED BY <2>2 DEF r
<1>8. CASE t = "cloud"
  <2>1. s = <<To(v, "cloud"), To(v, "edge"), To(v, "endpoint")>>
    BY <1>2, <1>3, <1>5, <1>8 DEF Targets
  <2>2. TargetTiers(v) = {"cloud", "edge", "endpoint"}
    BY <1>8 DEF TargetTiers, Tiers
  <2> QED BY <1>2, <1>6, <2>1, <2>2
<1>9. CASE t = "edge"
  <2>1. s = <<To(v, "edge"), To(v, "cloud"), To(v, "endpoint")>>
    BY <1>2, <1>3, <1>5, <1>9 DEF Targets
  <2>2. TargetTiers(v) = {"edge", "cloud", "endpoint"}
    BY <1>9 DEF TargetTiers, Tiers
  <2> QED BY <1>2, <1>6, <2>1, <2>2
<1>10. CASE t = "endpoint"
  <2>1. s = <<To(v, "cloud"), To(v, "edge")>>
    BY <1>2, <1>3, <1>5, <1>10 DEF Targets
  <2>2. TargetTiers(v) = {"cloud", "edge"}
    BY <1>10 DEF TargetTiers, Tiers
  <2> QED BY <1>2, <1>7, <2>1, <2>2
<1> QED BY <1>1, <1>8, <1>9, <1>10 DEF Tiers

\* The VMs of which a VM is kept apart.
Peers(v) ==
    {w \in AllVms : w # v /\ ~(TierOf(Vm(v)) = "endpoint" /\ TierOf(Vm(w)) = "endpoint")}

\* The class f of v is for its peer w.
IsClass(f, v, w) ==
    f.to = Vm(w).internal /\ f.values = Values(TierOf(Vm(v)), TierOf(Vm(w)))

\* A VM has one class for each of its peers, and one number for each tier.
ClassesOf(v, classes) ==
    /\ \A f \in classes : f = [disk |-> f.disk, values |-> f.values, to |-> f.to]
    /\ \A f \in classes : \E w \in Peers(v) : IsClass(f, v, w)
    /\ \A w \in Peers(v) : \E f \in classes : IsClass(f, v, w)
    /\ \A f, g \in classes : (f.disk = g.disk) <=> (f.values = g.values)

LEMMA ClassesAre ==
    ASSUME NetworkKnown, NEW v \in AllVms
    PROVE  ClassesOf(v, Classes(Vm(v)))
<1> DEFINE vm == Vm(v)
           s == Targets(vm)
           r == ChosenTargets(vm)
           T == {s[k] : k \in DOMAIN s}
           P == {k \in 1..Len(s) : s[k].addresses # {}}
           classes(k) == [disk : {k}, values : {r[k].values}, to : r[k].addresses]
<1>1. Classes(vm) = UNION {classes(k) : k \in DOMAIN r}
  BY DEF Classes, ChosenTargets
<1>2. TargetsOf(v, s)
  BY TargetsAre
<1>3. s \in Seq(T) /\ r \in Seq(T) /\ IsChosen(r, s, P)
  BY TargetsListed, ChosenTargetsAre DEF NetworkKnown
<1>4. \A f : f \in Classes(vm) <=> \E k \in DOMAIN r : f \in classes(k)
  BY <1>1
<1> HIDE DEF s, r, T
<1>5. DOMAIN r = 1..Len(r) /\ DOMAIN s = 1..Len(s)
  BY <1>3, LenProperties
<1>6. PICK place \in [1..Len(r) -> P] :
         /\ \A j \in 1..Len(r) : r[j] = s[place[j]]
         /\ \A j, k \in 1..Len(r) : j < k => place[j] < place[k]
         /\ \A p \in P : \E j \in 1..Len(r) : place[j] = p
  BY <1>3 DEF IsChosen
<1>7. \A k \in P : k \in DOMAIN s /\ s[k].addresses # {}
  BY <1>5
<1>8. \A j, k \in DOMAIN r : place[j] = place[k] => j = k
  <2>1. \A j \in DOMAIN r : place[j] \in Nat
    BY <1>5
  <2> QED BY <1>5, <1>6, <2>1
<1>9. \A k \in DOMAIN s : s[k].addresses # {} => k \in P
  BY <1>5
<1> HIDE DEF P
<1>10. \A k \in DOMAIN r : place[k] \in DOMAIN s /\ r[k] = s[place[k]]
  BY <1>5, <1>6, <1>7
<1>11. \A k \in DOMAIN r : \E u \in TargetTiers(v) : r[k] = To(v, u)
  BY <1>2, <1>10 DEF TargetsOf
<1>12. \A u \in TargetTiers(v) : Towards(v, u) # {} => \E k \in DOMAIN r : r[k] = To(v, u)
  <2> SUFFICES ASSUME NEW u \in TargetTiers(v), Towards(v, u) # {} PROVE \E k \in DOMAIN r : r[k] = To(v, u)
    OBVIOUS
  <2>1. PICK k \in DOMAIN s : s[k] = To(v, u)
    BY <1>2 DEF TargetsOf
  <2>2. k \in P
    BY <1>9, <2>1 DEF To
  <2> QED BY <1>5, <1>6, <2>1, <2>2
<1>13. \A j, k \in DOMAIN r : r[j].values = r[k].values => j = k
  BY <1>2, <1>8, <1>10 DEF TargetsOf
<1>14. \A k \in DOMAIN r : \A f \in classes(k) :
          /\ f = [disk |-> f.disk, values |-> f.values, to |-> f.to]
          /\ f.disk = k /\ f.values = r[k].values /\ f.to \in r[k].addresses
  OBVIOUS
<1>15. \A k \in DOMAIN r : \A a \in r[k].addresses : [disk |-> k, values |-> r[k].values, to |-> a] \in classes(k)
  OBVIOUS
<1> HIDE DEF classes, vm
<1>16. \A f, g \in Classes(vm) : (f.disk = g.disk) <=> (f.values = g.values)
  BY <1>4, <1>13, <1>14
<1>17. \A f \in Classes(vm) : f = [disk |-> f.disk, values |-> f.values, to |-> f.to]
  BY <1>4, <1>14
<1>18. ASSUME NEW f \in Classes(vm) PROVE \E w \in Peers(v) : IsClass(f, v, w)
  <2>1. PICK k \in DOMAIN r : f.values = r[k].values /\ f.to \in r[k].addresses
    BY <1>4, <1>14
  <2>2. PICK u \in TargetTiers(v) : r[k] = To(v, u)
    BY <1>11
  <2>3. f.values = Values(TierOf(Vm(v)), u) /\ f.to \in Towards(v, u)
    BY <2>1, <2>2 DEF To
  <2>4. PICK w \in AllVms : TierOf(Vm(w)) = u /\ w # v /\ f.to = Vm(w).internal
    BY <2>3 DEF Towards
  <2>5. w \in Peers(v)
    BY <2>4 DEF Peers, TargetTiers
  <2> QED BY <2>3, <2>4, <2>5 DEF IsClass
<1>19. ASSUME NEW w \in Peers(v) PROVE \E f \in Classes(vm) : IsClass(f, v, w)
  <2> DEFINE u == TierOf(Vm(w))
             a == Vm(w).internal
  <2>1. w \in AllVms /\ w # v /\ u \in Tiers /\ u \in TargetTiers(v)
    BY DEF NetworkKnown, Peers, TargetTiers
  <2>2. a \in Towards(v, u)
    BY <2>1 DEF Towards
  <2>3. PICK k \in DOMAIN r : r[k] = To(v, u)
    BY <1>12, <2>1, <2>2
  <2>4. r[k].values = Values(TierOf(Vm(v)), u) /\ a \in r[k].addresses
    BY <2>2, <2>3 DEF To
  <2> DEFINE f == [disk |-> k, values |-> r[k].values, to |-> a]
  <2>5. f \in Classes(vm) /\ f.values = r[k].values /\ f.to = a
    BY <1>4, <1>15, <2>4
  <2> HIDE DEF f
  <2> QED BY <2>4, <2>5 DEF IsClass
<1> QED BY <1>16, <1>17, <1>18, <1>19 DEF ClassesOf, vm

\* The pairs of VMs that are kept apart, and their addresses.
Linked ==
    {l \in AllVms \X AllVms :
       /\ l[1] # l[2]
       /\ ~(TierOf(Vm(l[1])) = "endpoint" /\ TierOf(Vm(l[2])) = "endpoint")}
Ends == {<<Vm(l[1]).ip, Vm(l[2]).internal>> : l \in Linked}

\* There is one filter for each of them.
Shaped(F) ==
    /\ {<<f.at, f.to>> : f \in F} = Ends
    /\ Cardinality(F) = Cardinality(Ends)
    /\ \A l \in Linked : \E f \in F :
         /\ f.at = Vm(l[1]).ip /\ f.to = Vm(l[2]).internal
         /\ f.values = Values(TierOf(Vm(l[1])), TierOf(Vm(l[2])))
    /\ \A f, g \in F : f.at = g.at => ((f.disk = g.disk) <=> (f.values = g.values))

\* A pair is a VM and one of its peers.
LEMMA LinkedAre ==
    /\ \A l \in Linked : l = <<l[1], l[2]>> /\ l[1] \in AllVms /\ l[2] \in Peers(l[1])
    /\ \A v \in AllVms : \A w \in Peers(v) : <<v, w>> \in Linked
    /\ \A e : e \in Ends <=> \E v \in AllVms : \E w \in Peers(v) : e = <<Vm(v).ip, Vm(w).internal>>
<1>1. \A l \in Linked : l = <<l[1], l[2]>> /\ l[1] \in AllVms /\ l[2] \in Peers(l[1])
  BY DEF Linked, Peers
<1>2. \A v \in AllVms : \A w \in Peers(v) : <<v, w>> \in Linked
  BY DEF Linked, Peers
<1>3. \A v, w : <<v, w>>[1] = v /\ <<v, w>>[2] = w
  OBVIOUS
<1>4. \A e : e \in Ends <=> \E l \in Linked : e = <<Vm(l[1]).ip, Vm(l[2]).internal>>
  BY DEF Ends
<1>5. ASSUME NEW e, NEW v \in AllVms, NEW w \in Peers(v), e = <<Vm(v).ip, Vm(w).internal>> PROVE e \in Ends
  BY <1>2, <1>3, <1>4, <1>5
<1> QED BY <1>1, <1>2, <1>4, <1>5

\* The filter of a class in the VM at a.
Filter(a, f) == [at |-> a, disk |-> f.disk, values |-> f.values, to |-> f.to]

\* The filters are those of the classes of each VM.
FiltersOf(F) == \A x : x \in F <=> \E v \in AllVms : \E f \in Classes(Vm(v)) : x = Filter(Vm(v).ip, f)

LEMMA ShapedBy ==
    ASSUME PlacementInv, NetworkKnown, NEW F, FiltersOf(F)
    PROVE  Shaped(F)
<1>1. \A a, f : /\ Filter(a, f).at = a /\ Filter(a, f).disk = f.disk
                /\ Filter(a, f).values = f.values /\ Filter(a, f).to = f.to
  BY DEF Filter
<1>2. \A v \in AllVms : ClassesOf(v, Classes(Vm(v)))
  BY ClassesAre
<1>3. \A v, w \in AllVms : Vm(v).ip = Vm(w).ip \/ Vm(v).internal = Vm(w).internal => v = w
  BY DEF NetworkKnown, VmsApart
<1>4. \A x \in F : \E v \in AllVms : \E f \in Classes(Vm(v)) : x = Filter(Vm(v).ip, f)
  BY DEF FiltersOf
<1>5. \A v \in AllVms : \A f \in Classes(Vm(v)) : Filter(Vm(v).ip, f) \in F
  BY DEF FiltersOf
<1>6. ASSUME NEW x \in F PROVE \E v \in AllVms : \E w \in Peers(v) : x.at = Vm(v).ip /\ IsClass(x, v, w)
  <2>1. PICK v \in AllVms : \E f \in Classes(Vm(v)) : x = Filter(Vm(v).ip, f)
    BY <1>4
  <2>2. PICK f \in Classes(Vm(v)) : x = Filter(Vm(v).ip, f)
    BY <2>1
  <2>3. PICK w \in Peers(v) : IsClass(f, v, w)
    BY <1>2 DEF ClassesOf
  <2> QED BY <1>1, <2>2, <2>3 DEF IsClass
<1>7. ASSUME NEW v \in AllVms, NEW w \in Peers(v) PROVE \E x \in F : x.at = Vm(v).ip /\ IsClass(x, v, w)
  <2>1. PICK f \in Classes(Vm(v)) : IsClass(f, v, w)
    BY <1>2 DEF ClassesOf
  <2>2. Filter(Vm(v).ip, f) \in F
    BY <1>5
  <2> QED BY <1>1, <2>1, <2>2 DEF IsClass
<1>8. ASSUME NEW x \in F, NEW y \in F, x.at = y.at
      PROVE  /\ (x.disk = y.disk) <=> (x.values = y.values)
             /\ x.to = y.to => x = y
  <2>1. PICK v \in AllVms : \E f \in Classes(Vm(v)) : x = Filter(Vm(v).ip, f)
    BY <1>4
  <2>2. PICK f \in Classes(Vm(v)) : x = Filter(Vm(v).ip, f)
    BY <2>1
  <2>3. PICK w \in AllVms : \E g \in Classes(Vm(w)) : y = Filter(Vm(w).ip, g)
    BY <1>4
  <2>4. PICK g \in Classes(Vm(w)) : y = Filter(Vm(w).ip, g)
    BY <2>3
  <2>5. v = w
    BY <1>1, <1>3, <1>8, <2>2, <2>4
  <2>6. (x.disk = y.disk) <=> (x.values = y.values)
    <3>1. (f.disk = g.disk) <=> (f.values = g.values)
      BY <1>2, <2>5 DEF ClassesOf
    <3> QED BY <1>1, <2>2, <2>4, <3>1
  <2>7. ASSUME x.to = y.to PROVE x = y
    <3>1. PICK p \in Peers(v) : IsClass(f, v, p)
      BY <1>2 DEF ClassesOf
    <3>2. PICK q \in Peers(v) : IsClass(g, v, q)
      BY <1>2, <2>5 DEF ClassesOf
    <3>3. f.to = g.to
      BY <1>1, <2>2, <2>4, <2>7
    <3>4. p = q
      BY <1>3, <3>1, <3>2, <3>3 DEF IsClass, Peers
    <3>5. f.values = g.values
      BY <3>1, <3>2, <3>4 DEF IsClass
    <3>6. f.disk = g.disk
      BY <1>2, <2>5, <3>5 DEF ClassesOf
    <3> QED BY <2>2, <2>4, <2>5, <3>3, <3>5, <3>6 DEF Filter
  <2> QED BY <2>6, <2>7
<1>9. ASSUME NEW x \in F PROVE <<x.at, x.to>> \in Ends
  BY <1>6, LinkedAre DEF IsClass
<1>10. ASSUME NEW e \in Ends PROVE \E x \in F : <<x.at, x.to>> = e
  <2>1. PICK v \in AllVms : \E w \in Peers(v) : e = <<Vm(v).ip, Vm(w).internal>>
    BY LinkedAre
  <2>2. PICK w \in Peers(v) : e = <<Vm(v).ip, Vm(w).internal>>
    BY <2>1
  <2>3. PICK x \in F : x.at = Vm(v).ip /\ x.to = Vm(w).internal
    BY <1>7 DEF IsClass
  <2> QED BY <2>2, <2>3
<1>11. {<<f.at, f.to>> : f \in F} = Ends
  BY <1>9, <1>10
<1>12. IsFiniteSet(Ends)
  <2>1. IsFiniteSet(AllVms)
    BY PlacesFinite DEF AllVms
  <2>2. IsFiniteSet(AllVms \X AllVms)
    BY <2>1, FS_Product
  <2>3. IsFiniteSet(Linked)
    BY <2>2, FS_Subset DEF Linked
  <2> DEFINE ends(l) == <<Vm(l[1]).ip, Vm(l[2]).internal>>
             f == [l \in Linked |-> ends(l)]
  <2>4. Ends = {ends(l) : l \in Linked}
    BY DEF Ends
  <2> HIDE DEF ends
  <2>5. f \in Surjection(Linked, Ends)
    BY <2>4 DEF Surjection
  <2> QED BY <2>3, <2>5, FS_Surjection
<1>13. Cardinality(F) = Cardinality(Ends)
  <2> DEFINE filterFor(e) == CHOOSE x \in F : <<x.at, x.to>> = e
             f == [e \in Ends |-> filterFor(e)]
  <2>1. \A e \in Ends : filterFor(e) \in F /\ <<filterFor(e).at, filterFor(e).to>> = e
    BY <1>10
  <2> HIDE DEF filterFor
  <2>2. f \in [Ends -> F] /\ \A e \in Ends : f[e] = filterFor(e)
    BY <2>1
  <2> HIDE DEF f
  <2>3. \A d, e \in Ends : f[d] = f[e] => d = e
    BY <2>1, <2>2
  <2>4. ASSUME NEW x \in F PROVE \E e \in Ends : f[e] = x
    <3> DEFINE e == <<x.at, x.to>>
    <3>1. e \in Ends
      BY <1>9
    <3>2. \A a, b, c, d : <<a, b>> = <<c, d>> => a = c /\ b = d
      OBVIOUS
    <3>3. filterFor(e).at = x.at /\ filterFor(e).to = x.to
      BY <2>1, <3>1, <3>2
    <3> HIDE DEF e
    <3>4. filterFor(e) = x
      BY <1>8, <2>1, <3>1, <3>3
    <3> QED BY <2>2, <3>1, <3>4
  <2> QED BY <1>12, <2>2, <2>3, <2>4, ImageSize
<1>14. \A l \in Linked : \E f \in F :
         /\ f.at = Vm(l[1]).ip /\ f.to = Vm(l[2]).internal
         /\ f.values = Values(TierOf(Vm(l[1])), TierOf(Vm(l[2])))
  BY <1>7, LinkedAre DEF IsClass
<1> QED BY <1>8, <1>11, <1>13, <1>14 DEF Shaped

-----------------------------------------------------------------------------
(* The network is shaped and measured *)

\* All this is known as soon as the VMs have addresses.
LEMMA NetworkKnownIs ==
    ASSUME IInv, CloudInv, AddressInv, pc \in Addressed
    PROVE  NetworkKnown
<1>1. VmsApart /\ VmsOfMachines
  <2>1. pc \notin Unnamed /\ (Qemu <=> ~Cloud)
    BY QemuOrCloud DEF IInv, Addressed, Unnamed, Unplaced
  <2>2. CASE Qemu
    BY <2>1, <2>2, QemuVms
  <2>3. CASE Cloud
    BY <2>3, ProviderVms
  <2> QED BY <2>1, <2>2, <2>3
<1>2. NetworkLists
  BY <1>1, NetworkListsAre
<1>3. \A v \in AllVms : TierOf(Vm(v)) \in Tiers
  BY <1>1 DEF VmsOfMachines, TierOf, Tiers
<1> QED BY <1>1, <1>2, <1>3 DEF NetworkKnown

\* The commands of network.start are run on the VMs they are made for.
LEMMA NetworkStartShapes ==
    ASSUME IInv, CloudInv, AddressInv, NetworkStart, config.network_emulation
    PROVE  Shaped(filters')
<1> DEFINE ips == CloudIps \o Ips("edge") \o Ips("endpoint")
           ssh == CloudSsh \o Ips("edge") \o Ips("endpoint")
           runs == {<<ssh[k].ip, ips[k]>> : k \in DOMAIN ips}
           filter(r, f) == [at |-> r[1], disk |-> f.disk, values |-> f.values, to |-> f.to]
<1>1. pc \in Addressed /\ PlacementInv /\ filters' = UNION {{filter(r, f) : f \in Classes(r[2])} : r \in runs}
  BY DEF NetworkStart, Addressed, IInv
<1>2. NetworkKnown
  BY <1>1, NetworkKnownIs
<1>3. /\ {"cloud", "edge", "endpoint"} = Tiers
      /\ ListOf("cloud") = CloudIps /\ ListOf("edge") = Ips("edge") /\ ListOf("endpoint") = Ips("endpoint")
      /\ \A t \in Tiers : ListOf(t) \in Seq(VmRecords)
      /\ \A t \in Tiers : \A x : x \in Range(ListOf(t)) <=> \E v \in AllVms : x = Vm(v) /\ TierOf(x) = t
  BY <1>2 DEF NetworkKnown, NetworkLists, ListOf, Tiers
<1>4. ssh = ips
  BY <1>2 DEF NetworkKnown, NetworkLists
<1>5. Range(ips) = Range(CloudIps) \cup Range(Ips("edge")) \cup Range(Ips("endpoint"))
  <2>1. CloudIps \in Seq(VmRecords) /\ Ips("edge") \in Seq(VmRecords) /\ Ips("endpoint") \in Seq(VmRecords)
    BY <1>3
  <2>2. /\ CloudIps \o Ips("edge") \in Seq(VmRecords)
        /\ Range(CloudIps \o Ips("edge")) = Range(CloudIps) \cup Range(Ips("edge"))
    BY <2>1, RangeConcat
  <2> DEFINE s == CloudIps \o Ips("edge")
             r == Ips("endpoint")
  <2>3. s \in Seq(VmRecords) /\ r \in Seq(VmRecords) /\ Range(s) = Range(CloudIps) \cup Range(Ips("edge"))
    BY <2>1, <2>2
  <2> HIDE DEF s
  <2>4. Range(s \o r) = Range(s) \cup Range(r)
    BY <2>3, RangeConcat
  <2> QED BY <2>3, <2>4 DEF s
<1>6. \A x : x \in Range(ips) <=> \E v \in AllVms : x = Vm(v)
  <2> HIDE DEF ips
  <2>1. \A v \in AllVms : TierOf(Vm(v)) \in Tiers
    BY <1>2 DEF NetworkKnown
  <2>2. \A x : x \in Range(ips) <=> \E t \in Tiers : x \in Range(ListOf(t))
    BY <1>3, <1>5
  <2> QED BY <1>3, <2>1, <2>2
<1> HIDE DEF ips, ssh
<1>7. \A r : r \in runs <=> \E v \in AllVms : r = <<Vm(v).ip, Vm(v)>>
  <2>1. \A r : r \in runs <=> \E k \in DOMAIN ips : r = <<ips[k].ip, ips[k]>>
    BY <1>4
  <2>2. \A r : r \in runs <=> \E x \in Range(ips) : r = <<x.ip, x>>
    BY <2>1 DEF Range
  <2> HIDE DEF runs
  <2> QED BY <1>6, <2>2
<1> HIDE DEF runs
<1>8. \A x : x \in filters' <=> \E r \in runs : \E f \in Classes(r[2]) : x = Filter(r[1], f)
  BY <1>1 DEF Filter
<1>9. \A a, b : <<a, b>>[1] = a /\ <<a, b>>[2] = b
  OBVIOUS
<1>10. FiltersOf(filters')
  <2> SUFFICES ASSUME NEW x
               PROVE  x \in filters' <=> \E v \in AllVms : \E f \in Classes(Vm(v)) : x = Filter(Vm(v).ip, f)
    BY DEF FiltersOf
  <2>1. ASSUME x \in filters' PROVE \E v \in AllVms : \E f \in Classes(Vm(v)) : x = Filter(Vm(v).ip, f)
    <3>1. PICK r \in runs : \E f \in Classes(r[2]) : x = Filter(r[1], f)
      BY <1>8, <2>1
    <3>2. PICK v \in AllVms : r = <<Vm(v).ip, Vm(v)>>
      BY <1>7
    <3>3. r[1] = Vm(v).ip /\ r[2] = Vm(v)
      BY <1>9, <3>2
    <3> QED BY <3>1, <3>3
  <2>2. ASSUME NEW v \in AllVms, NEW f \in Classes(Vm(v)), x = Filter(Vm(v).ip, f) PROVE x \in filters'
    <3> DEFINE r == <<Vm(v).ip, Vm(v)>>
    <3>1. r \in runs /\ r[1] = Vm(v).ip /\ r[2] = Vm(v)
      BY <1>7, <1>9
    <3> HIDE DEF r
    <3> QED BY <1>8, <2>2, <3>1
  <2> QED BY <2>1, <2>2
<1> QED BY <1>1, <1>2, <1>10, ShapedBy

\* The pairs from a VM of one tier to a VM of another or the same.
IsPair(p, t, u) ==
    \E v \in AllVms : TierOf(Vm(v)) = t /\ \E a \in Towards(v, u) : p = <<Vm(v).ip, a>>

LEMMA PairsAre ==
    ASSUME NetworkKnown, NEW p, NEW t \in Tiers, NEW u \in Tiers
    PROVE  /\ t # u => (p \in Pairs(ListOf(t), ListOf(u)) <=> IsPair(p, t, u))
           /\ p \in PairsWithin(ListOf(t), ListOf(t)) <=> IsPair(p, t, t)
<1>1. \A x : x \in Range(ListOf(t)) <=> \E v \in AllVms : x = Vm(v) /\ TierOf(x) = t
  BY DEF NetworkKnown, NetworkLists
<1>2. /\ \A v \in AllVms : TierOf(Vm(v)) = t /\ t # u => InternalOf(ListOf(u)) = Towards(v, u)
      /\ \A v \in AllVms : TierOf(Vm(v)) = t => Others(ListOf(t), Vm(v)) = Towards(v, t)
  BY TowardsAre
<1>3. p \in Pairs(ListOf(t), ListOf(u)) <=> \E x \in Range(ListOf(t)) : \E a \in InternalOf(ListOf(u)) : p = <<x.ip, a>>
  BY DEF Pairs, Range
<1>4. p \in PairsWithin(ListOf(t), ListOf(t))
         <=> \E x \in Range(ListOf(t)) : \E a \in Others(ListOf(t), x) : p = <<x.ip, a>>
  BY DEF PairsWithin, Range
<1>5. ASSUME t # u PROVE p \in Pairs(ListOf(t), ListOf(u)) <=> IsPair(p, t, u)
  BY <1>1, <1>2, <1>3, <1>5 DEF IsPair
<1>6. p \in PairsWithin(ListOf(t), ListOf(t)) <=> IsPair(p, t, t)
  BY <1>1, <1>2, <1>4 DEF IsPair
<1> QED BY <1>5, <1>6

\* netperf is on every VM, so that all these pairs are measured.
LEMMA NetworkBenchmarkMeasures ==
    ASSUME NetworkKnown, SoftwareOfTier, NetworkBenchmark, config.netperf, config.provider # "aws"
    PROVE  measured' = Ends
<1> DEFINE edge == Ips("edge")
           endpoint == Ips("endpoint")
           pairs == PairsWithin(CloudIps, CloudSsh) \cup Pairs(CloudSsh, edge)
                    \cup Pairs(CloudSsh, endpoint)
                    \cup PairsWithin(edge, edge) \cup Pairs(edge, CloudIps) \cup Pairs(edge, endpoint)
                    \cup Pairs(endpoint, CloudIps) \cup Pairs(endpoint, edge)
<1>1. pc = "shaped" /\ measured' = {p \in pairs : HasNetperf(p[1]) /\ ServesNetperf(p[2])}
  BY DEF NetworkBenchmark
<1>2. \A v \in AllVms : "netperf" \in SoftwareOf(v)
  <2> SUFFICES ASSUME NEW v \in AllVms PROVE "netperf" \in SoftwareOf(v)
    OBVIOUS
  <2>1. \E S : SoftwareOf(v) = S \cup {"netperf"}
    BY <1>1 DEF SoftwareOfTier
  <2> QED BY <2>1
<1>3. \A v \in AllVms : HasNetperf(Vm(v).ip) /\ ServesNetperf(Vm(v).internal)
  BY <1>2 DEF HasNetperf, ServesNetperf
<1>4. /\ ListOf("cloud") = CloudIps /\ ListOf("edge") = edge /\ ListOf("endpoint") = endpoint
      /\ CloudSsh = CloudIps /\ Tiers = {"cloud", "edge", "endpoint"}
  BY DEF NetworkKnown, NetworkLists, ListOf, Tiers
<1>5. ASSUME NEW p
      PROVE  p \in pairs <=> \E t, u \in Tiers : ~(t = "endpoint" /\ u = "endpoint") /\ IsPair(p, t, u)
  <2>1. /\ \A t, u \in Tiers : t # u => (p \in Pairs(ListOf(t), ListOf(u)) <=> IsPair(p, t, u))
        /\ \A t \in Tiers : p \in PairsWithin(ListOf(t), ListOf(t)) <=> IsPair(p, t, t)
    BY PairsAre
  <2>2. /\ p \in PairsWithin(CloudIps, CloudSsh) <=> IsPair(p, "cloud", "cloud")
        /\ p \in PairsWithin(edge, edge) <=> IsPair(p, "edge", "edge")
    BY <1>4, <2>1
  <2>3. /\ p \in Pairs(CloudSsh, edge) <=> IsPair(p, "cloud", "edge")
        /\ p \in Pairs(CloudSsh, endpoint) <=> IsPair(p, "cloud", "endpoint")
        /\ p \in Pairs(edge, CloudIps) <=> IsPair(p, "edge", "cloud")
        /\ p \in Pairs(edge, endpoint) <=> IsPair(p, "edge", "endpoint")
        /\ p \in Pairs(endpoint, CloudIps) <=> IsPair(p, "endpoint", "cloud")
        /\ p \in Pairs(endpoint, edge) <=> IsPair(p, "endpoint", "edge")
    BY <1>4, <2>1
  <2> QED BY <1>4, <2>2, <2>3
<1> HIDE DEF pairs
<1>6. ASSUME NEW p
      PROVE  p \in Ends <=> \E t, u \in Tiers : ~(t = "endpoint" /\ u = "endpoint") /\ IsPair(p, t, u)
  <2>1. p \in Ends <=> \E v \in AllVms : \E w \in Peers(v) : p = <<Vm(v).ip, Vm(w).internal>>
    BY LinkedAre
  <2>2. \A v \in AllVms : TierOf(Vm(v)) \in Tiers
    BY DEF NetworkKnown
  <2>3. \A t, u : IsPair(p, t, u) <=>
           \E v, w \in AllVms : TierOf(Vm(v)) = t /\ TierOf(Vm(w)) = u /\ w # v /\ p = <<Vm(v).ip, Vm(w).internal>>
    BY DEF IsPair, Towards
  <2> QED BY <2>1, <2>2, <2>3 DEF Peers
<1>7. \A p : p \in pairs <=> p \in Ends
  BY <1>5, <1>6
<1>8. \A p \in Ends : HasNetperf(p[1]) /\ ServesNetperf(p[2])
  BY <1>3 DEF Ends, Linked
<1> QED BY <1>1, <1>7, <1>8

\* The network keeps its shape until it is measured.
LEMMA NetworkStep ==
    /\ IInv /\ CloudInv /\ AddressInv /\ SoftwareInv /\ NetworkShaped
    /\ [InfrastructureNext]_everything
    => NetworkShaped'
<1> SUFFICES ASSUME IInv, CloudInv, AddressInv, SoftwareInv, NetworkShaped, [InfrastructureNext]_everything
             PROVE  NetworkShaped'
  OBVIOUS
<1> DEFINE measuring == config.netperf /\ config.provider # "aws"
<1>1. NetworkShaped <=> (pc \in {"shaped", "ready"} =>
         /\ config.network_emulation => Shaped(filters)
         /\ pc = "ready" /\ measuring => measured = Ends)
  BY DEF NetworkShaped, Shaped, Ends, Linked
<1>2. NetworkShaped' <=> (pc' \in {"shaped", "ready"} =>
         /\ config'.network_emulation => Shaped(filters)'
         /\ pc' = "ready" /\ measuring' => measured' = Ends')
  BY DEF NetworkShaped, Shaped, Ends, Linked
<1>3. config' = config /\ PlacementInv
  BY ConfigKept DEF IInv
<1>4. ASSUME UNCHANGED vms
      PROVE  Ends' = Ends /\ (Shaped(filters)' <=> Shaped(filters'))
  <2>1. Hosts' = Hosts
    BY <1>3 DEF Hosts
  <2>2. AllVms' = AllVms /\ \A v : Vm(v)' = Vm(v)
    BY <1>3, <1>4, <2>1 DEF Places, AllVms, Vm
  <2>3. \A v : TierOf(Vm(v))' = TierOf(Vm(v))
    BY <2>2 DEF TierOf
  <2>4. Linked' = Linked
    BY <2>2, <2>3 DEF Linked
  <2>5. Ends' = Ends
    BY <2>2, <2>4 DEF Ends
  <2>6. \A t, u : Values(t, u)' = Values(t, u)
    BY DEF Values
  <2>7. \A l : Values(TierOf(Vm(l[1])), TierOf(Vm(l[2])))' = Values(TierOf(Vm(l[1])), TierOf(Vm(l[2])))
    BY <2>3 DEF Values
  <2> QED BY <2>2, <2>4, <2>5, <2>7 DEF Shaped
<1>5. CASE UNCHANGED everything
  <2>1. UNCHANGED <<config, pc, vms, filters, measured>>
    BY <1>5 DEF everything, allVars, vars, placement, machineObjects, network
  <2> QED BY <1>1, <1>2, <1>4, <2>1
<1>6. CASE NetworkStart
  <2>1. UNCHANGED vms /\ pc' \in {"shaped", "failed"}
    BY <1>6 DEF NetworkStart, machineObjects
  <2>2. config.network_emulation => Shaped(filters')
    BY <1>6, NetworkStartShapes
  <2> QED BY <1>2, <1>3, <1>4, <2>1, <2>2
<1>7. CASE NetworkBenchmark
  <2>1. UNCHANGED <<vms, filters>> /\ pc = "shaped" /\ pc' = "ready"
    BY <1>7 DEF NetworkBenchmark, machineObjects
  <2>2. measuring => measured' = Ends
    BY <1>7, <2>1, NetworkKnownIs, SoftwareHolds, NetworkBenchmarkMeasures DEF Addressed
  <2> QED BY <1>1, <1>2, <1>3, <1>4, <2>1, <2>2
<1>8. ASSUME pc' \notin {"shaped", "ready"} PROVE NetworkShaped'
  BY <1>2, <1>8
<1>9. CASE Place
  <2>1. pc' \in Unplaced \cup {"placed"}
    BY <1>9 DEF Place, Next, SkipTier, PlaceEqual, PlacePin, LeaveNode, Refuse, ScheduleDone, RemoveIdle, Unplaced
  <2> QED BY <1>8, <2>1 DEF Unplaced
<1>10. CASE SetIpNames \/ CreateInventory \/ Generate
  <2>1. pc' \in {"placed", "inventory", "generate"}
    BY <1>10 DEF SetIpNames, CreateInventory, Generate, vars
  <2> QED BY <1>8, <2>1
<1>11. CASE NextStage \/ LaunchFails \/ DockerRegistry
  <2>1. pc' \in {"registry", "generate", "base", "aborted", "inventory", "apply"}
    BY <1>11 DEF NextStage, LaunchFails, DockerRegistry
  <2> QED BY <1>8, <2>1
<1>12. CASE SetNames \/ Apply \/ BaseImage \/ BaseInstall \/ LaunchVms
  <2>1. pc' \in {"registry", "aborted", "failed", "install", "launch", "running"}
    BY <1>12 DEF SetNames, Apply, BaseImage, BaseInstall, LaunchVms
  <2> QED BY <1>8, <2>1
<1> QED BY <1>5, <1>6, <1>7, <1>9, <1>10, <1>11, <1>12
        DEF InfrastructureNext, ProvisionNext, TerraformNext

-----------------------------------------------------------------------------
(* The invariant of the providers *)

\* What each provider adds to the invariant.
ProviderInv ==
    /\ IInv /\ CloudInv /\ AddressInv /\ StoreInv /\ SoftwareInv
    /\ FailsOnlyOnVirtiofs /\ NetworkShaped

\* It holds initially.
LEMMA ProviderInvInit == InfrastructureInit => ProviderInv
<1> SUFFICES ASSUME InfrastructureInit PROVE ProviderInv
  OBVIOUS
<1>1. pc \in {"pin", "equal"} /\ MachinesInit
  BY DEF InfrastructureInit, ProvisionInit, MachinesInit, Init
<1>2. CloudInv
  BY <1>1 DEF CloudInv, MachinesInit, Empty, Unnamed, Unplaced, Addressed
<1>3. StoreInv
  BY <1>1 DEF StoreInv, MachinesInit, Addressed
<1>4. FailsOnlyOnVirtiofs
  BY <1>1 DEF FailsOnlyOnVirtiofs
<1>5. SoftwareInv
  BY <1>1 DEF SoftwareInv, Installing
<1>6. NetworkShaped
  BY <1>1 DEF NetworkShaped
<1> QED BY <1>2, <1>3, <1>4, <1>5, <1>6, IInvInit, AddressInvInit DEF ProviderInv

\* Each part is kept, with the help of the invariant of the placement.
LEMMA ProviderInvStep == ProviderInv /\ [InfrastructureNext]_everything => ProviderInv'
<1> SUFFICES ASSUME ProviderInv, [InfrastructureNext]_everything PROVE ProviderInv'
  OBVIOUS
<1>1. IInv /\ CloudInv /\ AddressInv /\ StoreInv /\ SoftwareInv /\ FailsOnlyOnVirtiofs /\ NetworkShaped
  BY DEF ProviderInv
<1>2. IInv'
  BY <1>1, IInvStep
<1>3. /\ PlacementInv /\ CountInv /\ MachinesInv /\ ListsInv /\ StageInv /\ NamesInv
      /\ (PlacementInv /\ CountInv /\ MachinesInv)'
  BY <1>1, <1>2 DEF IInv
<1>4. CloudInv'
  BY <1>1, <1>3, CloudStep
<1>5. AddressInv'
  BY <1>1, <1>3, AddressStep
<1>6. StoreInv' /\ FailsOnlyOnVirtiofs'
  BY <1>1, StoreStep
<1>7. SoftwareInv'
  BY <1>1, SoftwareStep
<1>8. NetworkShaped'
  BY <1>1, NetworkStep
<1> QED BY <1>2, <1>4, <1>5, <1>6, <1>7, <1>8 DEF ProviderInv

\* The invariant of the providers holds in every reachable state.
THEOREM ProviderInvariant == InfrastructureSpec => []ProviderInv
<1>1. ProviderInv /\ [WithAnswers]_<<everything, waits>> => ProviderInv'
  BY ProviderInvStep, AnswersChangeWaits
<1> QED BY <1>1, ProviderInvInit, PTL DEF InfrastructureSpec

\* Images are where Continuum looks for them, every VM has an address and
\* every class of tc a root: setting up fails only where the network device of
\* a VM with virtiofs has another name.
THEOREM FailsOnlyOnVirtiofsAlways == InfrastructureSpec => []FailsOnlyOnVirtiofs
<1>1. ProviderInv => FailsOnlyOnVirtiofs
  BY DEF ProviderInv
<1> QED BY <1>1, ProviderInvariant, PTL

\* What the playbooks and docker_pull choose by the words in names is on the
\* base image from which the disk of the VM is made, or on the VM itself.
THEOREM SoftwareOfTierAlways == InfrastructureSpec => []SoftwareOfTier
<1>1. ProviderInv => SoftwareOfTier
  BY SoftwareHolds DEF ProviderInv
<1> QED BY <1>1, ProviderInvariant, PTL

\* Every two VMs, except two endpoints, are kept apart by one filter in each
\* direction, with the values of their tiers and in a class of its own for each
\* tier, and netperf measures the same pairs.
THEOREM NetworkShapedAlways == InfrastructureSpec => []NetworkShaped
<1>1. ProviderInv => NetworkShaped
  BY DEF ProviderInv
<1> QED BY <1>1, ProviderInvariant, PTL

\* Every VM is reached at an address of its own, with QEMU on the condition
\* that the two ranges of addresses are far enough apart for the machines and
\* VMs of the configurations.
THEOREM AddressesKnownAlways ==
    (\A c \in Configurations : RangesApart(c)) => (InfrastructureSpec => []AddressesKnown)
<1> SUFFICES ASSUME \A c \in Configurations : RangesApart(c)
             PROVE  InfrastructureSpec => []AddressesKnown
  OBVIOUS
<1>1. ProviderInv => AddressesKnown
  <2> SUFFICES ASSUME ProviderInv PROVE AddressesKnown
    OBVIOUS
  <2>1. IInv /\ CloudInv /\ AddressInv /\ config \in Configurations
    BY DEF ProviderInv, IInv, PlacementInv, PlacementTypeOK
  <2>2. RangesApart(config)
    BY <2>1
  <2> QED BY <2>1, <2>2, DistinctHolds, ReportedHolds DEF AddressesKnown
<1> QED BY <1>1, ProviderInvariant, PTL
=============================================================================
