----------------------------- MODULE RerunsProofs -----------------------------
(***************************************************************************)
(* Theorems about what runs of Continuum leave for one another, for any    *)
(* hosts, configurations and scripts, and any number of failed runs.       *)
(***************************************************************************)
EXTENDS Reruns, SequenceTheorems, SetLemmas

Versions == {c.version : c \in Used}
OsImages == {Absent} \cup [state : {"small", "full"}, edition : Nat]
BaseImages == {Absent} \cup [state : {"blank", "installed"}, on : OsImages, version : Versions \cup {None}]

TypeOK ==
    /\ pc \in {"idle", "delete", "clean", "os", "resize", "find", "base", "install", "launch",
               "cluster", "ready"}
    /\ \A i \in DOMAIN list : list[i] \in Used
    /\ pc # "idle" => config \in Used
    /\ upstream \in Nat
    /\ os \in [Hosts -> OsImages]
    /\ images \in [Hosts -> [Hosts -> BaseImages]]
    /\ since \in [first : SUBSET Hosts, versions : SUBSET Versions, faulty : BOOLEAN]

\* The base image that a host has in the run.
Image(h) == images[h][Number(config, h)]

\* What the place of the run says of its images, also after runs that failed.
PlaceInv ==
    /\ pc # "idle" => config.version \in since.versions
    /\ since.first = {} => /\ pc = "idle"
                           /\ \A h \in Hosts : os[h] = Absent /\ \A n \in Hosts : images[h][n] = Absent
    /\ pc = "resize" => \A h \in Kept(config) : os[h] # Absent
    /\ pc \in {"base", "install"} =>
          \A h \in Kept(config) : Image(h) = [state |-> "blank", on |-> os[h], version |-> None]
    /\ pc \in {"launch", "cluster", "ready"} => \A h \in Kept(config) : Image(h) # Absent

\* Without a failed run an image is installed, unless it is being made.
InstalledInv ==
    ~since.faulty =>
        \A h, n \in Hosts :
            \/ images[h][n] = Absent
            \/ images[h][n].state = "installed" /\ images[h][n].version \in since.versions
            \/ pc \in {"base", "install"} /\ h \in Kept(config) /\ n = Number(config, h)

\* When the first run used all hosts, every image is on the one OS image its
\* host has had, or the first run has not come to that yet.
OnOsInv ==
    ~since.faulty /\ since.first = Hosts =>
        \/ /\ pc # "resize"
           /\ \A h \in Hosts : /\ os[h].state = "full"
                               /\ \A n \in Hosts : images[h][n] = Absent \/ images[h][n].on = os[h]
        \/ /\ pc \in {"delete", "clean", "os", "resize"} /\ Kept(config) = Hosts
           /\ \A h, n \in Hosts : images[h][n] = Absent
           /\ pc # "resize" => \A h \in Hosts : os[h] = Absent

IInv == TypeOK /\ PlaceInv /\ InstalledInv /\ OnOsInv

-------------------------------------------------------------------------------
(* Configurations *)

\* A run uses some of the hosts, and has a number among them for each.
LEMMA KeptHosts ==
    ASSUME NEW c \in Used
    PROVE  /\ Kept(c) \subseteq Hosts /\ Kept(c) # {} /\ c.version \in Versions
           /\ \A h \in Kept(c) : Number(c, h) \in Hosts
<1>1. Kept(c) \subseteq Hosts /\ Kept(c) # {} /\ c.version \in Versions
  BY RerunsAssumption DEF RerunsAssumption, Kept, Versions
<1>2. ASSUME NEW h \in Kept(c) PROVE Number(c, h) \in Hosts
  <2> DEFINE upTo == {g \in Kept(c) : g <= h}
  <2>1. IsFiniteSet(Hosts) /\ Hosts = 1..Cardinality(Hosts) /\ Cardinality(Hosts) \in Nat
    BY RerunsAssumption, FS_CardinalityType DEF RerunsAssumption
  <2>2. upTo \subseteq Hosts /\ h \in upTo
    BY <1>1, <1>2, <2>1
  <2>3. IsFiniteSet(upTo) /\ Cardinality(upTo) \in Nat /\ Cardinality(upTo) <= Cardinality(Hosts)
    BY <2>1, <2>2, FS_Subset, FS_CardinalityType
  <2>4. Cardinality(upTo) # 0
    BY <2>2, <2>3, FS_EmptySet
  <2>5. Cardinality(upTo) \in 1..Cardinality(Hosts)
    BY <2>1, <2>3, <2>4
  <2> QED BY <2>1, <2>5 DEF Number
<1> QED BY <1>1, <1>2

\* The images and their history alone decide the invariant between two steps.
LEMMA SameImages ==
    ASSUME IInv, UNCHANGED <<config, disks>>, TypeOK',
           \/ pc' = pc
           \/ pc' = "idle" /\ pc \in {"launch", "cluster", "ready"}
           \/ pc = "delete" /\ pc' = "clean"
           \/ pc = "clean" /\ pc' = "os"
           \/ pc = "base" /\ pc' = "install"
           \/ pc \in {"launch", "cluster"} /\ pc' \in {"cluster", "ready"}
    PROVE  IInv'
<1> USE DEF IInv
<1>1. UNCHANGED <<os, images, since>> /\ \A h : Image(h)' = Image(h)
  BY DEF disks, Image
<1>2. PlaceInv'
  BY <1>1 DEF PlaceInv
<1>3. InstalledInv'
  BY <1>1 DEF InstalledInv
<1>4. OnOsInv'
  BY <1>1 DEF OnOsInv
<1> QED BY <1>2, <1>3, <1>4

-------------------------------------------------------------------------------
(* Scripts *)

\* Runs of a script are configurations the operator may ask for.
LEMMA Lists ==
    /\ \A i \in DOMAIN Experiments : Experiments[i] \in Used
    /\ \A s \in MicroBenchmarks : \A i \in DOMAIN s : s[i] \in Used
    /\ \A c \in ByHand : \A i \in DOMAIN <<c>> : <<c>>[i] \in Used
    /\ \A i \in DOMAIN <<>> : <<>>[i] \in Used
<1>1. \A i \in DOMAIN Experiments : Experiments[i] \in Used
  BY DEF Used, ToSet
<1>2. ASSUME NEW s \in MicroBenchmarks, NEW i \in DOMAIN s PROVE s[i] \in Used
  <2>1. s[i] \in ToSet(s)
    BY DEF ToSet
  <2> QED BY <2>1 DEF Used
<1>3. ASSUME NEW c \in ByHand, NEW i \in DOMAIN <<c>> PROVE <<c>>[i] \in Used
  <2>1. i = 1 /\ <<c>>[1] = c
    OBVIOUS
  <2>2. c \in Used
    BY DEF Used
  <2> QED BY <2>1, <2>2
<1> QED BY <1>1, <1>2, <1>3

LEMMA ScriptIInv == IInv /\ (Script \/ NewRelease) => IInv'
<1> SUFFICES ASSUME IInv, Script \/ NewRelease PROVE IInv'
  OBVIOUS
<1>1. CASE \/ StartPaper \/ StartByHand \/ SkipRun \/ ScriptEnds \/ NewRelease
           \/ StartKubecontrol /\ UNCHANGED disks
  <2>1. UNCHANGED <<pc, config, disks>>
    BY <1>1 DEF StartPaper, StartByHand, SkipRun, ScriptEnds, NewRelease, StartKubecontrol
  <2>2. upstream' \in Nat
    BY <1>1 DEF StartPaper, StartByHand, SkipRun, ScriptEnds, NewRelease, StartKubecontrol,
                limits, IInv, TypeOK
  <2>3. \A i \in DOMAIN list' : list'[i] \in Used
    <3>1. CASE StartPaper
      BY <3>1, Lists DEF StartPaper
    <3>2. CASE StartByHand
      BY <3>2, Lists DEF StartByHand
    <3>3. CASE StartKubecontrol
      BY <3>3, Lists DEF StartKubecontrol
    <3>4. CASE ScriptEnds
      BY <3>4, Lists DEF ScriptEnds
    <3>5. CASE SkipRun \/ NewRelease
      BY <3>5 DEF SkipRun, NewRelease, scripting, IInv, TypeOK
    <3> QED BY <1>1, <3>1, <3>2, <3>3, <3>4, <3>5
  <2>4. TypeOK'
    BY <2>1, <2>2, <2>3 DEF IInv, TypeOK, disks
  <2> QED BY <2>1, <2>4, SameImages
<1>2. CASE StartKubecontrol /\ RemoveBase
  <2>1. /\ pc = "idle" /\ pc' = "idle" /\ UNCHANGED upstream
        /\ os' = [h \in Hosts |-> Absent]
        /\ images' = [h \in Hosts |-> [n \in Hosts |-> Absent]]
        /\ since' = Fresh
    BY <1>2 DEF StartKubecontrol, RemoveBase, limits
  <2>2. \A i \in DOMAIN list' : list'[i] \in Used
    BY <1>2, Lists DEF StartKubecontrol
  <2>3. TypeOK'
    BY <2>1, <2>2 DEF IInv, TypeOK, OsImages, BaseImages, Fresh
  <2>4. \A h, n \in Hosts : os'[h] = Absent /\ images'[h][n] = Absent
    BY <2>1
  <2>5. PlaceInv' /\ InstalledInv'
    BY <2>1, <2>4 DEF PlaceInv, InstalledInv
  <2>6. OnOsInv'
    <3>1. CASE Hosts = {}
      BY <2>1, <3>1 DEF OnOsInv
    <3>2. CASE Hosts # {}
      BY <2>1, <3>2 DEF OnOsInv, Fresh
    <3> QED BY <3>1, <3>2
  <2> QED BY <2>3, <2>5, <2>6 DEF IInv
<1>3. CASE StartRun
  <2> DEFINE c == list[at]
  <2>1. /\ pc = "idle" /\ pc' = "delete" /\ config' = c /\ c \in Used
        /\ UNCHANGED <<list, os, images, upstream>>
        /\ since' = [since EXCEPT !.first = IF @ = {} THEN Kept(c) ELSE @,
                                  !.versions = @ \cup {c.version}]
    BY <1>3 DEF StartRun, scripting, limits, IInv, TypeOK
  <2> HIDE DEF c
  <2>2. Kept(c) \subseteq Hosts /\ Kept(c) # {} /\ c.version \in Versions
    BY <2>1, KeptHosts
  <2>3. /\ since' \in [first : SUBSET Hosts, versions : SUBSET Versions, faulty : BOOLEAN]
        /\ since'.first = IF since.first = {} THEN Kept(c) ELSE since.first
        /\ since'.versions = since.versions \cup {c.version}
        /\ since'.faulty = since.faulty
    BY <2>1, <2>2 DEF IInv, TypeOK
  <2>4. TypeOK'
    BY <2>1, <2>3 DEF IInv, TypeOK
  <2>5. PlaceInv'
    BY <2>1, <2>2, <2>3 DEF IInv, PlaceInv
  <2>6. InstalledInv'
    BY <2>1, <2>3 DEF IInv, InstalledInv
  <2>7. OnOsInv'
    <3>1. CASE since.first = {}
      BY <2>1, <2>2, <2>3, <3>1 DEF IInv, PlaceInv, OnOsInv
    <3>2. CASE since.first # {}
      BY <2>1, <2>3, <3>2 DEF IInv, OnOsInv
    <3> QED BY <3>1, <3>2
  <2> QED BY <2>4, <2>5, <2>6, <2>7 DEF IInv
<1> QED BY <1>1, <1>2, <1>3 DEF Script, StartKubecontrol

-------------------------------------------------------------------------------
(* A run *)

\* Steps that touch no image.
LEMMA PlainIInv ==
    IInv /\ (\/ DeleteVms \/ DeleteOldContent \/ LaunchBase \/ LaunchVms \/ ControlInstall
             \/ WorkersJoin \/ ClusterReady \/ JoinFails \/ RunEnds) => IInv'
<1> SUFFICES ASSUME IInv,
                    \/ DeleteVms \/ DeleteOldContent \/ LaunchBase \/ LaunchVms \/ ControlInstall
                    \/ WorkersJoin \/ ClusterReady \/ JoinFails \/ RunEnds
             PROVE  IInv'
  OBVIOUS
<1>1. /\ UNCHANGED <<config, disks, list, upstream>>
      /\ \/ pc' = pc
         \/ pc' = "idle" /\ pc \in {"launch", "cluster", "ready"}
         \/ pc = "delete" /\ pc' = "clean"
         \/ pc = "clean" /\ pc' = "os"
         \/ pc = "base" /\ pc' = "install"
         \/ pc \in {"launch", "cluster"} /\ pc' \in {"cluster", "ready"}
  BY DEF DeleteVms, DeleteOldContent, LaunchBase, LaunchVms, ControlInstall, WorkersJoin,
         ClusterReady, JoinFails, RunEnds, scripting, limits
<1>2. TypeOK'
  BY <1>1 DEF IInv, TypeOK, disks
<1> QED BY <1>1, <1>2, SameImages

\* The OS image is written where the first run lets it be written, or replaces
\* one below images that are not on all hosts.
LEMMA OsIInv == IInv /\ (OsImage \/ Resize) => IInv'
<1> SUFFICES ASSUME IInv, OsImage \/ Resize PROVE IInv'
  OBVIOUS
<1>1. CASE OsImage
  <2> DEFINE need == \E h \in Kept(config) : os[h] = Absent
             new == [state |-> "small", edition |-> upstream]
  <2>1. /\ pc = "os" /\ pc' = IF need THEN "resize" ELSE "find"
        /\ os' = [h \in Hosts |-> IF need /\ h \in Kept(config) THEN new ELSE os[h]]
        /\ UNCHANGED <<config, list, images, since, upstream>>
    BY <1>1 DEF OsImage, scripting, limits
  <2>2. config \in Used /\ Kept(config) \subseteq Hosts /\ Kept(config) # {}
    BY <2>1, KeptHosts DEF IInv, TypeOK
  <2>3. new \in OsImages /\ new # Absent
    BY DEF IInv, TypeOK, OsImages, Absent
  <2> HIDE DEF new
  <2>4. TypeOK'
    BY <2>1, <2>2, <2>3 DEF IInv, TypeOK
  <2>5. PlaceInv'
    BY <2>1, <2>2, <2>3 DEF IInv, PlaceInv
  <2>6. InstalledInv'
    BY <2>1 DEF IInv, InstalledInv
  <2>7. OnOsInv'
    <3>1. SUFFICES ASSUME ~since.faulty, since.first = Hosts PROVE OnOsInv'
      BY <2>1 DEF OnOsInv
    <3>2. CASE \A h \in Hosts : /\ os[h].state = "full"
                                /\ \A n \in Hosts : images[h][n] = Absent \/ images[h][n].on = os[h]
      <4>1. ~need
        BY <2>2, <3>2 DEF Absent
      <4> QED BY <2>1, <3>2, <4>1 DEF OnOsInv
    <3>3. CASE /\ Kept(config) = Hosts /\ \A h, n \in Hosts : images[h][n] = Absent
               /\ \A h \in Hosts : os[h] = Absent
      <4>1. need
        BY <2>2, <3>3
      <4> QED BY <2>1, <3>3, <4>1 DEF OnOsInv
    <3> QED BY <2>1, <3>1, <3>2, <3>3 DEF IInv, OnOsInv
  <2> QED BY <2>4, <2>5, <2>6, <2>7 DEF IInv
<1>2. CASE Resize
  <2>1. /\ pc = "resize" /\ pc' = "find"
        /\ os' = [h \in Hosts |-> IF h \in Kept(config) THEN [os[h] EXCEPT !.state = "full"] ELSE os[h]]
        /\ UNCHANGED <<config, list, images, since, upstream>>
    BY <1>2 DEF Resize, scripting, limits
  <2>2. config \in Used /\ Kept(config) \subseteq Hosts
    BY <2>1, KeptHosts DEF IInv, TypeOK
  <2>3. \A h \in Kept(config) : os[h] \in [state : {"small", "full"}, edition : Nat]
    BY <2>1, <2>2 DEF IInv, TypeOK, PlaceInv, OsImages
  <2>4. \A h \in Kept(config) : os'[h] \in OsImages /\ os'[h].state = "full"
    BY <2>1, <2>2, <2>3 DEF OsImages
  <2>5. TypeOK'
    <3>1. os' \in [Hosts -> OsImages]
      BY <2>1, <2>4 DEF IInv, TypeOK
    <3> QED BY <2>1, <3>1 DEF IInv, TypeOK
  <2>6. PlaceInv'
    BY <2>1 DEF IInv, PlaceInv
  <2>7. InstalledInv'
    BY <2>1 DEF IInv, InstalledInv
  <2>8. OnOsInv'
    BY <2>1, <2>4 DEF IInv, OnOsInv
  <2> QED BY <2>5, <2>6, <2>7, <2>8 DEF IInv
<1> QED BY <1>1, <1>2

\* Base images are made on the OS image of their host.
LEMMA CreateIInv == IInv /\ CreateBase => IInv'
<1> SUFFICES ASSUME IInv, CreateBase PROVE IInv'
  OBVIOUS
<1>1. /\ pc = "find" /\ config \in Used /\ Kept(config) \subseteq Hosts
      /\ \A h \in Kept(config) : Number(config, h) \in Hosts
      /\ UNCHANGED <<config, list, os, since, upstream>>
  BY KeptHosts DEF CreateBase, scripting, limits, IInv, TypeOK
<1>2. CASE \A h \in Kept(config) : ~Lacks(h)
  <2>1. pc' = "launch" /\ UNCHANGED images /\ \A h : Image(h)' = Image(h)
    BY <1>1, <1>2 DEF CreateBase, Image
  <2>2. TypeOK'
    BY <1>1, <2>1 DEF IInv, TypeOK
  <2>3. PlaceInv'
    BY <1>1, <1>2, <2>1 DEF IInv, PlaceInv, Lacks, Image
  <2>4. InstalledInv' /\ OnOsInv'
    BY <1>1, <2>1 DEF IInv, InstalledInv, OnOsInv
  <2> QED BY <2>2, <2>3, <2>4 DEF IInv
<1>3. CASE \E h \in Kept(config) : Lacks(h)
  <2> DEFINE new(h) == [state |-> "blank", on |-> os[h], version |-> None]
  <2>1. /\ pc' = "base"
        /\ images' = [h \in Hosts |-> IF h \in Kept(config)
                                      THEN [images[h] EXCEPT ![Number(config, h)] = new(h)]
                                      ELSE images[h]]
    BY <1>3 DEF CreateBase
  <2>2. \A h \in Hosts : new(h) \in BaseImages /\ new(h) # Absent /\ new(h).on = os[h]
    BY DEF IInv, TypeOK, BaseImages, Absent
  <2> HIDE DEF new
  <2>3. \A h, n \in Hosts : images'[h][n] = IF h \in Kept(config) /\ n = Number(config, h)
                                            THEN new(h) ELSE images[h][n]
    BY <2>1 DEF IInv, TypeOK
  <2>4. images' \in [Hosts -> [Hosts -> BaseImages]]
    BY <2>1, <2>2 DEF IInv, TypeOK
  <2>5. TypeOK'
    BY <1>1, <2>1, <2>4 DEF IInv, TypeOK
  <2>6. PlaceInv'
    <3>1. \A h \in Kept(config) : Image(h)' = new(h)
      BY <1>1, <2>3 DEF Image
    <3> QED BY <1>1, <2>1, <3>1 DEF IInv, PlaceInv, new
  <2>7. InstalledInv'
    BY <1>1, <2>1, <2>3 DEF IInv, InstalledInv
  <2>8. OnOsInv'
    BY <1>1, <2>1, <2>2, <2>3 DEF IInv, OnOsInv
  <2> QED BY <2>5, <2>6, <2>7, <2>8 DEF IInv
<1> QED BY <1>2, <1>3

\* What is installed has the version of the run.
LEMMA InstallIInv == IInv /\ InstallBase => IInv'
<1> SUFFICES ASSUME IInv, InstallBase PROVE IInv'
  OBVIOUS
<1> DEFINE blank(h) == [state |-> "blank", on |-> os[h], version |-> None]
           done(h) == [blank(h) EXCEPT !.state = "installed", !.version = config.version]
<1>1. /\ pc = "install" /\ pc' = "launch" /\ config \in Used /\ Kept(config) \subseteq Hosts
      /\ config.version \in Versions /\ \A h \in Kept(config) : Number(config, h) \in Hosts
      /\ UNCHANGED <<config, list, os, since, upstream>>
  BY KeptHosts DEF InstallBase, scripting, limits, IInv, TypeOK
<1>2. images' = [h \in Hosts |->
                    IF h \in Kept(config)
                    THEN [images[h] EXCEPT ![Number(config, h)] =
                            [@ EXCEPT !.state = "installed", !.version = config.version]]
                    ELSE images[h]]
  BY DEF InstallBase
<1>3. \A h \in Kept(config) : images[h][Number(config, h)] = blank(h)
  BY <1>1 DEF IInv, PlaceInv, Image
<1>4. \A h \in Hosts : /\ done(h) \in BaseImages /\ done(h) # Absent /\ done(h).on = os[h]
                       /\ done(h).state = "installed" /\ done(h).version = config.version
  <2>1. \A h \in Hosts : blank(h) \in [state : {"blank", "installed"}, on : OsImages,
                                     version : Versions \cup {None}]
    BY DEF IInv, TypeOK
  <2> QED BY <1>1, <2>1 DEF BaseImages, Absent
<1> HIDE DEF blank
<1>5. \A h, n \in Hosts : images'[h][n] = IF h \in Kept(config) /\ n = Number(config, h)
                                          THEN done(h) ELSE images[h][n]
  BY <1>1, <1>2, <1>3 DEF IInv, TypeOK
<1> HIDE DEF done
<1>6. images' \in [Hosts -> [Hosts -> BaseImages]]
  <2>1. images' = [h \in Hosts |-> [n \in Hosts |-> images'[h][n]]]
    BY <1>2 DEF IInv, TypeOK
  <2> QED BY <1>4, <1>5, <2>1 DEF IInv, TypeOK
<1>7. TypeOK'
  BY <1>1, <1>6 DEF IInv, TypeOK
<1>8. PlaceInv'
  <2>1. \A h \in Kept(config) : Image(h)' = done(h)
    BY <1>1, <1>5 DEF Image
  <2> QED BY <1>1, <1>4, <2>1 DEF IInv, PlaceInv
<1>9. InstalledInv'
  BY <1>1, <1>4, <1>5 DEF IInv, InstalledInv, PlaceInv
<1>10. OnOsInv'
  BY <1>1, <1>4, <1>5 DEF IInv, OnOsInv
<1> QED BY <1>7, <1>8, <1>9, <1>10 DEF IInv

\* After a run that failed nothing is said of images but that they are there.
LEMMA FailsIInv == IInv /\ RunFails => IInv'
<1> SUFFICES ASSUME IInv, RunFails PROVE IInv'
  OBVIOUS
<1>1. /\ pc # "idle" /\ pc' = "idle" /\ since' = [since EXCEPT !.faulty = TRUE]
      /\ UNCHANGED <<os, images, upstream>>
  BY DEF RunFails
<1>2. \A i \in DOMAIN list' : list'[i] \in Used
  BY Lists DEF RunFails, IInv, TypeOK
<1>3. /\ since' \in [first : SUBSET Hosts, versions : SUBSET Versions, faulty : BOOLEAN]
      /\ since'.faulty /\ since'.first = since.first
  BY <1>1 DEF IInv, TypeOK
<1>4. TypeOK'
  BY <1>1, <1>2, <1>3 DEF IInv, TypeOK
<1> QED BY <1>1, <1>3, <1>4 DEF IInv, PlaceInv, InstalledInv, OnOsInv

-------------------------------------------------------------------------------
(* The inductive invariant *)

\* Before the first script there are no images.
THEOREM InitIInv == Init => IInv
<1> SUFFICES ASSUME Init PROVE IInv
  OBVIOUS
<1>1. /\ pc = "idle" /\ upstream \in Nat /\ since = Fresh
      /\ os = [h \in Hosts |-> Absent] /\ images = [h \in Hosts |-> [n \in Hosts |-> Absent]]
  BY DEF Init
<1>2. TypeOK
  BY <1>1, Lists DEF Init, TypeOK, OsImages, BaseImages, Fresh
<1>3. \A h, n \in Hosts : os[h] = Absent /\ images[h][n] = Absent
  BY <1>1
<1>4. PlaceInv /\ InstalledInv
  BY <1>1, <1>3 DEF PlaceInv, InstalledInv
<1>5. OnOsInv
  BY <1>1, <1>3 DEF OnOsInv, Fresh
<1> QED BY <1>2, <1>4, <1>5 DEF IInv

\* Every step of a script, of a run and of what goes wrong keeps it.
THEOREM NextIInv == IInv /\ [Next]_vars => IInv'
<1> SUFFICES ASSUME IInv, [Next]_vars PROVE IInv'
  OBVIOUS
<1>1. CASE Next
  BY <1>1, ScriptIInv, PlainIInv, OsIInv, CreateIInv, InstallIInv, FailsIInv DEF Next, Continuum
<1>2. CASE UNCHANGED vars
  <2>1. UNCHANGED <<pc, config, disks, list, upstream>>
    BY <1>2 DEF vars, scripting, limits
  <2>2. TypeOK'
    BY <2>1 DEF IInv, TypeOK, disks
  <2> QED BY <2>1, <2>2, SameImages
<1> QED BY <1>1, <1>2

\* So it holds however many scripts and runs follow one another.
THEOREM SpecIInv == Spec => []IInv
BY InitIInv, NextIInv, PTL DEF Spec

-------------------------------------------------------------------------------
\* The images, their history and the runs keep their types (qemu.py:311-402).
THEOREM TypeCorrect == Spec => []TypeOK
<1>1. IInv => TypeOK
  BY DEF IInv
<1> QED BY <1>1, SpecIInv, PTL

\* A run in which nothing has failed since the images were removed starts from
\* complete images, of its version if there was no other, and on the OS image
\* of their host if the first run used all hosts (replicate_kubecontrol.py:54).
THEOREM ImagesAreConsistent == Spec => []ConsistentImages
<1>1. IInv => ConsistentImages
  <2> SUFFICES ASSUME IInv, pc = "ready", ~since.faulty, NEW h \in Kept(config)
               PROVE  LET image == images[h][Number(config, h)]
                      IN /\ image.state = "installed"
                         /\ since.versions = {config.version} => image.version = config.version
                         /\ since.first = Hosts => image.on = os[h]
    BY DEF ConsistentImages
  <2>1. h \in Hosts /\ Number(config, h) \in Hosts
    BY KeptHosts DEF IInv, TypeOK
  <2>2. Image(h) # Absent
    BY DEF IInv, PlaceInv
  <2>3. Image(h).state = "installed" /\ Image(h).version \in since.versions
    BY <2>1, <2>2 DEF IInv, InstalledInv, Image
  <2>4. since.first = Hosts => Image(h).on = os[h]
    BY <2>1, <2>2 DEF IInv, OnOsInv, Image
  <2> QED BY <2>3, <2>4 DEF Image
<1> QED BY <1>1, SpecIInv, PTL

-------------------------------------------------------------------------------
(* VMs and tokens of other runs *)

LogTypeOK ==
    /\ script \in {None, "paper", "kubecontrol", "hand"} /\ at \in Nat
    /\ logs \in Seq([script : {"paper", "kubecontrol", "hand"}, run : Nat])

\* Before delete_vms no VM is of the run; after it those on the hosts of the
\* run are, and in replicate_kubecontrol all are.
VmsInv ==
    /\ pc = "delete" => \A d \in domains : d.run # Run
    /\ pc \notin {"idle", "delete"} => \A d \in domains : d.host \in Kept(config) => d.run = Run
    /\ pc # "idle" /\ script = "kubecontrol" => \A d \in domains : d.run = Run
    /\ \A d \in domains : d.run \in Nat /\ d.run <= Run

\* After delete_old_content the file is the run's or is gone, where the local
\* machine belongs to the run.
TokenInv ==
    /\ pc \in {"delete", "clean"} => joined = 0
    /\ pc # "idle" /\ 1 \in Kept(config) => joined \in {0, Run}
    /\ pc \notin {"idle", "delete", "clean"} /\ 1 \in Kept(config) => joinFile \in {0, Run}

ClusterInv == LogTypeOK /\ VmsInv /\ TokenInv

LEMMA RunType == LogTypeOK => Run \in Nat
BY LenProperties DEF LogTypeOK, Run

\* Scripts, which act between runs, and the start of a run.
LEMMA ScriptCluster == ClusterInv /\ (Script \/ NewRelease) => ClusterInv'
<1> SUFFICES ASSUME ClusterInv, Script \/ NewRelease PROVE ClusterInv'
  OBVIOUS
<1> USE DEF ClusterInv, LogTypeOK, VmsInv, TokenInv
<1>1. CASE StartPaper \/ StartByHand \/ SkipRun \/ ScriptEnds \/ StartKubecontrol
  <2>1. pc = "idle" /\ pc' = "idle" /\ UNCHANGED <<logs, domains>> /\ Run' = Run
    BY <1>1 DEF StartPaper, StartByHand, SkipRun, ScriptEnds, StartKubecontrol, past, Run
  <2>2. script' \in {None, "paper", "kubecontrol", "hand"} /\ at' \in Nat
    BY <1>1 DEF StartPaper, StartByHand, SkipRun, ScriptEnds, StartKubecontrol, None
  <2> QED BY <2>1, <2>2
<1>2. CASE NewRelease
  BY <1>2 DEF NewRelease, scripting, past, join, Run
<1>3. CASE StartRun
  <2> DEFINE entry == [script |-> script, run |-> at]
  <2>1. /\ pc' = "delete" /\ script # None /\ UNCHANGED <<script, at>> /\ joined' = 0
        /\ logs' = Append(logs, entry) /\ domains' = KillAll(domains)
    BY <1>3 DEF StartRun, scripting
  <2>2. entry \in [script : {"paper", "kubecontrol", "hand"}, run : Nat]
    BY <2>1
  <2> HIDE DEF entry
  <2>3. logs' \in Seq([script : {"paper", "kubecontrol", "hand"}, run : Nat]) /\ Run' = Run + 1
    BY <2>1, <2>2, AppendProperties DEF Run
  <2>4. \A d \in domains' : d.run \in Nat /\ d.run <= Run /\ script # "kubecontrol"
    BY <2>1 DEF KillAll
  <2>5. Run \in Nat
    BY RunType
  <2> QED BY <2>1, <2>3, <2>4, <2>5
<1> QED BY <1>1, <1>2, <1>3 DEF Script

\* A run and its failure.
LEMMA RunCluster == ClusterInv /\ (Continuum \/ RunFails) => ClusterInv'
<1> SUFFICES ASSUME ClusterInv, Continuum \/ RunFails PROVE ClusterInv'
  OBVIOUS
<1> USE DEF ClusterInv, LogTypeOK, VmsInv, TokenInv
<1>1. Run' = Run /\ UNCHANGED logs /\ Run \in Nat
  BY RunType DEF Continuum, RunFails, DeleteVms, DeleteOldContent, OsImage, Resize, CreateBase,
     LaunchBase, InstallBase, LaunchVms, ControlInstall, WorkersJoin, ClusterReady, JoinFails,
     RunEnds, past, Run
<1>2. CASE DeleteVms
  BY <1>1, <1>2 DEF DeleteVms, scripting, join
<1>3. CASE DeleteOldContent
  BY <1>1, <1>3 DEF DeleteOldContent, Cleaned, scripting
<1>4. CASE OsImage \/ Resize \/ CreateBase \/ ClusterReady
  <2>1. /\ pc \notin {"idle", "delete", "clean"} /\ pc' \notin {"idle", "delete", "clean"}
        /\ UNCHANGED <<script, at, domains, config, joinFile, joined>>
    BY <1>4 DEF OsImage, Resize, CreateBase, ClusterReady, scripting, join
  <2> QED BY <1>1, <2>1
<1>5. CASE LaunchBase \/ InstallBase \/ LaunchVms
  <2>1. /\ pc \notin {"idle", "delete", "clean"} /\ pc' \notin {"idle", "delete", "clean"}
        /\ UNCHANGED <<script, at, config, joinFile, joined>>
        /\ \A d \in domains' : d \in domains \/ d \in BaseVms \/ d \in Vms
    BY <1>5 DEF LaunchBase, InstallBase, LaunchVms, scripting, join
  <2>2. \A d \in BaseVms : d.run = Run
    BY DEF BaseVms
  <2>3. \A d \in Vms : d.run = Run
    <3> DEFINE before(h) == MapThenSumSet(LAMBDA g : config.vms[g], {g \in Hosts : g < h})
    <3>1. Vms = UNION {{[host |-> h, address |-> <<"vm", before(h) + k>>, run |-> Run] :
                            k \in 1..config.vms[h]} : h \in Hosts}
      BY Zenon DEF Vms
    <3> HIDE DEF before
    <3> QED BY <3>1
  <2> QED BY <1>1, <2>1, <2>2, <2>3
<1>6. CASE ControlInstall \/ WorkersJoin
  BY <1>1, <1>6 DEF ControlInstall, WorkersJoin, scripting
<1>7. CASE JoinFails \/ RunEnds \/ RunFails
  <2>1. /\ pc' = "idle" /\ domains' \subseteq domains
        /\ script' \in {script, None} /\ at' \in {at + 1, 1}
    BY <1>7 DEF JoinFails, RunEnds, RunFails
  <2> QED BY <1>1, <2>1
<1> QED BY <1>2, <1>3, <1>4, <1>5, <1>6, <1>7 DEF Continuum

LEMMA SpecClusterInv == Spec => []ClusterInv
<1> USE DEF ClusterInv, LogTypeOK, VmsInv, TokenInv
<1>1. Init => ClusterInv
  <2> SUFFICES ASSUME Init PROVE ClusterInv
    OBVIOUS
  <2>1. logs \in Seq([script : {"paper", "kubecontrol", "hand"}, run : Nat])
    BY EmptySeq DEF Init
  <2> QED BY <2>1 DEF Init
<1>2. ClusterInv /\ [Next]_vars => ClusterInv'
  <2> SUFFICES ASSUME ClusterInv, [Next]_vars PROVE ClusterInv'
    OBVIOUS
  <2>1. CASE UNCHANGED vars
    BY <2>1 DEF vars, scripting, join, past, Run
  <2> QED BY <2>1, ScriptCluster, RunCluster DEF Next
<1> QED BY <1>1, <1>2, PTL DEF Spec

-------------------------------------------------------------------------------
(* Addresses *)

\* set_ip_names: before(h) of the text of Vms.
Before(h) == Sum(config.vms, {g \in Hosts : g < h})

RunVms == UNION {{[host |-> h, address |-> <<"vm", Before(h) + k>>, run |-> Run] :
                     k \in 1..config.vms[h]} : h \in Hosts}

\* The VMs of the run are its base VMs or its VMs, or there are none.
OwnVmsInv ==
    pc # "idle" =>
        \A d \in domains : d.run = Run =>
            \/ pc = "install" /\ d \in BaseVms
            \/ pc \in {"cluster", "ready"} /\ d \in RunVms

\* Vms in terms of the sums.
LEMMA VmsAre == Vms = RunVms
BY Zenon DEF Vms, RunVms, Before, Sum

\* They stay what they are during a run.
LEMMA SameVms == UNCHANGED <<config, logs>> => BaseVms' = BaseVms /\ RunVms' = RunVms
BY DEF BaseVms, RunVms, Before, Run

\* The VMs of a host come after those of the hosts before it.
LEMMA BeforeGrows ==
    ASSUME config \in Used, NEW h \in Hosts, NEW g \in Hosts, h < g
    PROVE  /\ config.vms[h] \in Nat /\ Before(h) \in Nat /\ Before(g) \in Nat
           /\ Before(h) + config.vms[h] <= Before(g)
<1> DEFINE below(x) == {y \in Hosts : y < x}
<1>1. /\ IsFiniteSet(Hosts) /\ config.vms \in [Hosts -> Nat]
      /\ Cardinality(Hosts) \in Nat /\ Hosts = 1..Cardinality(Hosts)
  BY RerunsAssumption, FS_CardinalityType DEF RerunsAssumption
<1>2. /\ below(h) \in SUBSET Hosts /\ below(g) \in SUBSET Hosts /\ h \in Hosts \ below(h)
      /\ below(h) \cup {h} \in SUBSET below(g)
  BY <1>1
<1>3. Before(h) = Sum(config.vms, below(h)) /\ Before(g) = Sum(config.vms, below(g))
  BY DEF Before
<1> HIDE DEF below
<1>4. /\ Sum(config.vms, below(h)) \in Nat /\ Sum(config.vms, below(g)) \in Nat
      /\ \A x \in Hosts \ below(h) :
            Sum(config.vms, below(h) \cup {x}) = Sum(config.vms, below(h)) + config.vms[x]
  BY <1>1, <1>2, SumOverSet
<1>5. Sum(config.vms, below(h) \cup {h}) <= Sum(config.vms, below(g))
  BY <1>1, <1>2, SumMonotone
<1>6. config.vms[h] \in Nat
  BY <1>1
<1> QED BY <1>2, <1>3, <1>4, <1>5, <1>6

\* No two VMs of a run get the same address.
LEMMA VmsDiffer ==
    ASSUME config \in Used, NEW d \in RunVms, NEW e \in RunVms, d.address = e.address
    PROVE  d = e
<1>1. PICK h \in Hosts : \E k \in 1..config.vms[h] :
          d = [host |-> h, address |-> <<"vm", Before(h) + k>>, run |-> Run]
  BY DEF RunVms
<1>2. PICK g \in Hosts : \E l \in 1..config.vms[g] :
          e = [host |-> g, address |-> <<"vm", Before(g) + l>>, run |-> Run]
  BY DEF RunVms
<1>3. PICK k \in 1..config.vms[h], l \in 1..config.vms[g] :
          /\ d = [host |-> h, address |-> <<"vm", Before(h) + k>>, run |-> Run]
          /\ e = [host |-> g, address |-> <<"vm", Before(g) + l>>, run |-> Run]
          /\ Before(h) + k = Before(g) + l
  BY <1>1, <1>2
<1>4. h \in Int /\ g \in Int /\ config.vms[h] \in Nat /\ config.vms[g] \in Nat
  BY RerunsAssumption, FS_CardinalityType DEF RerunsAssumption
<1>5. ~ h < g
  <2> SUFFICES ASSUME h < g PROVE FALSE
    OBVIOUS
  <2>1. Before(h) + config.vms[h] <= Before(g) /\ Before(h) \in Nat /\ Before(g) \in Nat
    BY BeforeGrows
  <2> QED BY <1>3, <1>4, <2>1
<1>6. ~ g < h
  <2> SUFFICES ASSUME g < h PROVE FALSE
    OBVIOUS
  <2>1. Before(g) + config.vms[g] <= Before(h) /\ Before(h) \in Nat /\ Before(g) \in Nat
    BY BeforeGrows
  <2> QED BY <1>3, <1>4, <2>1
<1>7. h = g
  BY <1>4, <1>5, <1>6
<1> QED BY <1>3, <1>7

\* Neither do two base VMs.
LEMMA BaseVmsDiffer ==
    ASSUME config \in Used, NEW d \in BaseVms, NEW e \in BaseVms, d.address = e.address
    PROVE  d = e
<1>1. PICK h \in Kept(config) :
          d = [host |-> h, address |-> <<"base", Number(config, h)>>, run |-> Run]
  BY DEF BaseVms
<1>2. PICK g \in Kept(config) :
          e = [host |-> g, address |-> <<"base", Number(config, g)>>, run |-> Run]
  BY DEF BaseVms
<1>3. Number(config, h) = Number(config, g)
  BY <1>1, <1>2
<1>4. /\ IsFiniteSet(Hosts) /\ Kept(config) \subseteq Hosts
      /\ Cardinality(Hosts) \in Nat /\ Hosts = 1..Cardinality(Hosts)
  BY RerunsAssumption, FS_CardinalityType, KeptHosts DEF RerunsAssumption
<1>5. ASSUME NEW x \in Kept(config), NEW y \in Kept(config), x < y
      PROVE  Number(config, x) # Number(config, y)
  <2> DEFINE upTo(z) == {w \in Kept(config) : w <= z}
  <2>1. upTo(x) \subseteq upTo(y) /\ upTo(y) \subseteq Hosts /\ y \in upTo(y) /\ y \notin upTo(x)
    BY <1>4, <1>5
  <2>2. Number(config, x) = Cardinality(upTo(x)) /\ Number(config, y) = Cardinality(upTo(y))
    BY DEF Number
  <2> HIDE DEF upTo
  <2>3. IsFiniteSet(upTo(y))
    BY <1>4, <2>1, FS_Subset
  <2>4. Cardinality(upTo(x)) = Cardinality(upTo(y)) => upTo(x) = upTo(y)
    BY <2>1, <2>3, FS_Subset
  <2> QED BY <2>1, <2>2, <2>4
<1>6. h = g
  <2>1. h \in Int /\ g \in Int
    BY <1>4
  <2> QED BY <1>3, <1>5, <2>1
<1> QED BY <1>1, <1>2, <1>6

\* Only launches add VMs, and each of them when there are none of the run.
LEMMA NextOwnVms == IInv /\ ClusterInv /\ OwnVmsInv /\ [Next]_vars => OwnVmsInv'
<1> SUFFICES ASSUME IInv, ClusterInv, OwnVmsInv, [Next]_vars PROVE OwnVmsInv'
  OBVIOUS
<1>1. CASE pc' = "idle"
  BY <1>1 DEF OwnVmsInv
<1>2. CASE StartRun
  <2>1. Run \in Nat /\ Run' = Run + 1 /\ \A d \in domains' : d.run \in Nat /\ d.run <= Run
    <3>1. Run \in Nat /\ \A d \in domains : d.run \in Nat /\ d.run <= Run
      BY RunType DEF ClusterInv, VmsInv
    <3>2. domains' \subseteq domains
      BY <1>2 DEF StartRun, KillAll
    <3>3. logs \in Seq([script : {"paper", "kubecontrol", "hand"}, run : Nat])
          /\ logs' = Append(logs, [script |-> script, run |-> at])
          /\ [script |-> script, run |-> at] \in [script : {"paper", "kubecontrol", "hand"}, run : Nat]
      BY <1>2 DEF StartRun, ClusterInv, LogTypeOK
    <3>4. Run' = Run + 1
      <4> DEFINE entry == [script |-> script, run |-> at]
      <4> HIDE DEF entry
      <4> QED BY <3>3, AppendProperties DEF Run, entry
    <3> QED BY <3>1, <3>2, <3>4
  <2> QED BY <2>1 DEF OwnVmsInv
<1>3. CASE UNCHANGED vars \/ NewRelease
  <2>1. UNCHANGED <<pc, config, domains, logs>> /\ Run' = Run
    BY <1>3 DEF vars, scripting, past, NewRelease, Run
  <2> QED BY <2>1, SameVms DEF OwnVmsInv
<1>4. CASE Continuum
  <2>1. CASE pc = "idle"
    BY <1>4, <2>1 DEF Continuum, DeleteVms, DeleteOldContent, OsImage, Resize, CreateBase,
       LaunchBase, InstallBase, LaunchVms, ControlInstall, WorkersJoin, ClusterReady, JoinFails, RunEnds
  <2>2. Run' = Run /\ UNCHANGED <<config, logs>>
    BY <1>4 DEF Continuum, DeleteVms, DeleteOldContent, OsImage, Resize, CreateBase, LaunchBase,
       InstallBase, LaunchVms, ControlInstall, WorkersJoin, ClusterReady, JoinFails, RunEnds, past, Run
  <2>3. BaseVms' = BaseVms /\ RunVms' = RunVms
    BY <2>2, SameVms
  <2>4. CASE DeleteVms \/ DeleteOldContent \/ OsImage \/ Resize \/ CreateBase
    BY <2>2, <2>3, <2>4 DEF DeleteVms, DeleteOldContent, OsImage, Resize, CreateBase, OwnVmsInv
  <2>5. CASE LaunchBase \/ InstallBase \/ LaunchVms
    BY <2>2, <2>3, <2>5, VmsAre DEF LaunchBase, InstallBase, LaunchVms, OwnVmsInv
  <2>6. CASE ControlInstall \/ WorkersJoin \/ ClusterReady
    BY <2>2, <2>3, <2>6 DEF ControlInstall, WorkersJoin, ClusterReady, OwnVmsInv
  <2>7. CASE JoinFails \/ RunEnds
    BY <1>1, <2>7 DEF JoinFails, RunEnds
  <2> QED BY <1>4, <2>4, <2>5, <2>6, <2>7 DEF Continuum
<1>5. CASE RunFails \/ StartPaper \/ StartByHand \/ StartKubecontrol \/ SkipRun \/ ScriptEnds
  BY <1>1, <1>5 DEF RunFails, StartPaper, StartByHand, StartKubecontrol, SkipRun, ScriptEnds
<1> QED BY <1>2, <1>3, <1>4, <1>5 DEF Next, Script

\* What a run takes for its own is its own: its addresses are each those of
\* one VM, no VM of another run answers at them, and its workers use its token
\* ("to kill all VMs to preven IP clashing", replicate_kubecontrol.py:40).
THEOREM ClusterIsOwn == Spec => []OwnCluster
<1>1. IInv /\ ClusterInv /\ OwnVmsInv => OwnCluster
  <2> SUFFICES ASSUME IInv, ClusterInv, OwnVmsInv, pc # "idle"
               PROVE  /\ \A d, e \in domains :
                            d.run = Run /\ e # d /\ e.address = d.address =>
                                e.host \notin Kept(config) /\ script # "kubecontrol"
                      /\ 1 \in Kept(config) => joined \in {0, Run}
    BY DEF OwnCluster
  <2>1. ASSUME NEW d \in domains, NEW e \in domains, d.run = Run, e # d, e.address = d.address
        PROVE  e.run # Run
    <3> SUFFICES ASSUME e.run = Run PROVE FALSE
      OBVIOUS
    <3>1. config \in Used
      BY DEF IInv, TypeOK
    <3>2. CASE d \in BaseVms /\ e \in BaseVms
      BY <2>1, <3>1, <3>2, BaseVmsDiffer
    <3>3. CASE d \in RunVms /\ e \in RunVms
      BY <2>1, <3>1, <3>3, VmsDiffer
    <3> QED BY <2>1, <3>2, <3>3 DEF OwnVmsInv
  <2>2. pc = "delete" => \A d \in domains : d.run # Run
    BY DEF ClusterInv, VmsInv
  <2> QED BY <2>1, <2>2 DEF ClusterInv, VmsInv, TokenInv
<1>2. Init => OwnVmsInv
  BY DEF Init, OwnVmsInv
<1> QED BY <1>1, <1>2, NextOwnVms, SpecIInv, SpecClusterInv, PTL DEF Spec

-------------------------------------------------------------------------------
(* The output of a run *)

\* The logs since the series started, and those of them that a script has
\* taken for outputs: all but that of the run that is going on.
Series == Run + 1 - series
Taken == IF pc = "idle" THEN Series ELSE Series - 1

\* The logs of an undisturbed series are those of its runs in their order, and
\* the script takes them as the outputs of the runs in theirs, wherever an
\* earlier script has ended.
SeriesInv ==
    /\ series \in Nat /\ series <= Run + 1
    /\ ~foreign /\ series > 0 =>
          \A k \in series..Run : logs[k] = [script |-> "paper", run |-> k - series + 1]
    /\ script = "paper" =>
          /\ series > 0 /\ at \in Nat \ {0}
          /\ ~foreign =>
                /\ \A i \in DOMAIN output : output[i] = IF i <= Taken THEN series + i - 1 ELSE 0
                /\ at <= Taken + 1 /\ (pc # "idle" => at = Taken + 1 /\ Taken >= 0)
                /\ DOMAIN output = DOMAIN list /\ DOMAIN output \subseteq Nat \ {0}

\* Sorting consecutive numbers leaves them as they are.
LEMMA SortedInterval ==
    ASSUME NEW a \in Nat, NEW b \in Nat, a <= b + 1
    PROVE  /\ DOMAIN Sorted(a..b) = 1..(b - a + 1)
           /\ \A k \in 1..(b - a + 1) : Sorted(a..b)[k] = a + k - 1
<1> DEFINE S == a..b
           R == {p \in S \X S : p[1] < p[2]}
<1>1. Cardinality(S) = b - a + 1
  <2>1. Cardinality(S) = IF a > b THEN 0 ELSE b - a + 1
    BY FS_Interval
  <2> QED BY <2>1
<1>2. ASSUME NEW x \in S PROVE Cardinality(Preceding(S, R, x)) = x - a
  <2>1. Preceding(S, R, x) = a..(x - 1)
    <3>1. \A y : y \in Preceding(S, R, x) <=> y \in S /\ y < x
      BY DEF Preceding
    <3>2. \A y : y \in S /\ y < x <=> y \in a..(x - 1)
      OBVIOUS
    <3> HIDE DEF S, R
    <3> QED BY <3>1, <3>2
  <2>2. Cardinality(a..(x - 1)) = IF a > x - 1 THEN 0 ELSE x - 1 - a + 1
    BY FS_Interval
  <2> QED BY <2>1, <2>2
<1>3. Sorted(S) = [k \in 1..Cardinality(S) |-> CHOOSE x \in S : Cardinality(Preceding(S, R, x)) = k - 1]
  BY DEF Sorted, InOrder
<1> HIDE DEF R
<1>4. ASSUME NEW k \in 1..(b - a + 1)
      PROVE  (CHOOSE x \in S : Cardinality(Preceding(S, R, x)) = k - 1) = a + k - 1
  <2>1. a + k - 1 \in S /\ \A x \in S : Cardinality(Preceding(S, R, x)) = k - 1 <=> x = a + k - 1
    BY <1>2
  <2> QED BY <2>1
<1> QED BY <1>1, <1>3, <1>4

\* check_resume gives the i-th run of a series the i-th log since it started.
LEMMA ResumedSeries ==
    ASSUME LogTypeOK, SeriesInv, series \in DOMAIN logs, NEW i \in DOMAIN Experiments, i \in Nat \ {0}
    PROVE  Resumed(series)[i] = IF i <= Series THEN series + i - 1 ELSE 0
<1>1. Run \in Nat /\ DOMAIN logs = 1..Run
  BY LenProperties DEF LogTypeOK, Run
<1>2. {k \in DOMAIN logs : k >= series} = series..Run
  BY <1>1 DEF SeriesInv
<1>3. /\ DOMAIN Sorted(series..Run) = 1..(Run - series + 1)
      /\ \A k \in 1..(Run - series + 1) : Sorted(series..Run)[k] = series + k - 1
  BY <1>1, SortedInterval DEF SeriesInv
<1>4. Resumed(series)[i] = IF i \in DOMAIN Sorted(series..Run) THEN Sorted(series..Run)[i] ELSE 0
  BY <1>2 DEF Resumed
<1> QED BY <1>1, <1>3, <1>4 DEF Series, SeriesInv

\* Steps that neither start nor end a run or a script.
LEMMA SeriesFrame ==
    ASSUME SeriesInv, UNCHANGED <<logs, series, foreign, script, list, at, output>>,
           pc = "idle" <=> pc' = "idle"
    PROVE  SeriesInv'
<1>1. Run' = Run /\ Series' = Series /\ Taken' = Taken
  BY DEF Run, Series, Taken
<1> QED BY <1>1 DEF SeriesInv

\* Between runs.
LEMMA ScriptSeries == ClusterInv /\ SeriesInv /\ Script => SeriesInv'
<1> SUFFICES ASSUME ClusterInv, SeriesInv, Script PROVE SeriesInv'
  OBVIOUS
<1>1. Run \in Nat /\ DOMAIN logs = 1..Run /\ LogTypeOK
  BY LenProperties DEF ClusterInv, LogTypeOK, Run
<1>2. DOMAIN Experiments = 1..Len(Experiments) /\ Len(Experiments) \in Nat
  BY RerunsAssumption, LenProperties DEF RerunsAssumption
<1>3. CASE StartPaper
  <2>1. /\ script' = "paper" /\ list' = Experiments /\ at' = 1 /\ pc = "idle" /\ pc' = "idle"
        /\ logs' = logs /\ Run' = Run
    BY <1>3 DEF StartPaper, Run
  <2>2. CASE output' = [i \in DOMAIN Experiments |-> 0] /\ series' = Run + 1 /\ foreign' = FALSE
    BY <1>1, <1>2, <2>1, <2>2 DEF SeriesInv, Series, Taken
  <2>3. CASE series \in DOMAIN logs /\ output' = Resumed(series) /\ UNCHANGED <<series, foreign>>
    <3>1. \A i \in DOMAIN Experiments :
             Resumed(series)[i] = IF i <= Series THEN series + i - 1 ELSE 0
      BY <1>1, <1>2, <2>3, ResumedSeries
    <3>2. DOMAIN Resumed(series) = DOMAIN Experiments
      BY DEF Resumed
    <3>3. Series' = Series /\ Taken' = Series /\ Series \in Nat \ {0}
      BY <1>1, <2>1, <2>3 DEF Series, Taken
    <3> QED BY <1>1, <1>2, <2>1, <2>3, <3>1, <3>2, <3>3 DEF SeriesInv
  <2> QED BY <1>3, <2>2, <2>3 DEF StartPaper
<1>4. CASE StartKubecontrol \/ StartByHand \/ ScriptEnds
  <2>1. script' # "paper" /\ UNCHANGED past /\ Run' = Run
    BY <1>4 DEF StartKubecontrol, StartByHand, ScriptEnds, None, past, Run
  <2> QED BY <2>1 DEF past, SeriesInv
<1>5. CASE SkipRun
  <2>1. /\ pc = "idle" /\ at \in DOMAIN list /\ output[at] # 0 /\ at' = at + 1
        /\ UNCHANGED <<script, list, output, pc, logs, series, foreign>> /\ Run' = Run
    BY <1>5 DEF SkipRun, past, Run
  <2>2. Series' = Series /\ Taken' = Taken /\ Taken \in Int
    BY <1>1, <2>1 DEF Series, Taken, SeriesInv
  <2> QED BY <2>1, <2>2 DEF SeriesInv
<1>6. CASE StartRun
  <2> DEFINE entry == [script |-> script, run |-> at]
  <2>1. /\ pc = "idle" /\ pc' = "delete" /\ at \in DOMAIN list /\ output[at] = 0
        /\ logs' = Append(logs, entry) /\ foreign' = (foreign \/ script # "paper")
        /\ UNCHANGED <<script, list, at, output, series>>
    BY <1>6 DEF StartRun, scripting
  <2>2. /\ Run' = Run + 1 /\ logs'[Run + 1] = entry
        /\ \A k \in 1..Run : logs'[k] = logs[k]
    <3>1. logs \in Seq([script : {"paper", "kubecontrol", "hand"}, run : Nat])
          /\ entry \in [script : {"paper", "kubecontrol", "hand"}, run : Nat]
      BY <1>1, <1>6 DEF StartRun, LogTypeOK
    <3> HIDE DEF entry
    <3> QED BY <2>1, <3>1, AppendProperties DEF Run
  <2>3. CASE script # "paper"
    <3>1. foreign'
      BY <2>1, <2>3, Zenon
    <3> QED BY <1>1, <2>1, <2>2, <2>3, <3>1 DEF SeriesInv
  <2>4. CASE script = "paper" /\ foreign
    <3>1. foreign'
      BY <2>1, <2>4, Zenon
    <3> QED BY <1>1, <2>1, <2>2, <2>4, <3>1 DEF SeriesInv
  <2>5. CASE script = "paper" /\ ~foreign
    <3>1. at = Series + 1 /\ series \in Nat \ {0}
      BY <1>1, <2>1, <2>5 DEF SeriesInv, Taken, Series
    <3>2. Series' = Series + 1 /\ Taken' = Series /\ Taken = Series /\ Series \in Nat
      BY <1>1, <2>1, <2>2 DEF SeriesInv, Series, Taken
    <3>3. at = Run - series + 2
      BY <1>1, <3>1 DEF Series
    <3>4. \A k \in series..Run' : logs'[k] = [script |-> "paper", run |-> k - series + 1]
      <4>1. \A k \in series..Run : logs'[k] = [script |-> "paper", run |-> k - series + 1]
        BY <1>1, <2>2, <2>5, <3>1 DEF SeriesInv
      <4>2. logs'[Run + 1] = [script |-> "paper", run |-> Run + 1 - series + 1]
        BY <1>1, <2>2, <2>5, <3>1, <3>3
      <4> QED BY <1>1, <2>2, <3>1, <4>1, <4>2
    <3> QED BY <1>1, <2>1, <2>2, <2>5, <3>1, <3>2, <3>4 DEF SeriesInv
  <2> QED BY <2>3, <2>4, <2>5 DEF SeriesInv
<1> QED BY <1>3, <1>4, <1>5, <1>6 DEF Script

\* A run, and how it ends.
LEMMA RunSeries == ClusterInv /\ SeriesInv /\ (Continuum \/ RunFails) => SeriesInv'
<1> SUFFICES ASSUME ClusterInv, SeriesInv, Continuum \/ RunFails PROVE SeriesInv'
  OBVIOUS
<1>1. Run \in Nat
  BY LenProperties DEF ClusterInv, LogTypeOK, Run
<1>2. CASE JoinFails \/ RunEnds \/ RunFails
  <2>1. pc # "idle" /\ pc' = "idle" /\ UNCHANGED past /\ Run' = Run
    BY <1>2 DEF JoinFails, RunEnds, RunFails, past, Run
  <2>2. CASE script' = None
    BY <2>1, <2>2 DEF SeriesInv, past, None
  <2>3. CASE output' = [output EXCEPT ![at] = Run] /\ at' = at + 1 /\ UNCHANGED <<script, list>>
    <3>1. Series' = Series /\ Taken' = Series /\ Taken = Series - 1 /\ Series \in Int
      BY <1>1, <2>1 DEF Series, Taken, past, SeriesInv
    <3>2. CASE script = "paper" /\ ~foreign
      <4>1. at = Series /\ Series >= 1 /\ Run = series + at - 1
        BY <1>1, <2>1, <3>1, <3>2 DEF SeriesInv, Series
      <4>2. \A i \in DOMAIN output : output'[i] = IF i <= Series THEN series + i - 1 ELSE 0
        BY <1>1, <2>3, <3>1, <3>2, <4>1 DEF SeriesInv
      <4> QED BY <1>1, <2>1, <2>3, <3>1, <3>2, <4>1, <4>2 DEF SeriesInv, past
    <3>3. CASE script # "paper" \/ foreign
      BY <1>1, <2>1, <2>3, <3>3 DEF SeriesInv, past
    <3> QED BY <3>2, <3>3 DEF SeriesInv
  <2> QED BY <1>2, <2>2, <2>3 DEF JoinFails, RunEnds, RunFails
<1>3. CASE DeleteVms \/ DeleteOldContent \/ OsImage \/ Resize \/ CreateBase \/ LaunchBase
           \/ InstallBase \/ LaunchVms \/ ControlInstall \/ WorkersJoin \/ ClusterReady
  <2>1. UNCHANGED <<logs, series, foreign, script, list, at, output>> /\ pc # "idle" /\ pc' # "idle"
    BY <1>3 DEF DeleteVms, DeleteOldContent, OsImage, Resize, CreateBase, LaunchBase, InstallBase,
       LaunchVms, ControlInstall, WorkersJoin, ClusterReady, scripting, past
  <2> QED BY <2>1, SeriesFrame
<1> QED BY <1>2, <1>3 DEF Continuum

\* What replicate_paper takes for the output of a run is the log of that run,
\* however often it was resumed and whatever has failed (replicate_paper.py:80).
THEOREM OutputsAreTheRuns == Spec => []OutputOfItsRun
<1>1. Init => SeriesInv
  <2> SUFFICES ASSUME Init PROVE SeriesInv
    OBVIOUS
  <2>1. Run = 0 /\ series = 0 /\ foreign = FALSE /\ script # "paper"
    BY DEF Init, Run, None
  <2> QED BY <2>1 DEF SeriesInv
<1>2. ClusterInv /\ SeriesInv /\ [Next]_vars => SeriesInv'
  <2> SUFFICES ASSUME ClusterInv, SeriesInv, [Next]_vars PROVE SeriesInv'
    OBVIOUS
  <2>1. CASE UNCHANGED vars \/ NewRelease
    BY <2>1, SeriesFrame DEF vars, NewRelease, scripting, past
  <2> QED BY <2>1, ScriptSeries, RunSeries DEF Next
<1>3. ClusterInv /\ SeriesInv => OutputOfItsRun
  <2> SUFFICES ASSUME ClusterInv, SeriesInv, script = "paper", ~foreign,
                      NEW i \in DOMAIN output, output[i] # 0
               PROVE  logs[output[i]] = [script |-> "paper", run |-> i]
    BY DEF OutputOfItsRun
  <2>1. Run \in Nat
    BY LenProperties DEF ClusterInv, LogTypeOK, Run
  <2>2. /\ i \in Nat \ {0} /\ i <= Taken /\ output[i] = series + i - 1 /\ series \in Nat \ {0}
    BY DEF SeriesInv
  <2>3. output[i] \in series..Run /\ output[i] - series + 1 = i
    BY <2>1, <2>2 DEF Taken, Series
  <2> QED BY <2>2, <2>3 DEF SeriesInv
<1> QED BY <1>1, <1>2, <1>3, SpecClusterInv, PTL DEF Spec
===============================================================================
