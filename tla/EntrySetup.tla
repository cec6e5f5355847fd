----------------------------- MODULE EntrySetup -----------------------------
(***************************************************************************)
(* The life of the config entry: async_setup_entry (__init__.py) with the  *)
(* selections it makes (discovery.py, stream_bindings.py), the entities of *)
(* the platforms, the clean-up of the entity registry, the options flow    *)
(* (config_flow.py) and the reloads.                                       *)
(*                                                                         *)
(* A camera stands for its MAC address, its registration id and its Orbweb *)
(* target.  Setup runs from one await to the next; every request may stay  *)
(* without an answer, and the options may be edited meanwhile.  Addresses  *)
(* change only while the entry is not set up.  The registry survives.      *)
(***************************************************************************)
EXTENDS Integers, Sequences, FiniteSetsExt, Functions

CONSTANTS
    Cameras, Nobody,
    Hosts,          \* addresses, numbered in the order of the options and of ARP
    Accounts,       \* what the cloud may know: a record for each camera
    Options,        \* what the user may save
    Leftovers,      \* entities that an older release left behind
    LanModels,      \* models whose command service answers on the LAN
    MaxChanges      \* edits, restarts and moves of cameras

ASSUME HostsAssumption == IsFiniteSet(Hosts) /\ Hosts = 1 .. Cardinality(Hosts)
ASSUME NobodyAssumption == Nobody \notin Cameras \cup Hosts /\ Cameras \cap Hosts = {}
ASSUME OptionsAssumption == \A o \in Options : o.hosts \subseteq Hosts /\ o.ids \subseteq Cameras
\* The firmware of a 3667 has no command service on the LAN.
ASSUME LanModelsAssumption == "3667" \notin LanModels
ASSUME BoundAssumption == MaxChanges \in Nat

VARIABLES
    account,            \* model, credentials, lists and MAC of each camera
    occupant, former,   \* the camera at each address, the one before it
    options,            \* entry.options
    pc, read,           \* where the setup is, and the options it has read
    todo,               \* registration ids to be looked up one by one
    cloud, additional,  \* cloud_cameras; those that were looked up
    arp, specs,         \* the ARP table by address; local_camera_specs
    data, direct,       \* addresses that answered the getters, and RTSP
    listener, reload,   \* the update listener, and the reload it asked for
    missed,             \* options were edited before the listener was there
    registry,           \* unique ids of the entity registry
    changes             \* what the bound has counted

world == <<account, occupant, former>>
flow  == <<options, listener, reload, missed>>
found == <<todo, cloud, additional>>
lan   == <<arp, specs, data, direct>>
vars  == <<world, flow, found, lan, pc, read, registry, changes>>

-----------------------------------------------------------------------------
(* discovery.py *)

Mac(c) == IF account[c].mac THEN c ELSE Nobody
Is3667(c) == account[c].model = "3667"

\* The last complete line of the table with this MAC.
ArpHost(table, c) ==
    LET lines == {h \in Hosts : table[h] = c}
    IN  IF lines = {} THEN Nobody ELSE Max(lines)

\* cloud_mac_by_host: the cloud camera whose MAC is at this address.
OwnedAt(table, h) == {c \in cloud : Mac(c) = c /\ ArpHost(table, c) = h}
CloudMac(table, h) == IF OwnedAt(table, h) = {} THEN Nobody
                      ELSE CHOOSE c \in OwnedAt(table, h) : TRUE

\* Addresses as a list.
InOrder(hosts) ==
    [i \in 1 .. Cardinality(hosts) |->
        CHOOSE h \in hosts : Cardinality({g \in hosts : g < h}) = i - 1]

\* Mutant: a configured address is discovered once more.
DiscoveredAgain(table, verified) ==
    LET owned == {h \in Hosts : OwnedAt(table, h) # {}}
        hosts == InOrder(read.hosts) \o InOrder(owned)
    IN  [i \in DOMAIN hosts |-> [host |-> hosts[i], mac |-> CloudMac(table, hosts[i])]]

\* Configured addresses first, then those the cloud owns, then the neighbours
\* whose getter confirms the MAC of the table.
Discovered(table, verified) ==
    LET owned == {h \in Hosts \ read.hosts : OwnedAt(table, h) # {}}
        probed == {h \in verified \ read.hosts :
                      /\ OwnedAt(table, h) = {}
                      /\ ArpHost(table, table[h]) = h /\ occupant[h] = table[h]}
        hosts == InOrder(read.hosts) \o InOrder(owned) \o InOrder(probed)
    IN  [i \in DOMAIN hosts |-> [host |-> hosts[i], mac |-> CloudMac(table, hosts[i])]]

SpecHosts == {specs[i].host : i \in DOMAIN specs}
SpecMac(h) == LET s == CHOOSE s \in Range(specs) : s.host = h IN s.mac

\* Only cameras of the cloud are polled through it or through Orbweb.
Candidates == {c \in cloud : Is3667(c)} \cup additional

\* Mutant: every camera of the cloud loses its local entities.
SelectNoCloudSpecs == {h \in SpecHosts : SpecMac(h) \notin {Mac(c) : c \in cloud} \ {Nobody}}

\* select_local_entity_specs
LocalHosts == {h \in SpecHosts : SpecMac(h) \notin
                   {Mac(c) : c \in {d \in Candidates : Is3667(d)}} \ {Nobody}}

\* The model of the getter, else of the cloud camera with this MAC.
CloudModel(mac) == IF mac \in {c \in cloud : Mac(c) = c} THEN account[mac].model ELSE "unknown"
LocalData(h) == h \in data /\ h \in LocalHosts
Model(h) == IF LocalData(h) THEN account[occupant[h]].model ELSE CloudModel(SpecMac(h))

\* Mutant: an unknown model counts as unsafe.
KnownModelsOnly == {h \in LocalHosts : Model(h) \notin {"0667", "unknown"}}

\* select_image_level_entity_specs
ImageHosts == {h \in LocalHosts : Model(h) # "0667"}

-----------------------------------------------------------------------------
(* stream_bindings.py and the targets of the mapping pool *)

Seen(h) == IF LocalData(h) THEN occupant[h] ELSE Nobody

StreamMac(spec) == IF spec.mac # Nobody THEN spec.mac ELSE Seen(spec.host)

WithCredentials == {c \in cloud : account[c].orbweb}

\* The first spec that is this camera's represents it.
Representing(c) == {i \in DOMAIN specs : Mac(c) = c /\ StreamMac(specs[i]) = c}
FirstHost(c) == specs[CHOOSE i \in Representing(c) : \A j \in Representing(c) : i <= j].host

Binding(key, c) == [key |-> key, target |-> c]

\* Mutant: an address that shows its camera directly does not represent it.
StreamsOfUnseen ==
    {Binding(IF Representing(c) = {} \/ FirstHost(c) \in direct THEN c ELSE FirstHost(c), c) :
        c \in WithCredentials}

StreamBindings ==
    {Binding(FirstHost(c), c) :
        c \in {d \in WithCredentials : Representing(d) # {} /\ FirstHost(d) \notin direct}}
    \cup {Binding(c, c) : c \in {d \in WithCredentials : Representing(d) = {}}}

\* Mutant: commands always have a mapping of their own.
CommandKeyOwn(c) == c

\* Only the MAC the cloud has given to a spec counts.
CommandKey(c) ==
    LET own == {s \in Range(specs) : Mac(c) = c /\ s.mac = c}
    IN  IF own = {} THEN c ELSE (CHOOSE s \in own : TRUE).host

OrbwebCommands == {c \in Candidates : Is3667(c) /\ account[c].orbweb}
CommandBindings == {Binding(CommandKey(c), c) : c \in OrbwebCommands}
CloudCommands == Candidates \ OrbwebCommands

\* What the pool opens for a key: commands are entered over streams.
PoolTarget(key) ==
    LET of(bindings) == {b \in bindings : b.key = key}
    IN  IF of(CommandBindings) # {} THEN (CHOOSE b \in of(CommandBindings) : TRUE).target
        ELSE (CHOOSE b \in of(StreamBindings) : TRUE).target

-----------------------------------------------------------------------------
(* Entities and the registry *)

ImageSuffixes == {"brightness", "brightness_setting", "contrast", "contrast_setting"}

\* Mutant: a suffix is missing in the list.
LocalSuffixesShort ==
    {"temperature", "wifi_strength", "video_bitrate", "night_vision", "video_bitrate_setting",
     "indicator_led", "ceiling_mount"} \cup ImageSuffixes

LocalSuffixes ==
    {"temperature", "wifi_strength", "video_bitrate", "connectivity", "night_vision",
     "video_bitrate_setting", "indicator_led", "ceiling_mount"} \cup ImageSuffixes

\* The async_setup_entry of each platform.
Sensors ==
    LocalHosts \X {"temperature", "wifi_strength", "video_bitrate"}
    \cup ImageHosts \X {"brightness", "contrast"}
    \cup (CloudCommands \cup OrbwebCommands) \X {"temperature", "wifi_strength", "video_bitrate"}
    \cup OrbwebCommands \X {"brightness"}
BinarySensors == LocalHosts \X {"connectivity"}
Numbers ==
    ImageHosts \X {"brightness_setting", "contrast_setting"}
    \cup OrbwebCommands \X {"brightness_setting"}
Selects == (LocalHosts \cup OrbwebCommands) \X {"night_vision", "video_bitrate_setting"}
Switches == LocalHosts \X {"indicator_led", "ceiling_mount"} \cup OrbwebCommands \X {"ceiling_mount"}
CameraEntities == (direct \cup {b.key : b \in StreamBindings}) \X {"camera"}

Entities == Sensors \cup BinarySensors \cup Numbers \cup Selects \cup Switches \cup CameraEntities

\* _ORBWEB_3667_UNSUPPORTED_ENTITY_SUFFIXES
UnsupportedSuffixes == {"contrast", "contrast_setting"}

\* Older releases had the local entities, and contrast entities for a 3667.
ASSUME LeftoversAssumption ==
    Leftovers \subseteq Hosts \X LocalSuffixes \cup Cameras \X UnsupportedSuffixes

\* _remove_suppressed_local_entities, _remove_unsafe_image_entities,
\* _remove_unsupported_orbweb_command_entities
Stale == (SpecHosts \ LocalHosts) \X LocalSuffixes
         \cup (LocalHosts \ ImageHosts) \X ImageSuffixes
         \cup OrbwebCommands \X UnsupportedSuffixes

-----------------------------------------------------------------------------
NoTable == [h \in Hosts |-> Nobody]

Init ==
    /\ account \in Accounts
    /\ occupant \in {f \in [Hosts -> Cameras \cup {Nobody}] :
                        \A g, h \in Hosts : g # h /\ f[g] = f[h] => f[g] = Nobody}
    /\ former = NoTable
    /\ options \in Options /\ read = options
    /\ pc = "unloaded"
    /\ todo = {} /\ cloud = {} /\ additional = {}
    /\ arp = NoTable /\ specs = <<>> /\ data = {} /\ direct = {}
    /\ listener = FALSE /\ reload = FALSE /\ missed = FALSE
    /\ registry = Leftovers
    /\ changes = 0

Step(from, to) == pc = from /\ pc' = to

\* The options are read before the first await.
Start ==
    /\ Step("unloaded", IF options.login THEN "authenticate" ELSE "discover")
    /\ read' = options
    /\ missed' = FALSE
    /\ UNCHANGED <<world, options, listener, reload, found, lan, registry, changes>>

Authenticate ==
    /\ pc = "authenticate" /\ pc' \in {"inventory", "discover"}
    /\ UNCHANGED <<world, flow, found, lan, read, registry, changes>>

\* The cameras in one of the account's lists.
Listed(list) == {c \in Cameras : list \in account[c].lists}

\* An error leaves the list empty and the setup goes on.
Inventory ==
    /\ Step("inventory", "subscription")
    /\ cloud' \in {{}, Listed("own")}
    /\ UNCHANGED <<world, flow, todo, additional, lan, read, registry, changes>>

Subscription ==
    /\ Step("subscription", "recover")
    /\ todo' \in {{}, {c \in Listed("subscription") \ cloud : Is3667(c)}}
    /\ UNCHANGED <<world, flow, cloud, additional, lan, read, registry, changes>>

\* Ids are looked up one after the other; one that fails is left out.
LookedUp(ids) ==
    \E answered \in SUBSET ids :
        /\ additional' = additional \cup answered
        /\ cloud' = cloud \cup answered

Recover ==
    /\ Step("recover", "manual")
    /\ LookedUp(todo)
    /\ todo' = read.ids \ cloud'
    /\ UNCHANGED <<world, flow, lan, read, registry, changes>>

Manual ==
    /\ Step("manual", "diagnostic")
    /\ LookedUp(todo)
    /\ todo' = {}
    /\ UNCHANGED <<world, flow, lan, read, registry, changes>>

\* The structure file is written; an OSError fails the setup.
Diagnostic ==
    /\ pc = "diagnostic" /\ pc' \in {"discover", "failed"}
    /\ UNCHANGED <<world, flow, found, lan, read, registry, changes>>

\* A line of the table may be missing or outdated, the file may be unreadable.
Tables ==
    {t \in [Hosts -> Cameras \cup {Nobody}] :
        \A h \in Hosts : t[h] \in {Nobody, occupant[h], former[h]}}

\* Addresses whose getters can answer.
Reachable == {h \in Hosts : occupant[h] # Nobody /\ account[occupant[h]].model \in LanModels}

Discover ==
    /\ Step("discover", "local")
    /\ \E table \in Tables, verified \in SUBSET Reachable :
          arp' = table /\ specs' = Discovered(table, verified)
    /\ UNCHANGED <<world, flow, found, data, direct, read, registry, changes>>

\* The first refresh of the local coordinator: metadata of those that answer.
LocalRefresh ==
    /\ Step("local", "rtsp")
    /\ data' \in SUBSET (LocalHosts \cap Reachable)
    /\ UNCHANGED <<world, flow, found, arp, specs, direct, read, registry, changes>>

ProbeRtsp ==
    /\ Step("rtsp", "commands")
    /\ direct' \in SUBSET {h \in SpecHosts : occupant[h] # Nobody}
    /\ UNCHANGED <<world, flow, found, arp, specs, data, read, registry, changes>>

\* Mutant: the options are listened to no more after the first setup.
ListenedOnce == changes = 0

Listened == TRUE

\* The first refreshes of the command coordinators are over; from here to the
\* platforms there is no await.
Finish ==
    /\ Step("commands", "forward")
    /\ registry' = registry \ Stale
    /\ listener' = Listened
    /\ UNCHANGED <<world, options, reload, missed, found, lan, read, changes>>

Forward ==
    /\ Step("forward", "loaded")
    /\ registry' = registry \cup Entities
    /\ UNCHANGED <<world, flow, found, lan, read, changes>>

-----------------------------------------------------------------------------
(* Around the setup *)

Changed == changes < MaxChanges /\ changes' = changes + 1

\* The options flow saves what it has validated; Home Assistant calls the
\* listener, which asks for a reload.
Edit ==
    /\ Changed
    /\ options' \in Options \ {options}
    /\ options'.ids # {} => options'.login
    /\ reload' = (reload \/ listener)
    /\ missed' = (missed \/ pc \notin {"unloaded", "forward", "loaded"})
    /\ UNCHANGED <<world, listener, found, lan, pc, read, registry>>

\* The runtime data and the listener of the setup are gone.
Unloaded ==
    /\ reload' = FALSE /\ listener' = FALSE
    /\ todo' = {} /\ cloud' = {} /\ additional' = {}
    /\ arp' = NoTable /\ specs' = <<>> /\ data' = {} /\ direct' = {}

\* async_reload: waits for a running setup, unloads and sets up again.
Reload ==
    /\ Step("loaded", "unloaded")
    /\ reload
    /\ Unloaded
    /\ UNCHANGED <<world, options, missed, read, registry, changes>>

\* The user reloads, or Home Assistant restarts.
Restart ==
    /\ Changed
    /\ pc \in {"loaded", "failed"} /\ pc' = "unloaded"
    /\ Unloaded
    /\ UNCHANGED <<world, options, missed, read, registry>>

\* A camera gets another address, or leaves the network.
Move ==
    /\ Changed
    /\ pc = "unloaded"
    /\ \E c \in Cameras, g \in Hosts :
          /\ occupant[g] = c
          /\ former' = [former EXCEPT ![g] = c]
          /\ \E h \in Hosts \cup {Nobody} :
                /\ h # Nobody => occupant[h] = Nobody
                /\ occupant' = [x \in Hosts |-> CASE x = g -> Nobody [] x = h -> c
                                                  [] OTHER -> occupant[x]]
    /\ UNCHANGED <<account, flow, found, lan, pc, read, registry>>

Setup ==
    \/ Start \/ Authenticate \/ Inventory \/ Subscription \/ Recover \/ Manual \/ Diagnostic
    \/ Discover \/ LocalRefresh \/ ProbeRtsp \/ Finish \/ Forward

Next == Setup \/ Edit \/ Reload \/ Restart \/ Move

Spec == Init /\ [][Next]_vars

-----------------------------------------------------------------------------
\* Every variable keeps its type.
TypeOK ==
    /\ account \in Accounts
    /\ occupant \in [Hosts -> Cameras \cup {Nobody}] /\ former \in [Hosts -> Cameras \cup {Nobody}]
    /\ options \in Options /\ read \in Options
    /\ pc \in {"unloaded", "authenticate", "inventory", "subscription", "recover", "manual",
              "diagnostic", "discover", "local", "rtsp", "commands", "forward", "loaded", "failed"}
    /\ todo \subseteq Cameras /\ additional \subseteq cloud /\ cloud \subseteq Cameras
    /\ arp \in [Hosts -> Cameras \cup {Nobody}]
    /\ specs \in Seq([host : Hosts, mac : Cameras \cup {Nobody}])
    /\ data \subseteq Hosts /\ direct \subseteq SpecHosts
    /\ {listener, reload, missed} \subseteq BOOLEAN
    /\ \A e \in registry : e[1] \in Hosts \cup Cameras
    /\ changes \in 0 .. MaxChanges

Bound == pc \in {"commands", "forward", "loaded"}
Truthful == \A h \in Hosts : arp[h] \in {Nobody, occupant[h]}

\* Whatever is outdated or does not answer, no address is listed twice, and the
\* pool opens for every stream and every command of a camera a transport to that
\* camera, and never two transports to one camera.
RoutesOwnCamera ==
    LET bindings == StreamBindings \cup CommandBindings
    IN  Bound => Cardinality(SpecHosts) = Len(specs) /\ \A x, y \in bindings :
            /\ PoolTarget(x.key) = x.target
            /\ x.target = y.target => x.key = y.key

\* The entities that show a camera.
Views(c) ==
    {h \in direct : occupant[h] = c} \cup {b.key : b \in {s \in StreamBindings : s.target = c}}

\* The setup knows at which address the camera is.
Located(c) == \E h \in SpecHosts : occupant[h] = c /\ Mac(c) = c /\ (arp[h] = c \/ LocalData(h))

\* With an ARP table that is incomplete but not outdated, a camera with Orbweb
\* credentials is shown by one camera entity: never by none, and by two only
\* when nothing tells that it is the one that answers RTSP.
ShownOnce ==
    Bound /\ Truthful =>
        \A c \in WithCredentials :
            /\ Views(c) # {}
            /\ Located(c) => Cardinality(Views(c)) = 1

\* After a setup an address it has found, or a camera it commands through Orbweb,
\* has no other entity left in the registry than those it creates, whatever earlier
\* setups and releases have created there.  Camera entities are exempt: the clean-up
\* preserves them (__init__.py:433), also those that are not created again.
RegistryClean ==
    pc = "loaded" =>
        \A e \in registry :
            e[1] \in SpecHosts \cup OrbwebCommands /\ e[2] # "camera" => e \in Entities

\* A setup removes entities of an address for no other cause than a 3667 or an
\* unsafe model seen there, however little of the cloud or the LAN answers;
\* never a camera entity, and none that it creates again.
RemovedForCause ==
    [][\A e \in registry \ registry' :
          /\ e \notin Entities /\ e[2] # "camera"
          /\ e[1] \in Hosts =>
                \E c \in {occupant[e[1]], former[e[1]]} \ {Nobody} :
                    Is3667(c) \/ (account[c].model = "0667" /\ e[2] \in ImageSuffixes)]_vars

\* A loaded entry for which no reload is under way runs with the options that
\* are saved, unless they were saved while the setup ran that now is loaded.
OptionsInForce == pc = "loaded" /\ ~reload => read = options \/ missed
=============================================================================
