------------------------------- MODULE Layer -------------------------------
(***************************************************************************)
(* The Vulkan layer of shim/mod.rs: the game's threads create and destroy   *)
(* an instance, surfaces, devices and swapchains, acquire, present and      *)
(* submit, and every call goes through the handle table Maps to the driver  *)
(* or to a swapchain wrapper.  Creation, destruction and presents hold the  *)
(* API lock, which is RecursiveLock; the other calls do not.                *)
(*                                                                         *)
(* The driver is as strict as the Vulkan specification: `illegal` collects  *)
(* what it was asked against its rules.  The game keeps the rules it knows  *)
(* of: no two of its calls that conflict run at once.  Handles are          *)
(* addresses and are used again, those of the proxies among them, which the *)
(* driver never made.                                                       *)
(***************************************************************************)
EXTENDS RecursiveLock, FeatureChain, Functions

CONSTANTS
  Devices,       \* device handles
  Handles,       \* swapchain handles
  Surfaces,
  LayerOf,       \* the Metal layer behind each surface
  Defers         \* the game may keep retired swapchains of a surface

(* What calls use besides the handles: the instance and a device's queue.   *)
Instance == <<"instance">>
Queue(d) == <<"queue", d>>

(* One handle is one object: a device is not a surface.                     *)
ASSUME LayerAssumption ==
  /\ None \notin {Instance} \cup Handles \cup Devices \cup Surfaces
  /\ Instance \notin Devices \cup Surfaces
  /\ Devices \cap Surfaces = {}
  /\ DOMAIN LayerOf = Surfaces
  /\ Defers \in BOOLEAN

VARIABLES
  live,            \* objects that exist, the driver's and the shim's
  active,          \* driver: each surface's swapchain that is not retired
  illegal,         \* driver: what it was asked against its rules
  instance,        \* Maps::instances: how the instance was registered
  devices,         \* Maps::devices
  swapchains,      \* Maps::swapchains
  proxySupported,  \* metal::proxy_supported
  vulkanLayers,    \* VULKAN_LAYERS
  surfaces,        \* SURFACES
  owned,           \* the instance, devices and surfaces the game holds
  chains,          \* the swapchains it holds, as it knows them
  beside,          \* surfaces it made while it destroyed one of their layer
  call             \* the call each thread is in

lockVars == vars
driver == <<live, active, illegal>>
tables == <<instance, devices, swapchains, proxySupported>>
registry == <<vulkanLayers, surfaces>>
game == <<owned, chains, beside>>
layerVars == <<driver, tables, registry, game, call, lockVars>>

(* A map with an entry more, as HashMap::insert leaves it.                  *)
With(map, key, value) ==
  [k \in DOMAIN map \cup {key} |-> IF k = key THEN value ELSE map[k]]

(* A call: what it is and where it is in it; the device, surface and handles*)
(* it is about; what is still to be dropped; and what it uses alone and     *)
(* what it shares, which decides which calls a game that keeps the rules    *)
(* may make at once.                                                        *)
NewCall(op, step, d, alone, shared) ==
  [op |-> op, step |-> step, d |-> d, alone |-> alone, shared |-> shared,
   s |-> None, h |-> None, old |-> None, new |-> None, hs |-> {}, wrapper |-> "none",
   left |-> <<>>, shared_layer |-> FALSE]

Idle == NewCall("none", "none", None, {}, {})

Object(kind, id, on) == [kind |-> kind, id |-> id, on |-> on]
Alive(kind, id) == \E o \in live : o.kind = kind /\ o.id = id
Without(kinds, id) == {o \in live : ~(o.kind \in kinds /\ o.id = id)}

LayerInit ==
  /\ Init
  /\ live = {} /\ active = [s \in Surfaces |-> None] /\ illegal = {}
  /\ instance = "none" /\ devices = <<>> /\ swapchains = <<>> /\ proxySupported = TRUE
  /\ vulkanLayers = {} /\ surfaces = <<>>
  /\ owned = {} /\ chains = <<>> /\ beside = {}
  /\ call = [t \in Threads |-> Idle]

-----------------------------------------------------------------------------
Busy == {t \in Threads : call[t] # Idle}

Conflict(a, b) ==
  \/ a.alone \cap (b.alone \cup b.shared) # {}
  \/ a.shared \cap b.alone # {}

Begin(t, c) ==
  /\ call[t] = Idle
  /\ \A u \in Busy : ~Conflict(c, call[u])
  /\ call' = [call EXCEPT ![t] = c]

(* A call that locks API first, and one that does not.                      *)
Enter(t, c) == Begin(t, c) /\ Call(t)
Start(t, c) == Begin(t, c) /\ UNCHANGED lockVars

At(t, op, step) == call[t] # Idle /\ call[t].op = op /\ call[t].step = step
Inside(t, op, step) == At(t, op, step) /\ at[t] = "running" /\ guards[t] > 0

Goto(t, step) == call' = [call EXCEPT ![t].step = step] /\ UNCHANGED lockVars
Return(t) == call' = [call EXCEPT ![t] = Idle] /\ Drop(t)
Leave(t) == call' = [call EXCEPT ![t] = Idle] /\ UNCHANGED lockVars

(* The other steps of a thread in API.lock().                               *)
Locking(t) ==
  /\ Wait(t) \/ Take(t)
  /\ UNCHANGED <<driver, tables, registry, game, call>>
Woken(t) ==
  /\ SpuriousWake(t)
  /\ UNCHANGED <<driver, tables, registry, game, call>>

(* queue_mutex: the thread that holds it is at the step "queue".            *)
Queueing(d) == {t \in Busy : call[t].step = "queue" /\ call[t].d = d}

(* Mutant: the queue is used without its lock.                              *)
Unlocked(t) == Goto(t, "queue")

LockQueue(t) == Queueing(call[t].d) = {} /\ Goto(t, "queue")

Hooked(d) == d \in DOMAIN devices /\ devices[d].hook

-----------------------------------------------------------------------------
(* Instances and devices.  Nobody knows of an object before the call that   *)
(* makes it returns, so making and registering it is one step, and one that *)
(* cannot be registered is destroyed again within it.                       *)

CreateInstance(t) ==
  /\ Instance \notin owned
  /\ Enter(t, NewCall("create_instance", "create", None, {Instance}, {}))
  /\ UNCHANGED <<driver, tables, registry, game>>

(* Hooked when surfaces are asked for and the driver takes the extensions   *)
(* the layer adds, else as the game asked.                                  *)
InstanceCreated(t) ==
  /\ Inside(t, "create_instance", "create")
  /\ \/ /\ instance' \in {"hooked", "plain"}
        /\ live' = live \cup {Object("instance", Instance, None)}
        /\ owned' = owned \cup {Instance}
     \/ UNCHANGED <<instance, live, owned>>
  /\ Return(t)
  /\ UNCHANGED <<active, illegal, devices, swapchains, proxySupported, registry, chains, beside>>

DestroyInstance(t) ==
  /\ owned = {Instance}
  /\ Enter(t, NewCall("destroy_instance", "destroy", None, {Instance}, {}))
  /\ owned' = {}
  /\ UNCHANGED <<driver, tables, registry, chains, beside>>

InstanceDestroyed(t) ==
  /\ Inside(t, "destroy_instance", "destroy")
  /\ instance' = "none"
  /\ live' = Without({"instance"}, Instance)
  /\ Return(t)
  /\ UNCHANGED <<active, illegal, devices, swapchains, proxySupported, registry, game>>

CreateDevice(t) ==
  /\ Instance \in owned
  /\ \E d \in Devices \ owned :
       Enter(t, NewCall("create_device", "create", d, {d}, {Instance}))
  /\ UNCHANGED <<driver, tables, registry, game>>

(* hooked_device: when the driver has the features and extensions the layer *)
(* needs, the game asks for a queue it can adopt and its feature chain can  *)
(* be copied, a device with a command pool.                                 *)
HookedDevice(d) == {Object("device", d, Instance), Object("pool", d, d)}
PlainDevice(d) == {Object("device", d, Instance)}

RegisterDevice(d, hook) == devices' = With(devices, d, [hook |-> hook, proxy |-> hook])

(* Else the device the game asked for, registered without a hook; or, when  *)
(* the instance is not hooked or no swapchains are asked for, left to the   *)
(* driver.                                                                  *)
DeviceCreated(t) ==
  LET d == call[t].d
  IN /\ Inside(t, "create_device", "create")
     /\ \/ /\ instance = "hooked"
           /\ live' = live \cup HookedDevice(d) /\ RegisterDevice(d, TRUE)
           /\ owned' = owned \cup {d} /\ illegal' = illegal \cup ChainMisuse
        \/ /\ \/ instance = "hooked" /\ RegisterDevice(d, FALSE)
              \/ UNCHANGED devices
           /\ live' = live \cup PlainDevice(d)
           /\ owned' = owned \cup {d} /\ UNCHANGED illegal
        \/ UNCHANGED <<live, devices, owned, illegal>>
     /\ Return(t)
     /\ UNCHANGED <<active, instance, swapchains, proxySupported, registry, chains, beside>>

(* A device that is registered may be destroyed with swapchains alive; their*)
(* surfaces go later.                                                       *)
DestroyDevice(t) ==
  \E d \in owned \cap Devices :
    LET leaked == {h \in DOMAIN chains : chains[h].d = d}
    IN /\ d \in DOMAIN devices \/ leaked = {}
       /\ Enter(t, NewCall("destroy_device", "remove", d,
                           {d} \cup leaked \cup {chains[h].s : h \in leaked}, {Instance}))
       /\ owned' = owned \ {d}
       /\ chains' = Restrict(chains, DOMAIN chains \ leaked)
       /\ UNCHANGED <<driver, tables, registry, beside>>

(* Mutant: the swapchains of a device that goes stay in the table.          *)
Kept(d) == {}

LeakedOn(d) == {h \in DOMAIN swapchains : swapchains[h].d = d}

(* The entries go first: nobody finds a handle the driver may use again.    *)
DeviceRemoved(t) ==
  LET d == call[t].d
      leaked == LeakedOn(d)
  IN /\ Inside(t, "destroy_device", "remove")
     /\ call' = [call EXCEPT ![t].step = IF d \in DOMAIN devices THEN "drop" ELSE "device",
                             ![t].left = Restrict(swapchains, leaked)]
     /\ devices' = Restrict(devices, DOMAIN devices \ {d})
     /\ swapchains' = Restrict(swapchains, DOMAIN swapchains \ leaked)
     /\ UNCHANGED <<driver, instance, proxySupported, registry, game, lockVars>>

(* Then what lives on the device: the generator, the pool, the device.      *)
GeneratorDropped(t) ==
  /\ Inside(t, "destroy_device", "drop") /\ DOMAIN call[t].left = {}
  /\ live' = Without({"generator"}, call[t].d)
  /\ Goto(t, "pool")
  /\ UNCHANGED <<active, illegal, tables, registry, game>>

PoolDestroyed(t) ==
  /\ Inside(t, "destroy_device", "pool")
  /\ live' = Without({"pool"}, call[t].d)
  /\ Goto(t, "device")
  /\ UNCHANGED <<active, illegal, tables, registry, game>>

DeviceDestroyed(t) ==
  /\ Inside(t, "destroy_device", "device")
  /\ live' = Without({"device"}, call[t].d)
  /\ Return(t)
  /\ UNCHANGED <<active, illegal, tables, registry, game>>

-----------------------------------------------------------------------------
(* Surfaces.  create_surface and destroy_surface do not lock API.           *)

Register(layer) == vulkanLayers' = vulkanLayers \cup {layer}

(* The threads in this call about another surface of the layer of s.        *)
SameLayer(op, s) == {u \in Busy : call[u].op = op /\ LayerOf[call[u].s] = LayerOf[s]}

CreateSurface(t) ==
  /\ Instance \in owned
  /\ \E s \in Surfaces \ owned :
       /\ Start(t, [NewCall("create_surface", "before", None, {s}, {Instance}) EXCEPT !.s = s])
       /\ beside' = IF SameLayer("destroy_surface", s) = {} THEN beside \ {s} ELSE beside \cup {s}
  /\ UNCHANGED <<driver, tables, registry, owned, chains>>

(* register_layer before the driver's call, unless the view has no layer.   *)
LayerBefore(t) ==
  /\ At(t, "create_surface", "before")
  /\ Register(LayerOf[call[t].s]) \/ UNCHANGED vulkanLayers
  /\ Goto(t, "create")
  /\ UNCHANGED <<driver, tables, surfaces, game>>

SurfaceCreated(t) ==
  LET s == call[t].s
  IN /\ At(t, "create_surface", "create")
     /\ \/ live' = live \cup {Object("surface", s, None)} /\ Goto(t, "layer")
        \/ UNCHANGED live /\ Leave(t)
     /\ UNCHANGED <<active, illegal, tables, registry, game>>

(* register_layer again, then register_surface: the layer, then the surface.*)
LayerRegistered(t) ==
  /\ At(t, "create_surface", "layer")
  /\ Register(LayerOf[call[t].s])
  /\ Goto(t, "surface")
  /\ UNCHANGED <<driver, tables, surfaces, game>>

SurfaceRegistered(t) ==
  LET s == call[t].s
  IN /\ At(t, "create_surface", "surface")
     /\ surfaces' = With(surfaces, s, LayerOf[s])
     /\ owned' = owned \cup {s}
     /\ Leave(t)
     /\ UNCHANGED <<driver, tables, vulkanLayers, chains, beside>>

DestroySurface(t) ==
  \E s \in owned \cap Surfaces :
    /\ \A h \in DOMAIN chains : chains[h].s # s
    /\ Start(t, [NewCall("destroy_surface", "forget", None, {s}, {Instance}) EXCEPT !.s = s])
    /\ owned' = owned \ {s}
    /\ beside' = beside \cup {call[u].s : u \in SameLayer("create_surface", s)}
    /\ UNCHANGED <<driver, tables, registry, chains>>

(* Mutant: the layer goes with any of its surfaces.                         *)
NeverUsed(s) == FALSE

UsedElsewhere(s) == \E r \in DOMAIN surfaces \ {s} : surfaces[r] = LayerOf[s]

(* forget_surface: the surface under one lock, its layer under another.     *)
SurfaceForgotten(t) ==
  LET s == call[t].s
  IN /\ At(t, "destroy_surface", "forget")
     /\ surfaces' = Restrict(surfaces, DOMAIN surfaces \ {s})
     /\ call' = [call EXCEPT ![t].step = "layer",
                             ![t].shared_layer = s \notin DOMAIN surfaces \/ UsedElsewhere(s)]
     /\ UNCHANGED <<driver, tables, vulkanLayers, game, lockVars>>

LayerForgotten(t) ==
  /\ At(t, "destroy_surface", "layer")
  /\ vulkanLayers' = IF call[t].shared_layer THEN vulkanLayers ELSE vulkanLayers \ {LayerOf[call[t].s]}
  /\ Goto(t, "destroy")
  /\ UNCHANGED <<driver, tables, surfaces, game>>

SurfaceDestroyed(t) ==
  /\ At(t, "destroy_surface", "destroy")
  /\ live' = Without({"surface"}, call[t].s)
  /\ Leave(t)
  /\ UNCHANGED <<active, illegal, tables, registry, game>>

-----------------------------------------------------------------------------
(* What the driver is asked about swapchains.                               *)

IsProxy(h) == h \in DOMAIN swapchains /\ swapchains[h].wrapper = "proxy"

(* A call that hands the driver these swapchains.                           *)
Asked(handles) ==
  illegal' = illegal \cup {"no such swapchain" : h \in {h \in handles : ~Alive("swapchain", h)}}

(* vkCreateSwapchainKHR: the old one is retired even when creation fails,   *)
(* and a surface takes a new one only when it has no other.                 *)
Driver(s, old, done, failed) ==
  LET misuse == {m \in {"no such old", "old is retired", "surface in use"} :
                   \/ m = "no such old" /\ old # None /\ ~Alive("swapchain", old)
                   \/ m = "old is retired" /\ old # None /\ Alive("swapchain", old) /\ active[s] # old
                   \/ m = "surface in use" /\ active[s] \notin {None, old}}
  IN /\ illegal' = illegal \cup misuse
     /\ \/ /\ misuse = {} /\ done
        \/ /\ active' = [active EXCEPT ![s] = IF @ = old THEN None ELSE @]
           /\ failed

(* A handle that is free may be used again.                                 *)
FreeHandles == {h \in Handles : ~Alive("swapchain", h) /\ ~Alive("proxy", h)}

-----------------------------------------------------------------------------
(* vkCreateSwapchainKHR.                                                    *)

CreateSwapchain(t) ==
  \E d \in owned \cap Devices, s \in owned \cap Surfaces, old \in {None} \cup DOMAIN chains :
    LET mine == {h \in DOMAIN chains : chains[h].s = s}
    IN /\ old = None \/ (old \in mine /\ chains[old].d = d /\ ~chains[old].retired)
       /\ \A h \in mine \ {old} : Defers /\ chains[h].retired
       /\ Enter(t, [NewCall("create_swapchain", "choose", d, {s} \cup ({old} \ {None}), {d})
                      EXCEPT !.s = s, !.old = old])
       /\ chains' = [h \in DOMAIN chains |-> [chains[h] EXCEPT !.retired = @ \/ h = old]]
       /\ UNCHANGED <<driver, tables, registry, owned, beside>>

(* Mutant: the driver is told of a proxy it never made.                     *)
NameAny(old) == old

(* A proxy's handle is the shim's: the driver is not told of it.            *)
Named(old) == IF IsProxy(old) THEN None ELSE old

(* choose_wrapper: the proxy while the device has it and if the profile     *)
(* asks, the fixed wrapper else.                                            *)
Wrappers(d) == {"fixed"} \cup IF devices[d].proxy THEN {"proxy"} ELSE {}

(* A swapchain frame generation does not support gets none.                 *)
Chosen(t) ==
  LET d == call[t].d
  IN /\ Inside(t, "create_swapchain", "choose")
     /\ \E way \in {"plain"} \cup (IF Hooked(d) THEN Wrappers(d) ELSE {}) :
          call' = [call EXCEPT ![t].step = way,
                               ![t].old = IF d \in DOMAIN devices THEN Named(@) ELSE @]
     /\ UNCHANGED <<driver, tables, registry, game, lockVars>>

Getting(t, h, wrapper, step) ==
  /\ call' = [call EXCEPT ![t].new = h, ![t].wrapper = wrapper, ![t].step = step]
  /\ UNCHANGED lockVars

(* metal's ProxySwapchain::create: a handle of its own and no driver        *)
(* swapchain; not applicable; or an error, which turns the device's off.    *)
ProxyTried(t) ==
  LET d == call[t].d
      may == proxySupported /\ call[t].s \in DOMAIN surfaces
  IN /\ Inside(t, "create_swapchain", "proxy")
     /\ \/ may /\ \E h \in FreeHandles : /\ live' = live \cup {Object("proxy", h, d)}
                                         /\ Getting(t, h, "proxy", "insert")
                                         /\ UNCHANGED devices
        \/ Goto(t, "fixed") /\ UNCHANGED <<live, devices>>
        \/ may /\ Goto(t, "fixed") /\ devices' = [devices EXCEPT ![d].proxy = FALSE] /\ UNCHANGED live
     /\ UNCHANGED <<active, illegal, instance, swapchains, proxySupported, registry, game>>

(* The driver makes a swapchain of handle h.                                *)
Makes(t, h) ==
  /\ live' = live \cup {Object("swapchain", h, call[t].d)}
  /\ active' = [active EXCEPT ![call[t].s] = h]

(* Fixed::create: the driver's swapchain, then what the wrapper adds.       *)
FixedCreated(t) ==
  /\ Inside(t, "create_swapchain", "fixed")
  /\ Driver(call[t].s, call[t].old,
            \E h \in FreeHandles : Makes(t, h) /\ Getting(t, h, "fixed", "setup"),
            Goto(t, "native") /\ UNCHANGED live)
  /\ UNCHANGED <<tables, registry, game>>

Freed(h) == active' = [s \in Surfaces |-> IF active[s] = h THEN None ELSE active[s]]

(* What is half set up is undone: the swapchain, then the wrapper's own.    *)
FixedSetUp(t) ==
  LET h == call[t].new
  IN /\ Inside(t, "create_swapchain", "setup")
     /\ \/ /\ live' = live \cup {Object("fixed", h, call[t].d)}
           /\ Goto(t, "insert")
           /\ UNCHANGED active
        \/ /\ live' = Without({"swapchain"}, h) /\ Freed(h)
           /\ Getting(t, None, "none", "undo")
     /\ UNCHANGED <<illegal, tables, registry, game>>

FixedUndone(t) ==
  /\ Inside(t, "create_swapchain", "undo")
  /\ Queueing(call[t].d) = {}
  /\ Goto(t, "native")
  /\ UNCHANGED <<driver, tables, registry, game>>

(* Without a wrapper: as the game asked; or after its wrapper failed, when  *)
(* the old swapchain is retired already and not named again.                *)
Unwrapped(t) ==
  /\ Inside(t, "create_swapchain", "plain") \/ Inside(t, "create_swapchain", "native")
  /\ Driver(call[t].s, IF call[t].step = "plain" THEN call[t].old ELSE None,
            \E h \in FreeHandles : Makes(t, h) /\ Getting(t, h, "none", "insert"),
            Return(t) /\ UNCHANGED live)
  /\ UNCHANGED <<tables, registry, game>>

Inserted(t) ==
  LET c == call[t]
  IN /\ Inside(t, "create_swapchain", "insert")
     /\ swapchains' = IF c.d \in DOMAIN devices
                      THEN With(swapchains, c.new, [d |-> c.d, wrapper |-> c.wrapper])
                      ELSE swapchains
     /\ chains' = With(chains, c.new, [d |-> c.d, s |-> c.s, retired |-> FALSE])
     /\ Return(t)
     /\ UNCHANGED <<driver, instance, devices, proxySupported, registry, owned, beside>>

-----------------------------------------------------------------------------
(* vkDestroySwapchainKHR, and the swapchains left on a device that goes.    *)

DestroySwapchain(t) ==
  \E h \in DOMAIN chains :
    /\ Enter(t, [NewCall("destroy_swapchain", "remove", chains[h].d, {h, chains[h].s}, {chains[h].d})
                   EXCEPT !.h = h])
    /\ chains' = Restrict(chains, DOMAIN chains \ {h})
    /\ UNCHANGED <<driver, tables, registry, owned, beside>>

SwapchainRemoved(t) ==
  LET h == call[t].h
  IN /\ Inside(t, "destroy_swapchain", "remove")
     /\ call' = [call EXCEPT ![t].step = IF h \in DOMAIN swapchains THEN "drop" ELSE "destroy",
                             ![t].left = Restrict(swapchains, {h} \cap DOMAIN swapchains)]
     /\ swapchains' = Restrict(swapchains, DOMAIN swapchains \ {h})
     /\ UNCHANGED <<driver, instance, devices, proxySupported, registry, game, lockVars>>

Destroying(t, step) == Inside(t, "destroy_swapchain", step) \/ Inside(t, "destroy_device", step)

(* Mutant: the driver's swapchain goes with its wrapper still on it.        *)
DestroyFirst(wrapper) == "destroy"

(* The wrapper is dropped, a fixed one under the queue's lock, before the   *)
(* driver's swapchain is destroyed; a proxy has none.                       *)
AfterWrapper(wrapper) == IF wrapper = "fixed" THEN "queue" ELSE IF wrapper = "proxy" THEN "drop" ELSE "destroy"

WrapperTaken(t) ==
  /\ Destroying(t, "drop")
  /\ \E h \in DOMAIN call[t].left :
       LET wrapper == call[t].left[h].wrapper
           step == AfterWrapper(wrapper)
       IN /\ step = "queue" => Queueing(call[t].d) = {}
          /\ live' = Without({"proxy"}, h)
          /\ call' = [call EXCEPT ![t].h = h, ![t].step = step,
                                  ![t].left = Restrict(@, DOMAIN @ \ {h})]
  /\ UNCHANGED <<active, illegal, tables, registry, game, lockVars>>

FixedDropped(t) ==
  /\ Destroying(t, "queue")
  /\ live' = Without({"fixed"}, call[t].h)
  /\ Goto(t, "destroy")
  /\ UNCHANGED <<active, illegal, tables, registry, game>>

SwapchainDestroyed(t) ==
  LET h == call[t].h
  IN /\ Destroying(t, "destroy")
     /\ Asked({h}) /\ live' = Without({"swapchain"}, h) /\ Freed(h)
     /\ IF call[t].op = "destroy_device" THEN Goto(t, "drop") ELSE Return(t)
     /\ UNCHANGED <<tables, registry, game>>

ProxyDestroyed(t) ==
  /\ Inside(t, "destroy_swapchain", "drop") /\ DOMAIN call[t].left = {}
  /\ Return(t)
  /\ UNCHANGED <<driver, tables, registry, game>>

-----------------------------------------------------------------------------
(* Presents.  The swapchain is looked up before API is locked, and used     *)
(* once it is.                                                              *)

Unregistered == [wrapper |-> "unregistered"]
Lookup(h) == IF h \in DOMAIN swapchains THEN swapchains[h] ELSE Unregistered

Present(t) ==
  \E d \in owned \cap Devices :
    \E hs \in SUBSET {h \in DOMAIN chains : chains[h].d = d} \ {{}} :
      \E first \in hs :
        /\ Enter(t, [NewCall("present", "route", d, hs \cup {Queue(d)}, {d})
                       EXCEPT !.hs = hs, !.wrapper = Lookup(first).wrapper])
        /\ UNCHANGED <<driver, tables, registry, game>>

Several(t) == \E g, h \in call[t].hs : g # h

(* invalidate_proxies: of several swapchains, proxies among them, none      *)
(* reaches the driver, and proxies are off from then on.                    *)
Invalidates(t) == Several(t) /\ \E h \in call[t].hs : IsProxy(h)

PresentInvalidated(t) ==
  /\ Inside(t, "present", "route") /\ Invalidates(t)
  /\ Queueing(call[t].d) = {}
  /\ devices' = [devices EXCEPT ![call[t].d].proxy = FALSE]
  /\ proxySupported' = FALSE
  /\ Return(t)
  /\ UNCHANGED <<driver, instance, swapchains, registry, game>>

(* Without a wrapper the present is the driver's, on the game's queue and   *)
(* not under its lock.                                                      *)
PresentForwarded(t) ==
  /\ Inside(t, "present", "route") /\ ~Invalidates(t)
  /\ call[t].wrapper \in {"unregistered", "none"}
  /\ Asked(call[t].hs)
  /\ Goto(t, "forward")
  /\ UNCHANGED <<live, active, tables, registry, game>>

ForwardDone(t) ==
  /\ Inside(t, "present", "forward")
  /\ Return(t)
  /\ UNCHANGED <<driver, tables, registry, game>>

PresentLocked(t) ==
  /\ Inside(t, "present", "route") /\ ~Invalidates(t)
  /\ call[t].wrapper \in {"fixed", "proxy"}
  /\ LockQueue(t)
  /\ UNCHANGED <<driver, tables, registry, game>>

(* The fixed wrapper presents through the driver, the game's frame and what *)
(* a generator made first on this device makes of it; the proxy queues a    *)
(* job for its worker.                                                      *)
PresentDone(t) ==
  LET d == call[t].d
  IN /\ Inside(t, "present", "queue")
     /\ \/ /\ call[t].wrapper = "fixed"
           /\ Asked(call[t].hs)
           /\ \/ ~Several(t) /\ live' = live \cup {Object("generator", d, d)}
              \/ UNCHANGED live
        \/ call[t].wrapper = "proxy" /\ UNCHANGED <<live, illegal>>
     /\ Return(t)
     /\ UNCHANGED <<active, tables, registry, game>>

-----------------------------------------------------------------------------
(* Calls that do not lock API: vkAcquireNextImage(2)KHR,                    *)
(* vkGetSwapchainImagesKHR and the guards that keep proxies from entry      *)
(* points the layer does not hook; and the queue's submits.                 *)

Acquire(t) ==
  \E h \in DOMAIN chains :
    /\ ~chains[h].retired
    /\ Start(t, [NewCall("acquire", "wait", chains[h].d, {h}, {chains[h].d})
                   EXCEPT !.hs = {h}, !.wrapper = Lookup(h).wrapper])
    /\ UNCHANGED <<driver, tables, registry, game>>

(* The proxy signals with a submit of its own, for which the game does not  *)
(* keep others off the queue.                                               *)
Acquired(t) ==
  /\ At(t, "acquire", "wait")
  /\ IF call[t].wrapper = "proxy"
     THEN LockQueue(t) /\ UNCHANGED illegal
     ELSE Asked(call[t].hs) /\ Leave(t)
  /\ UNCHANGED <<live, active, tables, registry, game>>

Submit(t) ==
  \E d \in owned \cap Devices :
    /\ Start(t, NewCall("submit", "wait", d, {Queue(d)}, {d}))
    /\ UNCHANGED <<driver, tables, registry, game>>

Submitting(t) ==
  /\ At(t, "submit", "wait")
  /\ IF Hooked(call[t].d) THEN LockQueue(t) ELSE Leave(t)
  /\ UNCHANGED <<driver, tables, registry, game>>

QueueDone(t) ==
  /\ At(t, "acquire", "queue") \/ At(t, "submit", "queue")
  /\ Leave(t)
  /\ UNCHANGED <<driver, tables, registry, game>>

Forwardable(hs) == {h \in hs : ~IsProxy(h)}

(* set_hdr_metadata, wait_for_present, get_swapchain_status and the like:   *)
(* each asks the driver within one look at the table.                       *)
Ask(t) ==
  \E hs \in SUBSET DOMAIN chains \ {{}} :
    /\ call[t] = Idle
    /\ \A u \in Busy : call[u].alone \cap (hs \cup {chains[h].d : h \in hs}) = {}
    /\ Asked(Forwardable(hs))
    /\ UNCHANGED <<live, active, tables, registry, game, call, lockVars>>

-----------------------------------------------------------------------------
Step(t) ==
  \/ Locking(t)
  \/ InstanceCreated(t) \/ InstanceDestroyed(t)
  \/ DeviceCreated(t) \/ DeviceRemoved(t) \/ GeneratorDropped(t) \/ PoolDestroyed(t) \/ DeviceDestroyed(t)
  \/ LayerBefore(t) \/ SurfaceCreated(t) \/ LayerRegistered(t) \/ SurfaceRegistered(t)
  \/ SurfaceForgotten(t) \/ LayerForgotten(t) \/ SurfaceDestroyed(t)
  \/ Chosen(t) \/ ProxyTried(t) \/ FixedCreated(t) \/ FixedSetUp(t) \/ FixedUndone(t)
  \/ Unwrapped(t) \/ Inserted(t)
  \/ SwapchainRemoved(t) \/ WrapperTaken(t) \/ FixedDropped(t) \/ SwapchainDestroyed(t) \/ ProxyDestroyed(t)
  \/ PresentInvalidated(t) \/ PresentForwarded(t) \/ ForwardDone(t)
  \/ PresentLocked(t) \/ PresentDone(t)
  \/ Acquired(t) \/ Submitting(t) \/ QueueDone(t)

Play(t) ==
  \/ CreateInstance(t) \/ DestroyInstance(t) \/ CreateDevice(t) \/ DestroyDevice(t)
  \/ CreateSurface(t) \/ DestroySurface(t) \/ CreateSwapchain(t) \/ DestroySwapchain(t)
  \/ Present(t) \/ Acquire(t) \/ Submit(t) \/ Ask(t)

LayerNext == \E t \in Threads : Play(t) \/ Step(t) \/ Woken(t)

LayerSpec == LayerInit /\ [][LayerNext]_layerVars

-----------------------------------------------------------------------------
(* The driver is never asked against its rules: not with the handle of a    *)
(* proxy or of a swapchain that is gone, nor with an old swapchain named    *)
(* twice, nor for a second swapchain of a surface in use, however a wrapper *)
(* fails (create_swapchain, present, the proxy guards).                     *)
DriverObeyed == illegal = {}

(* Nothing outlives what it is built on: a wrapper its swapchain, pool and  *)
(* device, a swapchain, generator or pool its device, a device the instance *)
(* (destroy_device with swapchains alive, Fixed::drop).                     *)
ParentsFirst ==
  \A o \in live :
    /\ o.on = None \/ \E p \in live : p.kind \in {"instance", "device"} /\ p.id = o.on
    /\ o.kind = "fixed" => Alive("swapchain", o.id) /\ Alive("pool", o.on)

(* Between calls the tables hold what the game holds and what exists: no    *)
(* entry of a handle the driver may use again, and nothing left behind.     *)
TableExact ==
  Busy = {} =>
    /\ DOMAIN devices \subseteq owned
    /\ DOMAIN swapchains = {h \in DOMAIN chains : chains[h].d \in DOMAIN devices}
    /\ DOMAIN surfaces = owned \cap Surfaces
    /\ (instance # "none") = (Instance \in owned)
    /\ {o.id : o \in {o \in live : o.kind \in {"swapchain", "proxy"}}} = DOMAIN chains
    /\ \A h \in DOMAIN swapchains :
         /\ (swapchains[h].wrapper = "fixed") = Alive("fixed", h)
         /\ (swapchains[h].wrapper = "proxy") = Alive("proxy", h)
    /\ \A o \in live : o.kind \in {"generator", "pool"} => Hooked(o.on)

(* One thread at a time uses a device's queue, and one its command pool,    *)
(* though the game keeps its threads off neither: an acquire of a proxy     *)
(* submits, a wrapper that is dropped waits and frees.  Only a present that *)
(* goes to the driver as it is (queue_present) does not lock the queue, and *)
(* may run beside the submit of an acquire; beside nothing else.            *)
UsesQueue(t) == call[t].step \in {"queue", "forward"}
UsesPool(t) ==
  \/ call[t].step = "setup"
  \/ call[t].step = "queue" /\ call[t].op \notin {"acquire", "submit"}
Forwards(t) == call[t].step = "forward"
OneAtATime ==
  \A t, u \in Busy :
    t # u /\ call[t].d = call[u].d =>
      /\ UsesQueue(t) /\ UsesQueue(u) =>
           \/ Forwards(t) /\ call[u].op = "acquire"
           \/ Forwards(u) /\ call[t].op = "acquire"
      /\ ~(UsesPool(t) /\ UsesPool(u))

(* The metal front end is kept off the layer of every surface the game      *)
(* holds, also while others of that layer come and go; only one that it made*)
(* while it destroyed another may lose it (create_surface, forget_surface). *)
LayersOwned == \A s \in (owned \cap Surfaces) \ beside : LayerOf[s] \in vulkanLayers

(* A step that takes the lock of its device's queue.                        *)
LocksQueue(t) ==
  \/ At(t, "create_swapchain", "undo")
  \/ /\ At(t, "destroy_swapchain", "drop") \/ At(t, "destroy_device", "drop")
     /\ \E h \in DOMAIN call[t].left : call[t].left[h].wrapper = "fixed"
  \/ At(t, "present", "route") /\ (Invalidates(t) \/ call[t].wrapper \in {"fixed", "proxy"})
  \/ At(t, "acquire", "wait") /\ call[t].wrapper = "proxy"
  \/ At(t, "submit", "wait") /\ Hooked(call[t].d)

(* A thread is held up by a lock that another one has, or until a notify.   *)
HeldUp(t) ==
  \/ at[t] = "waiting"
  \/ at[t] = "testing" /\ ~MayTake(t)
  \/ at[t] = "running" /\ LocksQueue(t) /\ Queueing(call[t].d) # {}

(* While a call is under way some call can go on without a spurious wakeup: *)
(* the API lock and the queues' are never all waited for, though they nest  *)
(* (Recursive::lock, Guard::drop, present, destroy_swapchain).              *)
CallsGoOn == Busy # {} => \E t \in Busy : ~HeldUp(t)
=============================================================================
