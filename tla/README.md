# lsfg-metal in TLA+

lsfg-metal multiplies the frame rate of a game on macOS by generating frames in
between those the game presents. It sits between the game and the driver: as a
`libMoltenVK.dylib` in front of the real one for Vulkan games, and as a set of
hooks on `CAMetalLayer` and `NSOpenGLContext` for the others. What makes it hard
is not the generation, which the shaders do, but everything around it: the frames
of the game, the generated ones and the display share GPU queues, semaphores,
images and drawables, each of which is used again a frame or two later, on several
threads, and any call may fail half way.

This directory holds models of those parts, the configurations that check them
with TLC, and proofs of the central ones for TLAPS. Paths are relative to
`src/src/`.

    tlc -config FrameTimeline.cfg MCFrameTimeline     # check one run
    tlapm FrameTimelineProofs.tla                     # check its proofs

`PROJECT.json` names, for every definition, the lines it models.

## 1. The system

### Parts, their state and how they meet

| Part | State it keeps | Operations | Meets |
|---|---|---|---|
| Recursive lock, `shim/sync.rs` | owner, depth, a condition variable | lock, drop of a guard | the API lock and the queue lock of each device |
| Hooked entry points, `shim/mod.rs` | maps of instances, devices, queues, swapchains; the active profile and its revision | create, destroy, present, acquire, queue calls, `Layer::update` | everything below, under the API lock |
| Proxy seam and guards, `shim/proxy.rs` | whether proxies are supported | create, guards of calls that take a swapchain | entry points and proxy swapchain |
| Feature chain, `shim/chain.rs` | none beyond a call | copy the game's chain with three features on | device creation |
| Fixed swapchain wrapper, `shim/fixed.rs` | a generation context or none, `failed`, passes, binary semaphores, the images of a real swapchain | create, present, reload, drop | the driver's swapchain, the copy wrapper, the profile |
| Copy wrapper, `shim/context.rs` | iteration, `remaining`, `sync_counter`, a fence, `in_flight`, `generated` | dispatch, generate, acquire, idle | the context, on the game's own queue |
| Generation context, `generator/mod.rs` | iteration, `total`, `index`, two timeline counters, a fence, `unsignaled` | dispatch, acquire, settle, drop | its callers, through two timeline semaphores |
| Signature, pipeline, planner, `generator/signature.rs`, `pipeline.rs` | 101 images, 100 passes, stages, lifetimes, offsets, parameters of each slot | schedule, lifetimes, plan, record | memory of the device |
| Native generator, `generator/native.rs` | the same pipeline as Metal passes, a fence, a parameter block | pre-pass, main pass | the presentation worker, the OpenGL front end |
| Proxy swapchain, `metal/proxy.rs` | the status of each image, `invalid` | acquire, present, release, invalidate, drop | the worker, through drawables |
| Drawable pool and hooks, `metal/drawable.rs`, `hooks.rs` | textures, how many are outstanding, the frames of each command buffer | nextDrawable, commit, present, recycle, drop | the worker, the game's command buffers |
| Surface registry, `metal/mod.rs`, `hooks.rs` | which Metal layers belong to Vulkan surfaces | create and destroy a surface | entry points, hooks |
| Presentation worker, `metal/generator.rs` | a channel, the engine, its queues and events, serials, the stage ring | enqueue, prepare, settle, start, produce, present, retire, reset | the game's event, the pipeline, the real layer |
| Upscaling, `metal/metalfx.rs`, `generator.rs` | the game's size, the shown size, what was tried | refresh, stop, the game's setter | the real layer's size |
| Pacing, `pacer.rs` | estimate, cadence, probe, phase | sample, slots | worker and OpenGL front end |
| OpenGL front end, `metal/gl.rs` | contexts by address, surfaces, a pinned size, generators being built, failed ones | a swap | the generators, MetalFX, `pacer` |
| Settings and watcher, `settings.rs` | configuration, profile, stamps of the file | load, save the default, reload | `Layer::update` |
| Forwarders, shader package, helpers, log, statistics, tools | none, or only within a call | | |

A Vulkan game's present takes one of two ways. With a plain swapchain it runs in
the game's thread: the fixed wrapper, under the API lock and the queue lock, copies
the frame in, starts the context, and acquires, fills and presents one image of the
driver's swapchain per generated frame. With a proxy swapchain, and for every Metal
game, the frame becomes a *drawable* that is sent to the worker of its layer, which
generates on a queue of its own and presents on a second one. An OpenGL game's swap
does all of it in the game's thread, under the one lock of the front end.

### What is hard, and what must hold

* **Two counts of one semaphore.** The copy wrapper's `sync_counter` and the
  context's `sync_value` are advanced by different code at different times, across
  iterations that may be abandoned and submits that may be refused. Neither may ever
  wait for a value nobody signals, and neither may signal backwards.
* **Resources used again while the GPU runs behind.** Source layers, destination,
  command buffers, parameters, fences and shared surfaces are reused every frame or
  two; what keeps them apart is an argument about fences and timelines several calls
  away.
* **Textures with two ways home.** A drawable's texture returns to its pool when the
  shown frame leaves the screen or when its last reference drops; the references are
  held by closures on Metal's threads.
* **Failure in the middle.** A frame given up after its copy in, a present refused
  between two semaphores, a worker that is gone, a swapchain that is out of date, a
  creation that falls back: the game must still get its drawables, images and handlers
  back, and the driver must not see a handle that is not its own.
* **Handle tables against the driver.** Devices, swapchains, wrappers and surfaces die
  on any thread, in any order the API allows; the shim must take its own objects down
  first and look its tables up under the right lock.
* **Memory shared by lifetime.** The images of the pipeline overlap wherever the
  planner thinks they are never live together, and half of the passes run several
  times per frame.
* **A file that changes under a running process.** The profile in use may move, be
  renamed or be half written at any look.
* **Liveness of the game.** A game blocks in a present, an acquire, a destroy or a
  presented handler; every one of these waits for work that some failing path may not
  have submitted.

`PROJECT.json` lists the hazards one by one, at their lines, with the properties
that would catch them; those without a property say why.

## 2. Modules

| Module | Models | Uses |
|---|---|---|
| `RecursiveLock` | `sync.rs` | |
| `FeatureChain` | `shim/chain.rs` | |
| `Layer` | `shim/mod.rs`, `shim/proxy.rs` and the driver they call | extends `RecursiveLock`, `FeatureChain` |
| `GenContext` | `Context` of `generator/mod.rs` and the queue it submits to | |
| `FrameTimeline` | `Wrapper` of `shim/context.rs`, driven by `Fixed::run` | extends `GenContext`, implements `FrameStream` |
| `FrameStream` | what generation promises: the generated frames, each once, in order | |
| `PartialFrames` | a second caller of the context, `bin/validate.rs` | extends `GenContext` |
| `MetalFrames` | a third, the worker on MoltenVK | extends `PartialFrames`, whose run takes either |
| `Settings` | the file, its parser and writer, the watcher, `Layer::update` | |
| `FixedPresent` | one present of the fixed wrapper, with reloads and failures | extends `Settings` |
| `PresentWorker` | the worker, its channel, its engine and its GPU queues | |
| `DrawablePool` | pool, drawables and hooks of a Metal game | extends `PresentWorker` |
| `ProxySwapchain` | the swapchain of a Vulkan game in front of the same worker | extends `PresentWorker` |
| `StageRing` | the ring of textures between upscaler and present | |
| `UpscaleSize` | who sets which size of an upscaled layer | |
| `MemoryPlan` | `plan()` of `pipeline.rs` | |
| `PassSchedule` | tables, schedule, lifetimes and sizes of the signature, run frame by frame on either engine | extends `MemoryPlan` |
| `Pacer` | estimator and pacer of `pacer.rs`, in the loop of its unit tests | |
| `GlFront` | `metal/gl.rs` | |
| `LayerProofs` | theorems about `RecursiveLock`, `Layer` and `FeatureChain` | |
| `FrameTimelineProofs`, `MetalFramesProofs` | about the context under its three callers | |
| `FixedPresentProofs` | about `Settings` and `FixedPresent` | |
| `TextureOwnerProofs` | about the worker, and the pool and the proxy swapchain in front of it | |
| `UpscaleProofs` | about `StageRing` and `UpscaleSize` | |
| `AlgorithmProofs` | about `MemoryPlan`, `PassSchedule` and `Pacer` | |
| `GlFrontProofs` | about `GlFront` | |
| `MC*` | constants of the runs | |

### Layer and FeatureChain

`Layer` is the whole of what two threads of a game can ask of the shim: create and
destroy an instance, surfaces, devices and swapchains, acquire, present, submit, and the
queries of a swapchain, in every order the API allows. `instance`, `devices` and
`swapchains` are `Maps`; `vulkanLayers` and `surfaces` are the two maps that keep the
Metal hooks off Vulkan's layers. A call is a record in `call[t]`: its operation, the step
it is at, and the objects it uses alone or with others. Its steps are divided where
the code lets go of a lock or calls the driver; the API lock is `RecursiveLock`, the
queue lock is held at the step `"queue"`. A present of a swapchain without a wrapper
is at `"forward"` while the driver presents it: it uses the queue and does not lock it.

Two parties are outside the shim. The driver is as strict as the Vulkan specification:
`live` and `active` are its objects, and `illegal` collects whatever it was asked against
its rules. It may fail any creation. The game is careful: `Conflict` keeps apart two
calls of which the API demands external synchronisation, so that whatever goes wrong is
the shim's. Handles are addresses and are used again, also by the proxies, which the
driver never made. A creation goes through every fallback of `create_swapchain`: proxy,
fixed wrapper, and the game's own request.

A switch opens the game further than the code supports: `Defers` lets it replace a
swapchain and keep the retired one. It is off in the run; section 4 says what it shows.
Two threads may create and destroy surfaces of one Metal layer in every interleaving of
`register_layer`, `register_surface` and the two halves of `forget_surface`. `beside`
keeps the surfaces the game made while another of their layer was being destroyed
(`SameLayer`): they may lose the layer, and `LayersOwned` is about all others.

`FeatureChain` is the copy of the game's device chain: known structures are copied, an
unknown one ends the copy and the rest is only linked. `ChainMisuse` tries every chain of
distinct structures up to `MaxChain` and says what the driver would object to (a
feature carried twice, one taken for on that is not, the game's memory written); a
hooked device adds it to `illegal`.

### GenContext, FrameTimeline, PartialFrames, MetalFrames

`batches` is everything ever submitted, in order; `done` is how many of them the
GPU has completed and `running` which of the rest it has started. A batch waits for
and signals values of the two timelines, may signal a fence, and has an effect on
memory when it starts to run (`Effect`): which frames are in the source layers, what
the pre-pass saw, what is in the destination and what was copied out. `InOrder`
chooses between a queue that runs batches one after the other, as MoltenVK does, and
one that only promises to start a batch when its waits are satisfied.
`Dispatch`, `Acquire` and `Settled` are `Context::dispatch`, `acquire` and `settle`;
counters move before the submit, as in the code, and stay moved when it is refused.

`FrameTimeline` adds the wrapper's fields and walks through one present of the game:
copy in, pre-pass, and for every generated frame the main pass, the swapchain image,
the copy out and the present, then the game's own frame. `Outcome` lets a submit be
refused or the device be lost; then `Idle` and `DropContext` take the wrapper down.
`Fixed::run` is never entered without a frame to insert, and always generates before
it acquires, so the branch `if !generated` of `Wrapper::acquire` is never taken.
The copy-in command buffer belongs to a swapchain image; it is modelled as if there
were one image only, the strictest case. The pipeline's two large command buffers are
recorded for simultaneous use, the parameter buffers are not.

`FrameStream` is the abstract specification: frames are asked for, and shown as
(previous frame, frame, slot), in order, each once. `StreamsFrames` says that the
images really copied out, mapped by what is *in* them, are such a stream.

`PartialFrames` is the validator, the caller that stops short of the frames it asked
for and that also uses the protocol without signals. `MetalFrames` is the worker's
`Wrapper` on MoltenVK: it submits a main pass before it has the drawable, waits for the
frame before by a fence that outlives its contexts, may insert no frame at all, and
after a failure drains the queue and builds a new context. Only its own submits are
refused; a refused submit of the context is observation (a) of section 4.

### Settings and FixedPresent

A configuration file is a list of lines, `<<key, type of value, value>>`; `Parse` and
`ToToml` work on those. The process starts (environment, own profile, file or default
file written, `identify`), and the watcher keeps stamps, which are a time and a size.
Edits save a file at once, or in place, so that it is seen cut (`Save`, `FinishSave`),
or remove it. A save moves the file's time on; the rest of one in place may come in the
same tick, as the clock of a file system is coarse.

`FixedPresent` is one present, from the preamble (the watcher's look, reload, fresh
semaphores, context) over `grow` and the steps of `run` to its end, every call of which
may fail. Binary semaphores are followed in submission order, which is sound because
all use of them is on one queue: `signalled` is what will be signalled when the queue
has run dry. A present refused by the driver may or may not have consumed its wait and
its image: both are tried. All presents and creations run under the API lock, so the
preamble of another swapchain, which may reload the profile (`UpdateElsewhere`), happens
between two presents and never inside one. The game's own semaphores are outside the
module.

### PresentWorker, DrawablePool, ProxySwapchain

A drawable is a number; `holders[d]` is the set of parties that hold a reference:
the game, the channel or the worker, a copy that Metal retains until it has run, the
presented handler of the shown frame, and the listener of `retire()`. Three queues
run behind the host: the game's own work, the pipeline and the presents, each in
order and each waiting for the event values of the others. The worker's `pc` follows
`process()`: prepare (choose the native engine, MoltenVK or none), settle, start,
then one step per shown frame, and `reset` and the native present after a failure.
Its local variables are reset at the end of a job, so that equal states are equal.
The main passes are left out of the pipeline queue: they run between the copies that
are there. `Plans` is what multiplier or pacer may ask for; empty means multiplier 1.

`DrawablePool` adds acquire, commit, drop and resize of a Metal game, and its three ways
to present: on a command buffer, which may carry several drawables and whose commit hook
hands them over one at a time (`sending`); between a wait and a signal of a Metal 4
queue; or directly. `pool[t]` counts how often a texture is in the pool, so that a double
return would show. `ProxySwapchain` adds the images of a Vulkan game, whose drop waits
for queued images. The two share every worker step, so what one shows about the worker
the other shows with a different owner of the textures.

No GPU command takes longer than the two seconds (`GPU_TIMEOUT`) that the worker is
prepared to wait. With longer ones the worker gives a frame up while its commands
are still queued; that, and the drop of a swapchain that gives up after two seconds,
are not modelled. An acquire that times out, a refused empty submit and a serial
that is never used have no effect and are left out. Presented handlers eventually
run, as Metal promises. One thread of the game commits the frames of a layer, on one
queue; the command buffer that a direct present belongs to is the last one committed.

### StageRing and UpscaleSize

`StageRing` has `ring`, `ring_next` and the presents that still read a texture; `Reset`
happens while the pipeline is idle and the presents are not.

`UpscaleSize` has the three threads that change the sizes of a layer: the setter of
`drawableSize` (`SetSize`, then its look at the upscaling, then the layer's own setter),
the thread in `nextDrawable` that refreshes the upscaling, and the worker that stops it
when its scaler fails. Each holds its locks as the code does, and can be overtaken where
it holds none.

### MemoryPlan and PassSchedule

`MemoryPlan` is `plan()` alone, for a list of images of any size and lifetime:
`PickLargest` takes the next, `Walk` moves it past one placed range, `Place` inserts it
in order. `PassSchedule` has the tables of the signature as functions, the greedy
schedule and the lifetimes; it then loads the sizes the images have for a source of
512 by 512 in either quality, plans them with the steps of `MemoryPlan`, and runs the
stages: pre-pass once per game frame, main pass once per generated frame, or not at all.
What the caller encodes goes to `queue`, ahead of the GPU: copies in, updates of the
parameters, passes, copies out. `MayRun` says which entries may run next: on Vulkan in
order, a stage at a time, as the barriers demand, with the parameter block in memory
that updates rewrite; on Metal by the fence between encoders and the tracking of the
external textures, with a block copied into each encoder. A write destroys every image whose range,
at the offsets just computed, meets the written one's. So the two questions are asked of
the same memory: that images live in one stage are apart (`NeverOverlap`, proved for all
plans), and that "live" was computed well enough for passes that are repeated
(`InputsFresh`, proved for any number of frames). An assumption of `MCPassSchedule`
compares the tables with the rows the unit tests pin, another (`ConstantsFit`) checks that
the planner's constants hold these images. Image 34 deserves a word: it is not pinned although the pre-pass writes
it and every main pass reads it; that is sound only because it lives to stage 44 and the
one write after that goes to the external destination.

### Pacer

`Frame` is one frame of the game: its own time, the wait for one of three drawables,
the estimator's `Sample` and the pacer's `Slots`, whose disjuncts are the paths through
`slots()`. Time is in sixtieths of a refresh, so that the fractions the pacer snaps to
are whole numbers; `FRACTION` is 1.2 of them and becomes 1, the tolerance `EPS` is not
needed. The smoothing rounds towards the sample, because a floating-point estimate
comes as close as one likes and one rounded to nearest would stop short. The loop is
`closed_loop` of the unit tests, with a game that may change its pace between frames,
and with the display's idle time observed. Windows, lists of slots and the samples of
a probe keep the sizes of the code.

### GlFront

One swap is `flush`, a record that walks through `flush_hook`: routing by multiplier and
view, tearing down what is of an old size, building the context or, on the native
engine, waiting for the thread that builds it, then the copy in, and for each slot
dispatch, produce, scale, blit and swap. `work` is what OpenGL and the GPU were given and
have not run, as reads and writes of shared surfaces; `glFinish`, the settling and the
waits of the generator take entries out of it, nothing else orders the two. `names` are
the framebuffers of each context, `backing` the surface size OpenGL was pinned to.
`ResizeView`, `SetBacking` and `FreeContext` are the game's, between swaps.
A setup goes framebuffer by framebuffer: `fresh` is the context being set up with the
surfaces it has so far, `trial` the surface whose framebuffer is made and not yet found
complete. Each of `Surface::new` (its texture, then its framebuffer), `Up::new`, the
semaphores before and the wrapper after the surfaces, and the build thread may fail at its
own step; `SurfaceMade` deletes the one that does not work, `Undo` what was made before it.
`stale` remembers contexts whose address was used again, of which nothing is promised
about names (observation (k)).

## 3. Runs

| Run | Bounds | Shows |
|---|---|---|
| `layer` | 2 threads, 1 device, 2 surfaces of one Metal layer, 3 swapchain handles, lock nesting 1, feature chains of up to 5 structures | the driver is never misused; nothing outlives its parent; the tables match what exists; queue and pool are used by one thread, but for a forwarded present beside a proxy's acquire; Vulkan's layers stay Vulkan's through every order of two threads' surfaces, but for one made beside a destruction; some thread can always go on; the lock excludes and loses no wakeup |
| `frame_timeline` | 3 game frames of 1 or 2 generated ones, overlapping batches, any submit refused, device loss, no timeline waits | no wait without a signal, no backward signal, no early reuse, the right images in order, every present and close ends |
| `partial_frames` | the validator: 3 iterations of 1 or 3 frames, both protocols, abandoned anywhere; the worker: 3 frames of 0 to 2 generated ones, 2 contexts | what is recorded again is idle, signalled images are intact, every wait returns |
| `fixed_present` | 4 images, 4 configurations, 5 environments, 1 save that may be cut in two places, 2 failed presents, every call may fail | no binary semaphore misused, generation runs with the current profile, images lost are bounded by failures, a known stamp means a file that was read, the profile in use keeps its name |
| `drawable_pool` | 3 textures, limit 2, 3 drawables, 1 resize, the three ways of presenting, both engines and no generation, no faults | no texture home while something reads it, exact count, no present that waits for nothing, frames in order, context idle when restarted |
| `drawable_pool_skip` | 2 drawables, a frame may be skipped | *violated*: a skipped frame goes home under its copy (finding 1) |
| `proxy_swapchain` | 2 images, 2 presents, refused present command buffers | queued means held by one drawable, no image free under a reader, images and drop return |
| `stage_ring_reset` | 10 frames, 3 real drawables, 1 reset | *violated*: the ring's count survives its textures (finding 2) |
| `upscale_size` | 3 sizes, 2 changes of size | *violated*: an upscaled layer left with drawables of the game's size (finding 3) |
| `pass_schedule` | the real tables, both qualities, 99 images of real size, 2 game frames of 0 or 2 generated ones, 2 timestamps, both engines | images live together never overlap; every pass reads what its own iteration and frame wrote, and its own parameters |
| `pacer` | multiplier 4, five paces from 0.3 to 16 refreshes, 2 changes at any frame | slots in order within the frame; probes are short; a game's pace is found again after any change |
| `gl` | 1 context address, 3 views, 3 changes, multipliers 1 to 3, upscaling on and off, both engines, every failure | OpenGL and GPU take turns on a surface, framebuffers are given back wherever a setup or a frame fails, engines fit, the pin is taken back, the back buffer is defined |

The longest are `drawable_pool` and `pass_schedule`, two to three minutes each; `layer` has
some 645 000 states and takes a minute and a half.

**Why these bounds are enough to be interesting.** Two threads meet in every pair of
calls of the layer; three handles let a replaced swapchain, its successor and another
surface's exist at once and an address come back. Three game frames use both source
layers twice and every command buffer twice; two generated frames have a first and a
last main pass with a signal in between. Three textures with a limit of two make the
third drawable wait for one that returns, as three do for the fourth in the code, and
leave a texture over for a resize; textures are interchangeable, and the safety run of
the pool uses that symmetry, as `fixed_present` does for images and `layer` for threads,
handles and the two surfaces, which are of one Metal layer (no liveness property is checked under symmetry). The pipeline is planned at
its real size, since its images and passes are fixed; a second game frame meets what the
first one left. Ten shown frames take the stage ring past a reset and round again. Two
changes of pace let a game slow down or pause in the middle of a probe and come back;
cap, probe and smoothing have the values of the code. In `gl` the views are two of one
size, one of them shown larger, and one of another, so that a change may touch the shown
size, the drawn one or both; the one lock keeps two contexts apart. `Keeps`, a game that
keeps drawables past their present, is off in the pool's runs and covered by the proofs,
which hold for either value.

**Fairness.** The thread inside a call keeps running (`WF` on the host's or the
worker's steps: no step waits for anything but the GPU or a lock that is held for a
bounded time) and the GPU works off its queues (`WF` on the devices). The game is
never assumed to do anything: it need not present, acquire or let go. `pacer` is the
exception (`WF` on `Frame`): its liveness is about a game that goes on at one pace.
`Layer`, `FixedPresent` and `GlFront` state none; that calls of the layer can go on is an
invariant, `CallsGoOn`, which names the guards a call may have to wait at (`HeldUp`) and
does not count on spurious wakeups. No fairness between threads is claimed for the lock.

`CHECK_DEADLOCK FALSE` stands where the game may simply stop: the pool, the proxy
swapchain, the fixed wrapper, the upscaled layer. The other runs have explicit `Done` or
`Dropped` steps, or games that can always make another call, with deadlock checked.

## 4. Findings

1. **A frame skipped after its copy in** (`metal/generator.rs:1685`). On the native
   generator a frame may be skipped when its real drawable still has the size from
   before a resize. `process()` then shows the game's frame natively, without a
   reset, and its texture may be back in the pool before the copy in has read it.
2. **The ring's count survives its textures** (`metal/generator.rs:1603`). `reset()`
   empties the ring and leaves `ring_next`; the regrown ring is indexed modulo its
   growing length, so one texture is taken several times running while presents of it
   still wait. The comment beside it counts on the fourth texture back being free.
3. **An upscaled layer with drawables of the game's size** (`metal/generator.rs:276`).
   The setter of `drawableSize` finds no upscaling, another thread starts upscaling and
   resizes the real drawables, and then the setter's own call resizes them back. Nothing
   changes afterwards that a refresh would notice; the worker skips each frame as one
   from before a resize.

The following are observations: the model or its switches show them, and no run claims
them, because nothing in the repository promises otherwise, or because they need a
driver or a game that the modules exclude.

Generation and the driver:

* (a) `dispatch()` and `acquire()` of the context advance `first`, `internal_value` and
  `sync_value` before a submit that may be refused (`generator/mod.rs:335`, `346`, `378`).
  On a device that waits by timeline, `settle()` in the drop that follows waits without
  a timeout for values nobody will signal, although it is to "wait for everything
  submitted so far" (`generator/mod.rs:294`). `TimelineWait = TRUE` in
  `FrameTimeline.cfg` shows it; without timeline waits the queue is drained and the
  drop returns, which is what the run checks.
* (b) `slots()` gives the cap to every ratio that rounds to it or above
  (`pacer.rs:139`). With multiplier 4 that touches only games between three and four
  refreshes a frame; with multiplier 2 it is every game from 1.5 on. There `Cap = 2` in
  `Pacer.cfg` violates `NotHeldBack`: after a slow stretch a game that could outrun the
  display stays at half its rate. The unit test that asks for the display's rate
  (`pacer.rs:503`) runs with multiplier 4, where it holds.
* (c) A present of the fixed wrapper that fails before its copy in leaves the semaphores
  the game gave it signalled (`shim/fixed.rs:361`). After a reload to a higher
  multiplier the swapchain keeps the image count asked for the old one.

The layer:

* (d) `forget_surface` lets go of `SURFACES` before it takes `VULKAN_LAYERS`
  (`metal/hooks.rs:252`); a surface made on the same Metal layer in between loses its
  layer: the destruction finds no other surface of the layer, the creation registers both,
  and the destruction takes the layer out. `LayersOwned` without its `\ beside` is violated
  by just this. Surfaces created beside each other, destroyed beside each other, or standing
  while others come and go, keep their layer. A failed `create_surface` leaves its layer in
  `VULKAN_LAYERS`.
* (e) A driver swapchain replaced by a proxy is never retired at the driver. With
  `Defers = TRUE` a game that keeps the old one gets a second swapchain for its surface
  when it falls back, and `DriverObeyed` is violated.
* (f) Presents of unwrapped swapchains (`shim/mod.rs:1501`), and the unhooked
  `vkDeviceWaitIdle`, use the adopted queue without its lock. A game keeps its own presents
  and submits apart, but it does not know that an acquire from a proxy submits: a
  forwarded present of another swapchain may run beside that submit. `OneAtATime` excepts
  exactly this pair, and TLC finds it violated without the exception. The wait is not
  modelled. Besides, `vkCreateImage` and `vkBindImageMemory2` are not
  guarded against the handle of a proxy in their `pNext`.

The Metal front end:

* (g) When a present's command buffer cannot be built after `forward_presented()` handed
  the proxy over (`metal/generator.rs:1843`), the dropped real drawable recycles the proxy
  while the native present that follows still reads it. `Faults = {"present"}` in
  `DrawablePool.cfg` shows it; it needs a device out of resources.
* (h) A game that commits frames of one layer from two threads or queues: the order of
  serials need not be the order of completion, and a copy in may read a texture that is
  not drawn yet. Direct presents outside a Metal 4 signal pair are paired with the last
  buffer committed on that thread.
* (i) Invalidating an old proxy swapchain clears the upscaling of a newer one of the same
  layer (`metal/proxy.rs:424`).
* (j) The worker's `stop_upscaling()` racing the setter can leave the real drawables at
  the old size for good when the new size cannot be upscaled.

OpenGL:

* (k) A context whose address is used again meets the state of the old one
  (`metal/gl.rs:510`); a context with generated frames is not rebuilt when only the shown
  size changes; `Up::release` restores what stood when the surface was pinned, not what
  the game asked for since; and the swap in which generation fails may show an undefined
  back buffer once. The properties except exactly these.

Settings:

* (l) A save between `load()` and `Watcher::new` is noticed only with the next one
  (`settings.rs:636`; `StampMeansRead` excepts it as `overtaken`); a correction of the
  same size in the same tick is not picked up, though `settings.rs:626` hopes for it; and
  the default file is renamed over one saved between the check and the write
  (`settings.rs:282`).

## 5. Proofs

All constants are arbitrary within their named assumptions, which TLC evaluates on its
instances. `LayerAssumption` is the only one about names: handles, devices, surfaces and
the instance are told apart. A few theorems have a hypothesis of their own, each named
where it is used below.

**The layer** (`LayerProofs`).

* *The lock* (`LockTypes`, `LockExcludes`, `LockWakes`). Exclusion alone is not
  inductive: an inner drop could free the lock if `depth` were too small. The
  strengthening `Owned` says that `depth` is exactly the number of guards of `owner`
  and nobody else holds any. No lost wakeup is inductive as it stands: whoever finds
  the lock free is testing, and a thread stops testing only by taking the lock or by
  finding it taken. `LayerLocks` shows that the layer, seen by its lock alone, implements
  `RecursiveLock`, so that the three hold of it.
* *The calls.* Every step of the layer rests, begins a call, moves one on or ends it
  (`Skeleton`), and these four keep what is known of all calls at once: who holds the
  lock, who the queue lock, and that two calls that need external synchronisation do not
  run together. `LayerTakesTurns` is that with the queue and the command pool: two users of
  a queue are a forwarded present, which the game keeps from every call it knows to use the
  queue, and an acquire.
* *The accounts.* Nothing the layer promises about its tables is inductive without
  what the calls under way have in hand: a handle is, at every moment, the game's, in the
  table, or in the hand of one call, never in two places (`OnceInv`), and what stands
  behind it is exactly what its place calls for (`ExactInv`), through every fallback
  of a creation and every step of a destroy. With no call under way this is `TableExact`
  (`LayerTables`); with the parents of each object it is `ParentsFirst`
  (`LayerParents`). `LayersStayOwned` holds for any surfaces of one layer, made and
  destroyed by any threads: its invariant (`LayersInv`) says that whoever is
  created beside a destruction is in `beside`; that a creation past its registering keeps the
  layer in otherwise; and that a destruction about to take the layer out leaves no surface of
  it but those in `beside`.
* *The driver* (`DriverNeverMisused`, for `~Defers`, the game the code supports;
  observation (e) is the other). `DriverInv` adds three things. The active swapchain of a
  surface is alive and is the game's or in the hand of a call (`ActiveInv`). A creation
  knows at each of its steps what is active on its surface, so that what it hands the
  driver as the old swapchain is the one to retire, also after a fallback
  (`Creating`). And what a present or an acquire looked up before it took its lock is still
  true when it uses it (`Asking`). `ChainHarmless` supplies the feature chain, for chains
  of any length: the copy is the game's body behind what was prepended, and a structure
  is prepended only when nobody carries its feature.
* *No deadlock* (`LayerGoesOn`). The two kinds of lock nest one way: who has a queue's
  lock takes no other before it lets go, so if any queue is in use its user goes on.
  Otherwise no call waits for a queue, and the API lock is left: its owner goes on, or it
  is free, and then `NoLostWakeup` gives a thread about to test it.

**The context** (`FrameTimelineProofs`, `MetalFramesProofs`).

* *Counters* (`TimelineTypes`, `CountersInStep`, `QueueNeverStalls`, `TimelinesAdvance`),
  for any number of frames, any multiplier, any refusals, device loss, both kinds of
  queue and of settle. `NeverStalls` and `SignalsAdvance` speak about the whole log of
  batches; what makes them inductive is `InStep`, which says at every point of a frame by
  how much the wrapper's count, the context's count and the last value any batch
  signals differ. The log part is factored out: appending one batch keeps both facts when
  its waits are at most, and its signals above, the pending values (`SubmitKeeps`), and
  each of the four submits then needs only `InStep` at its own point.
* *Frames* (`StreamInvariant`, `ReuseHolds`, `FramesHold`, `StreamImplemented`). `StreamInv`
  adds the shape of the log: which batch follows which (`Log`), that each one but a copy
  in waits for what only the batch right before it reaches (`Chained`, `Awaited`), and
  that what is unfinished is of one frame (`Underway`), for a copy in is submitted only
  after the frame before it is done. So even the overlapping queue runs one batch at a time,
  in order, and no command buffer is recorded under one. From there the contents of
  the images follow (`Memory`), and with them that wrapper, context and GPU together
  implement `FrameStream`.
* *Abandoned frames and contexts* (`IntactInvariant`, `NothingRecordedInUse`,
  `FramesStayWhole`), for the validator and the Metal worker, any plans, totals, frames and
  contexts, on either queue and with either settle. The first half, `IdleInv`, is what may
  be in use: `settle()` leaves no pass unfinished whatever was abandoned, the worker's
  fence none of the copies of the frame before, and the two counts agree again after a
  partial iteration. The second half adds, for the signalled protocol, that each command
  but a copy in waits for what was announced right before it; only a copy in can start
  one command early, and then into the layer nobody reads.

**The fixed wrapper** (`FixedPresentProofs`: `SemaphoresTaken`, `AlwaysCurrent`,
`LossesPaidFor`, `KeepsProfile`, `StampsMeanRead`), for any images, configurations,
environments, saves and failures. The invariant has four parts, each proved with those
before it. `SemaphoreInv` writes down what is signalled at each step of a present
(`Expected`), and that between presents it is nothing unless generation has failed or lost
its context, so that fresh ones come first. `CurrentInv` says what the context was built
for, `LossInv` accounts each lost image to a refused present, a revision or the one
failure since. For the stamps, `StampInv` says that the file is always a save or the
beginning of one, that every stamp anyone holds is of an earlier time than the file or
of the same and no longer, so that each change of the file makes all of them old
(`ChangeIsSeen`), and that a file whose stamp is known has been read.

What was read is what was saved: `SavedReadBack`, that a saved configuration is a sequence
of lines and that one that can be used is read back as it was written, for any number of
profiles with any fields. `ConfigsAssumption` says what a file can say of a profile: either
a flow scale or that it is automatic, for a file has one line for both; with the second the
scale is the default one. `Parse` folds over the lines and `ToToml` flattens the lines of
the profiles, so this is induction over data. The library's induction theorems cannot
be used, so the proof goes by counting (`ByCounting`: a set of naturals that has 0 and
with each number the next has all of them, or a least one would be missing). Three facts
are had that way: that the recursive function behind `FoldLeft` exists and reads a longer
text line after line (`ReaderExists`, `ReadLast`, `ReadMore`), the same of `FlattenSeq`
(`FlatSteps`), and that profiles are read one behind the other (`ReadProfiles`). Within
one profile each line sets the field it names and no other (`NameSet` to `NumberSet`), and
the fields not written are the default ones.

**The worker and its textures** (`TextureOwnerProofs`).

* What the worker does holds for either owner of the textures: `Base` is `Job` (whose
  frames the worker has), `Framed` (every command is about a drawable), `Values` (the
  event's values increase along the pipeline, and presents wait for values that come),
  `Engines` (what a frame leaves on the pipeline of its context) and `Shows` (a shown
  frame is kept alive by its handler). `Reads` says what keeps a frame alive that the
  pipeline has still to read; it holds when no frame is skipped past its copy in, which
  is finding 1.
* *The pool* (`OutstandingCounted`, `PresentsNeverStuck`, `ContextWaited`, `OrderKept`;
  and `TexturesHeld`, for `Faults = {}`), for any textures, limit, frames, resizes and
  ways of presenting. `PoolInv` is `Base` with the exact count itself and `SendingHeld`:
  what the commit hook has in hand is the game's alone, so no step of the worker can
  return it. `OrderKept` needs the whole line of frames, from the hook over the channel
  and the worker to the presents, to be in the order of their commits (`Line`).
  `TexturesHeld` adds `Reads` and `Ended`: a texture that went home early, by its handler,
  had its command on both queues behind it.
* *The proxy swapchain* (`ImagesQueued`; and `ImagesUntouched` when no frame is
  skipped). `ImagesHeld` ties an image that is queued to the one drawable that lives; a
  last reference frees the image of its own drawable, and nothing takes a dropped
  drawable again (`GameOwned`).

**Upscaling** (`UpscaleProofs`). The runs of `StageRing` and `UpscaleSize` find findings 2
and 3. The theorems say that these are all that is wrong with the two comments.

* *The ring* (`RingHoldsBetweenResets`), for up to four real drawables and any number of
  frames. If each reset finds a count that 12 divides, as 0 is before the first frame, the
  regrowing ring of 1, 2, 3 and 4 textures is indexed as if it had always been full: the
  texture of a frame is its number modulo four (`RingOf`), presents of the textures before
  the reset are of other textures (`ReadsOf`), and at most four frames are between a
  present that still reads and the copy of the newest one (`Bounded`).
* *The sizes* (`ShownSizeKept`), for any sizes and changes. If the setter's own call to the
  layer (`SetRealSize`) never comes to a layer that is upscaled by then, an upscaled
  layer keeps drawables of the shown size: whoever changes the upscaling holds the lock
  `sizing` until the drawables have followed (`SizesInv`).

**Planner, pipeline and pacer** (`AlgorithmProofs`).

* *Planner* (`PlanInvariant`, `PlanNeverOverlaps`), for any number of images, sizes and
  lifetimes. The invariant has the order of the placed ranges and the *clearance* of the
  item that moves: everything it has walked past and is live with ends at or below where
  it is now. Order makes the rest of the walk start above.
* *Pipeline* (`PipelineInvariant`, `InputsStayFresh`), for any number of game frames and
  generated ones, any timestamps and either engine, over whatever memory the planner
  chooses. The hypothesis is `TablesFit`: the constants of the planner leave room for the
  99 images, their sizes and their stages; `MCPassSchedule` assumes it of its own. No
  stage is ever computed. `TableInv` says of the greedy schedule, at each step of its
  loop, that a pass comes behind all its inputs (`InputsBehind`) and a main pass right
  behind the last of them (`RightBehind`), and of each lifetime that it runs from the stage
  that writes to the last that reads. What the second generated frame needs follows by
  arithmetic along the chains: each chain of the last steps ends within five stages of
  what it waits for (`ChainFollows`, `EpsilonFollows`), so the gamma and delta chains of
  the last step end last of all (`LastEnds`), they read the mipmap of the betas there, and
  so it outlives every stage before the destination's (`LeftForMain`), which is
  external and takes nobody's memory. `RunInv` is about the frames: a queue holds one
  iteration's entries, each waiting for the one ahead (`Orderly`, `OnlyHead`), so the
  caller may be any number of frames ahead; the block is that of the entry at the head
  (`BlockHeld`); and whatever a later stage may still read is of its own iteration and frame
  (`PrePassHeld`, `MainHeld`), for a stage writes over no image kept that long
  (`KeptApart`, from the plan).
* *Pacer* (`PacerInvariant`, `SlotsAlwaysFit`, `ProbesEnd`), for any multiplier, any paces
  and changes. An answer is right if the phase it starts from is not 0 and the ratio is a
  time; each branch of `slots()` leaves both so, for each of the four denominators. For
  the probes, `ProbeCounted` says that each frame of one is counted in `probing` or in
  `probes`, and neither passes its limit.

**OpenGL** (`GlFrontProofs`: `GlInvariant`, `GlTakesTurns`, `GlOwnsNames`, `GlEnginesFit`,
`GlPinsTakenBack`, `GlSwapsDefined`), for any contexts, views, resizes, failures and
addresses used again. Each property is about one step of a swap; `GlInv` says what a swap
finds at every other: that the context in use and its engine are as large as the frame
(`Built`), which frame is the next to show (`Counted`), that the names of a context are those of
what the front keeps for it and, during a swap, of what its setup has made so far
(`Owned`, `SettingUp`), that a surface stands at a size the game asked for or
at its pin (`Pinned`). For the shared surfaces, OpenGL writes only until `glFinish` and
after it reads only frames that were shown before the one being made (`GlReads`); the GPU
has work only within a swap, and writes nothing but that frame (`GpuInSwap`).

Model-checked only:

* Liveness (`CallsReturn`, `ImagesReturn`, `NotHeldBack`, `DisplayFed`): the prover does
  not reason about fairness. That the pacer finds a pace again is `NotHeldBack`. All
  invariants and action properties of the passing runs are proved.

## 6. Not modelled

* Values inside images, layouts, access masks, descriptors, dispatch sizes: order stands
  for them. Sizes are those of one source; other sizes, HDR and the flow scale change
  them, and the theorem about the plan covers any.
* Forwarders, Vulkan helpers, shader package, log, statistics, doctor, shader check,
  build and examples: no state between calls, or none that anything depends on.
* The characters of a settings line, log options and paths.
* Function resolution, instance creation of the generator, hook installation and
  Objective-C runtime patching: done once, before any of this runs.
* OpenGL's saved state and the spacing of swaps on the vblank clock.
* GPU hangs beyond the worker's time limit, which two of the hazards without a property
  need (`metal/proxy.rs:493` and, with a lost device, `shim/fixed.rs:361`).
* What section 7 lists.

## 7. Plan

The suite has twelve runs; a step that adds one replaces or joins another.

1. **GPU hangs** in `PresentWorker`: a `settle()` or a drop that gives up after
   `GPU_TIMEOUT` while the commands are still queued.
2. **Proxy creation**, joined to `Layer` and `ProxySwapchain`: the format and size
   checks that send a swapchain one way or the other.
3. **Pacer at multiplier 2**: the observation (b), once a run is free for it; samples by
   present durations, and the OpenGL front end's, which take the waits out of the
   interval.
