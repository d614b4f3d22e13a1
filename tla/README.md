# UVC4Flutter: a TLA+ verification project

UVC4Flutter (`uvc_manager`) shows USB cameras in Flutter applications on Android.
A camera travels through four layers, and every layer keeps a map of the devices
it knows: the Kotlin fragment that opens USB connections, the closed C++ camera
library, the C++ plugin with its holders, and Dart's `UVCManager`. Attach, detach,
permission, pause, resume and engine events reach these maps on different threads.
This project models how the maps, the objects behind them and the locks between
them stay right, or do not.

## Inventory

| Component | State | Operations | Interacts with | Hard behaviour |
|---|---|---|---|---|
| `DeviceDetectorFragment.kt`, `DeviceDetector.kt` | `mConnectors`, `mUSBMonitor`, `mAsyncHandler`, two graveyards of closed connectors | lifecycle (`onAttach`, `onStart`, `onStop`, `onDetach`), callbacks of `USBMonitor`, `addDevice` with retries, `removeDevice`, `rescanConnectedDevices`, refresh | calls `nativeAdd`, `nativeRemove`; is called by Android, by `USBMonitor`'s thread, by native code and by Dart through `UVCManager.kt` | three threads; unguarded fields; retries against `onStop`; a finalizer that closes again |
| C++ plugin: `flutter_plugin_main.cpp`, `flutter_plugin_java.cpp`, `flutter_uvc_holder.cpp`, `flutter_utils.cpp` | `pluginJava`, `plugin_lock`; per object `holders`, `m_lock`, `m_manager`; the Dart port | FFI calls (`get_state`, `start`, `stop`, ...), `nativeInit`, `nativeRelease`, `nativeSetSurface`, callbacks `add`, `remove` | called by Dart isolates and the platform thread; called back by the library; posts messages to Dart | two locks; `try_lock`; reference-counted holders whose destructor stops the stream; destruction while callbacks run |
| `uvc_controller.dart` | `_availableControllers`, `textureId`, cached sizes and controls | `_handleOnDeviceChanged`, clean-up on resume, FFI calls directly or on compute isolates | FFI and method channel | messages that wait while the isolate is in a call |
| Start-up: `UVCManager.kt` (engine and activity callbacks, `initialize`, `rescanDevices`), `UVCManager._internal`, `initDeviceDetector`, `flutter_utils.cpp` | `mActivity`, `mNeedInitialize`, the fragment in the `FragmentManager`, the Dart port | attach and detach of engine and activity, `initialize_dart_api`, `set_dart_api_message_port`, `initialize` | Android's activities, transactions and saved state; method channel; FFI | three parties that start in their own time; retained and restored fragments; reports lost while no port is set |
| Texture lifecycle: `UVCManager.kt`, `uvc_preview.dart` | `mSurfaceProducers`, `_textureId` | `createTexture`, `releaseTexture`, surface callbacks, pause and resume of the view | `nativeSetSurface`; method channel | check, await, assign; pause against a start in flight |
| Sizes and controls: `uvc_controller.dart`, `uvc_video_size.dart`, `uvc_control_info.dart`, the getters and setters of the C++ plugin | `_supportedControls`, `m_supported_size`, `m_current_size` | `getSupportedControls`, `getSupportedSize`, `setCtrlValue`, `setSize`, ... each on an isolate of its own | FFI, struct by struct | a copy of the controller per call; loops of calls that fail one by one; structs declared twice; masks that share bits |
| The camera library (`lib*.a`, `aandusb_native.h`) | streams, surfaces, its device list | `manager_init`, `uvc_start`, `uvc_stop`, ... | called by the plugin, calls it back | closed source: external here |
| Platform interface, generated bindings, library loading, permission activity, example | none of interest | forwarding | - | none |

What makes each component correct:

* fragment: no descriptor is closed twice; the map holds open connectors only; a
  permitted camera is eventually tracked;
* C++ plugin: no call uses a dead object; no stream without an owner; calls take
  effect once, atomically; everything returns;
* Dart: the map of controllers follows the holders of native code;
* start-up: one detector per activity, nothing posted before the Dart API is resolved, a
  camera that Dart shows is one the fragment has, and a camera that is plugged in gets
  to Dart;
* sizes and controls: a list is what the camera has or a call failed, a size is fresh,
  the cache is right unless a reply said otherwise, every call is answered;
* textures: a surface that is gone is not drawn into, no texture is lost, the texture on
  the screen is the one drawn into, every handler ends.

## Modules

| Module | What it is |
|---|---|
| `DeviceDetectorFragment` | the fragment with its three threads |
| `DeviceDetectorFragmentProofs` | its inductive invariant and theorems |
| `MCDeviceDetectorFragment` | its instances for TLC |
| `MCDeviceDetectorHistory` | the same with a history variable: have handlers overlapped? |
| `MCDeviceDetectorHistoryProofs` | the theorem about that history |
| `FlutterPlugin` | the C++ plugin, its callbacks, and Dart's `UVCManager` |
| `DeviceService` | what the plugin promises to its callers, abstractly |
| `FlutterPluginProofs` | inductive invariant and theorems of `FlutterPlugin` |
| `FlutterPluginRefinement` | the proof that `FlutterPlugin` implements `DeviceService` |
| `MCFlutterPlugin` | instances of `FlutterPlugin` for TLC |
| `TextureLifecycle` | view, controller, method channel and Kotlin textures, on top of `DeviceService` |
| `TextureLifecycleProofs` | its inductive invariant and theorems |
| `MCTextureLifecycle` | its instances for TLC |
| `DetectorStartup` | how a camera becomes known to Dart when engines, activities and isolates come and go |
| `DetectorStartupProofs` | its inductive invariant and theorems |
| `MCDetectorStartup` | its instances for TLC, with a history variable for one stay in the foreground |
| `ControllerData` | what a `UVCController` reads, sets and caches of its camera |
| `ControllerDataProofs` | its inductive invariant and theorems |
| `MCControllerData` | an instance for TLC, with the history of overlapping calls and of replies |
| `MCControllerDataProofs` | the theorem about the cache, which is about that history |

### DeviceDetectorFragment

Threads: `main` (lifecycle, `rescanConnectedDevices`), `usb` (the handler thread of
`USBMonitor`), `async` (`mAsyncHandler`). Each has a control point `pc` and the locals
of the call it is in (`dev`, `retry`, `conn`); `addDevice` and `removeDevice` are the
same actions on every thread. A step ends where another thread can observe the
difference: `synchronized` blocks that contain only map operations are one step, the
block of `removeDevice` is several steps under `lock`, because `close()` and the
graveyard come one after the other. `lock` is the monitor of `mConnectors`; main owns
it during a whole re-scan and is re-entrant in `put`.

`status` is the life of each `UsbConnector` object: unused, open, closed, finalized
(closed by the finalizer alone) or aborted (closed twice: fdsan's SIGABRT). `Finalize`
may strike any object that nothing in the fragment refers to. `NullDereference` is
`mUSBMonitor!!` on a field that `onDetach` has set to null: the process ends.
`native` is the connector whose descriptor native code was given last for a device.

Abstractions. `sRetain*` statistics, logging, dialogs and immersive mode have no
effect on the properties. The delays of the retries are nondeterministic. A new
fragment is made only when no thread of the old one is inside a call. Connector
objects are chosen lowest first; `c1..c3` bound how many can be opened.
External assumptions: reading `fileDescriptor` of a closed connector throws (not an
`IOException`); `UsbConnector.finalize` closes whether closed or not (the comment at
`DeviceDetectorFragment.kt:55-61` says so); `USBMonitor.register` posts no attach for
devices that are present, and `destroy` drops posted callbacks.

### FlutterPlugin

Threads: `dart` (the isolate), `worker` (compute isolates), `platform`, and for every
plugin object `p` a thread `p` on which its manager runs the callbacks. An FFI call is
`Call`, `Enter` (takes `plugin_lock`), a lookup (`FindHolder` with `try_lock`, or
`LockHolder`, which waits and keeps `m_lock`), `Act` (the call of the library) and
`Leave` (drops the holder, then the locks). `is_available` is a lookup of its own
before the one of `set_preview_window`. `add` and `remove` run on thread `p`:
lock, change of the map, and only then, outside the lock, the message to Dart.
`NativeInit`/`Install` builds the new object first and destroys the old one while it
holds `plugin_lock`; `NativeRelease` destroys outside it. The destructor is
`TerminateAll`, `ManagerRelease`, `DestroyMembers`.

Callbacks come as soon as an object has a manager: the fragment of an earlier activity may
report its devices before Dart has set its port, or before the new object is installed.
`Send` then posts to nobody, or to the isolate of the object before. `told` is a history
variable: the devices that a message of the served object has been about since its Dart
started, which are those of which Dart can know.

`home`, `ref` and `Drop` model `shared_ptr`: the last reference runs the destructor,
which stops the stream of the device, whoever started it. `stream[p][d]` remembers
which holder began the stream that runs. `queue` is the Dart port: ordered, lossless
once a port is set. `served` is the plugin object whose engine runs Dart.

External assumptions: one manager runs its callbacks one at a time; `manager_release`
waits for the callback that is running and ends the streams. A `FlutterUVCHolder` is
freed before its address is reused. The compute isolates are one thread, since calls of several would only queue
for `plugin_lock`. The queries (`get_device_info`, controls, sizes) are one action
that changes nothing the properties see; which calls wait for `m_lock` is kept.

### DeviceService

The plugin without locks, holders and objects. `call` is what each caller has invoked;
one step gives the call its effect (`Start`, `Stop`, `SetSurface`) or none (`Miss`,
which is what a lost `try_lock` is); `Detach` and `Replace` are the only other steps
that end a stream or take a surface. `Replace` releases the plugin object, or puts another
in its place that may know devices already, since its callbacks need not wait for the
installation. `FlutterPlugin` is shown to implement it by the
mapping of the instance `Promise`: present devices are those with a holder in the
current object, a device streams for its callers when the stream that runs was begun
by that holder.

### TextureLifecycle

`FlutterPlugin` implements `DeviceService`, so the layers above are modelled against
`DeviceService` (`Native`), with the callers `dart`, `worker` and `platform`; a call may
miss (`Native!Miss`), as one whose `try_lock` fails does. One camera, its
`UVCController` and one `UVCVideoView` are followed.

Each handler of the view or controller (`_initTexture`, `resumed`, `paused`, `dispose`,
`detached`) is a task: what it does between two awaits is one step of the isolate, and
`at` says what it waits for. `stop()` is a synchronous call that keeps the isolate busy
(`DartFree`). `start()` is posted to a compute isolate that nobody awaits (`starts`,
`RunStart`). `requests` and `replies` are the method channel; `work` is what the
platform thread does, during which no other message or surface callback runs.
`producers` is `mSurfaceProducers`; `available` are the textures with a surface, which
`onSurfaceAvailable` and `onSurfaceDestroyed` change.

History variables name the conditions of the properties: `overlapped` (two
`createTexture` in flight at once), `missed` (a `nativeSetSurface` without effect) and
`cleared` (`releaseTextureAll` has run); `stray` are the producers that a `createTexture`
has kept before it threw (`createFails`): the exception may come before there is a
producer, or after `UVCManager.kt:180` has kept it and 187 has registered its callback.
External: the channel keeps its order in both
directions; a producer returns an id that has not been used; surfaces of one texture
are not told apart; `release()` of a producer calls no callback. A size that is
invalid, or a call that throws, is a choice of `SizeKnown`.

Behaviours the model shows and no property is about, because the repository promises
nothing: a view disposed of during `_initTexture` goes on to create a texture and
start the stream (there is no test of `mounted` before
`uvc_preview.dart:213-216`); a pause during `createTexture` leaves the stream running
in the background; overlapping calls of `createTexture` lose one texture, whose surface
callbacks still reach the library.

### DetectorStartup

Three parties start in their own time. Android and Flutter call `UVCManager.kt`
(`OnAttachedToEngine` ... `OnDetachedFromActivity`), with a configuration change as
detach and re-attach. Dart's `_internal` runs step by step (`step`): resolve the API,
set the port, send `initialize`, listen. The fragment is reduced to whether the
camera is in its `mConnectors` (`tracked`), whether the library has been given it (`held`),
and whether a retry or callback has outlasted `onStop` (`late`): it puts the camera back
later (`AddLate`), `onStart` then skips it, and so the two can differ.
`DeviceDetectorFragment` is the module about how. The library's
reports pass through the thread of the library (`reports`), which posts to the port
that is set at that moment or drops them (`SendReport`), and the queue of the isolate.

`fragments`, `adding` and `retained` count detectors that are in the `FragmentManager`,
in a committed transaction, or kept by Android for the next activity (a configuration
change keeps the retained instance, the end of the process keeps the saved state, from
which Android creates a new one). Counting is enough, because the properties ask how
many there are; `OneDetector` says never two.

`mActivity` is the weak reference: to the current activity, to one that is destroyed
(where `commit()` throws, and the exception ends at the method channel), or cleared
(`Collect`). `compatible` is chosen once: whether the Dart VM has the major version the
plugin was compiled for. If not, `_initNativeApi` throws into a future nobody awaits
and the port is never set.

Abstractions: one camera, plugged in and permitted throughout; one activity at a time;
engines are numbered, a port is the number of its engine's isolate, and a report to the
port of an isolate that is gone is dropped by Dart. A hot restart, which runs Dart again
in the same engine, is not modelled (a development tool). `inputs` bounds what comes
from outside.

### ControllerData

The calls of a `UVCController` for sizes and controls. Each runs on an isolate of its
own, on a copy of the controller (of which `job[j].copy` keeps the entry it uses), and
makes its FFI calls one by one (`pc`); a call tries `m_lock` or waits for it as the code does, and the library may
fail. In between, the camera may go (`Detach`) and come back under its id (`Attach`), with
other values and a holder whose list of sizes may be shorter or longer; an app that keeps the
controller, or a loop on its way, goes on with the new holder. Another camera may come, whose
constructor holds `m_lock` (`OtherAttach`, `OtherAttached`). The FFI calls are atomic here:
`FlutterPlugin` implements `DeviceService`, and nothing these calls do depends on a
step inside.

`getSupportedControls` walks two lists of control types; `todo` is the set of places of
the list it has still to ask, in their order, and `found` the map it has built.

A control type is the set of its bits, so that the masks, the shared bit of pan and
tilt and the bit 31 of the processing unit are what they are in `flutter_plugin.h`.
The structs that cross FFI are lists of fields with their widths, once as the library
declares them and once as Dart does; a field arrives when both put it at the same
offset. `uvc_video_size` and `flutter_video_size` agree on the first five fields only, so a
size that was read (`VideoSizeFrom`) is a record of what says which size it is and of its
intervals and rates, which are `Garbage`.

`value` and `size` are the camera's own. `set_ctrl_value` may apply a different value,
`uvc_resize` may keep the old size, every call may fail (`MaxFaults`). `cache` is
`_supportedControls` in the main isolate: `setCtrlValue` writes it before the camera is
asked, and only `getSupportedControls` writes it from the camera, once. The delay of 300 ms
before its isolate starts is a rest at its first step: it holds nothing and reads nothing.

`Related` are the controls that depend on each other (exposure, iris, brightness, gamma,
gain: Note 1 at `src/README.md:393-394`). The camera may adjust them at any time
(`Adjust`), so the cache can be wrong about them although every reply was as asked;
`CacheAgrees` leaves them out.

External: a control of the camera answers to each type that names it; which types that
is, is a constant (`Camera`). Types of one unit that share a bit of `bmControls` (0 to 23)
name one control, so a camera has both or neither: that is what the UVC mask can say, and
`TypeAssumption` states it.

## Runs

| Run | Question | Bounds | Result |
|---|---|---|---|
| `connectors` | Do descriptors, map and graveyard stay right under every interleaving? | 2 devices, 3 connectors, 6 stimuli | holds |
| `connectors_liveness` | Do the retries and the re-scan bring a camera back, and do native code and the map agree while handlers do not overlap? | 1 device, 4 failures, 5 stimuli | holds |
| `connectors_orphan` | Is an open connector always referred to? | 1 device | violated: finding |
| `connectors_stopped` | Is nothing tracked when the fragment is stopped? | 1 device | violated: finding |
| `plugin` | Calls and callbacks alive and returning, no deadlock, streams owned, devices reported, Dart right about what it was told, refinement of `DeviceService` | 1 device, 2 plugin objects, 3 holders, 6 inputs | holds |
| `plugin_manager` | Is a released manager never used again? | 1 object | violated: finding |
| `plugin_state` | Is a device without a holder ever called CONNECTED? | 1 object | violated: finding |
| `texture` | No leak, live surfaces, the right picture, handlers that end | 3 textures, 2 handlers, 6 inputs | holds |
| `texture_destroyed` | Does the library drop every surface that is destroyed? | 2 textures, 2 handlers, 4 inputs | violated: finding |
| `startup` | Never two detectors, no early post, no stale camera; is the camera reported to an app that asks in the foreground, or comes back to it? | 3 engines, 11 inputs | holds |
| `startup_reported` | Does every app that stays in the foreground learn of its camera? | 2 engines, 7 inputs | violated: finding |
| `data` | Are lists, sizes and cached values right, and is every call answered? | 2 isolates, 3 controls of 4, 1 of them adjusted by the camera, 2 values, 2 sizes, 1 failure, 3 inputs | holds |

Deadlock checking is off everywhere: the stimuli are bounded, so every instance stops
when they are used up. That nothing is stuck before is what `AttachServed`,
`RescanRecovers`, `CallsReturn`, `HandlersEnd` and `AllAnswered` say.

Why the bounds are enough. Two devices are needed only for the map to be one-to-one
and for a loop to be interrupted between devices; every other conflict is about one
device on several threads. Three connectors allow a tracked one, its replacement and
one more in flight. Six stimuli are enough for attach, start, plug, stop, detach and
attach again.
Three holders allow one in the map, one held by a call and one held by a callback.
Three textures and two handlers allow a texture on the screen, one that is being
released and one that is being created; six inputs allow a pause and a resume with a
surface callback and a detachment in between.
`MaxFaults = 4` exceeds the three retries by one, so both the recovery by retry and
the recovery by re-scan after giving up happen. Three engines and eleven inputs allow an
engine with two activities, its death, a second one in the same process and one in a new
process, with a fragment retained or restored in between. Two isolates allow every pair
of calls to interleave, and three inputs a list of controls and two calls that use it, or two calls at once and
the detachment or another camera. The new attachment of a camera is no input, because it
needs a detachment; a failure of the library strikes any one of the calls, or makes the list of
one holder shorter than that of another; a lost `m_lock` strikes any number of calls. Each passing property has a mutated
definition next to the original (`RetainNothing`, `FindUnlocked`, ...) under which TLC
finds it violated with the same bounds.

Fairness. Each thread takes its next step when it can (weak fairness per thread): a
Looper takes its next message, the Dart isolate takes its next message when it is
idle, and a mutex that is free is taken. The environment owes nothing: users need not
grant, devices need not come back, Dart need not re-scan. Weak fairness is enough for
a waiting thread because the bounded inputs rule out that others take the mutex for
ever; starvation of a `std::mutex` under endless contention is outside the model. In
`TextureLifecycle` the isolate, the platform thread and calls into native code go on;
compute isolates, users, devices and Android's surface events need not. In
`DetectorStartup` Dart, the main looper and the library's thread go on. In
`ControllerData` the isolates go on and the constructor of another camera's holder
returns, since all of these are code that runs to its end.

## Findings

1. `mConnectors.put` replaces an open connector that nobody closes
   (`connectors_orphan`). It takes an attach and a permission callback, or a refresh,
   for a device that is tracked already.
2. A callback or retry under way tracks its device after `onStop` has removed all
   (`connectors_stopped`); `onStart` then finds the device in the map and skips it.
3. A device that attaches between `terminate_all` and `manager_release` leaves a
   holder that stops its stream on the released manager (`plugin_manager`).
4. `get_state` never answers `DISCONNECTED` (`plugin_state`), so the clean-up Dart
   does on resume removes nothing while the plugin exists.
5. `onSurfaceDestroyed` passes null to `nativeSetSurface`, which gives up when a
   callback of another device holds `m_lock`; the library keeps the surface that is
   gone (`texture_destroyed`).
6. An engine that outlives its activity gets no detector in the next one, and the app
   never learns of the camera (`startup_reported`): the detector is removed with the
   activity, and `initialize` is sent once per isolate. The run's claim has a second way
   to fail: a fragment that Android retained or restored reports in `onStart`, before the
   new isolate has set its port, and never again while the app stays in the foreground.

Met on the way and not checked by a run: the global graveyard is not capped at 32
entries (`DeviceDetectorFragment.kt:99` against the comment at 69-71), and there are
up to three retries where the comment at 333-334 speaks of one. The
comment at `UVCManager.kt:70` expects an `initialize` before `onAttachedToActivity`, but
the `lateinit` field read at line 100 throws then. `update_supported_ctrls` has `&&`
where `&` is meant (`flutter_uvc_holder.cpp:269`); its list is never read. `getControllerAt` accepts an index
equal to the length and never increments its counter (`uvc_controller.dart:532`). The headers
say that the structs of `flutter_plugin.h` should match those of `aandusb_native.h`
(`flutter_plugin.h:217` and `:259`); `usb_device_info` has a `bcd_usb` in front that
`flutter_device_info` lacks, so every field of `DeviceInfo` is read two bytes early, and
`uvc_video_size` has pointers where `flutter_video_size` has arrays, so what Dart reads as
frame intervals and rates is whatever its buffer held (`Garbage` in `ControllerData`), which
`createVideoSizeFrom` (`uvc_controller.dart:636-643`) puts down to the device.
A `createTexture` that throws after its producer was kept leaves a producer that nobody can
release and whose callbacks still set and clear the surface of the device (`stray`). `src/README.md:161` says that
`setCtrlValue` returns the value that was applied; when the read-back fails it returns
the value that was asked for.

## Proofs

Every invariant and every action property the passing runs check is a theorem, for every
value of the constants; only liveness is left to TLC. The assumptions are those the
modules name: markers like `NoDevice` are outside the set they complete, bounds are
naturals, and what is said of constants below. Each invariant called `IInv` or `HInv` was
checked by TLC on the instance of the run before it was proved.

### The fragment

`DeviceDetectorFragmentProofs` proves `Spec => []` of `TypeOK`, `NoDoubleClose`,
`ClosedRetained`, `TrackedOpen` and `ScanNeverReplaces`.

`NoDoubleClose` is not inductive: a state in which two threads are about to close the
same connector satisfies it and the next steps do not. `IInv` says who owns each
connector. `LocalsInv`: a thread has a connector exactly at the control points that
hold one. `LockInv`: who has the monitor, and that the loops of main run in the
monitor state they assume. `OwnerInv`: a thread that is about to put or close a
connector is its only owner, the connector is open and not in the map; other threads
may at most be about to read its descriptor. `MapInv`: a tracked connector is held
only by threads about to read its descriptor. `GraveyardInv`: whatever is in a
graveyard is closed. Steps that move no connector follow from one lemma (`Quiet`);
those that do (open, put, exception, take, close, retain, finalize) are proved part by
part. `ClosedRetained` then shows that the finalizer meets no closed connector:
closed ones are in the process-lifetime graveyard or in the hands of a thread.

`MCDeviceDetectorHistoryProofs` proves `SequentialAgreement`, whose inductive form
(`Sequential`) covers the states inside handlers: while they have not overlapped, one
thread at most is busy, the device between `put` and `nativeAdd` keeps its place in the
map, and native code reads another connector than the tracked one only in that interval.
It follows that `NativeAddException` never happens then (`NeverThrows`). The end of the
process by a null dereference counts as an overlap, since it stops all threads.

### The plugin

`FlutterPluginProofs` proves `Spec => []` of `TypeOK`, `CallsAlive`, `StreamOwned`,
`NoStaleStop`, `MapAgrees` and `NoDeadlock`. None of the last five is inductive.

* `CallsAlive` needs to know that whoever is inside a call has `plugin_lock` and that the
  object it found is still the current one (`LockInv`), and in which part of its life each
  object is: the current one is alive, the one being installed or destroyed is another,
  and no others are (`LifeInv`, `FreshInv`).
* `StreamOwned` is a consequence of `HolderInv`: a holder is alive as long as the map or a
  thread refers to it, and map, streams and references have it under its own device
  (`RefInv`). A destructor ends the stream of the device, not only its own;
  `NoStaleStop` says that this does no harm, because a holder of an earlier connection is
  gone before the map has a new one: the callback that removed it keeps its thread busy
  until it drops it, and a call that has it keeps `plugin_lock`, so that the new stream
  cannot be started.
* `MapAgrees` speaks of an empty queue. The inductive form is `ToldInv`: for each device that
  Dart has been told of, the last message under way about it, or Dart's controllers if there
  is none, says what the map says, unless a callback is between its change of the map and its
  message. What happened before Dart set its port is not in `told`, and Dart has no controller
  for it: a device whose attachment was lost this way is what `DetectorStartup` is about.
  `AnswerInv` shows that the clean-up on resume never removes a controller of a live
  object.
* `NoDeadlock` rests on `OwnersInv`, proved relative to `IInv`: the owner of `plugin_lock`
  is inside a call or destroys an object, the owner of an `m_lock` is the callback that
  creates a holder or a call past its lookup in that object, and neither of the latter
  waits for anything. The destructor waits for a callback, which may wait for `m_lock`;
  that `m_lock` is free, because a call inside an object that is being destroyed would
  have it as the current one. So no chain of waits has more than two links.

`FlutterPluginRefinement` proves `Atomic`, that is, that each step is one step of
`DeviceService` or leaves what the callers see as it was: `Call` (and a message that makes
Dart stop a device) invokes; a call that finds no object, or whose lookup lost the
`try_lock` or found nothing, misses; `Act` has the effect of the call, or misses when
the holder it works on is not the one in the map any more; `AddHolder` attaches,
`RemoveHolder` detaches, and the moment at which `pluginJava` changes replaces. Everything
else is a stutter. For `Drop`, whose destructor may end a stream, that is where
`NoStaleStop` is needed: it never ends one that callers see.

### The start-up

`DetectorStartupProofs` proves `Spec => []` of `TypeOK`, `OneDetector`,
`PostInitialized` and `KnownTracked`, for any number of engines and inputs.
`OneDetector` needs to know when
`initDeviceDetector` can run: `AskedOnce` (an isolate asks once, and while it has not
been answered nobody else has), `Owed` (until then no transaction is pending and no
detector is owed) and `Placed` (fragments are in an activity or wait for one, never
both). `KnownTracked` speaks of empty queues; the inductive form is `Latest`: whatever
the last report on its way says, or `known` if there is none, is not more than what the
library has (`held`): a camera Dart shows is one the library has, although `tracked` may
be behind. `Ports` says in which order port and API are set, which gives
`PostInitialized`, and that a queue belongs to the isolate of the port. The types are
proved in three parts (`Numbers`, `Flags`, `Queues`), and sequences enter through lemmas
about putting and taking elements.

### Textures

`TextureLifecycleProofs` proves `Spec => []` of `TypeOK`, `WindowLive`, `NoLeak`,
`WidgetAgrees` and `VideoVisible`. `NoLeak` says that a texture Kotlin keeps is named by
somebody; to carry it through a step one must know by whom, and that nobody else creates
one in the meantime. `StageInv` says what each handler has in its hands at each await,
`CallInv` which calls into native code can be on their way, `ChannelInv` which requests and
replies belong to which handler (by which a reply finds the handler that waits for it),
`NameInv` that whatever is named or stray has been created, and that a texture whose
release is reported has lost its producer, `SingleInv` that one `createTexture` is in flight unless
`overlapped`. `OwnerInv` is the inductive form of `NoLeak`, `SurfaceInv` that of
`WindowLive` (which surface the library has been told of, and which call will tell it),
`WidgetInv` that of `WidgetAgrees`; `VideoVisible` follows from the last two.

### Sizes and controls

`ControllerDataProofs` proves `Spec => []` of `TypeOK`, `ControlsExact` and `SizesInOrder`,
and the action properties `SizeFresh` and `SizesComplete`, for any lists of controls and sizes and any number of
calls and failures. `ControlsExact` speaks of a call that is done; `Exact` says of one that
is not that the controls it has found and those it will find among the places left to ask
add up to the camera's controls of the lists so far. `InOrder` says that the sizes copied
so far are entries of the camera's list before the index, in their order, whichever holder
they are from: every holder has a list that begins as the camera's does. If no call of the
loop has failed there is one for every index, and the last one has told the loop how long the
list is, which gives `SizesComplete`. That the mask test
finds exactly the camera's controls is the lemma `Asked`, from `TypeAssumption`; that the
fields Dart reads arrive through the structs is computed from the lists of fields
(`TypeOK`: values and sizes are not `Garbage`; intervals and rates may be).

`MCControllerDataProofs` proves `CacheAgrees`, with the history variables of
`MCControllerData`: while calls have overlapped neither each other nor an attachment, one is on its way at
most, a cached value is the camera's, in doubt, being set, or of a control in `Related`, and controls are only looked for while nothing is
cached (`Sequential`).

### Only model-checked

The liveness properties (`AttachServed`, `RescanRecovers`, `CallsReturn`,
`AttachReported`, `HandlersEnd`, `FirstStartReports`, `ReturnReports`, `AllAnswered`),
since fairness is outside what the prover handles. The claims of the runs that end in a
violation are false, and have no theorem.

## Not modelled

`getControllerAt` and `getDeviceInfo` (they read, one line decides what they return);
`keepScreenOn` (a flag of the window); the change of size by the user in the view, whose
call is in `ControllerData`; generated bindings, library loading and platform interface
(no behaviour of their own); `onRequestClaimInterfaces` and its counterpart (they read the
map under its lock and call the USB stack; what they need is `TrackedOpen`); the closed
library itself.

More than two thirds of the implementation's lines are vendored headers of the Dart SDK
and of the camera library (`dart_api.h`, `dart_tools_api.h`, `eglbase.h`, `utilbase.h`,
`jni_utils.h`, ...): declarations that this plugin includes and hardly calls. They define
no behaviour a model could state, so most of the source stays outside the map, although
nearly every function with state of the plugin itself is in it.

## Plan

1. Done: the fragment, its properties and proofs.
2. Done: the C++ plugin with Dart's map, and `DeviceService`.
3. Done: `TextureLifecycle` on top of `DeviceService`.
4. Done: `DetectorStartup`, with proofs, and `ControllerData`.
5. Done: theorems of `FlutterPlugin`, `NoDeadlock` among them, and its refinement of
   `DeviceService`.
6. Done: theorems of `TextureLifecycle`.
7. Done: theorems of `ControllerData` and of the two history variables.
8. Properties, with theorems, for hazards that have none: the retry's two reads of
   `mUSBMonitor`, and a `stop()` that reports success although it lost its `try_lock`.
