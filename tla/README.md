# Verification of the KFC firmware (esp8266-kfc-fw)

TLA+ modules for the parts of the firmware whose correctness depends on the
order of events, TLC configurations that check them on small instances, and
TLAPS proofs for every value of the constants.  `PROJECT.json` maps every
definition to the lines it translates; paths below are relative to the
repository.

    tlc -config sched_safety.cfg MCEventScheduler     # model-check a run
    tlapm EventSchedulerProofs.tla                    # check the proofs

## 1. Inventory

The firmware runs on a single core.  There are three kinds of context: the
main program `loop()` (`src/kfc_firmware.cpp`), which calls a vector of *loop
functions*; the SDK task, which runs whenever the main program yields (`delay`,
`yield`, the end of `loop()`) and calls timers, WiFi events and the callbacks of
the asynchronous TCP library; and interrupts, which only set flags.  Nothing is
preempted, but almost everything can be changed by a callback in the middle of
a walk over a container: that, and what the network does, is where this code is
hard to test.

| Component | State | Operations | Interacts with | Hard, and what makes it correct |
|---|---|---|---|---|
| Event scheduler (`lib/KFCEventScheduler`: EventScheduler, EventTimer, Timer) | vector of `shared_ptr<EventTimer>`, the SDK timer embedded in each, Timer wrappers with a raw pointer | add, remove, rearm, detach, setPriority, begin, end; `_timerCallback` in the SDK task; the walk `_loop()` | is a loop function; used by nearly every plugin | callbacks add and remove timers under the walk; PRIO_HIGH callbacks run in the SDK task between two steps of a callback; delays above 2 h are chopped. Nothing dangles, nothing is leaked, nothing fires early, every active timer fires |
| Loop functions (LoopFunctions, `loop()`) | vector of callbacks with a deleted mark | add, remove, clear, the walk by index | scheduler, syslog, restart | removal and addition under the walk. What stays is called in every walk, what is removed is not |
| WiFi events (`src/kfc_fw_config.cpp`, WiFiCallbacks) | link, `_wifiConnected`, scheduled events, vector of callbacks | SDK events, add, remove, clear, callEvent | MQTT client, NTP, mDNS, web UI | removal while an event is passed on; events delivered after the state has changed again. Everyone is told of the state the station ends in |
| MQTT client (`src/plugins/mqtt`) | connection, reconnect timer and its timeout, components, topics, send queue and its timer | connect, disconnect, onConnect, onDisconnect, subscribe, publish, register, unregister, reconfigure | WiFi events, scheduler, components | timer, WiFi events, commands and late callbacks race for the reconnect; a full TCP buffer; state of one session used in the next. It comes back, once, with the subscriptions of its components |
| Configuration (`lib/KFCConfiguration`) | parameters (handle, length, data, dirty), memory pools, EEPROM image | get, set, getWriteable, release (garbage collection), discard, read, write, commit | web forms, AT commands, every plugin | data is unloaded at any time and its memory used again; places in the EEPROM are computed; power fails in `commit()`. What is read is what was set; what is stored is what was saved |
| Syslog (`lib/KFCSyslog`, syslog plugin) | memory queue with locks and failure counts, one message per TCP destination | flush, deliverQueue, transmit, callbacks of the connection, clear | logger, loop functions, TCP library | synchronous and late answers, partial writes, lost acknowledgements, a full queue. No line is lost, doubled or kept without a reason |
| Boot, reset detection (`src/kfc_firmware.cpp`, `lib/KFCResetDetector`, RTC memory, restart, deep sleep) | reset counter and safe mode in RTC memory, crash counter in a file, settings | the constructor of the detector, its 5 s timer, setup(), the timer of 3 min, restartDevice, enterDeepSleep, factory.html, reboot.html | all plugins, configuration | a reset, a crash or a loss of power between any two of the updates. Nobody loses the settings by accident, a device that crashes again and again gets to safe mode, one left alone comes up |
| STK500v1 programmer (`src/plugins/stk500v1`) | page buffer, expected and received bytes, the pending callback, a response and a delay timeout | sync, write and verify page, retries, reset of the target, end | serial port, loop functions, scheduler | answers race timeouts, nothing says to which command an answer belongs. Success means a verified flash; the serial port comes back |
| Blinds controller (`src/plugins/blinds_ctrl`, MillisTimer) | pending action, channel states, active channel, motor timeout, test mode, states in a file | setChannel, the loop method, onConnect, reconfigure, AT commands, publish and save | MQTT, web UI, loop functions | one motor at a time, under its own limits; settings and states are reloaded under a running motor; the clock wraps around |
| Web sockets, serial console, serial handler (`src/web_socket.cpp`, `src/plugins/http2serial`, `src/serial_handler.cpp`) | clients and their authentication, the instance of the console with its output buffer, the vector of handlers | events of the socket, broadcast, write and receive, output timer, reconfigure, restart | web server, AT commands, loop functions | clients come and go under a broadcast and while an AT command waits; the server is replaced. Everyone connected gets the whole output |
| Serial2tcp | connection, reconnect timer | | | off by default, and not compilable at this commit |
| Web server, forms, REST, templates, JSON, graphics, sensors, dimmer, clock, ... | | | | sequential code around hardware and text; listed in `PROJECT.json` with the reason it is left out |

The hazards, each at its line and with the properties that watch it, are listed
in `PROJECT.json` under "hazards".

## 2. Modules

| Module | Models | Extends |
|---|---|---|
| `EventScheduler` | EventScheduler, EventTimer, Timer and the SDK timers | |
| `EventSchedulerProofs` | theorems about it | EventScheduler |
| `LoopFunctionsProofs`, `WiFiCallbacksProofs`, `BootProofs`, `BlindsProofs`, `ConfigurationProofs` | theorems about the module of that name | that module |
| `NetworkClientsProofs` | theorems about the two clients of a server, MQTT and syslog | MqttClient, Syslog |
| `SerialPortProofs` | theorems about the two owners of the serial port, console and programmer | Console, Stk500Programmer |
| `Listeners` | abstract: functions that come, go and are called in rounds | |
| `LoopFunctions` | LoopFunctions and the walk of `loop()`, restartDevice's switch of the vector | (implements Listeners) |
| `WiFiStation` | the WiFi handlers of KFCFWConfiguration and the events they schedule | |
| `WiFiCallbacks` | WiFiCallbacks and callEvent(), on top of the station | WiFiStation (implements Listeners) |
| `MqttClient` | MQTTClient on top of the station | WiFiStation |
| `Settings` | abstract: named settings, what they are now and what is kept | |
| `MemoryPools` | Pool and the allocation in `Configuration::_allocate` | |
| `Configuration` | Configuration, ConfigurationParameter, EEPROMAccess | MemoryPools (implements Settings) |
| `Syslog` | SyslogStream, SyslogMemoryQueue, SyslogTCP, SyslogUDP | |
| `Boot` | reset detector, setup(), crash counter, safe mode, restart, deep sleep | |
| `Stk500Programmer` | STK500v1Programmer and its target | |
| `MillisTimer` | MillisTimer on the clock `millis()` | |
| `Blinds` | BlindsControl and the plugin around it | MillisTimer |
| `Console` | WsClient, Http2Serial, SerialHandler | |
| `MC*` | instances for TLC | the module of that name |

Every module follows the same order: constants with named assumptions, variables
(a `history` comment marks those the program does not have), the operations with
the name of the function they translate, `Next`, the specification, its
fairness, and the properties.  `Syslog` and `Stk500Programmer` are extended
together with another component where they are proved about, so their `Init`,
`Next`, `Spec` and `TypeOK` have names of their own (`SyslogInit`, `FlashInit`).
The modules that compose components are `WiFiCallbacks` and `MqttClient` (each
on top of the station), `Console` (web socket, console and serial handler in
one) and `Blinds` (with the timer it runs on).  Every module states its type
invariant; the runs check that of the scheduler, and wherever a module has
proofs it is proved.  An operator introduced as a *mutant* stands in front of
the definition it is a broken variant of; it is not part of the specification
and only shows that a property can fail.

### EventScheduler

A heap cell (`cell[t]`) is the memory of an EventTimer together with the SDK
timer in it: `func` is `timer_func`, `queued`/`due`/`period` are the entry in
the SDK's list.  A freed cell keeps its contents until an Add reuses it, so a
pointer kept too long meets either garbage or another timer, as in the program.
`phase`, `idx` and `cur` are the control state of `_loop()`; `irq` is the
callback the SDK task is running.  `AfterCallback` is the tail of
`_invokeCallback`, executed with whatever the callback has left behind.

Who may do what is decided by four facts about the firmware: the SDK task runs
only when the main program yields; the walk itself never yields, user callbacks
may; a PRIO_HIGH callback runs inside the SDK task and is never nested; user
code can call any function of the API from outside, from a callback of the
walk and from a PRIO_HIGH callback.  `Operations` selects which functions it
calls, so that a run can concentrate on some of them.

When a callback removes its own timer (`"removeSelf"`), `_invokeCallback` goes
on with a deleted object (EventTimer.cpp:116).  The model follows what this
build does: with the memory still free, the tail finds the deleted contents;
with the memory reused, it acts on the new timer.  The run `sched_safety`
includes it.  `NeverEarly` is checked without it, because the new timer may then
be re-armed by the tail of the old one.

Left out: the move of a Timer wrapper (EventScheduler.h:83-91), which no code in
`src/` uses.  It passes on the pointer only: the deleter of the timer keeps the
address of the old wrapper and would clear that one, and a timer the new wrapper
had is neither removed nor known to anyone any more.

Units of time are milliseconds of the model; a period of the SDK is counted
from the moment it is served.  `since` stops growing at the requested delay.

### LoopFunctions

The walk uses an index, entries are marked and erased when the walk meets them;
`add` revives a marked entry in place, with the callback it was first added
with.  After `restartDevice()` the vector holds
`restart_device` only, and the walk in progress goes on in the new vector.  Not
modelled: the `uint8_t` type of the index (256 functions), and that `push_back`
may move the `std::function` being executed.

### WiFiStation, WiFiCallbacks

The handlers run in the SDK task; the events reach the program later through
`LoopFunctions::callOnce`.  `ScheduleMax` bounds the events that wait (the core
library's own limit is 32).  callEvent() does not erase entries while it
iterates.  `Add` states, as a guard, that no callback of the firmware adds a
new entry during callEvent(): none does, and the vector would not survive it.

### MqttClient

AsyncMqttClient and the broker are external: `Disconnected`, `Greeting` and the
choice whether a packet fits its buffer.  `timeout` counts growth steps instead
of milliseconds and is bounded by `MaxBackoff` (in the program it grows without
bound).  `session` is the parity of the connection, enough to tell a message of
this connection from one of the one before.  Messages arrive in packets of
one unit (`OnMessageRaw`); `_buffer` survives a lost connection with half a message
in it.  Left out: topic patterns, and the text of discovery messages.  Two things to
know: a force disconnect by AT command does not stop a reconnect timer that is
armed, and `Reconfigure` loses the components that had registered.  Components
register and unregister at any time, as dimmers do (dimmer_module.cpp:117), also
while a SUBSCRIBE of theirs waits in the queue: it stays there, and when it is
sent, the component is entered into `_topics` again.  `ghosts` (history) remembers
who has left like this.

### Configuration

The EEPROM is a list of headers and a string of bytes; the place of a parameter
is the sum of the lengths of those before it, as in `_findParam`.  `commit()`
erases the only sector before it writes it: `flash` is None in between, and the
next boot finds a wrong CRC and restores factory settings.

A parameter is loaded into a pool, whose memory is not cleared when it is used
again.  Flash memory is read in words (`Load`): what was read beyond the
parameter becomes NUL, provided that it fits into what `align()` returns for it;
an empty string is not read at all.  So whether a string has its NUL in memory
depends on where it lies in the flash memory and on what was in the pool before.
A pool made for one parameter has its size rounded up to 16, but `align()` of a
multiple of 16 is one word more, so that this load may write one word behind the
pool.  The model has that word: a pool has `size` bytes and a word that belongs
to nobody, since the allocator of the core (external) hands out blocks of 8 bytes
less the 4 of a header, and the size of a pool is a multiple of 16.

A parameter that is not loaded stands for its bytes in the EEPROM, which makes
"loading changes no setting" part of the property.  There are two readings of a
setting: `Now` is what the program reads, a string up to its NUL; `Held` is its
bytes by the length of the parameter, which is what `write()` stores.  `resized`
(history) holds the parameters whose length is not, or will not be, that of the
EEPROM; `read()` and `write()` empty it.  JSON import and dumps are left out.

### Syslog

`Deliver` is the walk of `deliverQueue()`: it runs without yielding, so it is
one step whose outcomes are all the answers the sockets can give, one `Visit` per
item the queue has when the walk begins (it only gets shorter).  An answered
item leaves the vector under the walk, which then skips the one behind it, as
the code does: lines for one destination can overtake each other, so no order
of delivery is claimed.  Bytes are counted, contents are not.  `Arrive` is the
server receiving the last byte, whether or not the acknowledgement comes back.
The memory in use is counted as the program does, item by item (`Used`).
`Clear` (AT+SQC) may delete an item whose message is being sent; the late
answer calls unlock() on the deleted item.  With one TCP destination, the
number the firmware configures (and the module assumes), its memory cannot hold
another locked item, so the outcome is the same whatever is there.  Left out:
SyslogFile, filter rules, and the replacement of the stream by reconfigure.

### Boot

`pc` is the place in `setup()`, one step per update of something that survives;
`ResetOrCrash` and `PowerOn` may come between any two, and a reset while the RTC
record is being written leaves a wrong CRC, as a loss of power always does.  The
constructor of the reset detector is part of `Reset`, since it runs before
anything else.  Time is not counted: the three waits of `setup()` (the slow boot,
the blinking LED, "press reset again") last longer than the 5 s timer of the
detector, so they end after it.  `streak`, `crashRow` and `asked` are history: how
many resets came each before the timer of its boot had fired, how many crashes
came in a row without safe mode, and whether the user did what the serial
console asked for.  What the code does and a reader may not expect: a deep sleep
by pressing reset, which the help text promises (kfc_firmware.cpp:175), does not
exist; and a crash loop raises the same reset counter as the button, so that
fewer than four presses can restore factory settings.  `FactoryNeedsResets` is about
setup(); that `config.read()` restores them as well when the EEPROM has a bad CRC
belongs to `Configuration` (`Read`).

### Stk500Programmer

A member callback that is waiting is the name of the step (`waiting`,
`delayed`).  An iteration of the loop function is either the callback of a delay
(`LoopDelay`) or two steps, reading (`LoopRead`) and looking at the timeout
(`LoopCheck`), with whatever the target does in between.  Records are numbers of
pages; the data of a page is the set of records in it, which is enough to see a
record lost, written twice or to a wrong page.  The target and the line are
external; `Fault` loses or garbles an answer, a command or a page, adds bytes
nobody asked for, or ends the boot loader.  Without logging no command of
`_sendCommand_P` is sent at all (`SendP`), so that programming with LOG_DISABLED
always fails; and `_delay` does not wait, as its timeout is compared with the
clock instead of an interval.

### Blinds

One step is one call of `loopMethod()`, in the same millisecond as the last or
the next; `left` is the time the limit still allows, against which the deadline
of `MillisTimer` on the wrapping clock is compared.  The current limit can trip
at any time.  The saved state of a channel is its destination, stored when the
motion begins.  `+BCMS` and `+BCME` change states and drive motors without telling
the broker, which is why `published` is forgotten then.  A second command replaces
the one in the slot, as `_action` is one variable.  `Restart` may come inside
`_saveState()`, when the file has been truncated and not been written yet
(`EmptyFile`): the states are then unknown.

### Console

The events of the web server come between two loop functions, and inside the AT
handler while a command waits (`waiting`).  Bytes are units counted in the order
the serial port sees them; `heard` is what a client was sent since it
authenticated.  `due` is the output timer: `missed` means that `millis()` wrapped
around before a loop saw the time pass.  Three places use a pointer to something
deleted: the iterator of `writeToReceive()` when the vector grows under it, a
client of a deleted server, a broadcast to it.  Their outcomes are an exception,
which reboots the device, or nothing.  A client of a deleted server is `stale` and
keeps its `auth`, until its next event.  Nobody serves it, as the console is not
registered with the new server (see the known disagreements), and no property
says that somebody does: `SessionOfClients` and `StreamIsComplete` are about
clients whose connection is open on a live socket.  External: ESPAsyncWebServer and its client
queues, whose overflow is left out; that `writeToReceive()` returns at once while
it is locked, which drops a text for the AT handler, is part of `Text`.

### Refinements

`Listeners` states what a list of functions promises its users; `LoopFunctions`
and `WiFiCallbacks` implement it under the mappings `Walk` and `Telling`, although
the one marks entries and the other empties their masks, and erase them at
different times.  `LoopFunctions` implements it with its fairness.  `Settings` is
a store in which every setting reads as it was last set.  `Configuration` relates
to it twice.  Under `Store`, which computes for every state what the program would
read now and after a restart, it does not implement it (`IsASettingsStore`, the
finding of `config_resize`).  Under `StoreOf(S)`, what the parameters of the set S
hold, it does in every step for the settings that are `Sure` before and after it:
those that are changed themselves, new, or before the first change of length
(`KeepsSettings`).

## 3. Runs

| Run | Question | Bounds |
|---|---|---|
| `sched_safety` | do vector, wrappers and SDK list stay consistent under all operations, self-removal and memory reuse? | 2 cells, 1 wrapper, delays 1 and 2, repeats none/for ever |
| `sched_timing` | does a chopped delay come neither early nor never; is a pending callback run in spite of removals? | 2 cells, MinDelay 2, MaxDelay 3, delay 4: a chunk, and a rest below MinDelay |
| `loop_functions` | is the walk a round of Listeners: is every function that stays called in every walk, and none that left? | 3 functions and restart_device |
| `wifi_callbacks` | is callEvent() a round of Listeners; does everyone hear of the final state? | 3 callbacks, 2 waiting events |
| `mqtt` | one way back, never stranded, topics and queue of this session, reconnects | 2 components sharing a topic, queue of 3, 2 tries, messages of up to 3 packets, 2 allowed |
| `config_store` | is the configuration a store of settings, but for those behind a changed length, and is each alone in its memory? | 2 factory settings (a string that is short or fills its own pool, and one of 3 bytes behind it), 1 number created later; words of 3 bytes (4), pools of 6 (16 to 96) |
| `config_resize` | finding: it is not when a setting changes its length | 2 strings |
| `syslog` | is no line lost, doubled or kept without a reason? | TCP and UDP server, 5 items, queue full with 3, 2 failures |
| `boot` | who gets to factory settings and safe mode; does the device come up? | counters of 8 values (256), slow boot after 6 resets (20), 4 resets for factory settings and 3 crashes as in the code |
| `stk500` | is success the truth, and are pages sent once, in order and complete; does it end? | 3 records in pages 1 and 3, 1 fault, 2 retries (12), 3 of 4 retry values of an uint8_t, reset every 2 (4), 4 commands in the target |
| `blinds` | one motor, its time, its current; do broker, file and channels agree; is every command taken? | clock of 4 values, limits of 0 and 1, 1 failed write |
| `console` | is there a console for whoever wants one, and is its output complete and in time? | 2 clients, buffer of 2, 4 units of output |

The bounds are the smallest with which the interesting cases meet.  Two timers
are enough for one to remove, replace or shift the other under the walk and for
the memory of one to be reused by the other; a third changes only how many
steps a shift skips.  Three loop functions or callbacks let one in the middle
disappear while its neighbours are called.  In `syslog` three queued items are
needed for the walk to skip one and find another behind it; five allow two
overlapping messages per destination and a queue that is full.  In
`config_store` the number and the short first string share a pool, and the second
string fills one, before them or when it starts again at its front, with what they
left in it; the first string changes its length and so moves what lies behind it, sometimes to an
address at which the second one is loaded without its NUL; as the long one it has,
with its NUL, the size of its pool, 6, and its load writes the word behind it.  Delays are
chosen at the boundaries MinDelay and MaxDelay.  MAX_FAILURES is 10 in the
program and 2 in the run: what matters is that it is more than one.  In `boot`
the counters must only be larger than the thresholds, with room to wrap around,
and the thresholds in the order of the code's.  In `stk500` the file has a page
that begins with a record read too far, an empty first page and a gap; two
retries reach both branches (reset, and not) and the wrap of the counter.  In
`blinds` a clock of four values puts a deadline before, on and behind the wrap.
In `console` two units fill the buffer and two clients tell the first and last of
a session from the others.

`CHECK_DEADLOCK FALSE` appears in `syslog.cfg` only: with the bound on the
number of items reached, an empty queue and no connection there is nothing left
to do but WiFi changes.

The violation run checks what the repository says of itself, and TLC shows a
behaviour of the code that contradicts it; "findings" in `PROJECT.json` quotes
the line.  It is a safety violation: the store returns, or keeps, a value nobody
has set, in a step of the program.

### Known disagreements

The modules also state properties the code does *not* have, next to the ones it
has; no run keeps them, and each is refuted within seconds when it is added as an
INVARIANT or PROPERTY to the .cfg of its module (in `config_resize.cfg`, in place
of its property).

| Property | What the repository says | What the code does |
|---|---|---|
| `EventScheduler!DetachedIsSilent` | "stops the timer" (EventTimer.h:50) | a callback that is marked pending is run after `detach()` (EventTimer.cpp:99) |
| `EventScheduler!NeverEarly`, with long self-rearms | "Support for more than 2 hour interval" (EventScheduler.cpp:94) | a chopped timer that re-arms itself in its callback with a long delay is called after the first chunk: the tail of `_invokeCallback` acts on it again (EventTimer.cpp:119) |
| `WiFiCallbacks!DisconnectAfterConnect` | "disconnect can only occur after connect" (WiFiCallbacks.h:21) | an association that fails before it has an address ends in a DISCONNECTED of its own |
| `Configuration!StringsEnd` (config_store.cfg, config_resize.cfg) | "last byte not NUL" is a panic (ConfigurationParameter.cpp:359) | a string that is empty, or ends with a word of the flash memory, is loaded without a NUL; in pool memory that is used again it goes on with the bytes of another setting |
| `Configuration!LoadsFit` (config_store.cfg) | "does not fit into the buffer" (ConfigurationHelper.cpp:210) is a panic | a pool made for one parameter has its size rounded up to 16, not to what `align()` returns for it (ConfigurationHelper.cpp:54, :117); with a size that is a multiple of 16, such as that of a string of 15 characters, the load of a parameter that is not aligned writes one word behind the pool |
| `MqttClient!OnlyRegistered` | `onMessage` calls the component of every entry of `_topics` (mqtt_client.cpp:427) | a SUBSCRIBE that waits in the queue outlives the component: `unregisterComponent()` leaves the queue alone, and `_queueTimerCallback()` enters the component, which may be deleted, into `_topics` |
| `MqttClient!NoOrphans` | "check if the topic is in use by another component" (mqtt_client.h:195) | `_topicInUse()` finds the component itself (mqtt_client.cpp:376), so nothing is ever unsubscribed |
| `Boot!ThreeCrashesAreEnough` | "boot in safe mode if there were 3 crashes within the first minute" (kfc_firmware.cpp:261) | the first crash writes 0, so the flag is set by the fourth and obeyed by the boot after it; the counter is kept for three minutes, not one |
| `Boot!SafeModeAgrees` | `isSafeMode()` is how the device was started | four resets restore factory settings and clear the flag after it was copied to the configuration: a normal boot that calls itself safe mode |
| `Stk500Programmer!OneVerdict` | `_done(success)` is called once | the timeout is not cleared, so a failure can follow a success in the same iteration, and failures repeat; `_retries` wraps around |
| `Stk500Programmer!SuccessIsVerified`, with `MaxFaults = 4` in stk500.cfg | success is reported after every page was read back and compared | an answer is two bytes that any noise can be: with the address lost and answered by noise twice, once at the write and once at the verification, the wrong page is written and found right |
| `Blinds!ShuntOfMotor` | "select shunt" (BlindsControl.cpp:206) of the channel that moves | `+BCME` with swapped channels swaps twice and measures the other motor |
| `Blinds!TimeLimitHolds` | "doesn't suffer from unsigned long overflow" (MillisTimer.h:11) | a deadline of exactly 2^32-1 is never reached |
| `Console!Reregistered` | "calls reconfigure for all dependencies" (PluginComponent.h:77) | every plugin is asked whether it depends on itself (PluginComponent.cpp:97): the console keeps the deleted socket |

### Fairness

* Scheduler: `loop()` is called for ever, callbacks return, and the SDK serves
  expired timers.  Strong fairness is used where the SDK task and the main
  program disable each other by turns; neither can hold the only core for ever
  (the watchdog resets the device).  Callbacks stay within `_runtimeLimit`
  (`MayOverrun = FALSE`) in the run with liveness: the code starts the next walk
  at the front after an overrun, so later timers can then starve, by intention.
* Loop functions: `loop()` runs.
* MQTT: scheduled WiFi events are passed on, timers fire, and a broker that is
  tried again and again accepts in the end (strong fairness of OnConnect).
* Syslog: `syslog_process_queue` runs every second; a connection being opened
  or closed ends up open or closed; a connection with a message is polled, and
  what was written is acknowledged or times out (5 s).  The server need not
  answer, and nothing is assumed about UDP.
* Boot: setup() and the timers go on, and a device that sleeps is woken up.
  `LeaveAlone` ends the resets; nothing says that it ever happens.
* STK500: loop(), the timers and time go on.  Nothing is asked of the target.
* Blinds: loop() runs and the clock goes on (the loop waits at most 1 ms).
* Console: time passes and AT commands return; strong fairness of the loop
  function, which waiting commands disable again and again but not for ever.
  Nothing is assumed about the clients.

## 4. Proofs

Eight modules hold theorems about ten components, for all values of the
constants that the named assumptions of a component allow.  For each component
an inductive invariant `IInv` is proved in three facts: `Init => IInv`, one
lemma per action for `IInv /\ [Next]_vars => IInv'`, and `IInv` implies the
property.  TLC has checked every `IInv` on the instance of the component's run.
For the two components that share a module of proofs with another it is called
`SyslogInv` and `FlashInv`.

| Module | Theorem | States |
|---|---|---|
| `EventSchedulerProofs` | `TypeCorrect` | `TypeOK` |
| | `RegistryIsSound` | `RegistrySound`: the vector holds exactly the allocated timers, once |
| | `WrappersAreSound` | `WrapperSound`: a wrapper is active exactly while its timer exists |
| | `SdkPointersAreLive` | `SdkHoldsLiveTimers`: the SDK never holds a deleted timer |
| | `ActiveTimersProceed` | `ActiveNotStuck`: an active timer is queued, pending or running |
| | `ExhaustedTimersAreGone` | `ExhaustedIsGone`: no timer outlives its repeats |
| | `CallsAreLive` | `OnlyLiveTimersAreCalled`: no callback starts on a removed timer |
| | `TimersAreNeverEarly` | `NeverEarly`, if `Undisturbed` |
| `LoopFunctionsProofs` | `TypeCorrect`, `VectorIsSound` | `TypeOK`, `VectorSound` |
| | `WalkIsSafe` | `Walk!Spec`: the walk implements `Listeners`, its fairness apart |
| `WiFiCallbacksProofs` | `TypeCorrect`, `VectorIsSound` | `TypeOK`, `VectorSound` |
| | `SubscribersAreInformed` | `Informed` |
| | `EventsAreRounds` | `EventIsARound`: callEvent() implements `Listeners` |
| `NetworkClientsProofs` | `TypeCorrect` | `TypeOK` of the MQTT client |
| | `TheWayBackIsOne`, `SessionsAreSeparate` | `OneWayBack`, `OfThisSession` |
| | `NoSubscribeIsLost` | `SubscribedOrQueued` |
| | `TopicsHaveOwners` | `TopicsOwned` |
| | `SyslogTypeCorrect` | `SyslogTypeOK` |
| | `TheQueueIsSound` | `QueueSound`: memory count and locks |
| | `NoLineIsLost` | `NothingLost` |
| | `DuplicatesAreRetries` | `DuplicatesHaveFailed` |
| `BootProofs` | `TypeCorrect` | `TypeOK` |
| | `CrashLoopsAreBroken`, `SafeModeIsGranted` | `CrashLoopIsBroken`, `SafeModeOnRequest` |
| | `FactoryResetsAreAskedFor` | `FactoryNeedsResets`, an action property |
| `BlindsProofs` | `TypeCorrect` | `TypeOK` |
| | `OneMotorAtATime`, `TimeLimitIsExact` | `OneMotor`, `TimerIsRight` |
| | `BrokerHasTheState` | `PublishedAgrees` |
| | `ReloadIsIdle` | `ReloadKeepsStates`, an action property |
| `ConfigurationProofs` | `TypeCorrect` | `TypeOK` |
| | `PlacesAreSound` | `PoolsAreSound` |
| | `StoreInvariance` | `StoreInv` |
| | `ImplementsSettings` | `KeepsSettings`: the configuration implements `Settings`, but for what lies behind a changed length |
| `SerialPortProofs` | `TypeCorrect` | `TypeOK` of the console |
| | `SessionsMatchClients`, `StreamsAreComplete` | `SessionOfClients`, `StreamIsComplete` |
| | `FlashTypeCorrect` | `FlashTypeOK` |
| | `PagesAreSentInOrder` | `PagesInOrder` |

### The inductive invariants

**EventScheduler.**  `IInv` consists of `TypeOK`, `RegistrySound`, `WrapperSound`,
`ActiveNotStuck`, and two parts the properties alone do not give.  `CellOK` holds
of each cell: a live timer has repeats left; whatever is queued, armed or pending
is live; whatever is queued is armed; a rest of a chopped delay only occurs with a
delay above MaxDelay, and so does an armed timer the SDK has not queued, or a
queued single shot.  `Control`: a callback of `_loop()` runs exactly in phase
"callback", and outside "idle" the index counts from 1.  They are needed because
the walk trusts the scheduled flag of whatever it meets, and the SDK the pointer
it holds: only if a free cell has neither does removal, which touches the vector
and the wrappers, keep the rest sound.  The argument has three layers: lemmas about
vectors (erase and append of sequences of distinct elements), lemmas about one
EventTimer (what `Armed`, `Rearmed`, `Deleted` return), and one lemma per action
of `Next`.  Removal during a callback, with the callback's own timer deleted and
perhaps its memory reused, is covered by `AfterStep`.

`TimersAreNeverEarly` has a second invariant on top, `EarlyInv`: what has passed,
what is queued and what remains add up to the delay (`Timed`), and the callbacks
that run belong to timers that stay allocated.  Its hypothesis `Undisturbed` is
needed: TLC refutes `NeverEarly` when a callback may remove its own timer, change
its priority, or re-arm itself with a delay that has to be chopped, because the
tail of `_invokeCallback` then acts on a timer it does not expect.

**LoopFunctions, WiFiCallbacks.**  `WalkSound`: of the entries the walk has passed
it has called all that stayed, and of the others none.  For the vector that is
walked by index this needs `CalledStay` (a function that was called keeps its entry
behind the index, so that `add` revives it there instead of appending a second
one), and that nobody has restarted before `restartDevice`.  The refinement is
proved step by step: marking and unmarking map to a change of who listens, erasing
to a stutter.  `StationInv` relates the last event that waits to the link: it alone
decides what subscribers end up believing.

**MqttClient.**  `StationInv` (a "disconnected" is never the last event that waits
while the station has an address) is what `OneWayBack` needs: the client is told to
connect by an event, so the event must still be there.  `SessionInv` adds to
`OfThisSession` that a connection that is not up has no half of a message.
`QueueOwned`, that whoever has a SUBSCRIBE in the queue is registered or is one of
the `ghosts` that left while it was queued, is the missing half of `TopicsOwned`:
the SUBSCRIBE is sent later and entered for whoever it was queued for.  That nobody
but registered components is in `_topics` (`OnlyRegistered`) does not hold, which is
the hazard at mqtt_client.cpp:427.  `TopicsOwned` says that there is no other way to
get into `_topics`: a component that leaves without a SUBSCRIBE in the queue, whatever
other components share its topics, is in no entry any more.

**Boot.**  `CountInv` relates the reset counter, its copy in RTC memory and the
timer to the resets that followed each other; wrapping around only loses some.
`CrashInv` says at each place of setup() what the crash file holds of the crashes in
a row: all but the last two before this boot has counted, all but one afterwards,
and once it holds MaxCrashes the flag for the next boot is set.  The property alone
says nothing of the file.

**Blinds.**  `DrivenInv`: at most one pin is driven, its limit runs and its shunt is
selected.  `TimerInv`: the deadline is the clock plus what is left (`Before`), or, if
the wrap lay between, half a turn later (`Behind`), with the clock before or behind
the wrap.  It is proved for every even clock and all limits of up to half a turn;
the one deadline that is never reached is excluded by name (`Unreachable`).
`StoreInv`, that what is saved is the state unless a write failed, makes the reload
idle.

**Configuration.**  `PoolsAreSound` says where places lie, not why the next one will
lie elsewhere.  `Sound` adds it: a pool goes on (its `length`) behind all that was
allocated for its users, allocations and not only their bytes are `Apart`, and
the count is the number of users, so that only a pool without users starts again
at its front.  Nothing is assumed of the sizes: a setting that fills its own pool
to the end is written into the word behind it, by `FitLemma` no further, and into no
pool's place by `StoredLemma`.  `FineParams` and `FineHeaders` say that the lengths in
memory and in the EEPROM are numbers, and those of settings other than strings the
ones of their values.  The offset of a parameter and the bytes of an image are
defined by recursion over the parameters; `RecursionLemma` proves that such
functions exist, and `OffsetLemma` and `ImageLemma` their types, from the least
number for which a claim would fail (`MinLemma`), which takes the place of the
library's induction.

`ImplementsSettings` needs more than places: `StoreInv` says that the parameters
begin with those that are in the EEPROM (`BeginsWith`); that those not `resized`
have the length they have there and will have when they are written
(`KeepsLength`), so that up to the first that is resized the sum of lengths finds
what was stored; and that what is loaded up to there has in memory the bytes of the
EEPROM.  The step of each action is then proved about `Held`, with which
memory and places no longer matter, and `SettingsOf` turns it into a step of the
abstract store for any set of `Sure` settings.  A string that is loaded without its
NUL is kept by its length all the same; what the program reads of it is covered by
the last part of `KeepsSettings`: as long as the strings end, it is the same, except for a string
that has got a NUL inside from the bytes of others.  Neither `StringsEnd`
nor a constant length is a hypothesis.  What the theorem leaves out is named in it:
the unchanged settings behind a length that has changed, the finding of
`config_resize`.

**Console.**  `ClientInv`: only clients of a deleted or restarting socket are stale,
so that the panic of a stale client meets nobody who hears; who has not
authenticated has heard nothing; and who has authenticated is known to a socket,
be it a deleted one.  `StreamIsComplete` is inductive with it:
`writeOutputBuffer` sends whole buffers and keeps the rest, and `CutLemma` and
`DivLemma` show that the two parts are the whole, for every size of the buffer.

**Syslog.**  `QueueSound` says that an item is locked while its destination
sends it, not that there is only one such item, nor what happens when the queue
has been cleared meanwhile.  `SyslogInv` adds that the numbers of the items are
distinct and not above the last one given (`Distinct`); that the message a
destination is sending has a number that was given and that, if its item is
still queued, the item is for this destination (`SendersOK`); and, for a message
that has not arrived yet, that one more copy of it stays within MaxFailures,
whether or not its item is still there. The last is what remains of the count of
failures once `Clear` has deleted the item that held it.  That an item belongs
to one destination, and that at most one is TCP (`SyslogAssumption`), lets an
answer find its own item and no other.  The steps are proved on the record
`State` that the operators take: `AnswerLemma` and `VisitLemma` say that an
answer and one pass of the loop keep `Good`, and the walk keeps it because each
of its passes does (`DeliverLemma`), where `InductionLemma` takes the place of
the library's induction, as in the proofs about Configuration.  The sum of sizes
(`Used`) and the number of copies (`Copies`) each come with lemmas for what
append and removal do to them.

**Stk500Programmer.**  `PagesInOrder` speaks only of the commands sent.
`PagesInv` relates them to the place where the programmer is: before the first
address no page has been sent (`Early`); when an address has been sent, the copy
to be sent next is complete and the pages sent are those below it, and when the
page has been sent, those up to it (`Progress`).  What is collected meanwhile is
the next page of the file (`ReaderAt`, `PageReady`): the buffer holds exactly
the records read so far of its page, all that was read lies at or before it, all
that was not lies at or behind it.  `ProgramInv` says which callback can be
waiting in which stage and behind which delay; without it a late delay could
start a second programming under the first.

### What is only model-checked

* Liveness, out of the prover's reach: `PendingRuns`, `ActiveExpires`,
  `WalkIsARound`'s fairness, `Reconnects`, `QueueDrains`, `Settles`, `GivesBack`,
  `CommandsAreTaken`, `OutputReaches`.  No theorem mentions ENABLED.
* `SuccessIsVerified`: see section 5.

Some definitions were rewritten so that they can be reasoned about, without a
change of their meaning: `EventDone` of WiFiCallbacks erases entries by an
increasing map of the places that are left, `OnConnect` of MqttClient sends to the
components by slot, `OtherHandlers` of Console takes out the one occurrence of
the handler, and `Deliver`, `AddToAll` and `Used` of Syslog are recursive
functions on the number of passes.

## 5. Plan

All modules are written, and every safety property of the passing runs is a
theorem, apart from `SuccessIsVerified`; `NeverEarly` has the hypothesis named in
section 4.
What is left is to model more: SyslogFile and the rotation of its files
(SyslogFile.cpp:47), and two TCP destinations for `Syslog`, which need the
addresses of the items and not only their numbers.

`SuccessIsVerified` cannot be a theorem about every `MaxFaults`: TLC finds it to hold
with up to three faults and violated with four, in which the address of a page is
lost when it is written and again when it is read back, and noise imitates both
answers.  Nothing in the protocol ties an answer to its command.

## 6. Not modelled

`PROJECT.json` lists every component; those left out are left out because

* they are I/O or text around a library: the web server and its pages, forms,
  templates and REST, discovery messages of MQTT, the logger's files, the parser
  of AT commands (commands that change a modelled component are actions of its
  module), the Intel hex parser;
* they are pure functions on data without shared state: JSON, graphics, moon
  phases, fonts and icons, calendars and time zones, topic patterns of MQTT;
* they are device front ends, sensors and displays, whose state is in hardware;
* they are not compilable at this commit: serial2tcp (Serial2TcpClient.cpp
  overrides a handler that does not exist);
* they depend on the inside of a library that is not in the repository: the
  Updater of the ESP8266 core behind the upload of a firmware (web_server.cpp:366,
  listed as a hazard), the queue of `schedule_function()` behind
  LoopFunctions.h:47.

Within modelled components the parts left out are named in section 2.
