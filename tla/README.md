# A TLA+ development for vzlogger (Linux and Raspberry Pi Pico)

vzlogger reads smart meters and sends their readings to a middleware. This
repository (tge12/vzlogger) holds two programs that share most sources:

* `vzlogger_pico.cpp`: one main loop on a Raspberry Pi Pico, lwIP callbacks that
  interrupt it, WiFi switched off when possible. It is what the CMake default
  builds (`VZ_BUILD_ON_PICO`, no `VZ_USE_THREADS`, lwIP in the
  `threadsafe_background` variant).
* `vzlogger.cpp`: the Linux daemon with a reading thread per meter and a logging
  thread per channel. At this commit the branch `VZ_USE_THREADS` does not compile
  as it stands (`nextDue` is declared for builds without threads only,
  `Channel::connect` has syntax errors in the MySmartGrid and InfluxDB branches,
  `Volkszaehler::checkResponse` is declared for the Pico only); what it does is
  still plain from the source.

## 1. Inventory

| Component | State | Operations | Talks to | Hard behaviour | What makes it correct |
|---|---|---|---|---|---|
| Channel buffer (`Buffer.cpp`) | `_sent`, `_newValues`, `_aggmode`, `_last_avg` | push, aggregate, clean, undelete | MeterMap, API objects | repeated aggregation, order of time, rounding; locks with threads | an aggregate stands for the readings since the last hand-over, nothing counted twice or forgotten |
| Volkszaehler API (`api/Volkszaehler.cpp`) | `_values`, `_last_timestamp`, `_lastReadingSent`, `outputData`, `response` | send, api_json_tuples, checkResponse, processResponse, api_parse_exception | Buffer, LwipIF or CURL | chunks, duplicates, repeated and late requests | no reading given up before the middleware has it, order kept |
| LwipIF (`api/LwipIF.cpp`) | `state` (VZ_SRV_*), `pcb`, `channel`, `data`, `connectInitiated` | connect, reconnect, postRequest, the `vz_altcp_*` callbacks | lwIP, main loop | callbacks between any two accesses of the main loop, segmentation, timeouts, DNS | READY means nothing outstanding; no request lasts forever; the lwIP lock is given back |
| Pico main loop (`vzlogger_pico.cpp`, `MeterMap.cpp`) | due times, `isSendingData`, `syncTime`, clock speed | read, readyToSend, sendData, checkResponse | everything on the Pico | WiFi off while an answer is expected, meters blocking each other | every round ends; WiFi stays up as long as it is needed |
| Pico WiFi, NTP client (`VzPicoWifi.cpp`, `Ntp.cpp`) | link state, `request_sent`, alarm, `theTime`, `sysRefTS` | enable, disable, init, syncTime, queryTime | lwIP, main loop | late answers, alarm against answer, drifting clock | the corrected clock shows what the server said |
| Threads (`threads.cpp`, `MeterMap.cpp`, `Channel.hpp`) | `_thread_running`, buffer mutex, condition variable, `_newValues` | start, cancel, join, notify, wait | Buffer, API | lost wake-ups, cancellation with a mutex held, window between aggregate and clean | what is pushed is sent, once; shutdown ends |
| Main program (`vzlogger.cpp`) | signal flags, `m_log` | start, signals, shutdown | threads, push, MQTT | order of shutdown | nothing is deleted that a thread still uses |
| Push server (`PushData.cpp`), CURL sessions (`CurlSessionProvider.cpp`) | `_next`, `_end_thread`, sessions per key | add, waitForData, get/return session | reading threads | timed wait against add, cancelled holder | what is added is handed over |
| Local web interface (`local.cpp`) | `localbuffer` | add, shrink, answer | reading threads, HTTP threads | walk over the buffer without its mutex | a request reads the window it should |
| MQTT client (`mqtt.cpp`) | `_mcs`, `_chMap`, `_announced` | publish, loop, reconnect | libmosquitto | connection breaks between messages | announced means known to the broker; it reconnects |
| InfluxDB API (`api/InfluxDB.cpp`) | buffer, `_last_timestamp`, `_lastReadingSent` | send | Buffer, CURL | failed request, trimmed buffer, push meanwhile | what was not sent stays |
| S0 (`MeterS0.cpp`) | `_impulses`, `_time_last_ref`, `_ms_last_impulse` | counter_thread, read, close | hardware | counter thread against read | every impulse counted once, time goes forward |
| D0 (`MeterD0.cpp`) | context, buffers, `_ack`, `_baudrate_read` | open, read | serial line | any bytes, silent or noisy line | bounds; speed; read returns |
| SML, OMS, OCR | descriptors; `_last_timestamp`; `_last_reads`, `_last_state` | open, read, close | devices, meters, camera | device goes away; telegram repeated; needle wraps, light flickers | reopened; evaluated once; impulses follow the dial |

PROJECT.json lists the same parts with what is modelled of each, and the hazards
of the code, line by line, with the properties that watch them.

## 2. What is modelled now

```
MCPicoSend --> PicoSend --> Volkszaehler --> Middleware
                  |    \--> LwipIF      --/
                  |-- Promise == INSTANCE Delivery
PicoQueueProofs --> PicoSendProofs --> PicoSend, TLAPS
MCPicoMain --> PicoMain
PicoMainProofs --> PicoMain, TLAPS
MCBuffer --> Buffer
BufferProofs --> Buffer, Induction
MCHost --> Threads --> PushData --> CurlSessions
      \--> MeterSML, Mqtt
MCMeters --> MeterS0, MeterD0, MeterOMS, MeterOCR, InfluxDB, LocalInterface, Ntp
InfluxDB, LocalInterface --> Marking
ThreadsProofs --> Threads, Induction
MeterProofs --> MeterS0, MeterD0, MeterOMS, MeterOCR, TLAPS
ClientProofs --> Ntp, Mqtt, InfluxDB, LocalInterface, Induction
Induction --> WellFoundedInduction, TLAPS
```

`MCHost` and `MCMeters` put several modules that share no state into one run. Their
variable `part` chooses at the start which of them moves; the others stay in an
initial state. So every part is explored for itself, and nothing is multiplied.

**Middleware** (external): one TCP connection, requests carried out and answered
in order, a server that stores a request as a whole or not at all and answers
"duplicate" if it knows one of its timestamps. Dropping the connection loses the
answers; a request on its way may still be carried out late (`orphans`), or never.
`Split` lets an answer arrive as headers first and payload later.

**LwipIF**: the connection state machine. The main loop's calls and lwIP's
callbacks are separate actions, and a call is cut wherever a callback can come
between two accesses to the shared fields. A section under
`cyw43_arch_lwip_begin/_end` is one step, except that `connect()` keeps the lock
in its `ERR_OK` case as the code does (`lwipHeld`). `state` holds the names of the
`VZ_SRV_*` constants; `VZ_SRV_ERROR` is never assigned, `VZ_SRV_SERVER` belongs to
the web server.

**Volkszaehler**: the state of the API object of each channel and the functions
that change it. A reading that was taken over is named by its timestamp, which is
unique per channel because `api_json_tuples` takes only newer ones. `accepted` is a
history variable. `response` remembers the payload last kept in `response.data`,
which an answer without payload makes the code parse again.

**PicoSend**: the program. `pc` names the main loop's next access: `loop`,
`meter` (the loop over meters), `sendData` (MeterMap/Channel::sendData, which
creates the API object and may connect), `send`, `reconnect`, `connect`,
`resolve` (waiting for the resolver), `tuples` (one action per reading),
`postRequest`, `write`, `switch`, `return`, `posted`, `checkResponse`,
`processResponse`, `setReady`. `mode` tells whether the channel loop is that of
`sendData` or of `checkResponse`, `ret` where `connect()` returns to: into the
constructor (then `send` follows) or into `send` (which returns). A reading pushed by
`MeterMap::read` is one `ReadMeter` step; a call that pushes several is several of
them. Times of the clock are not modelled: whether a request is older than twice the
timeout, whether sending is due, and when lwIP polls are free choices, so every
relation of these times is covered. What `Buffer::aggregate` leaves is taken from
its specification (`Aggregates`): the latest reading with some value, or the buffer
itself without aggregation.

**Delivery** says what the API promises: a reading taken over stays queued until
the middleware has it, is stored at most once and in order, and the queue is given
up from its front only. `Delivers` is its refinement by `PicoSend`
(`queue <- values`).

**Buffer**: `Buffer.cpp` in detail for one channel without threads, with values:
push, aggregate (MAX, AVG, SUM, rounding to the interval), hand-over, and being
left behind when the API is busy. Histories hold every reading pushed. Values are
integers and an average is divided with `\div`, where the code divides doubles.

**PicoMain**: the rounds of the main loop over all meters, with WiFi (`wifi`: off,
initialized but not connected, connected), the clock speed (`cpu`) and one connection
per middleware URL. It looks at what `PicoSend` leaves out and is coarser where
`PicoSend` is fine: a connection is only its `VZ_SRV_*` state (RETRY and ERROR never
last beyond `send`) and the channel that asked last; whether a step of the connection
succeeds is a free choice; what a channel has in its buffer is a yes or no. `pc`
follows main: `start`, `read` and `visit` (the two loops over the meters), `enable`,
`sendData`/`send` and `check`/`checked` (the loops over a meter's channels),
`complete`, `sync`, `disable` (the block with WiFi on), `speed`, `sleep`. WiFi, lwIP
and time act between any two of them; callbacks come only while WiFi is initialized
and answers only while it is connected. The local variables of main are state, since
the hazards lie in what they remember: `sendDue` (`nextSend <= 0`), `nextDue` (none, at
most `wifiStopTime`, more), `fullSpeed` (`clockSpeedIsDefault`), `isSending`,
`wasSending`, `syncTime`; `caught` is a history variable. `CreateApiThrows` leaves the
loop over the meters through the exception handler. `enable()` is one step: it ends
connected or disabled.

**Threads** composes the daemon: the main program (`mpc`), one reading thread per
meter (`rpc`, named by the meter), one logging thread per channel (`lpc`, named by the
channel) and the push thread of **PushData** (`ppc`), which share the buffers, their
mutexes, `_newValues`, the condition variables and the sessions of **CurlSessions**. A
reading is its number in its channel; an entry of `buf` is the set of readings it
stands for. `AggregateBuffer`, `CleanBuffer`, `HaveNewValues` and `Notify` are the four
steps of `MeterMap::sendData` for a channel, with the other threads between them.
`HaveNewValues` writes without the mutex, so the section of `Channel::wait` is cut
there (`LookForValues`, `ClearNewValues`). A cancelled logging thread ends owning the
mutex of its buffer or its session: nothing in the code releases them, and
`ReaderBlocked` and `PushBlocked` name the two deadlocks this leads to.
`_thread_running` stays set when a reading thread ends by an exception. Data that waits
in `_next` at shutdown is dropped, pushes that failed are not repeated, and the destructor of
`CurlSessionProvider` waits for at most five rounds. The filter of
`api_json_tuples` for timestamps, failed answers and `print` are left out. With
`NDEBUG` the mutex calls inside `assert` vanish; the model is the build with assertions.

**MeterS0**: the counter thread and `read`, cut at every access to what they share.
Events of the hardware and the direction line are inputs. An impulse that is stamped
between loading the counters and taking the time lends its time to the reading before
it; `send_zero` moves the reference although an impulse may have come since.

**MeterD0**: one action per context of the parser, on any byte of twelve classes. What
outlives a call is `_ack`, `_baudrate_read` and the speed of the port. `/` at index 0 of
a field begins a telegram; `!` and `?` change the context anywhere. The meter may stop at
any byte (`Halt`) and leave a silent line, or one with noise (`Noise`: any byte but `/`, `!`
and `?`) that is read in whatever context the parser is in. Outside `START` each byte
restarts the timeout (`Take`), so steady noise there may keep the call for ever. The meter
is never reopened after the end of file, and the result of `getaddrinfo` is not looked at.

**MeterSML**: descriptor, reopening and datagrams. A failed `connect` keeps its
descriptor, and the pull sequence is not repeated after the reopening inside a call.
(`MeterSML.cpp:413,420` set the parity with `|= ~PARENB`.)

**MeterOMS**: the device repeats a telegram until it hears an acknowledgement. Every
`SND_UD` is acknowledged, one that cannot be decrypted too, though the comment at
`MeterOMS.cpp:284` says "only if correct". One call takes frames as long as they come.

**MeterOCR**: pictures (from a file that is watched, or a camera with its capture
buffers), two needles with their rounding by the smaller digit, and the light with its two
thresholds. Angles and brightness are inputs. When the first picture shows no needle,
`_last_reads` keeps a NaN: the next picture with needles makes no impulse, and counting
starts from its value.

**Marking** is what `Buffer::clean` and `Buffer::undelete` do with readings that an API
has marked. **InfluxDB**: one request at a time over the buffer of a channel.
**LocalInterface**: the walk of the reading thread over the buffer, while the logging
thread (the Null API, `MarkAll` and `EraseMarked`) empties it; an iterator left on an
erased reading is `"undefined"`. Unsent readings are copied again in every round.
`shrink_localbuffer` computes its limit before it waits for `localbuffer_mutex`, so the
reading thread and a request may shrink in the other order: `ShrinkBegin` and
`ShrinkRound` are its two steps in the reading thread, `HandleRequest` and
`ShrinkRequest` those in a request, and `minT` is the limit of each. **Mqtt**: libmosquitto
is external; publishing works while there is a session. **Ntp**: the query with its
alarm, the server's answers, and the clock that `init` and `syncTime` correct. The
server is always given as an address, so the resolver's callback cannot come. A failed
first query ends the program, a failed later one waits for the next `ntpSyncCycles`.

Bounds and abstractions are named constants: `MaxReads`, `MaxChunkSize` (64 in the
code), `Times`, `Values`, `Meters`, `Duplicates`. A clock that
runs backwards, allocation failure (`initPCB` throwing) and a response longer than
its buffers are left out.

## 3. Runs

| Run | Instance | Shows |
|---|---|---|
| `buffer` | all modes, rounding to 2 s, 4 readings out of 4 times and 3 values | `AggregateExact`, `SumConserved`, `AverageTiles` |
| `buffer_avg_left_behind` | AVG, aggregates may be left | `AverageTiles` fails |
| `pico_send` | 2 channels of one meter on one connection, chunk 1, MAX on one, 2 readings, resolver asynchronous or failing | `NoLoss`, `NoGaps`, `ReadyIsIdle`, `Delivers`, and with fairness `RoundEnds`, `RequestEnds` |
| `pico_queue` | 1 channel, duplicates filter of 3, chunk 2, 3 readings, every resolver result | `Inv`, `Delivers` |
| `pico_split_answer` | answers in two pieces | `NoLoss` fails |
| `pico_stale_body` | duplicate filter | `FreshBody` fails |
| `pico_lock_kept` | resolver answers at once | `LockReleased` fails |
| `pico_main` | 3 meters: two channels and one channel on one URL, one with an unusable URL; 2 reads; scheduled sending, WiFi stop and low speed configured as in `vz_pico_inline_config.h` | `WifiAtFullSpeed`, `MainInv`, `AnswerKeepsWifi`, and with fairness `EveryMeterSends`, `WifiGoesOff` |
| `pico_wifi_two_urls` | two meters on two URLs | `AnswerKeepsWifi` fails |
| `pico_main_bad_url` | the unusable URL comes first | `EveryMeterSends` fails |
| `host` | threads: a channel with an aggmode and 2 readings, a channel that shares its URL with the push server, a meter of two channels; SML: every option, 2 descriptors; MQTT: every option, 1 channel with 2 announcements | `TypeOK`, `NothingLost`, `CountedOnce`, `NoUseAfterDelete`, `AnnouncedIsKnown`, and with fairness `PublishedIsSent`, `AddedIsPushed`, `ShutdownEnds`, `SmlRecovers`, `MqttReconnects` |
| `meters` | S0: 3 sets of options, 2 impulses; D0: 4 sets of options, buffers of 1; OMS: 4 telegrams; OCR: needles and light, 3 moves, 3 errors of the scan; InfluxDB: 4 readings, 2 sets of limits; local: by number and by age, 3 readings; NTP: 3 queries, drift of 1 s | `ImpulsesConserved`, `TimeForward`, `D0Bounds`, `AckSpeed`, `OmsOnce`, `ImpulsesTrack`, `FlashOnce`, `InfluxKept`, `WindowServed`, `ClockSynced`, and with fairness `StopEnds`, `ReadReturns` |

Why the bounds are enough for these questions: two channels are needed for an answer
to be taken for another's, and two readings of one channel for a chunk to leave
something behind, to overtake and to be dropped twice; three readings and chunk 2 add
a chunk that is neither empty nor all. The connection itself is not bounded: it can
break, be remade, time out and lose answers any number of times. In `buffer`, the
values are negative, small and large, so that sums, maxima and quotients of both signs
occur, and the four times give every order, equal times and gaps of different length;
an average is compared with the quotient of integral and time, rounded alike. In `pico_main` one URL with
two meters is what `isSendingData` can get wrong or right, the third meter cuts rounds
by its exception, and a meter with two channels is left half-way. Rounds and time are
not bounded there, only the number of reads.

In `host` one meter with two channels has every thread that can meet another; two
readings and one aggregated channel make aggregates that are marked, taken and cleaned in
every order; one URL shared by a channel and the push server is what sessions can be
fought over. In `meters`, two impulses fall between any two accesses of `read`; the buffers
of D0 hold one byte, which is where an index goes wrong; the telegrams have a time that
comes first, last or is not set; the dial moves by about an eighth of a turn back, a little, or
nearly half a turn forward, over zero; three copies overflow a window of two.

Deadlock is checked in all passing runs but `meters`, whose parts come to an end when
their bounds are reached, and `pico_queue`: there the resolver may
answer at once, and then the lwIP lock stays taken (finding `pico_lock_kept`). If the
connection has to be made again and the name has left lwIP's table, `connect()`
waits for a callback that never comes. TLC finds this as a deadlock; it is the
behaviour of the code.

Fairness in `pico_send`: the main loop keeps running (`WF` of its steps except
reading a meter, which may stop), the resolver calls back (lwIP's resolver has a
retry limit and then calls with NULL), and lwIP polls a connection it has (its slow
timer). Nothing is assumed of peer, network or middleware. `RoundEnds` needs the
resolver, `RequestEnds` the poll; the mutants show that each depends on the code.

Fairness in `PicoMain` (`FairSpec`): the main loop runs (`WF` of its steps; `Sleep` is
one), a connection that is being made or waits for an answer comes to an end
(`WF` of `Progress`: lwIP's retransmission limits and `vz_altcp_poll`), time passes
(`Elapse`), and an access point that a meter asks for again and again is found in the
end (`SF` of `EnableOK`, per meter; without it no meter need ever send). Nothing is
assumed of the outcome of a request. WiFi may be lost and come back at any time.

Fairness in `host` and `meters`: the threads run and their waits end by their timeouts
(`ThreadsFairness`: `Meter::read` and the request of CURL return; a session given back
again and again is obtained; a cancelled thread that waits again and again ends there);
the counter thread of S0 is woken after a second at the latest (`S0Fairness`); a read of a serial device
returns after 5 s, and the clock reaches the timeout where no byte restarts it, on a silent
line and in `START` (`D0Fairness`, nothing for sockets); a meter that is
there sends whole datagrams again and again (`SmlFairness`); the loop of libmosquitto
returns after a second (`MqttFairness`). `ShutdownEnds` has the premise that a logging
thread comes to rest: one that always finds new values is never cancelled.

Every property has a mutant in PROJECT.json: a change that a plausible bug would
make, named `...Mutant` or by what it does, next to the definition it replaces.

### Where the code and its comments disagree

1. `LwipIF.cpp:419,433`: pieces of an answer. TCP may deliver headers and payload in
   two calls of `vz_altcp_recv`. The first piece makes the state REPLIED and is
   processed; the second makes it REPLIED once more, and when another request was
   posted in between, the piece counts as its answer. After that every answer is one
   request late, and a 200 removes readings that are not stored.
2. `Volkszaehler.cpp:475`: stale body, see `pico_stale_body`.
3. `LwipIF.cpp:207`: lock kept, see `pico_lock_kept`.
4. `Buffer.cpp:95`: the average of an average, see `buffer_avg_left_behind`.
5. `vzlogger_pico.cpp:234`: with two middleware URLs the last busy meter decides alone
   whether WiFi is still needed, see `pico_wifi_two_urls`. With a single URL the
   connection is the same for all meters and `AnswerKeepsWifi` is proved; there too a
   connection that just failed clears what an earlier meter had set, so
   `sendDataComplete` is set early and the first meter's remaining readings wait a
   whole `sendDataInterval`.
6. `vzlogger_pico.cpp:238`: an exception of one meter keeps all later ones from sending,
   in every round, see `pico_main_bad_url`. What raises it is easy to meet:
   `Volkszaehler.cpp:110` is meant for URLs without a port, but its `%[^:]` takes the
   slash as well, so such a URL never matches and is refused.

Seen while modelling, without a run of their own:

* `altcp_output` may return `ERR_MEM` after `altcp_write` has queued the request;
  `postRequest` then reports RETRY, `send` makes the connection READY, and with `"MEM"` in
  `OutputResults` TLC finds `NoLoss` violated.
* `Buffer.cpp:167` rounds down where `etc/vzlogger.conf:100` says "nearest".
* Threads: with an aggmode the marked entries are sent as well when the logging thread
  comes between aggregate and clean (`CountedOnce` is about the other channels).
* D0: the timeout of a call starts again at every byte read outside `START`, also at those
  that change nothing (`MeterD0.cpp:499`): noise in `END`, where it is skipped (the TODO in
  line 754 asks about a timeout), line ends in `VENDOR` or `OBIS_CODE`, unprintable bytes in
  `IDENTIFICATION`. `read` then never returns, where `etc/vzlogger.conf:127` says that
  reading is finished "if no state change after that timeout". `ReadReturns` is what
  remains: silence ends a call anywhere, noise only before a telegram has begun, and
  cancellation always. Without its premise `context = "START"` TLC finds it violated.
* D0: for an automatic acknowledgement of speed 0, 300 is stored where termios wants
  `B300` (`MeterD0.cpp:612`); a port opened at another speed keeps it (`SpeedRefused`).
* MQTT: after the first of several announcements is accepted the failed ones are never
  repeated, nor are any after a restart of the broker; `_isConnected` is never read.
* InfluxDB: `_last_timestamp` advances with a request that fails, so that on the next
  attempt older readings are filtered out and then cleaned (`InfluxKept` exempts them),
  where `etc/vzlogger.conf.InfluxDB:34` speaks of measurements "cached when InfluxDB is not
  available". With nothing to send the marks stay.
* Local: shrinking stops at the first young reading, so repeated ones hide older ones.
* NTP: a late answer is taken for that of the next query (`stray`).
* Hazards that no property covers and that PROJECT.json therefore does not list:
  `vzlogger.cpp:598` re-opens the log with `m_log` held, and `openLogfile` may print;
  `CurlSessionProvider.cpp:62`, mutex calls inside `assert`; `MeterMap.cpp:141`, no end
  with an interval of 0; `LwipIF.cpp:189`, `initPCB` may throw with the lwIP lock held;
  `vzlogger_pico.cpp:227`, an exception of a meter's second channel leaves
  `isSendingData` unset (`AnswerKeepsWifi` exempts such rounds);
  `Volkszaehler.cpp:329`, readings in `_values` wait for a new one in the buffer;
  `vzlogger_pico.cpp:289`, the time is synchronised only when WiFi happens to be up;
  `Volkszaehler.cpp:268`, `response.data` is freed and its pointer kept.

## 4. Proofs

Each theorem holds for every choice of the constants their assumptions allow: any
number of meters and channels, any chunk size, aggregation and duplicate filter, any
number of readings.

| Theorem | Module | States |
|---|---|---|
| `TypeCorrect` | PicoSendProofs | `Spec => []TypeOK`; the channel loops stay within the current meter |
| `InvHolds` | PicoQueueProofs | `Spec => []Inv`, the inductive invariant |
| `NoReadingLost`, `InOrder`, `ReadyMeansIdle` | PicoQueueProofs | `[]NoLoss`, `[]NoGaps`, `[]ReadyIsIdle`, from `InvHolds` |
| `KeepsPromise` | PicoQueueProofs | `Spec => Delivers`: `PicoSend` implements `Delivery` |
| `FullSpeed` | PicoMainProofs | `Spec => []WifiAtFullSpeed` |
| `MainInvHolds`, `WifiIsKept` | PicoMainProofs | `[]MainInv` and `AnswerKeepsWifi`, if `OneUsableUrl` |
| `NoReadingLost`, `NoReadingTwice` | ThreadsProofs | `ThreadsSpec => []NothingLost`, `[]CountedOnce` |
| `ListOutlivesReaders` | ThreadsProofs | `ThreadsSpec => []NoUseAfterDelete` |
| `ThreadsTypeCorrect` | ThreadsProofs | `ThreadsSpec => []TypeOK` |
| `BufferTypeCorrect` | BufferProofs | `Spec => []TypeOK`: an aggregate is a reading |
| `SumsAreConserved`, `AggregatesAreExact` | BufferProofs | `[]SumConserved`, `[]AggregateExact` |
| `AveragesTile` | BufferProofs | `[]AverageTiles`, if the API is never busy in mode AVG |
| `ImpulsesAreConserved`, `ReadingsMoveForward` | MeterProofs | `S0Spec => []ImpulsesConserved`, `TimeForward` |
| `D0StaysInBounds`, `PortHasSpeed` | MeterProofs | `D0Spec => []D0Bounds`, `[]AckSpeed` |
| `OmsReadsOnce` | MeterProofs | `OmsSpec => []OmsOnce` |
| `FlashesCountOnce`, `ImpulsesFollow` | MeterProofs | `OcrSpec => FlashOnce`, `[]ImpulsesTrack` |
| `ClockIsSynced` | ClientProofs | `NtpSpec => []ClockSynced` |
| `AnnouncementsAreKnown` | ClientProofs | `MqttSpec => []AnnouncedIsKnown` |
| `ReadingsAreKept` | ClientProofs | `InfluxSpec => []InfluxKept` |
| `WindowIsServed` | ClientProofs | `LocalSpec => []WindowServed` |

Every invariant and every action property that a run checks is stated by one of them.

The theorems of PicoQueueProofs assume `WholeAnswers`: an answer reaches `vz_altcp_recv` in one piece
and `altcp_output` does not fail with `ERR_MEM` after `altcp_write` has queued a
request. Without the one, `pico_split_answer` loses a reading; without the other TLC
finds the same loss. So in the model these two are the only ways to lose one.
They do not depend on the lwIP lock being given back: that concerns progress.

`NoLoss` is not inductive. `processResponse` gives up a chunk of `_values` because of a
status alone, so the argument must show that the answer in `data` belongs to the last
body, that this body is still the front of `_values`, and that the answer is true. In
`Inv`:

* `QueueInv`: `_values` is increasing and not newer than `_last_timestamp`, so a tuple
  that `api_json_tuples` takes over is newer than all before it.
* `BodyInv`: a body, also one of a dropped connection, leaves out no older reading the
  middleware does not hold (`Complete`). So late requests open no gap, and with
  `NoGaps` a "duplicate" exception means that the first value is stored
  (`FirstStored`), which is the one `api_parse_exception` drops.
* `ConnectInv`: `connect()` finds an unconnected pcb, and lwIP owes the call of
  `vz_altcp_dns_found` only while `connect()` waits for it. So no callback makes the
  connection ready behind the main loop's back.
* `IdleInv`: at most one request or answer is under way, and none where the code takes
  the connection for free (`TakenForFree`).
* `AnswerInv`: the request under way is the last one posted, holds the front of
  `_values`, and its answer is truthful about it until it is processed.

Each part is proved per process (`...Main`, `...Callback`, `...World`), the data by the
lemmas `Data...`, and `InvStep` combines them. TLC checked `Inv` first (`pico_queue`).
For the refinement, `TupleAccepts`, `ProcessReleases` and `CommitStores` map the three
steps that are not stutters; `BufferStep` shows that a fixed timestamp stays one when
an aggregate is aggregated again.

For `PicoMain`, `WifiAtFullSpeed` needs only to know where main is between turning WiFi on
and off (`SpeedInv`). `AnswerKeepsWifi` is about the moment WiFi goes off and needs
`MainInv`: a busy connection has a channel whose API object uses it (`OwnerInv`, from
`getInstance`); while main goes over the meters it is either in `isSending`, WiFi is
off, or a meter still to come will ask about it (`Known`); so when the loop is over it
is in `isSending` unless an exception cut the loop (`RoundInv`). Leaving a meter is the
one step that can break `Known` (`LeaveMeter`); `Checked` overwrites `isSending`, and
only with `OneUsableUrl` does the new value speak for all busy connections.

For the daemon, `BufInv` adds to `NothingLost` and `CountedOnce` what one buffer looks
like: in a channel without aggregation every entry is one reading that was never taken
(`EachOnce`). An operation on a buffer keeps the invariant if it keeps the readings of
the entries that are not deleted (`BufferStep`), which is what `AggregateKeepsIds` says
of aggregate. Neither needs the mutex of the buffer to be given back. `JoinInv` is about
the end: a reading thread that can move belongs to a meter whose `running` is set, and
main goes past the meters when none is.

`TypeOK` of the daemon is inductive with the places at which the threads stand
(`ThreadsType`): a reading thread that publishes is at a channel of its meter, main at a
meter of the list, the push thread at a server. Each part is kept by the steps of its own
thread, and the others leave it alone.

**Induction over data.** What the folds of `Buffer`, `InfluxDB` and `LocalInterface`
compute is proved by induction over the sequence. The library's theorems of induction take
an operator as parameter, which the provers cannot instantiate, so module `Induction` gives
them in terms of sets: a set of naturals that holds 0 and each successor is all of them
(`SetInduction`, `BoundedInduction`), a set of naturals has a least member, a bounded one
a greatest (`LeastMember`, `GreatestMember`, `GreatestValue`), and a function defined by
recursion exists and is unique (`RecursionExists`, `RecursionUnique`). They rest on the
well-founded order of the naturals in `WellFoundedInduction`.

**Buffer.** `SumTo` is given its equations by `SumToZero` and `SumToNext`, from which
`TotalAppend` follows; `LatestIs` and `MaxExists` show that the latest reading and the
greatest value exist, so that an aggregate is a reading (`AggregateTypes`).
`SumConserved` is then inductive with the types. `AggregateExact` is not: an aggregate
that was left behind is aggregated together with later readings, its time cut to the
interval. `AggregateInv` therefore says in every state that the buffer and the pending
readings agree in what an aggregate depends on: both empty, the same sum, the same
maximum, and latest times that are the same once fixed (`SameTimeAppend`,
`AggregateStands`). For `AverageTiles`, `AverageInv` says that `_last_avg` is the last
reading of the last average, and that the buffer holds just the readings since. The sum of
values weighted by the time to the next reading is the sum of what the meter showed at
every moment in between (`WeightedIsIntegral`): each reading adds its value once for each
moment it was the latest (`ShownValue`, `SumToStretch`, `TilesNext`). The theorem assumes
`"AVG" \in AlwaysTaken`; the run `buffer_avg_left_behind` shows that it is needed.

**Meters.** `ImpulsesConserved` is inductive with types: `InFlight` names the impulses
loaded and subtracted but not returned. `TimeForward` needs `TimeInv`: the last impulse is
never after the time that reference and milliseconds stand for, also between the two steps
that move them (`LastStamp`), nor, once the time of a reading is chosen, after that time.
`D0Bounds` needs the context to be known where a byte
changes it ahead of the parser (`ContextFits`). `AckSpeed` needs what is kept between calls
(`SpeedInv`): the acknowledgement's speed is `_baudrate_read`, and the port has it or the
speed it was opened with. `OmsOnce` needs `Remembered`: the telegram being sent is
remembered by its time exactly if it was evaluated, and `TimeSent`, so that a new time
is not taken for an old one. `FlashOnce` needs that the light was off since the last
impulse, or is on since then (`LightInv`). `ImpulsesTrack` needs `NeedleInv`: the number
read last and the impulses counted both stand for where the dial was then, the one within
its wrap. That a number read is within two digits of the dial for every position and all
slips of the scans is arithmetic over three roundings (`Written`, `Near`); the theorem
holds for slips up to 3 tenths of a digit (`Errors` in the module's assumption), which the
rounding by the smaller digit can undo, and moves of up to 45 of 100 digits between two
pictures.

**Clients.** `ClockSynced` needs `AnswersFresh`: unless an answer was under way when the
query began, all answers under way and what `queryTime` keeps were said since.
`AnnouncedIsKnown` is inductive with the types. `InfluxKept` needs `Settled`: what is
marked, and what is older than `_last_timestamp`, was sent, held back, or in a failed
request; that the loop over the buffer keeps this, wherever `max_batch_inserts` stops it,
is an induction over its readings (`Through`, `Passed`). `WindowServed` needs `LocalInv`.
Its parts are: times grow with the numbers of the readings (`Stamps`); what no API has
marked was copied before any reading after it, and once the walk has passed it
(`Copied`), so copies are in order as long as each is made once (`Ordered`); and the local
buffer is what is left of the copies after the first `n`, where `n` follows from the number
to keep (`Counted`), or from the limits that were used so far (`Timed`), in whatever order
the threads that computed them got the lock.

Only model-checked: the liveness properties (`RoundEnds`, `RequestEnds`, `EveryMeterSends`,
`WifiGoesOff`, `PublishedIsSent`, `AddedIsPushed`, `ShutdownEnds`, `SmlRecovers`,
`MqttReconnects`, `StopEnds`, `ReadReturns`), which rest on fairness and ENABLED, out of
reach of the prover.

## 5. What is left

Worth adding next: the due times of meters in place of near and far in `PicoMain`; a
property that compares sums across `Buffer` and `_values`, and its proof from the theorems
on both; an abstract specification of a channel's buffer that `Buffer`, `Threads` and
`InfluxDB` each refine, to take the place of three histories.

Not modelled:

* MySmartGrid: `Channel::connect` and the class do not compile at this commit, so what it
  does cannot be read off the source reliably.
* The web server, display and system services of the Pico: device access that keeps
  nothing from one call to the next.
* MeterFile, MeterExec, W1therm, FluksoV2, EmonLib, Random, the ADC and one-wire meters and
  the Tesseract recognizer: each call reads an outside source.
* Decoding of SML, M-Bus and OBIS, AES, image processing (colour conversion, autofix
  detection), configuration parsing, log formatting and `dump_file`: functions of
  their input, which are inputs or constants here.
* Re-opening of the log file, and cancellation inside `print`.
