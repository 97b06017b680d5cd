# Verification of the orbit stream server

TLA+ models of the core of the `orbit` media server (`src/orbit`), the TLC runs
that check them on small instances, and TLAPS proofs of the results that hold
for every instance. Paths are relative to the repository root (`src/...`).

## 1. The system and its parts

`orbit` is a WebRTC conference server. Clients (or the master server) drive it
over gRPC: `CreateSession` makes a room with a media pipeline, `CreateStream`
adds one WebRTC endpoint to it, `SendSessionMessage`/`RecvSessionMessage` carry
SDP offers, ICE candidates and user messages, `CloseStream` and `CloseSession`
take things down. Packets then flow from libnice through a DTLS/SRTP transport
into a plugin (audio mixer, video bridge, classroom, recorder) and back out.

| Part | State | Operations | Talks to | What is hard |
|---|---|---|---|---|
| Session service `server/orbit_stream_service_impl.cc` | map id -> `SessionData*`, per object: mutex, state, destroy_time, pipeline | the six RPCs, the watchdog loop, detached recycle threads | pipeline, session info, network status | raw pointers kept across unlocks; teardown without the mutex; purge that reads without the session mutex |
| Media pipeline `server/orbit_media_pipelines.cc` | `stream_data_`, room, candidate lists | CreateStream, CloseStream, CloseAll, SDP/ICE | endpoint, plugin, room | detached teardown threads, callbacks that append candidates without the lock |
| Session info `base/session_info.*` | vector of shared pointers (at most 50), counters, per-session stream map | AddSession, RemoveSession, AddStream, RemoveStream | watchdog decides on it; the statusz page shows it | pointer used after the manager's unlock; eviction; order kept by a mix of sort and insert |
| Network status `network_status.*` | key -> last packet time; loss, bitrate and RTT windows | Init, Update, Destroy, TraverseStreamMap | transport, watchdog | update racing destroy |
| RTP packet queue `rtp/rtp_packet_queue.*` | list, last number given, timebase | pushPacket, popPacket, getNextPacket, setTimebase | network thread, mixer thread | 16-bit wrap; check before the lock; late and duplicate packets |
| NACK processor `rtp/nack_processor.*` | missing list, retransmit list | packet received, NACK received, clean-up | transport | age and retry bounds, wrap |
| Transport delegate `transport_delegate.cc` | plugin pointer, sender, transports, state | onTransportData, RelayPacket, updateState, Stop, Destroy | endpoint, plugin, network status | five kinds of threads at work while it is destroyed |
| ICE connection `nice_connection.cc` | component states, packet queue, agent | libnice callbacks, remote candidates, getPacket, close | DTLS transport | two components in any order, put-off failures, timed join |
| DTLS transport `dtls_transport.cc`, `dtls/DtlsSocket.cpp` | handshake, BIO, resender, state | updateIceState, onNiceData, onHandshakeCompleted, resend | ICE connection, delegate | loss, copies, a timer thread that sends from a shared buffer |
| RTP sender `rtp_sender.*` | priority queue, flag | WriteAndSend, send thread, destructor | plugins, transport | unlocked test, comparator that is no order, shutdown |
| Classroom `classroom_plugin.*` | plugins, SSRC slots, switch contexts, published set | join, leave, READY, packets, PublishStreams | delegate | notifications late, early and doubled; two mutexes; wrapping numbers |
| Video forward `modules/video_map.cc`, `video_forward_element*.cc`, `video_frame_queue.cc` | who sees whom, who waits for whom, queues, rewriting contexts | link, unlink, speaker change, packet, forward loop | conference room | a switch waits for a key frame while streams come and go |
| Audio mixer `modules/audio_mixer_element.cc`, `audio_buffer_manager.*`, `speaker_estimator.*` | a buffer and a mute flag per stream, listeners, mixes to encode, counts per speaker | join, leave, packet, mute, mixing rounds, encoding threads | rooms, video forward (speaker) | mixes wait for threads while streams come, go and are muted; the muted share a packet |
| RTP packet buffer `modules/rtp_packet_buffer.*` | heap by number, type, key frame | push, pop, change of type | old video forwarder | wrap, prebuffering |
| Master server `master_server/*` | registry of slaves, session -> slave, index | Register, AllocateServer, forwarded calls with deadline and retries | stream servers, clients | crashes, late heartbeats, requests executed after their deadline, restart |

The full list, with the parts that are left out and why, is `components` in
`PROJECT.json`; what is hard to test, line by line, is `hazards`.

What makes each part correct: a handler never works on a pipeline another
thread closes; a session is torn down once, by one thread, and its object is
freed after that and only after that; nothing is left behind (streams without
an owner, watched keys without a stream, closed sessions that stay); what
statusz shows, on which the watchdog acts, is the truth about the pipeline; what
a thread works on is there until it is done with it, and every teardown ends;
keys are set only with a peer that has taken part in the whole handshake; a packet leaves each queue
once and in order; everybody in a room hears all others of a round, once, and
nobody who was muted; what a viewer is shown starts with a key frame and its
numbers go on; a call for a session reaches the server that has it, is executed
no more often than it is tried, and ends.

## 2. Modules

| Module | Models | Role |
|---|---|---|
| `SessionLifecycle` | - | abstract: the life of one session object and the calls inside it |
| `Statusz` | `session_info.*` as its users see it | abstract: table of sessions and streams |
| `StreamService` | `orbit_stream_service_impl.cc`, the pipeline's stream map, `stream_update_map_` | the core; EXTENDS `Statusz`, implements `SessionLifecycle` |
| `StreamEnd` | - | abstract: a stream's key, its packets and its end |
| `StreamTeardown` | teardown threads of `orbit_media_pipelines.cc`, `transport_delegate.cc`, `rtcp_sender.cc`, the ends of `dtls_transport.cc` and `nice_connection.cc` | composition of the threads of one stream; implements `StreamEnd` |
| `NiceConnection` | `nice_connection.cc` | ICE states and the packet queue |
| `DtlsHandshake` | `dtls_transport.cc`, `DtlsSocket.cpp`, `transport.h` | handshake, resender, transport state |
| `RtpSender` | `rtp_sender.*` | the heap, the send thread, the destructor |
| `ClassRoom` | `classroom_plugin.*` | links, roles, packets, publishing |
| `VideoMap` | `modules/video_map.cc` | who sees whom: the map a forwarder and its room work on |
| `VideoForward` | `video_forward_element_new.cc`, `video_frame_queue.cc`, the room's calls | EXTENDS `VideoMap` |
| `VideoForwardElement` | `video_forward_element.cc` | the old forwarder |
| `AudioMixer` | the default mixing loop and encoding threads of `audio_mixer_element.cc`, mute of `audio_buffer_manager.cc` | rounds against join, leave, mute |
| `SpeakerEstimator` | `speaker_estimator.cc` | who is speaking, over a window of rounds |
| `MasterServer` | `master_server/*` | registry, scheduling, forwarding |
| `SessionInfo` | `session_info.cc/.h` | the vector, the sort, the shared pointers; implements `Statusz` |
| `RtpPacketQueue` | `rtp_packet_queue.cc` | the reordering queue between two threads |
| `NackTracker` | receiving half of `nack_processor.cc`, `rtcp_processor.cc:300-320` | which packets are missing, asked for, given up |
| `RetransmitBuffer` | sending half of `nack_processor.cc`, `janus_rtcp_get_nacks` | the last packets sent and the answer to a NACK |
| `RtpPacketBuffer` | `rtp_packet_buffer.cc` | sorted, prebuffered packets of one stream |
| `*Proofs` | - | theorems: `StreamServiceProofs`, `StreamTeardownProofs`, `ClassRoomProofs`, `MasterServerProofs`; `ConferenceProofs` (`VideoMap`, `VideoForward`, `VideoForwardElement`), `AudioMixerProofs` (`AudioMixer`, `SpeakerEstimator`), `TransportProofs` (`NiceConnection`, `DtlsHandshake`, `RtpSender`), `StructuresProofs` (all parts of `MCStructures`) |
| `MCStreamService`, `MCClassRoom` | - | symmetry sets for TLC |
| `MCStructures` | - | `SessionInfo`, `RtpPacketQueue`, `NackTracker`, `RetransmitBuffer`, `RtpPacketBuffer` in one model |
| `MCTransport` | - | `NiceConnection`, `DtlsHandshake` (both roles), `RtpSender` in one model |
| `MCConference` | - | `VideoForward` and `VideoForwardElement` in one model |
| `MCRoom` | - | `VideoMap`, `AudioMixer` (two instances) and `SpeakerEstimator` in one model |

The last four put modules that share no state side by side: the variable `part`,
chosen at the start, says which one is in use while the others rest in their
initial state, so the states of the model are the sum and not the product of the
states of its parts. The constants of a part are constants of the model, with their values in the cfg (only
the second mixer of `MCRoom` has values of its own), and the MC module assumes the
part's assumption about them; fairness is stated for the part in use only.

A property with several parts is a conjunction of named parts, each stated and
commented in its component's module (`UsedIsThere` is `SectionIsSafe`,
`RelayIsSafe`, `DelegateOutlivesThreads`); each part that could fail by itself
has a mutant of its own.

### StreamService

An `Item` is one `SessionData` object: `alloc` (unused, live, freed, or leaked
when `map::insert` refuses it), `sid`, `state`, `pipe` (the pipeline pointer:
null, live, dangling), `streams` (the pipeline's `stream_data_`), `mutex`,
`expired` (more than 60 s since `destroy_time`). `sessionMap` is
`session_data`; `keys` is `stream_update_map_`; `pending` the streams a detached
thread of `CloseStream`/`CloseAll` has still to delete. Each thread has a label
`pc` and the locals `op, ptr, cid, cst`; `ptr` is the raw pointer it looked up.

A handler runs in the steps the code lets others in between: lookup (`Call`),
lock and `IsActive()` (`CallEnter`, `CallRejected`, `CloseSession`), the locked
body (`Handle`), and for `CloseStream` the statusz update after the unlock
(`CloseStreamTail`). `CreateSession` is the draw of an id, the second lookup,
the read of the pipeline field and `InsertSessionData`. Teardown is one step per
statement of the tail of `CloseSession`, of `RecycleSessionThread` and of
`SessionData::Destroy`, since the purge reads the object without the session
mutex. The watchdog takes one key at a time; its purge is one step because it
runs under `session_data_mutex_`.

Where C++ says nothing (a freed `SessionData`, a NULL or dangling pipeline, a
NULL `SessionInfoPtr`) the step sets `fault` and the behaviour ends there. All
four outcomes are reachable in the model: a handler that stalls for 60 s between
lookup and lock, a silent stream of a session that is being destroyed, a session
that the full statusz table has dropped. The properties are about what holds up
to such a step.

Abstractions: the locked body of a handler is one step (nobody else gets past
the mutex, and the teardown threads only shrink `pending` and `keys`);
`GetSessionInfoById` and the call on its result are one step (split in
`SessionInfo`); the five session messages that only read or forward are one
action; which streams were silent is any subset of the keys; the 60 s are the
action `Elapse`. The writes of `Destroy()` are taken in source order: the
production build is a plain `bazel build`
(`src/deploy/production/publish_orbit/build.sh:14`), which does not optimise,
on x86. Whether a session type is known is a free choice. Process exit
(`StopWatchDogThread`) is not modelled.

### SessionInfo

The vector of `SessionInfoPtr` with the fields of each object. `AddSession`
inserts at the front after `pop_back`-ing a full vector, `RemoveSession` counts,
stamps and sorts (any order `std::sort` may leave). A caller gets a pointer in
one step and uses it in another, so its entry may be evicted, and the id added
again, in between. `RefinesStatusz` shows that the vector implements the table
that `StreamService` extends.

### RtpPacketQueue

A packet is the index the sender gave it; the code sees `SeqNumber` (index modulo
`SeqSpace`) and `Timestamp`. The network (external) delivers within a reordering
window, loses and repeats. `pushPacket` is two steps because it reads
`lastSequenceNumberGiven_` before it takes the mutex. `delivered` and
`discarded`, with how many had been given when, are history. `skipOld` tells the video mixer's consumer
(`ignore_old_packet`) from the others; the mixer's prebuffering of 30 packets is
not modelled, the class is checked for any moment of the pop. An arriving packet
is less than half the numbers from those that wait and from the one given last
(`Near`, `InPlay`), outside of which the 16-bit order means nothing; the stream
itself may be of any length and come round any number of times. `MaxArrivals` is
a bound of the model.

### NackTracker

`last_seqs` is the ring `last_seqs_video_`, head first, with the number, the time,
the requests and the state of each entry. `SendNackByCondition` is one action: it
is called with the delegate's `plugin_mutex_` held, so the `try_lock` on
`seqn_mtx_` never fails and no other thread sees the list in between. It does
what `KeepTrackRtpSequenceNumber` does in its order: forget the list after a jump
(`Known`), scan (`Scan`), append (`NewEntries`), trim (`Trim`), then either give the
list up for a key frame or build a message. `Pids` are the first numbers of the blocks
`janus_rtcp_nacks` makes of the sorted numbers, and `Fits` says whether they fit: a
message that outgrows its 120 bytes would not be sent at all, though its entries have
been counted. The key-frame
request of `RtcpProcessIncomingRtp` follows in the same step. `lastFir` starts
long ago: the field is 0 and the clock counts from 1970. The arrivals are
external: any packet at most `Window` behind or `Gap` ahead of the newest one,
twice as well. `TrackerAssumption` says that a packet after a run of lost ones is not
far enough ahead to pass for a late one (1000 behind), and that the blocks of a full
list fit the message wherever its numbers wrap, which is so for 160 numbers, blocks of
17 and 27 blocks. Not modelled: the memory of the lists, and the bytes of FIR and PLI.

### RetransmitBuffer

`PushPacket` keeps a packet, `ProcessRtcpNackPackets` decodes two blocks
(`GetNacks`), and each turn of its loop is a step of its own (`Answer`: the next number
is looked up and sent again, or not). The loop holds `retransmit_mutex_`, so no packet is
pushed between its turns, but time passes: `now` is read once at the start of the
message and again for each packet that is sent. The peer is external: it names packets that were sent,
in blocks of one number and `BlockSpan` bits, and its two blocks may overlap.
`resent`, `wanted`, `split` and `answered` are history.

### StreamTeardown

One stream and the threads that touch it: the worker of `DtlsTransport`
(`getNiceDataLoop`), the ICE thread, the sender thread, one report thread per
offer (a second offer overwrites the handle of the first, which nobody joins),
threads of the room that relay to this stream, and the detached thread that
closes it. `closer` walks through the statements of `CloseStream`/`CloseAll`,
`~WebRtcEndpoint`, `TransportDelegate::Destroy`, `~DtlsTransport`,
`NiceConnection::close` and `~RtcpSender` that another thread can see. A mutex is
held exactly at the labels of its section. An access to an object that is gone
sets `fault` and ends the behaviour. `locked`, chosen at the start, tells rooms that
relay under the mutex of their participants (conference, classroom) from the video
bridge, which copies the list; the run meets both. Only an offer of profile SAVPF with
a fingerprint makes the transport; `ProcessOffer` of another one leaves it as it is,
and its candidates go to a transport that may not be there. `DeleteListener` is the first statement of `~WebRtcEndpoint`; `DestroyMembers`
is the end of `network_status_`, which goes before the report thread is joined. What `StreamService` models as the one step `Teardown` is this
module seen through `StreamEnd`.

### NiceConnection, DtlsHandshake, RtpSender

`NiceConnection` has the state libnice reports per component (external), what the
class keeps of it, the state it reports, and the queue to the packet thread.
`updateComponentState` decides and `updateIceState` sets, so close() can run in
between. `stamp` is the age of the last remote candidate; the field has no
initial value, so before the first candidate it reads as either.

`DtlsHandshake` has four flights. `IsServer` is chosen at the start and never changes. The worker handles a packet in the steps between
which the timer thread may run: cancel the resender, reset the buffers, iterate,
set keys, write, new resender. OpenSSL may refuse what the peer sent (`Refuses`), the
peer may give no certificate, and libsrtp may refuse the keys, which makes the transport
FAILED; `refused` remembers it. The second component (RTCP without mux, `Unmuxed`) runs
the same handshake at its own time: `rtcp` is what it has come to, and READY waits for
both. The resender keeps a pointer into OpenSSL's
buffer, so it sends what is in it when the timer fires. The network (external)
loses and copies; the peer (external) retransmits as DTLS asks it to. State
changes from the ICE and the worker thread are a test and a set without a lock.

`RtpSender` keeps the heap as libstdc++ builds it (external), because with
`RtpSendPacketComparator`, which is no strict weak order, the result depends on it. The
path an element climbs and the path the hole goes down are sets of places (`Climb`,
`Descent`), each fixed by the comparisons along it.
The thread tests `empty()` without the mutex in one step and takes `top()` under it
in the next; the destructor stops, joins and frees.

### ClassRoom

Every plugin has `Slots` downstream SSRCs; an upstream stream is linked to one of
them with a context that rewrites its numbers. `READY` is handled by the ICE or
the worker thread, or by both (`Transport::updateTransportState` has no lock), in
three steps: ask for key frames, link, activate. The loops over the participants,
of `LinkSsrcsToParticipants` and of `MuxRtpPacket`, take one participant per step
(`LinkNext`, `MuxForward`) under the mutex, since an offer sets a plugin's SSRCs
without it. `room` and `publish` are the
holders of the two mutexes. `CreateStream`, `CloseStream` and `SendSessionMessage`
hold the mutex of the session (`orbit_stream_service_impl.cc:378, :426, :464`), so
joining, leaving and publishing exclude each other (`SessionMutexFree`); packets and
notifications come from other threads and take no part in it. An `assert` of the code sets `failed` and ends the
behaviour. Numbers are kept modulo `Modulus` with -1 stored as the largest one, as
the code's unsigned fields do.

### VideoMap, VideoForward, VideoForwardElement, RtpPacketBuffer

`VideoMap` is the graph of current and expected sources. Each operation of the
code ends in `EventDetector`, which compares a snapshot of the graph with the
present one and tells the queues to start, stop and ask; `Detect` is part of each
action, and `enabled`, `has_looker` and `asked` are what the listeners make of the
events. `VideoForward` adds a queue and a rewriting context per stream, the
forward loop and the room that links and unlinks. A late READY may link a stream
that has left, as in the code. `VideoForwardElement` is the older forwarder with
its buffers NORMAL, STORAGE and PLAY; packets there are only key or delta. Its pass
over the streams that are changing is `Changed`, and forwarding to all is `Forward`, both in one step: `Turning` are the streams
that turn to their new source in the order of the ids, where one that empties its own
buffer leaves nothing to those after it.
There too a READY may come late: a stream that has left is linked again, `MaxLate` of
them at a time.
`RtpPacketBuffer` has the numbers: heap order across the wrap, prebuffering, and
what a STORAGE buffer accepts. Every copy of a packet is an entry of its own and
counts towards the prebuffering.

### AudioMixer, SpeakerEstimator

`AudioMixer` is the element as the flags start it by default. A mix is the set of
streams whose voices are in it; NetEq may have something to give for a stream or
not. The mixing thread holds `buffer_manager_mutex_` for a whole round
(`Unlocked` is FALSE meanwhile), and takes `mixer_listener_mutex_` per stream, so
that a round is `MixRound` (decode, sum) and one `SendStream` per stream, with the
streams that register or unregister their listener in between. An encoding thread
takes a packet (`Take`), and for each stream of it looks the manager up and encodes
(`Encode`) and then calls the listener (`Deliver`). `log`, `got` and `requested` are
history: what each round had, who was given it, and whose mute request stands. Rooms
add the buffer before the listener and remove it before the listener. Each stream
joins once. After `Destroy` the threads end at the top of their loops. The muted
flag of `PopAndDecode` is part of `MixRound`, `CheckAndSetMute` of `PushPacket`.

`SpeakerEstimator` takes a round as one step, as the mixer calls it. `Leaders` are the
streams that become the best one as `CurrentSpeaker` goes over the ids; the last of them
is its result. The sum of the best stream so far is cut to an `int` (`ToInt`). `SpeakerIsLoudest` compares the
result with a reference over the whole window: rounds in which a stream is alone the
loudest count for it, and ties may go either way.

### MasterServer

Stream servers are up or down, host sessions under ids they draw, register, and
may fall silent for longer than the registry's 10 s. A call of a client is
`CreateSession` (allocate a server, call it, record it), `CloseSession` (look up,
call, reclaim) or any other, which is forwarded. A try that passes its deadline
may still be executed later or never (`pending`). The master may restart and
forget its map. `SameSeed` says whether two servers can draw the same id; only the
routing of calls depends on it.

## 3. Runs

| Run | Question | Bounds |
|---|---|---|
| `service_lifecycle` | Do mutex, state field and the order of `Destroy()` keep pipelines, objects and streams safe with colliding ids; does the service implement `SessionLifecycle`? | 1 id, so every two sessions collide; 2 objects (one per generation of the id, or one in the map and one leaked); 3 handlers: one inside, one waiting, one closing; 2 recyclers: two could only meet on one object; 1 stream |
| `service_statusz` | With ids that identify, is what statusz shows of a session what its pipeline holds, but for what a `CloseStream` has still to mark? | 2 sessions in a table of 1, so eviction happens; 2 handlers; 1 stream each |
| `service_recycle` | Does the watchdog recycle only empty sessions; is a closed session reclaimed? | 1 session, 2 streams (one silent, one not), 2 handlers, 1 recycler |
| `structures` | Statusz vector: order, uniqueness, counter (`VectorIsRight`), implements the table (`RefinesStatusz`). Packet queue: sending order, never back, drops old only (`PacketsInOrder`). NACK list: a window that tells lost from received and counts requests (`TrackerIsRight`). Retransmit list: the last packets, each request answered once (`AnsweredOnce`). Frame buffer: order and key frame first (`FramesInOrder`) | vector of 2 with 3 ids and 3 objects; queue of 12 numbers, window 2, 5 arrivals (up to 12 numbers ahead, so that the halves matter), starts at 0, below half and near the wrap; NACK list of 5 with gaps of 5, blocks of 3 numbers, 3 ticks (trim, jump, give up, second request all happen); list of 3 with 4 packets and 3 messages of 2 blocks, wrap included; buffer of 3 over 5 packets, each once or twice, in 8 numbers that wrap, prebuffering 1 |
| `transport` | ICE: agreed states and a queue of the latest packets (`ConnectionIsSound`), ends and failures (`IceEnds`). DTLS in both roles: `KeysAgree`, `HandshakeCompletes`. Sender: once and in order (`LeavesInOrder`), drains and ends (`SenderEnds`) | 2 components, 6 events, 1 candidate, 3 packets for a queue of 2; 1 loss, 1 copy of each flight, a failure of ICE (as server), a second component (as client), a refusal at any flight; 4 packets of 2 priorities and 2 numbers |
| `stream_teardown` | Is what a thread works on there (`UsedIsThere`); is every access to an object that is not there one of nine that are named, by thread and stage (`FaultsExplained`); is no packet noted after the end (`RefinesStreamEnd`); does the teardown end (`CloseCompletes`)? | 2 offers (the second detaches a thread), 2 room threads, a locked and an unlocked room |
| `classroom` | Are slots and contexts consistent (`LinksAreConsistent`), is every packet of a participant linked (`ParticipantIsLinked`), do the numbers go on (`NumbersContinue`)? | 3 streams of which 2 are in the room at a time and one leaves, so that its slot gets another source, 2 slots, 2 inputs (a packet, a publish or a second READY each), numbers modulo 8 |
| `room` | Video map: does everybody see or wait for the right source that was asked (`NobodyWaitsInVain`), do the events keep the flags (`FlagsAgree`)? Audio: are the others heard and the muted not (`VoicesAreRight`), does a round reach everybody once (`RoundsAreServed`), is the speaker one nobody beats (`SpeakerIsLoudest`)? | map: 4 streams: master, its source, a third and one that comes and goes; mixer: 2 threads, 3 streams of which one joins and one leaves with 1 round and 2 inputs, and 2 streams with 2 rounds and 3 inputs, muted after 2 short packets; estimator: 2 streams, windows of 4 rounds, 3 energies, ints of 16 values |
| `conference` | New forwarder: a switch starts at a key frame that is there (`SwitchIsSound`). Old one: viewers and sources linked, what is shown starts with a key frame (`ElementIsSound`) | new: 2 streams, 3 numbers that wrap, 3 READYs; old: 3 streams of which one may be linked after it left, buffers of 2, 1 change of speaker |
| `master_server` | `RoutedToItsServer`, `ExecutedAtMostRetries`, `OkIsExecuted`, `IndexInPool`, `CallEnds` | 2 servers, 2 ids, 2 calls, 2 tries, 1 fault (crash, silence or restart), both strategies, an index that starts inside or outside |
| `classroom_publish` | (violation) a `PublishStreams` that has begun ends | 2 streams, 1 slot |
| `master_server_ok` | (violation) an OK of `CreateSession` comes with a recorded session | as `master_server`, round robin |

Each bound is the smallest at which the cases named happen; the mutants of
`PROJECT.json` show that they do, since each is found under the run's own bounds.
The threads and objects of a kind are interchangeable, and safety runs use that
symmetry; runs with a liveness property use none. Outside the service the system
may stop (a stream ends, a bound is used up), so `CHECK_DEADLOCK` is FALSE there.

Fairness. `StreamService`: a handler inside its locked body, a thread that tears
down, and the watchdog keep running (no step of theirs waits for anything but
the mutex the watchdog takes); time passes; the session mutex does not starve
the watchdog for ever (strong fairness on `WatchdogLock`). No call has to come,
and a waiting handler has no fairness. `StreamTeardown`: started threads run; the
closing thread gets `plugin_mutex_` and `gateway_mutex_` in the end although
others take them again and again (strong fairness on those two steps only).
`MCTransport`: the threads of the class in use run, the timer expires, the peer
goes on and a message that is not lost arrives; the network may lose one. No
fairness for candidates, for libnice events, or for the call that starts a
destructor. `ClassRoom`: a call in a section goes on when the mutex it waits for
is free. `MasterServer`: a try ends by an answer or by its deadline; servers owe
nothing.

The violation runs:

* `classroom_publish`: `PublishStreams` holds `published_streams_mutex_` and asks
  for `classroom_plugins_mutex_` (`classroom_plugin.h:166`, `classroom_plugin.cc:372`),
  `MuxRtpPacket` takes them the other way round (`classroom_plugin.cc:440`, `:446`). A
  publish request and a packet wait for each other; nothing in the room moves again.
  TLC's trace is those two: joining and leaving cannot overlap a publish.
* `master_server_ok`: `CreateSession` declares a second `status` inside its retry
  loop (`forward_stream_service_impl.cc:42`), so when every try has failed the
  outer one, still OK, is returned, with no session.

Where the code deviates from what a comment or an assertion says in a way that
has a precise condition, the property states the condition as its exception, and
the comment at the property quotes the line:

* a copy of a packet that has left `RtpPacketQueue` is given again, since only the
  last number given is compared, outside the lock (`QueueInOrder` speaks of the
  queue only; `rtp_packet_queue.h:32` says duplicates are dropped);
* `ignore_old_packet` drops numbers of the upper half before the first packet,
  because -1 is compared as 65535 (`DiscardsOnlyOld`; after the first packet only older
  ones are dropped);
* a packet that more than `prebuffering_size_` later entries came before, copies of
  one packet counted, is given out of order (`PopsInOrder`; with the prebuffering of 0
  that the forwarder uses, every displaced packet is);
* after more than 100 requests the NACK list is freed with what it knew, and
  packets that arrived are asked for again (`MissingIsLost` holds until then);
* a NACK block across the wrap is decoded to numbers above 65535, which no list
  has (`AnsweredBelowWrap`);
* with two priorities the sender's comparator is no order (`FirstBySeqNumber`);
* a resender whose timer has fired before the cancel sends a buffer that was
  reset or rewritten (`StaleResendExplained`), and a loss after the one repetition
  was used up is not mended (`HandshakeCompletes`), nor is what OpenSSL or libsrtp has
  refused: `handshakeFailed` only logs (`DtlsClient.cpp:121-124`);
* a failure of ICE that is put off is never looked at again (`FailureIsSet`);
* objects that are not there are used by a report thread, at the end of
  `network_status_` or after a second offer detached it; by the ICE thread that hands a
  candidate to the deleted listener or that `close()` gave up on; by a notification and
  a send that tested their pointer before it was cleared; by an offer without a
  transport; and by a room without a lock (`FaultsExplained`, nine cases);
* the classroom's assertions fail for a packet of a stream that has left or whose
  READY is still being handled, and with more participants than slots
  (`ParticipantIsLinked`); a base of -1 in 16 bits makes the sequence number jump at
  a change of source (`NumbersContinue`);
* the old forwarder relays with an unset base to a stream that was left alone
  (`BaseIsSet`), and a STORAGE buffer across the wrap may put an older packet before
  its key frame (`KeyFrameIsFirst`);
* a longer packet undoes a request to mute, as it undoes the flag that short packets
  set (`MuteHolds`; `audio_mixer_element.h:70` says "when mute is true audio stream
  will not be mixed");
* the muted are passed over in a round if the first of them has no listener yet, and
  a failed encoding costs one stream a round (`EveryoneIsServed`);
* the round robin index is read before it is wrapped, and starts with whatever
  the memory holds (`IndexInPool`); two servers started in the same second draw
  the same ids (`SameSeed`, excluded in the runs and in the theorem about routing).

## 4. Proofs

| Module | Theorem | Says |
|---|---|---|
| `StreamServiceProofs` | `Invariance`, `TypeCorrect` | `Spec => []IInv`, and with it the types |
| | `HandlersAreSafe` | a handler past `IsActive()` owns a live pipeline, and a second lookup by id finds the object it locked |
| | `OneDestroyer` | one thread tears a session down, and the object is not freed under it |
| | `WatchdogIsSafe` | the watchdog's pointer is never one of a deleted object |
| | `StreamsAreOwned` | deleted pipelines have no streams; every watched key has a stream or a teardown thread |
| | `ServiceRefinesLifecycle` | `Spec => Lifecycle!Spec` |
| | `FreshInvariance`, `StatuszIsRight`, `RecycledIsEmpty` | with ids that identify: what statusz shows is the pipeline's, and no session with a stream is recycled |
| `StreamTeardownProofs` | `Invariance`, `TypeCorrect` | `Spec => []IInv`, and with it the types |
| | `UsedStays` (from `SectionSafe`, `RelaySafe`, `JoinedBeforeFreed`) | section, relay and delegate are safe |
| | `FreedAccess` | every access to an object that is not there is one of the nine named ones |
| | `TeardownRefinesStreamEnd` | `Spec => End!Spec` |
| `ConferenceProofs` | `MapInvariance`, `NothingDangles` | `MapSpec => []MapInv`: the five invariants of the map together are inductive |
| | `NobodyWaits` (from `TriesMaster`, `MasterSees`, `WaitedForIsAsked`), `EventsSuffice` | the map's promises to viewers and to queues |
| | `RoomTriesMaster` (by the lemma `ForwardUsesMap`) | the map's theorems hold in the room |
| | `SwitchSound` | a change of source starts at a key frame that is in the queue |
| | `ElementStaysSound` | the old forwarder: viewers and sources are linked, bases are set, what is shown starts with a key frame |
| `AudioMixerProofs` | `VoicesStayRight` | everybody is sent the others' voices, and mute requests hold |
| | `RoundsReachAll` | a round reaches everybody in the room, but in the cases named, and nobody twice |
| | `SpeakerStaysLoudest` | the speaker named at the end of a window is one that nobody beats in it, whatever the width of the sums |
| `ClassRoomProofs` | `Invariance` | `Spec => []IInv` |
| | `LinksStayConsistent`, `ParticipantsAreLinked` | slots, contexts and links agree; a participant's packet finds its link |
| | `NumbersGoOn` | the numbers a slot sends continue, for every modulus |
| `TransportProofs` | `ConnectionStaysSound` | READY and FAILED are agreed on by all components; the queue has the latest packets |
| | `KeysStayAgreed` | keys only for a peer that has sent its last flight, a client's only when the server is done, a client peer done only with a socket that has completed (a server may have keys while its last flight is lost); a resend is of its own flight, but for a timer that fired first |
| | `PacketsLeaveInOrder` | each packet leaves the sender once; of one priority, the smallest number first, whatever the heap looks like; `top()` finds a packet |
| `StructuresProofs` | `VectorStaysRight`, `VectorRefinesTable` | statusz: order, one entry per id, the counter; the vector implements the table |
| | `PacketsStayInOrder` | the packet queue, a stream of any length: sending order across the wrap, with `skipOld` never back, drops old packets only |
| | `FramesStayInOrder` | the frame buffer, any prebuffering and copies: in order but for packets displaced by more entries than are held back; key frame first |
| | `PacketsAreAnsweredOnce` | the retransmit list is the last packets sent; a message sends none twice and all it asks for first |
| | `TrackerStaysRight` | the NACK list is a window of the numbers, tells lost from received and counts the requests |
| `MasterServerProofs` | `BaseInvariance`, `TypeCorrect` | whatever ids the servers draw |
| | `AtMostRetries`, `OkExecuted`, `IndexStaysInPool` | executions per call, what OK means, the round robin index |
| | `Invariance`, `Routed` | routing, for servers that draw different ids |

Assumptions are those of the modules: thread sets are disjoint, NULL and None are
no ids, stream ids are natural numbers, the sets of servers are finite, bounds are
natural numbers, and numbers that wrap are compared only within the part of their space
that the code can tell apart (`Near`, `Arrives`, `TrackerAssumption`). Two are
hypotheses of theorems, not of modules: `FreshIds` (statusz and recycling: an id is not
drawn twice) and `~SameSeed` (routing).

`ConferenceProofs`, `TransportProofs` and `StructuresProofs` prove about the composed
specification that the run checks, for every value of its constants. Where a proof needs
induction over data (a heap's path, a list's blocks, the maximum of a set) it takes the
least counterexample, which well-foundedness of the naturals gives (`LeastOf`).

*StreamService.* None of the properties is inductive alone. A handler is safe
because it holds the mutex *and* the state is ACTIVE, a session leaves ACTIVE
only in a section that holds the mutex, and an ACTIVE object in the map has a
live pipeline (`StageInv`). That the second lookup finds the same object needs
map and objects to point at each other (`MapInv`). A recycle thread holds no
mutex: it is safe because CLOSED is reached once (from ACTIVE, under the mutex)
and the purge frees only DESTROYED objects, so whoever closed the session is the
only one to move it on (`DestroyInv`, with what the pipeline is at each label).
The watchdog's pointer stays valid because only the watchdog deletes, and not
between its lookup and its use (`WatchdogInv`). There is one lemma per action. The
refinement needs only `IInv` and the action: every step is a step of the object's
life or a stutter.

What statusz shows needs in addition that an id belongs to one call of
`CreateSession` and then to one object (`IdOnce`), a stream id to one stream
(`StreamOnce`), and that a stream marked closed is in no pipeline (`ClosedStays`).
`StatuszAgrees` then holds in every state, also while a handler is inside: the two
updates of a handler are under the session mutex or are those of `CloseStream`, whose
late mark the property names. That the watchdog recycles only empty sessions follows
from it at the moment of the test, and later from the CLOSED state, which lets no
stream in.

*StreamTeardown.* The properties speak of one thread and one stage each, and a
join is right only if the thread it waits for cannot start again. `IInv` says for
every stage of the closing thread which fields are still set (`FieldsOfStage`), how
far the transport is (`TransportOfStage`) and which threads have ended
(`ThreadsOfStage`); the safety of the section then follows from the mutex that
`Stop()` needs, and that of the delegate from the order of the joins. `FaultsExplained`
is part of it, since a fault stays where it happened: each of the nine is met only at
the stages between the end of the object and the end of the thread.

*VideoMap.* `EveryoneTriesMaster` is preserved by `Remove` only because nothing
dangles and the master that is chosen is in the map (`FirstIsMember`, from the
well-foundedness of the naturals); the flags are right because each action ends in
`Detect`. `VideoForward` extends the map, and each of its operations is one of the map's
or leaves the map alone, so the theorems hold in the room (`ForwardUsesMap`).
`SwitchSound` needs the link between map and queues: a
stream that was asked for a key frame and has one is served from a queue whose first
frame is a key frame (`FreshHasKeyFrame`), and a queue nobody looks at is empty.

*VideoForwardElement.* That a relayed packet has a base needs that whoever sees somebody
else got one when it turned (`OthersAreBased`); that the first packet shown is a key
frame, that whoever was shown nothing yet waits for a stream that does not play
(`UnshownWaits`), so that the next step for it is a turn at a key frame. A viewer to come
exists only while the element is changing (`PendingIsChanging`), which is what unlinking
it relies on.

*AudioMixer.* A packet is compared with the round it was made in, which may be long
past and whose log entry still changes when an encoding fails. The invariant says
of every packet, queued or in a thread, that its round is in the log and its voices
are that round's without the listener; that the streams of a shared packet were muted
in that round, so that none of them is among the voices; and that a request that
stands has its flag set. Later steps only add rounds or mark one (`MarkKeeps`). The
theorem needs the streams at the start to be among the ids, nothing else.

`RoundsAreServed` counts the packets a stream has in the queue and in the threads. The
invariant says instead that the packet of a stream for a round is in one place, to
come, queued, with a thread or given (`OnePlace`), and in some place unless one of the
exceptions holds (`SomePlace`); `AtMostOne` turns places into counts. That the muted
are served together needs to know that all of them are still to come when the first is
visited (`RoundIsLocked`); that whoever has no manager or no listener has left, that
managers and listeners of those in a round go only by leaving (`ForMembers`).

*SpeakerEstimator.* A stream has been counted at least for the rounds it was alone the
loudest of and at most for those in which nobody was louder (`CountsAreRight`; ties go to
the first id, so neither bound is exact). The choice then only has to name a stream with
the most rounds (`SpeakerIsUnbeaten`): along the leaders the rounds never get fewer, and
a stream that did not lead was not ahead of the leader before it. The cut sums decide only
between equals, so their overflow does no harm.

*ClassRoom.* That a packet finds its link is a claim about pairs of plugins, kept by a
loop that visits one pair per step and by threads that may run the loop twice. The
invariant of the loop (`LoopHasLinked`) says that the stream is linked with everybody
it has visited; that the participants are the ones it started with (`LoopIsInRoom`)
comes from the mutex. A link is made only if a slot is free. With no more participants
than slots plus one there is one, by counting: the links of a plugin are distinct
(`LinkedOnce`), name participants (`NoLinkToRemoved`) and neither the plugin itself
(`LinksToOthers`) nor, after `UnlinkToSsrc`, the stream to link (`SlotIsFree`). For the
numbers, `Remembers` ties the fields of a context to the last packet sent through it;
`NumbersGoOn` is then arithmetic modulo `Modulus` (`ModSum`).

*Transport.* An entry of `comp_state_list_` is not always what its component reported:
an event may overwrite it with the state of the connection. `EntriesHold` survives that
because the connection's own state is agreed on, also the one the ICE thread has decided
and not yet set (`AboutToSet`); `QueueHolds` is the arithmetic of received, taken and
dropped packets, with the one packet by which `queueData` exceeds the bound.
`KeysAgree` relates two ends that see each other only through a network that loses and
copies, so the invariant follows a flight on its way: what is in transit, in the queue
or in the worker's hands the peer has sent (`FromPeer`), and the server's last flight,
written or resent from the shared buffer, comes from a socket that has completed
(`ToPeer`). `Completion` ties the keys to the flights; `BeforeStart` says that a client
has exchanged nothing before its first flight, so that ICE becoming READY late cannot
start a second handshake. For the resender, a timer that runs or was not overtaken by a
packet is for what the buffer holds (`TimerIsRight`).

*RtpSender.* Each packet is in one place (`InOnePlace`): pushing and popping permute the
places, whatever the comparator does. While all packets have one priority the comparator
is the order of the numbers, and the queue is a heap: `SiftUp` restores the order that
only its hole breaks, `Pop` moves the hole to a leaf first, and in a heap the root is the
least (`RootIsLeast`). `top()` finds a packet because only the thread pops and the
destructor clears after the join (`ClearedLast`).

*Structures.* The vector is in order because an insertion puts the newest live session
first and a removal sorts; `MadeOnly` says that what is shown was made at a past time. The
packet queue compares numbers modulo the space, which is the order of the indices as long
as they are within half of it (`WrapOrder`); `AllNear` says that those in the queue, the
one being pushed and the one given last are, and `LastIsGiven` ties the number given last
to the packet. For the frame buffer, `Overtaken` says that more entries than are held back
have come of packets later than one older than the latest given, so that an entry of it is
late or not older (`Newer`). For the retransmit list the
invariant follows the loop: what the message has sent is marked as sent since the message
started, so a second block does not send it again (`AnsweredAreRecent`), and what it asks
for first is sent or still to be looked up and in the list (`WantedAreComing`). For the
NACK list the places are indices (`PlacesAreIndices`), and all indices that were received
or asked for span less than the number space (`HistoryIsShort`), so that a number stands
for one packet; that a message fits its buffer is counted from its blocks, which lie more
than a block apart on either side of the wrap.

*MasterServer.* That a call is executed no more often than it is tried is a count over
its tries: executed ones and those in flight together are no more than have been begun.
That a call goes to the right server needs what calls hold between
their steps: a session about to be recorded was drawn by the server of the call
(`CallHolds`), clients were given only what was drawn (`GivenIsDrawn`), the map has
only what clients were given (`KnownIsGiven`), and no two servers draw one id
(`DrawnOnce`).

Every invariant and every action property of the passing runs is stated by one of these
theorems, and so is each refinement. Only model-checked is liveness
(`ClosedIsReclaimed`, `CloseCompletes`, `CallEnds`, `IceEnds`, `HandshakeCompletes`,
`SenderEnds`): fairness is out of the prover's reach.

## 5. Plan

Done: the session service with its abstract specifications, session info, the
packet queue, both halves of the NACK processor, the teardown of a stream with all
its threads, the ICE connection, the DTLS handshake, the RTP sender, the classroom,
both video forwarders with map, queues and buffer, the audio mixer with the choice
of the speaker, the master server, and the
proofs of section 4.

Next:

1. The other mixing loops of the audio mixer, and `Start()`, whose test of `running_`
   is not locked against a second READY.
2. The candidate lists of the pipeline, which callbacks append to without a lock.
3. The loss, bitrate and RTT windows of `network_status.cc` against a reference.

## 6. Not modelled

Of the audio mixer: the loops of other flags and of the old element, NetEq and opus,
the 16-bit samples of a sum, packet loss reports, the listeners of the whole mix. SDP, STUN and SRTP (text, crypto library calls), the RTCP wire formats, GStreamer and ffmpeg graphs, recording and live
streaming (I/O), the base library (files, strings), the HTTP status pages, the
contacts server (database queries), vendored code (`orbit/webrtc`, `third_party`,
`deprecated`), scripts. `PROJECT.json` gives the reason for each.
