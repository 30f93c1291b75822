# A TLA+ model of CryFox's services, caches and threads

CryFox is a browser made of processes: a user interface, one WebContent process
per tab, an ImageDecoder, and one RequestServer that does all networking and
keeps the HTTP disk cache. This directory models what these processes share and
how they talk: the requests of many clients on RequestServer's event loop and the
cache under them, the DNS resolver, the transport between processes, the client's
end of a request and the body it brings, the image decoder with its background
thread and its clients, and the playback of media over decoding threads. These
are the parts of the repository with the most shared mutable state, and the parts
whose failures (a tab that waits for ever, a truncated script in the cache, a
seek that does not end) are hardest to reach with a test.

## 1. The system

| Part | State | Operations | Talks to |
|---|---|---|---|
| `Services/RequestServer/Request.cpp` | `m_state`, the curl transfer, a response buffer, the pipe, a reader or a writer of the cache | one handler per state, curl's callbacks, a notifier on the pipe, the destructor | its connection, DiskCache, curl, the DNS resolver |
| `ConnectionFromClient.cpp` | the tables of active and background requests | `start_request`, `stop_request`, `ensure_connection`, `start_revalidation_request`, `request_complete`, `die` | clients, by IPC |
| `LibHTTP/Cache/DiskCache.cpp` | `m_open_cache_entries`, `m_requests_waiting_completion` | `open_entry`, `create_entry`, `cache_entry_closed`, `remove_entries_accessed_since` | requests, through weak pointers and deferred calls |
| `CacheEntry.cpp` | an open file, what was written or piped, a deletion mark | writing, flushing, piping, revalidation succeeded or failed | DiskCache, CacheIndex, the client's pipe |
| `CacheIndex.cpp` | one row per key in a database | create, find, update, remove | SQLite |
| `Utilities.cpp` | none | freshness lifetime, age, status, header update | DiskCache, CacheEntry |
| `LibCore/ThreadEventQueue.cpp`, `Notifier.cpp` | queued events | `post_event`, `deferred_invoke`, `process` | everything above |
| `LibDNS/Resolver.h` | a cache, pending lookups with a promise and a timer each, a socket | `lookup`, answers, retries, loss of the socket | requests, by callbacks |
| `LibIPC/TransportSocket.cpp` | queues shared by an I/O thread and the main thread | send, receive, wait, close | every process |
| `LibRequests`, `ResourceLoader.cpp`, `Autocomplete.cpp` | a client's requests, each with a pipe and what has come of it | messages, activations of the pipe, stop, die, a new server | RequestServer; LibWeb and the address bar, by callbacks |
| `FetchedDataReceiver.cpp`, `MemoryCache.cpp` | a buffer, a pending pull, a lifecycle; entries whose body is still to come | bytes, completion, pull, fetch tasks, cancel; create, finalize, open | ResourceLoader, streams |
| `LibThreading/BackgroundAction.cpp` | a queue, a flag, a condition, one thread | enqueue, quit, the thread's loop | its users, by deferred calls |
| `Services/ImageDecoder`, `LibImageDecoderClient` | connections and their jobs; registered promises | `decode_image`, the callbacks of a job, `die`; a synchronous call, messages, `die` | each other, by IPC |
| `LibMedia` | per track a queue, the latest seek, an abort flag; the manager's state handler and its seeks | play, pause, seek, buffering; the provider's thread | the two threads, by a mutex and deferred calls |

`PROJECT.json` lists these and the remaining parts of the repository, with the
reason for each that is left out.

What makes it hard. Everything in RequestServer runs on one thread, but little
of it runs to completion: a request is put down at every lookup, transfer, full
pipe and locked key, and taken up again by an event. Between the two, other
requests open, close, replace or unlink the same cache entry, the user clears
the cache, the client stops the request or goes away. Resumption is deferred to
a later turn, and notifier events that were posted stay posted. The cache hands
out a lock per key that is released only by closing the entry, while a request
can end along a dozen paths. The process can die between two writes to disk.
In LibIPC there really are threads: each end of a socket has one for I/O, which
shares two queues, a state, a condition variable and two pipes with the main
thread, and runs against the same two threads of another process. The image
decoder and the media providers have a thread each that sleeps on a condition
variable, and a main thread that cancels, overtakes or ends what it does. And
whatever a client waits for, the process it waits for may die.

What should hold, by part:

* cache: a writer has its key to itself; so does a request that revalidates;
  readers never see their file rewritten; nobody waits for a key that is free;
  a row stands for a response that is entirely there;
* request: no callback finds the entry it works on gone; no `VERIFY` fails; it
  ends, and its end is told to the client;
* client: is told of the start, the headers and the end, in that order;
* freshness: what is called fresh is fresh, and does not become so by waiting;
* transport: messages arrive once, in order and with their descriptors; a
  descriptor is kept until the peer has it; nobody waits for a thread that is
  gone; closing comes to an end, and sends first what it says it sends;
* resolver: callbacks run once, with current records of the right host, as far as
  ids tell hosts apart;
* loads and bodies: the callbacks come in the order LibWeb relies on, once, and
  the end after all the data; a body that looks complete is; if the server dies
  the load ends;
* image decoder: every promise is settled, by the outcome of its own image; no
  job is left behind; the thread sleeps through nothing; the process ends;
* media: after a seek the tracks are where the clock is, whatever seeks were
  overtaken; play and pause are not lost; a seek ends.

## 2. Modules

| Module | Models |
|---|---|
| `EventLoop` | the loop: the rest of the current turn, and the queue |
| `DiskCache` (extends `EventLoop`) | the open-entry table, the waiting lists, rows and files |
| `RequestServer` (extends `DiskCache`) | requests and connections, and all the properties of the whole |
| `CacheLock` | what the cache promises: a readers-writer lock per key (abstract) |
| `CacheLifetime` | the freshness rules and one key's row over time |
| `TransportSocket` | two ends of an IPC socket, two threads each |
| `Resolver` | LibDNS as RequestServer uses it |
| `MemoryCache` | the memory cache, seen from one key |
| `FetchedDataReceiver` (extends `MemoryCache`) | the bodies of fetches, from the network's callbacks to the stream and the cache |
| `LoadCallbacks` | what a load promises its owner (abstract) |
| `RequestClient` | LibRequests in a client, with its owner and the server as it is seen from there |
| `BackgroundThread` | LibThreading's background thread |
| `ImageDecoder` (extends `BackgroundThread`) | the ImageDecoder process and its clients |
| `DataProvider` | LibMedia's provider threads |
| `PlaybackManager` (extends `DataProvider`) | the manager, its states and the sinks |
| `MCRequestServer`, `MCCacheLifetime`, `MCTransportSocket`, `MCResolver`, `MCFetchedDataReceiver`, `MCRequestClient`, `MCImageDecoder`, `MCPlaybackManager` | instances for TLC |
| `RequestServerProofs`, `CacheLifetimeProofs`, `TransportSocketProofs`, `ResolverProofs`, `FetchedDataReceiverProofs`, `RequestClientProofs`, `ImageDecoderProofs`, `PlaybackManagerProofs` | theorems |

The modules meet where the processes do. `RequestServer` takes a lookup to settle
or fail, or to lose its callbacks, as `Resolver` shows that it may.
`RequestClient` takes of `RequestServer` the order of messages that
`ClientProtocol` states, and the end that `EveryFetchEnds` states. It implements
`LoadCallbacks`, and the network's side of `FetchedDataReceiver` is what
`LoadCallbacks` allows. `ImageDecoder` and `RequestClient` take the transport to
be what `TransportSocket` shows: in order, with a loss only at the end.

### Turns

`calls` is what is left of the current turn: the C++ call stack, reduced to the
calls that change state, innermost first. `transition_to_state` followed by
`process()` is `Enter(r, s)`: it sets `m_state` and puts a call of the handler on
the stack. An event can be taken only when `calls` is empty (`Idle`). So each
handler is an action of its own that can be read beside its function, and a turn
is still atomic for everyone else. `Defer` is `deferred_invoke`: it appends a
turn to `queued_events`. A handler's call that changes state after another one
(headers, then body, then the transition) is a sequence of calls in the order of
the code, never a choice.

### State

| Model | Code |
|---|---|
| `state[r]` | `Request::m_state`, with `Unborn` and `Destroyed` around it |
| `readerRef`, `writerRef` | `m_cache_entry_reader`, `m_cache_entry_writer` have a value |
| `curl[r]`, `result[r]` | the transfer in the multi handle; `m_curl_result_code` |
| `buffered`, `sent`, `headersSent` | `m_response_buffer`, `m_bytes_transferred_to_client`, `m_sent_response_headers_to_client` |
| `notifying`, `piping` | `m_client_writer_notifier`, the reader's `m_pipe_write_notifier` is enabled |
| `resolving` | requests whose callbacks the resolver holds |
| `log[r]` | the messages sent to the client about r |
| `entry[r]` | the entry of `m_open_cache_entries` that r opened; it may outlive r |
| `marked`, `headed` | `m_marked_for_deletion`; the header has been written |
| `waiting[k]` | `m_requests_waiting_completion` |
| `index[k]`, `file[k]` | the row and the file of a key |

Bodies, headers, status codes, sizes and timing are abstracted to what control
depends on: whether a byte is buffered, whether one was sent, how the transfer
ended, whether the file is sealed, short or without a header. The status of a
stored response is chosen freely in `DiskCache`, since it depends on headers and
time; `CacheLifetime` computes it.

`Type::BackgroundRevalidation` requests exist from the start, one per fetch
(`Background`), and are born when `start_revalidation_request` makes them.

### Faults

`Faults` says what the environment may do in a run: a file of the cache cannot be
used (`disk`), no pipe, no curl handle, no address, a failed transfer, a client
that closes its pipe, stops a request or goes away, a user who clears the cache,
a lookup of a host that is being looked up already (`shared_lookup`), a crash.
A crash keeps the rows and the files, and of a file that was being written what
its buffer may have passed on. A new process starts from that.

Two behaviours are undefined in the code, and are choices in the model: the
callbacks of a lookup use a plain pointer to a request that may be gone, and so
do those of a reader whose request is gone. They do nothing or end the process.
A reader of a file that is too short calls itself until the stack is used up,
which ends the process (`PipeOverruns`).

### Freshness

`CacheLifetime` writes the functions of `Utilities.cpp` over header fields that
are a number, absent, or there without parsing, and lets one key live: it is
asked for, stored, revalidated, removed, while the clock runs. `born` is a
history variable: when the origin made, or last confirmed, what is stored. A
response may have been on the way for a while, and may have an Age; its Date is
right or missing. Origins whose clock is wrong are not modelled.

### Transport

`TransportSocket` has two ends. `io[e]` is where the I/O thread of an end is in
`io_thread_loop`, and `main[e]` where its main thread is. A thread's code is cut
into actions at each access to something the other thread or the other end may
change: looking at the send queue and loading the state are two steps, so are
the test and the wait in `wait_until_readable`, taking the messages and reading
`m_peer_eof`, retaining descriptors and queueing their message. What lies between
two such accesses is one step.

| Model | Code |
|---|---|
| `io_thread_state` | `m_io_thread_state` |
| `stream`, `fds` | the send queue's `m_stream` and `m_fds` |
| `retained` | `m_fds_retained_until_received_by_peer` |
| `unprocessed_bytes`, `unprocessed_fds`, `incoming`, `peer_eof` | the members of these names |
| `want_to_write`, `revents`, `batch` | locals of the I/O thread |
| `shutting_down` | a deferred `ConnectionBase::shutdown` |
| `wakeup`, `notified` | the two pipes have something to read |
| `wire`, `wire_fds`, `open` | the socket |

Bytes are units: the header of a message, its payload, an acknowledgement. A
write takes any number of them that fits, which stands for the limit of `peek`
and for short writes, and at most `MAX_TRANSFER_FDS` descriptors, which travel
with its first byte. After `poll` has reported room a write does not block: it is
at most 4096 bytes, and Linux reports room when most of the buffer is free. A
closed socket still lets the peer read what was sent; `poll` then reports both
data and the hang-up, and a write fails with `EPIPE`. A failing `VERIFY` ends the
process, which closes its end. Spurious wake-ups of the condition variable are
left out: the caller tests again. Which message a synchronous call waits for is
left open.

### Resolver

`cache`, `pending` and `socket` are `m_cache`, `m_pending_lookups` and `m_socket`;
`network` and `lost` are queries whose answers will and will not come. `lookup`
is one operator with a disjunct for each of the code's returns, called by a
request (`Ask`) or by the timer of a lookup (`Timeout`). A promise is named by the
call that constructs it, and has room for the callbacks of one caller, as
`Promise::when_resolved` has. A record knows which name it is about, so that an
answer that goes to the wrong lookup can be seen. `drawn` is a history variable:
which id was drawn for which name. An id is any that no lookup under way has, as
in the code, so ids come up again, for the same name or another.

### Loads and bodies

`RequestClient` is one client process, either WebContent with its ResourceLoader
or the browser with Autocomplete. `work[r]` is how far the server is, `channel` the
messages under way, `pipe[r]` what is in the pipe: the two are not ordered with
each other. A `Request` has the members of `InternalStreamData` that decide when
its owner is called. `ServerDies` loses any end of the channel, and closes the
pipes; `die` and `set_client` come in either order, as they do in the code.

`FetchedDataReceiver` has the receiver as a record with the names of its members,
and its functions as functions of that record. `VERIFY` marks the record broken
where the code would crash. The network, the consumer, queued tasks, deferred
callbacks and the cache's answer are actions of their own. The stream pulls when
it is read from, one pull at a time, which is what a high water mark of 0 means.
A reader may bring a BYOB view of a size in `Views`; `trimmed` is a history
variable, the bytes that did not fit.

### Image decoder

`BackgroundThread` cuts `background_thread_func` at each access to what other
threads change; its program counter is explained in the module. `ImageDecoder`
says what an action is: a decoder, and then the callback, deferred to the main
loop or, for a cancelled job, run on the spot. `die` is two steps, because the
error callback of a cancelled job runs against it without a lock; when both are
at the table of jobs that is undefined, and the process may crash (`DataRace`). A
client is blocked in its synchronous call until the response has come, and
registers its promise then.

### Media

`DataProvider` is the thread of one track with the main thread's calls into it,
one step for each section under the mutex. `handle_seek` is called from three
places, and `caller` says which. Times are numbers: the n-th seek of the user
goes to 2n, and a fast seek ends at a keyframe at most one away. `position` is
the time that the last seek has taken the track to. `m_queue` is the length of the
queue, or `m_queue_max_size` when it is longer, as it can be after a seek. A seek
that finds its frame replaces the queue; one that comes to the end of the stream
keeps it. The audio device takes blocks in every state, since it is suspended from
another thread and some time later.
`PlaybackManager` has the state handlers, the data of the seeks that are still
referred to, and what the sinks take. The control of AudioDataProvider is that of
VideoDataProvider without modes and without the callback for a full queue.

## 3. Runs

| Run | Question | Result |
|---|---|---|
| `all_faults` | do locking, wake-ups, references, the client's protocol and the abstract lock survive every fault? | holds, 572 426 states |
| `liveness` | does every fetch end, every request go, every entry close, if disk and network fail and the cache is cleared? | holds, 65 033 states |
| `uncached` | does a fetch without a cache end whichever step fails, beside a preconnection? | holds, 5 134 states |
| `lifetime` | is what is called fresh fresh, and does a status only get worse? | holds, 86 247 states |
| `revalidation` | is there something to send with a revalidation? | violated |
| `transport` | do messages and descriptors get through untouched, does every message arrive unless somebody closes, and does a close come back? | holds, 153 898 states |
| `resolver` | is every request told once, and the truth, whatever becomes of packets, records and sockets? | holds, 415 728 states |
| `fetch_body` | is a body that is closed or stored whole, and does a reader come to its end? | holds, 347 939 states |
| `request_client` | do loads get their callbacks as promised, and end, if the server dies? | holds, 125 325 states |
| `image_decoder` | is every image answered for, and does the process end, if clients exit and decoders crash? | holds, 935 046 states |
| `media` | do tracks and clock agree after seeks that overtake each other, and do seeks end? | holds, 1 159 924 states |
| `stop_request` | are there rows only for entire responses? | violated |

The properties of `all_faults`:

* `WriterIsExclusive`: no entry of a key is open beside one that is being
  written, those of dead requests included;
* `RevalidationOwnsTheKey`: a live request that revalidates has the only open
  entry, so the `VERIFY_NOT_REACHED` in `on_data_received` is not reached, and the
  key of a live writer has no row;
* `WakeupsAreExact`: a request in WaitForCache is on the list of a key that is
  open, or its resumption is under way; and since `notify_request_unblocked`
  restarts a request without looking, it finds it waiting, with no entry and no
  transfer;
* `ReferencesAreLive`: what a request dereferences is there;
* `TurnReturns`: the calls of a turn run to its end, no `VERIFY` stops them;
* `ClientProtocol`: the order of the messages to a client. Headers come once, by
  `m_sent_response_headers_to_client`, although a comment in Fetching.cpp expects
  them twice (see below);
* `ReadersKeepTheirFile`: an open file is never rewritten, at most unlinked;
* `ImplementsLock`: the cache refines `CacheLock`. The mapping calls an entry
  exclusive if it is a writer, or the reader of a live request that revalidates.
  A request that dies while it revalidates downgrades its lock to a shared one:
  that is what the code does, and why the abstract lock has `Downgrade`.

`Inv` of `lifetime`: the types, and that the times of a row are in order, which
`FreshIsYoung` rests on. The properties of `transport` are equations over the whole path
of a message. `InOrder`: what the main thread of the other end has got, what is
queued for it, and what is in the byte stream, put together, are the messages
posted so far, and those that have left the stream have their own descriptors.
`Inv`: what is retained, less what acknowledgements on their way account for, is
what the peer has not taken, what is on the socket, what is queued and what is
about to be. Its other part, `StoppedUnlessFlushing`, says when the `VERIFY` at the end of
`io_thread_loop` (`TransportSocket.cpp:131`) can fail, as it can: only in a
`close_after_sending_all_pending_messages` whose state has taken the place of the
`Stopped` that the I/O thread stored when its peer went. `EveryMessageArrives`
excepts the descriptors that are stranded (`Stranded`), and so does `CloseReturns`: a
close at once comes back, and so does one that sends first, unless its peer has gone
and that `VERIFY` ends the process, or its peer stays and it waits for stranded
descriptors.

The others:

* `resolver`: `Inv`, a result waits for its answer exactly while the lookup with
  its id is under way; `CalledOnce`, for a caller whose query has not shared an id;
  `AnswersAreAboutTheName`, what callbacks are given is about the right host, or
  one whose query has had the same id; `AnswersAreCurrent`, it has not expired;
  `CallerHears`, everybody is told something, except in the two cases described
  below;
* `fetch_body`: `Inv`, no `VERIFY` of the receiver fails; `BodiesAreWhole`, a closed
  stream has given out every byte the network brought, but what the reader's own
  views were too small for, and a body in the memory cache is the whole body of a
  fetch that ended well; `BodyEnds`;
* `request_client`: `Inv`, the `VERIFY`s hold, and an owner that is told of success
  has had all the data; `ImplementsCallbacks`, refinement of `LoadCallbacks`, in
  which headers come once because the server sends them once (`ClientProtocol`);
  `SentLoadEnds`;
* `image_decoder`: `Inv`, the jobs that connections keep are those under way;
  `SleepsOnlyWhenIdle`, the background thread has no lost wake-up; `OwnOutcome`;
  `DecodeIsAnswered`, but for a client that is in a call when the decoder dies
  (`Stuck`: nothing guarantees that the call is woken); `ProcessEnds`;
* `media`: `Inv`, a read is aborted only for a seek that is still to be taken up;
  `InSync`, outside of seeks the tracks are where the clock is, and no
  `as<SeekingStateHandler>` fails; `PlaysAsAsked`; `SeekEnds`, except for seeks that
  fail and for the lost wake-up described below.

Two runs state a sentence or an assertion of the repository and show a behaviour of
the code that contradicts it; `findings` in `PROJECT.json` quotes them.

* `stop_request`: rows are made once the entire entry has been written. The
  destructor of a request flushes what there is as if it were everything.
* `revalidation`: `VERIFY` at `Request.cpp:421`. A response with a Last-Modified that
  does not parse and no ETag is to be revalidated, and has nothing to send:
  `cache_lifetime_status` asks whether the field is there,
  `RevalidationAttributes::create` whether it parses.

The models show more behaviours that a reader of the code may not expect. No run
is kept for them; properties that would fail because of one name it as an
exception, or the fault is left out of their run.

RequestServer and caches:

* A lookup that fails during a revalidation leaves the reader open
  (`Request.cpp:498`): requests that need the key to themselves wait for ever.
* A second lookup of a host replaces the callbacks of the first
  (`Resolver.h:479`), whose request never leaves DNSLookup.
* The row of a response is created before the end of its file is flushed
  (`CacheEntry.cpp:202`); a crash in between leaves the row.
* A write to a client that has hung up leaves bytes in the buffer, and the
  request, which curl has been told to abort, is never completed.
* A background revalidation whose transfer fails is stored as far as it came.
* `Fetching.cpp:2154` says: "RequestServer will send us the response headers twice,
  the second time being for HTTP trailers." It sends them once
  (`Request.cpp:601`), as `ClientProtocol` has it: the comment is out of date. Its
  handler drops a second set of headers, so it is safe either way.
* Without a Date, Expires is counted from the time of asking, not of receipt.
* After a 304 the age is still counted from the first response.
* The retry of a lookup finds the lookup itself under way and returns
  (`Resolver.h:558`, `479`): a lost packet is not sent again, and does not time out.
* An id that comes up again while answers to its last lookup are under way, or its
  result is still in the cache, mixes up two hosts (`Resolver.h:496`, `644`); and a
  query that could not be written, whose promise was rejected, may be answered.
* `MemoryCache` knows a pending entry by its URL alone: of two fetches at once, the
  body of one may be joined to the headers of the other.

Transport:

* The I/O thread sets its state and broadcasts without the mutex
  (`TransportSocket.cpp:133`): both can fall between the test and the wait of
  `wait_until_readable` (`:199`), and the synchronous call is not woken. A client
  that is blocked in one cannot be given a new server either.
* The send queue is looked at before the state is loaded (`:82`): a message posted
  in between, and the close after it, is not sent by
  `close_after_sending_all_pending_messages`.
* If the peer of a transport goes while `close_after_sending_all_pending_messages`
  is called, the `VERIFY` at the end of `io_thread_loop` fails (the disjunct of
  `FinishThread` that ends in `crashed`).
* A write that meets `EPIPE` ends the I/O thread without a word to the main
  thread, and with what the peer had sent unread.
* Descriptors that are left when the last byte has gone wait for another message; a
  close that is to send them first does not come back while the peer stays.
* Messages that are read together with the end of the peer are not handled if the
  main thread drains between the two.

Clients:

* A load that is begun after the server has died and before there is another is
  neither failed nor kept for later (`ResourceLoader.cpp:57`).
* If `set_client` comes before `die`, the loads and images of the old client are
  never ended.
* Autocomplete's deferred call drops the request that `m_request` has by then, which
  may be the next one; `Request::stop` after the death of the server crashes.
* Data may come before the headers, through the pipe.
* A BYOB reader whose view is smaller than what has come loses the rest.
  `copy_unpulled_bytes` has counted all of it as pulled, and `pull_from_bytes` skips
  the step that would give it back: "No caller actually wants its bytes trimmed"
  (`ReadableStream.cpp:307`). `BodiesAreWhole` counts these bytes in `trimmed`.
* The error callback of a cancelled decoding job runs against the main thread
  without a lock.

Media:

* A provider's thread looks for a seek and then waits, without the mutex in between
  (`VideoDataProvider.cpp:430`, `490`): a seek that comes there is not noticed until
  something else wakes the thread.
* Buffering ends when the queue is full; if fewer frames are left it does not end.
* A seek that ends at the end of the stream leaves what the queue held before it.

### Bounds

One key and two fetches, with a background request each, are four requests that
contend: enough for two readers and a writer, for a reader that waits behind a
revalidation while another holds it, and for an entry whose owner is dead while
two others act. Each fetch is made once per run. Keys share nothing but the
event loop, so a second key would add interleavings of turns only. Requests that
bypass the cache, and Connect requests, touch no shared state but the resolver,
and have a small instance of their own. There is no symmetry: the two clients
are told apart in temporal properties. No counter is capped: lists and logs are
bounded because requests are.

In `CacheLifetime` the clock runs from 30 to 34 (`MaxTime`): max-age 2, Expires 33
and a Last-Modified of 12, which gives a heuristic lifetime of one second and
then two, are all crossed; answers may take any time up to that and be one
second old.

In `transport`, one end posts two messages and the other sends their
acknowledgements; the first message has two descriptors and a write carries one
(`MAX_TRANSFER_FDS`, 64 in the code), so that bytes overtake descriptors and some may
be left behind, and the socket holds two units (`Capacity`), so that messages are
cut. One end may close with what is pending sent, the other at once. That both ends
post is left to the theorems, which hold for any outboxes.

In `resolver` two callers contend for one host, and a third looks up another or an
address; two ids are enough for two lookups at once, and so few that they come up
again for another host, and for the same. `fetch_body` has two fetches of one URL, one
of which may be stored, and bodies of up to three bytes, in up to three pieces: one
read, one in a task, one in the buffer. A read is without a view, or with one that
holds a byte.
`request_client` has two requests, so that one can be stopped, overtaken or dropped
for the other, with up to two writes each. `image_decoder` has the browser, which
keeps the process alive, and a client with three images, one of them invalid: one
can be running, one queued and one deferred when the client goes.

`media` has two seeks in two modes and queues of one frame (four in the code): full
and empty are the lengths that matter. A fast seek backwards has the control of one
forwards without the restart, and is left out of the run for its time.

Runs do not check for deadlock, but for `media`: a server with no request left
stops, and so do two ends that are closed or have nothing to say, a resolver
nobody asks, and a decoder whose clients are gone.

### Fairness

`Fairness` in `RequestServer`: the loop goes on with a turn (`Turn`) and takes
queued events (`dispatch`), which is what `ThreadEventQueue::process` and
`pump` do; a descriptor that stays ready is reported (`PipeWritable`), which is
what `poll` does. Of the environment it assumes that transfers end and lookups
settle (`TransferOrLookupEnds`), and that clients read their pipes
(`PipeDrained`). curl's timeouts justify the first. That lookups settle is an
assumption about the DNS server: `Resolver` shows what happens otherwise. Each of these can
happen only between turns, hence strong fairness; it is stated for all requests
together. Clients are not required to make requests, and no fault is fair.

In `TransportSocket` the operating system schedules both threads of both ends
(weak fairness of `IOThread` and `MainThread`), and the event loop takes up the
read hook and deferred calls. Nobody has to post, call or close (`Owner`).

The other modules follow the same rule: event loops take what is there (`poll`
reports sockets and timers, deferred calls and tasks run), threads are scheduled,
and of the environment only what something else justifies is fair. `Resolver`:
timers fire and answers that are not lost come. `FetchedDataReceiver`: a consumer
that reads goes on reading, and nothing is asked of the network. `RequestClient`:
the server ends what it works on, which is `EveryFetchEnds`. `ImageDecoder`: a
decoder returns, and so does a synchronous call while the process runs; that a call
notices the death of the process is not assumed. `PlaybackManager`: decoding gets
somewhere, data comes, and what is decoded between two looks for a newer seek has an
end. Nobody has to ask, play, seek, exit or crash.

`RequestClient` and `ImageDecoder` assume that an event loop hears of the end of a
connection. The transport tells it when a read meets the end; a write that meets
`EPIPE` first ends the I/O thread without telling it, and then `SentLoadEnds`,
`DecodeIsAnswered` and `ProcessEnds` wait for whoever replaces the connection.

## 4. Theorems

For every set of clients, requests, keys, hosts and faults that satisfies
`RequestAssumption` and `CacheAssumption`:

* `TypeCorrectness`: `Spec => []TypeOK`. One lemma per group of handlers, resting
  on lemmas about what `open_entry`, `create_entry`, `Resumption`, `CloseEntry`
  and `Terminate` return or preserve. `TypeOK` is inductive as it stands.
* `WritersAreExclusive`: `Spec => []WriterIsExclusive`. The inductive invariant is
  `TypeOK /\ WriterIsExclusive`. The lemma `EntriesChange` says that a step closes
  one entry, opens a reader where there is no writer, opens a writer where there
  is nothing, forgets everything, or leaves the entries alone; the theorem follows
  from that alone. The two places where an entry becomes a writer are
  `handle_initial_state`, by the check in `create_entry`, and
  `ReplaceStoredResponse`, whose guard stands for the `VERIFY_NOT_REACHED`; that
  this guard is never in the way is `RevalidationsOwnTheirKeys`, below.

* `TurnsAndRequestsFit`: `Spec => []IInv`, the invariant the others rest on. None of
  them is inductive, because a handler trusts whoever put its call on the stack or
  in the queue, turns ago. So `IInv` says what the calls still to come may find.
  `Compatible` relates the calls of one turn (a request is driven by one call at a
  time, its entry is closed once, it does not end in a turn that drives it),
  `QueueOK` the queued turns (which calls may be queued, and which only once), and
  `Fits` a call to the state of its request. `EntryOK` and `TransferOK` say how state,
  entry, references, transfer, lookup and notifiers of a request go together,
  `WaitingOK` that a waiting list has everybody once, waiting or gone, and not being
  resumed already. The proof has one lemma about steps in general (`Step`, and
  `CallStep`, `EventStep`, `LoopStep` for calls, events and the queue), and one lemma
  per handler that meets its conditions.
* `WakeupsAreExactAlways`: `Spec => []WakeupsAreExact`, and `ReferencesAreLiveAlways`:
  `Spec => []ReferencesAreLive`, which follow from `IInv`.
* `RevalidationsOwnTheirKeys`: `Spec => []RevalidationOwnsTheKey`, from `KeysInv`,
  which adds `KeysAreLocked`: nobody has an entry beside an exclusive one. An entry
  is exclusive as in the refinement mapping. `LocksChange` lists what a step does to
  entries and lives together: close, open beside shared entries, open alone,
  replace, die, forget.
* `FilesOfReadersAreKept`: `Spec => ReadersKeepTheirFile`. A file is written by whoever
  is alone with its key (`StoreChanges`), so a reader that stays has it unchanged.
* `CacheImplementsLock`: `Spec => ImplementsLock`. Each case of `LocksChange` is a step
  of the lock: release, acquire shared or exclusive, downgrade, release all, or
  nothing. `KeysAreHeldByOne`: `Spec => []Lock!Exclusion`, by the refinement, since
  `CacheLock` has that property.
* `ClientsAreToldInOrder`: `Spec => []ClientProtocol`. `ClientsOK` says in which states
  nothing has been said of a fetch yet (`Unheard`; a revalidation keeps silent until
  its outcome is known) and in which something has (`Heard`), that
  `m_sent_response_headers_to_client` is right as long as the request lives, and that
  `finish` runs after the headers.
* `HandlersFindWhatTheyVerify`: `Spec => []NoVerifyFails`, which is what `TurnReturns`
  comes down to without `ENABLED`: the call a turn has come to is an operation of a
  request or the end of a connection (the type of `calls` says which goes with
  which), a request whose state is handled is alive, and `finish` finds a result
  code. The handlers have no other condition that can fail. The invariant
  `ResultsOK` adds to `IInv` that a fetch has its result code from when it is
  complete: of the paths to `Complete`, `settle` and the end of a stored body set it,
  the drained buffer looks at it, and the rest are not taken by fetches.
  `m_curl_result_code` goes only with the request, in a turn that finishes nothing.

For every set of ends, messages, numbers of descriptors, outboxes and capacities that
satisfies the assumptions of `TransportSocket` (`TransportSocketProofs`):

* `MessagesInOrder`: `Spec => []InOrder`, and `DescriptorsRetained`: `Spec => []Inv`.
  Neither is inductive. The invariant adds `DescriptorsFollow`: the descriptors on
  their way from an end (with the reader, in the socket, in the send queue) are those
  of the messages on their way from it, in the same order, although bytes and
  descriptors are cut up apart; `BatchInDelivery`: what was read is handed over before
  the next read; and `PostedFromOutbox`. Most steps are `Calm`: they move bytes,
  messages or descriptors on, not past each other, and leave what has come and what
  is under way as it is, taken together. Three are not: retaining the descriptors of
  a message, `post_message`, and a read, which concerns the end that reads, and its
  peer, whose descriptors it acknowledges.
* `VerifyFailsOnlyWhenFlushing`: `Spec => []StoppedUnlessFlushing`. The `VERIFY` at the
  end of `io_thread_loop` (line 131) can fail, and this says in which situation only:
  the main thread has asked for pending messages to be sent after the I/O thread had
  decided to stop.

What the messages, descriptors and acknowledgements in a sequence are is defined by
recursion, so these proofs need induction. The library's induction theorems have an
operator as a parameter, which the provers cannot instantiate. `Least` and
`SeqInduction` state induction for a set instead (the sequences that satisfy what is to
be proved), from the fact that `<` is well-founded on the natural numbers;
`SeqRecursion` shows that a function defined so exists. From there on only the laws
`MessagesInConcat`, `FdsNeededConcat` and `AcknowledgedInConcat` are used: each of the
three distributes over concatenation.

For every set of responses, updates and ages, and every start and end of the clock:

* `FreshnessIsSound`: `Spec => []FreshIsYoung`. `FreshIsYoung` is not inductive: it
  needs `TimesAreOrdered`, that the times of the row are not ahead of the clock or
  of the request under way, and that `request_time <= born + age_value(stored)`,
  i.e. the Age field makes up for what happened before the request. That the last
  survives a 304 is why stale times in the row are a waste and not a danger.
* `Decay`: `Spec => StatusOnlyDecays`. In a second the age grows by one and the
  lifetime by at most one, the heuristic one included.

* `Invariance`: `Spec => []Inv`, which is `TypeOK` and that `TimesAreOrdered`. That a
  response under revalidation has something to send is not a theorem: the run
  `revalidation` refutes it.

For every set of callers, names and ids, and every combination of faults
(`ResolverProofs`):

* `LookupsAndResultsMatch`: `Spec => []Inv`, whichever ids are drawn. The
  strengthening `Base` adds that a result which is not done is empty and not
  valid, and that a lookup under way has never been repeated and is of no literal:
  `lookup()` finds it under way each time its timer calls.
* `CalledBackOnce` (`CalledOnce`), `ConfusedOnlyByIds` (`AnswersAreAboutTheName`) and
  `ToldWhatIsCurrent` (`AnswersAreCurrent`), without an assumption on ids. The code
  draws random 16-bit ids and compares them with the lookups under way only; a late
  answer to an id drawn again settles another lookup. So the theorems say what
  follows from an id that came up twice, and that nothing else leads to it. The
  invariant adds `IdsOK` (the id of a result or of a message has stood for its name,
  and for that of every record that came in under it), `PendingOK` (a lookup has a
  promise of its own, unsettled while its timer may still settle it, or an answer,
  unless its id has come up before) and `CallerOK` (a caller has callbacks with one
  promise at most).

For every number of fetches, body size and set of BYOB views
(`FetchedDataReceiverProofs`):

* `NoVerifyFails`: `Spec => []Inv`. Per fetch, `FetchOK` says when a pull is under
  way (`Pull`: its promise waits for bytes, which is only when there are none, or
  for its task) and how far the receiver is as seen from the network, the buffer
  and the stream (`Life`).
* `CachedBodies`: `Spec => []CachedBodyIsWhole`, for any views.
* `WholeBodies`: `Spec => []BodiesAreWhole`, for any views. Bytes are in one place
  (`BytesAddUp`): with the consumer, in the task, still to be pulled, or trimmed
  because a view of the consumer's own was too small.

For every number of requests (`RequestClientProofs`):

* `ClientIsSafe`: `Spec => []Inv`. The invariant follows the messages in the
  channel: those about one request keep their order (`Ordered`), each is about a
  request that the client still has and the server has come as far with
  (`MessageOK`), the server works on requests that it has told of (`WorkOK`), and
  what it wrote is in the pipe or with the owner (`RequestOK`).
* `ClientImplementsCallbacks`: `Spec => Callbacks!Spec`, that is
  `ImplementsCallbacks`: every step keeps the invariant and is, for each request,
  a step of `LoadCallbacks` or no step (`StepKeeps`): headers at most once, data
  before or after them, the end once and after everything, success only after the
  headers.

For every set of clients and images (`ImageDecoderProofs`):

* `NoWakeupIsLost`: `Spec => []SleepsOnlyWhenIdle`. The invariant `SleepOK` says the
  same of the thread from the moment it decides to wait: the mutex it holds then
  keeps `enqueue_work` out.
* `JobsAreKept`: `Spec => []Inv`, and `PromisesAreKept`: `Spec => []OwnOutcome`, which
  says what a promise may be resolved or rejected for. An
  image is in one place at a time on its way from the request over the queue, the
  thread and the main loop to the reply (`PlaceOK`), what is said of it is what the
  decoder made of it (`OutcomeOK`), a connection's jobs are those under way
  (`JobOK`), and a client has one call under way at most (`ClientOK`).

For every number of seeks and every set of their modes (`PlaybackManagerProofs`):

* `PlaysOn`: `Spec => []PlaysAsAsked`, from `PlayInv`, which concerns the manager
  alone.
* `AbortsAreForSeeks`: `Spec => []Inv`, and `TracksAreInSync`: `Spec => []InSync`. The
  invariant orders a provider's ids (processed, taken up by the thread, latest:
  `ProviderOK`), says of a deferred outcome where the provider is and was to go
  (`EntryOK`), which seek a completion handler is for (`HandlerOK`), and that the
  tracks which have completed the latest seek stay where they are (`DataOK`).
  `DataProviderAssumption` says that `None` is neither a number nor a seek.

Only model-checked: everything with fairness, and `TurnReturns`, which says
`ENABLED`: the prover handles neither. That `NoVerifyFails` implies `ENABLED Turn` is
seen by reading the actions: each has a disjunct for every case that is left.

## 5. Not modelled

RequestServer: `estimate_cache_size_accessed_since` and `last_access_time` (they
decide what clearing removes; the model lets it remove any rows), DiskCache's
testing mode, the quit of the loop when the last client goes (the model's server
stays, with nothing to do), certificates, websockets, timing information, and the
numbers of file descriptors. Header values below zero (`max-age` is parsed as a
signed number).

Transport: `release_underlying_transport_for_transfer`, and a read hook that is set
late. Resolver: DNSSEC validation, `when_socket_ready`, records other than A and
AAAA. Clients: buffered requests, cache sizes, certificates, websockets; of
Fetching.cpp what is not about bodies. Image decoder: `cancel_decoding`, which no
client sends. Media: start and end of the threads (a thread in its error state does
not look at the flag that ends it), the switching of tracks, audio devices,
demuxers and decoders.

The rest of the repository is by far its largest part: the engine (LibWeb, LibJS,
LibWasm, layout, CSS), parsers, codecs and cryptography. It is sequential
computation over large data, specified by the web standards and tested by their
suites; a model of it would be a transliteration. Of what runs concurrently or
survives failures, websockets, the process manager of LibWebView, LibGC and the
message ports of LibWeb are left. `PROJECT.json` lists all components with the
reason for each that is left out.

## 6. Plan

1. The transfer of a socket to another process, message ports, and websockets.
2. Proofs for what these add, and for the part of `CloseReturns` that needs no
   fairness: in which states of the I/O thread a close may be waiting for it.
