# TLA+ models of skypeernet

skypeernet is a peer-to-peer network: peers and a tracker exchange UDP packets, share files whose
index is kept in chains of mined blocks, and tunnel TCP connections. Each program is one
single-threaded libev loop, plus a miner thread in the peer. This directory models it in TLA+,
checks the models with TLC on small instances, and proves their main safety properties with TLAPS
for all values of the constants.

## The system

| part | source | state | module |
|---|---|---|---|
| send queue, tasks, bandwidth | `net.c` `data.c` `peer.c` `task.c` `traffic.c` | list `send.nbl` with a hash index on (pidx, tidx), list `send.instant`, files being sent, bytes of this second, watchers | `SendQueue`, `Outbox` |
| reassembly | `packet.c` `payload/payload.c` `payload/ack.c` | message counters; receive cache | `Transport` |
| tunnelled streams | `tunnel.c` `endpoint.c` `packet.c` | connections, each with a queue of numbered parts | `TcpStream` |
| sockets | `tcp/src/async_server.c` `async_client.c` `ringbuffer.c`, `tunnel.c` `endpoint.c` | servers, clients, their watchers and ring buffers | `Sockets` |
| part files | `payload/file.c` `os.c` `task.c` | part files on disk | `FileParts` |
| jobs | `job.c` `file.c` `mpeer.c` | jobs with chunk states, chunk files, the saved list | `Jobs` |
| own chain | `distfs.c` `block.c` `transaction.c` `mpeer.c` | pending transactions, chain, block file, flags, the miner thread | `Mining`, `BlockOwner`, `Blocks` |
| other chains | `root.c` `group.c` `block.c` `mpeer.c` | a chain per owner, in memory and on disk | `Chains`, `Blocks` |
| peers | `world.c` `whitelist.c` `payload/announce.c`, `auth*.c`, `ping.c`, `pong.c`, `query*.c`, `mtracker.c` | lists of peers at tracker and peers | `World` |
| API | `api.c` `os.c` | two named pipes and their buffers | `ApiPipe` |

They interact along one path. An operation of the application becomes a message, `data.send` cuts
it into packets and puts them in the send queue, the loop transmits them again and again until they
are acknowledged or given up, the receiver puts the message together and calls a handler; handlers
change jobs, peers, chains and tunnels, and send further messages. Files go the same way, in parts
that a task feeds to the queue as it empties.

The modules rest on each other the same way. `Outbox` is what `SendQueue` promises, and the queue
of a sender in `Transport`. What arrives according to `Transport` (late, repeated, reordered or never)
is what the networks of `TcpStream`, `FileParts`, `Jobs`, `Chains` and `World` may do. `BlockOwner` is
what `Mining` promises, and the owners of `Chains` behave like it. A file joined by `FileParts`
is a chunk in `Jobs` and a block file in `Chains`. A part that `TcpStream` passes on is a number of bytes
given to a client in `Sockets`.

What makes the code hard: freeing a packet re-enters the list it is freed from; attempts are counted
whether or not anything was sent; ACKs come late, twice or never; counters start at 0 in every
process and are all that identifies a message; the cache is keyed without the sender; the miner
thread shares lists with the loop under a mutex that covers only two flags; files survive a process,
queues and counters do not; a handler may free what the next event of the round is for.
`PROJECT.json` lists these hazards with the line where each one bites.

## Modules

| module | contents |
|---|---|
| `SendQueue` | the outgoing side of one process: list, index, one-shot list, tasks, bandwidth, watchers |
| `Outbox` | what `SendQueue` promises; `SendQueue!ImplementsOutbox` states the refinement |
| `Transport` | senders, network and receiver: messages cut into packets, reassembled, acknowledged |
| `TcpStream` | TCP connections tunnelled through file tasks: numbering, the queue of parts, dispatch in order |
| `Sockets` | tunnels, their clients and endpoints as sockets: watchers, events, buffers, freeing |
| `FileParts` | files sent in parts, kept as part files, joined |
| `Jobs` | download jobs of one peer, with the disk and the owners of the chunks |
| `Blocks` | blocks and chains: hashes, validation, JSON, compare and merge, as operators |
| `Mining` | the event loop and the miner thread of one peer, its chain and block file |
| `BlockOwner` | what `Mining` promises; `Mining!ImplementsOwner` states the refinement |
| `Chains` | owners and one peer that collects, merges, saves and loads their chains |
| `World` | tracker and peers: who lists whom, authentication, pings, shadows |
| `ApiPipe` | a peer and an application over two named pipes |
| `MC*` | model values and instances for TLC |
| `SendQueueProofs` | the theorems about `SendQueue`, its refinement of `Outbox` among them |
| `NetworkProofs` | the theorems about `Transport` and `Sockets` |
| `PeersProofs` | the theorems about `World` and `Jobs` |
| `FilePartsProofs`, `TcpStreamProofs`, `ApiPipeProofs` | the theorems about `FileParts`, `TcpStream` and `ApiPipe` |
| `MiningProofs`, `ChainsProofs` | the theorems about `Mining` and `Chains` |

`NetworkProofs` and `PeersProofs` extend two components each, so `Transport`, `World` and `Jobs` say `TransportSpec`,
`WorldSpec` and `JobsSpec` for their specifications, and likewise for the other names that would clash. Where
only a part of a proof module needs the library's facts, an `INSTANCE` in front of that part brings them in.

### SendQueue

`nbl` and `instant` are functions from item ids, given in increasing order, to items; since items are
only ever appended at the tail, the order of the ids is the order of the list. `index` is the hash
table of the column `pidx_tidx`. `pass` and `cursor` are the walk in progress (`list.map` or
`list.clean`) and the next item it has saved. Callbacks do not interleave: an action that stands
for a whole callback requires `Idle`. The two write callbacks are taken item by item, because freeing
an item runs `task.update`, which appends to the list being walked.

| action | code |
|---|---|
| `SendDirect` | `payload.send` of a one-packet message by any part of the program |
| `TaskAdd`, `TaskCancel` | `task.add` (with the file a tunnel writes first), `task.cancel` |
| `ReadAck`, `ReadData`, `ReadProxy`, `ReadProxyOneShot` | `read_cb` for an ACK, a packet for this peer, a packet to relay, an ACK, PING or PONG to relay; each begins with `net.receive` and its two bandwidth updates |
| `SendOneShot` | a PING of the timer `peer_check`, a PONG |
| `Retry` | the timer `net.retry` |
| `WriteStart`, `Dispatch*`, `WriteDone` | `write_cb`: `net.dispatch` of `nbl`. An item expires, is skipped by the send table, meets the upload limit or is sent |
| `Instant*`, `Purge`, `PurgeDone` | `write_instant_cb`: `net.dispatch` of `instant`, then `list.clean` |
| `SendWindowEnds`, `ReceiveWindowEnds` | a second passes |

`TaskUpdate(q, x, ts, fs, drop, ok)` is `task.update` as called from inside a deletion: `q` and `x`
are list and index at that point, `drop` the keys the caller removes from the index afterwards, and
`ok` whether the call succeeds. A failed read (`ResumeFails`) makes `nb_clean` and then `column_del`
return early, so `drop` stays in the index. `wrecked` records that a freed or unlinked item was used;
the model stops there. `past` records the rare events that the properties have to except:
`duplicate` (a key submitted while it was indexed), `readfail` (a task whose file is gone), `cut` (the
upload limit ended a pass).

What the model made plain about the code:

* `traffic.update` never counts a packet that is over the limit, so the count stays below the
  limit, the probe in `net.receive` never refuses, and reading is suspended only until the next tick
  of the timer (`ReadsAreFresh`).
* Two tunnel tasks with the same data for different hosts share one file; the first to finish deletes
  it and the second can never be read. It stays at the head and every later task waits behind it.
  From then on an ACK leaves a dangling index entry, and a second copy of that ACK unlinks a freed
  item (`NoUseAfterFree` excepts `readfail`).
* Relayed packets are indexed under their author's numbers. When these collide, the older packet
  stays in the list for ever (`IndexAgrees` and `LeavesForCause` except `duplicate`).

Left out: time does not pass within a callback; bytes are counted in packets; `malloc` and
`api_taskdump` do not fail; the counters do not wrap at 2^32; shutdown is not modelled. Messages that
handlers send are `SendDirect` steps of their own. `Bumped` stops counting attempts above
`SendRetry + 1`, where the value can no longer matter.

### Outbox

A map from keys to attempts, the next number, and the keys ever transmitted. Packets get fresh
numbers, are tried, and leave when transmitted or exhausted; a departure may be filled at once.
The refinement maps `queue` to the attempts of the items the index finds. It is for a peer that
relays nothing: relayed packets bring numbers of their own.

### Transport

Any number of senders and one receiver. A packet is a record with its sender, the run of that
sender's process, `gidx`, `pidx`, offset and chunk count; content is the identity of the packet. The
receiver never looks at sender or run, as the code does not. `net` and `acks` only grow: any packet
on the wire may arrive at any time, any number of times or never, which is loss, delay, repetition and
reordering at once. The queue of a sender is the `Outbox` reduced to what others can notice.

| action | code |
|---|---|
| `Send`, `SendElsewhere` | `data.send` to the receiver, or to a third party, which moves the counters |
| `Transmit`, `GiveUp` | `net.dispatch` |
| `ReadAck` | `ack_read`: the packet queued under the number leaves |
| `Receive` | `payload.recv`: find or create the entry, drop a known number, record, acknowledge, and on completion call the handler; if the handler fails the entry stays |
| `Restart`, `Crash` | a process ends and starts again |

`seen`, `handled`, `mixed`, `acked` and `expired` are histories. `mixed` holds the `gidx` whose
entry was met by packets of two messages. There the code can hand a handler a mixture, or acknowledge
a packet and drop it, so the properties except exactly those.

Left out: payload bytes and the packet hash (a damaged packet is a lost one); relays;
`tidx`, which reassembly does not use; the ACK's own way through the cache of the sender, where it
occupies an entry of one packet. An ACK that meets a foreign entry there is a lost ACK in this model.

### TcpStream

Two peers, called by what they hold: the tunnel with its local clients, the endpoint with its
connections to the service. `conn[e][f]` is the connection with `cidx` `f` at end `e`: `last` is
`base.tcp.tidx`, `queue` is `base.tcp.packets` with the newest part first, `done` the parts of it marked
dispatched. What is read becomes a task (`tasks`), gets the next number of its peer (`tidx`), and is
submitted when the send queue has room; `net` only grows, as in `Transport`.

| action | code |
|---|---|
| `Read` | `async_read`, then `tunnel_data` or the endpoint's `response`: `task.add` and `task.update`; a chunk whose file already waits adds nothing |
| `Resume` | `task.update` when a packet leaves the send queue |
| `OtherTask` | `task.add` for any other file, which takes a number of the same counter |
| `Arrive` | `tunnel.response`, and `endpoint.request` for an endpoint that is open: `tcpsent`, `tcpsend`, `tcpdispatch` |
| `Request` | `endpoint.request` that opens the endpoint and sends its first part |
| `Accept`, `Shutdown` | `server_async_client`; `client_error` and `response_error` |

`tcpdispatch` calls itself until nothing follows. `Reach` is the number where this ends, `Dispatched` the
connection afterwards, and `Passed` what went to `gc_gen_ev_send`, in order. `log` is a history with
an entry for every connection ever opened: what was read and passed on, which numbers arrived,
whether a chunk was taken for one that waited (`merged`) and whether the full queue dropped a part that
was still to come (`lost`).

What the model made plain about the code:

* The stream at the other end starts with whichever part arrives first; parts with smaller numbers
  that come later are never passed on. Hence the first exception in `StreamIsPrefix`.
* All tasks of a peer share one counter. A file sent, or a second connection, in between leaves a gap
  in the numbers of a stream, and the stream stops there. It never skips (`InOrder`).
* Two equal chunks read in a row may become one task. The stream then lacks the second.
* An answer finds its client by descriptor. When the client has gone and the descriptor is used
  again, the new client gets the answer.

Left out: several tunnels; a connect that fails at once; a file that cannot be
written or read (`SendQueue` has this); chunks are no larger than a part.

### Sockets

`tunnels` and `clients` are sequences of all that were ever made; what is freed becomes `Gone`, so that a
pointer to it can be recognised. A client has its descriptor, its ring buffer (`send`) and its write
watcher. `endpoints` is `p->tcp.endpoints`. `events` is what libev collected in one poll and has not yet
handed to a handler.

| action | code |
|---|---|
| `Poll` | `ev_run` collects any set of the watched events |
| `TunnelOpen`, `TunnelClose` | `tunnel_open` and `tunnel_close` with `async_server` and `async_server_shutdown` |
| `Accept`, `AcceptNone` | `server_async_client` |
| `ClientHandler`, `EndpointHandler` | `async_read`, `async_write` of the server's clients and of endpoints, down to `client_error` |
| `Response`, `RequestKnown`, `RequestNew` | `tunnel_response`, `endpoint_request`: bytes are given to a client |
| `PeersChange` | the list of peers changes, which `tunnel_open` looks into |

A part is a number of bytes, a byte is its position among the bytes given to the client. What is read is
not followed (`TcpStream` does). `async_server_shutdown` walks the table of clients while it frees them; `ht_map` reads the
next entry before it calls the function for one, and nothing else runs in between, so this is one step. Left out: TLS,
the pools, logging, and a connect that succeeds at once, which a non-blocking TCP socket does not do.

### FileParts

`Send` is `task.add` with all the messages it will produce; `out[s]` has the counters of a sender, which
`SenderRestarts` sets back. `ReadPart` and `WritePart` are `file_read` (create, write, count) and `JoinPart`,
`JoinFails`, `JoinDone` the loop of `finalize` one part at a time, because a `Crash` may come between any
two. `Sorted` is the array that `toarray_sort` makes of the names: each stands behind as many as are smaller (`Rank`). A part file that is being written at a crash is left with any prefix of its bytes. `torn` records
that this happened, and `Reused` that a restarted sender used a task number again; there a file
can be put together from two, and the properties except exactly those. Of the group number in a part's name
only the order matters, which the numbers of the messages give.

### Jobs

`jobs` is `dfs->jobs`; `disk`, `final` and `saved` are the download directory, the finalized directory and
`.jobs.tmp`. `asks` and `sent` are requests and chunk files on their way, and `lost` records for which peer and
chunk one of them was lost since the chunk was last asked for. `Own` are the files of the peer's own chain, which
`finalize` finds as well.

| action | code |
|---|---|
| `JobAdd`, `JobRemove`, `JobClean` | the operations of `job` that the application asks for |
| `Resume(due)` | the timer, with all of `chunk_start` and `chunk_restart` |
| `Serve` | `fileask_read` and `dfileask` at an owner |
| `LoseMessage` | a request or a file is given up or ends with its sender: any number of times |
| `Arrive` | `dfile` and `update` for a joined chunk. From an unknown sender, and with one byte only (`filereadable`), it stays on disk and no job hears of it |
| `Finalize` | `finalize`: the former file is removed and the chunks appended, until one is missing, cannot be decrypted or cannot be written |
| `Shutdown`, `ShutdownInside` | SIGINT between callbacks; SIGINT between the two counter updates of `chunk_state` |
| `PeerCrash`, `CrashSaving` | the process dies, which may leave a finished file at any chunk; it dies while `data_save` writes, and starts again without jobs when the broken file is removed |

The end of a process, in each of the last two rows, loses any of its requests and of the files it has in part (`Begin`).
`Written(f)[n]` is what `n` turns of the loop in `finalize` have written. The number of jobs added is bounded
only by `Files`, rare events by `MaxRare`.

What the model made plain: a chunk asked for from a peer that stays in the list, or is listed again before the timer
runs, is never asked for again, also when request or answer was lost; `Downloads` excepts such chunks (`Stranded`) and shows
that there is no other reason to wait for ever. A chunk file that comes while its job is removed is deleted, and
a crash can bring the job back with that chunk done (`DoneIsOnDisk`). A chunk of one byte arrives and is never credited.

### Blocks, Mining, BlockOwner, Chains

`Blocks` has the pure part. A hash is the sequence of contents it stands for, so equal hashes are equal
contents and nothing else is assumed of SHA-256. Blocks pass through `BlockObject` and `LoadBlock`
wherever the code goes through JSON; the objects keep the nesting of the files, since loading looks each field up by its place.
A nonce is assumed to fit into the `int` it is loaded as.

`Mining` interleaves the loop with the miner thread. `Copy`, `Clear`, `Work`, `Add`, `Remove`, `Name`, `Open`,
`Write` and `End` are the steps of `mine` and `mine_block_file` between which the loop, a failure (`Fail`)
or a `Crash` can come. `TransactionAdd`, `TransactionShare`, `BlockMine` and `Advertise`/`BlockSend` are
callbacks of the loop; `Hello` is a chain sent to a peer that asks. `accepted`, `offered`, `loaded`, `failed` and
`unstarted` are histories. `BlockOwner` is the summary the rest of the network needs: a chain that grows
by one transaction, and a file that is absent, torn or the chain; only a restart may take blocks back.

`Chains` composes owners that behave like that with one receiver: `Receive` is the block branch of `dfile`
with `root.merge` and the save, any of which may fail, `CrashInSave` ends the process while the file is open,
and `Restart` is `blocks_load`. A file may arrive damaged: then its blocks have other contents than their
hashes say.

What the model made plain: `dfs_block_mine` sets the flag before the thread exists, and when the thread
cannot be made the flag stays (`FlagIsMiner` excepts `unstarted`); a torn file keeps the program from
starting (`Converges`); two branches of one owner are never merged, the receiver keeps the one it saw
first.

### World

`listed` is the tracker's list, `world[p]` that of peer `p`. `ReadAnnounce`, `ReadAuth`, `ReadAnswer`,
`ReadIntroduction` are the handlers of the introduction; `Check` and `TrackerCheck` are `peer_check` with the
pings and answers of one interval; a pong that misses its interval is `Pong` or `TrackerPong` later.
`ReadQuery` and `ReadReply` are the question to the tracker about an unreachable peer. Messages on their way
survive restarts of both ends. `quiet` says that none of the rare events happened that `Meet` excepts.

The string of a challenge is a hash of the time in milliseconds, so two peers listed one after the other may get the same
one (`AuthStrings`); `findauthstr` then finds the first entry that has it, whoever answers. `AuthedByChallenge`
says what remains true: the answer was given to the string of this entry, by its peer or by one that shares the string,
and never to a string of an earlier entry. The challenge is encrypted with the key that the peer itself announced, so
that `auth_read` fails to decrypt it is not modelled.

### ApiPipe

Commands are sequences of bytes in a pipe; `buf` and `dst` are `p->api.read`. `Read` takes what fits, `Handle`,
`Wait` and `Misread` are turns of the loop of `api_ev_read`. Answers are two writes each, taken one at a time
(`FlushWrite`); `ReaderGone`, `Reopen` and `BrokenPipe` are the ends of the pipes. The application
is the shipped plugin `johnconnor`: `OpenCommands` and `CloseCommands` are `websocket_init` and `terminate` in `erws_handler.erl`,
`WriteCommand` is `pipe:write`, `OpenAnswers` and `ReadAnswer` are `pipe:read` and its loop. The handlers of several
websockets count as one writer, since a write of a command is atomic; the loop is assumed to get whole writes. `torn` records a read that ended inside a header, where the code
takes a length from bytes it does not have yet, and `cut` a header that went out without its body.

## Runs

| run | bounds | states | checks |
|---|---|---|---|
| `sendqueue_tasks` | 2 retries, queue limit 0, 2 tasks (2 hosts, the same tunnelled data of 2 packets), 1 message, 2 one-shot packets, upload limit 1 | 0.76 M | `IndexAgrees`, `NoUseAfterFree`, `BacklogBounded`, `LeavesForCause`, `ImplementsOutbox` |
| `sendqueue_live` | 2 retries, queue limit 1, 1 task (a chunk in two parts), 1 message, 1 relayed packet, queued or one-shot, which may have a colliding key | 0.51 M | `ReadsAreFresh`, `TasksAreFed`, `Drains`, `TasksFinish` |
| `transport` | messages of 1 or 2 packets, 2 transmissions, a restart of each side | 83 k | `HandledIntact`, `CompleteIsHandled`, `AckedIsHandled`, `Outcome` |
| `tcp` | one descriptor used by 3 connections, 3 tasks one way and 1 back, queue of 2, 2 contents | 1.7 M | `InOrder`, `NothingLeftBehind`, `StreamIsPrefix` |
| `fileparts` | 2 senders, one with a restart and one with two tasks, files of 1 and 2 parts, 1 crash | 0.74 M | `JoinedIntact`, `ArrivedIsJoined` |
| `jobs` | a file of 2 chunks, 1 owner, a file of the peer's own, 3 rare events, any losses | 0.56 M | `CountersAgree`, `DoneIsOnDisk`, `FinalizedWhole` |
| `jobs_live` | 2 files with one common chunk, 2 owners of which one lacks it, 1 rare event, any losses | 63 k | `Downloads` |
| `mining` | 3 transactions, 2 threads, 2 peers, 3 failures or crashes | 82 k | `FlagIsMiner`, `NothingLost`, `FileIsChain`, `NewsIsOffered`, `ImplementsOwner` |
| `chains` | an owner with 3 blocks that may lose its file once, an owner with 1, 2 files each, 1 fault | 77 k | `CopiesAreReal`, `SavedIsCopy`, `CopiesGrow`, `Converges` |
| `world` | tracker, 2 peers, 2 runs each, 1 rare event, shared challenges | 0.16 M | `AuthedByChallenge`, `Meet`, `GoneIsDropped` |
| `api` | 4 commands, headers of 2 bytes, buffer of 9, pipe with room for 3 writes, 2 rare events | 0.49 M | `NothingSkipped`, `CommandsHandled`, `AnswersInOrder` |
| `sockets` | 2 descriptors, 2 tunnels, 2 clients, parts of 1 or 2 bytes, 3 bytes per client | 1.6 M | `NoLateEvents`, `ClientsAreListed`, `OnItsWay` |

The bounds are the smallest at which every event occurs: a list longer than its limit, a part boundary
inside a file, an expiry during a walk, both orders of ACK and expiry, a duplicate ACK after a failed
read; a copy after completion, a packet of another message in between; parts that overtake each other,
a full queue with and without an awaited part at its end, a descriptor used again; a part file cut short,
a task number used twice; a fork of a chain whose branches both arrive; a challenge answered after a
restart; a command cut at every byte; two events of a round for one client. TLC reports every action as
taken. Descriptors and ports in `Sockets`, descriptors and contents in `TcpStream` are symmetric: nothing
tells one from another. A run of `transport` has one sender; that two senders may use one number is
covered by its restart, which counts from 0 again, and by the theorems.

Fairness. `sendqueue_live` assumes weak fairness of the timer and of the two write callbacks, taken
as wholes: libev runs every expired timer and every ready watcher in each turn, and the socket is
writable again after a finite time. Nothing is assumed of arrivals, of the end of bandwidth windows or
of the application. `transport` assumes weak fairness of the sender's attempts, which `Drains`
justifies, and nothing of the network. `jobs_live` assumes that the resume timer fires and, of each
single request and file, that it arrives unless it is lost; nothing bounds how many are lost. `chains` assumes that the program is started again and that the
file an owner sends last arrives: owners send it to everybody who says hello. `world` assumes that timers
fire and that what was sent to a running process, and not lost, arrives. `api` assumes that the event loop serves what is
ready, and nothing of the application. Except in the send queue, deadlock is not checked: when all
that the bounds allow has happened, the models stop.

## Proofs

All constants are arbitrary subject to the named assumptions. `ConfigAssumption` is what
`send_table` and `config_init` demand (at least two retries and a factor of at least two),
`FileAssumption` says that files are not empty, `TransportAssumption` that messages have a packet,
`StreamAssumption` that a queue has room for a part, `SocketsAssumption` that parts are not empty and that
connections lead to ports, `PartsAssumption` that files and parts are not empty, `JobsAssumption` that the
files of jobs and their chunks are not, `ApiAssumption` that a command fits into the buffer, `WorldAssumption` that the
tracker is not a peer. `ChainsAssumption` says that `NoKey` is not an owner and that the content of a file
differs from its hash, so that a file altered on its way never validates.

`SendQueueProofs`. `TypeInv` adds to `TypeOK` that the cursor is an item of the list that is being
walked, which a walk needs and no other action preserves for free. `NoLostWakeUp` follows with one
lemma on `TaskUpdate`: whichever way it returns without error, tasks remain only if the list is not
empty. `IndexInv` relates list and index in both directions with the two exceptions, and adds that no
saved cursor and no two entries name one item; `IndexCorrect` and `MemorySafe` are its consequences.

The history of the packets, in the same module: `FreshReads` rests on `rcvd < DownloadLimit`. `KeysAreUnique`, `PacketsLeaveForCause` and
`BehavesAsOutbox` assume `ForeignKeys = {}` and need `OwnInv`: all own keys are below `pidx`. `BacklogStaysBounded`
holds with relayed packets too: `task.update` is the only place that adds file packets, it looks at the whole
list first, and it adds one part at most. `BehavesAsOutbox` is the refinement of `Outbox`. `Shown` characterises
the abstract queue, which the mapping looks up through the index, as the only function from the keys of the list to
their attempts. Each action is then a `Post` of the packets of one message or part, a `OneShot`, a `Leave` or a `Try` of
one packet, or a stutter; the part that a departure makes room for is posted by the same `Leave`. That an acknowledgement
removes the packet it names and no other is where `IndexInv` is needed.

`NetworkProofs`, `Transport`. `SendInv`: in one run of a sender no number is given twice, and packets of one
message name the same set of packets (`Group`). `RecvInv`: every entry that met one message only
records distinct packets of it and waits for its chunk count, and every packet that has arrived is
waiting in an incomplete entry, or its message was handled. A complete entry is all of `Group` because it is
a subset of the same size. `AckInv`: without restarts, an ACK stands for an arrival.

`TcpStreamProofs`. `ReachStops` shows that the numbers which wait, being bounded, have a first gap, so
that `Reach` is defined; it takes the least number of a set, from the well-foundedness of `<`.
`Linked` ties a connection to its history: the history ends with `last`, what arrived beyond it waits or
was dropped, and `last + 1` does not wait. `SendKeeps` shows that `tcpsend` keeps all this for one
connection, and the invariant adds that open connections have entries of their own and that no part
has a number beyond its peer's counter. `StreamTypeCorrect`, `StreamsInOrder` and `NothingWaits` are
its consequences. For `ContentIsPrefix`, `OriginInv` adds that what was passed on had been submitted, and that
the reads of a connection none of whose chunks was merged have a `Numbering`: an increasing assignment of
numbers which agrees with every part made of them and starts with `first`. What was passed on has consecutive numbers,
so if it starts with the first read it contains the second, and so on, with no number in between. This needs no induction
over the sequence: the least place at which content and reads differ is refuted.

`MiningProofs`. `WorkInv` says which thread may be where: at most one works, it holds a
locked block whose predecessor is the last block of the chain from `work` on, and the chain validates.
`NothingLost` is inductive only together with it, since the list is copied and emptied in two steps. `FilesInv` adds
what the directory holds at each step of the miner, and what it may hold when the process is down. `PeerIsOwner`
is the refinement: each step of the miner that touches the directory is a `Write` of `BlockOwner`, the step
that appends the block is a `Mine`, a restart is a `Restart`, and every other step leaves chain and file
alone; `FilesInv` is needed because `BlockFile` picks a file of the directory, which must be the only one.

`NetworkProofs`, `Sockets`. `SocketsInv` has four parts: the types of the records; `NoLateEvents`; `TableInv`, which says
of the tables what `ClientsAreListed` says with existence and uniqueness in place of the cardinality; and
`FlowInv`, which adds to `OnItsWay` that only the first slot of a buffer can be sent in part and that the
write watcher is started exactly while the buffer is not empty. `FreeStep` treats every way of freeing at
once: any set of clients together with any set of tunnels that takes all its clients along.

`ChainsProofs`. A block of the model has one transaction, so what mining makes of a content is calculated once
(`MinedIs`), and `Roots` are the chains so made. Saving and loading such a chain gives it back, and of two of them
`CanMerge` and `Merged` give the longer one exactly when it extends the other. `ChainsInv` says that every
copy, in memory or on disk, is a chain that its owner has sent, one per owner in the group, and that a file is the
copy unless its last write failed. An altered file never validates (`ArrivedIsSent`), so
`CopiesAreVersions`, `CopiesAreSaved` and `CopiesOnlyGrow` follow.

`PeersProofs`, `World`. `WorldInv` adds to `AuthedByChallenge` that the entries and messages carry only challenges that were
sent, and that an answer on its way was given. `EntriesAreFresh` says that a new entry gets a challenge which its
peer has not answered; both together say that an authenticated entry was answered after it was made, by its peer or by one with
the same string.

`FilePartsProofs`. `PartsInv` follows a task from its sender to the joined file. `SentInv`: the messages of one
run with one task number are exactly the parts of one file, with consecutive numbers. `DirInv`: every part file
has a name of its own and holds the bytes of a message sent under it, unless it is being written or a crash tore one.
`JoinInv`: while a file is joined, there is a `k` such that the first `k` parts have been joined and the
rest of the array are the others, in order. When as many names are there as the task has parts, they are all of them,
and `Sorted` puts the one with the `i`-th number in place `i` (`Rank` is the distance from the first). Each turn then
lengthens a prefix of the file by the part that follows it, and after the last one the prefix is the file: this is
how the induction over the loop becomes part of the invariant. For `HandledTasksAreJoined`, `KeptInv` says that a
message that was handled is in the directory, being joined or joined, and that a task which is neither of the last two
lacks a part, so the message that completes it is never handled without a join.

`PeersProofs`, `Jobs`. `JobsInv` says of each job in memory that its counters agree and its done chunks are accounted
for, and the same of the saved jobs, because a crash or a shutdown brings those back; a saved chunk may have been
dropped since, one in memory only after a crash. A state change moves one chunk from one state to another, so
one counter loses one and another gains one: the proof counts by cardinalities of sets of places. For
`FinalizedFilesAreWhole`, `WrittenPrefix` shows what the loop of `finalize` has written after `n` turns:
chunks are cut as `file_chunks` cuts them, so it is the file up to `n * ChunkSize` or its end. It refutes the least `n`
for which this fails, which needs the recursion of `Written` and the well-foundedness of `<` only.

`ApiPipeProofs`. For the commands, `CommandsInv` looks at the bytes in the buffer followed by those in the pipe, unless a
command was torn. Each is the successor of the one before and the last one ends the command written last (`StreamOk`); the buffer
starts where a command starts, its length is the one remembered in `dst`, and outside of the loop it holds less than a command
(`BufferOk`); what was handled, with what was lost, are the commands up to the first one still there (`HandledOk`). A read moves bytes
from pipe to buffer and leaves their concatenation alone; handling a command takes away exactly its bytes. For the
answers, `AnswersInv` looks at the writes that the application has not used yet: a header is followed by its own
body, only while the callback is between its two writes is a body missing, and everything read or written comes before every item that
the queue still has to write and before the next one to be queued.

Only model-checked is liveness (`Drains`, `TasksFinish`, `Outcome`, `Downloads`, `Converges`, `Meet`, `GoneIsDropped`,
`CommandsHandled`): liveness under fairness is not within reach of the installed provers. Every invariant, action
property and refinement that a run checks is also a theorem. What the theorems do not cover is the code that the models leave
out, listed with each module above.

## Not modelled

Cryptography, encodings, logging, the command line and configuration parsing hold no state that a
property here could be about. `rogue.c` only collects. Left out as well: failures of `malloc`, start-up
failures, the freeing of lists at the end of a process, wrap-around of the 32-bit counters, and the
reloading of the whitelist.
