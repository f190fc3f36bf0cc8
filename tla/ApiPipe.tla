------------------------------- MODULE ApiPipe -------------------------------
(***************************************************************************)
(* The application interface of a peer, api.c with the pipes of os.c.  An  *)
(* application writes commands into one named pipe and reads answers and   *)
(* notices from another.                                                   *)
(*                                                                         *)
(* A command is a header, its length in HeaderLen bytes, and that many     *)
(* bytes of JSON.  The application writes it with one write, which the     *)
(* kernel does not split for a command that fits in api.read.buffer.  The  *)
(* peer reads as much as its buffer has room for, so a read can end        *)
(* anywhere in the last command, its header included.                      *)
(*                                                                         *)
(* An answer is written with two writes, header and body, and either may   *)
(* fail when the pipe is full.  A write without a reader ends the peer:    *)
(* SIGPIPE is not handled.  A pipe keeps what was not read as long as      *)
(* somebody has it open.                                                   *)
(*                                                                         *)
(* The application is the plugin johnconnor.  Each of its websocket        *)
(* handlers opens the pipe of commands for itself; since each command is   *)
(* one write, they are one writer, which closes when the last of them      *)
(* does.  Its one reader takes data as it comes; that it gets whole writes *)
(* of the peer is an assumption (msgstart fails on less than a header).    *)
(***************************************************************************)
EXTENDS Naturals, Sequences, Functions

CONSTANTS Length,         \* Length[n]: bytes of JSON of the n-th command
          Kind,           \* Kind[n]: which of its handlers it is for
          HeaderLen,      \* sizeof(int)
          BufferLen,      \* sizeof(p->api.read.buffer)
          Room,           \* writes the pipe to the application has room for
          MaxNotices,     \* bound: answers and notices, for a notice to be given
          MaxRare         \* bound: ends of the peer or of the application

Commands == DOMAIN Length

ASSUME ApiAssumption ==
    /\ HeaderLen \in Nat \ {0} /\ BufferLen \in Nat
    /\ Kind \in [Commands -> {"dump", "act", "tunnel", "message"}]
    /\ \A n \in Commands : Length[n] \in Nat /\ HeaderLen + Length[n] <= BufferLen

VARIABLES written,        \* commands the application has written
          writer,         \* it has the pipe of commands open
          hangup,         \* it had, since the peer opened the pipe
          commands,       \* bytes in the pipe of commands
          pc,             \* what the peer is doing
          buf, dst,       \* p->api.read: buffer up to size, and dst
          notices,        \* answers and notices so far
          queue,          \* p->api.write.buffer
          at,             \* the item of the queue that is being written
          fd,             \* p->api.pipes.write is open
          leaked,         \* a descriptor of that pipe was forgotten
          watch,          \* p->api.ev.write is started
          answers,        \* writes in the pipe of answers
          reader,         \* the application has that pipe open
          want,           \* the answer whose body the application waits for
          rare,
          \* history
          handled,        \* commands given to api_read
          lost,           \* commands that a close or an end of the peer lost
          torn,           \* a read ended inside a header, or the peer was started
                          \* again inside a command
          told,           \* answers the application has read; 0 is none of them
          cut             \* a body was not written after its header, or the
                          \* application left before it

vars == <<written, writer, hangup, commands, pc, buf, dst, notices, queue, at,
          fd, leaked, watch, answers, reader, want, rare, handled, lost, torn, told, cut>>

appIn  == <<written, writer, hangup, commands>>
peerIn == <<pc, buf, dst>>
out    == <<notices, queue, at, fd, leaked, watch>>
appOut == <<reader, want, told>>

\* The bytes of command n, by position; the first HeaderLen are the header.
Bytes(n) == [i \in 1 .. HeaderLen + Length[n] |-> <<n, i>>]

CommandsIn(s) == {b[1] : b \in Range(s)}

Init ==
    /\ written = 0 /\ writer = FALSE /\ hangup = FALSE /\ commands = <<>>
    /\ pc = "idle" /\ buf = <<>> /\ dst = 0
    /\ notices = 0 /\ queue = <<>> /\ at = 0
    /\ fd = FALSE /\ leaked = FALSE /\ watch = FALSE
    /\ answers = <<>> /\ reader = FALSE /\ want = 0 /\ rare = 0
    /\ handled = <<>> /\ lost = {} /\ torn = FALSE /\ told = <<>> /\ cut = FALSE

Rare == rare < MaxRare /\ rare' = rare + 1

-----------------------------------------------------------------------------
(* The application *)

\* websocket_init
OpenCommands ==
    /\ ~writer
    /\ writer' = TRUE
    /\ UNCHANGED <<written, hangup, commands, peerIn, out, answers, appOut,
                   rare, handled, lost, torn, cut>>

\* pipe:write
WriteCommand ==
    /\ writer /\ pc # "ended"
    /\ written + 1 \in Commands
    /\ written' = written + 1
    /\ commands' = commands \o Bytes(written + 1)
    /\ UNCHANGED <<writer, hangup, peerIn, out, answers, appOut, rare,
                   handled, lost, torn, cut>>

\* terminate, of the last handler.  The kernel reports it to a peer that has the
\* pipe open.
CloseCommands ==
    /\ writer
    /\ Rare
    /\ writer' = FALSE
    /\ hangup' = (pc # "ended")
    /\ IF pc = "ended" THEN commands' = <<>> /\ lost' = lost \cup CommandsIn(commands)
                       ELSE UNCHANGED <<commands, lost>>
    /\ UNCHANGED <<written, peerIn, out, answers, appOut, handled, torn, cut>>

\* pipe:read
OpenAnswers ==
    /\ ~reader
    /\ reader' = TRUE
    /\ UNCHANGED <<appIn, peerIn, out, answers, want, told, rare, handled, lost,
                   torn, cut>>

\* pipe:loop, msgstart and msgready.  A frame is a header and the body it
\* announces; anything else in the place of the body is taken for it.
ReadAnswer ==
    /\ reader /\ answers # <<>>
    /\ answers' = Tail(answers)
    /\ LET w == Head(answers) IN
          IF want = 0
          THEN /\ want' = IF w.part = "header" THEN w.notice ELSE 0
               /\ told' = IF w.part = "header" THEN told ELSE Append(told, 0)
          ELSE /\ want' = 0
               /\ told' = Append(told, IF w = [part |-> "body", notice |-> want]
                                       THEN want ELSE 0)
    /\ UNCHANGED <<appIn, peerIn, out, reader, rare, handled, lost, torn, cut>>

\* The reading process ends.
CloseAnswers ==
    /\ reader
    /\ Rare
    /\ reader' = FALSE
    /\ want' = 0
    /\ cut' = (cut \/ want # 0)
    /\ answers' = IF fd \/ leaked THEN answers ELSE <<>>
    /\ UNCHANGED <<appIn, peerIn, out, told, handled, lost, torn>>

-----------------------------------------------------------------------------
(* Answers and notices: api.write *)

\* write_reopen: the pipe can be opened only while it has a reader.
Reopens == fd \/ reader

\* Variant: the new item comes first.
AddedFirst(q, n) == <<n>> \o q

\* list.add
Added(q, n) == Append(q, n)

\* api_write: queued, or dropped when nobody reads.
Queued ==
    /\ notices' = notices + 1
    /\ fd' = Reopens
    /\ queue' = IF Reopens THEN Added(queue, notices + 1) ELSE queue
    /\ watch' = (watch \/ Reopens)
    /\ UNCHANGED <<at, leaked>>

\* A notice: a peer comes, a message, a job is done, the timer api_update.
Notify ==
    /\ pc = "idle"
    /\ notices < MaxNotices
    /\ Queued
    /\ UNCHANGED <<appIn, peerIn, answers, appOut, rare, handled, lost, torn, cut>>

\* api_ev_write without a reader: the descriptor is forgotten, not closed, and
\* the queue stays.
ReaderGone ==
    /\ pc = "idle" /\ watch /\ ~reader
    /\ watch' = FALSE /\ fd' = FALSE /\ leaked' = TRUE
    /\ UNCHANGED <<appIn, peerIn, notices, queue, at, answers, appOut, rare,
                   handled, lost, torn, cut>>

FlushStart ==
    /\ pc = "idle" /\ watch /\ reader
    /\ Len(answers) < Room
    /\ watch' = FALSE
    /\ pc' = "header" /\ at' = 1
    /\ UNCHANGED <<appIn, buf, dst, notices, queue, fd, leaked, answers, appOut,
                   rare, handled, lost, torn, cut>>

\* list.clean of the queue, after the last write or after one that failed.
FlushEnd ==
    /\ pc' = "idle" /\ at' = 0
    /\ queue' = <<>>

\* One write of the callback of list.map, while there is a reader.
FlushWrite ==
    /\ pc \in {"header", "body"} /\ reader
    /\ IF Len(answers) < Room
       THEN /\ answers' = Append(answers, [part |-> pc, notice |-> queue[at]])
            /\ IF pc = "header" THEN pc' = "body" /\ UNCHANGED <<at, queue>>
               ELSE IF at < Len(queue)
               THEN pc' = "header" /\ at' = at + 1 /\ UNCHANGED queue
               ELSE FlushEnd
            /\ UNCHANGED cut
       ELSE /\ FlushEnd
            /\ cut' = (cut \/ pc = "body")
            /\ UNCHANGED answers
    /\ UNCHANGED <<appIn, buf, dst, notices, fd, leaked, watch, appOut, rare,
                   handled, lost, torn>>

-----------------------------------------------------------------------------
(* Commands: api_ev_read *)

Lesser(i, j) == IF i < j THEN i ELSE j

Read ==
    /\ pc = "idle" /\ commands # <<>>
    /\ LET n == Lesser(Len(commands), BufferLen - Len(buf)) IN
          /\ buf' = buf \o SubSeq(commands, 1, n)
          /\ commands' = SubSeq(commands, n + 1, Len(commands))
          /\ torn' = (torn \/ commands[n][2] < HeaderLen)
    /\ pc' = "loop"
    /\ UNCHANGED <<written, writer, hangup, dst, out, answers, appOut, rare,
                   handled, lost, cut>>

\* The application has closed the pipe: read returns 0.
ReadNothing ==
    /\ pc = "idle" /\ commands = <<>> /\ hangup /\ ~writer
    /\ pc' = "reopen"
    /\ UNCHANGED <<appIn, buf, dst, out, answers, appOut, rare, handled, lost,
                   torn, cut>>

\* os.pipe_open: close and open.  What came in between goes with the close,
\* unless its writer is still there.
Reopen ==
    /\ pc = "reopen"
    /\ pc' = "idle"
    /\ hangup' = FALSE
    /\ commands' = IF writer THEN commands ELSE <<>>
    /\ lost' = IF writer THEN lost ELSE lost \cup CommandsIn(commands)
    /\ UNCHANGED <<written, writer, buf, dst, out, answers, appOut, rare,
                   handled, torn, cut>>

\* The first bytes of the buffer are a header.
HeaderRead == Len(buf) >= HeaderLen /\ buf[1][2] = 1

Size == IF dst = 0 THEN Length[buf[1][1]] ELSE dst

\* Variant: a command that ends the buffer is waited for.
CompleteBeyond(size) == Len(buf) - HeaderLen > size

Complete(size) == Len(buf) - HeaderLen >= size

\* Variant: what follows a command is dropped with it.
RestNothing(size) == <<>>

\* The memmove, or size = 0.
Rest(size) == SubSeq(buf, HeaderLen + size + 1, Len(buf))

\* The handlers that list something answer.
DumpRead(n) == Kind[n] = "dump" /\ Queued

\* Those that call a command of distfs.c answer with its dfserr, or not at all
\* when it returns -1.
ActRead(n) == Kind[n] = "act" /\ (Queued \/ UNCHANGED out)

\* tunnel.open and tunnel.close return -1 for a peer that is not known.
TunnelRead(n) == Kind[n] = "tunnel" /\ (Queued \/ UNCHANGED out)

\* A message is sent to its peer; there is no answer.
MessageRead(n) == Kind[n] = "message" /\ UNCHANGED out

\* api_read
Command(n) == DumpRead(n) \/ ActRead(n) \/ TunnelRead(n) \/ MessageRead(n)

\* One turn of the loop with a whole command; that it fails is only logged.
Handle ==
    /\ pc = "loop" /\ HeaderRead
    /\ Complete(Size)
    /\ handled' = Append(handled, buf[1][1])
    /\ Command(buf[1][1])
    /\ buf' = Rest(Size)
    /\ dst' = 0
    /\ pc' = IF buf' = <<>> THEN "idle" ELSE "loop"
    /\ UNCHANGED <<appIn, answers, appOut, rare, lost, torn, cut>>

Wait ==
    /\ pc = "loop" /\ HeaderRead
    /\ ~Complete(Size)
    /\ dst' = Size
    /\ pc' = "idle"
    /\ UNCHANGED <<appIn, buf, out, answers, appOut, rare, handled, lost, torn, cut>>

\* dst is taken from bytes that are not, or not all, a header; size - 4 may be
\* below 0, which the comparison takes for a large number.  Anything follows.
Misread ==
    /\ pc = "loop" /\ ~HeaderRead
    /\ pc' = "undefined"
    /\ UNCHANGED <<appIn, buf, dst, out, answers, appOut, rare, handled, lost,
                   torn, cut>>

-----------------------------------------------------------------------------
(* The peer ends and is started again *)

End ==
    /\ pc' = "ended"
    /\ buf' = <<>> /\ dst' = 0
    /\ queue' = <<>> /\ at' = 0 /\ fd' = FALSE /\ leaked' = FALSE /\ watch' = FALSE
    /\ hangup' = FALSE
    /\ commands' = IF writer THEN commands ELSE <<>>
    /\ lost' = lost \cup CommandsIn(buf)
                    \cup IF writer THEN {} ELSE CommandsIn(commands)
    /\ answers' = IF reader THEN answers ELSE <<>>
    /\ torn' = (torn \/ (commands' # <<>> /\ Head(commands')[2] # 1))
    /\ cut' = (cut \/ (pc = "body" /\ reader))
    /\ UNCHANGED <<written, writer, notices, appOut, handled>>

Crash == pc # "ended" /\ Rare /\ End

\* A write without a reader: SIGPIPE.
BrokenPipe == pc \in {"header", "body"} /\ ~reader /\ End /\ UNCHANGED rare

Start ==
    /\ pc = "ended"
    /\ pc' = "idle"
    /\ UNCHANGED <<appIn, buf, dst, out, answers, appOut, rare, handled, lost,
                   torn, cut>>

-----------------------------------------------------------------------------
Application == \/ OpenCommands \/ WriteCommand \/ CloseCommands
               \/ OpenAnswers \/ ReadAnswer \/ CloseAnswers

Peer == \/ FlushStart \/ FlushWrite \/ ReaderGone \/ BrokenPipe
        \/ Read \/ ReadNothing \/ Reopen \/ Handle \/ Wait \/ Misread

Next == Application \/ Peer \/ Notify \/ Crash \/ Start

Spec == Init /\ [][Next]_vars

\* The event loop serves what is ready.
FairSpec == Spec /\ WF_vars(Peer)

-----------------------------------------------------------------------------
(* Properties *)

Pending == {n \in CommandsIn(buf \o commands) : n \notin lost}

\* Commands are handled in the order they were written, each once and none
\* passed over, and no length is taken from anything but a header, wherever
\* reads cut their bodies and however often the pipe is opened again; only those
\* a close or an end of the peer took away are missing.  Excepted are the two
\* cases api_ev_read does not handle: a read that ends inside a header, and a
\* start of the peer inside a command.
NothingSkipped ==
    ~torn => /\ pc # "undefined"
             /\ \A i, j \in DOMAIN handled : i < j => handled[i] < handled[j]
             /\ Range(handled) \cup Pending \cup lost = 1 .. written
             /\ \A n \in Pending : \A h \in Range(handled) : h < n

\* A command that was written is handled while the peer runs, also when it is
\* the last one and nothing follows that would wake the peer up.
CommandsHandled ==
    \A n \in Commands :
        n <= written ~> n \in Range(handled) \cup lost \/ torn \/ pc = "ended"

\* The application reads answers whole and in the order they were given,
\* through readers that come and go, peers that are started again, and pipes
\* that are full, unless a header was left without its body.
AnswersInOrder ==
    ~cut => /\ \A i \in DOMAIN told : told[i] # 0
            /\ \A i, j \in DOMAIN told : i < j => told[i] < told[j]

=============================================================================
