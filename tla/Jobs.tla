-------------------------------- MODULE Jobs --------------------------------
(***************************************************************************)
(* Download jobs of one peer.  A job is a file of some other peer's chain; *)
(* its chunks are asked for by a timer, one message each, arrive as files  *)
(* (see FileParts) and are put together on demand.  The list of jobs is    *)
(* kept in memory and written to disk at an orderly shutdown only, from    *)
(* the signal handler; chunk files are on disk as soon as they arrive.     *)
(* Requests and chunk files may be lost on their way: the transport gives  *)
(* up after its attempts (see SendQueue), and a process that ends takes    *)
(* its send queue and its half received files with it.                     *)
(***************************************************************************)
EXTENDS Integers, Sequences, FiniteSets, Functions

CONSTANTS
    Owners,     \* other peers
    NoPeer,     \* host 0, port 0
    Files,      \* files, by hash
    Data,       \* Data[f]: the bytes of f
    ChunkSize,  \* net.max.chunk_size
    Desc,       \* Desc[f]: the decoded description, the name of the finished file
    Lists,      \* Lists[o]: files in the chain of o
    Holds,      \* Holds[o]: chunks in the download directory of o
    Own,        \* files in the chain of this peer
    MaxRare     \* bound: rare events, those whose action says Rare

ASSUME JobsAssumption ==
    /\ NoPeer \notin Owners
    /\ ChunkSize \in Nat \ {0}
    /\ \A f \in Files : Data[f] \in Seq(Range(Data[f])) \ {<<>>}
    /\ Lists \in [Owners -> SUBSET Files]
    /\ Own \subseteq Files
    /\ MaxRare \in Nat

VARIABLES
    remote,   \* owners of the chains in blocks.remote, in the order of the array
    peers,    \* owners in the list of peers
    jobs,     \* dfs->jobs
    disk,     \* chunks in the download directory
    final,    \* files in the finalized directory
    saved,    \* jobs in .jobs.tmp
    asks,     \* FILEASK messages on their way
    sent,     \* chunk files on their way
    lost,     \* <<o, c>>: a request to o for chunk c, or o's answer, was lost since the last one
    dropped,  \* chunks that were removed from disk as unwanted
    result,   \* result[d]: the file last finalized successfully under name d
    faults,   \* which faults have happened
    rare      \* rare events so far

jobsVars == <<remote, peers, jobs, disk, final, saved, asks, sent, lost, dropped, result, faults, rare>>
disks == <<disk, final, saved>>
onWay == <<asks, sent, lost>>
history == <<dropped, result, faults, rare>>

Rare == rare < MaxRare /\ rare' = rare + 1

------------------------------------------------------------------------------
\* file_chunks: how many chunks, and the size of chunk i (from 0).
ChunkCount(n) == (n + ChunkSize - 1) \div ChunkSize

ChunkLength(n, i) ==
    IF n < ChunkSize THEN n
    ELSE IF (i + 1) * ChunkSize > n THEN n - i * ChunkSize ELSE ChunkSize

\* The chunks of a file; a chunk is named by its hash, here by its content.
ChunksOf(f) ==
    [i \in 1..ChunkCount(Len(Data[f])) |->
        SubSeq(Data[f], (i - 1) * ChunkSize + 1,
                        (i - 1) * ChunkSize + ChunkLength(Len(Data[f]), i - 1))]

FileChunks == [f \in Files |-> ChunksOf(f)]

AllChunks == UNION {Range(FileChunks[f]) : f \in Files}

States == {"none", "notfound", "receiving", "done"}

\* struct job_s as add makes it.  A chunk's updated is set when it is asked for, so
\* it is 0 unless the chunk is or was receiving.
NewJob(f) ==
    [file |-> f,
     chunks |-> [i \in DOMAIN FileChunks[f] |->
                   [chunk |-> FileChunks[f][i], state |-> "none", net |-> NoPeer]],
     counter |-> [s \in States |-> IF s = "none" THEN Len(FileChunks[f]) ELSE 0]]

\* Variant: the state it leaves is not counted down.
DoneUncounted(j, i) ==
    [j EXCEPT !.chunks[i].state = "done", !.chunks[i].net = NoPeer, !.counter["done"] = @ + 1]

\* chunk_state: the counter of the old state goes down, that of the new one up.
\* The address of a chunk that is done is not used again.
Uncounted(j, i) == [j EXCEPT !.counter[j.chunks[i].state] = @ - 1]

Done(j, i) ==
    [file |-> j.file,
     chunks |-> [j.chunks EXCEPT ![i] = [chunk |-> @.chunk, state |-> "done", net |-> NoPeer]],
     counter |-> [Uncounted(j, i).counter EXCEPT !["done"] = @ + 1]]

\* The first in the order of a list or an array.
First(S) == CHOOSE k \in S : \A l \in S : k <= l

\* list.del
Deleted(list, k) == SubSeq(list, 1, k - 1) \o SubSeq(list, k + 1, Len(list))

HasJob(f) == \E k \in DOMAIN jobs : jobs[k].file = f

\* group.find.transaction.
Listed(f) == \E k \in DOMAIN remote : f \in Lists[remote[k]]

JobsInit ==
    /\ remote = <<>> /\ peers = {} /\ jobs = <<>>
    /\ disk = UNION {Range(FileChunks[f]) : f \in Own} /\ final = <<>> /\ saved = <<>>
    /\ asks = {} /\ sent = {} /\ lost = {}
    /\ dropped = {} /\ result = <<>> /\ faults = {} /\ rare = 0

\* A chain arrives for the first time (see Chains), a peer comes or goes (see World).
Learn(o) ==
    /\ o \notin Range(remote)
    /\ remote' = Append(remote, o)
    /\ UNCHANGED <<peers, jobs, onWay, disks, history>>

PeerComes(o) ==
    /\ o \notin peers
    /\ peers' = peers \cup {o}
    /\ UNCHANGED <<remote, jobs, onWay, disks, history>>

PeerGoes(o) ==
    /\ Rare
    /\ o \in peers
    /\ peers' = peers \ {o}
    /\ UNCHANGED <<remote, jobs, onWay, disks, dropped, result, faults>>

\* add: not for a file that is finished or being fetched, nor for an unknown one.
JobAdd(f) ==
    /\ f \notin DOMAIN final
    /\ ~HasJob(f)
    /\ Listed(f)
    /\ jobs' = Append(jobs, NewJob(f))
    /\ UNCHANGED <<remote, peers, onWay, disks, history>>

JobRemove(f) ==
    /\ Rare
    /\ HasJob(f)
    /\ jobs' = Deleted(jobs, First({k \in DOMAIN jobs : jobs[k].file = f}))
    /\ UNCHANGED <<remote, peers, onWay, disks, dropped, result, faults>>

JobClean ==
    /\ Rare
    /\ jobs # <<>>
    /\ jobs' = <<>>
    /\ UNCHANGED <<remote, peers, onWay, disks, dropped, result, faults>>

------------------------------------------------------------------------------
\* The timer.  chunk_find takes the first chain with the file whose owner is a
\* known peer; the address stays as it was if there is none.
Source(f, old) ==
    LET able == {k \in DOMAIN remote : f \in Lists[remote[k]] /\ remote[k] \in peers}
    IN  IF able = {} THEN old ELSE remote[First(able)]

\* Variant: a chunk is asked for once.
StartsOnce(c, due) == c.state = "none"

\* resume: which chunks are started.  A chunk that was asked for is tried again
\* when it is due and its peer is gone (chunk_restart).
Starts(c, due) ==
    \/ c.state = "none"
    \/ c.state = "notfound" /\ c.net \notin peers
    \/ c.state = "receiving" /\ due /\ c.net \notin peers

\* Variant: the test for the chunk file is inverted.
StartedInverted(f, c) ==
    [c EXCEPT !.net = Source(f, c.net),
              !.state = IF c.chunk \notin disk /\ Source(f, c.net) # NoPeer THEN "done" ELSE "notfound"]

\* chunk_start
Started(f, c) ==
    LET from == Source(f, c.net)
        state == IF c.chunk \in disk THEN "done"
                 ELSE IF from = NoPeer THEN "notfound" ELSE "receiving"
    IN  [chunk |-> c.chunk, state |-> state, net |-> IF state = "done" THEN NoPeer ELSE from]

ResumedChunk(f, c, due) == IF Starts(c, due) THEN Started(f, c) ELSE c

InState(chunks, s) == Cardinality({i \in DOMAIN chunks : chunks[i].state = s})

\* The job after the timer, with the counters moved by chunk_state.
ResumedJob(j, due) ==
    LET new == [i \in DOMAIN j.chunks |-> ResumedChunk(j.file, j.chunks[i], due)]
    IN  [file |-> j.file, chunks |-> new,
         counter |-> [s \in States |-> j.counter[s] + InState(new, s) - InState(j.chunks, s)]]

\* Chunks that are in state s after chunk_start.
Moves(j, new, due, s) ==
    {c \in {new.chunks[i] : i \in {i \in DOMAIN j.chunks : Starts(j.chunks[i], due)}} : c.state = s}

\* Chunks asked for earlier are due together or not at all: they were asked for
\* by runs of this timer, every 15 seconds, and are due after 10.
Resume(due) ==
    \E new \in {[k \in DOMAIN jobs |-> ResumedJob(jobs[k], due)]} :
    \E more \in {UNION {{[to |-> c.net, file |-> new[k].file, chunk |-> c.chunk] :
                            c \in Moves(jobs[k], new[k], due, "receiving")} : k \in DOMAIN jobs}} :
        /\ jobs' = new
        /\ asks' = asks \cup more
        /\ lost' = lost \ {<<a.to, a.chunk>> : a \in more}
        /\ UNCHANGED <<remote, peers, sent, disks, dropped, result, faults, rare>>

------------------------------------------------------------------------------
\* fileask_read and dfileask at the owner: it answers with a file if the file is
\* in its chain, the chunk in the file and the chunk's file on its disk.
Serve(a) ==
    /\ a \in asks
    /\ asks' = asks \ {a}
    /\ sent' = IF /\ a.file \in Lists[a.to]
                  /\ a.chunk \in Range(FileChunks[a.file]) \cap Holds[a.to]
               THEN sent \cup {[from |-> a.to, chunk |-> a.chunk]}
               ELSE sent
    /\ UNCHANGED <<remote, peers, jobs, lost, disks, history>>

\* Requests A and files M are lost on their way.
Lost(A, M) ==
    /\ asks' = asks \ A
    /\ sent' = sent \ M
    /\ lost' = lost \cup {<<a.to, a.chunk>> : a \in A} \cup {<<m.from, m.chunk>> : m \in M}

\* Sender or relay gives up a packet after its attempts (write_cb), or ends.
LoseMessage ==
    /\ \E a \in asks : Lost({a}, {})
       \/ \E m \in sent : Lost({}, {m})
    /\ UNCHANGED <<remote, peers, jobs, disks, history>>

\* update: the first chunk of the first job that waits for this file, if any.
JobsWaiting(c) == {k \in DOMAIN jobs : \E i \in DOMAIN jobs[k].chunks : jobs[k].chunks[i].chunk = c}

Updated(j, c) ==
    Done(j, First({i \in DOMAIN j.chunks : j.chunks[i].chunk = c}))

\* A file has been joined in the download directory.  If its sender is not a
\* known peer the application is not told, and dfile fails on a file of one byte
\* (filereadable); otherwise dfile passes it to update, which removes what no job
\* wants.  A copy may follow (again).
Arrive(m, again) ==
    /\ m \in sent
    /\ sent' = IF again THEN sent ELSE sent \ {m}
    /\ IF m.from \notin peers \/ Len(m.chunk) <= 1
       THEN /\ disk' = disk \cup {m.chunk}
            /\ UNCHANGED <<jobs, dropped>>
       ELSE IF JobsWaiting(m.chunk) = {}
       THEN /\ disk' = disk \ {m.chunk}
            /\ dropped' = dropped \cup {m.chunk}
            /\ UNCHANGED jobs
       ELSE \E k \in {First(JobsWaiting(m.chunk))} :
            \E j \in {Updated(jobs[k], m.chunk)} :
                /\ disk' = disk \cup {m.chunk}
                /\ jobs' = [jobs EXCEPT ![k] = j]
                /\ UNCHANGED dropped
    /\ UNCHANGED <<remote, peers, asks, lost, final, saved, result, faults, rare>>

------------------------------------------------------------------------------
\* finalize: how many chunks it can append before one is missing.
Readable(f) ==
    CHOOSE n \in 0..Len(FileChunks[f]) :
        /\ \A i \in 1..n : FileChunks[f][i] \in disk
        /\ n < Len(FileChunks[f]) => FileChunks[f][n + 1] \notin disk

\* What n turns of the loop have written, each at the end of the file.
Written(f) ==
    LET file[n \in 0..Len(FileChunks[f])] == IF n = 0 THEN <<>> ELSE file[n - 1] \o FileChunks[f][n]
    IN  file

\* Variant: the finished file is not removed before it is written again.
AppendedOver(f, n) ==
    [d \in DOMAIN final \cup {Desc[f]} |->
        (IF d \in DOMAIN final THEN final[d] ELSE <<>>) \o
        (IF d = Desc[f] THEN Written(f)[n] ELSE <<>>)]

\* The name with the first n chunks of f under it, and without the former file.
Appended(f, n) ==
    IF n = 0 THEN Restrict(final, DOMAIN final \ {Desc[f]})
    ELSE [d \in DOMAIN final \cup {Desc[f]} |->
            IF d = Desc[f] THEN Written(f)[n] ELSE final[d]]

Forgotten(f) == Restrict(result, DOMAIN result \ {Desc[f]})

\* The file is looked for in the remote chains, then in the peer's own.
Found(f) == Listed(f) \/ f \in Own

\* The finished file is removed and written again chunk by chunk.  The loop ends
\* at a chunk that is missing, or earlier where there is no key or a chunk cannot
\* be decrypted or written; success is reported when it reaches the end.
Finalize(f) ==
    /\ Rare
    /\ Found(f)
    /\ \E n \in 0..Readable(f) :
          /\ final' = Appended(f, n)
          /\ result' = IF n = Len(FileChunks[f])
                       THEN [d \in DOMAIN result \cup {Desc[f]} |-> IF d = Desc[f] THEN f ELSE result[d]]
                       ELSE Forgotten(f)
    /\ UNCHANGED <<remote, peers, jobs, onWay, disk, saved, dropped, faults>>

\* The end of the process, of any kind, and init: of its requests those still in
\* send.nbl are gone, and files it had in part may be; the jobs are read from
\* .jobs.tmp, the chains from their directory, in the order it lists them; nobody
\* is known yet.
Begin(list) ==
    /\ \E A \in SUBSET asks : \E M \in SUBSET sent : Lost(A, M)
    /\ jobs' = list
    /\ peers' = {}
    /\ remote' \in {r \in [DOMAIN remote -> Owners] : Range(r) = Range(remote)}

\* SIGINT between two callbacks.
Shutdown ==
    /\ Rare
    /\ saved' = jobs
    /\ Begin(jobs)
    /\ UNCHANGED <<disk, final, dropped, result, faults>>

\* SIGINT inside chunk_state: the signal handler saves what it finds.
ShutdownInside(k, i) ==
    /\ Rare
    /\ i \in DOMAIN jobs[k].chunks
    /\ saved' = [jobs EXCEPT ![k] = Uncounted(@, i)]
    /\ Begin(saved')
    /\ faults' = faults \cup {"interrupted"}
    /\ UNCHANGED <<disk, final, dropped, result>>

\* The process dies; a file that was being finalized stays as far as it got.
PeerCrash ==
    /\ Rare
    /\ Begin(saved)
    /\ \/ UNCHANGED <<final, result>>
       \/ \E f \in {g \in Files : Found(g)} : \E n \in 0..Readable(f) :
             /\ final' = Appended(f, n)
             /\ result' = Forgotten(f)
    /\ faults' = faults \cup {"crashed"}
    /\ UNCHANGED <<disk, saved, dropped>>

\* The process dies while data_save writes .jobs.tmp.  init fails on what is left
\* of the file, and the peer does not run again before it is removed by hand.
CrashSaving ==
    /\ Rare
    /\ saved' = <<>>
    /\ Begin(<<>>)
    /\ faults' = faults \cup {"crashed"}
    /\ UNCHANGED <<disk, final, dropped, result>>

JobsNext ==
    \/ \E o \in Owners : Learn(o) \/ PeerComes(o) \/ PeerGoes(o)
    \/ \E f \in Files : JobAdd(f) \/ JobRemove(f) \/ Finalize(f)
    \/ JobClean
    \/ \E due \in BOOLEAN : Resume(due)
    \/ \E a \in asks : Serve(a)
    \/ \E m \in sent : \E again \in BOOLEAN : Arrive(m, again)
    \/ LoseMessage
    \/ Shutdown \/ PeerCrash \/ CrashSaving
    \/ \E k \in DOMAIN jobs : \E i \in DOMAIN jobs[k].chunks : ShutdownInside(k, i)

JobsSpec == JobsInit /\ [][JobsNext]_jobsVars

\* The timer runs; each request and each file on its way arrives unless it is
\* lost, which may befall every one of them.
JobsFairSpec ==
    /\ JobsSpec
    /\ WF_jobsVars(Resume(TRUE))
    /\ \A a \in [to : Owners, file : Files, chunk : AllChunks] : WF_jobsVars(Serve(a))
    /\ \A m \in [from : Owners, chunk : AllChunks] : WF_jobsVars(Arrive(m, FALSE))

------------------------------------------------------------------------------
\* The counters of a job, which decide when it is done and are saved with it, are
\* the numbers of its chunks in each state, through every start, answer, repeated
\* answer and reload, unless a signal came inside chunk_state.
CountersAgree ==
    "interrupted" \in faults \/
    \A k \in DOMAIN jobs : \A s \in States :
        jobs[k].counter[s] = InState(jobs[k].chunks, s)

\* A chunk that a job has as done is on disk.  There is one way to lose it: its
\* file is dropped as unwanted while the job is removed, and a crash brings back
\* the job as it was saved.
DoneIsOnDisk ==
    \A k \in DOMAIN jobs : \A i \in DOMAIN jobs[k].chunks :
        LET c == jobs[k].chunks[i]
        IN  c.state = "done" => c.chunk \in disk \/ (c.chunk \in dropped /\ "crashed" \in faults)

\* A file that finalize has reported as finished is the whole file, byte for byte,
\* however often it was finalized before and whatever those attempts left behind.
FinalizedWhole ==
    \A d \in DOMAIN result : d \in DOMAIN final /\ final[d] = Data[result[d]]

\* A chunk that nobody will mention again: it was asked for from a known peer,
\* nothing of it is on its way, and that peer does not have it, or the request or
\* the answer was lost, or its file came and was not passed on, because its sender
\* was unknown then, or went to another job.
Stranded(c) ==
    /\ c.state = "receiving" /\ c.net \in peers
    /\ ~\E a \in asks : a.to = c.net /\ a.chunk = c.chunk
    /\ ~\E m \in sent : m.from = c.net /\ m.chunk = c.chunk
    /\ c.chunk \in disk \/ c.chunk \notin Holds[c.net] \/ <<c.net, c.chunk>> \in lost

\* Every chunk of a job that stays, of a file that a known peer lists, is in the
\* end received or stranded: resume starts what was not started, and starts again
\* what went to a peer that is gone, after a reload too.  What was lost on the way
\* to or from a peer that stays, or that is listed again before the timer runs, is
\* not repeated by the code (chunk_restart); that it is for no other reason that a
\* chunk stays away is what is checked here.
Downloads ==
    \A f \in Files : \A c \in Range(FileChunks[f]) :
        LET Wants(j, P(_)) == j.file = f /\ \E i \in DOMAIN j.chunks : j.chunks[i].chunk = c /\ P(j.chunks[i])
        IN  (\E j \in Range(jobs) : Wants(j, LAMBDA x : x.state # "done")) ~>
                \/ \A j \in Range(jobs) : ~Wants(j, LAMBDA x : x.state # "done")
                \/ \E j \in Range(jobs) : Wants(j, Stranded)
                \/ ~\E o \in peers : o \in Range(remote) /\ f \in Lists[o]
==============================================================================
