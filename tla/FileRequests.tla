---------------------------- MODULE FileRequests ----------------------------
(***************************************************************************)
(* Files (src/node/fs/fs_async_core.c, src/node/fs/fs_promises.c): calls   *)
(* that go through several requests of libuv's thread pool, one after the  *)
(* other, and FileHandles, whose requests name a descriptor that close()   *)
(* or the collector may give back meanwhile.                               *)
(*                                                                         *)
(* A request is a system call that one of the pool's threads makes; its    *)
(* callback runs in the loop, in the order in which requests were done.    *)
(* The threads take requests in the order in which they were queued, so    *)
(* that one of the oldest Threads of them is the next to be done.          *)
(*                                                                         *)
(* A byte that a call writes is the number of the call.                    *)
(***************************************************************************)
EXTENDS Integers, FiniteSets, SequencesExt

CONSTANTS
    Files,      \* paths; the files exist
    Contents,   \* Contents[f]: what is in file f at first
    Calls,      \* what scripts call, each at most once
    Plans,      \* bound: which calls scripts make in a run
    Fds,        \* bound: descriptors the process may have
    Threads,    \* threads of the pool
    ChunkSize,  \* bytes that copyFile reads at once
    MaxFaults   \* bound: system calls that fail or write less than asked

PathOps == {"readFile", "readFilePromise", "writeFile", "appendFile", "copyFile", "truncate", "open"}
HandleOps == {"handle.read", "handle.write", "handle.readFile", "handle.close"}
Modes == SUBSET {"read", "write", "append", "trunc"}

\* dest is for copyFile, mode for open, and handle is the open() of the
\* FileHandle.  from: where a handle reads and writes, or Current.
Current == -1
CallPlans ==
    [op : PathOps \cup HandleOps, path : Files, dest : Files, mode : Modes, handle : Calls, from : {0, Current}]

ASSUME FilesAssumption ==
    /\ Contents \in [Files -> Seq(Nat)]
    /\ Calls \subseteq Nat \ {0} /\ Fds \subseteq Nat \ {0} /\ IsFiniteSet(Fds)
    /\ Plans \subseteq [Calls -> CallPlans]
    /\ Threads \in Nat \ {0} /\ ChunkSize \in Nat \ {0} /\ MaxFaults \in Nat

VARIABLES
    plan,     \* the calls of this run
    at,       \* at[c]: the callback that the call waits for
    work,     \* work[c]: the fields of the call's work structure
    req,      \* req[c]: its request
    handle,   \* handle[c]: the FileHandle made by an open()
    queue,    \* requests that are not done
    done,     \* requests whose callbacks are to come
    table,    \* table[d]: the process's descriptors
    content,  \* content[f]: what is in file f
    faults,   \* how many system calls failed or were short (bound)
    strays,   \* system calls on a descriptor that was not the caller's (history)
    disturbed,\* calls whose files others have changed under way (history)
    cut,      \* calls that a system call wrote less for than asked (history)
    answer    \* answer[c]: what the call's callback or promise was given

poolVars == <<req, queue, done>>
kernelVars == <<table, content, strays, disturbed, cut>>
vars == <<plan, at, work, handle, poolVars, kernelVars, faults, answer>>

Unasked == "unasked"
Answered == "answered"
Steps == {Unasked, "open", "openDest", "fstat", "read", "write", "ftruncate", "closeDest", "close", Answered}

\* In the code fd and dest are the fields flags and mode of some operations.
Works == [fd : Nat, dest : Nat, size : Nat, offset : Nat, buffer : Seq(Nat)]
NoWork == [fd |-> 0, dest |-> 0, size |-> 0, offset |-> 0, buffer |-> <<>>]

Systems == {"open", "fstat", "read", "write", "ftruncate", "close"}

\* pos is an offset or Current; n the bytes asked for, later those done, the
\* descriptor opened or the size found.
Requests ==
    [sys : Systems, fd : Nat, file : Files, mode : Modes,
     pos : Nat \cup {Current}, n : Nat, buf : Seq(Nat), ok : BOOLEAN]

NoReq == [sys |-> "none"]
Free == [of |-> 0]
Descriptions == [of : Calls, file : Files, mode : Modes, pos : Nat]

\* FileHandles; dropped: the object has been collected.
Handles == [state : {"none", "open", "closed", "dropped"}, fd : Nat]

\* An error names the system call that failed.
Answers == [ok : BOOLEAN, data : Seq(Nat), sys : Systems \cup {"none"}]
NoAnswer == [ok |-> FALSE, data |-> <<>>, sys |-> "none"]

\* The variables have their types.
TypeOK ==
    /\ plan \in Plans
    /\ at \in [Calls -> Steps]
    /\ work \in [Calls -> Works]
    /\ req \in [Calls -> Requests \cup {NoReq}]
    /\ handle \in [Calls -> Handles]
    /\ queue \in Seq(Calls) /\ done \in Seq(Calls)
    /\ table \in [Fds -> Descriptions \cup {Free}]
    /\ content \in [Files -> Seq(Nat)]
    /\ faults \in 0..MaxFaults
    /\ strays \subseteq (Calls \X {"fstat", "read", "write", "ftruncate", "close"})
    /\ disturbed \subseteq Calls /\ cut \subseteq Calls
    /\ answer \in [Calls -> Answers]

\* Bytes nobody wrote: a hole in a file, or what malloc() left in a buffer.
Garbage == 0

Data(c) == <<c, c>>

OpenOf(file, mode) ==
    [sys |-> "open", fd |-> 0, file |-> file, mode |-> mode, pos |-> 0, n |-> 0, buf |-> <<>>, ok |-> TRUE]

\* A request on descriptor d; file and mode are those of the descriptor.
On(sys, d, pos, n, buf) ==
    [sys |-> sys, fd |-> d, file |-> CHOOSE f \in Files : TRUE, mode |-> {}, pos |-> pos, n |-> n, buf |-> buf, ok |-> TRUE]

Fstat(d) == On("fstat", d, 0, 0, <<>>)
Read(d, pos, n) == On("read", d, pos, n, <<>>)
Write(d, pos, buf) == On("write", d, pos, Len(buf), buf)
Close(d) == On("close", d, 0, 0, <<>>)

Init ==
    /\ plan \in Plans
    /\ at = [c \in Calls |-> Unasked]
    /\ work = [c \in Calls |-> NoWork]
    /\ req = [c \in Calls |-> NoReq]
    /\ handle = [c \in Calls |-> [state |-> "none", fd |-> 0]]
    /\ queue = <<>> /\ done = <<>>
    /\ table = [d \in Fds |-> Free]
    /\ content = Contents
    /\ faults = 0
    /\ strays = {} /\ disturbed = {} /\ cut = {}
    /\ answer = [c \in Calls |-> NoAnswer]

UnderWay(c) == at[c] \notin {Unasked, Answered}

-----------------------------------------------------------------------------
(* The kernel and the threads.                                             *)

Opener(c) == IF plan[c].op \in HandleOps THEN plan[c].handle ELSE c

Strays(c, sys, ds) == IF \E d \in ds : table[d].of # Opener(c) THEN strays \cup {<<c, sys>>} ELSE strays

\* What is appended stays whole when others append as well.
Disturbed(c, f) ==
    disturbed \cup {o \in Calls \ {c} :
        UnderWay(o) /\ f \in {plan[o].path, plan[o].dest} /\ {plan[o].op, plan[c].op} # {"appendFile"}}

\* A thread is done with the request.
Performed(c) ==
    /\ \E k \in DOMAIN queue : k <= Threads /\ queue[k] = c /\ queue' = RemoveAt(queue, k)
    /\ done' = Append(done, c)
    /\ UNCHANGED <<plan, at, work, handle, answer>>

SysOpen(c) ==
    LET f == req[c].file
        free == {d \in Fds : table[d] = Free}
        d == CHOOSE x \in free : \A y \in free : x <= y
    IN  /\ req[c].sys = "open" /\ free # {}
        /\ table' = [table EXCEPT ![d] = [of |-> c, file |-> f, mode |-> req[c].mode, pos |-> 0]]
        /\ req' = [req EXCEPT ![c].n = d]
        /\ IF "trunc" \in req[c].mode
           THEN content' = [content EXCEPT ![f] = <<>>] /\ disturbed' = Disturbed(c, f)
           ELSE UNCHANGED <<content, disturbed>>
        /\ UNCHANGED <<faults, strays, cut>>

\* What the system calls below act on.
Descriptor(c, sys, mode) ==
    /\ req[c].sys = sys
    /\ table[req[c].fd] # Free /\ mode \subseteq table[req[c].fd].mode
    /\ strays' = Strays(c, sys, {req[c].fd})

SysFstat(c) ==
    /\ Descriptor(c, "fstat", {})
    /\ req' = [req EXCEPT ![c].n = Len(content[table[req[c].fd].file])]
    /\ UNCHANGED <<table, content, faults, disturbed, cut>>

\* read() or pread().
SysRead(c) ==
    LET d == req[c].fd
        old == content[table[d].file]
        from == IF req[c].pos = Current THEN table[d].pos ELSE req[c].pos
        buf == SubSeq(old, from + 1, IF from + req[c].n < Len(old) THEN from + req[c].n ELSE Len(old))
    IN  /\ Descriptor(c, "read", {"read"})
        /\ req' = [req EXCEPT ![c].n = Len(buf), ![c].buf = buf]
        /\ table' = IF req[c].pos = Current THEN [table EXCEPT ![d].pos = @ + Len(buf)] ELSE table
        /\ UNCHANGED <<content, faults, disturbed, cut>>

\* write() or pwrite() of n bytes; fewer when the disk is full.
SysWrite(c, n) ==
    LET d == req[c].fd
        f == table[d].file
        old == content[f]
        from == IF "append" \in table[d].mode THEN Len(old)
                ELSE IF req[c].pos = Current THEN table[d].pos ELSE req[c].pos
        last == IF from + n > Len(old) THEN from + n ELSE Len(old)
        Byte(i) == IF i > from /\ i <= from + n THEN req[c].buf[i - from] ELSE IF i <= Len(old) THEN old[i] ELSE Garbage
    IN  /\ Descriptor(c, "write", {"write"})
        /\ req' = [req EXCEPT ![c].n = n]
        /\ content' = [content EXCEPT ![f] = [i \in 1..last |-> Byte(i)]]
        /\ table' = IF req[c].pos = Current THEN [table EXCEPT ![d].pos = from + n] ELSE table
        /\ disturbed' = Disturbed(c, f)
        /\ \/ n = req[c].n /\ UNCHANGED <<faults, cut>>
           \/ n < req[c].n /\ faults < MaxFaults /\ faults' = faults + 1 /\ cut' = cut \cup {c}

SysFtruncate(c) ==
    LET f == table[req[c].fd].file
    IN  /\ Descriptor(c, "ftruncate", {"write"})
        /\ content' = [content EXCEPT ![f] = SubSeq(@, 1, req[c].n)]
        /\ disturbed' = Disturbed(c, f)
        /\ UNCHANGED <<req, table, faults, cut>>

SysClose(c) ==
    /\ Descriptor(c, "close", {})
    /\ table' = [table EXCEPT ![req[c].fd] = Free]
    /\ UNCHANGED <<req, content, faults, disturbed, cut>>

\* EMFILE, EBADF.
SysRefused(c) ==
    LET d == req[c].fd
    IN  /\ \/ req[c].sys = "open" /\ \A x \in Fds : table[x] # Free
           \/ req[c].sys # "open" /\ table[d] = Free
           \/ req[c].sys = "read" /\ table[d] # Free /\ "read" \notin table[d].mode
           \/ req[c].sys \in {"write", "ftruncate"} /\ table[d] # Free /\ "write" \notin table[d].mode
        /\ req' = [req EXCEPT ![c].ok = FALSE]
        /\ strays' = IF req[c].sys = "open" THEN strays ELSE Strays(c, req[c].sys, {d})
        /\ UNCHANGED <<table, content, faults, disturbed, cut>>

\* The disk or the file system has an error.
SysFails(c) ==
    /\ req[c].sys # "close" /\ faults < MaxFaults
    /\ faults' = faults + 1
    /\ req' = [req EXCEPT ![c].ok = FALSE]
    /\ UNCHANGED <<table, content, strays, disturbed, cut>>

ThreadStep ==
    \E c \in Calls :
        /\ Performed(c)
        /\ \/ SysOpen(c) \/ SysFstat(c) \/ SysRead(c) \/ SysFtruncate(c) \/ SysClose(c)
           \/ \E n \in 1..req[c].n : SysWrite(c, n)
           \/ SysRefused(c) \/ SysFails(c)

-----------------------------------------------------------------------------
(* Scripts and callbacks.                                                  *)

\* fs.truncate() is between two of its system calls, with the loop's thread.
Truncating(c) == plan[c].op = "truncate" /\ work[c].fd # 0
LoopFree == \A c \in Calls : ~Truncating(c)

Called(c, ops) == LoopFree /\ at[c] = Unasked /\ plan[c].op \in ops

\* The loop is at the callback `step' of the request that was done first.
Callback(c, ops, step) ==
    /\ LoopFree /\ done # <<>> /\ c = Head(done) /\ plan[c].op \in ops /\ at[c] = step
    /\ done' = Tail(done)

\* A request is queued; its callback is the one named step.
Ask(c, r, step) ==
    /\ req' = [req EXCEPT ![c] = r]
    /\ queue' = Append(queue, c)
    /\ at' = [at EXCEPT ![c] = step]

\* The script's callback is called, or the promise settled, and work freed.
Answer(c, ok, data) ==
    /\ at' = [at EXCEPT ![c] = Answered]
    /\ work' = [work EXCEPT ![c] = NoWork]
    /\ req' = [req EXCEPT ![c] = NoReq]
    /\ answer' = [answer EXCEPT ![c] = [ok |-> ok, data |-> data, sys |-> req[c].sys]]

\* uv_fs_close() without a callback: the loop's thread makes the call itself.
CloseNow(c, ds) ==
    /\ table' = [d \in Fds |-> IF d \in ds THEN Free ELSE table[d]]
    /\ strays' = Strays(c, "close", ds)

Fails(c, ds) ==
    /\ ~req[c].ok
    /\ CloseNow(c, ds)
    /\ Answer(c, FALSE, <<>>)
    /\ UNCHANGED <<plan, handle, queue, content, disturbed, cut, faults>>

\* The next request of the call.
Continues(c, r, step) ==
    /\ Ask(c, r, step)
    /\ UNCHANGED <<plan, handle, kernelVars, faults, answer>>

\* The last callback has nothing left to close.
Completes(c, data) ==
    /\ Answer(c, TRUE, data)
    /\ UNCHANGED <<plan, handle, queue, kernelVars, faults>>

Asked == UNCHANGED <<plan, work, handle, done, kernelVars, faults, answer>>

ReadOps == {"readFile", "readFilePromise"}

\* fs.readFile() and fs.promises.readFile().
ReadFile(c) ==
    /\ Called(c, ReadOps)
    /\ Ask(c, OpenOf(plan[c].path, {"read"}), "open")
    /\ Asked

\* readfile_open_cb.
ReadfileOpened(c) ==
    /\ Callback(c, ReadOps, "open")
    /\ \/ Fails(c, {})
       \/ /\ req[c].ok
          /\ work' = [work EXCEPT ![c].fd = req[c].n]
          /\ Continues(c, Fstat(req[c].n), "fstat")

\* readfile_fstat_cb; nothing is read from an empty file, but asked for.
ReadfileStated(c) ==
    /\ Callback(c, {"readFile"}, "fstat")
    /\ \/ Fails(c, {work[c].fd})
       \/ /\ req[c].ok
          /\ work' = [work EXCEPT ![c].size = req[c].n]
          /\ Continues(c, Read(work[c].fd, 0, req[c].n), "read")

\* readfile_read_cb, which leaves the descriptor open when it fails.
ReadfileRead(c) ==
    /\ Callback(c, {"readFile"}, "read")
    /\ \/ Fails(c, {})
       \/ /\ req[c].ok
          /\ work' = [work EXCEPT ![c].buffer = req[c].buf]
          /\ Continues(c, Close(work[c].fd), "close")

\* What readfile_promise_stat_cb does about a file with something in it.
ReadsAll(c) ==
    /\ req[c].ok /\ req[c].n > 0
    /\ work' = [work EXCEPT ![c].size = req[c].n]
    /\ Continues(c, Read(work[c].fd, 0, req[c].n), "read")

\* Mutant of ReadfilePromiseStated: nobody goes on after an empty file.
PromiseStatedForgets(c) ==
    /\ Callback(c, {"readFilePromise"}, "fstat")
    /\ \/ Fails(c, {work[c].fd})
       \/ /\ req[c].ok /\ req[c].n = 0
          /\ UNCHANGED <<plan, at, work, handle, req, queue, kernelVars, faults, answer>>
       \/ ReadsAll(c)

ReadfilePromiseStated(c) ==
    /\ Callback(c, {"readFilePromise"}, "fstat")
    /\ \/ Fails(c, {work[c].fd})
       \/ /\ req[c].ok /\ req[c].n = 0
          /\ Continues(c, Close(work[c].fd), "close") /\ UNCHANGED work
       \/ ReadsAll(c)

\* Mutant of ReadfilePromiseRead: the error return does not close.
PromiseReadLeaks(c) ==
    /\ Callback(c, {"readFilePromise"}, "read")
    /\ \/ Fails(c, {})
       \/ /\ req[c].ok
          /\ work' = [work EXCEPT ![c].buffer = req[c].buf]
          /\ Continues(c, Close(work[c].fd), "close")

ReadfilePromiseRead(c) ==
    /\ Callback(c, {"readFilePromise"}, "read")
    /\ \/ Fails(c, {work[c].fd})
       \/ /\ req[c].ok
          /\ work' = [work EXCEPT ![c].buffer = req[c].buf]
          /\ Continues(c, Close(work[c].fd), "close")

\* readfile_close_cb, readfile_promise_close_cb.
ReadfileClosed(c) == Callback(c, ReadOps, "close") /\ Completes(c, work[c].buffer)

WriteOps == {"writeFile", "appendFile"}

\* writeFile() and appendFile(), of fs and of fs.promises alike.
WriteFile(c) ==
    /\ Called(c, {"writeFile"})
    /\ Ask(c, OpenOf(plan[c].path, {"write", "trunc"}), "open")
    /\ Asked

AppendFile(c) ==
    /\ Called(c, {"appendFile"})
    /\ Ask(c, OpenOf(plan[c].path, {"write", "append"}), "open")
    /\ Asked

\* writefile_open_cb, appendfile_open_cb: the place to write to.
WritesAt(c, from) ==
    \/ Fails(c, {})
    \/ /\ req[c].ok
       /\ work' = [work EXCEPT ![c].fd = req[c].n]
       /\ Continues(c, Write(req[c].n, from, Data(c)), "write")

WritefileOpened(c) == Callback(c, {"writeFile"}, "open") /\ WritesAt(c, 0)
AppendfileOpened(c) == Callback(c, {"appendFile"}, "open") /\ WritesAt(c, Current)

\* Whether all was written is not looked at.
WritefileWritten(c) ==
    /\ Callback(c, WriteOps, "write")
    /\ \/ Fails(c, {work[c].fd})
       \/ req[c].ok /\ Continues(c, Close(work[c].fd), "close") /\ UNCHANGED work

WritefileClosed(c) == Callback(c, WriteOps, "close") /\ Completes(c, <<>>)

\* fs.copyFile(): both files are opened, then copied chunk by chunk.
CopyFile(c) ==
    /\ Called(c, {"copyFile"})
    /\ Ask(c, OpenOf(plan[c].path, {"read"}), "open")
    /\ Asked

CopyfileOpenedSrc(c) ==
    /\ Callback(c, {"copyFile"}, "open")
    /\ \/ Fails(c, {})
       \/ /\ req[c].ok
          /\ work' = [work EXCEPT ![c].fd = req[c].n]
          /\ Continues(c, OpenOf(plan[c].dest, {"write", "trunc"}), "openDest")

CopyfileOpenedDest(c) ==
    /\ Callback(c, {"copyFile"}, "openDest")
    /\ \/ Fails(c, {work[c].fd})
       \/ /\ req[c].ok
          /\ work' = [work EXCEPT ![c].dest = req[c].n]
          /\ Continues(c, Fstat(work[c].fd), "fstat")

CopyfileStated(c) ==
    /\ Callback(c, {"copyFile"}, "fstat")
    /\ \/ Fails(c, {work[c].dest, work[c].fd})
       \/ /\ req[c].ok
          /\ work' = [work EXCEPT ![c].size = req[c].n, ![c].offset = 0]
          /\ Continues(c, Read(work[c].fd, 0, ChunkSize), "read")

\* Mutant of CopyfileRead: a short read is taken for the end of the file.
CopyfileReadShort(c) ==
    /\ Callback(c, {"copyFile"}, "read")
    /\ \/ Fails(c, {work[c].dest, work[c].fd})
       \/ /\ req[c].ok /\ req[c].n < ChunkSize
          /\ Continues(c, Close(work[c].dest), "closeDest") /\ UNCHANGED work
       \/ /\ req[c].ok /\ req[c].n = ChunkSize
          /\ work' = [work EXCEPT ![c].offset = @ + req[c].n]
          /\ Continues(c, Write(work[c].dest, Current, req[c].buf), "write")

CopyfileRead(c) ==
    /\ Callback(c, {"copyFile"}, "read")
    /\ \/ Fails(c, {work[c].dest, work[c].fd})
       \/ req[c].ok /\ req[c].n = 0 /\ Continues(c, Close(work[c].dest), "closeDest") /\ UNCHANGED work
       \/ /\ req[c].ok /\ req[c].n > 0
          /\ work' = [work EXCEPT ![c].offset = @ + req[c].n]
          /\ Continues(c, Write(work[c].dest, Current, req[c].buf), "write")

CopyfileWritten(c) ==
    /\ Callback(c, {"copyFile"}, "write")
    /\ \/ Fails(c, {work[c].dest, work[c].fd})
       \/ req[c].ok /\ Continues(c, Read(work[c].fd, work[c].offset, ChunkSize), "read") /\ UNCHANGED work

CopyfileClosedDest(c) ==
    /\ Callback(c, {"copyFile"}, "closeDest")
    /\ Continues(c, Close(work[c].fd), "close") /\ UNCHANGED work

CopyfileCleanup(c) == Callback(c, {"copyFile"}, "close") /\ Completes(c, <<>>)

\* fs.truncate() opens the file, queues the ftruncate() and then closes the
\* descriptor without waiting for it.
Truncate(c) ==
    LET free == {d \in Fds : table[d] = Free}
        d == CHOOSE x \in free : \A y \in free : x <= y
    IN  /\ Called(c, {"truncate"})
        /\ free # {}
        /\ table' = [table EXCEPT ![d] = [of |-> c, file |-> plan[c].path, mode |-> {"write"}, pos |-> 0]]
        /\ work' = [work EXCEPT ![c].fd = d]
        /\ Ask(c, On("ftruncate", d, 0, 0, <<>>), "ftruncate")
        /\ UNCHANGED <<plan, handle, done, content, strays, disturbed, cut, faults, answer>>

TruncateFails(c) ==
    /\ Called(c, {"truncate"})
    /\ IF \A d \in Fds : table[d] # Free THEN UNCHANGED faults ELSE faults < MaxFaults /\ faults' = faults + 1
    /\ Answer(c, FALSE, <<>>)
    /\ UNCHANGED <<plan, handle, queue, done, kernelVars>>

TruncateCloses(c) ==
    /\ Truncating(c)
    /\ CloseNow(c, {work[c].fd})
    /\ work' = [work EXCEPT ![c].fd = 0]
    /\ UNCHANGED <<plan, at, handle, poolVars, content, disturbed, cut, faults, answer>>

TruncateCompleted(c) ==
    /\ Callback(c, {"truncate"}, "ftruncate")
    /\ Fails(c, {}) \/ (req[c].ok /\ Completes(c, <<>>))

\* fs.promises.open().
Open(c) ==
    /\ Called(c, {"open"})
    /\ Ask(c, OpenOf(plan[c].path, plan[c].mode), "open")
    /\ Asked

\* fs_promise_complete_fd.
OpenCompleted(c) ==
    /\ Callback(c, {"open"}, "open")
    /\ \/ Fails(c, {})
       \/ /\ req[c].ok
          /\ handle' = [handle EXCEPT ![c] = [state |-> "open", fd |-> req[c].n]]
          /\ Answer(c, TRUE, <<>>)
          /\ UNCHANGED <<plan, queue, kernelVars, faults>>

\* A method of the FileHandle is called; if that is closed, it throws.
Method(c, op) == Called(c, {op}) /\ handle[plan[c].handle].state = "open"

FdOf(c) == handle[plan[c].handle].fd

HandleRead(c) ==
    /\ Method(c, "handle.read")
    /\ Ask(c, Read(FdOf(c), plan[c].from, Len(Data(c))), "read")
    /\ Asked

\* write() and appendFile() at the current position, writeFile() at 0.
HandleWrite(c) ==
    /\ Method(c, "handle.write")
    /\ Ask(c, Write(FdOf(c), plan[c].from, Data(c)), "write")
    /\ Asked

HandleReadFile(c) ==
    /\ Method(c, "handle.readFile")
    /\ work' = [work EXCEPT ![c].fd = FdOf(c)]
    /\ Ask(c, Fstat(FdOf(c)), "fstat")
    /\ UNCHANGED <<plan, handle, done, kernelVars, faults, answer>>

HandleReadfileStated(c) ==
    /\ Callback(c, {"handle.readFile"}, "fstat")
    /\ \/ Fails(c, {})
       \/ req[c].ok /\ req[c].n = 0 /\ Completes(c, <<>>)
       \/ /\ req[c].ok /\ req[c].n > 0
          /\ work' = [work EXCEPT ![c].size = req[c].n]
          /\ Continues(c, Read(work[c].fd, 0, req[c].n), "read")

\* The promise is given the whole buffer, however much of it was read.
HandleReadfileRead(c) ==
    /\ Callback(c, {"handle.readFile"}, "read")
    /\ \/ Fails(c, {})
       \/ /\ req[c].ok
          /\ Completes(c, [i \in 1..work[c].size |-> IF i <= req[c].n THEN req[c].buf[i] ELSE Garbage])

\* filehandle_read_cb, filehandle_write_cb.
HandleCompleted(c) ==
    /\ Callback(c, {"handle.read"}, "read") \/ Callback(c, {"handle.write"}, "write")
    /\ Fails(c, {}) \/ (req[c].ok /\ Completes(c, req[c].buf))

\* Mutant of HandleClose: the handle is not marked before the request is made.
HandleCloseLate(c) ==
    LET h == plan[c].handle
    IN  /\ Called(c, {"handle.close"}) /\ handle[h].state = "open"
        /\ Ask(c, Close(handle[h].fd), "close")
        /\ UNCHANGED <<plan, work, handle, done, kernelVars, faults, answer>>

\* close() marks the handle before the request is made, and does nothing if it
\* was called before.
HandleClose(c) ==
    LET h == plan[c].handle
    IN  /\ Called(c, {"handle.close"})
        /\ \/ /\ handle[h].state = "open"
              /\ handle' = [handle EXCEPT ![h].state = "closed"]
              /\ Ask(c, Close(handle[h].fd), "close")
              /\ UNCHANGED <<plan, work, done, kernelVars, faults, answer>>
           \/ /\ handle[h].state = "closed"
              /\ Answer(c, TRUE, <<>>)
              /\ UNCHANGED <<plan, handle, queue, done, kernelVars, faults>>

HandleClosed(c) ==
    /\ Callback(c, {"handle.close"}, "close")
    /\ Fails(c, {}) \/ (req[c].ok /\ Completes(c, <<>>))

\* The script has dropped the FileHandle.  Its requests do not hold it.
Finalize(h) ==
    /\ LoopFree /\ handle[h].state \in {"open", "closed"}
    /\ CloseNow(h, IF handle[h].state = "open" THEN {handle[h].fd} ELSE {})
    /\ handle' = [handle EXCEPT ![h].state = "dropped"]
    /\ UNCHANGED <<plan, at, work, poolVars, content, disturbed, cut, faults, answer>>

ScriptStep ==
    \E c \in Calls :
        \/ ReadFile(c) \/ WriteFile(c) \/ AppendFile(c) \/ CopyFile(c) \/ Truncate(c) \/ TruncateFails(c) \/ Open(c)
        \/ HandleRead(c) \/ HandleWrite(c) \/ HandleReadFile(c) \/ HandleClose(c)
        \/ Finalize(c)

LoopStep ==
    \E c \in Calls :
        \/ ReadfileOpened(c) \/ ReadfileStated(c) \/ ReadfileRead(c) \/ ReadfileClosed(c)
        \/ ReadfilePromiseStated(c) \/ ReadfilePromiseRead(c)
        \/ WritefileOpened(c) \/ AppendfileOpened(c) \/ WritefileWritten(c) \/ WritefileClosed(c)
        \/ CopyfileOpenedSrc(c) \/ CopyfileOpenedDest(c) \/ CopyfileStated(c) \/ CopyfileRead(c)
        \/ CopyfileWritten(c) \/ CopyfileClosedDest(c) \/ CopyfileCleanup(c)
        \/ TruncateCloses(c) \/ TruncateCompleted(c)
        \/ OpenCompleted(c) \/ HandleReadfileStated(c) \/ HandleReadfileRead(c)
        \/ HandleCompleted(c) \/ HandleClosed(c)

Next == ScriptStep \/ LoopStep \/ ThreadStep

\* The threads and the loop go on; scripts do as they like.
Spec == Init /\ [][Next]_vars /\ WF_vars(ThreadStep) /\ WF_vars(LoopStep)

-----------------------------------------------------------------------------
(* Properties.                                                             *)

\* A system call acts on the file that its caller opened, whatever is opened
\* and closed meanwhile; but for the ftruncate() of fs.truncate(), and requests
\* of a FileHandle that is closed or dropped while they are under way.  And
\* nobody ever closes a descriptor of somebody else.
OwnDescriptors ==
    \A s \in strays :
        LET c == s[1]
        IN  /\ s[2] # "close"
            /\ \/ plan[c].op = "truncate"
               \/ plan[c].op \in HandleOps /\ handle[plan[c].handle].state \in {"closed", "dropped"}

\* A descriptor is open only as long as the call that opened it is under way,
\* or its FileHandle is open or about to be closed; but for a readFile() of the
\* callback API whose read() failed.  Thus it is closed before the script hears
\* of the result.
NoneLeaked ==
    \A d \in Fds :
        LET c == table[d].of
        IN  table[d] # Free =>
                \/ UnderWay(c)
                \/ handle[c].state = "open"
                \/ \E k \in Calls : plan[k].op = "handle.close" /\ plan[k].handle = c /\ at[k] = "close"
                \/ plan[c].op = "readFile" /\ ~answer[c].ok /\ answer[c].sys = "read"

\* What a call reports is so, if nobody else changed its files under way and
\* none of its system calls was short: the data is the file's, the copy is like
\* the original, the file is what was written to it.  What was appended is in
\* the file, in one piece, even if others append to it meanwhile.
AnsweredTruly ==
    [][\A c \in Calls :
          at'[c] = Answered /\ UnderWay(c) /\ answer'[c].ok /\ c \notin disturbed \cup cut =>
              LET file == content[plan[c].path]
              IN  CASE plan[c].op \in ReadOps    -> answer'[c].data = file
                    [] plan[c].op = "copyFile"   -> content[plan[c].dest] = file
                    [] plan[c].op = "writeFile"  -> file = Data(c)
                    [] plan[c].op = "appendFile" -> \E i \in DOMAIN file : SubSeq(file, i, i + 1) = Data(c)
                    [] OTHER                     -> TRUE]_vars

\* Every call is answered; scripts make only so many.
AllAnswered == (\E c \in Calls : UnderWay(c)) ~> (\A c \in Calls : ~UnderWay(c))

=============================================================================
