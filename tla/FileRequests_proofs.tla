-------------------------- MODULE FileRequests_proofs --------------------------
(***************************************************************************)
(* Proofs about FileRequests, for any files, plans, descriptors, threads   *)
(* and faults.  IInv says which descriptors each call has to see closed    *)
(* (Keeps), at each of its callbacks: every open descriptor has one such   *)
(* call or FileHandle, that of its opener, but for those that the callback *)
(* of readFile() gives up.  A step is a step of one call (CallSteps): it   *)
(* may open descriptors that were free and close what the call keeps, so   *)
(* it cannot get into the way of another; only close() of a FileHandle     *)
(* hands a descriptor on, from the handle to the call.                     *)
(*                                                                         *)
(* What the invariant says of requests needs the pool's two lists to hold  *)
(* the calls under way, each once.                                         *)
(*                                                                         *)
(* TInv says, for a call whose files nobody else changed, how far it has   *)
(* come: what has been read, written or copied at each of its callbacks.   *)
(* A step of another call disturbs it or does not show (Unseen), since     *)
(* what it changes of descriptors is none that the call keeps.             *)
(***************************************************************************)
EXTENDS FileRequests, SequenceTheorems, NaturalsInduction, WellFoundedInduction, TLAPS

-----------------------------------------------------------------------------
(* What holds of each call.                                                *)

OnHandle(c) == plan[c].op \in HandleOps
Queued(c) == c \in ToSet(queue)
Back(c) == c \in ToSet(done)
Injective(s) == \A j, k \in DOMAIN s : s[j] = s[k] => j = k

\* Records keep their fields; 0 is no call and no descriptor.
Shapes ==
    /\ 0 \notin Calls /\ Fds \subseteq Nat \ {0}
    /\ plan \in [Calls -> CallPlans]
    /\ DOMAIN at = Calls /\ DOMAIN work = Calls /\ DOMAIN req = Calls /\ DOMAIN answer = Calls
    /\ \A c \in Calls : DOMAIN work[c] = {"fd", "dest", "size", "offset", "buffer"}
    /\ \A c \in Calls : UnderWay(c) => DOMAIN req[c] = {"sys", "fd", "file", "mode", "pos", "n", "buf", "ok"}
    /\ handle \in [Calls -> [state : {"none", "open", "closed", "dropped"}, fd : Fds \cup {0}]]

\* A descriptor is free or some call's.
Descriptors ==
    /\ DOMAIN table = Fds
    /\ \A d \in Fds : /\ "of" \in DOMAIN table[d] /\ table[d].of \in Calls \cup {0}
                      /\ table[d].of = 0 <=> table[d] = Free

\* A call under way has one request, in the queue or done.
PoolOK ==
    /\ queue \in Seq(Calls) /\ done \in Seq(Calls) /\ Injective(queue) /\ Injective(done)
    /\ \A c \in Calls : (UnderWay(c) <=> Queued(c) \/ Back(c)) /\ ~(Queued(c) /\ Back(c))

\* The callbacks that an operation goes through, and the request of each.
StepOK(c) ==
    /\ Truncating(c) => UnderWay(c)
    /\ UnderWay(c) =>
        /\ \/ plan[c].op \in ReadOps /\ at[c] \in {"open", "fstat", "read", "close"}
           \/ plan[c].op \in WriteOps /\ at[c] \in {"open", "write", "close"}
           \/ plan[c].op = "copyFile" /\ at[c] \in {"open", "openDest", "fstat", "read", "write", "closeDest", "close"}
           \/ plan[c].op = "truncate" /\ at[c] = "ftruncate"
           \/ plan[c].op = "open" /\ at[c] = "open"
           \/ plan[c].op = "handle.read" /\ at[c] = "read"
           \/ plan[c].op = "handle.write" /\ at[c] = "write"
           \/ plan[c].op = "handle.readFile" /\ at[c] \in {"fstat", "read"}
           \/ plan[c].op = "handle.close" /\ at[c] = "close"
        /\ req[c].sys = IF at[c] \in {"open", "openDest"} THEN "open"
                        ELSE IF at[c] \in {"close", "closeDest"} THEN "close" ELSE at[c]

\* A queued request has not failed, and names the descriptor that the call, or its FileHandle, opened.
RequestOK(c) ==
    Queued(c) =>
        /\ req[c].ok
        /\ OnHandle(c) => req[c].fd = handle[plan[c].handle].fd
        /\ ~OnHandle(c) /\ (at[c] = "closeDest" \/ (at[c] = "write" /\ plan[c].op = "copyFile")) => req[c].fd = work[c].dest
        /\ ~OnHandle(c) /\ (at[c] \in {"fstat", "read", "close"} \/ (at[c] = "write" /\ plan[c].op # "copyFile"))
              => req[c].fd = work[c].fd

\* FileHandles come from open(), and methods from FileHandles.
HandleOK(c) ==
    /\ handle[c].state # "none" => plan[c].op = "open" /\ at[c] = Answered
    /\ OnHandle(c) /\ UnderWay(c) => handle[plan[c].handle].state # "none"
    /\ plan[c].op = "handle.readFile" /\ UnderWay(c) => work[c].fd = handle[plan[c].handle].fd
    /\ plan[c].op = "handle.close" /\ UnderWay(c) => handle[plan[c].handle].state # "open"

\* copyFile() has two descriptors.
Apart(c) ==
    plan[c].op = "copyFile" =>
        /\ at[c] = "openDest" /\ Back(c) /\ req[c].ok => req[c].n # work[c].fd
        /\ at[c] \in {"fstat", "read", "write", "closeDest"} => work[c].dest # work[c].fd

CallOK(c) == StepOK(c) /\ RequestOK(c) /\ HandleOK(c) /\ Apart(c)

\* Descriptor d is open, and it is for c to see that it is closed.
Keeps(c, d) ==
    \/ at[c] \in {"open", "openDest"} /\ Back(c) /\ req[c].ok /\ d = req[c].n
    \/ ~OnHandle(c) /\ at[c] \in {"openDest", "fstat", "read", "write", "closeDest"} /\ d = work[c].fd
    \/ plan[c].op = "copyFile" /\ at[c] \in {"fstat", "read", "write"} /\ d = work[c].dest
    \/ at[c] = "closeDest" /\ Queued(c) /\ d = work[c].dest
    \/ ~OnHandle(c) /\ at[c] = "close" /\ Queued(c) /\ d = work[c].fd
    \/ OnHandle(c) /\ at[c] = "close" /\ Queued(c) /\ d = req[c].fd
    \/ Truncating(c) /\ d = work[c].fd
    \/ handle[c].state = "open" /\ d = handle[c].fd

\* readfile_read_cb left its descriptor open.
GaveUp(c) == plan[c].op = "readFile" /\ at[c] = Answered /\ ~answer[c].ok /\ answer[c].sys = "read"

\* What is open is kept by one call, but for what nobody will close.
Kept ==
    /\ \A c \in Calls : \A d : Keeps(c, d) => d \in Fds /\ table[d].of = Opener(c)
    /\ \A c, k \in Calls : \A d : Keeps(c, d) /\ Keeps(k, d) => c = k
    /\ \A d \in Fds : table[d].of # 0 =>
          GaveUp(table[d].of) \/ \E k \in Calls : Keeps(k, d) /\ Opener(k) = table[d].of

\* A system call that may be on a descriptor of somebody else.
MayStray(c, sys) ==
    /\ c \in Calls /\ sys # "close"
    /\ \/ plan[c].op = "truncate"
       \/ OnHandle(c) /\ handle[plan[c].handle].state \in {"closed", "dropped"}

StraysOK == \A s \in strays : MayStray(s[1], s[2])

IInv == Shapes /\ Descriptors /\ PoolOK /\ (\A c \in Calls : CallOK(c)) /\ Kept /\ StraysOK

-----------------------------------------------------------------------------
(* Requests move from the queue to the list of those done, and out of it.  *)

\* A set of numbers has a least one.
LEMMA LeastNat ==
    ASSUME NEW T \in SUBSET Nat, T # {}
    PROVE  \E x \in T : \A y \in T : x <= y
<1>1. IsWellFoundedOn(OpToRel(<, Nat), Nat)
  BY NatLessThanWellFounded
<1>2. PICK x \in T : \A y \in T : ~(<<y, x>> \in OpToRel(<, Nat))
  BY <1>1, WFMin
<1>3. \A y \in T : ~(y < x)
  BY <1>2 DEF OpToRel
<1> QED BY <1>3

\* One more element at the end.
LEMMA Joined ==
    ASSUME NEW S, NEW s \in Seq(S), NEW e \in S, Injective(s), e \notin ToSet(s)
    PROVE  /\ Append(s, e) \in Seq(S) /\ Injective(Append(s, e))
           /\ \A x : x \in ToSet(Append(s, e)) <=> x \in ToSet(s) \/ x = e
<1>1. PICK n \in Nat, q \in Seq(S) : n = Len(s) /\ q = Append(s, e)
  BY LenProperties, AppendProperties
<1>2. /\ DOMAIN s = 1 .. n /\ DOMAIN q = 1 .. n + 1 /\ q[n + 1] = e
      /\ \A i \in 1 .. n : q[i] = s[i]
  BY <1>1, LenProperties, AppendProperties
<1>3. /\ \A i \in 1 .. n + 1 : i \in 1 .. n \/ i = n + 1
      /\ \A i \in 1 .. n : i \in 1 .. n + 1
      /\ n + 1 \in 1 .. n + 1
  OBVIOUS
<1>4. \A i \in 1 .. n : s[i] # e
  BY <1>2 DEF ToSet
<1>5. Injective(q)
  BY <1>2, <1>3, <1>4 DEF Injective
<1>6. \A x : x \in ToSet(q) <=> x \in ToSet(s) \/ x = e
  BY <1>2, <1>3 DEF ToSet
<1> QED BY <1>1, <1>5, <1>6

\* The k-th element less.
LEMMA Taken ==
    ASSUME NEW S, NEW s \in Seq(S), NEW k \in DOMAIN s, Injective(s)
    PROVE  /\ RemoveAt(s, k) \in Seq(S) /\ Injective(RemoveAt(s, k))
           /\ \A x : x \in ToSet(RemoveAt(s, k)) <=> x \in ToSet(s) /\ x # s[k]
<1>1. PICK n \in Nat : n = Len(s) /\ DOMAIN s = 1 .. n
  BY LenProperties
<1>2. \A i \in 1 .. n : s[i] \in S
  BY <1>1, ElementOfSeq
<1>3. k \in 1 .. n
  BY <1>1
<1> DEFINE a == SubSeq(s, 1, k - 1)
           b == SubSeq(s, k + 1, Len(s))
<1>4. a \in Seq(S) /\ Len(a) = k - 1 /\ \A i \in 1 .. k - 1 : a[i] = s[i]
  <2>1. \A i \in 1 .. k - 1 : s[i] \in S
    BY <1>2, <1>3
  <2> QED BY <1>1, <1>3, <2>1, SubSeqProperties
<1>5. b \in Seq(S) /\ Len(b) = n - k /\ \A i \in 1 .. n - k : b[i] = s[i + k]
  <2>1. \A i \in k + 1 .. n : s[i] \in S
    BY <1>2, <1>3
  <2>2. /\ b \in Seq(S)
        /\ Len(b) = IF k + 1 <= n THEN n - (k + 1) + 1 ELSE 0
        /\ \A i \in 1 .. n - (k + 1) + 1 : b[i] = s[(k + 1) + i - 1]
    BY <1>1, <1>3, <2>1, SubSeqProperties
  <2> HIDE DEF b
  <2>3. n - (k + 1) + 1 = n - k /\ (IF k + 1 <= n THEN n - (k + 1) + 1 ELSE 0) = n - k
    BY <1>3
  <2>4. \A i \in 1 .. n - k : (k + 1) + i - 1 = i + k
    BY <1>3
  <2> QED BY <2>2, <2>3, <2>4
<1>6. PICK q \in Seq(S) : q = RemoveAt(s, k) /\ q = a \o b
  BY <1>4, <1>5, ConcatProperties DEF RemoveAt
<1> HIDE DEF a, b
<1>7. /\ Len(q) = (k - 1) + (n - k)
      /\ \A i \in 1 .. (k - 1) + (n - k) : q[i] = IF i <= k - 1 THEN a[i] ELSE b[i - (k - 1)]
  BY <1>4, <1>5, <1>6, ConcatProperties
<1>8. DOMAIN q = 1 .. n - 1 /\ (k - 1) + (n - k) = n - 1
  BY <1>3, <1>7, LenProperties
<1>9. \A i \in 1 .. n - 1 : q[i] = IF i < k THEN s[i] ELSE s[i + 1]
  <2>1. ASSUME NEW i \in 1 .. n - 1, i < k PROVE q[i] = s[i]
    <3>1. i <= k - 1 /\ i \in 1 .. k - 1
      BY <1>3, <2>1
    <3> QED BY <1>4, <1>7, <1>8, <3>1
  <2>2. ASSUME NEW i \in 1 .. n - 1, ~(i < k) PROVE q[i] = s[i + 1]
    <3>1. ~(i <= k - 1) /\ i - (k - 1) \in 1 .. n - k /\ (i - (k - 1)) + k = i + 1
      BY <1>3, <2>2
    <3> QED BY <1>5, <1>7, <1>8, <3>1
  <2> QED BY <2>1, <2>2
<1>10. \A i \in 1 .. n - 1 : i \in 1 .. n /\ i + 1 \in 1 .. n /\ (i < k => i # k) /\ (~(i < k) => i + 1 # k)
  BY <1>3
<1>11. Injective(q)
  <2>1. ASSUME NEW i \in 1 .. n - 1, NEW j \in 1 .. n - 1, q[i] = q[j] PROVE i = j
    <3>1. (IF i < k THEN i ELSE i + 1) = (IF j < k THEN j ELSE j + 1)
      BY <1>1, <1>9, <1>10, <2>1 DEF Injective
    <3> QED BY <1>3, <3>1
  <2> QED BY <1>8, <2>1 DEF Injective
<1>12. ASSUME NEW x PROVE x \in ToSet(q) <=> x \in ToSet(s) /\ x # s[k]
  <2>1. ASSUME NEW i \in 1 .. n - 1, x = q[i] PROVE x \in ToSet(s) /\ x # s[k]
    <3>1. PICK j \in 1 .. n : j # k /\ x = s[j]
      BY <1>9, <1>10, <2>1
    <3> QED BY <1>1, <3>1 DEF ToSet, Injective
  <2>2. ASSUME NEW j \in 1 .. n, x = s[j], x # s[k] PROVE \E i \in 1 .. n - 1 : x = q[i]
    <3>1. CASE j < k
      <4>1. j \in 1 .. n - 1
        BY <1>3, <3>1
      <4> QED BY <1>9, <2>2, <3>1, <4>1
    <3>2. CASE ~(j < k)
      <4>1. j # k
        BY <2>2
      <4>2. j - 1 \in 1 .. n - 1 /\ ~(j - 1 < k) /\ (j - 1) + 1 = j
        BY <1>3, <3>2, <4>1
      <4> QED BY <1>9, <2>2, <4>2
    <3> QED BY <3>1, <3>2
  <2>3. x \in ToSet(q) <=> \E i \in 1 .. n - 1 : x = q[i]
    BY <1>8 DEF ToSet
  <2>4. x \in ToSet(s) <=> \E j \in 1 .. n : x = s[j]
    BY <1>1 DEF ToSet
  <2> QED BY <2>1, <2>2, <2>3, <2>4
<1> QED BY <1>6, <1>11, <1>12

\* The first element less.
LEMMA TakenFirst ==
    ASSUME NEW S, NEW s \in Seq(S), s # <<>>, Injective(s)
    PROVE  /\ Tail(s) \in Seq(S) /\ Injective(Tail(s)) /\ Head(s) \in ToSet(s) /\ Head(s) \in S
           /\ \A x : x \in ToSet(Tail(s)) <=> x \in ToSet(s) /\ x # Head(s)
<1>1. PICK n \in Nat : n + 1 = Len(s)
  <2>1. Len(s) \in Nat /\ Len(s) # 0
    BY EmptySeq, LenProperties
  <2>2. Len(s) - 1 \in Nat /\ (Len(s) - 1) + 1 = Len(s)
    BY <2>1
  <2> QED BY <2>2
<1>2. PICK t \in Seq(S) : /\ t = Tail(s) /\ DOMAIN t = 1 .. n /\ DOMAIN s = 1 .. n + 1
                          /\ \A i \in 1 .. n : t[i] = s[i + 1]
  <2>1. /\ Tail(s) \in Seq(S) /\ Len(Tail(s)) = Len(s) - 1 /\ \A i \in 1 .. Len(Tail(s)) : Tail(s)[i] = s[i + 1]
    BY HeadTailProperties
  <2>2. (n + 1) - 1 = n
    OBVIOUS
  <2> QED BY <1>1, <2>1, <2>2, LenProperties
<1>3. Head(s) = s[1] /\ Head(s) \in S
  BY HeadTailProperties
<1>4. /\ 1 \in 1 .. n + 1
      /\ \A i \in 1 .. n : i + 1 \in 1 .. n + 1 /\ i + 1 # 1
      /\ \A j \in 1 .. n + 1 : j = 1 \/ (j - 1 \in 1 .. n /\ (j - 1) + 1 = j)
      /\ \A i, j \in 1 .. n : i + 1 = j + 1 => i = j
  OBVIOUS
<1>5. Injective(t)
  BY <1>2, <1>4 DEF Injective
<1>6. \A x : x \in ToSet(t) <=> x \in ToSet(s) /\ x # s[1]
  <2>1. ASSUME NEW x, x \in ToSet(t) PROVE x \in ToSet(s) /\ x # s[1]
    <3>1. PICK i \in 1 .. n : x = s[i + 1]
      BY <1>2, <2>1 DEF ToSet
    <3>2. PICK j \in DOMAIN s : j = i + 1 /\ j # 1 /\ x = s[j]
      BY <1>2, <1>4, <3>1
    <3>3. s[j] # s[1]
      BY <1>2, <1>4, <3>2 DEF Injective
    <3> QED BY <3>2, <3>3 DEF ToSet
  <2>2. ASSUME NEW x, x \in ToSet(s), x # s[1] PROVE x \in ToSet(t)
    <3>1. PICK j \in 1 .. n + 1 : x = s[j] /\ j # 1
      BY <1>2, <2>2 DEF ToSet
    <3>2. PICK i \in 1 .. n : i = j - 1 /\ i + 1 = j
      BY <1>4, <3>1
    <3>3. i \in DOMAIN t /\ x = t[i]
      BY <1>2, <3>1, <3>2
    <3> QED BY <3>3 DEF ToSet
  <2> QED BY <2>1, <2>2
<1> QED BY <1>2, <1>3, <1>4, <1>5, <1>6 DEF ToSet

\* A call makes its first request.
LEMMA PoolStarts ==
    ASSUME PoolOK, NEW c \in Calls, ~UnderWay(c), queue' = Append(queue, c), done' = done,
           \A o \in Calls : UnderWay(o)' <=> UnderWay(o) \/ o = c
    PROVE  /\ PoolOK'
           /\ \A o \in Calls : (Queued(o)' <=> Queued(o) \/ o = c) /\ (Back(o)' <=> Back(o))
<1>1. ~Queued(c) /\ ~Back(c) /\ queue \in Seq(Calls) /\ Injective(queue) /\ c \notin ToSet(queue)
  BY DEF PoolOK, Queued
<1>2. PICK q \in Seq(Calls) : /\ q = Append(queue, c) /\ Injective(q)
                              /\ \A x : x \in ToSet(q) <=> x \in ToSet(queue) \/ x = c
  BY <1>1, Joined
<1>3. queue' = q
  BY <1>2
<1>4. \A o \in Calls : (Queued(o)' <=> Queued(o) \/ o = c) /\ (Back(o)' <=> Back(o))
  BY <1>2, <1>3 DEF Queued, Back
<1> QED BY <1>1, <1>2, <1>3, <1>4 DEF PoolOK

\* A callback makes the next request of its call.
LEMMA PoolGoesOn ==
    ASSUME PoolOK, NEW c \in Calls, done # <<>>, c = Head(done), done' = Tail(done), queue' = Append(queue, c),
           \A o \in Calls : UnderWay(o)' <=> UnderWay(o)
    PROVE  /\ PoolOK' /\ Back(c) /\ ~Queued(c)
           /\ \A o \in Calls : (Queued(o)' <=> Queued(o) \/ o = c) /\ (Back(o)' <=> Back(o) /\ o # c)
<1>1. PICK t \in Seq(Calls) : /\ t = Tail(done) /\ Injective(t) /\ c \in ToSet(done)
                              /\ \A x : x \in ToSet(t) <=> x \in ToSet(done) /\ x # c
  BY TakenFirst DEF PoolOK
<1>2. Back(c) /\ ~Queued(c) /\ queue \in Seq(Calls) /\ Injective(queue) /\ c \notin ToSet(queue)
  <2>1. Back(c)
    BY <1>1 DEF Back
  <2> QED BY <2>1 DEF PoolOK, Queued
<1>3. PICK q \in Seq(Calls) : /\ q = Append(queue, c) /\ Injective(q)
                              /\ \A x : x \in ToSet(q) <=> x \in ToSet(queue) \/ x = c
  <2>1. /\ Append(queue, c) \in Seq(Calls) /\ Injective(Append(queue, c))
        /\ \A x : x \in ToSet(Append(queue, c)) <=> x \in ToSet(queue) \/ x = c
    BY <1>2, Joined
  <2> QED BY <2>1
<1>4. queue' = q /\ done' = t
  BY <1>1, <1>3
<1>5. \A o \in Calls : (Queued(o)' <=> Queued(o) \/ o = c) /\ (Back(o)' <=> Back(o) /\ o # c)
  BY <1>1, <1>3, <1>4 DEF Queued, Back
<1> QED BY <1>1, <1>2, <1>3, <1>4, <1>5 DEF PoolOK

\* A callback is the last one of its call.
LEMMA PoolLeaves ==
    ASSUME PoolOK, NEW c \in Calls, done # <<>>, c = Head(done), done' = Tail(done), queue' = queue,
           \A o \in Calls : UnderWay(o)' <=> UnderWay(o) /\ o # c
    PROVE  /\ PoolOK' /\ Back(c) /\ ~Queued(c)
           /\ \A o \in Calls : (Queued(o)' <=> Queued(o)) /\ (Back(o)' <=> Back(o) /\ o # c)
<1>1. PICK t \in Seq(Calls) : /\ t = Tail(done) /\ Injective(t) /\ c \in ToSet(done)
                              /\ \A x : x \in ToSet(t) <=> x \in ToSet(done) /\ x # c
  BY TakenFirst DEF PoolOK
<1>2. Back(c) /\ ~Queued(c)
  BY <1>1 DEF PoolOK, Queued, Back
<1>3. done' = t
  BY <1>1
<1>4. \A o \in Calls : (Queued(o)' <=> Queued(o)) /\ (Back(o)' <=> Back(o) /\ o # c)
  BY <1>1, <1>3 DEF Queued, Back
<1> QED BY <1>1, <1>2, <1>3, <1>4 DEF PoolOK

\* No request is made, done or called back.
LEMMA PoolSame ==
    ASSUME PoolOK, UNCHANGED <<queue, done>>, \A o \in Calls : UnderWay(o)' <=> UnderWay(o)
    PROVE  PoolOK' /\ \A o \in Calls : (Queued(o)' <=> Queued(o)) /\ (Back(o)' <=> Back(o))
BY DEF PoolOK, Queued, Back, Injective, ToSet

\* A thread is done with a request.
LEMMA PoolPerforms ==
    ASSUME PoolOK, NEW c \in Calls, Performed(c)
    PROVE  /\ PoolOK' /\ Queued(c) /\ ~Back(c)
           /\ \A o \in Calls : (Queued(o)' <=> Queued(o) /\ o # c) /\ (Back(o)' <=> Back(o) \/ o = c)
<1>1. PICK k \in DOMAIN queue : queue[k] = c /\ queue' = RemoveAt(queue, k)
  BY DEF Performed
<1>2. queue \in Seq(Calls) /\ done \in Seq(Calls) /\ Injective(queue) /\ Injective(done)
  BY DEF PoolOK
<1>3. PICK q \in Seq(Calls) : /\ q = RemoveAt(queue, k) /\ Injective(q)
                              /\ \A x : x \in ToSet(q) <=> x \in ToSet(queue) /\ x # c
  BY <1>1, <1>2, Taken
<1>4. c \in ToSet(queue) /\ Queued(c) /\ ~Back(c) /\ c \notin ToSet(done)
  BY <1>1 DEF ToSet, Queued, Back, PoolOK
<1>5. PICK t \in Seq(Calls) : /\ t = Append(done, c) /\ Injective(t)
                              /\ \A x : x \in ToSet(t) <=> x \in ToSet(done) \/ x = c
  BY <1>2, <1>4, Joined
<1>6. queue' = q /\ done' = t /\ at' = at
  BY <1>1, <1>3, <1>5 DEF Performed
<1>7. \A o \in Calls : (Queued(o)' <=> Queued(o) /\ o # c) /\ (Back(o)' <=> Back(o) \/ o = c)
  BY <1>3, <1>5, <1>6 DEF Queued, Back
<1>8. \A o \in Calls : UnderWay(o)' <=> UnderWay(o)
  BY <1>6 DEF UnderWay
<1> QED BY <1>2, <1>3, <1>4, <1>5, <1>6, <1>7, <1>8 DEF PoolOK

-----------------------------------------------------------------------------
(* A step of one call.                                                     *)

\* Nothing happens to the other calls.
Others(c) ==
    \A o \in Calls \ {c} :
        /\ at'[o] = at[o] /\ work'[o] = work[o] /\ req'[o] = req[o] /\ answer'[o] = answer[o]
        /\ Queued(o)' <=> Queued(o)
        /\ Back(o)' <=> Back(o)

\* A FileHandle stays one, is not opened again, and keeps its descriptor.
HandlesGoOn(c) ==
    \A h \in Calls :
        /\ handle[h].state # "none" => /\ handle'[h].state # "none" /\ handle'[h].fd = handle[h].fd
                                       /\ (handle[h].state # "open" => handle'[h].state # "open")
        /\ h # c /\ handle[h].state = "none" => handle'[h].state = "none"

\* What holds of the other calls goes on to hold.
LEMMA OtherCall ==
    ASSUME Shapes, PoolOK, NEW c \in Calls, Others(c), UNCHANGED plan, HandlesGoOn(c),
           NEW o \in Calls, o # c, CallOK(o)
    PROVE  /\ CallOK(o)' /\ (GaveUp(o)' <=> GaveUp(o)) /\ (UnderWay(o)' <=> UnderWay(o))
           /\ handle'[o] = handle[o] => \A d : Keeps(o, d)' <=> Keeps(o, d)
<1>1. /\ plan' = plan /\ at'[o] = at[o] /\ work'[o] = work[o] /\ req'[o] = req[o] /\ answer'[o] = answer[o]
      /\ Queued(o)' <=> Queued(o)
      /\ Back(o)' <=> Back(o)
      /\ UnderWay(o)' <=> UnderWay(o)
      /\ OnHandle(o)' <=> OnHandle(o)
  BY DEF Others, UnderWay, OnHandle
<1>2. plan[o].handle \in Calls
  BY DEF Shapes, CallPlans
<1>3. StepOK(o)'
  BY <1>1 DEF CallOK, StepOK, Truncating
<1>4. HandleOK(o)'
  <2>1. HandleOK(o)
    BY DEF CallOK
  <2>2. handle'[o].state # "none" => handle[o].state # "none"
    BY DEF HandlesGoOn
  <2>3. PICK h \in Calls : h = plan[o].handle
    BY <1>2
  <2>4. handle[h].state # "none" => /\ handle'[h].state # "none" /\ handle'[h].fd = handle[h].fd
                                    /\ (handle[h].state # "open" => handle'[h].state # "open")
    BY DEF HandlesGoOn
  <2>5. OnHandle(o) /\ UnderWay(o) => handle[h].state # "none"
    BY <2>1, <2>3 DEF HandleOK
  <2>6. plan[o].op = "handle.readFile" => OnHandle(o)
    BY DEF OnHandle, HandleOps
  <2>7. plan[o].op = "handle.close" => OnHandle(o)
    BY DEF OnHandle, HandleOps
  <2> QED BY <1>1, <2>1, <2>2, <2>3, <2>4, <2>5, <2>6, <2>7 DEF HandleOK
<1>5. Queued(o) /\ OnHandle(o) => handle'[plan[o].handle].fd = handle[plan[o].handle].fd
  BY <1>1, <1>2 DEF PoolOK, CallOK, HandleOK, HandlesGoOn
<1>6. RequestOK(o)'
  BY <1>1, <1>5 DEF CallOK, RequestOK
<1>7. Apart(o)'
  BY <1>1 DEF CallOK, Apart
<1>8. GaveUp(o)' <=> GaveUp(o)
  BY <1>1 DEF GaveUp
<1>9. handle'[o] = handle[o] => \A d : Keeps(o, d)' <=> Keeps(o, d)
  BY <1>1 DEF Keeps, Truncating
<1> QED BY <1>1, <1>3, <1>4, <1>6, <1>7, <1>8, <1>9 DEF CallOK

\* What may stray may do so ever after: handles are not opened again.
LEMMA StraysStay ==
    ASSUME Shapes, Shapes', NEW c \in Calls, UNCHANGED plan, HandlesGoOn(c), NEW k, NEW sys, MayStray(k, sys)
    PROVE  MayStray(k, sys)'
<1>1. k \in Calls /\ plan' = plan /\ plan[k].handle \in Calls
  BY DEF MayStray, Shapes, CallPlans
<1>2. PICK h \in Calls : h = plan[k].handle
  BY <1>1
<1>3. handle'[h].state \in {"none", "open", "closed", "dropped"}
  BY DEF Shapes
<1>4. handle[h].state \in {"closed", "dropped"} => handle'[h].state \in {"closed", "dropped"}
  BY <1>3 DEF HandlesGoOn
<1> QED BY <1>1, <1>2, <1>4 DEF MayStray, OnHandle

\* The keeper of a descriptor is the call, or the method close(), that closes it.
LEMMA KeepersMove ==
    ASSUME Shapes, Descriptors, Kept, NEW c \in Calls, UNCHANGED plan,
           \A o \in Calls \ {c} : (GaveUp(o)' <=> GaveUp(o)) /\ \A d : Keeps(o, d)' <=> Keeps(o, d),
           GaveUp(c) => GaveUp(c)',
           \A d : Keeps(c, d)' => /\ d \in Fds /\ table'[d].of = Opener(c)
                                  /\ Keeps(c, d) \/ table[d].of = 0,
           \A d \in Fds : ~Keeps(c, d) /\ ~Keeps(c, d)' => table'[d].of = table[d].of,
           \A d \in Fds : Keeps(c, d) /\ ~Keeps(c, d)' =>
               table'[d].of = 0 \/ (GaveUp(Opener(c))' /\ table'[d].of = Opener(c))
    PROVE  Kept'
<1>1. \A o \in Calls : Opener(o)' = Opener(o) /\ Opener(o) \in Calls /\ Opener(o) # 0
  BY DEF Opener, Shapes, CallPlans
<1>2. ASSUME NEW o \in Calls, o # c, NEW d, Keeps(o, d)
      PROVE  d \in Fds /\ table[d].of = Opener(o) /\ ~Keeps(c, d) /\ ~Keeps(c, d)'
  BY <1>1, <1>2 DEF Kept
<1>3. \A o \in Calls : \A d : Keeps(o, d)' => d \in Fds /\ table'[d].of = Opener(o)
  BY <1>2
<1>4. \A o, k \in Calls : \A d : Keeps(o, d)' /\ Keeps(k, d)' => o = k
  BY <1>2 DEF Kept
<1>5. ASSUME NEW d \in Fds, NEW x, x = table'[d].of, x # 0
      PROVE  GaveUp(x)' \/ \E k \in Calls : Keeps(k, d)' /\ Opener(k) = x
  <2>1. CASE Keeps(c, d)'
    BY <1>5, <2>1
  <2>2. CASE Keeps(c, d) /\ ~Keeps(c, d)'
    <3>1. x = Opener(c) /\ GaveUp(Opener(c))'
      BY <1>5, <2>2
    <3> QED BY <1>1, <3>1 DEF GaveUp
  <2>3. CASE ~Keeps(c, d) /\ ~Keeps(c, d)'
    <3>1. x = table[d].of /\ x \in Calls
      BY <1>5, <2>3 DEF Descriptors
    <3>2. GaveUp(x) \/ \E k \in Calls : k # c /\ Keeps(k, d) /\ Opener(k) = x
      BY <1>5, <2>3, <3>1 DEF Kept
    <3>3. CASE GaveUp(x)
      BY <3>1, <3>3
    <3> QED BY <3>2, <3>3
  <2> QED BY <2>1, <2>2, <2>3
<1>6. \A d \in Fds : table'[d].of # 0 =>
         \/ /\ plan'[table'[d].of].op = "readFile" /\ at'[table'[d].of] = Answered
            /\ ~answer'[table'[d].of].ok /\ answer'[table'[d].of].sys = "read"
         \/ \E k \in Calls : Keeps(k, d)' /\ Opener(k) = table'[d].of
  BY <1>5 DEF GaveUp
<1> QED BY <1>1, <1>3, <1>4, <1>6 DEF Kept, GaveUp

\* What the invariant needs to know of a step of call c.
LEMMA CallSteps ==
    ASSUME IInv, NEW c \in Calls, UNCHANGED plan, HandlesGoOn(c), Others(c),
           \A o \in Calls \ {c} : handle'[o] = handle[o],
           Shapes', Descriptors', PoolOK', CallOK(c)', GaveUp(c) => GaveUp(c)',
           \A d : Keeps(c, d)' => /\ d \in Fds /\ table'[d].of = Opener(c)
                                  /\ Keeps(c, d) \/ table[d].of = 0,
           \A d \in Fds : ~Keeps(c, d) /\ ~Keeps(c, d)' => table'[d].of = table[d].of,
           \A d \in Fds : Keeps(c, d) /\ ~Keeps(c, d)' =>
               table'[d].of = 0 \/ (GaveUp(Opener(c))' /\ table'[d].of = Opener(c)),
           \A s \in strays' : s \in strays \/ MayStray(s[1], s[2])
    PROVE  IInv'
<1>1. ASSUME NEW o \in Calls, o # c
      PROVE  CallOK(o)' /\ (GaveUp(o)' <=> GaveUp(o)) /\ \A d : Keeps(o, d)' <=> Keeps(o, d)
  <2>1. Shapes /\ PoolOK /\ CallOK(o) /\ handle'[o] = handle[o]
    BY <1>1 DEF IInv
  <2> QED BY <1>1, <2>1, OtherCall
<1>2. Kept'
  <2>1. Shapes /\ Kept /\ Descriptors
    BY DEF IInv
  <2>2. \A o \in Calls \ {c} : (GaveUp(o)' <=> GaveUp(o)) /\ \A d : Keeps(o, d)' <=> Keeps(o, d)
    BY <1>1
  <2> QED BY <2>1, <2>2, KeepersMove
<1>3. StraysOK'
  <2>1. ASSUME NEW s \in strays' PROVE MayStray(s[1], s[2])'
    <3>1. MayStray(s[1], s[2])
      BY <2>1 DEF IInv, StraysOK
    <3>2. Shapes /\ Shapes'
      BY DEF IInv
    <3> QED BY <3>1, <3>2, StraysStay
  <2> QED BY <2>1 DEF StraysOK
<1> QED BY <1>1, <1>2, <1>3 DEF IInv

RequestFields == {"sys", "fd", "file", "mode", "pos", "n", "buf", "ok"}
WorkFields == {"fd", "dest", "size", "offset", "buffer"}

\* Call c asks for its first request, or its next.
Moves(c) ==
    \/ at[c] = Unasked /\ done' = done
    \/ done # <<>> /\ c = Head(done) /\ done' = Tail(done)

Asking(c, r, step) ==
    /\ at'[c] = step /\ req'[c] = r /\ Queued(c)' /\ ~Back(c)' /\ UnderWay(c)'
    /\ ~Queued(c) /\ (at[c] = Unasked \/ Back(c))
    /\ handle' = handle /\ plan' = plan /\ CallOK(c)

\* The call whose callback is next.
LEMMA HeadIsBack ==
    ASSUME PoolOK, NEW c \in Calls, done # <<>>, c = Head(done)
    PROVE  Back(c) /\ ~Queued(c) /\ UnderWay(c)
<1>1. done \in Seq(Calls) /\ Injective(done)
  BY DEF PoolOK
<1>2. Back(c)
  BY <1>1, TakenFirst DEF Back
<1> QED BY <1>2 DEF PoolOK

\* A call that moves is not answered and has no FileHandle.
LEMMA MovesFacts ==
    ASSUME IInv, NEW c \in Calls, Moves(c)
    PROVE  at[c] # Answered /\ ~Queued(c) /\ (at[c] = Unasked \/ (Back(c) /\ UnderWay(c))) /\ handle[c].state = "none"
<1>1. CASE at[c] = Unasked
  BY <1>1 DEF IInv, PoolOK, UnderWay, CallOK, HandleOK, Unasked, Answered
<1>2. CASE done # <<>> /\ c = Head(done)
  <2>1. Back(c) /\ ~Queued(c) /\ UnderWay(c)
    BY <1>2, HeadIsBack DEF IInv
  <2> QED BY <2>1 DEF IInv, UnderWay, CallOK, HandleOK
<1> QED BY <1>1, <1>2 DEF Moves

\* A request is queued: the pool, and nobody else, is concerned.
LEMMA AskFacts ==
    ASSUME IInv, NEW c \in Calls, NEW r, NEW step, Ask(c, r, step), step \notin {Unasked, Answered}, Moves(c),
           UNCHANGED answer, \A o \in Calls \ {c} : work'[o] = work[o]
    PROVE  /\ at'[c] = step /\ req'[c] = r /\ UnderWay(c)' /\ Queued(c)' /\ ~Back(c)' /\ PoolOK' /\ Others(c)
           /\ DOMAIN at' = Calls /\ DOMAIN req' = Calls
           /\ \A o \in Calls : o # c => req'[o] = req[o] /\ (UnderWay(o)' <=> UnderWay(o))
<1>1. /\ at'[c] = step /\ req'[c] = r /\ DOMAIN at' = Calls /\ DOMAIN req' = Calls
      /\ \A o \in Calls : o # c => at'[o] = at[o] /\ req'[o] = req[o]
      /\ queue' = Append(queue, c)
  BY DEF Ask, IInv, Shapes
<1>2. /\ UnderWay(c)' /\ \A o \in Calls : o # c => (UnderWay(o)' <=> UnderWay(o))
  BY <1>1 DEF UnderWay
<1>3. /\ PoolOK' /\ Queued(c)' /\ ~Back(c)'
      /\ \A o \in Calls : o # c => (Queued(o)' <=> Queued(o)) /\ (Back(o)' <=> Back(o))
  <2>1. PoolOK
    BY DEF IInv
  <2>2. CASE at[c] = Unasked /\ done' = done
    <3>1. ~UnderWay(c) /\ ~Back(c)
      BY <2>1, <2>2 DEF UnderWay, PoolOK
    <3>2. \A o \in Calls : UnderWay(o)' <=> UnderWay(o) \/ o = c
      BY <1>2
    <3> QED BY <1>1, <2>1, <2>2, <3>1, <3>2, PoolStarts
  <2>3. CASE done # <<>> /\ c = Head(done) /\ done' = Tail(done)
    <3>1. \A o \in Calls : UnderWay(o)' <=> UnderWay(o)
      BY <1>2, <2>1, <2>3, HeadIsBack
    <3> QED BY <1>1, <2>1, <2>3, <3>1, PoolGoesOn
  <2> QED BY <2>2, <2>3 DEF Moves
<1>4. Others(c)
  BY <1>1, <1>3 DEF Others
<1> QED BY <1>1, <1>2, <1>3, <1>4

\* A call asks for a request and keeps the descriptors it kept.
LEMMA Asks ==
    ASSUME IInv, NEW c \in Calls, NEW r, NEW step, Ask(c, r, step), step \notin {Unasked, Answered},
           DOMAIN r = RequestFields, UNCHANGED <<plan, handle, table, strays, answer>>, Moves(c),
           DOMAIN work' = Calls, DOMAIN work'[c] = WorkFields, \A o \in Calls \ {c} : work'[o] = work[o],
           Asking(c, r, step) => CallOK(c)' /\ \A d : Keeps(c, d)' <=> Keeps(c, d)
    PROVE  IInv'
<1>1. /\ at'[c] = step /\ req'[c] = r /\ UnderWay(c)' /\ Queued(c)' /\ ~Back(c)' /\ PoolOK' /\ Others(c)
      /\ DOMAIN at' = Calls /\ DOMAIN req' = Calls
      /\ \A o \in Calls : o # c => req'[o] = req[o] /\ (UnderWay(o)' <=> UnderWay(o))
  BY AskFacts
<1>2. at[c] # Answered /\ ~Queued(c) /\ (at[c] = Unasked \/ Back(c))
  BY MovesFacts
<1>3. CallOK(c)' /\ \A d : Keeps(c, d)' <=> Keeps(c, d)
  BY <1>1, <1>2 DEF Asking, IInv
<1>4. Shapes'
  BY <1>1 DEF IInv, Shapes, RequestFields, WorkFields
<1>5. Descriptors' /\ HandlesGoOn(c) /\ ~GaveUp(c)
  BY <1>2 DEF IInv, Descriptors, HandlesGoOn, GaveUp
<1>6. \A d : Keeps(c, d) => d \in Fds /\ table'[d].of = Opener(c)
  BY DEF IInv, Kept
<1> QED BY <1>1, <1>3, <1>4, <1>5, <1>6, CallSteps

\* A call is answered: the pool, and nobody else, is concerned.
LEMMA AnswerFacts ==
    ASSUME IInv, NEW c \in Calls, NEW ok, NEW data, Answer(c, ok, data), UNCHANGED queue, Moves(c)
    PROVE  /\ at'[c] = Answered /\ work'[c] = NoWork /\ answer'[c].ok = ok /\ answer'[c].sys = req[c].sys
           /\ ~UnderWay(c)' /\ ~Queued(c)' /\ ~Back(c)' /\ PoolOK' /\ Others(c)
           /\ DOMAIN at' = Calls /\ DOMAIN req' = Calls /\ DOMAIN work' = Calls /\ DOMAIN answer' = Calls
           /\ \A o \in Calls : o # c => /\ req'[o] = req[o] /\ work'[o] = work[o]
                                        /\ (UnderWay(o)' <=> UnderWay(o))
<1>1. /\ at'[c] = Answered /\ work'[c] = NoWork /\ answer'[c].ok = ok /\ answer'[c].sys = req[c].sys
      /\ DOMAIN at' = Calls /\ DOMAIN req' = Calls /\ DOMAIN work' = Calls /\ DOMAIN answer' = Calls
      /\ \A o \in Calls : o # c => /\ at'[o] = at[o] /\ req'[o] = req[o]
                                   /\ work'[o] = work[o] /\ answer'[o] = answer[o]
  BY DEF Answer, IInv, Shapes
<1>2. /\ ~UnderWay(c)' /\ \A o \in Calls : o # c => (UnderWay(o)' <=> UnderWay(o))
  BY <1>1 DEF UnderWay
<1>3. /\ PoolOK' /\ ~Queued(c)' /\ ~Back(c)'
      /\ \A o \in Calls : o # c => (Queued(o)' <=> Queued(o)) /\ (Back(o)' <=> Back(o))
  <2>1. PoolOK
    BY DEF IInv
  <2>2. CASE at[c] = Unasked /\ done' = done
    <3>1. ~UnderWay(c) /\ ~Back(c) /\ ~Queued(c)
      BY <2>1, <2>2 DEF UnderWay, PoolOK
    <3>2. \A o \in Calls : UnderWay(o)' <=> UnderWay(o)
      BY <1>2, <3>1
    <3> QED BY <1>1, <2>1, <2>2, <3>1, <3>2, PoolSame
  <2>3. CASE done # <<>> /\ c = Head(done) /\ done' = Tail(done)
    <3>1. \A o \in Calls : UnderWay(o)' <=> UnderWay(o) /\ o # c
      BY <1>2
    <3> QED BY <1>1, <2>1, <2>3, <3>1, PoolLeaves
  <2> QED BY <2>2, <2>3 DEF Moves
<1>4. Others(c)
  BY <1>1, <1>3 DEF Others
<1> QED BY <1>1, <1>2, <1>3, <1>4

\* Call c is answered, and the descriptors ds are closed before that.
LEMMA IsAnswered ==
    ASSUME IInv, NEW c \in Calls, NEW ok, NEW data, NEW ds, Answer(c, ok, data),
           UNCHANGED <<plan, handle, queue>>, Moves(c),
           DOMAIN table' = Fds, \A d \in Fds : table'[d] = IF d \in ds THEN Free ELSE table[d],
           strays' = strays \/ strays' = Strays(c, "close", ds),
           \A d \in ds : Keeps(c, d),
           \A d : Keeps(c, d) => d \in ds \/ (plan[c].op = "readFile" /\ ~ok /\ req[c].sys = "read")
    PROVE  IInv'
<1>1. /\ at'[c] = Answered /\ work'[c] = NoWork /\ answer'[c].ok = ok /\ answer'[c].sys = req[c].sys
      /\ ~UnderWay(c)' /\ ~Queued(c)' /\ ~Back(c)' /\ PoolOK' /\ Others(c)
      /\ DOMAIN at' = Calls /\ DOMAIN req' = Calls /\ DOMAIN work' = Calls /\ DOMAIN answer' = Calls
      /\ \A o \in Calls : o # c => /\ req'[o] = req[o] /\ work'[o] = work[o]
                                   /\ (UnderWay(o)' <=> UnderWay(o))
  BY AnswerFacts
<1>2. at[c] # Answered /\ handle[c].state = "none"
  BY MovesFacts
<1>3. CallOK(c)' /\ \A d : ~Keeps(c, d)'
  BY <1>1, <1>2 DEF CallOK, StepOK, RequestOK, HandleOK, Apart, Keeps, Truncating, NoWork, Answered
<1>4. Shapes'
  BY <1>1 DEF IInv, Shapes, NoWork
<1>5. HandlesGoOn(c) /\ ~GaveUp(c)
  BY <1>2 DEF HandlesGoOn, GaveUp
<1>6. \A d : Keeps(c, d) => d \in Fds /\ table[d].of = Opener(c)
  BY DEF IInv, Kept
<1>7. Descriptors' /\ \A d \in ds : d \in Fds /\ table'[d].of = 0
  BY <1>6 DEF IInv, Descriptors, Free
<1>8. \A d \in Fds : Keeps(c, d) => table'[d].of = 0 \/ (GaveUp(Opener(c))' /\ table'[d].of = Opener(c))
  <2>1. ASSUME plan[c].op = "readFile", ~ok, req[c].sys = "read" PROVE Opener(c) = c /\ GaveUp(Opener(c))'
    BY <1>1, <2>1 DEF Opener, HandleOps, GaveUp
  <2> QED BY <1>6, <1>7, <2>1
<1>9. strays' = strays
  BY <1>6 DEF Strays
<1>10. \A d \in Fds : ~Keeps(c, d) => table'[d].of = table[d].of
  OBVIOUS
<1> QED BY <1>1, <1>3, <1>4, <1>5, <1>7, <1>8, <1>9, <1>10, CallSteps

-----------------------------------------------------------------------------
(* Callbacks.                                                              *)

\* Where a callback finds its call.
LEMMA BackFacts ==
    ASSUME IInv, NEW c \in Calls, NEW ops, NEW step, Callback(c, ops, step)
    PROVE  /\ Moves(c) /\ Back(c) /\ ~Queued(c) /\ UnderWay(c) /\ CallOK(c)
           /\ plan[c].op \in ops /\ at[c] = step /\ handle[c].state = "none" /\ ~Truncating(c)
<1>1. Moves(c) /\ Back(c) /\ ~Queued(c) /\ UnderWay(c)
  BY HeadIsBack DEF Callback, Moves, IInv
<1>2. handle[c].state = "none" /\ CallOK(c)
  BY <1>1, MovesFacts DEF IInv
<1> QED BY <1>1, <1>2 DEF Callback, LoopFree

\* The request failed; what the call keeps is closed, or was left open.
LEMMA FailsInv ==
    ASSUME IInv, NEW c \in Calls, NEW ops, NEW step, Callback(c, ops, step), NEW ds, Fails(c, ds),
           \A d \in ds : Keeps(c, d),
           \A d : Keeps(c, d) => d \in ds \/ (plan[c].op = "readFile" /\ req[c].sys = "read")
    PROVE  IInv'
<1>1. Moves(c)
  BY BackFacts
<1>2. Answer(c, FALSE, <<>>) /\ UNCHANGED <<plan, handle, queue>>
  BY DEF Fails
<1>3. DOMAIN table' = Fds /\ \A d \in Fds : table'[d] = IF d \in ds THEN Free ELSE table[d]
  BY DEF Fails, CloseNow
<1>4. strays' = Strays(c, "close", ds)
  BY DEF Fails, CloseNow
<1> QED BY <1>1, <1>2, <1>3, <1>4, IsAnswered

\* There is nothing left to close.
LEMMA CompletesInv ==
    ASSUME IInv, NEW c \in Calls, NEW ops, NEW step, Callback(c, ops, step), NEW data, Completes(c, data),
           \A d : ~Keeps(c, d)
    PROVE  IInv'
<1>1. Moves(c)
  BY BackFacts
<1>2. Answer(c, TRUE, data) /\ UNCHANGED <<plan, handle, queue>> /\ table' = table /\ strays' = strays
  BY DEF Completes, kernelVars
<1>3. PICK ds : ds = {}
  OBVIOUS
<1>4. DOMAIN table' = Fds /\ \A d \in Fds : table'[d] = IF d \in ds THEN Free ELSE table[d]
  BY <1>2, <1>3 DEF IInv, Descriptors
<1>5. (\A d \in ds : Keeps(c, d)) /\ \A d : Keeps(c, d) => d \in ds \/ (plan[c].op = "readFile" /\ ~TRUE /\ req[c].sys = "read")
  BY <1>3
<1> QED BY <1>1, <1>2, <1>4, <1>5, IsAnswered

\* The next request.
LEMMA ContinuesInv ==
    ASSUME IInv, NEW c \in Calls, NEW ops, NEW from, Callback(c, ops, from),
           NEW r, NEW step, Continues(c, r, step), step \notin {Unasked, Answered}, DOMAIN r = RequestFields,
           DOMAIN work' = Calls, DOMAIN work'[c] = WorkFields, \A o \in Calls \ {c} : work'[o] = work[o],
           Asking(c, r, step) => CallOK(c)' /\ \A d : Keeps(c, d)' <=> Keeps(c, d)
    PROVE  IInv'
<1>1. Moves(c)
  BY BackFacts
<1>2. Ask(c, r, step) /\ UNCHANGED <<plan, handle, table, strays, answer>>
  BY DEF Continues, kernelVars
<1> QED BY <1>1, <1>2, Asks

\* The requests that are made.
LEMMA RequestFacts ==
    /\ \A d : LET r == Fstat(d)
             IN  DOMAIN r = RequestFields /\ r.ok /\ r.sys = "fstat" /\ r.fd = d
    /\ \A d, p, n : LET r == Read(d, p, n)
                   IN  DOMAIN r = RequestFields /\ r.ok /\ r.sys = "read" /\ r.fd = d
    /\ \A d, p, b : LET r == Write(d, p, b)
                   IN  DOMAIN r = RequestFields /\ r.ok /\ r.sys = "write" /\ r.fd = d
    /\ \A d : LET r == Close(d)
             IN  DOMAIN r = RequestFields /\ r.ok /\ r.sys = "close" /\ r.fd = d
    /\ \A f, m : LET r == OpenOf(f, m)
                IN  DOMAIN r = RequestFields /\ r.ok /\ r.sys = "open"
    /\ \A d : LET r == On("ftruncate", d, 0, 0, <<>>)
             IN  DOMAIN r = RequestFields /\ r.ok /\ r.sys = "ftruncate"
BY DEF RequestFields, Fstat, Read, Write, Close, OpenOf, On

\* readfile_open_cb: what was opened is kept as the field fd.
LEMMA ReadfileOpenedInv ==
    ASSUME IInv, NEW c \in Calls, ReadfileOpened(c) PROVE IInv'
<1>1. Callback(c, ReadOps, "open")
  BY DEF ReadfileOpened
<1>2. /\ Back(c) /\ ~Queued(c) /\ UnderWay(c) /\ CallOK(c)
      /\ plan[c].op \in ReadOps /\ at[c] = "open" /\ handle[c].state = "none" /\ ~Truncating(c)
  BY <1>1, BackFacts
<1>3. CASE Fails(c, {})
  <2>1. (\A d \in {} : Keeps(c, d)) /\ \A d : Keeps(c, d) => d \in {} \/ (plan[c].op = "readFile" /\ req[c].sys = "read")
    BY <1>2, <1>3 DEF Keeps, Fails, OnHandle, HandleOps, ReadOps, WriteOps
  <2> QED BY <1>1, <1>3, <2>1, FailsInv
<1>4. ASSUME req[c].ok, work' = [work EXCEPT ![c].fd = req[c].n], Continues(c, Fstat(req[c].n), "fstat")
      PROVE  IInv'
  <2>1. /\ DOMAIN work' = Calls /\ DOMAIN work'[c] = WorkFields /\ \A o \in Calls \ {c} : work'[o] = work[o]
        /\ work'[c].fd = req[c].n /\ work'[c].dest = work[c].dest
    BY <1>4 DEF IInv, Shapes, WorkFields
  <2>2. ASSUME Asking(c, Fstat(req[c].n), "fstat") PROVE CallOK(c)'
    BY <1>2, <1>4, <2>1, <2>2, RequestFacts
       DEF Asking, CallOK, StepOK, Truncating, RequestOK, HandleOK, Apart, ReadOps, WriteOps, OnHandle, HandleOps,
           Unasked, Answered
  <2>3. ASSUME Asking(c, Fstat(req[c].n), "fstat") PROVE \A d : Keeps(c, d)' <=> Keeps(c, d)
    BY <1>2, <1>4, <2>1, <2>3, RequestFacts DEF Asking, Keeps, Truncating, ReadOps, WriteOps, OnHandle, HandleOps
  <2> QED BY <1>1, <1>4, <2>1, <2>2, <2>3, RequestFacts, ContinuesInv DEF Unasked, Answered
<1> QED BY <1>3, <1>4 DEF ReadfileOpened

\* readfile_fstat_cb.
LEMMA ReadfileStatedInv ==
    ASSUME IInv, NEW c \in Calls, ReadfileStated(c) PROVE IInv'
<1>1. Callback(c, {"readFile"}, "fstat")
  BY DEF ReadfileStated
<1>2. /\ Back(c) /\ ~Queued(c) /\ UnderWay(c) /\ CallOK(c)
      /\ plan[c].op \in {"readFile"} /\ at[c] = "fstat" /\ handle[c].state = "none" /\ ~Truncating(c)
  BY <1>1, BackFacts
<1>3. CASE Fails(c, {work[c].fd})
  <2>1. (\A d \in {work[c].fd} : Keeps(c, d)) /\ \A d : Keeps(c, d) => d \in {work[c].fd} \/ (plan[c].op = "readFile" /\ req[c].sys = "read")
    BY <1>2, <1>3 DEF Keeps, Fails, OnHandle, HandleOps, ReadOps, WriteOps
  <2> QED BY <1>1, <1>3, <2>1, FailsInv
<1>4. ASSUME req[c].ok, work' = [work EXCEPT ![c].size = req[c].n],
             Continues(c, Read(work[c].fd, 0, req[c].n), "read")
      PROVE  IInv'
  <2>1. /\ DOMAIN work' = Calls /\ DOMAIN work'[c] = WorkFields /\ \A o \in Calls \ {c} : work'[o] = work[o]
        /\ work'[c].fd = work[c].fd /\ work'[c].dest = work[c].dest
    BY <1>4 DEF IInv, Shapes, WorkFields
  <2>2. ASSUME Asking(c, Read(work[c].fd, 0, req[c].n), "read") PROVE CallOK(c)'
    BY <1>2, <1>4, <2>1, <2>2, RequestFacts
       DEF Asking, CallOK, StepOK, Truncating, RequestOK, HandleOK, Apart, ReadOps, WriteOps, OnHandle, HandleOps,
           Unasked, Answered
  <2>3. ASSUME Asking(c, Read(work[c].fd, 0, req[c].n), "read") PROVE \A d : Keeps(c, d)' <=> Keeps(c, d)
    BY <1>2, <1>4, <2>1, <2>3, RequestFacts DEF Asking, Keeps, Truncating, ReadOps, WriteOps, OnHandle, HandleOps
  <2> QED BY <1>1, <1>4, <2>1, <2>2, <2>3, RequestFacts, ContinuesInv DEF Unasked, Answered
<1> QED BY <1>3, <1>4 DEF ReadfileStated

\* readfile_read_cb, which gives its descriptor up when it fails.
LEMMA ReadfileReadInv ==
    ASSUME IInv, NEW c \in Calls, ReadfileRead(c) PROVE IInv'
<1>1. Callback(c, {"readFile"}, "read")
  BY DEF ReadfileRead
<1>2. /\ Back(c) /\ ~Queued(c) /\ UnderWay(c) /\ CallOK(c)
      /\ plan[c].op \in {"readFile"} /\ at[c] = "read" /\ handle[c].state = "none" /\ ~Truncating(c)
  BY <1>1, BackFacts
<1>3. CASE Fails(c, {})
  <2>1. (\A d \in {} : Keeps(c, d)) /\ \A d : Keeps(c, d) => d \in {} \/ (plan[c].op = "readFile" /\ req[c].sys = "read")
    BY <1>2, <1>3 DEF Keeps, CallOK, StepOK
  <2> QED BY <1>1, <1>3, <2>1, FailsInv
<1>4. ASSUME req[c].ok, work' = [work EXCEPT ![c].buffer = req[c].buf], Continues(c, Close(work[c].fd), "close")
      PROVE  IInv'
  <2>1. /\ DOMAIN work' = Calls /\ DOMAIN work'[c] = WorkFields /\ \A o \in Calls \ {c} : work'[o] = work[o]
        /\ work'[c].fd = work[c].fd /\ work'[c].dest = work[c].dest
    BY <1>4 DEF IInv, Shapes, WorkFields
  <2>2. ASSUME Asking(c, Close(work[c].fd), "close") PROVE CallOK(c)'
    BY <1>2, <1>4, <2>1, <2>2, RequestFacts
       DEF Asking, CallOK, StepOK, Truncating, RequestOK, HandleOK, Apart, ReadOps, WriteOps, OnHandle, HandleOps,
           Unasked, Answered
  <2>3. ASSUME Asking(c, Close(work[c].fd), "close") PROVE \A d : Keeps(c, d)' <=> Keeps(c, d)
    BY <1>2, <1>4, <2>1, <2>3, RequestFacts DEF Asking, Keeps, Truncating, ReadOps, WriteOps, OnHandle, HandleOps
  <2> QED BY <1>1, <1>4, <2>1, <2>2, <2>3, RequestFacts, ContinuesInv DEF Unasked, Answered
<1> QED BY <1>3, <1>4 DEF ReadfileRead

\* readfile_promise_stat_cb.
LEMMA ReadfilePromiseStatedInv ==
    ASSUME IInv, NEW c \in Calls, ReadfilePromiseStated(c) PROVE IInv'
<1>1. Callback(c, {"readFilePromise"}, "fstat")
  BY DEF ReadfilePromiseStated
<1>2. /\ Back(c) /\ ~Queued(c) /\ UnderWay(c) /\ CallOK(c)
      /\ plan[c].op \in {"readFilePromise"} /\ at[c] = "fstat" /\ handle[c].state = "none" /\ ~Truncating(c)
  BY <1>1, BackFacts
<1>3. CASE Fails(c, {work[c].fd})
  <2>1. (\A d \in {work[c].fd} : Keeps(c, d)) /\ \A d : Keeps(c, d) => d \in {work[c].fd} \/ (plan[c].op = "readFile" /\ req[c].sys = "read")
    BY <1>2, <1>3 DEF Keeps, Fails, OnHandle, HandleOps, ReadOps, WriteOps
  <2> QED BY <1>1, <1>3, <2>1, FailsInv
<1>4. ASSUME req[c].ok, work' = work, Continues(c, Close(work[c].fd), "close")
      PROVE  IInv'
  <2>1. /\ DOMAIN work' = Calls /\ DOMAIN work'[c] = WorkFields /\ \A o \in Calls \ {c} : work'[o] = work[o]
        /\ work'[c].fd = work[c].fd /\ work'[c].dest = work[c].dest
    BY <1>4 DEF IInv, Shapes, WorkFields
  <2>2. ASSUME Asking(c, Close(work[c].fd), "close") PROVE CallOK(c)'
    BY <1>2, <1>4, <2>1, <2>2, RequestFacts
       DEF Asking, CallOK, StepOK, Truncating, RequestOK, HandleOK, Apart, ReadOps, WriteOps, OnHandle, HandleOps,
           Unasked, Answered
  <2>3. ASSUME Asking(c, Close(work[c].fd), "close") PROVE \A d : Keeps(c, d)' <=> Keeps(c, d)
    BY <1>2, <1>4, <2>1, <2>3, RequestFacts DEF Asking, Keeps, Truncating, ReadOps, WriteOps, OnHandle, HandleOps
  <2> QED BY <1>1, <1>4, <2>1, <2>2, <2>3, RequestFacts, ContinuesInv DEF Unasked, Answered
<1>5. ASSUME req[c].ok, work' = [work EXCEPT ![c].size = req[c].n],
             Continues(c, Read(work[c].fd, 0, req[c].n), "read")
      PROVE  IInv'
  <2>1. /\ DOMAIN work' = Calls /\ DOMAIN work'[c] = WorkFields /\ \A o \in Calls \ {c} : work'[o] = work[o]
        /\ work'[c].fd = work[c].fd /\ work'[c].dest = work[c].dest
    BY <1>5 DEF IInv, Shapes, WorkFields
  <2>2. ASSUME Asking(c, Read(work[c].fd, 0, req[c].n), "read") PROVE CallOK(c)'
    BY <1>2, <1>5, <2>1, <2>2, RequestFacts
       DEF Asking, CallOK, StepOK, Truncating, RequestOK, HandleOK, Apart, ReadOps, WriteOps, OnHandle, HandleOps,
           Unasked, Answered
  <2>3. ASSUME Asking(c, Read(work[c].fd, 0, req[c].n), "read") PROVE \A d : Keeps(c, d)' <=> Keeps(c, d)
    BY <1>2, <1>5, <2>1, <2>3, RequestFacts DEF Asking, Keeps, Truncating, ReadOps, WriteOps, OnHandle, HandleOps
  <2> QED BY <1>1, <1>5, <2>1, <2>2, <2>3, RequestFacts, ContinuesInv DEF Unasked, Answered
<1> QED BY <1>3, <1>4, <1>5 DEF ReadfilePromiseStated, ReadsAll

\* readfile_promise_read_cb.
LEMMA ReadfilePromiseReadInv ==
    ASSUME IInv, NEW c \in Calls, ReadfilePromiseRead(c) PROVE IInv'
<1>1. Callback(c, {"readFilePromise"}, "read")
  BY DEF ReadfilePromiseRead
<1>2. /\ Back(c) /\ ~Queued(c) /\ UnderWay(c) /\ CallOK(c)
      /\ plan[c].op \in {"readFilePromise"} /\ at[c] = "read" /\ handle[c].state = "none" /\ ~Truncating(c)
  BY <1>1, BackFacts
<1>3. CASE Fails(c, {work[c].fd})
  <2>1. (\A d \in {work[c].fd} : Keeps(c, d)) /\ \A d : Keeps(c, d) => d \in {work[c].fd} \/ (plan[c].op = "readFile" /\ req[c].sys = "read")
    BY <1>2, <1>3 DEF Keeps, Fails, OnHandle, HandleOps, ReadOps, WriteOps
  <2> QED BY <1>1, <1>3, <2>1, FailsInv
<1>4. ASSUME req[c].ok, work' = [work EXCEPT ![c].buffer = req[c].buf], Continues(c, Close(work[c].fd), "close")
      PROVE  IInv'
  <2>1. /\ DOMAIN work' = Calls /\ DOMAIN work'[c] = WorkFields /\ \A o \in Calls \ {c} : work'[o] = work[o]
        /\ work'[c].fd = work[c].fd /\ work'[c].dest = work[c].dest
    BY <1>4 DEF IInv, Shapes, WorkFields
  <2>2. ASSUME Asking(c, Close(work[c].fd), "close") PROVE CallOK(c)'
    BY <1>2, <1>4, <2>1, <2>2, RequestFacts
       DEF Asking, CallOK, StepOK, Truncating, RequestOK, HandleOK, Apart, ReadOps, WriteOps, OnHandle, HandleOps,
           Unasked, Answered
  <2>3. ASSUME Asking(c, Close(work[c].fd), "close") PROVE \A d : Keeps(c, d)' <=> Keeps(c, d)
    BY <1>2, <1>4, <2>1, <2>3, RequestFacts DEF Asking, Keeps, Truncating, ReadOps, WriteOps, OnHandle, HandleOps
  <2> QED BY <1>1, <1>4, <2>1, <2>2, <2>3, RequestFacts, ContinuesInv DEF Unasked, Answered
<1> QED BY <1>3, <1>4 DEF ReadfilePromiseRead

\* readfile_close_cb: nothing is left open.
LEMMA ReadfileClosedInv ==
    ASSUME IInv, NEW c \in Calls, ReadfileClosed(c) PROVE IInv'
<1>1. Callback(c, ReadOps, "close")
  BY DEF ReadfileClosed
<1>2. /\ Back(c) /\ ~Queued(c) /\ UnderWay(c) /\ CallOK(c)
      /\ plan[c].op \in ReadOps /\ at[c] = "close" /\ handle[c].state = "none" /\ ~Truncating(c)
  BY <1>1, BackFacts
<1>3. CASE Completes(c, work[c].buffer)
  <2>1. \A d : ~Keeps(c, d)
    BY <1>2, <1>3 DEF Keeps, OnHandle, HandleOps, ReadOps, WriteOps
  <2> QED BY <1>1, <1>3, <2>1, CompletesInv
<1> QED BY <1>3 DEF ReadfileClosed

\* writefile_open_cb.
LEMMA WritefileOpenedInv ==
    ASSUME IInv, NEW c \in Calls, WritefileOpened(c) PROVE IInv'
<1>1. Callback(c, {"writeFile"}, "open")
  BY DEF WritefileOpened
<1>2. /\ Back(c) /\ ~Queued(c) /\ UnderWay(c) /\ CallOK(c)
      /\ plan[c].op \in {"writeFile"} /\ at[c] = "open" /\ handle[c].state = "none" /\ ~Truncating(c)
  BY <1>1, BackFacts
<1>3. CASE Fails(c, {})
  <2>1. (\A d \in {} : Keeps(c, d)) /\ \A d : Keeps(c, d) => d \in {} \/ (plan[c].op = "readFile" /\ req[c].sys = "read")
    BY <1>2, <1>3 DEF Keeps, Fails, OnHandle, HandleOps, ReadOps, WriteOps
  <2> QED BY <1>1, <1>3, <2>1, FailsInv
<1>4. ASSUME req[c].ok, work' = [work EXCEPT ![c].fd = req[c].n], Continues(c, Write(req[c].n, 0, Data(c)), "write")
      PROVE  IInv'
  <2>1. /\ DOMAIN work' = Calls /\ DOMAIN work'[c] = WorkFields /\ \A o \in Calls \ {c} : work'[o] = work[o]
        /\ work'[c].fd = req[c].n /\ work'[c].dest = work[c].dest
    BY <1>4 DEF IInv, Shapes, WorkFields
  <2>2. ASSUME Asking(c, Write(req[c].n, 0, Data(c)), "write") PROVE CallOK(c)'
    BY <1>2, <1>4, <2>1, <2>2, RequestFacts
       DEF Asking, CallOK, StepOK, Truncating, RequestOK, HandleOK, Apart, ReadOps, WriteOps, OnHandle, HandleOps,
           Unasked, Answered
  <2>3. ASSUME Asking(c, Write(req[c].n, 0, Data(c)), "write") PROVE \A d : Keeps(c, d)' <=> Keeps(c, d)
    BY <1>2, <1>4, <2>1, <2>3, RequestFacts DEF Asking, Keeps, Truncating, ReadOps, WriteOps, OnHandle, HandleOps
  <2> QED BY <1>1, <1>4, <2>1, <2>2, <2>3, RequestFacts, ContinuesInv DEF Unasked, Answered
<1> QED BY <1>3, <1>4 DEF WritefileOpened, WritesAt

\* appendfile_open_cb.
LEMMA AppendfileOpenedInv ==
    ASSUME IInv, NEW c \in Calls, AppendfileOpened(c) PROVE IInv'
<1>1. Callback(c, {"appendFile"}, "open")
  BY DEF AppendfileOpened
<1>2. /\ Back(c) /\ ~Queued(c) /\ UnderWay(c) /\ CallOK(c)
      /\ plan[c].op \in {"appendFile"} /\ at[c] = "open" /\ handle[c].state = "none" /\ ~Truncating(c)
  BY <1>1, BackFacts
<1>3. CASE Fails(c, {})
  <2>1. (\A d \in {} : Keeps(c, d)) /\ \A d : Keeps(c, d) => d \in {} \/ (plan[c].op = "readFile" /\ req[c].sys = "read")
    BY <1>2, <1>3 DEF Keeps, Fails, OnHandle, HandleOps, ReadOps, WriteOps
  <2> QED BY <1>1, <1>3, <2>1, FailsInv
<1>4. ASSUME req[c].ok, work' = [work EXCEPT ![c].fd = req[c].n],
             Continues(c, Write(req[c].n, Current, Data(c)), "write")
      PROVE  IInv'
  <2>1. /\ DOMAIN work' = Calls /\ DOMAIN work'[c] = WorkFields /\ \A o \in Calls \ {c} : work'[o] = work[o]
        /\ work'[c].fd = req[c].n /\ work'[c].dest = work[c].dest
    BY <1>4 DEF IInv, Shapes, WorkFields
  <2>2. ASSUME Asking(c, Write(req[c].n, Current, Data(c)), "write") PROVE CallOK(c)'
    BY <1>2, <1>4, <2>1, <2>2, RequestFacts
       DEF Asking, CallOK, StepOK, Truncating, RequestOK, HandleOK, Apart, ReadOps, WriteOps, OnHandle, HandleOps,
           Unasked, Answered
  <2>3. ASSUME Asking(c, Write(req[c].n, Current, Data(c)), "write") PROVE \A d : Keeps(c, d)' <=> Keeps(c, d)
    BY <1>2, <1>4, <2>1, <2>3, RequestFacts DEF Asking, Keeps, Truncating, ReadOps, WriteOps, OnHandle, HandleOps
  <2> QED BY <1>1, <1>4, <2>1, <2>2, <2>3, RequestFacts, ContinuesInv DEF Unasked, Answered
<1> QED BY <1>3, <1>4 DEF AppendfileOpened, WritesAt

\* writefile_write_cb, appendfile_write_cb.
LEMMA WritefileWrittenInv ==
    ASSUME IInv, NEW c \in Calls, WritefileWritten(c) PROVE IInv'
<1>1. Callback(c, WriteOps, "write")
  BY DEF WritefileWritten
<1>2. /\ Back(c) /\ ~Queued(c) /\ UnderWay(c) /\ CallOK(c)
      /\ plan[c].op \in WriteOps /\ at[c] = "write" /\ handle[c].state = "none" /\ ~Truncating(c)
  BY <1>1, BackFacts
<1>3. CASE Fails(c, {work[c].fd})
  <2>1. (\A d \in {work[c].fd} : Keeps(c, d)) /\ \A d : Keeps(c, d) => d \in {work[c].fd} \/ (plan[c].op = "readFile" /\ req[c].sys = "read")
    BY <1>2, <1>3 DEF Keeps, Fails, OnHandle, HandleOps, ReadOps, WriteOps
  <2> QED BY <1>1, <1>3, <2>1, FailsInv
<1>4. ASSUME req[c].ok, work' = work, Continues(c, Close(work[c].fd), "close")
      PROVE  IInv'
  <2>1. /\ DOMAIN work' = Calls /\ DOMAIN work'[c] = WorkFields /\ \A o \in Calls \ {c} : work'[o] = work[o]
        /\ work'[c].fd = work[c].fd /\ work'[c].dest = work[c].dest
    BY <1>4 DEF IInv, Shapes, WorkFields
  <2>2. ASSUME Asking(c, Close(work[c].fd), "close") PROVE CallOK(c)'
    BY <1>2, <1>4, <2>1, <2>2, RequestFacts
       DEF Asking, CallOK, StepOK, Truncating, RequestOK, HandleOK, Apart, ReadOps, WriteOps, OnHandle, HandleOps,
           Unasked, Answered
  <2>3. ASSUME Asking(c, Close(work[c].fd), "close") PROVE \A d : Keeps(c, d)' <=> Keeps(c, d)
    BY <1>2, <1>4, <2>1, <2>3, RequestFacts DEF Asking, Keeps, Truncating, ReadOps, WriteOps, OnHandle, HandleOps
  <2> QED BY <1>1, <1>4, <2>1, <2>2, <2>3, RequestFacts, ContinuesInv DEF Unasked, Answered
<1> QED BY <1>3, <1>4 DEF WritefileWritten

\* writefile_close_cb, appendfile_close_cb.
LEMMA WritefileClosedInv ==
    ASSUME IInv, NEW c \in Calls, WritefileClosed(c) PROVE IInv'
<1>1. Callback(c, WriteOps, "close")
  BY DEF WritefileClosed
<1>2. /\ Back(c) /\ ~Queued(c) /\ UnderWay(c) /\ CallOK(c)
      /\ plan[c].op \in WriteOps /\ at[c] = "close" /\ handle[c].state = "none" /\ ~Truncating(c)
  BY <1>1, BackFacts
<1>3. CASE Completes(c, <<>>)
  <2>1. \A d : ~Keeps(c, d)
    BY <1>2, <1>3 DEF Keeps, OnHandle, HandleOps, ReadOps, WriteOps
  <2> QED BY <1>1, <1>3, <2>1, CompletesInv
<1> QED BY <1>3 DEF WritefileClosed

\* copyfile_open_src_cb: from here on there are two files.
LEMMA CopyfileOpenedSrcInv ==
    ASSUME IInv, NEW c \in Calls, CopyfileOpenedSrc(c) PROVE IInv'
<1>1. Callback(c, {"copyFile"}, "open")
  BY DEF CopyfileOpenedSrc
<1>2. /\ Back(c) /\ ~Queued(c) /\ UnderWay(c) /\ CallOK(c)
      /\ plan[c].op \in {"copyFile"} /\ at[c] = "open" /\ handle[c].state = "none" /\ ~Truncating(c)
  BY <1>1, BackFacts
<1>3. CASE Fails(c, {})
  <2>1. (\A d \in {} : Keeps(c, d)) /\ \A d : Keeps(c, d) => d \in {} \/ (plan[c].op = "readFile" /\ req[c].sys = "read")
    BY <1>2, <1>3 DEF Keeps, Fails, OnHandle, HandleOps, ReadOps, WriteOps
  <2> QED BY <1>1, <1>3, <2>1, FailsInv
<1>4. ASSUME req[c].ok, work' = [work EXCEPT ![c].fd = req[c].n],
             Continues(c, OpenOf(plan[c].dest, {"write", "trunc"}), "openDest")
      PROVE  IInv'
  <2>1. /\ DOMAIN work' = Calls /\ DOMAIN work'[c] = WorkFields /\ \A o \in Calls \ {c} : work'[o] = work[o]
        /\ work'[c].fd = req[c].n /\ work'[c].dest = work[c].dest
    BY <1>4 DEF IInv, Shapes, WorkFields
  <2>2. ASSUME Asking(c, OpenOf(plan[c].dest, {"write", "trunc"}), "openDest") PROVE CallOK(c)'
    BY <1>2, <1>4, <2>1, <2>2, RequestFacts
       DEF Asking, CallOK, StepOK, Truncating, RequestOK, HandleOK, Apart, ReadOps, WriteOps, OnHandle, HandleOps,
           Unasked, Answered
  <2>3. ASSUME Asking(c, OpenOf(plan[c].dest, {"write", "trunc"}), "openDest") PROVE \A d : Keeps(c, d)' <=> Keeps(c, d)
    BY <1>2, <1>4, <2>1, <2>3, RequestFacts DEF Asking, Keeps, Truncating, ReadOps, WriteOps, OnHandle, HandleOps
  <2> QED BY <1>1, <1>4, <2>1, <2>2, <2>3, RequestFacts, ContinuesInv DEF Unasked, Answered
<1> QED BY <1>3, <1>4 DEF CopyfileOpenedSrc

\* copyfile_open_dest_cb: the two descriptors differ, as the first is open when the second is made.
LEMMA CopyfileOpenedDestInv ==
    ASSUME IInv, NEW c \in Calls, CopyfileOpenedDest(c) PROVE IInv'
<1>1. Callback(c, {"copyFile"}, "openDest")
  BY DEF CopyfileOpenedDest
<1>2. /\ Back(c) /\ ~Queued(c) /\ UnderWay(c) /\ CallOK(c)
      /\ plan[c].op \in {"copyFile"} /\ at[c] = "openDest" /\ handle[c].state = "none" /\ ~Truncating(c)
  BY <1>1, BackFacts
<1>3. CASE Fails(c, {work[c].fd})
  <2>1. (\A d \in {work[c].fd} : Keeps(c, d)) /\ \A d : Keeps(c, d) => d \in {work[c].fd} \/ (plan[c].op = "readFile" /\ req[c].sys = "read")
    BY <1>2, <1>3 DEF Keeps, Fails, OnHandle, HandleOps, ReadOps, WriteOps
  <2> QED BY <1>1, <1>3, <2>1, FailsInv
<1>4. ASSUME req[c].ok, work' = [work EXCEPT ![c].dest = req[c].n], Continues(c, Fstat(work[c].fd), "fstat")
      PROVE  IInv'
  <2>1. /\ DOMAIN work' = Calls /\ DOMAIN work'[c] = WorkFields /\ \A o \in Calls \ {c} : work'[o] = work[o]
        /\ work'[c].fd = work[c].fd /\ work'[c].dest = req[c].n
    BY <1>4 DEF IInv, Shapes, WorkFields
  <2>2. ASSUME Asking(c, Fstat(work[c].fd), "fstat") PROVE CallOK(c)'
    BY <1>2, <1>4, <2>1, <2>2, RequestFacts
       DEF Asking, CallOK, StepOK, Truncating, RequestOK, HandleOK, Apart, ReadOps, WriteOps, OnHandle, HandleOps,
           Unasked, Answered
  <2>3. ASSUME Asking(c, Fstat(work[c].fd), "fstat") PROVE \A d : Keeps(c, d)' <=> Keeps(c, d)
    BY <1>2, <1>4, <2>1, <2>3, RequestFacts DEF Asking, Keeps, Truncating, ReadOps, WriteOps, OnHandle, HandleOps
  <2> QED BY <1>1, <1>4, <2>1, <2>2, <2>3, RequestFacts, ContinuesInv DEF Unasked, Answered
<1> QED BY <1>3, <1>4 DEF CopyfileOpenedDest

\* copyfile_fstat_cb: an error closes both.
LEMMA CopyfileStatedInv ==
    ASSUME IInv, NEW c \in Calls, CopyfileStated(c) PROVE IInv'
<1>1. Callback(c, {"copyFile"}, "fstat")
  BY DEF CopyfileStated
<1>2. /\ Back(c) /\ ~Queued(c) /\ UnderWay(c) /\ CallOK(c)
      /\ plan[c].op \in {"copyFile"} /\ at[c] = "fstat" /\ handle[c].state = "none" /\ ~Truncating(c)
  BY <1>1, BackFacts
<1>3. CASE Fails(c, {work[c].dest, work[c].fd})
  <2>1. /\ \A d \in {work[c].dest, work[c].fd} : Keeps(c, d)
        /\ \A d : Keeps(c, d) => d \in {work[c].dest, work[c].fd} \/ (plan[c].op = "readFile" /\ req[c].sys = "read")
    BY <1>2, <1>3 DEF Keeps, Fails, OnHandle, HandleOps, ReadOps, WriteOps
  <2> QED BY <1>1, <1>3, <2>1, FailsInv
<1>4. ASSUME req[c].ok, work' = [work EXCEPT ![c].size = req[c].n, ![c].offset = 0],
             Continues(c, Read(work[c].fd, 0, ChunkSize), "read")
      PROVE  IInv'
  <2>1. /\ DOMAIN work' = Calls /\ DOMAIN work'[c] = WorkFields /\ \A o \in Calls \ {c} : work'[o] = work[o]
        /\ work'[c].fd = work[c].fd /\ work'[c].dest = work[c].dest
    BY <1>4 DEF IInv, Shapes, WorkFields
  <2>2. ASSUME Asking(c, Read(work[c].fd, 0, ChunkSize), "read") PROVE CallOK(c)'
    BY <1>2, <1>4, <2>1, <2>2, RequestFacts
       DEF Asking, CallOK, StepOK, Truncating, RequestOK, HandleOK, Apart, ReadOps, WriteOps, OnHandle, HandleOps,
           Unasked, Answered
  <2>3. ASSUME Asking(c, Read(work[c].fd, 0, ChunkSize), "read") PROVE \A d : Keeps(c, d)' <=> Keeps(c, d)
    BY <1>2, <1>4, <2>1, <2>3, RequestFacts DEF Asking, Keeps, Truncating, ReadOps, WriteOps, OnHandle, HandleOps
  <2> QED BY <1>1, <1>4, <2>1, <2>2, <2>3, RequestFacts, ContinuesInv DEF Unasked, Answered
<1> QED BY <1>3, <1>4 DEF CopyfileStated

\* copyfile_read_cb.
LEMMA CopyfileReadInv ==
    ASSUME IInv, NEW c \in Calls, CopyfileRead(c) PROVE IInv'
<1>1. Callback(c, {"copyFile"}, "read")
  BY DEF CopyfileRead
<1>2. /\ Back(c) /\ ~Queued(c) /\ UnderWay(c) /\ CallOK(c)
      /\ plan[c].op \in {"copyFile"} /\ at[c] = "read" /\ handle[c].state = "none" /\ ~Truncating(c)
  BY <1>1, BackFacts
<1>3. CASE Fails(c, {work[c].dest, work[c].fd})
  <2>1. /\ \A d \in {work[c].dest, work[c].fd} : Keeps(c, d)
        /\ \A d : Keeps(c, d) => d \in {work[c].dest, work[c].fd} \/ (plan[c].op = "readFile" /\ req[c].sys = "read")
    BY <1>2, <1>3 DEF Keeps, Fails, OnHandle, HandleOps, ReadOps, WriteOps
  <2> QED BY <1>1, <1>3, <2>1, FailsInv
<1>4. ASSUME req[c].ok, work' = work, Continues(c, Close(work[c].dest), "closeDest")
      PROVE  IInv'
  <2>1. /\ DOMAIN work' = Calls /\ DOMAIN work'[c] = WorkFields /\ \A o \in Calls \ {c} : work'[o] = work[o]
        /\ work'[c].fd = work[c].fd /\ work'[c].dest = work[c].dest
    BY <1>4 DEF IInv, Shapes, WorkFields
  <2>2. ASSUME Asking(c, Close(work[c].dest), "closeDest") PROVE CallOK(c)'
    BY <1>2, <1>4, <2>1, <2>2, RequestFacts
       DEF Asking, CallOK, StepOK, Truncating, RequestOK, HandleOK, Apart, ReadOps, WriteOps, OnHandle, HandleOps,
           Unasked, Answered
  <2>3. ASSUME Asking(c, Close(work[c].dest), "closeDest") PROVE \A d : Keeps(c, d)' <=> Keeps(c, d)
    BY <1>2, <1>4, <2>1, <2>3, RequestFacts DEF Asking, Keeps, Truncating, ReadOps, WriteOps, OnHandle, HandleOps
  <2> QED BY <1>1, <1>4, <2>1, <2>2, <2>3, RequestFacts, ContinuesInv DEF Unasked, Answered
<1>5. ASSUME req[c].ok, work' = [work EXCEPT ![c].offset = @ + req[c].n],
             Continues(c, Write(work[c].dest, Current, req[c].buf), "write")
      PROVE  IInv'
  <2>1. /\ DOMAIN work' = Calls /\ DOMAIN work'[c] = WorkFields /\ \A o \in Calls \ {c} : work'[o] = work[o]
        /\ work'[c].fd = work[c].fd /\ work'[c].dest = work[c].dest
    BY <1>5 DEF IInv, Shapes, WorkFields
  <2>2. ASSUME Asking(c, Write(work[c].dest, Current, req[c].buf), "write") PROVE CallOK(c)'
    BY <1>2, <1>5, <2>1, <2>2, RequestFacts
       DEF Asking, CallOK, StepOK, Truncating, RequestOK, HandleOK, Apart, ReadOps, WriteOps, OnHandle, HandleOps,
           Unasked, Answered
  <2>3. ASSUME Asking(c, Write(work[c].dest, Current, req[c].buf), "write") PROVE \A d : Keeps(c, d)' <=> Keeps(c, d)
    BY <1>2, <1>5, <2>1, <2>3, RequestFacts DEF Asking, Keeps, Truncating, ReadOps, WriteOps, OnHandle, HandleOps
  <2> QED BY <1>1, <1>5, <2>1, <2>2, <2>3, RequestFacts, ContinuesInv DEF Unasked, Answered
<1> QED BY <1>3, <1>4, <1>5 DEF CopyfileRead

\* copyfile_write_cb.
LEMMA CopyfileWrittenInv ==
    ASSUME IInv, NEW c \in Calls, CopyfileWritten(c) PROVE IInv'
<1>1. Callback(c, {"copyFile"}, "write")
  BY DEF CopyfileWritten
<1>2. /\ Back(c) /\ ~Queued(c) /\ UnderWay(c) /\ CallOK(c)
      /\ plan[c].op \in {"copyFile"} /\ at[c] = "write" /\ handle[c].state = "none" /\ ~Truncating(c)
  BY <1>1, BackFacts
<1>3. CASE Fails(c, {work[c].dest, work[c].fd})
  <2>1. /\ \A d \in {work[c].dest, work[c].fd} : Keeps(c, d)
        /\ \A d : Keeps(c, d) => d \in {work[c].dest, work[c].fd} \/ (plan[c].op = "readFile" /\ req[c].sys = "read")
    BY <1>2, <1>3 DEF Keeps, Fails, OnHandle, HandleOps, ReadOps, WriteOps
  <2> QED BY <1>1, <1>3, <2>1, FailsInv
<1>4. ASSUME req[c].ok, work' = work, Continues(c, Read(work[c].fd, work[c].offset, ChunkSize), "read")
      PROVE  IInv'
  <2>1. /\ DOMAIN work' = Calls /\ DOMAIN work'[c] = WorkFields /\ \A o \in Calls \ {c} : work'[o] = work[o]
        /\ work'[c].fd = work[c].fd /\ work'[c].dest = work[c].dest
    BY <1>4 DEF IInv, Shapes, WorkFields
  <2>2. ASSUME Asking(c, Read(work[c].fd, work[c].offset, ChunkSize), "read") PROVE CallOK(c)'
    BY <1>2, <1>4, <2>1, <2>2, RequestFacts
       DEF Asking, CallOK, StepOK, Truncating, RequestOK, HandleOK, Apart, ReadOps, WriteOps, OnHandle, HandleOps,
           Unasked, Answered
  <2>3. ASSUME Asking(c, Read(work[c].fd, work[c].offset, ChunkSize), "read") PROVE \A d : Keeps(c, d)' <=> Keeps(c, d)
    BY <1>2, <1>4, <2>1, <2>3, RequestFacts DEF Asking, Keeps, Truncating, ReadOps, WriteOps, OnHandle, HandleOps
  <2> QED BY <1>1, <1>4, <2>1, <2>2, <2>3, RequestFacts, ContinuesInv DEF Unasked, Answered
<1> QED BY <1>3, <1>4 DEF CopyfileWritten

\* copyfile_close_dest_cb: the source is still open.
LEMMA CopyfileClosedDestInv ==
    ASSUME IInv, NEW c \in Calls, CopyfileClosedDest(c) PROVE IInv'
<1>1. Callback(c, {"copyFile"}, "closeDest")
  BY DEF CopyfileClosedDest
<1>2. /\ Back(c) /\ ~Queued(c) /\ UnderWay(c) /\ CallOK(c)
      /\ plan[c].op \in {"copyFile"} /\ at[c] = "closeDest" /\ handle[c].state = "none" /\ ~Truncating(c)
  BY <1>1, BackFacts
<1>3. ASSUME work' = work, Continues(c, Close(work[c].fd), "close")
      PROVE  IInv'
  <2>1. /\ DOMAIN work' = Calls /\ DOMAIN work'[c] = WorkFields /\ \A o \in Calls \ {c} : work'[o] = work[o]
        /\ work'[c].fd = work[c].fd /\ work'[c].dest = work[c].dest
    BY <1>3 DEF IInv, Shapes, WorkFields
  <2>2. ASSUME Asking(c, Close(work[c].fd), "close") PROVE CallOK(c)'
    BY <1>2, <1>3, <2>1, <2>2, RequestFacts
       DEF Asking, CallOK, StepOK, Truncating, RequestOK, HandleOK, Apart, ReadOps, WriteOps, OnHandle, HandleOps,
           Unasked, Answered
  <2>3. ASSUME Asking(c, Close(work[c].fd), "close") PROVE \A d : Keeps(c, d)' <=> Keeps(c, d)
    BY <1>2, <1>3, <2>1, <2>3, RequestFacts DEF Asking, Keeps, Truncating, ReadOps, WriteOps, OnHandle, HandleOps
  <2> QED BY <1>1, <1>3, <2>1, <2>2, <2>3, RequestFacts, ContinuesInv DEF Unasked, Answered
<1> QED BY <1>3 DEF CopyfileClosedDest

\* copyfile_cleanup_cb.
LEMMA CopyfileCleanupInv ==
    ASSUME IInv, NEW c \in Calls, CopyfileCleanup(c) PROVE IInv'
<1>1. Callback(c, {"copyFile"}, "close")
  BY DEF CopyfileCleanup
<1>2. /\ Back(c) /\ ~Queued(c) /\ UnderWay(c) /\ CallOK(c)
      /\ plan[c].op \in {"copyFile"} /\ at[c] = "close" /\ handle[c].state = "none" /\ ~Truncating(c)
  BY <1>1, BackFacts
<1>3. CASE Completes(c, <<>>)
  <2>1. \A d : ~Keeps(c, d)
    BY <1>2, <1>3 DEF Keeps, OnHandle, HandleOps, ReadOps, WriteOps
  <2> QED BY <1>1, <1>3, <2>1, CompletesInv
<1> QED BY <1>3 DEF CopyfileCleanup

\* The callback of ftruncate(): the descriptor was closed before.
LEMMA TruncateCompletedInv ==
    ASSUME IInv, NEW c \in Calls, TruncateCompleted(c) PROVE IInv'
<1>1. Callback(c, {"truncate"}, "ftruncate")
  BY DEF TruncateCompleted
<1>2. /\ Back(c) /\ ~Queued(c) /\ UnderWay(c) /\ CallOK(c)
      /\ plan[c].op \in {"truncate"} /\ at[c] = "ftruncate" /\ handle[c].state = "none" /\ ~Truncating(c)
  BY <1>1, BackFacts
<1>3. CASE Fails(c, {})
  <2>1. (\A d \in {} : Keeps(c, d)) /\ \A d : Keeps(c, d) => d \in {} \/ (plan[c].op = "readFile" /\ req[c].sys = "read")
    BY <1>2, <1>3 DEF Keeps, Fails, OnHandle, HandleOps, ReadOps, WriteOps
  <2> QED BY <1>1, <1>3, <2>1, FailsInv
<1>4. CASE Completes(c, <<>>)
  <2>1. \A d : ~Keeps(c, d)
    BY <1>2, <1>4 DEF Keeps, OnHandle, HandleOps, ReadOps, WriteOps
  <2> QED BY <1>1, <1>4, <2>1, CompletesInv
<1> QED BY <1>3, <1>4 DEF TruncateCompleted

\* filehandle_readfile_fstat_cb: the descriptor is the handle's to close.
LEMMA HandleReadfileStatedInv ==
    ASSUME IInv, NEW c \in Calls, HandleReadfileStated(c) PROVE IInv'
<1>1. Callback(c, {"handle.readFile"}, "fstat")
  BY DEF HandleReadfileStated
<1>2. /\ Back(c) /\ ~Queued(c) /\ UnderWay(c) /\ CallOK(c)
      /\ plan[c].op \in {"handle.readFile"} /\ at[c] = "fstat" /\ handle[c].state = "none" /\ ~Truncating(c)
  BY <1>1, BackFacts
<1>3. CASE Fails(c, {})
  <2>1. (\A d \in {} : Keeps(c, d)) /\ \A d : Keeps(c, d) => d \in {} \/ (plan[c].op = "readFile" /\ req[c].sys = "read")
    BY <1>2, <1>3 DEF Keeps, Fails, OnHandle, HandleOps, ReadOps, WriteOps
  <2> QED BY <1>1, <1>3, <2>1, FailsInv
<1>4. CASE Completes(c, <<>>)
  <2>1. \A d : ~Keeps(c, d)
    BY <1>2, <1>4 DEF Keeps, OnHandle, HandleOps, ReadOps, WriteOps
  <2> QED BY <1>1, <1>4, <2>1, CompletesInv
<1>5. ASSUME req[c].ok, work' = [work EXCEPT ![c].size = req[c].n],
             Continues(c, Read(work[c].fd, 0, req[c].n), "read")
      PROVE  IInv'
  <2>1. /\ DOMAIN work' = Calls /\ DOMAIN work'[c] = WorkFields /\ \A o \in Calls \ {c} : work'[o] = work[o]
        /\ work'[c].fd = work[c].fd /\ work'[c].dest = work[c].dest
    BY <1>5 DEF IInv, Shapes, WorkFields
  <2>2. ASSUME Asking(c, Read(work[c].fd, 0, req[c].n), "read") PROVE CallOK(c)'
    BY <1>2, <1>5, <2>1, <2>2, RequestFacts
       DEF Asking, CallOK, StepOK, Truncating, RequestOK, HandleOK, Apart, ReadOps, WriteOps, OnHandle, HandleOps,
           Unasked, Answered
  <2>3. ASSUME Asking(c, Read(work[c].fd, 0, req[c].n), "read") PROVE \A d : Keeps(c, d)' <=> Keeps(c, d)
    BY <1>2, <1>5, <2>1, <2>3, RequestFacts DEF Asking, Keeps, Truncating, ReadOps, WriteOps, OnHandle, HandleOps
  <2> QED BY <1>1, <1>5, <2>1, <2>2, <2>3, RequestFacts, ContinuesInv DEF Unasked, Answered
<1> QED BY <1>3, <1>4, <1>5 DEF HandleReadfileStated

\* filehandle_readfile_read_cb.
LEMMA HandleReadfileReadInv ==
    ASSUME IInv, NEW c \in Calls, HandleReadfileRead(c) PROVE IInv'
<1>1. Callback(c, {"handle.readFile"}, "read")
  BY DEF HandleReadfileRead
<1>2. /\ Back(c) /\ ~Queued(c) /\ UnderWay(c) /\ CallOK(c)
      /\ plan[c].op \in {"handle.readFile"} /\ at[c] = "read" /\ handle[c].state = "none" /\ ~Truncating(c)
  BY <1>1, BackFacts
<1>3. CASE Fails(c, {})
  <2>1. (\A d \in {} : Keeps(c, d)) /\ \A d : Keeps(c, d) => d \in {} \/ (plan[c].op = "readFile" /\ req[c].sys = "read")
    BY <1>2, <1>3 DEF Keeps, Fails, OnHandle, HandleOps, ReadOps, WriteOps
  <2> QED BY <1>1, <1>3, <2>1, FailsInv
<1>4. CASE Completes(c, [i \in 1..work[c].size |-> IF i <= req[c].n THEN req[c].buf[i] ELSE Garbage])
  <2>1. \A d : ~Keeps(c, d)
    BY <1>2, <1>4 DEF Keeps, OnHandle, HandleOps, ReadOps, WriteOps
  <2> QED BY <1>1, <1>4, <2>1, CompletesInv
<1> QED BY <1>3, <1>4 DEF HandleReadfileRead

\* filehandle_close_cb.
LEMMA HandleClosedInv ==
    ASSUME IInv, NEW c \in Calls, HandleClosed(c) PROVE IInv'
<1>1. Callback(c, {"handle.close"}, "close")
  BY DEF HandleClosed
<1>2. /\ Back(c) /\ ~Queued(c) /\ UnderWay(c) /\ CallOK(c)
      /\ plan[c].op \in {"handle.close"} /\ at[c] = "close" /\ handle[c].state = "none" /\ ~Truncating(c)
  BY <1>1, BackFacts
<1>3. CASE Fails(c, {})
  <2>1. (\A d \in {} : Keeps(c, d)) /\ \A d : Keeps(c, d) => d \in {} \/ (plan[c].op = "readFile" /\ req[c].sys = "read")
    BY <1>2, <1>3 DEF Keeps, Fails, OnHandle, HandleOps, ReadOps, WriteOps
  <2> QED BY <1>1, <1>3, <2>1, FailsInv
<1>4. CASE Completes(c, <<>>)
  <2>1. \A d : ~Keeps(c, d)
    BY <1>2, <1>4 DEF Keeps, OnHandle, HandleOps, ReadOps, WriteOps
  <2> QED BY <1>1, <1>4, <2>1, CompletesInv
<1> QED BY <1>3, <1>4 DEF HandleClosed

\* filehandle_read_cb, filehandle_write_cb.
LEMMA HandleCompletedInv ==
    ASSUME IInv, NEW c \in Calls, HandleCompleted(c) PROVE IInv'
<1>1. PICK step \in {"read", "write"} : Callback(c, {"handle.read", "handle.write"}, step)
  BY DEF HandleCompleted, Callback
<1>2. plan[c].op \in {"handle.read", "handle.write"} /\ at[c] = step /\ handle[c].state = "none" /\ ~Truncating(c)
  BY <1>1, BackFacts
<1>3. \A d : ~Keeps(c, d)
  BY <1>2 DEF Keeps, OnHandle, HandleOps
<1>4. CASE Fails(c, {})
  BY <1>1, <1>3, <1>4, FailsInv
<1>5. CASE Completes(c, req[c].buf)
  BY <1>1, <1>3, <1>5, CompletesInv
<1> QED BY <1>4, <1>5 DEF HandleCompleted

\* fs_promise_complete_fd: the FileHandle becomes the keeper of the descriptor.
LEMMA OpenCompletedInv ==
    ASSUME IInv, NEW c \in Calls, OpenCompleted(c) PROVE IInv'
<1>1. Callback(c, {"open"}, "open")
  BY DEF OpenCompleted
<1>2. /\ Moves(c) /\ Back(c) /\ ~Queued(c) /\ UnderWay(c) /\ CallOK(c)
      /\ plan[c].op = "open" /\ at[c] = "open" /\ handle[c].state = "none" /\ ~Truncating(c)
  BY <1>1, BackFacts
<1>3. CASE Fails(c, {})
  <2>1. \A d : ~Keeps(c, d)
    BY <1>2, <1>3 DEF Keeps, Fails
  <2> QED BY <1>1, <1>3, <2>1, FailsInv
<1>4. ASSUME req[c].ok, handle' = [handle EXCEPT ![c] = [state |-> "open", fd |-> req[c].n]],
             Answer(c, TRUE, <<>>), UNCHANGED <<plan, queue, kernelVars>>
      PROVE  IInv'
  <2>1. /\ at'[c] = Answered /\ work'[c] = NoWork
        /\ ~UnderWay(c)' /\ ~Queued(c)' /\ ~Back(c)' /\ PoolOK' /\ Others(c)
        /\ DOMAIN at' = Calls /\ DOMAIN req' = Calls /\ DOMAIN work' = Calls /\ DOMAIN answer' = Calls
        /\ \A o \in Calls : o # c => /\ req'[o] = req[o] /\ work'[o] = work[o]
                                     /\ (UnderWay(o)' <=> UnderWay(o))
    <3>1. UNCHANGED queue
      BY <1>4
    <3> QED BY <1>2, <1>4, <3>1, AnswerFacts
  <2>2. Keeps(c, req[c].n)
    BY <1>2, <1>4 DEF Keeps
  <2>3. req[c].n \in Fds
    BY <2>2 DEF IInv, Kept
  <2>4. /\ plan' = plan /\ table' = table /\ strays' = strays
        /\ handle'[c] = [state |-> "open", fd |-> req[c].n] /\ \A o \in Calls \ {c} : handle'[o] = handle[o]
    BY <1>4 DEF kernelVars, IInv, Shapes
  <2>5. handle' \in [Calls -> [state : {"none", "open", "closed", "dropped"}, fd : Fds \cup {0}]]
    BY <1>4, <2>3 DEF IInv, Shapes
  <2>6. Shapes' /\ Descriptors'
    BY <2>1, <2>4, <2>5 DEF IInv, Shapes, Descriptors, NoWork
  <2>7. HandlesGoOn(c) /\ ~GaveUp(c)
    BY <1>2, <2>4 DEF HandlesGoOn, GaveUp, Answered
  <2>8. CallOK(c)'
    BY <1>2, <2>1, <2>4 DEF CallOK, StepOK, Truncating, RequestOK, HandleOK, Apart, OnHandle, HandleOps, Answered
  <2>9. \A d : Keeps(c, d)' <=> Keeps(c, d)
    <3>1. \A d : Keeps(c, d)' <=> d = req[c].n
      BY <1>2, <2>1, <2>4 DEF Keeps, Truncating, NoWork, Answered
    <3>2. \A d : Keeps(c, d) <=> d = req[c].n
      BY <1>2, <1>4 DEF Keeps
    <3> QED BY <3>1, <3>2
  <2>10. \A d : Keeps(c, d) => d \in Fds /\ table'[d].of = Opener(c)
    BY <2>4 DEF IInv, Kept
  <2> QED BY <2>1, <2>4, <2>6, <2>7, <2>8, <2>9, <2>10, CallSteps
<1> QED BY <1>3, <1>4 DEF OpenCompleted

\* The descriptor is closed, whether the ftruncate() was made or not.
LEMMA TruncateClosesInv ==
    ASSUME IInv, NEW c \in Calls, TruncateCloses(c) PROVE IInv'
<1>1. /\ plan[c].op = "truncate" /\ work[c].fd # 0 /\ work' = [work EXCEPT ![c].fd = 0]
      /\ plan' = plan /\ at' = at /\ handle' = handle /\ req' = req /\ queue' = queue /\ done' = done /\ answer' = answer
      /\ table' = [d \in Fds |-> IF d \in {work[c].fd} THEN Free ELSE table[d]]
      /\ strays' = Strays(c, "close", {work[c].fd})
  BY DEF TruncateCloses, Truncating, CloseNow, poolVars
<1>2. Keeps(c, work[c].fd) /\ Opener(c) = c /\ ~OnHandle(c)
  BY <1>1 DEF Keeps, Truncating, Opener, OnHandle, HandleOps
<1>3. work[c].fd \in Fds /\ table[work[c].fd].of = c
  BY <1>2 DEF IInv, Kept
<1>4. strays' = strays
  BY <1>1, <1>2, <1>3 DEF Strays
<1>5. /\ DOMAIN work' = Calls /\ work'[c].fd = 0 /\ DOMAIN work'[c] = DOMAIN work[c]
      /\ \A o \in Calls : o # c => work'[o] = work[o]
  BY <1>1 DEF IInv, Shapes
<1>6. \A o \in Calls : UnderWay(o)' <=> UnderWay(o)
  BY <1>1 DEF UnderWay
<1>7. PoolOK' /\ Others(c) /\ Queued(c)' = Queued(c) /\ HandlesGoOn(c)
  <2>1. PoolOK' /\ \A o \in Calls : (Queued(o)' <=> Queued(o)) /\ (Back(o)' <=> Back(o))
    BY <1>1, <1>6, PoolSame DEF IInv
  <2> QED BY <1>1, <1>5, <2>1 DEF Others, HandlesGoOn, Queued
<1>8. Shapes'
  BY <1>1, <1>5, <1>6 DEF IInv, Shapes
<1>9. Descriptors' /\ table'[work[c].fd].of = 0
  BY <1>1, <1>3 DEF IInv, Descriptors, Free
<1>10. at[c] \notin {"open", "openDest", "fstat", "read", "write", "closeDest", "close"} /\ handle[c].state = "none"
  BY <1>1 DEF IInv, CallOK, StepOK, Truncating, HandleOK, UnderWay, Unasked, Answered, ReadOps, WriteOps
<1>11. CallOK(c)'
  BY <1>1, <1>2, <1>6, <1>7, <1>10
     DEF IInv, CallOK, StepOK, Truncating, RequestOK, HandleOK, Apart, OnHandle, HandleOps, ReadOps, WriteOps
<1>12. \A d : ~Keeps(c, d)' /\ (Keeps(c, d) <=> d = work[c].fd)
  BY <1>1, <1>2, <1>5, <1>10 DEF Keeps, Truncating
<1>13. GaveUp(c) => GaveUp(c)'
  BY <1>1 DEF GaveUp
<1>14. /\ \A d \in Fds : ~Keeps(c, d) => table'[d].of = table[d].of
       /\ \A d \in Fds : Keeps(c, d) => table'[d].of = 0
  BY <1>1, <1>9, <1>12
<1>15. UNCHANGED plan /\ \A o \in Calls \ {c} : handle'[o] = handle[o]
  BY <1>1
<1> QED BY <1>4, <1>7, <1>8, <1>9, <1>11, <1>12, <1>13, <1>14, <1>15, CallSteps

-----------------------------------------------------------------------------
(* Scripts.                                                                *)

\* Where a script finds a call that it makes.
LEMMA StartFacts ==
    ASSUME IInv, NEW c \in Calls, NEW ops, Called(c, ops)
    PROVE  /\ plan[c].op \in ops /\ at[c] = Unasked /\ ~UnderWay(c) /\ handle[c].state = "none" /\ ~Truncating(c)
           /\ CallOK(c) /\ (done' = done => Moves(c)) /\ \A d : ~Keeps(c, d)
<1>1. plan[c].op \in ops /\ at[c] = Unasked /\ ~Truncating(c) /\ CallOK(c) /\ (done' = done => Moves(c))
  BY DEF Called, LoopFree, IInv, Moves
<1>2. ~UnderWay(c) /\ handle[c].state = "none"
  BY <1>1 DEF UnderWay, CallOK, HandleOK, Unasked, Answered
<1>3. \A d : ~Keeps(c, d)
  BY <1>1, <1>2 DEF Keeps, Unasked
<1> QED BY <1>1, <1>2, <1>3

\* A first request, in which no descriptor changes hands.
LEMMA StartsInv ==
    ASSUME IInv, NEW c \in Calls, NEW ops, Called(c, ops), NEW r, NEW step, Ask(c, r, step),
           step \notin {Unasked, Answered}, DOMAIN r = RequestFields,
           UNCHANGED <<plan, handle, done, kernelVars, answer>>,
           DOMAIN work' = Calls, DOMAIN work'[c] = WorkFields, \A o \in Calls \ {c} : work'[o] = work[o],
           Asking(c, r, step) => CallOK(c)' /\ \A d : ~Keeps(c, d)'
    PROVE  IInv'
<1>1. Moves(c) /\ \A d : ~Keeps(c, d)
  BY StartFacts
<1>2. UNCHANGED <<plan, handle, table, strays, answer>>
  BY DEF kernelVars
<1> QED BY <1>1, <1>2, Asks

\* readFile(), of fs and of fs.promises.
LEMMA ReadFileInv ==
    ASSUME IInv, NEW c \in Calls, ReadFile(c) PROVE IInv'
<1>1. /\ Called(c, ReadOps) /\ Ask(c, OpenOf(plan[c].path, {"read"}), "open") /\ work' = work
      /\ UNCHANGED <<plan, handle, done, kernelVars, answer>>
  BY DEF ReadFile, Asked
<1>2. /\ plan[c].op \in ReadOps /\ handle[c].state = "none" /\ ~Truncating(c)
  BY <1>1, StartFacts
<1>3. /\ DOMAIN work' = Calls /\ DOMAIN work'[c] = WorkFields /\ \A o \in Calls \ {c} : work'[o] = work[o]
      /\ work'[c].fd = work[c].fd
  BY <1>1 DEF IInv, Shapes, WorkFields
<1>4. ASSUME Asking(c, OpenOf(plan[c].path, {"read"}), "open") PROVE CallOK(c)'
  BY <1>2, <1>3, <1>4, RequestFacts
     DEF Asking, CallOK, StepOK, Truncating, RequestOK, HandleOK, Apart, ReadOps, WriteOps, OnHandle,
         HandleOps, Unasked, Answered
<1>5. ASSUME Asking(c, OpenOf(plan[c].path, {"read"}), "open") PROVE \A d : ~Keeps(c, d)'
  BY <1>2, <1>3, <1>5 DEF Asking, Keeps, Truncating, ReadOps, WriteOps, OnHandle, HandleOps
<1> QED BY <1>1, <1>3, <1>4, <1>5, RequestFacts, StartsInv DEF Unasked, Answered

\* writeFile().
LEMMA WriteFileInv ==
    ASSUME IInv, NEW c \in Calls, WriteFile(c) PROVE IInv'
<1>1. /\ Called(c, {"writeFile"}) /\ Ask(c, OpenOf(plan[c].path, {"write", "trunc"}), "open") /\ work' = work
      /\ UNCHANGED <<plan, handle, done, kernelVars, answer>>
  BY DEF WriteFile, Asked
<1>2. /\ plan[c].op \in {"writeFile"} /\ handle[c].state = "none" /\ ~Truncating(c)
  BY <1>1, StartFacts
<1>3. /\ DOMAIN work' = Calls /\ DOMAIN work'[c] = WorkFields /\ \A o \in Calls \ {c} : work'[o] = work[o]
      /\ work'[c].fd = work[c].fd
  BY <1>1 DEF IInv, Shapes, WorkFields
<1>4. ASSUME Asking(c, OpenOf(plan[c].path, {"write", "trunc"}), "open") PROVE CallOK(c)'
  BY <1>2, <1>3, <1>4, RequestFacts
     DEF Asking, CallOK, StepOK, Truncating, RequestOK, HandleOK, Apart, ReadOps, WriteOps, OnHandle,
         HandleOps, Unasked, Answered
<1>5. ASSUME Asking(c, OpenOf(plan[c].path, {"write", "trunc"}), "open") PROVE \A d : ~Keeps(c, d)'
  BY <1>2, <1>3, <1>5 DEF Asking, Keeps, Truncating, ReadOps, WriteOps, OnHandle, HandleOps
<1> QED BY <1>1, <1>3, <1>4, <1>5, RequestFacts, StartsInv DEF Unasked, Answered

\* appendFile().
LEMMA AppendFileInv ==
    ASSUME IInv, NEW c \in Calls, AppendFile(c) PROVE IInv'
<1>1. /\ Called(c, {"appendFile"}) /\ Ask(c, OpenOf(plan[c].path, {"write", "append"}), "open") /\ work' = work
      /\ UNCHANGED <<plan, handle, done, kernelVars, answer>>
  BY DEF AppendFile, Asked
<1>2. /\ plan[c].op \in {"appendFile"} /\ handle[c].state = "none" /\ ~Truncating(c)
  BY <1>1, StartFacts
<1>3. /\ DOMAIN work' = Calls /\ DOMAIN work'[c] = WorkFields /\ \A o \in Calls \ {c} : work'[o] = work[o]
      /\ work'[c].fd = work[c].fd
  BY <1>1 DEF IInv, Shapes, WorkFields
<1>4. ASSUME Asking(c, OpenOf(plan[c].path, {"write", "append"}), "open") PROVE CallOK(c)'
  BY <1>2, <1>3, <1>4, RequestFacts
     DEF Asking, CallOK, StepOK, Truncating, RequestOK, HandleOK, Apart, ReadOps, WriteOps, OnHandle,
         HandleOps, Unasked, Answered
<1>5. ASSUME Asking(c, OpenOf(plan[c].path, {"write", "append"}), "open") PROVE \A d : ~Keeps(c, d)'
  BY <1>2, <1>3, <1>5 DEF Asking, Keeps, Truncating, ReadOps, WriteOps, OnHandle, HandleOps
<1> QED BY <1>1, <1>3, <1>4, <1>5, RequestFacts, StartsInv DEF Unasked, Answered

\* copyFile().
LEMMA CopyFileInv ==
    ASSUME IInv, NEW c \in Calls, CopyFile(c) PROVE IInv'
<1>1. /\ Called(c, {"copyFile"}) /\ Ask(c, OpenOf(plan[c].path, {"read"}), "open") /\ work' = work
      /\ UNCHANGED <<plan, handle, done, kernelVars, answer>>
  BY DEF CopyFile, Asked
<1>2. /\ plan[c].op \in {"copyFile"} /\ handle[c].state = "none" /\ ~Truncating(c)
  BY <1>1, StartFacts
<1>3. /\ DOMAIN work' = Calls /\ DOMAIN work'[c] = WorkFields /\ \A o \in Calls \ {c} : work'[o] = work[o]
      /\ work'[c].fd = work[c].fd
  BY <1>1 DEF IInv, Shapes, WorkFields
<1>4. ASSUME Asking(c, OpenOf(plan[c].path, {"read"}), "open") PROVE CallOK(c)'
  BY <1>2, <1>3, <1>4, RequestFacts
     DEF Asking, CallOK, StepOK, Truncating, RequestOK, HandleOK, Apart, ReadOps, WriteOps, OnHandle,
         HandleOps, Unasked, Answered
<1>5. ASSUME Asking(c, OpenOf(plan[c].path, {"read"}), "open") PROVE \A d : ~Keeps(c, d)'
  BY <1>2, <1>3, <1>5 DEF Asking, Keeps, Truncating, ReadOps, WriteOps, OnHandle, HandleOps
<1> QED BY <1>1, <1>3, <1>4, <1>5, RequestFacts, StartsInv DEF Unasked, Answered

\* open() of fs.promises.
LEMMA OpenInv ==
    ASSUME IInv, NEW c \in Calls, Open(c) PROVE IInv'
<1>1. /\ Called(c, {"open"}) /\ Ask(c, OpenOf(plan[c].path, plan[c].mode), "open") /\ work' = work
      /\ UNCHANGED <<plan, handle, done, kernelVars, answer>>
  BY DEF Open, Asked
<1>2. /\ plan[c].op \in {"open"} /\ handle[c].state = "none" /\ ~Truncating(c)
  BY <1>1, StartFacts
<1>3. /\ DOMAIN work' = Calls /\ DOMAIN work'[c] = WorkFields /\ \A o \in Calls \ {c} : work'[o] = work[o]
      /\ work'[c].fd = work[c].fd
  BY <1>1 DEF IInv, Shapes, WorkFields
<1>4. ASSUME Asking(c, OpenOf(plan[c].path, plan[c].mode), "open") PROVE CallOK(c)'
  BY <1>2, <1>3, <1>4, RequestFacts
     DEF Asking, CallOK, StepOK, Truncating, RequestOK, HandleOK, Apart, ReadOps, WriteOps, OnHandle,
         HandleOps, Unasked, Answered
<1>5. ASSUME Asking(c, OpenOf(plan[c].path, plan[c].mode), "open") PROVE \A d : ~Keeps(c, d)'
  BY <1>2, <1>3, <1>5 DEF Asking, Keeps, Truncating, ReadOps, WriteOps, OnHandle, HandleOps
<1> QED BY <1>1, <1>3, <1>4, <1>5, RequestFacts, StartsInv DEF Unasked, Answered

\* read() of a FileHandle that is open.
LEMMA HandleReadInv ==
    ASSUME IInv, NEW c \in Calls, HandleRead(c) PROVE IInv'
<1>1. /\ Called(c, {"handle.read"}) /\ Ask(c, Read(FdOf(c), plan[c].from, Len(Data(c))), "read") /\ work' = work
      /\ UNCHANGED <<plan, handle, done, kernelVars, answer>>
  BY DEF HandleRead, Asked, Method
<1>2. handle[plan[c].handle].state = "open"
  BY DEF HandleRead, Method
<1>3. /\ plan[c].op \in {"handle.read"} /\ handle[c].state = "none" /\ ~Truncating(c)
  BY <1>1, StartFacts
<1>4. /\ DOMAIN work' = Calls /\ DOMAIN work'[c] = WorkFields /\ \A o \in Calls \ {c} : work'[o] = work[o]
      /\ work'[c].fd = work[c].fd
  BY <1>1 DEF IInv, Shapes, WorkFields
<1>5. ASSUME Asking(c, Read(FdOf(c), plan[c].from, Len(Data(c))), "read") PROVE CallOK(c)'
  BY <1>2, <1>3, <1>4, <1>5, RequestFacts
     DEF Asking, CallOK, StepOK, Truncating, RequestOK, HandleOK, Apart, ReadOps, WriteOps, OnHandle,
         HandleOps, Unasked, Answered, FdOf
<1>6. ASSUME Asking(c, Read(FdOf(c), plan[c].from, Len(Data(c))), "read") PROVE \A d : ~Keeps(c, d)'
  BY <1>3, <1>4, <1>6 DEF Asking, Keeps, Truncating, ReadOps, WriteOps, OnHandle, HandleOps
<1> QED BY <1>1, <1>4, <1>5, <1>6, RequestFacts, StartsInv DEF Unasked, Answered

\* write(), writeFile() and appendFile() of a FileHandle that is open.
LEMMA HandleWriteInv ==
    ASSUME IInv, NEW c \in Calls, HandleWrite(c) PROVE IInv'
<1>1. /\ Called(c, {"handle.write"}) /\ Ask(c, Write(FdOf(c), plan[c].from, Data(c)), "write") /\ work' = work
      /\ UNCHANGED <<plan, handle, done, kernelVars, answer>>
  BY DEF HandleWrite, Asked, Method
<1>2. handle[plan[c].handle].state = "open"
  BY DEF HandleWrite, Method
<1>3. /\ plan[c].op \in {"handle.write"} /\ handle[c].state = "none" /\ ~Truncating(c)
  BY <1>1, StartFacts
<1>4. /\ DOMAIN work' = Calls /\ DOMAIN work'[c] = WorkFields /\ \A o \in Calls \ {c} : work'[o] = work[o]
      /\ work'[c].fd = work[c].fd
  BY <1>1 DEF IInv, Shapes, WorkFields
<1>5. ASSUME Asking(c, Write(FdOf(c), plan[c].from, Data(c)), "write") PROVE CallOK(c)'
  BY <1>2, <1>3, <1>4, <1>5, RequestFacts
     DEF Asking, CallOK, StepOK, Truncating, RequestOK, HandleOK, Apart, ReadOps, WriteOps, OnHandle,
         HandleOps, Unasked, Answered, FdOf
<1>6. ASSUME Asking(c, Write(FdOf(c), plan[c].from, Data(c)), "write") PROVE \A d : ~Keeps(c, d)'
  BY <1>3, <1>4, <1>6 DEF Asking, Keeps, Truncating, ReadOps, WriteOps, OnHandle, HandleOps
<1> QED BY <1>1, <1>4, <1>5, <1>6, RequestFacts, StartsInv DEF Unasked, Answered

\* readFile() of a FileHandle that is open.
LEMMA HandleReadFileInv ==
    ASSUME IInv, NEW c \in Calls, HandleReadFile(c) PROVE IInv'
<1>1. /\ Called(c, {"handle.readFile"}) /\ Ask(c, Fstat(FdOf(c)), "fstat") /\ work' = [work EXCEPT ![c].fd = FdOf(c)]
      /\ UNCHANGED <<plan, handle, done, kernelVars, answer>>
  BY DEF HandleReadFile, Asked, Method
<1>2. handle[plan[c].handle].state = "open"
  BY DEF HandleReadFile, Method
<1>3. /\ plan[c].op \in {"handle.readFile"} /\ handle[c].state = "none" /\ ~Truncating(c)
  BY <1>1, StartFacts
<1>4. /\ DOMAIN work' = Calls /\ DOMAIN work'[c] = WorkFields /\ \A o \in Calls \ {c} : work'[o] = work[o]
      /\ work'[c].fd = FdOf(c)
  BY <1>1 DEF IInv, Shapes, WorkFields
<1>5. ASSUME Asking(c, Fstat(FdOf(c)), "fstat") PROVE CallOK(c)'
  BY <1>2, <1>3, <1>4, <1>5, RequestFacts
     DEF Asking, CallOK, StepOK, Truncating, RequestOK, HandleOK, Apart, ReadOps, WriteOps, OnHandle,
         HandleOps, Unasked, Answered, FdOf
<1>6. ASSUME Asking(c, Fstat(FdOf(c)), "fstat") PROVE \A d : ~Keeps(c, d)'
  BY <1>3, <1>4, <1>6 DEF Asking, Keeps, Truncating, ReadOps, WriteOps, OnHandle, HandleOps
<1> QED BY <1>1, <1>4, <1>5, <1>6, RequestFacts, StartsInv DEF Unasked, Answered

\* truncate() could not open the file.
LEMMA TruncateFailsInv ==
    ASSUME IInv, NEW c \in Calls, TruncateFails(c) PROVE IInv'
<1>1. Called(c, {"truncate"}) /\ Answer(c, FALSE, <<>>) /\ UNCHANGED <<plan, handle, queue>>
      /\ done' = done /\ table' = table /\ strays' = strays
  BY DEF TruncateFails, kernelVars
<1>2. Moves(c) /\ \A d : ~Keeps(c, d)
  BY <1>1, StartFacts
<1>3. PICK ds : ds = {}
  OBVIOUS
<1>4. DOMAIN table' = Fds /\ \A d \in Fds : table'[d] = IF d \in ds THEN Free ELSE table[d]
  BY <1>1, <1>3 DEF IInv, Descriptors
<1>5. (\A d \in ds : Keeps(c, d)) /\ \A d : Keeps(c, d) => d \in ds \/ (plan[c].op = "readFile" /\ ~FALSE /\ req[c].sys = "read")
  BY <1>2, <1>3
<1> QED BY <1>1, <1>2, <1>4, <1>5, IsAnswered

\* The lowest descriptor that is free.
LEMMA LowestFree ==
    ASSUME IInv, \E d \in Fds : table[d] = Free, NEW d,
           d = CHOOSE x \in {y \in Fds : table[y] = Free} : \A y \in {z \in Fds : table[z] = Free} : x <= y
    PROVE  d \in Fds /\ table[d] = Free /\ table[d].of = 0
<1> DEFINE free == {y \in Fds : table[y] = Free}
<1>1. free \in SUBSET Nat /\ free # {}
  BY DEF IInv, Shapes
<1>2. \E x \in free : \A y \in free : x <= y
  BY <1>1, LeastNat
<1>3. d \in free
  BY <1>2
<1> QED BY <1>3 DEF Free

\* truncate() opens the file itself, and is to close it.
LEMMA TruncateInv ==
    ASSUME IInv, NEW c \in Calls, Truncate(c) PROVE IInv'
<1> DEFINE free == {y \in Fds : table[y] = Free}
<1>1. PICK d : d = CHOOSE x \in free : \A y \in free : x <= y
  OBVIOUS
<1>2. /\ Called(c, {"truncate"}) /\ free # {}
      /\ table' = [table EXCEPT ![d] = [of |-> c, file |-> plan[c].path, mode |-> {"write"}, pos |-> 0]]
      /\ work' = [work EXCEPT ![c].fd = d]
      /\ Ask(c, On("ftruncate", d, 0, 0, <<>>), "ftruncate")
      /\ UNCHANGED <<plan, handle, done, strays, answer>>
  BY <1>1 DEF Truncate
<1>3. d \in Fds /\ table[d] = Free /\ table[d].of = 0 /\ d # 0
  <2>1. \E x \in Fds : table[x] = Free
    BY <1>2
  <2> QED BY <1>1, <2>1, LowestFree DEF IInv, Shapes
<1> HIDE DEF free
<1>4. /\ plan[c].op = "truncate" /\ at[c] = Unasked /\ handle[c].state = "none"
      /\ CallOK(c) /\ Moves(c) /\ (\A x : ~Keeps(c, x)) /\ Opener(c) = c /\ ~OnHandle(c)
  BY <1>2, StartFacts DEF Opener, OnHandle, HandleOps
<1>5. /\ DOMAIN work' = Calls /\ DOMAIN work'[c] = DOMAIN work[c] /\ work'[c].fd = d
      /\ \A o \in Calls \ {c} : work'[o] = work[o]
  BY <1>2 DEF IInv, Shapes
<1>6. PICK r : r = On("ftruncate", d, 0, 0, <<>>) /\ DOMAIN r = RequestFields /\ r.sys = "ftruncate" /\ r.ok
  BY RequestFacts
<1>7. /\ at'[c] = "ftruncate" /\ req'[c] = r /\ UnderWay(c)' /\ Queued(c)' /\ ~Back(c)' /\ PoolOK' /\ Others(c)
      /\ DOMAIN at' = Calls /\ DOMAIN req' = Calls
      /\ \A o \in Calls : o # c => req'[o] = req[o] /\ (UnderWay(o)' <=> UnderWay(o))
  BY <1>2, <1>4, <1>5, <1>6, AskFacts DEF Unasked, Answered
<1>8. Shapes'
  BY <1>2, <1>5, <1>6, <1>7 DEF IInv, Shapes, RequestFields
<1>9. /\ DOMAIN table' = Fds /\ table'[d].of = c /\ "of" \in DOMAIN table'[d]
      /\ \A x \in Fds : x # d => table'[x] = table[x]
  BY <1>2, <1>3 DEF IInv, Descriptors
<1>10. Descriptors'
  BY <1>9 DEF IInv, Shapes, Descriptors, Free
<1>11. HandlesGoOn(c) /\ ~GaveUp(c)
  BY <1>2, <1>4 DEF HandlesGoOn, GaveUp, Unasked, Answered
<1>12. CallOK(c)'
  BY <1>2, <1>4, <1>6, <1>7
     DEF CallOK, StepOK, Truncating, RequestOK, HandleOK, Apart, OnHandle, HandleOps
<1>13. \A x : Keeps(c, x)' <=> x = d
  BY <1>2, <1>3, <1>4, <1>5, <1>7 DEF Keeps, Truncating, OnHandle, HandleOps
<1>14. UNCHANGED plan /\ (\A o \in Calls \ {c} : handle'[o] = handle[o]) /\ strays' = strays
  BY <1>2
<1>15. /\ \A x : Keeps(c, x)' => x \in Fds /\ table'[x].of = Opener(c) /\ (Keeps(c, x) \/ table[x].of = 0)
       /\ \A x \in Fds : ~Keeps(c, x) /\ ~Keeps(c, x)' => table'[x].of = table[x].of
  BY <1>3, <1>4, <1>9, <1>13
<1> QED BY <1>4, <1>7, <1>8, <1>10, <1>11, <1>12, <1>14, <1>15, CallSteps

\* The collector: the handle's descriptor is closed.
LEMMA FinalizeInv ==
    ASSUME IInv, NEW h \in Calls, Finalize(h) PROVE IInv'
<1>1. PICK ds : ds = IF handle[h].state = "open" THEN {handle[h].fd} ELSE {}
  OBVIOUS
<1>2. /\ handle[h].state \in {"open", "closed"}
      /\ table' = [d \in Fds |-> IF d \in ds THEN Free ELSE table[d]] /\ strays' = Strays(h, "close", ds)
      /\ handle' = [handle EXCEPT ![h].state = "dropped"]
      /\ plan' = plan /\ at' = at /\ work' = work /\ req' = req /\ queue' = queue /\ done' = done /\ answer' = answer
  BY <1>1 DEF Finalize, CloseNow, poolVars
<1>3. plan[h].op = "open" /\ at[h] = Answered /\ ~OnHandle(h) /\ Opener(h) = h /\ ~UnderWay(h)
  BY <1>2 DEF IInv, CallOK, HandleOK, OnHandle, Opener, HandleOps, UnderWay
<1>4. \A d : Keeps(h, d) <=> d \in ds
  BY <1>1, <1>2, <1>3 DEF Keeps, Truncating, Answered
<1>5. \A d \in ds : d \in Fds /\ table[d].of = h
  BY <1>3, <1>4 DEF IInv, Kept
<1>6. strays' = strays
  BY <1>2, <1>3, <1>5 DEF Strays
<1>7. /\ handle'[h].state = "dropped" /\ handle'[h].fd = handle[h].fd /\ \A o \in Calls \ {h} : handle'[o] = handle[o]
      /\ handle' \in [Calls -> [state : {"none", "open", "closed", "dropped"}, fd : Fds \cup {0}]]
  BY <1>2 DEF IInv, Shapes
<1>8. \A o \in Calls : UnderWay(o)' <=> UnderWay(o)
  BY <1>2 DEF UnderWay
<1>9. PoolOK' /\ Others(h) /\ HandlesGoOn(h)
  <2>1. PoolOK' /\ \A o \in Calls : (Queued(o)' <=> Queued(o)) /\ (Back(o)' <=> Back(o))
    BY <1>2, <1>8, PoolSame DEF IInv
  <2> QED BY <1>2, <1>7, <2>1 DEF Others, HandlesGoOn
<1>10. Shapes'
  BY <1>2, <1>7, <1>8 DEF IInv, Shapes
<1>11. Descriptors' /\ \A d \in ds : table'[d].of = 0
  BY <1>2, <1>5 DEF IInv, Descriptors, Free
<1>12. CallOK(h)'
  BY <1>2, <1>3, <1>8
     DEF CallOK, StepOK, Truncating, RequestOK, HandleOK, Apart, OnHandle, HandleOps, Queued, PoolOK, IInv,
         Answered
<1>13. \A d : ~Keeps(h, d)'
  BY <1>2, <1>3, <1>7 DEF Keeps, Truncating, Answered
<1>14. GaveUp(h) => GaveUp(h)'
  BY <1>2 DEF GaveUp
<1>15. /\ \A d \in Fds : ~Keeps(h, d) => table'[d].of = table[d].of
       /\ \A d \in Fds : Keeps(h, d) => table'[d].of = 0
  BY <1>2, <1>4, <1>11
<1>16. UNCHANGED plan
  BY <1>2
<1> QED BY <1>6, <1>7, <1>9, <1>10, <1>11, <1>12, <1>13, <1>14, <1>15, <1>16, CallSteps

\* close(): the call becomes the keeper of the handle's descriptor.
LEMMA HandleCloseInv ==
    ASSUME IInv, NEW c \in Calls, HandleClose(c) PROVE IInv'
<1>1. PICK h \in Calls : h = plan[c].handle
  BY DEF IInv, Shapes, CallPlans
<1>2. Called(c, {"handle.close"})
  BY DEF HandleClose
<1>3. /\ plan[c].op = "handle.close" /\ at[c] = Unasked /\ handle[c].state = "none" /\ ~Truncating(c) /\ CallOK(c)
      /\ \A d : ~Keeps(c, d)
  BY <1>2, StartFacts
<1>4. CASE /\ handle[h].state = "closed" /\ Answer(c, TRUE, <<>>)
           /\ UNCHANGED <<plan, handle, queue, done, kernelVars, faults>>
  <2>1. Moves(c) /\ UNCHANGED <<plan, handle, queue>> /\ table' = table /\ strays' = strays
    BY <1>2, <1>4, StartFacts DEF kernelVars
  <2>2. PICK ds : ds = {}
    OBVIOUS
  <2>3. DOMAIN table' = Fds /\ \A d \in Fds : table'[d] = IF d \in ds THEN Free ELSE table[d]
    BY <2>1, <2>2 DEF IInv, Descriptors
  <2>4. (\A d \in ds : Keeps(c, d)) /\ \A d : Keeps(c, d) => d \in ds \/ (plan[c].op = "readFile" /\ ~TRUE /\ req[c].sys = "read")
    BY <1>3, <2>2
  <2> QED BY <1>4, <2>1, <2>3, <2>4, IsAnswered
<1>5. ASSUME handle[h].state = "open", handle' = [handle EXCEPT ![h].state = "closed"],
             Ask(c, Close(handle[h].fd), "close"), UNCHANGED <<plan, work, done, kernelVars, faults, answer>>
      PROVE  IInv'
  <2>1. plan' = plan /\ work' = work /\ table' = table /\ strays' = strays /\ answer' = answer /\ Moves(c)
    BY <1>2, <1>5, StartFacts DEF kernelVars
  <2>2. PICK r : r = Close(handle[h].fd) /\ DOMAIN r = RequestFields /\ r.ok /\ r.sys = "close" /\ r.fd = handle[h].fd
    BY RequestFacts
  <2>3. /\ at'[c] = "close" /\ req'[c] = r /\ UnderWay(c)' /\ Queued(c)' /\ ~Back(c)' /\ PoolOK' /\ Others(c)
        /\ DOMAIN at' = Calls /\ DOMAIN req' = Calls
        /\ \A o \in Calls : o # c => req'[o] = req[o] /\ (UnderWay(o)' <=> UnderWay(o))
    BY <1>5, <2>1, <2>2, AskFacts DEF Unasked, Answered
  <2>4. /\ handle'[h].state = "closed" /\ handle'[h].fd = handle[h].fd /\ \A o \in Calls \ {h} : handle'[o] = handle[o]
        /\ handle' \in [Calls -> [state : {"none", "open", "closed", "dropped"}, fd : Fds \cup {0}]]
    BY <1>5 DEF IInv, Shapes
  <2>5. Shapes' /\ Descriptors'
    BY <2>1, <2>2, <2>3, <2>4 DEF IInv, Shapes, Descriptors, RequestFields
  <2>6. HandlesGoOn(c)
    BY <1>5, <2>4 DEF HandlesGoOn
  <2>7. plan[h].op = "open" /\ at[h] = Answered /\ ~OnHandle(h) /\ h # c /\ Opener(h) = h /\ Opener(c) = h /\ OnHandle(c)
    BY <1>1, <1>3, <1>5 DEF IInv, CallOK, HandleOK, OnHandle, Opener, HandleOps
  <2>8. CallOK(c)'
    BY <1>1, <1>3, <2>1, <2>2, <2>3, <2>4, <2>7
       DEF CallOK, StepOK, Truncating, RequestOK, HandleOK, Apart, OnHandle, HandleOps, ReadOps, WriteOps
  <2>9. ASSUME NEW o \in Calls, o # c
        PROVE  /\ CallOK(o)' /\ (GaveUp(o)' <=> GaveUp(o))
               /\ o # h => \A d : Keeps(o, d)' <=> Keeps(o, d)
    <3>1. Shapes /\ PoolOK /\ CallOK(o)
      BY DEF IInv
    <3>2. UNCHANGED plan
      BY <2>1
    <3>3. o # h => handle'[o] = handle[o]
      BY <2>4
    <3> QED BY <2>3, <2>6, <2>9, <3>1, <3>2, <3>3, OtherCall
  <2>10. \A d : Keeps(h, d) <=> d = handle[h].fd
    BY <1>5, <2>7 DEF Keeps, Truncating, Answered
  <2>11. \A d : ~Keeps(h, d)'
    <3>1. at'[h] = Answered /\ plan'[h].op = "open"
      BY <2>1, <2>3, <2>7 DEF Others
    <3> QED BY <2>4, <3>1 DEF Keeps, Truncating, Answered
  <2>12. \A d : Keeps(c, d)' <=> d = handle[h].fd
    <3>1. handle'[c] = handle[c] /\ OnHandle(c)'
      BY <2>1, <2>4, <2>7 DEF OnHandle
    <3>2. ~Truncating(c)'
      BY <1>3, <2>1 DEF Truncating
    <3> QED BY <1>3, <2>1, <2>2, <2>3, <3>1, <3>2 DEF Keeps
  <2>13. Kept'
    <3>1. \A o \in Calls : Opener(o)' = Opener(o)
      BY <2>1 DEF Opener
    <3>2. ASSUME NEW o \in Calls, NEW d, Keeps(o, d)'
          PROVE  \E k \in Calls : Keeps(k, d) /\ Opener(k) = Opener(o) /\ (o = c => k = h) /\ (o # c => k = o /\ k # h)
      BY <2>7, <2>9, <2>10, <2>11, <2>12, <3>2
    <3>3. ASSUME NEW k \in Calls, NEW d, Keeps(k, d)
          PROVE  \E o \in Calls : Keeps(o, d)' /\ Opener(k) = Opener(o)
      BY <1>3, <2>7, <2>9, <2>10, <2>12, <3>3
    <3>4. \A o \in Calls : \A d : Keeps(o, d)' => d \in Fds /\ table'[d].of = Opener(o)'
      BY <2>1, <3>1, <3>2 DEF IInv, Kept
    <3>5. ASSUME NEW o \in Calls, NEW k \in Calls, NEW d, Keeps(o, d)', Keeps(k, d)' PROVE o = k
      BY <3>2, <3>5 DEF IInv, Kept
    <3>6. ASSUME NEW d \in Fds, NEW x, x = table'[d].of, x # 0
          PROVE  GaveUp(x)' \/ \E k \in Calls : Keeps(k, d)' /\ Opener(k)' = x
      <4>1. GaveUp(x) \/ \E k \in Calls : Keeps(k, d) /\ Opener(k) = x
        BY <2>1, <3>6 DEF IInv, Kept
      <4>2. x \in Calls /\ (x = c => ~GaveUp(x))
        BY <1>3, <2>1, <3>6 DEF IInv, Descriptors, GaveUp
      <4>3. GaveUp(x) => GaveUp(x)'
        BY <2>9, <4>2
      <4> QED BY <3>1, <3>3, <4>1, <4>3
    <3>7. \A d \in Fds : table'[d].of # 0 =>
             \/ /\ plan'[table'[d].of].op = "readFile" /\ at'[table'[d].of] = Answered
                /\ ~answer'[table'[d].of].ok /\ answer'[table'[d].of].sys = "read"
             \/ \E k \in Calls : Keeps(k, d)' /\ Opener(k)' = table'[d].of
      BY <3>6 DEF GaveUp
    <3> QED BY <3>4, <3>5, <3>7 DEF Kept, GaveUp
  <2>14. StraysOK'
    <3>1. ASSUME NEW s \in strays' PROVE MayStray(s[1], s[2])'
      <4>1. MayStray(s[1], s[2])
        BY <2>1, <3>1 DEF IInv, StraysOK
      <4>2. Shapes /\ Shapes' /\ UNCHANGED plan
        BY <2>1, <2>5 DEF IInv
      <4> QED BY <2>6, <4>1, <4>2, StraysStay
    <3> QED BY <3>1 DEF StraysOK
  <2> QED BY <2>3, <2>5, <2>8, <2>9, <2>13, <2>14 DEF IInv
<1> QED BY <1>1, <1>4, <1>5 DEF HandleClose

-----------------------------------------------------------------------------
(* Threads.                                                                *)

\* A request that names a descriptor which its call does not own.
LEMMA StrayIs ==
    ASSUME IInv, NEW c \in Calls, Queued(c), req[c].sys # "open"
    PROVE  /\ table[req[c].fd].of = Opener(c) \/ MayStray(c, req[c].sys)
           /\ req[c].sys = "close" => req[c].fd \in Fds /\ table[req[c].fd].of = Opener(c) /\ Keeps(c, req[c].fd)
<1>1. UnderWay(c) /\ CallOK(c)
  BY DEF IInv, PoolOK
<1>2. PICK h : h = plan[c].handle /\ h \in Calls
  BY DEF IInv, Shapes, CallPlans
<1>3. CASE ~OnHandle(c) /\ plan[c].op # "truncate"
  <2>1. Keeps(c, req[c].fd)
    BY <1>1, <1>3 DEF CallOK, StepOK, Truncating, RequestOK, Keeps, OnHandle, HandleOps, ReadOps, WriteOps
  <2> QED BY <2>1 DEF IInv, Kept
<1>4. CASE plan[c].op = "truncate"
  BY <1>1, <1>4 DEF CallOK, StepOK, Truncating, MayStray, ReadOps, WriteOps
<1>5. CASE OnHandle(c) /\ at[c] = "close"
  <2>1. Keeps(c, req[c].fd)
    BY <1>5 DEF Keeps
  <2> QED BY <2>1 DEF IInv, Kept
<1>6. CASE OnHandle(c) /\ at[c] # "close"
  <2>1. req[c].sys # "close"
    BY <1>1, <1>6 DEF CallOK, StepOK, Truncating, OnHandle, HandleOps, ReadOps, WriteOps
  <2>2. handle[h].state # "none" /\ req[c].fd = handle[h].fd
    BY <1>1, <1>2, <1>6 DEF CallOK, HandleOK, RequestOK
  <2>3. CASE handle[h].state = "open"
    <3>1. Keeps(h, req[c].fd)
      BY <2>2, <2>3 DEF Keeps
    <3>2. plan[h].op = "open"
      BY <1>2, <2>3 DEF IInv, CallOK, HandleOK
    <3>3. Opener(h) = h /\ Opener(c) = h
      BY <1>2, <1>6, <3>2 DEF Opener, OnHandle, HandleOps
    <3> QED BY <1>2, <2>1, <3>1, <3>3 DEF IInv, Kept
  <2>4. CASE handle[h].state # "open"
    <3>1. handle[h].state \in {"closed", "dropped"}
      BY <1>2, <2>2, <2>4 DEF IInv, Shapes
    <3> QED BY <1>2, <1>6, <2>1, <3>1 DEF MayStray
  <2> QED BY <2>3, <2>4
<1> QED BY <1>3, <1>4, <1>5, <1>6

\* What a request's being done means to the pool and to the call.
LEMMA PerformFacts ==
    ASSUME IInv, NEW c \in Calls, Performed(c), DOMAIN req' = Calls, DOMAIN req'[c] = DOMAIN req[c],
           req'[c].sys = req[c].sys, \A o \in Calls \ {c} : req'[o] = req[o]
    PROVE  /\ UNCHANGED <<plan, at, work, handle, answer>> /\ Queued(c) /\ ~Back(c) /\ ~Queued(c)' /\ Back(c)'
           /\ PoolOK' /\ Others(c) /\ HandlesGoOn(c) /\ Shapes' /\ CallOK(c) /\ UnderWay(c)
           /\ StepOK(c)' /\ RequestOK(c)' /\ HandleOK(c)'
<1>1. UNCHANGED <<plan, at, work, handle, answer>>
  BY DEF Performed
<1>2. /\ PoolOK' /\ Queued(c) /\ ~Back(c)
      /\ \A o \in Calls : (Queued(o)' <=> Queued(o) /\ o # c) /\ (Back(o)' <=> Back(o) \/ o = c)
  BY PoolPerforms DEF IInv
<1>3. UnderWay(c) /\ CallOK(c) /\ \A o \in Calls : UnderWay(o)' <=> UnderWay(o)
  BY <1>1, <1>2 DEF IInv, PoolOK, UnderWay
<1>4. Others(c) /\ HandlesGoOn(c)
  BY <1>1, <1>2 DEF Others, HandlesGoOn
<1>5. Shapes'
  <2>1. \A o \in Calls : UnderWay(o)' => DOMAIN req'[o] = {"sys", "fd", "file", "mode", "pos", "n", "buf", "ok"}
    BY <1>3 DEF IInv, Shapes
  <2> QED BY <1>1, <2>1 DEF IInv, Shapes
<1>6. StepOK(c)' /\ RequestOK(c)' /\ HandleOK(c)'
  BY <1>1, <1>2, <1>3 DEF CallOK, StepOK, Truncating, RequestOK, HandleOK, OnHandle
<1> QED BY <1>1, <1>2, <1>3, <1>4, <1>5, <1>6

\* A system call that neither opens nor closes, or an open() that fails.
LEMMA ServedInv ==
    ASSUME IInv, NEW c \in Calls, Performed(c), DOMAIN req' = Calls, DOMAIN req'[c] = DOMAIN req[c],
           req'[c].sys = req[c].sys, \A o \in Calls \ {c} : req'[o] = req[o],
           Descriptors', \A d \in Fds : table'[d].of = table[d].of,
           req[c].sys # "close", req[c].sys = "open" => ~req'[c].ok,
           strays' = strays \/ (req[c].sys # "open" /\ strays' = Strays(c, req[c].sys, {req[c].fd}))
    PROVE  IInv'
<1>1. /\ UNCHANGED <<plan, at, work, handle, answer>> /\ Queued(c) /\ ~Back(c) /\ ~Queued(c)' /\ Back(c)'
      /\ PoolOK' /\ Others(c) /\ HandlesGoOn(c) /\ Shapes' /\ CallOK(c) /\ UnderWay(c)
      /\ StepOK(c)' /\ RequestOK(c)' /\ HandleOK(c)'
  BY PerformFacts
<1>2. at[c] \notin {"close", "closeDest"} /\ (at[c] \in {"open", "openDest"} => ~req'[c].ok)
  BY <1>1 DEF CallOK, StepOK, Truncating
<1>3. CallOK(c)'
  BY <1>1, <1>2 DEF CallOK, Apart
<1>4. \A d : Keeps(c, d)' <=> Keeps(c, d)
  BY <1>1, <1>2 DEF Keeps, Truncating, OnHandle
<1>5. GaveUp(c) => GaveUp(c)'
  BY <1>1 DEF GaveUp
<1>6. \A d : Keeps(c, d) => d \in Fds /\ table'[d].of = Opener(c)
  BY DEF IInv, Kept
<1>7. \A s \in strays' : s \in strays \/ MayStray(s[1], s[2])
  <2>1. CASE req[c].sys # "open" /\ strays' = Strays(c, req[c].sys, {req[c].fd})
    <3>1. CASE table[req[c].fd].of = Opener(c)
      BY <2>1, <3>1 DEF Strays
    <3>2. CASE MayStray(c, req[c].sys)
      BY <2>1, <3>2 DEF Strays
    <3> QED BY <1>1, <2>1, <3>1, <3>2, StrayIs
  <2> QED BY <2>1
<1>8. UNCHANGED plan /\ \A o \in Calls \ {c} : handle'[o] = handle[o]
  BY <1>1
<1> QED BY <1>1, <1>3, <1>4, <1>5, <1>6, <1>7, <1>8, CallSteps

\* open(): the descriptor is nobody else's.
LEMMA SysOpenInv ==
    ASSUME IInv, NEW c \in Calls, Performed(c), SysOpen(c) PROVE IInv'
<1> DEFINE free == {y \in Fds : table[y] = Free}
<1>1. PICK d : d = CHOOSE x \in free : \A y \in free : x <= y
  OBVIOUS
<1>2. /\ req[c].sys = "open" /\ free # {}
      /\ table' = [table EXCEPT ![d] = [of |-> c, file |-> req[c].file, mode |-> req[c].mode, pos |-> 0]]
      /\ req' = [req EXCEPT ![c].n = d] /\ strays' = strays
  BY <1>1 DEF SysOpen
<1>3. d \in Fds /\ table[d] = Free /\ table[d].of = 0
  <2>1. \E x \in Fds : table[x] = Free
    BY <1>2
  <2> QED BY <1>1, <2>1, LowestFree
<1> HIDE DEF free
<1>4. Queued(c) /\ UnderWay(c)
  BY PoolPerforms DEF IInv, PoolOK
<1>5. /\ DOMAIN req' = Calls /\ DOMAIN req'[c] = DOMAIN req[c] /\ req'[c].sys = req[c].sys /\ req'[c].n = d
      /\ req'[c].ok = req[c].ok /\ \A o \in Calls \ {c} : req'[o] = req[o]
  BY <1>2, <1>4 DEF IInv, Shapes
<1>6. /\ UNCHANGED <<plan, at, work, handle, answer>> /\ Queued(c) /\ ~Back(c) /\ ~Queued(c)' /\ Back(c)'
      /\ PoolOK' /\ Others(c) /\ HandlesGoOn(c) /\ Shapes' /\ CallOK(c)
      /\ StepOK(c)' /\ RequestOK(c)' /\ HandleOK(c)'
  BY <1>5, PerformFacts
<1>7. at[c] \in {"open", "openDest"} /\ ~OnHandle(c) /\ Opener(c) = c /\ c # 0
  BY <1>2, <1>4, <1>6 DEF IInv, Shapes, CallOK, StepOK, Truncating, OnHandle, Opener, HandleOps, ReadOps, WriteOps
<1>8. /\ DOMAIN table' = Fds /\ table'[d].of = c /\ "of" \in DOMAIN table'[d]
      /\ \A x \in Fds : x # d => table'[x] = table[x]
  BY <1>2, <1>3 DEF IInv, Descriptors
<1>9. Descriptors'
  BY <1>7, <1>8 DEF IInv, Descriptors, Free
<1>10. \A x : Keeps(c, x) => x \in Fds /\ table[x].of = c /\ x # d
  BY <1>3, <1>7 DEF IInv, Kept
<1>11. CallOK(c)'
  <2>1. at[c] = "openDest" => Keeps(c, work[c].fd)
    BY <1>7 DEF Keeps
  <2>2. Apart(c)'
    BY <1>5, <1>6, <1>7, <1>10, <2>1 DEF Apart
  <2> QED BY <1>6, <2>2 DEF CallOK
<1>12. \A x : Keeps(c, x)' => Keeps(c, x) \/ x = d
  BY <1>5, <1>6, <1>7 DEF Keeps, Truncating, OnHandle
<1>13. \A x : Keeps(c, x) => Keeps(c, x)'
  BY <1>6, <1>7 DEF Keeps, Truncating, OnHandle
<1>14. Keeps(c, d)'
  BY <1>4, <1>5, <1>6, <1>7 DEF Keeps, CallOK, RequestOK
<1>15. /\ \A x : Keeps(c, x)' => x \in Fds /\ table'[x].of = Opener(c) /\ (Keeps(c, x) \/ table[x].of = 0)
       /\ \A x \in Fds : ~Keeps(c, x) /\ ~Keeps(c, x)' => table'[x].of = table[x].of
       /\ \A x \in Fds : Keeps(c, x) => Keeps(c, x)'
  BY <1>3, <1>7, <1>8, <1>10, <1>12, <1>13, <1>14
<1>16. UNCHANGED plan /\ (\A o \in Calls \ {c} : handle'[o] = handle[o]) /\ (GaveUp(c) => GaveUp(c)')
  BY <1>6 DEF GaveUp
<1> QED BY <1>2, <1>6, <1>9, <1>11, <1>15, <1>16, CallSteps

\* close(): the call gives back what it keeps.
LEMMA SysCloseInv ==
    ASSUME IInv, NEW c \in Calls, Performed(c), SysClose(c) PROVE IInv'
<1>1. PICK d : d = req[c].fd
  OBVIOUS
<1>2. /\ req[c].sys = "close" /\ table' = [table EXCEPT ![d] = Free] /\ req' = req
      /\ strays' = Strays(c, "close", {d})
  BY <1>1 DEF SysClose, Descriptor
<1>3. Queued(c) /\ UnderWay(c)
  BY PoolPerforms DEF IInv, PoolOK
<1>4. d \in Fds /\ table[d].of = Opener(c) /\ Keeps(c, d)
  BY <1>1, <1>2, <1>3, StrayIs
<1>5. strays' = strays
  BY <1>2, <1>4 DEF Strays
<1>6. /\ UNCHANGED <<plan, at, work, handle, answer>> /\ Queued(c) /\ ~Back(c) /\ ~Queued(c)' /\ Back(c)'
      /\ PoolOK' /\ Others(c) /\ HandlesGoOn(c) /\ Shapes' /\ CallOK(c)
      /\ StepOK(c)' /\ RequestOK(c)' /\ HandleOK(c)'
  BY <1>2, PerformFacts DEF IInv, Shapes
<1>7. at[c] \in {"close", "closeDest"} /\ handle[c].state = "none" /\ ~Truncating(c)
  BY <1>2, <1>3, <1>6 DEF CallOK, StepOK, HandleOK, Truncating, UnderWay, ReadOps, WriteOps
<1>8. CallOK(c)'
  BY <1>6, <1>7 DEF CallOK, Apart
<1>9. DOMAIN table' = Fds /\ table'[d] = Free /\ \A x \in Fds : x # d => table'[x] = table[x]
  BY <1>2, <1>4 DEF IInv, Descriptors
<1>10. Descriptors' /\ table'[d].of = 0
  BY <1>9 DEF IInv, Descriptors, Free
<1>11. \A x : Keeps(c, x)' => Keeps(c, x) /\ x # d
  BY <1>1, <1>3, <1>6, <1>7
     DEF Keeps, Truncating, OnHandle, CallOK, StepOK, RequestOK, Apart, HandleOps, ReadOps, WriteOps
<1>12. \A x : Keeps(c, x) => Keeps(c, x)' \/ x = d
  BY <1>1, <1>3, <1>6, <1>7
     DEF Keeps, Truncating, OnHandle, CallOK, StepOK, RequestOK, Apart, HandleOps, ReadOps, WriteOps
<1>13. \A x : Keeps(c, x) => x \in Fds /\ table[x].of = Opener(c)
  BY DEF IInv, Kept
<1>14. UNCHANGED plan /\ (\A o \in Calls \ {c} : handle'[o] = handle[o]) /\ (GaveUp(c) => GaveUp(c)')
  BY <1>6 DEF GaveUp
<1>15. /\ \A x : Keeps(c, x)' => x \in Fds /\ table'[x].of = Opener(c) /\ Keeps(c, x)
       /\ \A x \in Fds : ~Keeps(c, x) => table'[x].of = table[x].of
       /\ \A x \in Fds : Keeps(c, x) /\ ~Keeps(c, x)' => table'[x].of = 0
  BY <1>4, <1>9, <1>10, <1>11, <1>12, <1>13
<1> QED BY <1>5, <1>6, <1>8, <1>10, <1>14, <1>15, CallSteps

\* Where a descriptor reads and writes next is not who opened it.
LEMMA PositionMoves ==
    ASSUME IInv, NEW d, table[d] # Free, NEW p, table' = [table EXCEPT ![d].pos = p] \/ table' = table
    PROVE  Descriptors' /\ \A x \in Fds : table'[x].of = table[x].of
<1>1. CASE table' = table
  BY <1>1 DEF IInv, Descriptors
<1>2. CASE table' = [table EXCEPT ![d].pos = p]
  <2>1. /\ DOMAIN table' = Fds /\ \A x \in Fds : x # d => table'[x] = table[x]
        /\ d \in Fds => table'[d].of = table[d].of /\ "of" \in DOMAIN table'[d] /\ table[d].of # 0
    BY <1>2 DEF IInv, Descriptors
  <2> QED BY <2>1 DEF IInv, Descriptors, Free
<1> QED BY <1>1, <1>2

\* fstat().
LEMMA SysFstatInv ==
    ASSUME IInv, NEW c \in Calls, Performed(c), SysFstat(c) PROVE IInv'
<1>1. /\ req[c].sys = "fstat" /\ strays' = Strays(c, "fstat", {req[c].fd})
      /\ req' = [req EXCEPT ![c].n = Len(content[table[req[c].fd].file])] /\ table' = table
  BY DEF SysFstat, Descriptor
<1>2. /\ DOMAIN req' = Calls /\ DOMAIN req'[c] = DOMAIN req[c] /\ req'[c].sys = req[c].sys
      /\ \A o \in Calls \ {c} : req'[o] = req[o]
  BY <1>1, PoolPerforms DEF IInv, PoolOK, Shapes
<1>3. Descriptors' /\ \A d \in Fds : table'[d].of = table[d].of
  BY <1>1 DEF IInv, Descriptors
<1> QED BY <1>1, <1>2, <1>3, ServedInv

\* read() and pread().
LEMMA SysReadInv ==
    ASSUME IInv, NEW c \in Calls, Performed(c), SysRead(c) PROVE IInv'
<1>1. PICK d, n, buf, p :
         /\ d = req[c].fd /\ req[c].sys = "read" /\ strays' = Strays(c, "read", {d}) /\ table[d] # Free
         /\ req' = [req EXCEPT ![c].n = n, ![c].buf = buf]
         /\ table' = [table EXCEPT ![d].pos = p] \/ table' = table
  BY DEF SysRead, Descriptor
<1>2. /\ DOMAIN req' = Calls /\ DOMAIN req'[c] = DOMAIN req[c] /\ req'[c].sys = req[c].sys
      /\ \A o \in Calls \ {c} : req'[o] = req[o]
  BY <1>1, PoolPerforms DEF IInv, PoolOK, Shapes
<1>3. Descriptors' /\ \A x \in Fds : table'[x].of = table[x].of
  BY <1>1, PositionMoves
<1> QED BY <1>1, <1>2, <1>3, ServedInv

\* write() and pwrite(), of all or of a part.
LEMMA SysWriteInv ==
    ASSUME IInv, NEW c \in Calls, Performed(c), NEW n, SysWrite(c, n) PROVE IInv'
<1>1. PICK d, p :
         /\ d = req[c].fd /\ req[c].sys = "write" /\ strays' = Strays(c, "write", {d}) /\ table[d] # Free
         /\ req' = [req EXCEPT ![c].n = n]
         /\ table' = [table EXCEPT ![d].pos = p] \/ table' = table
  BY DEF SysWrite, Descriptor
<1>2. /\ DOMAIN req' = Calls /\ DOMAIN req'[c] = DOMAIN req[c] /\ req'[c].sys = req[c].sys
      /\ \A o \in Calls \ {c} : req'[o] = req[o]
  BY <1>1, PoolPerforms DEF IInv, PoolOK, Shapes
<1>3. Descriptors' /\ \A x \in Fds : table'[x].of = table[x].of
  BY <1>1, PositionMoves
<1> QED BY <1>1, <1>2, <1>3, ServedInv

\* ftruncate().
LEMMA SysFtruncateInv ==
    ASSUME IInv, NEW c \in Calls, Performed(c), SysFtruncate(c) PROVE IInv'
<1>1. /\ req[c].sys = "ftruncate" /\ strays' = Strays(c, "ftruncate", {req[c].fd})
      /\ req' = req /\ table' = table
  BY DEF SysFtruncate, Descriptor
<1>2. /\ DOMAIN req' = Calls /\ DOMAIN req'[c] = DOMAIN req[c] /\ req'[c].sys = req[c].sys
      /\ \A o \in Calls \ {c} : req'[o] = req[o]
  BY <1>1 DEF IInv, Shapes
<1>3. Descriptors' /\ \A d \in Fds : table'[d].of = table[d].of
  BY <1>1 DEF IInv, Descriptors
<1> QED BY <1>1, <1>2, <1>3, ServedInv

\* A close() finds its descriptor open.
LEMMA SysRefusedInv ==
    ASSUME IInv, NEW c \in Calls, Performed(c), SysRefused(c) PROVE IInv'
<1>1. /\ req' = [req EXCEPT ![c].ok = FALSE] /\ table' = table
      /\ strays' = IF req[c].sys = "open" THEN strays ELSE Strays(c, req[c].sys, {req[c].fd})
      /\ req[c].sys = "close" => table[req[c].fd] = Free
  BY DEF SysRefused
<1>2. Queued(c) /\ UnderWay(c)
  BY PoolPerforms DEF IInv, PoolOK
<1>3. /\ DOMAIN req' = Calls /\ DOMAIN req'[c] = DOMAIN req[c] /\ req'[c].sys = req[c].sys /\ ~req'[c].ok
      /\ \A o \in Calls \ {c} : req'[o] = req[o]
  BY <1>1, <1>2 DEF IInv, Shapes
<1>4. req[c].sys # "close"
  <2>1. Opener(c) # 0
    BY DEF IInv, Shapes, CallPlans, Opener
  <2> QED BY <1>1, <1>2, <2>1, StrayIs DEF Free
<1>5. Descriptors' /\ \A d \in Fds : table'[d].of = table[d].of
  BY <1>1 DEF IInv, Descriptors
<1>6. strays' = strays \/ (req[c].sys # "open" /\ strays' = Strays(c, req[c].sys, {req[c].fd}))
  BY <1>1
<1> QED BY <1>3, <1>4, <1>5, <1>6, ServedInv

\* Any system call but close() fails.
LEMMA SysFailsInv ==
    ASSUME IInv, NEW c \in Calls, Performed(c), SysFails(c) PROVE IInv'
<1>1. /\ req[c].sys # "close" /\ req' = [req EXCEPT ![c].ok = FALSE] /\ table' = table /\ strays' = strays
  BY DEF SysFails
<1>2. /\ DOMAIN req' = Calls /\ DOMAIN req'[c] = DOMAIN req[c] /\ req'[c].sys = req[c].sys /\ ~req'[c].ok
      /\ \A o \in Calls \ {c} : req'[o] = req[o]
  BY <1>1, PoolPerforms DEF IInv, PoolOK, Shapes
<1>3. Descriptors' /\ \A d \in Fds : table'[d].of = table[d].of
  BY <1>1 DEF IInv, Descriptors
<1> QED BY <1>1, <1>2, <1>3, ServedInv

-----------------------------------------------------------------------------
(* The invariant.                                                          *)

\* Nothing is open at first.
LEMMA IInvHoldsAtFirst == Init => IInv
<1> SUFFICES ASSUME Init PROVE IInv
  OBVIOUS
<1> USE FilesAssumption DEF Init
<1>1. \A c \in Calls : ~UnderWay(c) /\ ~Queued(c) /\ ~Back(c)
  BY DEF UnderWay, Queued, Back, ToSet
<1>2. Shapes
  BY <1>1 DEF Shapes, NoWork
<1>3. Descriptors
  BY DEF Descriptors, Free
<1>4. PoolOK
  BY <1>1 DEF PoolOK, Injective
<1>5. \A c \in Calls : CallOK(c)
  BY <1>1 DEF CallOK, StepOK, Truncating, NoWork, RequestOK, HandleOK, Apart, Unasked
<1>6. Kept
  BY <1>1 DEF Kept, Keeps, Truncating, NoWork, Free, Unasked
<1>7. StraysOK
  BY DEF StraysOK
<1> QED BY <1>2, <1>3, <1>4, <1>5, <1>6, <1>7 DEF IInv

\* Every step keeps the invariant.
LEMMA IInvIsKept == IInv /\ [Next]_vars => IInv'
<1> SUFFICES ASSUME IInv, [Next]_vars PROVE IInv'
  OBVIOUS
<1>1. ASSUME ScriptStep PROVE IInv'
  <2>1. PICK c \in Calls :
           \/ ReadFile(c) \/ WriteFile(c) \/ AppendFile(c) \/ CopyFile(c) \/ Truncate(c) \/ TruncateFails(c) \/ Open(c)
           \/ HandleRead(c) \/ HandleWrite(c) \/ HandleReadFile(c) \/ HandleClose(c)
           \/ Finalize(c)
    BY <1>1 DEF ScriptStep
  <2> QED BY <2>1, ReadFileInv, WriteFileInv, AppendFileInv, CopyFileInv, TruncateInv, TruncateFailsInv, OpenInv,
             HandleReadInv, HandleWriteInv, HandleReadFileInv, HandleCloseInv, FinalizeInv
<1>2. ASSUME LoopStep PROVE IInv'
  <2>1. PICK c \in Calls :
           \/ ReadfileOpened(c) \/ ReadfileStated(c) \/ ReadfileRead(c) \/ ReadfileClosed(c)
           \/ ReadfilePromiseStated(c) \/ ReadfilePromiseRead(c)
           \/ WritefileOpened(c) \/ AppendfileOpened(c) \/ WritefileWritten(c) \/ WritefileClosed(c)
           \/ CopyfileOpenedSrc(c) \/ CopyfileOpenedDest(c) \/ CopyfileStated(c) \/ CopyfileRead(c)
           \/ CopyfileWritten(c) \/ CopyfileClosedDest(c) \/ CopyfileCleanup(c)
           \/ TruncateCloses(c) \/ TruncateCompleted(c)
           \/ OpenCompleted(c) \/ HandleReadfileStated(c) \/ HandleReadfileRead(c)
           \/ HandleCompleted(c) \/ HandleClosed(c)
    BY <1>2 DEF LoopStep
  <2> QED BY <2>1, ReadfileOpenedInv, ReadfileStatedInv, ReadfileReadInv, ReadfileClosedInv,
             ReadfilePromiseStatedInv, ReadfilePromiseReadInv, WritefileOpenedInv, AppendfileOpenedInv,
             WritefileWrittenInv, WritefileClosedInv, CopyfileOpenedSrcInv, CopyfileOpenedDestInv,
             CopyfileStatedInv, CopyfileReadInv, CopyfileWrittenInv, CopyfileClosedDestInv, CopyfileCleanupInv,
             TruncateClosesInv, TruncateCompletedInv, OpenCompletedInv, HandleReadfileStatedInv,
             HandleReadfileReadInv, HandleCompletedInv, HandleClosedInv
<1>3. ASSUME ThreadStep PROVE IInv'
  <2>1. PICK c \in Calls :
           /\ Performed(c)
           /\ \/ SysOpen(c) \/ SysFstat(c) \/ SysRead(c) \/ SysFtruncate(c) \/ SysClose(c)
              \/ \E n \in 1..req[c].n : SysWrite(c, n)
              \/ SysRefused(c) \/ SysFails(c)
    BY <1>3 DEF ThreadStep
  <2> QED BY <2>1, SysOpenInv, SysFstatInv, SysReadInv, SysFtruncateInv, SysCloseInv, SysWriteInv,
             SysRefusedInv, SysFailsInv
<1>4. CASE UNCHANGED vars
  <2>1. /\ plan' = plan /\ at' = at /\ work' = work /\ handle' = handle /\ req' = req /\ queue' = queue /\ done' = done
        /\ answer' = answer /\ table' = table /\ strays' = strays
    BY <1>4 DEF vars, poolVars, kernelVars
  <2>2. Shapes' /\ Descriptors' /\ StraysOK'
    BY <2>1 DEF IInv, Shapes, Descriptors, StraysOK, MayStray, OnHandle, UnderWay
  <2>3. PoolOK' /\ \A c \in Calls : (Queued(c)' <=> Queued(c)) /\ (Back(c)' <=> Back(c))
    BY <2>1, PoolSame DEF IInv, UnderWay
  <2>4. \A c \in Calls : CallOK(c)'
    BY <2>1, <2>3 DEF IInv, CallOK, StepOK, Truncating, RequestOK, HandleOK, Apart, OnHandle, UnderWay
  <2>5. \A c \in Calls : (\A d : Keeps(c, d)' <=> Keeps(c, d)) /\ Opener(c)' = Opener(c)
    BY <2>1, <2>3 DEF Keeps, Opener, OnHandle, Truncating
  <2>6. Kept'
    BY <2>1, <2>5 DEF IInv, Kept, GaveUp
  <2> QED BY <2>2, <2>3, <2>4, <2>6 DEF IInv
<1> QED BY <1>1, <1>2, <1>3, <1>4 DEF Next

\* The invariant holds throughout.
THEOREM Invariance == Spec => []IInv
BY IInvHoldsAtFirst, IInvIsKept, PTL DEF Spec

\* Whatever is opened and closed meanwhile, nobody closes a descriptor that is
\* not its own; and a system call is on the descriptor of its caller, but for
\* the two cases that OwnDescriptors names.
THEOREM DescriptorsAreOwn == Spec => []OwnDescriptors
<1>1. IInv => OwnDescriptors
  BY DEF IInv, StraysOK, MayStray, OwnDescriptors, OnHandle
<1> QED BY <1>1, Invariance, PTL

\* What is open is somebody's to close, who is still at it; but for the
\* descriptors of readFile() calls whose read() failed.
THEOREM NothingLeaks == Spec => []NoneLeaked
<1>1. ASSUME IInv PROVE NoneLeaked
  <2>1. ASSUME NEW d \in Fds, table[d] # Free
        PROVE  LET c == table[d].of
               IN  \/ UnderWay(c)
                   \/ handle[c].state = "open"
                   \/ \E k \in Calls : plan[k].op = "handle.close" /\ plan[k].handle = c /\ at[k] = "close"
                   \/ plan[c].op = "readFile" /\ ~answer[c].ok /\ answer[c].sys = "read"
    <3>1. PICK c : c = table[d].of /\ c # 0
      BY <1>1, <2>1 DEF IInv, Descriptors
    <3>2. CASE GaveUp(c)
      BY <3>1, <3>2 DEF GaveUp
    <3>3. CASE \E k \in Calls : Keeps(k, d) /\ Opener(k) = c
      <4>1. PICK k \in Calls : Keeps(k, d) /\ Opener(k) = c
        BY <3>3
      <4>2. UnderWay(k) \/ handle[k].state = "open"
        BY <1>1, <4>1 DEF Keeps, UnderWay, Unasked, Answered, IInv, CallOK, StepOK
      <4>3. CASE ~OnHandle(k)
        BY <3>1, <4>1, <4>2, <4>3 DEF Opener, OnHandle
      <4>4. CASE OnHandle(k)
        <5>1. plan[k].handle = c
          BY <4>1, <4>4 DEF Opener, OnHandle
        <5>2. UnderWay(k) /\ StepOK(k) /\ ~Truncating(k) /\ handle[k].state # "open"
          BY <1>1, <4>2, <4>4 DEF IInv, CallOK, HandleOK, OnHandle, HandleOps, Truncating
        <5>3. plan[k].op = "handle.close" /\ at[k] = "close"
          BY <4>1, <4>4, <5>2 DEF Keeps, StepOK, OnHandle, HandleOps, ReadOps, WriteOps
        <5> QED BY <3>1, <5>1, <5>3
      <4> QED BY <4>3, <4>4
    <3> QED BY <1>1, <2>1, <3>1, <3>2, <3>3 DEF IInv, Kept
  <2> QED BY <2>1 DEF NoneLeaked
<1> QED BY <1>1, Invariance, PTL

-----------------------------------------------------------------------------
(* What calls report.                                                      *)

\* The request of call c is done and has not failed.
Arrived(c) == Back(c) /\ req[c].ok

\* A request that a thread can make.
Formed(r) ==
    /\ r \in Requests
    /\ r.sys # "open" => r.fd \in Fds
    /\ r.sys = "write" => r.n <= Len(r.buf)
    /\ r.sys = "ftruncate" => r.n = 0

Sized(c) ==
    UnderWay(c) =>
        /\ Formed(req[c])
        /\ req[c].sys = "read" /\ Arrived(c) => req[c].n = Len(req[c].buf)
        /\ req[c].sys = "open" /\ Arrived(c) => req[c].n \in Fds
        /\ plan[c].op = "handle.readFile" => work[c].fd \in Fds

\* The operations whose results AnsweredTruly speaks of, and what they open files for.
Telling == ReadOps \cup WriteOps \cup {"copyFile"}
ModeOf(c) ==
    CASE plan[c].op = "writeFile"  -> {"write", "trunc"}
      [] plan[c].op = "appendFile" -> {"write", "append"}
      [] OTHER                     -> {"read"}

\* The descriptors of such a call are on its files.
IsOn(d, f, m) == table[d].file = f /\ table[d].mode = m
FilesOK(c) ==
    plan[c].op \in Telling =>
        /\ at[c] = "open" /\ Queued(c) => req[c].file = plan[c].path /\ req[c].mode = ModeOf(c)
        /\ at[c] = "openDest" /\ Queued(c) => req[c].file = plan[c].dest /\ req[c].mode = {"write", "trunc"}
        /\ at[c] = "open" /\ Arrived(c) => IsOn(req[c].n, plan[c].path, ModeOf(c))
        /\ at[c] = "openDest" /\ Arrived(c) => IsOn(req[c].n, plan[c].dest, {"write", "trunc"})
        /\ at[c] \in {"openDest", "fstat", "read", "write"} => IsOn(work[c].fd, plan[c].path, ModeOf(c))
        /\ plan[c].op = "copyFile" /\ at[c] \in {"fstat", "read", "write"}
              => IsOn(work[c].dest, plan[c].dest, {"write", "trunc"})

Source(c) == content[plan[c].path]
Target(c) == content[plan[c].dest]

\* What has been read of the file, at each callback.
ReadTrue(c) ==
    /\ at[c] \in {Unasked, "open", "fstat", "read"} => work[c].buffer = <<>>
    /\ at[c] = "fstat" /\ Arrived(c) => req[c].n = Len(Source(c))
    /\ at[c] = "read" /\ Queued(c) => req[c].pos = 0 /\ req[c].n = Len(Source(c))
    /\ at[c] = "read" /\ Arrived(c) => req[c].buf = Source(c)
    /\ at[c] = "close" => work[c].buffer = Source(c)

\* What has been written to it.
WriteTrue(c) ==
    /\ at[c] = "open" /\ Arrived(c) => Source(c) = <<>>
    /\ at[c] = "write" /\ Queued(c) => Source(c) = <<>> /\ req[c].pos = 0 /\ req[c].n = 2 /\ req[c].buf = Data(c)
    /\ at[c] = "write" /\ Arrived(c) => Source(c) = Data(c)
    /\ at[c] = "close" => Source(c) = Data(c)

Holds(s, c) == \E i \in DOMAIN s : i + 1 \in DOMAIN s /\ s[i] = c /\ s[i + 1] = c
AppendTrue(c) ==
    /\ at[c] = "write" /\ Queued(c) => req[c].n = 2 /\ req[c].buf = Data(c)
    /\ at[c] = "write" /\ Arrived(c) => Holds(Source(c), c)
    /\ at[c] = "close" => Holds(Source(c), c)

\* The first k bytes have been copied, and those that follow are in the buffer.
Copied(c, k) ==
    /\ Len(Target(c)) = k /\ k <= Len(Source(c))
    /\ \A i \in 1 .. k : Target(c)[i] = Source(c)[i]
Buffered(c, k) ==
    /\ k + Len(req[c].buf) <= Len(Source(c))
    /\ \A i \in 1 .. Len(req[c].buf) : req[c].buf[i] = Source(c)[k + i]

CopyTrue(c) ==
    /\ at[c] = "openDest" /\ Arrived(c) => Target(c) = <<>> /\ table[req[c].n].pos = 0
    /\ at[c] = "fstat" => Target(c) = <<>> /\ table[work[c].dest].pos = 0
    /\ at[c] = "read" => Copied(c, work[c].offset) /\ table[work[c].dest].pos = work[c].offset
    /\ at[c] = "read" /\ Queued(c) => req[c].pos = work[c].offset /\ req[c].n = ChunkSize
    /\ at[c] = "read" /\ Arrived(c) =>
          Buffered(c, work[c].offset) /\ (req[c].n = 0 => work[c].offset = Len(Source(c)))
    /\ at[c] = "write" /\ Queued(c) =>
          /\ req[c].n = Len(req[c].buf) /\ req[c].pos = Current
          /\ \E k \in Nat : /\ work[c].offset = k + req[c].n /\ table[work[c].dest].pos = k
                            /\ Copied(c, k) /\ Buffered(c, k)
    /\ at[c] = "write" /\ Arrived(c) => Copied(c, work[c].offset) /\ table[work[c].dest].pos = work[c].offset
    /\ at[c] \in {"closeDest", "close"} => Target(c) = Source(c)

\* As long as nobody else has changed the call's files and no write was short.
Truth(c) ==
    c \notin disturbed \cup cut =>
        /\ plan[c].op \in ReadOps => ReadTrue(c)
        /\ plan[c].op = "writeFile" => WriteTrue(c)
        /\ plan[c].op = "appendFile" => AppendTrue(c)
        /\ plan[c].op = "copyFile" /\ plan[c].path # plan[c].dest => CopyTrue(c)

TInv == TypeOK /\ \A c \in Calls : Sized(c) /\ FilesOK(c) /\ Truth(c)

\* Call o sees nothing of a step, or is disturbed by it, or has others append to
\* what it appends to.
Unseen(o) ==
    /\ o \in disturbed \cup cut => o \in disturbed' \cup cut'
    /\ UnderWay(o) =>
        \/ o \in disturbed'
        \/ Source(o)' = Source(o) /\ Target(o)' = Target(o)
        \/ /\ plan[o].op = "appendFile"
           /\ \A i \in DOMAIN Source(o) : i \in DOMAIN Source(o)' /\ Source(o)'[i] = Source(o)[i]
    /\ \A d : Keeps(o, d) =>
        /\ table'[d].file = table[d].file /\ table'[d].mode = table[d].mode
        /\ UnderWay(o) /\ IsOn(d, plan[o].dest, {"write", "trunc"}) =>
              o \in disturbed' \/ table'[d].pos = table[d].pos

\* What is known of other calls stays true.
LEMMA OtherTrue ==
    ASSUME IInv, TInv, NEW c \in Calls, Others(c), UNCHANGED plan, NEW o \in Calls, o # c, Unseen(o)
    PROVE  Sized(o)' /\ FilesOK(o)' /\ Truth(o)'
<1>1. /\ plan' = plan /\ at'[o] = at[o] /\ work'[o] = work[o] /\ req'[o] = req[o]
      /\ Queued(o)' <=> Queued(o)
      /\ Back(o)' <=> Back(o)
      /\ UnderWay(o)' <=> UnderWay(o)
      /\ Arrived(o)' <=> Arrived(o)
  BY DEF Others, UnderWay, Arrived
<1>2. Sized(o) /\ FilesOK(o) /\ Truth(o) /\ CallOK(o)
  BY DEF TInv, IInv
<1>3. Sized(o)'
  BY <1>1, <1>2 DEF Sized, Formed
<1>4. plan[o].op \in Telling => ~OnHandle(o)
  BY DEF Telling, OnHandle, HandleOps, ReadOps, WriteOps
<1>5. plan[o].op \in Telling /\ at[o] \in {"open", "openDest"} /\ Arrived(o) => Keeps(o, req[o].n)
  BY DEF Keeps, Arrived
<1>6. plan[o].op \in Telling /\ at[o] \in {"openDest", "fstat", "read", "write"} => Keeps(o, work[o].fd)
  BY <1>4 DEF Keeps
<1>7. plan[o].op = "copyFile" /\ at[o] \in {"fstat", "read", "write"} => Keeps(o, work[o].dest)
  BY DEF Keeps
<1>8. \A d : Keeps(o, d) => table'[d].file = table[d].file /\ table'[d].mode = table[d].mode
  BY DEF Unseen
<1>9. FilesOK(o)'
  BY <1>1, <1>2, <1>5, <1>6, <1>7, <1>8 DEF FilesOK, IsOn, ModeOf
<1>10. ASSUME o \notin disturbed' \cup cut' PROVE Truth(o)'
  <2>1. o \notin disturbed \cup cut
    BY <1>10 DEF Unseen
  <2>2. CASE ~UnderWay(o)
    <3>1. at'[o] \in {Unasked, Answered}
      BY <1>1, <2>2 DEF UnderWay
    <3> QED BY <1>1, <1>2, <2>1, <3>1 DEF Truth, ReadTrue, WriteTrue, AppendTrue, CopyTrue, Unasked, Answered
  <2>3. CASE Source(o)' = Source(o) /\ Target(o)' = Target(o)
    <3>1. plan[o].op \in ReadOps => ReadTrue(o)'
      BY <1>1, <1>2, <2>1, <2>3 DEF Truth, ReadTrue
    <3>2. plan[o].op = "writeFile" => WriteTrue(o)'
      BY <1>1, <1>2, <2>1, <2>3 DEF Truth, WriteTrue
    <3>3. plan[o].op = "appendFile" => AppendTrue(o)'
      BY <1>1, <1>2, <2>1, <2>3 DEF Truth, AppendTrue
    <3>4. ASSUME plan[o].op = "copyFile", plan[o].path # plan[o].dest PROVE CopyTrue(o)'
      <4>1. CopyTrue(o) /\ plan[o].op \in Telling
        BY <1>2, <2>1, <3>4 DEF Truth, Telling
      <4>2. at[o] = "openDest" /\ Arrived(o) => table'[req[o].n].pos = table[req[o].n].pos
        BY <1>2, <1>5, <1>10, <4>1 DEF FilesOK, IsOn, Unseen, UnderWay, Unasked, Answered
      <4>3. at[o] \in {"fstat", "read", "write"} => table'[work[o].dest].pos = table[work[o].dest].pos
        BY <1>2, <1>7, <1>10, <3>4, <4>1 DEF FilesOK, IsOn, Unseen, UnderWay, Unasked, Answered
      <4>4. \A k : (Copied(o, k)' <=> Copied(o, k)) /\ (Buffered(o, k)' <=> Buffered(o, k))
        BY <1>1, <2>3 DEF Copied, Buffered
      <4> QED BY <1>1, <2>3, <4>1, <4>2, <4>3, <4>4 DEF CopyTrue
    <3> QED BY <1>1, <3>1, <3>2, <3>3, <3>4 DEF Truth
  <2>4. CASE /\ plan[o].op = "appendFile"
             /\ \A i \in DOMAIN Source(o) : i \in DOMAIN Source(o)' /\ Source(o)'[i] = Source(o)[i]
    <3>1. Holds(Source(o), o) => Holds(Source(o)', o)
      BY <2>4 DEF Holds
    <3>2. AppendTrue(o)'
      BY <1>1, <1>2, <2>1, <2>4, <3>1 DEF Truth, AppendTrue
    <3> QED BY <1>1, <2>4, <3>2 DEF Truth, ReadOps
  <2> QED BY <1>10, <2>2, <2>3, <2>4 DEF Unseen
<1>11. Truth(o)'
  BY <1>10 DEF Truth
<1> QED BY <1>3, <1>9, <1>11

\* A step of one call.
LEMMA TrueStep ==
    ASSUME IInv, TInv, NEW c \in Calls, Others(c), UNCHANGED plan, TypeOK',
           \A o \in Calls : o # c => Unseen(o),
           Sized(c)', FilesOK(c)', Truth(c)'
    PROVE  TInv'
<1>1. ASSUME NEW o \in Calls PROVE Sized(o)' /\ FilesOK(o)' /\ Truth(o)'
  BY <1>1, OtherTrue
<1> QED BY <1>1 DEF TInv

\* The requests that calls make can be made.
LEMMA RequestsFormed ==
    ASSUME IInv, Calls # {}, NEW d \in Fds
    PROVE  /\ Formed(Fstat(d)) /\ Formed(Close(d)) /\ Formed(On("ftruncate", d, 0, 0, <<>>))
           /\ \A p \in Nat \cup {Current}, n \in Nat : Formed(Read(d, p, n))
           /\ \A p \in Nat \cup {Current}, b \in Seq(Nat) : Formed(Write(d, p, b))
<1>1. d \in Nat /\ \E f \in Files : TRUE
  BY DEF IInv, Shapes, CallPlans
<1>2. ASSUME NEW sys \in {"fstat", "read", "write", "ftruncate", "close"},
             NEW p \in Nat \cup {Current}, NEW n \in Nat, NEW b \in Seq(Nat),
             sys = "write" => n <= Len(b), sys = "ftruncate" => n = 0
      PROVE  Formed(On(sys, d, p, n, b))
  <2>1. PICK f \in Files : f = CHOOSE x \in Files : TRUE
    BY <1>1
  <2>2. On(sys, d, p, n, b) =
          [sys |-> sys, fd |-> d, file |-> f, mode |-> {}, pos |-> p, n |-> n, buf |-> b, ok |-> TRUE]
    BY <2>1 DEF On
  <2>3. {} \in Modes
    BY DEF Modes
  <2> QED BY <1>1, <1>2, <2>2, <2>3 DEF Formed, Requests, Systems
<1>3. <<>> \in Seq(Nat) /\ 0 \in Nat \cup {Current}
  OBVIOUS
<1>4. Formed(Fstat(d)) /\ Formed(Close(d)) /\ Formed(On("ftruncate", d, 0, 0, <<>>))
  BY <1>2, <1>3 DEF Fstat, Close
<1>5. ASSUME NEW p \in Nat \cup {Current}, NEW n \in Nat PROVE Formed(Read(d, p, n))
  BY <1>2, <1>3, <1>5 DEF Read
<1>6. ASSUME NEW p \in Nat \cup {Current}, NEW b \in Seq(Nat) PROVE Formed(Write(d, p, b))
  <2>1. Len(b) \in Nat /\ Len(b) <= Len(b)
    BY LenProperties
  <2> QED BY <1>2, <2>1 DEF Write
<1> QED BY <1>4, <1>5, <1>6

LEMMA OpenFormed ==
    ASSUME NEW f \in Files, NEW m \in Modes
    PROVE  Formed(OpenOf(f, m)) /\ OpenOf(f, m).file = f /\ OpenOf(f, m).mode = m
<1>1. <<>> \in Seq(Nat) /\ 0 \in Nat
  OBVIOUS
<1> QED BY <1>1 DEF Formed, Requests, Systems, OpenOf

\* A call asks for a request; it may have opened a descriptor for it.
LEMMA AsksTrue ==
    ASSUME IInv, IInv', TInv, NEW c \in Calls, NEW r, NEW step, Ask(c, r, step), Formed(r),
           step \in Steps \ {Unasked, Answered}, Moves(c),
           UNCHANGED <<plan, content, disturbed, cut, strays, faults, answer>>,
           handle' \in [Calls -> Handles], \A o \in Calls \ {c} : work'[o] = work[o], work' \in [Calls -> Works],
           table' \in [Fds -> Descriptions \cup {Free}],
           \A d \in Fds : table[d].of # 0 => table'[d] = table[d],
           plan[c].op = "handle.readFile" => work'[c].fd \in Fds,
           Queued(c)' /\ ~Back(c)' /\ at'[c] = step /\ req'[c] = r => FilesOK(c)' /\ Truth(c)'
    PROVE  TInv'
<1>1. /\ at'[c] = step /\ req'[c] = r /\ UnderWay(c)' /\ Queued(c)' /\ ~Back(c)' /\ PoolOK' /\ Others(c)
  BY AskFacts
<1>2. TypeOK'
  <2>1. /\ at' \in [Calls -> Steps] /\ req' \in [Calls -> Requests \cup {NoReq}]
    BY DEF TInv, TypeOK, Ask, Formed
  <2>2. queue' \in Seq(Calls) /\ done' \in Seq(Calls)
    BY <1>1 DEF PoolOK
  <2> QED BY <2>1, <2>2 DEF TInv, TypeOK
<1>3. Sized(c)'
  BY <1>1 DEF Sized, Arrived, Formed
<1>4. ASSUME NEW o \in Calls, o # c PROVE Unseen(o)
  <2>1. Opener(o) # 0
    BY DEF IInv, Shapes, Opener, CallPlans
  <2>2. \A d : Keeps(o, d) => table'[d] = table[d]
    BY <2>1 DEF IInv, Kept
  <2> QED BY <2>2 DEF Unseen, Source, Target
<1> QED BY <1>1, <1>2, <1>3, <1>4, TrueStep

\* What is closed in a step is kept by no other call.
LEMMA OnlyOwnClosed ==
    ASSUME IInv, IInv', NEW c \in Calls, Others(c), UNCHANGED plan, NEW o \in Calls, o # c, handle'[o] = handle[o],
           \A d \in Fds : table'[d] \in {Free, table[d]}
    PROVE  \A d : Keeps(o, d) => table'[d] = table[d]
<1>1. CallOK(o) /\ Shapes /\ PoolOK /\ Kept /\ Kept'
  BY DEF IInv
<1>2. \A d : Keeps(o, d)' <=> Keeps(o, d)
  BY <1>1 DEF Keeps, Others, Truncating, OnHandle
<1>3. Opener(o)' = Opener(o) /\ Opener(o) # 0
  BY <1>1 DEF Opener, Shapes, CallPlans
<1>4. \A d : Keeps(o, d) => d \in Fds /\ table'[d].of # 0
  BY <1>1, <1>2, <1>3 DEF Kept
<1> QED BY <1>4 DEF Free

\* A call is answered.
LEMMA AnswersTrue ==
    ASSUME IInv, IInv', TInv, NEW c \in Calls, NEW ok \in BOOLEAN, NEW data \in Seq(Nat), Answer(c, ok, data),
           UNCHANGED <<plan, queue, content, disturbed, cut>>, Moves(c), handle' \in [Calls -> Handles],
           \A o \in Calls \ {c} : handle'[o] = handle[o], faults' \in 0..MaxFaults,
           table' \in [Fds -> Descriptions \cup {Free}], \A d \in Fds : table'[d] \in {Free, table[d]},
           strays' = strays \/ \E ds : strays' = Strays(c, "close", ds)
    PROVE  TInv'
<1>1. /\ at'[c] = Answered /\ ~UnderWay(c)' /\ ~Queued(c)' /\ ~Back(c)' /\ PoolOK' /\ Others(c)
  BY AnswerFacts
<1>2. TypeOK'
  <2>1. /\ at' \in [Calls -> Steps] /\ req' \in [Calls -> Requests \cup {NoReq}]
        /\ answer' \in [Calls -> Answers]
    <3>1. req[c] \in Requests \cup {NoReq}
      BY DEF TInv, TypeOK
    <3>2. req[c].sys \in Systems \cup {"none"}
      BY <3>1 DEF Requests, NoReq
    <3>3. [ok |-> ok, data |-> data, sys |-> req[c].sys] \in Answers
      BY <3>2 DEF Answers
    <3> QED BY <3>3 DEF TInv, TypeOK, Answer, Steps
  <2>2. queue' \in Seq(Calls) /\ done' \in Seq(Calls)
    BY <1>1 DEF PoolOK
  <2>3. work' \in [Calls -> Works]
    <3>1. NoWork \in Works
      BY DEF NoWork, Works
    <3> QED BY <3>1 DEF TInv, TypeOK, Answer
  <2>4. strays' \subseteq (Calls \X {"fstat", "read", "write", "ftruncate", "close"})
    BY DEF TInv, TypeOK, Strays
  <2> QED BY <2>1, <2>2, <2>3, <2>4 DEF TInv, TypeOK
<1>3. Sized(c)' /\ FilesOK(c)' /\ Truth(c)'
  BY <1>1 DEF Sized, FilesOK, Truth, ReadTrue, WriteTrue, AppendTrue, CopyTrue, Unasked, Answered
<1>4. ASSUME NEW o \in Calls, o # c PROVE Unseen(o)
  <2>1. \A d : Keeps(o, d) => table'[d] = table[d]
    BY <1>1, <1>4, OnlyOwnClosed
  <2> QED BY <2>1 DEF Unseen, Source, Target
<1> QED BY <1>1, <1>2, <1>3, <1>4, TrueStep

\* The operations that these properties do not speak of.
LEMMA OtherOps ==
    ASSUME NEW c, plan[c].op \notin Telling PROVE FilesOK(c) /\ Truth(c)
BY DEF FilesOK, Truth, Telling, ReadOps, WriteOps

\* A callback finds that the request has failed.
LEMMA FailsTrue ==
    ASSUME IInv, IInv', TInv, NEW c \in Calls, NEW ops, NEW step, Callback(c, ops, step), NEW ds, Fails(c, ds)
    PROVE  TInv'
<1>1. Moves(c)
  BY BackFacts
<1>2. Answer(c, FALSE, <<>>) /\ UNCHANGED <<plan, handle, queue, content, disturbed, cut, faults>>
  BY DEF Fails
<1>3. /\ table' = [d \in Fds |-> IF d \in ds THEN Free ELSE table[d]]
      /\ strays' = Strays(c, "close", ds)
  BY DEF Fails, CloseNow
<1>4. /\ table' \in [Fds -> Descriptions \cup {Free}] /\ handle' \in [Calls -> Handles]
      /\ \A d \in Fds : table'[d] \in {Free, table[d]}
      /\ faults' \in 0..MaxFaults /\ <<>> \in Seq(Nat)
  BY <1>2, <1>3 DEF TInv, TypeOK
<1>5. /\ FALSE \in BOOLEAN /\ UNCHANGED <<plan, queue, content, disturbed, cut>>
      /\ \A o \in Calls \ {c} : handle'[o] = handle[o]
  BY <1>2
<1> QED BY <1>1, <1>2, <1>3, <1>4, <1>5, AnswersTrue

\* A callback finds that nothing is left to do.
LEMMA CompletesTrue ==
    ASSUME IInv, IInv', TInv, NEW c \in Calls, NEW ops, NEW step, Callback(c, ops, step),
           NEW data \in Seq(Nat), Completes(c, data)
    PROVE  TInv'
<1>1. Moves(c)
  BY BackFacts
<1>2. /\ Answer(c, TRUE, data) /\ TRUE \in BOOLEAN
      /\ UNCHANGED <<plan, handle, queue, content, disturbed, cut, faults, table, strays>>
  BY DEF Completes, kernelVars
<1>3. /\ table' \in [Fds -> Descriptions \cup {Free}] /\ handle' \in [Calls -> Handles]
      /\ \A d \in Fds : table'[d] \in {Free, table[d]}
      /\ faults' \in 0..MaxFaults /\ \A o \in Calls \ {c} : handle'[o] = handle[o]
  BY <1>2 DEF TInv, TypeOK
<1> QED BY <1>1, <1>2, <1>3, AnswersTrue

\* A callback makes the next request.
LEMMA ContinuesTrue ==
    ASSUME IInv, IInv', TInv, NEW c \in Calls, NEW ops, NEW from, Callback(c, ops, from),
           NEW r, NEW step, Continues(c, r, step), Formed(r), step \in Steps \ {Unasked, Answered},
           work' \in [Calls -> Works], \A o \in Calls \ {c} : work'[o] = work[o],
           "handle.readFile" \in ops => work'[c].fd = work[c].fd,
           Queued(c)' /\ ~Back(c)' /\ at'[c] = step /\ req'[c] = r => FilesOK(c)' /\ Truth(c)'
    PROVE  TInv'
<1>1. Moves(c) /\ plan[c].op \in ops /\ UnderWay(c)
  BY BackFacts
<1>2. /\ Ask(c, r, step)
      /\ UNCHANGED <<plan, handle, content, disturbed, cut, strays, faults, answer, table>>
  BY DEF Continues, kernelVars
<1>3. /\ table' \in [Fds -> Descriptions \cup {Free}] /\ handle' \in [Calls -> Handles]
      /\ \A d \in Fds : table[d].of # 0 => table'[d] = table[d]
  BY <1>2 DEF TInv, TypeOK
<1>4. plan[c].op = "handle.readFile" => work'[c].fd \in Fds
  BY <1>1 DEF TInv, Sized
<1> QED BY <1>1, <1>2, <1>3, <1>4, AsksTrue

\* What a callback finds of its call.
LEMMA BackTrue ==
    ASSUME IInv, TInv, NEW c \in Calls, NEW ops, NEW step, Callback(c, ops, step)
    PROVE  /\ Back(c) /\ plan[c].op \in ops /\ at[c] = step /\ UnderWay(c) /\ CallOK(c)
           /\ req[c] \in Requests /\ req[c].n \in Nat /\ req[c].buf \in Seq(Nat)
           /\ work \in [Calls -> Works] /\ work[c] \in Works
           /\ Sized(c) /\ FilesOK(c) /\ Truth(c)
<1>1. Back(c) /\ plan[c].op \in ops /\ at[c] = step /\ UnderWay(c) /\ CallOK(c)
  BY BackFacts
<1>2. req[c] \in Requests
  BY <1>1 DEF TInv, Sized, Formed
<1> QED BY <1>1, <1>2 DEF TInv, TypeOK, Requests, Systems

\* readfile_open_cb.
LEMMA ReadfileOpenedTrue ==
    ASSUME IInv, IInv', TInv, NEW c \in Calls, ReadfileOpened(c) PROVE TInv'
<1>1. Callback(c, ReadOps, "open")
  BY DEF ReadfileOpened
<1>2. /\ Back(c) /\ plan[c].op \in ReadOps /\ at[c] = "open" /\ UnderWay(c) /\ CallOK(c)
      /\ req[c].n \in Nat /\ work \in [Calls -> Works]
      /\ Sized(c) /\ FilesOK(c) /\ Truth(c)
  BY <1>1, BackTrue
<1>3. CASE Fails(c, {})
  BY <1>1, <1>3, FailsTrue
<1>4. ASSUME req[c].ok, work' = [work EXCEPT ![c].fd = req[c].n], Continues(c, Fstat(req[c].n), "fstat")
      PROVE  TInv'
  <2>1. req[c].n \in Fds /\ IsOn(req[c].n, plan[c].path, ModeOf(c)) /\ Formed(Fstat(req[c].n))
    BY <1>2, <1>4, RequestsFormed DEF CallOK, StepOK, Sized, FilesOK, Arrived, Telling
  <2>2. /\ work' \in [Calls -> Works] /\ work'[c].fd = req[c].n /\ work'[c].buffer = work[c].buffer
        /\ \A o \in Calls \ {c} : work'[o] = work[o]
    BY <1>2, <1>4 DEF Works
  <2>3. plan' = plan /\ content' = content /\ table' = table /\ UNCHANGED <<disturbed, cut>>
    BY <1>4 DEF Continues, kernelVars
  <2>4. ASSUME Queued(c)', ~Back(c)', at'[c] = "fstat" PROVE FilesOK(c)' /\ Truth(c)'
    <3>1. FilesOK(c)'
      BY <1>2, <2>1, <2>2, <2>3, <2>4 DEF FilesOK, IsOn, ModeOf, Telling, ReadOps
    <3>2. Truth(c)'
      BY <1>2, <2>2, <2>3, <2>4 DEF Truth, ReadTrue, Arrived, ReadOps
    <3> QED BY <3>1, <3>2
  <2>5. "fstat" \in Steps \ {Unasked, Answered}
    BY DEF Steps, Unasked, Answered
  <2> QED BY <1>1, <1>4, <2>1, <2>2, <2>4, <2>5, ContinuesTrue DEF ReadOps
<1> QED BY <1>3, <1>4 DEF ReadfileOpened

\* The descriptors in a call's work structure.
LEMMA WorkFds ==
    ASSUME IInv, NEW c \in Calls, plan[c].op \in Telling
    PROVE  /\ at[c] \in {"openDest", "fstat", "read", "write", "closeDest"} => work[c].fd \in Fds
           /\ plan[c].op = "copyFile" /\ at[c] \in {"fstat", "read", "write"} => work[c].dest \in Fds
<1>1. ~OnHandle(c)
  BY DEF Telling, OnHandle, HandleOps, ReadOps, WriteOps
<1>2. /\ at[c] \in {"openDest", "fstat", "read", "write", "closeDest"} => Keeps(c, work[c].fd)
      /\ plan[c].op = "copyFile" /\ at[c] \in {"fstat", "read", "write"} => Keeps(c, work[c].dest)
  BY <1>1 DEF Keeps
<1> QED BY <1>2 DEF IInv, Kept

\* Both of readFile() go on to read what fstat() has found.
LEMMA GoesOnToRead ==
    ASSUME IInv, IInv', TInv, NEW c \in Calls, NEW ops \in SUBSET ReadOps, Callback(c, ops, "fstat"),
           req[c].ok, work' = [work EXCEPT ![c].size = req[c].n],
           Continues(c, Read(work[c].fd, 0, req[c].n), "read")
    PROVE  TInv'
<1>1. /\ Back(c) /\ plan[c].op \in ReadOps /\ at[c] = "fstat" /\ req[c].n \in Nat /\ work \in [Calls -> Works]
      /\ Sized(c) /\ FilesOK(c) /\ Truth(c)
  BY BackTrue
<1>2. work[c].fd \in Fds /\ Formed(Read(work[c].fd, 0, req[c].n))
  BY <1>1, WorkFds, RequestsFormed DEF Telling
<1>3. /\ work' \in [Calls -> Works] /\ work'[c].fd = work[c].fd /\ work'[c].buffer = work[c].buffer
      /\ \A o \in Calls \ {c} : work'[o] = work[o]
  BY <1>1 DEF Works
<1>4. plan' = plan /\ content' = content /\ table' = table /\ UNCHANGED <<disturbed, cut>>
  BY DEF Continues, kernelVars
<1>5. ASSUME Queued(c)', ~Back(c)', at'[c] = "read", req'[c] = Read(work[c].fd, 0, req[c].n)
      PROVE  FilesOK(c)' /\ Truth(c)'
  <2>1. FilesOK(c)'
    BY <1>1, <1>3, <1>4, <1>5 DEF FilesOK, IsOn, ModeOf, Telling, ReadOps
  <2>2. req'[c].pos = 0 /\ req'[c].n = req[c].n
    BY <1>5 DEF Read, On
  <2>3. Truth(c)'
    BY <1>1, <1>3, <1>4, <1>5, <2>2 DEF Truth, ReadTrue, Arrived, Source, ReadOps
  <2> QED BY <2>1, <2>3
<1>6. "read" \in Steps \ {Unasked, Answered}
  BY DEF Steps, Unasked, Answered
<1> QED BY <1>2, <1>3, <1>5, <1>6, ContinuesTrue DEF ReadOps

\* readfile_fstat_cb.
LEMMA ReadfileStatedTrue ==
    ASSUME IInv, IInv', TInv, NEW c \in Calls, ReadfileStated(c) PROVE TInv'
<1>1. Callback(c, {"readFile"}, "fstat") /\ {"readFile"} \in SUBSET ReadOps
  BY DEF ReadfileStated, ReadOps
<1> QED BY <1>1, FailsTrue, GoesOnToRead DEF ReadfileStated

\* readfile_promise_stat_cb: an empty file has been read when it is known to be empty.
LEMMA ReadfilePromiseStatedTrue ==
    ASSUME IInv, IInv', TInv, NEW c \in Calls, ReadfilePromiseStated(c) PROVE TInv'
<1>1. Callback(c, {"readFilePromise"}, "fstat") /\ {"readFilePromise"} \in SUBSET ReadOps
  BY DEF ReadfilePromiseStated, ReadOps
<1>2. CASE ReadsAll(c)
  BY <1>1, <1>2, GoesOnToRead DEF ReadsAll
<1>3. ASSUME req[c].ok, req[c].n = 0, Continues(c, Close(work[c].fd), "close"), UNCHANGED work PROVE TInv'
  <2>1. /\ Back(c) /\ plan[c].op = "readFilePromise" /\ at[c] = "fstat" /\ work \in [Calls -> Works]
        /\ FilesOK(c) /\ Truth(c)
    BY <1>1, BackTrue
  <2>2. work[c].fd \in Fds /\ Formed(Close(work[c].fd))
    BY <2>1, WorkFds, RequestsFormed DEF Telling, ReadOps
  <2>3. plan' = plan /\ content' = content /\ table' = table /\ UNCHANGED <<disturbed, cut>>
    BY <1>3 DEF Continues, kernelVars
  <2>4. ASSUME Queued(c)', ~Back(c)', at'[c] = "close" PROVE FilesOK(c)' /\ Truth(c)'
    <3>1. FilesOK(c)'
      BY <2>1, <2>3, <2>4 DEF FilesOK
    <3>2. ASSUME c \notin disturbed \cup cut PROVE Source(c) = <<>> /\ work[c].buffer = <<>>
      <4>1. Len(Source(c)) = 0 /\ work[c].buffer = <<>>
        BY <1>3, <2>1, <3>2 DEF Truth, ReadTrue, Arrived, ReadOps
      <4>2. Source(c) \in Seq(Nat)
        BY DEF Source, TInv, TypeOK, IInv, Shapes, CallPlans
      <4> QED BY <4>1, <4>2, EmptySeq
    <3>3. Truth(c)'
      BY <1>3, <2>1, <2>3, <2>4, <3>2 DEF Truth, ReadTrue, Source, ReadOps
    <3> QED BY <3>1, <3>3
  <2>5. "close" \in Steps \ {Unasked, Answered} /\ work' \in [Calls -> Works]
        /\ \A o \in Calls \ {c} : work'[o] = work[o]
    BY <1>3, <2>1 DEF Steps, Unasked, Answered
  <2> QED BY <1>1, <1>3, <2>2, <2>4, <2>5, ContinuesTrue
<1> QED BY <1>1, <1>2, <1>3, FailsTrue DEF ReadfilePromiseStated

\* readfile_read_cb and readfile_promise_read_cb keep what was read.
LEMMA KeepsWhatWasRead ==
    ASSUME IInv, IInv', TInv, NEW c \in Calls, NEW ops \in SUBSET ReadOps, Callback(c, ops, "read"),
           req[c].ok, work' = [work EXCEPT ![c].buffer = req[c].buf], Continues(c, Close(work[c].fd), "close")
    PROVE  TInv'
<1>1. /\ Back(c) /\ plan[c].op \in ReadOps /\ at[c] = "read" /\ work \in [Calls -> Works]
      /\ req[c].buf \in Seq(Nat) /\ FilesOK(c) /\ Truth(c)
  BY BackTrue
<1>2. work[c].fd \in Fds /\ Formed(Close(work[c].fd))
  BY <1>1, WorkFds, RequestsFormed DEF Telling
<1>3. /\ work' \in [Calls -> Works] /\ work'[c].buffer = req[c].buf
      /\ \A o \in Calls \ {c} : work'[o] = work[o]
  BY <1>1 DEF Works
<1>4. plan' = plan /\ content' = content /\ table' = table /\ UNCHANGED <<disturbed, cut>>
  BY DEF Continues, kernelVars
<1>5. ASSUME Queued(c)', ~Back(c)', at'[c] = "close" PROVE FilesOK(c)' /\ Truth(c)'
  <2>1. FilesOK(c)'
    BY <1>1, <1>4, <1>5 DEF FilesOK, ReadOps
  <2>2. Truth(c)'
    BY <1>1, <1>3, <1>4, <1>5 DEF Truth, ReadTrue, Arrived, Source, ReadOps, Unasked
  <2> QED BY <2>1, <2>2
<1>6. "close" \in Steps \ {Unasked, Answered}
  BY DEF Steps, Unasked, Answered
<1> QED BY <1>2, <1>3, <1>5, <1>6, ContinuesTrue DEF ReadOps

LEMMA ReadfileReadTrue ==
    ASSUME IInv, IInv', TInv, NEW c \in Calls, ReadfileRead(c) PROVE TInv'
<1>1. Callback(c, {"readFile"}, "read") /\ {"readFile"} \in SUBSET ReadOps
  BY DEF ReadfileRead, ReadOps
<1> QED BY <1>1, FailsTrue, KeepsWhatWasRead DEF ReadfileRead

LEMMA ReadfilePromiseReadTrue ==
    ASSUME IInv, IInv', TInv, NEW c \in Calls, ReadfilePromiseRead(c) PROVE TInv'
<1>1. Callback(c, {"readFilePromise"}, "read") /\ {"readFilePromise"} \in SUBSET ReadOps
  BY DEF ReadfilePromiseRead, ReadOps
<1> QED BY <1>1, FailsTrue, KeepsWhatWasRead DEF ReadfilePromiseRead

\* readfile_close_cb, readfile_promise_close_cb.
LEMMA ReadfileClosedTrue ==
    ASSUME IInv, IInv', TInv, NEW c \in Calls, ReadfileClosed(c) PROVE TInv'
<1>1. Callback(c, ReadOps, "close") /\ Completes(c, work[c].buffer)
  BY DEF ReadfileClosed
<1>2. work[c].buffer \in Seq(Nat)
  BY <1>1, BackTrue DEF Works
<1> QED BY <1>1, <1>2, CompletesTrue

\* What a call of writeFile() or appendFile() has to write.
LEMMA DataIs ==
    ASSUME NEW c \in Calls
    PROVE  Data(c) \in Seq(Nat) /\ Len(Data(c)) = 2 /\ Data(c)[1] = c /\ Data(c)[2] = c
BY FilesAssumption DEF Data

\* writefile_open_cb and appendfile_open_cb: the file is open, and is written to.
LEMMA GoesOnToWrite ==
    ASSUME IInv, IInv', TInv, NEW c \in Calls, NEW ops \in SUBSET WriteOps, Callback(c, ops, "open"),
           NEW from \in Nat \cup {Current}, WritesAt(c, from), plan[c].op = "writeFile" => from = 0
    PROVE  TInv'
<1>1. /\ Back(c) /\ plan[c].op \in WriteOps /\ at[c] = "open" /\ UnderWay(c) /\ CallOK(c)
      /\ req[c].n \in Nat /\ work \in [Calls -> Works]
      /\ Sized(c) /\ FilesOK(c) /\ Truth(c)
  BY BackTrue
<1>2. ASSUME req[c].ok, work' = [work EXCEPT ![c].fd = req[c].n],
             Continues(c, Write(req[c].n, from, Data(c)), "write")
      PROVE  TInv'
  <2>1. /\ req[c].n \in Fds /\ IsOn(req[c].n, plan[c].path, ModeOf(c))
        /\ Formed(Write(req[c].n, from, Data(c)))
    BY <1>1, <1>2, RequestsFormed, DataIs DEF CallOK, StepOK, Sized, FilesOK, Arrived, Telling
  <2>2. /\ work' \in [Calls -> Works] /\ work'[c].fd = req[c].n /\ \A o \in Calls \ {c} : work'[o] = work[o]
    BY <1>1, <1>2 DEF Works
  <2>3. plan' = plan /\ content' = content /\ table' = table /\ UNCHANGED <<disturbed, cut>>
    BY <1>2 DEF Continues, kernelVars
  <2>4. ASSUME Queued(c)', ~Back(c)', at'[c] = "write", req'[c] = Write(req[c].n, from, Data(c))
        PROVE  FilesOK(c)' /\ Truth(c)'
    <3>1. FilesOK(c)'
      BY <1>1, <2>1, <2>2, <2>3, <2>4 DEF FilesOK, IsOn, ModeOf, Telling, WriteOps
    <3>2. req'[c].pos = from /\ req'[c].n = 2 /\ req'[c].buf = Data(c)
      BY <2>4, DataIs DEF Write, On
    <3>3. Data(c)' = Data(c)
      BY DEF Data
    <3>4. Truth(c)'
      BY <1>1, <1>2, <2>3, <2>4, <3>2, <3>3
         DEF Truth, WriteTrue, AppendTrue, Arrived, Source, ReadOps, WriteOps
    <3> QED BY <3>1, <3>4
  <2>5. "write" \in Steps \ {Unasked, Answered}
    BY DEF Steps, Unasked, Answered
  <2> QED BY <1>2, <2>1, <2>2, <2>4, <2>5, ContinuesTrue DEF WriteOps
<1> QED BY <1>2, FailsTrue DEF WritesAt

LEMMA WritefileOpenedTrue ==
    ASSUME IInv, IInv', TInv, NEW c \in Calls, WritefileOpened(c) PROVE TInv'
<1>1. Callback(c, {"writeFile"}, "open") /\ {"writeFile"} \in SUBSET WriteOps /\ WritesAt(c, 0)
  BY DEF WritefileOpened, WriteOps
<1> QED BY <1>1, GoesOnToWrite

LEMMA AppendfileOpenedTrue ==
    ASSUME IInv, IInv', TInv, NEW c \in Calls, AppendfileOpened(c) PROVE TInv'
<1>1. /\ Callback(c, {"appendFile"}, "open") /\ {"appendFile"} \in SUBSET WriteOps /\ WritesAt(c, Current)
      /\ plan[c].op # "writeFile"
  BY DEF AppendfileOpened, WriteOps, Callback
<1> QED BY <1>1, GoesOnToWrite

\* writefile_write_cb.
LEMMA WritefileWrittenTrue ==
    ASSUME IInv, IInv', TInv, NEW c \in Calls, WritefileWritten(c) PROVE TInv'
<1>1. Callback(c, WriteOps, "write")
  BY DEF WritefileWritten
<1>2. /\ Back(c) /\ plan[c].op \in WriteOps /\ at[c] = "write" /\ work \in [Calls -> Works]
      /\ FilesOK(c) /\ Truth(c)
  BY <1>1, BackTrue
<1>3. ASSUME req[c].ok, Continues(c, Close(work[c].fd), "close"), UNCHANGED work PROVE TInv'
  <2>1. work[c].fd \in Fds /\ Formed(Close(work[c].fd))
    BY <1>2, WorkFds, RequestsFormed DEF Telling
  <2>2. plan' = plan /\ content' = content /\ table' = table /\ UNCHANGED <<disturbed, cut>>
    BY <1>3 DEF Continues, kernelVars
  <2>3. ASSUME Queued(c)', ~Back(c)', at'[c] = "close" PROVE FilesOK(c)' /\ Truth(c)'
    <3>1. FilesOK(c)'
      BY <1>2, <2>2, <2>3 DEF FilesOK, WriteOps
    <3>2. Data(c)' = Data(c)
      BY DEF Data
    <3>3. Truth(c)'
      BY <1>2, <1>3, <2>2, <2>3, <3>2 DEF Truth, WriteTrue, AppendTrue, Arrived, Source, ReadOps, WriteOps
    <3> QED BY <3>1, <3>3
  <2>4. "close" \in Steps \ {Unasked, Answered} /\ work' \in [Calls -> Works]
        /\ \A o \in Calls \ {c} : work'[o] = work[o]
    BY <1>2, <1>3 DEF Steps, Unasked, Answered
  <2> QED BY <1>1, <1>3, <2>1, <2>3, <2>4, ContinuesTrue DEF WriteOps
<1> QED BY <1>1, <1>3, FailsTrue DEF WritefileWritten

LEMMA WritefileClosedTrue ==
    ASSUME IInv, IInv', TInv, NEW c \in Calls, WritefileClosed(c) PROVE TInv'
<1>1. Callback(c, WriteOps, "close") /\ Completes(c, <<>>) /\ <<>> \in Seq(Nat)
  BY DEF WritefileClosed
<1> QED BY <1>1, CompletesTrue

\* copyfile_open_src_cb.
LEMMA CopyfileOpenedSrcTrue ==
    ASSUME IInv, IInv', TInv, NEW c \in Calls, CopyfileOpenedSrc(c) PROVE TInv'
<1>1. Callback(c, {"copyFile"}, "open")
  BY DEF CopyfileOpenedSrc
<1>2. /\ Back(c) /\ plan[c].op = "copyFile" /\ at[c] = "open" /\ UnderWay(c) /\ CallOK(c)
      /\ req[c].n \in Nat /\ work \in [Calls -> Works]
      /\ Sized(c) /\ FilesOK(c) /\ Truth(c)
  BY <1>1, BackTrue
<1>3. ASSUME req[c].ok, work' = [work EXCEPT ![c].fd = req[c].n],
             Continues(c, OpenOf(plan[c].dest, {"write", "trunc"}), "openDest")
      PROVE  TInv'
  <2>1. IsOn(req[c].n, plan[c].path, ModeOf(c))
    BY <1>2, <1>3 DEF FilesOK, Arrived, Telling
  <2>2. PICK r : /\ r = OpenOf(plan[c].dest, {"write", "trunc"}) /\ Formed(r)
                 /\ r.file = plan[c].dest /\ r.mode = {"write", "trunc"}
    <3>1. plan[c].dest \in Files /\ {"write", "trunc"} \in Modes
      BY DEF IInv, Shapes, CallPlans, Modes
    <3> QED BY <3>1, OpenFormed
  <2>3. /\ work' \in [Calls -> Works] /\ work'[c].fd = req[c].n /\ \A o \in Calls \ {c} : work'[o] = work[o]
    BY <1>2, <1>3 DEF Works
  <2>4. plan' = plan /\ content' = content /\ table' = table /\ UNCHANGED <<disturbed, cut>>
    BY <1>3 DEF Continues, kernelVars
  <2>5. ASSUME Queued(c)', ~Back(c)', at'[c] = "openDest", req'[c] = r PROVE FilesOK(c)' /\ Truth(c)'
    <3>1. FilesOK(c)'
      BY <1>2, <2>1, <2>2, <2>3, <2>4, <2>5 DEF FilesOK, IsOn, ModeOf, Arrived
    <3>2. Truth(c)'
      BY <1>2, <2>4, <2>5 DEF Truth, CopyTrue, Arrived, ReadOps
    <3> QED BY <3>1, <3>2
  <2>6. "openDest" \in Steps \ {Unasked, Answered}
    BY DEF Steps, Unasked, Answered
  <2> QED BY <1>1, <1>3, <2>2, <2>3, <2>5, <2>6, ContinuesTrue
<1> QED BY <1>1, <1>3, FailsTrue DEF CopyfileOpenedSrc

\* copyfile_open_dest_cb.
LEMMA CopyfileOpenedDestTrue ==
    ASSUME IInv, IInv', TInv, NEW c \in Calls, CopyfileOpenedDest(c) PROVE TInv'
<1>1. Callback(c, {"copyFile"}, "openDest")
  BY DEF CopyfileOpenedDest
<1>2. /\ Back(c) /\ plan[c].op = "copyFile" /\ at[c] = "openDest"
      /\ req[c].n \in Nat /\ work \in [Calls -> Works]
      /\ FilesOK(c) /\ Truth(c)
  BY <1>1, BackTrue
<1>3. ASSUME req[c].ok, work' = [work EXCEPT ![c].dest = req[c].n], Continues(c, Fstat(work[c].fd), "fstat")
      PROVE  TInv'
  <2>1. /\ IsOn(req[c].n, plan[c].dest, {"write", "trunc"}) /\ IsOn(work[c].fd, plan[c].path, ModeOf(c))
    BY <1>2, <1>3 DEF FilesOK, Arrived, Telling
  <2>2. work[c].fd \in Fds /\ Formed(Fstat(work[c].fd))
    BY <1>2, WorkFds, RequestsFormed DEF Telling
  <2>3. /\ work' \in [Calls -> Works] /\ work'[c].dest = req[c].n /\ work'[c].fd = work[c].fd
        /\ \A o \in Calls \ {c} : work'[o] = work[o]
    BY <1>2, <1>3 DEF Works
  <2>4. plan' = plan /\ content' = content /\ table' = table /\ UNCHANGED <<disturbed, cut>>
    BY <1>3 DEF Continues, kernelVars
  <2>5. ASSUME Queued(c)', ~Back(c)', at'[c] = "fstat" PROVE FilesOK(c)' /\ Truth(c)'
    <3>1. FilesOK(c)'
      BY <1>2, <2>1, <2>3, <2>4, <2>5 DEF FilesOK, IsOn, ModeOf, Arrived
    <3>2. Truth(c)'
      BY <1>2, <1>3, <2>3, <2>4, <2>5 DEF Truth, CopyTrue, Arrived, Target, ReadOps
    <3> QED BY <3>1, <3>2
  <2>6. "fstat" \in Steps \ {Unasked, Answered}
    BY DEF Steps, Unasked, Answered
  <2> QED BY <1>1, <1>3, <2>2, <2>3, <2>5, <2>6, ContinuesTrue
<1> QED BY <1>1, <1>3, FailsTrue DEF CopyfileOpenedDest

\* copyfile_fstat_cb: nothing is copied yet.
LEMMA CopyfileStatedTrue ==
    ASSUME IInv, IInv', TInv, NEW c \in Calls, CopyfileStated(c) PROVE TInv'
<1>1. Callback(c, {"copyFile"}, "fstat")
  BY DEF CopyfileStated
<1>2. /\ Back(c) /\ plan[c].op = "copyFile" /\ at[c] = "fstat"
      /\ req[c].n \in Nat /\ work \in [Calls -> Works]
      /\ FilesOK(c) /\ Truth(c)
  BY <1>1, BackTrue
<1>3. ASSUME req[c].ok, work' = [work EXCEPT ![c].size = req[c].n, ![c].offset = 0],
             Continues(c, Read(work[c].fd, 0, ChunkSize), "read")
      PROVE  TInv'
  <2>1. work[c].fd \in Fds /\ Formed(Read(work[c].fd, 0, ChunkSize))
    BY <1>2, WorkFds, RequestsFormed, FilesAssumption DEF Telling
  <2>2. /\ work' \in [Calls -> Works] /\ work'[c].dest = work[c].dest /\ work'[c].fd = work[c].fd
        /\ work'[c].offset = 0
        /\ \A o \in Calls \ {c} : work'[o] = work[o]
    BY <1>2, <1>3 DEF Works
  <2>3. plan' = plan /\ content' = content /\ table' = table /\ UNCHANGED <<disturbed, cut>>
    BY <1>3 DEF Continues, kernelVars
  <2>4. ASSUME Queued(c)', ~Back(c)', at'[c] = "read", req'[c] = Read(work[c].fd, 0, ChunkSize)
        PROVE  FilesOK(c)' /\ Truth(c)'
    <3>1. FilesOK(c)'
      BY <1>2, <2>2, <2>3, <2>4 DEF FilesOK, IsOn, ModeOf, Arrived, Telling
    <3>2. req'[c].pos = 0 /\ req'[c].n = ChunkSize
      BY <2>4 DEF Read, On
    <3>3. ASSUME Target(c) = <<>> PROVE Copied(c, 0)
      <4>1. Source(c) \in Seq(Nat)
        BY DEF Source, TInv, TypeOK, IInv, Shapes, CallPlans
      <4>2. Len(Source(c)) \in Nat /\ Len(Target(c)) = 0
        BY <3>3, <4>1, LenProperties
      <4> QED BY <4>2 DEF Copied
    <3>4. Target(c) = <<>> => Copied(c, 0)'
      BY <2>3, <3>3 DEF Copied, Target, Source
    <3>5. Truth(c)'
      BY <1>2, <2>2, <2>3, <2>4, <3>2, <3>4 DEF Truth, CopyTrue, Arrived, ReadOps
    <3> QED BY <3>1, <3>5
  <2>5. "read" \in Steps \ {Unasked, Answered}
    BY DEF Steps, Unasked, Answered
  <2> QED BY <1>1, <1>3, <2>1, <2>2, <2>4, <2>5, ContinuesTrue
<1> QED BY <1>1, <1>3, FailsTrue DEF CopyfileStated

\* copyfile_read_cb: what was read goes on from what has been copied.
LEMMA CopyfileReadTrue ==
    ASSUME IInv, IInv', TInv, NEW c \in Calls, CopyfileRead(c) PROVE TInv'
<1>1. Callback(c, {"copyFile"}, "read")
  BY DEF CopyfileRead
<1>2. /\ Back(c) /\ plan[c].op = "copyFile" /\ at[c] = "read" /\ UnderWay(c) /\ CallOK(c)
      /\ req[c].n \in Nat /\ req[c].buf \in Seq(Nat) /\ work \in [Calls -> Works] /\ work[c].offset \in Nat
      /\ Sized(c) /\ FilesOK(c) /\ Truth(c)
  BY <1>1, BackTrue DEF Works
<1>3. work[c].fd \in Fds /\ work[c].dest \in Fds
  BY <1>2, WorkFds DEF Telling
<1>4. Source(c) \in Seq(Nat) /\ Target(c) \in Seq(Nat)
  BY DEF Source, Target, TInv, TypeOK, IInv, Shapes, CallPlans
<1>5. ASSUME req[c].ok, req[c].n = 0, Continues(c, Close(work[c].dest), "closeDest"), UNCHANGED work
      PROVE  TInv'
  <2>1. Formed(Close(work[c].dest))
    BY <1>3, RequestsFormed
  <2>2. plan' = plan /\ content' = content /\ table' = table /\ UNCHANGED <<disturbed, cut>>
    BY <1>5 DEF Continues, kernelVars
  <2>3. ASSUME Queued(c)', ~Back(c)', at'[c] = "closeDest" PROVE FilesOK(c)' /\ Truth(c)'
    <3>1. FilesOK(c)'
      BY <1>2, <2>2, <2>3 DEF FilesOK, Arrived
    <3>2. ASSUME Copied(c, Len(Source(c))) PROVE Target(c) = Source(c)
      <4>1. DOMAIN Target(c) = 1 .. Len(Target(c)) /\ DOMAIN Source(c) = 1 .. Len(Source(c))
        BY <1>4, LenProperties
      <4> QED BY <1>4, <3>2, <4>1, SeqEqual DEF Copied
    <3>3. Truth(c)'
      BY <1>2, <1>5, <2>2, <2>3, <3>2 DEF Truth, CopyTrue, Arrived, Source, Target, ReadOps
    <3> QED BY <3>1, <3>3
  <2>4. "closeDest" \in Steps \ {Unasked, Answered} /\ work' \in [Calls -> Works]
        /\ \A o \in Calls \ {c} : work'[o] = work[o]
    BY <1>2, <1>5 DEF Steps, Unasked, Answered
  <2> QED BY <1>1, <1>5, <2>1, <2>3, <2>4, ContinuesTrue
<1>6. ASSUME req[c].ok, req[c].n > 0, work' = [work EXCEPT ![c].offset = @ + req[c].n],
             Continues(c, Write(work[c].dest, Current, req[c].buf), "write")
      PROVE  TInv'
  <2>1. Formed(Write(work[c].dest, Current, req[c].buf)) /\ req[c].n = Len(req[c].buf)
    BY <1>2, <1>3, <1>6, RequestsFormed DEF CallOK, StepOK, Sized, Arrived
  <2>2. /\ work' \in [Calls -> Works] /\ work'[c].dest = work[c].dest /\ work'[c].fd = work[c].fd
        /\ work'[c].offset = work[c].offset + req[c].n
        /\ \A o \in Calls \ {c} : work'[o] = work[o]
    <3>1. PICK m \in Nat : m = work[c].offset + req[c].n
      BY <1>2
    <3>2. work' = [work EXCEPT ![c].offset = m]
      BY <1>2, <1>6, <3>1
    <3> QED BY <1>2, <3>1, <3>2 DEF Works
  <2>3. plan' = plan /\ content' = content /\ table' = table /\ UNCHANGED <<disturbed, cut>>
    BY <1>6 DEF Continues, kernelVars
  <2>4. ASSUME Queued(c)', ~Back(c)', at'[c] = "write", req'[c] = Write(work[c].dest, Current, req[c].buf)
        PROVE  FilesOK(c)' /\ Truth(c)'
    <3>1. FilesOK(c)'
      BY <1>2, <2>2, <2>3, <2>4 DEF FilesOK, IsOn, ModeOf, Arrived, Telling
    <3>2. req'[c].pos = Current /\ req'[c].n = Len(req[c].buf) /\ req'[c].buf = req[c].buf
      BY <2>4 DEF Write, On
    <3>3. \A k : (Copied(c, k)' <=> Copied(c, k)) /\ (Buffered(c, k)' <=> Buffered(c, k))
      BY <2>3, <3>2 DEF Copied, Buffered, Target, Source
    <3>4. Truth(c)'
      BY <1>2, <1>6, <2>1, <2>2, <2>3, <2>4, <3>2, <3>3 DEF Truth, CopyTrue, Arrived, ReadOps
    <3> QED BY <3>1, <3>4
  <2>5. "write" \in Steps \ {Unasked, Answered}
    BY DEF Steps, Unasked, Answered
  <2> QED BY <1>1, <1>6, <2>1, <2>2, <2>4, <2>5, ContinuesTrue
<1> QED BY <1>1, <1>5, <1>6, FailsTrue DEF CopyfileRead

\* copyfile_write_cb.
LEMMA CopyfileWrittenTrue ==
    ASSUME IInv, IInv', TInv, NEW c \in Calls, CopyfileWritten(c) PROVE TInv'
<1>1. Callback(c, {"copyFile"}, "write")
  BY DEF CopyfileWritten
<1>2. /\ Back(c) /\ plan[c].op = "copyFile" /\ at[c] = "write"
      /\ work \in [Calls -> Works] /\ work[c].offset \in Nat
      /\ FilesOK(c) /\ Truth(c)
  BY <1>1, BackTrue DEF Works
<1>3. ASSUME req[c].ok, Continues(c, Read(work[c].fd, work[c].offset, ChunkSize), "read"), UNCHANGED work
      PROVE  TInv'
  <2>1. Formed(Read(work[c].fd, work[c].offset, ChunkSize))
    BY <1>2, WorkFds, RequestsFormed, FilesAssumption DEF Telling
  <2>2. plan' = plan /\ content' = content /\ table' = table /\ UNCHANGED <<disturbed, cut>>
    BY <1>3 DEF Continues, kernelVars
  <2>3. ASSUME Queued(c)', ~Back(c)', at'[c] = "read", req'[c] = Read(work[c].fd, work[c].offset, ChunkSize)
        PROVE  FilesOK(c)' /\ Truth(c)'
    <3>1. FilesOK(c)'
      BY <1>2, <1>3, <2>2, <2>3 DEF FilesOK, IsOn, ModeOf, Arrived, Telling
    <3>2. req'[c].pos = work[c].offset /\ req'[c].n = ChunkSize
      BY <2>3 DEF Read, On
    <3>3. \A k : Copied(c, k)' <=> Copied(c, k)
      BY <2>2 DEF Copied, Target, Source
    <3>4. Truth(c)'
      BY <1>2, <1>3, <2>2, <2>3, <3>2, <3>3 DEF Truth, CopyTrue, Arrived, ReadOps
    <3> QED BY <3>1, <3>4
  <2>4. "read" \in Steps \ {Unasked, Answered} /\ work' \in [Calls -> Works]
        /\ \A o \in Calls \ {c} : work'[o] = work[o]
    BY <1>2, <1>3 DEF Steps, Unasked, Answered
  <2> QED BY <1>1, <1>3, <2>1, <2>3, <2>4, ContinuesTrue
<1> QED BY <1>1, <1>3, FailsTrue DEF CopyfileWritten

\* copyfile_close_dest_cb.
LEMMA CopyfileClosedDestTrue ==
    ASSUME IInv, IInv', TInv, NEW c \in Calls, CopyfileClosedDest(c) PROVE TInv'
<1>1. Callback(c, {"copyFile"}, "closeDest") /\ Continues(c, Close(work[c].fd), "close") /\ UNCHANGED work
  BY DEF CopyfileClosedDest
<1>2. /\ Back(c) /\ plan[c].op = "copyFile" /\ at[c] = "closeDest" /\ work \in [Calls -> Works] /\ Truth(c)
  BY <1>1, BackTrue
<1>3. Formed(Close(work[c].fd))
  BY <1>2, WorkFds, RequestsFormed DEF Telling
<1>4. plan' = plan /\ content' = content /\ UNCHANGED <<disturbed, cut>>
  BY <1>1 DEF Continues, kernelVars
<1>5. ASSUME Queued(c)', ~Back(c)', at'[c] = "close" PROVE FilesOK(c)' /\ Truth(c)'
  <2>1. FilesOK(c)'
    BY <1>2, <1>4, <1>5 DEF FilesOK, Arrived
  <2>2. Truth(c)'
    BY <1>2, <1>4, <1>5 DEF Truth, CopyTrue, Arrived, Source, Target, ReadOps
  <2> QED BY <2>1, <2>2
<1>6. "close" \in Steps \ {Unasked, Answered} /\ work' \in [Calls -> Works]
      /\ \A o \in Calls \ {c} : work'[o] = work[o]
  BY <1>1, <1>2 DEF Steps, Unasked, Answered
<1> QED BY <1>1, <1>3, <1>5, <1>6, ContinuesTrue

\* copyfile_cleanup, and the callback of ftruncate().
LEMMA CopyfileCleanupTrue ==
    ASSUME IInv, IInv', TInv, NEW c \in Calls, CopyfileCleanup(c) PROVE TInv'
<1>1. Callback(c, {"copyFile"}, "close") /\ Completes(c, <<>>) /\ <<>> \in Seq(Nat)
  BY DEF CopyfileCleanup
<1> QED BY <1>1, CompletesTrue

LEMMA TruncateCompletedTrue ==
    ASSUME IInv, IInv', TInv, NEW c \in Calls, TruncateCompleted(c) PROVE TInv'
<1>1. Callback(c, {"truncate"}, "ftruncate") /\ <<>> \in Seq(Nat)
  BY DEF TruncateCompleted
<1> QED BY <1>1, FailsTrue, CompletesTrue DEF TruncateCompleted

-----------------------------------------------------------------------------
(* FileHandles.                                                            *)

LEMMA HandleReadfileStatedTrue ==
    ASSUME IInv, IInv', TInv, NEW c \in Calls, HandleReadfileStated(c) PROVE TInv'
<1>1. Callback(c, {"handle.readFile"}, "fstat") /\ <<>> \in Seq(Nat)
  BY DEF HandleReadfileStated
<1>2. /\ plan[c].op = "handle.readFile" /\ UnderWay(c) /\ Sized(c)
      /\ req[c].n \in Nat /\ work \in [Calls -> Works]
  BY <1>1, BackTrue
<1>3. ASSUME work' = [work EXCEPT ![c].size = req[c].n], Continues(c, Read(work[c].fd, 0, req[c].n), "read")
      PROVE  TInv'
  <2>1. Formed(Read(work[c].fd, 0, req[c].n))
    BY <1>2, RequestsFormed DEF Sized
  <2>2. /\ work' \in [Calls -> Works] /\ work'[c].fd = work[c].fd /\ \A o \in Calls \ {c} : work'[o] = work[o]
    BY <1>2, <1>3 DEF Works
  <2>3. FilesOK(c)' /\ Truth(c)'
    BY <1>2, <1>3 DEF Continues, FilesOK, Truth, Telling, ReadOps, WriteOps
  <2>4. "read" \in Steps \ {Unasked, Answered}
    BY DEF Steps, Unasked, Answered
  <2> QED BY <1>1, <1>3, <2>1, <2>2, <2>3, <2>4, ContinuesTrue
<1> QED BY <1>1, <1>3, FailsTrue, CompletesTrue DEF HandleReadfileStated

\* The buffer is given as long as it was made.
LEMMA HandleReadfileReadTrue ==
    ASSUME IInv, IInv', TInv, NEW c \in Calls, HandleReadfileRead(c) PROVE TInv'
<1>1. Callback(c, {"handle.readFile"}, "read")
  BY DEF HandleReadfileRead
<1>2. /\ Back(c) /\ UnderWay(c) /\ Sized(c) /\ CallOK(c) /\ at[c] = "read" /\ plan[c].op = "handle.readFile"
      /\ req[c].n \in Nat /\ req[c].buf \in Seq(Nat) /\ work[c].size \in Nat
  BY <1>1, BackTrue DEF Works
<1>3. ASSUME req[c].ok
      PROVE  [i \in 1..work[c].size |-> IF i <= req[c].n THEN req[c].buf[i] ELSE Garbage] \in Seq(Nat)
  <2>1. req[c].n = Len(req[c].buf)
    BY <1>2, <1>3 DEF CallOK, StepOK, Sized, Arrived
  <2>2. \A i \in 1..work[c].size : (IF i <= req[c].n THEN req[c].buf[i] ELSE Garbage) \in Nat
    <3>1. ASSUME NEW i \in 1..work[c].size, i <= req[c].n PROVE req[c].buf[i] \in Nat
      <4>1. i \in 1 .. Len(req[c].buf)
        BY <1>2, <2>1, <3>1
      <4> QED BY <1>2, <4>1, ElementOfSeq
    <3> QED BY <3>1 DEF Garbage
  <2> QED BY <1>2, <2>2, IsASeq
<1> QED BY <1>1, <1>3, FailsTrue, CompletesTrue DEF HandleReadfileRead

\* filehandle_read_cb, filehandle_write_cb, filehandle_close_cb.
LEMMA HandleCompletedTrue ==
    ASSUME IInv, IInv', TInv, NEW c \in Calls, HandleCompleted(c) PROVE TInv'
<1>1. ASSUME NEW op, NEW step, Callback(c, {op}, step) PROVE TInv'
  <2>1. req[c].buf \in Seq(Nat)
    BY <1>1, BackTrue
  <2> QED BY <1>1, <2>1, FailsTrue, CompletesTrue DEF HandleCompleted
<1> QED BY <1>1 DEF HandleCompleted

LEMMA HandleClosedTrue ==
    ASSUME IInv, IInv', TInv, NEW c \in Calls, HandleClosed(c) PROVE TInv'
<1>1. Callback(c, {"handle.close"}, "close") /\ <<>> \in Seq(Nat)
  BY DEF HandleClosed
<1> QED BY <1>1, FailsTrue, CompletesTrue DEF HandleClosed

\* fs_promise_complete_fd: there is one more FileHandle.
LEMMA OpenCompletedTrue ==
    ASSUME IInv, IInv', TInv, NEW c \in Calls, OpenCompleted(c) PROVE TInv'
<1>1. Callback(c, {"open"}, "open")
  BY DEF OpenCompleted
<1>2. req[c].n \in Nat /\ Moves(c)
  BY <1>1, BackTrue, BackFacts
<1>3. ASSUME handle' = [handle EXCEPT ![c] = [state |-> "open", fd |-> req[c].n]], Answer(c, TRUE, <<>>),
             UNCHANGED <<plan, queue, kernelVars, faults>>
      PROVE  TInv'
  <2>1. UNCHANGED <<plan, queue, content, disturbed, cut, table, strays, faults>>
    BY <1>3 DEF kernelVars
  <2>2. /\ handle' \in [Calls -> Handles] /\ \A o \in Calls \ {c} : handle'[o] = handle[o]
        /\ table' \in [Fds -> Descriptions \cup {Free}] /\ \A d \in Fds : table'[d] \in {Free, table[d]}
        /\ faults' \in 0..MaxFaults
    BY <1>2, <1>3, <2>1 DEF TInv, TypeOK, Handles
  <2>3. <<>> \in Seq(Nat) /\ TRUE \in BOOLEAN
    OBVIOUS
  <2> QED BY <1>2, <1>3, <2>1, <2>2, <2>3, AnswersTrue
<1> QED BY <1>1, <1>3, FailsTrue DEF OpenCompleted

\* The collector closes the descriptor of a FileHandle.
LEMMA FinalizeTrue ==
    ASSUME IInv, IInv', TInv, NEW h \in Calls, Finalize(h) PROVE TInv'
<1>1. PICK ds : CloseNow(h, ds)
  BY DEF Finalize
<1>2. /\ handle' = [handle EXCEPT ![h].state = "dropped"]
      /\ UNCHANGED <<plan, at, work, req, queue, done, content, disturbed, cut, faults, answer>>
  BY DEF Finalize, poolVars
<1>3. Others(h)
  BY <1>2 DEF Others, Queued, Back
<1>4. /\ table' \in [Fds -> Descriptions \cup {Free}] /\ \A d \in Fds : table'[d] \in {Free, table[d]}
  BY <1>1 DEF CloseNow, TInv, TypeOK
<1>5. TypeOK'
  <2>1. strays' \subseteq (Calls \X {"fstat", "read", "write", "ftruncate", "close"})
    BY <1>1 DEF CloseNow, Strays, TInv, TypeOK
  <2>2. handle' \in [Calls -> Handles]
    BY <1>2 DEF TInv, TypeOK, Handles
  <2> QED BY <1>2, <1>4, <2>1, <2>2 DEF TInv, TypeOK
<1>6. ASSUME NEW o \in Calls, o # h PROVE Unseen(o)
  <2>1. \A d : Keeps(o, d) => table'[d] = table[d]
    BY <1>2, <1>3, <1>4, <1>6, OnlyOwnClosed
  <2> QED BY <1>2, <2>1 DEF Unseen, Source, Target
<1>7. Sized(h)' /\ FilesOK(h)' /\ Truth(h)'
  <2>1. plan[h].op \notin Telling
    BY DEF Finalize, IInv, CallOK, HandleOK, Telling, ReadOps, WriteOps
  <2>2. FilesOK(h)' /\ Truth(h)'
    BY <1>2, <2>1 DEF FilesOK, Truth, Telling, ReadOps, WriteOps
  <2>3. Sized(h)'
    BY <1>2 DEF TInv, Sized, UnderWay, Arrived, Back, Formed
  <2> QED BY <2>2, <2>3
<1> QED BY <1>2, <1>3, <1>5, <1>6, <1>7, TrueStep

\* truncate() closes the descriptor that its ftruncate() may yet act on.
LEMMA TruncateClosesTrue ==
    ASSUME IInv, IInv', TInv, NEW c \in Calls, TruncateCloses(c) PROVE TInv'
<1>1. /\ plan[c].op = "truncate" /\ work' = [work EXCEPT ![c].fd = 0] /\ CloseNow(c, {work[c].fd})
      /\ UNCHANGED <<plan, at, handle, req, queue, done, content, disturbed, cut, faults, answer>>
  BY DEF TruncateCloses, Truncating, poolVars
<1>2. work' \in [Calls -> Works] /\ \A o \in Calls \ {c} : work'[o] = work[o]
  BY <1>1 DEF TInv, TypeOK, Works
<1>3. Others(c)
  BY <1>1, <1>2 DEF Others, Queued, Back
<1>4. /\ table' \in [Fds -> Descriptions \cup {Free}] /\ \A d \in Fds : table'[d] \in {Free, table[d]}
  BY <1>1 DEF CloseNow, TInv, TypeOK
<1>5. TypeOK'
  <2>1. strays' \subseteq (Calls \X {"fstat", "read", "write", "ftruncate", "close"})
    BY <1>1 DEF CloseNow, Strays, TInv, TypeOK
  <2> QED BY <1>1, <1>2, <1>4, <2>1 DEF TInv, TypeOK
<1>6. ASSUME NEW o \in Calls, o # c PROVE Unseen(o)
  <2>1. \A d : Keeps(o, d) => table'[d] = table[d]
    BY <1>1, <1>3, <1>4, <1>6, OnlyOwnClosed
  <2> QED BY <1>1, <2>1 DEF Unseen, Source, Target
<1>7. FilesOK(c)' /\ Truth(c)'
  BY <1>1 DEF FilesOK, Truth, Telling, ReadOps, WriteOps
<1>8. Sized(c)'
  BY <1>1 DEF TInv, Sized, UnderWay, Arrived, Back, Formed
<1> QED BY <1>1, <1>3, <1>5, <1>6, <1>7, <1>8, TrueStep

-----------------------------------------------------------------------------
(* What scripts call.                                                      *)

\* A call's first request.
LEMMA StartsTrue ==
    ASSUME IInv, IInv', TInv, NEW c \in Calls, NEW ops, Called(c, ops), NEW r, NEW step, Ask(c, r, step),
           Formed(r), step \in Steps \ {Unasked, Answered},
           UNCHANGED <<plan, done, kernelVars, faults, answer>>, handle' \in [Calls -> Handles],
           \A o \in Calls \ {c} : work'[o] = work[o], work' \in [Calls -> Works],
           plan[c].op = "handle.readFile" => work'[c].fd \in Fds,
           plan[c].op \in Telling /\ Queued(c)' /\ ~Back(c)' /\ at'[c] = step /\ req'[c] = r
               => FilesOK(c)' /\ Truth(c)'
    PROVE  TInv'
<1>1. Moves(c)
  BY StartFacts
<1>2. UNCHANGED <<plan, content, disturbed, cut, strays, faults, answer, table>>
  BY DEF kernelVars
<1>3. /\ table' \in [Fds -> Descriptions \cup {Free}]
      /\ \A d \in Fds : table[d].of # 0 => table'[d] = table[d]
  BY <1>2 DEF TInv, TypeOK
<1>4. ASSUME plan[c].op \notin Telling PROVE FilesOK(c)' /\ Truth(c)'
  BY <1>2, <1>4 DEF FilesOK, Truth, Telling, ReadOps, WriteOps
<1> QED BY <1>1, <1>2, <1>3, <1>4, AsksTrue

\* That request is for the file.
LEMMA OpensTrue ==
    ASSUME IInv, IInv', TInv, NEW c \in Calls, NEW ops, Called(c, ops), NEW m \in Modes,
           Ask(c, OpenOf(plan[c].path, m), "open"), Asked, plan[c].op \in Telling => m = ModeOf(c),
           plan[c].op # "handle.readFile"
    PROVE  TInv'
<1>1. PICK r : /\ r = OpenOf(plan[c].path, m) /\ Formed(r) /\ r.file = plan[c].path /\ r.mode = m
  <2>1. plan[c].path \in Files
    BY DEF IInv, Shapes, CallPlans
  <2> QED BY <2>1, OpenFormed
<1>2. UNCHANGED <<plan, done, kernelVars, faults, answer>> /\ work' = work /\ handle' = handle
  BY DEF Asked
<1>3. /\ handle' \in [Calls -> Handles] /\ work' \in [Calls -> Works] /\ \A o \in Calls \ {c} : work'[o] = work[o]
      /\ Truth(c) /\ at[c] = Unasked
  BY <1>2, StartFacts DEF TInv, TypeOK
<1>4. ASSUME plan[c].op \in Telling, Queued(c)', ~Back(c)', at'[c] = "open", req'[c] = r
      PROVE  FilesOK(c)' /\ Truth(c)'
  <2>1. plan' = plan /\ content' = content /\ disturbed' = disturbed /\ cut' = cut
    BY <1>2 DEF kernelVars
  <2>2. FilesOK(c)'
    BY <1>1, <1>4, <2>1 DEF FilesOK, ModeOf, Arrived
  <2>3. Truth(c)'
    BY <1>2, <1>3, <1>4, <2>1 DEF Truth, ReadTrue, WriteTrue, AppendTrue, CopyTrue, Arrived
  <2> QED BY <2>2, <2>3
<1>5. "open" \in Steps \ {Unasked, Answered}
  BY DEF Steps, Unasked, Answered
<1> QED BY <1>1, <1>2, <1>3, <1>4, <1>5, StartsTrue

LEMMA FileCallsTrue ==
    ASSUME IInv, IInv', TInv, NEW c \in Calls,
           ReadFile(c) \/ WriteFile(c) \/ AppendFile(c) \/ CopyFile(c) \/ Open(c)
    PROVE  TInv'
<1>1. \A m : m \subseteq {"read", "write", "append", "trunc"} => m \in Modes
  BY DEF Modes
<1>2. CASE ReadFile(c)
  <2>1. Called(c, ReadOps) /\ Ask(c, OpenOf(plan[c].path, {"read"}), "open") /\ Asked
    BY <1>2 DEF ReadFile
  <2>2. {"read"} \in Modes /\ ModeOf(c) = {"read"} /\ plan[c].op # "handle.readFile"
    BY <1>1, <2>1 DEF ModeOf, Called, ReadOps
  <2> QED BY <2>1, <2>2, OpensTrue
<1>3. CASE WriteFile(c)
  <2>1. Called(c, {"writeFile"}) /\ Ask(c, OpenOf(plan[c].path, {"write", "trunc"}), "open") /\ Asked
    BY <1>3 DEF WriteFile
  <2>2. {"write", "trunc"} \in Modes /\ ModeOf(c) = {"write", "trunc"} /\ plan[c].op # "handle.readFile"
    BY <1>1, <2>1 DEF ModeOf, Called
  <2> QED BY <2>1, <2>2, OpensTrue
<1>4. CASE AppendFile(c)
  <2>1. Called(c, {"appendFile"}) /\ Ask(c, OpenOf(plan[c].path, {"write", "append"}), "open") /\ Asked
    BY <1>4 DEF AppendFile
  <2>2. {"write", "append"} \in Modes /\ ModeOf(c) = {"write", "append"} /\ plan[c].op # "handle.readFile"
    BY <1>1, <2>1 DEF ModeOf, Called
  <2> QED BY <2>1, <2>2, OpensTrue
<1>5. CASE CopyFile(c)
  <2>1. Called(c, {"copyFile"}) /\ Ask(c, OpenOf(plan[c].path, {"read"}), "open") /\ Asked
    BY <1>5 DEF CopyFile
  <2>2. {"read"} \in Modes /\ ModeOf(c) = {"read"} /\ plan[c].op # "handle.readFile"
    BY <1>1, <2>1 DEF ModeOf, Called
  <2> QED BY <2>1, <2>2, OpensTrue
<1>6. CASE Open(c)
  <2>1. Called(c, {"open"}) /\ Ask(c, OpenOf(plan[c].path, plan[c].mode), "open") /\ Asked
    BY <1>6 DEF Open
  <2>2. plan[c].mode \in Modes /\ plan[c].op \notin Telling /\ plan[c].op # "handle.readFile"
    BY <2>1 DEF Called, Telling, ReadOps, WriteOps, IInv, Shapes, CallPlans
  <2> QED BY <2>1, <2>2, OpensTrue
<1> QED BY <1>2, <1>3, <1>4, <1>5, <1>6

\* The methods of a FileHandle find its descriptor open.
LEMMA HandleFd ==
    ASSUME IInv, NEW h \in Calls, handle[h].state = "open" PROVE handle[h].fd \in Fds
<1>1. Keeps(h, handle[h].fd)
  BY DEF Keeps
<1> QED BY <1>1 DEF IInv, Kept

LEMMA MethodsTrue ==
    ASSUME IInv, IInv', TInv, NEW c \in Calls, HandleRead(c) \/ HandleWrite(c) \/ HandleReadFile(c)
    PROVE  TInv'
<1>1. plan[c].handle \in Calls /\ plan[c].from \in Nat \cup {Current}
  BY DEF IInv, Shapes, CallPlans, Current
<1>2. ASSUME NEW op, Method(c, op) PROVE Called(c, {op}) /\ FdOf(c) \in Fds /\ plan[c].op = op
  BY <1>1, <1>2, HandleFd DEF Method, FdOf, Called
<1>3. /\ "read" \in Steps \ {Unasked, Answered} /\ "write" \in Steps \ {Unasked, Answered}
      /\ "fstat" \in Steps \ {Unasked, Answered}
  BY DEF Steps, Unasked, Answered
<1>4. handle \in [Calls -> Handles] /\ work \in [Calls -> Works]
  BY DEF TInv, TypeOK
<1>5. CASE HandleRead(c)
  <2>1. Method(c, "handle.read") /\ Ask(c, Read(FdOf(c), plan[c].from, Len(Data(c))), "read") /\ Asked
    BY <1>5 DEF HandleRead
  <2>2. Called(c, {"handle.read"}) /\ plan[c].op = "handle.read" /\ Formed(Read(FdOf(c), plan[c].from, Len(Data(c))))
    BY <1>1, <1>2, <2>1, RequestsFormed, DataIs
  <2>3. UNCHANGED <<plan, done, kernelVars, faults, answer>> /\ work' = work /\ handle' = handle
    BY <2>1 DEF Asked
  <2>4. plan[c].op \notin Telling /\ plan[c].op # "handle.readFile"
    BY <2>2 DEF Telling, ReadOps, WriteOps
  <2> QED BY <1>3, <1>4, <2>1, <2>2, <2>3, <2>4, StartsTrue
<1>6. CASE HandleWrite(c)
  <2>1. Method(c, "handle.write") /\ Ask(c, Write(FdOf(c), plan[c].from, Data(c)), "write") /\ Asked
    BY <1>6 DEF HandleWrite
  <2>2. Called(c, {"handle.write"}) /\ plan[c].op = "handle.write" /\ Formed(Write(FdOf(c), plan[c].from, Data(c)))
    BY <1>1, <1>2, <2>1, RequestsFormed, DataIs
  <2>3. UNCHANGED <<plan, done, kernelVars, faults, answer>> /\ work' = work /\ handle' = handle
    BY <2>1 DEF Asked
  <2>4. plan[c].op \notin Telling /\ plan[c].op # "handle.readFile"
    BY <2>2 DEF Telling, ReadOps, WriteOps
  <2> QED BY <1>3, <1>4, <2>1, <2>2, <2>3, <2>4, StartsTrue
<1>7. CASE HandleReadFile(c)
  <2>1. /\ Method(c, "handle.readFile") /\ work' = [work EXCEPT ![c].fd = FdOf(c)]
        /\ Ask(c, Fstat(FdOf(c)), "fstat") /\ UNCHANGED <<plan, handle, done, kernelVars, faults, answer>>
    BY <1>7 DEF HandleReadFile
  <2>2. /\ Called(c, {"handle.readFile"}) /\ plan[c].op = "handle.readFile" /\ Formed(Fstat(FdOf(c)))
        /\ FdOf(c) \in Fds /\ FdOf(c) \in Nat
    BY <1>1, <1>2, <2>1, RequestsFormed DEF IInv, Shapes
  <2>3. /\ work' \in [Calls -> Works] /\ work'[c].fd = FdOf(c) /\ \A o \in Calls \ {c} : work'[o] = work[o]
    BY <1>4, <2>1, <2>2 DEF Works
  <2>4. plan[c].op \notin Telling
    BY <2>2 DEF Telling, ReadOps, WriteOps
  <2> QED BY <1>3, <1>4, <2>1, <2>2, <2>3, <2>4, StartsTrue
<1> QED BY <1>5, <1>6, <1>7

\* close() marks the handle, and asks for the descriptor to be closed; or does nothing.
LEMMA HandleCloseTrue ==
    ASSUME IInv, IInv', TInv, NEW c \in Calls, HandleClose(c) PROVE TInv'
<1>1. PICK h \in Calls : h = plan[c].handle
  BY DEF IInv, Shapes, CallPlans
<1>2. Called(c, {"handle.close"}) /\ plan[c].op = "handle.close" /\ plan[c].op \notin Telling
  BY DEF HandleClose, Called, Telling, ReadOps, WriteOps
<1>3. handle \in [Calls -> Handles] /\ work \in [Calls -> Works]
  BY DEF TInv, TypeOK
<1>4. ASSUME handle[h].state = "open", handle' = [handle EXCEPT ![h].state = "closed"],
             Ask(c, Close(handle[h].fd), "close"), UNCHANGED <<plan, work, done, kernelVars, faults, answer>>
      PROVE  TInv'
  <2>1. Formed(Close(handle[h].fd))
    BY <1>4, HandleFd, RequestsFormed
  <2>2. handle' \in [Calls -> Handles]
    BY <1>3, <1>4 DEF Handles
  <2>3. "close" \in Steps \ {Unasked, Answered}
    BY DEF Steps, Unasked, Answered
  <2> QED BY <1>2, <1>3, <1>4, <2>1, <2>2, <2>3, StartsTrue
<1>5. ASSUME Answer(c, TRUE, <<>>), UNCHANGED <<plan, handle, queue, done, kernelVars, faults>>
      PROVE  TInv'
  <2>1. Moves(c)
    BY <1>2, <1>5, StartFacts
  <2>2. /\ UNCHANGED <<plan, queue, content, disturbed, cut, table, strays, faults>>
        /\ handle' \in [Calls -> Handles] /\ \A o \in Calls \ {c} : handle'[o] = handle[o]
        /\ table' \in [Fds -> Descriptions \cup {Free}] /\ \A d \in Fds : table'[d] \in {Free, table[d]}
        /\ faults' \in 0..MaxFaults
    BY <1>5 DEF kernelVars, TInv, TypeOK
  <2>3. <<>> \in Seq(Nat) /\ TRUE \in BOOLEAN
    OBVIOUS
  <2> QED BY <1>5, <2>1, <2>2, <2>3, AnswersTrue
<1> QED BY <1>1, <1>4, <1>5 DEF HandleClose

LEMMA TruncateFailsTrue ==
    ASSUME IInv, IInv', TInv, NEW c \in Calls, TruncateFails(c) PROVE TInv'
<1>1. /\ Called(c, {"truncate"}) /\ Answer(c, FALSE, <<>>) /\ UNCHANGED <<plan, handle, queue, done, kernelVars>>
  BY DEF TruncateFails
<1>2. Moves(c)
  BY <1>1, StartFacts
<1>3. faults' \in 0..MaxFaults
  BY FilesAssumption DEF TruncateFails, TInv, TypeOK
<1>4. /\ UNCHANGED <<plan, queue, content, disturbed, cut, table, strays>>
      /\ handle' \in [Calls -> Handles] /\ \A o \in Calls \ {c} : handle'[o] = handle[o]
      /\ table' \in [Fds -> Descriptions \cup {Free}] /\ \A d \in Fds : table'[d] \in {Free, table[d]}
  BY <1>1 DEF kernelVars, TInv, TypeOK
<1>5. <<>> \in Seq(Nat) /\ FALSE \in BOOLEAN
  OBVIOUS
<1> QED BY <1>1, <1>2, <1>3, <1>4, <1>5, AnswersTrue

LEMMA TruncateTrue ==
    ASSUME IInv, IInv', TInv, NEW c \in Calls, Truncate(c) PROVE TInv'
<1> DEFINE free == {y \in Fds : table[y] = Free}
<1>1. PICK d : d = CHOOSE x \in free : \A y \in free : x <= y
  OBVIOUS
<1>2. /\ Called(c, {"truncate"}) /\ free # {}
      /\ table' = [table EXCEPT ![d] = [of |-> c, file |-> plan[c].path, mode |-> {"write"}, pos |-> 0]]
      /\ work' = [work EXCEPT ![c].fd = d]
      /\ Ask(c, On("ftruncate", d, 0, 0, <<>>), "ftruncate")
      /\ UNCHANGED <<plan, handle, done, content, strays, disturbed, cut, faults, answer>>
  BY <1>1 DEF Truncate
<1>3. d \in Fds /\ table[d].of = 0 /\ d \in Nat
  <2>1. \E x \in Fds : table[x] = Free
    BY <1>2
  <2> QED BY <1>1, <2>1, LowestFree DEF IInv, Shapes
<1> HIDE DEF free
<1>4. plan[c].op = "truncate" /\ Moves(c)
  BY <1>2, StartFacts
<1>5. /\ work' \in [Calls -> Works] /\ \A o \in Calls \ {c} : work'[o] = work[o]
  BY <1>2, <1>3 DEF TInv, TypeOK, Works
<1>6. /\ table' \in [Fds -> Descriptions \cup {Free}] /\ \A x \in Fds : table[x].of # 0 => table'[x] = table[x]
  <2>1. [of |-> c, file |-> plan[c].path, mode |-> {"write"}, pos |-> 0] \in Descriptions
    BY DEF Descriptions, Modes, IInv, Shapes, CallPlans
  <2> QED BY <1>2, <1>3, <2>1 DEF TInv, TypeOK
<1>7. FilesOK(c)' /\ Truth(c)'
  BY <1>2, <1>4 DEF FilesOK, Truth, Telling, ReadOps, WriteOps
<1>8. Formed(On("ftruncate", d, 0, 0, <<>>)) /\ handle' \in [Calls -> Handles]
      /\ "ftruncate" \in Steps \ {Unasked, Answered}
  BY <1>2, <1>3, RequestsFormed DEF TInv, TypeOK, Steps, Unasked, Answered
<1> QED BY <1>2, <1>4, <1>5, <1>6, <1>7, <1>8, AsksTrue

-----------------------------------------------------------------------------
(* What threads do.                                                        *)

\* What a thread finds of a call.
LEMMA ThreadFinds ==
    ASSUME IInv, TInv, NEW c \in Calls, Performed(c)
    PROVE  /\ Queued(c) /\ UnderWay(c) /\ Formed(req[c]) /\ CallOK(c) /\ Sized(c) /\ FilesOK(c) /\ Truth(c)
           /\ req[c].sys = IF at[c] \in {"open", "openDest"} THEN "open"
                           ELSE IF at[c] \in {"close", "closeDest"} THEN "close" ELSE at[c]
           /\ UNCHANGED <<plan, at, work, handle, answer>>
           /\ \A o \in Calls : (Queued(o)' <=> Queued(o) /\ o # c) /\ (Back(o)' <=> Back(o) \/ o = c)
<1>1. /\ Queued(c) /\ UNCHANGED <<plan, at, work, handle, answer>>
      /\ \A o \in Calls : (Queued(o)' <=> Queued(o) /\ o # c) /\ (Back(o)' <=> Back(o) \/ o = c)
  BY PoolPerforms DEF IInv, Performed
<1>2. UnderWay(c) /\ CallOK(c)
  BY <1>1 DEF IInv, PoolOK
<1> QED BY <1>1, <1>2 DEF TInv, Sized, CallOK, StepOK

\* A thread is done with the request of c, which is then r.
LEMMA ThreadTrue ==
    ASSUME IInv, IInv', TInv, NEW c \in Calls, Performed(c), NEW r, req' = [req EXCEPT ![c] = r],
           Formed(r), r.sys = req[c].sys, r.ok /\ r.sys = "read" => r.n = Len(r.buf),
           r.ok /\ r.sys = "open" => r.n \in Fds,
           content' \in [Files -> Seq(Nat)], table' \in [Fds -> Descriptions \cup {Free}],
           faults' \in 0..MaxFaults, disturbed' \subseteq Calls, cut' \subseteq Calls,
           strays' = strays \/ (req[c].sys # "open" /\ \E ds : strays' = Strays(c, req[c].sys, ds)),
           \A o \in Calls : o # c => Unseen(o),
           ~Queued(c)' /\ Back(c)' /\ req'[c] = r => FilesOK(c)' /\ Truth(c)'
    PROVE  TInv'
<1>1. /\ Queued(c) /\ UnderWay(c) /\ Formed(req[c]) /\ Sized(c)
      /\ UNCHANGED <<plan, at, work, handle, answer>>
      /\ \A o \in Calls : (Queued(o)' <=> Queued(o) /\ o # c) /\ (Back(o)' <=> Back(o) \/ o = c)
  BY ThreadFinds
<1>2. req'[c] = r /\ \A o \in Calls : o # c => req'[o] = req[o]
  BY DEF TInv, TypeOK
<1>3. Others(c)
  BY <1>1, <1>2 DEF Others
<1>4. TypeOK'
  <2>1. req' \in [Calls -> Requests \cup {NoReq}]
    BY DEF TInv, TypeOK, Formed
  <2>2. strays' \subseteq (Calls \X {"fstat", "read", "write", "ftruncate", "close"})
    BY <1>1 DEF TInv, TypeOK, Strays, Formed, Requests, Systems
  <2>3. queue' \in Seq(Calls) /\ done' \in Seq(Calls)
    BY DEF IInv, PoolOK
  <2> QED BY <1>1, <2>1, <2>2, <2>3 DEF TInv, TypeOK
<1>5. Sized(c)'
  BY <1>1, <1>2 DEF Sized, Arrived, Formed
<1> QED BY <1>1, <1>2, <1>3, <1>4, <1>5, TrueStep

\* The file of a request that is not an open().
LEMMA OnSomeFile ==
    ASSUME IInv, TInv, NEW c \in Calls, Performed(c), req[c].sys # "open", table[req[c].fd] # Free
    PROVE  /\ req[c].fd \in Fds /\ table[req[c].fd] \in Descriptions
           /\ table[req[c].fd].file \in Files /\ table[req[c].fd].pos \in Nat
           /\ content[table[req[c].fd].file] \in Seq(Nat)
<1>1. req[c].fd \in Fds
  BY ThreadFinds DEF Formed
<1>2. table[req[c].fd] \in Descriptions
  BY <1>1 DEF TInv, TypeOK
<1>3. table[req[c].fd].file \in Files /\ table[req[c].fd].pos \in Nat
  BY <1>2 DEF Descriptions
<1> QED BY <1>1, <1>2, <1>3 DEF TInv, TypeOK

\* fstat().
LEMMA SysFstatTrue ==
    ASSUME IInv, IInv', TInv, NEW c \in Calls, Performed(c), SysFstat(c) PROVE TInv'
<1>1. PICK d : /\ d = req[c].fd /\ req[c].sys = "fstat" /\ table[d] # Free
               /\ strays' = Strays(c, "fstat", {d})
  BY DEF SysFstat, Descriptor
<1>2. PICK n : n = Len(content[table[d].file]) /\ req' = [req EXCEPT ![c].n = n]
  BY <1>1 DEF SysFstat
<1>3. UNCHANGED <<table, content, faults, disturbed, cut>>
  BY DEF SysFstat
<1>4. n \in Nat
  BY <1>1, <1>2, OnSomeFile, LenProperties
<1>5. PICK r : r = [req[c] EXCEPT !.n = n]
  OBVIOUS
<1>6. /\ Formed(req[c]) /\ CallOK(c) /\ FilesOK(c) /\ Truth(c) /\ UNCHANGED <<plan, at, work>> /\ at[c] = "fstat"
  BY <1>1, ThreadFinds
<1>7. Formed(r) /\ r.sys = "fstat" /\ r.n = n
  BY <1>1, <1>4, <1>5, <1>6 DEF Formed, Requests, Systems
<1>8. ASSUME ~Queued(c)', Back(c)', req'[c] = r PROVE FilesOK(c)' /\ Truth(c)'
  <2>1. FilesOK(c)'
    BY <1>3, <1>6, <1>8 DEF FilesOK, IsOn, ModeOf
  <2>2. ASSUME plan[c].op \in ReadOps PROVE n = Len(Source(c))
    <3>1. Queued(c) /\ d = work[c].fd /\ IsOn(work[c].fd, plan[c].path, ModeOf(c))
      BY <1>1, <1>6, <2>2, ThreadFinds
         DEF CallOK, RequestOK, FilesOK, Telling, OnHandle, HandleOps, ReadOps
    <3> QED BY <1>2, <3>1 DEF IsOn, Source
  <2>3. Truth(c)'
    BY <1>3, <1>6, <1>7, <1>8, <2>2
       DEF Truth, ReadTrue, WriteTrue, AppendTrue, CopyTrue, Arrived, Source, Target, Unasked, CallOK, StepOK,
           ReadOps, WriteOps
  <2> QED BY <2>1, <2>3
<1>9. ASSUME NEW o \in Calls, o # c PROVE Unseen(o)
  BY <1>3, <1>6 DEF Unseen, Source, Target
<1>10. /\ req' = [req EXCEPT ![c] = r] /\ disturbed' \subseteq Calls /\ cut' \subseteq Calls
       /\ content' \in [Files -> Seq(Nat)] /\ table' \in [Fds -> Descriptions \cup {Free}] /\ faults' \in 0..MaxFaults
  BY <1>2, <1>3, <1>5 DEF TInv, TypeOK
<1> QED BY <1>1, <1>7, <1>8, <1>9, <1>10, ThreadTrue

\* A system call that has failed or was refused.
LEMMA NotServed ==
    ASSUME IInv, IInv', TInv, NEW c \in Calls, Performed(c), req' = [req EXCEPT ![c].ok = FALSE],
           UNCHANGED <<table, content, disturbed, cut>>, faults' \in 0..MaxFaults,
           strays' = strays \/ (req[c].sys # "open" /\ \E ds : strays' = Strays(c, req[c].sys, ds))
    PROVE  TInv'
<1>1. PICK r : r = [req[c] EXCEPT !.ok = FALSE]
  OBVIOUS
<1>2. /\ Formed(req[c]) /\ CallOK(c) /\ FilesOK(c) /\ Truth(c) /\ UNCHANGED <<plan, at, work>>
  BY ThreadFinds
<1>3. Formed(r) /\ r.sys = req[c].sys /\ ~r.ok
  BY <1>1, <1>2 DEF Formed, Requests, Systems
<1>4. ASSUME ~Queued(c)', Back(c)', req'[c] = r PROVE FilesOK(c)' /\ Truth(c)'
  <2>1. FilesOK(c)'
    BY <1>2, <1>3, <1>4 DEF FilesOK, IsOn, ModeOf, Arrived
  <2>2. \A k : Copied(c, k)' <=> Copied(c, k)
    BY <1>2 DEF Copied, Source, Target
  <2>3. Data(c)' = Data(c)
    BY DEF Data
  <2>4. Truth(c)'
    BY <1>2, <1>3, <1>4, <2>2, <2>3 DEF Truth, ReadTrue, WriteTrue, AppendTrue, CopyTrue, Arrived, Source, Target
  <2> QED BY <2>1, <2>4
<1>5. ASSUME NEW o \in Calls, o # c PROVE Unseen(o)
  BY <1>2 DEF Unseen, Source, Target
<1>6. /\ req' = [req EXCEPT ![c] = r] /\ disturbed' \subseteq Calls /\ cut' \subseteq Calls
      /\ content' \in [Files -> Seq(Nat)] /\ table' \in [Fds -> Descriptions \cup {Free}]
  BY <1>1 DEF TInv, TypeOK
<1> QED BY <1>3, <1>4, <1>5, <1>6, ThreadTrue

LEMMA SysRefusedTrue ==
    ASSUME IInv, IInv', TInv, NEW c \in Calls, Performed(c), SysRefused(c) PROVE TInv'
<1>1. /\ req' = [req EXCEPT ![c].ok = FALSE] /\ UNCHANGED <<table, content, disturbed, cut, faults>>
      /\ strays' = IF req[c].sys = "open" THEN strays ELSE Strays(c, req[c].sys, {req[c].fd})
  BY DEF SysRefused
<1>2. faults' \in 0..MaxFaults
  BY <1>1 DEF TInv, TypeOK
<1> QED BY <1>1, <1>2, NotServed

LEMMA SysFailsTrue ==
    ASSUME IInv, IInv', TInv, NEW c \in Calls, Performed(c), SysFails(c) PROVE TInv'
<1>1. /\ req' = [req EXCEPT ![c].ok = FALSE] /\ UNCHANGED <<table, content, disturbed, cut, strays>>
      /\ faults < MaxFaults /\ faults' = faults + 1
  BY DEF SysFails
<1>2. faults' \in 0..MaxFaults
  BY <1>1, FilesAssumption DEF TInv, TypeOK
<1> QED BY <1>1, <1>2, NotServed

\* close().
LEMMA SysCloseTrue ==
    ASSUME IInv, IInv', TInv, NEW c \in Calls, Performed(c), SysClose(c) PROVE TInv'
<1>1. /\ req[c].sys = "close" /\ strays' = Strays(c, "close", {req[c].fd})
      /\ table' = [table EXCEPT ![req[c].fd] = Free]
      /\ UNCHANGED <<req, content, faults, disturbed, cut>>
  BY DEF SysClose, Descriptor
<1>2. /\ Formed(req[c]) /\ CallOK(c) /\ Truth(c) /\ UNCHANGED <<plan, at, work, handle>>
      /\ at[c] \in {"close", "closeDest"}
  BY <1>1, ThreadFinds DEF CallOK, StepOK
<1>3. Others(c)
  BY <1>1, PerformFacts DEF IInv, Shapes
<1>4. /\ table' \in [Fds -> Descriptions \cup {Free}] /\ \A d \in Fds : table'[d] \in {Free, table[d]}
  BY <1>1 DEF TInv, TypeOK
<1>5. ASSUME ~Queued(c)', Back(c)' PROVE FilesOK(c)' /\ Truth(c)'
  <2>1. FilesOK(c)'
    BY <1>2 DEF FilesOK
  <2>2. Data(c)' = Data(c)
    BY DEF Data
  <2>3. Truth(c)'
    BY <1>1, <1>2, <2>2 DEF Truth, ReadTrue, WriteTrue, AppendTrue, CopyTrue, Source, Target, Unasked
  <2> QED BY <2>1, <2>3
<1>6. ASSUME NEW o \in Calls, o # c PROVE Unseen(o)
  <2>1. \A d : Keeps(o, d) => table'[d] = table[d]
    BY <1>2, <1>3, <1>4, <1>6, OnlyOwnClosed
  <2> QED BY <1>1, <1>2, <2>1 DEF Unseen, Source, Target
<1>7. /\ req' = [req EXCEPT ![c] = req[c]] /\ disturbed' \subseteq Calls /\ cut' \subseteq Calls
      /\ content' \in [Files -> Seq(Nat)] /\ faults' \in 0..MaxFaults
  BY <1>1 DEF TInv, TypeOK
<1> QED BY <1>1, <1>2, <1>4, <1>5, <1>6, <1>7, ThreadTrue

\* What read() puts into its buffer.
LEMMA ReadGets ==
    ASSUME NEW old \in Seq(Nat), NEW from \in Nat, NEW n \in Nat, NEW buf,
           buf = SubSeq(old, from + 1, IF from + n < Len(old) THEN from + n ELSE Len(old))
    PROVE  /\ buf \in Seq(Nat) /\ Len(buf) \in Nat
           /\ \A i \in 1 .. Len(buf) : buf[i] = old[from + i]
           /\ from <= Len(old) => from + Len(buf) <= Len(old)
           /\ from = 0 /\ n = Len(old) => buf = old
           /\ Len(buf) = 0 /\ n > 0 => Len(old) <= from
<1>1. PICK k \in Nat : k = Len(old) /\ DOMAIN old = 1 .. k /\ \A i \in 1 .. k : old[i] \in Nat
  BY LenProperties, ElementOfSeq
<1>2. PICK last \in Nat : last = (IF from + n < k THEN from + n ELSE k) /\ last <= k
  OBVIOUS
<1>3. buf = SubSeq(old, from + 1, last)
  BY <1>1, <1>2
<1>4. /\ buf \in Seq(Nat)
      /\ Len(buf) = IF from + 1 <= last THEN last - (from + 1) + 1 ELSE 0
      /\ \A i \in 1 .. last - (from + 1) + 1 : buf[i] = old[(from + 1) + i - 1]
  <2>1. \A i \in from + 1 .. last : old[i] \in Nat
    <3>1. \A i \in from + 1 .. last : i \in 1 .. k
      BY <1>2
    <3> QED BY <1>1, <3>1
  <2> QED BY <1>3, <2>1, SubSeqProperties
<1>5. PICK m \in Nat : /\ m = Len(buf) /\ DOMAIN buf = 1 .. m
                       /\ m = IF from < last THEN last - from ELSE 0
  <2>1. (IF from + 1 <= last THEN last - (from + 1) + 1 ELSE 0) = (IF from < last THEN last - from ELSE 0)
    BY <1>2
  <2> QED BY <1>4, <2>1, LenProperties
<1>6. \A i \in 1 .. m : buf[i] = old[from + i]
  <2>1. \A i \in 1 .. m : i \in 1 .. last - (from + 1) + 1 /\ (from + 1) + i - 1 = from + i
    BY <1>2, <1>5
  <2> QED BY <1>4, <2>1
<1>7. from <= k => from + m <= k
  BY <1>2, <1>5
<1>8. m = 0 /\ n > 0 => k <= from
  BY <1>2, <1>5
<1>9. ASSUME from = 0, n = k PROVE buf = old
  <2>1. m = k /\ \A i \in 1 .. m : from + i = i
    BY <1>2, <1>5, <1>9
  <2> QED BY <1>1, <1>4, <1>5, <1>6, <2>1, SeqEqual
<1> QED BY <1>1, <1>4, <1>5, <1>6, <1>7, <1>8, <1>9

\* read() and pread().
LEMMA SysReadTrue ==
    ASSUME IInv, IInv', TInv, NEW c \in Calls, Performed(c), SysRead(c) PROVE TInv'
<1>1. PICK d, old, from :
         /\ d = req[c].fd /\ old = content[table[d].file]
         /\ from = IF req[c].pos = Current THEN table[d].pos ELSE req[c].pos
  OBVIOUS
<1>2. PICK buf :
         /\ buf = SubSeq(old, from + 1, IF from + req[c].n < Len(old) THEN from + req[c].n ELSE Len(old))
         /\ req[c].sys = "read" /\ table[d] # Free /\ "read" \in table[d].mode /\ strays' = Strays(c, "read", {d})
         /\ req' = [req EXCEPT ![c].n = Len(buf), ![c].buf = buf]
         /\ table' = IF req[c].pos = Current THEN [table EXCEPT ![d].pos = @ + Len(buf)] ELSE table
         /\ UNCHANGED <<content, faults, disturbed, cut>>
  BY <1>1 DEF SysRead, Descriptor
<1>3. /\ Formed(req[c]) /\ CallOK(c) /\ FilesOK(c) /\ Truth(c) /\ UNCHANGED <<plan, at, work>> /\ at[c] = "read"
      /\ Queued(c)
  BY <1>2, ThreadFinds
<1>4. /\ d \in Fds /\ table[d] \in Descriptions /\ old \in Seq(Nat) /\ from \in Nat /\ req[c].n \in Nat
  BY <1>1, <1>2, <1>3, OnSomeFile DEF Formed, Requests, Systems
<1>13. buf = SubSeq(old, from + 1, IF from + req[c].n < Len(old) THEN from + req[c].n ELSE Len(old))
  BY <1>2
<1>5. /\ buf \in Seq(Nat) /\ Len(buf) \in Nat
      /\ \A i \in 1 .. Len(buf) : buf[i] = old[from + i]
      /\ from <= Len(old) => from + Len(buf) <= Len(old)
      /\ from = 0 /\ req[c].n = Len(old) => buf = old
      /\ Len(buf) = 0 /\ req[c].n > 0 => Len(old) <= from
  <2>1. PICK n \in Nat : n = req[c].n
    BY <1>4
  <2>2. buf = SubSeq(old, from + 1, IF from + n < Len(old) THEN from + n ELSE Len(old))
    BY <1>13, <2>1
  <2>3. /\ buf \in Seq(Nat) /\ Len(buf) \in Nat
        /\ \A i \in 1 .. Len(buf) : buf[i] = old[from + i]
        /\ from <= Len(old) => from + Len(buf) <= Len(old)
        /\ from = 0 /\ n = Len(old) => buf = old
        /\ Len(buf) = 0 /\ n > 0 => Len(old) <= from
    BY <1>4, <2>2, ReadGets
  <2> QED BY <2>1, <2>3
<1>6. PICK r : r = [req[c] EXCEPT !.n = Len(buf), !.buf = buf]
  OBVIOUS
<1>7. Formed(r) /\ r.sys = "read" /\ r.n = Len(buf) /\ r.buf = buf
  BY <1>2, <1>3, <1>5, <1>6 DEF Formed, Requests, Systems
<1>8. table' \in [Fds -> Descriptions \cup {Free}] /\ \A x \in Fds : x # d => table'[x] = table[x]
  <2>1. PICK p \in Nat : p = table[d].pos + Len(buf)
    BY <1>4, <1>5 DEF Descriptions
  <2>2. [table[d] EXCEPT !.pos = p] \in Descriptions
    BY <1>4 DEF Descriptions
  <2>3. table' = [table EXCEPT ![d] = [table[d] EXCEPT !.pos = p]] \/ table' = table
    BY <1>2, <2>1
  <2>4. table \in [Fds -> Descriptions \cup {Free}]
    BY DEF TInv, TypeOK
  <2>5. PICK e \in Descriptions : e = [table[d] EXCEPT !.pos = p]
    BY <2>2
  <2>6. table' = [table EXCEPT ![d] = e] \/ table' = table
    BY <2>3, <2>5
  <2> QED BY <1>4, <2>4, <2>6
<1>9. table'[d].file = table[d].file /\ table'[d].mode = table[d].mode
  BY <1>2, <1>4 DEF Descriptions, TInv, TypeOK
<1>10. ASSUME ~Queued(c)', Back(c)', req'[c] = r PROVE FilesOK(c)' /\ Truth(c)'
  <2>0. plan[c].op \in Telling => work[c].fd \in Fds /\ (plan[c].op = "copyFile" => work[c].dest \in Fds)
    BY <1>3, WorkFds
  <2>1. FilesOK(c)'
    BY <1>3, <2>0, <1>8, <1>9, <1>10 DEF FilesOK, IsOn, ModeOf
  <2>2. plan[c].op \in Telling => d = work[c].fd /\ old = Source(c)
    BY <1>1, <1>3 DEF CallOK, RequestOK, FilesOK, IsOn, Source, Telling, OnHandle, HandleOps, ReadOps, WriteOps
  <2>3. ASSUME c \notin disturbed \cup cut, plan[c].op \in ReadOps PROVE ReadTrue(c)'
    <3>1. ReadTrue(c) /\ plan[c].op \in Telling
      BY <1>3, <2>3 DEF Truth, Telling
    <3>2. req[c].pos = 0 /\ req[c].n = Len(Source(c)) /\ work[c].buffer = <<>>
      BY <1>3, <3>1 DEF ReadTrue
    <3>3. buf = Source(c)
      BY <1>1, <1>5, <2>2, <3>1, <3>2 DEF Current
    <3> QED BY <1>2, <1>3, <1>7, <1>10, <3>2, <3>3 DEF ReadTrue, Source, Arrived
  <2>4. ASSUME c \notin disturbed \cup cut, plan[c].op = "copyFile", plan[c].path # plan[c].dest PROVE CopyTrue(c)'
    <3>1. CopyTrue(c) /\ plan[c].op \in Telling
      BY <1>3, <2>4 DEF Truth, Telling
    <3>2. PICK k \in Nat : k = work[c].offset
      BY DEF TInv, TypeOK, Works
    <3>3. /\ Copied(c, k) /\ table[work[c].dest].pos = k
          /\ req[c].pos = k /\ req[c].n = ChunkSize
      BY <1>3, <3>1, <3>2 DEF CopyTrue
    <3>4. table' = table /\ from = k
      <4>1. req[c].pos # Current
        BY <3>3 DEF Current
      <4> QED BY <1>1, <1>2, <3>3, <4>1
    <3>5. Source(c)' = Source(c) /\ Target(c)' = Target(c)
      BY <1>2, <1>3 DEF Source, Target
    <3>6. Copied(c, k)' /\ k <= Len(Source(c))
      BY <3>3, <3>5 DEF Copied
    <3>7. Buffered(c, k)'
      BY <1>5, <1>7, <1>10, <2>2, <3>1, <3>4, <3>5, <3>6 DEF Buffered
    <3>8. r.n = 0 => k = Len(Source(c))
      <4>1. ChunkSize > 0 /\ Len(Source(c)) \in Nat
        BY <1>4, <2>2, <3>1, FilesAssumption, LenProperties
      <4> QED BY <1>5, <1>7, <2>2, <3>1, <3>3, <3>4, <3>6, <4>1
    <3> QED BY <1>3, <1>10, <3>2, <3>3, <3>4, <3>5, <3>6, <3>7, <3>8 DEF CopyTrue, Arrived
  <2>5. plan[c].op \notin WriteOps
    BY <1>3, ThreadFinds DEF CallOK, StepOK, ReadOps, WriteOps
  <2>6. Truth(c)'
    BY <1>2, <1>3, <2>3, <2>4, <2>5 DEF Truth, WriteOps
  <2> QED BY <2>1, <2>6
<1>11. ASSUME NEW o \in Calls, o # c PROVE Unseen(o)
  <2>0. \A x : Keeps(o, x) => x \in Fds
    BY DEF IInv, Kept
  <2>1. ASSUME NEW x \in Fds
        PROVE  /\ table'[x].file = table[x].file /\ table'[x].mode = table[x].mode
               /\ IsOn(x, plan[o].dest, {"write", "trunc"}) => table'[x].pos = table[x].pos
    BY <1>2, <1>8, <1>9 DEF IsOn
  <2>2. Source(o)' = Source(o) /\ Target(o)' = Target(o) /\ disturbed' = disturbed /\ cut' = cut
    BY <1>2, <1>3 DEF Source, Target
  <2> QED BY <2>0, <2>1, <2>2 DEF Unseen
<1>12. /\ req' = [req EXCEPT ![c] = r] /\ disturbed' \subseteq Calls /\ cut' \subseteq Calls
       /\ content' \in [Files -> Seq(Nat)] /\ faults' \in 0..MaxFaults
  BY <1>2, <1>6 DEF TInv, TypeOK
<1> QED BY <1>2, <1>3, <1>7, <1>8, <1>10, <1>11, <1>12, ThreadTrue

\* What a file is like after a write().
Put(old, from, buf, n) ==
    [i \in 1 .. (IF from + n > Len(old) THEN from + n ELSE Len(old)) |->
        IF i > from /\ i <= from + n THEN buf[i - from] ELSE IF i <= Len(old) THEN old[i] ELSE Garbage]

LEMMA WritePuts ==
    ASSUME NEW old \in Seq(Nat), NEW from \in Nat, NEW n \in Nat, NEW buf \in Seq(Nat), n <= Len(buf)
    PROVE  /\ Put(old, from, buf, n) \in Seq(Nat)
           /\ Len(Put(old, from, buf, n)) = IF from + n > Len(old) THEN from + n ELSE Len(old)
<1>0. PICK new : new = Put(old, from, buf, n)
  OBVIOUS
<1>1. PICK k \in Nat : k = Len(old) /\ \A i \in 1 .. k : old[i] \in Nat
  BY LenProperties, ElementOfSeq
<1>2. PICK b \in Nat : b = Len(buf) /\ n <= b /\ \A i \in 1 .. b : buf[i] \in Nat
  BY LenProperties, ElementOfSeq
<1>3. PICK last \in Nat : last = (IF from + n > k THEN from + n ELSE k)
  OBVIOUS
<1>4. new = [i \in 1 .. last |->
                IF i > from /\ i <= from + n THEN buf[i - from] ELSE IF i <= k THEN old[i] ELSE Garbage]
  BY <1>0, <1>1, <1>3 DEF Put
<1>5. ASSUME NEW i \in 1 .. last PROVE new[i] \in Nat
  <2>1. CASE i > from /\ i <= from + n
    <3>1. i - from \in 1 .. b
      BY <1>2, <2>1
    <3> QED BY <1>2, <1>4, <2>1, <3>1
  <2>2. CASE ~(i > from /\ i <= from + n) /\ i <= k
    <3>1. i \in 1 .. k
      BY <2>2
    <3> QED BY <1>1, <1>4, <2>2, <3>1
  <2>3. CASE ~(i > from /\ i <= from + n) /\ ~(i <= k)
    BY <1>4, <2>3 DEF Garbage
  <2> QED BY <2>1, <2>2, <2>3
<1>6. new \in [1 .. last -> Nat]
  BY <1>4, <1>5
<1>7. new \in Seq(Nat) /\ Len(new) = last
  <2>1. new \in Seq(Nat)
    BY <1>6, SeqDef
  <2>2. PICK l \in Nat : l = Len(new) /\ DOMAIN new = 1 .. l
    BY <2>1, LenProperties
  <2>3. 1 .. l = 1 .. last
    BY <1>6, <2>2
  <2>4. l = last
    BY <2>3
  <2> QED BY <2>1, <2>2, <2>4
<1> QED BY <1>0, <1>1, <1>3, <1>7

\* One that goes on where the file ended.
LEMMA WriteExtends ==
    ASSUME NEW old \in Seq(Nat), NEW from \in Nat, NEW n \in Nat, NEW buf \in Seq(Nat), n <= Len(buf), from = Len(old)
    PROVE  /\ Len(Put(old, from, buf, n)) = from + n
           /\ \A i \in 1 .. from : Put(old, from, buf, n)[i] = old[i]
           /\ \A i \in 1 .. n, j \in Nat : j = from + i => Put(old, from, buf, n)[j] = buf[i]
<1>1. PICK last \in Nat : last = (IF from + n > Len(old) THEN from + n ELSE Len(old)) /\ last = from + n
  <2>1. from + n \in Nat /\ (from + n > from \/ from + n = from)
    OBVIOUS
  <2> QED BY <2>1
<1>2. PICK new : /\ new = Put(old, from, buf, n)
                 /\ new = [i \in 1 .. last |->
                              IF i > from /\ i <= from + n THEN buf[i - from] ELSE IF i <= from THEN old[i] ELSE Garbage]
  BY <1>1 DEF Put
<1>3. ASSUME NEW i \in 1 .. from PROVE new[i] = old[i]
  <2>1. i \in 1 .. last /\ ~(i > from) /\ i <= from
    BY <1>1
  <2> QED BY <1>2, <2>1
<1>4. ASSUME NEW i \in 1 .. n, NEW j \in Nat, j = from + i PROVE new[j] = buf[i]
  <2>1. j \in 1 .. last /\ j > from /\ j <= from + n /\ j - from = i
    BY <1>1, <1>4
  <2> QED BY <1>2, <2>1
<1>5. Len(Put(old, from, buf, n)) = last
  <2>1. Len(Put(old, from, buf, n)) = IF from + n > Len(old) THEN from + n ELSE Len(old)
    BY WritePuts
  <2> QED BY <1>1, <2>1
<1> QED BY <1>1, <1>2, <1>3, <1>4, <1>5

\* write() and pwrite(), of all or of a part.
LEMMA SysWriteTrue ==
    ASSUME IInv, IInv', TInv, NEW c \in Calls, Performed(c), NEW m \in 1 .. req[c].n, SysWrite(c, m) PROVE TInv'
<1>1. PICK d, f, old, from :
         /\ d = req[c].fd /\ f = table[d].file /\ old = content[f]
         /\ from = IF "append" \in table[d].mode THEN Len(old)
                   ELSE IF req[c].pos = Current THEN table[d].pos ELSE req[c].pos
  OBVIOUS
<1>2. PICK new : new = Put(old, from, req[c].buf, m)
  OBVIOUS
<1>3. /\ req[c].sys = "write" /\ table[d] # Free /\ "write" \in table[d].mode /\ strays' = Strays(c, "write", {d})
      /\ req' = [req EXCEPT ![c].n = m]
      /\ content' = [content EXCEPT ![f] = new]
      /\ table' = IF req[c].pos = Current THEN [table EXCEPT ![d].pos = from + m] ELSE table
      /\ disturbed' = Disturbed(c, f)
      /\ \/ m = req[c].n /\ UNCHANGED <<faults, cut>>
         \/ m < req[c].n /\ faults < MaxFaults /\ faults' = faults + 1 /\ cut' = cut \cup {c}
  BY <1>1, <1>2 DEF SysWrite, Descriptor, Put
<1>4. /\ Formed(req[c]) /\ CallOK(c) /\ FilesOK(c) /\ Truth(c) /\ UNCHANGED <<plan, at, work>> /\ at[c] = "write"
      /\ Queued(c)
  BY <1>3, ThreadFinds
<1>5. /\ d \in Fds /\ table[d] \in Descriptions /\ f \in Files /\ old \in Seq(Nat) /\ table[d].pos \in Nat
      /\ Len(old) \in Nat
  BY <1>1, <1>3, OnSomeFile, LenProperties
<1>6. from \in Nat
  BY <1>1, <1>4, <1>5 DEF Formed, Requests, Systems
<1>7. PICK buf \in Seq(Nat) : buf = req[c].buf /\ m \in Nat /\ m <= Len(buf) /\ m <= req[c].n
  BY <1>3, <1>4, LenProperties DEF Formed, Requests, Systems
<1>8. /\ new \in Seq(Nat)
      /\ from = Len(old) =>
            /\ Len(new) = from + m
            /\ \A i \in 1 .. from : new[i] = old[i]
            /\ \A i \in 1 .. m : new[from + i] = buf[i]
  <2>1. PICK n \in Nat, a \in Nat, s \in Seq(Nat) : n = m /\ a = from /\ s = old
    BY <1>5, <1>6, <1>7
  <2>2. n <= Len(buf)
    BY <1>7, <2>1
  <2>3. Put(s, a, buf, n) \in Seq(Nat)
    BY <2>2, WritePuts
  <2>4. ASSUME a = Len(s)
        PROVE  /\ Len(Put(s, a, buf, n)) = a + n
               /\ \A i \in 1 .. a : Put(s, a, buf, n)[i] = s[i]
               /\ \A i \in 1 .. n : Put(s, a, buf, n)[a + i] = buf[i]
    <3>1. Len(Put(s, a, buf, n)) = a + n
      BY <2>2, <2>4, WriteExtends
    <3>2. ASSUME NEW i \in 1 .. a PROVE Put(s, a, buf, n)[i] = s[i]
      BY <2>2, <2>4, WriteExtends
    <3>3. ASSUME NEW i \in 1 .. n PROVE Put(s, a, buf, n)[a + i] = buf[i]
      <4>1. PICK j \in Nat : j = a + i
        OBVIOUS
      <4>2. Put(s, a, buf, n)[j] = buf[i]
        BY <2>2, <2>4, <4>1, WriteExtends, SMTT(90)
      <4> QED BY <4>1, <4>2
    <3> QED BY <3>1, <3>2, <3>3
  <2>5. new = Put(s, a, buf, n)
    BY <1>2, <1>7, <2>1
  <2> QED BY <2>1, <2>3, <2>4, <2>5
<1>9. /\ content \in [Files -> Seq(Nat)] /\ table \in [Fds -> Descriptions \cup {Free}]
      /\ disturbed \subseteq Calls /\ cut \subseteq Calls /\ faults \in 0 .. MaxFaults
      /\ work[c] \in Works /\ DOMAIN req = Calls
  BY DEF TInv, TypeOK
<1>10. /\ content'[f] = new /\ \A g \in Files : g # f => content'[g] = content[g]
       /\ content' \in [Files -> Seq(Nat)]
  BY <1>3, <1>5, <1>8, <1>9
<1>11. /\ table' \in [Fds -> Descriptions \cup {Free}] /\ \A x \in Fds : x # d => table'[x] = table[x]
       /\ table'[d].file = f /\ table'[d].mode = table[d].mode
       /\ req[c].pos = Current => table'[d].pos = from + m
  <2>1. PICK e \in Descriptions : /\ e = [table[d] EXCEPT !.pos = from + m]
                                  /\ e.pos = from + m /\ e.file = f /\ e.mode = table[d].mode
    <3>1. PICK p \in Nat : p = from + m
      BY <1>6, <1>7
    <3>2. PICK t \in Descriptions : t = table[d] /\ t.file = f
      BY <1>1, <1>5
    <3>3. [t EXCEPT !.pos = p] \in Descriptions
      BY DEF Descriptions
    <3>4. [t EXCEPT !.pos = p].pos = p /\ [t EXCEPT !.pos = p].file = f /\ [t EXCEPT !.pos = p].mode = t.mode
      BY <3>2 DEF Descriptions
    <3> QED BY <3>1, <3>2, <3>3, <3>4
  <2>2. CASE req[c].pos = Current
    <3>1. table' = [table EXCEPT ![d] = e]
      BY <1>3, <2>1, <2>2
    <3> QED BY <1>5, <1>9, <2>1, <3>1
  <2>3. CASE req[c].pos # Current
    BY <1>1, <1>3, <1>9, <2>3
  <2> QED BY <2>2, <2>3
<1>12. PICK r : r = [req[c] EXCEPT !.n = m]
  OBVIOUS
<1>13. Formed(r) /\ r.sys = "write" /\ r.n = m /\ r.buf = buf
  BY <1>3, <1>4, <1>7, <1>12 DEF Formed, Requests, Systems
<1>14. plan[c].op \in Telling =>
          /\ ~OnHandle(c) /\ plan[c].op \in WriteOps \cup {"copyFile"}
          /\ plan[c].op # "copyFile" => d = work[c].fd /\ f = plan[c].path /\ table[d].mode = ModeOf(c)
          /\ plan[c].op = "copyFile" => d = work[c].dest /\ f = plan[c].dest /\ table[d].mode = {"write", "trunc"}
  <2>1. plan[c].op \in Telling => ~OnHandle(c) /\ plan[c].op \in WriteOps \cup {"copyFile"}
    BY <1>4 DEF CallOK, StepOK, UnderWay, Unasked, Answered, Telling, OnHandle, HandleOps, ReadOps, WriteOps
  <2>2. plan[c].op \in Telling /\ plan[c].op # "copyFile" => d = work[c].fd
    BY <1>1, <1>4, <2>1 DEF CallOK, RequestOK
  <2>3. plan[c].op = "copyFile" => d = work[c].dest
    BY <1>1, <1>4 DEF CallOK, RequestOK, OnHandle, HandleOps
  <2> QED BY <1>1, <1>4, <2>1, <2>2, <2>3 DEF FilesOK, IsOn, Telling
<1>15. c \notin disturbed' \cup cut' => c \notin disturbed \cup cut /\ m = req[c].n
  BY <1>3 DEF Disturbed
<1>16. ASSUME ~Queued(c)', Back(c)', req'[c] = r PROVE FilesOK(c)' /\ Truth(c)'
  <2>1. plan[c].op \in Telling => work[c].fd \in Fds /\ (plan[c].op = "copyFile" => work[c].dest \in Fds)
    BY <1>4, WorkFds
  <2>2. FilesOK(c)'
    BY <1>1, <1>4, <1>11, <1>16, <2>1 DEF FilesOK, IsOn, ModeOf
  <2>3. ASSUME c \notin disturbed' \cup cut', plan[c].op = "writeFile" PROVE WriteTrue(c)'
    <3>1. f = plan[c].path /\ table[d].mode = {"write", "trunc"} /\ old = Source(c)
      BY <1>1, <1>14, <2>3 DEF Telling, WriteOps, ModeOf, Source
    <3>2. Source(c) = <<>> /\ req[c].pos = 0 /\ m = 2 /\ buf = Data(c)
      BY <1>4, <1>7, <1>15, <2>3 DEF Truth, WriteTrue
    <3>3. from = 0 /\ Len(old) = 0
      BY <1>1, <3>1, <3>2 DEF Current
    <3>4. Len(new) = 2 /\ \A i \in 1 .. 2 : new[i] = buf[i]
      BY <1>8, <3>2, <3>3
    <3>5. new = buf
      <4>1. Len(buf) = 2
        BY <3>2 DEF Data
      <4> QED BY <1>8, <3>4, <4>1, SeqEqual
    <3>6. Source(c)' = Data(c)
      BY <1>4, <1>10, <3>1, <3>2, <3>5 DEF Source
    <3> QED BY <1>4, <1>16, <3>6 DEF WriteTrue, Data
  <2>4. ASSUME c \notin disturbed' \cup cut', plan[c].op = "appendFile" PROVE AppendTrue(c)'
    <3>1. f = plan[c].path /\ table[d].mode = {"write", "append"} /\ old = Source(c)
      BY <1>1, <1>14, <2>4 DEF Telling, WriteOps, ModeOf, Source
    <3>2. m = 2 /\ buf = Data(c)
      BY <1>4, <1>7, <1>15, <2>4 DEF Truth, AppendTrue, WriteOps
    <3>3. PICK k \in Nat : k = Len(old) /\ from = k
      BY <1>1, <1>5, <3>1
    <3>4. Len(new) = k + 2 /\ new[k + 1] = c /\ new[k + 2] = c
      <4>1. new[from + 1] = buf[1] /\ new[from + 2] = buf[2]
        BY <1>8, <3>2, <3>3
      <4>2. buf[1] = c /\ buf[2] = c
        BY <3>2 DEF Data
      <4> QED BY <1>8, <3>2, <3>3, <4>1, <4>2
    <3>5. Holds(new, c)
      <4>1. DOMAIN new = 1 .. k + 2
        BY <1>8, <3>4, LenProperties
      <4>2. k + 1 \in DOMAIN new /\ (k + 1) + 1 \in DOMAIN new /\ (k + 1) + 1 = k + 2
        BY <4>1
      <4> QED BY <3>4, <4>2 DEF Holds
    <3>6. Source(c)' = new
      BY <1>4, <1>10, <3>1 DEF Source
    <3> QED BY <1>4, <1>16, <3>5, <3>6 DEF AppendTrue
  <2>5. ASSUME c \notin disturbed' \cup cut', plan[c].op = "copyFile", plan[c].path # plan[c].dest
        PROVE  CopyTrue(c)'
    <3>1. d = work[c].dest /\ f = plan[c].dest /\ table[d].mode = {"write", "trunc"} /\ old = Target(c)
      BY <1>1, <1>14, <2>5 DEF Telling, Target
    <3>2. PICK k \in Nat : /\ req[c].n = Len(buf) /\ req[c].pos = Current
                           /\ work[c].offset = k + req[c].n /\ table[d].pos = k
                           /\ Copied(c, k) /\ Buffered(c, k)
      BY <1>4, <1>7, <1>15, <2>5, <3>1 DEF Truth, CopyTrue
    <3>3. from = k /\ Len(old) = k /\ m = Len(buf) /\ work[c].offset = k + m
      BY <1>1, <1>15, <2>5, <3>1, <3>2 DEF Copied
    <3>4. Source(c)' = Source(c) /\ Target(c)' = new
      <4>1. plan[c].path \in Files
        BY DEF IInv, Shapes, CallPlans
      <4> QED BY <1>4, <1>10, <2>5, <3>1, <4>1 DEF Source, Target
    <3>5. Copied(c, k + m)'
      <4>1. Len(new) = k + m /\ k + m <= Len(Source(c))
        BY <1>7, <1>8, <3>2, <3>3 DEF Buffered
      <4>2. ASSUME NEW i \in 1 .. k + m PROVE new[i] = Source(c)[i]
        <5>1. CASE i <= k
          <6>1. i \in 1 .. k
            BY <5>1
          <6>2. new[i] = old[i] /\ old[i] = Source(c)[i]
            BY <1>8, <3>1, <3>2, <3>3, <6>1 DEF Copied
          <6> QED BY <6>2
        <5>2. CASE ~(i <= k)
          <6>1. i - k \in 1 .. m /\ k + (i - k) = i
            BY <1>7, <5>2
          <6>2. new[k + (i - k)] = buf[i - k]
            BY <1>8, <3>3, <6>1
          <6>3. buf[i - k] = Source(c)[k + (i - k)]
            BY <1>7, <3>2, <3>3, <6>1 DEF Buffered
          <6> QED BY <6>1, <6>2, <6>3
        <5> QED BY <5>1, <5>2
      <4> QED BY <3>4, <4>1, <4>2 DEF Copied
    <3>6. table'[d].pos = k + m
      BY <1>11, <3>2, <3>3
    <3>7. Copied(c, work[c].offset)' /\ table'[work'[c].dest].pos = work'[c].offset
      BY <1>4, <3>1, <3>3, <3>5, <3>6
    <3> QED BY <1>4, <1>16, <3>7 DEF CopyTrue
  <2>6. plan[c].op \notin ReadOps
    BY <1>14 DEF Telling, ReadOps, WriteOps
  <2>7. Truth(c)'
    BY <1>4, <2>3, <2>4, <2>5, <2>6 DEF Truth
  <2> QED BY <2>2, <2>7
<1>17. ASSUME NEW o \in Calls, o # c PROVE Unseen(o)
  <2>1. o \in disturbed \cup cut => o \in disturbed' \cup cut'
    BY <1>3 DEF Disturbed
  <2>2. plan[o].path \in Files /\ plan[o].dest \in Files
    BY DEF IInv, Shapes, CallPlans
  <2>3. UnderWay(o) /\ f \in {plan[o].path, plan[o].dest} =>
           o \in disturbed' \/ (plan[o].op = "appendFile" /\ plan[c].op = "appendFile")
    BY <1>3, <1>17 DEF Disturbed
  <2>4. plan[c].op = "appendFile" =>
           /\ table[d].mode = {"write", "append"}
           /\ \A i \in DOMAIN old : i \in DOMAIN new /\ new[i] = old[i]
    <3>1. SUFFICES ASSUME plan[c].op = "appendFile"
                   PROVE  /\ table[d].mode = {"write", "append"}
                          /\ \A i \in DOMAIN old : i \in DOMAIN new /\ new[i] = old[i]
      OBVIOUS
    <3>2. table[d].mode = {"write", "append"}
      BY <1>14, <3>1 DEF Telling, WriteOps, ModeOf
    <3>3. PICK k \in Nat : k = Len(old) /\ from = k
      BY <1>1, <1>5, <3>2
    <3>4. DOMAIN old = 1 .. k /\ DOMAIN new = 1 .. k + m
      BY <1>5, <1>8, <3>3, LenProperties
    <3>5. \A i \in 1 .. k : i \in 1 .. k + m /\ new[i] = old[i]
      BY <1>7, <1>8, <3>3
    <3> QED BY <3>2, <3>4, <3>5
  <2>5. UnderWay(o) =>
          \/ o \in disturbed'
          \/ Source(o)' = Source(o) /\ Target(o)' = Target(o)
          \/ /\ plan[o].op = "appendFile"
             /\ \A i \in DOMAIN Source(o) : i \in DOMAIN Source(o)' /\ Source(o)'[i] = Source(o)[i]
    <3>1. CASE f \notin {plan[o].path, plan[o].dest}
      BY <1>4, <1>10, <2>2, <3>1 DEF Source, Target
    <3>2. ASSUME plan[o].op = "appendFile", plan[c].op = "appendFile"
          PROVE  \A i \in DOMAIN Source(o) : i \in DOMAIN Source(o)' /\ Source(o)'[i] = Source(o)[i]
      <4>1. CASE f = plan[o].path
        <5>1. Source(o) = old /\ Source(o)' = new
          BY <1>1, <1>4, <1>10, <4>1 DEF Source
        <5> QED BY <2>4, <3>2, <5>1
      <4>2. CASE f # plan[o].path
        <5>1. Source(o)' = Source(o)
          BY <1>4, <1>10, <2>2, <4>2 DEF Source
        <5> QED BY <5>1
      <4> QED BY <4>1, <4>2
    <3> QED BY <2>3, <3>1, <3>2
  <2>6. ASSUME NEW x, Keeps(o, x)
        PROVE  /\ table'[x].file = table[x].file /\ table'[x].mode = table[x].mode
               /\ UnderWay(o) /\ IsOn(x, plan[o].dest, {"write", "trunc"}) =>
                     o \in disturbed' \/ table'[x].pos = table[x].pos
    <3>1. x \in Fds
      BY <2>6 DEF IInv, Kept
    <3>2. CASE x # d
      BY <1>11, <3>1, <3>2
    <3>3. CASE x = d
      <4>1. IsOn(x, plan[o].dest, {"write", "trunc"}) => f = plan[o].dest /\ plan[c].op # "appendFile"
        <5>1. "trunc" \in {"write", "trunc"} /\ "trunc" \notin {"write", "append"}
          OBVIOUS
        <5>2. {"write", "trunc"} # {"write", "append"}
          BY <5>1
        <5> QED BY <1>1, <2>4, <3>3, <5>2 DEF IsOn
      <4> QED BY <1>1, <1>11, <2>3, <3>3, <4>1
    <3> QED BY <3>2, <3>3
  <2> QED BY <2>1, <2>5, <2>6 DEF Unseen
<1>18. /\ req' = [req EXCEPT ![c] = r] /\ disturbed' \subseteq Calls /\ cut' \subseteq Calls
       /\ faults' \in 0..MaxFaults
  <2>1. faults' \in 0..MaxFaults
    BY <1>3, <1>9, FilesAssumption
  <2> QED BY <1>3, <1>9, <1>12, <2>1 DEF Disturbed
<1> QED BY <1>3, <1>10, <1>11, <1>13, <1>16, <1>17, <1>18, ThreadTrue

\* Others whose files a step may have changed are disturbed.
LEMMA OthersDisturbed ==
    ASSUME IInv, NEW c \in Calls, NEW f, UNCHANGED <<plan, at>>, disturbed' = Disturbed(c, f), cut' = cut,
           \A g \in Files : g # f => content'[g] = content[g], plan[c].op # "appendFile",
           NEW o \in Calls, o # c, \A x : Keeps(o, x) => table'[x] = table[x]
    PROVE  Unseen(o)
<1>1. o \in disturbed \cup cut => o \in disturbed' \cup cut'
  BY DEF Disturbed
<1>2. plan[o].path \in Files /\ plan[o].dest \in Files
  BY DEF IInv, Shapes, CallPlans
<1>3. UnderWay(o) /\ f \in {plan[o].path, plan[o].dest} => o \in disturbed'
  BY DEF Disturbed
<1>4. f \notin {plan[o].path, plan[o].dest} => Source(o)' = Source(o) /\ Target(o)' = Target(o)
  BY <1>2 DEF Source, Target
<1> QED BY <1>1, <1>3, <1>4 DEF Unseen

\* open().
LEMMA SysOpenTrue ==
    ASSUME IInv, IInv', TInv, NEW c \in Calls, Performed(c), SysOpen(c) PROVE TInv'
<1> DEFINE free == {y \in Fds : table[y] = Free}
<1>1. PICK d, f, e :
         /\ d = CHOOSE x \in free : \A y \in free : x <= y
         /\ f = req[c].file
         /\ e = [of |-> c, file |-> f, mode |-> req[c].mode, pos |-> 0]
  OBVIOUS
<1>2. /\ req[c].sys = "open" /\ free # {}
      /\ table' = [table EXCEPT ![d] = e]
      /\ req' = [req EXCEPT ![c].n = d]
      /\ IF "trunc" \in req[c].mode
         THEN content' = [content EXCEPT ![f] = <<>>] /\ disturbed' = Disturbed(c, f)
         ELSE UNCHANGED <<content, disturbed>>
      /\ UNCHANGED <<faults, strays, cut>>
  BY <1>1 DEF SysOpen
<1>3. d \in Fds /\ table[d].of = 0 /\ d \in Nat
  <2>1. \E x \in Fds : table[x] = Free
    BY <1>2
  <2> QED BY <1>1, <2>1, LowestFree DEF IInv, Shapes
<1> HIDE DEF free
<1>4. /\ Formed(req[c]) /\ CallOK(c) /\ FilesOK(c) /\ Truth(c) /\ UNCHANGED <<plan, at, work>>
      /\ at[c] \in {"open", "openDest"} /\ Queued(c)
  BY <1>2, ThreadFinds
<1>5. /\ content \in [Files -> Seq(Nat)] /\ table \in [Fds -> Descriptions \cup {Free}]
      /\ disturbed \subseteq Calls /\ cut \subseteq Calls /\ DOMAIN req = Calls
  BY DEF TInv, TypeOK
<1>6. f \in Files /\ e \in Descriptions /\ e.file = f /\ e.mode = req[c].mode /\ e.pos = 0
  BY <1>1, <1>4 DEF Formed, Requests, Systems, Descriptions
<1>7. /\ table' \in [Fds -> Descriptions \cup {Free}] /\ table'[d] = e
      /\ \A x \in Fds : x # d => table'[x] = table[x]
  BY <1>2, <1>3, <1>5, <1>6
<1>8. /\ content' \in [Files -> Seq(Nat)] /\ disturbed' \subseteq Calls
      /\ \A g \in Files : g # f => content'[g] = content[g]
      /\ "trunc" \in req[c].mode => content'[f] = <<>> /\ disturbed' = Disturbed(c, f)
      /\ "trunc" \notin req[c].mode => content' = content /\ disturbed' = disturbed
  <2>1. <<>> \in Seq(Nat)
    OBVIOUS
  <2> QED BY <1>2, <1>5, <1>6, <2>1 DEF Disturbed
<1>9. PICK r : r = [req[c] EXCEPT !.n = d]
  OBVIOUS
<1>10. Formed(r) /\ r.sys = "open" /\ r.n = d
  BY <1>2, <1>3, <1>4, <1>9 DEF Formed, Requests, Systems
<1>11. \A o \in Calls : \A x : Keeps(o, x) => x \in Fds /\ x # d
  <2>1. \A o \in Calls : Opener(o) # 0
    BY DEF IInv, Shapes, Opener, CallPlans
  <2> QED BY <1>3, <2>1 DEF IInv, Kept
<1>12. ASSUME ~Queued(c)', Back(c)', req'[c] = r PROVE FilesOK(c)' /\ Truth(c)'
  <2>1. plan[c].op \in Telling => ~OnHandle(c)
    BY DEF Telling, OnHandle, HandleOps, ReadOps, WriteOps
  <2>2. plan[c].op \in Telling /\ at[c] = "openDest" => work[c].fd \in Fds /\ work[c].fd # d
    BY <1>11, <2>1 DEF Keeps
  <2>3. plan[c].op \in Telling /\ at[c] = "open" => req[c].file = plan[c].path /\ req[c].mode = ModeOf(c)
    BY <1>4 DEF FilesOK
  <2>4. plan[c].op \in Telling /\ at[c] = "openDest" => req[c].file = plan[c].dest /\ req[c].mode = {"write", "trunc"}
    BY <1>4 DEF FilesOK
  <2>5. FilesOK(c)'
    BY <1>1, <1>4, <1>6, <1>7, <1>10, <1>12, <2>2, <2>3, <2>4 DEF FilesOK, IsOn, ModeOf
  <2>6. plan[c].op \in ReadOps /\ c \notin disturbed' \cup cut' => ReadTrue(c)'
    <3>1. SUFFICES ASSUME plan[c].op \in ReadOps, c \notin disturbed' \cup cut' PROVE ReadTrue(c)'
      OBVIOUS
    <3>2. at[c] = "open" /\ c \notin disturbed \cup cut
      BY <1>2, <1>4, <3>1, ThreadFinds DEF CallOK, StepOK, ReadOps, WriteOps, Disturbed
    <3> QED BY <1>4, <3>1, <3>2 DEF Truth, ReadTrue, Unasked
  <2>7. plan[c].op = "writeFile" => WriteTrue(c)'
    <3>1. SUFFICES ASSUME plan[c].op = "writeFile" PROVE WriteTrue(c)'
      OBVIOUS
    <3>2. at[c] = "open" /\ plan[c].op \in Telling
      BY <1>4, <3>1, ThreadFinds DEF CallOK, StepOK, ReadOps, WriteOps, Telling
    <3>3. f = plan[c].path /\ "trunc" \in req[c].mode
      BY <1>1, <2>3, <3>1, <3>2 DEF ModeOf
    <3>4. Source(c)' = <<>>
      BY <1>4, <1>8, <3>3 DEF Source
    <3> QED BY <1>4, <3>2, <3>4 DEF WriteTrue
  <2>8. plan[c].op = "appendFile" => AppendTrue(c)'
    BY <1>4 DEF AppendTrue
  <2>9. plan[c].op = "copyFile" => CopyTrue(c)'
    <3>1. SUFFICES ASSUME plan[c].op = "copyFile" PROVE CopyTrue(c)'
      OBVIOUS
    <3>2. CASE at[c] = "openDest"
      <4>1. f = plan[c].dest /\ "trunc" \in req[c].mode
        BY <1>1, <2>4, <3>1, <3>2 DEF Telling
      <4>2. Target(c)' = <<>> /\ table'[req'[c].n].pos = 0
        BY <1>4, <1>6, <1>7, <1>8, <1>10, <1>12, <4>1 DEF Target
      <4> QED BY <1>4, <3>2, <4>2 DEF CopyTrue
    <3>3. CASE at[c] = "open"
      BY <1>4, <3>3 DEF CopyTrue
    <3> QED BY <1>4, <3>2, <3>3
  <2> QED BY <1>4, <2>5, <2>6, <2>7, <2>8, <2>9 DEF Truth
<1>13. ASSUME NEW o \in Calls, o # c PROVE Unseen(o)
  <2>1. \A x : Keeps(o, x) => table'[x] = table[x]
    BY <1>7, <1>11
  <2>2. CASE "trunc" \in req[c].mode
    <3>1. plan[c].op # "appendFile"
      <4>1. SUFFICES ASSUME plan[c].op = "appendFile" PROVE FALSE
        OBVIOUS
      <4>2. at[c] = "open" /\ plan[c].op \in Telling
        BY <1>4, <4>1, ThreadFinds DEF CallOK, StepOK, ReadOps, WriteOps, Telling
      <4> QED BY <1>4, <2>2, <4>1, <4>2 DEF FilesOK, ModeOf
    <3> QED BY <1>2, <1>4, <1>8, <1>13, <2>1, <2>2, <3>1, OthersDisturbed, ThreadFinds
  <2>3. CASE "trunc" \notin req[c].mode
    <3>1. Source(o)' = Source(o) /\ Target(o)' = Target(o) /\ disturbed' = disturbed /\ cut' = cut
      BY <1>2, <1>4, <1>8, <2>3 DEF Source, Target
    <3> QED BY <2>1, <3>1 DEF Unseen
  <2> QED BY <2>2, <2>3
<1>14. req' = [req EXCEPT ![c] = r] /\ cut' \subseteq Calls /\ faults' \in 0..MaxFaults /\ strays' = strays
  BY <1>2, <1>5, <1>9 DEF TInv, TypeOK
<1>15. r.sys = req[c].sys /\ (r.ok /\ r.sys = "read" => r.n = Len(r.buf)) /\ r.n \in Fds
  BY <1>2, <1>3, <1>10
<1> QED BY <1>7, <1>8, <1>10, <1>12, <1>13, <1>14, <1>15, ThreadTrue

\* ftruncate().
LEMMA SysFtruncateTrue ==
    ASSUME IInv, IInv', TInv, NEW c \in Calls, Performed(c), SysFtruncate(c) PROVE TInv'
<1>1. PICK d, f, new : d = req[c].fd /\ f = table[d].file /\ new = SubSeq(content[f], 1, req[c].n)
  OBVIOUS
<1>2. /\ req[c].sys = "ftruncate" /\ table[d] # Free /\ strays' = Strays(c, "ftruncate", {d})
      /\ content' = [content EXCEPT ![f] = new]
      /\ disturbed' = Disturbed(c, f)
      /\ UNCHANGED <<req, table, faults, cut>>
  BY <1>1 DEF SysFtruncate, Descriptor
<1>3. /\ Formed(req[c]) /\ CallOK(c) /\ UNCHANGED <<plan, at, work>> /\ at[c] = "ftruncate" /\ UnderWay(c)
  BY <1>2, ThreadFinds
<1>4. plan[c].op = "truncate" /\ plan[c].op \notin Telling
  BY <1>3 DEF CallOK, StepOK, ReadOps, WriteOps, Telling
<1>5. /\ content \in [Files -> Seq(Nat)] /\ table \in [Fds -> Descriptions \cup {Free}]
      /\ disturbed \subseteq Calls /\ cut \subseteq Calls /\ DOMAIN req = Calls /\ faults \in 0 .. MaxFaults
  BY DEF TInv, TypeOK
<1>6. f \in Files /\ content[f] \in Seq(Nat)
  BY <1>1, <1>2, OnSomeFile
<1>7. new \in Seq(Nat)
  <2>1. PICK s \in Seq(Nat) : s = content[f] /\ new = SubSeq(s, 1, 0)
    BY <1>1, <1>2, <1>3, <1>6 DEF Formed
  <2>2. \A i \in 1 .. 0 : s[i] \in Nat
    OBVIOUS
  <2> QED BY <2>1, <2>2, SubSeqProperties
<1>8. content' \in [Files -> Seq(Nat)] /\ \A g \in Files : g # f => content'[g] = content[g]
  BY <1>2, <1>5, <1>6, <1>7
<1>9. ASSUME ~Queued(c)', Back(c)' PROVE FilesOK(c)' /\ Truth(c)'
  BY <1>3, <1>4 DEF FilesOK, Truth, Telling, ReadOps, WriteOps
<1>10. ASSUME NEW o \in Calls, o # c PROVE Unseen(o)
  BY <1>2, <1>3, <1>4, <1>8, <1>10, OthersDisturbed, ThreadFinds
<1>11. req' = [req EXCEPT ![c] = req[c]] /\ disturbed' \subseteq Calls
  BY <1>2, <1>5 DEF Disturbed, TInv, TypeOK
<1> QED BY <1>2, <1>3, <1>5, <1>8, <1>9, <1>10, <1>11, ThreadTrue

-----------------------------------------------------------------------------
(* What calls report is so.                                                *)

LEMMA TInvHoldsAtFirst == Init => TInv
<1> SUFFICES ASSUME Init PROVE TInv
  OBVIOUS
<1>1. TypeOK
  <2>1. /\ at \in [Calls -> Steps] /\ work \in [Calls -> Works] /\ req \in [Calls -> Requests \cup {NoReq}]
        /\ handle \in [Calls -> Handles] /\ table \in [Fds -> Descriptions \cup {Free}]
        /\ answer \in [Calls -> Answers]
    BY DEF Init, Steps, Works, NoWork, Handles, Answers, Systems, NoAnswer
  <2> QED BY <2>1, FilesAssumption DEF Init, TypeOK
<1>2. ASSUME NEW c \in Calls PROVE at[c] = Unasked /\ work[c].buffer = <<>> /\ ~UnderWay(c)
  BY DEF Init, NoWork, UnderWay
<1>3. ASSUME NEW c \in Calls PROVE Sized(c) /\ FilesOK(c) /\ Truth(c)
  BY <1>2 DEF Sized, FilesOK, Truth, ReadTrue, WriteTrue, AppendTrue, CopyTrue, Unasked
<1> QED BY <1>1, <1>3 DEF TInv

\* Every step keeps it.
LEMMA TInvIsKept == IInv /\ TInv /\ [Next]_vars => TInv'
<1> SUFFICES ASSUME IInv, TInv, [Next]_vars PROVE TInv'
  OBVIOUS
<1>0. IInv'
  BY IInvIsKept
<1>1. ASSUME ScriptStep PROVE TInv'
  <2>1. PICK c \in Calls :
           \/ ReadFile(c) \/ WriteFile(c) \/ AppendFile(c) \/ CopyFile(c) \/ Truncate(c) \/ TruncateFails(c) \/ Open(c)
           \/ HandleRead(c) \/ HandleWrite(c) \/ HandleReadFile(c) \/ HandleClose(c)
           \/ Finalize(c)
    BY <1>1 DEF ScriptStep
  <2> QED BY <1>0, <2>1, FileCallsTrue, TruncateTrue, TruncateFailsTrue, MethodsTrue, HandleCloseTrue, FinalizeTrue
<1>2. ASSUME LoopStep PROVE TInv'
  <2>1. PICK c \in Calls :
           \/ ReadfileOpened(c) \/ ReadfileStated(c) \/ ReadfileRead(c) \/ ReadfileClosed(c)
           \/ ReadfilePromiseStated(c) \/ ReadfilePromiseRead(c)
           \/ WritefileOpened(c) \/ AppendfileOpened(c) \/ WritefileWritten(c) \/ WritefileClosed(c)
           \/ CopyfileOpenedSrc(c) \/ CopyfileOpenedDest(c) \/ CopyfileStated(c) \/ CopyfileRead(c)
           \/ CopyfileWritten(c) \/ CopyfileClosedDest(c) \/ CopyfileCleanup(c)
           \/ TruncateCloses(c) \/ TruncateCompleted(c)
           \/ OpenCompleted(c) \/ HandleReadfileStated(c) \/ HandleReadfileRead(c)
           \/ HandleCompleted(c) \/ HandleClosed(c)
    BY <1>2 DEF LoopStep
  <2> QED BY <1>0, <2>1, ReadfileOpenedTrue, ReadfileStatedTrue, ReadfileReadTrue, ReadfileClosedTrue,
             ReadfilePromiseStatedTrue, ReadfilePromiseReadTrue, WritefileOpenedTrue, AppendfileOpenedTrue,
             WritefileWrittenTrue, WritefileClosedTrue, CopyfileOpenedSrcTrue, CopyfileOpenedDestTrue,
             CopyfileStatedTrue, CopyfileReadTrue, CopyfileWrittenTrue, CopyfileClosedDestTrue, CopyfileCleanupTrue,
             TruncateClosesTrue, TruncateCompletedTrue, OpenCompletedTrue, HandleReadfileStatedTrue,
             HandleReadfileReadTrue, HandleCompletedTrue, HandleClosedTrue
<1>3. ASSUME ThreadStep PROVE TInv'
  <2>1. PICK c \in Calls :
           /\ Performed(c)
           /\ \/ SysOpen(c) \/ SysFstat(c) \/ SysRead(c) \/ SysFtruncate(c) \/ SysClose(c)
              \/ \E n \in 1..req[c].n : SysWrite(c, n)
              \/ SysRefused(c) \/ SysFails(c)
    BY <1>3 DEF ThreadStep
  <2> QED BY <1>0, <2>1, SysOpenTrue, SysFstatTrue, SysReadTrue, SysFtruncateTrue, SysCloseTrue, SysWriteTrue,
             SysRefusedTrue, SysFailsTrue
<1>4. CASE UNCHANGED vars
  <2>1. UNCHANGED <<plan, at, work, handle, req, queue, done, table, content, faults, strays, disturbed, cut, answer>>
    BY <1>4 DEF vars, poolVars, kernelVars
  <2>2. TypeOK'
    BY <2>1 DEF TInv, TypeOK
  <2>3. ASSUME NEW c \in Calls PROVE Sized(c)' /\ FilesOK(c)' /\ Truth(c)'
    <3>1. /\ (Queued(c)' <=> Queued(c)) /\ (Arrived(c)' <=> Arrived(c)) /\ (UnderWay(c)' <=> UnderWay(c))
          /\ Source(c)' = Source(c) /\ Target(c)' = Target(c) /\ Data(c)' = Data(c)
      BY <2>1 DEF Queued, Back, Arrived, UnderWay, Source, Target, Data
    <3>2. Sized(c) /\ FilesOK(c) /\ Truth(c)
      BY DEF TInv
    <3>3. Sized(c)' /\ FilesOK(c)'
      BY <2>1, <3>1, <3>2 DEF Sized, Formed, FilesOK, IsOn, ModeOf
    <3>4. \A k : (Copied(c, k)' <=> Copied(c, k)) /\ (Buffered(c, k)' <=> Buffered(c, k))
      BY <2>1, <3>1 DEF Copied, Buffered
    <3>5. Truth(c)'
      BY <2>1, <3>1, <3>2, <3>4 DEF Truth, ReadTrue, WriteTrue, AppendTrue, CopyTrue
    <3> QED BY <3>3, <3>5
  <2> QED BY <2>2, <2>3 DEF TInv
<1> QED BY <1>1, <1>2, <1>3, <1>4 DEF Next

LEMMA TInvariance == Spec => [](IInv /\ TInv)
BY IInvHoldsAtFirst, IInvIsKept, TInvHoldsAtFirst, TInvIsKept, PTL DEF Spec

\* The variables have their types.
THEOREM TypeCorrect == Spec => []TypeOK
<1>1. TInv => TypeOK
  BY DEF TInv
<1> QED BY <1>1, TInvariance, PTL

\* A callback after which its call is under way still, or has failed.
GoesOn(k) ==
    \/ \E ds : Fails(k, ds)
    \/ \E r, step : step # Answered /\ Continues(k, r, step)

LEMMA TellingGoOn ==
    ASSUME NEW k,
           \/ ReadfileOpened(k) \/ ReadfileStated(k) \/ ReadfileRead(k)
           \/ ReadfilePromiseStated(k) \/ ReadfilePromiseRead(k)
           \/ WritefileOpened(k) \/ AppendfileOpened(k) \/ WritefileWritten(k)
           \/ CopyfileOpenedSrc(k) \/ CopyfileOpenedDest(k) \/ CopyfileStated(k) \/ CopyfileRead(k)
           \/ CopyfileWritten(k) \/ CopyfileClosedDest(k)
    PROVE  GoesOn(k)
<1>1. \A r, step : /\ step \in {"openDest", "fstat", "read", "write", "closeDest", "close"}
                    /\ Continues(k, r, step)
                    => GoesOn(k)
  BY DEF GoesOn, Answered
<1>2. \A ds : Fails(k, ds) => GoesOn(k)
  BY DEF GoesOn
<1>3. CASE \/ ReadfileOpened(k) \/ ReadfileStated(k) \/ ReadfileRead(k)
           \/ ReadfilePromiseStated(k) \/ ReadfilePromiseRead(k)
  BY <1>1, <1>2, <1>3
     DEF ReadfileOpened, ReadfileStated, ReadfileRead, ReadfilePromiseStated, ReadfilePromiseRead, ReadsAll
<1>4. CASE WritefileOpened(k) \/ AppendfileOpened(k) \/ WritefileWritten(k)
  BY <1>1, <1>2, <1>4 DEF WritefileOpened, AppendfileOpened, WritefileWritten, WritesAt
<1>5. CASE \/ CopyfileOpenedSrc(k) \/ CopyfileOpenedDest(k) \/ CopyfileStated(k) \/ CopyfileRead(k)
           \/ CopyfileWritten(k) \/ CopyfileClosedDest(k)
  BY <1>1, <1>2, <1>5
     DEF CopyfileOpenedSrc, CopyfileOpenedDest, CopyfileStated, CopyfileRead, CopyfileWritten, CopyfileClosedDest
<1> QED BY <1>3, <1>4, <1>5

\* Which callbacks report a success.
LEMMA WhoReports ==
    ASSUME IInv, TInv, Next, NEW c \in Calls, UnderWay(c), at'[c] = Answered, answer'[c].ok,
           plan[c].op \in Telling
    PROVE  ReadfileClosed(c) \/ WritefileClosed(c) \/ CopyfileCleanup(c)
<1>1. /\ DOMAIN at = Calls /\ DOMAIN answer = Calls /\ at'[c] # at[c] /\ at[c] # Unasked
  BY DEF IInv, Shapes, UnderWay
<1>2. \A k, s : at' = [at EXCEPT ![k] = s] => k = c /\ s = Answered
  BY <1>1
<1>3. \A k, r, s : Ask(k, r, s) => k = c /\ s = Answered
  BY <1>2 DEF Ask
<1>4. \A k, ok, data : Answer(k, ok, data) => k = c /\ ok
  <2>1. ASSUME NEW k, NEW ok, NEW data, Answer(k, ok, data) PROVE k = c /\ ok
    <3>1. k = c
      BY <1>2, <2>1 DEF Answer
    <3> QED BY <1>1, <2>1, <3>1 DEF Answer
  <2> QED BY <2>1
<1>5. \A k, ops : ~(Called(k, ops) /\ k = c)
  BY <1>1 DEF Called
<1>6. ~ScriptStep
  <2>1. \A k : ~(ReadFile(k) \/ WriteFile(k) \/ AppendFile(k) \/ CopyFile(k) \/ Open(k))
    BY <1>3, <1>5 DEF ReadFile, WriteFile, AppendFile, CopyFile, Open
  <2>2. \A k : ~(Truncate(k) \/ TruncateFails(k))
    BY <1>3, <1>4, <1>5 DEF Truncate, TruncateFails
  <2>3. \A k : ~(HandleRead(k) \/ HandleWrite(k) \/ HandleReadFile(k))
    BY <1>3, <1>5 DEF HandleRead, HandleWrite, HandleReadFile, Method
  <2>4. \A k : ~HandleClose(k)
    BY <1>3, <1>4, <1>5 DEF HandleClose
  <2>5. \A k : ~Finalize(k)
    BY <1>1 DEF Finalize
  <2> QED BY <2>1, <2>2, <2>3, <2>4, <2>5 DEF ScriptStep
<1>7. ~ThreadStep
  BY <1>1 DEF ThreadStep, Performed
<1>8. \A k : ~GoesOn(k)
  <2>1. \A k, ds : ~Fails(k, ds)
    BY <1>4 DEF Fails
  <2>2. \A k, r, s : s # Answered => ~Continues(k, r, s)
    BY <1>3 DEF Continues
  <2> QED BY <2>1, <2>2 DEF GoesOn
<1>9. \A k, data : Completes(k, data) => k = c
  BY <1>4 DEF Completes
<1>10. PICK k \in Calls :
           \/ ReadfileClosed(k) \/ WritefileClosed(k) \/ CopyfileCleanup(k)
           \/ TruncateCloses(k) \/ TruncateCompleted(k)
           \/ OpenCompleted(k) \/ HandleReadfileStated(k) \/ HandleReadfileRead(k)
           \/ HandleCompleted(k) \/ HandleClosed(k)
  <2>1. LoopStep
    BY <1>6, <1>7 DEF Next
  <2> QED BY <1>8, <2>1, TellingGoOn DEF LoopStep
<1>11. \A ds : ~Fails(k, ds)
  BY <1>8 DEF GoesOn
<1>12. \A ops, step : Callback(k, ops, step) => plan[k].op \in ops
  BY DEF Callback
<1>13. ~TruncateCloses(k)
  BY <1>1 DEF TruncateCloses
<1>14. TruncateCompleted(k) \/ HandleClosed(k) => k = c /\ plan[k].op \in {"truncate", "handle.close"}
  BY <1>9, <1>11, <1>12 DEF TruncateCompleted, HandleClosed
<1>15. OpenCompleted(k) => k = c /\ plan[k].op = "open"
  BY <1>4, <1>11, <1>12 DEF OpenCompleted
<1>16. HandleReadfileStated(k) => k = c /\ plan[k].op = "handle.readFile"
  <2>1. \A r : ~Continues(k, r, "read")
    BY <1>8 DEF GoesOn, Answered
  <2> QED BY <1>9, <1>11, <1>12, <2>1 DEF HandleReadfileStated
<1>17. HandleReadfileRead(k) => k = c /\ plan[k].op = "handle.readFile"
  BY <1>9, <1>11, <1>12 DEF HandleReadfileRead
<1>18. HandleCompleted(k) => k = c /\ plan[k].op \in {"handle.read", "handle.write"}
  BY <1>9, <1>11, <1>12 DEF HandleCompleted
<1>19. ReadfileClosed(k) \/ WritefileClosed(k) \/ CopyfileCleanup(k) => k = c
  BY <1>9 DEF ReadfileClosed, WritefileClosed, CopyfileCleanup
<1> QED BY <1>10, <1>13, <1>14, <1>15, <1>16, <1>17, <1>18, <1>19 DEF Telling, ReadOps, WriteOps

\* Two bytes that follow each other.
LEMMA InOnePiece ==
    ASSUME NEW s \in Seq(Nat), NEW c \in Nat, Holds(s, c)
    PROVE  \E i \in DOMAIN s : SubSeq(s, i, i + 1) = Data(c)
<1>1. PICK k \in Nat : k = Len(s) /\ DOMAIN s = 1 .. k
  BY LenProperties
<1>2. PICK i \in 1 .. k : i + 1 \in 1 .. k /\ s[i] = c /\ s[i + 1] = c
  BY <1>1 DEF Holds
<1>3. \A j \in i .. i + 1 : s[j] \in Nat
  BY <1>1, <1>2, ElementOfSeq
<1>4. PICK t \in Seq(Nat) : /\ t = SubSeq(s, i, i + 1) /\ Len(t) = 2 /\ t[1] = c /\ t[2] = c
  <2>1. /\ SubSeq(s, i, i + 1) \in Seq(Nat)
        /\ Len(SubSeq(s, i, i + 1)) = IF i <= i + 1 THEN i + 1 - i + 1 ELSE 0
        /\ \A j \in 1 .. i + 1 - i + 1 : SubSeq(s, i, i + 1)[j] = s[i + j - 1]
    BY <1>3, SubSeqProperties
  <2>2. i <= i + 1 /\ i + 1 - i + 1 = 2 /\ i + 1 - 1 = i /\ i + 2 - 1 = i + 1 /\ 1 \in 1 .. 2 /\ 2 \in 1 .. 2
    OBVIOUS
  <2> QED BY <1>2, <2>1, <2>2
<1>5. Data(c) \in Seq(Nat) /\ Len(Data(c)) = 2 /\ \A j \in 1 .. 2 : t[j] = Data(c)[j]
  BY <1>4 DEF Data
<1>6. t = Data(c)
  BY <1>4, <1>5, SeqEqual
<1> QED BY <1>1, <1>4, <1>6

\* What is reported of files that nobody else changed is so.
THEOREM AnswersAreTrue == Spec => AnsweredTruly
<1> DEFINE Said(c) ==
        LET file == content[plan[c].path]
        IN  CASE plan[c].op \in ReadOps    -> answer'[c].data = file
              [] plan[c].op = "copyFile"   -> content[plan[c].dest] = file
              [] plan[c].op = "writeFile"  -> file = Data(c)
              [] plan[c].op = "appendFile" -> \E i \in DOMAIN file : SubSeq(file, i, i + 1) = Data(c)
              [] OTHER                     -> TRUE
<1>1. ASSUME IInv, TInv, Next, NEW c \in Calls, at'[c] = Answered, UnderWay(c), answer'[c].ok, c \notin disturbed \cup cut
      PROVE  Said(c)
  <2>1. CASE plan[c].op \notin Telling
    BY <2>1 DEF Telling, WriteOps
  <2>2. Truth(c) /\ DOMAIN answer = Calls /\ Source(c) \in Seq(Nat)
    BY <1>1 DEF TInv, TypeOK, IInv, Shapes, Source, CallPlans
  <2>3. CASE ReadfileClosed(c)
    <3>1. plan[c].op \in ReadOps /\ at[c] = "close" /\ answer'[c].data = work[c].buffer
      BY <2>2, <2>3 DEF ReadfileClosed, Callback, Completes, Answer
    <3>2. work[c].buffer = Source(c)
      BY <1>1, <2>2, <3>1 DEF Truth, ReadTrue
    <3> QED BY <3>1, <3>2 DEF Source, ReadOps
  <2>4. CASE WritefileClosed(c)
    <3>1. plan[c].op \in WriteOps /\ at[c] = "close"
      BY <2>4 DEF WritefileClosed, Callback
    <3>2. CASE plan[c].op = "writeFile"
      <4>1. Source(c) = Data(c)
        BY <1>1, <2>2, <3>1, <3>2 DEF Truth, WriteTrue
      <4> QED BY <3>2, <4>1 DEF Source, ReadOps
    <3>3. CASE plan[c].op = "appendFile"
      <4>1. Holds(Source(c), c)
        BY <1>1, <2>2, <3>1, <3>3 DEF Truth, AppendTrue
      <4>2. \E i \in DOMAIN Source(c) : SubSeq(Source(c), i, i + 1) = Data(c)
        BY <2>2, <4>1, InOnePiece, FilesAssumption
      <4> QED BY <3>3, <4>2 DEF Source, ReadOps
    <3> QED BY <3>1, <3>2, <3>3 DEF WriteOps
  <2>5. CASE CopyfileCleanup(c)
    <3>1. plan[c].op = "copyFile" /\ at[c] = "close"
      BY <2>5 DEF CopyfileCleanup, Callback
    <3>2. Target(c) = Source(c)
      <4>1. CASE plan[c].path = plan[c].dest
        BY <4>1 DEF Source, Target
      <4>2. CASE plan[c].path # plan[c].dest
        BY <1>1, <2>2, <3>1, <4>2 DEF Truth, CopyTrue
      <4> QED BY <4>1, <4>2
    <3> QED BY <3>1, <3>2 DEF Source, Target, ReadOps
  <2> QED BY <1>1, <2>1, <2>3, <2>4, <2>5, WhoReports
<1>2. IInv /\ TInv /\ [Next]_vars =>
         [\A c \in Calls : at'[c] = Answered /\ UnderWay(c) /\ answer'[c].ok /\ c \notin disturbed \cup cut => Said(c)]_vars
  BY <1>1
<1> QED BY <1>2, TInvariance, PTL DEF Spec, AnsweredTruly

=============================================================================
