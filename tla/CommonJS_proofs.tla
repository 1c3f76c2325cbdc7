--------------------------- MODULE CommonJS_proofs ---------------------------
(***************************************************************************)
(* What holds of the module loader for any set of modules, any capacity of *)
(* the cache and any depth.  The inductive invariant adds to the stacks    *)
(* that nothing being loaded has exports in the cache yet, and that        *)
(* exports that were given are the ones in the cache.                      *)
(*                                                                         *)
(* Then of HttpCache, which has modules that were imported over HTTP: it   *)
(* implements LruService.  The linked structure is shown to be a sequence  *)
(* of nodes, ListOf, and each operation to be one on that sequence.        *)
(***************************************************************************)
EXTENDS CommonJS, Integers, FiniteSetTheorems, SequenceTheorems, WellFoundedInduction, TLAPS

LoadsUncached == \A i \in DOMAIN frames : ~HasExports(frames[i].module)

GivenAreCached ==
    Cardinality(Modules) <= Capacity =>
        \A m \in Modules \ reloaded : \A v \in given[m] :
            v.kind = "exports" => cache[m] = v

Stacks == StackExact /\ NotNested
IInv == TypeOK /\ Stacks /\ LoadsUncached /\ GivenAreCached

\* A module without an entry leaves room in a cache that can hold all modules.
LEMMA RoomLeft ==
    ASSUME NEW c, NEW m \in Modules, c[m] = NotCached
    PROVE  Cardinality(Cached(c)) < Cardinality(Modules)
<1>1. Cached(c) \subseteq Modules /\ m \notin Cached(c)
  BY DEF Cached
<1>2. /\ IsFiniteSet(Cached(c))
      /\ Cardinality(Cached(c)) <= Cardinality(Modules)
      /\ Cardinality(Cached(c)) = Cardinality(Modules) => Modules = Cached(c)
  BY <1>1, FS_Subset, CommonJSAssumption
<1>3. Cardinality(Cached(c)) \in Nat /\ Cardinality(Modules) \in Nat
  BY <1>2, FS_CardinalityType, CommonJSAssumption
<1> QED BY <1>1, <1>2, <1>3

\* Put writes the entry of its module at most.
LEMMA PutType ==
    ASSUME NEW c \in [Modules -> Values \cup {NotCached}], NEW m \in Modules, NEW v \in Values
    PROVE  /\ Put(c, m, v) \in [Modules -> Values \cup {NotCached}]
           /\ \A n \in Modules : n # m => Put(c, m, v)[n] = c[n]
           /\ Put(c, m, v)[m] \in {c[m], v}
BY DEF Put

\* With room for all modules Put does write it.
LEMMA PutWrites ==
    ASSUME NEW c \in [Modules -> Values \cup {NotCached}], NEW m \in Modules,
           NEW v \in Values, Cardinality(Modules) <= Capacity
    PROVE  Put(c, m, v)[m] = v
<1>1. CASE c[m] # NotCached
  BY <1>1 DEF Put
<1>2. CASE c[m] = NotCached
  <2>1. Cardinality(Cached(c)) < Cardinality(Modules)
    BY <1>2, RoomLeft
  <2>2. Cardinality(Cached(c)) < Capacity
    <3>1. Cached(c) \subseteq Modules
      BY DEF Cached
    <3>2. Cardinality(Cached(c)) \in Nat /\ Cardinality(Modules) \in Nat
      BY <3>1, FS_Subset, FS_CardinalityType, CommonJSAssumption
    <3> QED BY <2>1, <3>2, CommonJSAssumption
  <2> QED BY <2>2 DEF Put
<1> QED BY <1>1, <1>2

\* A frame of the stack belongs to a module.
LEMMA FrameType ==
    ASSUME NEW s \in Seq(Frames), NEW i \in DOMAIN s
    PROVE  s[i] \in Frames /\ s[i].module \in Modules
<1>1. s[i] \in Frames
  OBVIOUS
<1> QED BY <1>1 DEF Frames

\* What a return does to the two stacks.
LEMMA PopBoth ==
    ASSUME TypeOK, Stacks, frames # <<>>, Pop, Return
    PROVE  /\ loading' \in Seq(Modules) /\ Len(loading') <= MaxDepth
           /\ frames' \in Seq(Frames)
           /\ Stacks'
           /\ Top \in Frames
           /\ \A i \in DOMAIN frames' : /\ i \in DOMAIN frames
                                        /\ frames'[i] = frames[i]
                                        /\ frames[i].module # Top.module
<1> DEFINE n == Len(frames)
<1>1. n \in Nat /\ n > 0 /\ Len(loading) = n /\ DOMAIN frames = 1 .. n /\ DOMAIN loading = 1 .. n
  BY DEF TypeOK, Stacks, StackExact
<1>2. /\ Len(frames') = n - 1 /\ DOMAIN frames' = 1 .. n - 1
      /\ \A i \in 1 .. n - 1 : frames'[i] = frames[i]
      /\ frames' \in Seq(Frames)
  BY <1>1 DEF TypeOK, Return
<1>3. /\ Len(loading') = n - 1 /\ DOMAIN loading' = 1 .. n - 1
      /\ \A i \in 1 .. n - 1 : loading'[i] = loading[i]
      /\ loading' \in Seq(Modules)
  BY <1>1 DEF TypeOK, Pop
<1>4. Len(loading') <= MaxDepth
  BY <1>1, <1>3, CommonJSAssumption DEF TypeOK
<1>5. StackExact'
  BY <1>1, <1>2, <1>3 DEF Stacks, StackExact
<1>6. NotNested'
  BY <1>1, <1>2 DEF Stacks, NotNested
<1>7. Top \in Frames
  BY <1>1 DEF TypeOK, Top
<1>8. \A i \in 1 .. n - 1 : frames[i].module # Top.module
  BY <1>1 DEF Stacks, NotNested, Top
<1> QED BY <1>1, <1>2, <1>3, <1>4, <1>5, <1>6, <1>7, <1>8 DEF Stacks

(* A fresh context: nothing is cached, no load is under way and the loading
   stack is empty. *)
LEMMA InitIInv == Init => IInv
BY CommonJSAssumption DEF Init, IInv, TypeOK, Stacks, StackExact, NotNested,
                          LoadsUncached, GivenAreCached

\* A circular require: only the entry of a module that has no exports in the
\* cache changes, and to something that is not exports.
LEMMA CircularIInv ==
    ASSUME IInv, NEW m \in Modules, NEW c \in [Modules -> Values \cup {NotCached}],
           Circular(m, c),
           \/ reloaded' = reloaded /\ c = cache
           \/ reloaded' = reloaded \cup {m} /\ c = [cache EXCEPT ![m] = NotCached]
    PROVE  IInv'
<1>1. Partial(m) \in Values
  BY DEF Partial, Values, IInv, TypeOK
<1>2. /\ cache' \in [Modules -> Values \cup {NotCached}]
      /\ \A k \in Modules : k # m => cache'[k] = cache[k]
      /\ cache'[m] \in {NotCached, Partial(m)}
  BY <1>1, PutType DEF Circular
<1>3. \A k \in Modules : HasExports(k)' => k # m /\ HasExports(k)
  BY <1>2 DEF HasExports, Partial
<1>4. TypeOK'
  BY <1>1, <1>2 DEF IInv, TypeOK, Circular, Give
<1>5. Stacks'
  BY DEF IInv, Stacks, StackExact, NotNested, Circular
<1>6. LoadsUncached'
  <2>1. UNCHANGED frames
    BY DEF Circular
  <2>2. \A i \in DOMAIN frames : frames[i].module \in Modules
    BY FrameType DEF IInv, TypeOK
  <2> QED BY <1>3, <2>1, <2>2 DEF IInv, LoadsUncached
<1>7. GivenAreCached'
  <2> SUFFICES ASSUME Cardinality(Modules) <= Capacity,
                      NEW k \in Modules \ reloaded', NEW v \in given'[k], v.kind = "exports"
               PROVE  cache'[k] = v
    BY DEF GivenAreCached
  <2>1. k \notin reloaded /\ v \in given[k]
    BY <1>1 DEF IInv, TypeOK, Circular, Give, Partial
  <2>2. cache[k] = v
    BY <2>1 DEF IInv, GivenAreCached
  <2>3. v # NotCached
    BY <2>1, NotCachedAssumption DEF IInv, TypeOK
  <2>4. k # m
    BY <2>2, <2>3 DEF Circular
  <2> QED BY <1>2, <2>2, <2>4
<1> QED BY <1>4, <1>5, <1>6, <1>7 DEF IInv

\* A require that throws because the stack is full changes nothing, except
\* that reloadModule has removed the entry.
LEMMA TooDeepIInv ==
    ASSUME IInv, NEW m \in Modules, NEW c, TooDeep(m, c),
           \/ reloaded' = reloaded /\ c = cache
           \/ reloaded' = reloaded \cup {m} /\ c = [cache EXCEPT ![m] = NotCached]
    PROVE  IInv'
<1>1. TypeOK'
  BY DEF IInv, TypeOK, TooDeep
<1>2. \A k \in Modules : HasExports(k)' => HasExports(k)
  BY DEF IInv, TypeOK, HasExports, TooDeep
<1>3. Stacks' /\ LoadsUncached'
  BY <1>2 DEF IInv, TypeOK, Stacks, StackExact, NotNested, LoadsUncached, TooDeep, Frames
<1>4. GivenAreCached'
  BY DEF IInv, TypeOK, GivenAreCached, TooDeep
<1> QED BY <1>1, <1>3, <1>4 DEF IInv

\* The beginning of a load pushes a module that is not on the stack and has
\* no entry.
LEMMA BeginLoadIInv ==
    ASSUME IInv, NEW m \in Modules, NEW c, BeginLoad(m, c),
           \/ reloaded' = reloaded /\ c = cache
           \/ reloaded' = reloaded \cup {m} /\ c = [cache EXCEPT ![m] = NotCached]
    PROVE  IInv'
<1> DEFINE n == Len(frames)
           f == [module |-> m, at |-> "content"]
<1>1. /\ n \in Nat /\ Len(loading) = n
      /\ DOMAIN frames = 1 .. n /\ DOMAIN loading = 1 .. n
      /\ f \in Frames
  BY DEF IInv, TypeOK, Stacks, StackExact, Frames
<1>2. /\ frames' \in Seq(Frames) /\ Len(frames') = n + 1
      /\ \A i \in 1 .. n : frames'[i] = frames[i]
      /\ frames'[n + 1] = f
  BY <1>1, AppendProperties DEF IInv, TypeOK, BeginLoad
<1>3. /\ loading' \in Seq(Modules) /\ Len(loading') = n + 1
      /\ \A i \in 1 .. n : loading'[i] = loading[i]
      /\ loading'[n + 1] = m
  BY <1>1, AppendProperties DEF IInv, TypeOK, BeginLoad, Push
<1>4. \A i \in 1 .. n : frames[i].module # m
  BY <1>1 DEF IInv, Stacks, StackExact, BeginLoad, IsLoading
<1>5. \A k \in Modules : HasExports(k)' => HasExports(k) /\ k # m
  BY DEF IInv, TypeOK, HasExports, BeginLoad
<1>6. TypeOK'
  <2>1. cache' \in [Modules -> Values \cup {NotCached}]
    BY DEF IInv, TypeOK, BeginLoad
  <2>2. Len(loading') <= MaxDepth
    BY <1>1, <1>3, CommonJSAssumption DEF BeginLoad
  <2> QED BY <1>2, <1>3, <2>1, <2>2 DEF IInv, TypeOK, BeginLoad
<1>7. Stacks'
  <2>1. StackExact'
    BY <1>1, <1>2, <1>3 DEF IInv, Stacks, StackExact
  <2>2. NotNested'
    BY <1>1, <1>2, <1>4 DEF IInv, Stacks, NotNested
  <2> QED BY <2>1, <2>2 DEF Stacks
<1>8. LoadsUncached'
  <2>1. \A i \in 1 .. n : frames[i].module \in Modules
    BY <1>1, FrameType DEF IInv, TypeOK
  <2>2. \A i \in 1 .. n : ~HasExports(frames[i].module)'
    BY <1>1, <1>2, <1>5, <2>1 DEF IInv, LoadsUncached
  <2>3. ~HasExports(m)' /\ frames'[n + 1].module = m
    BY <1>2, <1>5
  <2> QED BY <1>1, <1>2, <2>2, <2>3 DEF LoadsUncached
<1>9. GivenAreCached'
  BY DEF IInv, TypeOK, GivenAreCached, BeginLoad
<1> QED BY <1>6, <1>7, <1>8, <1>9 DEF IInv

\* Every step keeps the invariant, action by action.
LEMMA NextIInv == IInv /\ [Next]_vars => IInv'
<1> SUFFICES ASSUME IInv, [Next]_vars
             PROVE  IInv'
  OBVIOUS
<1>1. ASSUME NEW m \in Modules, Require(m)
      PROVE  IInv'
  <2>1. CASE FromCache(m)
    <3>1. cache[m] \in Values
      BY <2>1 DEF IInv, TypeOK, FromCache
    <3>2. TypeOK'
      BY <1>1, <2>1, <3>1 DEF IInv, TypeOK, FromCache, Give, Require
    <3>3. Stacks' /\ LoadsUncached'
      BY <2>1 DEF IInv, Stacks, StackExact, NotNested, LoadsUncached, HasExports, FromCache
    <3>4. GivenAreCached'
      BY <1>1, <2>1 DEF IInv, TypeOK, GivenAreCached, FromCache, Give, Require
    <3> QED BY <3>2, <3>3, <3>4 DEF IInv
  <2>2. CASE Load(m, cache)
    BY <1>1, <2>2, CircularIInv, TooDeepIInv, BeginLoadIInv DEF Require, Load, IInv, TypeOK
  <2> QED BY <1>1, <2>1, <2>2 DEF Require
<1>2. ASSUME NEW m \in Modules, Reload(m)
      PROVE  IInv'
  <2>1. [cache EXCEPT ![m] = NotCached] \in [Modules -> Values \cup {NotCached}]
    BY DEF IInv, TypeOK
  <2> QED BY <1>2, <2>1, CircularIInv, TooDeepIInv, BeginLoadIInv DEF Reload, Load
<1>3. CASE ContentFails \/ CodeThrows
  <2>1. frames # <<>> /\ Pop /\ Return /\ UNCHANGED <<cache, runs, given, reloaded>>
    BY <1>3 DEF ContentFails, CodeThrows
  <2>2. /\ loading' \in Seq(Modules) /\ Len(loading') <= MaxDepth
        /\ frames' \in Seq(Frames) /\ Stacks'
        /\ \A i \in DOMAIN frames' : i \in DOMAIN frames /\ frames'[i] = frames[i]
    BY <2>1, PopBoth DEF IInv
  <2> QED BY <2>1, <2>2 DEF IInv, TypeOK, LoadsUncached, GivenAreCached, HasExports
<1>4. CASE CodeStarts
  <2> DEFINE n == Len(frames)
             f == [Top EXCEPT !.at = "code"]
  <2>1. n \in 1 .. Len(frames) /\ Top \in Frames /\ f \in Frames
    <3>1. n \in 1 .. Len(frames) /\ n \in DOMAIN frames
      BY <1>4 DEF IInv, TypeOK, CodeStarts
    <3>2. Top \in Frames
      BY <3>1, FrameType DEF IInv, TypeOK, Top
    <3> QED BY <3>1, <3>2 DEF Frames
  <2>2. /\ frames' \in Seq(Frames) /\ Len(frames') = Len(frames)
        /\ \A i \in 1 .. Len(frames) : frames'[i] = IF i = n THEN f ELSE frames[i]
    <3>1. frames \in Seq(Frames) /\ frames' = [frames EXCEPT ![n] = f]
      BY <1>4 DEF IInv, TypeOK, CodeStarts
    <3> HIDE DEF n, f
    <3> QED BY <2>1, <3>1, ExceptSeq
  <2>3. DOMAIN frames' = DOMAIN frames
    BY <2>2 DEF IInv, TypeOK
  <2>4. \A i \in DOMAIN frames : frames'[i].module = frames[i].module
    BY <2>1, <2>2 DEF IInv, TypeOK, Top, Frames
  <2>5. runs' \in [Modules -> 0 .. MaxRuns]
    <3>1. /\ Top.module \in Modules /\ MaxRuns \in Nat
          /\ runs \in [Modules -> 0 .. MaxRuns]
      BY <2>1, CommonJSAssumption DEF IInv, TypeOK, Frames
    <3>2. runs[Top.module] < MaxRuns /\ runs' = [runs EXCEPT ![Top.module] = @ + 1]
      BY <1>4 DEF CodeStarts
    <3>3. runs[Top.module] + 1 \in 0 .. MaxRuns
      BY <3>1, <3>2
    <3> QED BY <3>1, <3>2, <3>3
  <2>6. TypeOK'
    BY <1>4, <2>2, <2>5 DEF IInv, TypeOK, CodeStarts
  <2>7. Stacks' /\ LoadsUncached' /\ GivenAreCached'
    BY <1>4, <2>2, <2>3, <2>4 DEF IInv, Stacks, StackExact, NotNested, LoadsUncached,
                                  GivenAreCached, HasExports, CodeStarts
  <2> QED BY <2>6, <2>7 DEF IInv
<1>5. CASE CodeReturns
  <2> DEFINE t == Top.module
  <2>1. frames # <<>> /\ Pop /\ Return
    BY <1>5 DEF CodeReturns
  <2>2. /\ loading' \in Seq(Modules) /\ Len(loading') <= MaxDepth
        /\ frames' \in Seq(Frames) /\ Stacks' /\ Top \in Frames
        /\ \A i \in DOMAIN frames' : /\ i \in DOMAIN frames /\ frames'[i] = frames[i]
                                     /\ frames[i].module # t
    BY <2>1, PopBoth DEF IInv
  <2>3. t \in Modules /\ Exports(t) \in Values
    BY <2>2 DEF IInv, TypeOK, Frames, Exports, Values
  <2>4. ~HasExports(t)
    <3>1. Len(frames) \in DOMAIN frames
      BY <2>1 DEF IInv, TypeOK
    <3> QED BY <3>1 DEF IInv, LoadsUncached, Top
  <2>5. /\ cache' \in [Modules -> Values \cup {NotCached}]
        /\ \A k \in Modules : k # t => cache'[k] = cache[k]
    BY <1>5, <2>3, PutType DEF IInv, TypeOK, CodeReturns
  <2>6. TypeOK'
    <3>1. given' \in [Modules -> SUBSET Values]
      <4>1. given' = [given EXCEPT ![t] = @ \cup {Exports(t)}] \/ given' = given
        BY <1>5 DEF CodeReturns, Give
      <4>2. given \in [Modules -> SUBSET Values]
        BY DEF IInv, TypeOK
      <4> QED BY <2>3, <4>1, <4>2
    <3>2. UNCHANGED <<runs, reloaded>>
      BY <1>5, <2>3 DEF IInv, TypeOK, CodeReturns
    <3> QED BY <2>2, <2>5, <3>1, <3>2 DEF IInv, TypeOK
  <2>7. LoadsUncached'
    <3>1. \A i \in DOMAIN frames' : frames'[i].module \in Modules \ {t}
      BY <2>2, FrameType DEF IInv, TypeOK
    <3>2. \A k \in Modules \ {t} : HasExports(k)' => HasExports(k)
      BY <2>5 DEF HasExports
    <3> QED BY <2>2, <3>1, <3>2 DEF IInv, LoadsUncached
  <2>8. GivenAreCached'
    <3> SUFFICES ASSUME Cardinality(Modules) <= Capacity,
                        NEW k \in Modules \ reloaded', NEW v \in given'[k], v.kind = "exports"
                 PROVE  cache'[k] = v
      BY DEF GivenAreCached
    <3>1. k \in Modules \ reloaded
      BY <1>5 DEF CodeReturns
    <3>2. \A w \in given[k] : w.kind = "exports" => cache[k] = w /\ w \in Values
      BY <3>1 DEF IInv, TypeOK, GivenAreCached
    <3>3. CASE k # t
      BY <1>5, <2>5, <3>1, <3>2, <3>3, <2>3 DEF CodeReturns, Give, IInv, TypeOK
    <3>4. CASE k = t
      <4>1. v \notin given[k]
        BY <2>4, <3>2, <3>4, NotCachedAssumption DEF HasExports
      <4>2. v = Exports(t) /\ cache' = Put(cache, t, Exports(t))
        BY <1>5, <2>3, <3>4, <4>1 DEF CodeReturns, Give, IInv, TypeOK
      <4> QED BY <2>3, <3>4, <4>2, PutWrites DEF IInv, TypeOK
    <3> QED BY <3>3, <3>4
  <2> QED BY <2>2, <2>6, <2>7, <2>8 DEF IInv
<1>6. CASE UNCHANGED vars
  BY <1>6 DEF vars, IInv, TypeOK, Stacks, StackExact, NotNested, LoadsUncached,
              GivenAreCached, HasExports
<1> QED BY <1>1, <1>2, <1>3, <1>4, <1>5, <1>6 DEF Next

\* The inductive invariant holds in every reachable state.
THEOREM Invariance == Spec => []IInv
BY InitIInv, NextIInv, PTL DEF Spec

\* Type correctness, with the bound of the loading stack.
THEOREM TypeCorrect == Spec => []TypeOK
BY Invariance, PTL DEF IInv

\* Every way out of the loader pops the entry the call pushed, so the loading
\* stack names the loads under way.
THEOREM LoadingStackIsExact == Spec => []StackExact
BY Invariance, PTL DEF IInv, Stacks

\* No module is started inside its own run, whatever the circles.
THEOREM ModulesDoNotNest == Spec => []NotNested
BY Invariance, PTL DEF IInv, Stacks

\* With room for all modules, a module that is not reloaded has one exports
\* object for everyone.
THEOREM ExportsAreShared == Spec => []OneExports
<1>1. IInv => OneExports
  BY DEF IInv, OneExports, GivenAreCached
<1> QED BY <1>1, Invariance, PTL

NoneRunAgain == \A m \in Modules : runs'[m] # runs[m] => ~HasExports(m)

\* Code is started only of the module on top, which has no exports yet.
LEMMA StepNotRunAgain == IInv /\ [Next]_vars => NoneRunAgain
<1> SUFFICES ASSUME IInv, [Next]_vars, NEW m \in Modules, runs'[m] # runs[m]
             PROVE  ~HasExports(m)
  BY DEF NoneRunAgain
<1>1. CodeStarts
  BY DEF Next, Require, Reload, FromCache, Load, Circular, TooDeep, BeginLoad,
         ContentFails, CodeThrows, CodeReturns, vars
<1>2. m = Top.module
  BY <1>1 DEF CodeStarts, IInv, TypeOK
<1>3. Len(frames) \in DOMAIN frames
  BY <1>1 DEF CodeStarts, IInv, TypeOK
<1> QED BY <1>2, <1>3 DEF IInv, LoadsUncached, Top

\* A module whose exports are cached is not run again.
THEOREM CachedModulesRest == Spec => NotRunAgain
<1>1. Spec => [][NoneRunAgain]_vars
  BY Invariance, StepNotRunAgain, PTL DEF Spec
<1> QED BY <1>1, PTL DEF NotRunAgain, NoneRunAgain

-----------------------------------------------------------------------------
(* The cache of modules imported over HTTP, which the loader of ES modules *)
(* has where require() has its own; what is proved here is of HttpCache,   *)
(* for any urls, buckets and addresses.                                    *)

CONSTANTS Urls, Nodes, Nil, Free, None, Buckets, BucketOf, MaxEntries, TTL, MaxTime
VARIABLES http, fetching, served, now

H == INSTANCE HttpCache WITH cache <- http

\* What HttpCacheAssumption and FreeAssumption say.
HttpAssumed ==
    /\ IsFiniteSet(Nodes) /\ MaxEntries \in 1 .. Cardinality(Nodes)
    /\ BucketOf \in [Urls -> Buckets]
    /\ TTL \in Nat /\ MaxTime \in Nat
    /\ Nil \notin Nodes /\ None \notin Urls
    /\ Free \notin [url : Urls, next : Nodes \cup {Nil}, prev : Nodes \cup {Nil}, expires : Nat]

Caches ==
    [bucket : [Buckets -> H!Pointers], head : H!Pointers, tail : H!Pointers,
     entries : Int, node : [Nodes -> H!NodeStates \cup {Free}], fault : BOOLEAN]

LEMMA HttpSizes ==
    ASSUME HttpAssumed
    PROVE  /\ H!Cardinality(Nodes) \in Nat /\ MaxEntries \in Nat /\ 1 <= MaxEntries
           /\ MaxEntries <= H!Cardinality(Nodes)
<1>1. Cardinality(Nodes) \in Nat
  BY FS_CardinalityType DEF HttpAssumed
<1>2. H!Cardinality(Nodes) = Cardinality(Nodes)
  BY DEF H!Cardinality, Cardinality
<1> QED BY <1>1, <1>2 DEF HttpAssumed

-----------------------------------------------------------------------------
(* Lists of nodes: the LRU list of a cache as a sequence.                  *)

\* The node at a place of the list s, or Nil beyond its ends.
At(s, i) == IF i \in 1 .. Len(s) THEN s[i] ELSE Nil

Without(s, i) == SubSeq(s, 1, i - 1) \o SubSeq(s, i + 1, Len(s))
ToFront(s, i) == <<s[i]>> \o Without(s, i)

\* s has every node of c once.
HasAll(c, s) ==
    /\ s \in Seq(Nodes)
    /\ \A i, j \in 1 .. Len(s) : s[i] = s[j] => i = j
    /\ \A n \in Nodes : n \in H!Live(c) <=> \E i \in 1 .. Len(s) : s[i] = n

\* s is the LRU list of c.
ListOf(c, s) ==
    /\ c \in Caches /\ HasAll(c, s)
    /\ c.head = At(s, 1) /\ c.tail = At(s, Len(s))
    /\ c.entries = Len(s) /\ Len(s) <= MaxEntries
    /\ \A i \in 1 .. Len(s) :
          c.node[s[i]].next = At(s, i + 1) /\ c.node[s[i]].prev = At(s, i - 1)

LEMMA WithoutIs ==
    ASSUME NEW X, NEW s \in Seq(X), NEW i \in 1 .. Len(s)
    PROVE  /\ Without(s, i) \in Seq(X) /\ Len(Without(s, i)) = Len(s) - 1
           /\ \A j \in 1 .. Len(s) - 1 : Without(s, i)[j] = IF j < i THEN s[j] ELSE s[j + 1]
<1> DEFINE l == SubSeq(s, 1, i - 1)
           r == SubSeq(s, i + 1, Len(s))
<1>1. l \in Seq(X) /\ Len(l) = i - 1 /\ \A j \in 1 .. i - 1 : l[j] = s[j]
  OBVIOUS
<1>2. r \in Seq(X) /\ Len(r) = Len(s) - i /\ \A j \in 1 .. Len(s) - i : r[j] = s[i + j]
  OBVIOUS
<1> HIDE DEF l, r
<1>3. Without(s, i) = l \o r
  BY DEF Without, l, r
<1>4. l \o r \in Seq(X) /\ Len(l \o r) = Len(s) - 1
  <2>1. l \o r \in Seq(X) /\ Len(l \o r) = Len(l) + Len(r)
    BY <1>1, <1>2, ConcatProperties
  <2> QED BY <1>1, <1>2, <2>1
<1>5. ASSUME NEW j \in 1 .. Len(s) - 1 PROVE (l \o r)[j] = IF j < i THEN s[j] ELSE s[j + 1]
  <2>1. CASE j < i
    BY <1>1, <1>2, <2>1
  <2>2. CASE ~(j < i)
    <3>1. (l \o r)[j] = r[j - (i - 1)] /\ j - (i - 1) \in 1 .. Len(s) - i
      BY <1>1, <1>2, <2>2
    <3>2. i + (j - (i - 1)) = j + 1
      OBVIOUS
    <3> QED BY <1>2, <2>2, <3>1, <3>2
  <2> QED BY <2>1, <2>2
<1> QED BY <1>3, <1>4, <1>5

LEMMA ToFrontIs ==
    ASSUME NEW X, NEW s \in Seq(X), NEW i \in 1 .. Len(s)
    PROVE  /\ ToFront(s, i) \in Seq(X) /\ Len(ToFront(s, i)) = Len(s)
           /\ \A j \in 1 .. Len(s) :
                 ToFront(s, i)[j] = IF j = 1 THEN s[i] ELSE IF j - 1 < i THEN s[j - 1] ELSE s[j]
<1> DEFINE w == Without(s, i)
<1>1. /\ w \in Seq(X) /\ Len(w) = Len(s) - 1
      /\ \A j \in 1 .. Len(s) - 1 : w[j] = IF j < i THEN s[j] ELSE s[j + 1]
  BY WithoutIs
<1> HIDE DEF w
<1>2. <<s[i]>> \in Seq(X) /\ Len(<<s[i]>>) = 1 /\ <<s[i]>>[1] = s[i]
  OBVIOUS
<1>3. ToFront(s, i) = <<s[i]>> \o w
  BY DEF ToFront, w
<1>4. <<s[i]>> \o w \in Seq(X) /\ Len(<<s[i]>> \o w) = Len(s)
  BY <1>1, <1>2
<1>5. (<<s[i]>> \o w)[1] = s[i]
  BY <1>1, <1>2
<1>6. ASSUME NEW j \in 2 .. Len(s) PROVE (<<s[i]>> \o w)[j] = w[j - 1] /\ j - 1 \in 1 .. Len(s) - 1
  BY <1>1, <1>2
<1>7. ASSUME NEW j \in 2 .. Len(s)
      PROVE  (<<s[i]>> \o w)[j] = IF j - 1 < i THEN s[j - 1] ELSE s[j]
  <2>1. w[j - 1] = IF j - 1 < i THEN s[j - 1] ELSE s[(j - 1) + 1]
    BY <1>1, <1>6
  <2>2. (j - 1) + 1 = j
    OBVIOUS
  <2> QED BY <1>6, <2>1, <2>2
<1>8. ASSUME NEW j \in 1 .. Len(s)
      PROVE  (<<s[i]>> \o w)[j] = IF j = 1 THEN s[i] ELSE IF j - 1 < i THEN s[j - 1] ELSE s[j]
  <2>1. CASE j = 1
    BY <1>5, <2>1
  <2>2. CASE j # 1
    <3>1. j \in 2 .. Len(s)
      BY <2>2
    <3> QED BY <1>7, <2>2, <3>1
  <2> QED BY <2>1, <2>2
<1> HIDE DEF w
<1> QED BY <1>3, <1>4, <1>8

-----------------------------------------------------------------------------
(* Walks.                                                                  *)

LEMMA FirstNumber ==
    ASSUME NEW S \in SUBSET Nat, S # {}
    PROVE  \E m \in S : \A n \in S : m <= n
<1>1. IsWellFoundedOn(OpToRel(<, Nat), Nat)
  BY NatLessThanWellFounded
<1>2. PICK m \in S : \A n \in S : ~(<<n, m>> \in OpToRel(<, Nat))
  BY <1>1, WFMin
<1>3. \A n \in S : ~(n < m)
  BY <1>2 DEF OpToRel
<1> QED BY <1>3

\* The pointer after x on a walk.
Onward(c, x) == IF x \in H!Live(c) THEN c.node[x].next ELSE Nil

\* Whatever goes on from p as Walk does is the walk.
GoesOn(c, p, g) ==
    g = [k \in 0 .. H!Cardinality(Nodes) |-> IF k = 0 THEN p ELSE Onward(c, g[k - 1])]

LEMMA WalkIs ==
    ASSUME HttpAssumed, NEW c, NEW p, NEW g, GoesOn(c, p, g)
    PROVE  H!Walk(c, p) = g
<1> DEFINE N == H!Cardinality(Nodes)
           Goes(f) == f = [k \in 0 .. N |-> IF k = 0 THEN p
                             ELSE IF f[k - 1] \in H!Live(c) THEN c.node[f[k - 1]].next ELSE Nil]
           w == H!Walk(c, p)
<1>1. w = CHOOSE f : Goes(f)
  BY DEF H!Walk
<1>2. Goes(g)
  BY DEF GoesOn, Onward
<1>3. Goes(w)
  BY <1>1, <1>2
<1> DEFINE B == {k \in 0 .. N : w[k] # g[k]}
<1>4. N \in Nat
  BY HttpSizes
<1> HIDE DEF w, N
<1>5. B = {}
  <2> SUFFICES ASSUME B # {} PROVE FALSE
    OBVIOUS
  <2>1. B \in SUBSET Nat
    BY <1>4
  <2>2. PICK k \in B : \A j \in B : k <= j
    BY <2>1, FirstNumber
  <2>3. w[0] = p /\ g[0] = p
    <3>1. 0 \in 0 .. N
      BY <1>4
    <3> QED BY <1>2, <1>3, <3>1
  <2>4. k \in 1 .. N
    BY <2>2, <2>3, <1>4
  <2>5. w[k - 1] = g[k - 1]
    BY <2>2, <2>4, <1>4
  <2>6. /\ w[k] = IF w[k - 1] \in H!Live(c) THEN c.node[w[k - 1]].next ELSE Nil
        /\ g[k] = IF g[k - 1] \in H!Live(c) THEN c.node[g[k - 1]].next ELSE Nil
    BY <1>2, <1>3, <2>4
  <2> QED BY <2>2, <2>5, <2>6
<1>6. \A k \in 0 .. N : w[k] = g[k]
  BY <1>5
<1>7. w = [k \in 0 .. N |-> w[k]] /\ g = [k \in 0 .. N |-> g[k]]
  <2>1. DOMAIN w = 0 .. N /\ DOMAIN g = 0 .. N
    BY <1>2, <1>3, Zenon
  <2>2. w = [k \in 0 .. N |-> IF k = 0 THEN p
                             ELSE IF w[k - 1] \in H!Live(c) THEN c.node[w[k - 1]].next ELSE Nil]
    BY <1>3
  <2>3. g = [k \in 0 .. N |-> IF k = 0 THEN p
                             ELSE IF g[k - 1] \in H!Live(c) THEN c.node[g[k - 1]].next ELSE Nil]
    BY <1>2
  <2>4. w = [k \in 0 .. N |-> w[k]]
    BY <2>2
  <2>5. g = [k \in 0 .. N |-> g[k]]
    BY <2>3
  <2> QED BY <2>4, <2>5
<1> QED BY <1>6, <1>7 DEF w

\* The nodes of c hang on each other as in s, which may be cut before its last.
Strung(c, s, m) ==
    /\ c \in Caches /\ HasAll(c, s)
    /\ Len(s) <= H!Cardinality(Nodes)
    /\ m \in Nat /\ m \in {Len(s), Len(s) - 1}
    /\ \A i \in 1 .. Len(s) : c.node[s[i]].next = IF i = m \/ i = Len(s) THEN Nil ELSE s[i + 1]

LEMMA ListIsStrung ==
    ASSUME HttpAssumed, NEW c, NEW s, ListOf(c, s)
    PROVE  Strung(c, s, Len(s))
<1>1. Len(s) \in Nat /\ Len(s) <= H!Cardinality(Nodes)
  BY HttpSizes DEF ListOf, HasAll
<1>2. \A i \in 1 .. Len(s) : At(s, i + 1) = IF i = Len(s) THEN Nil ELSE s[i + 1]
  BY <1>1 DEF At
<1> QED BY <1>1, <1>2 DEF ListOf, Strung

\* The walk along s from place i, and from nowhere.
EndFrom(s, m, i) == IF i <= m THEN m ELSE Len(s)
Along(s, m, i) ==
    [k \in 0 .. H!Cardinality(Nodes) |-> IF i + k <= EndFrom(s, m, i) THEN s[i + k] ELSE Nil]
Nowhere(p) == [k \in 0 .. H!Cardinality(Nodes) |-> IF k = 0 THEN p ELSE Nil]

\* From a node of c a walk goes to the end of its part of s and to Nil there.
LEMMA WalkFromNode ==
    ASSUME HttpAssumed, NEW c, NEW s, NEW m, Strung(c, s, m), NEW i \in 1 .. Len(s)
    PROVE  H!Walk(c, s[i]) = Along(s, m, i)
<1> DEFINE N == H!Cardinality(Nodes)
           last == EndFrom(s, m, i)
           g == [k \in 0 .. N |-> IF i + k <= last THEN s[i + k] ELSE Nil]
<1>1. N \in Nat /\ Len(s) \in Nat /\ last \in i .. Len(s) /\ s \in Seq(Nodes)
  BY HttpSizes DEF Strung, HasAll, EndFrom
<1>2. Nil \notin H!Live(c)
  BY DEF HttpAssumed, H!Live
<1>3. \A j \in 1 .. Len(s) : s[j] \in H!Live(c)
  BY DEF Strung, HasAll
<1>4. \A j \in i .. last : Onward(c, s[j]) = IF j = last THEN Nil ELSE s[j + 1]
  BY <1>1, <1>3 DEF Strung, Onward, EndFrom
<1> HIDE DEF N, last
<1>5. ASSUME NEW k \in 1 .. N
      PROVE  (IF i + k <= last THEN s[i + k] ELSE Nil)
               = Onward(c, IF i + (k - 1) <= last THEN s[i + (k - 1)] ELSE Nil)
  <2>1. CASE i + (k - 1) <= last
    <3>1. i + (k - 1) \in i .. last /\ (i + (k - 1)) + 1 = i + k
      BY <1>1, <2>1
    <3>2. i + k <= last <=> i + (k - 1) # last
      BY <1>1, <2>1
    <3> QED BY <1>4, <2>1, <3>1, <3>2
  <2>2. CASE ~(i + (k - 1) <= last)
    <3>1. ~(i + k <= last)
      BY <1>1, <2>2
    <3> QED BY <1>2, <2>2, <3>1 DEF Onward
  <2> QED BY <2>1, <2>2
<1>6. ASSUME NEW k \in 0 .. N
      PROVE  (IF i + k <= last THEN s[i + k] ELSE Nil)
               = IF k = 0 THEN s[i] ELSE Onward(c, g[k - 1])
  <2>1. CASE k = 0
    BY <1>1, <2>1
  <2>2. CASE k # 0
    <3>1. k \in 1 .. N /\ k - 1 \in 0 .. N
      BY <1>1, <2>2
    <3> QED BY <1>5, <2>2, <3>1
  <2> QED BY <2>1, <2>2
<1>7. g = [k \in 0 .. N |-> IF k = 0 THEN s[i] ELSE Onward(c, g[k - 1])]
  BY <1>6
<1>8. GoesOn(c, s[i], g)
  BY <1>7 DEF GoesOn, N
<1>9. g = Along(s, m, i)
  BY DEF Along, N, last
<1> HIDE DEF g
<1> QED BY <1>8, <1>9, WalkIs

\* From anything else it goes to Nil at once.
LEMMA WalkFromElse ==
    ASSUME HttpAssumed, NEW c, NEW p, p \notin H!Live(c)
    PROVE  H!Walk(c, p) = Nowhere(p)
<1> DEFINE N == H!Cardinality(Nodes)
           g == [k \in 0 .. N |-> IF k = 0 THEN p ELSE Nil]
<1>1. N \in Nat
  BY HttpSizes
<1>2. Nil \notin H!Live(c)
  BY DEF HttpAssumed, H!Live
<1> HIDE DEF N
<1>3. ASSUME NEW k \in 0 .. N PROVE (IF k = 0 THEN p ELSE Nil) = IF k = 0 THEN p ELSE Onward(c, g[k - 1])
  <2>1. CASE k = 0
    BY <2>1
  <2>2. CASE k # 0
    <3>1. k - 1 \in 0 .. N
      BY <1>1, <2>2
    <3>2. g[k - 1] \in {p, Nil}
      BY <3>1
    <3> QED BY <1>2, <2>2, <3>2 DEF Onward
  <2> QED BY <2>1, <2>2
<1>4. g = [k \in 0 .. N |-> IF k = 0 THEN p ELSE Onward(c, g[k - 1])]
  BY <1>3
<1>5. GoesOn(c, p, g)
  BY <1>4 DEF GoesOn, N
<1>6. g = Nowhere(p)
  BY DEF Nowhere, N
<1> HIDE DEF g
<1> QED BY <1>5, <1>6, WalkIs

\* A walk goes from node to node until it is off the live nodes, and that happens.
LEMMA WalkEnds ==
    ASSUME HttpAssumed, NEW c, NEW s, NEW m, Strung(c, s, m), NEW p
    PROVE  LET at == H!Walk(c, p)
               N == H!Cardinality(Nodes)
           IN  /\ DOMAIN at = 0 .. N /\ at[0] = p
               /\ \A k \in 1 .. N : at[k - 1] \in H!Live(c) => at[k] = c.node[at[k - 1]].next
               /\ \E k \in 0 .. N : at[k] \notin H!Live(c)
<1> DEFINE at == H!Walk(c, p)
           N == H!Cardinality(Nodes)
<1>1. N \in Nat /\ Len(s) \in Nat /\ Len(s) <= N
  BY HttpSizes DEF Strung, HasAll
<1>2. Nil \notin H!Live(c)
  BY DEF HttpAssumed, H!Live
<1>3. CASE p \in H!Live(c)
  <2>1. PICK i \in 1 .. Len(s) : s[i] = p
    <3>1. p \in Nodes
      BY <1>3 DEF H!Live
    <3> QED BY <1>3, <3>1 DEF Strung, HasAll
  <2> DEFINE last == EndFrom(s, m, i)
  <2>2. at = [k \in 0 .. N |-> IF i + k <= last THEN s[i + k] ELSE Nil]
    <3>1. H!Walk(c, s[i]) = Along(s, m, i)
      BY WalkFromNode
    <3> QED BY <2>1, <3>1 DEF Along
  <2>3. last \in i .. Len(s) /\ i \in Nat
    BY <1>1 DEF Strung, EndFrom
  <2>4. \A j \in i .. last : c.node[s[j]].next = IF j = last THEN Nil ELSE s[j + 1]
    BY <1>1, <2>3 DEF Strung, EndFrom
  <2> HIDE DEF at, N, last
  <2>5. DOMAIN at = 0 .. N /\ at[0] = p
    BY <1>1, <2>1, <2>2, <2>3
  <2>6. ASSUME NEW k \in 1 .. N, at[k - 1] \in H!Live(c) PROVE at[k] = c.node[at[k - 1]].next
    <3>1. k - 1 \in 0 .. N /\ k \in 0 .. N
      BY <1>1
    <3>2. at[k - 1] = IF i + (k - 1) <= last THEN s[i + (k - 1)] ELSE Nil
      BY <2>2, <3>1
    <3>3. i + (k - 1) <= last /\ at[k - 1] = s[i + (k - 1)]
      BY <1>2, <2>6, <3>2
    <3>4. i + (k - 1) \in i .. last /\ (i + (k - 1)) + 1 = i + k
      BY <2>3, <3>3
    <3>5. c.node[at[k - 1]].next = IF i + (k - 1) = last THEN Nil ELSE s[i + k]
      BY <2>4, <3>3, <3>4
    <3>6. at[k] = IF i + k <= last THEN s[i + k] ELSE Nil
      BY <2>2, <3>1
    <3>7. i + k <= last <=> i + (k - 1) # last
      BY <2>3, <3>3
    <3> QED BY <3>5, <3>6, <3>7
  <2>7. last - i + 1 \in 0 .. N /\ ~(i + (last - i + 1) <= last)
    BY <1>1, <2>3
  <2>8. at[last - i + 1] = Nil
    BY <2>2, <2>7
  <2>9. \E k \in 0 .. N : at[k] \notin H!Live(c)
    BY <1>2, <2>7, <2>8
  <2> QED BY <2>5, <2>6, <2>9 DEF at, N
<1>4. CASE p \notin H!Live(c)
  <2>1. at = [k \in 0 .. N |-> IF k = 0 THEN p ELSE Nil]
    BY <1>4, WalkFromElse DEF Nowhere
  <2> HIDE DEF at, N
  <2>2. DOMAIN at = 0 .. N /\ at[0] = p /\ 0 \in 0 .. N
    BY <1>1, <2>1
  <2>3. ASSUME NEW k \in 1 .. N, at[k - 1] \in H!Live(c) PROVE FALSE
    <3>1. k - 1 \in 0 .. N
      BY <1>1
    <3>2. at[k - 1] \in {p, Nil}
      BY <2>1, <3>1
    <3> QED BY <1>2, <1>4, <2>3, <3>2
  <2> QED BY <1>4, <2>2, <2>3 DEF at, N
<1> QED BY <1>3, <1>4

\* Where the search along a bucket ends.
LEMMA SearchEnds ==
    ASSUME HttpAssumed, NEW c, NEW s, NEW m, Strung(c, s, m), NEW b, NEW T
    PROVE  LET at == H!Walk(c, c.bucket[b])
               k == H!StopsAt(c, b, T)
           IN  /\ k \in 0 .. H!Cardinality(Nodes)
               /\ at[k] \notin H!Live(c) \ T
               /\ \A j \in 0 .. k - 1 : at[j] \in H!Live(c) \ T
               /\ k # 0 => k - 1 \in 0 .. k - 1 /\ at[k] = c.node[at[k - 1]].next
               /\ k = 0 => at[k] = c.bucket[b]
<1> DEFINE at == H!Walk(c, c.bucket[b])
           N == H!Cardinality(Nodes)
           Stop(k) == at[k] \notin H!Live(c) \ T /\ \A j \in 0 .. k - 1 : at[j] \in H!Live(c) \ T
           S == {k \in 0 .. N : at[k] \notin H!Live(c) \ T}
           k == H!StopsAt(c, b, T)
<1>1. /\ N \in Nat /\ DOMAIN at = 0 .. N /\ at[0] = c.bucket[b]
      /\ \A j \in 1 .. N : at[j - 1] \in H!Live(c) => at[j] = c.node[at[j - 1]].next
      /\ \E j \in 0 .. N : at[j] \notin H!Live(c)
  BY WalkEnds, HttpSizes
<1>2. k = CHOOSE j \in DOMAIN at : Stop(j)
  BY DEF H!StopsAt
<1> HIDE DEF at, N, k
<1>3. PICK j \in S : \A i \in S : j <= i
  <2>1. S \in SUBSET Nat /\ S # {}
    BY <1>1
  <2> QED BY <2>1, FirstNumber
<1>4. j \in DOMAIN at /\ Stop(j)
  <2>1. \A i \in 0 .. j - 1 : i \in 0 .. N /\ i \notin S
    BY <1>1, <1>3
  <2> QED BY <1>1, <1>3, <2>1
<1>5. k \in DOMAIN at /\ Stop(k)
  BY <1>2, <1>4
<1>6. k \in 0 .. N
  BY <1>1, <1>5
<1>7. k # 0 => k - 1 \in 0 .. k - 1 /\ k \in 1 .. N
  BY <1>1, <1>6
<1> QED BY <1>1, <1>5, <1>6, <1>7 DEF at, N, k

-----------------------------------------------------------------------------
(* The operations.                                                         *)

\* d has the nodes of c, with what they are of.
SameNodes(c, d) ==
    /\ d \in Caches /\ H!Live(d) = H!Live(c)
    /\ \A n \in H!Live(c) : d.node[n].url = c.node[n].url /\ d.node[n].expires = c.node[n].expires

\* The links of c, but for what follows p and comes before q.
Linked(c, d, p, next, q, prev) ==
    \A n \in H!Live(c) :
        /\ d.node[n].next = IF n = p THEN next ELSE c.node[n].next
        /\ d.node[n].prev = IF n = q THEN prev ELSE c.node[n].prev

SameEnds(c, d) == d.head = c.head /\ d.tail = c.tail /\ d.entries = c.entries

LEMMA LiveNodes ==
    ASSUME NEW c \in Caches, NEW n \in H!Live(c)
    PROVE  n \in Nodes /\ c.node[n] \in H!NodeStates
BY DEF Caches, H!Live

LEMMA LiveIs == ASSUME HttpAssumed PROVE Nil \notin Nodes /\ Free \notin H!NodeStates
BY DEF HttpAssumed, H!NodeStates, H!Pointers

LEMMA SetNextIs ==
    ASSUME HttpAssumed, NEW c \in Caches, NEW p \in H!Live(c) \cup {Nil}, NEW v \in H!Pointers
    PROVE  LET d == H!SetNext(c, p, v)
           IN  SameNodes(c, d) /\ SameEnds(c, d) /\ Linked(c, d, p, v, Nil, Nil)
<1> DEFINE d == H!SetNext(c, p, v)
<1>1. CASE p = Nil
  <2>1. d = c
    BY <1>1 DEF H!SetNext
  <2>2. \A n \in H!Live(c) : n # Nil
    BY LiveIs DEF H!Live
  <2> QED BY <1>1, <2>1, <2>2 DEF SameNodes, SameEnds, Linked
<1>2. CASE p # Nil
  <2>1. p \in H!Live(c) /\ p \in Nodes /\ c.node[p] \in H!NodeStates
    BY <1>2, LiveNodes
  <2> DEFINE x == [c.node[p] EXCEPT !.next = v]
  <2>2. /\ x \in H!NodeStates /\ x.next = v /\ x.prev = c.node[p].prev
        /\ x.url = c.node[p].url /\ x.expires = c.node[p].expires
    BY <2>1 DEF H!NodeStates
  <2>3. d = [c EXCEPT !.node = [c.node EXCEPT ![p] = x]]
    BY <1>2, <2>1 DEF H!SetNext, Caches
  <2> HIDE DEF x, d
  <2> DEFINE node == [c.node EXCEPT ![p] = x]
  <2>4. node \in [Nodes -> H!NodeStates \cup {Free}] /\ \A n \in Nodes : node[n] = IF n = p THEN x ELSE c.node[n]
    BY <2>1, <2>2 DEF Caches
  <2> HIDE DEF node
  <2>5. d \in Caches /\ d.node = node /\ SameEnds(c, d)
    BY <2>3, <2>4 DEF Caches, SameEnds, node
  <2>6. x # Free /\ c.node[p] # Free
    BY <2>1, <2>2, LiveIs
  <2>7. H!Live(d) = H!Live(c)
    BY <2>1, <2>4, <2>5, <2>6 DEF H!Live
  <2>8. \A n \in H!Live(c) : n \in Nodes /\ n # Nil
    BY LiveIs DEF H!Live
  <2>9. \A n \in H!Live(c) : d.node[n] = IF n = p THEN x ELSE c.node[n]
    BY <2>4, <2>5, <2>8
  <2>10. SameNodes(c, d)
    BY <2>2, <2>5, <2>7, <2>9 DEF SameNodes
  <2>11. Linked(c, d, p, v, Nil, Nil)
    BY <2>2, <2>8, <2>9 DEF Linked
  <2> QED BY <2>5, <2>10, <2>11 DEF d
<1> QED BY <1>1, <1>2

LEMMA SetPrevIs ==
    ASSUME HttpAssumed, NEW c \in Caches, NEW q \in H!Live(c) \cup {Nil}, NEW v \in H!Pointers
    PROVE  LET d == H!SetPrev(c, q, v)
           IN  SameNodes(c, d) /\ SameEnds(c, d) /\ Linked(c, d, Nil, Nil, q, v)
<1> DEFINE d == H!SetPrev(c, q, v)
<1>1. CASE q = Nil
  <2>1. d = c
    BY <1>1 DEF H!SetPrev
  <2>2. \A n \in H!Live(c) : n # Nil
    BY LiveIs DEF H!Live
  <2> QED BY <1>1, <2>1, <2>2 DEF SameNodes, SameEnds, Linked
<1>2. CASE q # Nil
  <2>1. q \in H!Live(c) /\ q \in Nodes /\ c.node[q] \in H!NodeStates
    BY <1>2, LiveNodes
  <2> DEFINE x == [c.node[q] EXCEPT !.prev = v]
  <2>2. /\ x \in H!NodeStates /\ x.prev = v /\ x.next = c.node[q].next
        /\ x.url = c.node[q].url /\ x.expires = c.node[q].expires
    BY <2>1 DEF H!NodeStates
  <2>3. d = [c EXCEPT !.node = [c.node EXCEPT ![q] = x]]
    BY <1>2, <2>1 DEF H!SetPrev, Caches
  <2> HIDE DEF x, d
  <2> DEFINE node == [c.node EXCEPT ![q] = x]
  <2>4. node \in [Nodes -> H!NodeStates \cup {Free}] /\ \A n \in Nodes : node[n] = IF n = q THEN x ELSE c.node[n]
    BY <2>1, <2>2 DEF Caches
  <2> HIDE DEF node
  <2>5. d \in Caches /\ d.node = node /\ SameEnds(c, d)
    BY <2>3, <2>4 DEF Caches, SameEnds, node
  <2>6. x # Free /\ c.node[q] # Free
    BY <2>1, <2>2, LiveIs
  <2>7. H!Live(d) = H!Live(c)
    BY <2>1, <2>4, <2>5, <2>6 DEF H!Live
  <2>8. \A n \in H!Live(c) : n \in Nodes /\ n # Nil
    BY LiveIs DEF H!Live
  <2>9. \A n \in H!Live(c) : d.node[n] = IF n = q THEN x ELSE c.node[n]
    BY <2>4, <2>5, <2>8
  <2>10. SameNodes(c, d)
    BY <2>2, <2>5, <2>7, <2>9 DEF SameNodes
  <2>11. Linked(c, d, Nil, Nil, q, v)
    BY <2>2, <2>8, <2>9 DEF Linked
  <2> QED BY <2>5, <2>10, <2>11 DEF d
<1> QED BY <1>1, <1>2

\* p and q are joined: `if (p) p->next = q; if (q) q->prev = p`.
LEMMA JoinIs ==
    ASSUME HttpAssumed, NEW c \in Caches, NEW p \in H!Live(c) \cup {Nil}, NEW q \in H!Live(c) \cup {Nil}
    PROVE  LET d == H!SetPrev(H!SetNext(c, p, q), q, p)
           IN  SameNodes(c, d) /\ SameEnds(c, d) /\ Linked(c, d, p, q, q, p)
<1> DEFINE e == H!SetNext(c, p, q)
           d == H!SetPrev(e, q, p)
<1>1. p \in H!Pointers /\ q \in H!Pointers
  BY DEF H!Pointers, H!Live
<1>2. SameNodes(c, e) /\ SameEnds(c, e) /\ Linked(c, e, p, q, Nil, Nil)
  BY <1>1, SetNextIs
<1>3. e \in Caches /\ H!Live(e) = H!Live(c)
  BY <1>2 DEF SameNodes
<1> HIDE DEF e
<1>4. SameNodes(e, d) /\ SameEnds(e, d) /\ Linked(e, d, Nil, Nil, q, p)
  BY <1>1, <1>3, SetPrevIs
<1>5. \A n \in H!Live(c) : n # Nil
  BY LiveIs DEF H!Live
<1> HIDE DEF d
<1>6. SameNodes(c, d) /\ SameEnds(c, d)
  BY <1>2, <1>4 DEF SameNodes, SameEnds
<1>7. Linked(c, d, p, q, q, p)
  BY <1>2, <1>3, <1>4, <1>5 DEF Linked
<1> QED BY <1>6, <1>7 DEF d, e

\* What Unchain does: nothing, or it steps on a freed node, or the bucket or the
\* node that has n as its next gets the next of n.
LEMMA UnchainIs ==
    ASSUME HttpAssumed, NEW c, NEW s, NEW m, Strung(c, s, m), NEW b \in Buckets, NEW n \in H!Live(c)
    PROVE  LET d == H!Unchain(c, b, n)
               v == c.node[n].next
           IN  /\ SameNodes(c, d) /\ SameEnds(c, d)
               /\ \/ Linked(c, d, Nil, Nil, Nil, Nil)
                  \/ \E p \in H!Live(c) : c.node[p].next = n /\ Linked(c, d, p, v, Nil, Nil)
<1> DEFINE d == H!Unchain(c, b, n)
           v == c.node[n].next
           at == H!Walk(c, c.bucket[b])
           k == H!StopsAt(c, b, {n})
<1>0. \A x \in H!Live(c) : x # Nil
  BY LiveIs DEF H!Live
<1>1. c \in Caches /\ v \in H!Pointers
  BY LiveNodes DEF Strung, H!NodeStates
<1>2. /\ at[k] \notin H!Live(c) \ {n}
      /\ k # 0 => at[k - 1] \in H!Live(c) /\ at[k] = c.node[at[k - 1]].next
  <2>1. /\ at[k] \notin H!Live(c) \ {n}
        /\ \A j \in 0 .. k - 1 : at[j] \in H!Live(c) \ {n}
        /\ k # 0 => k - 1 \in 0 .. k - 1 /\ at[k] = c.node[at[k - 1]].next
    BY SearchEnds
  <2> HIDE DEF at, k
  <2> QED BY <2>1
<1>3. d = IF at[k] = Nil THEN c
          ELSE IF at[k] # n THEN [c EXCEPT !.fault = TRUE]
          ELSE IF k = 0 THEN [c EXCEPT !.bucket[b] = v]
          ELSE H!SetNext(c, at[k - 1], v)
  BY DEF H!Unchain
<1> HIDE DEF at, k, d, v
<1>4. CASE d = c
  BY <1>0, <1>1, <1>4 DEF SameNodes, SameEnds, Linked, d, v
<1>5. CASE d = [c EXCEPT !.fault = TRUE]
  <2>1. d \in Caches /\ d.node = c.node /\ SameEnds(c, d)
    BY <1>1, <1>5 DEF Caches, SameEnds
  <2> QED BY <1>0, <2>1 DEF SameNodes, Linked, H!Live, d
<1>6. CASE d = [c EXCEPT !.bucket[b] = v]
  <2>1. [c.bucket EXCEPT ![b] = v] \in [Buckets -> H!Pointers]
    BY <1>1 DEF Caches
  <2>2. d = [c EXCEPT !.bucket = [c.bucket EXCEPT ![b] = v]]
    BY <1>1, <1>6 DEF Caches
  <2>3. d \in Caches /\ d.node = c.node /\ SameEnds(c, d)
    BY <1>1, <2>1, <2>2 DEF Caches, SameEnds
  <2> QED BY <1>0, <2>3 DEF SameNodes, Linked, H!Live, d
<1>7. CASE k # 0 /\ at[k] = n /\ d = H!SetNext(c, at[k - 1], v)
  <2>1. at[k - 1] \in H!Live(c) /\ c.node[at[k - 1]].next = n
    BY <1>2, <1>7
  <2>2. SameNodes(c, d) /\ SameEnds(c, d) /\ Linked(c, d, at[k - 1], v, Nil, Nil)
    BY <1>1, <1>7, <2>1, SetNextIs
  <2> QED BY <2>1, <2>2 DEF d, v
<1> QED BY <1>2, <1>3, <1>4, <1>5, <1>6, <1>7

LEMMA ListNodes ==
    ASSUME HttpAssumed, NEW c, NEW s, ListOf(c, s)
    PROVE  /\ c \in Caches /\ s \in Seq(Nodes) /\ Len(s) \in Nat /\ c.entries = Len(s)
           /\ c.head = At(s, 1) /\ c.tail = At(s, Len(s))
           /\ \A j \in 1 .. Len(s) : s[j] \in H!Live(c) /\ s[j] \in Nodes /\ s[j] # Nil
           /\ \A j : At(s, j) \in H!Live(c) \cup {Nil} /\ At(s, j) \in H!Pointers
           /\ \A j, k \in 1 .. Len(s) : s[j] = s[k] => j = k
           /\ \A j \in 1 .. Len(s) :
                 c.node[s[j]].next = At(s, j + 1) /\ c.node[s[j]].prev = At(s, j - 1)
<1>1. c \in Caches /\ s \in Seq(Nodes) /\ HasAll(c, s)
  BY DEF ListOf, HasAll
<1>2. \A j \in 1 .. Len(s) : s[j] \in Nodes
  BY <1>1
<1>3. \A j \in 1 .. Len(s) : s[j] \in H!Live(c) /\ s[j] # Nil
  BY <1>1, <1>2, LiveIs DEF HasAll
<1>4. \A j : At(s, j) \in H!Live(c) \cup {Nil} /\ At(s, j) \in H!Pointers
  BY <1>2, <1>3 DEF At, H!Pointers
<1>5. Len(s) \in Nat
  BY <1>1
<1> QED BY <1>1, <1>2, <1>3, <1>4, <1>5 DEF ListOf, HasAll

LEMMA NodeOfList ==
    ASSUME HttpAssumed, NEW c, NEW s, ListOf(c, s), NEW n \in H!Live(c)
    PROVE  \E i \in 1 .. Len(s) : s[i] = n
BY DEF ListOf, HasAll, H!Live

\* A node goes out of the list.
LEMMA ListWithout ==
    ASSUME HttpAssumed, NEW c, NEW s, ListOf(c, s), NEW i \in 1 .. Len(s), NEW d \in Caches,
           H!Live(d) = H!Live(c) \ {s[i]},
           d.entries = Len(s) - 1,
           d.head = IF i = 1 THEN At(s, 2) ELSE s[1],
           d.tail = IF i = Len(s) THEN At(s, Len(s) - 1) ELSE s[Len(s)],
           \A j \in 1 .. Len(s) : j # i =>
              /\ d.node[s[j]].next = IF j = i - 1 THEN At(s, i + 1) ELSE At(s, j + 1)
              /\ d.node[s[j]].prev = IF j = i + 1 THEN At(s, i - 1) ELSE At(s, j - 1)
    PROVE  ListOf(d, Without(s, i))
<1> DEFINE t == Without(s, i)
           L == Len(s)
           Place(j) == IF j < i THEN j ELSE j + 1
<1>1. s \in Seq(Nodes) /\ L \in Nat /\ L <= MaxEntries /\ MaxEntries \in Nat
  BY ListNodes, HttpSizes DEF ListOf
<1>2. t \in Seq(Nodes) /\ Len(t) = L - 1 /\ \A j \in 1 .. L - 1 : t[j] = s[Place(j)]
  BY <1>1, WithoutIs
<1>3. \A j \in 1 .. L - 1 : Place(j) \in 1 .. L /\ Place(j) # i
  BY <1>1
<1>4. \A j, k \in 1 .. L - 1 : Place(j) = Place(k) => j = k
  BY <1>1
<1>5. \A k \in 1 .. L : k # i => \E j \in 1 .. L - 1 : Place(j) = k
  <2> SUFFICES ASSUME NEW k \in 1 .. L, k # i PROVE \E j \in 1 .. L - 1 : Place(j) = k
    OBVIOUS
  <2>1. CASE k < i
    <3>1. k \in 1 .. L - 1 /\ Place(k) = k
      BY <1>1, <2>1
    <3> QED BY <3>1
  <2>2. CASE ~(k < i)
    <3>1. k - 1 \in 1 .. L - 1 /\ Place(k - 1) = k
      BY <1>1, <2>2
    <3> QED BY <3>1
  <2> QED BY <2>1, <2>2
<1>6. /\ \A j, k \in 1 .. L : s[j] = s[k] => j = k
      /\ \A n \in Nodes : n \in H!Live(c) <=> \E j \in 1 .. L : s[j] = n
  BY DEF ListOf, HasAll
<1>7. HasAll(d, t)
  <2>1. \A j, k \in 1 .. Len(t) : t[j] = t[k] => j = k
    <3> SUFFICES ASSUME NEW j \in 1 .. L - 1, NEW k \in 1 .. L - 1, t[j] = t[k] PROVE j = k
      BY <1>2
    <3>1. s[Place(j)] = s[Place(k)] /\ Place(j) \in 1 .. L /\ Place(k) \in 1 .. L
      BY <1>2, <1>3
    <3>2. Place(j) = Place(k)
      BY <1>6, <3>1
    <3> QED BY <1>4, <3>2
  <2>2. ASSUME NEW n \in Nodes, n \in H!Live(d) PROVE \E j \in 1 .. Len(t) : t[j] = n
    <3>1. PICK k \in 1 .. L : s[k] = n
      BY <1>6, <2>2
    <3>2. k # i
      BY <2>2, <3>1
    <3>3. PICK j \in 1 .. L - 1 : Place(j) = k
      BY <1>5, <3>2
    <3> QED BY <1>2, <3>1, <3>3
  <2>3. ASSUME NEW n \in Nodes, NEW j \in 1 .. Len(t), t[j] = n PROVE n \in H!Live(d)
    <3>1. n = s[Place(j)] /\ Place(j) \in 1 .. L /\ Place(j) # i
      BY <1>2, <1>3, <2>3
    <3>2. n \in H!Live(c) /\ n # s[i]
      BY <1>6, <3>1
    <3> QED BY <3>2
  <2> QED BY <1>2, <2>1, <2>2, <2>3 DEF HasAll
<1>8. \A j \in 0 .. L : At(t, j) = IF j < i THEN At(s, j) ELSE At(s, j + 1)
  BY <1>1, <1>2 DEF At
<1>9. d.head = At(t, 1) /\ d.tail = At(t, L - 1)
  <2>1. 1 \in 0 .. L /\ L - 1 \in 0 .. L /\ 1 + 1 = 2 /\ (L - 1) + 1 = L
    BY <1>1
  <2>2. At(t, 1) = IF 1 < i THEN At(s, 1) ELSE At(s, 2)
    BY <1>8, <2>1
  <2>3. At(t, L - 1) = IF L - 1 < i THEN At(s, L - 1) ELSE At(s, L)
    BY <1>8, <2>1
  <2>4. 1 < i <=> i # 1
    BY <1>1
  <2>5. L - 1 < i <=> i = L
    BY <1>1
  <2>6. At(s, 1) = s[1] /\ At(s, L) = s[L]
    BY <1>1 DEF At
  <2> QED BY <2>2, <2>3, <2>4, <2>5, <2>6
<1> HIDE DEF t
<1>10. ASSUME NEW j \in 1 .. L - 1
       PROVE  d.node[t[j]].next = At(t, j + 1) /\ d.node[t[j]].prev = At(t, j - 1)
  <2>1. t[j] = s[Place(j)] /\ Place(j) \in 1 .. L /\ Place(j) # i
    BY <1>2, <1>3
  <2>2. /\ d.node[t[j]].next = IF Place(j) = i - 1 THEN At(s, i + 1) ELSE At(s, Place(j) + 1)
        /\ d.node[t[j]].prev = IF Place(j) = i + 1 THEN At(s, i - 1) ELSE At(s, Place(j) - 1)
    BY <2>1
  <2>3. /\ At(t, j + 1) = IF j + 1 < i THEN At(s, j + 1) ELSE At(s, (j + 1) + 1)
        /\ At(t, j - 1) = IF j - 1 < i THEN At(s, j - 1) ELSE At(s, (j - 1) + 1)
    <3>1. j + 1 \in 0 .. L /\ j - 1 \in 0 .. L
      BY <1>1
    <3> QED BY <1>8, <3>1
  <2>4. (j + 1) + 1 = j + 2 /\ (j - 1) + 1 = j
    OBVIOUS
  <2>5. CASE j < i
    <3>1. Place(j) = j
      BY <2>5
    <3>2. CASE j = i - 1
      <4>1. ~(j + 1 < i) /\ j - 1 < i /\ j + 2 = i + 1 /\ j # i + 1
        BY <3>2, <1>1
      <4> QED BY <2>2, <2>3, <2>4, <3>1, <3>2, <4>1
    <3>3. CASE j # i - 1
      <4>1. j + 1 < i /\ j - 1 < i /\ j # i + 1
        BY <2>5, <3>3, <1>1
      <4> QED BY <2>2, <2>3, <3>1, <3>3, <4>1
    <3> QED BY <3>2, <3>3
  <2>6. CASE ~(j < i)
    <3>1. Place(j) = j + 1 /\ ~(j + 1 < i) /\ j + 1 # i - 1 /\ (j + 1) - 1 = j
      BY <2>6, <1>1
    <3>2. CASE j = i
      <4>1. j - 1 < i /\ j + 1 = i + 1 /\ j - 1 = i - 1
        BY <3>2, <1>1
      <4> QED BY <2>2, <2>3, <2>4, <3>1, <4>1
    <3>3. CASE j # i
      <4>1. ~(j - 1 < i) /\ j + 1 # i + 1
        BY <2>6, <3>3, <1>1
      <4> QED BY <2>2, <2>3, <2>4, <3>1, <4>1
    <3> QED BY <3>2, <3>3
  <2> QED BY <2>5, <2>6
<1> QED BY <1>1, <1>2, <1>7, <1>9, <1>10 DEF ListOf, t

LEMMA ReleaseIs ==
    ASSUME HttpAssumed, NEW c \in Caches, NEW n \in H!Live(c)
    PROVE  LET d == H!Release(c, n)
           IN  /\ d \in Caches /\ H!Live(d) = H!Live(c) \ {n}
               /\ d.head = c.head /\ d.tail = c.tail /\ d.entries = c.entries - 1
               /\ \A x \in H!Live(d) : d.node[x] = c.node[x]
<1> DEFINE d == H!Release(c, n)
           node == [c.node EXCEPT ![n] = Free]
<1>1. node \in [Nodes -> H!NodeStates \cup {Free}] /\ \A x \in Nodes : node[x] = IF x = n THEN Free ELSE c.node[x]
  BY DEF Caches
<1> DEFINE e == [c EXCEPT !.node = node]
<1> HIDE DEF node
<1>2. e \in Caches /\ e.node = node /\ e.head = c.head /\ e.tail = c.tail /\ e.entries = c.entries
  BY <1>1 DEF Caches
<1>3. d = [e EXCEPT !.entries = c.entries - 1]
  BY DEF H!Release, Caches, node
<1>4. c.entries \in Int
  BY DEF Caches
<1> HIDE DEF d, e
<1>5. d \in Caches /\ d.node = node /\ d.head = c.head /\ d.tail = c.tail /\ d.entries = c.entries - 1
  BY <1>2, <1>3, <1>4 DEF Caches
<1> QED BY <1>1, <1>5 DEF H!Live, d

LEMMA BucketOfNode ==
    ASSUME HttpAssumed, NEW c \in Caches, NEW n \in H!Live(c)
    PROVE  BucketOf[c.node[n].url] \in Buckets
BY LiveNodes DEF HttpAssumed, H!NodeStates

\* An entry is removed, and its neighbours joined.
LEMMA RemoveIs ==
    ASSUME HttpAssumed, NEW c, NEW s, ListOf(c, s), NEW i \in 1 .. Len(s), NEW u \in Urls
    PROVE  LET d == H!RemoveNode(c, u, s[i])
           IN  /\ ListOf(d, Without(s, i)) /\ H!Live(d) = H!Live(c) \ {s[i]}
               /\ \A x \in H!Live(d) : d.node[x].url = c.node[x].url /\ d.node[x].expires = c.node[x].expires
<1> DEFINE L == Len(s)
           n == s[i]
           p == At(s, i - 1)
           q == At(s, i + 1)
           b == BucketOf[u]
           e == H!Unchain(c, b, n)
           f == H!SetPrev(H!SetNext(e, p, q), q, p)
           hd == IF p = Nil THEN q ELSE f.head
           tl == IF q = Nil THEN p ELSE f.tail
           g == [f EXCEPT !.head = hd, !.tail = tl]
           d == H!Release(g, n)
<1>1. /\ c \in Caches /\ s \in Seq(Nodes) /\ L \in Nat /\ c.entries = L
      /\ c.head = At(s, 1) /\ c.tail = At(s, L)
      /\ \A j \in 1 .. L : s[j] \in H!Live(c) /\ s[j] # Nil
      /\ \A j : At(s, j) \in H!Live(c) \cup {Nil} /\ At(s, j) \in H!Pointers
      /\ \A j, k \in 1 .. L : s[j] = s[k] => j = k
      /\ \A j \in 1 .. L : c.node[s[j]].next = At(s, j + 1) /\ c.node[s[j]].prev = At(s, j - 1)
  BY ListNodes
<1>2. n \in H!Live(c) /\ c.node[n].prev = p /\ c.node[n].next = q /\ b \in Buckets
  BY <1>1 DEF HttpAssumed
<1>3. H!RemoveNode(c, u, n) = d
  BY <1>2 DEF H!RemoveNode
<1>4. /\ SameNodes(c, e) /\ SameEnds(c, e)
      /\ \/ Linked(c, e, Nil, Nil, Nil, Nil)
         \/ \E x \in H!Live(c) : c.node[x].next = n /\ Linked(c, e, x, q, Nil, Nil)
  BY <1>2, ListIsStrung, UnchainIs
<1>5. \A x \in H!Live(c) : x # Nil
  BY LiveIs DEF H!Live
<1>6. /\ p \in H!Live(c) \cup {Nil} /\ q \in H!Live(c) \cup {Nil}
      /\ e \in Caches /\ H!Live(e) = H!Live(c)
  BY <1>1, <1>4 DEF SameNodes
<1> HIDE DEF e, p, q
<1>7. SameNodes(e, f) /\ SameEnds(e, f) /\ Linked(e, f, p, q, q, p)
  BY <1>6, JoinIs
<1>8. ASSUME NEW x \in H!Live(c), c.node[x].next = n PROVE x = p
  <2>1. PICK j \in 1 .. L : s[j] = x
    BY NodeOfList
  <2>2. At(s, j + 1) = s[i]
    BY <1>1, <1>8, <2>1
  <2>3. j + 1 \in 1 .. L /\ s[j + 1] = s[i]
    BY <1>1, <2>2 DEF At
  <2>4. j = i - 1
    BY <1>1, <2>3
  <2> QED BY <1>1, <2>1, <2>4 DEF p, At
<1>9. Linked(c, e, Nil, Nil, Nil, Nil) \/ Linked(c, e, p, q, Nil, Nil)
  BY <1>4, <1>8
<1> HIDE DEF f
<1>10. \A x \in H!Live(c) :
          /\ f.node[x].next = IF x = p THEN q ELSE c.node[x].next
          /\ f.node[x].prev = IF x = q THEN p ELSE c.node[x].prev
  BY <1>5, <1>6, <1>7, <1>9 DEF Linked
<1>11. SameNodes(c, f) /\ SameEnds(c, f)
  BY <1>4, <1>7 DEF SameNodes, SameEnds
<1>12. p \in H!Pointers /\ q \in H!Pointers /\ hd \in H!Pointers /\ tl \in H!Pointers
  BY <1>1, <1>11 DEF SameNodes, Caches, p, q
<1> HIDE DEF hd, tl
<1>13. /\ g \in Caches /\ g.node = f.node /\ g.head = hd /\ g.tail = tl /\ g.entries = L
  <2> DEFINE h == [f EXCEPT !.head = hd]
  <2>1. f \in Caches /\ f.entries = L
    BY <1>1, <1>11 DEF SameNodes, SameEnds
  <2>2. h \in Caches /\ h.node = f.node /\ h.head = hd /\ h.entries = L
    BY <1>12, <2>1 DEF Caches
  <2>3. g = [h EXCEPT !.tail = tl]
    BY <2>1 DEF Caches
  <2> HIDE DEF h, g
  <2> QED BY <1>12, <2>2, <2>3 DEF Caches
<1> HIDE DEF g
<1>14. H!Live(g) = H!Live(c)
  <2>1. H!Live(f) = H!Live(c)
    BY <1>11 DEF SameNodes
  <2> QED BY <1>13, <2>1 DEF H!Live
<1>15. /\ d \in Caches /\ H!Live(d) = H!Live(c) \ {n}
       /\ d.head = hd /\ d.tail = tl /\ d.entries = L - 1
       /\ \A x \in H!Live(d) : d.node[x] = f.node[x]
  BY <1>2, <1>13, <1>14, ReleaseIs
<1> HIDE DEF d
<1>16. hd = IF i = 1 THEN At(s, 2) ELSE s[1]
  <2>1. f.head = s[1] /\ (p = Nil <=> i = 1)
    BY <1>1, <1>11 DEF SameEnds, At, p
  <2>2. i = 1 => q = At(s, 2)
    BY DEF q
  <2> QED BY <2>1, <2>2 DEF hd
<1>17. tl = IF i = L THEN At(s, L - 1) ELSE s[L]
  <2>1. f.tail = s[L] /\ (q = Nil <=> i = L)
    BY <1>1, <1>11 DEF SameEnds, At, q
  <2>2. i = L => p = At(s, L - 1)
    BY DEF p
  <2> QED BY <2>1, <2>2 DEF tl
<1>18. ASSUME NEW j \in 1 .. L, j # i
       PROVE  /\ d.node[s[j]].next = IF j = i - 1 THEN At(s, i + 1) ELSE At(s, j + 1)
              /\ d.node[s[j]].prev = IF j = i + 1 THEN At(s, i - 1) ELSE At(s, j - 1)
  <2>1. s[j] \in H!Live(c) /\ s[j] \in H!Live(d)
    BY <1>1, <1>15, <1>18
  <2>2. /\ d.node[s[j]].next = IF s[j] = p THEN q ELSE At(s, j + 1)
        /\ d.node[s[j]].prev = IF s[j] = q THEN p ELSE At(s, j - 1)
    BY <1>1, <1>10, <1>15, <2>1
  <2>3. s[j] = p <=> j = i - 1
    BY <1>1 DEF At, p
  <2>4. s[j] = q <=> j = i + 1
    BY <1>1 DEF At, q
  <2> QED BY <2>2, <2>3, <2>4 DEF p, q
<1>19. ListOf(d, Without(s, i))
  BY <1>15, <1>16, <1>17, <1>18, ListWithout
<1>20. \A x \in H!Live(d) : d.node[x].url = c.node[x].url /\ d.node[x].expires = c.node[x].expires
  BY <1>11, <1>15 DEF SameNodes
<1> QED BY <1>3, <1>15, <1>19, <1>20

\* An entry that is used comes to the front.
LEMMA ListToFront ==
    ASSUME HttpAssumed, NEW c, NEW s, ListOf(c, s), NEW i \in 2 .. Len(s), NEW d \in Caches,
           H!Live(d) = H!Live(c),
           d.entries = Len(s), d.head = s[i],
           d.tail = IF i = Len(s) THEN s[i - 1] ELSE s[Len(s)],
           \A j \in 1 .. Len(s) :
              /\ d.node[s[j]].next = IF j = i THEN s[1] ELSE IF j = i - 1 THEN At(s, i + 1)
                                     ELSE At(s, j + 1)
              /\ d.node[s[j]].prev = IF j = 1 THEN s[i] ELSE IF j = i THEN Nil
                                     ELSE IF j = i + 1 THEN s[i - 1] ELSE At(s, j - 1)
    PROVE  ListOf(d, ToFront(s, i))
<1> DEFINE t == ToFront(s, i)
           L == Len(s)
           Place(j) == IF j = 1 THEN i ELSE IF j - 1 < i THEN j - 1 ELSE j
<1>1. s \in Seq(Nodes) /\ L \in Nat /\ L <= MaxEntries /\ MaxEntries \in Nat /\ i \in 1 .. L
  BY ListNodes, HttpSizes DEF ListOf
<1>2. t \in Seq(Nodes) /\ Len(t) = L /\ \A j \in 1 .. L : t[j] = s[Place(j)]
  BY <1>1, ToFrontIs
<1>3. \A j \in 1 .. L : Place(j) \in 1 .. L
  BY <1>1
<1>4. \A j, k \in 1 .. L : Place(j) = Place(k) => j = k
  BY <1>1
<1>5. \A k \in 1 .. L : \E j \in 1 .. L : Place(j) = k
  <2> SUFFICES ASSUME NEW k \in 1 .. L PROVE \E j \in 1 .. L : Place(j) = k
    OBVIOUS
  <2>1. CASE k = i
    <3>1. 1 \in 1 .. L /\ Place(1) = k
      BY <1>1, <2>1
    <3> QED BY <3>1
  <2>2. CASE k < i
    <3>1. k + 1 \in 1 .. L /\ Place(k + 1) = k
      BY <1>1, <2>2
    <3> QED BY <3>1
  <2>3. CASE i < k
    <3>1. Place(k) = k
      BY <1>1, <2>3
    <3> QED BY <3>1
  <2> QED BY <1>1, <2>1, <2>2, <2>3
<1>6. /\ \A j, k \in 1 .. L : s[j] = s[k] => j = k
      /\ \A n \in Nodes : n \in H!Live(c) <=> \E j \in 1 .. L : s[j] = n
  BY DEF ListOf, HasAll
<1>7. HasAll(d, t)
  <2>1. \A j, k \in 1 .. Len(t) : t[j] = t[k] => j = k
    <3> SUFFICES ASSUME NEW j \in 1 .. L, NEW k \in 1 .. L, t[j] = t[k] PROVE j = k
      BY <1>2
    <3>1. s[Place(j)] = s[Place(k)] /\ Place(j) \in 1 .. L /\ Place(k) \in 1 .. L
      BY <1>2, <1>3
    <3>2. Place(j) = Place(k)
      BY <1>6, <3>1
    <3> QED BY <1>4, <3>2
  <2>2. ASSUME NEW n \in Nodes, n \in H!Live(d) PROVE \E j \in 1 .. Len(t) : t[j] = n
    <3>1. PICK k \in 1 .. L : s[k] = n
      BY <1>6, <2>2
    <3>2. PICK j \in 1 .. L : Place(j) = k
      BY <1>5
    <3> QED BY <1>2, <3>1, <3>2
  <2>3. ASSUME NEW n \in Nodes, NEW j \in 1 .. Len(t), t[j] = n PROVE n \in H!Live(d)
    <3>1. n = s[Place(j)] /\ Place(j) \in 1 .. L
      BY <1>2, <1>3, <2>3
    <3> QED BY <1>6, <3>1
  <2> QED BY <1>2, <2>1, <2>2, <2>3 DEF HasAll
<1>8. /\ At(t, 0) = Nil /\ At(t, 1) = s[i] /\ At(t, L + 1) = Nil
      /\ \A j \in 2 .. L : At(t, j) = IF j - 1 < i THEN s[j - 1] ELSE s[j]
  BY <1>1, <1>2 DEF At
<1>9. d.head = At(t, 1) /\ d.tail = At(t, L)
  <2>1. At(t, L) = IF L - 1 < i THEN s[L - 1] ELSE s[L]
    <3>1. L \in 2 .. L
      BY <1>1
    <3> QED BY <1>8, <3>1
  <2>2. L - 1 < i <=> i = L
    BY <1>1
  <2> QED BY <1>8, <2>1, <2>2
<1> HIDE DEF t
<1>10. ASSUME NEW j \in 1 .. L
       PROVE  d.node[t[j]].next = At(t, j + 1) /\ d.node[t[j]].prev = At(t, j - 1)
  <2>1. t[j] = s[Place(j)] /\ Place(j) \in 1 .. L
    BY <1>2, <1>3
  <2> DEFINE k == Place(j)
  <2>2. /\ d.node[t[j]].next = IF k = i THEN s[1] ELSE IF k = i - 1 THEN At(s, i + 1) ELSE At(s, k + 1)
        /\ d.node[t[j]].prev = IF k = 1 THEN s[i] ELSE IF k = i THEN Nil
                               ELSE IF k = i + 1 THEN s[i - 1] ELSE At(s, k - 1)
    BY <2>1
  <2>3. CASE j = 1
    <3>1. k = i /\ k # 1
      BY <2>3
    <3>2. At(t, 2) = s[1]
      <4>1. 2 \in 2 .. L /\ 2 - 1 = 1 /\ 1 < i
        BY <1>1
      <4> QED BY <1>8, <4>1
    <3> QED BY <1>8, <2>2, <2>3, <3>1, <3>2
  <2>4. CASE j # 1 /\ j - 1 < i
    <3>1. k = j - 1 /\ j \in 2 .. L /\ k # i /\ k # i + 1 /\ k + 1 = j
      BY <1>1, <2>4
    <3>2. d.node[t[j]].next = At(t, j + 1)
      <4>1. CASE k = i - 1
        <5>1. j = i /\ At(t, i + 1) = At(s, i + 1)
          <6>1. CASE i = L
            BY <1>1, <1>8, <3>1, <4>1, <6>1 DEF At
          <6>2. CASE i # L
            <7>1. i + 1 \in 2 .. L /\ ~((i + 1) - 1 < i)
              BY <1>1, <6>2
            <7>2. At(t, i + 1) = s[i + 1] /\ At(s, i + 1) = s[i + 1]
              BY <1>8, <7>1 DEF At
            <7> QED BY <1>1, <3>1, <4>1, <7>2
          <6> QED BY <6>1, <6>2
        <5> QED BY <2>2, <3>1, <4>1, <5>1
      <4>2. CASE k # i - 1
        <5>1. j + 1 \in 2 .. L /\ (j + 1) - 1 = j /\ j < i /\ j \in 1 .. L
          BY <1>1, <2>4, <3>1, <4>2
        <5>2. At(t, j + 1) = s[j] /\ At(s, j) = s[j]
          BY <1>8, <5>1 DEF At
        <5> QED BY <2>2, <3>1, <4>2, <5>2
      <4> QED BY <4>1, <4>2
    <3>3. d.node[t[j]].prev = At(t, j - 1)
      <4>1. CASE k = 1
        BY <1>8, <2>2, <3>1, <4>1
      <4>2. CASE k # 1
        <5>1. j - 1 \in 2 .. L /\ (j - 1) - 1 = k - 1 /\ k - 1 < i /\ k - 1 \in 1 .. L
          BY <1>1, <3>1, <2>4, <4>2
        <5>2. At(t, j - 1) = s[k - 1] /\ At(s, k - 1) = s[k - 1]
          BY <1>8, <5>1 DEF At
        <5> QED BY <2>2, <3>1, <4>2, <5>2
      <4> QED BY <4>1, <4>2
    <3> QED BY <3>2, <3>3
  <2>5. CASE j # 1 /\ ~(j - 1 < i)
    <3>1. k = j /\ j \in 2 .. L /\ i < j /\ k # i /\ k # i - 1 /\ k # 1
      BY <1>1, <2>5
    <3>2. At(t, j + 1) = At(s, j + 1)
      <4>1. CASE j = L
        BY <1>1, <1>8, <4>1 DEF At
      <4>2. CASE j # L
        <5>1. j + 1 \in 2 .. L /\ ~((j + 1) - 1 < i) /\ j + 1 \in 1 .. L
          BY <1>1, <3>1, <4>2
        <5>2. At(s, j + 1) = s[j + 1]
          BY <5>1 DEF At
        <5> QED BY <1>8, <5>1, <5>2
      <4> QED BY <4>1, <4>2
    <3>3. d.node[t[j]].prev = At(t, j - 1)
      <4>1. CASE j = i + 1
        <5>1. j - 1 = i /\ i \in 2 .. L /\ i - 1 < i
          BY <1>1, <4>1
        <5>2. At(t, j - 1) = s[i - 1]
          BY <1>8, <5>1
        <5> QED BY <2>2, <3>1, <4>1, <5>2
      <4>2. CASE j # i + 1
        <5>1. j - 1 \in 2 .. L /\ ~((j - 1) - 1 < i) /\ j - 1 \in 1 .. L
          BY <1>1, <3>1, <4>2
        <5>2. At(s, j - 1) = s[j - 1]
          BY <5>1 DEF At
        <5>3. At(t, j - 1) = s[j - 1]
          BY <1>8, <5>1
        <5> QED BY <2>2, <3>1, <4>2, <5>2, <5>3
      <4> QED BY <4>1, <4>2
    <3> QED BY <2>2, <3>1, <3>2, <3>3
  <2> QED BY <2>3, <2>4, <2>5
<1> QED BY <1>1, <1>2, <1>7, <1>9, <1>10 DEF ListOf, t

LEMMA FirstToFront ==
    ASSUME NEW X, NEW s \in Seq(X), Len(s) # 0
    PROVE  ToFront(s, 1) = s
<1>1. Len(s) \in Nat /\ 1 \in 1 .. Len(s)
  OBVIOUS
<1>2. /\ ToFront(s, 1) \in Seq(X) /\ Len(ToFront(s, 1)) = Len(s)
      /\ \A j \in 1 .. Len(s) :
            ToFront(s, 1)[j] = IF j = 1 THEN s[1] ELSE IF j - 1 < 1 THEN s[j - 1] ELSE s[j]
  BY <1>1, ToFrontIs
<1>3. \A j \in 1 .. Len(s) : ToFront(s, 1)[j] = s[j]
  <2> SUFFICES ASSUME NEW j \in 1 .. Len(s) PROVE ToFront(s, 1)[j] = s[j]
    OBVIOUS
  <2>1. j # 1 => ~(j - 1 < 1)
    BY <1>1
  <2> QED BY <1>2, <2>1
<1> QED BY <1>2, <1>3, SeqEqual

LEMMA MoveIs ==
    ASSUME HttpAssumed, NEW c, NEW s, ListOf(c, s), NEW i \in 1 .. Len(s)
    PROVE  LET d == H!MoveToFront(c, s[i])
           IN  ListOf(d, ToFront(s, i)) /\ SameNodes(c, d)
<1> DEFINE L == Len(s)
           n == s[i]
           p == At(s, i - 1)
           q == At(s, i + 1)
           e == H!SetPrev(H!SetNext(c, p, q), q, p)
           f == H!SetPrev(e, n, Nil)
           g == H!SetNext(f, n, e.head)
           h == H!SetPrev(g, e.head, n)
           tl == IF n = c.tail THEN p ELSE h.tail
           d == [h EXCEPT !.head = n, !.tail = tl]
<1>1. /\ c \in Caches /\ s \in Seq(Nodes) /\ L \in Nat /\ c.entries = L
      /\ c.head = At(s, 1) /\ c.tail = At(s, L)
      /\ \A j \in 1 .. L : s[j] \in H!Live(c) /\ s[j] \in Nodes /\ s[j] # Nil
      /\ \A j : At(s, j) \in H!Live(c) \cup {Nil} /\ At(s, j) \in H!Pointers
      /\ \A j, k \in 1 .. L : s[j] = s[k] => j = k
      /\ \A j \in 1 .. L : c.node[s[j]].next = At(s, j + 1) /\ c.node[s[j]].prev = At(s, j - 1)
  BY ListNodes
<1>2. c.head = s[1] /\ c.tail = s[L] /\ 1 \in 1 .. L /\ L \in 1 .. L
  BY <1>1 DEF At
<1>3. n \in H!Live(c) /\ c.node[n].prev = p /\ c.node[n].next = q /\ n \in H!Pointers /\ Nil \in H!Pointers
  BY <1>1 DEF H!Pointers
<1>4. H!MoveToFront(c, n) = IF n = c.head THEN c ELSE d
  BY <1>3 DEF H!MoveToFront
<1>5. CASE i = 1
  <2>1. ToFront(s, i) = s
    BY <1>1, <1>2, <1>5, FirstToFront
  <2>2. H!MoveToFront(c, n) = c
    BY <1>2, <1>4, <1>5
  <2> QED BY <1>1, <2>1, <2>2 DEF SameNodes
<1>6. CASE i # 1
  <2>1. i \in 2 .. L /\ n # c.head /\ p = s[i - 1] /\ i - 1 \in 1 .. L
    BY <1>1, <1>2, <1>6 DEF At
  <2>2. p \in H!Live(c) \cup {Nil} /\ q \in H!Live(c) \cup {Nil} /\ c.head \in H!Live(c) /\ c.head \in H!Pointers
    BY <1>1, <1>2
  <2> HIDE DEF p, q
  <2>3. SameNodes(c, e) /\ SameEnds(c, e) /\ Linked(c, e, p, q, q, p)
    BY <1>1, <2>2, JoinIs
  <2>4. e \in Caches /\ H!Live(e) = H!Live(c) /\ e.head = c.head
    BY <2>3 DEF SameNodes, SameEnds
  <2> HIDE DEF e
  <2>5. SameNodes(e, f) /\ SameEnds(e, f) /\ Linked(e, f, Nil, Nil, n, Nil)
    BY <1>3, <2>4, SetPrevIs
  <2>6. f \in Caches /\ H!Live(f) = H!Live(c)
    BY <2>4, <2>5 DEF SameNodes
  <2> HIDE DEF f
  <2>7. SameNodes(f, g) /\ SameEnds(f, g) /\ Linked(f, g, n, c.head, Nil, Nil)
    BY <1>3, <2>2, <2>4, <2>6, SetNextIs
  <2>8. g \in Caches /\ H!Live(g) = H!Live(c)
    BY <2>6, <2>7 DEF SameNodes
  <2> HIDE DEF g
  <2>9. SameNodes(g, h) /\ SameEnds(g, h) /\ Linked(g, h, Nil, Nil, c.head, n)
    BY <1>3, <2>2, <2>4, <2>8, SetPrevIs
  <2> HIDE DEF h
  <2>10. SameNodes(c, h) /\ SameEnds(c, h)
    <3>1. SameNodes(c, f) /\ SameEnds(c, f)
      BY <2>3, <2>5 DEF SameNodes, SameEnds
    <3>2. SameNodes(c, g) /\ SameEnds(c, g)
      BY <2>7, <3>1 DEF SameNodes, SameEnds
    <3> QED BY <2>9, <3>2 DEF SameNodes, SameEnds
  <2>11. \A x \in H!Live(c) :
            /\ h.node[x].next = IF x = n THEN s[1] ELSE IF x = p THEN q ELSE c.node[x].next
            /\ h.node[x].prev = IF x = s[1] THEN n ELSE IF x = n THEN Nil ELSE IF x = q THEN p
                                ELSE c.node[x].prev
    <3> SUFFICES ASSUME NEW x \in H!Live(c)
                 PROVE  /\ h.node[x].next = IF x = n THEN s[1] ELSE IF x = p THEN q ELSE c.node[x].next
                        /\ h.node[x].prev = IF x = s[1] THEN n ELSE IF x = n THEN Nil
                                            ELSE IF x = q THEN p ELSE c.node[x].prev
      OBVIOUS
    <3>1. x # Nil
      BY LiveIs DEF H!Live
    <3>2. /\ e.node[x].next = IF x = p THEN q ELSE c.node[x].next
          /\ e.node[x].prev = IF x = q THEN p ELSE c.node[x].prev
      BY <2>3 DEF Linked
    <3>3. f.node[x].next = e.node[x].next /\ f.node[x].prev = IF x = n THEN Nil ELSE e.node[x].prev
      BY <2>4, <2>5, <3>1 DEF Linked
    <3>4. g.node[x].next = (IF x = n THEN s[1] ELSE f.node[x].next) /\ g.node[x].prev = f.node[x].prev
      BY <1>2, <2>6, <2>7, <3>1 DEF Linked
    <3>5. h.node[x].next = g.node[x].next /\ h.node[x].prev = IF x = s[1] THEN n ELSE g.node[x].prev
      BY <1>2, <2>8, <2>9, <3>1 DEF Linked
    <3> QED BY <3>2, <3>3, <3>4, <3>5
  <2>12. p \in H!Pointers /\ h \in Caches /\ tl \in H!Pointers
    BY <1>1, <2>1, <2>10 DEF SameNodes, Caches, H!Pointers
  <2>13. tl = IF i = L THEN s[i - 1] ELSE s[L]
    BY <1>1, <1>2, <2>1, <2>10 DEF SameEnds
  <2> HIDE DEF tl
  <2>14. d \in Caches /\ d.node = h.node /\ d.head = n /\ d.tail = tl /\ d.entries = L
    <3> DEFINE m == [h EXCEPT !.head = n]
    <3>1. h.entries = L
      BY <1>1, <2>10 DEF SameEnds
    <3>2. m \in Caches /\ m.node = h.node /\ m.head = n /\ m.entries = L
      BY <1>3, <2>12, <3>1 DEF Caches
    <3>3. d = [m EXCEPT !.tail = tl]
      BY <2>12 DEF Caches
    <3> HIDE DEF m, d
    <3> QED BY <2>12, <3>2, <3>3 DEF Caches
  <2> HIDE DEF d
  <2>15. SameNodes(c, d)
    BY <2>10, <2>14 DEF SameNodes, H!Live
  <2>16. ASSUME NEW j \in 1 .. L
         PROVE  /\ d.node[s[j]].next = IF j = i THEN s[1] ELSE IF j = i - 1 THEN At(s, i + 1)
                                       ELSE At(s, j + 1)
                /\ d.node[s[j]].prev = IF j = 1 THEN s[i] ELSE IF j = i THEN Nil
                                       ELSE IF j = i + 1 THEN s[i - 1] ELSE At(s, j - 1)
    <3>1. s[j] \in H!Live(c)
      BY <1>1
    <3>2. /\ d.node[s[j]].next = IF s[j] = n THEN s[1] ELSE IF s[j] = p THEN q ELSE At(s, j + 1)
          /\ d.node[s[j]].prev = IF s[j] = s[1] THEN n ELSE IF s[j] = n THEN Nil
                                 ELSE IF s[j] = q THEN p ELSE At(s, j - 1)
      BY <1>1, <2>11, <2>14, <3>1
    <3>3. (s[j] = n <=> j = i) /\ (s[j] = s[1] <=> j = 1)
      BY <1>1, <1>2
    <3>4. s[j] = p <=> j = i - 1
      BY <1>1, <2>1
    <3>5. s[j] = q <=> j = i + 1
      BY <1>1 DEF At, q
    <3> QED BY <2>1, <3>2, <3>3, <3>4, <3>5 DEF q
  <2>17. ListOf(d, ToFront(s, i))
    BY <2>1, <2>13, <2>14, <2>15, <2>16, ListToFront DEF SameNodes
  <2> QED BY <1>4, <2>1, <2>15, <2>17
<1> QED BY <1>5, <1>6

\* The last entry is pushed out.  Nothing links to it any more when it is looked
\* for in its bucket.
LEMMA EvictIs ==
    ASSUME HttpAssumed, NEW c, NEW s, ListOf(c, s), Len(s) # 0
    PROVE  LET d == H!EvictLru(c)
           IN  /\ ListOf(d, Without(s, Len(s))) /\ H!Live(d) = H!Live(c) \ {s[Len(s)]}
               /\ \A x \in H!Live(d) : d.node[x].url = c.node[x].url /\ d.node[x].expires = c.node[x].expires
<1> DEFINE L == Len(s)
           n == s[L]
           p == At(s, L - 1)
           e == H!SetNext(c, p, Nil)
           hd == IF p = Nil THEN Nil ELSE e.head
           f == [e EXCEPT !.tail = p, !.head = hd]
           b == BucketOf[c.node[n].url]
           g == H!Unchain(f, b, n)
           d == H!Release(g, n)
<1>1. /\ c \in Caches /\ s \in Seq(Nodes) /\ L \in Nat /\ c.entries = L
      /\ c.head = At(s, 1) /\ c.tail = At(s, L)
      /\ \A j \in 1 .. L : s[j] \in H!Live(c) /\ s[j] \in Nodes /\ s[j] # Nil
      /\ \A j : At(s, j) \in H!Live(c) \cup {Nil} /\ At(s, j) \in H!Pointers
      /\ \A j, k \in 1 .. L : s[j] = s[k] => j = k
      /\ \A j \in 1 .. L : c.node[s[j]].next = At(s, j + 1) /\ c.node[s[j]].prev = At(s, j - 1)
  BY ListNodes
<1>2. c.head = s[1] /\ c.tail = n /\ 1 \in 1 .. L /\ L \in 1 .. L
  BY <1>1 DEF At
<1>3. n \in H!Live(c) /\ n # Nil /\ c.node[n].prev = p /\ b \in Buckets /\ Nil \in H!Pointers
  BY <1>1, <1>2, BucketOfNode DEF H!Pointers
<1>4. H!EvictLru(c) = d
  BY <1>2, <1>3 DEF H!EvictLru
<1>5. /\ p \in H!Live(c) \cup {Nil} /\ p \in H!Pointers
      /\ p = (IF L = 1 THEN Nil ELSE s[L - 1])
      /\ L # 1 => L - 1 \in 1 .. L
  <2>1. L - 1 \in 1 .. L <=> L # 1
    <3>1. L \in Nat /\ 1 <= L
      BY <1>1, <1>2
    <3>2. \A k \in Nat : 1 <= k => (k - 1 \in 1 .. k <=> k # 1)
      OBVIOUS
    <3> QED BY <3>1, <3>2
  <2>2. p = IF L = 1 THEN Nil ELSE s[L - 1]
    BY <2>1 DEF At
  <2> QED BY <1>1, <2>1, <2>2
<1> HIDE DEF p
<1>6. SameNodes(c, e) /\ SameEnds(c, e) /\ Linked(c, e, p, Nil, Nil, Nil)
  BY <1>1, <1>3, <1>5, SetNextIs
<1> HIDE DEF e
<1>7. hd \in H!Pointers /\ hd = IF L = 1 THEN Nil ELSE s[1]
  <2>1. e.head = s[1] /\ s[1] \in H!Pointers
    BY <1>1, <1>2, <1>6 DEF SameEnds, H!Pointers
  <2>2. p = Nil <=> L = 1
    BY <1>1, <1>2, <1>5
  <2> QED BY <1>3, <2>1, <2>2
<1> HIDE DEF hd
<1>8. f \in Caches /\ f.node = e.node /\ f.head = hd /\ f.tail = p /\ f.entries = L
  <2> DEFINE m == [e EXCEPT !.tail = p]
  <2>1. e \in Caches /\ e.entries = L
    BY <1>1, <1>6 DEF SameNodes, SameEnds
  <2>2. m \in Caches /\ m.node = e.node /\ m.tail = p /\ m.entries = L
    BY <1>5, <2>1 DEF Caches
  <2>3. f = [m EXCEPT !.head = hd]
    BY <2>1 DEF Caches
  <2> HIDE DEF m, f
  <2> QED BY <1>7, <2>2, <2>3 DEF Caches
<1> HIDE DEF f
<1>9. SameNodes(c, f)
  BY <1>6, <1>8 DEF SameNodes, H!Live
<1>10. \A j \in 1 .. L :
          /\ f.node[s[j]].next = IF j = L - 1 \/ j = L THEN Nil ELSE s[j + 1]
          /\ f.node[s[j]].prev = At(s, j - 1)
  <2> SUFFICES ASSUME NEW j \in 1 .. L
               PROVE  /\ f.node[s[j]].next = IF j = L - 1 \/ j = L THEN Nil ELSE s[j + 1]
                      /\ f.node[s[j]].prev = At(s, j - 1)
    OBVIOUS
  <2>1. /\ f.node[s[j]].next = IF s[j] = p THEN Nil ELSE At(s, j + 1)
        /\ f.node[s[j]].prev = At(s, j - 1)
    BY <1>1, <1>6, <1>8 DEF Linked
  <2>2. s[j] = p <=> j = L - 1
    <3>1. CASE L = 1
      <4>1. j # L - 1 /\ p = Nil
        BY <1>1, <1>5, <3>1
      <4> QED BY <1>1, <4>1
    <3>2. CASE L # 1
      <4>1. L - 1 \in 1 .. L /\ p = s[L - 1]
        BY <1>5, <3>2
      <4> QED BY <1>1, <4>1
    <3> QED BY <3>1, <3>2
  <2>3. j # L - 1 => At(s, j + 1) = IF j = L THEN Nil ELSE s[j + 1]
    BY <1>1 DEF At
  <2> QED BY <2>1, <2>2, <2>3
<1>11. Strung(f, s, L - 1)
  <2>1. HasAll(f, s)
    BY <1>9 DEF ListOf, HasAll, SameNodes
  <2>2. L <= H!Cardinality(Nodes) /\ L - 1 \in Nat
    BY <1>1, HttpSizes DEF ListOf
  <2> QED BY <1>8, <1>10, <2>1, <2>2 DEF Strung
<1>12. n \in H!Live(f) /\ f.node[n].next = Nil
  BY <1>2, <1>3, <1>9, <1>10 DEF SameNodes
<1>13. /\ SameNodes(f, g) /\ SameEnds(f, g)
       /\ \/ Linked(f, g, Nil, Nil, Nil, Nil)
          \/ \E x \in H!Live(f) : f.node[x].next = n /\ Linked(f, g, x, Nil, Nil, Nil)
  <2>1. /\ SameNodes(f, g) /\ SameEnds(f, g)
        /\ \/ Linked(f, g, Nil, Nil, Nil, Nil)
           \/ \E x \in H!Live(f) : f.node[x].next = n /\ Linked(f, g, x, f.node[n].next, Nil, Nil)
    BY <1>3, <1>11, <1>12, UnchainIs
  <2> QED BY <1>12, <2>1
<1> HIDE DEF g
<1>14. ASSUME NEW x \in H!Live(f), f.node[x].next = n PROVE FALSE
  <2>1. PICK j \in 1 .. L : s[j] = x
    <3>1. x \in H!Live(c)
      BY <1>9 DEF SameNodes
    <3> QED BY <3>1, NodeOfList
  <2>2. j # L - 1 /\ j # L /\ s[j + 1] = s[L]
    BY <1>3, <1>10, <1>14, <2>1
  <2>3. j + 1 \in 1 .. L
    BY <1>1, <2>2
  <2>4. j + 1 = L
    BY <1>1, <1>2, <2>2, <2>3
  <2> QED BY <1>1, <2>2, <2>4
<1>15. Linked(f, g, Nil, Nil, Nil, Nil)
  BY <1>13, <1>14
<1>16. /\ g \in Caches /\ H!Live(g) = H!Live(c) /\ g.head = hd /\ g.tail = p /\ g.entries = L
       /\ \A x \in H!Live(c) : g.node[x].next = f.node[x].next /\ g.node[x].prev = f.node[x].prev
  <2>1. \A x \in H!Live(c) : x # Nil /\ x \in H!Live(f)
    BY <1>9, LiveIs DEF H!Live, SameNodes
  <2> QED BY <1>8, <1>9, <1>13, <1>15, <2>1 DEF SameNodes, SameEnds, Linked
<1>17. /\ d \in Caches /\ H!Live(d) = H!Live(c) \ {n}
       /\ d.head = hd /\ d.tail = p /\ d.entries = L - 1
       /\ \A x \in H!Live(d) : d.node[x] = g.node[x]
  BY <1>3, <1>16, ReleaseIs
<1> HIDE DEF d
<1>18. ASSUME NEW j \in 1 .. L, j # L
       PROVE  /\ d.node[s[j]].next = IF j = L - 1 THEN At(s, L + 1) ELSE At(s, j + 1)
              /\ d.node[s[j]].prev = IF j = L + 1 THEN At(s, L - 1) ELSE At(s, j - 1)
  <2>1. s[j] \in H!Live(c) /\ s[j] \in H!Live(d)
    BY <1>1, <1>2, <1>17, <1>18
  <2>2. d.node[s[j]].next = f.node[s[j]].next /\ d.node[s[j]].prev = f.node[s[j]].prev
    BY <1>16, <1>17, <2>1
  <2>3. At(s, L + 1) = Nil /\ At(s, j + 1) = s[j + 1] /\ j # L + 1
    BY <1>1, <1>18 DEF At
  <2> QED BY <1>10, <1>18, <2>2, <2>3
<1>19. /\ d.head = IF L = 1 THEN At(s, 2) ELSE s[1]
       /\ d.tail = IF L = L THEN At(s, L - 1) ELSE s[L]
  <2>1. L = 1 => At(s, 2) = Nil
    BY DEF At
  <2> QED BY <1>7, <1>17, <2>1 DEF p
<1>20. ListOf(d, Without(s, L))
  BY <1>2, <1>17, <1>18, <1>19, ListWithout
<1>21. \A x \in H!Live(d) : d.node[x].url = c.node[x].url /\ d.node[x].expires = c.node[x].expires
  BY <1>9, <1>13, <1>17 DEF SameNodes
<1> QED BY <1>4, <1>17, <1>20, <1>21

\* t is s with n before it.
Before(t, n, s) ==
    Len(t) = 1 + Len(s) /\ t[1] = n /\ \A j \in 1 .. 1 + Len(s) : j # 1 => t[j] = s[j - 1]

\* A new entry comes to the front.
LEMMA InsertIs ==
    ASSUME HttpAssumed, NEW c, NEW s, ListOf(c, s), Len(s) < MaxEntries, NEW u \in Urls,
           NEW n \in Nodes, n \notin H!Live(c), now \in Nat
    PROVE  LET d == H!Insert(c, u, n)
           IN  /\ \E t : ListOf(d, t) /\ Before(t, n, s)
               /\ n \in H!Live(d) /\ d.node[n].url = u
               /\ \A x \in H!Live(c) : x \in H!Live(d) /\ d.node[x].url = c.node[x].url
<1> DEFINE L == Len(s)
           t == <<n>> \o s
           b == BucketOf[u]
           e == H!SetPrev(c, c.head, n)
           tl == IF c.head = Nil THEN n ELSE e.tail
           new == [url |-> u, next |-> c.head, prev |-> Nil, expires |-> now + TTL]
           bucket == [e.bucket EXCEPT ![b] = n]
           node == [e.node EXCEPT ![n] = new]
           d == H!Insert(c, u, n)
<1>1. /\ c \in Caches /\ s \in Seq(Nodes) /\ L \in Nat /\ c.entries = L
      /\ c.head = At(s, 1) /\ c.tail = At(s, L)
      /\ \A j \in 1 .. L : s[j] \in H!Live(c) /\ s[j] \in Nodes /\ s[j] # Nil
      /\ \A j : At(s, j) \in H!Live(c) \cup {Nil} /\ At(s, j) \in H!Pointers
      /\ \A j, k \in 1 .. L : s[j] = s[k] => j = k
      /\ \A j \in 1 .. L : c.node[s[j]].next = At(s, j + 1) /\ c.node[s[j]].prev = At(s, j - 1)
  BY ListNodes
<1>2. n \in H!Pointers /\ n # Nil /\ b \in Buckets /\ c.head \in H!Live(c) \cup {Nil} /\ c.head \in H!Pointers
  BY <1>1, LiveIs DEF H!Pointers, HttpAssumed
<1>3. SameNodes(c, e) /\ SameEnds(c, e) /\ Linked(c, e, Nil, Nil, c.head, n)
  BY <1>1, <1>2, SetPrevIs
<1>4. e \in Caches /\ H!Live(e) = H!Live(c) /\ e.tail = c.tail /\ e.entries = L
  BY <1>1, <1>3 DEF SameNodes, SameEnds
<1>5. new \in H!NodeStates /\ new # Free
  BY <1>2, LiveIs DEF HttpAssumed, H!NodeStates, H!Pointers
<1>6. tl \in H!Pointers
  BY <1>1, <1>2, <1>4
<1> HIDE DEF e, tl, new
<1>7. bucket \in [Buckets -> H!Pointers]
  BY <1>2, <1>4 DEF Caches
<1>8. /\ node \in [Nodes -> H!NodeStates \cup {Free}]
      /\ \A x \in Nodes : node[x] = IF x = n THEN new ELSE e.node[x]
  BY <1>4, <1>5 DEF Caches
<1>9. d = [e EXCEPT !.bucket = bucket, !.head = n, !.tail = tl, !.entries = L + 1, !.node = node]
  BY <1>4 DEF H!Insert, Caches, e, tl, new
<1> HIDE DEF bucket, node, d
<1>10. d \in Caches /\ d.node = node /\ d.head = n /\ d.tail = tl /\ d.entries = L + 1
  <2> DEFINE e1 == [e EXCEPT !.bucket = bucket]
             e2 == [e1 EXCEPT !.head = n]
             e3 == [e2 EXCEPT !.tail = tl]
             e4 == [e3 EXCEPT !.entries = L + 1]
             e5 == [e4 EXCEPT !.node = node]
  <2>1. d = e5
    BY <1>4, <1>9 DEF Caches
  <2>2. e1 \in Caches
    BY <1>4, <1>7 DEF Caches
  <2> HIDE DEF e1
  <2>3. e2 \in Caches /\ e2.head = n
    BY <1>2, <2>2 DEF Caches
  <2> HIDE DEF e2
  <2>4. e3 \in Caches /\ e3.head = n /\ e3.tail = tl
    BY <1>6, <2>3 DEF Caches
  <2> HIDE DEF e3
  <2>5. e4 \in Caches /\ e4.head = n /\ e4.tail = tl /\ e4.entries = L + 1
    BY <1>1, <2>4 DEF Caches
  <2> HIDE DEF e4
  <2>6. e5 \in Caches /\ e5.head = n /\ e5.tail = tl /\ e5.entries = L + 1 /\ e5.node = node
    BY <1>8, <2>5 DEF Caches
  <2> QED BY <2>1, <2>6
<1>11. H!Live(d) = H!Live(c) \cup {n}
  BY <1>4, <1>5, <1>8, <1>10 DEF H!Live
<1>12. t \in Seq(Nodes) /\ Len(t) = L + 1 /\ t[1] = n /\ \A j \in 1 .. L : t[j + 1] = s[j]
  <2>1. <<n>> \in Seq(Nodes) /\ Len(<<n>>) = 1 /\ <<n>>[1] = n
    OBVIOUS
  <2>2. /\ t \in Seq(Nodes) /\ Len(t) = 1 + L
        /\ \A i \in 1 .. 1 + L : t[i] = IF i <= 1 THEN <<n>>[i] ELSE s[i - 1]
    BY <1>1, <2>1, ConcatProperties
  <2>3. \A j \in 1 .. L : j + 1 \in 1 .. 1 + L /\ ~(j + 1 <= 1) /\ (j + 1) - 1 = j
    BY <1>1
  <2> QED BY <1>1, <2>1, <2>2, <2>3
<1> HIDE DEF t
<1>13. \A j \in 1 .. L + 1 : j # 1 => j - 1 \in 1 .. L /\ t[j] = s[j - 1]
  <2> SUFFICES ASSUME NEW j \in 1 .. L + 1, j # 1 PROVE j - 1 \in 1 .. L /\ t[j] = s[j - 1]
    OBVIOUS
  <2>1. j - 1 \in 1 .. L /\ (j - 1) + 1 = j
    BY <1>1
  <2> QED BY <1>12, <2>1
<1>14. HasAll(d, t)
  <2>1. \A j, k \in 1 .. L + 1 : t[j] = t[k] => j = k
    <3> SUFFICES ASSUME NEW j \in 1 .. L + 1, NEW k \in 1 .. L + 1, t[j] = t[k] PROVE j = k
      OBVIOUS
    <3>1. \A i \in 1 .. L : s[i] # n
      BY <1>1
    <3>2. CASE j = 1 \/ k = 1
      BY <1>12, <1>13, <3>1, <3>2
    <3>3. CASE j # 1 /\ k # 1
      <4>1. j - 1 = k - 1
        BY <1>1, <1>13, <3>3
      <4> QED BY <1>1, <4>1
    <3> QED BY <3>2, <3>3
  <2>2. ASSUME NEW x \in Nodes, x \in H!Live(d) PROVE \E j \in 1 .. L + 1 : t[j] = x
    <3>1. CASE x = n
      <4>1. 1 \in 1 .. L + 1
        BY <1>1
      <4> QED BY <1>12, <3>1, <4>1
    <3>2. CASE x # n
      <4>1. PICK k \in 1 .. L : s[k] = x
        BY <1>11, <2>2, <3>2, NodeOfList
      <4>2. k + 1 \in 1 .. L + 1
        BY <1>1
      <4> QED BY <1>12, <4>1, <4>2
    <3> QED BY <3>1, <3>2
  <2>3. ASSUME NEW j \in 1 .. L + 1 PROVE t[j] \in H!Live(d)
    BY <1>1, <1>11, <1>12, <1>13
  <2> QED BY <1>12, <2>1, <2>2, <2>3 DEF HasAll
<1>15. \A j \in 1 .. L + 1 : At(t, j + 1) = At(s, j)
  <2> SUFFICES ASSUME NEW j \in 1 .. L + 1 PROVE At(t, j + 1) = At(s, j)
    OBVIOUS
  <2>1. j + 1 \in 1 .. L + 1 <=> j \in 1 .. L
    BY <1>1
  <2> QED BY <1>12, <2>1 DEF At
<1>16. At(t, 1) = n /\ At(t, 0) = Nil /\ At(t, L + 1) = IF L = 0 THEN n ELSE s[L]
  <2>1. 1 \in 1 .. L + 1 /\ L + 1 \in 1 .. L + 1 /\ 0 \notin 1 .. L + 1
    BY <1>1
  <2>2. L # 0 => L \in 1 .. L
    BY <1>1
  <2> QED BY <1>12, <2>1, <2>2 DEF At
<1>17. tl = At(t, L + 1)
  <2>1. c.head = Nil <=> L = 0
    BY <1>1 DEF At
  <2>2. L # 0 => c.tail = s[L]
    BY <1>1 DEF At
  <2> QED BY <1>4, <1>16, <2>1, <2>2 DEF tl
<1>18. \A x \in H!Live(c) :
          /\ d.node[x] = e.node[x] /\ e.node[x].next = c.node[x].next
          /\ e.node[x].prev = IF x = c.head THEN n ELSE c.node[x].prev
  <2> SUFFICES ASSUME NEW x \in H!Live(c)
               PROVE  /\ d.node[x] = e.node[x] /\ e.node[x].next = c.node[x].next
                      /\ e.node[x].prev = IF x = c.head THEN n ELSE c.node[x].prev
    OBVIOUS
  <2>1. x \in Nodes /\ x # n /\ x # Nil
    BY LiveIs DEF H!Live
  <2> QED BY <1>3, <1>8, <1>10, <2>1 DEF Linked
<1>19. ASSUME NEW j \in 1 .. L + 1
       PROVE  d.node[t[j]].next = At(t, j + 1) /\ d.node[t[j]].prev = At(t, j - 1)
  <2>1. CASE j = 1
    <3>1. d.node[n] = new
      BY <1>8, <1>10
    <3>2. d.node[n].next = At(s, 1) /\ d.node[n].prev = Nil
      BY <1>1, <3>1 DEF new
    <3> QED BY <1>12, <1>15, <1>16, <2>1, <3>2
  <2>2. CASE j # 1
    <3>1. j - 1 \in 1 .. L /\ t[j] = s[j - 1] /\ s[j - 1] \in H!Live(c) /\ (j - 1) + 1 = j
      BY <1>1, <1>13, <2>2
    <3>2. d.node[t[j]].next = At(t, j + 1)
      <4>1. d.node[t[j]].next = c.node[s[j - 1]].next
        BY <1>18, <3>1
      <4>2. c.node[s[j - 1]].next = At(s, (j - 1) + 1)
        BY <1>1, <3>1
      <4>3. At(t, j + 1) = At(s, j)
        BY <1>15
      <4> QED BY <3>1, <4>1, <4>2, <4>3
    <3>3. CASE j = 2
      <4>1. s[j - 1] = c.head /\ j - 1 = 1
        BY <1>1, <3>1, <3>3 DEF At
      <4> QED BY <1>16, <1>18, <3>1, <3>2, <4>1
    <3>4. CASE j # 2
      <4>1. (j - 1) - 1 \in 1 .. L /\ j - 2 = (j - 1) - 1 /\ (j - 2) + 1 = j - 1 /\ 1 \in 1 .. L /\ j - 1 # 1
        BY <1>1, <2>2, <3>1, <3>4
      <4>2. s[j - 1] # c.head
        BY <1>1, <3>1, <4>1 DEF At
      <4>3. d.node[t[j]].prev = At(s, j - 2)
        <5>1. d.node[t[j]].prev = c.node[s[j - 1]].prev
          BY <1>18, <3>1, <4>2
        <5>2. c.node[s[j - 1]].prev = At(s, (j - 1) - 1)
          BY <1>1, <3>1
        <5> QED BY <4>1, <5>1, <5>2
      <4>4. At(t, j - 1) = At(s, j - 2)
        <5>1. j - 2 \in 1 .. L + 1
          BY <1>1, <4>1
        <5> QED BY <1>15, <4>1, <5>1
      <4> QED BY <3>2, <4>3, <4>4
    <3> QED BY <3>3, <3>4
  <2> QED BY <2>1, <2>2
<1>20. ListOf(d, t)
  <2>1. L + 1 <= MaxEntries
    BY <1>1, HttpSizes
  <2> QED BY <1>10, <1>12, <1>14, <1>16, <1>17, <1>19, <2>1 DEF ListOf
<1>21. d.node[n].url = u
  BY <1>8, <1>10 DEF new
<1>22. \A x \in H!Live(c) : d.node[x].url = c.node[x].url
  BY <1>3, <1>18 DEF SameNodes
<1>23. Before(t, n, s)
  <2>1. 1 + L = L + 1
    BY <1>1
  <2> QED BY <1>12, <1>13, <2>1 DEF Before
<1> QED BY <1>11, <1>20, <1>21, <1>22, <1>23 DEF d

\* An entry gets a new time.
LEMMA RenewIs ==
    ASSUME HttpAssumed, NEW c, NEW s, ListOf(c, s), NEW n \in H!Live(c), NEW v \in Nat
    PROVE  LET d == [c EXCEPT !.node[n].expires = v]
           IN  /\ ListOf(d, s) /\ H!Live(d) = H!Live(c)
               /\ \A x \in H!Live(c) : d.node[x].url = c.node[x].url
<1> DEFINE new == [c.node[n] EXCEPT !.expires = v]
           node == [c.node EXCEPT ![n] = new]
           d == [c EXCEPT !.node = node]
<1>1. c \in Caches /\ n \in Nodes /\ c.node[n] \in H!NodeStates
  BY ListNodes, LiveNodes
<1>2. /\ new \in H!NodeStates /\ new # Free /\ new.url = c.node[n].url
      /\ new.next = c.node[n].next /\ new.prev = c.node[n].prev
  BY <1>1, LiveIs DEF H!NodeStates
<1>3. [c EXCEPT !.node[n].expires = v] = d
  BY <1>1 DEF Caches
<1> HIDE DEF new
<1>4. /\ node \in [Nodes -> H!NodeStates \cup {Free}]
      /\ \A x \in Nodes : node[x] = IF x = n THEN new ELSE c.node[x]
  BY <1>1, <1>2 DEF Caches
<1> HIDE DEF node
<1>5. d \in Caches /\ d.node = node /\ d.head = c.head /\ d.tail = c.tail /\ d.entries = c.entries
  BY <1>1, <1>4 DEF Caches
<1> HIDE DEF d
<1>6. H!Live(d) = H!Live(c)
  BY <1>1, <1>2, <1>4, <1>5 DEF H!Live
<1>7. \A x \in Nodes : /\ d.node[x].url = c.node[x].url
                       /\ d.node[x].next = c.node[x].next /\ d.node[x].prev = c.node[x].prev
  BY <1>2, <1>4, <1>5
<1>8. HasAll(d, s)
  BY <1>6 DEF ListOf, HasAll
<1>9. \A j \in 1 .. Len(s) : d.node[s[j]].next = At(s, j + 1) /\ d.node[s[j]].prev = At(s, j - 1)
  BY <1>7, ListNodes
<1>10. ListOf(d, s)
  BY <1>5, <1>8, <1>9 DEF ListOf
<1>11. \A x \in H!Live(c) : d.node[x].url = c.node[x].url
  BY <1>7 DEF H!Live
<1> QED BY <1>3, <1>6, <1>10, <1>11

-----------------------------------------------------------------------------
(* Looking up.                                                             *)

\* What is found for u is an entry of u, if it is one at all.
LEMMA FindIs ==
    ASSUME HttpAssumed, NEW c, NEW s, ListOf(c, s), NEW u \in Urls
    PROVE  H!Find(c, u) \in H!Live(c) => c.node[H!Find(c, u)].url = u
<1> DEFINE at == H!Walk(c, c.bucket[BucketOf[u]])
           k == H!StopsAt(c, BucketOf[u], H!Of(c, u))
<1>1. at[k] \notin H!Live(c) \ H!Of(c, u)
  BY ListIsStrung, SearchEnds
<1>2. H!Find(c, u) = at[k]
  BY DEF H!Find, H!Reached
<1> HIDE DEF at, k
<1> QED BY <1>1, <1>2 DEF H!Of

LEMMA GetIs ==
    ASSUME HttpAssumed, NEW c, NEW s, ListOf(c, s), NEW u \in Urls
    PROVE  LET g == H!Get(c, u)
           IN  \/ g.fault
               \/ ~H!Hits(c, u) /\ g = c
               \/ \E i \in 1 .. Len(s) :
                     /\ ~H!Hits(c, u) /\ H!IsExpired(c, s[i])
                     /\ ListOf(g, Without(s, i)) /\ H!Live(g) \subseteq H!Live(c)
                     /\ \A x \in H!Live(g) : g.node[x].url = c.node[x].url
               \/ \E i \in 1 .. Len(s) :
                     /\ H!Hits(c, u) /\ H!Find(c, u) = s[i] /\ c.node[s[i]].url = u
                     /\ ListOf(g, ToFront(s, i)) /\ H!Live(g) = H!Live(c)
                     /\ \A x \in H!Live(g) : g.node[x].url = c.node[x].url
<1> DEFINE n == H!Find(c, u)
           g == H!Get(c, u)
<1>1. c \in Caches
  BY ListNodes
<1>2. CASE n = Nil
  <2>1. g = c
    BY <1>2 DEF H!Get
  <2>2. n \notin H!Live(c)
    BY <1>2, LiveIs DEF H!Live
  <2> QED BY <2>1, <2>2 DEF H!Hits
<1>3. CASE n # Nil /\ n \notin H!Live(c)
  <2>1. g = [c EXCEPT !.fault = TRUE]
    BY <1>3 DEF H!Get
  <2>2. g.fault
    BY <1>1, <2>1 DEF Caches
  <2> QED BY <2>2
<1>4. CASE n \in H!Live(c)
  <2>1. PICK i \in 1 .. Len(s) : s[i] = n
    BY <1>4, NodeOfList
  <2>2. n # Nil /\ c.node[n].url = u
    BY <1>4, FindIs, LiveIs DEF H!Live
  <2>3. CASE H!IsExpired(c, n)
    <3>1. g = H!RemoveNode(c, u, s[i])
      BY <1>4, <2>1, <2>2, <2>3 DEF H!Get
    <3>2. /\ ListOf(g, Without(s, i)) /\ H!Live(g) = H!Live(c) \ {s[i]}
          /\ \A x \in H!Live(g) : g.node[x].url = c.node[x].url
      BY <3>1, RemoveIs
    <3>3. ~H!Hits(c, u)
      BY <2>3 DEF H!Hits
    <3> QED BY <2>1, <2>3, <3>2, <3>3
  <2>4. CASE ~H!IsExpired(c, n)
    <3>1. g = H!MoveToFront(c, s[i])
      BY <1>4, <2>1, <2>2, <2>4 DEF H!Get
    <3>2. ListOf(g, ToFront(s, i)) /\ SameNodes(c, g)
      BY <3>1, MoveIs
    <3>3. H!Hits(c, u)
      BY <1>4, <2>4 DEF H!Hits
    <3> QED BY <2>1, <2>2, <3>2, <3>3 DEF SameNodes
  <2> QED BY <2>3, <2>4
<1> QED BY <1>2, <1>3, <1>4

-----------------------------------------------------------------------------
(* The urls of the entries, as LruService has them.                        *)

Names(c, s) == [j \in 1 .. Len(s) |-> c.node[s[j]].url]

LEMMA NamesIs ==
    ASSUME HttpAssumed, NEW c, NEW s, ListOf(c, s)
    PROVE  /\ Names(c, s) \in Seq(Urls) /\ Len(Names(c, s)) = Len(s)
           /\ \A j \in 1 .. Len(s) : Names(c, s)[j] = c.node[s[j]].url
<1>1. c \in Caches /\ Len(s) \in Nat /\ \A j \in 1 .. Len(s) : s[j] \in H!Live(c)
  BY ListNodes
<1>2. \A j \in 1 .. Len(s) : c.node[s[j]].url \in Urls
  BY <1>1, LiveNodes DEF H!NodeStates
<1> QED BY <1>1, <1>2 DEF Names

LEMMA NamesToFront ==
    ASSUME HttpAssumed, NEW c, NEW s, ListOf(c, s), NEW i \in 1 .. Len(s),
           NEW d, ListOf(d, ToFront(s, i)), H!Live(d) \subseteq H!Live(c),
           \A x \in H!Live(d) : d.node[x].url = c.node[x].url
    PROVE  Names(d, ToFront(s, i)) = ToFront(Names(c, s), i)
<1> DEFINE L == Len(s)
           t == ToFront(s, i)
           q == Names(c, s)
           r == ToFront(q, i)
<1>1. s \in Seq(Nodes) /\ L \in Nat
  BY ListNodes
<1>2. q \in Seq(Urls) /\ Len(q) = L /\ \A j \in 1 .. L : q[j] = c.node[s[j]].url
  BY NamesIs
<1>3. Len(t) = L /\ \A j \in 1 .. L : t[j] = IF j = 1 THEN s[i] ELSE IF j - 1 < i THEN s[j - 1] ELSE s[j]
  BY <1>1, ToFrontIs
<1> HIDE DEF q
<1>4. /\ r \in Seq(Urls) /\ Len(r) = L
      /\ \A j \in 1 .. L : r[j] = IF j = 1 THEN q[i] ELSE IF j - 1 < i THEN q[j - 1] ELSE q[j]
  BY <1>2, ToFrontIs
<1>5. /\ Names(d, t) \in Seq(Urls) /\ Len(Names(d, t)) = L
      /\ \A j \in 1 .. L : Names(d, t)[j] = d.node[t[j]].url
  BY <1>3, NamesIs
<1>6. \A j \in 1 .. L : d.node[t[j]].url = c.node[t[j]].url
  BY <1>3, ListNodes
<1> HIDE DEF t, r
<1>7. ASSUME NEW j \in 1 .. L PROVE Names(d, t)[j] = r[j]
  <2>1. Names(d, t)[j] = c.node[t[j]].url
    BY <1>5, <1>6
  <2>2. CASE j = 1
    BY <1>2, <1>3, <1>4, <2>1, <2>2
  <2>3. CASE j # 1
    <3>1. j - 1 \in 1 .. L
      BY <1>1, <2>3
    <3> QED BY <1>2, <1>3, <1>4, <2>1, <2>3, <3>1
  <2> QED BY <2>2, <2>3
<1>8. Names(d, t) = r
  BY <1>4, <1>5, <1>7, SeqEqual
<1> QED BY <1>8 DEF t, r, q

LEMMA NamesWithout ==
    ASSUME HttpAssumed, NEW c, NEW s, ListOf(c, s), NEW i \in 1 .. Len(s),
           NEW d, ListOf(d, Without(s, i)), H!Live(d) \subseteq H!Live(c),
           \A x \in H!Live(d) : d.node[x].url = c.node[x].url
    PROVE  Names(d, Without(s, i)) = Without(Names(c, s), i)
<1> DEFINE L == Len(s)
           t == Without(s, i)
           q == Names(c, s)
           r == Without(q, i)
<1>1. s \in Seq(Nodes) /\ L \in Nat
  BY ListNodes
<1>2. q \in Seq(Urls) /\ Len(q) = L /\ \A j \in 1 .. L : q[j] = c.node[s[j]].url
  BY NamesIs
<1>3. Len(t) = L - 1 /\ \A j \in 1 .. L - 1 : t[j] = IF j < i THEN s[j] ELSE s[j + 1]
  BY <1>1, WithoutIs
<1> HIDE DEF q
<1>4. r \in Seq(Urls) /\ Len(r) = L - 1 /\ \A j \in 1 .. L - 1 : r[j] = IF j < i THEN q[j] ELSE q[j + 1]
  <2>1. i \in 1 .. Len(q)
    BY <1>2
  <2>2. /\ r \in Seq(Urls) /\ Len(r) = Len(q) - 1
        /\ \A j \in 1 .. Len(q) - 1 : r[j] = IF j < i THEN q[j] ELSE q[j + 1]
    BY <1>2, <2>1, WithoutIs
  <2> QED BY <1>2, <2>2
<1>5. /\ Names(d, t) \in Seq(Urls) /\ Len(Names(d, t)) = L - 1
      /\ \A j \in 1 .. L - 1 : Names(d, t)[j] = d.node[t[j]].url
  BY <1>3, NamesIs
<1>6. \A j \in 1 .. L - 1 : d.node[t[j]].url = c.node[t[j]].url
  BY <1>3, ListNodes
<1> HIDE DEF t, r
<1>7. ASSUME NEW j \in 1 .. L - 1 PROVE Names(d, t)[j] = r[j]
  <2>1. Names(d, t)[j] = c.node[t[j]].url /\ j \in 1 .. L /\ j + 1 \in 1 .. L
    BY <1>1, <1>5, <1>6
  <2> QED BY <1>2, <1>3, <1>4, <2>1
<1>8. Names(d, t) = r
  BY <1>4, <1>5, <1>7, SeqEqual
<1> QED BY <1>8 DEF t, r, q

\* The list q with u before it.
Led(u, q) == <<u>> \o q

LEMMA NamesInsert ==
    ASSUME HttpAssumed, NEW c, NEW s, ListOf(c, s), NEW n, NEW u \in Urls,
           NEW d, NEW t, Before(t, n, s), ListOf(d, t), d.node[n].url = u,
           \A x \in H!Live(c) : d.node[x].url = c.node[x].url
    PROVE  Names(d, t) = Led(u, Names(c, s))
<1> DEFINE L == Len(s)
           q == Names(c, s)
           r == <<u>> \o q
<1>1. s \in Seq(Nodes) /\ L \in Nat /\ \A j \in 1 .. L : s[j] \in H!Live(c)
  BY ListNodes
<1>2. q \in Seq(Urls) /\ Len(q) = L /\ \A j \in 1 .. L : q[j] = c.node[s[j]].url
  BY NamesIs
<1> HIDE DEF q
<1>3. Len(t) = 1 + L /\ t[1] = n /\ \A j \in 2 .. 1 + L : t[j] = s[j - 1]
  <2>1. \A j \in 2 .. 1 + L : j \in 1 .. 1 + L /\ j # 1
    BY <1>1
  <2> QED BY <2>1 DEF Before
<1>4. r \in Seq(Urls) /\ Len(r) = 1 + L /\ r[1] = u /\ \A j \in 2 .. 1 + L : r[j] = q[j - 1]
  <2>1. <<u>> \in Seq(Urls) /\ Len(<<u>>) = 1 /\ <<u>>[1] = u
    OBVIOUS
  <2>2. /\ r \in Seq(Urls) /\ Len(r) = 1 + L
        /\ \A j \in 1 .. 1 + L : r[j] = IF j <= 1 THEN <<u>>[j] ELSE q[j - 1]
    BY <1>2, <2>1, ConcatProperties
  <2>3. 1 \in 1 .. 1 + L /\ \A j \in 2 .. 1 + L : j \in 1 .. 1 + L /\ ~(j <= 1)
    BY <1>1
  <2> QED BY <2>1, <2>2, <2>3
<1> HIDE DEF r
<1>5. /\ Names(d, t) \in Seq(Urls) /\ Len(Names(d, t)) = 1 + L
      /\ \A j \in 1 .. 1 + L : Names(d, t)[j] = d.node[t[j]].url
  <2>1. /\ Names(d, t) \in Seq(Urls) /\ Len(Names(d, t)) = Len(t)
        /\ \A j \in 1 .. Len(t) : Names(d, t)[j] = d.node[t[j]].url
    BY NamesIs
  <2> QED BY <1>3, <2>1
<1>6. ASSUME NEW j \in 1 .. 1 + L PROVE Names(d, t)[j] = r[j]
  <2>1. CASE j = 1
    BY <1>3, <1>4, <1>5, <2>1
  <2>2. CASE j # 1
    <3>1. j \in 2 .. 1 + L /\ j - 1 \in 1 .. L
      BY <1>1, <2>2
    <3>2. t[j] = s[j - 1] /\ r[j] = q[j - 1] /\ s[j - 1] \in H!Live(c)
      BY <1>1, <1>3, <1>4, <3>1
    <3> QED BY <1>2, <1>5, <3>1, <3>2
  <2> QED BY <2>1, <2>2
<1>7. Names(d, t) = r
  BY <1>4, <1>5, <1>6, SeqEqual
<1> QED BY <1>7 DEF r, q, Led

\* The list of a cache is what LruList walks.
Walked(c) ==
    LET at == H!Walk(c, c.head)
        k == CHOOSE k \in DOMAIN at : at[k] = Nil /\ \A j \in 0 .. k - 1 : at[j] # Nil
    IN [i \in 1 .. k |-> at[i - 1]]

LEMMA WalkedIs ==
    ASSUME HttpAssumed, NEW c, NEW s, ListOf(c, s)
    PROVE  Walked(c) = s
<1> DEFINE N == H!Cardinality(Nodes)
           L == Len(s)
           at == H!Walk(c, c.head)
           Stop(k) == at[k] = Nil /\ \A j \in 0 .. k - 1 : at[j] # Nil
           k == CHOOSE k \in DOMAIN at : Stop(k)
<1>1. N \in Nat /\ L \in Nat /\ L <= N /\ s \in Seq(Nodes) /\ c.head = At(s, 1) /\ \A j \in 1 .. L : s[j] # Nil
  BY ListNodes, ListIsStrung, HttpSizes DEF Strung
<1>2. DOMAIN at = 0 .. N /\ \A j \in 0 .. N : at[j] = IF j < L THEN s[j + 1] ELSE Nil
  <2>1. CASE L = 0
    <3>1. c.head = Nil /\ Nil \notin H!Live(c)
      BY <1>1, <2>1, LiveIs DEF At, H!Live
    <3>2. at = Nowhere(Nil)
      BY <3>1, WalkFromElse
    <3> QED BY <1>1, <2>1, <3>2 DEF Nowhere
  <2>2. CASE L # 0
    <3>1. 1 \in 1 .. L /\ c.head = s[1]
      BY <1>1, <2>2 DEF At
    <3>2. at = Along(s, L, 1)
      BY <3>1, ListIsStrung, WalkFromNode
    <3>3. EndFrom(s, L, 1) = L
      BY <3>1 DEF EndFrom
    <3>4. at = [j \in 0 .. N |-> IF 1 + j <= L THEN s[1 + j] ELSE Nil]
      BY <3>2, <3>3 DEF Along
    <3> HIDE DEF at, N
    <3>5. ASSUME NEW j \in 0 .. N PROVE at[j] = IF j < L THEN s[j + 1] ELSE Nil
      <4>1. (1 + j <= L <=> j < L) /\ 1 + j = j + 1
        BY <1>1
      <4> QED BY <3>4, <4>1
    <3> QED BY <3>4, <3>5
  <2> QED BY <2>1, <2>2
<1> HIDE DEF at, N
<1>3. \A j \in 0 .. N : j < L => at[j] # Nil
  <2> SUFFICES ASSUME NEW j \in 0 .. N, j < L PROVE at[j] # Nil
    OBVIOUS
  <2>1. j + 1 \in 1 .. L
    BY <1>1
  <2> QED BY <1>1, <1>2, <2>1
<1>4. L \in DOMAIN at /\ Stop(L)
  <2>1. L \in 0 .. N /\ \A j \in 0 .. L - 1 : j \in 0 .. N /\ j < L
    BY <1>1
  <2> QED BY <1>2, <1>3, <2>1
<1>5. k \in DOMAIN at /\ Stop(k)
  BY <1>4
<1> HIDE DEF k
<1>6. k = L
  <2>1. k \in 0 .. N
    BY <1>2, <1>5
  <2>2. ~(k < L)
    BY <1>3, <1>5, <2>1
  <2>3. ~(L < k)
    <3> SUFFICES ASSUME L < k PROVE FALSE
      OBVIOUS
    <3>1. L \in 0 .. k - 1
      BY <1>1, <2>1
    <3> QED BY <1>4, <1>5, <3>1
  <2> QED BY <1>1, <2>1, <2>2, <2>3
<1>7. \A j \in 1 .. L : at[j - 1] = s[j]
  <2> SUFFICES ASSUME NEW j \in 1 .. L PROVE at[j - 1] = s[j]
    OBVIOUS
  <2>1. j - 1 \in 0 .. N /\ j - 1 < L /\ (j - 1) + 1 = j
    BY <1>1
  <2> QED BY <1>2, <2>1
<1>8. [j \in 1 .. L |-> at[j - 1]] = s
  <2>1. s = [j \in 1 .. L |-> s[j]]
    BY <1>1
  <2> QED BY <1>7, <2>1
<1>9. Walked(c) = [j \in 1 .. k |-> at[j - 1]]
  BY DEF Walked, at, k
<1> QED BY <1>6, <1>8, <1>9

-----------------------------------------------------------------------------
(* The steps of LruService.                                                *)

HttpInv ==
    /\ fetching \in Urls \cup {None} /\ now \in Nat
    /\ http.fault \/ \E s : ListOf(http, s)

LEMMA LruListIs ==
    ASSUME HttpAssumed, NEW s
    PROVE  /\ ListOf(http, s) => H!LruList = s
           /\ ListOf(http', s) => H!LruList' = s
<1>1. H!LruList = Walked(http) /\ H!LruList' = Walked(http')
  BY DEF H!LruList, Walked
<1> QED BY <1>1, WalkedIs

\* The abstract order.
Order == [i \in DOMAIN H!LruList |-> http.node[H!LruList[i]].url]

LEMMA OrderIs ==
    ASSUME HttpAssumed, NEW s
    PROVE  /\ ListOf(http, s) => Order = Names(http, s)
           /\ ListOf(http', s) => Order' = Names(http', s)
<1>1. ASSUME ListOf(http, s) PROVE Order = Names(http, s)
  <2>1. H!LruList = s /\ DOMAIN s = 1 .. Len(s)
    BY <1>1, LruListIs, ListNodes
  <2> QED BY <2>1 DEF Order, Names
<1>2. ASSUME ListOf(http', s) PROVE Order' = Names(http', s)
  <2>1. H!LruList' = s /\ DOMAIN s = 1 .. Len(s)
    BY <1>2, LruListIs, ListNodes
  <2> QED BY <2>1 DEF Order, Names
<1> QED BY <1>1, <1>2

LEMMA UsedServes ==
    ASSUME HttpAssumed, NEW s, ListOf(http, s), NEW i \in 1 .. Len(s),
           ListOf(http', ToFront(s, i)), H!Live(http') \subseteq H!Live(http),
           \A x \in H!Live(http') : http'.node[x].url = http.node[x].url,
           served' \in {http.node[s[i]].url, served}
    PROVE  H!Service!Next
<1>1. Order = Names(http, s) /\ Order' = Names(http', ToFront(s, i))
  BY OrderIs
<1>2. Order' = ToFront(Order, i)
  BY <1>1, NamesToFront
<1>3. i \in DOMAIN Order /\ Order[i] = http.node[s[i]].url
  BY <1>1, NamesIs
<1>4. served' \in {Order[i], served} /\ Order' = <<Order[i]>> \o Without(Order, i)
  BY <1>2, <1>3 DEF ToFront
<1>5. H!Service!Used(i)
  BY <1>4 DEF H!Service!Used, H!Service!RemoveAt, Order, Without
<1> QED BY <1>3, <1>5 DEF H!Service!Next, Order

LEMMA ExpiredServes ==
    ASSUME HttpAssumed, NEW s, ListOf(http, s), NEW i \in 1 .. Len(s), H!IsExpired(http, s[i]),
           ListOf(http', Without(s, i)), H!Live(http') \subseteq H!Live(http),
           \A x \in H!Live(http') : http'.node[x].url = http.node[x].url,
           served' = served
    PROVE  H!Service!Next
<1>1. Order = Names(http, s) /\ Order' = Names(http', Without(s, i)) /\ H!LruList = s
  BY OrderIs, LruListIs
<1>2. Order' = Without(Order, i)
  BY <1>1, NamesWithout
<1>3. i \in DOMAIN Order /\ i \in DOMAIN H!LruList
  BY <1>1, NamesIs, ListNodes
<1>4. i \in {j \in DOMAIN H!LruList : H!IsExpired(http, H!LruList[j])}
  BY <1>1, <1>3
<1>5. H!Service!Expired(i)
  BY <1>2, <1>4 DEF H!Service!Expired, H!Service!RemoveAt, Order, Without
<1> QED BY <1>3, <1>5 DEF H!Service!Next, Order

\* Only as many entries as there may be.
LEMMA FrontIs ==
    ASSUME NEW X, NEW q \in Seq(X), Len(q) # 0
    PROVE  H!Service!Front(q) = Without(q, Len(q))
<1> DEFINE L == Len(q)
<1>1. L \in Nat /\ L \in 1 .. L /\ L - 1 \in Nat
  BY LenProperties
<1>2. SubSeq(q, 1, L - 1) \in Seq(X)
  BY <1>1
<1>3. SubSeq(q, L + 1, L) = <<>>
  BY <1>1
<1>4. SubSeq(q, 1, L - 1) \o <<>> = SubSeq(q, 1, L - 1)
  BY <1>2, ConcatEmptySeq
<1> QED BY <1>3, <1>4 DEF Without, H!Service!Front

\* c is what is left of the cache when u is to be added to it.
LEMMA AddedServes ==
    ASSUME HttpAssumed, now \in Nat, NEW c, NEW s, ListOf(c, s), NEW u \in Urls,
           NEW d, d = H!MakeRoom(c),
           \/ d.fault /\ http' = d
           \/ \E n \in Nodes \ H!Live(d) : http' = H!Insert(d, u, n)
    PROVE  \/ http'.fault
           \/ /\ \E t : ListOf(http', t)
              /\ Order' = <<u>> \o (IF Len(Names(c, s)) < MaxEntries THEN Names(c, s)
                                    ELSE H!Service!Front(Names(c, s)))
<1>1. CASE d.fault /\ http' = d
  BY <1>1
<1>2. CASE \E n \in Nodes \ H!Live(d) : http' = H!Insert(d, u, n)
  <2> DEFINE q == Names(c, s)
             kept == IF Len(q) < MaxEntries THEN q ELSE H!Service!Front(q)
  <2>1. PICK n \in Nodes \ H!Live(d) : http' = H!Insert(d, u, n)
    BY <1>2
  <2>2. q \in Seq(Urls) /\ Len(q) = Len(s) /\ c.entries = Len(s) /\ Len(s) \in Nat
    BY NamesIs, ListNodes
  <2>3. \E t : ListOf(d, t) /\ Names(d, t) = kept /\ Len(t) < MaxEntries
    <3>1. CASE Len(s) < MaxEntries
      <4>1. d = c
        BY <2>2, <3>1 DEF H!MakeRoom
      <4> QED BY <2>2, <3>1, <4>1
    <3>2. CASE ~(Len(s) < MaxEntries)
      <4>1. d = H!EvictLru(c) /\ Len(s) # 0 /\ Len(s) <= MaxEntries
        BY <2>2, <3>2, HttpSizes DEF H!MakeRoom, ListOf
      <4> DEFINE t == Without(s, Len(s))
      <4>2. /\ ListOf(d, t) /\ H!Live(d) = H!Live(c) \ {s[Len(s)]}
            /\ \A x \in H!Live(d) : d.node[x].url = c.node[x].url
        BY <4>1, EvictIs
      <4>3. Len(s) \in 1 .. Len(s) /\ s \in Seq(Nodes)
        BY <2>2, <4>1, ListNodes
      <4>4. Names(d, t) = Without(q, Len(s))
        BY <4>2, <4>3, NamesWithout
      <4>5. H!Service!Front(q) = Without(q, Len(s))
        BY <2>2, <4>1, FrontIs
      <4>6. Len(t) = Len(s) - 1
        BY <4>3, WithoutIs
      <4>7. Len(t) < MaxEntries
        BY <2>2, <4>1, <4>6, HttpSizes
      <4> HIDE DEF t, q
      <4> QED BY <2>2, <3>2, <4>2, <4>4, <4>5, <4>7
    <3> QED BY <3>1, <3>2
  <2>4. PICK t : ListOf(d, t) /\ Names(d, t) = kept /\ Len(t) < MaxEntries
    BY <2>3
  <2> HIDE DEF kept
  <2>5. /\ \E r : ListOf(http', r) /\ Before(r, n, t)
        /\ http'.node[n].url = u
        /\ \A x \in H!Live(d) : http'.node[x].url = d.node[x].url
    BY <2>1, <2>4, InsertIs
  <2>6. PICK r : ListOf(http', r) /\ Before(r, n, t)
    BY <2>5
  <2>7. Order' = Names(http', r)
    BY <2>6, OrderIs
  <2>8. Names(http', r) = Led(u, kept)
    <3>1. Names(http', r) = Led(u, Names(d, t))
      BY <2>4, <2>5, <2>6, NamesInsert
    <3> QED BY <2>4, <3>1
  <2> QED BY <2>6, <2>7, <2>8 DEF kept, Led
<1> QED BY <1>1, <1>2

LEMMA InitHttp == ASSUME HttpAssumed, H!Init PROVE HttpInv /\ H!Service!Init
<1> DEFINE e == <<>>
<1>1. e \in Seq(Nodes) /\ Len(e) = 0 /\ 1 .. Len(e) = {}
  OBVIOUS
<1>2. /\ http.node = [n \in Nodes |-> Free] /\ http.bucket = [b \in Buckets |-> Nil]
      /\ http.head = Nil /\ http.tail = Nil /\ http.entries = 0 /\ http.fault = FALSE
      /\ http = [bucket |-> http.bucket, head |-> http.head, tail |-> http.tail,
                 entries |-> http.entries, node |-> http.node, fault |-> http.fault]
      /\ fetching = None /\ served = None /\ now = 0
  BY DEF H!Init
<1>3. http \in Caches
  <2>1. http.node \in [Nodes -> H!NodeStates \cup {Free}] /\ http.bucket \in [Buckets -> H!Pointers]
    <3>1. [n \in Nodes |-> Free] \in [Nodes -> H!NodeStates \cup {Free}]
      OBVIOUS
    <3>2. [b \in Buckets |-> Nil] \in [Buckets -> H!Pointers]
      BY DEF H!Pointers
    <3> QED BY <1>2, <3>1, <3>2
  <2>2. http.head \in H!Pointers /\ http.tail \in H!Pointers /\ http.entries \in Int /\ http.fault \in BOOLEAN
    <3>1. Nil \in H!Pointers /\ 0 \in Int /\ FALSE \in BOOLEAN
      BY DEF H!Pointers
    <3> QED BY <1>2, <3>1
  <2>3. [bucket |-> http.bucket, head |-> http.head, tail |-> http.tail,
         entries |-> http.entries, node |-> http.node, fault |-> http.fault] \in Caches
    BY <2>1, <2>2 DEF Caches
  <2> QED BY <1>2, <2>3
<1>4. H!Live(http) = {}
  BY <1>2 DEF H!Live
<1>5. ListOf(http, e)
  <2>1. HasAll(http, e)
    BY <1>1, <1>4 DEF HasAll
  <2>2. At(e, 1) = Nil /\ At(e, Len(e)) = Nil
    BY <1>1 DEF At
  <2>3. 0 <= MaxEntries
    BY HttpSizes
  <2> QED BY <1>1, <1>2, <1>3, <2>1, <2>2, <2>3 DEF ListOf
<1>6. Order = <<>>
  <2>1. Order = Names(http, e)
    BY <1>5, OrderIs
  <2>2. Names(http, e) \in Seq(Urls) /\ Len(Names(http, e)) = 0
    BY <1>1, <1>5, NamesIs
  <2> QED BY <2>1, <2>2, EmptySeq
<1>7. H!Service!Init
  BY <1>2, <1>6 DEF H!Service!Init, Order
<1> QED BY <1>2, <1>5, <1>7 DEF HttpInv

\* What a step of the model must be.
Served == http'.fault \/ H!Service!Next \/ UNCHANGED <<Order, served>>

LEMMA LoadServes ==
    ASSUME HttpAssumed, HttpInv, NEW u \in Urls, H!Load(u) \/ H!LoadExpiring(u)
    PROVE  (http'.fault \/ \E t : ListOf(http', t)) /\ Served
<1>1. PICK s : ListOf(http, s)
  BY DEF HttpInv, H!Load, H!LoadExpiring
<1>2. http' = H!Get(http, u)
  BY DEF H!Load, H!LoadExpiring
<1>3. served' = served \/ (H!Hits(http, u) /\ served' = u)
  <2>1. CASE H!Load(u)
    BY <2>1 DEF H!Load
  <2>2. CASE H!LoadExpiring(u)
    BY <2>2 DEF H!LoadExpiring
  <2> QED BY <2>1, <2>2
<1>4. CASE http'.fault
  BY <1>4 DEF Served
<1>5. CASE ~H!Hits(http, u) /\ http' = http
  <2>1. Order' = Order
    BY <1>1, <1>5, OrderIs
  <2> QED BY <1>1, <1>3, <1>5, <2>1 DEF Served
<1>6. ASSUME NEW i \in 1 .. Len(s), ~H!Hits(http, u), H!IsExpired(http, s[i]),
             ListOf(http', Without(s, i)), H!Live(http') \subseteq H!Live(http),
             \A x \in H!Live(http') : http'.node[x].url = http.node[x].url
      PROVE  (\E t : ListOf(http', t)) /\ Served
  <2>1. served' = served
    BY <1>3, <1>6
  <2>2. H!Service!Next
    BY <1>1, <1>6, <2>1, ExpiredServes
  <2> QED BY <1>6, <2>2 DEF Served
<1>7. ASSUME NEW i \in 1 .. Len(s), H!Hits(http, u), http.node[s[i]].url = u,
             ListOf(http', ToFront(s, i)), H!Live(http') = H!Live(http),
             \A x \in H!Live(http') : http'.node[x].url = http.node[x].url
      PROVE  (\E t : ListOf(http', t)) /\ Served
  <2>1. served' \in {http.node[s[i]].url, served}
    BY <1>3, <1>7
  <2>2. H!Service!Next
    BY <1>1, <1>7, <2>1, UsedServes
  <2> QED BY <1>7, <2>2 DEF Served
<1> DEFINE g == H!Get(http, u)
<1>8. \/ g.fault
      \/ ~H!Hits(http, u) /\ g = http
      \/ \E i \in 1 .. Len(s) :
            /\ ~H!Hits(http, u) /\ H!IsExpired(http, s[i])
            /\ ListOf(g, Without(s, i)) /\ H!Live(g) \subseteq H!Live(http)
            /\ \A x \in H!Live(g) : g.node[x].url = http.node[x].url
      \/ \E i \in 1 .. Len(s) :
            /\ H!Hits(http, u) /\ H!Find(http, u) = s[i] /\ http.node[s[i]].url = u
            /\ ListOf(g, ToFront(s, i)) /\ H!Live(g) = H!Live(http)
            /\ \A x \in H!Live(g) : g.node[x].url = http.node[x].url
  BY <1>1, GetIs
<1>9. g = http'
  BY <1>2
<1> HIDE DEF g
<1> QED BY <1>4, <1>5, <1>6, <1>7, <1>8, <1>9

\* A key is added, perhaps in the place of an expired one.
LEMMA DownloadServes ==
    ASSUME HttpAssumed, HttpInv, H!Downloaded
    PROVE  (http'.fault \/ \E t : ListOf(http', t)) /\ Served
<1> PICK u \in Urls : u = fetching
  BY DEF H!Downloaded, HttpInv
<1> DEFINE g == H!Get(http, u)
<1>1. now \in Nat /\ served' = u /\ ~http.fault
  BY DEF H!Downloaded, HttpInv
<1>2. PICK s : ListOf(http, s)
  BY <1>1 DEF HttpInv
<1>3. \/ g.fault /\ http' = g
      \/ H!Hits(http, u) /\ http' = [g EXCEPT !.node[H!Find(http, u)].expires = now + TTL]
      \/ ~H!Hits(http, u) /\ LET d == H!MakeRoom(g)
                             IN  \/ d.fault /\ http' = d
                                 \/ \E n \in Nodes \ H!Live(d) : http' = H!Insert(d, u, n)
  BY DEF H!Downloaded
<1>4. \/ g.fault
      \/ ~H!Hits(http, u) /\ g = http
      \/ \E i \in 1 .. Len(s) :
            /\ ~H!Hits(http, u) /\ H!IsExpired(http, s[i])
            /\ ListOf(g, Without(s, i)) /\ H!Live(g) \subseteq H!Live(http)
            /\ \A x \in H!Live(g) : g.node[x].url = http.node[x].url
      \/ \E i \in 1 .. Len(s) :
            /\ H!Hits(http, u) /\ H!Find(http, u) = s[i] /\ http.node[s[i]].url = u
            /\ ListOf(g, ToFront(s, i)) /\ H!Live(g) = H!Live(http)
            /\ \A x \in H!Live(g) : g.node[x].url = http.node[x].url
  BY <1>1, <1>2, GetIs
<1>5. g.fault => http' = g
  BY DEF H!Downloaded
<1> HIDE DEF g
<1>6. CASE g.fault
  BY <1>5, <1>6 DEF Served
<1>7. Order = Names(http, s) /\ H!LruList = s
  BY <1>2, OrderIs, LruListIs
<1>8. ASSUME ~g.fault, ~H!Hits(http, u), g = http
      PROVE  (http'.fault \/ \E t : ListOf(http', t)) /\ Served
  <2>1. PICK d : d = H!MakeRoom(g) /\ ((d.fault /\ http' = d) \/ \E n \in Nodes \ H!Live(d) : http' = H!Insert(d, u, n))
    BY <1>3, <1>8
  <2>2. \/ http'.fault
        \/ /\ \E t : ListOf(http', t)
           /\ Order' = <<u>> \o (IF Len(Order) < MaxEntries THEN Order ELSE H!Service!Front(Order))
    BY <1>1, <1>2, <1>7, <1>8, <2>1, AddedServes
  <2>3. ASSUME Order' = <<u>> \o (IF Len(Order) < MaxEntries THEN Order ELSE H!Service!Front(Order))
        PROVE  H!Service!Next
    <3>1. H!Service!AddedTo(Order, u)
      BY <1>1, <2>3 DEF H!Service!AddedTo, Order
    <3> QED BY <3>1 DEF H!Service!Next, Order
  <2> QED BY <2>2, <2>3 DEF Served
<1>9. ASSUME ~g.fault, ~H!Hits(http, u),
             NEW i \in 1 .. Len(s), H!IsExpired(http, s[i]),
             ListOf(g, Without(s, i)), H!Live(g) \subseteq H!Live(http),
             \A x \in H!Live(g) : g.node[x].url = http.node[x].url
      PROVE  (http'.fault \/ \E t : ListOf(http', t)) /\ Served
  <2>1. PICK d : d = H!MakeRoom(g) /\ ((d.fault /\ http' = d) \/ \E n \in Nodes \ H!Live(d) : http' = H!Insert(d, u, n))
    BY <1>3, <1>9
  <2> DEFINE old == Without(Order, i)
  <2>2. Names(g, Without(s, i)) = old
    BY <1>2, <1>7, <1>9, NamesWithout
  <2> HIDE DEF old
  <2>3. \/ http'.fault
        \/ /\ \E t : ListOf(http', t)
           /\ Order' = <<u>> \o (IF Len(old) < MaxEntries THEN old ELSE H!Service!Front(old))
    BY <1>1, <1>9, <2>1, <2>2, AddedServes
  <2>4. ASSUME Order' = <<u>> \o (IF Len(old) < MaxEntries THEN old ELSE H!Service!Front(old))
        PROVE  H!Service!Next
    <3>1. i \in {j \in DOMAIN H!LruList : H!IsExpired(http, H!LruList[j])}
      BY <1>2, <1>7, <1>9, ListNodes
    <3>2. old = H!Service!RemoveAt(Order, i)
      BY DEF old, Without, H!Service!RemoveAt
    <3>3. H!Service!AddedTo(H!Service!RemoveAt(Order, i), u)
      BY <1>1, <2>4, <3>2 DEF H!Service!AddedTo, Order
    <3> QED BY <3>1, <3>3 DEF H!Service!Next, Order
  <2> QED BY <2>3, <2>4 DEF Served
<1>10. ASSUME ~g.fault, H!Hits(http, u),
              NEW i \in 1 .. Len(s), H!Find(http, u) = s[i], http.node[s[i]].url = u,
              ListOf(g, ToFront(s, i)), H!Live(g) = H!Live(http),
              \A x \in H!Live(g) : g.node[x].url = http.node[x].url
       PROVE  (\E t : ListOf(http', t)) /\ Served
  <2>1. http' = [g EXCEPT !.node[s[i]].expires = now + TTL]
    BY <1>3, <1>10
  <2>2. s[i] \in H!Live(g) /\ now + TTL \in Nat
    BY <1>1, <1>2, <1>10, ListNodes DEF HttpAssumed
  <2>3. /\ ListOf(http', ToFront(s, i)) /\ H!Live(http') = H!Live(g)
        /\ \A x \in H!Live(g) : http'.node[x].url = g.node[x].url
    BY <1>10, <2>1, <2>2, RenewIs
  <2>4. H!Service!Next
    BY <1>1, <1>2, <1>10, <2>3, UsedServes
  <2> QED BY <2>3, <2>4 DEF Served
<1> QED BY <1>4, <1>6, <1>8, <1>9, <1>10

LEMMA NextHttp ==
    ASSUME HttpAssumed, HttpInv, [H!Next]_H!vars
    PROVE  HttpInv' /\ Served
<1>1. ASSUME UNCHANGED <<http, served>> PROVE (http'.fault \/ \E t : ListOf(http', t)) /\ Served
  <2>1. Order' = Order
    BY <1>1 DEF Order, H!LruList
  <2> QED BY <1>1, <2>1 DEF HttpInv, Served
<1>2. (http'.fault \/ \E t : ListOf(http', t)) /\ Served
  <2>1. CASE \E u \in Urls : H!Load(u) \/ H!LoadExpiring(u)
    BY <2>1, LoadServes
  <2>2. CASE H!Downloaded
    BY <2>2, DownloadServes
  <2>3. CASE H!DownloadFails \/ H!Tick \/ UNCHANGED H!vars
    BY <1>1, <2>3 DEF H!DownloadFails, H!Tick, H!vars
  <2> QED BY <2>1, <2>2, <2>3 DEF H!Next
<1>3. fetching' \in Urls \cup {None} /\ now' \in Nat
  <2>1. CASE \E u \in Urls : H!Load(u) \/ H!LoadExpiring(u)
    BY <2>1 DEF H!Load, H!LoadExpiring, HttpInv
  <2>2. CASE H!Downloaded \/ H!DownloadFails \/ H!Tick \/ UNCHANGED H!vars
    BY <2>2 DEF H!Downloaded, H!DownloadFails, H!Tick, H!vars, HttpInv
  <2> QED BY <2>1, <2>2 DEF H!Next
<1> QED BY <1>2, <1>3 DEF HttpInv

\* HttpCache implements LruService until it uses a freed node.
THEOREM HttpCacheServes == ASSUME HttpAssumed PROVE H!Spec => H!ImplementsLruService
<1>1. H!Init => HttpInv /\ H!Service!Init
  BY InitHttp
<1>2. HttpInv /\ [H!Next]_H!vars => HttpInv' /\ [http'.fault \/ H!Service!Next]_(H!Service!vars)
  <2> SUFFICES ASSUME HttpInv, [H!Next]_H!vars
               PROVE  HttpInv' /\ [http'.fault \/ H!Service!Next]_(H!Service!vars)
    OBVIOUS
  <2>1. HttpInv' /\ Served
    BY NextHttp
  <2> QED BY <2>1 DEF Served, H!Service!vars, Order
<1> QED BY <1>1, <1>2, PTL DEF H!Spec, H!ImplementsLruService
==============================================================================
