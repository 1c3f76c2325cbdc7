------------------------------ MODULE CommonJS ------------------------------
(***************************************************************************)
(* require() of CommonJS modules: jsrt_load_module, the loader of          *)
(* src/module/loaders/commonjs_loader.c with its loading stack, and the    *)
(* cache of src/module/core/module_cache.c.  A module is the resolved path *)
(* of a file; its code may require other modules, or itself, while it      *)
(* runs, and so may a load hook before its content is there.               *)
(*                                                                         *)
(* What a require returns is named by the run of the module that made it:  *)
(* the exports a run ended with, or the partial object that stands in for  *)
(* them while the module is being loaded.  A require that throws leaves    *)
(* the requiring code to catch the error or not.                           *)
(***************************************************************************)
EXTENDS Naturals, Sequences, FiniteSets

CONSTANTS
    Modules,    \* resolved paths
    NotCached,  \* the cache has no entry
    Capacity,   \* max_size of the cache (1000)
    MaxDepth,   \* MAX_LOADING_DEPTH (100)
    MaxRuns     \* bound: runs of one module

ASSUME CommonJSAssumption ==
    /\ IsFiniteSet(Modules)
    /\ {Capacity, MaxDepth, MaxRuns} \subseteq Nat

VARIABLES
    loading,    \* loading_stack
    frames,     \* the calls of jsrt_load_commonjs_module under way, outermost first
    cache,      \* cache[m]: the value cached for m
    runs,       \* runs[m]: how often the code of m was started
    given,      \* given[m]: what require(m) has returned (history)
    reloaded    \* modules module.reloadModule was called for (history)

vars == <<loading, frames, cache, runs, given, reloaded>>

Values == [kind : {"exports", "partial"}, run : 0 .. MaxRuns]
ASSUME NotCachedAssumption == NotCached \notin Values
Frames == [module : Modules, at : {"content", "code"}]

\* The stack is bounded and everything in the cache is an object.
TypeOK ==
    /\ loading \in Seq(Modules) /\ Len(loading) <= MaxDepth
    /\ frames \in Seq(Frames)
    /\ cache \in [Modules -> Values \cup {NotCached}]
    /\ runs \in [Modules -> 0 .. MaxRuns]
    /\ given \in [Modules -> SUBSET Values]
    /\ reloaded \subseteq Modules

Init ==
    /\ loading = <<>> /\ frames = <<>>
    /\ cache = [m \in Modules |-> NotCached]
    /\ runs = [m \in Modules |-> 0]
    /\ given = [m \in Modules |-> {}]
    /\ reloaded = {}

-----------------------------------------------------------------------------
(* The cache and the loading stack.                                        *)

Exports(m) == [kind |-> "exports", run |-> runs[m]]
Partial(m) == [kind |-> "partial", run |-> runs[m]]
HasExports(m) == cache[m] # NotCached /\ cache[m].kind = "exports"

Cached(c) == {m \in Modules : c[m] # NotCached}

\* An entry is replaced; a new one is refused when the cache is full.
Put(c, m, v) ==
    IF c[m] # NotCached \/ Cardinality(Cached(c)) < Capacity
    THEN [c EXCEPT ![m] = v] ELSE c

Give(m, v) == given' = [given EXCEPT ![m] = @ \cup {v}]

IsLoading(m) == \E i \in DOMAIN loading : loading[i] = m

Push(m) == loading' = Append(loading, m)

Pop == loading' = SubSeq(loading, 1, Len(loading) - 1)

Top == frames[Len(frames)]
Return == frames' = SubSeq(frames, 1, Len(frames) - 1)

-----------------------------------------------------------------------------
(* jsrt_load_module and jsrt_load_commonjs_module, up to the content of    *)
(* the module, where c is the cache as they find it.                       *)

FromCache(m) ==
    /\ cache[m] # NotCached
    /\ Give(m, cache[m])
    /\ UNCHANGED <<loading, frames, cache, runs>>

\* A module that is being loaded: a new object, cached.
Circular(m, c) ==
    /\ c[m] = NotCached
    /\ IsLoading(m)
    /\ cache' = Put(c, m, Partial(m))
    /\ Give(m, Partial(m))
    /\ UNCHANGED <<loading, frames, runs>>

\* The stack is full: the require throws.
TooDeep(m, c) ==
    /\ c[m] = NotCached
    /\ ~IsLoading(m)
    /\ Len(loading) >= MaxDepth
    /\ cache' = c
    /\ UNCHANGED <<loading, frames, runs, given>>

\* Mutant of BeginLoad: the cache is not asked.
BeginCached(m, c) ==
    /\ ~IsLoading(m)
    /\ Len(loading) < MaxDepth
    /\ cache' = c
    /\ Push(m)
    /\ frames' = Append(frames, [module |-> m, at |-> "content"])
    /\ UNCHANGED <<runs, given>>

\* From here to the content of the module a load hook may run.
BeginLoad(m, c) ==
    /\ c[m] = NotCached
    /\ ~IsLoading(m)
    /\ Len(loading) < MaxDepth
    /\ cache' = c
    /\ Push(m)
    /\ frames' = Append(frames, [module |-> m, at |-> "content"])
    /\ UNCHANGED <<runs, given>>

Load(m, c) == Circular(m, c) \/ TooDeep(m, c) \/ BeginLoad(m, c)

Require(m) ==
    /\ FromCache(m) \/ Load(m, cache)
    /\ UNCHANGED reloaded

\* module.reloadModule: the entry is removed and the module loaded.
Reload(m) ==
    /\ Load(m, [cache EXCEPT ![m] = NotCached])
    /\ reloaded' = reloaded \cup {m}

-----------------------------------------------------------------------------
(* The rest of jsrt_load_commonjs_module.                                  *)

\* Mutant of ContentFails: the error return does not pop.
FailsWithoutPop ==
    /\ frames # <<>> /\ Top.at = "content"
    /\ Return
    /\ UNCHANGED <<loading, cache, runs, given, reloaded>>

\* There is no such file, or it does not compile.
ContentFails ==
    /\ frames # <<>> /\ Top.at = "content"
    /\ Pop /\ Return
    /\ UNCHANGED <<cache, runs, given, reloaded>>

CodeStarts ==
    /\ frames # <<>> /\ Top.at = "content"
    /\ runs[Top.module] < MaxRuns
    /\ frames' = [frames EXCEPT ![Len(frames)] = [Top EXCEPT !.at = "code"]]
    /\ runs' = [runs EXCEPT ![Top.module] = @ + 1]
    /\ UNCHANGED <<loading, cache, given, reloaded>>

CodeThrows ==
    /\ frames # <<>> /\ Top.at = "code"
    /\ Pop /\ Return
    /\ UNCHANGED <<cache, runs, given, reloaded>>

\* Mutant of CodeReturns: the exports are not cached.
ReturnsUncached ==
    /\ frames # <<>> /\ Top.at = "code"
    /\ Pop /\ Return
    /\ Give(Top.module, Exports(Top.module))
    /\ UNCHANGED <<cache, runs, reloaded>>

\* The value of module.exports is cached and returned; undefined is not cached.
CodeReturns ==
    /\ frames # <<>> /\ Top.at = "code"
    /\ Pop /\ Return
    /\ \/ /\ cache' = Put(cache, Top.module, Exports(Top.module))
          /\ Give(Top.module, Exports(Top.module))
       \/ UNCHANGED <<cache, given>>
    /\ UNCHANGED <<runs, reloaded>>

Next ==
    \/ \E m \in Modules : Require(m) \/ Reload(m)
    \/ ContentFails \/ CodeStarts \/ CodeThrows \/ CodeReturns

Spec == Init /\ [][Next]_vars

-----------------------------------------------------------------------------
(* Properties.                                                             *)

\* The loading stack names the loads under way, whichever of the returns of
\* the loader ends each of them: none is left behind to make a later require
\* look circular, and none goes missing.
StackExact ==
    /\ Len(loading) = Len(frames)
    /\ \A i \in DOMAIN frames : loading[i] = frames[i].module

\* No module's code is started inside its own run.
NotNested ==
    \A i, j \in DOMAIN frames : frames[i].module = frames[j].module => i = j

\* A module whose exports are cached is not run again: neither circles, hooks
\* that require the module they load, nor reloads while it is being loaded
\* make one run follow another that has completed.
NotRunAgain ==
    [][\A m \in Modules : runs'[m] # runs[m] => ~HasExports(m)]_vars

\* Everyone who was given exports of a module that is never reloaded has the
\* same object, as long as the cache has room.
OneExports ==
    Cardinality(Modules) <= Capacity =>
        \A m \in Modules \ reloaded : \A v, w \in given[m] :
            v.kind = "exports" /\ w.kind = "exports" => v = w

=============================================================================
