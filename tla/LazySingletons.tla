--------------------------- MODULE LazySingletons ---------------------------
(***************************************************************************)
(* How a worker is wired: every getter of app.api.deps builds its object   *)
(* on its first call, from the objects of the getters it needs, and        *)
(* lru_cache(maxsize=1) keeps it.  The cache is not locked while a getter  *)
(* runs: two first calls both build, the first to finish is kept, and each *)
(* of them goes on with its own object.  An exception unwinds the getters  *)
(* in progress and leaves none of them in the cache.                       *)
(*                                                                         *)
(* An object is named by its getter and the thread that built it.          *)
(***************************************************************************)
EXTENDS Naturals, Sequences

CONSTANTS
    Getters,
    Needs,      \* the getters a getter calls, in that order
    Kept,       \* the getters under lru_cache
    Shared,     \* those whose object must be the only one of the process
    Fallible,   \* those whose constructor may raise: it connects to something
    Preloaded,  \* those called during startup, before any request
    Threads,    \* threads of the worker
    Entries     \* what each of them may ask for

Startup == "startup"
NotBuilt == "none"
Builders == Threads \union {Startup}

ASSUME WiringAssumption ==
    /\ Needs \in [Getters -> Seq(Getters)]
    /\ Kept \subseteq Getters /\ Shared \subseteq Getters /\ Preloaded \subseteq Kept
    /\ Fallible \subseteq Getters
    /\ Entries \in [Threads -> SUBSET Getters]
    /\ Threads \intersect {Startup, NotBuilt} = {}

VARIABLES
    asks,        \* what each thread asks for, again if it was an error
    singleton,   \* who built the object a getter keeps, "none" if none is kept
    calls,       \* each thread's getters in progress, the innermost last
    objects,     \* every object built: its getter, its builder, the builders of its parts
    overlapped,  \* getters that two threads were inside of at the same time
    served       \* the threads that got what they asked for

wiring_vars == <<asks, singleton, calls, objects, overlapped, served>>

Frame == [of : Getters, got : Seq(Builders)]
BuiltObject == [of : Getters, by : Builders, parts : Seq(Builders)]

WiringInit ==
    /\ asks \in {entry \in [Threads -> Getters] : \A t \in Threads : entry[t] \in Entries[t]}
    /\ singleton = [g \in Getters |-> IF g \in Preloaded THEN Startup ELSE NotBuilt]
    /\ calls = [t \in Threads |-> <<>>]
    /\ objects = {[of |-> g, by |-> Startup, parts |-> <<>>] : g \in Preloaded}
    /\ overlapped = {}
    /\ served = {}

-----------------------------------------------------------------------------
Depth(t) == Len(calls[t])
Top(t) == calls[t][Depth(t)]
Inside(t, g) == \E i \in DOMAIN calls[t] : calls[t][i].of = g

\* The next getter the innermost one calls.
Missing(t) == Depth(t) > 0 /\ Len(Top(t).got) < Len(Needs[Top(t).of])
NextNeed(t) == Needs[Top(t).of][Len(Top(t).got) + 1]

\* The frames once the innermost getter has been given an object.
Given(frames, by) ==
    [frames EXCEPT ![Len(frames)].got = Append(@, by)]

Known(g) == g \in Kept /\ singleton[g] # NotBuilt

Enter(t, g) ==
    /\ calls' = [calls EXCEPT ![t] = Append(@, [of |-> g, got |-> <<>>])]
    /\ overlapped' = IF \E u \in Threads \ {t} : Inside(u, g)
                     THEN overlapped \union {g} ELSE overlapped
    /\ UNCHANGED <<asks, singleton, objects, served>>

CallGetter(t) ==
    /\ Depth(t) = 0 /\ t \notin served
    /\ Enter(t, asks[t])

Hit(t) ==
    /\ Missing(t) /\ Known(NextNeed(t))
    /\ calls' = [calls EXCEPT ![t] = Given(@, singleton[NextNeed(t)])]
    /\ UNCHANGED <<asks, singleton, objects, overlapped, served>>

Miss(t) ==
    /\ Missing(t) /\ ~Known(NextNeed(t))
    /\ Enter(t, NextNeed(t))

\* Everything is there and the constructor returns: the object is kept unless another
\* thread's was, and goes to the caller in either case.
Build(t) ==
    /\ Depth(t) > 0 /\ ~Missing(t)
    /\ LET g == Top(t).of
           outer == SubSeq(calls[t], 1, Depth(t) - 1)
       IN  /\ objects' = objects \union {[of |-> g, by |-> t, parts |-> Top(t).got]}
           /\ singleton' = IF g \in Kept /\ singleton[g] = NotBuilt
                           THEN [singleton EXCEPT ![g] = t] ELSE singleton
           /\ calls' = [calls EXCEPT ![t] = IF outer = <<>> THEN <<>> ELSE Given(outer, t)]
           /\ served' = IF outer = <<>> THEN served \union {t} ELSE served
    /\ UNCHANGED <<asks, overlapped>>

\* The constructor raises: a database or a collection cannot be reached.
Raise(t) ==
    /\ Depth(t) > 0 /\ ~Missing(t) /\ Top(t).of \in Fallible
    /\ calls' = [calls EXCEPT ![t] = <<>>]
    /\ UNCHANGED <<asks, singleton, objects, overlapped, served>>

WiringNext == \E t \in Threads : CallGetter(t) \/ Hit(t) \/ Miss(t) \/ Build(t) \/ Raise(t)

WiringSpec == WiringInit /\ [][WiringNext]_wiring_vars

-----------------------------------------------------------------------------
WiringTypeOK ==
    /\ asks \in [Threads -> Getters]
    /\ singleton \in [Getters -> Builders \union {NotBuilt}]
    /\ calls \in [Threads -> Seq(Frame)]
    /\ objects \subseteq BuiltObject
    /\ overlapped \subseteq Getters
    /\ served \subseteq Threads

\* What has to be shared is: a part of any object is the process-wide one, unless two
\* threads were inside its getter at the same time.
SharedUnlessOverlapped ==
    \A o \in objects : \A i \in DOMAIN o.parts :
        LET g == Needs[o.of][i]
        IN  g \in Shared /\ o.parts[i] # singleton[g] => g \in overlapped

\* No getter calls itself on the way, which nothing but the stack would stop.
NeverReentered ==
    \A t \in Threads : \A i, j \in DOMAIN calls[t] :
        calls[t][i].of = calls[t][j].of => i = j

\* The wiring is what it looks like: a graph, and one object of each kind that counts.
WiredOnce == SharedUnlessOverlapped /\ NeverReentered

=============================================================================
