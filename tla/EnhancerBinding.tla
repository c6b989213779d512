--------------------------- MODULE EnhancerBinding ---------------------------
(***************************************************************************)
(* The Python class Enhancer over the C engine (_binding.py): construction *)
(* guarded by the process-wide counter _LIVE_INSTANCES, run, reset, close, *)
(* and the finaliser __del__.                                              *)
(*                                                                         *)
(* Two processes execute bytecode: the program, and the finaliser of an    *)
(* object that nothing refers to any more.  The cyclic collector runs a    *)
(* finaliser in whichever thread happens to allocate, and fe_free releases *)
(* the interpreter lock, so their steps interleave.  One action is one     *)
(* statement that reads or writes shared state.                            *)
(*                                                                         *)
(* The C engine is what FeApi says of it: FeEngine implements that.        *)
(***************************************************************************)
EXTENDS FeApi, FiniteSets

CONSTANTS
  Objs,        \* identities of the Enhancer objects; each also names its _blob
  Libs,        \* libfe shared libraries: each has an engine global of its own
  DefaultLib,  \* the one _find_library finds without a search path
  NoLib, NoObj,
  Frames,
  MaxStream,   \* bound: frames of one stream
  Interrupts   \* whether KeyboardInterrupt may be delivered

ASSUME BlobsAreObjs == Blobs = Objs
ASSUME LibsAssumption == DefaultLib \in Libs /\ NoLib \notin Libs
ASSUME NoObjAssumption == NoObj \notin Objs
ASSUME InterruptsAssumption == Interrupts \in BOOLEAN
ASSUME StreamAssumption == MaxStream \in Nat

Procs == {"program", "finaliser"}

VARIABLES
  LIVE,     \* _LIVE_INSTANCES
  LIB,      \* _LIB, by the library it has loaded
  engine,   \* library -> its engine, as FeApi describes it
  memory,   \* object -> "unborn", "alive" or "gone"
  closed,   \* object -> its attribute _closed, "unset" until __init__ is done
  lib,      \* object -> its attribute _lib
  ref,      \* the objects the program refers to
  at,       \* process -> the statement it is about to execute, and on which object
  fed,      \* object -> frames it was given since construction or reset()
  heard     \* what run() last returned, and what it was fed to return it

globals == <<LIVE, LIB, engine>>
objects == <<memory, closed, lib, ref, fed>>
vars == <<globals, objects, at, heard>>

Idle == [stmt |-> "idle", obj |-> NoObj]
Goto(p, stmt, o) == at' = [at EXCEPT ![p] = [stmt |-> stmt, obj |-> o]]
Leave(p) == at' = [at EXCEPT ![p] = Idle]
At(p, stmt, o) == at[p] = [stmt |-> stmt, obj |-> o]

Init ==
  /\ LIVE = 0 /\ LIB = NoLib
  /\ engine = [l \in Libs |-> Uninitialised]
  /\ memory = [o \in Objs |-> "unborn"]
  /\ closed = [o \in Objs |-> "unset"]
  /\ lib = [o \in Objs |-> NoLib]
  /\ ref = {}
  /\ at = [p \in Procs |-> Idle]
  /\ fed = [o \in Objs |-> <<>>]
  /\ heard = [obj |-> NoObj, fed |-> <<>>, out |-> NoOutput]

-----------------------------------------------------------------------------
(* __init__ *)

\* _get_lib: an explicit path always loads, and stays loaded for later objects.
LibFor(path) ==
  IF path # NoLib THEN path ELSE IF LIB # NoLib THEN LIB ELSE DefaultLib

\* Mutant: no check of the counter.
New_unguarded(o) ==
  /\ at["program"] = Idle /\ memory[o] = "unborn"
  /\ memory' = [memory EXCEPT ![o] = "alive"]
  /\ Goto("program", "get_lib", o)
  /\ UNCHANGED <<globals, closed, lib, ref, fed, heard>>

\* The first statement; with an Enhancer alive it raises, leaving an object
\* without attributes.
New(o) ==
  /\ at["program"] = Idle /\ memory[o] = "unborn"
  /\ memory' = [memory EXCEPT ![o] = "alive"]
  /\ IF LIVE = 0 THEN Goto("program", "get_lib", o) ELSE UNCHANGED at
  /\ UNCHANGED <<globals, closed, lib, ref, fed, heard>>

\* Reading the weights, their type, finding the library: each may raise.
NewFails(o) ==
  /\ At("program", "get_lib", o)
  /\ Leave("program")
  /\ UNCHANGED <<globals, objects, heard>>

SetLib(o) ==
  /\ At("program", "get_lib", o)
  /\ \E path \in Libs \cup {NoLib} :
       /\ LIB' = LibFor(path)
       /\ lib' = [lib EXCEPT ![o] = LibFor(path)]
  /\ Goto("program", "fe_init", o)
  /\ UNCHANGED <<LIVE, engine, memory, closed, ref, fed, heard>>

CallInit(o) ==
  /\ At("program", "fe_init", o)
  /\ engine' = [engine EXCEPT ![lib[o]] = AfterInit(@, o)]
  /\ Goto("program", "count", o)
  /\ UNCHANGED <<LIVE, LIB, objects, heard>>

\* fe_init fails only on an engine that is not initialised.
CallInitFails(o) ==
  /\ At("program", "fe_init", o)
  /\ ~IsInitialised(engine[lib[o]])
  /\ Leave("program")
  /\ UNCHANGED <<globals, objects, heard>>

Count(o) ==
  /\ At("program", "count", o)
  /\ LIVE' = LIVE + 1
  /\ Goto("program", "opened", o)
  /\ UNCHANGED <<LIB, engine, objects, heard>>

Opened(o) ==
  /\ At("program", "opened", o)
  /\ closed' = [closed EXCEPT ![o] = "no"]
  /\ ref' = ref \cup {o}
  /\ Leave("program")
  /\ UNCHANGED <<globals, memory, lib, fed, heard>>

-----------------------------------------------------------------------------
(* run and reset *)

\* On a closed Enhancer run() raises before it touches anything.
RunFrame(o, x) ==
  /\ at["program"] = Idle /\ o \in ref /\ closed[o] = "no"
  /\ Len(fed[o]) < MaxStream
  /\ fed' = [fed EXCEPT ![o] = Append(@, x)]
  /\ engine' = [engine EXCEPT ![lib[o]] = AfterRun(@, x)]
  /\ heard' = [obj |-> o, fed |-> fed'[o], out |-> OutputOf(engine[lib[o]], x, NoOutput)]
  /\ UNCHANGED <<LIVE, LIB, memory, closed, lib, ref, at>>

\* Mutant: the engine goes on with the old stream.
ResetStream_keepsStream(o) ==
  /\ at["program"] = Idle /\ o \in ref /\ closed[o] = "no"
  /\ fed' = [fed EXCEPT ![o] = <<>>]
  /\ UNCHANGED <<globals, memory, closed, lib, ref, at, heard>>

\* On a closed Enhancer reset() does nothing.
ResetStream(o) ==
  /\ at["program"] = Idle /\ o \in ref /\ closed[o] = "no"
  /\ fed' = [fed EXCEPT ![o] = <<>>]
  /\ engine' = [engine EXCEPT ![lib[o]] = AfterReset(@)]
  /\ UNCHANGED <<LIVE, LIB, memory, closed, lib, ref, at, heard>>

-----------------------------------------------------------------------------
(* close, from the program or from __del__ *)

MayBegin(p, o) ==
  /\ at[p] = Idle
  /\ IF p = "program" THEN o \in ref
     ELSE memory[o] = "alive" /\ o \notin ref /\ at["program"].obj # o

\* What is left when a process leaves close(): the finaliser's object is freed.
Done(p, o) ==
  /\ Leave(p)
  /\ memory' = [memory EXCEPT ![o] = IF p = "finaliser" THEN "gone" ELSE @]

\* Mutants: the flag _closed is not looked at; fe_free is not called; __del__ does
\* not close.
CloseOpen_again(p, o) ==
  /\ MayBegin(p, o) /\ closed[o] # "unset"
  /\ Goto(p, "fe_free", o)
  /\ UNCHANGED <<globals, objects, heard>>

CloseOpen_withoutFree(p, o) ==
  /\ MayBegin(p, o) /\ closed[o] = "no"
  /\ Goto(p, "set_closed", o)
  /\ UNCHANGED <<globals, objects, heard>>

CloseOpen_programOnly(p, o) ==
  /\ p = "program"
  /\ MayBegin(p, o) /\ closed[o] = "no"
  /\ Goto(p, "fe_free", o)
  /\ UNCHANGED <<globals, objects, heard>>

CloseOpen(p, o) ==
  /\ MayBegin(p, o) /\ closed[o] = "no"
  /\ Goto(p, "fe_free", o)
  /\ UNCHANGED <<globals, objects, heard>>

\* Closed already, or - in __del__ only - an object whose __init__ raised: the
\* AttributeError is swallowed.
CloseOther(p, o) ==
  /\ MayBegin(p, o) /\ closed[o] # "no"
  /\ Done(p, o)
  /\ UNCHANGED <<globals, closed, lib, ref, fed, heard>>

CallFree(p, o) ==
  /\ At(p, "fe_free", o)
  /\ engine' = [engine EXCEPT ![lib[o]] = AfterFree(@)]
  /\ Goto(p, "set_closed", o)
  /\ UNCHANGED <<LIVE, LIB, objects, heard>>

SetClosed(p, o) ==
  /\ At(p, "set_closed", o)
  /\ closed' = [closed EXCEPT ![o] = "yes"]
  /\ Goto(p, "uncount", o)
  /\ UNCHANGED <<globals, memory, lib, ref, fed, heard>>

\* Mutant: close() leaves the counter alone.
Uncount_forgets(p, o) ==
  /\ At(p, "uncount", o)
  /\ Done(p, o)
  /\ UNCHANGED <<globals, closed, lib, ref, fed, heard>>

Uncount(p, o) ==
  /\ At(p, "uncount", o)
  /\ LIVE' = IF LIVE = 0 THEN 0 ELSE LIVE - 1
  /\ Done(p, o)
  /\ UNCHANGED <<LIB, engine, closed, lib, ref, fed, heard>>

\* The program forgets an object; whether it is open makes no difference.
Drop(o) ==
  /\ at["program"] = Idle /\ o \in ref
  /\ ref' = ref \ {o}
  /\ UNCHANGED <<globals, memory, closed, lib, fed, at, heard>>

-----------------------------------------------------------------------------
(* KeyboardInterrupt, delivered between two statements *)

InterruptInit(o) ==
  /\ Interrupts
  /\ \E stmt \in {"get_lib", "fe_init", "count", "opened"} : At("program", stmt, o)
  /\ Leave("program")
  /\ UNCHANGED <<globals, objects, heard>>

\* Before the call inside try: the finally clause runs all the same.
InterruptFree(p, o) ==
  /\ Interrupts
  /\ At(p, "fe_free", o)
  /\ Goto(p, "set_closed", o)
  /\ UNCHANGED <<globals, objects, heard>>

InterruptFinally(p, o) ==
  /\ Interrupts
  /\ At(p, "set_closed", o) \/ At(p, "uncount", o)
  /\ Done(p, o)
  /\ UNCHANGED <<globals, closed, lib, ref, fed, heard>>

-----------------------------------------------------------------------------

Construct(o) ==
  NewFails(o) \/ SetLib(o) \/ CallInit(o) \/ CallInitFails(o) \/ Count(o) \/ Opened(o)

Closing(p, o) == CallFree(p, o) \/ SetClosed(p, o) \/ Uncount(p, o)

Finalise(o) ==
  CloseOpen("finaliser", o) \/ CloseOther("finaliser", o) \/ Closing("finaliser", o)

Interrupt(o) ==
  \/ InterruptInit(o)
  \/ \E p \in Procs : InterruptFree(p, o) \/ InterruptFinally(p, o)

Next ==
  \E o \in Objs :
    \/ New(o) \/ Construct(o)
    \/ (\E x \in Frames : RunFrame(o, x)) \/ ResetStream(o)
    \/ CloseOpen("program", o) \/ CloseOther("program", o) \/ Closing("program", o)
    \/ Drop(o) \/ Finalise(o) \/ Interrupt(o)

Spec == Init /\ [][Next]_vars

\* A call that was begun runs on, and an object nothing refers to is finalised:
\* the interpreter does both by itself.
Fairness ==
  \A o \in Objs : /\ WF_vars(Construct(o))
                  /\ WF_vars(Closing("program", o))
                  /\ WF_vars(Finalise(o))

FairSpec == Spec /\ Fairness

-----------------------------------------------------------------------------
(* Properties *)

Statements == {"idle", "get_lib", "fe_init", "count", "opened",
               "fe_free", "set_closed", "uncount"}
Streams == UNION {[1 .. n -> Frames] : n \in 0 .. MaxStream}

TypeOK ==
  /\ LIVE \in Nat /\ LIB \in Libs \cup {NoLib}
  /\ engine \in [Libs -> [blob : Objs \cup {NoBlob}, stream : Streams]]
  /\ memory \in [Objs -> {"unborn", "alive", "gone"}]
  /\ closed \in [Objs -> {"unset", "no", "yes"}]
  /\ lib \in [Objs -> Libs \cup {NoLib}] /\ ref \subseteq Objs
  /\ at \in [Procs -> [stmt : Statements, obj : Objs \cup {NoObj}]]
  /\ fed \in [Objs -> Streams]
  /\ heard \in [obj : Objs \cup {NoObj}, fed : Streams,
                out : [blob : Objs \cup {NoBlob}, heard : Streams]]

\* The engine reads its blob until fe_free: the bytes object, which only the
\* Enhancer keeps alive, outlives every initialised engine that points into it.
BlobOutlivesEngine ==
  \A l \in Libs : IsInitialised(engine[l]) => memory[engine[l].blob] = "alive"

\* At most one engine is initialised, over all the libraries that were loaded.
Busy == {l \in Libs : IsInitialised(engine[l])}
ExclusiveEngine == Cardinality(Busy) <= 1

\* At most one Enhancer is open, wherever interrupts fall: they may lose the
\* engine or the right to construct, but never hand it out twice.
Open == {o \in Objs : memory[o] = "alive" /\ closed[o] = "no"}
OneOpen == Cardinality(Open) <= 1

\* An open Enhancer owns the engine of its library, unless it is being closed:
\* no other object's construction, close() or __del__ takes it away.
OwnsItsEngine ==
  \A o \in Open :
    \/ engine[lib[o]] = [blob |-> o, stream |-> fed[o]]
    \/ \E p \in Procs : At(p, "set_closed", o)

\* run() returned what this object's weights make of this object's frames since
\* its construction or last reset() - the determinism the tests rely on.
HeardOwnStream ==
  heard.obj # NoObj => heard.out = [blob |-> heard.obj, heard |-> heard.fed]

\* The counter speaks the truth: it is non-zero only while some Enhancer is open
\* or about to be, so "call .close() on the existing one first" can be obeyed.
CounterHonest ==
  LIVE # 0 => \E o \in Objs : /\ memory[o] = "alive"
                              /\ \/ closed[o] = "no"
                                 \/ \E p \in Procs : at[p].obj = o

\* When every Enhancer was forgotten, with or without close(), the engine is
\* given back and a new one can be constructed.
EngineReturned ==
  (ref = {}) ~> (ref # {} \/ at["program"] # Idle \/ (LIVE = 0 /\ Busy = {}))
=============================================================================
