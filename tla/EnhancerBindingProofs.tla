------------------------ MODULE EnhancerBindingProofs ------------------------
(***************************************************************************)
(* Proofs about EnhancerBinding for any number of objects, libraries and   *)
(* frames.  At most one Enhancer is open, wherever interrupts fall; and    *)
(* without interrupts the engine belongs to the one Enhancer that is open. *)
(***************************************************************************)
EXTENDS EnhancerBinding, FiniteSetTheorems, SequenceTheorems, TLAPS

Starting == {"get_lib", "fe_init", "count", "opened"}
Ending == {"fe_free", "set_closed", "uncount"}

\* The values of what is not part of a stream.
Places ==
  /\ LIVE \in Nat /\ LIB \in Libs \cup {NoLib}
  /\ memory \in [Objs -> {"unborn", "alive", "gone"}]
  /\ closed \in [Objs -> {"unset", "no", "yes"}]
  /\ lib \in [Objs -> Libs \cup {NoLib}] /\ ref \subseteq Objs
  /\ at \in [Procs -> [stmt : Statements, obj : Objs \cup {NoObj}]]

\* Whose turn it is with an object: __init__ runs on an object nobody refers to
\* yet, the program closes what it refers to, __del__ what it does not.
Turns ==
  /\ \A p \in Procs : \/ at[p] = Idle
                      \/ at[p].stmt # "idle" /\ at[p].obj \in Objs /\ memory[at[p].obj] = "alive"
  /\ at["program"].stmt \in Starting =>
       closed[at["program"].obj] = "unset" /\ at["program"].obj \notin ref
  /\ at["program"].stmt \in Ending => at["program"].obj \in ref
  /\ at["finaliser"].stmt \in Ending \cup {"idle"} /\ at["finaliser"].obj \notin ref
  /\ \A p \in Procs : /\ at[p].stmt \in {"fe_free", "set_closed"} => closed[at[p].obj] = "no"
                      /\ at[p].stmt = "uncount" => closed[at[p].obj] = "yes"
  /\ \A o \in ref : memory[o] = "alive" /\ closed[o] # "unset"
  /\ \A o \in Objs : memory[o] = "unborn" => closed[o] = "unset"

\* What _LIVE_INSTANCES counts: from the statement after the increment to the
\* decrement.
Counted(o) ==
  /\ memory[o] = "alive"
  /\ \/ closed[o] = "no"
     \/ At("program", "opened", o)
     \/ \E p \in Procs : At(p, "uncount", o)

\* One object is counted at most, and none before the increment of __init__.
OneCounted ==
  /\ \A o \in Objs : Counted(o) => LIVE # 0
  /\ \A o, q \in Objs : Counted(o) /\ Counted(q) => o = q
  /\ at["program"].stmt \in Starting \ {"opened"} => LIVE = 0

HandoverInv == Places /\ Turns /\ OneCounted

\* Without interrupts: the counter is one at most, and counts somebody.
CountsOne ==
  /\ LIVE <= 1
  /\ LIVE # 0 => \E o \in Objs : Counted(o)

\* An object holds its engine from fe_init to fe_free.
Holds(o) ==
  \/ At("program", "count", o)
  \/ At("program", "opened", o)
  \/ /\ memory[o] = "alive" /\ closed[o] = "no"
     /\ \A p \in Procs : ~At(p, "set_closed", o)

\* An initialised engine is held by the object whose blob it reads, and heard the
\* stream that object was fed.
EngineHeld ==
  /\ \A l \in Libs : \/ engine[l] = Uninitialised
                     \/ engine[l].blob \in Objs /\ Holds(engine[l].blob) /\ lib[engine[l].blob] = l
  /\ \A o \in Objs : Holds(o) => /\ lib[o] \in Libs
                                 /\ engine[lib[o]] = [blob |-> o, stream |-> fed[o]]
  /\ \A o \in Objs : closed[o] = "unset" => fed[o] = <<>>
  /\ \A o \in Objs : At("program", "fe_init", o) => lib[o] \in Libs

\* The values of the streams: never longer than the bound.
StreamTypes ==
  /\ engine \in [Libs -> [blob : Objs \cup {NoBlob}, stream : Streams]]
  /\ fed \in [Objs -> Streams]
  /\ heard \in [obj : Objs \cup {NoObj}, fed : Streams,
                out : [blob : Objs \cup {NoBlob}, heard : Streams]]

OwnershipInv == HandoverInv /\ CountsOne /\ StreamTypes /\ EngineHeld /\ HeardOwnStream

-----------------------------------------------------------------------------
(* At most one Enhancer is open *)

\* Nothing has been constructed when the module is imported.
LEMMA InitHandover == Init => HandoverInv
<1> SUFFICES ASSUME Init PROVE HandoverInv  OBVIOUS
<1>1. NoObj \notin Objs  BY NoObjAssumption
<1>2. Places  BY DEF Init, Places, Procs, Idle, Statements
<1>3. Turns  BY <1>1 DEF Init, Turns, Procs, Idle, Starting, Ending
<1>4. OneCounted  BY <1>1 DEF Init, OneCounted, Counted, At, Procs, Idle, Starting
<1> QED  BY <1>2, <1>3, <1>4 DEF HandoverInv

\* The count looks at the counter, the flags and the statements only.
LEMMA SameCount ==
  ASSUME OneCounted, UNCHANGED <<LIVE, memory, closed, at>>
  PROVE  OneCounted'
BY DEF OneCounted, Counted, At

\* run() and reset() leave control as it is.
LEMMA SameControl ==
  ASSUME HandoverInv, UNCHANGED <<LIVE, LIB, memory, closed, lib, ref, at>>
  PROVE  HandoverInv'
<1>1. Places'  BY DEF HandoverInv, Places
<1>2. Turns'  BY DEF HandoverInv, Turns
<1>3. OneCounted'  BY SameCount DEF HandoverInv
<1> QED  BY <1>1, <1>2, <1>3 DEF HandoverInv

\* The two processes never work on the same object.
LEMMA OneAtATime ==
  ASSUME Places, Turns, NEW o \in Objs, NEW p \in Procs, at[p].obj = o, NEW q \in Procs \ {p}
  PROVE  at[q].obj # o
BY NoObjAssumption DEF Places, Turns, Procs, Idle, Starting, Ending, Statements

\* Leaving close(), from the program or from the finaliser, which frees the object.
LEMMA DoneKeepsTurns ==
  ASSUME Places, Turns, NEW o \in Objs, NEW p \in Procs, Done(p, o),
         \A q \in Procs \ {p} : at[q].obj # o,
         p = "finaliser" => o \notin ref,
         UNCHANGED <<closed, ref>>, memory[o] = "alive"
  PROVE  Turns'
<1>1. at' = [at EXCEPT ![p] = Idle]  BY DEF Done, Leave
<1>2. memory' = [memory EXCEPT ![o] = IF p = "finaliser" THEN "gone" ELSE @]  BY DEF Done
<1>3. Idle.stmt = "idle" /\ Idle.obj = NoObj /\ NoObj \notin Objs  BY NoObjAssumption DEF Idle
<1>4. \A q \in Procs : q # p => at'[q] = at[q] /\ at[q].obj # o  BY <1>1 DEF Places
<1>5. at'[p] = Idle  BY <1>1 DEF Places
<1>6. \A q \in Objs : q # o \/ p # "finaliser" => memory'[q] = memory[q]  BY <1>2 DEF Places
<1> QED  BY <1>1, <1>2, <1>3, <1>4, <1>5, <1>6 DEF Places, Turns, Procs, Starting, Ending

\* Every statement of either process keeps the turns and the count.
LEMMA HandoverStep == HandoverInv /\ [Next]_vars => HandoverInv'
<1> SUFFICES ASSUME HandoverInv, [Next]_vars  PROVE HandoverInv'
  OBVIOUS
<1> USE NoObjAssumption, LibsAssumption DEF HandoverInv, Places, Procs, At, Idle
<1>1. ASSUME NEW o \in Objs, New(o)  PROVE HandoverInv'
  <2>1. Places'  BY <1>1 DEF New, Goto, globals, Statements
  <2>2. Turns'  BY <1>1 DEF New, Goto, globals, Turns, Starting, Ending
  <2>3. OneCounted'
    BY <1>1 DEF New, Goto, globals, Turns, OneCounted, Counted, Starting
  <2> QED  BY <2>1, <2>2, <2>3
<1>2. ASSUME NEW o \in Objs, NewFails(o) \/ CallInitFails(o)  PROVE HandoverInv'
  <2>1. Places'  BY <1>2 DEF NewFails, CallInitFails, Leave, globals, objects, Statements
  <2>2. Turns'
    BY <1>2 DEF NewFails, CallInitFails, Leave, globals, objects, Turns, Starting, Ending
  <2>3. OneCounted'
    BY <1>2
    DEF NewFails, CallInitFails, Leave, globals, objects, Turns, OneCounted, Counted, Starting
  <2> QED  BY <2>1, <2>2, <2>3
<1>3. ASSUME NEW o \in Objs, SetLib(o)  PROVE HandoverInv'
  <2>1. Places'  BY <1>3 DEF SetLib, Goto, LibFor, Statements
  <2>2. Turns'  BY <1>3 DEF SetLib, Goto, LibFor, Turns, Starting, Ending
  <2>3. OneCounted'
    BY <1>3 DEF SetLib, Goto, LibFor, Turns, OneCounted, Counted, Starting
  <2> QED  BY <2>1, <2>2, <2>3
<1>4. ASSUME NEW o \in Objs, CallInit(o)  PROVE HandoverInv'
  <2>1. Places'  BY <1>4 DEF CallInit, Goto, objects, Statements
  <2>2. Turns'  BY <1>4 DEF CallInit, Goto, objects, Turns, Starting, Ending
  <2>3. OneCounted'
    BY <1>4 DEF CallInit, Goto, objects, Turns, OneCounted, Counted, Starting
  <2> QED  BY <2>1, <2>2, <2>3
<1>5. ASSUME NEW o \in Objs, Count(o)  PROVE HandoverInv'
  <2>1. Places'  BY <1>5 DEF Count, Goto, objects, Statements
  <2>2. Turns'  BY <1>5 DEF Count, Goto, objects, Turns, Starting, Ending
  <2>3. OneCounted'
    BY <1>5 DEF Count, Goto, objects, Turns, OneCounted, Counted, Starting
  <2> QED  BY <2>1, <2>2, <2>3
<1>6. ASSUME NEW o \in Objs, Opened(o)  PROVE HandoverInv'
  <2>1. Places'  BY <1>6 DEF Opened, Leave, globals, Statements
  <2>2. Turns'  BY <1>6 DEF Opened, Leave, globals, Turns, Starting, Ending
  <2>3. OneCounted'
    BY <1>6 DEF Opened, Leave, globals, Turns, OneCounted, Counted, Starting
  <2> QED  BY <2>1, <2>2, <2>3
<1>7. ASSUME NEW o \in Objs, NEW p \in Procs, CloseOpen(p, o)  PROVE HandoverInv'
  <2>1. Places'  BY <1>7 DEF CloseOpen, MayBegin, Goto, globals, objects, Statements
  <2>2. Turns'  BY <1>7 DEF CloseOpen, MayBegin, Goto, globals, objects, Turns, Starting, Ending
  <2>3. OneCounted'
    BY <1>7
    DEF CloseOpen, MayBegin, Goto, globals, objects, Turns, OneCounted, Counted, Starting
  <2> QED  BY <2>1, <2>2, <2>3
<1>8. ASSUME NEW o \in Objs, NEW p \in Procs, CallFree(p, o) \/ InterruptFree(p, o)
     PROVE HandoverInv'
  <2>1. Places'  BY <1>8 DEF CallFree, InterruptFree, Goto, globals, objects, Statements
  <2>2. Turns'
    BY <1>8 DEF CallFree, InterruptFree, Goto, globals, objects, Turns, Starting, Ending
  <2>3. OneCounted'
    BY <1>8
    DEF CallFree, InterruptFree, Goto, globals, objects, Turns, OneCounted, Counted, Starting
  <2> QED  BY <2>1, <2>2, <2>3
<1>9. ASSUME NEW o \in Objs, NEW p \in Procs, SetClosed(p, o)  PROVE HandoverInv'
  <2>1. Places'  BY <1>9 DEF SetClosed, Goto, globals, Statements
  <2>2. Turns'  BY <1>9 DEF SetClosed, Goto, globals, Turns, Starting, Ending
  <2>3. OneCounted'
    BY <1>9 DEF SetClosed, Goto, globals, Turns, OneCounted, Counted, Starting
  <2> QED  BY <2>1, <2>2, <2>3
<1>10. ASSUME NEW o \in Objs, Drop(o)  PROVE HandoverInv'
  <2>1. Places'  BY <1>10 DEF Drop, globals, Statements
  <2>2. Turns'  BY <1>10 DEF Drop, globals, Turns, Starting, Ending
  <2>3. OneCounted'  BY <1>10, SameCount DEF Drop, globals
  <2> QED  BY <2>1, <2>2, <2>3
<1>11. ASSUME NEW o \in Objs, InterruptInit(o)  PROVE HandoverInv'
  <2>1. Places'  BY <1>11 DEF InterruptInit, Leave, globals, objects, Statements
  <2>2. Turns'  BY <1>11 DEF InterruptInit, Leave, globals, objects, Turns, Starting, Ending
  <2>3. OneCounted'
    BY <1>11 DEF InterruptInit, Leave, globals, objects, Turns, OneCounted, Counted, Starting
  <2> QED  BY <2>1, <2>2, <2>3
<1>12. ASSUME NEW o \in Objs, NEW p \in Procs, CloseOther(p, o)  PROVE HandoverInv'
  <2>1. /\ Done(p, o) /\ memory[o] = "alive"
        /\ p = "finaliser" => o \notin ref
        /\ UNCHANGED <<closed, ref>>
    BY <1>12 DEF CloseOther, MayBegin, globals, Turns
  <2>2. \A q \in Procs \ {p} : at[q].obj # o
    BY <1>12, OneAtATime DEF CloseOther, MayBegin, globals, Turns, Starting, Ending
  <2>3. Places'  BY <1>12, <2>1 DEF CloseOther, MayBegin, globals, Done, Leave, Statements
  <2>4. Turns'  BY <2>1, <2>2, DoneKeepsTurns
  <2>5. OneCounted'
    BY <1>12, <2>1
    DEF CloseOther, MayBegin, globals, Done, Leave, Turns, OneCounted, Counted, Starting
  <2> QED  BY <2>3, <2>4, <2>5
<1>13. ASSUME NEW o \in Objs, NEW p \in Procs, Uncount(p, o)  PROVE HandoverInv'
  <2>1. /\ Done(p, o) /\ memory[o] = "alive"
        /\ p = "finaliser" => o \notin ref
        /\ UNCHANGED <<closed, ref>>
    BY <1>13 DEF Uncount, Turns
  <2>2. \A q \in Procs \ {p} : at[q].obj # o
    BY <1>13, OneAtATime DEF Uncount, Turns, Starting, Ending
  <2>3. Places'  BY <1>13, <2>1 DEF Uncount, Done, Leave, Statements
  <2>4. Turns'  BY <2>1, <2>2, DoneKeepsTurns
  <2>5. OneCounted'
    BY <1>13, <2>1 DEF Uncount, Done, Leave, Turns, OneCounted, Counted, Starting
  <2> QED  BY <2>3, <2>4, <2>5
<1>14. ASSUME NEW o \in Objs, NEW p \in Procs, InterruptFinally(p, o)  PROVE HandoverInv'
  <2>1. /\ Done(p, o) /\ memory[o] = "alive"
        /\ p = "finaliser" => o \notin ref
        /\ UNCHANGED <<closed, ref>>
    BY <1>14 DEF InterruptFinally, globals, Turns
  <2>2. \A q \in Procs \ {p} : at[q].obj # o
    BY <1>14, OneAtATime DEF InterruptFinally, globals, Turns, Starting, Ending
  <2>3. Places'  BY <1>14, <2>1 DEF InterruptFinally, globals, Done, Leave, Statements
  <2>4. Turns'  BY <2>1, <2>2, DoneKeepsTurns
  <2>5. OneCounted'
    BY <1>14, <2>1
    DEF InterruptFinally, globals, Done, Leave, Turns, OneCounted, Counted, Starting
  <2> QED  BY <2>3, <2>4, <2>5
<1>15. ASSUME NEW o \in Objs, (\E x \in Frames : RunFrame(o, x)) \/ ResetStream(o)
     PROVE HandoverInv'
  BY <1>15, SameControl DEF RunFrame, ResetStream, globals
<1>16. CASE UNCHANGED vars
  BY <1>16, SameControl DEF vars, globals, objects
<1>17. "program" \in Procs /\ "finaliser" \in Procs  BY DEF Procs
<1> QED
  BY <1>1, <1>2, <1>3, <1>4, <1>5, <1>6, <1>7, <1>8, <1>9, <1>10, <1>11, <1>12, <1>13, <1>14,
      <1>15, <1>16, <1>17
  DEF Next, Construct, Closing, Finalise, Interrupt

\* The turns and the count, in every state any interleaving and any interrupt reach.
THEOREM HandoverInvariant == Spec => []HandoverInv
<1> QED  BY InitHandover, HandoverStep, PTL DEF Spec

\* However interrupts fall, _binding.py never has two Enhancers open.
THEOREM BindingOneOpen == Spec => []OneOpen
<1>1. ASSUME HandoverInv  PROVE OneOpen
  <2>1. \A o, q \in Open : o = q  BY <1>1 DEF HandoverInv, OneCounted, Counted, Open
  <2>2. Open = {} \/ \E o : Open = {o}  BY <2>1
  <2>3. Cardinality(Open) = 0 \/ Cardinality(Open) = 1  BY <2>2, FS_EmptySet, FS_Singleton
  <2> QED  BY <2>3 DEF OneOpen
<1> QED  BY <1>1, HandoverInvariant, PTL

-----------------------------------------------------------------------------
(* Without interrupts: the engine belongs to the open Enhancer *)

\* An engine is initialised when its blob is an object.
LEMMA InitialisedEngine ==
  /\ ~IsInitialised(Uninitialised)
  /\ \A e : e.blob \in Objs => IsInitialised(e)
BY NoBlobAssumption, BlobsAreObjs DEF IsInitialised, Uninitialised

\* A stream below the bound has room for one more frame.
LEMMA LongerStream ==
  ASSUME NEW s \in Streams, NEW x \in Frames, Len(s) < MaxStream
  PROVE  Append(s, x) \in Streams
<1>1. PICK n \in 0 .. MaxStream : s \in [1 .. n -> Frames]  BY DEF Streams
<1>2. n \in Nat /\ MaxStream \in Nat  BY StreamAssumption
<1>3. s \in Seq(Frames) /\ Len(s) = n  BY <1>1, <1>2
<1>4. Append(s, x) \in [1 .. n + 1 -> Frames]
  <2>1. Append(s, x) \in Seq(Frames) /\ Len(Append(s, x)) = n + 1  BY <1>3
  <2> QED  BY <2>1, LenProperties
<1>5. n + 1 \in 0 .. MaxStream  BY <1>2, <1>3
<1> QED  BY <1>4, <1>5 DEF Streams

\* A stream without frames, after construction or reset().
LEMMA EmptyStream == <<>> \in Streams
<1>1. 0 \in 0 .. MaxStream  BY StreamAssumption
<1>2. <<>> \in [1 .. 0 -> Frames]  OBVIOUS
<1> QED  BY <1>1, <1>2 DEF Streams

\* Before the first Enhancer no engine is initialised.
LEMMA InitOwnership == Init => OwnershipInv
<1> SUFFICES ASSUME Init PROVE OwnershipInv  OBVIOUS
<1>1. HandoverInv  BY InitHandover
<1>2. CountsOne  BY DEF Init, CountsOne
<1>3. StreamTypes  BY EmptyStream DEF Init, StreamTypes, Uninitialised, NoOutput
<1>4. EngineHeld
  BY NoObjAssumption DEF Init, EngineHeld, Holds, At, Procs, Idle
<1>5. HeardOwnStream  BY DEF Init, HeardOwnStream
<1> QED  BY <1>1, <1>2, <1>3, <1>4, <1>5 DEF OwnershipInv

\* Without interrupts a step keeps the counter at the number of counted objects.
LEMMA CountsOneStep ==
  ASSUME ~Interrupts, HandoverInv, CountsOne, [Next]_vars
  PROVE  CountsOne'
<1> USE NoObjAssumption DEF HandoverInv, Places, Counted, At
<1>1. ASSUME NEW o \in Objs, New(o)  PROVE CountsOne'
  BY <1>1 DEF New, Goto, globals, CountsOne, Turns, Procs, Idle
<1>2. ASSUME NEW o \in Objs, NewFails(o) \/ CallInitFails(o) \/ SetLib(o) \/ CallInit(o)
     PROVE CountsOne'
  BY <1>2
  DEF NewFails, CallInitFails, SetLib, CallInit, Goto, Leave, globals, objects, CountsOne,
      OneCounted, Turns, Procs, Idle, Starting
<1>3. ASSUME NEW o \in Objs, Count(o)  PROVE CountsOne'
  BY <1>3 DEF Count, Goto, objects, CountsOne, OneCounted, Turns, Procs, Idle, Starting
<1>4. ASSUME NEW o \in Objs, Opened(o)  PROVE CountsOne'
  BY <1>4 DEF Opened, Leave, globals, CountsOne, OneCounted, Turns, Procs, Idle, Starting
<1>5. ASSUME NEW o \in Objs, NEW p \in Procs, CloseOpen(p, o) \/ CallFree(p, o)
     PROVE CountsOne'
  BY <1>5
  DEF CloseOpen, MayBegin, CallFree, Goto, globals, objects, CountsOne, OneCounted, Turns,
      Procs, Idle, Starting
<1>6. ASSUME NEW o \in Objs, NEW p \in Procs, CloseOther(p, o)  PROVE CountsOne'
  BY <1>6
  DEF CloseOther, MayBegin, Done, Leave, globals, CountsOne, OneCounted, Turns, Procs, Idle,
      Starting
<1>7. ASSUME NEW o \in Objs, NEW p \in Procs, SetClosed(p, o)  PROVE CountsOne'
  BY <1>7 DEF SetClosed, Goto, globals, CountsOne, OneCounted, Turns, Procs, Idle, Starting
<1>8. ASSUME NEW o \in Objs, NEW p \in Procs, Uncount(p, o)  PROVE CountsOne'
  BY <1>8 DEF Uncount, Done, Leave, CountsOne, OneCounted, Turns, Procs, Idle, Starting
<1>9. ASSUME UNCHANGED <<LIVE, memory, closed, at>>  PROVE CountsOne'
  BY <1>9 DEF CountsOne
<1>10. ASSUME NEW o \in Objs, (\E x \in Frames : RunFrame(o, x)) \/ ResetStream(o) \/ Drop(o)
     PROVE CountsOne'
  BY <1>9, <1>10 DEF RunFrame, ResetStream, Drop, globals
<1>11. CASE UNCHANGED vars  BY <1>9, <1>11 DEF vars, globals, objects
<1>12. \A o \in Objs : ~Interrupt(o)
  BY DEF Interrupt, InterruptInit, InterruptFree, InterruptFinally
<1>13. "program" \in Procs /\ "finaliser" \in Procs  BY DEF Procs
<1> QED
  BY <1>1, <1>2, <1>3, <1>4, <1>5, <1>6, <1>7, <1>8, <1>10, <1>11, <1>12, <1>13
  DEF Next, Construct, Closing, Finalise

\* The counter is not zero while an Enhancer is open.
LEMMA OpenIsCounted ==
  ASSUME HandoverInv
  PROVE  \A o \in Objs : memory[o] = "alive" /\ closed[o] = "no" => LIVE # 0
BY DEF HandoverInv, OneCounted, Counted

\* Two objects never hold an engine at the same time.
LEMMA OneHolder ==
  ASSUME HandoverInv, NEW o \in Objs, NEW q \in Objs, Holds(o), Holds(q)
  PROVE  o = q
BY NoObjAssumption
DEF HandoverInv, Places, Turns, OneCounted, Counted, Holds, At, Procs, Idle, Starting,
    Statements

\* What the program refers to and has not closed holds its engine.
LEMMA ReferredHolds ==
  ASSUME HandoverInv, NEW o \in ref, closed[o] = "no", at["program"] = Idle
  PROVE  Holds(o)
BY NoObjAssumption DEF HandoverInv, Places, Turns, Holds, At, Procs, Idle

\* An engine held by the only holder, and no other engine initialised.
LEMMA OnlyEngine ==
  ASSUME NEW o \in Objs, lib'[o] \in Libs, \A q \in Objs : Holds(q)' <=> q = o,
         engine'[lib'[o]] = [blob |-> o, stream |-> fed'[o]],
         \A l \in Libs \ {lib'[o]} : engine'[l] = Uninitialised,
         \A q \in Objs : closed'[q] = "unset" => fed'[q] = <<>>,
         \A q \in Objs : At("program", "fe_init", q)' => lib'[q] \in Libs
  PROVE  EngineHeld'
BY DEF EngineHeld

\* A step that changes no engine, no stream and no holder.
LEMMA SameHolders ==
  ASSUME HandoverInv, EngineHeld, UNCHANGED <<engine, lib, fed>>,
         \A o \in Objs : Holds(o)' <=> Holds(o),
         \A o \in Objs : closed'[o] = "unset" => closed[o] = "unset",
         \A o \in Objs : At("program", "fe_init", o)' => At("program", "fe_init", o)
  PROVE  EngineHeld'
<1>1. \A l \in Libs : \/ engine'[l] = Uninitialised
                      \/ /\ engine'[l].blob \in Objs /\ Holds(engine[l].blob)'
                         /\ lib'[engine'[l].blob] = l
  BY DEF EngineHeld
<1> QED  BY <1>1 DEF EngineHeld, Holds, At

\* Without interrupts an engine is taken by fe_init for the object that is being
\* constructed, and given back by its own fe_free.
LEMMA EngineHeldStep ==
  ASSUME ~Interrupts, HandoverInv, StreamTypes, EngineHeld, [Next]_vars
  PROVE  EngineHeld'
<1> USE NoObjAssumption DEF HandoverInv, Places, At
<1>0. \A l \in Libs : engine[l] # Uninitialised => IsInitialised(engine[l])
  BY InitialisedEngine DEF EngineHeld
<1>1. ASSUME NEW o \in Objs, New(o)  PROVE EngineHeld'
  BY <1>1, SameHolders DEF New, Goto, globals, Holds, Turns, Procs, Idle
<1>2. ASSUME NEW o \in Objs, NewFails(o) \/ CallInitFails(o)  PROVE EngineHeld'
  BY <1>2, SameHolders
  DEF NewFails, CallInitFails, Leave, globals, objects, Holds, Turns, Procs, Idle, Starting
<1>3. ASSUME NEW o \in Objs, SetLib(o)  PROVE EngineHeld'
  BY <1>3, LibsAssumption
  DEF SetLib, LibFor, Goto, EngineHeld, Holds, Turns, Procs, Idle, Starting
<1>4. ASSUME NEW o \in Objs, CallInit(o)  PROVE EngineHeld'
  <2>1. /\ at["program"] = [stmt |-> "fe_init", obj |-> o]
        /\ at' = [at EXCEPT !["program"] = [stmt |-> "count", obj |-> o]]
        /\ UNCHANGED <<memory, closed, lib, fed>>
    BY <1>4 DEF CallInit, Goto, objects
  <2>2. LIVE = 0 /\ closed[o] = "unset" /\ fed[o] = <<>> /\ lib[o] \in Libs
    BY <2>1 DEF Turns, OneCounted, Starting, EngineHeld
  <2>3. \A q \in Objs : ~Holds(q)
    <3>1. \A q \in Objs : Holds(q) => memory[q] = "alive" /\ closed[q] = "no"  BY <2>1 DEF Holds
    <3>2. \A q \in Objs : memory[q] = "alive" /\ closed[q] = "no" => LIVE # 0  BY OpenIsCounted
    <3> QED  BY <2>2, <3>1, <3>2
  <2>4. \A l \in Libs : engine[l] = Uninitialised  BY <2>3 DEF EngineHeld
  <2>5. engine' = [engine EXCEPT ![lib[o]] = [blob |-> o, stream |-> <<>>]]
    BY <1>4, <2>2, <2>4, InitialisedEngine DEF CallInit, AfterInit
  <2>6. \A q \in Objs : Holds(q)' <=> q = o
    <3>1. at'["program"] = [stmt |-> "count", obj |-> o]  BY <2>1 DEF Procs
    <3>2. Holds(o)'  BY <3>1 DEF Holds
    <3>3. \A q \in Procs, r \in Objs : At(q, "set_closed", r)' <=> At(q, "set_closed", r)
      BY <2>1, <3>1 DEF Procs
    <3>4. ASSUME NEW q \in Objs \ {o}, Holds(q)'  PROVE FALSE
      <4>1. memory[q] = "alive" /\ closed[q] = "no"  BY <2>1, <3>1, <3>4 DEF Holds
      <4>2. \A r \in Procs : ~At(r, "set_closed", q)  BY <2>1, <3>1, <3>3, <3>4 DEF Holds
      <4> QED  BY <2>3, <4>1, <4>2 DEF Holds
    <3> QED  BY <3>2, <3>4
  <2>7. \A l \in Libs \ {lib[o]} : engine'[l] = Uninitialised  BY <2>4, <2>5 DEF StreamTypes
  <2>8. engine'[lib[o]] = [blob |-> o, stream |-> fed[o]]  BY <2>2, <2>5 DEF StreamTypes
  <2>9. \A q \in Objs : At("program", "fe_init", q)' => FALSE  BY <2>1 DEF Procs
  <2>10. \A q \in Objs : closed'[q] = "unset" => fed'[q] = <<>>  BY <2>1 DEF EngineHeld
  <2>11. lib'[o] \in Libs /\ engine'[lib'[o]] = [blob |-> o, stream |-> fed'[o]]
         /\ \A l \in Libs \ {lib'[o]} : engine'[l] = Uninitialised
    BY <2>1, <2>2, <2>7, <2>8
  <2>12. \A q \in Objs : At("program", "fe_init", q)' => lib'[q] \in Libs  BY <2>9
  <2> HIDE DEF At
  <2> QED  BY <2>6, <2>10, <2>11, <2>12, OnlyEngine
<1>5. ASSUME NEW o \in Objs, Count(o)  PROVE EngineHeld'
  BY <1>5, SameHolders DEF Count, Goto, objects, Holds, Turns, Procs, Idle, Starting
<1>6. ASSUME NEW o \in Objs, Opened(o)  PROVE EngineHeld'
  BY <1>6, SameHolders DEF Opened, Leave, globals, Holds, Turns, Procs, Idle, Starting
<1>7. ASSUME NEW o \in Objs, NEW p \in Procs, CloseOpen(p, o)  PROVE EngineHeld'
  BY <1>7, SameHolders
  DEF CloseOpen, MayBegin, Goto, globals, objects, Holds, Turns, Procs, Idle, Starting
<1>8. ASSUME NEW o \in Objs, NEW p \in Procs, CloseOther(p, o) \/ Uncount(p, o)
     PROVE EngineHeld'
  BY <1>8, SameHolders
  DEF CloseOther, Uncount, MayBegin, Done, Leave, globals, Holds, Turns, Procs, Idle, Starting
<1>9. ASSUME NEW o \in Objs, NEW p \in Procs, SetClosed(p, o)  PROVE EngineHeld'
  BY <1>9, SameHolders DEF SetClosed, Goto, globals, Holds, Turns, Procs, Idle, Starting
<1>10. ASSUME NEW o \in Objs, NEW p \in Procs, CallFree(p, o)  PROVE EngineHeld'
  <2>1. /\ at[p] = [stmt |-> "fe_free", obj |-> o]
        /\ at' = [at EXCEPT ![p] = [stmt |-> "set_closed", obj |-> o]]
        /\ UNCHANGED <<memory, closed, lib, fed>>
    BY <1>10 DEF CallFree, Goto, objects
  <2>2. memory[o] = "alive" /\ closed[o] = "no"  BY <2>1 DEF Turns, Idle
  <2>3. \A q \in Procs \ {p} : at[q].obj # o  BY <2>1, OneAtATime
  <2>4. Holds(o)  BY <2>1, <2>2, <2>3 DEF Holds
  <2>5. lib[o] \in Libs /\ \A q \in Objs \ {o} : ~Holds(q)  BY <2>4, OneHolder DEF EngineHeld
  <2>6. engine' = [engine EXCEPT ![lib[o]] = Uninitialised]  BY <1>10 DEF CallFree, AfterFree
  <2>7. \A l \in Libs : engine'[l] = Uninitialised  BY <2>5, <2>6 DEF EngineHeld, StreamTypes
  <2>8. \A q \in Objs : ~Holds(q)'
    <3>1. ~Holds(o)'
      BY <2>1, <2>2, <2>3 DEF Holds, Turns, Starting, Procs
    <3>2. \A q \in Objs \ {o} : ~Holds(q)'
      BY <2>1, <2>5 DEF Holds, Procs
    <3> QED  BY <3>1, <3>2
  <2>9. \A q \in Objs : At("program", "fe_init", q)' => At("program", "fe_init", q)
    BY <2>1 DEF Procs
  <2> QED  BY <2>1, <2>7, <2>8, <2>9 DEF EngineHeld
<1>11. ASSUME NEW o \in Objs, Drop(o)  PROVE EngineHeld'
  BY <1>11, SameHolders DEF Drop, globals, Holds
<1>12. ASSUME NEW o \in Objs, (\E x \in Frames : RunFrame(o, x)) \/ ResetStream(o)
     PROVE EngineHeld'
  <2>1. /\ at["program"] = Idle /\ o \in ref /\ closed[o] = "no"
        /\ UNCHANGED <<memory, closed, lib, at>>
    BY <1>12 DEF RunFrame, ResetStream, globals
  <2>2. Holds(o)  BY <2>1, ReferredHolds
  <2>3. lib[o] \in Libs /\ engine[lib[o]] = [blob |-> o, stream |-> fed[o]]
    BY <2>2 DEF EngineHeld
  <2>4. \A q \in Objs : Holds(q)' <=> q = o  BY <2>1, <2>2, OneHolder DEF Holds
  <2>5. \A l \in Libs \ {lib[o]} : engine[l] = Uninitialised  BY <2>2, OneHolder DEF EngineHeld
  <2>6. IsInitialised(engine[lib[o]])  BY <2>3, InitialisedEngine
  <2>7. /\ engine'[lib[o]] = [blob |-> o, stream |-> fed'[o]]
        /\ \A l \in Libs \ {lib[o]} : engine'[l] = engine[l]
    <3>1. ASSUME NEW x \in Frames, RunFrame(o, x)
          PROVE  /\ engine' = [engine EXCEPT ![lib[o]] = [blob |-> o, stream |-> Append(fed[o], x)]]
                 /\ fed' = [fed EXCEPT ![o] = Append(fed[o], x)]
      <4>1. AfterRun(engine[lib[o]], x) = [engine[lib[o]] EXCEPT !.stream = Append(@, x)]
        BY <2>6 DEF AfterRun
      <4>2. AfterRun(engine[lib[o]], x) = [blob |-> o, stream |-> Append(fed[o], x)]
        BY <2>3, <4>1
      <4> QED  BY <3>1, <4>2 DEF RunFrame
    <3>2. ASSUME ResetStream(o)
          PROVE  /\ engine' = [engine EXCEPT ![lib[o]] = [blob |-> o, stream |-> <<>>]]
                 /\ fed' = [fed EXCEPT ![o] = <<>>]
      <4>1. AfterReset(engine[lib[o]]) = [blob |-> o, stream |-> <<>>]
        BY <2>3 DEF AfterReset
      <4> QED  BY <3>2, <4>1 DEF ResetStream
    <3>3. /\ engine \in [Libs -> [blob : Objs \cup {NoBlob}, stream : Streams]]
          /\ fed \in [Objs -> Streams]
      BY DEF StreamTypes
    <3>4. ASSUME NEW s, engine' = [engine EXCEPT ![lib[o]] = [blob |-> o, stream |-> s]],
                 fed' = [fed EXCEPT ![o] = s]
          PROVE  /\ engine'[lib[o]] = [blob |-> o, stream |-> fed'[o]]
                 /\ \A l \in Libs \ {lib[o]} : engine'[l] = engine[l]
      BY <2>3, <3>3, <3>4
    <3> QED  BY <1>12, <3>1, <3>2, <3>4
  <2>8. \A q \in Objs \ {o} : fed'[q] = fed[q]
    BY <1>12 DEF RunFrame, ResetStream, StreamTypes
  <2> QED  BY <2>1, <2>3, <2>4, <2>5, <2>7, <2>8, OnlyEngine DEF EngineHeld, Idle
<1>13. CASE UNCHANGED vars  BY <1>13, SameHolders DEF vars, globals, objects, Holds
<1>14. \A o \in Objs : ~Interrupt(o)
  BY DEF Interrupt, InterruptInit, InterruptFree, InterruptFinally
<1>15. "program" \in Procs /\ "finaliser" \in Procs  BY DEF Procs
<1> QED
  BY <1>1, <1>2, <1>3, <1>4, <1>5, <1>6, <1>7, <1>8, <1>9, <1>10, <1>11, <1>12, <1>13, <1>14,
      <1>15
  DEF Next, Construct, Closing, Finalise

\* No stream grows past the bound, and run() answers with the stream it was fed.
LEMMA StreamTypesStep ==
  ASSUME HandoverInv, StreamTypes, HeardOwnStream, EngineHeld, [Next]_vars
  PROVE  StreamTypes' /\ HeardOwnStream'
<1>1. ASSUME UNCHANGED <<engine, fed, heard>>  PROVE StreamTypes' /\ HeardOwnStream'
  BY <1>1 DEF StreamTypes, HeardOwnStream
<1>2. ASSUME NEW o \in Objs, CallInit(o)  PROVE StreamTypes' /\ HeardOwnStream'
  BY <1>2, EmptyStream, BlobsAreObjs
  DEF CallInit, AfterInit, objects, StreamTypes, HeardOwnStream
<1>3. ASSUME NEW o \in Objs, NEW p \in Procs, CallFree(p, o)
     PROVE StreamTypes' /\ HeardOwnStream'
  BY <1>3, EmptyStream
  DEF CallFree, AfterFree, Uninitialised, objects, StreamTypes, HeardOwnStream
<1>4. ASSUME NEW o \in Objs, ResetStream(o)  PROVE StreamTypes' /\ HeardOwnStream'
  BY <1>4, EmptyStream DEF ResetStream, AfterReset, StreamTypes, HeardOwnStream
<1>5. ASSUME NEW o \in Objs, NEW x \in Frames, RunFrame(o, x)
     PROVE StreamTypes' /\ HeardOwnStream'
  <2>1. at["program"] = Idle /\ o \in ref /\ closed[o] = "no" /\ Len(fed[o]) < MaxStream
    BY <1>5 DEF RunFrame
  <2>2. lib[o] \in Libs /\ engine[lib[o]] = [blob |-> o, stream |-> fed[o]]
    BY <2>1, ReferredHolds DEF EngineHeld, HandoverInv, Places
  <2>3. fed[o] \in Streams /\ o \in Objs  BY DEF StreamTypes
  <2>4. Append(fed[o], x) \in Streams  BY <2>1, <2>3, LongerStream
  <2>5. AfterRun(engine[lib[o]], x) = [blob |-> o, stream |-> Append(fed[o], x)]
    BY <2>2, InitialisedEngine DEF AfterRun
  <2>6. OutputOf(engine[lib[o]], x, NoOutput) = [blob |-> o, heard |-> Append(fed[o], x)]
    BY <2>2, InitialisedEngine DEF OutputOf
  <2>7. /\ fed' = [fed EXCEPT ![o] = Append(fed[o], x)]
        /\ engine' = [engine EXCEPT ![lib[o]] = [blob |-> o, stream |-> Append(fed[o], x)]]
        /\ heard' = [obj |-> o, fed |-> fed'[o], out |-> [blob |-> o, heard |-> Append(fed[o], x)]]
    BY <1>5, <2>5, <2>6 DEF RunFrame
  <2> QED  BY <2>2, <2>3, <2>4, <2>7 DEF StreamTypes, HeardOwnStream
<1>6. "program" \in Procs /\ "finaliser" \in Procs  BY DEF Procs
<1>7. ASSUME NEW o \in Objs, NEW p \in Procs,
             \/ New(o) \/ NewFails(o) \/ SetLib(o) \/ CallInitFails(o) \/ Count(o) \/ Opened(o)
             \/ CloseOpen(p, o) \/ CloseOther(p, o) \/ SetClosed(p, o) \/ Uncount(p, o) \/ Drop(o)
             \/ InterruptInit(o) \/ InterruptFree(p, o) \/ InterruptFinally(p, o)
      PROVE  StreamTypes' /\ HeardOwnStream'
  <2>1. UNCHANGED <<engine, fed, heard>>
    BY <1>7
    DEF New, NewFails, SetLib, CallInitFails, Count, Opened, CloseOpen, CloseOther, SetClosed,
        Uncount, Drop, InterruptInit, InterruptFree, InterruptFinally, Done, globals, objects
  <2> QED  BY <1>1, <2>1
<1>8. CASE UNCHANGED vars  BY <1>1, <1>8 DEF vars, globals, objects
<1> QED
  BY <1>2, <1>3, <1>4, <1>5, <1>6, <1>7, <1>8 DEF Next, Construct, Closing, Finalise, Interrupt

\* Without interrupts: the turns, the count, and the engine of the one that is open.
THEOREM OwnershipInvariant == ASSUME ~Interrupts PROVE Spec => []OwnershipInv
<1>1. ASSUME OwnershipInv, [Next]_vars  PROVE OwnershipInv'
  BY <1>1, HandoverStep, CountsOneStep, EngineHeldStep, StreamTypesStep DEF OwnershipInv
<1> QED  BY <1>1, InitOwnership, PTL DEF Spec

\* The values of every variable of the binding.
THEOREM BindingTypeOK == ASSUME ~Interrupts PROVE Spec => []TypeOK
<1>1. OwnershipInv => TypeOK
  BY DEF OwnershipInv, HandoverInv, Places, StreamTypes, TypeOK
<1> QED  BY <1>1, OwnershipInvariant, PTL

\* The bytes object of an Enhancer outlives every engine that points into it.
THEOREM BindingBlobOutlivesEngine == ASSUME ~Interrupts PROVE Spec => []BlobOutlivesEngine
<1>1. ASSUME OwnershipInv  PROVE BlobOutlivesEngine
  <2>1. ASSUME NEW l \in Libs, IsInitialised(engine[l])  PROVE memory[engine[l].blob] = "alive"
    <3>1. engine[l].blob \in Objs /\ Holds(engine[l].blob)
      BY <1>1, <2>1, InitialisedEngine DEF OwnershipInv, EngineHeld
    <3> QED
      BY <1>1, <3>1, NoObjAssumption
      DEF OwnershipInv, HandoverInv, Turns, Holds, At, Procs, Idle
  <2> QED  BY <2>1 DEF BlobOutlivesEngine
<1> QED  BY <1>1, OwnershipInvariant, PTL

\* Over all the copies of libfe that were loaded, one engine at most is initialised.
THEOREM BindingExclusiveEngine == ASSUME ~Interrupts PROVE Spec => []ExclusiveEngine
<1>1. ASSUME OwnershipInv  PROVE ExclusiveEngine
  <2>1. \A l \in Busy : engine[l].blob \in Objs /\ Holds(engine[l].blob) /\ lib[engine[l].blob] = l
    BY <1>1, InitialisedEngine DEF Busy, OwnershipInv, EngineHeld
  <2>2. \A l, k \in Busy : l = k  BY <1>1, <2>1, OneHolder DEF OwnershipInv
  <2>3. Busy = {} \/ \E l : Busy = {l}  BY <2>2
  <2>4. Cardinality(Busy) = 0 \/ Cardinality(Busy) = 1  BY <2>3, FS_EmptySet, FS_Singleton
  <2> QED  BY <2>4 DEF ExclusiveEngine
<1> QED  BY <1>1, OwnershipInvariant, PTL

\* Nobody takes the engine away from an open Enhancer.
THEOREM BindingOwnsItsEngine == ASSUME ~Interrupts PROVE Spec => []OwnsItsEngine
<1>1. OwnershipInv => OwnsItsEngine
  BY DEF OwnershipInv, EngineHeld, Holds, OwnsItsEngine, Open
<1> QED  BY <1>1, OwnershipInvariant, PTL

\* run() answers for this object's weights and this object's frames.
THEOREM BindingHeardOwnStream == ASSUME ~Interrupts PROVE Spec => []HeardOwnStream
<1>1. OwnershipInv => HeardOwnStream  BY DEF OwnershipInv
<1> QED  BY <1>1, OwnershipInvariant, PTL

\* The counter is not zero without an Enhancer that is open, opening or closing.
THEOREM BindingCounterHonest == ASSUME ~Interrupts PROVE Spec => []CounterHonest
<1>1. OwnershipInv => CounterHonest
  <2>1. \A o \in Objs, p \in Procs : \A stmt : At(p, stmt, o) => at[p].obj = o  BY DEF At
  <2>2. \A o \in Objs : Counted(o) => \/ closed[o] = "no"
                                    \/ \E p \in Procs : at[p].obj = o
    BY <2>1 DEF Counted, Procs
  <2> QED  BY <2>2 DEF OwnershipInv, CountsOne, Counted, CounterHonest
<1> QED  BY <1>1, OwnershipInvariant, PTL
=============================================================================
