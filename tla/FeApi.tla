-------------------------------- MODULE FeApi --------------------------------
(***************************************************************************)
(* The meaning of the four calls of fe.h, as operators on what a caller    *)
(* knows of an engine: the blob it was initialised with and the frames of  *)
(* the current stream.                                                     *)
(***************************************************************************)
EXTENDS Integers, Sequences

CONSTANTS
  Blobs,      \* weight blobs, by identity of the memory that holds them
  NoBlob      \* the engine is not initialised

ASSUME NoBlobAssumption == NoBlob \notin Blobs

Uninitialised == [blob |-> NoBlob, stream |-> <<>>]
IsInitialised(e) == e.blob # NoBlob

\* A second fe_init on an initialised engine is a no-op that returns 0.
AfterInit(e, b) == IF IsInitialised(e) THEN e ELSE [blob |-> b, stream |-> <<>>]

\* Mutant: the frame enters the stream twice.
AfterRun_twice(e, x) ==
  IF IsInitialised(e) THEN [e EXCEPT !.stream = @ \o <<x, x>>] ELSE e

AfterRun(e, x)  == IF IsInitialised(e) THEN [e EXCEPT !.stream = Append(@, x)] ELSE e
AfterReset(e)   == [e EXCEPT !.stream = <<>>]
AfterFree(e)    == Uninitialised

\* fe_run before a successful fe_init leaves the output buffer untouched.
OutputOf(e, x, old) ==
  IF IsInitialised(e) THEN [blob |-> e.blob, heard |-> Append(e.stream, x)] ELSE old

NoOutput == [blob |-> NoBlob, heard |-> <<>>]
=============================================================================
