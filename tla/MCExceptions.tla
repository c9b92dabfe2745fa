---------------------------- MODULE MCExceptions ----------------------------
(* Instances of the exception machinery for TLC.                           *)
EXTENDS Exceptions

(* A statement with a catch clause and a finally block, one with the       *)
(* clause only; of the two exceptions, "other" passes both.                *)
MCTry == {"both", "catchOnly"}
MCExc == {"error", "other"}
MCCatches == [t \in MCTry |-> {"error"}]
MCWithFinally == {"both"}

(* Bound of the model: only the first frame nests its try statements.      *)
ShallowCalls == \A k \in 2 .. Len(frames) : Len(frames[k].pos) < MaxHandlers
=============================================================================
