----------------------------- MODULE BatchCall -----------------------------
(***************************************************************************)
(* What the callers of FPGA_AES_ENC, FPGA_HASH, ..., MGDB_QUERY rely on:    *)
(* a call hands over one operation and one input per slot, and returns     *)
(* with, in every slot, the result of that operation on that slot's input; *)
(* nothing is returned that was not asked for, and after ReleaseThreads    *)
(* nothing is called any more.                                             *)
(***************************************************************************)
CONSTANTS Threads,    \* the slots: one per worker thread
          OpCodes,    \* the operations a call may ask for
          Vals,       \* the abstract contents of an input slot
          NoRequest   \* there is no call in progress

VARIABLES phase,      \* "idle", "busy" or "closed"
          request,    \* the call in progress
          result      \* what the last call returned, per slot

vars == <<phase, request, result>>

(* The result of an operation is the free term of the operation and its input. *)
Result(op, val) == <<op, val>>

Init == /\ phase = "idle"
        /\ request = NoRequest
        /\ result = [t \in Threads |-> NoRequest]

Call == /\ phase = "idle"
        /\ phase' = "busy"
        /\ \E op \in OpCodes, input \in [Threads -> Vals] :
              request' = [op |-> op, input |-> input]
        /\ UNCHANGED result

Return == /\ phase = "busy"
          /\ phase' = "idle"
          /\ request' = NoRequest
          /\ result' = [t \in Threads |-> Result(request.op, request.input[t])]

Close == /\ phase = "idle"
         /\ phase' = "closed"
         /\ UNCHANGED <<request, result>>

Next == Call \/ Return \/ Close

Spec == Init /\ [][Next]_vars
=============================================================================
