----------------------------- MODULE ThreadPool -----------------------------
(***************************************************************************)
(* The worker pool both programs compute with: SetUpThreads starts         *)
(* N_threads workers, every FPGA_* function and MGDB_QUERY hands them one  *)
(* batch (one slot each) and waits for it, ReleaseThreads ends them.       *)
(*                                                                         *)
(* A section under the mutex mrun that touches only mutex-protected state  *)
(* is one step.  The section of a call is two steps (WriteBatch, Publish), *)
(* because the workers read *GL_OPCODE and their input slot, and write     *)
(* their output slot, without the mutex.  A condition variable is its set  *)
(* of sleeping threads, here the threads whose pc is "asleep"; it wakes    *)
(* them spuriously too.                                                    *)
(***************************************************************************)
EXTENDS Naturals, FiniteSets

CONSTANTS Threads,    \* the N_threads workers; a worker is also its slot
          OpCodes,    \* the opcodes the callers use (1..9 in the code)
          Vals,       \* the abstract contents of an input slot
          Uninit,     \* the contents of a buffer fresh from new[]
          Zero,       \* the contents of a buffer cleared by memset
          IterMod     \* the iteration counters wrap at this value (2^32)

Idle == 0   \* the opcode no branch of WorkerThread handles: the worker sleeps 1 ms

ASSUME ThreadsAssumption == IsFiniteSet(Threads) /\ Threads # {}
ASSUME OpCodesAssumption == OpCodes \subseteq Nat \ {Idle}
ASSUME ValsAssumption == Uninit \notin Vals
ASSUME IterModAssumption == IterMod \in Nat /\ IterMod >= 2

VARIABLES mpc,               \* where the main thread is
          wpc,               \* where each worker is
          nCurrentIteration, \* the round published last
          nNextIteration,    \* the round each worker waits for (a local)
          nWorkerCount,      \* workers the current round still waits for
          processed,         \* the pool is being released
          GL_OPCODE,         \* the operation of the round
          input,             \* the input slots (GL_AES_PT, GL_HASH_MSG, ...)
          output,            \* the output slots (GL_AES_CT, GL_HASH_DGST, ...)
          reg,               \* what each worker computes from: <<opcode, input>>
          ret                \* the caller's buffer, filled when the call returns

mainVars   == <<mpc, ret>>
sharedVars == <<nCurrentIteration, nWorkerCount, processed>>
dataVars   == <<GL_OPCODE, input, output>>
workerVars == <<wpc, nNextIteration, reg>>
vars == <<mainVars, sharedVars, dataVars, workerVars>>

N_threads == Cardinality(Threads)

(* ++ on a 32-bit counter.  The counters are ints: the model takes the      *)
(* wrap-around the build produces for their overflow.                       *)
Succ(i) == IF i = IterMod - 1 THEN 0 ELSE i + 1

Result(op, val) == <<op, val>>

(* mrun is held between two steps only while a call fills the batch.        *)
MrunFree == mpc # "publish"

(* A round is published and the main thread has not yet seen it complete.   *)
CallRound    == mpc \in {"notify", "wait", "asleep"}
ReleaseRound == mpc \in {"rel_notify", "rel_wait", "rel_asleep"}

-----------------------------------------------------------------------------
(* The globals are zero, the buffers do not exist yet.  A buffer's first    *)
(* contents are whatever new[] returns, and so is the first *GL_OPCODE.     *)
Init ==
  /\ mpc = "setup"
  /\ wpc = [w \in Threads |-> "unborn"]
  /\ nCurrentIteration = 0
  /\ nNextIteration = [w \in Threads |-> 1]
  /\ nWorkerCount = N_threads
  /\ processed = FALSE
  /\ GL_OPCODE \in OpCodes \cup {Idle}
  /\ input = [w \in Threads |-> Uninit]
  /\ output = [w \in Threads |-> Uninit]
  /\ reg = [w \in Threads |-> <<Idle, Uninit>>]
  /\ ret = [w \in Threads |-> Uninit]

(* SetUpThreads: the loop that starts the threads one by one; a started     *)
(* worker may run before the next one exists.                               *)
SpawnThread(w) ==
  /\ mpc = "setup"
  /\ wpc[w] = "unborn"
  /\ wpc' = [wpc EXCEPT ![w] = "check"]
  /\ UNCHANGED <<mainVars, sharedVars, dataVars, nNextIteration, reg>>

SetUpDone ==
  /\ mpc = "setup"
  /\ \A w \in Threads : wpc[w] # "unborn"
  /\ mpc' = "idle"
  /\ UNCHANGED <<ret, sharedVars, dataVars, workerVars>>

-----------------------------------------------------------------------------
(* An FPGA_* function or MGDB_QUERY, under mrun: clear the output slots,    *)
(* copy the inputs in, set the opcode.                                      *)
WriteBatch ==
  /\ mpc = "idle"
  /\ \E op \in OpCodes : GL_OPCODE' = op
  /\ input' \in [Threads -> Vals]
  /\ output' = [w \in Threads |-> Zero]
  /\ mpc' = "publish"
  /\ UNCHANGED <<ret, sharedVars, workerVars>>

(* Mutants of Publish: the counter is not set again; it is set one short.   *)
PublishStaleCount ==
  /\ mpc = "publish"
  /\ nCurrentIteration' = Succ(nCurrentIteration)
  /\ mpc' = "notify"
  /\ UNCHANGED <<ret, nWorkerCount, processed, dataVars, workerVars>>

PublishOneShort ==
  /\ mpc = "publish"
  /\ nWorkerCount' = N_threads - 1
  /\ nCurrentIteration' = Succ(nCurrentIteration)
  /\ mpc' = "notify"
  /\ UNCHANGED <<ret, processed, dataVars, workerVars>>

(* ... still under mrun: start the round, then unlock.                      *)
Publish ==
  /\ mpc = "publish"
  /\ nWorkerCount' = N_threads
  /\ nCurrentIteration' = Succ(nCurrentIteration)
  /\ mpc' = "notify"
  /\ UNCHANGED <<ret, processed, dataVars, workerVars>>

(* Mutant of WakeWorkers: notify_one instead of notify_all.                 *)
WakeOneWorker ==
  LET sleepers == {w \in Threads : wpc[w] = "asleep"} IN
  IF sleepers = {} THEN wpc' = wpc
  ELSE \E w \in sleepers : wpc' = [wpc EXCEPT ![w] = "lock"]

WakeWorkers == wpc' = [w \in Threads |-> IF wpc[w] = "asleep" THEN "lock" ELSE wpc[w]]

(* dataReady.notify_all(), outside mrun.                                    *)
NotifyWorkers ==
  /\ \/ mpc = "notify"     /\ mpc' = "wait"
     \/ mpc = "rel_notify" /\ mpc' = "rel_wait"
  /\ WakeWorkers
  /\ UNCHANGED <<ret, sharedVars, dataVars, nNextIteration, reg>>

(* workComplete.wait(lock, nWorkerCount == 0): take mrun, test, and sleep   *)
(* (releasing mrun) or go on.                                               *)
AwaitWorkers ==
  /\ \/ mpc = "wait"     /\ mpc' = IF nWorkerCount = 0 THEN "return" ELSE "asleep"
     \/ mpc = "rel_wait" /\ mpc' = IF nWorkerCount = 0 THEN "join" ELSE "rel_asleep"
  /\ UNCHANGED <<ret, sharedVars, dataVars, workerVars>>

(* Mutant of WakeMain: a wait without its predicate, any wake-up ends it.   *)
WakeMainNoRetest == mpc' = IF mpc = "asleep" THEN "return"
                           ELSE IF mpc = "rel_asleep" THEN "join" ELSE mpc

WakeMain == mpc' = IF mpc = "asleep" THEN "wait"
                   ELSE IF mpc = "rel_asleep" THEN "rel_wait" ELSE mpc

(* Mutant of ReturnBatch: the opcode is left as it is.                      *)
ReturnBatchKeepOpcode ==
  /\ mpc = "return"
  /\ ret' = output
  /\ mpc' = "idle"
  /\ UNCHANGED <<sharedVars, dataVars, workerVars>>

(* After the wait, without mrun: reset the opcode and copy the results out. *)
ReturnBatch ==
  /\ mpc = "return"
  /\ GL_OPCODE' = Idle
  /\ ret' = output
  /\ mpc' = "idle"
  /\ UNCHANGED <<sharedVars, input, output, workerVars>>

-----------------------------------------------------------------------------
(* Mutant of ReleaseThreads: no round is started for the last time.         *)
ReleaseNoRound ==
  /\ mpc = "idle"
  /\ nWorkerCount' = N_threads
  /\ processed' = TRUE
  /\ mpc' = "rel_notify"
  /\ UNCHANGED <<ret, nCurrentIteration, dataVars, workerVars>>

(* ReleaseThreads, under mrun: one more round, with processed set.          *)
ReleaseThreads ==
  /\ mpc = "idle"
  /\ nWorkerCount' = N_threads
  /\ processed' = TRUE
  /\ nCurrentIteration' = Succ(nCurrentIteration)
  /\ mpc' = "rel_notify"
  /\ UNCHANGED <<ret, dataVars, workerVars>>

(* ... join every worker, then free the buffers.                            *)
JoinThreads ==
  /\ mpc = "join"
  /\ \A w \in Threads : wpc[w] = "exited"
  /\ mpc' = "released"
  /\ UNCHANGED <<ret, sharedVars, dataVars, workerVars>>

-----------------------------------------------------------------------------
(* WorkerThread: while(!processed), read without mrun.  The race is benign  *)
(* for the model: a stale read is the same as an earlier one, the worker    *)
(* does nothing in between.                                                 *)
CheckProcessed(w) ==
  /\ wpc[w] = "check"
  /\ wpc' = [wpc EXCEPT ![w] = IF processed THEN "exited" ELSE "lock"]
  /\ UNCHANGED <<mainVars, sharedVars, dataVars, nNextIteration, reg>>

(* Mutant of AwaitRound: a worker that is awake begins the round untested.  *)
AwaitRoundNoPredicate(w) ==
  /\ wpc[w] = "lock"
  /\ MrunFree
  /\ wpc' = [wpc EXCEPT ![w] = "fetch"]
  /\ nNextIteration' = [nNextIteration EXCEPT ![w] = Succ(@)]
  /\ UNCHANGED <<mainVars, sharedVars, dataVars, reg>>

(* dataReady.wait(lock, nCurrentIteration == nNextIteration): sleep, or     *)
(* unlock and count the round as begun.                                     *)
AwaitRound(w) ==
  /\ wpc[w] = "lock"
  /\ MrunFree
  /\ IF nCurrentIteration = nNextIteration[w]
       THEN /\ wpc' = [wpc EXCEPT ![w] = "fetch"]
            /\ nNextIteration' = [nNextIteration EXCEPT ![w] = Succ(@)]
       ELSE /\ wpc' = [wpc EXCEPT ![w] = "asleep"]
            /\ UNCHANGED nNextIteration
  /\ UNCHANGED <<mainVars, sharedVars, dataVars, reg>>

(* The if-chain on *OPCODE and the reads of the input slot.                 *)
Fetch(w) ==
  /\ wpc[w] = "fetch"
  /\ reg' = [reg EXCEPT ![w] = <<GL_OPCODE, input[w]>>]
  /\ wpc' = [wpc EXCEPT ![w] = "store"]
  /\ UNCHANGED <<mainVars, sharedVars, dataVars, nNextIteration>>

(* The operation writes the output slot; opcode 0 only sleeps.              *)
Store(w) ==
  /\ wpc[w] = "store"
  /\ output' = IF reg[w][1] = Idle THEN output
               ELSE [output EXCEPT ![w] = Result(reg[w][1], reg[w][2])]
  /\ wpc' = [wpc EXCEPT ![w] = "count"]
  /\ UNCHANGED <<mainVars, sharedVars, GL_OPCODE, input, nNextIteration, reg>>

(* Mutant of CountDown: nWorkerCount-- == 0, the test sees the old value.   *)
CountDownPostfix(w) ==
  /\ wpc[w] = "count"
  /\ MrunFree
  /\ nWorkerCount' = nWorkerCount - 1
  /\ wpc' = [wpc EXCEPT ![w] = IF nWorkerCount = 0 THEN "notify" ELSE "check"]
  /\ UNCHANGED <<mainVars, nCurrentIteration, processed, dataVars, nNextIteration, reg>>

(* lock; if (--nWorkerCount == 0) { unlock; notify } else unlock.           *)
CountDown(w) ==
  /\ wpc[w] = "count"
  /\ MrunFree
  /\ nWorkerCount' = nWorkerCount - 1
  /\ wpc' = [wpc EXCEPT ![w] = IF nWorkerCount' = 0 THEN "notify" ELSE "check"]
  /\ UNCHANGED <<mainVars, nCurrentIteration, processed, dataVars, nNextIteration, reg>>

(* workComplete.notify_one(), outside mrun: it may come when the main       *)
(* thread is no longer waiting, or already waits for a later round.         *)
NotifyMain(w) ==
  /\ wpc[w] = "notify"
  /\ WakeMain
  /\ wpc' = [wpc EXCEPT ![w] = "check"]
  /\ UNCHANGED <<ret, sharedVars, dataVars, nNextIteration, reg>>

-----------------------------------------------------------------------------
SpuriousWakeWorker(w) ==
  /\ wpc[w] = "asleep"
  /\ wpc' = [wpc EXCEPT ![w] = "lock"]
  /\ UNCHANGED <<mainVars, sharedVars, dataVars, nNextIteration, reg>>

SpuriousWakeMain ==
  /\ mpc \in {"asleep", "rel_asleep"}
  /\ WakeMain
  /\ UNCHANGED <<ret, sharedVars, dataVars, workerVars>>

-----------------------------------------------------------------------------
Call    == WriteBatch \/ Publish \/ ReturnBatch
Wait    == NotifyWorkers \/ AwaitWorkers
Release == ReleaseThreads \/ JoinThreads

WorkerThread(w) ==
  \/ CheckProcessed(w) \/ AwaitRound(w) \/ Fetch(w)
  \/ Store(w) \/ CountDown(w) \/ NotifyMain(w)

Next ==
  \/ SetUpDone \/ Call \/ Wait \/ Release \/ SpuriousWakeMain
  \/ \E w \in Threads : SpawnThread(w) \/ WorkerThread(w) \/ SpuriousWakeWorker(w)

Spec == Init /\ [][Next]_vars

(* Every thread the operating system runs keeps running.  Making a call and *)
(* releasing the pool are the program's choice, so they are not fair.  No   *)
(* fairness of mrun is needed: whoever holds it releases it, and the main   *)
(* thread does not take it again before the workers had their turn.         *)
Fairness ==
  /\ WF_vars(SetUpDone) /\ WF_vars(Publish) /\ WF_vars(Wait)
  /\ WF_vars(ReturnBatch) /\ WF_vars(JoinThreads)
  /\ \A w \in Threads : WF_vars(SpawnThread(w)) /\ WF_vars(WorkerThread(w))

FairSpec == Spec /\ Fairness

-----------------------------------------------------------------------------
MainStates   == {"setup", "idle", "publish", "notify", "wait", "asleep", "return",
                 "rel_notify", "rel_wait", "rel_asleep", "join", "released"}
WorkerStates == {"unborn", "check", "lock", "asleep", "fetch", "store", "count",
                 "notify", "exited"}
Iterations   == 0 .. IterMod - 1
InSlots      == Vals \cup {Uninit}
Results      == OpCodes \X InSlots
OutSlots     == Results \cup {Zero, Uninit}

(* Type invariant of the pool's state (the globals of mainwindow_*.cpp, the *)
(* locals of WorkerThread).                                                 *)
TypeOK ==
  /\ mpc \in MainStates
  /\ wpc \in [Threads -> WorkerStates]
  /\ nCurrentIteration \in Iterations
  /\ nNextIteration \in [Threads -> Iterations]
  /\ nWorkerCount \in 0 .. N_threads
  /\ processed \in BOOLEAN
  /\ GL_OPCODE \in OpCodes \cup {Idle}
  /\ input \in [Threads -> InSlots]
  /\ output \in [Threads -> OutSlots]
  /\ reg \in [Threads -> (OpCodes \cup {Idle}) \X InSlots]
  /\ ret \in [Threads -> OutSlots]

Working(w) == wpc[w] \in {"fetch", "store", "count"}

(* The workers that still owe the count-down of the published round: those  *)
(* that have not begun it and those that are in it.                         *)
Owing == {w \in Threads : nNextIteration[w] = nCurrentIteration \/ Working(w)}

(* The hand-shake of dispatch and WorkerThread: the counter that ends a     *)
(* round counts exactly the workers that have not finished it, no worker is *)
(* in a round while the main thread is between two, and no worker is ever   *)
(* more than one round behind, so that == on the wrapping counters decides  *)
(* "my round has begun".                                                    *)
RoundSync ==
  /\ IF CallRound \/ ReleaseRound THEN nWorkerCount = Cardinality(Owing) ELSE Owing = {}
  /\ \A w \in Threads : nNextIteration[w] \in {nCurrentIteration, Succ(nCurrentIteration)}
  /\ \A w \in Threads : Working(w) => nNextIteration[w] = Succ(nCurrentIteration)

(* The slots and *GL_OPCODE are shared without a lock: a worker only        *)
(* touches them while the main thread neither fills, reads nor frees them.  *)
NoDataRace ==
  \A w \in Threads : wpc[w] \in {"fetch", "store"} =>
     mpc \notin {"idle", "publish", "return", "join", "released"}

(* No lost wake-up on either condition variable: a worker sleeps through a  *)
(* published round only while its notify_all is still to come, and the main *)
(* thread sleeps on a finished round only while its notify_one is to come.  *)
NoLostWakeup ==
  /\ \A w \in Threads : wpc[w] = "asleep" /\ nNextIteration[w] = nCurrentIteration
        => mpc \in {"notify", "rel_notify"}
  /\ mpc \in {"asleep", "rel_asleep"} /\ nWorkerCount = 0
        => \E w \in Threads : wpc[w] = "notify"

(* Once a call has returned, no round runs an old operation again: the      *)
(* round ReleaseThreads starts finds the opcode reset to 0 by the last call *)
(* (before the first call it is uninitialized memory).                      *)
ReleaseRunsNothing ==
  \A w \in Threads : ReleaseRound /\ wpc[w] = "store" /\ ret # [t \in Threads |-> Uninit]
     => reg[w][1] = Idle

(* A call returns, in every slot, the result of its own opcode on its own   *)
(* input: the pool implements the abstract batch call of BatchCall.         *)
Busy == mpc \in {"publish", "notify", "wait", "asleep", "return"}

Batch == INSTANCE BatchCall WITH
  NoRequest <- Uninit,
  phase     <- IF Busy THEN "busy"
               ELSE IF mpc \in {"setup", "idle"} THEN "idle" ELSE "closed",
  request   <- IF Busy THEN [op |-> GL_OPCODE, input |-> input] ELSE Uninit,
  result    <- ret

BatchSpec == Batch!Spec

-----------------------------------------------------------------------------
(* Every call of FPGA_* or MGDB_QUERY returns: no interleaving of the        *)
(* notifications with the waits leaves both sides asleep.                    *)
CallReturns == (mpc = "publish") ~> (mpc = "idle")

(* Sys_Clear ends the pool: ReleaseThreads returns once it has begun.        *)
ReleaseReturns == (mpc = "rel_notify") ~> (mpc = "released")

(* ReleaseThreads hangs in one way only: a worker that had finished its last *)
(* round (or had not run at all) reads processed after it was set, and exits *)
(* without the count-down the main thread waits for.                         *)
MissedRelease(w) == wpc[w] = "exited" /\ nNextIteration[w] = nCurrentIteration

ReleaseReturnsOrMissed ==
  (mpc = "rel_notify") ~> (mpc = "released" \/ \E w \in Threads : MissedRelease(w))
=============================================================================
