---------------------------- MODULE LocalAdapter ----------------------------
(***************************************************************************)
(* SupersetLocalMcpAdapter (src/src/superset-local-mcp-adapter.ts): a      *)
(* launch writes its intent to the run-state file, asks Superset for a     *)
(* session through a bridge process of its own, and binds the session to   *)
(* the key in the file.                                                    *)
(*                                                                         *)
(* A launch call makes at most one session, which is named after it.  A    *)
(* call works on the copy of the file it read when it took the lock and    *)
(* writes that copy back whole.  The file is replaced atomically, but a    *)
(* write may report an error before or after the replacement.              *)
(*                                                                         *)
(* The lock is that of proper-lockfile (external): who asks for it takes it*)
(* from a holder that died or was not scheduled in time to refresh it, and *)
(* the holder learns of that only from its own timer, some time later.     *)
(***************************************************************************)
EXTENDS Naturals, FiniteSets, AgentCalls

CONSTANTS Processes, Process,  \* the server process each call runs in
          Free

ASSUME AdapterConstants ==
    /\ Key \in [Calls -> Keys] /\ Process \in [Calls -> Processes]
    /\ NoRun \notin Calls /\ Free \notin Calls

VARIABLES file,     \* the run-state file
          lock,     \* holder of the lock file beside it
          call,     \* the launch calls
          sessions, \* sessions that Superset has started
          overrun   \* history: calls that went past a check of the lock, or stood
                    \* between a check and its write, without it

vars == <<file, lock, call, sessions, overrun>>

State == [runs: [Keys -> Calls \cup {NoRun}], pending: SUBSET Keys]
Empty == [runs |-> [k \in Keys |-> NoRun], pending |-> {}]
Critical == {"locked", "checked", "withdraw", "bridge", "dispatched", "refused",
             "clear", "bind", "leave"}
Call == [at: Critical \cup {"idle", "queued", "done", "dead"}, copy: State, lost: BOOLEAN,
         sent: BOOLEAN, run: Calls \cup {NoRun}]
Fresh == [at |-> "idle", copy |-> Empty, lost |-> FALSE, sent |-> FALSE, run |-> NoRun]

TypeOK ==
    /\ file \in State /\ lock \in Calls \cup {Free}
    /\ call \in [Calls -> Call] /\ sessions \subseteq Calls /\ overrun \subseteq Calls

Init ==
    /\ file = Empty /\ lock = Free
    /\ call = [c \in Calls |-> Fresh] /\ sessions = {} /\ overrun = {}

At(c, a) == call[c].at = a
Goto(c, a) == call' = [call EXCEPT ![c].at = a]
\* The result of a call is a run or an error (NoRun).
Leave(c, r) == call' = [call EXCEPT ![c].at = "leave", ![c].run = r]

\* States that a write of s may leave behind, and whether it reported success.
Written(s) == {<<s, TRUE>>, <<s, FALSE>>, <<file, FALSE>>}

-----------------------------------------------------------------------------
(* exclusive: the queue of the process, then the lock file.                *)

\* launch, unless the workspace is not valid any more.
Enter(c) ==
    /\ At(c, "idle") /\ (Goto(c, "queued") \/ Goto(c, "done"))
    /\ UNCHANGED <<file, lock, sessions, overrun>>

\* A call that has checked the lock and is about to write.
Writing == {"checked", "withdraw", "clear", "bind"}
\* The holder of the lock, when it is lost to a call that is about to write.
Lose == {c \in Calls : lock = c /\ call[c].at \in Writing}

\* A held lock is had once it is stale.
Lock(c) ==
    /\ At(c, "queued")
    /\ \A d \in Calls \ {c} : Process[d] = Process[c] => call[d].at \notin Critical
    /\ lock' = c /\ Goto(c, "locked")
    /\ overrun' = overrun \cup Lose
    /\ UNCHANGED <<file, sessions>>

\* The lock could not be had in time.
LockFails(c) ==
    /\ At(c, "queued") /\ Goto(c, "done")
    /\ UNCHANGED <<file, lock, sessions, overrun>>

\* onCompromised: the timer that refreshes the lock was late, or met the lock of
\* another process.
Compromised(c) ==
    /\ call[c].at \in Critical /\ ~call[c].lost
    /\ call' = [call EXCEPT ![c].lost = TRUE]
    /\ UNCHANGED <<file, lock, sessions, overrun>>

\* assertLockHeld: a call goes past it that does not know of its loss.
Unwarned(c) == IF lock = c THEN {} ELSE {c}
LockHeld(c) == ~call[c].lost /\ overrun' = overrun \cup Unwarned(c)
LockLost(c) == call[c].lost /\ UNCHANGED overrun

\* The lock directory is removed, whosever it is, unless its loss was noticed.
Unlock(c) ==
    /\ At(c, "leave")
    /\ IF call[c].lost THEN UNCHANGED <<lock, overrun>>
                       ELSE lock' = Free /\ overrun' = overrun \cup Lose
    /\ call' = [call EXCEPT ![c] = [Fresh EXCEPT !.at = "done", !.sent = call[c].sent,
                                                 !.run = call[c].run]]
    /\ UNCHANGED <<file, sessions>>

-----------------------------------------------------------------------------
(* launch.                                                                 *)

\* Mutant: a run is looked up without its key.
ReadAnyRun(c) ==
    /\ At(c, "locked")
    /\ \/ \E k \in Keys : file.runs[k] # NoRun /\ Leave(c, file.runs[k]) /\ UNCHANGED overrun
       \/ /\ Key[c] \notin file.pending /\ LockHeld(c)
          /\ \A k \in Keys : file.runs[k] = NoRun
          /\ call' = [call EXCEPT ![c].at = "checked", ![c].copy = file]
    /\ UNCHANGED <<file, lock, sessions>>

\* The run of the key is returned; an intent without a run is refused; the
\* file may be unreadable, the lock lost.
Read(c) ==
    /\ At(c, "locked")
    /\ LET run == file.runs[Key[c]] IN
        \/ run # NoRun /\ Leave(c, run) /\ UNCHANGED overrun
        \/ Leave(c, NoRun) /\ UNCHANGED overrun
        \/ /\ run = NoRun /\ Key[c] \notin file.pending /\ LockHeld(c)
           /\ call' = [call EXCEPT ![c].at = "checked", ![c].copy = file]
    /\ UNCHANGED <<file, lock, sessions>>

\* The file as c read it with the intent of its key, without it, with its run.
Intended(c) == [call[c].copy EXCEPT !.pending = @ \cup {Key[c]}]
Cleared(c) == [call[c].copy EXCEPT !.pending = @ \ {Key[c]}]
Bound(c) == [Cleared(c) EXCEPT !.runs[Key[c]] = c]

\* The write-ahead intent.
Intend(c) ==
    /\ At(c, "checked")
    /\ \E w \in Written(Intended(c)) :
        /\ file' = w[1]
        /\ Goto(c, IF w[2] THEN "bridge" ELSE "withdraw")
    /\ UNCHANGED <<lock, sessions, overrun>>

\* The intent may have landed although its write failed.
Withdraw(c) ==
    /\ At(c, "withdraw")
    /\ \E w \in Written(Cleared(c)) : file' = w[1]
    /\ Leave(c, NoRun)
    /\ UNCHANGED <<lock, sessions, overrun>>

\* invokeLocalTool: the bridge answered initialize and tools/call is sent.
Dispatch(c) ==
    /\ At(c, "bridge")
    /\ call' = [call EXCEPT ![c].at = "dispatched", ![c].sent = TRUE]
    /\ UNCHANGED <<file, lock, sessions, overrun>>

\* The bridge failed, closed or timed out before: not_dispatched.
NotDispatched(c) ==
    /\ At(c, "bridge") /\ Goto(c, "refused")
    /\ UNCHANGED <<file, lock, sessions, overrun>>

\* Superset (external) starts the session, also when nobody waits any more.
Create(c) ==
    /\ call[c].sent /\ c \notin sessions
    /\ sessions' = sessions \cup {c}
    /\ UNCHANGED <<file, lock, call, overrun>>

\* A JSON-RPC request-validation error: rejected, no handler ran.
Rejected(c) ==
    /\ At(c, "dispatched") /\ c \notin sessions
    /\ call' = [call EXCEPT ![c].at = "refused", ![c].sent = FALSE]
    /\ UNCHANGED <<file, lock, sessions, overrun>>

\* A timeout, an early exit, an isError or malformed answer: the outcome is
\* unknown and the intent stays.
Unknown(c) ==
    /\ At(c, "dispatched") /\ Leave(c, NoRun)
    /\ UNCHANGED <<file, lock, sessions, overrun>>

\* Mutant: the intent is cleared by a call that knows it lost the lock.
RefusedUnchecked(c) ==
    /\ At(c, "refused") /\ Goto(c, "clear")
    /\ UNCHANGED <<file, lock, sessions, overrun>>

\* assertLockHeld before the intent of a refused call is cleared.
Refused(c) ==
    /\ At(c, "refused")
    /\ \/ LockLost(c) /\ Leave(c, NoRun)
       \/ LockHeld(c) /\ Goto(c, "clear")
    /\ UNCHANGED <<file, lock, sessions>>

Clear(c) ==
    /\ At(c, "clear")
    /\ \E w \in Written(Cleared(c)) : file' = w[1]
    /\ Leave(c, NoRun)
    /\ UNCHANGED <<lock, sessions, overrun>>

\* Superset names the session; assertLockHeld before it is bound.
Answered(c) ==
    /\ At(c, "dispatched") /\ c \in sessions
    /\ \/ LockLost(c) /\ Leave(c, NoRun)
       \/ LockHeld(c) /\ Goto(c, "bind")
    /\ UNCHANGED <<file, lock, sessions>>

Bind(c) ==
    /\ At(c, "bind")
    /\ \E w \in Written(Bound(c)) :
        file' = w[1] /\ Leave(c, IF w[2] THEN c ELSE NoRun)
    /\ UNCHANGED <<lock, sessions, overrun>>

\* The calls of a process end with it; a held lock goes stale.
Crash(p) ==
    /\ \E c \in Calls : Process[c] = p /\ call[c].at \notin {"idle", "done", "dead"}
    /\ call' = [c \in Calls |->
                    IF Process[c] = p /\ call[c].at \notin {"idle", "done", "dead"}
                    THEN [Fresh EXCEPT !.at = "dead", !.sent = call[c].sent] ELSE call[c]]
    /\ UNCHANGED <<file, lock, sessions, overrun>>

Next ==
    \/ \E c \in Calls :
        \/ Enter(c) \/ Lock(c) \/ LockFails(c) \/ Compromised(c) \/ Unlock(c)
        \/ Read(c) \/ Intend(c) \/ Withdraw(c)
        \/ Dispatch(c) \/ NotDispatched(c) \/ Create(c) \/ Rejected(c) \/ Unknown(c)
        \/ Refused(c) \/ Clear(c) \/ Answered(c) \/ Bind(c)
    \/ \E p \in Processes : Crash(p)

Spec == Init /\ [][Next]_vars

-----------------------------------------------------------------------------
(* Properties.                                                             *)

\* A session that was or may still be started is in the file, as the run of its
\* key or as an intent that refuses every retry: also when a write failed half
\* way, the bridge timed out, the process died, or the lock went to another
\* process and its holder was told before its next check.  The exception is the
\* holder that went past a check without the lock, or lost it between the check
\* and the write: it writes a copy that others have changed since.
NothingIsForgotten ==
    overrun = {} =>
        \A c \in Calls : call[c].sent \/ c \in sessions =>
            file.runs[Key[c]] = c \/ Key[c] \in file.pending

answers == [c \in Calls |-> IF At(c, "done") THEN call[c].run ELSE NoRun]
Contract == INSTANCE AgentContract WITH runs <- sessions, answer <- answers

\* The adapter keeps the contract of AgentAdapter.launch: however many calls,
\* processes and retries there are for a key, wherever they crash and whoever
\* loses the lock, Superset starts at most one session for it, and a call returns
\* no other, until a call overruns the lock.
ImplementsContract ==
    /\ Contract!Init
    /\ [][overrun' = {} => Contract!Next \/ UNCHANGED <<sessions, answers>>]_vars
=============================================================================
