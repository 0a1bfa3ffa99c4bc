------------------------ MODULE AgentContractProofs ------------------------
(***************************************************************************)
(* Proofs about the two sides of AgentContract, for every set of calls,    *)
(* keys, requests and processes: LocalAdapter, which keeps the contract,   *)
(* and LaunchCoordinator, further down, which builds on it.                *)
(*                                                                         *)
(* The adapter.  As long as no call has overrun the lock, a call that      *)
(* writes the file holds it, so the copy it writes back differs from the   *)
(* file at most in its own key.  A call that goes past the check of the    *)
(* file found nothing of its key there, so that nobody else has or will    *)
(* have a session for it: whoever has one is remembered.                   *)
(*                                                                         *)
(* The coordinator.  The argument follows one key.  A call that got past   *)
(* the reservation works for the request of the intent, one that got past  *)
(* updateLaunch to dispatching finds the intent past reserved, and neither *)
(* can be undone, since statuses only move forward and the request is      *)
(* written once.  So every run of the key was started for the request of   *)
(* its intent, and whoever binds one, binds a run of the key.              *)
(***************************************************************************)
EXTENDS LocalAdapter, LaunchCoordinator, TLAPS

\* A call between the check of the file and its last write ...
Engaged == {"checked", "withdraw", "bridge", "dispatched", "refused", "clear", "bind"}
\* ... whose intent is in the file.
Intending == {"bridge", "dispatched", "refused", "clear", "bind"}

\* The copy of a call differs from the file at most in the intent of its key.
Agrees(c) ==
    /\ call[c].copy.runs = file.runs
    /\ call[c].copy.pending \ {Key[c]} = file.pending \ {Key[c]}

\* What holds of one call.
Sound(c) ==
    /\ call[c].at \in Writing => lock = c
    /\ call[c].at \in Engaged /\ lock = c => Agrees(c)
    /\ call[c].at \in Intending => Key[c] \in file.pending
    /\ call[c].sent =>
        /\ call[c].at \in {"dispatched", "bind", "leave", "done", "dead"}
        /\ file.runs[Key[c]] = c \/ Key[c] \in file.pending
    /\ c \in sessions => call[c].sent
    /\ call[c].at = "bind" => c \in sessions
    /\ call[c].run # NoRun =>
        call[c].at \in {"leave", "done"} /\ call[c].run \in sessions /\ Key[call[c].run] = Key[c]

\* Two calls for one key: at most one works on it or has been dispatched.
Apart(c, d) ==
    c # d /\ Key[c] = Key[d] =>
        /\ call[c].at \in Engaged => call[d].at \notin Engaged /\ ~call[d].sent
        /\ ~(call[c].sent /\ call[d].sent)

\* The runs of the file are sessions of their key.
FileIsSound ==
    \A k \in Keys : file.runs[k] # NoRun => file.runs[k] \in sessions /\ Key[file.runs[k]] = k

\* What holds until a call overruns the lock.
AdapterInv ==
    /\ TypeOK /\ FileIsSound
    /\ \A c \in Calls : Sound(c)
    /\ \A c, d \in Calls : Apart(c, d)

USE AdapterConstants

-----------------------------------------------------------------------------
(* What a step leaves alone stays sound.                                   *)

\* What the steps of call c may do to the file: nothing, or, when c holds the
\* lock and works on its key, a change of that key.
FileStep(c) ==
    \/ file' = file
    \/ /\ call[c].at \in Engaged /\ lock = c
       /\ file'.pending \ {Key[c]} = file.pending \ {Key[c]}
       /\ \A k \in Keys \ {Key[c]} : file'.runs[k] = file.runs[k]

\* A call stays sound while another one takes a step.
LEMMA OthersSound ==
  ASSUME AdapterInv, NEW c \in Calls, NEW d \in Calls \ {c}, FileStep(c),
         call'[d] = call[d], lock' = d => lock = d, call[d].at \in Writing /\ lock = d => lock' = d,
         sessions \subseteq sessions', d \in sessions' => d \in sessions
  PROVE  Sound(d)'
<1>1. TypeOK /\ Sound(d) /\ Apart(c, d) /\ Apart(d, c) /\ Key[c] \in Keys /\ Key[d] \in Keys
  BY DEF AdapterInv
<1>2. CASE file' = file
  BY <1>1, <1>2 DEF Sound, Agrees
<1>3. CASE file' # file
  <2>1. call[c].at \in Engaged /\ lock = c /\ lock # d /\ call[d].at \notin Writing
    BY <1>1, <1>3 DEF FileStep, Sound
  <2>2. call[d].at \in Intending \/ call[d].sent => Key[d] # Key[c]
    BY <1>1, <2>1 DEF Apart, Intending, Engaged
  <2>3. Key[d] # Key[c] => /\ Key[d] \in file.pending => Key[d] \in file'.pending
                           /\ file'.runs[Key[d]] = file.runs[Key[d]]
    BY <1>1, <1>3 DEF FileStep
  <2> QED  BY <1>1, <2>1, <2>2, <2>3 DEF Sound
<1> QED  BY <1>2, <1>3

\* Calls stay apart when none of them engages itself or is dispatched.
LEMMA StayApart ==
  ASSUME AdapterInv,
         \A d \in Calls : /\ call'[d].at \in Engaged => call[d].at \in Engaged
                          /\ call'[d].sent => call[d].sent
  PROVE  \A c, d \in Calls : Apart(c, d)'
  BY DEF AdapterInv, Apart

\* A step of one call keeps the invariant if that call stays sound.
LEMMA CallKeeps ==
  ASSUME AdapterInv, NEW c \in Calls, TypeOK', FileIsSound', Sound(c)', FileStep(c),
         \A d \in Calls \ {c} : /\ call'[d] = call[d] /\ (d \in sessions' => d \in sessions)
                                /\ lock' = d => lock = d
                                /\ call[d].at \in Writing /\ lock = d => lock' = d,
         sessions \subseteq sessions',
         \A d, e \in Calls : Apart(d, e)'
  PROVE  AdapterInv'
<1>1. \A d \in Calls : Sound(d)'
  BY OthersSound
<1> QED  BY <1>1 DEF AdapterInv

\* What Goto does to a call.
LEMMA GotoMoves ==
  ASSUME call \in [Calls -> Call], NEW c \in Calls, Goto(c, "queued") \/ Goto(c, "done") \/
         \E a \in Critical : Goto(c, a)
  PROVE  /\ call' \in [Calls -> Call] /\ \A d \in Calls \ {c} : call'[d] = call[d]
         /\ call'[c].copy = call[c].copy /\ call'[c].lost = call[c].lost
         /\ call'[c].sent = call[c].sent /\ call'[c].run = call[c].run
<1> SUFFICES ASSUME NEW a \in Critical \cup {"queued", "done"}, Goto(c, a)
             PROVE  /\ call' \in [Calls -> Call] /\ \A d \in Calls \ {c} : call'[d] = call[d]
                    /\ call'[c].copy = call[c].copy /\ call'[c].lost = call[c].lost
                    /\ call'[c].sent = call[c].sent /\ call'[c].run = call[c].run
  OBVIOUS
<1>1. call[c] \in Call
  OBVIOUS
<1> QED  BY <1>1 DEF Goto, Call

\* Where Goto takes a call.
LEMMA GotoArrives ==
  ASSUME call \in [Calls -> Call], NEW c \in Calls, NEW a, Goto(c, a)
  PROVE  call'[c].at = a
<1>1. call[c] \in Call
  OBVIOUS
<1> QED  BY <1>1 DEF Goto, Call

\* What Leave does to a call.
LEMMA LeaveMoves ==
  ASSUME call \in [Calls -> Call], NEW c \in Calls, NEW r \in Calls \cup {NoRun}, Leave(c, r)
  PROVE  /\ call' \in [Calls -> Call] /\ \A d \in Calls \ {c} : call'[d] = call[d]
         /\ call'[c].at = "leave" /\ call'[c].run = r
         /\ call'[c].copy = call[c].copy /\ call'[c].lost = call[c].lost
         /\ call'[c].sent = call[c].sent
<1>1. call[c] \in Call
  OBVIOUS
<1> QED  BY <1>1 DEF Leave, Call, Critical

-----------------------------------------------------------------------------
(* The writes of the file.                                                 *)

\* A write of s by a call that holds the lock leaves a typed file behind.
LEMMA WrittenIs ==
  ASSUME NEW s, NEW w \in Written(s)
  PROVE  w[1] \in {s, file} /\ (w[2] => w[1] = s)
<1>1. w = <<s, TRUE>> \/ w = <<s, FALSE>> \/ w = <<file, FALSE>>
  BY DEF Written
<1>2. CASE w = <<s, TRUE>>
  BY <1>2
<1>3. CASE w = <<s, FALSE>>
  BY <1>3
<1>4. CASE w = <<file, FALSE>>
  BY <1>4
<1> QED  BY <1>1, <1>2, <1>3, <1>4

\* The files that a call may write, in terms of the copy it read.
LEMMA WrittenFiles ==
  ASSUME TypeOK, NEW c \in Calls
  PROVE  /\ Intended(c) \in State /\ Intended(c).runs = call[c].copy.runs
         /\ Intended(c).pending = call[c].copy.pending \cup {Key[c]}
         /\ Cleared(c) \in State /\ Cleared(c).runs = call[c].copy.runs
         /\ Cleared(c).pending = call[c].copy.pending \ {Key[c]}
         /\ Bound(c) \in State /\ Bound(c).pending = call[c].copy.pending \ {Key[c]}
         /\ Bound(c).runs = [call[c].copy.runs EXCEPT ![Key[c]] = c]
<1>1. call[c].copy \in State /\ Key[c] \in Keys
  BY DEF TypeOK, Call
<1>2. /\ Intended(c) \in State /\ Intended(c).runs = call[c].copy.runs
      /\ Intended(c).pending = call[c].copy.pending \cup {Key[c]}
      /\ Cleared(c) \in State /\ Cleared(c).runs = call[c].copy.runs
      /\ Cleared(c).pending = call[c].copy.pending \ {Key[c]}
  BY <1>1 DEF State, Intended, Cleared
<1>3. /\ Bound(c) \in State /\ Bound(c).pending = call[c].copy.pending \ {Key[c]}
      /\ Bound(c).runs = [call[c].copy.runs EXCEPT ![Key[c]] = c]
  BY <1>1, <1>2 DEF State, Bound
<1> QED  BY <1>2, <1>3

-----------------------------------------------------------------------------
(* One lemma for each action that leaves the file alone.                   *)

\* A step of one call that changes only the call.
LEMMA QuietKeeps ==
  ASSUME AdapterInv, overrun' = {}, NEW c \in Calls, UNCHANGED <<file, lock, sessions>>,
         call' \in [Calls -> Call], \A d \in Calls \ {c} : call'[d] = call[d],
         call'[c].at \in Engaged => call[c].at \in Engaged, call'[c].sent => call[c].sent,
         Sound(c)'
  PROVE  AdapterInv'
<1>1. TypeOK' /\ FileIsSound'
  BY DEF AdapterInv, TypeOK, FileIsSound
<1>2. \A d, e \in Calls : Apart(d, e)'
  <2>1. \A d \in Calls : /\ call'[d].at \in Engaged => call[d].at \in Engaged
                         /\ call'[d].sent => call[d].sent
    OBVIOUS
  <2> QED  BY <2>1, StayApart
<1> QED  BY <1>1, <1>2, CallKeeps DEF FileStep

\* The phases of a call are what they are named for.
USE DEF At

\* launch is entered, or refused.
LEMMA EnterKeeps ==
  ASSUME AdapterInv, overrun' = {}, NEW c \in Calls, Enter(c) \/ LockFails(c)
  PROVE  AdapterInv'
<1>1. call \in [Calls -> Call] /\ Sound(c) /\ UNCHANGED <<file, lock, sessions>>
  BY DEF AdapterInv, TypeOK, Enter, LockFails
<1>2. /\ call' \in [Calls -> Call] /\ \A d \in Calls \ {c} : call'[d] = call[d]
      /\ call'[c].sent = call[c].sent /\ call'[c].run = call[c].run
      /\ call'[c].at \in {"queued", "done"}
  BY <1>1, GotoMoves, GotoArrives DEF Enter, LockFails
<1>3. Sound(c)'
  BY <1>1, <1>2 DEF Sound, Enter, LockFails, Critical, Writing, Engaged, Intending
<1> QED  BY <1>1, <1>2, <1>3, QuietKeeps DEF Engaged

\* The lock is taken.
LEMMA LockKeeps ==
  ASSUME AdapterInv, overrun' = {}, NEW c \in Calls, Lock(c)
  PROVE  AdapterInv'
<1>1. TypeOK /\ call \in [Calls -> Call] /\ Sound(c) /\ lock' = c /\ Lose = {} /\ UNCHANGED <<file, sessions>>
  BY DEF AdapterInv, TypeOK, Lock
<1>2. Goto(c, "locked") /\ "locked" \in Critical
  BY DEF Lock, Critical
<1>3. /\ call' \in [Calls -> Call] /\ \A d \in Calls \ {c} : call'[d] = call[d]
      /\ call'[c].sent = call[c].sent /\ call'[c].run = call[c].run /\ call'[c].at = "locked"
  BY <1>1, <1>2, GotoMoves, GotoArrives
<1>4. TypeOK' /\ FileIsSound'
  BY <1>1, <1>3 DEF AdapterInv, TypeOK, FileIsSound
<1>5. Sound(c)'
  BY <1>1, <1>3 DEF Sound, Lock, Critical, Writing, Engaged, Intending
<1>6. \A d, e \in Calls : Apart(d, e)'
  BY <1>3, StayApart DEF Engaged
<1>7. \A d \in Calls : call[d].at \in Writing => lock # d
  BY <1>1 DEF Lose
<1> QED  BY <1>1, <1>3, <1>4, <1>5, <1>6, <1>7, CallKeeps DEF FileStep

\* A holder learns that it lost the lock.
LEMMA CompromisedKeeps ==
  ASSUME AdapterInv, overrun' = {}, NEW c \in Calls, Compromised(c)
  PROVE  AdapterInv'
<1>1. /\ call \in [Calls -> Call] /\ call[c] \in Call /\ Sound(c)
      /\ UNCHANGED <<file, lock, sessions>> /\ call' = [call EXCEPT ![c].lost = TRUE]
  BY DEF AdapterInv, TypeOK, Compromised
<1>2. /\ call' \in [Calls -> Call] /\ \A d \in Calls \ {c} : call'[d] = call[d]
      /\ call'[c].at = call[c].at /\ call'[c].copy = call[c].copy
      /\ call'[c].sent = call[c].sent /\ call'[c].run = call[c].run
  BY <1>1 DEF Call
<1>3. Sound(c)'
  BY <1>1, <1>2 DEF Sound, Agrees
<1> QED  BY <1>1, <1>2, <1>3, QuietKeeps

\* The lock is given back.
LEMMA UnlockKeeps ==
  ASSUME AdapterInv, overrun' = {}, NEW c \in Calls, Unlock(c)
  PROVE  AdapterInv'
<1> DEFINE end == [Fresh EXCEPT !.at = "done", !.sent = call[c].sent, !.run = call[c].run]
<1>1. /\ TypeOK /\ call \in [Calls -> Call] /\ call[c] \in Call /\ Sound(c) /\ call[c].at = "leave"
      /\ UNCHANGED <<file, sessions>> /\ call' = [call EXCEPT ![c] = end]
  BY DEF AdapterInv, TypeOK, Unlock
<1>2. end \in Call /\ end.at = "done" /\ end.sent = call[c].sent /\ end.run = call[c].run /\ ~end.lost
  BY <1>1 DEF Fresh, Call, Empty, State
<1> HIDE DEF end
<1>3. call' \in [Calls -> Call] /\ call'[c] = end /\ \A d \in Calls \ {c} : call'[d] = call[d]
  BY <1>1, <1>2
<1>4. /\ lock' \in Calls \cup {Free}
      /\ \A d \in Calls : (lock' = d => lock = d) /\ (call[d].at \in Writing /\ lock = d => lock' = d)
  BY <1>1 DEF Unlock, TypeOK, Lose
<1>5. TypeOK' /\ FileIsSound'
  BY <1>1, <1>3, <1>4 DEF AdapterInv, TypeOK, FileIsSound
<1>6. Sound(c)'
  BY <1>1, <1>2, <1>3 DEF Sound, Critical, Writing, Engaged, Intending
<1>7. \A d, e \in Calls : Apart(d, e)'
  BY <1>2, <1>3, StayApart DEF Engaged
<1> QED  BY <1>1, <1>3, <1>4, <1>5, <1>6, <1>7, CallKeeps DEF FileStep

\* The file is read: who goes on found no run and no intent of the key there, so
\* that nobody else has a session for it or works on one.
LEMMA ReadKeeps ==
  ASSUME AdapterInv, overrun' = {}, NEW c \in Calls, Read(c)
  PROVE  AdapterInv'
<1>1. /\ TypeOK /\ call \in [Calls -> Call] /\ call[c] \in Call /\ Sound(c) /\ call[c].at = "locked"
      /\ UNCHANGED <<file, lock, sessions>> /\ file \in State /\ Key[c] \in Keys
  BY DEF AdapterInv, TypeOK, Read
<1>2. ASSUME NEW r, Leave(c, r), r = NoRun \/ r = file.runs[Key[c]]
      PROVE  AdapterInv'
  <2>1. r \in Calls \cup {NoRun} /\ (r # NoRun => r \in sessions /\ Key[r] = Key[c])
    BY <1>1, <1>2 DEF AdapterInv, FileIsSound, State
  <2>2. /\ call' \in [Calls -> Call] /\ \A d \in Calls \ {c} : call'[d] = call[d]
        /\ call'[c].at = "leave" /\ call'[c].run = r /\ call'[c].lost = call[c].lost
        /\ call'[c].sent = call[c].sent
    BY <1>1, <1>2, <2>1, LeaveMoves
  <2>3. Sound(c)'
    BY <1>1, <2>1, <2>2 DEF Sound, Critical, Writing, Engaged, Intending
  <2> QED  BY <1>1, <2>2, <2>3, QuietKeeps DEF Engaged
<1>3. ASSUME call' = [call EXCEPT ![c].at = "checked", ![c].copy = file],
             file.runs[Key[c]] = NoRun, Key[c] \notin file.pending, LockHeld(c)
      PROVE  AdapterInv'
  <2>1. /\ call' \in [Calls -> Call] /\ \A d \in Calls \ {c} : call'[d] = call[d]
        /\ call'[c].at = "checked" /\ call'[c].copy = file /\ call'[c].lost = call[c].lost
        /\ call'[c].sent = call[c].sent /\ call'[c].run = call[c].run
    BY <1>1, <1>3 DEF Call, Critical
  <2>2. TypeOK' /\ FileIsSound'
    BY <1>1, <2>1 DEF AdapterInv, TypeOK, FileIsSound
  <2>3. lock = c
    BY <1>3 DEF LockHeld, Unwarned
  <2>4. Sound(c)'
    BY <1>1, <1>3, <2>1, <2>3 DEF Sound, Agrees, Critical, Writing, Engaged, Intending
  <2>5. ASSUME NEW d \in Calls \ {c}, Key[d] = Key[c]
        PROVE  call[d].at \notin Engaged /\ ~call[d].sent
    <3>1. Sound(d) /\ NoRun \notin Calls
      BY DEF AdapterInv
    <3>2. ~call[d].sent
      BY <1>3, <2>5, <3>1 DEF Sound
    <3>3. call[d].at \notin Intending
      BY <1>3, <2>5, <3>1 DEF Sound
    <3>4. call[d].at \notin Writing
      BY <2>3, <3>1 DEF Sound
    <3> QED  BY <3>2, <3>3, <3>4 DEF Engaged, Intending, Writing
  <2>6. ~call[c].sent
    BY <1>1 DEF Sound
  <2>7. \A d, e \in Calls : Apart(d, e)'
    <3> SUFFICES ASSUME NEW d \in Calls, NEW e \in Calls PROVE Apart(d, e)'
      OBVIOUS
    <3>1. Apart(d, e)
      BY DEF AdapterInv
    <3> QED  BY <2>1, <2>5, <2>6, <3>1 DEF Apart
  <2> QED  BY <1>1, <2>1, <2>2, <2>4, <2>7, CallKeeps DEF FileStep
<1> QED  BY <1>2, <1>3, Zenon DEF Read

\* tools/call is sent: nobody else may have a session for the key from now on.
LEMMA DispatchKeeps ==
  ASSUME AdapterInv, overrun' = {}, NEW c \in Calls, Dispatch(c)
  PROVE  AdapterInv'
<1>1. /\ TypeOK /\ call \in [Calls -> Call] /\ call[c] \in Call /\ Sound(c) /\ call[c].at = "bridge"
      /\ UNCHANGED <<file, lock, sessions>>
      /\ call' = [call EXCEPT ![c].at = "dispatched", ![c].sent = TRUE]
  BY DEF AdapterInv, TypeOK, Dispatch
<1>2. /\ call' \in [Calls -> Call] /\ \A d \in Calls \ {c} : call'[d] = call[d]
      /\ call'[c].at = "dispatched" /\ call'[c].copy = call[c].copy /\ call'[c].lost = call[c].lost
      /\ call'[c].sent = TRUE /\ call'[c].run = call[c].run
  BY <1>1 DEF Call, Critical
<1>3. TypeOK' /\ FileIsSound'
  BY <1>1, <1>2 DEF AdapterInv, TypeOK, FileIsSound
<1>4. Sound(c)'
  BY <1>1, <1>2 DEF Sound, Agrees, Critical, Writing, Engaged, Intending
<1>5. \A d, e \in Calls : Apart(d, e)'
  <2> SUFFICES ASSUME NEW d \in Calls, NEW e \in Calls PROVE Apart(d, e)'
    OBVIOUS
  <2>1. Apart(d, e) /\ Apart(e, d)
    BY DEF AdapterInv
  <2> QED  BY <1>1, <1>2, <2>1 DEF Apart, Engaged
<1> QED  BY <1>1, <1>2, <1>3, <1>4, <1>5, CallKeeps DEF FileStep

\* The bridge fails before it sent anything, or its answer is not known.
LEMMA RefusalKeeps ==
  ASSUME AdapterInv, overrun' = {}, NEW c \in Calls, NotDispatched(c) \/ Unknown(c) \/ Refused(c) \/ Answered(c)
  PROVE  AdapterInv'
<1>1. /\ call \in [Calls -> Call] /\ Sound(c) /\ UNCHANGED <<file, lock, sessions>>
      /\ call[c].at \in {"bridge", "dispatched", "refused"}
  BY DEF AdapterInv, TypeOK, NotDispatched, Unknown, Refused, Answered
<1>2. CASE Leave(c, NoRun)
  <2>1. /\ call' \in [Calls -> Call] /\ \A d \in Calls \ {c} : call'[d] = call[d]
        /\ call'[c].at = "leave" /\ call'[c].run = NoRun /\ call'[c].lost = call[c].lost
        /\ call'[c].sent = call[c].sent
    BY <1>1, <1>2, LeaveMoves
  <2>2. Sound(c)'
    BY <1>1, <2>1 DEF Sound, Critical, Writing, Engaged, Intending
  <2> QED  BY <1>1, <2>1, <2>2, QuietKeeps DEF Engaged
<1>3. ASSUME NEW a \in {"refused", "clear", "bind"}, Goto(c, a),
             a \in {"clear", "bind"} => lock = c, a = "bind" => c \in sessions,
             a \in {"refused", "clear"} => ~call[c].sent
      PROVE  AdapterInv'
  <2>1. /\ call' \in [Calls -> Call] /\ \A d \in Calls \ {c} : call'[d] = call[d]
        /\ call'[c].at = a /\ call'[c].copy = call[c].copy /\ call'[c].lost = call[c].lost
        /\ call'[c].sent = call[c].sent /\ call'[c].run = call[c].run
    BY <1>1, <1>3, GotoMoves, GotoArrives DEF Critical
  <2>2. Sound(c)'
    BY <1>1, <1>3, <2>1 DEF Sound, Agrees, Critical, Writing, Engaged, Intending
  <2> QED  BY <1>1, <2>1, <2>2, QuietKeeps DEF Engaged
<1>4. call[c].at \in {"bridge", "refused"} => ~call[c].sent
  BY <1>1 DEF Sound
<1>5. CASE NotDispatched(c)
  BY <1>3, <1>4, <1>5 DEF NotDispatched
<1>6. LockHeld(c) => lock = c
  BY DEF LockHeld, Unwarned
<1>7. CASE Refused(c)
  BY <1>2, <1>3, <1>4, <1>6, <1>7 DEF Refused
<1>8. CASE Answered(c)
  BY <1>2, <1>3, <1>6, <1>8 DEF Answered
<1> QED  BY <1>2, <1>5, <1>7, <1>8 DEF Unknown

\* Superset starts the session of a request that was sent.
LEMMA CreateKeeps ==
  ASSUME AdapterInv, overrun' = {}, NEW c \in Calls, Create(c)
  PROVE  AdapterInv'
<1>1. /\ TypeOK /\ Sound(c) /\ call[c].sent /\ sessions' = sessions \cup {c}
      /\ UNCHANGED <<file, lock, call>>
  BY DEF AdapterInv, Create
<1>2. TypeOK' /\ FileIsSound'
  BY <1>1 DEF AdapterInv, TypeOK, FileIsSound
<1>3. Sound(c)'
  BY <1>1 DEF Sound, Agrees
<1>4. \A d, e \in Calls : Apart(d, e)'
  BY <1>1, StayApart
<1> QED  BY <1>1, <1>2, <1>3, <1>4, CallKeeps DEF FileStep

\* The request was rejected before a handler ran.
LEMMA RejectedKeeps ==
  ASSUME AdapterInv, overrun' = {}, NEW c \in Calls, Rejected(c)
  PROVE  AdapterInv'
<1>1. /\ TypeOK /\ call \in [Calls -> Call] /\ call[c] \in Call /\ Sound(c) /\ call[c].at = "dispatched"
      /\ UNCHANGED <<file, lock, sessions>> /\ c \notin sessions
      /\ call' = [call EXCEPT ![c].at = "refused", ![c].sent = FALSE]
  BY DEF AdapterInv, TypeOK, Rejected
<1>2. /\ call' \in [Calls -> Call] /\ \A d \in Calls \ {c} : call'[d] = call[d]
      /\ call'[c].at = "refused" /\ call'[c].copy = call[c].copy /\ call'[c].lost = call[c].lost
      /\ call'[c].sent = FALSE /\ call'[c].run = call[c].run
  BY <1>1 DEF Call, Critical
<1>3. Sound(c)'
  BY <1>1, <1>2 DEF Sound, Agrees, Critical, Writing, Engaged, Intending
<1> QED  BY <1>1, <1>2, <1>3, QuietKeeps DEF Engaged

-----------------------------------------------------------------------------
(* The writes.                                                             *)

\* A write by a call that holds the lock, from a copy that agrees with the file.
LEMMA WriteKeeps ==
  ASSUME AdapterInv, overrun' = {}, NEW c \in Calls, call[c].at \in Writing, UNCHANGED <<lock, sessions>>,
         NEW s \in {Intended(c), Cleared(c), Bound(c)}, NEW w \in Written(s), file' = w[1],
         s = Bound(c) => call[c].at = "bind",
         call' \in [Calls -> Call], \A d \in Calls \ {c} : call'[d] = call[d],
         call'[c].sent = call[c].sent, Sound(c)', call'[c].at \in Engaged => call[c].at \in Engaged
  PROVE  AdapterInv'
<1>1. TypeOK /\ Sound(c) /\ file \in State /\ Key[c] \in Keys /\ FileIsSound
  BY DEF AdapterInv, TypeOK
<1>2. lock = c /\ Agrees(c)
  BY <1>1 DEF Sound, Writing, Critical, Engaged
<1>3. /\ s \in State /\ s.pending \ {Key[c]} = file.pending \ {Key[c]}
      /\ \A k \in Keys \ {Key[c]} : s.runs[k] = file.runs[k]
      /\ s.runs = file.runs \/ (s = Bound(c) /\ s.runs[Key[c]] = c)
  <2>1. call[c].copy.runs = file.runs /\ call[c].copy.pending \ {Key[c]} = file.pending \ {Key[c]}
    BY <1>2 DEF Agrees
  <2>2. file.runs \in [Keys -> Calls \cup {NoRun}]
    BY <1>1 DEF State
  <2>3. CASE s = Bound(c)
    <3>1. Bound(c).runs = [file.runs EXCEPT ![Key[c]] = c]
      BY <1>1, <2>1, WrittenFiles
    <3>2. Bound(c) \in State /\ Bound(c).pending = call[c].copy.pending \ {Key[c]}
      BY <1>1, WrittenFiles
    <3> QED  BY <1>1, <2>1, <2>2, <2>3, <3>1, <3>2
  <2>4. CASE s = Intended(c)
    BY <1>1, <2>1, <2>4, WrittenFiles
  <2>5. CASE s = Cleared(c)
    BY <1>1, <2>1, <2>5, WrittenFiles
  <2> QED  BY <2>3, <2>4, <2>5
<1>4. file' \in {s, file}
  BY WrittenIs
<1>5. TypeOK' /\ FileStep(c)
  BY <1>1, <1>2, <1>3, <1>4 DEF TypeOK, FileStep, Engaged, Writing
<1>6. FileIsSound'
  <2>1. s = Bound(c) => c \in sessions
    BY <1>1 DEF Sound
  <2> QED  BY <1>1, <1>3, <1>4, <2>1 DEF FileIsSound
<1>7. \A d, e \in Calls : Apart(d, e)'
  BY StayApart
<1> QED  BY <1>5, <1>6, <1>7, CallKeeps

\* The intent is written before anything is sent.
LEMMA IntendKeeps ==
  ASSUME AdapterInv, overrun' = {}, NEW c \in Calls, Intend(c)
  PROVE  AdapterInv'
<1>1. /\ TypeOK /\ Sound(c) /\ call \in [Calls -> Call] /\ call[c].at = "checked"
      /\ lock = c /\ Agrees(c) /\ UNCHANGED <<lock, sessions>>
  BY DEF AdapterInv, TypeOK, Intend, Sound, Writing, Critical, Engaged
<1>2. PICK w \in Written(Intended(c)) :
        file' = w[1] /\ Goto(c, IF w[2] THEN "bridge" ELSE "withdraw")
  BY DEF Intend
<1>3. /\ call' \in [Calls -> Call] /\ \A d \in Calls \ {c} : call'[d] = call[d]
      /\ call'[c].copy = call[c].copy /\ call'[c].lost = call[c].lost
      /\ call'[c].sent = call[c].sent /\ call'[c].run = call[c].run
      /\ call'[c].at \in {"bridge", "withdraw"} /\ (call'[c].at = "bridge" => w[2])
  BY <1>1, <1>2, GotoMoves, GotoArrives DEF Critical
<1>4. file' \in {Intended(c), file} /\ (w[2] => file' = Intended(c))
  BY <1>2, WrittenIs
<1>5. /\ Intended(c).runs = file.runs /\ Key[c] \in Intended(c).pending
      /\ Intended(c).pending \ {Key[c]} = file.pending \ {Key[c]}
  BY <1>1, WrittenFiles DEF Agrees
<1>6. Agrees(c)'
  BY <1>1, <1>3, <1>4, <1>5 DEF Agrees
<1>7. Sound(c)'
  BY <1>1, <1>3, <1>4, <1>5, <1>6 DEF Sound, Critical, Writing, Engaged, Intending
<1>8. Intended(c) # Bound(c) \/ call[c].at = "bind"
  <2>1. Key[c] \notin Bound(c).pending
    BY <1>1, WrittenFiles
  <2> QED  BY <1>5, <2>1
<1> QED  BY <1>1, <1>2, <1>3, <1>7, <1>8, WriteKeeps DEF Writing, Engaged

\* The intent of a call that sent nothing is withdrawn.
LEMMA ClearKeeps ==
  ASSUME AdapterInv, overrun' = {}, NEW c \in Calls, Withdraw(c) \/ Clear(c)
  PROVE  AdapterInv'
<1>1. /\ TypeOK /\ Sound(c) /\ call \in [Calls -> Call] /\ call[c].at \in {"withdraw", "clear"}
      /\ lock = c /\ Agrees(c) /\ UNCHANGED <<lock, sessions>> /\ ~call[c].sent
  BY DEF AdapterInv, TypeOK, Withdraw, Clear, Sound, Writing, Critical, Engaged
<1>2. PICK w \in Written(Cleared(c)) : file' = w[1]
  BY DEF Withdraw, Clear
<1>3. /\ call' \in [Calls -> Call] /\ \A d \in Calls \ {c} : call'[d] = call[d]
      /\ call'[c].at = "leave" /\ call'[c].run = NoRun
      /\ call'[c].lost = call[c].lost /\ call'[c].sent = call[c].sent
  BY <1>1, LeaveMoves DEF Withdraw, Clear
<1>4. Sound(c)'
  BY <1>1, <1>3 DEF Sound, Critical, Writing, Engaged, Intending
<1>5. Cleared(c) # Bound(c)
  <2>1. Cleared(c).runs = file.runs /\ c \notin sessions /\ Key[c] \in Keys
    BY <1>1, WrittenFiles DEF Agrees, Sound
  <2>2. file.runs[Key[c]] # c
    BY <2>1 DEF AdapterInv, FileIsSound
  <2>3. Bound(c).runs[Key[c]] = c
    <3>1. call[c].copy.runs \in [Keys -> Calls \cup {NoRun}]
      BY <1>1 DEF Call, State
    <3> QED  BY <1>1, <2>1, <3>1, WrittenFiles
  <2> QED  BY <2>1, <2>2, <2>3
<1> QED  BY <1>1, <1>2, <1>3, <1>4, <1>5, WriteKeeps DEF Writing, Engaged

\* The session is bound to the key.
LEMMA BindKeeps ==
  ASSUME AdapterInv, overrun' = {}, NEW c \in Calls, Bind(c)
  PROVE  AdapterInv'
<1>1. /\ TypeOK /\ Sound(c) /\ call \in [Calls -> Call] /\ call[c].at = "bind"
      /\ lock = c /\ Agrees(c) /\ UNCHANGED <<lock, sessions>> /\ c \in sessions /\ Key[c] \in Keys
  BY DEF AdapterInv, TypeOK, Bind, Sound, Writing, Critical, Engaged
<1>2. PICK w \in Written(Bound(c)) : file' = w[1] /\ Leave(c, IF w[2] THEN c ELSE NoRun)
  BY DEF Bind
<1>3. /\ call' \in [Calls -> Call] /\ \A d \in Calls \ {c} : call'[d] = call[d]
      /\ call'[c].at = "leave" /\ call'[c].run \in {c, NoRun}
      /\ call'[c].lost = call[c].lost /\ call'[c].sent = call[c].sent
  BY <1>1, <1>2, LeaveMoves
<1>4. file' \in {Bound(c), file}
  BY <1>2, WrittenIs
<1>5. Bound(c).runs[Key[c]] = c
  <2>1. call[c].copy.runs \in [Keys -> Calls \cup {NoRun}]
    BY <1>1 DEF Call, State
  <2> QED  BY <1>1, <2>1, WrittenFiles
<1>6. Sound(c)'
  BY <1>1, <1>3, <1>4, <1>5 DEF Sound, Critical, Writing, Engaged, Intending
<1> QED  BY <1>1, <1>2, <1>3, <1>6, WriteKeeps DEF Writing, Engaged

-----------------------------------------------------------------------------
(* A crash.                                                                *)

\* A process dies: its calls are gone, its lock goes stale, the file stays.
LEMMA CrashKeeps ==
  ASSUME AdapterInv, overrun' = {}, NEW p \in Processes, Crash(p)
  PROVE  AdapterInv'
<1> DEFINE end(c) == [Fresh EXCEPT !.at = "dead", !.sent = call[c].sent]
<1>1. TypeOK /\ call \in [Calls -> Call] /\ UNCHANGED <<file, lock, sessions>>
  BY DEF AdapterInv, TypeOK, Crash
<1>2. ASSUME NEW c \in Calls
      PROVE  /\ end(c) \in Call /\ end(c).at = "dead" /\ end(c).sent = call[c].sent
             /\ end(c).run = NoRun /\ ~end(c).lost
  BY <1>1 DEF Fresh, Call, Empty, State
<1>3. ASSUME NEW c \in Calls
      PROVE  call'[c] = call[c] \/ call'[c] = end(c)
  BY DEF Crash
<1>4. call' \in [Calls -> Call]
  <2>1. \A c \in Calls : call'[c] \in Call
    BY <1>1, <1>2, <1>3
  <2> QED  BY <2>1 DEF Crash
<1> HIDE DEF end
<1>5. TypeOK' /\ FileIsSound'
  BY <1>1, <1>4 DEF AdapterInv, TypeOK, FileIsSound
<1>6. ASSUME NEW c \in Calls
      PROVE  Sound(c)'
  <2>1. Sound(c)
    BY DEF AdapterInv
  <2>2. CASE call'[c] = call[c]
    BY <1>1, <2>1, <2>2 DEF Sound, Agrees
  <2>3. CASE call'[c] = end(c)
    BY <1>1, <1>2, <2>1, <2>3 DEF Sound, Critical, Writing, Engaged, Intending
  <2> QED  BY <1>3, <2>2, <2>3
<1>7. \A d, e \in Calls : Apart(d, e)'
  BY <1>2, <1>3, StayApart DEF Engaged
<1> QED  BY <1>5, <1>6, <1>7 DEF AdapterInv

-----------------------------------------------------------------------------
(* Theorems.                                                               *)

\* The initial state satisfies the inductive invariant.
LEMMA InitIsSound == Init => AdapterInv
<1> SUFFICES ASSUME Init PROVE AdapterInv
  OBVIOUS
<1>1. Empty \in State /\ \A k \in Keys : Empty.runs[k] = NoRun
  BY DEF Empty, State
<1>2. Fresh \in Call /\ Fresh.at = "idle" /\ ~Fresh.sent /\ Fresh.run = NoRun
  BY <1>1 DEF Fresh, Call
<1>3. TypeOK /\ FileIsSound
  BY <1>1, <1>2 DEF Init, TypeOK, FileIsSound
<1>4. \A c \in Calls : Sound(c)
  BY <1>2 DEF Init, Sound, Critical, Writing, Engaged, Intending
<1>5. \A c, d \in Calls : Apart(c, d)
  BY <1>2 DEF Init, Apart, Engaged
<1> QED  BY <1>3, <1>4, <1>5 DEF AdapterInv

\* Every step preserves it.
LEMMA StepIsSound == AdapterInv /\ [Next]_vars /\ overrun' = {} => AdapterInv'
<1>1. AdapterInv /\ UNCHANGED vars => AdapterInv'
  BY DEF vars, AdapterInv, TypeOK, FileIsSound, Sound, Agrees, Apart
<1> QED
  BY <1>1, EnterKeeps, LockKeeps, CompromisedKeeps, UnlockKeeps, ReadKeeps, IntendKeeps, ClearKeeps,
     DispatchKeeps, RefusalKeeps, CreateKeeps, RejectedKeeps, BindKeeps, CrashKeeps DEF Next

\* What has been overrun stays so.
LEMMA OverrunStays == [Next]_vars /\ overrun' = {} => overrun = {}
  BY DEF Next, vars, Enter, Lock, LockFails, Compromised, Unlock, Read, Intend, Withdraw, Dispatch,
     NotDispatched, Create, Rejected, Unknown, Refused, Clear, Answered, Bind, Crash, LockHeld, LockLost

\* The inductive invariant.
LEMMA AdapterInvariant == Spec => [](overrun = {} => AdapterInv)
<1>1. (overrun = {} => AdapterInv) /\ [Next]_vars => (overrun = {} => AdapterInv)'
  BY StepIsSound, OverrunStays
<1> QED  BY <1>1, InitIsSound, PTL DEF Spec

\* A session that exists or may still come to exist is in the file, as a run or
\* as an intent that refuses every retry, until a call overruns the lock.
THEOREM NothingIsEverForgotten == Spec => []NothingIsForgotten
<1>1. (overrun = {} => AdapterInv) => NothingIsForgotten
  BY DEF AdapterInv, Sound, NothingIsForgotten
<1> QED  BY <1>1, AdapterInvariant, PTL

\* What a call has returned, as the contract sees it.
AdapterAnswer(c) == IF call[c].at = "done" THEN call[c].run ELSE NoRun

\* The answers change only in a step that shows as the contract's Return.
LEMMA AnswersOnce ==
  ASSUME AdapterInv, [Next]_vars, overrun' = {}
  PROVE  \/ \A c \in Calls : AdapterAnswer(c)' = AdapterAnswer(c)
         \/ /\ UNCHANGED sessions
            /\ \E c \in Calls :
                /\ AdapterAnswer(c) = NoRun /\ AdapterAnswer(c)' \in sessions /\ Key[AdapterAnswer(c)'] = Key[c]
                /\ \A d \in Calls \ {c} : AdapterAnswer(d)' = AdapterAnswer(d)
<1>1. TypeOK /\ call \in [Calls -> Call] /\ call' \in [Calls -> Call] /\ \A c \in Calls : Sound(c) /\ Sound(c)'
  BY StepIsSound DEF AdapterInv, TypeOK
<1>2. ASSUME NEW c \in Calls, \A d \in Calls \ {c} : call'[d] = call[d],
             call'[c].at = "done" => call'[c].run = NoRun, call[c].at # "done"
      PROVE  \A d \in Calls : AdapterAnswer(d)' = AdapterAnswer(d)
  BY <1>2 DEF AdapterAnswer
<1>3. ASSUME NEW c \in Calls, Unlock(c)
      PROVE  \/ \A d \in Calls : AdapterAnswer(d)' = AdapterAnswer(d)
             \/ /\ AdapterAnswer(c) = NoRun /\ AdapterAnswer(c)' \in sessions /\ Key[AdapterAnswer(c)'] = Key[c]
                /\ UNCHANGED sessions /\ \A d \in Calls \ {c} : AdapterAnswer(d)' = AdapterAnswer(d)
  <2> DEFINE end == [Fresh EXCEPT !.at = "done", !.sent = call[c].sent, !.run = call[c].run]
  <2>1. end.at = "done" /\ end.run = call[c].run
    BY DEF Fresh
  <2>2. call'[c] = end /\ call[c].at = "leave" /\ UNCHANGED sessions
        /\ \A d \in Calls \ {c} : call'[d] = call[d]
    BY <1>1, <1>3 DEF Unlock
  <2> HIDE DEF end
  <2>3. /\ AdapterAnswer(c) = NoRun /\ AdapterAnswer(c)' = call[c].run
        /\ \A d \in Calls \ {c} : AdapterAnswer(d)' = AdapterAnswer(d)
    BY <2>1, <2>2 DEF AdapterAnswer
  <2>4. call[c].run # NoRun => call[c].run \in sessions /\ Key[call[c].run] = Key[c]
    BY <1>1 DEF Sound
  <2> QED  BY <2>2, <2>3, <2>4
<1>4. ASSUME NEW c \in Calls, Enter(c) \/ LockFails(c)
      PROVE  \A d \in Calls : AdapterAnswer(d)' = AdapterAnswer(d)
  <2>1. call[c].at \in {"idle", "queued"} /\ Sound(c)
    BY <1>1, <1>4 DEF Enter, LockFails
  <2>2. call[c].run = NoRun
    BY <2>1 DEF Sound
  <2>3. call'[c].run = call[c].run /\ \A d \in Calls \ {c} : call'[d] = call[d]
    BY <1>1, <1>4, GotoMoves DEF Enter, LockFails
  <2> QED  BY <1>2, <2>1, <2>2, <2>3
<1>5. ASSUME NEW c \in Calls, NEW a \in Critical, Goto(c, a), call[c].at # "done"
      PROVE  \A d \in Calls : AdapterAnswer(d)' = AdapterAnswer(d)
  <2>1. call'[c].at # "done" /\ \A d \in Calls \ {c} : call'[d] = call[d]
    BY <1>1, <1>5, GotoMoves, GotoArrives DEF Critical
  <2> QED  BY <1>2, <1>5, <2>1
<1>6. ASSUME NEW c \in Calls, NEW r, Leave(c, r), call[c].at # "done"
      PROVE  \A d \in Calls : AdapterAnswer(d)' = AdapterAnswer(d)
  <2>1. call'[c].at # "done" /\ \A d \in Calls \ {c} : call'[d] = call[d]
    <3>1. call[c] \in Call
      BY <1>1
    <3> QED  BY <1>1, <1>6, <3>1 DEF Leave, Call
  <2> QED  BY <1>2, <1>6, <2>1
<1>7. ASSUME NEW c \in Calls, Compromised(c)
      PROVE  \A d \in Calls : AdapterAnswer(d)' = AdapterAnswer(d)
  <2>1. call'[c].at = call[c].at /\ call[c].at # "done" /\ \A d \in Calls \ {c} : call'[d] = call[d]
    <3>1. call[c] \in Call
      BY <1>1
    <3> QED  BY <1>1, <1>7, <3>1 DEF Compromised, Call, Critical
  <2> QED  BY <1>2, <2>1
<1>8. ASSUME NEW c \in Calls, Read(c) \/ Dispatch(c) \/ Rejected(c)
      PROVE  \A d \in Calls : AdapterAnswer(d)' = AdapterAnswer(d)
  <2>1. call[c] \in Call /\ call[c].at # "done"
    BY <1>1, <1>8 DEF Read, Dispatch, Rejected
  <2>2. CASE call' = [call EXCEPT ![c].at = "checked", ![c].copy = file]
    BY <1>1, <1>2, <2>1, <2>2 DEF Call
  <2>3. CASE call' = [call EXCEPT ![c].at = "dispatched", ![c].sent = TRUE]
    BY <1>1, <1>2, <2>1, <2>3 DEF Call
  <2>4. CASE call' = [call EXCEPT ![c].at = "refused", ![c].sent = FALSE]
    BY <1>1, <1>2, <2>1, <2>4 DEF Call
  <2> QED  BY <1>6, <1>8, <2>1, <2>2, <2>3, <2>4, Zenon DEF Read, Dispatch, Rejected
<1>9. ASSUME NEW p \in Processes, Crash(p)
      PROVE  \A d \in Calls : AdapterAnswer(d)' = AdapterAnswer(d)
  <2>1. \A d \in Calls : call'[d] = call[d] \/ (call[d].at # "done" /\ call'[d].at # "done")
    BY <1>9 DEF Crash, Fresh
  <2> QED  BY <2>1 DEF AdapterAnswer
<1>10. ASSUME NEW c \in Calls, Create(c) \/ UNCHANGED vars
       PROVE  \A d \in Calls : AdapterAnswer(d)' = AdapterAnswer(d)
  BY <1>10 DEF Create, vars, AdapterAnswer
<1>11. ASSUME NEW c \in Calls,
              Lock(c) \/ Intend(c) \/ NotDispatched(c) \/ Refused(c) \/ Answered(c)
       PROVE  \A d \in Calls : AdapterAnswer(d)' = AdapterAnswer(d)
  <2>1. call[c].at # "done" /\ (Leave(c, NoRun) \/ \E a \in Critical : Goto(c, a))
    BY <1>11 DEF Lock, Intend, NotDispatched, Refused, Answered, Critical
  <2> QED  BY <1>5, <1>6, <2>1
<1>12. ASSUME NEW c \in Calls, Withdraw(c) \/ Unknown(c) \/ Clear(c) \/ Bind(c)
       PROVE  \A d \in Calls : AdapterAnswer(d)' = AdapterAnswer(d)
  <2>1. call[c].at # "done" /\ \E r : Leave(c, r)
    BY <1>12 DEF Withdraw, Unknown, Clear, Bind
  <2> QED  BY <1>6, <2>1
<1>13. CASE UNCHANGED vars
  BY <1>13 DEF vars, AdapterAnswer
<1> QED  BY <1>3, <1>4, <1>7, <1>8, <1>9, <1>10, <1>11, <1>12, <1>13 DEF Next

\* Sessions come one by one, each the first of its key.
LEMMA SessionsOnce ==
  ASSUME AdapterInv, [Next]_vars
  PROVE  \/ UNCHANGED sessions
         \/ \E c \in Calls : sessions' = sessions \cup {c} /\ \A d \in sessions : Key[d] # Key[c]
<1>1. ASSUME NEW c \in Calls, Create(c), NEW d \in sessions
      PROVE  Key[d] # Key[c]
  <2>1. d \in Calls /\ d # c
    BY <1>1 DEF AdapterInv, TypeOK, Create
  <2>2. Sound(d) /\ Apart(c, d)
    BY <2>1 DEF AdapterInv
  <2> QED  BY <1>1, <2>1, <2>2 DEF Create, Sound, Apart
<1>2. ASSUME NEW c \in Calls, Create(c)
      PROVE  sessions' = sessions \cup {c} /\ \A d \in sessions : Key[d] # Key[c]
  BY <1>1, <1>2 DEF Create
<1>3. CASE UNCHANGED vars
  BY <1>3 DEF vars
<1> QED
  BY <1>2, <1>3 DEF Next, Enter, Lock, LockFails, Compromised, Unlock, Read, Intend, Withdraw,
     Dispatch, NotDispatched, Rejected, Unknown, Refused, Clear, Answered, Bind, Crash

\* The adapter implements the contract of AgentAdapter.launch: at most one session
\* for a key, and a call that returns a run returns that one, until a call
\* overruns the lock.
THEOREM AdapterImplementsContract == Spec => ImplementsContract
<1>1. Init => Contract!Init
  BY DEF Init, Contract!Init, Fresh, answers
<1>2. (overrun = {} => AdapterInv) /\ [Next]_vars
        => [overrun' = {} => Contract!Next \/ UNCHANGED <<sessions, answers>>]_vars
  <2> SUFFICES ASSUME AdapterInv, [Next]_vars, overrun' = {}
               PROVE  Contract!Next \/ UNCHANGED <<sessions, answers>>
    BY OverrunStays
  <2>1. /\ \A c \in Calls : answers[c] = AdapterAnswer(c) /\ answers'[c] = AdapterAnswer(c)'
        /\ answers = [c \in Calls |-> answers[c]] /\ answers' = [c \in Calls |-> answers'[c]]
    BY DEF AdapterAnswer, answers
  <2>2. CASE \A c \in Calls : AdapterAnswer(c)' = AdapterAnswer(c)
    <3>1. answers' = answers
      BY <2>2 DEF AdapterAnswer, answers
    <3>2. ASSUME NEW c \in Calls, sessions' = sessions \cup {c}, \A d \in sessions : Key[d] # Key[c]
          PROVE  Contract!Start(c)
      BY <3>1, <3>2 DEF Contract!Start
    <3> QED  BY <3>1, <3>2, SessionsOnce DEF Contract!Next
  <2>3. ASSUME UNCHANGED sessions, NEW c \in Calls, NEW r \in sessions,
               AdapterAnswer(c) = NoRun, AdapterAnswer(c)' = r, Key[r] = Key[c],
               \A d \in Calls \ {c} : AdapterAnswer(d)' = AdapterAnswer(d)
        PROVE  Contract!Next
    <3>1. r \in Calls
      BY DEF AdapterInv, TypeOK
    <3>2. answers' = [answers EXCEPT ![c] = r]
      BY <2>1, <2>3
    <3>3. Contract!Return(c, r)
      BY <2>1, <2>3, <3>2 DEF Contract!Return
    <3> QED  BY <3>1, <3>3 DEF Contract!Next
  <2> QED  BY <2>2, <2>3, AnswersOnce
<1> QED  BY <1>1, <1>2, AdapterInvariant, PTL DEF Spec, ImplementsContract

-----------------------------------------------------------------------------
(* The coordinator.                                                        *)

\* Phases of a call that has seen or made its reservation, ...
Reserved == {"find", "recover", "revalidate"} \cup {"dispatching", "launch", "waiting", "bind", "failed"}
\* ... has audited the launch, ...
Audited == {"dispatching", "launch", "waiting", "bind", "failed"}
\* ... and has moved the intent past reserved.
UnderWay == {"launch", "waiting", "bind", "failed"}

\* A binding has a run of its key, and no other intent has a run.
IntentIsWhole ==
    \A k \in Keys :
        /\ intent[k].status = "bound" => intent[k].run # NoRun
        /\ intent[k].run # NoRun => intent[k].status = "bound" /\ intent[k].run \in RunOf(k)

\* What a call may rely on, after each of its awaits.
Backed(c) ==
    /\ launch[c].at \in Reserved => intent[Key[c]].status # "none" /\ intent[Key[c]].request = Request[c]
    /\ launch[c].at \in Audited => Key[c] \in audited
    /\ launch[c].at \in UnderWay => intent[Key[c]].status \in Dispatched
    /\ launch[c].at \in {"recover", "bind"} => launch[c].run \in RunOf(Key[c])
    /\ launch[c].at \in {"idle", "authorized"} => ~launch[c].created /\ c \notin sent

\* A sweep that found a run found one of its key.
SweepBacked(v) ==
    sweep[v].key # NoRun => sweep[v].key \in Keys /\ sweep[v].run \in RunOf(sweep[v].key)

\* The inductive invariant.
CoordinatorInv ==
    /\ CoordinatorTypes /\ runs \subseteq sent
    /\ IntentComesFirst /\ IntentIsWhole
    /\ \A c \in Calls : Backed(c)
    /\ \A v \in Servers : SweepBacked(v)

USE CoordinatorConstants

-----------------------------------------------------------------------------
(* The intents only move forward.                                          *)

\* What no write of the state file may do to an intent.
Forward(old, new) ==
    /\ old.status # "none" => new.status # "none" /\ new.request = old.request
    /\ old.status \in Dispatched => new.status \in Dispatched
    /\ old.run # NoRun => new = old

\* A change of the intents, and of whatever the calls have sent and audited, that
\* takes nothing away that a call or a sweep relies on.
Monotone ==
    /\ \A k \in Keys : Forward(intent[k], intent'[k])
    /\ audited \subseteq audited' /\ sent \subseteq sent' /\ runs \subseteq runs'

\* Every outcome of updateLaunch moves the intent of its key forward and leaves
\* the others alone; a run gets into it only with the status bound.
LEMMA UpdatedMoves ==
  ASSUME CoordinatorTypes, IntentIsWhole, NEW k \in Keys, NEW status \in Statuses, NEW r \in Runs,
         r # NoRun <=> status = "bound", NEW u \in Updated(k, status, r)
  PROVE  /\ u[1] \in [Keys -> Intent]
         /\ \A j \in Keys : Forward(intent[j], u[1][j]) /\ (j # k => u[1][j] = intent[j])
         /\ u[1][k].status = "none" => intent[k].status = "none"
         /\ u[1][k].request = intent[k].request
         /\ u[1][k].run \in {intent[k].run, r}
         /\ u[1][k].run # NoRun <=> u[1][k].status = "bound"
         /\ u[2] => u[1][k].status = status
<1> DEFINE next == [intent EXCEPT ![k].status = status, ![k].run = IF r = NoRun THEN @ ELSE r]
<1>1. intent \in [Keys -> Intent] /\ intent[k] \in Intent
  BY DEF CoordinatorTypes
<1>2. CASE ~Allowed(k, status, r)
  <2>1. u = <<intent, FALSE>>
    BY <1>2, Zenon DEF Updated
  <2> QED  BY <1>1, <2>1 DEF IntentIsWhole, Forward
<1>3. CASE Allowed(k, status, r)
  <2>1. /\ next \in [Keys -> Intent] /\ \A j \in Keys : j # k => next[j] = intent[j]
        /\ next[k].status = status /\ next[k].request = intent[k].request
        /\ next[k].run = IF r = NoRun THEN intent[k].run ELSE r
    BY <1>1 DEF Intent
  <2>2. /\ intent[k].status # "none" /\ status # "none"
        /\ intent[k].status \in Dispatched => status \in Dispatched
        /\ intent[k].status = "bound" => status = "bound"
    BY <1>1, <1>3 DEF Allowed, Transitions, Dispatched, Intent, Statuses
  <2>3. u = <<next, TRUE>> \/ u = <<next, FALSE>> \/ u = <<intent, FALSE>>
    BY <1>3, Zenon DEF Updated
  <2>4. intent[k].run # NoRun <=> intent[k].status = "bound"
    BY DEF IntentIsWhole
  <2>5. intent[k].status = "bound" /\ r # NoRun => r = intent[k].run
    BY <1>3 DEF Allowed
  <2> HIDE DEF next
  <2>6. intent[k].run # NoRun => next[k] = intent[k]
    <3>1. next[k] \in Intent
      BY <2>1
    <3> QED  BY <1>1, <2>1, <2>2, <2>4, <2>5, <3>1 DEF Intent
  <2>7. CASE u = <<next, TRUE>> \/ u = <<next, FALSE>>
    <3>0. u[1] = next
      <4>1. CASE u = <<next, TRUE>>
        BY <4>1
      <4>2. CASE u = <<next, FALSE>>
        BY <4>2
      <4> QED  BY <2>7, <4>1, <4>2, Zenon
    <3>1. \A j \in Keys : Forward(intent[j], next[j])
      BY <2>1, <2>2, <2>6 DEF Forward
    <3>2. next[k].run \in {intent[k].run, r} /\ (next[k].run # NoRun <=> next[k].status = "bound")
      BY <2>1, <2>2, <2>4
    <3> QED  BY <2>1, <2>2, <3>0, <3>1, <3>2
  <2>8. CASE u = <<intent, FALSE>>
    BY <1>1, <2>4, <2>8 DEF Forward
  <2> QED  BY <2>3, <2>7, <2>8, Zenon
<1> QED  BY <1>2, <1>3

-----------------------------------------------------------------------------
(* What a step leaves alone stays backed.                                  *)

\* A call that does not move itself loses nothing to the others.
LEMMA OthersBacked ==
  ASSUME NEW d \in Calls, Backed(d), Monotone, launch'[d] = launch[d], d \in sent' => d \in sent
  PROVE  Backed(d)'
  BY DEF Backed, Monotone, Forward, RunOf, UnderWay, Reserved

\* Nor does a sweep.
LEMMA SweepsBacked ==
  ASSUME NEW v \in Servers, SweepBacked(v), Monotone, sweep'[v] = sweep[v] \/ sweep'[v] = Idle
  PROVE  SweepBacked(v)'
  BY DEF SweepBacked, Monotone, RunOf, Idle

\* A step that leaves the intents alone and sends nothing.
LEMMA CoordinatorQuiet ==
  ASSUME CoordinatorInv, UNCHANGED <<intent, sent>>, audited \subseteq audited',
         runs \subseteq runs', runs' \subseteq sent
  PROVE  Monotone /\ IntentComesFirst' /\ IntentIsWhole' /\ (runs \subseteq sent)'
<1>1. Monotone
  BY DEF Monotone, Forward, CoordinatorInv
<1>2. IntentComesFirst'
  BY DEF CoordinatorInv, IntentComesFirst
<1>3. IntentIsWhole'
  BY DEF CoordinatorInv, IntentIsWhole, RunOf
<1> QED  BY <1>1, <1>2, <1>3

\* A step that is one updateLaunch, with a run of the key if it names a run.
LEMMA UpdateKeeps ==
  ASSUME CoordinatorInv, NEW k \in Keys, NEW status \in Statuses, NEW r \in Runs,
         IF status = "bound" THEN r \in RunOf(k) ELSE r = NoRun,
         NEW u \in Updated(k, status, r), intent' = u[1],
         UNCHANGED <<runs, answer, audited, sent>>
  PROVE  /\ Monotone /\ IntentComesFirst' /\ IntentIsWhole' /\ (runs \subseteq sent)'
         /\ intent' \in [Keys -> Intent]
<1>1. CoordinatorTypes /\ IntentIsWhole /\ IntentComesFirst
  BY DEF CoordinatorInv
<1>2. /\ intent' \in [Keys -> Intent]
      /\ \A j \in Keys : Forward(intent[j], intent'[j]) /\ (j # k => intent'[j] = intent[j])
      /\ intent'[k].status = "none" => intent[k].status = "none"
      /\ intent'[k].run \in {intent[k].run, r}
      /\ intent'[k].run # NoRun <=> intent'[k].status = "bound"
  <2>1. r # NoRun <=> status = "bound"
    BY <1>1 DEF CoordinatorTypes, RunOf
  <2> QED  BY <1>1, <2>1, UpdatedMoves
<1>3. Monotone
  BY <1>2 DEF Monotone
<1>4. IntentComesFirst'
  <2> SUFFICES ASSUME NEW c \in sent
               PROVE  /\ intent'[Key[c]].status \in Dispatched
                      /\ intent'[Key[c]].request = Request[c] /\ Key[c] \in audited
    BY DEF IntentComesFirst, Dispatched
  <2>1. c \in Calls /\ Key[c] \in Keys
    BY <1>1 DEF CoordinatorTypes
  <2> QED  BY <1>1, <1>2, <2>1 DEF IntentComesFirst, Forward, Dispatched
<1>5. IntentIsWhole'
  BY <1>1, <1>2 DEF IntentIsWhole, RunOf
<1> QED  BY <1>2, <1>3, <1>4, <1>5 DEF CoordinatorInv

\* A step of one call keeps the invariant if the call itself stays backed.
LEMMA LaunchCallKeeps ==
  ASSUME CoordinatorInv, NEW c \in Calls, CoordinatorTypes', Monotone,
         IntentComesFirst', IntentIsWhole', (runs \subseteq sent)',
         \A d \in Calls \ {c} : launch'[d] = launch[d] /\ (d \in sent' => d \in sent),
         UNCHANGED sweep, Backed(c)'
  PROVE  CoordinatorInv'
<1>1. \A d \in Calls : Backed(d)'
  BY OthersBacked DEF CoordinatorInv
<1>2. \A v \in Servers : SweepBacked(v)'
  BY SweepsBacked DEF CoordinatorInv
<1> QED  BY <1>1, <1>2 DEF CoordinatorInv

\* What a step does to a call that only moves on, ...
LEMMA LaunchMoves ==
  ASSUME CoordinatorTypes, NEW c \in Calls, NEW a \in Phases, LaunchGoto(c, a)
  PROVE  /\ launch' \in [Calls -> LaunchCall] /\ \A d \in Calls \ {c} : launch'[d] = launch[d]
         /\ launch'[c].at = a /\ ~launch'[c].created
<1>1. /\ [FreshLaunch EXCEPT !.at = a] \in LaunchCall /\ [FreshLaunch EXCEPT !.at = a].at = a
      /\ ~[FreshLaunch EXCEPT !.at = a].created
  BY DEF FreshLaunch, LaunchCall, Runs, Statuses
<1> QED  BY <1>1 DEF CoordinatorTypes, LaunchGoto

\* The step of a call that takes the run it found along.
GotoWith(c, a, r) == launch' = [launch EXCEPT ![c].at = a, ![c].run = r]

\* ... and to one that takes a run along.
LEMMA TakesRun ==
  ASSUME CoordinatorTypes, NEW c \in Calls, NEW a \in Phases, NEW r \in Runs, GotoWith(c, a, r)
  PROVE  /\ launch' \in [Calls -> LaunchCall] /\ \A d \in Calls \ {c} : launch'[d] = launch[d]
         /\ launch'[c].at = a /\ launch'[c].run = r
         /\ launch'[c].created = launch[c].created /\ launch'[c].seen = launch[c].seen
<1>1. launch \in [Calls -> LaunchCall] /\ launch[c] \in LaunchCall
  BY DEF CoordinatorTypes
<1> QED  BY <1>1 DEF LaunchCall, GotoWith

-----------------------------------------------------------------------------
(* One lemma for each action of a launch.                                  *)

\* authorize, or the denial.
LEMMA AuthorizeKeeps ==
  ASSUME CoordinatorInv, NEW c \in Calls, Authorize(c)
  PROVE  CoordinatorInv' /\ Monotone
<1>1. /\ launch' \in [Calls -> LaunchCall] /\ \A d \in Calls \ {c} : launch'[d] = launch[d]
      /\ launch'[c].at \in {"authorized", "done"} /\ ~launch'[c].created
  BY LaunchMoves DEF CoordinatorInv, Authorize, Phases
<1>2. CoordinatorTypes'
  BY <1>1 DEF CoordinatorInv, CoordinatorTypes, Authorize
<1>3. Backed(c)'
  BY <1>1 DEF CoordinatorInv, Backed, Authorize, LaunchAt, Reserved, Audited, UnderWay
<1>4. Monotone /\ IntentComesFirst' /\ IntentIsWhole' /\ (runs \subseteq sent)'
  BY CoordinatorQuiet DEF Authorize, CoordinatorInv
<1> QED  BY <1>1, <1>2, <1>3, <1>4, LaunchCallKeeps DEF Authorize

\* reserveLaunch: a new reservation, a refusal, or the intent of an earlier call.
LEMMA ReserveKeeps ==
  ASSUME CoordinatorInv, NEW c \in Calls, Reserve(c)
  PROVE  CoordinatorInv' /\ Monotone
<1> DEFINE k == Key[c]
           reserved == [intent[k] EXCEPT !.status = "reserved", !.request = Request[c]]
<1>0. launch \in [Calls -> LaunchCall] /\ launch[c] \in LaunchCall
  BY DEF CoordinatorInv, CoordinatorTypes
<1>1. k \in Keys /\ intent \in [Keys -> Intent] /\ intent[k] \in Intent
  BY DEF CoordinatorInv, CoordinatorTypes
<1>2. /\ launch' \in [Calls -> LaunchCall] /\ \A d \in Calls \ {c} : launch'[d] = launch[d]
      /\ launch'[c].at \in {"find", "done"}
      /\ \/ intent[k].status = "none" /\ intent' = [intent EXCEPT ![k] = reserved]
         \/ /\ UNCHANGED intent
            /\ launch'[c].at = "find" => intent[k].status # "none" /\ intent[k].request = Request[c]
  <2>1. CASE LaunchGoto(c, "done") /\ intent' = [intent EXCEPT ![k] = reserved] /\ intent[k].status = "none"
    BY <2>1, LaunchMoves DEF CoordinatorInv, Phases
  <2>2. CASE LaunchGoto(c, "done") /\ UNCHANGED intent
    BY <2>2, LaunchMoves DEF CoordinatorInv, Phases
  <2>3. CASE /\ launch' = [launch EXCEPT ![c].at = "find", ![c].created = TRUE, ![c].seen = "reserved"]
             /\ intent' = [intent EXCEPT ![k] = reserved] /\ intent[k].status = "none"
    BY <1>0, <2>3 DEF LaunchCall, Phases, Statuses
  <2>4. CASE /\ launch' = [launch EXCEPT ![c].at = "find", ![c].seen = intent[k].status]
             /\ intent[k].status # "none" /\ SameRequest(c) /\ UNCHANGED intent
    BY <1>0, <1>1, <2>4 DEF LaunchCall, Phases, Intent, SameRequest
  <2> QED  BY <2>1, <2>2, <2>3, <2>4, Zenon DEF Reserve
<1>3. UNCHANGED <<runs, answer, audited, sent, sweep>> /\ late' \in {late, late \cup {c}}
  BY DEF Reserve
<1>4. reserved \in Intent /\ reserved.status = "reserved" /\ reserved.request = Request[c]
      /\ reserved.run = intent[k].run
  BY <1>1 DEF Intent, Statuses, Requests
<1> HIDE DEF reserved
<1>6. CoordinatorTypes'
  BY <1>1, <1>2, <1>3, <1>4 DEF CoordinatorInv, CoordinatorTypes
<1>7. Monotone /\ IntentComesFirst' /\ IntentIsWhole' /\ (runs \subseteq sent)'
  <2>1. CASE UNCHANGED intent
    BY <1>3, <2>1, CoordinatorQuiet DEF CoordinatorInv
  <2>2. CASE intent[k].status = "none" /\ intent' = [intent EXCEPT ![k] = reserved]
    <3>1. intent[k].run = NoRun
      BY <1>1, <2>2 DEF CoordinatorInv, IntentIsWhole
    <3>2. Monotone
      BY <1>1, <1>4, <1>3, <2>2, <3>1 DEF Monotone, Forward, Dispatched
    <3>3. \A d \in sent : d \in Calls /\ Key[d] # k
      BY <2>2 DEF CoordinatorInv, CoordinatorTypes, IntentComesFirst, Dispatched
    <3>4. IntentComesFirst'
      BY <1>1, <1>3, <2>2, <3>3 DEF CoordinatorInv, IntentComesFirst
    <3>5. IntentIsWhole'
      BY <1>1, <1>4, <1>3, <2>2, <3>1 DEF CoordinatorInv, IntentIsWhole, RunOf
    <3> QED  BY <1>3, <3>2, <3>4, <3>5 DEF CoordinatorInv
  <2> QED  BY <1>2, <2>1, <2>2
<1>8. Backed(c)'
  BY <1>1, <1>2, <1>4 DEF Backed, Reserved, Audited, UnderWay
<1> QED  BY <1>2, <1>3, <1>6, <1>7, <1>8, LaunchCallKeeps

\* findByIdempotencyKey: the run it finds is a run of the key.
LEMMA FindKeeps ==
  ASSUME CoordinatorInv, NEW c \in Calls, Find(c)
  PROVE  CoordinatorInv' /\ Monotone
<1>1. CoordinatorTypes /\ RunOf(Key[c]) \subseteq Runs
  BY DEF CoordinatorInv, CoordinatorTypes, RunOf, Runs
<1>2. /\ launch' \in [Calls -> LaunchCall] /\ \A d \in Calls \ {c} : launch'[d] = launch[d]
      /\ launch'[c].at \in {"recover", "revalidate", "done"}
      /\ launch'[c].at = "recover" => launch'[c].run \in RunOf(Key[c])
  <2>1. ASSUME NEW a \in {"revalidate", "done"}, LaunchGoto(c, a)
        PROVE  <1>2
    BY <1>1, <2>1, LaunchMoves DEF Phases
  <2>2. ASSUME NEW r \in RunOf(Key[c]), GotoWith(c, "recover", r)
        PROVE  <1>2
    BY <1>1, <2>2, TakesRun DEF Phases
  <2> QED  BY <2>1, <2>2, Zenon DEF Find, GotoWith
<1>3. UNCHANGED <<runs, answer, intent, audited, sent, sweep, late>>
  BY DEF Find
<1>4. CoordinatorTypes'
  BY <1>1, <1>2, <1>3 DEF CoordinatorTypes
<1>5. Monotone /\ IntentComesFirst' /\ IntentIsWhole' /\ (runs \subseteq sent)'
  BY <1>3, CoordinatorQuiet DEF CoordinatorInv
<1>6. Backed(c)'
  BY <1>2, <1>3 DEF CoordinatorInv, Backed, RunOf, Find, LaunchAt, Reserved, Audited, UnderWay
<1> QED  BY <1>2, <1>3, <1>4, <1>5, <1>6, LaunchCallKeeps

\* The found run is bound, or the call is denied.
LEMMA RecoverKeeps ==
  ASSUME CoordinatorInv, NEW c \in Calls, Recover(c)
  PROVE  CoordinatorInv' /\ Monotone
<1>1. CoordinatorTypes /\ Key[c] \in Keys /\ launch[c].run \in RunOf(Key[c]) /\ launch[c].run \in Runs
  BY DEF CoordinatorInv, CoordinatorTypes, Backed, Recover, LaunchAt, RunOf, Runs
<1>2. /\ launch' \in [Calls -> LaunchCall] /\ \A d \in Calls \ {c} : launch'[d] = launch[d]
      /\ launch'[c].at = "done"
  BY <1>1, LaunchMoves DEF Recover, Phases
<1>3. UNCHANGED <<runs, answer, audited, sent, sweep, late>>
  BY DEF Recover
<1>4. /\ Monotone /\ IntentComesFirst' /\ IntentIsWhole' /\ (runs \subseteq sent)'
      /\ intent' \in [Keys -> Intent]
  <2>1. CASE UNCHANGED intent
    BY <1>1, <1>3, <2>1, CoordinatorQuiet DEF CoordinatorInv, CoordinatorTypes
  <2>2. ASSUME NEW u \in Updated(Key[c], "bound", launch[c].run), intent' = u[1]
        PROVE  <1>4
    BY <1>1, <1>3, <2>2, UpdateKeeps DEF Statuses
  <2> QED  BY <2>1, <2>2 DEF Recover
<1>5. CoordinatorTypes'
  BY <1>1, <1>2, <1>3, <1>4 DEF CoordinatorTypes
<1>6. Backed(c)'
  BY <1>2 DEF Backed, Reserved, Audited, UnderWay
<1> QED  BY <1>2, <1>3, <1>4, <1>5, <1>6, LaunchCallKeeps

\* The audit event is written before the call goes on.
LEMMA RevalidateKeeps ==
  ASSUME CoordinatorInv, NEW c \in Calls, Revalidate(c)
  PROVE  CoordinatorInv' /\ Monotone
<1>1. CoordinatorTypes /\ Key[c] \in Keys
  BY DEF CoordinatorInv, CoordinatorTypes
<1>2. /\ launch' \in [Calls -> LaunchCall] /\ \A d \in Calls \ {c} : launch'[d] = launch[d]
      /\ \/ launch'[c].at = "done" /\ audited' \in {audited, audited \cup {Key[c]}}
         \/ launch'[c].at = "dispatching" /\ audited' = audited \cup {Key[c]}
  BY <1>1, LaunchMoves DEF Revalidate, Phases
<1>3. UNCHANGED <<runs, answer, intent, sent, sweep, late>>
  BY DEF Revalidate
<1>4. CoordinatorTypes'
  BY <1>1, <1>2, <1>3 DEF CoordinatorTypes
<1>5. Monotone /\ IntentComesFirst' /\ IntentIsWhole' /\ (runs \subseteq sent)'
  BY <1>2, <1>3, CoordinatorQuiet DEF CoordinatorInv
<1>6. Backed(c)'
  BY <1>2, <1>3 DEF CoordinatorInv, Backed, Revalidate, LaunchAt, Reserved, Audited, UnderWay
<1> QED  BY <1>2, <1>3, <1>4, <1>5, <1>6, LaunchCallKeeps

\* updateLaunch to dispatching: the adapter is called only when it succeeded.
LEMMA DispatchingKeeps ==
  ASSUME CoordinatorInv, NEW c \in Calls, Dispatching(c)
  PROVE  CoordinatorInv' /\ Monotone
<1>1. CoordinatorTypes /\ IntentIsWhole /\ Key[c] \in Keys /\ NoRun \in Runs
  BY DEF CoordinatorInv, CoordinatorTypes, Runs
<1>2. PICK u \in Updated(Key[c], "dispatching", NoRun) :
        intent' = u[1] /\ LaunchGoto(c, IF u[2] THEN "launch" ELSE "done")
  BY DEF Dispatching
<1>3. UNCHANGED <<runs, answer, audited, sent, sweep, late>>
  BY DEF Dispatching
<1>4. /\ launch' \in [Calls -> LaunchCall] /\ \A d \in Calls \ {c} : launch'[d] = launch[d]
      /\ launch'[c].at \in {"launch", "done"} /\ (launch'[c].at = "launch" => u[2])
  BY <1>1, <1>2, LaunchMoves DEF Phases
<1>5. /\ Monotone /\ IntentComesFirst' /\ IntentIsWhole' /\ (runs \subseteq sent)'
      /\ intent' \in [Keys -> Intent]
  BY <1>1, <1>2, <1>3, UpdateKeeps DEF Statuses
<1>6. CoordinatorTypes'
  BY <1>1, <1>3, <1>4, <1>5 DEF CoordinatorTypes
<1>7. u[2] => intent'[Key[c]].status = "dispatching"
  BY <1>1, <1>2, UpdatedMoves DEF Statuses
<1>8. Forward(intent[Key[c]], intent'[Key[c]])
  BY <1>1, <1>5 DEF Monotone
<1>9. Backed(c)'
  BY <1>3, <1>4, <1>7, <1>8 DEF CoordinatorInv, Backed, Dispatching, LaunchAt, Forward,
     Reserved, Audited, UnderWay, Dispatched
<1> QED  BY <1>3, <1>4, <1>5, <1>6, <1>9, LaunchCallKeeps

\* The adapter is called: the launch may reach the backend from now on.
LEMMA LaunchKeeps ==
  ASSUME CoordinatorInv, NEW c \in Calls, Launch(c)
  PROVE  CoordinatorInv' /\ Monotone
<1>1. CoordinatorTypes /\ Key[c] \in Keys /\ Backed(c) /\ launch[c].at = "launch"
  BY DEF CoordinatorInv, CoordinatorTypes, Launch, LaunchAt
<1>2. /\ launch' \in [Calls -> LaunchCall] /\ \A d \in Calls \ {c} : launch'[d] = launch[d]
      /\ launch'[c].at \in {"waiting", "failed"} /\ sent' \in {sent, sent \cup {c}}
  BY <1>1, LaunchMoves DEF Launch, Phases
<1>3. UNCHANGED <<runs, answer, intent, audited, sweep, late>>
  BY DEF Launch
<1>4. CoordinatorTypes'
  BY <1>1, <1>2, <1>3 DEF CoordinatorTypes
<1>5. Monotone /\ IntentIsWhole' /\ (runs \subseteq sent)'
  BY <1>2, <1>3 DEF CoordinatorInv, Monotone, Forward, IntentIsWhole, RunOf
<1>6. IntentComesFirst'
  BY <1>1, <1>2, <1>3 DEF CoordinatorInv, IntentComesFirst, Backed, Reserved, Audited, UnderWay, Dispatched
<1>7. Backed(c)'
  BY <1>1, <1>2, <1>3 DEF Backed, Reserved, Audited, UnderWay
<1> QED  BY <1>2, <1>3, <1>4, <1>5, <1>6, <1>7, LaunchCallKeeps

\* The backend starts a run, of a launch that was sent.
LEMMA AcceptKeeps ==
  ASSUME CoordinatorInv, NEW c \in Calls, Accept(c)
  PROVE  CoordinatorInv' /\ Monotone
<1>1. /\ c \in sent /\ runs' = runs \cup {c}
      /\ UNCHANGED <<answer, intent, audited, launch, sent, sweep, late>>
  BY DEF Accept, Adapter!Start
<1>2. CoordinatorTypes'
  BY <1>1 DEF CoordinatorInv, CoordinatorTypes
<1>3. Monotone /\ IntentComesFirst' /\ IntentIsWhole' /\ (runs \subseteq sent)'
  BY <1>1, CoordinatorQuiet DEF CoordinatorInv
<1>4. Backed(c)'
  BY <1>1, <1>3, OthersBacked DEF CoordinatorInv
<1> QED  BY <1>1, <1>2, <1>3, <1>4, LaunchCallKeeps

\* The adapter answers with the run of the key.
LEMMA AnswerKeeps ==
  ASSUME CoordinatorInv, NEW c \in Calls, NEW r \in Calls, Answer(c, r)
  PROVE  CoordinatorInv' /\ Monotone
<1>1. CoordinatorTypes /\ Backed(c) /\ launch[c].at = "waiting" /\ r \in RunOf(Key[c]) /\ r \in Runs
  BY DEF CoordinatorInv, Answer, LaunchAt, Adapter!Return, RunOf, Runs
<1>2. /\ launch' \in [Calls -> LaunchCall] /\ \A d \in Calls \ {c} : launch'[d] = launch[d]
      /\ launch'[c].at = "bind" /\ launch'[c].run = r
  <2>1. GotoWith(c, "bind", r)
    BY Zenon DEF Answer, GotoWith
  <2> QED  BY <1>1, <2>1, TakesRun DEF Phases
<1>3. answer' = [answer EXCEPT ![c] = r] /\ UNCHANGED <<runs, intent, audited, sent, sweep, late>>
  BY DEF Answer, Adapter!Return
<1>4. CoordinatorTypes'
  BY <1>1, <1>2, <1>3 DEF CoordinatorTypes
<1>5. Monotone /\ IntentComesFirst' /\ IntentIsWhole' /\ (runs \subseteq sent)'
  BY <1>3, CoordinatorQuiet DEF CoordinatorInv
<1>6. Backed(c)'
  BY <1>1, <1>2, <1>3 DEF Backed, RunOf, Reserved, Audited, UnderWay
<1> QED  BY <1>2, <1>3, <1>4, <1>5, <1>6, LaunchCallKeeps

\* The adapter fails after the launch was handed over.
LEMMA FailKeeps ==
  ASSUME CoordinatorInv, NEW c \in Calls, Fail(c)
  PROVE  CoordinatorInv' /\ Monotone
<1>1. CoordinatorTypes /\ Backed(c) /\ launch[c].at = "waiting"
  BY DEF CoordinatorInv, Fail, LaunchAt
<1>2. /\ launch' \in [Calls -> LaunchCall] /\ \A d \in Calls \ {c} : launch'[d] = launch[d]
      /\ launch'[c].at = "failed"
  BY <1>1, LaunchMoves DEF Fail, Phases
<1>3. UNCHANGED <<runs, answer, intent, audited, sent, sweep, late>>
  BY DEF Fail
<1>4. CoordinatorTypes'
  BY <1>1, <1>2, <1>3 DEF CoordinatorTypes
<1>5. Monotone /\ IntentComesFirst' /\ IntentIsWhole' /\ (runs \subseteq sent)'
  BY <1>3, CoordinatorQuiet DEF CoordinatorInv
<1>6. Backed(c)'
  BY <1>1, <1>2, <1>3 DEF Backed, Reserved, Audited, UnderWay
<1> QED  BY <1>2, <1>3, <1>4, <1>5, <1>6, LaunchCallKeeps

\* The answered run is bound, or the write failed.
LEMMA LaunchBindKeeps ==
  ASSUME CoordinatorInv, NEW c \in Calls, BindRun(c)
  PROVE  CoordinatorInv' /\ Monotone
<1>1. /\ CoordinatorTypes /\ Backed(c) /\ launch[c].at = "bind" /\ Key[c] \in Keys
      /\ launch[c].run \in RunOf(Key[c]) /\ launch[c].run \in Runs
  BY DEF CoordinatorInv, CoordinatorTypes, Backed, BindRun, LaunchAt, RunOf, Runs
<1>2. PICK u \in Updated(Key[c], "bound", launch[c].run) :
        intent' = u[1] /\ LaunchGoto(c, IF u[2] THEN "done" ELSE "failed")
  BY DEF BindRun
<1>3. UNCHANGED <<runs, answer, audited, sent, sweep, late>>
  BY DEF BindRun
<1>4. /\ launch' \in [Calls -> LaunchCall] /\ \A d \in Calls \ {c} : launch'[d] = launch[d]
      /\ launch'[c].at \in {"failed", "done"}
  BY <1>1, <1>2, LaunchMoves DEF Phases
<1>5. /\ Monotone /\ IntentComesFirst' /\ IntentIsWhole' /\ (runs \subseteq sent)'
      /\ intent' \in [Keys -> Intent]
  BY <1>1, <1>2, <1>3, UpdateKeeps DEF Statuses
<1>6. CoordinatorTypes'
  BY <1>1, <1>3, <1>4, <1>5 DEF CoordinatorTypes
<1>7. Forward(intent[Key[c]], intent'[Key[c]])
  BY <1>1, <1>5 DEF Monotone
<1>8. Backed(c)'
  BY <1>1, <1>3, <1>4, <1>7 DEF Backed, Forward, Reserved, Audited, UnderWay
<1> QED  BY <1>3, <1>4, <1>5, <1>6, <1>8, LaunchCallKeeps

\* The catch clause records that the outcome is unknown.
LEMMA FailedKeeps ==
  ASSUME CoordinatorInv, NEW c \in Calls, Failed(c)
  PROVE  CoordinatorInv' /\ Monotone
<1>1. CoordinatorTypes /\ Key[c] \in Keys /\ NoRun \in Runs
  BY DEF CoordinatorInv, CoordinatorTypes, Runs
<1>2. PICK u \in Updated(Key[c], "unknown_outcome", NoRun) : intent' = u[1]
  BY DEF Failed
<1>3. UNCHANGED <<runs, answer, audited, sent, sweep, late>>
  BY DEF Failed
<1>4. /\ launch' \in [Calls -> LaunchCall] /\ \A d \in Calls \ {c} : launch'[d] = launch[d]
      /\ launch'[c].at = "done"
  BY <1>1, LaunchMoves DEF Failed, Phases
<1>5. /\ Monotone /\ IntentComesFirst' /\ IntentIsWhole' /\ (runs \subseteq sent)'
      /\ intent' \in [Keys -> Intent]
  BY <1>1, <1>2, <1>3, UpdateKeeps DEF Statuses
<1>6. CoordinatorTypes'
  BY <1>1, <1>3, <1>4, <1>5 DEF CoordinatorTypes
<1>7. Backed(c)'
  BY <1>4 DEF Backed, Reserved, Audited, UnderWay
<1> QED  BY <1>3, <1>4, <1>5, <1>6, <1>7, LaunchCallKeeps

-----------------------------------------------------------------------------
(* reconcile and the crash of a server.                                    *)

\* A sweep starts, goes on to another intent or ends; the calls do not notice.
LEMMA SweepKeeps ==
  ASSUME CoordinatorInv, NEW v \in Servers,
         \/ Reconcile(v) \/ SweepBinds(v) \/ SweepDenied(v) \/ SweepThrows(v)
         \/ \E k \in Keys : Found(v, k) \/ NotFound(v, k)
  PROVE  CoordinatorInv' /\ Monotone
<1>1. /\ CoordinatorTypes /\ SweepBacked(v) /\ UNCHANGED <<runs, answer, audited, launch, sent, late>>
      /\ sweep \in [Servers -> Sweeps] /\ sweep[v] \in Sweeps
  BY DEF CoordinatorInv, CoordinatorTypes, Reconcile, SweepBinds, SweepDenied, SweepThrows, Found, NotFound
<1>2. /\ sweep' \in [Servers -> Sweeps]
      /\ \A w \in Servers \ {v} : sweep'[w] = sweep[w]
      /\ \/ sweep'[v].key = NoRun
         \/ sweep'[v].key \in Keys /\ sweep'[v].run \in RunOf(sweep'[v].key)
  <2>1. CASE Abort(v)
    BY <1>1, <2>1 DEF Abort, Idle, Sweeps, Runs
  <2>2. CASE Continue(v)
    BY <1>1, <2>2 DEF Continue, Sweeps, Runs
  <2>3. ASSUME NEW left \in SUBSET Keys, sweep' = [sweep EXCEPT ![v].left = left]
        PROVE  <1>2
    BY <1>1, <2>3 DEF Sweeps, SweepBacked
  <2>4. ASSUME NEW k \in Keys, NEW r \in RunOf(k),
               sweep' = [sweep EXCEPT ![v] = [left |-> sweep[v].left \ {k}, key |-> k, run |-> r]]
        PROVE  <1>2
    <3>1. r \in Runs
      BY <1>1 DEF CoordinatorTypes, RunOf, Runs
    <3> QED  BY <1>1, <2>4, <3>1 DEF Sweeps
  <2>5. CASE Reconcile(v)
    BY <2>3, <2>5 DEF Reconcile
  <2>6. ASSUME NEW k \in Keys, Found(v, k)
        PROVE  <1>2
    BY <2>4, <2>6 DEF Found
  <2>7. ASSUME NEW k \in Keys, NotFound(v, k)
        PROVE  <1>2
    <3>1. sweep' = [sweep EXCEPT ![v].left = sweep[v].left \ {k}] /\ sweep[v].left \ {k} \in SUBSET Keys
      BY <1>1, <2>7 DEF NotFound, Sweeps
    <3> QED  BY <2>3, <3>1
  <2> QED  BY <2>1, <2>2, <2>5, <2>6, <2>7 DEF SweepBinds, SweepDenied, SweepThrows
<1>3. /\ Monotone /\ IntentComesFirst' /\ IntentIsWhole' /\ (runs \subseteq sent)'
      /\ intent' \in [Keys -> Intent]
  <2>1. CASE UNCHANGED intent
    BY <1>1, <2>1, CoordinatorQuiet DEF CoordinatorInv, CoordinatorTypes
  <2>2. CASE SweepBinds(v)
    <3>1. /\ sweep[v].key \in Keys /\ sweep[v].run \in RunOf(sweep[v].key)
          /\ sweep[v].run \in Runs
      BY <1>1, <2>2 DEF SweepBinds, SweepBacked, Sweeps
    <3>2. PICK u \in Updated(sweep[v].key, "bound", sweep[v].run) : intent' = u[1]
      BY <2>2 DEF SweepBinds
    <3> QED  BY <1>1, <3>1, <3>2, UpdateKeeps DEF Statuses
  <2> QED  BY <2>1, <2>2 DEF Reconcile, SweepDenied, SweepThrows, Found, NotFound
<1>4. CoordinatorTypes'
  BY <1>1, <1>2, <1>3 DEF CoordinatorTypes
<1>5. \A d \in Calls : Backed(d)'
  BY <1>1, <1>3, OthersBacked DEF CoordinatorInv
<1>6. SweepBacked(v)'
  BY <1>1, <1>2 DEF SweepBacked, RunOf
<1>7. \A w \in Servers : SweepBacked(w)'
  BY <1>2, <1>3, <1>6, SweepsBacked DEF CoordinatorInv
<1> QED  BY <1>3, <1>4, <1>5, <1>7 DEF CoordinatorInv

\* A server dies: its calls and its sweep are gone, the state file stays.
LEMMA ServerCrashKeeps ==
  ASSUME CoordinatorInv, NEW v \in Servers, ServerCrash(v)
  PROVE  CoordinatorInv' /\ Monotone
<1>1. CoordinatorTypes /\ UNCHANGED <<runs, answer, intent, audited, sent, late>>
  BY DEF CoordinatorInv, ServerCrash
<1>2. Monotone /\ IntentComesFirst' /\ IntentIsWhole' /\ (runs \subseteq sent)'
  BY <1>1, CoordinatorQuiet DEF CoordinatorInv
<1>3. [FreshLaunch EXCEPT !.at = "dead"] \in LaunchCall /\ [FreshLaunch EXCEPT !.at = "dead"].at = "dead"
  BY DEF FreshLaunch, LaunchCall, Phases, Statuses, Runs
<1>4. /\ launch' \in [Calls -> LaunchCall]
      /\ \A d \in Calls : launch'[d] = launch[d] \/ launch'[d].at = "dead"
  <2>1. launch \in [Calls -> LaunchCall]
    BY <1>1 DEF CoordinatorTypes
  <2> QED  BY <1>3, <2>1 DEF ServerCrash
<1>5. /\ sweep' \in [Servers -> Sweeps]
      /\ \A w \in Servers : sweep'[w] = sweep[w] \/ sweep'[w] = Idle
  <2>1. sweep \in [Servers -> Sweeps]
    BY <1>1 DEF CoordinatorTypes
  <2> QED  BY <2>1 DEF ServerCrash, Idle, Sweeps, Runs
<1>6. CoordinatorTypes'
  BY <1>1, <1>4, <1>5 DEF CoordinatorTypes
<1>7. \A d \in Calls : Backed(d)'
  <2> TAKE d \in Calls
  <2>1. CASE launch'[d] = launch[d]
    BY <1>1, <1>2, <2>1, OthersBacked DEF CoordinatorInv
  <2>2. CASE launch'[d].at = "dead"
    BY <2>2 DEF Backed, Reserved, Audited, UnderWay
  <2> QED  BY <1>4, <2>1, <2>2
<1>8. \A w \in Servers : SweepBacked(w)'
  BY <1>2, <1>5, SweepsBacked DEF CoordinatorInv
<1> QED  BY <1>2, <1>6, <1>7, <1>8 DEF CoordinatorInv

-----------------------------------------------------------------------------
(* Theorems.                                                               *)

\* The initial state satisfies the inductive invariant.
LEMMA InitIsBacked == CoordinatorInit => CoordinatorInv
<1> SUFFICES ASSUME CoordinatorInit PROVE CoordinatorInv
  OBVIOUS
<1>1. CoordinatorTypes
  BY DEF CoordinatorInit, CoordinatorTypes, Adapter!Init, Runs, Intent, Statuses,
     LaunchCall, Phases, FreshLaunch, Sweeps, Idle
<1>2. IntentComesFirst /\ IntentIsWhole /\ runs \subseteq sent
  BY DEF CoordinatorInit, Adapter!Init, IntentComesFirst, IntentIsWhole
<1>3. \A c \in Calls : Backed(c)
  BY DEF CoordinatorInit, FreshLaunch, Backed, Reserved, Audited, UnderWay
<1>4. \A v \in Servers : SweepBacked(v)
  BY DEF CoordinatorInit, SweepBacked, Idle
<1> QED  BY <1>1, <1>2, <1>3, <1>4 DEF CoordinatorInv

\* Every step preserves it, and moves the intents forward only.
LEMMA StepIsBacked ==
  ASSUME CoordinatorInv, [CoordinatorNext]_coordinatorVars
  PROVE  CoordinatorInv' /\ Monotone
<1>1. ASSUME NEW c \in Calls, LaunchStep(c)
      PROVE  CoordinatorInv' /\ Monotone
  BY <1>1, AuthorizeKeeps, ReserveKeeps, FindKeeps, RecoverKeeps, RevalidateKeeps, DispatchingKeeps,
     LaunchKeeps, FailKeeps, LaunchBindKeeps, FailedKeeps, AnswerKeeps DEF LaunchStep
<1>2. CASE UNCHANGED coordinatorVars
  <2>1. Monotone
    BY <1>2, CoordinatorQuiet DEF coordinatorVars, CoordinatorInv
  <2>2. /\ CoordinatorTypes' /\ IntentComesFirst' /\ IntentIsWhole'
    BY <1>2 DEF coordinatorVars, CoordinatorInv, CoordinatorTypes, IntentComesFirst, IntentIsWhole, RunOf
  <2>3. \A c \in Calls : Backed(c)'
    BY <1>2, <2>1, OthersBacked DEF coordinatorVars, CoordinatorInv
  <2>4. \A v \in Servers : SweepBacked(v)'
    BY <1>2, <2>1, SweepsBacked DEF coordinatorVars, CoordinatorInv
  <2> QED  BY <1>2, <2>1, <2>2, <2>3, <2>4 DEF coordinatorVars, CoordinatorInv
<1> QED  BY <1>1, <1>2, AcceptKeeps, SweepKeeps, ServerCrashKeeps DEF CoordinatorNext

\* The inductive invariant.
LEMMA CoordinatorInvariant == CoordinatorSpec => []CoordinatorInv
  BY InitIsBacked, StepIsBacked, PTL DEF CoordinatorSpec

\* No launch reaches the backend before its intent and its audit event are
\* written, for this very request.
THEOREM IntentIsFirst == CoordinatorSpec => [](CoordinatorTypes /\ IntentComesFirst)
<1>1. CoordinatorInv => CoordinatorTypes /\ IntentComesFirst
  BY DEF CoordinatorInv
<1> QED  BY <1>1, CoordinatorInvariant, PTL

\* A binding names a run that the backend started for the key and the request.
THEOREM BindingIsRight == CoordinatorSpec => []BindingIsTheRun
<1>1. CoordinatorInv => BindingIsTheRun
  <2> SUFFICES ASSUME CoordinatorInv, NEW k \in Keys, intent[k].run # NoRun
               PROVE  /\ intent[k].status = "bound" /\ intent[k].run \in RunOf(k)
                      /\ Request[intent[k].run] = intent[k].request
    BY DEF BindingIsTheRun
  <2>1. intent[k].status = "bound" /\ intent[k].run \in RunOf(k)
    BY DEF CoordinatorInv, IntentIsWhole
  <2>2. intent[k].run \in sent /\ Key[intent[k].run] = k
    BY <2>1 DEF RunOf, CoordinatorInv
  <2> QED  BY <2>1, <2>2 DEF CoordinatorInv, IntentComesFirst
<1> QED  BY <1>1, CoordinatorInvariant, PTL

\* A binding is never changed again, by no failure, retry, sweep or crash.
THEOREM BindingIsKept == CoordinatorSpec => BindingLasts
<1>1. CoordinatorInv /\ [CoordinatorNext]_coordinatorVars
        => [\A k \in Keys : intent[k].run # NoRun => intent'[k] = intent[k]]_coordinatorVars
  BY StepIsBacked DEF Monotone, Forward
<1> QED  BY <1>1, CoordinatorInvariant, PTL DEF CoordinatorSpec, BindingLasts

-----------------------------------------------------------------------------
(* A launch whose outcome is open is not retried.                          *)

\* A call that came after the dispatch: it has sent nothing, and what it saw of
\* the intent keeps it from sending anything later.
Barred(c) ==
    /\ c \notin sent /\ intent[Key[c]].status \in Dispatched
    /\ launch[c].at \in {"idle", "authorized", "find", "recover", "done", "dead"}
    /\ launch[c].at \in {"idle", "authorized", "find"} => ~launch[c].created
    /\ launch[c].at = "find" => launch[c].seen # "reserved"

\* A barred call stays barred when the call itself does not move.
LEMMA OthersBarred ==
  ASSUME NEW c \in Calls, Monotone, Barred(c), launch'[c] = launch[c] \/ launch'[c].at \in {"done", "dead"},
         c \in sent' => c \in sent
  PROVE  Barred(c)'
<1>1. Key[c] \in Keys
  OBVIOUS
<1> QED  BY <1>1 DEF Barred, Monotone, Forward

\* Every step of a barred call leaves it barred.
LEMMA CallBarred ==
  ASSUME CoordinatorInv, NEW c \in Calls, LaunchStep(c), Barred(c)
  PROVE  Barred(c)'
<1>1. /\ CoordinatorTypes /\ Monotone /\ Key[c] \in Keys
      /\ launch \in [Calls -> LaunchCall] /\ launch[c] \in LaunchCall
  BY StepIsBacked DEF CoordinatorInv, CoordinatorTypes, CoordinatorNext
<1>2. intent'[Key[c]].status \in Dispatched
  BY <1>1 DEF Monotone, Forward, Barred
<1>3. \/ Authorize(c) \/ Reserve(c) \/ Find(c) \/ Recover(c)
  BY DEF LaunchStep, Barred, Revalidate, Dispatching, Launch, Fail, BindRun, Failed, Answer, LaunchAt
<1>4. UNCHANGED sent
  BY <1>3 DEF Authorize, Reserve, Find, Recover
<1>5. CASE LaunchGoto(c, "done")
  BY <1>1, <1>2, <1>4, <1>5, LaunchMoves DEF Barred, Phases
<1>6. CASE Authorize(c)
  <2>1. CASE LaunchGoto(c, "authorized")
    BY <1>1, <1>2, <1>4, <1>6, <2>1, LaunchMoves DEF Authorize, LaunchAt, Barred, Phases
  <2> QED  BY <1>5, <1>6, <2>1 DEF Authorize
<1>7. CASE Reserve(c)
  <2>1. CASE launch' = [launch EXCEPT ![c].at = "find", ![c].seen = intent[Key[c]].status]
    <3>1. /\ launch'[c].at = "find" /\ launch'[c].seen = intent[Key[c]].status
          /\ launch'[c].created = launch[c].created
      BY <1>1, <2>1 DEF LaunchCall
    <3> QED  BY <1>2, <1>4, <1>7, <3>1 DEF Barred, Reserve, LaunchAt, Dispatched
  <2>2. intent[Key[c]].status # "none"
    BY DEF Barred, Dispatched
  <2> QED  BY <1>5, <1>7, <2>1, <2>2, Zenon DEF Reserve
<1>8. CASE Find(c)
  <2>1. ~(launch[c].created \/ launch[c].seen = "reserved")
    BY <1>8 DEF Find, LaunchAt, Barred
  <2>2. ASSUME NEW r \in RunOf(Key[c]), GotoWith(c, "recover", r)
        PROVE  Barred(c)'
    <3>1. r \in Runs
      BY <1>1 DEF CoordinatorTypes, RunOf, Runs
    <3> QED  BY <1>1, <1>2, <1>4, <2>2, <3>1, TakesRun DEF Barred, Phases
  <2> QED  BY <1>5, <1>8, <2>1, <2>2, Zenon DEF Find, GotoWith
<1>9. CASE Recover(c)
  BY <1>5, <1>9 DEF Recover
<1> QED  BY <1>3, <1>6, <1>7, <1>8, <1>9

\* Every step of the system leaves it barred.
LEMMA StepBarred ==
  ASSUME CoordinatorInv, [CoordinatorNext]_coordinatorVars, NEW c \in Calls, Barred(c)
  PROVE  Barred(c)'
<1>1. CoordinatorTypes /\ Monotone
  BY StepIsBacked DEF CoordinatorInv
<1>2. CASE LaunchStep(c)
  BY <1>2, CallBarred
<1>3. ASSUME NEW d \in Calls \ {c}, LaunchStep(d)
      PROVE  launch'[c] = launch[c] /\ (c \in sent' => c \in sent)
  <2>1. launch \in [Calls -> LaunchCall]
    BY <1>1 DEF CoordinatorTypes
  <2> QED  BY <1>3, <2>1 DEF LaunchStep, Authorize, Reserve, Find, Recover, Revalidate, Dispatching,
              Launch, Fail, BindRun, Failed, Answer, LaunchGoto
<1>4. CASE \/ \E d \in Calls : Accept(d)
           \/ \E v \in Servers : \/ Reconcile(v) \/ SweepBinds(v) \/ SweepDenied(v) \/ SweepThrows(v)
                                \/ \E k \in Keys : Found(v, k) \/ NotFound(v, k)
           \/ UNCHANGED coordinatorVars
  <2>1. UNCHANGED <<launch, sent>>
    BY <1>4 DEF Accept, Reconcile, SweepBinds, SweepDenied, SweepThrows, Found, NotFound, coordinatorVars
  <2> QED  BY <1>1, <2>1, OthersBarred
<1>5. ASSUME NEW v \in Servers, ServerCrash(v)
      PROVE  Barred(c)'
  <2>1. UNCHANGED sent /\ (launch'[c] = launch[c] \/ launch'[c].at = "dead")
    BY <1>5 DEF ServerCrash, FreshLaunch
  <2> QED  BY <1>1, <2>1, OthersBarred
<1> QED  BY <1>1, <1>2, <1>3, <1>4, <1>5, OthersBarred DEF CoordinatorNext

\* Who comes late is barred.
LateAreBarred == \A c \in Calls : c \in late => Barred(c)

\* Every step keeps them so.
LEMMA StepLate ==
  ASSUME CoordinatorInv, LateAreBarred, [CoordinatorNext]_coordinatorVars
  PROVE  LateAreBarred'
<1> SUFFICES ASSUME NEW c \in Calls, c \in late'
             PROVE  Barred(c)'
  BY DEF LateAreBarred
<1>1. CASE c \in late
  BY <1>1, StepBarred DEF LateAreBarred
<1>2. CASE c \notin late
  <2>1. Reserve(c) /\ intent[Key[c]].status \in Dispatched
    <3>1. ~UNCHANGED late
      BY <1>2
    <3>2. PICK d \in Calls : Reserve(d)
      BY <3>1 DEF CoordinatorNext, coordinatorVars, LaunchStep, Authorize, Find, Recover, Revalidate,
         Dispatching, Launch, Accept, Fail, BindRun, Failed, Answer, Reconcile, SweepBinds, SweepDenied,
         SweepThrows, Found, NotFound, ServerCrash
    <3>3. late' = IF intent[Key[d]].status \in Dispatched THEN late \cup {d} ELSE late
      BY <3>2 DEF Reserve
    <3> QED  BY <1>2, <3>2, <3>3
  <2>2. Barred(c)
    BY <2>1 DEF CoordinatorInv, Backed, Barred, Reserve, LaunchAt
  <2> QED  BY <2>2, StepBarred
<1> QED  BY <1>1, <1>2

\* A call that comes to a launch that was dispatched starts nothing, ever.
THEOREM UnresolvedIsNotRetriedEver == CoordinatorSpec => []UnresolvedIsNotRetried
<1>1. CoordinatorInit => LateAreBarred
  BY DEF CoordinatorInit, LateAreBarred
<1>2. LateAreBarred /\ CoordinatorInv => UnresolvedIsNotRetried
  BY DEF LateAreBarred, Barred, UnresolvedIsNotRetried, CoordinatorInv, CoordinatorTypes
<1> QED  BY <1>1, <1>2, StepLate, CoordinatorInvariant, PTL DEF CoordinatorSpec

-----------------------------------------------------------------------------
(* A run that was accepted can be bound.                                   *)

\* The backend has one run for a key.
OneRun == \A r, s \in runs : Key[r] = Key[s] => r = s

\* It keeps to the contract of launch.
LEMMA OneRunAlways == CoordinatorSpec => []OneRun
<1>1. CoordinatorInit => OneRun
  BY DEF CoordinatorInit, Adapter!Init, OneRun
<1>2. OneRun /\ [CoordinatorNext]_coordinatorVars => OneRun'
  <2> SUFFICES ASSUME OneRun, [CoordinatorNext]_coordinatorVars
               PROVE  OneRun'
    OBVIOUS
  <2>1. ASSUME NEW c \in Calls, Accept(c)
        PROVE  OneRun'
    BY <2>1 DEF Accept, Adapter!Start, OneRun
  <2>2. CASE UNCHANGED runs
    BY <2>2 DEF OneRun
  <2> QED
    BY <2>1, <2>2 DEF CoordinatorNext, coordinatorVars, LaunchStep, Authorize, Reserve, Find, Recover,
       Revalidate, Dispatching, Launch, Fail, BindRun, Failed, Answer, Adapter!Return, Reconcile,
       SweepBinds, SweepDenied, SweepThrows, Found, NotFound, ServerCrash
<1> QED  BY <1>1, <1>2, PTL DEF CoordinatorSpec

\* updateLaunch binds a run that the backend accepted whenever it is asked to.
THEOREM AcceptedIsNeverRefused == CoordinatorSpec => []AcceptedCanBeBound
<1>1. CoordinatorInv /\ OneRun => AcceptedCanBeBound
  <2> SUFFICES ASSUME CoordinatorInv, OneRun, NEW k \in Keys, NEW r \in RunOf(k)
               PROVE  Allowed(k, "bound", r)
    BY DEF AcceptedCanBeBound
  <2>1. r \in runs /\ r \in sent /\ Key[r] = k
    BY DEF RunOf, CoordinatorInv
  <2>2. intent[k].status \in Dispatched
    BY <2>1 DEF CoordinatorInv, IntentComesFirst
  <2>3. intent[k].status = "bound" => intent[k].run = r
    BY <2>1 DEF CoordinatorInv, IntentIsWhole, RunOf, OneRun
  <2> QED  BY <2>2, <2>3 DEF Allowed, Dispatched, Transitions
<1> QED  BY <1>1, OneRunAlways, CoordinatorInvariant, PTL
=============================================================================
