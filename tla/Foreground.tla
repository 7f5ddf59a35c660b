----------------------------- MODULE Foreground -----------------------------
(***************************************************************************)
(* Foreground commands and signals.  A pipeline runs its rounds one after  *)
(* the other: a concurrent group, whose children are admitted one by one   *)
(* and then drained by a poll loop next to one waiter each and a signal    *)
(* listener, a single step, or a step that is handed the terminal.  The    *)
(* terminal sends Ctrl-C to wt and to every child there is; TERM comes to  *)
(* wt alone.  One thread, the process owner, handles signals, creates      *)
(* children and retires execution leases; without a lease signals kill wt. *)
(* Another scope of the same operation may run in parallel (wt step prune).*)
(*                                                                         *)
(* src/src/output/concurrent.rs            run_concurrent_commands         *)
(* src/src/signal_forwarder.rs             ForegroundSignals, Lease        *)
(* src/src/shell_exec/process_owner.rs     the owner                       *)
(***************************************************************************)
EXTENDS Naturals, Sequences

CONSTANTS
    Children,
    First,      \* the child of a round that has only one
    None,       \* no child, no signal
    Pipelines,  \* the rounds, as sequences of modes
    MaxSignals  \* bound on the signals sent to wt

Modes == {"group", "step", "handoff"}
Signals == {"INT", "TERM"}

ASSUME ForegroundAssumption ==
    /\ First \in Children
    /\ None \notin Children \cup Signals
    /\ Pipelines \subseteq Seq(Modes)
    /\ \A p \in Pipelines : p # <<>>
    /\ MaxSignals \in Nat

VARIABLES
    pipeline, round, pc, result,
    signals,     \* how many were sent
    pending,     \* sent to wt and not yet handled by the owner
    caught,      \* history: those of pending that were sent under a lease
    fatal,       \* history: a signal sent under a lease killed wt
    handling,    \* the signal whose handler has latched its flag and not yet told the listener
    queue,       \* what the listener has to read
    listener,    \* "off", "on", or "term" while it passes TERM on
    signal,      \* the operation's latch, shared by its scopes
    terminated, interrupted, \* the flags the handler sets, shared likewise
    ownkey,      \* a handed-off step's own flag for Ctrl-C
    lease,       \* this round counts as active
    others,      \* the parallel scope: "running", "waking" those it cancelled, or "over"
    collected,   \* it found this round among the scopes
    installed,   \* this round's handlers are registered
    wakeSet,     \* this round's scope can be woken
    late, hit,   \* history: cancelled before this round; signalled during it
    todo, spawning, refused, \* admission
    child,       \* "unborn", as also one that failed to start, "running", "exited" or "killed" by INT or TERM
    heard,       \* running children that got a signal
    held,        \* pipes whose write end a descendant keeps
    queued,      \* pipes with output of the child in them
    open,        \* pipes the loop still reads
    waiter, sent, outcomes, \* the waiters, their channel, what the loop took from it
    byte         \* the wake socket is readable

place == <<pipeline, round, pc, result>>
sending == <<signals, pending, caught, fatal, handling>>
latches == <<signal, terminated, interrupted, ownkey>>
scope == <<lease, others, collected, installed, wakeSet, late, hit>>
admission == <<todo, spawning, refused>>
children == <<child, heard, held, queued>>
drain == <<open, waiter, sent, outcomes>>
vars == <<place, sending, queue, listener, latches, scope, admission, children, drain, byte>>

Mode == pipeline[round]
Cancels == Mode # "handoff"
Spawned == {c \in Children : child[c] \in {"running", "exited", "killed"}}
Running == {c \in Children : child[c] = "running"}
Exited(c) == child[c] \in {"exited", "killed"}
Idle == ~lease /\ others = "over"

\* The owner has no signal to handle first.
OwnerFree == pending = {} /\ handling = None

\* Admission::interrupt_signal, and ActiveForwarder::interrupt_signal.
Refuses == terminated \/ signal \/ (IF Cancels THEN interrupted ELSE ownkey)
Seen == terminated \/ signal \/ (Cancels /\ interrupted)

Start(p, r) ==
    /\ pipeline' = p /\ round' = r /\ pc' = "install" /\ result' = "none"
    /\ queue' = {} /\ listener' = "off" /\ ownkey' = FALSE
    /\ installed' = FALSE /\ wakeSet' = FALSE /\ late' = FALSE /\ hit' = FALSE /\ collected' = FALSE
    /\ todo' = {} /\ spawning' = None /\ refused' = FALSE
    /\ child' = [c \in Children |-> "unborn"] /\ heard' = {} /\ held' = {}
    /\ queued' = {}
    /\ open' = {} /\ waiter' = [c \in Children |-> "off"] /\ sent' = {} /\ outcomes' = {}
    /\ byte' = FALSE

Init ==
    /\ pipeline \in Pipelines /\ round = 1 /\ pc = "install" /\ result = "none"
    /\ signals = 0 /\ pending = {} /\ caught = {} /\ fatal = FALSE /\ handling = None
    /\ queue = {} /\ listener = "off"
    /\ signal = FALSE /\ terminated = FALSE /\ interrupted = FALSE /\ ownkey = FALSE
    /\ lease = FALSE /\ others \in {"running", "over"} /\ collected = FALSE
    /\ installed = FALSE /\ wakeSet = FALSE /\ late = FALSE /\ hit = FALSE
    /\ todo = {} /\ spawning = None /\ refused = FALSE
    /\ child = [c \in Children |-> "unborn"] /\ heard = {} /\ held = {}
    /\ queued = {}
    /\ open = {} /\ waiter = [c \in Children |-> "off"] /\ sent = {} /\ outcomes = {}
    /\ byte = FALSE

-----------------------------------------------------------------------------
(* Signals *)

Send(s) ==
    /\ signals < MaxSignals /\ pc \notin {"over", "dead"}
    /\ signals' = signals + 1
    /\ pending' = pending \cup {s}
    /\ caught' = IF Idle THEN caught ELSE caught \cup {s}
    /\ UNCHANGED <<place, fatal, handling, queue, listener, latches, scope, admission, held, child, queued,
                   drain, byte>>

\* Ctrl-C reaches the whole foreground job.
Key == Send("INT") /\ heard' = heard \cup Running

Terminate == Send("TERM") /\ UNCHANGED heard

\* The handlers run in the order of their registration: the default action if wt is idle, the flags,
\* and then the byte that tells the listener (Notify).
Handle(s) ==
    /\ handling = None /\ s \in pending
    /\ pending' = pending \ {s} /\ caught' = caught \ {s}
    /\ IF Idle
       THEN /\ pc' = "dead" /\ fatal' = (s \in caught)
            /\ UNCHANGED <<handling, terminated, interrupted, ownkey, hit>>
       ELSE /\ handling' = s
            /\ terminated' = (terminated \/ s = "TERM")
            /\ interrupted' = (interrupted \/ (s = "INT" /\ (others = "running" \/ (installed /\ Cancels))))
            /\ ownkey' = (ownkey \/ (s = "INT" /\ installed /\ ~Cancels))
            /\ hit' = (hit \/ (installed /\ (s = "TERM" \/ Cancels)))
            /\ UNCHANGED <<pc, fatal>>
    /\ UNCHANGED <<pipeline, round, result, signals, queue, listener, signal, lease, others, collected,
                   installed, wakeSet, late, admission, children, drain, byte>>

Notify ==
    /\ handling # None
    /\ handling' = None
    /\ queue' = IF installed /\ pc \notin {"retire", "result"} THEN queue \cup {handling} ELSE queue
    /\ UNCHANGED <<place, signals, pending, caught, fatal, listener, latches, scope, admission, children,
                   drain, byte>>

\* Terminal INT stays with the children; the loop is woken to look at the flag.
ListenInt ==
    /\ listener = "on" /\ "INT" \in queue
    /\ queue' = queue \ {"INT"} /\ byte' = TRUE
    /\ UNCHANGED <<place, sending, listener, latches, scope, admission, children, drain>>

ListenTerm ==
    /\ listener = "on" /\ "TERM" \in queue
    /\ queue' = queue \ {"TERM"} /\ signal' = TRUE /\ listener' = "term"
    /\ UNCHANGED <<place, sending, terminated, interrupted, ownkey, scope, admission, children, drain, byte>>

ListenForward ==
    /\ listener = "term"
    /\ listener' = "on" /\ heard' = heard \cup Running /\ byte' = TRUE
    /\ UNCHANGED <<place, sending, queue, latches, scope, admission, child, held, queued, drain>>

\* The other scope: it ends, or a child of its was interrupted (cancel_foreground).
OthersEnd ==
    /\ others = "running" /\ OwnerFree
    /\ others' = "over"
    /\ UNCHANGED <<place, sending, queue, listener, latches, lease, collected, installed, wakeSet, late, hit,
                   admission, children, drain, byte>>

OthersCancel ==
    /\ others = "running"
    /\ others' = "waking" /\ signal' = TRUE /\ collected' = installed
    /\ UNCHANGED <<place, sending, queue, listener, terminated, interrupted, ownkey, lease, installed,
                   wakeSet, late, hit, admission, children, drain, byte>>

OthersWake ==
    /\ others = "waking" /\ OwnerFree
    /\ others' = "over" /\ byte' = (byte \/ (collected /\ wakeSet))
    /\ UNCHANGED <<place, sending, queue, listener, latches, lease, collected, installed, wakeSet, late, hit,
                   admission, children, drain>>

-----------------------------------------------------------------------------
(* Children *)

\* A child exits, by itself or by the signal, and a descendant may keep its pipe.
ChildExits(c) ==
    /\ child[c] = "running"
    /\ \E how \in {"exited", "killed"} : child' = [child EXCEPT ![c] = how]
    /\ heard' = heard \ {c}
    /\ held' \in {held} \cup {held \cup {x \in {c} : Mode = "group" /\ (c \in open \/ ~wakeSet)}}
    /\ UNCHANGED <<place, sending, queue, listener, latches, scope, admission, queued, drain, byte>>

Write(c) ==
    /\ child[c] = "running" /\ Mode = "group" /\ (c \in open \/ ~wakeSet)
    /\ c \notin queued /\ queued' = queued \cup {c}
    /\ UNCHANGED <<place, sending, queue, listener, latches, scope, admission, child, heard, held, drain, byte>>

DescendantEnds(c) ==
    /\ c \in held
    /\ held' = held \ {c}
    /\ UNCHANGED <<place, sending, queue, listener, latches, scope, admission, child, heard, queued, drain, byte>>

-----------------------------------------------------------------------------
(* Admission *)

\* Wrong: the scope starts with a latch and flags of its own.
InstallApart ==
    /\ pc = "install"
    /\ pc' = "admit"
    /\ lease' = TRUE /\ installed' = TRUE /\ late' = Refuses
    /\ signal' = FALSE /\ terminated' = FALSE /\ interrupted' = FALSE
    /\ todo' = IF Mode = "group" THEN Children ELSE {First}
    /\ UNCHANGED <<pipeline, round, result, sending, queue, listener, ownkey, others, collected, wakeSet, hit,
                   spawning, refused, children, drain, byte>>

\* ForegroundSignals::install: the scope shares the operation's latch and flags.
Install ==
    /\ pc = "install"
    /\ pc' = "admit"
    /\ lease' = TRUE /\ installed' = TRUE /\ late' = Refuses
    /\ todo' = IF Mode = "group" THEN Children ELSE {First}
    /\ UNCHANGED <<pipeline, round, result, sending, queue, listener, latches, others, collected, wakeSet, hit,
                   spawning, refused, children, drain, byte>>

\* Admitted children are drained as usual; a single step has none.
Refuse ==
    /\ signal' = TRUE /\ refused' = TRUE /\ todo' = {} /\ spawning' = None
    /\ pc' = IF Mode = "group" THEN "setup" ELSE "retire"

\* Admission::spawn: the first check.
Admit ==
    /\ pc = "admit"
    /\ IF todo = {}
       THEN /\ pc' = IF Mode = "group" THEN "setup" ELSE IF Spawned = {} THEN "retire" ELSE "forward"
            /\ UNCHANGED <<signal, admission>>
       ELSE \/ Refuses /\ Refuse
            \/ /\ ~Refuses /\ pc' = "fork"
               /\ LET c == IF First \in todo THEN First ELSE CHOOSE d \in todo : TRUE
                  IN  spawning' = c /\ todo' = todo \ {c}
               /\ UNCHANGED <<signal, refused>>
    /\ UNCHANGED <<pipeline, round, result, sending, queue, listener, terminated, interrupted, ownkey, scope,
                   children, drain, byte>>

Fork ==
    /\ pc = "fork" /\ OwnerFree
    /\ pc' = "recheck"
    /\ \E how \in {"running", "unborn"} : child' = [child EXCEPT ![spawning] = how]
    /\ UNCHANGED <<pipeline, round, result, sending, queue, listener, latches, scope, admission, heard, held,
                   queued, drain, byte>>

\* Wrong: the check before the fork is enough.
RecheckSkipped ==
    /\ pc = "recheck"
    /\ spawning' = None /\ pc' = "admit"
    /\ UNCHANGED <<pipeline, round, result, sending, queue, listener, latches, scope, todo, refused, children,
                   drain, byte>>

\* The second check: a child that may have missed the key is retired with TERM.
Recheck ==
    /\ pc = "recheck" /\ handling = None
    /\ IF Refuses /\ child[spawning] = "unborn"
       THEN Refuse /\ UNCHANGED heard
       ELSE /\ signal' = (signal \/ Refuses)
            /\ heard' = IF Refuses THEN heard \cup {spawning} ELSE heard
            /\ spawning' = None /\ pc' = "admit"
            /\ UNCHANGED <<todo, refused>>
    /\ UNCHANGED <<pipeline, round, result, sending, queue, listener, terminated, interrupted, ownkey, scope,
                   child, held, queued, drain, byte>>

-----------------------------------------------------------------------------
(* drain_children, and wait for a single child *)

Setup ==
    /\ pc = "setup"
    /\ pc' = "forward" /\ open' = Spawned
    /\ UNCHANGED <<pipeline, round, result, sending, queue, listener, latches, scope, admission, children,
                   waiter, sent, outcomes, byte>>

KillAll ==
    /\ child' = [c \in Children |-> IF child[c] = "running" THEN "killed" ELSE child[c]]
    /\ heard' = {}

\* The sockets or pipes could not be prepared: every child is killed and waited for.
SetupFails ==
    /\ pc = "setup"
    /\ pc' = "retire" /\ result' = "error"
    /\ KillAll /\ held' = {} /\ queued' = {}
    /\ UNCHANGED <<pipeline, round, sending, queue, listener, latches, scope, admission, drain, byte>>

\* forward_to_children: the scope can be woken from here on ...
Forward ==
    /\ pc = "forward"
    /\ pc' = "latewake" /\ wakeSet' = TRUE
    /\ UNCHANGED <<pipeline, round, result, sending, queue, listener, latches, lease, others, collected,
                   installed, late, hit, admission, children, drain, byte>>

\* ... and is, if it was cancelled before.  The listener and the waiters start.
LateWake ==
    /\ pc = "latewake"
    /\ pc' = IF Mode = "group" THEN "read" ELSE "wait"
    /\ byte' = (byte \/ signal) /\ listener' = "on"
    /\ waiter' = [c \in Children |-> IF Mode = "group" /\ c \in Spawned THEN "waiting" ELSE "off"]
    /\ UNCHANGED <<pipeline, round, result, sending, queue, latches, scope, admission, children, open, sent,
                   outcomes>>

\* wait_foreground_child, without a loop.
WaitChild ==
    /\ pc = "wait" /\ \A c \in Spawned : Exited(c)
    /\ pc' = "stop" /\ signal' = (signal \/ \E c \in Spawned : child[c] = "killed")
    /\ UNCHANGED <<pipeline, round, result, sending, queue, listener, terminated, interrupted, ownkey, scope,
                   admission, children, drain, byte>>

\* A waiter: an exit by INT or TERM cancels the foreground; the outcome is sent, then the loop woken.
Reap(c) ==
    /\ waiter[c] = "waiting" /\ Exited(c)
    /\ waiter' = [waiter EXCEPT ![c] = "wake"] /\ sent' = sent \cup {c}
    /\ signal' = (signal \/ child[c] = "killed") /\ byte' = (byte \/ child[c] = "killed")
    /\ UNCHANGED <<place, sending, queue, listener, terminated, interrupted, ownkey, scope, admission,
                   children, open, outcomes>>

\* Wrong: the outcome is sent and the loop left asleep.
WakeNobody(c) ==
    /\ waiter[c] = "wake"
    /\ waiter' = [waiter EXCEPT ![c] = "done"]
    /\ UNCHANGED <<place, sending, queue, listener, latches, scope, admission, children, open, sent, outcomes,
                   byte>>

Wake(c) ==
    /\ waiter[c] = "wake"
    /\ waiter' = [waiter EXCEPT ![c] = "done"] /\ byte' = TRUE
    /\ UNCHANGED <<place, sending, queue, listener, latches, scope, admission, children, open, sent, outcomes>>

\* The loop: the wake byte is consumed before the channel is read.
ReadByte ==
    /\ pc = "read"
    /\ pc' = "take" /\ byte' = FALSE
    /\ UNCHANGED <<pipeline, round, result, sending, queue, listener, latches, scope, admission, children, drain>>

TakeOutcomes ==
    /\ pc = "take"
    /\ outcomes' = outcomes \cup sent /\ sent' = {}
    /\ pc' = IF outcomes \cup sent = Spawned THEN "release" ELSE "poll"
    /\ UNCHANGED <<pipeline, round, result, sending, queue, listener, latches, scope, admission, children,
                   open, waiter, byte>>

\* Wrong: the lease is dropped where the loop runs.
ReleaseAtOnce ==
    /\ pc = "release"
    /\ pc' = "check" /\ lease' = FALSE
    /\ UNCHANGED <<pipeline, round, result, sending, queue, listener, latches, others, collected, installed,
                   wakeSet, late, hit, admission, children, drain, byte>>

\* finish_children: the lease is retired on the owner, after what it has to handle.
Release ==
    /\ pc = "release" /\ OwnerFree
    /\ pc' = "check" /\ lease' = FALSE
    /\ UNCHANGED <<pipeline, round, result, sending, queue, listener, latches, others, collected, installed,
                   wakeSet, late, hit, admission, children, drain, byte>>

\* Wrong: the pipes are closed with what is in them.
CheckDiscarding ==
    /\ pc = "check"
    /\ IF Seen THEN open' = {} /\ held' = {} ELSE UNCHANGED <<open, held>>
    /\ signal' = (signal \/ (Seen /\ ~terminated))
    /\ pc' = IF open' = {} THEN "join" ELSE "poll"
    /\ UNCHANGED <<pipeline, round, result, sending, queue, listener, terminated, interrupted, ownkey, scope,
                   admission, child, heard, queued, waiter, sent, outcomes, byte>>

\* Cancelled: what is queued is shown and the pipes are let go.  Otherwise they are read to their ends.
Check ==
    /\ pc = "check"
    /\ IF Seen THEN open' = {} /\ queued' = queued \ open /\ held' = {}
       ELSE UNCHANGED <<open, queued, held>>
    /\ signal' = (signal \/ (Seen /\ ~terminated))
    /\ pc' = IF open' = {} THEN "join" ELSE "poll"
    /\ UNCHANGED <<pipeline, round, result, sending, queue, listener, terminated, interrupted, ownkey, scope,
                   admission, child, heard, waiter, sent, outcomes, byte>>

AtEnd(c) == child[c] # "running" /\ c \notin held

\* poll, and one chunk from every pipe that is ready.
Poll ==
    /\ pc = "poll"
    /\ byte \/ \E c \in open : c \in queued \/ AtEnd(c)
    /\ pc' = "read"
    /\ open' = {c \in open : c \in queued \/ ~AtEnd(c)}
    /\ queued' = queued \ open
    /\ UNCHANGED <<pipeline, round, result, sending, queue, listener, latches, scope, admission, child, heard,
                   held, waiter, sent, outcomes, byte>>

\* An I/O error: the pipes are closed, the children killed, and the waiters reap them.
LoopFails ==
    /\ pc \in {"read", "poll"}
    /\ pc' = "join" /\ result' = "error" /\ open' = {}
    /\ KillAll /\ held' = {} /\ queued' = {}
    /\ UNCHANGED <<pipeline, round, sending, queue, listener, latches, scope, admission, waiter, sent,
                   outcomes, byte>>

Join ==
    /\ pc = "join" /\ \A c \in Spawned : waiter[c] = "done"
    /\ pc' = "stop"
    /\ UNCHANGED <<pipeline, round, result, sending, queue, listener, latches, scope, admission, children,
                   drain, byte>>

\* ActiveForwarder::stop: the listener is joined, the lease retired, and then the flags are read.
Stop ==
    /\ pc = "stop" /\ listener = "on"
    /\ pc' = "retire" /\ listener' = "off" /\ queue' = {}
    /\ UNCHANGED <<pipeline, round, result, sending, latches, scope, admission, children, drain, byte>>

Retire ==
    /\ pc = "retire" /\ (lease => OwnerFree)
    /\ pc' = "result" /\ lease' = FALSE
    /\ UNCHANGED <<pipeline, round, result, sending, queue, listener, latches, others, collected, installed,
                   wakeSet, late, hit, admission, children, drain, byte>>

\* Wrong: the status of the children decides.
ResultOfChildren ==
    /\ pc = "result"
    /\ pc' = "next" /\ installed' = FALSE
    /\ \/ result = "error" /\ UNCHANGED result
       \/ result = "none" /\ (refused \/ \E c \in Children : child[c] = "killed") /\ result' = "interrupted"
       \/ result = "none" /\ ~refused /\ result' \in {"ok", "error"}
    /\ UNCHANGED <<pipeline, round, sending, queue, listener, latches, lease, others, collected, wakeSet, late,
                   hit, admission, children, drain, byte>>

Result ==
    /\ pc = "result"
    /\ pc' = "next" /\ installed' = FALSE
    /\ signal' = (signal \/ (Seen /\ ~terminated))
    /\ \/ result = "error" /\ UNCHANGED result
       \/ result = "none" /\ (Seen \/ refused) /\ result' = "interrupted"
       \/ result = "none" /\ ~Seen /\ ~refused /\ result' \in {"ok", "error"}
    /\ UNCHANGED <<pipeline, round, sending, queue, listener, terminated, interrupted, ownkey, lease, others,
                   collected, wakeSet, late, hit, admission, children, drain, byte>>

\* execute_pipeline_foreground: the next round, or the end, where main looks at the operation once more.
NextRound ==
    /\ pc = "next" /\ result = "ok" /\ round < Len(pipeline)
    /\ Start(pipeline, round + 1)
    /\ UNCHANGED <<sending, signal, terminated, interrupted, lease, others>>

End ==
    /\ pc = "next" /\ (result = "ok" => round = Len(pipeline))
    /\ pc' = "over"
    /\ result' = IF result = "ok" /\ (terminated \/ signal \/ interrupted) THEN "interrupted" ELSE result
    /\ UNCHANGED <<pipeline, round, sending, queue, listener, latches, scope, admission, children, drain, byte>>

MainStep ==
    \/ Install \/ Admit \/ Fork \/ Recheck \/ Setup \/ Forward \/ LateWake \/ WaitChild
    \/ ReadByte \/ TakeOutcomes \/ Release \/ Check \/ Poll
    \/ Join \/ Stop \/ Retire \/ Result \/ NextRound \/ End

HandlerStep == Notify \/ \E s \in Signals : Handle(s)
ListenerStep == ListenInt \/ ListenTerm \/ ListenForward
WaiterStep(c) == Reap(c) \/ Wake(c)

Next ==
    /\ pc # "dead"
    /\ \/ MainStep \/ SetupFails \/ LoopFails
       \/ HandlerStep \/ ListenerStep \/ OthersEnd \/ OthersCancel \/ OthersWake
       \/ Key \/ Terminate
       \/ \E c \in Children : WaiterStep(c) \/ ChildExits(c) \/ Write(c) \/ DescendantEnds(c)

\* Every thread of wt that can go on does, and handlers run; children owe nothing.
Fairness ==
    /\ WF_vars(pc # "dead" /\ MainStep) /\ WF_vars(pc # "dead" /\ HandlerStep)
    /\ WF_vars(pc # "dead" /\ ListenerStep) /\ WF_vars(pc # "dead" /\ OthersWake)
    /\ \A c \in Children : WF_vars(pc # "dead" /\ WaiterStep(c))

Spec == Init /\ [][Next]_vars /\ Fairness

-----------------------------------------------------------------------------
(* Properties *)

\* The state space (not listed as a property of a run).
TypeOK ==
    /\ pipeline \in Pipelines /\ round \in 1..Len(pipeline)
    /\ pc \in {"install", "admit", "fork", "recheck", "setup", "forward", "latewake", "wait", "read", "take",
               "release", "check", "poll", "join", "stop", "retire", "result", "next", "over", "dead"}
    /\ result \in {"none", "ok", "error", "interrupted"}
    /\ signals \in 0..MaxSignals /\ pending \subseteq Signals /\ caught \subseteq Signals /\ fatal \in BOOLEAN
    /\ handling \in Signals \cup {None} /\ queue \subseteq Signals /\ listener \in {"off", "on", "term"}
    /\ signal \in BOOLEAN /\ terminated \in BOOLEAN /\ interrupted \in BOOLEAN /\ ownkey \in BOOLEAN
    /\ lease \in BOOLEAN /\ others \in {"running", "waking", "over"} /\ collected \in BOOLEAN
    /\ installed \in BOOLEAN /\ wakeSet \in BOOLEAN /\ late \in BOOLEAN /\ hit \in BOOLEAN
    /\ todo \subseteq Children /\ spawning \in Children \cup {None} /\ refused \in BOOLEAN
    /\ child \in [Children -> {"unborn", "running", "exited", "killed"}]
    /\ heard \subseteq Children /\ held \subseteq Children /\ queued \subseteq Children
    /\ open \subseteq Children /\ waiter \in [Children -> {"off", "waiting", "wake", "done"}]
    /\ sent \subseteq Children /\ outcomes \subseteq Children /\ byte \in BOOLEAN

\* Once a Ctrl-C of this round is latched, every child that runs has heard of it, by the terminal or
\* by the TERM of its admission: none was created in between and left alone (Admission::spawn).
NoneUnaware ==
    (IF Cancels THEN interrupted ELSE ownkey) =>
        \A c \in Running : c \in heard \/ (pc = "recheck" /\ spawning = c)

\* What was cancelled in an earlier round, in a parallel scope or in the gap between two rounds
\* starts no child any more (CommandOperation shares its latch with new scopes).
NothingAfterCancel == late => Spawned = {}

\* A signal that came while children ran is never taken for one that came to an idle wt, however
\* late it is handled (Lease::drop runs on the owner).
CaughtIsNotFatal == ~fatal

\* No cancellation is missed: a round during which wt handled a signal ends as interrupted, unless
\* it failed on its own, even when the signal came after the last look at the flags in the loop.
CancelIsReported == hit /\ pc = "next" /\ result # "error" => result = "interrupted"

\* Whatever a child wrote is shown before its pipe is let go, also when the drain is cut short
\* because a descendant holds the pipe; only an I/O error gives output up.
OutputIsShown ==
    [][\A c \in Children : c \in open \ open' /\ result' # "error" => c \notin queued']_vars

\* No wake-up is lost: once every child has exited, the loop ends, if the pipes are at their ends
\* or the operation was cancelled, by whomever and whenever.
DrainEnds ==
    (pc \in {"read", "take", "poll", "release", "check"} /\ Running = {} /\ (held = {} \/ Seen))
        ~> pc \notin {"read", "take", "poll", "release", "check"}
=============================================================================
