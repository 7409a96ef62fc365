------------------------------- MODULE Server --------------------------------
(***************************************************************************)
(* The life of the server (server.Start), of the connections it accepts    *)
(* (Manager.Handle, HandleCluster) and of the goroutines between a handler *)
(* and raft (the proposer of RaftNode.serveChannels, handleClusterCommits),*)
(* from start to the graceful shutdown.  Commands are told apart only by   *)
(* how they wait; Cluster models what they do.                             *)
(***************************************************************************)
EXTENDS Integers, FiniteSets

CONSTANTS Conn,        \* the connections that clients make
          IsCluster,   \* cfg.IsCluster
          Kinds        \* the kinds of commands sent: "run", "block", "register", "rconf"

VARIABLES main,        \* where Start is
          acceptor,    \* the goroutine that accepts: "accept", "done" or the connection it hands over
          isTerminating, listening, cancelled,
          wg,          \* the counter of the WaitGroup
          h,           \* where the handler of each connection is
          broken,      \* connections whose reads fail with an error other than EOF
          closed,      \* the channels that are closed
          proposer,    \* the goroutine that sends proposals: "recv", "done" or the proposal it sends
          raftUp,      \* serveChannels is running
          entries,     \* proposals that raft has accepted
          commits,     \* handleClusterCommits: "recv", "done" or the proposal it executes
          found,       \* it has found the callback of that proposal
          panic        \* why the program ended early

vars == <<main, acceptor, isTerminating, listening, cancelled, wg, h, broken, closed,
          proposer, raftUp, entries, commits, found, panic>>
raftVars == <<proposer, raftUp, entries, commits, found>>
mainVars == <<main, isTerminating, listening, cancelled>>

Init ==
    /\ main = "loop" /\ acceptor = "accept"
    /\ isTerminating = FALSE /\ listening = TRUE /\ cancelled = FALSE
    /\ wg = 0
    /\ h = [c \in Conn |-> "away"]
    /\ broken = {} /\ closed = {}
    /\ proposer = (IF IsCluster THEN "recv" ELSE "done")
    /\ commits = (IF IsCluster THEN "recv" ELSE "done")
    /\ raftUp = IsCluster
    /\ entries = {} /\ found = FALSE
    /\ panic = "no"

At(c, label) == h[c] = label
Goto(c, label) == h' = [h EXCEPT ![c] = label]

-----------------------------------------------------------------------------
(* The accepting goroutine *)

\* isTerminating is read after Accept: a connection that arrives then is left.
Accept(c) ==
    /\ acceptor = "accept" /\ listening /\ At(c, "away")
    /\ IF isTerminating
       THEN /\ closed' = closed \cup {"clients"} /\ acceptor' = "done"
            /\ Goto(c, "gone")
       ELSE /\ acceptor' = c /\ Goto(c, "accepted")
            /\ UNCHANGED closed
    /\ UNCHANGED <<mainVars, wg, broken, raftVars, panic>>

AcceptFails ==
    /\ acceptor = "accept" /\ ~listening
    /\ acceptor' = "done"
    /\ closed' = IF isTerminating THEN closed \cup {"clients"} ELSE closed
    /\ UNCHANGED <<mainVars, wg, h, broken, raftVars, panic>>

-----------------------------------------------------------------------------
(* The event loop and the deferred calls of Start *)

\* clients <- conn meets the select; the handler starts before wg.Add.
StartHandler ==
    /\ main = "loop" /\ acceptor \in Conn
    /\ Goto(acceptor, "read")
    /\ acceptor' = "accept" /\ main' = "add"
    /\ UNCHANGED <<isTerminating, listening, cancelled, wg, broken, closed, raftVars, panic>>

\* Mutant: the WaitGroup is not told of the handler.
AddNothing ==
    /\ main = "add"
    /\ main' = "loop"
    /\ UNCHANGED <<wg, acceptor, isTerminating, listening, cancelled, h, broken, closed, raftVars, panic>>

Add ==
    /\ main = "add"
    /\ wg' = wg + 1 /\ main' = "loop"
    /\ UNCHANGED <<acceptor, isTerminating, listening, cancelled, h, broken, closed, raftVars, panic>>

Signal ==
    /\ main = "loop"
    /\ isTerminating' = TRUE
    /\ main' = (IF IsCluster THEN "closeConf" ELSE "closeListener")
    /\ UNCHANGED <<acceptor, listening, cancelled, wg, h, broken, closed, raftVars, panic>>

RaftError ==
    /\ main = "loop" /\ "errorC" \in closed
    /\ main' = "closeConf"
    /\ UNCHANGED <<acceptor, isTerminating, listening, cancelled, wg, h, broken, closed, raftVars, panic>>

\* Deferred calls run last in, first out: the channels to raft are closed
\* before the clients are told.
Close(at, channel, next) ==
    /\ main = at
    /\ closed' = closed \cup {channel} /\ main' = next
    /\ UNCHANGED <<acceptor, isTerminating, listening, cancelled, wg, h, broken, raftVars, panic>>

CloseConfChangeC == Close("closeConf", "confChangeC", "closePropose")
CloseProposeC == Close("closePropose", "proposeC", "closeListener")

CloseListener ==
    /\ main = "closeListener"
    /\ listening' = FALSE /\ main' = "cancel"
    /\ UNCHANGED <<acceptor, isTerminating, cancelled, wg, h, broken, closed, raftVars, panic>>

\* Mutant: the clients are not told.
CancelNobody ==
    /\ main = "cancel"
    /\ main' = "wait"
    /\ UNCHANGED <<cancelled, acceptor, isTerminating, listening, wg, h, broken, closed, raftVars, panic>>

Cancel ==
    /\ main = "cancel"
    /\ cancelled' = TRUE /\ main' = "wait"
    /\ UNCHANGED <<acceptor, isTerminating, listening, wg, h, broken, closed, raftVars, panic>>

Wait ==
    /\ main = "wait" /\ wg = 0
    /\ main' = "exit"
    /\ UNCHANGED <<acceptor, isTerminating, listening, cancelled, wg, h, broken, closed, raftVars, panic>>

MainStep ==
    \/ StartHandler \/ Add \/ RaftError \/ CloseConfChangeC \/ CloseProposeC
    \/ CloseListener \/ Cancel \/ Wait

-----------------------------------------------------------------------------
(* Handlers *)

\* The client sends a command and the parser hands it over.
Command(c) ==
    /\ At(c, "read") /\ c \notin broken
    /\ \E k \in Kinds : Goto(c, k)
    /\ UNCHANGED <<mainVars, acceptor, wg, broken, closed, raftVars, panic>>

\* ExecCommand and the reply.
Run(c) ==
    /\ At(c, "run")
    /\ Goto(c, "read")
    /\ UNCHANGED <<mainVars, acceptor, wg, broken, closed, raftVars, panic>>

\* BLPOP and BRPOP poll until there is a value; they do not look at the context.
Unblock(c) ==
    /\ At(c, "block")
    /\ Goto(c, "read")
    /\ UNCHANGED <<mainVars, acceptor, wg, broken, closed, raftVars, panic>>

\* io.EOF, or another error of the connection, which the parser sends too
\* unless the server is shutting down.
Hangup(c) ==
    /\ At(c, "read") /\ c \notin broken
    /\ \/ Goto(c, "leave") /\ UNCHANGED broken
       \/ cancelled /\ broken' = broken \cup {c} /\ UNCHANGED h
    /\ UNCHANGED <<mainVars, acceptor, wg, closed, raftVars, panic>>

\* Mutant: a handler that waits for a result leaves when the server stops.
CtxDoneAwait(c) ==
    /\ h[c] \in {"read", "await"} /\ cancelled
    /\ Goto(c, "leave")
    /\ UNCHANGED <<mainVars, acceptor, wg, broken, closed, raftVars, panic>>

CtxDone(c) ==
    /\ At(c, "read") /\ cancelled
    /\ Goto(c, "leave")
    /\ UNCHANGED <<mainVars, acceptor, wg, broken, closed, raftVars, panic>>

\* The parser has closed its channel: the select may take the nil from it.
NilResult(c) ==
    /\ At(c, "read") /\ c \in broken
    /\ panic' = "nil result"
    /\ UNCHANGED <<mainVars, acceptor, wg, h, broken, closed, raftVars>>

\* The deferred wg.Done.
Done(c) ==
    /\ At(c, "leave")
    /\ Goto(c, "gone")
    /\ wg' = wg - 1
    /\ panic' = IF wg = 0 THEN "negative WaitGroup" ELSE panic
    /\ UNCHANGED <<mainVars, acceptor, broken, closed, raftVars>>

\* callback[cmdID] = make(...)
Register(c) ==
    /\ At(c, "register")
    /\ Goto(c, "propose")
    /\ UNCHANGED <<mainVars, acceptor, wg, broken, closed, raftVars, panic>>

\* delete(callback, cmdID), and the reply.
Unregister(c) ==
    /\ At(c, "unregister")
    /\ Goto(c, "read")
    /\ UNCHANGED <<mainVars, acceptor, wg, broken, closed, raftVars, panic>>

\* proposeC <- proposal and confChangeC <- changeV2: both channels have no
\* buffer.
Send(c, kind, channel, next) ==
    /\ At(c, kind)
    /\ \/ /\ channel \in closed
          /\ panic' = "send on closed channel"
          /\ UNCHANGED <<h, proposer>>
       \/ /\ channel \notin closed /\ proposer = "recv"
          /\ proposer' = (IF kind = "propose" THEN c ELSE proposer)
          /\ Goto(c, next)
          /\ UNCHANGED panic
    /\ UNCHANGED <<mainVars, acceptor, wg, broken, closed, raftUp, entries, commits, found>>

Propose(c) == Send(c, "propose", "proposeC", "await")
Rconf(c) == Send(c, "rconf", "confChangeC", "read")

HandlerStep(c) ==
    \/ Run(c) \/ NilResult(c) \/ Done(c)
    \/ Register(c) \/ Propose(c) \/ Unregister(c) \/ Rconf(c)

-----------------------------------------------------------------------------
(* Between the handlers and raft *)

\* Node.Propose returns when raft has taken the proposal, or with an error
\* that is not looked at.  A proposal taken may still be lost on its way to
\* the leader.
Accepted ==
    /\ proposer \in Conn
    /\ proposer' = "recv"
    /\ entries' = entries \cup {proposer}
    /\ UNCHANGED <<mainVars, acceptor, wg, h, broken, closed, raftUp, commits, found, panic>>

Dropped ==
    /\ proposer \in Conn
    /\ proposer' = "recv"
    /\ UNCHANGED <<mainVars, acceptor, wg, h, broken, closed, raftUp, entries, commits, found, panic>>

\* A closed channel ends the loop of the proposer, which closes stopc.
ProposerStops ==
    /\ proposer = "recv" /\ closed \cap {"proposeC", "confChangeC"} # {}
    /\ proposer' = "done"
    /\ UNCHANGED <<mainVars, acceptor, wg, h, broken, closed, raftUp, entries, commits, found, panic>>

\* publishEntries: commitC <- ..., taken by the commit loop.
Publish(c) ==
    /\ raftUp /\ c \in entries /\ commits = "recv"
    /\ entries' = entries \ {c}
    /\ commits' = c
    /\ UNCHANGED <<mainVars, acceptor, wg, h, broken, closed, proposer, raftUp, found, panic>>

\* resultCallback[cmd.ID], after the command was executed.
Lookup ==
    /\ commits \in Conn /\ ~found
    /\ found' = TRUE
    /\ UNCHANGED <<mainVars, acceptor, wg, h, broken, closed, proposer, raftUp, entries, commits, panic>>

\* callback <- res: the handler waits for it.
Callback ==
    /\ commits \in Conn /\ found /\ At(commits, "await")
    /\ Goto(commits, "unregister")
    /\ commits' = "recv" /\ found' = FALSE
    /\ UNCHANGED <<mainVars, acceptor, wg, broken, closed, proposer, raftUp, entries, panic>>

\* RaftNode.stop, after stopc or because the node was removed from the cluster.
Stop ==
    /\ raftUp
    /\ raftUp' = FALSE
    /\ closed' = closed \cup {"commitC", "errorC"}
    /\ UNCHANGED <<mainVars, acceptor, wg, h, broken, proposer, entries, commits, found, panic>>

RaftStops == proposer = "done" /\ Stop
Removed == proposer # "done" /\ Stop

CommitsEnd ==
    /\ commits = "recv" /\ "commitC" \in closed
    /\ commits' = "done"
    /\ UNCHANGED <<mainVars, acceptor, wg, h, broken, closed, proposer, raftUp, entries, found, panic>>

RaftStep ==
    Accepted \/ Dropped \/ ProposerStops \/ (\E c \in Conn : Publish(c)) \/ Lookup \/ Callback \/ RaftStops \/ CommitsEnd

-----------------------------------------------------------------------------

Next ==
    /\ panic = "no" /\ main # "exit"
    /\ \/ AcceptFails \/ MainStep \/ Signal \/ Removed \/ RaftStep
       \/ \E c \in Conn : Accept(c) \/ Command(c) \/ Hangup(c) \/ CtxDone(c) \/ Unblock(c) \/ HandlerStep(c)

Running == panic = "no" /\ main # "exit"

\* Goroutines that can run do run.  select picks at random among the ready
\* cases, so a case that is ready again and again is taken.
Fairness ==
    /\ WF_vars(Running /\ MainStep) /\ WF_vars(Running /\ AcceptFails) /\ WF_vars(Running /\ RaftStep)
    /\ \A c \in Conn :
          /\ WF_vars(Running /\ HandlerStep(c))
          /\ SF_vars(Running /\ CtxDone(c))

Spec == Init /\ [][Next]_vars
FairSpec == Spec /\ Fairness

-----------------------------------------------------------------------------
(* Properties *)

\* "3. wait for all clients to disconnect": when Start returns no handler that
\* it started is still running.
WaitsForClients ==
    main = "exit" => \A c \in Conn : h[c] \in {"away", "accepted", "gone"}

\* The commit loop answers a handler that waits, and only the one that made
\* the proposal: an executed proposal always finds its handler waiting.
AnswersProposer == commits \in Conn => At(commits, "await")

\* Only a handler that waits for a value to pop, or for the result of a
\* proposal, can hold up the shutdown that a signal starts.
ShutsDownUnlessBlocked ==
    isTerminating ~> (main = "exit" \/ panic # "no" \/ \E c \in Conn : h[c] \in {"block", "await"})
=============================================================================
