------------------------------ MODULE NodeLoop -------------------------------
(***************************************************************************)
(* etcd/raft/node.go: the goroutine that owns a raft (run), the goroutines *)
(* that call it over unbuffered channels, and the event loop of            *)
(* raftexample that takes a Ready and answers with Advance.  A rendezvous  *)
(* is one step, together with the top of the loop that follows it.  The    *)
(* raft here makes messages and entries; module Raft has what they are.    *)
(***************************************************************************)
EXTENDS Integers, Sequences

CONSTANTS Caller,        \* the goroutines of proposals and of the transport
          MaxMade,       \* the bound on messages
          MaxLast,       \* the bound on entries
          MaxTurns,      \* the bound on changes of the leader
          TickBuffer,    \* the buffer of tickc
          Null

VARIABLES raft,          \* msgs, made; last and stable; lead, prevLead, turns; member
          run,           \* where run is, and the channels it selects on
          ticks,         \* how many ticks wait in tickc
          app,           \* where the event loop is, its Ready, and what it has had
          call           \* what each caller does

vars == <<raft, run, ticks, app, call>>

Kinds == {"propose", "confChange", "step"}

HasReady(r) == r.lead # r.prevLead \/ r.msgs # <<>> \/ r.last > r.stable

readyWithoutAccept(r) == [lead |-> r.lead, msgs |-> r.msgs, last |-> r.last]

acceptReady(r, rd) == [r EXCEPT !.prevLead = rd.lead, !.msgs = <<>>]

\* Mutant: a Ready is made while the application works on the one before.
TopAnyTime(r, u) ==
    LET a == IF HasReady(r) THEN [u EXCEPT !.readyc = ~u.advancec, !.rd = readyWithoutAccept(r)]
             ELSE [u EXCEPT !.readyc = @ /\ ~u.advancec]
    IN  IF u.lead = r.lead THEN a ELSE [a EXCEPT !.lead = r.lead, !.propc = r.lead # 0]

\* The top of the loop.  The Ready is made again in every round until it is taken;
\* the proposal channel is open while there is a leader.
Top(r, u) ==
    LET a == IF u.advancec THEN [u EXCEPT !.readyc = FALSE]
             ELSE IF HasReady(r) THEN [u EXCEPT !.readyc = TRUE, !.rd = readyWithoutAccept(r)] ELSE u
    IN  IF u.lead = r.lead THEN a ELSE [a EXCEPT !.lead = r.lead, !.propc = r.lead # 0]

Selects == run.at = "select"

\* The next round, after the raft became r.
Round(r, u) == raft' = r /\ run' = Top(r, u)

\* The raft after a Step that made a message (m), an entry (e), and has leader l.
Stepped(m, e, l) ==
    [raft EXCEPT !.msgs = IF m THEN Append(@, raft.made + 1) ELSE @, !.made = IF m THEN @ + 1 ELSE @,
                 !.last = IF e THEN @ + 1 ELSE @, !.lead = l, !.turns = IF l = raft.lead THEN @ ELSE @ + 1]

\* What a Step may do to the raft: nothing, or any of a message, an entry, another leader.
Steps == {r \in {Stepped(m, e, l) : m, e \in BOOLEAN, l \in {0, 1}} :
              r.made <= MaxMade /\ r.last <= MaxLast /\ r.turns <= MaxTurns}

(***************************************************************************)
(* The callers                                                             *)
(***************************************************************************)
Call(c) ==
    /\ call[c] = Null
    /\ \E k \in Kinds : call' = [call EXCEPT ![c] = [kind |-> k, at |-> "send"]]
    /\ UNCHANGED <<raft, run, ticks, app>>

\* run takes the message of a caller; Propose waits for the result.
Take(c) ==
    /\ Selects /\ call[c] # Null /\ call[c].at = "send"
    /\ call[c].kind # "step" => run.propc
    /\ \E r \in Steps : Round(r, run)
    /\ call' = [call EXCEPT ![c] = IF call[c].kind = "propose" THEN [@ EXCEPT !.at = "result"] ELSE Null]
    /\ UNCHANGED <<ticks, app>>

\* The result is there, or the node is stopped.
Return(c) ==
    /\ call[c] # Null
    /\ call[c].at = "result" \/ run.at = "done"
    /\ call' = [call EXCEPT ![c] = Null]
    /\ UNCHANGED <<raft, run, ticks, app>>

(***************************************************************************)
(* The event loop of raftexample                                           *)
(***************************************************************************)
\* Tick drops the tick if the buffer is full.
Tick ==
    /\ app.at = "select"
    /\ ticks' = IF ticks < TickBuffer THEN ticks + 1 ELSE ticks
    /\ UNCHANGED <<raft, run, app, call>>

TakeTick ==
    /\ Selects /\ ticks > 0
    /\ ticks' = ticks - 1
    /\ \E r \in Steps : Round(r, run)
    /\ UNCHANGED <<app, call>>

\* The event loop takes the Ready, saves its entries and sends its messages.
TakeReady ==
    /\ app.at = "select" /\ Selects /\ run.readyc
    /\ Round(acceptReady(raft, run.rd), [run EXCEPT !.advancec = TRUE])
    /\ app' = [app EXCEPT !.at = "publish", !.saved = run.rd.last, !.sent = @ \o run.rd.msgs]
    /\ UNCHANGED <<ticks, call>>

\* ApplyConfChange, which waits for the ConfState.  It may remove the node, which
\* then takes no proposals; raftexample stops.
ApplyConfChange ==
    /\ app.at = "publish" /\ Selects
    /\ \E removed \in BOOLEAN :
          /\ raft' = [raft EXCEPT !.member = @ /\ ~removed]
          /\ run' = [run EXCEPT !.at = "confstate", !.propc = @ /\ ~(raft.member /\ removed)]
          /\ app' = [app EXCEPT !.at = IF removed THEN "removed" ELSE "confstate"]
    /\ UNCHANGED <<ticks, call>>

TakeConfState ==
    /\ run.at = "confstate" /\ app.at \in {"confstate", "removed"}
    /\ Round(raft, [run EXCEPT !.at = "select"])
    /\ app' = [app EXCEPT !.at = IF @ = "removed" THEN "stopping" ELSE "advance"]
    /\ UNCHANGED <<ticks, call>>

NoConfChange == app.at = "publish" /\ app' = [app EXCEPT !.at = "advance"] /\ UNCHANGED <<raft, run, ticks, call>>

\* Mutant: run does not forget that it waits for Advance.
AdvanceAgain ==
    /\ app.at = "advance" /\ Selects /\ run.advancec
    /\ Round([raft EXCEPT !.stable = run.rd.last], [run EXCEPT !.rd = Null])
    /\ app' = [app EXCEPT !.at = "select"]
    /\ UNCHANGED <<ticks, call>>

\* Advance: the raft marks the entries of run's Ready as saved.
Advance ==
    /\ app.at = "advance" /\ Selects /\ run.advancec
    /\ Round([raft EXCEPT !.stable = run.rd.last], [run EXCEPT !.rd = Null, !.advancec = FALSE])
    /\ app' = [app EXCEPT !.at = "select"]
    /\ UNCHANGED <<ticks, call>>

\* stopc is closed, or the transport has failed.
LeaveLoop == app.at = "select" /\ app' = [app EXCEPT !.at = "stopping"] /\ UNCHANGED <<raft, run, ticks, call>>

Stop ==
    /\ app.at = "stopping" /\ Selects
    /\ run' = [run EXCEPT !.at = "done"]
    /\ app' = [app EXCEPT !.at = "stopped"]
    /\ UNCHANGED <<raft, ticks, call>>

Init ==
    /\ raft = [msgs |-> <<>>, made |-> 0, last |-> 0, stable |-> 0, lead |-> 0, prevLead |-> 0, turns |-> 0, member |-> TRUE]
    /\ run = [at |-> "select", readyc |-> FALSE, advancec |-> FALSE, propc |-> FALSE, lead |-> 0, rd |-> Null]
    /\ ticks = 0
    /\ app = [at |-> "select", saved |-> 0, sent |-> <<>>]
    /\ call = [c \in Caller |-> Null]

\* What a goroutine does once it can.  The select of run serves a case that stays ready.
Serve == TakeReady \/ ApplyConfChange \/ TakeConfState \/ NoConfChange \/ Advance \/ Stop

Next ==
    \/ \E c \in Caller : Call(c) \/ Take(c) \/ Return(c)
    \/ Tick \/ TakeTick \/ LeaveLoop
    \/ Serve

Fairness ==
    /\ WF_vars(Serve)
    /\ \A c \in Caller : WF_vars(Take(c) \/ Return(c))

Spec == Init /\ [][Next]_vars /\ Fairness

(***************************************************************************)
(* Properties                                                              *)
(***************************************************************************)
\* raft forgets no entry that the application has not saved: Advance is for the Ready
\* that the application took, though run goes on between the two.
AdvancesWhatWasSaved == raft.stable <= app.saved

\* The messages of raft are sent each once and in order, in whichever round of run
\* the Ready is taken.
SendsEachOnce == app.sent \o raft.msgs = [k \in 1..raft.made |-> k]

\* What raft makes is handed over, unless the event loop stops.
HandsOver == (raft.msgs # <<>>) ~> (raft.msgs = <<>> \/ app.at \in {"stopping", "stopped"})

\* A call returns, except a proposal while run takes none.
CallsReturn ==
    \A c \in Caller : (call[c] # Null) ~> (call[c] = Null \/ (call[c].kind # "step" /\ ~run.propc /\ run.at # "done"))

\* A Ready that is taken, saved and sent is the one that raft then forgets.
ReadyHandled == AdvancesWhatWasSaved /\ SendsEachOnce
=============================================================================
