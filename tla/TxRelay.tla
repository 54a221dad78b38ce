------------------------------- MODULE TxRelay -------------------------------
(***************************************************************************)
(* When a transaction of the pool is relayed.  A transaction gets into the *)
(* pool without a relay time, and the thread that put it there asks the    *)
(* network code to relay it; the network code tells the pool, which sets   *)
(* the time: the end of an embargo for a stem.  The idle loop relays what  *)
(* is due, no later than m_next_check.                                     *)
(*                                                                         *)
(* Times are relative to the clock: due is what is left until the          *)
(* transaction is to be relayed again, and next_check until the pool is    *)
(* scanned.  The code only compares differences of times.  The time of a   *)
(* transaction nobody has relayed yet, the greatest uint64_t, is Never: in *)
(* the unsigned arithmetic of get_relayable_transactions it is not due,    *)
(* whatever the relay method.                                              *)
(***************************************************************************)
EXTENDS Integers, Sequences

CONSTANTS
  Tx,             \* transactions
  Messages,       \* the sequences of transactions a peer may send at once
  Embargo,        \* outcomes of embargo_duration()
  ForwardDelay,   \* outcomes of the random delay of a forwarded transaction
  RelayDelay,     \* outcomes of get_relay_delay, plus one
  CheckInterval,  \* max_relayable_check
  Never,          \* a relay time that has not been set
  MaxCalls,       \* bound: calls of peers and of RPC clients
  MaxTasks,       \* bound: tasks posted and not run
  MaxEvents       \* bound: restarts, and transactions that get old or leave

ASSUME DelayAssumption ==
  /\ Embargo \subseteq Nat /\ ForwardDelay \subseteq Nat /\ RelayDelay \subseteq Nat
  /\ CheckInterval \in Nat \ {0}
  /\ Never \notin Nat
ASSUME MessagesAssumption == Messages \subseteq Seq(Tx)
ASSUME BoundAssumption == MaxCalls \in Nat /\ MaxTasks \in Nat /\ MaxEvents \in Nat

VARIABLES
  private,     \* there is an anonymity network beside the public one
  method,      \* method[t]: the relay method in the txpool table, or "absent"
  due,         \* due[t]: time until t is relayed again, or Never
  old,         \* transactions older than half the time they may stay
  next_check,  \* m_next_check: time until the next scan
  picked,      \* what relay_txpool_transactions has still to relay
  call,        \* call[c]: the call a peer's or a client's thread is in
  strand,      \* tasks posted to the public zone: dandelionpp_notify
  sending,     \* the first task has told the pool and tries its stems
  lost,        \* transactions nobody will relay: their call or the node has failed
  calls, events   \* the calls and the events so far

pool == <<method, due, old, next_check>>
vars == <<private, pool, picked, call, strand, sending, lost, calls, events>>

Caller == {"p2p", "rpc"}
rank == [absent |-> -1, none |-> 0, local |-> 1, forward |-> 2, stem |-> 3, fluff |-> 4]
Method == DOMAIN rank

Calling(todo, how, stems, fluffs) == [todo |-> todo, how |-> how, stem |-> stems, fluff |-> fluffs]
Idle == Calling(<<>>, "none", {}, {})

\* a call that has added everything goes on to relay, or returns
Going(r) == IF r.todo = <<>> THEN [r EXCEPT !.how = "none"] ELSE r

NothingPicked == [public |-> {}, private |-> {}, stem |-> {}]

Init ==
  /\ private \in BOOLEAN
  /\ method = [t \in Tx |-> "absent"] /\ due = [t \in Tx |-> 0] /\ old = {}
  /\ next_check = 0
  /\ picked = NothingPicked
  /\ call = [c \in Caller |-> Idle]
  /\ strand = <<>> /\ sending = FALSE
  /\ lost = {} /\ calls = 0 /\ events = 0

Soonest(S) == {n \in S : \A m \in S : n <= m}

------------------------------------------------------------------------------
(* The pool *)

upgrade_relay_method(m, how) == IF rank[m] < rank[how] THEN how ELSE m

\* mutant: the time of the next scan is left as it is
Bug_set_relayed_unchecked(S, how) ==
  LET in == {t \in S : method[t] # "absent"}
      up == [t \in in |-> upgrade_relay_method(method[t], how)]
  IN \E embargo \in [in -> Embargo], delay \in [in -> RelayDelay] :
       /\ method' = [t \in Tx |-> IF t \in in THEN up[t] ELSE method[t]]
       /\ due' = [t \in Tx |-> IF t \notin in THEN due[t]
                               ELSE IF up[t] = "stem" THEN embargo[t]
                               ELSE IF up[t] = "forward" THEN 0 ELSE delay[t]]
       /\ next_check' = next_check
       /\ lost' = lost \ S
       /\ UNCHANGED old

\* mutant: only what the call has upgraded gets a time
Bug_set_relayed_upgraded(S, how) ==
  LET in == {t \in S : method[t] # "absent" /\ upgrade_relay_method(method[t], how) # method[t]}
      up == [t \in in |-> upgrade_relay_method(method[t], how)]
      stems == {t \in in : up[t] = "stem"}
  IN \E embargo \in [in -> Embargo], delay \in [in -> RelayDelay] :
       /\ method' = [t \in Tx |-> IF t \in in THEN up[t] ELSE method[t]]
       /\ due' = [t \in Tx |-> IF t \notin in THEN due[t]
                               ELSE IF up[t] = "stem" THEN embargo[t]
                               ELSE IF up[t] = "forward" THEN 0 ELSE delay[t]]
       /\ next_check' \in Soonest({next_check} \cup {embargo[t] : t \in stems})
       /\ lost' = lost \ S
       /\ UNCHANGED old

\* A stem's time is the end of its embargo, a forwarded transaction's is now.
set_relayed(S, how) ==
  LET in == {t \in S : method[t] # "absent"}
      up == [t \in in |-> upgrade_relay_method(method[t], how)]
      stems == {t \in in : up[t] = "stem"}
  IN \E embargo \in [in -> Embargo], delay \in [in -> RelayDelay] :
       /\ method' = [t \in Tx |-> IF t \in in THEN up[t] ELSE method[t]]
       /\ due' = [t \in Tx |-> IF t \notin in THEN due[t]
                               ELSE IF up[t] = "stem" THEN embargo[t]
                               ELSE IF up[t] = "forward" THEN 0 ELSE delay[t]]
       /\ next_check' \in Soonest({next_check} \cup {embargo[t] : t \in stems})
       /\ lost' = lost \ S
       /\ UNCHANGED old

\* add_tx: what the pool notes of a transaction it takes or upgrades to how
Note(t, how) ==
  \E delay \in (IF how = "forward" THEN ForwardDelay ELSE {Never}) :
    /\ method' = [method EXCEPT ![t] = how]
    /\ due' = [due EXCEPT ![t] = delay]
    /\ next_check' \in Soonest({next_check} \cup ({delay} \ {Never}))
    /\ old' = old \ {t}
    /\ lost' = lost \ {t}

Relayable(t) == method[t] \notin {"absent", "none"}
Timed(t) == method[t] \in {"stem", "forward"} /\ due[t] # Never

\* when get_relayable_transactions looks again: at the first end of an embargo
NextCheck ==
  Soonest({CheckInterval} \cup {due[t] : t \in {u \in Tx : Timed(u) /\ due[u] > 0}})

------------------------------------------------------------------------------
(* Sending: notify::send_txs *)

Fluff(txs) == set_relayed(txs, "fluff") /\ UNCHANGED strand

\* stems of this node's own transactions (how = "local") and of others wait
\* for the strand
Post(txs, how) ==
  /\ Len(strand) < MaxTasks
  /\ strand' = Append(strand, [txs |-> txs, how |-> how])
  /\ UNCHANGED <<pool, lost>>

\* this node's own go over the anonymity network where there is one
SendOwn(txs) ==
  \/ private /\ set_relayed(txs, "local") /\ UNCHANGED strand
  \/ ~private /\ Post(txs, "local")

\* dandelionpp_notify, when this node stems: the pool is told before the send
BeginStem ==
  /\ strand # <<>> /\ ~sending
  /\ sending' = TRUE
  /\ set_relayed(Head(strand).txs, "stem")
  /\ UNCHANGED <<private, picked, call, strand, calls, events>>

EndTask == strand' = Tail(strand) /\ sending' = FALSE

StemSent ==
  /\ sending
  /\ EndTask
  /\ UNCHANGED <<private, pool, picked, call, lost, calls, events>>

\* no stem could be used, or it is a fluff epoch and the transaction another's
FluffTask ==
  /\ strand # <<>>
  /\ sending \/ Head(strand).how # "local"
  /\ set_relayed(Head(strand).txs, "fluff")
  /\ EndTask
  /\ UNCHANGED <<private, picked, call, calls, events>>

------------------------------------------------------------------------------
(* Calls *)

Begin(c, todo, how, stems, fluffs) ==
  /\ call[c] = Idle /\ calls < MaxCalls
  /\ calls' = calls + 1
  /\ call' = [call EXCEPT ![c] = Calling(todo, how, stems, fluffs)]
  /\ UNCHANGED <<private, pool, picked, strand, sending, lost, events>>

\* handle_notify_new_transactions; over an anonymity network stems are forwards
Receive ==
  \E m \in Messages, how \in {"stem", "fluff"} \cup (IF private THEN {"forward"} ELSE {}) :
    Begin("p2p", m, how, {}, {})

\* on_send_raw_tx, with or without do_not_relay
Submit == \E t \in Tx, how \in {"local", "none"} : Begin("rpc", <<t>>, how, {}, {})

\* on_relay_tx
RelayTx ==
  \E t \in Tx :
    /\ method[t] # "absent"
    /\ IF method[t] = "fluff" THEN Begin("rpc", <<>>, "none", {}, {t})
                              ELSE Begin("rpc", <<>>, "none", {t}, {})

\* a call goes on with the next transaction; relay says how this one is to be relayed
Advance(c, relay) ==
  LET k == call[c]
      t == Head(k.todo)
  IN call' = [call EXCEPT ![c] = Going(Calling(
       Tail(k.todo), k.how,
       IF relay \in {"local", "stem"} THEN k.stem \cup {t} ELSE k.stem,
       IF relay = "fluff" THEN k.fluff \cup {t} ELSE k.fluff))]

\* handle_incoming_tx fails: the call ends, and what it has added is not relayed
Refuse(c) ==
  /\ call[c].todo # <<>>
  /\ call' = [call EXCEPT ![c] = Idle]
  /\ lost' = lost \cup call[c].stem \cup call[c].fluff
  /\ UNCHANGED <<private, pool, picked, strand, sending, calls, events>>

\* add_new_tx knows the transaction
Known(c) ==
  /\ call[c].todo # <<>>
  /\ method[Head(call[c].todo)] \in {"none", "fluff"}
  /\ Advance(c, "none")
  /\ UNCHANGED <<private, pool, picked, strand, sending, lost, calls, events>>

\* add_tx; a stem that comes back has gone round in a loop and is fluffed
Add(c) ==
  /\ call[c].todo # <<>>
  /\ LET t   == Head(call[c].todo)
         how == IF call[c].how = "stem" /\ method[t] = "stem" THEN "fluff" ELSE call[c].how
     IN /\ method[t] \notin {"none", "fluff"}
        /\ IF rank[method[t]] < rank[how] THEN Note(t, how) ELSE UNCHANGED <<pool, lost>>
        /\ Advance(c, IF how = "forward" THEN "none" ELSE how)
  /\ UNCHANGED <<private, picked, strand, sending, calls, events>>

\* relay_transactions at the end of a call, the stems first
RelayReceived ==
  /\ call["p2p"].todo = <<>> /\ call["p2p"].stem # {}
  /\ Post(call["p2p"].stem, "stem")
  /\ call' = [call EXCEPT !["p2p"] = Going([@ EXCEPT !.stem = {}])]
  /\ UNCHANGED <<private, picked, sending, calls, events>>

RelaySubmitted ==
  /\ call["rpc"].todo = <<>> /\ call["rpc"].stem # {}
  /\ SendOwn(call["rpc"].stem)
  /\ call' = [call EXCEPT !["rpc"] = Going([@ EXCEPT !.stem = {}])]
  /\ UNCHANGED <<private, picked, sending, calls, events>>

RelayFluff(c) ==
  /\ call[c].todo = <<>> /\ call[c].stem = {} /\ call[c].fluff # {}
  /\ Fluff(call[c].fluff)
  /\ call' = [call EXCEPT ![c] = Idle]
  /\ UNCHANGED <<private, picked, sending, calls, events>>

------------------------------------------------------------------------------
(* The idle loop *)

\* get_relayable_transactions; the times it writes are never committed
Scan ==
  /\ picked = NothingPicked /\ next_check = 0
  /\ LET ready == {t \in Tx \ old : Relayable(t) /\ due[t] = 0}
     IN picked' = [public  |-> {t \in ready : method[t] \in {"stem", "fluff"}},
                   private |-> {t \in ready : method[t] = "local"},
                   stem    |-> {t \in ready : method[t] = "forward"}]
  /\ next_check' \in NextCheck
  /\ UNCHANGED <<private, method, due, old, call, strand, sending, lost, calls, events>>

\* mutant: a stem whose embargo has ended is sent as a stem again
Bug_RelayPublic_stem ==
  /\ picked.public # {}
  /\ Post(picked.public, "stem")
  /\ picked' = [picked EXCEPT !.public = {}]
  /\ UNCHANGED <<private, call, sending, calls, events>>

\* relay_txpool_transactions: to the public network, ...
RelayPublic ==
  /\ picked.public # {}
  /\ Fluff(picked.public)
  /\ picked' = [picked EXCEPT !.public = {}]
  /\ UNCHANGED <<private, call, sending, calls, events>>

\* ... then this node's own, ...
RelayPrivate ==
  /\ picked.public = {} /\ picked.private # {}
  /\ SendOwn(picked.private)
  /\ picked' = [picked EXCEPT !.private = {}]
  /\ UNCHANGED <<private, call, sending, calls, events>>

\* ... then what was to be forwarded
RelayForwarded ==
  /\ picked.public = {} /\ picked.private = {} /\ picked.stem # {}
  /\ Post(picked.stem, "stem")
  /\ picked' = [picked EXCEPT !.stem = {}]
  /\ UNCHANGED <<private, call, sending, calls, events>>

------------------------------------------------------------------------------
(* Time, and what else happens to the pool *)

Sooner(d) == IF d \in {0, Never} THEN d ELSE d - 1

Tick ==
  /\ due' = [t \in Tx |-> Sooner(due[t])]
  /\ next_check' = Sooner(next_check)
  /\ UNCHANGED <<private, method, old, picked, call, strand, sending, lost, calls, events>>

Event == events < MaxEvents /\ events' = events + 1

\* half of a transaction's time in the pool is over
Age(t) ==
  /\ Event
  /\ method[t] # "absent" /\ t \notin old
  /\ old' = old \cup {t}
  /\ UNCHANGED <<private, method, due, next_check, picked, call, strand, sending, lost, calls>>

\* it is mined, pruned or timed out
Leave(t) ==
  /\ Event
  /\ method[t] # "absent"
  /\ method' = [method EXCEPT ![t] = "absent"] /\ due' = [due EXCEPT ![t] = 0]
  /\ old' = old \ {t} /\ lost' = lost \ {t}
  /\ UNCHANGED <<private, next_check, picked, call, strand, sending, calls>>

\* The node stops between any two steps and starts again with its database,
\* with or without an anonymity network.
Crash ==
  /\ Event
  /\ private' \in BOOLEAN /\ next_check' = 0
  /\ picked' = NothingPicked /\ call' = [c \in Caller |-> Idle]
  /\ strand' = <<>> /\ sending' = FALSE
  /\ lost' = lost \cup {t \in Tx : due[t] = Never}
  /\ UNCHANGED <<method, due, old, calls>>

Step(c) == Refuse(c) \/ Known(c) \/ Add(c) \/ RelayFluff(c)
P2pCall == Step("p2p") \/ RelayReceived
RpcCall == Step("rpc") \/ RelaySubmitted
Task == BeginStem \/ StemSent \/ FluffTask
Loop == Scan \/ RelayPublic \/ RelayPrivate \/ RelayForwarded

Next ==
  \/ Receive \/ Submit \/ RelayTx
  \/ P2pCall \/ RpcCall
  \/ Task
  \/ Loop
  \/ Tick
  \/ \E t \in Tx : Age(t) \/ Leave(t)
  \/ Crash

\* Every thread goes on, the strand runs its tasks, the idle loop comes round
\* and time passes; nobody has to call.
Spec ==
  /\ Init /\ [][Next]_vars
  /\ WF_vars(P2pCall) /\ WF_vars(RpcCall)
  /\ WF_vars(Task) /\ WF_vars(Loop) /\ WF_vars(Tick)

------------------------------------------------------------------------------
(* Properties *)

Time == Nat \cup {Never}
InPool(t) == method[t] # "absent"

\* the transactions a thread or a task is going to relay
InHand ==
  (UNION {call[c].stem \cup call[c].fluff : c \in Caller})
    \cup (UNION {strand[i].txs : i \in DOMAIN strand})

\* A transaction that is to be relayed and has no relay time is in the hands of
\* a call or of a task that will have set_relayed give it one, unless its call
\* was cut short by a transaction that was refused or by a crash.
UntimedIsInHand ==
  \A t \in Tx : Relayable(t) /\ due[t] = Never => t \in InHand \cup lost

\* The next scan comes no later than the end of the first embargo, if that
\* stem is not being fluffed already and is not too old to be relayed.
ScanIsInTime ==
  \A t \in Tx \ (old \cup picked.public) :
    method[t] = "stem" /\ due[t] # Never => next_check <= due[t]

\* Every transaction that is to be relayed is broadcast in the end, whatever
\* way it came, or is too old or gone, unless its call was cut short: a stem
\* may lead nowhere, a forwarded transaction waits its time, the node may stop
\* and start in between.  (With an anonymity network, this node's own are only
\* broadcast by the peers that get them from it.)
EveryTxIsBroadcast ==
  \A t \in Tx : Relayable(t) ~> \/ method[t] = "fluff" /\ due[t] # Never
                                \/ private /\ method[t] = "local"
                                \/ ~InPool(t) \/ t \in old \cup lost
==============================================================================
