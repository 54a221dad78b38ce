---------------------------- MODULE TxRelayProofs ----------------------------
(***************************************************************************)
(* For every set of transactions, messages and delays: a transaction       *)
(* without a relay time is in somebody's hands, and the pool is scanned no *)
(* later than the first embargo ends.                                      *)
(***************************************************************************)
EXTENDS TxRelay, TLAPS

\* What a task, a call and the idle loop hold.
Stem == [txs : SUBSET Tx, how : {"local", "stem"}]
Tasks == Seq(Stem)
Call == [todo : Seq(Tx), how : Method, stem : SUBSET Tx, fluff : SUBSET Tx]
Picked == [public : SUBSET Tx, private : SUBSET Tx, stem : SUBSET Tx]

Typed ==
  /\ method \in [Tx -> Method]
  /\ due \in [Tx -> Time]
  /\ next_check \in Nat
  /\ picked \in Picked
  /\ call \in [Caller -> Call]
  /\ strand \in Tasks
  /\ sending => strand # <<>>

\* A stem that waits for the end of its embargo is scanned in time.
Awaited(m, d, o, p, n) ==
  \A t \in Tx \ (o \cup p) : m[t] = "stem" /\ d[t] # Never => n <= d[t]

\* The transactions of the calls and of the tasks from the i-th on.
OfCalls(c) == UNION {c[x].stem \cup c[x].fluff : x \in Caller}
OfTasks(s) == UNION {s[i].txs : i \in DOMAIN s}

Untimed(m, d) == {t \in Tx : m[t] \notin {"absent", "none"} /\ d[t] = Never}

\* A task that has told the pool holds nothing that only it could relay.
Rest == IF sending THEN Tail(strand) ELSE strand
HandInv == Untimed(method, due) \subseteq OfCalls(call) \cup OfTasks(Rest) \cup lost

IInv == Typed /\ HandInv /\ Awaited(method, due, old, picked.public, next_check)

------------------------------------------------------------------------------
(* The pool's part *)

\* The ranks of the relay methods.
LEMMA RankType ==
  /\ Method = {"absent", "none", "local", "forward", "stem", "fluff"}
  /\ \A m \in Method : rank[m] \in Int
  /\ \A m, how \in Method : upgrade_relay_method(m, how) \in {m, how}
  /\ \A m \in Method : upgrade_relay_method(m, "fluff") = "fluff"
BY DEF Method, rank, upgrade_relay_method

\* set_relayed gives a time to all it is called for, and to a stem one that the
\* next scan does not miss.
LEMMA SetRelayed ==
  ASSUME Typed, NEW S \in SUBSET Tx, NEW how \in Method \ {"absent"}, set_relayed(S, how)
  PROVE  /\ method' \in [Tx -> Method]
         /\ due' \in [Tx -> Time]
         /\ next_check' \in Nat
         /\ old' = old /\ lost' = lost \ S
         /\ Untimed(method', due') \subseteq Untimed(method, due) \ S
         /\ how = "fluff" => \A t \in S : method'[t] \in {"absent", "fluff"}
         /\ \A p : Awaited(method, due, old, p, next_check)
                     => Awaited(method', due', old, p, next_check')
         /\ \A t \in Tx \ S : method'[t] = method[t] /\ due'[t] = due[t]
<1> DEFINE in == {t \in S : method[t] # "absent"}
           up == [t \in in |-> upgrade_relay_method(method[t], how)]
           stems == {t \in in : up[t] = "stem"}
<1>1. PICK embargo \in [in -> Embargo], delay \in [in -> RelayDelay] :
       /\ method' = [t \in Tx |-> IF t \in in THEN up[t] ELSE method[t]]
       /\ due' = [t \in Tx |-> IF t \notin in THEN due[t]
                               ELSE IF up[t] = "stem" THEN embargo[t]
                               ELSE IF up[t] = "forward" THEN 0 ELSE delay[t]]
       /\ next_check' \in Soonest({next_check} \cup {embargo[t] : t \in stems})
       /\ lost' = lost \ S
       /\ UNCHANGED old
  BY DEF set_relayed
<1>2. /\ in \subseteq S /\ in \subseteq Tx /\ S \subseteq Tx
      /\ \A t \in S \ in : method[t] = "absent"
      /\ \A t \in in : method[t] # "absent"
  OBVIOUS
<1>3. \A t \in in : up[t] = upgrade_relay_method(method[t], how)
  OBVIOUS
<1>4. \A t \in in : up[t] \in Method /\ up[t] \in {method[t], how}
  <2> HIDE DEF in, up
  <2> SUFFICES ASSUME NEW t \in in PROVE up[t] \in {method[t], how} /\ method[t] \in Method
    OBVIOUS
  <2>1. method[t] \in Method
    BY <1>2 DEF Typed
  <2>2. upgrade_relay_method(method[t], how) \in {method[t], how}
    BY <2>1, RankType
  <2> QED BY <1>3, <2>1, <2>2
<1>5. \A t \in in : embargo[t] \in Nat /\ delay[t] \in Nat
  BY <1>1, DelayAssumption
<1>6. stems \subseteq in /\ \A t \in in : up[t] = "stem" => t \in stems
  OBVIOUS
<1>7. ASSUME how = "fluff", NEW t \in in PROVE up[t] = "fluff"
  <2> HIDE DEF in, up
  <2>1. method[t] \in Method
    BY <1>2 DEF Typed
  <2>2. upgrade_relay_method(method[t], "fluff") = "fluff"
    BY <2>1, RankType
  <2> QED BY <1>3, <1>7, <2>2
<1> HIDE DEF in, up, stems
<1>8. /\ next_check' \in Nat
      /\ next_check' <= next_check
      /\ \A t \in stems : next_check' <= embargo[t]
  <2> DEFINE times == {next_check} \cup {embargo[t] : t \in stems}
  <2>1. next_check \in times /\ \A t \in stems : embargo[t] \in times
    OBVIOUS
  <2>2. \A n \in times : n \in Nat
    BY <1>5, <1>6 DEF Typed
  <2>3. next_check' \in Soonest(times)
    BY <1>1
  <2> HIDE DEF times
  <2>4. next_check' \in times /\ \A n \in times : next_check' <= n
    BY <2>3 DEF Soonest
  <2> QED BY <2>1, <2>2, <2>4
<1>9. /\ \A t \in Tx \ in : method'[t] = method[t] /\ due'[t] = due[t]
      /\ \A t \in in : method'[t] = up[t]
      /\ \A t \in in : due'[t] \in Nat
      /\ \A t \in stems : due'[t] = embargo[t]
  <2>1. \A t \in stems : up[t] = "stem"
    BY DEF stems
  <2> QED BY <1>1, <1>2, <1>5, <1>6, <2>1
<1>10. method' \in [Tx -> Method]
  BY <1>1, <1>4 DEF Typed
<1>11. due' \in [Tx -> Time]
  <2>1. \A t \in Tx : due'[t] \in Time
    BY <1>9 DEF Typed, Time
  <2>2. due' = [t \in Tx |-> due'[t]]
    BY <1>1
  <2> QED BY <2>1, <2>2
<1>12. Untimed(method', due') \subseteq Untimed(method, due) \ S
  BY <1>2, <1>9, DelayAssumption DEF Untimed
<1>13. how = "fluff" => \A t \in S : method'[t] \in {"absent", "fluff"}
  BY <1>2, <1>7, <1>9
<1>14. ASSUME NEW p, Awaited(method, due, old, p, next_check)
       PROVE  Awaited(method', due', old, p, next_check')
  <2> SUFFICES ASSUME NEW t \in Tx \ (old \cup p), method'[t] = "stem", due'[t] # Never
               PROVE  next_check' <= due'[t]
    BY DEF Awaited
  <2>1. CASE t \in in
    BY <2>1, <1>6, <1>8, <1>9
  <2>2. CASE t \notin in
    <3>1. next_check <= due[t] /\ due'[t] = due[t] /\ due[t] \in Nat
      BY <2>2, <1>9, <1>14 DEF Awaited, Typed, Time
    <3> QED BY <3>1, <1>8 DEF Typed
  <2> QED BY <2>1, <2>2
<1> QED BY <1>1, <1>2, <1>8, <1>9, <1>10, <1>11, <1>12, <1>13, <1>14

\* add_tx's note of a transaction: one without a time is to be relayed by its call.
LEMMA NoteTx ==
  ASSUME Typed, NEW t \in Tx, NEW how \in Method \ {"absent"}, Note(t, how)
  PROVE  /\ method' \in [Tx -> Method]
         /\ due' \in [Tx -> Time]
         /\ next_check' \in Nat
         /\ lost' = lost \ {t}
         /\ Untimed(method', due') \subseteq
              (Untimed(method, due) \ {t}) \cup (IF how \in {"none", "forward"} THEN {} ELSE {t})
         /\ \A p : Awaited(method, due, old, p, next_check)
                     => Awaited(method', due', old', p, next_check')
<1>1. PICK delay \in (IF how = "forward" THEN ForwardDelay ELSE {Never}) :
         /\ method' = [method EXCEPT ![t] = how]
         /\ due' = [due EXCEPT ![t] = delay]
         /\ next_check' \in Soonest({next_check} \cup ({delay} \ {Never}))
         /\ old' = old \ {t}
         /\ lost' = lost \ {t}
  BY DEF Note
<1>2. IF how = "forward" THEN delay \in Nat ELSE delay = Never
  BY DelayAssumption
<1>3. delay \in Time
  BY <1>2 DEF Time
<1>4. next_check' \in Nat /\ next_check' <= next_check
  BY <1>1, <1>2 DEF Soonest, Typed
<1>5. method' \in [Tx -> Method] /\ due' \in [Tx -> Time]
  BY <1>1, <1>3 DEF Typed
<1>6. /\ method'[t] = how /\ due'[t] = delay
      /\ \A u \in Tx \ {t} : method'[u] = method[u] /\ due'[u] = due[u]
  BY <1>1 DEF Typed
<1>7. Untimed(method', due') \subseteq
        (Untimed(method, due) \ {t}) \cup (IF how \in {"none", "forward"} THEN {} ELSE {t})
  BY <1>2, <1>6, DelayAssumption DEF Untimed
<1>8. ASSUME NEW p, Awaited(method, due, old, p, next_check)
      PROVE  Awaited(method', due', old', p, next_check')
  <2> SUFFICES ASSUME NEW u \in Tx \ (old' \cup p), method'[u] = "stem", due'[u] # Never
               PROVE  next_check' <= due'[u]
    BY DEF Awaited
  <2>1. u # t
    BY <1>2, <1>6
  <2>2. next_check <= due[u] /\ due'[u] = due[u] /\ due[u] \in Nat
    BY <2>1, <1>1, <1>6, <1>8 DEF Awaited, Typed, Time
  <2> QED BY <2>2, <1>4 DEF Typed
<1> QED BY <1>1, <1>4, <1>5, <1>7, <1>8

------------------------------------------------------------------------------
(* What is in hand *)

\* A call that goes on: nothing leaves its hands but what it has let go of.
LEMMA CallGoesOn ==
  ASSUME Typed, NEW c \in Caller, NEW r \in Call, call' = [call EXCEPT ![c] = r]
  PROVE  /\ call' \in [Caller -> Call]
         /\ OfCalls(call) \subseteq
              OfCalls(call') \cup ((call[c].stem \cup call[c].fluff) \ (r.stem \cup r.fluff))
         /\ r.stem \cup r.fluff \subseteq OfCalls(call')
<1>1. call' \in [Caller -> Call] /\ call \in [Caller -> Call]
  BY DEF Typed
<1>2. \A x \in Caller : call'[x] = IF x = c THEN r ELSE call[x]
  BY <1>1
<1> QED BY <1>1, <1>2 DEF OfCalls

\* The tasks of a strand.
LEMMA TaskAppended ==
  ASSUME NEW s \in Tasks, NEW e \in Stem
  PROVE  /\ Append(s, e) \in Tasks /\ Append(s, e) # <<>>
         /\ OfTasks(s) \cup e.txs \subseteq OfTasks(Append(s, e))
         /\ s # <<>> => OfTasks(Tail(s)) \cup e.txs \subseteq OfTasks(Tail(Append(s, e)))
<1> DEFINE a == Append(s, e)
<1>1. a \in Tasks /\ Len(a) = Len(s) + 1 /\ Len(s) \in Nat /\ a # <<>>
      /\ DOMAIN a = 1..Len(a) /\ DOMAIN s = 1..Len(s)
  BY DEF Tasks
<1>2. a[Len(s) + 1] = e /\ \A i \in DOMAIN s : a[i] = s[i]
  BY DEF Tasks
<1> HIDE DEF a
<1>3. OfTasks(s) \cup e.txs \subseteq OfTasks(a)
  <2>1. Len(s) + 1 \in DOMAIN a /\ \A i \in DOMAIN s : i \in DOMAIN a
    BY <1>1
  <2> QED BY <2>1, <1>2 DEF OfTasks
<1>4. ASSUME s # <<>> PROVE OfTasks(Tail(s)) \cup e.txs \subseteq OfTasks(Tail(a))
  <2>1. Len(s) >= 1
    BY <1>4, <1>1 DEF Tasks
  <2>2. /\ DOMAIN Tail(s) = 1..(Len(s) - 1)
        /\ \A i \in 1..(Len(s) - 1) : Tail(s)[i] = s[i + 1]
    BY <1>4, <2>1 DEF Tasks
  <2>3. /\ DOMAIN Tail(a) = 1..Len(s)
        /\ \A i \in 1..Len(s) : Tail(a)[i] = a[i + 1]
    BY <1>1 DEF Tasks
  <2>4. Len(s) \in DOMAIN Tail(a) /\ Tail(a)[Len(s)] = e
    BY <1>1, <1>2, <2>1, <2>3
  <2>5. \A i \in DOMAIN Tail(s) : i \in DOMAIN Tail(a) /\ Tail(a)[i] = Tail(s)[i]
    BY <1>1, <1>2, <2>1, <2>2, <2>3
  <2> QED BY <2>4, <2>5 DEF OfTasks
<1> QED BY <1>1, <1>3, <1>4 DEF a

\* The first task and the others.
LEMMA TaskHead ==
  ASSUME NEW s \in Tasks, s # <<>>
  PROVE  /\ Tail(s) \in Tasks
         /\ Head(s).txs \in SUBSET Tx
         /\ OfTasks(s) \subseteq Head(s).txs \cup OfTasks(Tail(s))
<1>0. Tail(s) \in Tasks /\ Head(s) = s[1] /\ Head(s) \in Stem
  BY DEF Tasks
<1>1. Tail(s) \in Tasks /\ Head(s) = s[1] /\ Head(s).txs \in SUBSET Tx
  BY <1>0 DEF Stem
<1>2. ASSUME NEW i \in DOMAIN s PROVE s[i].txs \subseteq Head(s).txs \cup OfTasks(Tail(s))
  <2>1. CASE i = 1
    BY <2>1, <1>1
  <2>2. CASE i # 1
    <3>1. i - 1 \in DOMAIN Tail(s) /\ Tail(s)[i - 1] = s[i]
      BY <2>2 DEF Tasks
    <3> QED BY <3>1 DEF OfTasks
  <2> QED BY <2>1, <2>2
<1> QED BY <1>1, <1>2 DEF OfTasks

\* A task that is posted is in the strand's hands.
LEMMA Posted ==
  ASSUME Typed, NEW txs \in SUBSET Tx, NEW how \in {"local", "stem"},
         Post(txs, how), sending' = sending
  PROVE  /\ strand' \in Tasks /\ strand' # <<>>
         /\ OfTasks(Rest) \cup txs \subseteq OfTasks(Rest')
         /\ method' = method /\ due' = due /\ old' = old /\ next_check' = next_check
         /\ lost' = lost
<1> DEFINE e == [txs |-> txs, how |-> how]
<1>1. e \in Stem /\ e.txs = txs
  BY DEF Stem
<1>2. strand' = Append(strand, e) /\ UNCHANGED <<pool, lost>>
  BY DEF Post
<1> HIDE DEF e
<1>3. strand \in Tasks
  BY DEF Typed
<1>4. CASE sending
  BY <1>1, <1>2, <1>3, <1>4, TaskAppended DEF Rest, pool, Typed
<1>5. CASE ~sending
  BY <1>1, <1>2, <1>3, <1>5, TaskAppended DEF Rest, pool, Typed
<1> QED BY <1>4, <1>5

------------------------------------------------------------------------------
(* The steps *)

\* The empty pool satisfies the inductive invariant.
LEMMA InitIInv == Init => IInv
<1> SUFFICES ASSUME Init PROVE IInv
  OBVIOUS
<1>1. method \in [Tx -> Method] /\ due \in [Tx -> Time]
  BY RankType DEF Init, Time
<1>2. call \in [Caller -> Call]
  BY RankType DEF Init, Idle, Calling, Call
<1>3. next_check \in Nat /\ picked \in Picked /\ strand \in Tasks /\ (sending => strand # <<>>)
  BY DEF Init, NothingPicked, Picked, Tasks
<1>4. HandInv
  BY DEF Init, HandInv, Untimed
<1>5. Awaited(method, due, old, picked.public, next_check)
  BY DEF Init, Awaited
<1> QED BY <1>1, <1>2, <1>3, <1>4, <1>5 DEF IInv, Typed

\* A record of a call has its fields.
LEMMA CallFields ==
  ASSUME NEW r \in Call
  PROVE  /\ r.todo \in Seq(Tx) /\ r.how \in Method /\ r.stem \in SUBSET Tx /\ r.fluff \in SUBSET Tx
         /\ r = [todo |-> r.todo, how |-> r.how, stem |-> r.stem, fluff |-> r.fluff]
BY DEF Call

\* A call that goes on stays a call with the same transactions in hand.
LEMMA GoingFields ==
  ASSUME NEW r \in Call
  PROVE  Going(r) \in Call /\ Going(r).stem = r.stem /\ Going(r).fluff = r.fluff
BY RankType DEF Going, Call

\* A step that leaves the pool alone and lets nothing out of hand.
LEMMA HandedOn ==
  ASSUME IInv, UNCHANGED <<pool, picked>>,
         call' \in [Caller -> Call], strand' \in Tasks, sending' => strand' # <<>>,
         OfCalls(call) \cup OfTasks(Rest) \cup lost
           \subseteq OfCalls(call') \cup OfTasks(Rest') \cup lost'
  PROVE  IInv'
<1>1. Typed'
  BY DEF IInv, Typed, pool
<1>2. HandInv'
  BY DEF IInv, HandInv, pool
<1>3. Awaited(method, due, old, picked.public, next_check)'
  BY DEF IInv, pool, Awaited
<1> QED BY <1>1, <1>2, <1>3 DEF IInv

\* The tasks of a step that leaves the strand alone.
LEMMA SameStrand ==
  ASSUME Typed, UNCHANGED <<strand, sending>>
  PROVE  strand' \in Tasks /\ (sending' => strand' # <<>>) /\ OfTasks(Rest') = OfTasks(Rest)
BY DEF Typed, Rest

\* A call begins.
LEMMA BeginStep ==
  ASSUME IInv, NEW c \in Caller, NEW todo \in Seq(Tx), NEW how \in Method,
         NEW stems \in SUBSET Tx, NEW fluffs \in SUBSET Tx,
         Begin(c, todo, how, stems, fluffs)
  PROVE  IInv'
<1> DEFINE r == Calling(todo, how, stems, fluffs)
<1>1. r \in Call
  BY DEF Calling, Call
<1>2. call[c].stem = {} /\ call[c].fluff = {}
  BY DEF Begin, Idle, Calling
<1>3. call' = [call EXCEPT ![c] = r] /\ UNCHANGED <<pool, picked, strand, sending, lost>>
  BY DEF Begin
<1> HIDE DEF r
<1>4. Typed
  BY DEF IInv
<1>5. call' \in [Caller -> Call] /\ OfCalls(call) \subseteq OfCalls(call')
  BY <1>1, <1>2, <1>3, <1>4, CallGoesOn
<1>6. strand' \in Tasks /\ (sending' => strand' # <<>>) /\ OfTasks(Rest') = OfTasks(Rest)
  BY <1>3, <1>4, SameStrand
<1> QED BY <1>3, <1>5, <1>6, HandedOn

\* The calls that begin.
LEMMA BeginSteps ==
  ASSUME IInv, Receive \/ Submit \/ RelayTx
  PROVE  IInv'
<1>1. CASE Receive
  <2>1. PICK m \in Messages, how \in {"stem", "fluff", "forward"} : Begin("p2p", m, how, {}, {})
    BY <1>1 DEF Receive
  <2>2. m \in Seq(Tx) /\ how \in Method /\ "p2p" \in Caller
    BY MessagesAssumption, RankType DEF Caller
  <2> QED BY <2>1, <2>2, BeginStep
<1>2. CASE Submit
  <2>1. PICK t \in Tx, how \in {"local", "none"} : Begin("rpc", <<t>>, how, {}, {})
    BY <1>2 DEF Submit
  <2> DEFINE m == <<t>>
  <2>2. m \in Seq(Tx) /\ how \in Method /\ "rpc" \in Caller /\ Begin("rpc", m, how, {}, {})
    BY <2>1, RankType DEF Caller
  <2> HIDE DEF m
  <2> QED BY <2>2, BeginStep
<1>3. CASE RelayTx
  <2>1. PICK t \in Tx : \/ Begin("rpc", <<>>, "none", {}, {t})
                        \/ Begin("rpc", <<>>, "none", {t}, {})
    BY <1>3 DEF RelayTx
  <2> DEFINE m == <<>>
             S == {t}
  <2>2. /\ m \in Seq(Tx) /\ "none" \in Method /\ "rpc" \in Caller /\ S \in SUBSET Tx
        /\ {} \in SUBSET Tx
        /\ Begin("rpc", m, "none", {}, S) \/ Begin("rpc", m, "none", S, {})
    BY <2>1, RankType DEF Caller
  <2> HIDE DEF m, S
  <2> QED BY <2>2, BeginStep
<1> QED BY <1>1, <1>2, <1>3

\* A call cut short: what it had in hand is lost.
LEMMA RefuseStep ==
  ASSUME IInv, NEW c \in Caller, Refuse(c)
  PROVE  IInv'
<1>1. Idle \in Call /\ Idle.stem = {} /\ Idle.fluff = {}
  BY RankType DEF Idle, Calling, Call
<1>2. /\ call' = [call EXCEPT ![c] = Idle] /\ UNCHANGED <<pool, picked, strand, sending>>
      /\ lost' = lost \cup call[c].stem \cup call[c].fluff
  BY DEF Refuse
<1>3. Typed
  BY DEF IInv
<1>4. /\ call' \in [Caller -> Call]
      /\ OfCalls(call) \subseteq OfCalls(call') \cup call[c].stem \cup call[c].fluff
  BY <1>1, <1>2, <1>3, CallGoesOn
<1>5. strand' \in Tasks /\ (sending' => strand' # <<>>) /\ OfTasks(Rest') = OfTasks(Rest)
  BY <1>2, <1>3, SameStrand
<1> QED BY <1>2, <1>4, <1>5, HandedOn

\* A call that comes to its next transaction takes it in hand if it is to relay it.
LEMMA Advanced ==
  ASSUME Typed, NEW c \in Caller, call[c].todo # <<>>, NEW relay, Advance(c, relay)
  PROVE  /\ Head(call[c].todo) \in Tx
         /\ call' \in [Caller -> Call]
         /\ OfCalls(call) \subseteq OfCalls(call')
         /\ relay \in {"local", "stem", "fluff"} => Head(call[c].todo) \in OfCalls(call')
<1> DEFINE k == call[c]
           t == Head(k.todo)
           s == IF relay \in {"local", "stem"} THEN k.stem \cup {t} ELSE k.stem
           f == IF relay = "fluff" THEN k.fluff \cup {t} ELSE k.fluff
           q == [todo |-> Tail(k.todo), how |-> k.how, stem |-> s, fluff |-> f]
<1>1. k \in Call
  BY DEF Typed
<1>2. k.todo \in Seq(Tx) /\ k.how \in Method /\ k.stem \in SUBSET Tx /\ k.fluff \in SUBSET Tx
  BY <1>1, CallFields
<1>3. t \in Tx /\ Tail(k.todo) \in Seq(Tx)
  BY <1>2
<1>4. s \in SUBSET Tx /\ f \in SUBSET Tx
  BY <1>2, <1>3
<1>5. q \in Call /\ q.stem = s /\ q.fluff = f
  BY <1>2, <1>3, <1>4 DEF Call
<1>7. call' = [call EXCEPT ![c] = Going(q)]
  BY DEF Advance, Calling
<1>8. /\ k.stem \cup k.fluff \subseteq s \cup f
      /\ relay \in {"local", "stem", "fluff"} => t \in s \cup f
  OBVIOUS
<1> HIDE DEF q, s, f
<1>9. Going(q) \in Call /\ Going(q).stem = s /\ Going(q).fluff = f
  BY <1>5, GoingFields
<1>10. /\ call' \in [Caller -> Call]
       /\ OfCalls(call) \subseteq OfCalls(call') \cup ((k.stem \cup k.fluff) \ (s \cup f))
       /\ s \cup f \subseteq OfCalls(call')
  BY <1>7, <1>9, CallGoesOn
<1> QED BY <1>3, <1>8, <1>10

\* A transaction the pool knows already.
LEMMA KnownStep ==
  ASSUME IInv, NEW c \in Caller, Known(c)
  PROVE  IInv'
<1>1. /\ call[c].todo # <<>> /\ Advance(c, "none")
      /\ UNCHANGED <<pool, picked, strand, sending, lost>>
  BY DEF Known
<1>2. Typed
  BY DEF IInv
<1>3. call' \in [Caller -> Call] /\ OfCalls(call) \subseteq OfCalls(call')
  BY <1>1, <1>2, Advanced
<1>4. strand' \in Tasks /\ (sending' => strand' # <<>>) /\ OfTasks(Rest') = OfTasks(Rest)
  BY <1>1, <1>2, SameStrand
<1> QED BY <1>1, <1>3, <1>4, HandedOn

\* add_tx: a transaction without a time is in the hands of the call.
LEMMA AddStep ==
  ASSUME IInv, NEW c \in Caller, Add(c)
  PROVE  IInv'
<1> DEFINE t   == Head(call[c].todo)
           how == IF call[c].how = "stem" /\ method[t] = "stem" THEN "fluff" ELSE call[c].how
           relay == IF how = "forward" THEN "none" ELSE how
<1>1. /\ call[c].todo # <<>> /\ Advance(c, relay)
      /\ UNCHANGED <<picked, strand, sending>>
      /\ \/ rank[method[t]] < rank[how] /\ Note(t, how)
         \/ UNCHANGED <<pool, lost>>
  BY DEF Add
<1>2. Typed
  BY DEF IInv
<1>3. /\ t \in Tx /\ call' \in [Caller -> Call] /\ OfCalls(call) \subseteq OfCalls(call')
      /\ relay \in {"local", "stem", "fluff"} => t \in OfCalls(call')
  BY <1>1, <1>2, Advanced
<1>4. strand' \in Tasks /\ (sending' => strand' # <<>>) /\ OfTasks(Rest') = OfTasks(Rest)
  BY <1>1, <1>2, SameStrand
<1>5. how \in Method /\ method[t] \in Method
  <2>1. call[c].how \in Method
    BY <1>2, CallFields DEF Typed
  <2> QED BY <1>2, <1>3, <2>1, RankType DEF Typed
<1>6. relay = IF how = "forward" THEN "none" ELSE how
  OBVIOUS
<1> HIDE DEF t, how, relay
<1>7. CASE UNCHANGED <<pool, lost>>
  BY <1>1, <1>3, <1>4, <1>7, HandedOn
<1>8. CASE rank[method[t]] < rank[how] /\ Note(t, how)
  <2>1. how \in Method \ {"absent"}
    <3>1. \A m \in Method : ~(rank[m] < rank["absent"])
      BY DEF Method, rank
    <3> QED BY <3>1, <1>5, <1>8
  <2>2. /\ method' \in [Tx -> Method] /\ due' \in [Tx -> Time] /\ next_check' \in Nat
        /\ lost' = lost \ {t}
        /\ Untimed(method', due') \subseteq
             (Untimed(method, due) \ {t}) \cup (IF how \in {"none", "forward"} THEN {} ELSE {t})
        /\ Awaited(method, due, old, picked.public, next_check)
             => Awaited(method', due', old', picked.public, next_check')
    BY <1>2, <1>3, <1>8, <2>1, NoteTx
  <2>3. Typed'
    BY <1>1, <1>2, <1>3, <1>4, <2>2 DEF Typed
  <2>4. how \notin {"none", "forward"} => relay \in {"local", "stem", "fluff"}
    BY <1>6, <2>1, RankType
  <2>5. HandInv'
    BY <1>3, <1>4, <2>2, <2>4 DEF IInv, HandInv
  <2> QED BY <1>1, <2>2, <2>3, <2>5 DEF IInv
<1> QED BY <1>1, <1>7, <1>8

\* A step that has the pool told of S, and lets no more than S out of hand.
LEMMA ToldOf ==
  ASSUME IInv, NEW S \in SUBSET Tx, NEW how \in Method \ {"absent"}, set_relayed(S, how),
         picked' \in Picked,
         picked'.public = picked.public \/ (how = "fluff" /\ picked.public \subseteq S),
         call' \in [Caller -> Call], strand' \in Tasks, sending' => strand' # <<>>,
         OfCalls(call) \cup OfTasks(Rest) \subseteq OfCalls(call') \cup OfTasks(Rest') \cup S
  PROVE  IInv'
<1>1. /\ method' \in [Tx -> Method] /\ due' \in [Tx -> Time] /\ next_check' \in Nat
      /\ old' = old /\ lost' = lost \ S
      /\ Untimed(method', due') \subseteq Untimed(method, due) \ S
      /\ how = "fluff" => \A t \in S : method'[t] \in {"absent", "fluff"}
      /\ Awaited(method, due, old, picked.public, next_check)
           => Awaited(method', due', old, picked.public, next_check')
  BY SetRelayed DEF IInv
<1>2. Typed'
  BY <1>1 DEF Typed
<1>3. HandInv'
  BY <1>1 DEF IInv, HandInv
<1>4. Awaited(method', due', old, picked.public, next_check')
  BY <1>1 DEF IInv
<1>5. Awaited(method', due', old', picked'.public, next_check')
  BY <1>1, <1>4 DEF Awaited
<1> QED BY <1>2, <1>3, <1>5 DEF IInv

\* A call lets go of its stems.
LEMMA StemsGone ==
  ASSUME Typed, NEW c \in Caller, call' = [call EXCEPT ![c] = Going([@ EXCEPT !.stem = {}])]
  PROVE  /\ call' \in [Caller -> Call] /\ call[c].stem \in SUBSET Tx
         /\ OfCalls(call) \subseteq OfCalls(call') \cup call[c].stem
<1> DEFINE r == [call[c] EXCEPT !.stem = {}]
<1>1. call[c] \in Call
  BY DEF Typed
<1>2. r \in Call /\ r.stem = {} /\ r.fluff = call[c].fluff /\ call[c].stem \in SUBSET Tx
  BY <1>1 DEF Call
<1>3. call' = [call EXCEPT ![c] = Going(r)]
  OBVIOUS
<1> HIDE DEF r
<1>4. Going(r) \in Call /\ Going(r).stem = {} /\ Going(r).fluff = call[c].fluff
  BY <1>2, GoingFields
<1> QED BY <1>2, <1>3, <1>4, CallGoesOn

\* The stems of a call go to the strand or over the anonymity network.
LEMMA RelayStemSteps ==
  ASSUME IInv, RelayReceived \/ RelaySubmitted
  PROVE  IInv'
<1>0. Typed /\ {"p2p", "rpc"} = Caller
  BY DEF IInv, Caller
<1>1. PICK c \in Caller, how \in {"local", "stem"} :
        /\ \/ Post(call[c].stem, how)
           \/ set_relayed(call[c].stem, "local") /\ UNCHANGED strand
        /\ call' = [call EXCEPT ![c] = Going([@ EXCEPT !.stem = {}])]
        /\ UNCHANGED <<picked, sending>>
  <2>1. CASE RelayReceived
    BY <1>0, <2>1 DEF RelayReceived
  <2>2. CASE RelaySubmitted
    BY <1>0, <2>2 DEF RelaySubmitted, SendOwn
  <2> QED BY <2>1, <2>2
<1>2. /\ call' \in [Caller -> Call] /\ call[c].stem \in SUBSET Tx
      /\ OfCalls(call) \subseteq OfCalls(call') \cup call[c].stem
  BY <1>0, <1>1, StemsGone
<1>3. CASE Post(call[c].stem, how)
  <2>1. /\ strand' \in Tasks /\ strand' # <<>>
        /\ OfTasks(Rest) \cup call[c].stem \subseteq OfTasks(Rest')
        /\ UNCHANGED <<pool, lost>>
    BY <1>0, <1>1, <1>2, <1>3, Posted DEF pool
  <2> QED BY <1>1, <1>2, <2>1, HandedOn
<1>4. CASE set_relayed(call[c].stem, "local") /\ UNCHANGED strand
  <2>1. strand' \in Tasks /\ (sending' => strand' # <<>>) /\ OfTasks(Rest') = OfTasks(Rest)
    BY <1>0, <1>1, <1>4, SameStrand
  <2>2. "local" \in Method \ {"absent"} /\ picked' \in Picked
    BY <1>0, <1>1, RankType DEF Typed
  <2> QED BY <1>1, <1>2, <1>4, <2>1, <2>2, ToldOf
<1> QED BY <1>1, <1>3, <1>4

\* A call has its transactions broadcast and returns.
LEMMA RelayFluffStep ==
  ASSUME IInv, NEW c \in Caller, RelayFluff(c)
  PROVE  IInv'
<1>0. Typed
  BY DEF IInv
<1>1. Idle \in Call /\ Idle.stem = {} /\ Idle.fluff = {}
  BY RankType DEF Idle, Calling, Call
<1>2. /\ call[c].stem = {} /\ set_relayed(call[c].fluff, "fluff")
      /\ call' = [call EXCEPT ![c] = Idle] /\ UNCHANGED <<picked, strand, sending>>
  BY DEF RelayFluff, Fluff
<1>3. call' \in [Caller -> Call] /\ OfCalls(call) \subseteq OfCalls(call') \cup call[c].fluff
  BY <1>0, <1>1, <1>2, CallGoesOn
<1>4. strand' \in Tasks /\ (sending' => strand' # <<>>) /\ OfTasks(Rest') = OfTasks(Rest)
  BY <1>0, <1>2, SameStrand
<1>5. "fluff" \in Method \ {"absent"} /\ picked' \in Picked /\ call[c].fluff \in SUBSET Tx
  BY <1>0, <1>2, RankType, CallFields DEF Typed
<1> QED BY <1>2, <1>3, <1>4, <1>5, ToldOf

\* The strand's tasks: the pool is told of a task's transactions before it ends.
LEMMA TaskSteps ==
  ASSUME IInv, Task
  PROVE  IInv'
<1>0. Typed /\ strand \in Tasks /\ call \in [Caller -> Call] /\ picked \in Picked
  BY DEF IInv, Typed
<1>1. CASE BeginStem
  <2>1. /\ strand # <<>> /\ ~sending /\ sending' = TRUE
        /\ set_relayed(Head(strand).txs, "stem") /\ UNCHANGED <<picked, call, strand>>
    BY <1>1 DEF BeginStem
  <2>2. Head(strand).txs \in SUBSET Tx /\ OfTasks(strand) \subseteq Head(strand).txs \cup OfTasks(Tail(strand))
    BY <1>0, <2>1, TaskHead
  <2>3. Rest = strand /\ Rest' = Tail(strand)
    BY <2>1 DEF Rest
  <2>4. "stem" \in Method \ {"absent"}
    BY RankType
  <2> QED BY <1>0, <2>1, <2>2, <2>3, <2>4, ToldOf
<1>2. CASE StemSent
  <2>1. /\ sending /\ strand' = Tail(strand) /\ sending' = FALSE
        /\ UNCHANGED <<pool, picked, call, lost>>
    BY <1>2 DEF StemSent, EndTask
  <2>2. strand # <<>>
    BY <1>0, <2>1 DEF Typed
  <2>3. Tail(strand) \in Tasks
    BY <1>0, <2>2, TaskHead
  <2>4. Rest = Tail(strand) /\ Rest' = Tail(strand)
    BY <2>1 DEF Rest
  <2> QED BY <1>0, <2>1, <2>3, <2>4, HandedOn
<1>3. CASE FluffTask
  <2>1. /\ strand # <<>> /\ strand' = Tail(strand) /\ sending' = FALSE
        /\ set_relayed(Head(strand).txs, "fluff") /\ UNCHANGED <<picked, call>>
    BY <1>3 DEF FluffTask, EndTask
  <2>2. /\ Head(strand).txs \in SUBSET Tx /\ Tail(strand) \in Tasks
        /\ OfTasks(strand) \subseteq Head(strand).txs \cup OfTasks(Tail(strand))
    BY <1>0, <2>1, TaskHead
  <2>3. Rest \in {strand, Tail(strand)} /\ Rest' = Tail(strand)
    BY <2>1 DEF Rest
  <2>4. "fluff" \in Method \ {"absent"}
    BY RankType
  <2> QED BY <1>0, <2>1, <2>2, <2>3, <2>4, ToldOf
<1> QED BY <1>1, <1>2, <1>3 DEF Task

\* get_relayable_transactions: a stem whose embargo is over is picked, and the next
\* scan waits for no longer than the others'.
LEMMA ScanStep ==
  ASSUME IInv, Scan
  PROVE  IInv'
<1>0. Typed
  BY DEF IInv
<1> DEFINE ready == {t \in Tx \ old : Relayable(t) /\ due[t] = 0}
           waits == {u \in Tx : Timed(u) /\ due[u] > 0}
<1>1. /\ picked' = [public  |-> {t \in ready : method[t] \in {"stem", "fluff"}},
                    private |-> {t \in ready : method[t] = "local"},
                    stem    |-> {t \in ready : method[t] = "forward"}]
      /\ next_check' \in Soonest({CheckInterval} \cup {due[t] : t \in waits})
      /\ UNCHANGED <<method, due, old, call, strand, sending, lost>>
  BY DEF Scan, NextCheck
<1>2. picked' \in Picked /\ picked'.public = {t \in ready : method[t] \in {"stem", "fluff"}}
  BY <1>1 DEF Picked
<1>3. \A t \in waits : due[t] \in Nat
  BY <1>0 DEF Typed, Timed, Time
<1>4. next_check' \in Nat /\ \A t \in waits : next_check' <= due[t]
  <2> HIDE DEF waits
  <2> QED BY <1>1, <1>3, DelayAssumption DEF Soonest
<1>5. Typed'
  BY <1>0, <1>1, <1>2, <1>4 DEF Typed
<1>6. HandInv'
  BY <1>1 DEF IInv, HandInv, Rest
<1>7. Awaited(method', due', old', picked'.public, next_check')
  <2> SUFFICES ASSUME NEW t \in Tx \ (old \cup picked'.public), method[t] = "stem", due[t] # Never
               PROVE  next_check' <= due[t]
    BY <1>1 DEF Awaited
  <2>1. due[t] \in Nat
    BY <1>0 DEF Typed, Time
  <2>2. due[t] # 0
    BY <1>2 DEF Relayable
  <2>3. t \in waits
    BY <2>1, <2>2 DEF Timed
  <2> QED BY <1>4, <2>3
<1> QED BY <1>5, <1>6, <1>7 DEF IInv

\* relay_txpool_transactions.
LEMMA LoopSteps ==
  ASSUME IInv, RelayPublic \/ RelayPrivate \/ RelayForwarded
  PROVE  IInv'
<1>0. Typed /\ call \in [Caller -> Call] /\ picked \in Picked
  BY DEF IInv, Typed
<1>1. picked.public \in SUBSET Tx /\ picked.private \in SUBSET Tx /\ picked.stem \in SUBSET Tx
  BY <1>0 DEF Picked
<1>2. CASE RelayPublic
  <2>1. /\ set_relayed(picked.public, "fluff") /\ picked' = [picked EXCEPT !.public = {}]
        /\ UNCHANGED <<call, strand, sending>>
    BY <1>2 DEF RelayPublic, Fluff
  <2>2. strand' \in Tasks /\ (sending' => strand' # <<>>) /\ OfTasks(Rest') = OfTasks(Rest)
    BY <1>0, <2>1, SameStrand
  <2>3. picked' \in Picked /\ "fluff" \in Method \ {"absent"}
    BY <1>0, <2>1, RankType DEF Picked
  <2> QED BY <1>0, <1>1, <2>1, <2>2, <2>3, ToldOf
<1>3. CASE RelayPrivate /\ set_relayed(picked.private, "local") /\ UNCHANGED strand
  <2>1. picked' = [picked EXCEPT !.private = {}] /\ UNCHANGED <<call, strand, sending>>
    BY <1>3 DEF RelayPrivate
  <2>2. strand' \in Tasks /\ (sending' => strand' # <<>>) /\ OfTasks(Rest') = OfTasks(Rest)
    BY <1>0, <2>1, SameStrand
  <2>3. picked' \in Picked /\ picked'.public = picked.public /\ "local" \in Method \ {"absent"}
    BY <1>0, <2>1, RankType DEF Picked
  <2> QED BY <1>0, <1>1, <1>3, <2>1, <2>2, <2>3, ToldOf
<1>4. CASE \E S \in SUBSET Tx, how \in {"local", "stem"} :
             /\ Post(S, how)
             /\ picked' \in Picked /\ picked'.public = picked.public
             /\ UNCHANGED <<call, sending>>
  <2>1. PICK S \in SUBSET Tx, how \in {"local", "stem"} :
             /\ Post(S, how)
             /\ picked' \in Picked /\ picked'.public = picked.public
             /\ UNCHANGED <<call, sending>>
    BY <1>4
  <2>2. /\ strand' \in Tasks /\ strand' # <<>>
        /\ OfTasks(Rest) \subseteq OfTasks(Rest')
        /\ method' = method /\ due' = due /\ old' = old /\ next_check' = next_check
        /\ lost' = lost
    BY <1>0, <2>1, Posted
  <2>3. Typed'
    BY <1>0, <2>1, <2>2 DEF Typed
  <2>4. HandInv'
    BY <2>1, <2>2 DEF IInv, HandInv
  <2>5. Awaited(method, due, old, picked.public, next_check)'
    BY <2>1, <2>2 DEF IInv, Awaited
  <2> QED BY <2>3, <2>4, <2>5 DEF IInv
<1>5. ASSUME RelayPrivate, Post(picked.private, "local")
      PROVE  IInv'
  <2>1. picked' = [picked EXCEPT !.private = {}] /\ UNCHANGED <<call, sending>>
    BY <1>5 DEF RelayPrivate
  <2>2. picked' \in Picked /\ picked'.public = picked.public
    BY <1>0, <2>1 DEF Picked
  <2> QED BY <1>1, <1>4, <1>5, <2>1, <2>2
<1>6. CASE RelayForwarded
  <2>1. /\ Post(picked.stem, "stem") /\ picked' = [picked EXCEPT !.stem = {}]
        /\ UNCHANGED <<call, sending>>
    BY <1>6 DEF RelayForwarded
  <2>2. picked' \in Picked /\ picked'.public = picked.public
    BY <1>0, <2>1 DEF Picked
  <2> QED BY <1>1, <1>4, <2>1, <2>2
<1>7. CASE RelayPrivate
  <2>1. \/ set_relayed(picked.private, "local") /\ UNCHANGED strand
        \/ Post(picked.private, "local")
    BY <1>7 DEF RelayPrivate, SendOwn
  <2> QED BY <2>1, <1>3, <1>5, <1>7
<1> QED BY <1>2, <1>6, <1>7

\* Time passes.
LEMMA TickStep ==
  ASSUME IInv, Tick
  PROVE  IInv'
<1>0. Typed
  BY DEF IInv
<1>1. /\ due' = [t \in Tx |-> Sooner(due[t])] /\ next_check' = Sooner(next_check)
      /\ UNCHANGED <<method, old, picked, call, strand, sending, lost>>
  BY DEF Tick
<1>2. \A d \in Nat : Sooner(d) = IF d = 0 THEN 0 ELSE d - 1
  BY DelayAssumption DEF Sooner
<1>3. Sooner(Never) = Never
  BY DEF Sooner
<1>4. \A t \in Tx : due'[t] = Sooner(due[t])
  BY <1>1
<1>5. due' \in [Tx -> Time] /\ next_check' \in Nat
  BY <1>0, <1>1, <1>2, <1>3 DEF Typed, Time
<1>6. \A t \in Tx : due[t] \in Nat => due'[t] \in Nat /\ due'[t] = IF due[t] = 0 THEN 0 ELSE due[t] - 1
  BY <1>2, <1>4
<1>7. \A t \in Tx : due'[t] = Never <=> due[t] = Never
  BY <1>0, <1>3, <1>4, <1>6, DelayAssumption DEF Typed, Time
<1>8. Typed'
  BY <1>0, <1>1, <1>5 DEF Typed
<1>9. HandInv'
  <2>1. Untimed(method', due') = Untimed(method, due)
    BY <1>1, <1>7 DEF Untimed
  <2> QED BY <1>1, <2>1 DEF IInv, HandInv, Rest
<1>10. Awaited(method', due', old', picked'.public, next_check')
  <2> SUFFICES ASSUME NEW t \in Tx \ (old \cup picked.public), method[t] = "stem", due[t] # Never
               PROVE  next_check' <= due'[t]
    BY <1>1, <1>7 DEF Awaited
  <2>1. next_check <= due[t] /\ due[t] \in Nat /\ next_check \in Nat
    BY <1>0 DEF IInv, Awaited, Typed, Time
  <2>2. next_check' = IF next_check = 0 THEN 0 ELSE next_check - 1
    BY <1>1, <1>2, <2>1
  <2> QED BY <1>6, <2>1, <2>2
<1> QED BY <1>8, <1>9, <1>10 DEF IInv

\* A transaction gets old or leaves; the node starts again.
LEMMA EventSteps ==
  ASSUME IInv, Crash \/ \E t \in Tx : Age(t) \/ Leave(t)
  PROVE  IInv'
<1>0. Typed
  BY DEF IInv
<1>1. CASE Crash
  <2>1. /\ next_check' = 0 /\ picked' = NothingPicked /\ call' = [c \in Caller |-> Idle]
        /\ strand' = <<>> /\ sending' = FALSE
        /\ lost' = lost \cup {t \in Tx : due[t] = Never}
        /\ UNCHANGED <<method, due, old>>
    BY <1>1 DEF Crash
  <2>2. call' \in [Caller -> Call] /\ picked' \in Picked /\ strand' \in Tasks
    <3>1. Idle \in Call
      BY RankType DEF Idle, Calling, Call
    <3>2. picked' \in Picked
      BY <2>1 DEF NothingPicked, Picked
    <3>3. strand' \in Tasks
      BY <2>1 DEF Tasks
    <3> QED BY <2>1, <3>1, <3>2, <3>3
  <2>3. Typed'
    BY <1>0, <2>1, <2>2 DEF Typed
  <2>4. HandInv'
    BY <2>1 DEF HandInv, Untimed
  <2>5. Awaited(method', due', old', picked'.public, next_check')
    <3>1. \A t \in Tx : due[t] # Never => 0 <= due[t]
      BY <1>0 DEF Typed, Time
    <3> QED BY <2>1, <3>1 DEF Awaited
  <2> QED BY <2>3, <2>4, <2>5 DEF IInv
<1>2. ASSUME NEW t \in Tx, Age(t) PROVE IInv'
  <2>1. /\ old' = old \cup {t}
        /\ UNCHANGED <<method, due, next_check, picked, call, strand, sending, lost>>
    BY <1>2 DEF Age
  <2>2. Typed' /\ HandInv'
    BY <1>0, <2>1 DEF IInv, Typed, HandInv, Rest
  <2>3. Awaited(method', due', old', picked'.public, next_check')
    BY <2>1 DEF IInv, Awaited
  <2> QED BY <2>2, <2>3 DEF IInv
<1>3. ASSUME NEW t \in Tx, Leave(t) PROVE IInv'
  <2>1. /\ method' = [method EXCEPT ![t] = "absent"] /\ due' = [due EXCEPT ![t] = 0]
        /\ old' = old \ {t} /\ lost' = lost \ {t}
        /\ UNCHANGED <<next_check, picked, call, strand, sending>>
    BY <1>3 DEF Leave
  <2>2. method' \in [Tx -> Method] /\ due' \in [Tx -> Time]
    BY <1>0, <2>1, RankType DEF Typed, Time
  <2>3. /\ method'[t] = "absent"
        /\ \A u \in Tx \ {t} : method'[u] = method[u] /\ due'[u] = due[u]
    BY <1>0, <2>1 DEF Typed
  <2>4. Typed'
    BY <1>0, <2>1, <2>2 DEF Typed
  <2>5. HandInv'
    <3>1. Untimed(method', due') \subseteq Untimed(method, due) \ {t}
      BY <2>3 DEF Untimed
    <3> QED BY <2>1, <3>1 DEF IInv, HandInv, Rest
  <2>6. Awaited(method', due', old', picked'.public, next_check')
    BY <2>1, <2>3 DEF IInv, Awaited
  <2> QED BY <2>4, <2>5, <2>6 DEF IInv
<1> QED BY <1>1, <1>2, <1>3

\* Every step preserves the inductive invariant.
LEMMA StepIInv == IInv /\ [Next]_vars => IInv'
<1> SUFFICES ASSUME IInv, [Next]_vars PROVE IInv'
  OBVIOUS
<1>1. CASE Receive \/ Submit \/ RelayTx
  BY <1>1, BeginSteps
<1>2. ASSUME NEW c \in Caller, Step(c) PROVE IInv'
  BY <1>2, RefuseStep, KnownStep, AddStep, RelayFluffStep DEF Step
<1>3. CASE P2pCall \/ RpcCall
  BY <1>2, <1>3, RelayStemSteps DEF P2pCall, RpcCall, Caller
<1>4. CASE Task
  BY <1>4, TaskSteps
<1>5. CASE Loop
  BY <1>5, ScanStep, LoopSteps DEF Loop
<1>6. CASE Tick
  BY <1>6, TickStep
<1>7. CASE Crash \/ \E t \in Tx : Age(t) \/ Leave(t)
  BY <1>7, EventSteps
<1>8. CASE UNCHANGED vars
  <2>1. Typed' /\ HandInv'
    BY <1>8 DEF IInv, vars, pool, Typed, HandInv, Rest
  <2>2. Awaited(method, due, old, picked.public, next_check)'
    BY <1>8 DEF IInv, vars, pool, Awaited
  <2> QED BY <2>1, <2>2 DEF IInv
<1> QED BY <1>1, <1>3, <1>4, <1>5, <1>6, <1>7, <1>8 DEF Next

\* The inductive invariant holds in every reachable state.
LEMMA Invariant == Spec => []IInv
BY InitIInv, StepIInv, PTL DEF Spec

\* A transaction of the pool that is to be relayed and has no relay time (the
\* greatest uint64_t that add_tx writes) is held by a call or by a task that will
\* have set_relayed write one, unless its call was cut short.
THEOREM UntimedAlwaysInHand == Spec => []UntimedIsInHand
<1>1. IInv => UntimedIsInHand
  <2> SUFFICES ASSUME IInv, NEW t \in Tx, Relayable(t), due[t] = Never
               PROVE  t \in InHand \cup lost
    BY DEF UntimedIsInHand
  <2>1. t \in OfCalls(call) \cup OfTasks(Rest) \cup lost
    BY DEF IInv, HandInv, Untimed, Relayable
  <2>2. OfTasks(Rest) \subseteq OfTasks(strand)
    <3>1. CASE ~sending
      BY <3>1 DEF Rest
    <3>2. CASE sending
      <4>1. strand \in Tasks /\ strand # <<>>
        BY <3>2 DEF IInv, Typed
      <4>2. \A i \in DOMAIN Tail(strand) : i + 1 \in DOMAIN strand /\ Tail(strand)[i] = strand[i + 1]
        BY <4>1 DEF Tasks
      <4> QED BY <3>2, <4>2 DEF Rest, OfTasks
    <3> QED BY <3>1, <3>2
  <2> QED BY <2>1, <2>2 DEF InHand, OfCalls, OfTasks
<1> QED BY <1>1, Invariant, PTL

\* get_relayable_transactions runs again no later than the first embargo ends,
\* whatever set_relayed, add_tx and the scans before it did to m_next_check.
THEOREM ScanAlwaysInTime == Spec => []ScanIsInTime
<1>1. IInv => ScanIsInTime
  BY DEF IInv, Awaited, ScanIsInTime
<1> QED BY <1>1, Invariant, PTL
==============================================================================
