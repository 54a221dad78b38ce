------------------------------ MODULE LevinNotify ------------------------------
(***************************************************************************)
(* levin::notify of the public zone: how a transaction that is to be       *)
(* relayed gets on the wire.  A stem goes to one outgoing connection; a    *)
(* fluff is queued for every connection and leaves at a random time of the *)
(* connection's own, all driven by one timer.  Everything here runs in the *)
(* zone's strand, a task at a time; connections come and go beside it.     *)
(*                                                                         *)
(* The timer is boost's: setting a new expiry cancels the wait, and the    *)
(* handler of a canceled or expired wait runs in the strand some time      *)
(* later.  Handlers of two waits may run in either order.                  *)
(***************************************************************************)
EXTENDS Dandelion

CONSTANTS
  Conn,        \* connection ids, each used once
  Out,         \* those of outgoing connections (the others are m_is_income)
  Tx,          \* transactions
  Stems,       \* CRYPTONOTE_DANDELIONPP_STEMS
  Delay,       \* the outcomes of in_duration() and out_duration()
  MaxTime,     \* bound: the last time of the clock
  MaxTasks,    \* bound: relay requests
  MaxChanges   \* bound: connections made or lost, and epochs begun

ASSUME ConnAssumption == IsFiniteSet(Conn) /\ Out \subseteq Conn /\ nil \notin Conn
ASSUME StemsAssumption == Stems \in Nat
ASSUME TimeAssumption == Delay \subseteq Nat /\ MaxTime \in Nat /\ MaxTasks \in Nat /\ MaxChanges \in Nat

VARIABLES
  link,             \* link[c]: the connection is "new", "up", "gone" from p2p's list, or "closed"
  shaken,           \* connections whose on_handshake_complete has run
  open,             \* keys of contexts
  fluff_txs,        \* context_t::fluff_txs
  flush_time,       \* context_t::flush_time; 0 where it is time_point::max() and not read
  sent,             \* sent[c]: what has been handed to p2p->send for c
  map,              \* zone::map
  fluffing,         \* zone::fluffing
  flush_callbacks,  \* zone::flush_callbacks
  expiry,           \* zone::flush_txs.expiry()
  armed,            \* a wait on flush_txs has neither expired nor been canceled
  ready,            \* handlers of expired waits that have not run
  canceled,         \* handlers of canceled waits that have not run
  now,              \* steady_clock::now()
  tasks,            \* relay requests so far
  changes           \* changes of connections and epochs so far

links == <<link, shaken>>
timer == <<flush_callbacks, expiry, armed, ready, canceled>>
queues == <<open, fluff_txs, flush_time>>
stems == <<map, fluffing>>
vars == <<links, queues, sent, stems, timer, now, tasks, changes>>

Up == {c \in Conn : link[c] = "up"}

Init ==
  /\ link \in [Conn -> {"new", "up"}]
  /\ shaken = Up /\ open = Up
  /\ fluff_txs = [c \in Conn |-> {}]
  /\ flush_time = [c \in Conn |-> 0]
  /\ sent = [c \in Conn |-> {}]
  /\ map \in connection_map(Out \cap Up, Stems)
  /\ fluffing \in BOOLEAN
  /\ flush_callbacks = 0 /\ expiry = 0 /\ armed = FALSE
  /\ ready = 0 /\ canceled = 0
  /\ now = 0 /\ tasks = 0 /\ changes = 0

Change == changes < MaxChanges /\ changes' = changes + 1

------------------------------------------------------------------------------
(* Connections *)

Connect(c) ==
  /\ Change
  /\ link[c] = "new"
  /\ link' = [link EXCEPT ![c] = "up"]
  /\ UNCHANGED <<shaken, queues, sent, stems, timer, now, tasks>>

\* An incoming connection is there while its handshake is handled; an outgoing
\* one may have closed before the thread that opened it gets here.
on_handshake_complete(c) ==
  /\ c \notin shaken
  /\ link[c] = "up" \/ (c \in Out /\ link[c] \in {"gone", "closed"})
  /\ shaken' = shaken \cup {c}
  /\ open' = open \cup {c}
  /\ fluff_txs' = [fluff_txs EXCEPT ![c] = {}]
  /\ flush_time' = [flush_time EXCEPT ![c] = 0]
  /\ UNCHANGED <<link, sent, stems, timer, now, tasks, changes>>

Drop(c) ==
  /\ Change
  /\ link[c] = "up"
  /\ link' = [link EXCEPT ![c] = "gone"]
  /\ UNCHANGED <<shaken, queues, sent, stems, timer, now, tasks>>

on_connection_close(c) ==
  /\ link[c] = "gone"
  /\ link' = [link EXCEPT ![c] = "closed"]
  /\ open' = open \ {c}
  /\ fluff_txs' = [fluff_txs EXCEPT ![c] = {}]
  /\ flush_time' = [flush_time EXCEPT ![c] = 0]
  /\ UNCHANGED <<shaken, sent, stems, timer, now, tasks, changes>>

\* The list of connections is read outside the strand: some of it may have
\* gone when the new map is put in place.
start_epoch ==
  /\ Change
  /\ \E outs \in SUBSET {c \in Out : link[c] # "new"} : map' \in connection_map(outs, Stems)
  /\ fluffing' \in BOOLEAN
  /\ UNCHANGED <<links, queues, sent, timer, now, tasks>>

------------------------------------------------------------------------------
(* The flush timer *)

IsLeast(t, S) == t \in S /\ \A u \in S : t <= u

\* the waits that have neither expired nor been canceled
Waits == IF armed THEN 1 ELSE 0

\* fluff_flush::queue, where n callbacks are counted and waiting are canceled
queue(n, waiting, t) ==
  /\ flush_callbacks' = n + 1
  /\ expiry' = t
  /\ armed' = TRUE
  /\ canceled' = waiting + Waits

\* boost::asio: the wait is over and its handler is posted
Expire ==
  /\ armed /\ expiry <= now
  /\ armed' = FALSE
  /\ ready' = ready + 1
  /\ UNCHANGED <<links, queues, sent, stems, flush_callbacks, expiry, canceled, now, tasks, changes>>

\* Only the last callback acts.
Counted(waiting) ==
  /\ flush_callbacks # 1
  /\ flush_callbacks' = IF flush_callbacks = 0 THEN 0 ELSE flush_callbacks - 1
  /\ canceled' = waiting
  /\ UNCHANGED <<queues, sent, expiry, armed>>

\* mutant: the connections that are not due yet get no new wait
Bug_Flush_once(waiting, error) ==
  /\ flush_callbacks = 1
  /\ LET due == {c \in open : fluff_txs[c] # {} /\ (flush_time[c] <= now \/ error)}
     IN /\ sent' = [c \in Conn |-> IF c \in due THEN sent[c] \cup fluff_txs[c] ELSE sent[c]]
        /\ fluff_txs' = [c \in Conn |-> IF c \in due THEN {} ELSE fluff_txs[c]]
        /\ flush_time' = [c \in Conn |-> IF c \in due THEN 0 ELSE flush_time[c]]
        /\ flush_callbacks' = 0 /\ canceled' = waiting
        /\ UNCHANGED <<expiry, armed, open>>

Flush(waiting, error) ==
  /\ flush_callbacks = 1
  /\ LET due  == {c \in open : fluff_txs[c] # {} /\ (flush_time[c] <= now \/ error)}
         late == {flush_time[c] : c \in {d \in open \ due : fluff_txs[d] # {}}}
     IN /\ sent' = [c \in Conn |-> IF c \in due THEN sent[c] \cup fluff_txs[c] ELSE sent[c]]
        /\ fluff_txs' = [c \in Conn |-> IF c \in due THEN {} ELSE fluff_txs[c]]
        /\ flush_time' = [c \in Conn |-> IF c \in due THEN 0 ELSE flush_time[c]]
        /\ IF late = {}
             THEN flush_callbacks' = 0 /\ canceled' = waiting /\ UNCHANGED <<expiry, armed>>
             ELSE \E t \in late : IsLeast(t, late) /\ queue(0, waiting, t)
        /\ UNCHANGED open

\* fluff_flush::operator(), called with or without operation_canceled
fluff_flush(error) ==
  /\ IF error THEN canceled > 0 ELSE ready > 0
  /\ ready' = IF error THEN ready ELSE ready - 1
  /\ LET waiting == IF error THEN canceled - 1 ELSE canceled
     IN Counted(waiting) \/ Flush(waiting, error)
  /\ UNCHANGED <<links, stems, now, tasks, changes>>

------------------------------------------------------------------------------
(* Relaying *)

\* mutant: a wait is begun only when there is none
Bug_fluff_notify_armed(txs, source) ==
  LET told == open \ {source}
  IN \E delay \in [told -> Delay] :
       /\ flush_time' = [c \in Conn |-> IF c \in told /\ fluff_txs[c] = {}
                                          THEN now + delay[c] ELSE flush_time[c]]
       /\ fluff_txs' = [c \in Conn |-> IF c \in told THEN fluff_txs[c] \cup txs ELSE fluff_txs[c]]
       /\ IF told = {} \/ flush_callbacks > 0
            THEN UNCHANGED <<flush_callbacks, expiry, armed, canceled>>
            ELSE \E t \in {flush_time'[c] : c \in told} :
                   /\ IsLeast(t, {flush_time'[c] : c \in told})
                   /\ queue(flush_callbacks, canceled, t)
       /\ UNCHANGED <<open, ready>>

\* fluff_notify::run
fluff_notify(txs, source) ==
  LET told == open \ {source}
  IN \E delay \in [told -> Delay] :
       /\ flush_time' = [c \in Conn |-> IF c \in told /\ fluff_txs[c] = {}
                                          THEN now + delay[c] ELSE flush_time[c]]
       /\ fluff_txs' = [c \in Conn |-> IF c \in told THEN fluff_txs[c] \cup txs ELSE fluff_txs[c]]
       /\ IF told = {}
            THEN UNCHANGED <<flush_callbacks, expiry, armed, canceled>>
            ELSE \E t \in {flush_time'[c] : c \in told} :
                   /\ IsLeast(t, {flush_time'[c] : c \in told})
                   /\ IF flush_callbacks = 0 \/ t < expiry
                        THEN queue(flush_callbacks, canceled, t)
                        ELSE UNCHANGED <<flush_callbacks, expiry, armed, canceled>>
       /\ UNCHANGED <<open, ready>>

\* A request; the bounds leave every queue the time to be flushed.
Request ==
  /\ tasks < MaxTasks
  /\ \A d \in Delay : now + d <= MaxTime
  /\ tasks' = tasks + 1

\* send_txs with relay_method::fluff
Fluff(txs, source) ==
  /\ Request
  /\ fluff_notify(txs, source)
  /\ UNCHANGED <<links, sent, stems, now, changes>>

\* one try of the stem: the message is sent, or the connection is not there (any more)
Try(m, source) ==
  UNION {{[map |-> g.map, to |-> c] : c \in {nil} \cup ({g.stem} \cap Up)} : g \in get_stem(m, source)}

\* Both tries of dandelionpp_notify, and after each that fails the update of the
\* map with outs, what get_out_connections finds (bound: the same both times).
SendStem(source, outs) ==
  LET first  == Try(map, source)
      second == UNION {Try(m, source) : m \in UNION {update(r.map, outs) : r \in {f \in first : f.to = nil}}}
  IN {r \in first \cup second : r.to # nil}
       \cup {[map |-> m, to |-> nil] : m \in UNION {update(r.map, outs) : r \in {f \in second : f.to = nil}}}

\* dandelionpp_notify for transactions of relay_method::stem, forward or local
Stem(txs, source) ==
  /\ Request
  /\ \E outs \in SUBSET (Out \cap Up) : \E r \in SendStem(source, outs) :
       /\ map' = r.map
       /\ IF r.to = nil
            THEN fluff_notify(txs, source) /\ UNCHANGED sent
            ELSE /\ sent' = [sent EXCEPT ![r.to] = @ \cup txs]
                 /\ UNCHANGED <<queues, timer>>
  /\ UNCHANGED <<links, fluffing, now, changes>>

\* what is not this node's own is fluffed in a fluff epoch
dandelionpp_notify(txs, source, local) ==
  IF fluffing /\ ~local THEN Fluff(txs, source) ELSE Stem(txs, source)

Tick ==
  /\ now < MaxTime
  /\ now' = now + 1
  /\ UNCHANGED <<links, queues, sent, stems, timer, tasks, changes>>

Next ==
  \/ \E c \in Conn : Connect(c) \/ on_handshake_complete(c) \/ Drop(c) \/ on_connection_close(c)
  \/ start_epoch
  \/ Expire
  \/ \E error \in BOOLEAN : fluff_flush(error)
  \/ \E t \in Tx, source \in Conn \cup {nil} :
       \/ Fluff({t}, source)
       \/ \E local \in BOOLEAN : dandelionpp_notify({t}, source, local)
  \/ Tick

\* Time passes, an expired wait is posted and the strand runs what is posted to it.
Spec ==
  /\ Init /\ [][Next]_vars
  /\ WF_vars(Tick) /\ WF_vars(Expire) /\ \A error \in BOOLEAN : WF_vars(fluff_flush(error))

------------------------------------------------------------------------------
(* Properties *)

\* flush_callbacks counts the callbacks that are still to come, so that the one
\* that finds the count at one is the last.
CallbacksArePending ==
  flush_callbacks = ready + canceled + Waits

\* Whatever is queued for a connection, a callback is to come and the timer is
\* set no later than the connection's flush time: the one timer of the zone
\* tracks the lowest of them.
TimerCoversQueues ==
  \A c \in Conn : fluff_txs[c] # {} =>
    c \in open /\ flush_callbacks > 0 /\ expiry <= flush_time[c]

\* In whatever order the handlers of canceled and of expired waits run, the one
\* that acts is the last, and none is missing when something is queued.
TimerIsRight == CallbacksArePending /\ TimerCoversQueues

\* What is queued for a connection is sent to it, unless its context is erased.
QueuedIsSent ==
  \A c \in Conn, t \in Tx : t \in fluff_txs[c] ~> (t \in sent[c] \/ c \notin open)

\* usage_count_ is the number of sources that are mapped to each stem, whatever
\* connections came and went: select_stem balances by it.
UsageIsCounted ==
  \A i \in DOMAIN map.usage_count_ :
    map.usage_count_[i] = Cardinality({s \in DOMAIN map.in_mapping_ : map.in_mapping_[s] = i})

\* No connection serves as two stems.
StemsAreApart ==
  \A i, j \in Live(map) : map.out_mapping_[i] = map.out_mapping_[j] => i = j

\* Whatever connections came and went, the sources are spread over distinct stems
\* as the counts say.
MapIsSound == UsageIsCounted /\ StemsAreApart

\* Within an epoch the transactions of a source keep taking the stem they took
\* first while that stem's connection stays in the map.
StemIsKept ==
  [][\A s \in DOMAIN map.in_mapping_ \cap DOMAIN map'.in_mapping_ :
       LET i == map.in_mapping_[s]
       IN i \in Live(map) /\ map'.out_mapping_[i] = map.out_mapping_[i]
            => map'.in_mapping_[s] = i]_vars
================================================================================
