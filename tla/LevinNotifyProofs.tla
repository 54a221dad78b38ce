--------------------------- MODULE LevinNotifyProofs ---------------------------
(***************************************************************************)
(* The flush timer and the stems of the public zone, for any connections,  *)
(* delays, stems and number of requests.  That a queue is covered by the   *)
(* timer rests on the count of callbacks being right, and on nothing being *)
(* queued for a context that has been erased; the two are proved together. *)
(* What the stems promise follows from what each operation of the map      *)
(* preserves (module DandelionProofs).                                     *)
(***************************************************************************)
EXTENDS LevinNotify, DandelionProofs, TLAPS

\* the variables of the queues and of the timer have their types
TimerTypeOK ==
  /\ open \subseteq Conn
  /\ fluff_txs \in [Conn -> SUBSET Tx]
  /\ flush_time \in [Conn -> Nat]
  /\ flush_callbacks \in Nat /\ ready \in Nat /\ canceled \in Nat
  /\ expiry \in Nat /\ now \in Nat /\ armed \in BOOLEAN

TimerInv == TimerTypeOK /\ CallbacksArePending /\ TimerCoversQueues

\* No queue, no timer: the invariant holds at the start.
LEMMA InitTimerInv == Init => TimerInv
<1> SUFFICES ASSUME Init PROVE TimerInv
  OBVIOUS
<1>1. ~armed /\ armed \in BOOLEAN
  BY Zenon DEF Init
<1>2. Waits = 0
  BY <1>1, Zenon DEF Waits
<1>3. TimerTypeOK
  BY <1>1 DEF Init, TimerTypeOK, Up
<1>4. CallbacksArePending
  BY <1>2 DEF Init, CallbacksArePending
<1>5. TimerCoversQueues
  BY DEF Init, TimerCoversQueues
<1> QED BY <1>3, <1>4, <1>5 DEF TimerInv

\* What leaves the queues, the timer and the clock alone preserves the invariant.
LEMMA TimerUntouched ==
  ASSUME TimerInv, UNCHANGED <<queues, timer, now>>
  PROVE  TimerInv'
BY DEF TimerInv, TimerTypeOK, CallbacksArePending, TimerCoversQueues, queues, timer, Waits

\* There is one wait or none.
LEMMA WaitsType == Waits \in {0, 1}
BY Zenon DEF Waits

\* fluff_flush::queue counts the wait it begins, and the one it cancels.
LEMMA QueueCounts ==
  ASSUME TimerTypeOK, NEW n \in Nat, NEW waiting \in Nat, NEW t \in Nat,
         queue(n, waiting, t), ready' \in Nat,
         n = ready' + waiting + Waits
  PROVE  /\ CallbacksArePending' /\ flush_callbacks' \in Nat /\ flush_callbacks' > 0
         /\ canceled' \in Nat /\ expiry' = t /\ armed' \in BOOLEAN
<1>1. armed' \in BOOLEAN /\ Waits' = 1
  BY Zenon DEF queue, Waits
<1>2. flush_callbacks' = n + 1 /\ expiry' = t /\ canceled' = waiting + Waits
  BY DEF queue
<1>3. Waits \in Nat /\ Waits' = 1
  BY <1>1, WaitsType
<1>4. flush_callbacks' \in Nat /\ flush_callbacks' > 0
  BY <1>2
<1>5. canceled' \in Nat
  BY <1>2, <1>3
<1>6. flush_callbacks' = ready' + canceled' + Waits'
  BY <1>2, <1>3
<1>7. CallbacksArePending'
  BY <1>6 DEF CallbacksArePending
<1> QED BY <1>1, <1>2, <1>4, <1>5, <1>7, Zenon

\* fluff_notify::run sets the timer no later than any flush time of the
\* connections it queues for, and leaves it where it was set earlier.
LEMMA FluffNotifyInv ==
  ASSUME TimerInv, NEW txs \in SUBSET Tx, NEW source,
         fluff_notify(txs, source), UNCHANGED now
  PROVE  TimerInv'
<1> DEFINE told == open \ {source}
<1>1. PICK delay \in [told -> Delay] :
        /\ flush_time' = [c \in Conn |-> IF c \in told /\ fluff_txs[c] = {}
                                           THEN now + delay[c] ELSE flush_time[c]]
        /\ fluff_txs' = [c \in Conn |-> IF c \in told THEN fluff_txs[c] \cup txs ELSE fluff_txs[c]]
        /\ IF told = {}
             THEN UNCHANGED <<flush_callbacks, expiry, armed, canceled>>
             ELSE \E t \in {flush_time'[c] : c \in told} :
                    /\ IsLeast(t, {flush_time'[c] : c \in told})
                    /\ IF flush_callbacks = 0 \/ t < expiry
                         THEN queue(flush_callbacks, canceled, t)
                         ELSE UNCHANGED <<flush_callbacks, expiry, armed, canceled>>
        /\ UNCHANGED <<open, ready>>
  BY DEF fluff_notify
<1>2. flush_time' \in [Conn -> Nat] /\ fluff_txs' \in [Conn -> SUBSET Tx]
  <2>1. told \subseteq Conn /\ now \in Nat /\ \A c \in told : delay[c] \in Nat
    BY TimeAssumption DEF TimerInv, TimerTypeOK
  <2>2. fluff_txs \in [Conn -> SUBSET Tx] /\ flush_time \in [Conn -> Nat]
    BY DEF TimerInv, TimerTypeOK
  <2> QED BY <1>1, <2>1, <2>2
<1>3. \A c \in Conn \ told : fluff_txs'[c] = fluff_txs[c] /\ flush_time'[c] = flush_time[c]
  BY <1>1
<1>4. CASE told = {}
  BY <1>1, <1>2, <1>3, <1>4 DEF TimerInv, TimerTypeOK, CallbacksArePending, TimerCoversQueues, Waits
<1>5. CASE told # {}
  <2>1. PICK t \in {flush_time'[c] : c \in told} :
          /\ IsLeast(t, {flush_time'[c] : c \in told})
          /\ IF flush_callbacks = 0 \/ t < expiry
               THEN queue(flush_callbacks, canceled, t)
               ELSE UNCHANGED <<flush_callbacks, expiry, armed, canceled>>
    BY <1>1, <1>5
  <2>2. \A c \in told : t <= flush_time'[c]
    BY <2>1 DEF IsLeast
  <2>3. t \in Nat /\ open' = open /\ ready' = ready /\ told \subseteq Conn
    BY <1>1, <1>2 DEF TimerInv, TimerTypeOK
  <2>4. CASE flush_callbacks = 0 \/ t < expiry
    <3>1. /\ CallbacksArePending' /\ flush_callbacks' \in Nat /\ flush_callbacks' > 0
          /\ canceled' \in Nat /\ expiry' = t /\ armed' \in BOOLEAN
      BY <2>1, <2>3, <2>4, QueueCounts DEF TimerInv, TimerTypeOK, CallbacksArePending
    <3>2. TimerTypeOK'
      BY <1>2, <2>3, <3>1 DEF TimerInv, TimerTypeOK
    <3>3. TimerCoversQueues'
      <4> SUFFICES ASSUME NEW c \in Conn, fluff_txs'[c] # {}
                   PROVE  c \in open /\ t <= flush_time'[c]
        BY <2>3, <3>1 DEF TimerCoversQueues
      <4>1. CASE c \in told
        BY <2>2, <4>1
      <4>2. CASE c \notin told
        BY <1>2, <1>3, <2>3, <2>4, <4>2 DEF TimerInv, TimerTypeOK, TimerCoversQueues
      <4> QED BY <4>1, <4>2
    <3> QED BY <3>1, <3>2, <3>3 DEF TimerInv
  <2>5. CASE ~(flush_callbacks = 0 \/ t < expiry)
    <3>1. UNCHANGED <<flush_callbacks, expiry, armed, canceled>>
      BY <2>1, <2>5
    <3>2. TimerTypeOK'
      BY <1>2, <2>3, <3>1 DEF TimerInv, TimerTypeOK
    <3>3. CallbacksArePending'
      BY <2>3, <3>1 DEF TimerInv, CallbacksArePending, Waits
    <3>4. TimerCoversQueues'
      <4> SUFFICES ASSUME NEW c \in Conn, fluff_txs'[c] # {}
                   PROVE  c \in open /\ flush_callbacks > 0 /\ expiry <= flush_time'[c]
        BY <2>3, <3>1 DEF TimerCoversQueues
      <4>1. CASE c \in told
        BY <1>2, <2>2, <2>3, <2>5, <4>1 DEF TimerInv, TimerTypeOK
      <4>2. CASE c \notin told
        BY <1>3, <4>2 DEF TimerInv, TimerCoversQueues
      <4> QED BY <4>1, <4>2
    <3> QED BY <3>2, <3>3, <3>4 DEF TimerInv
  <2> QED BY <2>4, <2>5
<1> QED BY <1>4, <1>5

\* fluff_flush::operator() counts itself off, and when it is the last sets the
\* timer for what it leaves queued.
LEMMA FluffFlushInv ==
  ASSUME TimerInv, NEW error \in BOOLEAN, fluff_flush(error)
  PROVE  TimerInv'
<1> DEFINE waiting == IF error THEN canceled - 1 ELSE canceled
<1>1. /\ ready' \in Nat /\ waiting \in Nat /\ now' = now
      /\ flush_callbacks \in Nat /\ flush_callbacks > 0
      /\ flush_callbacks - 1 = ready' + waiting + Waits
  <2>1. CASE error
    <3>1. canceled > 0 /\ ready' = ready /\ waiting = canceled - 1 /\ now' = now
      BY <2>1, Zenon DEF fluff_flush
    <3> QED BY <3>1, WaitsType DEF TimerInv, TimerTypeOK, CallbacksArePending
  <2>2. CASE ~error
    <3>1. ready > 0 /\ ready' = ready - 1 /\ waiting = canceled /\ now' = now
      BY <2>2, Zenon DEF fluff_flush
    <3> QED BY <3>1, WaitsType DEF TimerInv, TimerTypeOK, CallbacksArePending
  <2> QED BY <2>1, <2>2
<1>2. Counted(waiting) \/ Flush(waiting, error)
  BY Zenon DEF fluff_flush
<1> HIDE DEF waiting
<1>3. CASE Counted(waiting)
  <2>1. /\ flush_callbacks' = flush_callbacks - 1 /\ flush_callbacks # 1
        /\ canceled' = waiting /\ UNCHANGED <<queues, expiry, armed>>
    BY <1>1, <1>3 DEF Counted
  <2>2. Waits' = Waits
    BY <2>1 DEF Waits
  <2>3. CallbacksArePending'
    BY <1>1, <2>1, <2>2 DEF CallbacksArePending
  <2>4. TimerTypeOK'
    BY <1>1, <2>1 DEF TimerInv, TimerTypeOK, queues
  <2>5. TimerCoversQueues'
    BY <1>1, <2>1 DEF TimerInv, TimerCoversQueues, queues
  <2> QED BY <2>3, <2>4, <2>5 DEF TimerInv
<1>4. CASE Flush(waiting, error)
  <2> DEFINE due  == {c \in open : fluff_txs[c] # {} /\ (flush_time[c] <= now \/ error)}
             late == {flush_time[c] : c \in {d \in open \ due : fluff_txs[d] # {}}}
  <2>1. /\ flush_callbacks = 1
        /\ fluff_txs' = [c \in Conn |-> IF c \in due THEN {} ELSE fluff_txs[c]]
        /\ flush_time' = [c \in Conn |-> IF c \in due THEN 0 ELSE flush_time[c]]
        /\ IF late = {}
             THEN flush_callbacks' = 0 /\ canceled' = waiting /\ UNCHANGED <<expiry, armed>>
             ELSE \E t \in late : IsLeast(t, late) /\ queue(0, waiting, t)
        /\ open' = open
    BY <1>4, Zenon DEF Flush
  <2> HIDE DEF due
  <2>2. fluff_txs' \in [Conn -> SUBSET Tx] /\ flush_time' \in [Conn -> Nat]
    BY <2>1 DEF TimerInv, TimerTypeOK
  <2>3. \A c \in Conn : fluff_txs'[c] # {} =>
          c \in open /\ flush_time'[c] = flush_time[c] /\ flush_time[c] \in late
    BY <2>1 DEF TimerInv, TimerTypeOK, TimerCoversQueues
  <2> HIDE DEF late
  <2>4. CASE late = {}
    <3>1. flush_callbacks' = 0 /\ canceled' = waiting /\ UNCHANGED <<expiry, armed>>
      BY <2>1, <2>4
    <3>2. Waits' = Waits
      BY <3>1 DEF Waits
    <3>3. CallbacksArePending'
      <4>1. flush_callbacks = 1 /\ Waits \in Nat
        BY <2>1, WaitsType
      <4>2. 0 = ready' + waiting + Waits
        <5>1. 1 - 1 = ready' + waiting + Waits
          BY <1>1, <4>1, Zenon
        <5> QED BY <5>1
      <4>3. flush_callbacks' = ready' + canceled' + Waits'
        BY <3>1, <3>2, <4>2
      <4> QED BY <4>3 DEF CallbacksArePending
    <3>4. TimerTypeOK'
      BY <1>1, <2>1, <2>2, <3>1 DEF TimerInv, TimerTypeOK
    <3>5. TimerCoversQueues'
      BY <2>3, <2>4 DEF TimerCoversQueues
    <3> QED BY <3>3, <3>4, <3>5 DEF TimerInv
  <2>5. CASE late # {}
    <3>1. PICK t \in late : IsLeast(t, late) /\ queue(0, waiting, t)
      BY <2>1, <2>5
    <3>2. t \in Nat /\ \A u \in late : t <= u
      BY <3>1 DEF IsLeast, late, TimerInv, TimerTypeOK
    <3>3. /\ CallbacksArePending' /\ flush_callbacks' \in Nat /\ flush_callbacks' > 0
          /\ canceled' \in Nat /\ expiry' = t /\ armed' \in BOOLEAN
      BY <1>1, <2>1, <3>1, <3>2, QueueCounts DEF TimerInv
    <3>4. TimerTypeOK'
      BY <1>1, <2>1, <2>2, <3>2, <3>3 DEF TimerInv, TimerTypeOK
    <3>5. TimerCoversQueues'
      BY <2>1, <2>3, <3>2, <3>3 DEF TimerCoversQueues
    <3> QED BY <3>3, <3>4, <3>5 DEF TimerInv
  <2> QED BY <2>4, <2>5
<1> QED BY <1>2, <1>3, <1>4

\* Every step preserves the invariant of the timer.
LEMMA StepTimerInv == TimerInv /\ [Next]_vars => TimerInv'
<1> SUFFICES ASSUME TimerInv, [Next]_vars PROVE TimerInv'
  OBVIOUS
<1>1. CASE \E c \in Conn : Connect(c) \/ Drop(c)
  BY <1>1, TimerUntouched DEF Connect, Drop
<1>2. CASE \E c \in Conn : on_handshake_complete(c) \/ on_connection_close(c)
  <2>1. PICK c \in Conn :
          /\ open' = open \cup {c} \/ open' = open \ {c}
          /\ fluff_txs' = [fluff_txs EXCEPT ![c] = {}]
          /\ flush_time' = [flush_time EXCEPT ![c] = 0]
          /\ UNCHANGED <<timer, now>>
    BY <1>2, Zenon DEF on_handshake_complete, on_connection_close
  <2>2. TimerTypeOK'
    BY <2>1 DEF TimerInv, TimerTypeOK, timer
  <2>3. CallbacksArePending'
    BY <2>1 DEF TimerInv, CallbacksArePending, timer, Waits
  <2>4. TimerCoversQueues'
    BY <2>1 DEF TimerInv, TimerTypeOK, TimerCoversQueues, timer
  <2> QED BY <2>2, <2>3, <2>4 DEF TimerInv
<1>3. CASE start_epoch
  BY <1>3, TimerUntouched DEF start_epoch
<1>4. CASE Expire
  <2>1. /\ armed /\ armed' \in BOOLEAN /\ ~armed' /\ ready' = ready + 1
        /\ UNCHANGED <<queues, flush_callbacks, expiry, canceled, now>>
    BY <1>4, Zenon DEF Expire
  <2>2. Waits = 1 /\ Waits' = 0
    BY <2>1, Zenon DEF Waits
  <2>3. TimerTypeOK'
    BY <2>1 DEF TimerInv, TimerTypeOK, queues
  <2>4. CallbacksArePending'
    <3>1. flush_callbacks' = ready' + canceled' + Waits'
      BY <2>1, <2>2 DEF TimerInv, TimerTypeOK, CallbacksArePending
    <3> QED BY <3>1 DEF CallbacksArePending
  <2>5. TimerCoversQueues'
    BY <2>1 DEF TimerInv, TimerCoversQueues, queues
  <2> QED BY <2>3, <2>4, <2>5 DEF TimerInv
<1>5. CASE \E error \in BOOLEAN : fluff_flush(error)
  BY <1>5, FluffFlushInv
<1>6. ASSUME NEW t \in Tx, NEW source, Fluff({t}, source) \/ Stem({t}, source)
      PROVE  TimerInv'
  <2>1. CASE fluff_notify({t}, source) /\ UNCHANGED now
    BY <2>1, FluffNotifyInv
  <2>2. CASE UNCHANGED <<queues, timer, now>>
    BY <2>2, TimerUntouched
  <2> QED BY <1>6, <2>1, <2>2, Zenon DEF Fluff, Stem
<1>7. CASE \E t \in Tx, source \in Conn \cup {nil} :
             \/ Fluff({t}, source)
             \/ \E local \in BOOLEAN : dandelionpp_notify({t}, source, local)
  BY <1>6, <1>7, Zenon DEF dandelionpp_notify
<1>8. CASE Tick
  BY <1>8, TimeAssumption
     DEF Tick, TimerInv, TimerTypeOK, CallbacksArePending, TimerCoversQueues, queues, timer, Waits
<1>9. CASE UNCHANGED vars
  BY <1>9, TimerUntouched DEF vars
<1> QED BY <1>1, <1>2, <1>3, <1>4, <1>5, <1>7, <1>8, <1>9, Zenon DEF Next

\* The invariant of the timer holds in every reachable state.
LEMMA TimerInvariant == Spec => []TimerInv
BY InitTimerInv, StepTimerInv, PTL DEF Spec

\* zone::flush_callbacks always is the number of callbacks still to come, and
\* nothing is ever queued for a connection without a timer set early enough and a
\* callback to come.
THEOREM TimerAlwaysRight == Spec => []TimerIsRight
<1>1. TimerInv => TimerIsRight
  BY DEF TimerInv, TimerIsRight
<1> QED BY <1>1, TimerInvariant, PTL

------------------------------------------------------------------------------
(* The stems *)

MapInv == MapOK(map, Conn, Stems)

\* A try leaves the stems as they are, the map right, and every source with a
\* live stem at that stem.
LEMMA TryKeeps ==
  ASSUME NEW m, MapOK(m, Conn, Stems), NEW source, NEW r \in Try(m, source)
  PROVE  /\ MapOK(r.map, Conn, Stems)
         /\ r.map.out_mapping_ = m.out_mapping_
         /\ \A s \in DOMAIN m.in_mapping_ : m.in_mapping_[s] \in Live(m) =>
              s \in DOMAIN r.map.in_mapping_ /\ r.map.in_mapping_[s] = m.in_mapping_[s]
<1>1. PICK g \in get_stem(m, source) : \E c : r = [map |-> g.map, to |-> c]
  BY Zenon DEF Try
<1>2. r.map = g.map
  BY <1>1
<1> QED BY <1>2, GetStemOK, GetStemKeeps, StemsAssumption

\* Within one request a source with a live stem stays at it, or that stem has
\* another connection or none in the end.
LEMMA SendStemKeeps ==
  ASSUME MapInv, NEW source, NEW outs \in SUBSET Conn, NEW r \in SendStem(source, outs)
  PROVE  /\ MapOK(r.map, Conn, Stems)
         /\ \A s \in DOMAIN map.in_mapping_ :
              LET i == map.in_mapping_[s]
              IN i \in Live(map) /\ r.map.out_mapping_[i] = map.out_mapping_[i]
                   => s \in DOMAIN r.map.in_mapping_ /\ r.map.in_mapping_[s] = i
<1> USE StemsAssumption, ConnAssumption
<1> DEFINE first  == Try(map, source)
           second == UNION {Try(m, source) : m \in UNION {update(f.map, outs) : f \in {h \in first : h.to = nil}}}
<1>1. \/ r \in first
      \/ r \in second
      \/ \E f \in second : \E m \in update(f.map, outs) : r.map = m
  BY DEF SendStem
<1>2. \A q \in second : \E f \in first : \E m \in update(f.map, outs) : q \in Try(m, source)
  OBVIOUS
<1> HIDE DEF second
<1>3. CASE r \in first
  BY <1>3, TryKeeps DEF MapInv
<1>4. ASSUME NEW q \in second
      PROVE  /\ MapOK(q.map, Conn, Stems)
             /\ \A s \in DOMAIN map.in_mapping_ :
                  LET i == map.in_mapping_[s]
                  IN /\ i \in Live(map) => i \in DOMAIN q.map.out_mapping_
                     /\ i \in Live(map) /\ q.map.out_mapping_[i] # nil
                          => s \in DOMAIN q.map.in_mapping_ /\ q.map.in_mapping_[s] = i
                     /\ i \in Live(map) /\ q.map.out_mapping_[i] = nil
                          => map.out_mapping_[i] \notin outs
  <2>1. PICK f \in first : \E m \in update(f.map, outs) : q \in Try(m, source)
    BY <1>2
  <2>2. PICK m \in update(f.map, outs) : q \in Try(m, source)
    BY <2>1
  <2>3. /\ MapOK(f.map, Conn, Stems) /\ f.map.out_mapping_ = map.out_mapping_
        /\ \A s \in DOMAIN map.in_mapping_ : map.in_mapping_[s] \in Live(map) =>
             s \in DOMAIN f.map.in_mapping_ /\ f.map.in_mapping_[s] = map.in_mapping_[s]
    BY TryKeeps DEF MapInv
  <2>4. /\ m.in_mapping_ = f.map.in_mapping_
        /\ \A i \in DOMAIN f.map.out_mapping_ :
             /\ i \in DOMAIN m.out_mapping_
             /\ m.out_mapping_[i] \in outs \cup {nil}
             /\ f.map.out_mapping_[i] \in outs => m.out_mapping_[i] = f.map.out_mapping_[i]
    BY <2>3, UpdateKeeps
  <2>5. MapOK(m, Conn, Stems)
    BY <2>3, UpdateOK
  <2>6. /\ MapOK(q.map, Conn, Stems) /\ q.map.out_mapping_ = m.out_mapping_
        /\ \A s \in DOMAIN m.in_mapping_ : m.in_mapping_[s] \in Live(m) =>
             s \in DOMAIN q.map.in_mapping_ /\ q.map.in_mapping_[s] = m.in_mapping_[s]
    BY <2>2, <2>5, TryKeeps
  <2>7. ASSUME NEW s \in DOMAIN map.in_mapping_, map.in_mapping_[s] \in Live(map)
        PROVE  LET i == map.in_mapping_[s]
               IN /\ i \in DOMAIN q.map.out_mapping_
                  /\ q.map.out_mapping_[i] # nil
                       => s \in DOMAIN q.map.in_mapping_ /\ q.map.in_mapping_[s] = i
                  /\ q.map.out_mapping_[i] = nil => map.out_mapping_[i] \notin outs
    <3> DEFINE i == map.in_mapping_[s]
    <3>1. i \in DOMAIN map.out_mapping_ /\ map.out_mapping_[i] # nil
      BY <2>7 DEF Live
    <3>2. s \in DOMAIN m.in_mapping_ /\ m.in_mapping_[s] = i
      BY <2>3, <2>4, <2>7
    <3>3. /\ i \in DOMAIN m.out_mapping_
          /\ map.out_mapping_[i] \in outs => m.out_mapping_[i] = map.out_mapping_[i]
      BY <2>3, <2>4, <3>1
    <3>4. m.out_mapping_[i] # nil => i \in Live(m)
      BY <3>3 DEF Live
    <3> HIDE DEF i
    <3>5. m.out_mapping_[i] # nil => s \in DOMAIN q.map.in_mapping_ /\ q.map.in_mapping_[s] = i
      BY <2>6, <3>2, <3>4
    <3>6. /\ i \in DOMAIN q.map.out_mapping_
          /\ q.map.out_mapping_[i] # nil
               => s \in DOMAIN q.map.in_mapping_ /\ q.map.in_mapping_[s] = i
          /\ q.map.out_mapping_[i] = nil => map.out_mapping_[i] \notin outs
      BY <2>6, <3>1, <3>3, <3>5
    <3> QED BY <3>6 DEF i
  <2> QED BY <2>6, <2>7
<1>5. CASE r \in second
  BY <1>4, <1>5 DEF Live
<1>6. CASE \E f \in second : \E m \in update(f.map, outs) : r.map = m
  <2>1. PICK f \in second : \E m \in update(f.map, outs) : r.map = m
    BY <1>6
  <2>2. PICK m \in update(f.map, outs) : r.map = m
    BY <2>1
  <2>3. MapOK(f.map, Conn, Stems)
    BY <1>4
  <2>4. /\ m.in_mapping_ = f.map.in_mapping_
        /\ \A i \in DOMAIN f.map.out_mapping_ :
             /\ m.out_mapping_[i] \in outs \cup {nil}
             /\ f.map.out_mapping_[i] \in outs => m.out_mapping_[i] = f.map.out_mapping_[i]
    BY <2>3, UpdateKeeps
  <2>5. MapOK(m, Conn, Stems)
    BY <2>3, UpdateOK
  <2> QED BY <1>4, <2>2, <2>4, <2>5 DEF Live
<1> QED BY <1>1, <1>3, <1>5, <1>6

\* A step leaves the map alone, or begins an epoch, or sends a stem.
LEMMA MapSteps ==
  ASSUME [Next]_vars
  PROVE  \/ map' = map
         \/ \E outs \in SUBSET Conn : map' \in connection_map(outs, Stems)
         \/ \E source : \E outs \in SUBSET Conn : \E r \in SendStem(source, outs) : map' = r.map
<1>1. CASE \E c \in Conn : Connect(c) \/ on_handshake_complete(c) \/ Drop(c) \/ on_connection_close(c)
  BY <1>1, Zenon DEF Connect, on_handshake_complete, Drop, on_connection_close, stems
<1>2. CASE start_epoch
  <2>1. {c \in Out : link[c] # "new"} \subseteq Conn
    BY ConnAssumption
  <2> QED BY <1>2, <2>1 DEF start_epoch
<1>3. CASE Expire \/ Tick \/ UNCHANGED vars
  BY <1>3, Zenon DEF Expire, Tick, vars, stems
<1>4. CASE \E error \in BOOLEAN : fluff_flush(error)
  BY <1>4, Zenon DEF fluff_flush, stems
<1>5. ASSUME NEW t \in Tx, NEW source, Fluff({t}, source) \/ Stem({t}, source)
      PROVE  \/ map' = map
             \/ \E outs \in SUBSET Conn : \E r \in SendStem(source, outs) : map' = r.map
  <2>1. CASE Fluff({t}, source)
    BY <2>1, Zenon DEF Fluff, stems
  <2>2. CASE Stem({t}, source)
    <3>1. SUBSET (Out \cap Up) \subseteq SUBSET Conn
      BY ConnAssumption
    <3>2. \E outs \in SUBSET (Out \cap Up) : \E r \in SendStem(source, outs) : map' = r.map
      BY <2>2, Zenon DEF Stem
    <3> QED BY <3>1, <3>2, Zenon
  <2> QED BY <1>5, <2>1, <2>2
<1>6. CASE \E t \in Tx, source \in Conn \cup {nil} :
             \/ Fluff({t}, source)
             \/ \E local \in BOOLEAN : dandelionpp_notify({t}, source, local)
  <2>1. PICK t \in Tx, source \in Conn \cup {nil} : Fluff({t}, source) \/ Stem({t}, source)
    BY <1>6, Zenon DEF dandelionpp_notify
  <2> QED BY <1>5, <2>1, Zenon
<1> QED BY <1>1, <1>2, <1>3, <1>4, <1>6, Zenon DEF Next

\* The first map is right, and every step keeps it right.
LEMMA MapInvariant == Spec => []MapInv
<1> USE ConnAssumption, StemsAssumption
<1>1. Init => MapInv
  <2> SUFFICES ASSUME Init PROVE MapInv
    OBVIOUS
  <2>1. Out \cap Up \in SUBSET Conn /\ map \in connection_map(Out \cap Up, Stems)
    BY DEF Init
  <2> QED BY <2>1, ConnectionMapOK DEF MapInv
<1>2. MapInv /\ [Next]_vars => MapInv'
  BY MapSteps, ConnectionMapOK, SendStemKeeps DEF MapInv
<1> QED BY <1>1, <1>2, PTL DEF Spec

\* connection_map never lets one connection serve as two stems, and usage_count_
\* always is the number of sources at each stem.
THEOREM MapAlwaysSound == Spec => []MapIsSound
<1>1. MapInv => StemsAreApart
  BY DEF MapInv, MapOK, Apart, StemsAreApart
<1>2. MapInv => UsageIsCounted
  BY DEF MapInv, MapOK, Shape, UsageOK, Users, UsageIsCounted
<1>3. MapInv => MapIsSound
  BY <1>1, <1>2 DEF MapIsSound
<1> QED BY <1>3, MapInvariant, PTL

\* dandelionpp_notify never moves a source away from a stem that stays.
THEOREM StemAlwaysKept == Spec => StemIsKept
<1> USE ConnAssumption, StemsAssumption
<1> DEFINE Kept == \A s \in DOMAIN map.in_mapping_ \cap DOMAIN map'.in_mapping_ :
                     LET i == map.in_mapping_[s]
                     IN i \in Live(map) /\ map'.out_mapping_[i] = map.out_mapping_[i]
                          => map'.in_mapping_[s] = i
<1>1. MapInv /\ [Next]_vars => Kept
  <2> SUFFICES ASSUME MapInv, [Next]_vars PROVE Kept
    OBVIOUS
  <2>1. CASE map' = map
    BY <2>1
  <2>2. CASE \E outs \in SUBSET Conn : map' \in connection_map(outs, Stems)
    <3>1. DOMAIN map'.in_mapping_ = {}
      BY <2>2 DEF connection_map
    <3> QED BY <3>1
  <2>3. CASE \E source : \E outs \in SUBSET Conn : \E r \in SendStem(source, outs) : map' = r.map
    BY <2>3, SendStemKeeps
  <2> QED BY <2>1, <2>2, <2>3, MapSteps
<1>2. [Next]_vars /\ MapInv => [Kept]_vars
  BY <1>1
<1> QED BY <1>2, MapInvariant, PTL DEF Spec, StemIsKept
================================================================================
