----------------------------- MODULE MempoolProofs -----------------------------
(***************************************************************************)
(* For every set of transactions, key images and blocks: the pool's memory *)
(* mirrors its table, a restart always loads it, and what it remembers of  *)
(* the chain is right.                                                     *)
(***************************************************************************)
EXTENDS Mempool, TLAPS

\* Two transactions of a table that spend the same key image: one is kept by a
\* block.
OneSpender(db) ==
  \A t, u \in Entries(db) :
    /\ db[t].relay # "block"
    /\ db[u].relay # "block"
    /\ InputsOf(t) \cap InputsOf(u) # {}
    => t = u

FailedRight(db) ==
  \A t \in Tx : db[t].last_failed_id # null_hash =>
    ~ChainAccepts(ChainAt(db[t].last_failed_id), t)

CacheRight(p, b) ==
  \A t \in Tx : p.input_cache[t] # "unknown" =>
    (p.input_cache[t] = "ok" <=> ChainAccepts(ChainAt(b), t))

Mirrors(p, S) ==
  /\ p.sorted = S
  /\ \A k \in KeyImage : p.images[k] = {t \in S : k \in InputsOf(t)}

\* What every method preserves
Sound(p, b) ==
  /\ p \in Pool
  /\ Mirrors(p, Entries(p.db))
  /\ OneSpender(p.db)
  /\ FailedRight(p.db)
  /\ CacheRight(p, b)

------------------------------------------------------------------------------

\* The inputs of a transaction are key images.
LEMMA InputsType == \A t \in Tx : InputsOf(t) \subseteq KeyImage
BY TxPoolAssumption DEF InputsOf

\* An image that mirrors the table holds a transaction under all of its key
\* images or under none: removing its images removes every trace of it.
LEMMA RemovesAll ==
  ASSUME NEW p \in Pool, Mirrors(p, Entries(p.db)), NEW t \in Tx, NEW k \in KeyImage
  PROVE  remove_transaction_keyimages(p, t)[k] = p.images[k] \ {t}
<1>1. p.images[k] = {u \in Entries(p.db) : k \in InputsOf(u)}
  BY DEF Mirrors
<1>2. remove_transaction_keyimages(p, t)[k]
        = IF k \in RemovedInputs(p, t) THEN p.images[k] \ {t} ELSE p.images[k]
  BY DEF remove_transaction_keyimages, Pool
<1>3. CASE t \in p.images[k]
  <2>1. t \in Entries(p.db) /\ k \in InputsOf(t)
    BY <1>1, <1>3
  <2>2. PICK i \in DOMAIN vin[t] : vin[t][i] = k
    BY <2>1 DEF InputsOf
  <2>3. DOMAIN vin[t] = 1..Len(vin[t]) /\ Len(vin[t]) \in Nat /\ vin[t] \in Seq(KeyImage)
    BY TxPoolAssumption
  <2>4. ASSUME NEW h \in 1..i PROVE t \in p.images[vin[t][h]]
    <3>1. h \in DOMAIN vin[t] /\ vin[t][h] \in KeyImage
      BY <2>2, <2>3
    <3>2. vin[t][h] \in InputsOf(t)
      BY <3>1 DEF InputsOf
    <3> QED BY <3>1, <3>2, <2>1 DEF Mirrors
  <2>5. i \in {j \in DOMAIN vin[t] : \A h \in 1..j : t \in p.images[vin[t][h]]}
    BY <2>2, <2>4
  <2>6. k \in RemovedInputs(p, t)
    BY <2>2, <2>5 DEF RemovedInputs
  <2> QED BY <2>6, <1>2
<1>4. CASE t \notin p.images[k]
  BY <1>2, <1>4
<1> QED BY <1>3, <1>4

\* Drop, field by field.
LEMMA DropFields ==
  ASSUME NEW p \in Pool, Mirrors(p, Entries(p.db)), NEW t \in Tx
  PROVE  /\ Drop(p, t) \in Pool
         /\ Drop(p, t).db = [p.db EXCEPT ![t] = Absent]
         /\ Drop(p, t).sorted = p.sorted \ {t}
         /\ \A k \in KeyImage : Drop(p, t).images[k] = p.images[k] \ {t}
         /\ Drop(p, t).input_cache = p.input_cache
<1>1. remove_transaction_keyimages(p, t) \in [KeyImage -> SUBSET Tx]
  BY DEF remove_transaction_keyimages, Pool
<1>2. \A k \in KeyImage : remove_transaction_keyimages(p, t)[k] = p.images[k] \ {t}
  BY RemovesAll
<1>3. Absent \in txpool_tx_meta_t
  BY DEF Absent, txpool_tx_meta_t
<1>4. tx_weight[t] \in Nat
  BY TxPoolAssumption
<1>5. reduce_txpool_weight(p, tx_weight[t]) \in Nat
  BY <1>4 DEF reduce_txpool_weight, Pool
<1>6. [p.db EXCEPT ![t] = Absent] \in [Tx -> txpool_tx_meta_t]
  BY <1>3 DEF Pool
<1>7. Drop(p, t) \in Pool
  BY <1>1, <1>5, <1>6 DEF Drop, Pool
<1> QED BY <1>2, <1>7 DEF Drop

\* A transaction that leaves takes every trace of itself along.
LEMMA DropSound ==
  ASSUME NEW p, NEW b \in BlockId, Sound(p, b), NEW t \in Tx
  PROVE  /\ Sound(Drop(p, t), b)
         /\ Entries(Drop(p, t).db) = Entries(p.db) \ {t}
<1> DEFINE d == Drop(p, t)
<1>0. p \in Pool /\ Mirrors(p, Entries(p.db))
  BY DEF Sound
<1>1. /\ d \in Pool
      /\ d.db = [p.db EXCEPT ![t] = Absent]
      /\ d.sorted = p.sorted \ {t}
      /\ \A k \in KeyImage : d.images[k] = p.images[k] \ {t}
      /\ d.input_cache = p.input_cache
  BY <1>0, DropFields
<1> HIDE DEF d
<1>2. p.db \in [Tx -> txpool_tx_meta_t]
  BY <1>0 DEF Pool
<1>3. \A u \in Tx : d.db[u] = IF u = t THEN Absent ELSE p.db[u]
  BY <1>1, <1>2
<1>4. Entries(d.db) = Entries(p.db) \ {t}
  BY <1>3 DEF Entries, Absent
<1>5. Mirrors(d, Entries(d.db))
  BY <1>0, <1>1, <1>4 DEF Mirrors
<1>6. OneSpender(d.db)
  <2>1. \A u \in Entries(d.db) : u \in Entries(p.db) /\ d.db[u] = p.db[u]
    BY <1>3, <1>4 DEF Entries
  <2> QED BY <2>1 DEF Sound, OneSpender
<1>7. FailedRight(d.db)
  BY <1>3 DEF Sound, FailedRight, Absent
<1>8. CacheRight(d, b)
  BY <1>1 DEF Sound, CacheRight
<1> QED BY <1>1, <1>4, <1>5, <1>6, <1>7, <1>8 DEF Sound, d

\* When no image refuses the transaction, all of its images are inserted.
LEMMA InsertsAll ==
  ASSUME NEW p \in Pool, NEW t \in Tx, NEW relay,
         \A k \in InputsOf(t) : CanInsert(p, t, relay, k),
         NEW k \in KeyImage
  PROVE  insert_key_images(p, t, relay)[k]
           = IF k \in InputsOf(t) THEN p.images[k] \cup {t} ELSE p.images[k]
<1>1. DOMAIN vin[t] = 1..Len(vin[t]) /\ Len(vin[t]) \in Nat
  BY TxPoolAssumption
<1>2. \A j \in DOMAIN vin[t] : \A h \in 1..j : h \in DOMAIN vin[t]
  BY <1>1
<1>3. \A j \in DOMAIN vin[t] : \A h \in 1..j : CanInsert(p, t, relay, vin[t][h])
  BY <1>2 DEF InputsOf
<1>4. InsertedInputs(p, t, relay) = InputsOf(t)
  BY <1>3 DEF InsertedInputs, InputsOf
<1> QED BY <1>4 DEF insert_key_images

\* A transaction that is stored leaves the pool sound if none of its images refuses
\* it and, unless a block keeps it, no other transaction spends them.
LEMMA StoreSound ==
  ASSUME NEW p, NEW b \in BlockId, Sound(p, b), NEW t \in Tx,
         NEW meta \in txpool_tx_meta_t, NEW added \in BOOLEAN,
         meta.relay # "absent",
         meta.last_failed_id = null_hash,
         \A k \in InputsOf(t) : CanInsert(p, t, meta.relay, k),
         meta.relay # "block" => \A k \in InputsOf(t) : p.images[k] \subseteq {t}
  PROVE  Sound(Store(p, t, meta, added), b)
<1> DEFINE s == Store(p, t, meta, added)
<1>0. p \in Pool /\ Mirrors(p, Entries(p.db))
  BY DEF Sound
<1>1. insert_key_images(p, t, meta.relay) \in [KeyImage -> SUBSET Tx]
  BY <1>0 DEF insert_key_images, Pool
<1>2. \A k \in KeyImage : insert_key_images(p, t, meta.relay)[k]
           = IF k \in InputsOf(t) THEN p.images[k] \cup {t} ELSE p.images[k]
  BY <1>0, InsertsAll
<1>3. [p.db EXCEPT ![t] = meta] \in [Tx -> txpool_tx_meta_t]
  BY <1>0 DEF Pool
<1>4. (IF added THEN p.weight + tx_weight[t] ELSE p.weight) \in Nat
  BY <1>0, TxPoolAssumption DEF Pool
<1>5. s \in Pool
  BY <1>0, <1>1, <1>3, <1>4 DEF Store, Pool
<1>6. \A u \in Tx : s.db[u] = IF u = t THEN meta ELSE p.db[u]
  BY <1>0 DEF Store, Pool
<1>7. s.images = insert_key_images(p, t, meta.relay) /\ s.sorted = p.sorted \cup {t}
        /\ s.input_cache = p.input_cache
  BY DEF Store
<1> HIDE DEF s
<1>8. Entries(s.db) = Entries(p.db) \cup {t}
  BY <1>6 DEF Entries
<1>9. Mirrors(s, Entries(s.db))
  BY Zenon, <1>0, <1>2, <1>7, <1>8 DEF Mirrors
<1>10. OneSpender(s.db)
  <2> SUFFICES ASSUME NEW u \in Entries(s.db), NEW w \in Entries(s.db),
                      s.db[u].relay # "block", s.db[w].relay # "block",
                      InputsOf(u) \cap InputsOf(w) # {}
               PROVE  u = w
    BY Zenon DEF OneSpender
  <2>0. OneSpender(p.db)
    BY DEF Sound
  <2>1. PICK k \in KeyImage : k \in InputsOf(u) /\ k \in InputsOf(w)
    BY InputsType DEF Entries
  <2>2. u \in Tx /\ w \in Tx
    BY DEF Entries
  <2>3. CASE u # t /\ w # t
    <3>1. u \in Entries(p.db) /\ w \in Entries(p.db)
      BY <2>3, <1>8
    <3>2. p.db[u].relay # "block" /\ p.db[w].relay # "block"
      BY <2>3, <2>2, <1>6
    <3> QED BY <3>1, <3>2, <2>0 DEF OneSpender
  <2>4. CASE u = t /\ w # t
    <3>1. meta.relay # "block" /\ w \in Entries(p.db)
      BY <2>4, <2>2, <1>6, <1>8
    <3>2. w \in p.images[k]
      BY <3>1, <2>1, <1>0 DEF Mirrors
    <3> QED BY <3>1, <3>2, <2>1, <2>4
  <2>5. CASE u # t /\ w = t
    <3>1. meta.relay # "block" /\ u \in Entries(p.db)
      BY <2>5, <2>2, <1>6, <1>8
    <3>2. u \in p.images[k]
      BY <3>1, <2>1, <1>0 DEF Mirrors
    <3> QED BY <3>1, <3>2, <2>1, <2>5
  <2> QED BY <2>3, <2>4, <2>5
<1>11. FailedRight(s.db)
  BY <1>6 DEF Sound, FailedRight
<1>12. CacheRight(s, b)
  BY <1>7 DEF Sound, CacheRight
<1> QED BY <1>5, <1>9, <1>10, <1>11, <1>12 DEF Sound, s

\* A pool that differs from a sound one in its cookie only, is sound.
LEMMA TouchSound ==
  ASSUME NEW p, NEW b \in BlockId, Sound(p, b), NEW x \in BOOLEAN
  PROVE  Sound([p EXCEPT !.touched = x], b)
<1> DEFINE q == [p EXCEPT !.touched = x]
<1>0. p \in Pool
  BY DEF Sound
<1>1. q \in Pool /\ q.db = p.db /\ q.images = p.images /\ q.sorted = p.sorted
        /\ q.input_cache = p.input_cache
  BY <1>0 DEF Pool
<1> HIDE DEF q
<1>2. Mirrors(q, Entries(q.db)) /\ CacheRight(q, b)
  BY <1>1 DEF Sound, Mirrors, CacheRight
<1>3. OneSpender(q.db) /\ FailedRight(q.db)
  BY <1>1 DEF Sound
<1> QED BY <1>1, <1>2, <1>3 DEF Sound, q

\* Caching the chain's answer keeps the pool sound.
LEMMA CacheSound ==
  ASSUME NEW p, NEW b \in BlockId, Sound(p, b), NEW t \in Tx
  PROVE  /\ Sound(CacheInputs(p, ChainAt(b), t), b)
         /\ CacheInputs(p, ChainAt(b), t).db = p.db
         /\ CacheInputs(p, ChainAt(b), t).images = p.images
         /\ CacheInputs(p, ChainAt(b), t).sorted = p.sorted
<1> DEFINE q == CacheInputs(p, ChainAt(b), t)
           v == IF p.input_cache[t] # "unknown" THEN p.input_cache[t]
                ELSE IF ChainAccepts(ChainAt(b), t) THEN "ok" ELSE "failed"
<1>0. p \in Pool
  BY DEF Sound
<1>1. v \in {"unknown", "ok", "failed"}
  BY <1>0 DEF Pool
<1>2. v = "ok" <=> ChainAccepts(ChainAt(b), t)
  BY <1>0 DEF Sound, CacheRight, Pool
<1>3. q = [p EXCEPT !.input_cache = [p.input_cache EXCEPT ![t] = v]]
  BY DEF CacheInputs
<1> HIDE DEF q, v
<1>4. q \in Pool /\ q.db = p.db /\ q.images = p.images /\ q.sorted = p.sorted
        /\ q.input_cache = [p.input_cache EXCEPT ![t] = v]
  BY <1>0, <1>1, <1>3 DEF Pool
<1>5. \A u \in Tx : q.input_cache[u] = IF u = t THEN v ELSE p.input_cache[u]
  BY <1>0, <1>4 DEF Pool
<1>6. CacheRight(q, b)
  BY <1>2, <1>5 DEF Sound, CacheRight
<1>7. Mirrors(q, Entries(q.db))
  BY <1>4 DEF Sound, Mirrors
<1> QED BY <1>4, <1>6, <1>7 DEF Sound, q

\* A change of the table that keeps every relay method, and the failed block or
\* records one that is right, keeps the pool sound.
LEMMA TableSound ==
  ASSUME NEW p, NEW q, NEW b \in BlockId, Sound(p, b), q \in Pool,
         q.images = p.images, q.sorted = p.sorted, CacheRight(q, b),
         \A t \in Tx : q.db[t].relay = p.db[t].relay,
         FailedRight(q.db)
  PROVE  Sound(q, b)
<1>1. Entries(q.db) = Entries(p.db)
  BY DEF Entries
<1>2. Mirrors(q, Entries(q.db))
  BY <1>1 DEF Sound, Mirrors
<1>3. OneSpender(q.db)
  BY <1>1 DEF Sound, OneSpender, Entries
<1> QED BY <1>2, <1>3 DEF Sound

\* mark_double_spend changes no more than double_spend_seen, so the pool stays sound.
LEMMA MarkSound ==
  ASSUME NEW p, NEW b \in BlockId, Sound(p, b), NEW t \in Tx
  PROVE  Sound(mark_double_spend(p, t), b)
<1> DEFINE seen == {u \in Tx : /\ InPool(p, u)
                               /\ \E k \in InputsOf(t) : u \in p.images[k]
                               /\ ~p.db[u].double_spend_seen}
           db == [u \in Tx |-> IF u \in seen
                    THEN [p.db[u] EXCEPT !.double_spend_seen = TRUE] ELSE p.db[u]]
           q == mark_double_spend(p, t)
<1>0. p \in Pool
  BY DEF Sound
<1>1. q = [p EXCEPT !.db = db, !.touched = p.touched \/ seen # {}]
  BY DEF mark_double_spend
<1>2. db \in [Tx -> txpool_tx_meta_t]
  <2>1. \A u \in Tx : p.db[u] \in txpool_tx_meta_t
    BY <1>0 DEF Pool
  <2>2. \A u \in Tx : [p.db[u] EXCEPT !.double_spend_seen = TRUE] \in txpool_tx_meta_t
    BY Zenon, <2>1 DEF txpool_tx_meta_t
  <2> HIDE DEF seen
  <2> QED BY <2>1, <2>2
<1>3. \A u \in Tx : db[u].relay = p.db[u].relay /\ db[u].last_failed_id = p.db[u].last_failed_id
  BY <1>0 DEF Pool, txpool_tx_meta_t
<1>4. (p.touched \/ seen # {}) \in BOOLEAN
  OBVIOUS
<1> HIDE DEF q, db, seen
<1>5. q \in Pool /\ q.db = db /\ q.images = p.images /\ q.sorted = p.sorted
        /\ q.input_cache = p.input_cache
  BY Zenon, <1>0, <1>1, <1>2, <1>4 DEF Pool
<1>6. CacheRight(q, b)
  BY <1>5 DEF Sound, CacheRight
<1>7. FailedRight(q.db)
  BY <1>3, <1>5 DEF Sound, FailedRight
<1>8. \A u \in Tx : q.db[u].relay = p.db[u].relay
  BY <1>3, <1>5
<1>9. Sound(q, b)
  BY <1>5, <1>6, <1>7, <1>8, TableSound
<1> QED BY <1>9 DEF q

\* No image refuses a transaction that is not public in the pool and that either
\* comes with a block or meets no other spender.
LEMMA NotRefused ==
  ASSUME NEW p, NEW t \in Tx, ~IsLegacy(p, t), NEW relay,
         relay = "block" \/ ~have_tx_keyimges_as_spent(p, t)
  PROVE  /\ \A k \in InputsOf(t) : CanInsert(p, t, relay, k)
         /\ insert_key_images_ok(p, t, relay)
         /\ relay # "block" => \A k \in InputsOf(t) : p.images[k] \subseteq {t}
<1>1. relay # "block" => \A k \in InputsOf(t) : p.images[k] \subseteq {t}
  BY DEF have_tx_keyimges_as_spent, have_tx_keyimg_as_spent
<1>2. \A k \in InputsOf(t) : CanInsert(p, t, relay, k)
  BY <1>1 DEF CanInsert
<1> QED BY <1>1, <1>2 DEF insert_key_images_ok

\* upgrade_relay_method returns the old or the new method, and never a lower one.
LEMMA UpgradeType ==
  ASSUME NEW old \in relay_method \cup {"absent"}, NEW new \in relay_method
  PROVE  /\ upgrade_relay_method(old, new) \in {old, new}
         /\ upgrade_relay_method("absent", new) = new
         /\ RelayRank(old) <= RelayRank(upgrade_relay_method(old, new))
<1>1. RelayRank(old) \in 0..6 /\ RelayRank(new) \in 1..6 /\ RelayRank("absent") = 0
  BY DEF RelayRank, relay_method
<1> QED BY <1>1 DEF upgrade_relay_method

\* add_tx of a transaction whose inputs pass keeps the pool sound.
LEMMA PassedSound ==
  ASSUME NEW p, NEW b \in BlockId, Sound(p, b), NEW t \in Tx, ~IsLegacy(p, t),
         NEW relay \in relay_method,
         relay = "block" \/ ~have_tx_keyimges_as_spent(p, t)
  PROVE  LET r == AddPassed(p, t, relay) IN
         /\ Sound(r.pool, b)
         /\ r.ok = TRUE
         /\ t \notin Entries(p.db) => r.pool.db[t].relay = relay
<1> DEFINE method == IF relay = "stem" /\ p.db[t].relay = "stem" THEN "fluff" ELSE relay
           better == upgrade_relay_method(p.db[t].relay, method)
           meta   == [relay |-> better, last_failed_id |-> null_hash,
                      double_spend_seen |-> FALSE]
           r      == AddPassed(p, t, relay)
<1>0. p \in Pool /\ p.db[t] \in txpool_tx_meta_t
  BY DEF Sound, Pool
<1>1. method \in relay_method
  BY DEF relay_method
<1>2. method = "block" \/ ~have_tx_keyimges_as_spent(p, t)
  OBVIOUS
<1>3. p.db[t].relay \in relay_method \cup {"absent"}
  BY <1>0 DEF txpool_tx_meta_t
<1>4. t \notin Entries(p.db) => p.db[t].relay = "absent" /\ method = relay
  BY DEF Entries
<1> HIDE DEF method
<1>5. better \in {p.db[t].relay, method} /\ upgrade_relay_method("absent", method) = method
  BY <1>1, <1>3, UpgradeType
<1>6. r = IF better = p.db[t].relay
            THEN Result([p EXCEPT !.touched = TRUE], TRUE)
          ELSE IF insert_key_images_ok(p, t, method)
            THEN Result(Store(p, t, meta, ~InPool(p, t)), TRUE)
            ELSE Refuse(p, t, method)
  BY DEF AddPassed, method
<1> HIDE DEF better, r
<1>7. CASE better = p.db[t].relay
  <2>1. r.pool = [p EXCEPT !.touched = TRUE] /\ r.ok = TRUE
    BY <1>6, <1>7 DEF Result
  <2>2. Sound(r.pool, b)
    BY Zenon, <2>1, TouchSound
  <2>3. t \in Entries(p.db)
    BY <1>1, <1>4, <1>5, <1>7 DEF better, relay_method
  <2> QED BY <2>1, <2>2, <2>3 DEF r
<1>8. CASE better # p.db[t].relay
  <2>1. better = method
    BY <1>5, <1>8
  <2>2. /\ \A k \in InputsOf(t) : CanInsert(p, t, method, k)
        /\ insert_key_images_ok(p, t, method)
        /\ method # "block" => \A k \in InputsOf(t) : p.images[k] \subseteq {t}
    BY Zenon, <1>2, NotRefused
  <2>3. r.pool = Store(p, t, meta, ~InPool(p, t)) /\ r.ok = TRUE
    BY <1>6, <1>8, <2>2 DEF Result
  <2>4. meta \in txpool_tx_meta_t /\ meta.relay = method /\ meta.last_failed_id = null_hash
    BY <1>1, <2>1 DEF txpool_tx_meta_t
  <2>5. method # "absent"
    BY <1>1 DEF relay_method
  <2>6. (~InPool(p, t)) \in BOOLEAN
    BY DEF InPool
  <2>7. Store(p, t, meta, ~InPool(p, t)).db[t] = meta
    BY <1>0 DEF Store, Pool
  <2> HIDE DEF meta
  <2>8. Sound(r.pool, b)
    BY Zenon, <2>2, <2>3, <2>4, <2>5, <2>6, StoreSound
  <2> QED BY <2>3, <2>4, <2>7, <2>8, <1>4 DEF r
<1> QED BY Zenon, <1>7, <1>8

\* add_tx of a transaction of a block whose inputs fail keeps the pool sound.
LEMMA FailedSound ==
  ASSUME NEW p, NEW b \in BlockId, Sound(p, b), NEW t \in Tx, ~IsLegacy(p, t)
  PROVE  LET r == AddFailed(p, t) IN
         Sound(r.pool, b) /\ r.ok = TRUE /\ r.pool.db[t].relay = "block"
<1> DEFINE meta == [relay |-> "block", last_failed_id |-> null_hash,
                    double_spend_seen |-> have_tx_keyimges_as_spent(p, t)]
           r == AddFailed(p, t)
<1>0. p \in Pool
  BY DEF Sound
<1>1. /\ \A k \in InputsOf(t) : CanInsert(p, t, "block", k)
      /\ insert_key_images_ok(p, t, "block")
  BY NotRefused
<1>2. r.pool = Store(p, t, meta, TRUE) /\ r.ok = TRUE
  BY <1>1 DEF AddFailed, Result
<1>3. meta \in txpool_tx_meta_t /\ meta.relay = "block" /\ meta.last_failed_id = null_hash
  BY DEF txpool_tx_meta_t, relay_method, have_tx_keyimges_as_spent
<1>4. Store(p, t, meta, TRUE).db[t] = meta
  BY <1>0 DEF Store, Pool
<1> HIDE DEF meta, r
<1>5. Sound(r.pool, b)
  BY Zenon, <1>1, <1>2, <1>3, StoreSound
<1> QED BY Zenon, <1>2, <1>3, <1>4, <1>5 DEF r

\* add_tx, up to its prune, of a transaction that is not public in the pool.
LEMMA EnterSound ==
  ASSUME NEW p, NEW b \in BlockId, Sound(p, b), NEW t \in Tx, ~IsLegacy(p, t),
         NEW relay \in relay_method
  PROVE  LET r == enter_tx(p, ChainAt(b), t, relay) IN
         /\ Sound(r.pool, b)
         /\ r.ok \in BOOLEAN
         /\ r.ok /\ t \notin Entries(p.db) => r.pool.db[t].relay = relay
<1> DEFINE c    == ChainAt(b)
           kept == relay = "block"
           cached == IF kept THEN p ELSE CacheInputs(p, c, t)
           r    == enter_tx(p, c, t, relay)
<1>1. r = IF ~kept /\ t \in p.timed_out
            THEN Result(p, FALSE)
          ELSE IF ~kept /\ have_tx_keyimges_as_spent(p, t)
            THEN Result(mark_double_spend(p, t), FALSE)
          ELSE IF check_tx_inputs(p, c, t, kept)
            THEN AddPassed(cached, t, relay)
          ELSE IF kept
            THEN AddFailed(p, t)
            ELSE Result(cached, FALSE)
  BY DEF enter_tx
<1>2. Sound(cached, b) /\ cached.db = p.db /\ cached.images = p.images
  BY CacheSound
<1> HIDE DEF cached, r
<1>3. CASE ~kept /\ t \in p.timed_out
  BY <1>1, <1>3 DEF Result, r
<1>4. CASE ~(~kept /\ t \in p.timed_out) /\ ~kept /\ have_tx_keyimges_as_spent(p, t)
  <2>1. r = Result(mark_double_spend(p, t), FALSE)
    BY Zenon, <1>1, <1>4
  <2> QED BY <2>1, MarkSound DEF Result, r
<1>5. CASE /\ ~(~kept /\ t \in p.timed_out)
           /\ ~(~kept /\ have_tx_keyimges_as_spent(p, t))
           /\ check_tx_inputs(p, c, t, kept)
  <2>1. r = AddPassed(cached, t, relay)
    BY Zenon, <1>1, <1>5
  <2>2. ~IsLegacy(cached, t)
    BY <1>2 DEF IsLegacy
  <2>3. relay = "block" \/ ~have_tx_keyimges_as_spent(cached, t)
    BY <1>2, <1>5 DEF have_tx_keyimges_as_spent, have_tx_keyimg_as_spent, IsLegacy
  <2>4. /\ Sound(r.pool, b)
        /\ r.ok = TRUE
        /\ t \notin Entries(cached.db) => r.pool.db[t].relay = relay
    BY Zenon, <2>1, <2>2, <2>3, <1>2, PassedSound
  <2> QED BY Zenon, <2>4, <1>2 DEF r
<1>6. CASE /\ ~(~kept /\ t \in p.timed_out)
           /\ ~(~kept /\ have_tx_keyimges_as_spent(p, t))
           /\ ~check_tx_inputs(p, c, t, kept)
           /\ kept
  <2>1. r = AddFailed(p, t)
    BY <1>1, <1>6
  <2>2. Sound(r.pool, b) /\ r.ok = TRUE /\ r.pool.db[t].relay = "block"
    BY Zenon, <2>1, FailedSound
  <2> QED BY Zenon, <2>2, <1>6 DEF r
<1>7. CASE /\ ~(~kept /\ t \in p.timed_out)
           /\ ~(~kept /\ have_tx_keyimges_as_spent(p, t))
           /\ ~check_tx_inputs(p, c, t, kept)
           /\ ~kept
  <2>1. r = Result(cached, FALSE)
    BY Zenon, <1>1, <1>7
  <2> QED BY <2>1, <1>2 DEF Result, r
<1> QED BY Zenon, <1>3, <1>4, <1>5, <1>6, <1>7

\* set_relayed keeps the pool sound.
LEMMA SetRelayedSound ==
  ASSUME NEW p, NEW b \in BlockId, Sound(p, b), NEW t \in Tx,
         NEW method \in relay_method
  PROVE  Sound(set_relayed(p, t, method), b)
<1> DEFINE better == upgrade_relay_method(p.db[t].relay, method)
           q == set_relayed(p, t, method)
<1>0. p \in Pool /\ p.db \in [Tx -> txpool_tx_meta_t]
  BY DEF Sound, Pool
<1>1. CASE ~InPool(p, t)
  BY <1>1 DEF set_relayed
<1>2. CASE InPool(p, t)
  <2>0. p.db[t] \in txpool_tx_meta_t
    BY <1>0
  <2>1. better \in {p.db[t].relay, method}
    BY <2>0, UpgradeType DEF txpool_tx_meta_t
  <2>2. t \in Entries(p.db) /\ p.sorted = Entries(p.db)
    BY <1>2 DEF Entries, InPool, Sound, Mirrors
  <2> DEFINE meta == [p.db[t] EXCEPT !.relay = better]
  <2>a. q = [p EXCEPT !.db = [p.db EXCEPT ![t] = meta], !.sorted = p.sorted]
    BY Zenon, <1>2, <2>2 DEF set_relayed
  <2>5. meta \in txpool_tx_meta_t /\ meta.relay = better
          /\ meta.last_failed_id = p.db[t].last_failed_id
    BY <2>0, <2>1 DEF txpool_tx_meta_t
  <2> HIDE DEF meta, q
  <2>b. [p.db EXCEPT ![t] = meta] \in [Tx -> txpool_tx_meta_t]
    BY <1>0, <2>5
  <2>6. q \in Pool
    BY Zenon, <1>0, <2>a, <2>b DEF Pool
  <2>4. q.db = [p.db EXCEPT ![t] = meta] /\ q.images = p.images /\ q.sorted = p.sorted
          /\ q.input_cache = p.input_cache
    BY <1>0, <2>a DEF Pool
  <2>7. \A u \in Tx : q.db[u] = IF u = t THEN meta ELSE p.db[u]
    BY <1>0, <2>4
  <2>8. better # "absent"
    BY <1>2, <2>1 DEF InPool, relay_method
  <2>9. Entries(q.db) = Entries(p.db)
    BY <2>5, <2>7, <2>8, <2>2 DEF Entries
  <2>10. Mirrors(q, Entries(q.db)) /\ CacheRight(q, b)
    BY <2>4, <2>9 DEF Sound, Mirrors, CacheRight
  <2>11. FailedRight(q.db)
    BY <2>5, <2>7 DEF Sound, FailedRight
  <2>12. p.db[t].relay = "block" => better = "block"
    BY DEF upgrade_relay_method, RelayRank, relay_method
  <2>13. \A u \in Tx : q.db[u].relay # "block" => p.db[u].relay # "block"
    BY <2>5, <2>7, <2>12
  <2>14. OneSpender(q.db)
    BY <2>9, <2>13 DEF Sound, OneSpender, Entries
  <2> QED BY <2>6, <2>10, <2>11, <2>14 DEF Sound, q
<1> QED BY <1>1, <1>2

\* is_transaction_ready_to_go records last_failed_id and the cached verdict rightly.
LEMMA AskSound ==
  ASSUME NEW p, NEW b \in BlockId, Sound(p, b), NEW t \in Tx
  PROVE  /\ Sound(AskReady(p, ChainAt(b), t), b)
         /\ Entries(AskReady(p, ChainAt(b), t).db) = Entries(p.db)
         /\ is_transaction_ready_to_go(p, ChainAt(b), t) => ChainAccepts(ChainAt(b), t)
<1> DEFINE c == ChainAt(b)
           m == CacheInputs(p, c, t)
           a == AskReady(p, c, t)
           ready == is_transaction_ready_to_go(p, c, t)
<1>0. p \in Pool
  BY DEF Sound
<1>1. check_tx_inputs(p, c, t, FALSE) <=> ChainAccepts(c, t)
  BY <1>0 DEF check_tx_inputs, Sound, CacheRight, Pool
<1>2. c.top = b
  BY DEF ChainAt
<1>3. ready <=> (p.db[t].last_failed_id # b /\ ChainAccepts(c, t))
  BY Zenon, <1>1, <1>2 DEF is_transaction_ready_to_go
<1>4. a = IF p.db[t].last_failed_id = b THEN p ELSE IF ready THEN m
          ELSE [m EXCEPT !.db = [m.db EXCEPT ![t].last_failed_id = b]]
  BY <1>2 DEF AskReady
<1>5. Sound(m, b) /\ m.db = p.db /\ m.images = p.images /\ m.sorted = p.sorted
  BY CacheSound
<1> HIDE DEF m, a, ready
<1>6. CASE p.db[t].last_failed_id = b
  BY <1>3, <1>4, <1>6 DEF a, ready
<1>7. CASE p.db[t].last_failed_id # b /\ ready
  BY <1>3, <1>4, <1>5, <1>7 DEF a, ready
<1>8. CASE p.db[t].last_failed_id # b /\ ~ready
  <2>0. m \in Pool /\ m.db \in [Tx -> txpool_tx_meta_t] /\ m.db[t] \in txpool_tx_meta_t
    BY <1>5 DEF Sound, Pool
  <2> DEFINE meta == [m.db[t] EXCEPT !.last_failed_id = b]
             db == [m.db EXCEPT ![t] = meta]
  <2>1. meta \in txpool_tx_meta_t /\ meta.relay = m.db[t].relay /\ meta.last_failed_id = b
    BY <2>0 DEF txpool_tx_meta_t
  <2>2. a = [m EXCEPT !.db = db]
    BY <1>4, <1>8, <2>0
  <2> HIDE DEF meta
  <2>3. db \in [Tx -> txpool_tx_meta_t] /\ \A u \in Tx : db[u] = IF u = t THEN meta ELSE m.db[u]
    BY <2>0, <2>1
  <2> HIDE DEF db
  <2>4. a \in Pool /\ a.db = db /\ a.images = m.images /\ a.sorted = m.sorted
          /\ a.input_cache = m.input_cache
    BY <2>0, <2>2, <2>3 DEF Pool
  <2>5. CacheRight(a, b)
    BY <2>4, <1>5 DEF Sound, CacheRight
  <2>6. \A u \in Tx : a.db[u].relay = m.db[u].relay
    BY <2>1, <2>3, <2>4
  <2>7. ~ChainAccepts(ChainAt(b), t)
    BY <1>3, <1>8
  <2>8. FailedRight(a.db)
    BY <2>1, <2>3, <2>4, <2>7, <1>5 DEF Sound, FailedRight
  <2>9. Sound(a, b)
    BY <1>5, <2>4, <2>5, <2>6, <2>8, TableSound
  <2>10. Entries(a.db) = Entries(p.db)
    BY <2>6, <1>5 DEF Entries
  <2> QED BY <2>9, <2>10, <1>8 DEF a, ready
<1> QED BY <1>6, <1>7, <1>8

------------------------------------------------------------------------------
(* The inductive invariant *)

\* While init loads: the memory mirrors what it has come to, and it comes to the
\* transactions kept by a block last.
Loading ==
  /\ pool \in Pool
  /\ pool.db = disk
  /\ Mirrors(pool, Entries(disk) \ todo)
  /\ CacheRight(pool, top)
  /\ todo \subseteq Entries(disk)
  /\ \A u \in Entries(disk) \ todo, t \in todo :
       disk[u].relay = "block" => disk[t].relay = "block"

\* validate: it revalidates entries of the committed table, and what it has just
\* added back has the relay method of its committed entry.
Revalidating ==
  /\ left \subseteq Entries(disk)
  /\ call = "validate" => entry = {}
  /\ \A t \in entry : InPool(pool, t) => pool.db[t].relay = disk[t].relay

DiskRight == OneSpender(disk) /\ FailedRight(disk)

IInv ==
  /\ TypeOK
  /\ DiskRight
  /\ call # "failed"
  /\ call # "load" => Sound(pool, top)
  /\ call = "load" => Loading
  /\ call = "idle" => disk = pool.db
  /\ call \in {"validate", "revalidate"} => Revalidating
  /\ TemplateIsMinable

\* The parts of soundness that the steps below use.
LEMMA SoundParts ==
  ASSUME NEW p, NEW b, Sound(p, b)
  PROVE  p \in Pool /\ OneSpender(p.db) /\ FailedRight(p.db) /\ p.sorted \subseteq Tx
           /\ p.db \in [Tx -> txpool_tx_meta_t]
BY DEF Sound, Pool

\* The empty pool satisfies the inductive invariant.
LEMMA InitIInv == Init => IInv
<1> SUFFICES ASSUME Init PROVE IInv
  OBVIOUS
<1>1. EmptyPool \in Pool
  BY DEF EmptyPool, Unloaded, Pool, Absent, txpool_tx_meta_t
<1>2. Entries(EmptyPool.db) = {}
  BY DEF EmptyPool, Unloaded, Entries, Absent
<1>3. Mirrors(EmptyPool, {})
  BY DEF Mirrors, EmptyPool, Unloaded
<1>4. OneSpender(EmptyPool.db)
  BY <1>2 DEF OneSpender
<1>5. FailedRight(EmptyPool.db)
  BY DEF FailedRight, EmptyPool, Unloaded, Absent
<1>6. CacheRight(EmptyPool, top)
  BY DEF CacheRight, EmptyPool, Unloaded
<1>7. Sound(pool, top)
  BY <1>1, <1>2, <1>3, <1>4, <1>5, <1>6 DEF Sound, Init
<1>8. TypeOK
  BY <1>1 DEF TypeOK, Init, Calls, Pool
<1>9. DiskRight
  BY <1>4, <1>5 DEF DiskRight, Init
<1> QED BY <1>7, <1>8, <1>9 DEF IInv, Init, TemplateIsMinable

\* A method that ends here, or goes on to a prune, having committed a sound pool.
LEMMA CommittedIInv ==
  ASSUME IInv, Sound(pool', top'), top' \in BlockId, Commit,
         call' \in {"idle", "prune"}, todo' \subseteq Tx,
         left' \subseteq Tx, entry' \subseteq Tx, chosen' \subseteq Tx
  PROVE  IInv'
<1>1. pool' \in Pool /\ OneSpender(pool'.db) /\ FailedRight(pool'.db)
        /\ pool'.db \in [Tx -> txpool_tx_meta_t]
  BY SoundParts
<1>2. TypeOK'
  BY <1>1 DEF TypeOK, Commit, Calls
<1>3. DiskRight'
  BY Zenon, <1>1 DEF DiskRight, Commit, OneSpender, FailedRight, Entries, InputsOf, ChainAccepts, ChainAt
<1> QED BY <1>2, <1>3 DEF IInv, Commit, TemplateIsMinable

\* AddTx preserves the inductive invariant.
LEMMA AddTxStep ==
  ASSUME IInv, NEW t \in Tx, NEW m \in add_methods[t], AddTx(t, m)
  PROVE  IInv'
<1> DEFINE r == enter_tx(pool, View, t, m)
<1>1. Sound(pool, top) /\ top \in BlockId /\ ~IsLegacy(pool, t) /\ m \in relay_method
  BY Zenon, MempoolAssumption DEF IInv, TypeOK, AddTx
<1>2. Sound(r.pool, top) /\ r.ok \in BOOLEAN
  BY <1>1, EnterSound DEF View
<1>3. PruneSet(r.pool) \subseteq Tx
  BY <1>2, SoundParts DEF PruneSet
<1>4. /\ pool' = r.pool /\ top' = top /\ Commit
      /\ \/ call' = "prune" /\ todo' = PruneSet(r.pool)
         \/ call' = "idle" /\ todo' = todo
      /\ left' = left /\ entry' = entry /\ chosen' = chosen
  BY DEF AddTx
<1> HIDE DEF r
<1> QED BY Zenon, <1>1, <1>2, <1>3, <1>4, CommittedIInv DEF IInv, TypeOK

\* A turn of prune's loop.
LEMMA PruneOneSound ==
  ASSUME NEW p, NEW b \in BlockId, Sound(p, b), NEW t \in Tx
  PROVE  /\ Sound(prune_one(p, t), b)
         /\ \A u \in Tx : InPool(prune_one(p, t), u) => prune_one(p, t).db[u] = p.db[u]
<1>1. CASE prune_one(p, t) = p
  BY <1>1
<1>2. CASE prune_one(p, t) = Drop(p, t)
  <2>1. Sound(Drop(p, t), b)
    BY DropSound
  <2>2. Drop(p, t).db = [p.db EXCEPT ![t] = Absent]
    BY DEF Drop
  <2>3. p.db \in [Tx -> txpool_tx_meta_t]
    BY SoundParts
  <2>4. \A u \in Tx : Drop(p, t).db[u] = IF u = t THEN Absent ELSE p.db[u]
    BY <2>2, <2>3
  <2>5. \A u \in Tx : InPool(Drop(p, t), u) => Drop(p, t).db[u] = p.db[u]
    BY <2>4 DEF InPool, Absent
  <2> QED BY <1>2, <2>1, <2>5
<1> QED BY <1>1, <1>2 DEF prune_one

\* A turn of prune preserves the inductive invariant.
LEMMA PruneStepStep ==
  ASSUME IInv, PruneStep
  PROVE  IInv'
<1>1. /\ Sound(pool, top) /\ top \in BlockId /\ todo \subseteq Tx
      /\ call \in {"prune", "revalidate"}
  BY DEF IInv, TypeOK, PruneStep, Pruning
<1>2. PICK t \in todo : pool' = prune_one(pool, t) /\ todo' = todo \ {t}
  BY DEF PruneStep, Cheapest
<1>3. UNCHANGED <<top, disk, call, left, entry, chosen>>
  BY DEF PruneStep
<1>4. t \in Tx
  BY <1>1, <1>2
<1>5. Sound(pool', top)
  BY <1>1, <1>2, <1>4, PruneOneSound
<1>6. \A u \in Tx : InPool(pool', u) => pool'.db[u] = pool.db[u]
  BY <1>1, <1>2, <1>4, PruneOneSound
<1>7. pool' \in Pool
  BY <1>5, SoundParts
<1>8. TypeOK'
  BY <1>2, <1>3, <1>7 DEF IInv, TypeOK
<1>9. DiskRight'
  BY <1>3 DEF IInv, DiskRight
<1>10. ASSUME call = "revalidate" PROVE Revalidating'
  <2>1. Revalidating /\ entry \subseteq Tx
    BY <1>10 DEF IInv, TypeOK
  <2>2. \A u \in entry : InPool(pool', u) => InPool(pool, u) /\ pool'.db[u] = pool.db[u]
    BY <1>6, <2>1 DEF InPool
  <2> QED BY <2>1, <2>2, <1>3 DEF Revalidating
<1> QED BY <1>1, <1>3, <1>5, <1>8, <1>9, <1>10 DEF IInv, TemplateIsMinable

\* The end of prune, and the write-back of validate, preserve the inductive invariant.
LEMMA PruneEndStep ==
  ASSUME IInv, PruneEnd
  PROVE  IInv'
<1>1. /\ Sound(pool, top) /\ top \in BlockId
      /\ call \in {"prune", "revalidate"}
      /\ left \subseteq Tx /\ entry \subseteq Tx /\ chosen \subseteq Tx
  BY DEF IInv, TypeOK, PruneEnd, Pruning
<1>2. top' = top /\ todo' = {} /\ left' = left /\ chosen' = chosen
  BY DEF PruneEnd
<1>3. CASE call = "prune"
  <2>1. call' = "idle" /\ pool' = pool /\ entry' = entry /\ Commit
    BY <1>3 DEF PruneEnd
  <2>2. Sound(pool', top')
    BY <1>1, <1>2, <2>1
  <2> QED BY <1>1, <1>2, <2>1, <2>2, CommittedIInv
<1>4. CASE call = "revalidate"
  <2> DEFINE db == [t \in Tx |-> IF t \in entry /\ InPool(pool, t) THEN disk[t]
                                ELSE pool.db[t]]
  <2>0. pool \in Pool /\ pool.db \in [Tx -> txpool_tx_meta_t]
    BY <1>1, SoundParts
  <2>1. /\ call' = "validate" /\ entry' = {} /\ disk' = disk
        /\ pool' = [pool EXCEPT !.db = db]
    BY <1>4 DEF PruneEnd
  <2>2. disk \in [Tx -> txpool_tx_meta_t] /\ Revalidating
    BY <1>4 DEF IInv, TypeOK
  <2>3. db \in [Tx -> txpool_tx_meta_t]
    BY <2>0, <2>2
  <2>4. \A t \in Tx : db[t].relay = pool.db[t].relay
    BY <2>2 DEF Revalidating
  <2>5. FailedRight(db)
    BY <1>1 DEF IInv, DiskRight, Sound, FailedRight
  <2> HIDE DEF db
  <2>6. /\ pool' \in Pool /\ pool'.db = db /\ pool'.images = pool.images
        /\ pool'.sorted = pool.sorted /\ pool'.input_cache = pool.input_cache
    BY <2>0, <2>1, <2>3 DEF Pool
  <2>7. CacheRight(pool', top)
    BY <1>1, <2>6 DEF Sound, CacheRight
  <2>8. FailedRight(pool'.db) /\ \A t \in Tx : pool'.db[t].relay = pool.db[t].relay
    BY <2>4, <2>5, <2>6
  <2>9. Sound(pool', top)
    BY <1>1, <2>6, <2>7, <2>8, TableSound
  <2>10. TypeOK'
    BY <1>1, <1>2, <2>1, <2>2, <2>6 DEF TypeOK, Calls
  <2>11. Revalidating' /\ DiskRight'
    BY <1>2, <2>1, <2>2 DEF Revalidating, IInv, DiskRight
  <2> QED BY <1>2, <2>1, <2>9, <2>10, <2>11 DEF IInv, TemplateIsMinable
<1> QED BY <1>1, <1>3, <1>4

\* TakeTx preserves the inductive invariant.
LEMMA TakeTxStep ==
  ASSUME IInv, NEW t \in Tx, TakeTx(t)
  PROVE  IInv'
<1>1. /\ Sound(pool, top) /\ top \in BlockId /\ todo \subseteq Tx
      /\ left \subseteq Tx /\ entry \subseteq Tx /\ chosen \subseteq Tx
  BY DEF IInv, TypeOK, TakeTx, Idle
<1>2. /\ pool' = Drop(pool, t) /\ top' = top /\ Commit /\ call' = "idle"
      /\ todo' = todo /\ left' = left /\ entry' = entry /\ chosen' = chosen
  BY DEF TakeTx, take_tx, Idle
<1>3. Sound(pool', top')
  BY <1>1, <1>2, DropSound
<1> QED BY <1>1, <1>2, <1>3, CommittedIInv

\* SetRelayed preserves the inductive invariant.
LEMMA SetRelayedStep ==
  ASSUME IInv, NEW t \in Tx, NEW m \in set_methods, SetRelayed(t, m)
  PROVE  IInv'
<1>1. /\ Sound(pool, top) /\ top \in BlockId /\ todo \subseteq Tx
      /\ left \subseteq Tx /\ entry \subseteq Tx /\ chosen \subseteq Tx
  BY DEF IInv, TypeOK, SetRelayed, Idle
<1>2. /\ pool' = set_relayed(pool, t, m) /\ top' = top /\ Commit /\ call' = "idle"
      /\ todo' = todo /\ left' = left /\ entry' = entry /\ chosen' = chosen
  BY DEF SetRelayed, Idle
<1>3. m \in relay_method
  BY MempoolAssumption
<1>4. Sound(pool', top')
  BY <1>1, <1>2, <1>3, SetRelayedSound
<1> QED BY <1>1, <1>2, <1>4, CommittedIInv

\* A turn of remove_stuck_transactions keeps the pool sound.
LEMMA StuckSound ==
  ASSUME NEW p, NEW b \in BlockId, Sound(p, b), NEW t \in Tx
  PROVE  Sound(remove_stuck_one(p, t), b)
<1> DEFINE d == Drop(p, t)
           q == [d EXCEPT !.timed_out = d.timed_out \cup {t}]
<1>0. Sound(d, b)
  BY DropSound
<1>1. d \in Pool
  BY <1>0, SoundParts
<1> HIDE DEF d
<1>2. q \in Pool /\ q.db = d.db /\ q.images = d.images /\ q.sorted = d.sorted
        /\ q.input_cache = d.input_cache
  BY <1>1 DEF Pool
<1> HIDE DEF q
<1>3. Mirrors(q, Entries(q.db)) /\ CacheRight(q, b)
  BY <1>0, <1>2 DEF Sound, Mirrors, CacheRight
<1>4. Sound(q, b)
  BY <1>0, <1>2, <1>3 DEF Sound
<1> QED BY <1>4 DEF q, d, remove_stuck_one

\* remove_stuck_transactions preserves the inductive invariant.
LEMMA StuckSteps ==
  ASSUME IInv, StuckStep \/ \E old \in SUBSET Entries(pool.db) : StuckBegin(old)
  PROVE  IInv'
<1>1. CASE StuckStep
  <2>1. /\ Sound(pool, top) /\ top \in BlockId /\ todo \subseteq Tx /\ call = "stuck"
        /\ left \subseteq Tx /\ entry \subseteq Tx /\ chosen \subseteq Tx
    BY <1>1 DEF IInv, TypeOK, StuckStep
  <2>2. PICK t \in todo :
           /\ pool' = remove_stuck_one(pool, t) /\ todo' = todo \ {t}
           /\ IF todo = {t} THEN call' = "idle" /\ Commit ELSE call' = call /\ disk' = disk
    BY <1>1 DEF StuckStep
  <2>3. top' = top /\ left' = left /\ entry' = entry /\ chosen' = chosen
    BY <1>1 DEF StuckStep
  <2>4. t \in Tx
    BY <2>1, <2>2
  <2>5. Sound(pool', top')
    BY <2>1, <2>2, <2>3, <2>4, StuckSound
  <2>6. CASE todo = {t}
    BY <2>1, <2>2, <2>3, <2>5, <2>6, CommittedIInv
  <2>7. CASE todo # {t}
    <3>1. pool' \in Pool
      BY <2>5, SoundParts
    <3>2. TypeOK'
      BY <2>2, <2>3, <2>7, <3>1 DEF IInv, TypeOK
    <3>3. DiskRight'
      BY <2>2, <2>7 DEF IInv, DiskRight
    <3> QED BY <2>1, <2>2, <2>5, <2>7, <3>2, <3>3 DEF IInv, TemplateIsMinable
  <2> QED BY <2>6, <2>7
<1>2. CASE \E old \in SUBSET Entries(pool.db) : StuckBegin(old)
  <2>1. PICK old \in SUBSET Entries(pool.db) : StuckBegin(old)
    BY <1>2
  <2>2. old \subseteq Tx
    BY DEF Entries
  <2>3. TypeOK'
    BY <2>1, <2>2 DEF IInv, TypeOK, StuckBegin, Calls
  <2>4. DiskRight' /\ Sound(pool', top')
    BY <2>1 DEF IInv, StuckBegin, DiskRight
  <2> QED BY <2>1, <2>3, <2>4 DEF IInv, StuckBegin, TemplateIsMinable
<1> QED BY <1>1, <1>2

\* fill_block_template preserves the inductive invariant.
LEMMA FillSteps ==
  ASSUME IInv, FillBegin \/ FillStep \/ FillEnd
  PROVE  IInv'
<1>0. /\ top \in BlockId /\ todo \subseteq Tx
      /\ left \subseteq Tx /\ entry \subseteq Tx /\ chosen \subseteq Tx
  BY DEF IInv, TypeOK
<1>1. CASE FillBegin
  <2>1. Sound(pool, top)
    BY <1>1 DEF IInv, FillBegin
  <2>2. pool.sorted \subseteq Tx
    BY <2>1, SoundParts
  <2>3. TypeOK'
    BY <1>1, <2>2 DEF IInv, TypeOK, FillBegin, Calls
  <2>4. DiskRight' /\ Sound(pool', top')
    BY <1>1, <2>1 DEF IInv, FillBegin, DiskRight
  <2> QED BY <1>1, <2>3, <2>4 DEF IInv, FillBegin, TemplateIsMinable
<1>2. CASE FillStep
  <2>1. Sound(pool, top) /\ call = "fill" /\ TemplateIsMinable
    BY <1>2 DEF IInv, FillStep
  <2>2. PICK t \in todo :
          /\ todo' = todo \ {t}
          /\ \/ pool' = pool /\ chosen' = chosen
             \/ pool' = AskReady(pool, View, t) /\ chosen' = fill_one(pool, View, chosen, t)
    BY <1>2 DEF FillStep, Dearest
  <2>3. top' = top /\ disk' = disk /\ call' = call /\ left' = left /\ entry' = entry
    BY <1>2 DEF FillStep
  <2>4. t \in Tx
    BY <1>0, <2>2
  <2>5. /\ Sound(AskReady(pool, View, t), top)
        /\ is_transaction_ready_to_go(pool, View, t) => ChainAccepts(View, t)
    BY <1>0, <2>1, <2>4, AskSound DEF View
  <2>6. Sound(pool', top')
    BY <2>1, <2>2, <2>3, <2>5
  <2>7. chosen' \subseteq Tx
    BY <1>0, <2>2, <2>4 DEF fill_one
  <2>8. TemplateIsMinable'
    <3>1. View' = View
      BY <2>3 DEF View, ChainAt
    <3>2. /\ \A u \in chosen : ChainAccepts(View, u)
          /\ \A u, w \in chosen : u # w => InputsOf(u) \cap InputsOf(w) = {}
      BY <2>1 DEF TemplateIsMinable
    <3>3. CASE chosen' = chosen
      BY <3>1, <3>2, <3>3, <2>3 DEF TemplateIsMinable
    <3>4. CASE chosen' # chosen
      <4>1. /\ chosen' = chosen \cup {t}
            /\ is_transaction_ready_to_go(pool, View, t)
            /\ \A u \in chosen : InputsOf(u) \cap InputsOf(t) = {}
        BY <2>2, <3>4 DEF fill_one
      <4>2. \A u \in chosen' : ChainAccepts(View, u)
        BY <4>1, <3>2, <2>5
      <4>3. \A u, w \in chosen' : u # w => InputsOf(u) \cap InputsOf(w) = {}
        BY <4>1, <3>2
      <4> QED BY <3>1, <4>2, <4>3 DEF TemplateIsMinable
    <3> QED BY <3>3, <3>4
  <2>9. TypeOK'
    BY <2>2, <2>3, <2>6, <2>7, SoundParts DEF IInv, TypeOK
  <2>10. DiskRight'
    BY <2>3 DEF IInv, DiskRight
  <2> QED BY <2>1, <2>3, <2>6, <2>8, <2>9, <2>10 DEF IInv
<1>3. CASE FillEnd
  <2>1. /\ pool' = [pool EXCEPT !.touched = FALSE] /\ top' = top /\ call' = "idle" /\ Commit
        /\ todo' = todo /\ left' = left /\ entry' = entry /\ chosen' = {}
        /\ Sound(pool, top)
    BY <1>3 DEF FillEnd, IInv
  <2>2. Sound([pool EXCEPT !.touched = FALSE], top)
    BY <1>0, <2>1, TouchSound, Zenon
  <2>3. Sound(pool', top')
    BY <2>1, <2>2
  <2> QED BY <1>0, <2>1, <2>3, CommittedIInv
<1> QED BY <1>1, <1>2, <1>3

\* validate preserves the inductive invariant.
LEMMA ValidateSteps ==
  ASSUME IInv,
         \/ ValidateBegin
         \/ \E t \in Tx, passes \in BOOLEAN : ValidateStep(t, passes)
         \/ ValidateEnd
  PROVE  IInv'
<1>0. /\ top \in BlockId /\ todo \subseteq Tx /\ disk \in [Tx -> txpool_tx_meta_t]
      /\ left \subseteq Tx /\ entry \subseteq Tx /\ chosen \subseteq Tx
  BY DEF IInv, TypeOK
<1>1. CASE ValidateBegin
  <2>1. Sound(pool, top) /\ disk = pool.db
    BY <1>1 DEF IInv, ValidateBegin
  <2>2. /\ pool' = pool /\ top' = top /\ disk' = disk /\ call' = "validate"
        /\ left' = Entries(pool.db) /\ todo' = todo /\ entry' = {} /\ chosen' = chosen
    BY <1>1 DEF ValidateBegin
  <2>3. TypeOK'
    BY <2>2 DEF IInv, TypeOK, Calls, Entries
  <2>4. Revalidating'
    BY <2>1, <2>2 DEF Revalidating
  <2>5. DiskRight' /\ Sound(pool', top')
    BY <2>1, <2>2 DEF IInv, DiskRight
  <2> QED BY <2>2, <2>3, <2>4, <2>5 DEF IInv, TemplateIsMinable
<1>2. ASSUME NEW t \in Tx, NEW passes \in BOOLEAN, ValidateStep(t, passes)
      PROVE  IInv'
  <2> DEFINE q == Drop(pool, t)
             r == Revalidate(t, passes)
  <2>1. /\ Sound(pool, top) /\ Revalidating /\ t \in left /\ call = "validate"
    BY <1>2 DEF IInv, ValidateStep
  <2>2. Sound(q, top) /\ Entries(q.db) = Entries(pool.db) \ {t}
    BY <1>0, <2>1, DropSound, Zenon
  <2>r. r = IF passes THEN enter_tx(q, View, t, disk[t].relay) ELSE Result(q, FALSE)
    BY DEF Revalidate, take_tx
  <2> HIDE DEF q, r
  <2>3. ~IsLegacy(q, t) /\ t \notin Entries(q.db)
    BY <2>2 DEF IsLegacy, Entries, legacy
  <2>4. disk[t] \in txpool_tx_meta_t /\ disk[t].relay # "absent"
    BY <1>0, <2>1 DEF Revalidating, Entries
  <2>5. disk[t].relay \in relay_method
    BY <2>4 DEF txpool_tx_meta_t
  <2>6. /\ Sound(r.pool, top) /\ r.ok \in BOOLEAN
        /\ r.ok => r.pool.db[t].relay = disk[t].relay
    <3>1. CASE passes
      <4>1. r = enter_tx(q, View, t, disk[t].relay)
        BY <3>1, <2>r
      <4> QED BY Zenon, <4>1, <1>0, <2>2, <2>3, <2>5, EnterSound DEF View
    <3>2. CASE ~passes
      BY <3>2, <2>2, <2>r DEF Result
    <3> QED BY <3>1, <3>2
  <2>7. top' = top /\ disk' = disk /\ chosen' = chosen /\ left' = left \ {t}
    BY <1>2 DEF ValidateStep
  <2>8. \/ pool' = pool /\ call' = call /\ todo' = todo /\ entry' = entry
        \/ r.ok /\ pool' = r.pool /\ call' = "revalidate" /\ todo' = PruneSet(pool') /\ entry' = {t}
        \/ pool' = r.pool /\ call' = call /\ todo' = todo /\ entry' = entry
    BY <1>2 DEF ValidateStep, r
  <2>9. Sound(pool', top')
    BY <2>1, <2>6, <2>7, <2>8
  <2>10. PruneSet(pool') \subseteq Tx /\ pool' \in Pool
    BY <2>9, SoundParts DEF PruneSet
  <2>11. TypeOK'
    BY <1>0, <2>1, <2>7, <2>8, <2>10 DEF TypeOK, Calls
  <2>12. DiskRight'
    BY <2>7 DEF IInv, DiskRight
  <2>13. Revalidating'
    <3>1. left' \subseteq Entries(disk')
      BY <2>1, <2>7 DEF Revalidating
    <3>2. CASE entry' = {}
      BY <3>1, <3>2 DEF Revalidating
    <3>3. CASE r.ok /\ pool' = r.pool /\ call' = "revalidate" /\ entry' = {t}
      BY <3>1, <3>3, <2>6, <2>7 DEF Revalidating
    <3> QED BY <2>1, <2>8, <3>2, <3>3 DEF Revalidating
  <2> QED BY <2>1, <2>7, <2>8, <2>9, <2>11, <2>12, <2>13 DEF IInv, TemplateIsMinable
<1>3. CASE ValidateEnd
  <2>1. /\ pool' = pool /\ top' = top /\ call' = "idle" /\ Commit
        /\ todo' = todo /\ left' = left /\ entry' = entry /\ chosen' = chosen
        /\ Sound(pool, top)
    BY <1>3 DEF ValidateEnd, IInv
  <2>2. Sound(pool', top')
    BY <2>1
  <2> QED BY <1>0, <2>1, <2>2, CommittedIInv
<1> QED BY <1>1, <1>2, <1>3

\* Whatever block comes on top or leaves, nothing remembered of the inputs survives.
LEMMA ChainMovesStep ==
  ASSUME IInv, NEW b \in BlockId, ChainMoves(b)
  PROVE  IInv'
<1>1. Sound(pool, top) /\ disk = pool.db
  BY DEF IInv, ChainMoves, Idle
<1>2. pool \in Pool
  BY <1>1, SoundParts
<1>3. /\ pool' = [pool EXCEPT !.input_cache = [t \in Tx |-> "unknown"]]
      /\ top' = b /\ disk' = disk /\ call' = call
      /\ todo' = todo /\ left' = left /\ entry' = entry /\ chosen' = chosen /\ call = "idle"
  BY DEF ChainMoves, Idle, on_blockchain_change
<1>4. /\ pool' \in Pool /\ pool'.db = pool.db /\ pool'.images = pool.images
      /\ pool'.sorted = pool.sorted /\ pool'.input_cache = [t \in Tx |-> "unknown"]
  BY <1>2, <1>3 DEF Pool
<1>5. CacheRight(pool', top')
  BY <1>4 DEF CacheRight
<1>6. Mirrors(pool', Entries(pool'.db))
  BY <1>1, <1>4 DEF Sound, Mirrors
<1>7. Sound(pool', top')
  BY <1>1, <1>4, <1>5, <1>6 DEF Sound
<1>8. TypeOK'
  BY <1>3, <1>4 DEF IInv, TypeOK
<1>9. DiskRight'
  BY <1>3 DEF IInv, DiskRight
<1> QED BY <1>1, <1>3, <1>4, <1>7, <1>8, <1>9 DEF IInv, TemplateIsMinable

\* After a crash the table is the committed one, and nothing is known yet.
LEMMA CrashStep ==
  ASSUME IInv, Crash
  PROVE  IInv'
<1>1. disk \in [Tx -> txpool_tx_meta_t] /\ top \in BlockId
  BY DEF IInv, TypeOK
<1>2. /\ pool' = Unloaded(disk) /\ call' = "load" /\ todo' = Entries(disk)
      /\ left' = {} /\ entry' = {} /\ chosen' = {} /\ top' = top /\ disk' = disk
  BY DEF Crash
<1> DEFINE u == Unloaded(disk)
<1>3. /\ u \in Pool /\ u.db = disk /\ u.images = [k \in KeyImage |-> {}] /\ u.sorted = {}
      /\ u.input_cache = [t \in Tx |-> "unknown"]
  BY Zenon, <1>1 DEF Unloaded, Pool
<1> HIDE DEF u
<1>4. pool' = u
  BY <1>2 DEF u
<1>5. TypeOK'
  BY <1>1, <1>2, <1>3, <1>4 DEF TypeOK, Calls, Entries
<1>6. DiskRight'
  BY <1>2 DEF IInv, DiskRight
<1>7. Entries(disk') \ todo' = {}
  BY <1>2
<1>8. Loading'
  BY <1>2, <1>3, <1>4, <1>7 DEF Loading, Mirrors, CacheRight
<1> QED BY <1>2, <1>5, <1>6, <1>8 DEF IInv, TemplateIsMinable

\* The images of the next transaction init comes to never refuse it.
LEMMA LoadNeverRefuses ==
  ASSUME IInv, call = "load", NEW t \in LoadNext(pool, todo)
  PROVE  \A k \in InputsOf(t) : CanInsert(pool, t, pool.db[t].relay, k)
<1> DEFINE done == Entries(disk) \ todo
<1>1. Loading /\ OneSpender(disk)
  BY DEF IInv, DiskRight
<1>2. t \in todo /\ t \in Entries(disk) /\ t \notin done /\ t \in Tx
  BY <1>1 DEF LoadNext, Loading, Entries
<1>3. \A k \in KeyImage : pool.images[k] = {u \in done : k \in InputsOf(u)}
  BY <1>1 DEF Loading, Mirrors
<1>4. InputsOf(t) \subseteq KeyImage
  BY <1>2, InputsType
<1>5. \A k \in InputsOf(t) : t \notin pool.images[k]
  BY <1>2, <1>3, <1>4
<1>6. ASSUME disk[t].relay # "block", NEW k \in InputsOf(t), NEW u \in pool.images[k]
      PROVE  FALSE
  <2>1. u \in done /\ k \in InputsOf(u)
    BY <1>3, <1>4
  <2>2. u \in Entries(disk) /\ disk[u].relay # "block"
    BY <1>1, <1>2, <1>6, <2>1 DEF Loading
  <2>3. InputsOf(t) \cap InputsOf(u) # {}
    BY <2>1
  <2>4. t = u
    BY <1>1, <1>2, <1>6, <2>2, <2>3 DEF OneSpender
  <2> QED BY <2>1, <2>4, <1>2
<1>7. pool.db = disk
  BY <1>1 DEF Loading
<1> QED BY <1>5, <1>6, <1>7 DEF CanInsert

\* Loading never meets a collision: those kept by a block come last.
LEMMA LoadSteps ==
  ASSUME IInv, LoadStep \/ LoadEnd
  PROVE  IInv'
<1>0. Loading /\ call = "load" /\ top \in BlockId /\ DiskRight /\ disk \in [Tx -> txpool_tx_meta_t]
        /\ left \subseteq Tx /\ entry \subseteq Tx /\ chosen \subseteq Tx
  BY DEF IInv, TypeOK, LoadStep, LoadEnd
<1>1. CASE LoadStep
  <2>1. PICK t \in LoadNext(pool, todo) :
          IF load_ok(pool, t)
            THEN pool' = load_one(pool, t) /\ todo' = todo \ {t} /\ call' = call
            ELSE call' = "failed" /\ UNCHANGED <<pool, todo>>
    BY <1>1 DEF LoadStep
  <2>2. top' = top /\ disk' = disk /\ left' = left /\ entry' = entry /\ chosen' = chosen
    BY <1>1 DEF LoadStep
  <2>3. \A k \in InputsOf(t) : CanInsert(pool, t, pool.db[t].relay, k)
    BY <1>0, LoadNeverRefuses
  <2>4. load_ok(pool, t)
    BY <2>3 DEF load_ok, insert_key_images_ok
  <2>5. pool' = load_one(pool, t) /\ todo' = todo \ {t} /\ call' = call
    BY <2>1, <2>4
  <2>6. /\ t \in todo /\ t \in Tx /\ pool \in Pool /\ pool.db = disk
        /\ Mirrors(pool, Entries(disk) \ todo) /\ todo \subseteq Entries(disk)
    BY <1>0 DEF LoadNext, Loading, Entries
  <2> DEFINE img == insert_key_images(pool, t, pool.db[t].relay)
             s == Store(pool, t, pool.db[t], TRUE)
             l == load_one(pool, t)
  <2>7. img \in [KeyImage -> SUBSET Tx]
    BY <2>6 DEF insert_key_images, Pool
  <2>8. \A k \in KeyImage : img[k] = IF k \in InputsOf(t) THEN pool.images[k] \cup {t}
                                                          ELSE pool.images[k]
    BY <2>3, <2>6, InsertsAll
  <2>9. pool.db[t] \in txpool_tx_meta_t /\ pool.weight + tx_weight[t] \in Nat
    BY <2>6, TxPoolAssumption DEF Pool
  <2> HIDE DEF img
  <2>10. s \in Pool /\ s.images = img /\ s.sorted = pool.sorted \cup {t}
           /\ s.input_cache = pool.input_cache
    BY Zenon, <2>6, <2>7, <2>9 DEF Store, Pool, img
  <2>11. l = [s EXCEPT !.db = disk]
    BY <2>6 DEF load_one
  <2> HIDE DEF s, l
  <2>12. l \in Pool /\ l.db = disk /\ l.images = img /\ l.sorted = pool.sorted \cup {t}
           /\ l.input_cache = pool.input_cache
    BY <1>0, <2>10, <2>11 DEF Pool
  <2>13. pool' = l
    BY <2>5 DEF l
  <2>14. Entries(disk') \ todo' = (Entries(disk) \ todo) \cup {t}
    BY <2>2, <2>5, <2>6
  <2>15. Mirrors(pool', Entries(disk') \ todo')
    <3> DEFINE done == Entries(disk) \ todo
    <3>1. pool.sorted = done /\ \A k \in KeyImage : pool.images[k] = {u \in done : k \in InputsOf(u)}
      BY <2>6 DEF Mirrors
    <3> HIDE DEF done
    <3>2. ASSUME NEW k \in KeyImage
          PROVE  img[k] = {u \in done \cup {t} : k \in InputsOf(u)}
      <4>1. pool.images[k] = {u \in done : k \in InputsOf(u)}
        BY <3>1
      <4>2. CASE k \in InputsOf(t)
        <5>1. img[k] = pool.images[k] \cup {t}
          BY Zenon, <4>2, <2>8
        <5> QED BY <4>1, <4>2, <5>1
      <4>3. CASE k \notin InputsOf(t)
        <5>1. img[k] = pool.images[k]
          BY Zenon, <4>3, <2>8
        <5> QED BY <4>1, <4>3, <5>1
      <4> QED BY <4>2, <4>3
    <3>3. pool'.sorted = done \cup {t} /\ pool'.images = img
      BY <3>1, <2>12, <2>13
    <3>4. Mirrors(pool', done \cup {t})
      BY <3>2, <3>3 DEF Mirrors
    <3> QED BY <3>4, <2>14 DEF done
  <2>16. CacheRight(pool', top')
    BY Zenon, <1>0, <2>2, <2>12, <2>13 DEF Loading, CacheRight
  <2>17. \A u \in Entries(disk') \ todo', w \in todo' :
           disk'[u].relay = "block" => disk'[w].relay = "block"
    <3>1. disk[t].relay = "block" => \A w \in todo : disk[w].relay = "block"
      BY <2>6 DEF LoadNext, KeptByBlock
    <3>2. \A u \in Entries(disk) \ todo, w \in todo :
            disk[u].relay = "block" => disk[w].relay = "block"
      BY Zenon, <1>0 DEF Loading
    <3> QED BY <3>1, <3>2, <2>2, <2>5, <2>14
  <2>18. Loading'
    <3>1. todo' \subseteq Entries(disk')
      BY <2>2, <2>5, <2>6
    <3> QED BY Zenon, <2>2, <2>12, <2>13, <2>15, <2>16, <2>17, <3>1 DEF Loading
  <2>19. TypeOK'
    <3>1. todo' \subseteq Tx
      BY <2>5, <2>6 DEF Entries
    <3> QED BY <1>0, <2>2, <2>5, <2>12, <2>13, <3>1 DEF TypeOK, Calls
  <2>20. DiskRight'
    BY <1>0, <2>2 DEF DiskRight
  <2> QED BY <1>0, <2>5, <2>18, <2>19, <2>20 DEF IInv, TemplateIsMinable
<1>2. CASE LoadEnd
  <2>1. /\ pool' = pool /\ top' = top /\ disk' = disk /\ call' = "idle" /\ todo = {}
        /\ todo' = todo /\ left' = left /\ entry' = entry /\ chosen' = chosen
    BY <1>2 DEF LoadEnd
  <2>2. Entries(disk) \ todo = Entries(pool.db)
    BY <1>0, <2>1 DEF Loading
  <2>3. Sound(pool, top)
    <3>1. pool \in Pool /\ pool.db = disk /\ CacheRight(pool, top) /\ Mirrors(pool, Entries(disk) \ todo)
      BY <1>0 DEF Loading
    <3>2. Mirrors(pool, Entries(pool.db))
      BY <3>1, <2>2
    <3>3. OneSpender(pool.db) /\ FailedRight(pool.db)
      BY <3>1, <1>0 DEF DiskRight
    <3> QED BY <3>1, <3>2, <3>3 DEF Sound
  <2>4. TypeOK'
    BY <1>0, <2>1 DEF IInv, TypeOK, Calls
  <2>5. DiskRight'
    BY <1>0, <2>1 DEF DiskRight
  <2>6. Sound(pool', top') /\ disk' = pool'.db
    BY <1>0, <2>1, <2>3 DEF Loading
  <2> QED BY <2>1, <2>4, <2>5, <2>6 DEF IInv, TemplateIsMinable
<1> QED BY <1>1, <1>2

\* A step that changes nothing preserves the inductive invariant.
LEMMA StutterStep ==
  ASSUME IInv, UNCHANGED vars
  PROVE  IInv'
<1>1. /\ pool' = pool /\ top' = top /\ disk' = disk /\ call' = call
      /\ todo' = todo /\ left' = left /\ entry' = entry /\ chosen' = chosen
  BY DEF vars
<1>2. TypeOK' /\ DiskRight'
  BY <1>1 DEF IInv, TypeOK, DiskRight
<1>3. call' # "load" => Sound(pool', top')
  BY <1>1 DEF IInv
<1>4. call' = "load" => Loading'
  BY <1>1 DEF IInv, Loading
<1>5. call' \in {"validate", "revalidate"} => Revalidating'
  BY <1>1 DEF IInv, Revalidating
<1>6. TemplateIsMinable'
  BY <1>1 DEF IInv, TemplateIsMinable, View, ChainAt
<1> QED BY <1>1, <1>2, <1>3, <1>4, <1>5, <1>6 DEF IInv

\* Every step preserves the inductive invariant.
LEMMA StepIInv == IInv /\ [Next]_vars => IInv'
<1> SUFFICES ASSUME IInv, [Next]_vars PROVE IInv'
  OBVIOUS
<1>1. CASE \E t \in Tx : \E m \in add_methods[t] : AddTx(t, m)
  BY <1>1, AddTxStep
<1>2. CASE PruneStep
  BY <1>2, PruneStepStep
<1>3. CASE PruneEnd
  BY <1>3, PruneEndStep
<1>4. CASE \E t \in Tx : TakeTx(t)
  BY <1>4, TakeTxStep
<1>5. CASE \E t \in Tx, m \in set_methods : SetRelayed(t, m)
  BY <1>5, SetRelayedStep
<1>6. CASE StuckStep \/ \E old \in SUBSET Entries(pool.db) : StuckBegin(old)
  BY <1>6, StuckSteps
<1>7. CASE FillBegin \/ FillStep \/ FillEnd
  BY <1>7, FillSteps
<1>8. CASE \/ ValidateBegin
           \/ \E t \in Tx, passes \in BOOLEAN : ValidateStep(t, passes)
           \/ ValidateEnd
  BY <1>8, ValidateSteps
<1>9. CASE \E b \in BlockId : ChainMoves(b)
  BY <1>9, ChainMovesStep
<1>10. CASE Crash
  BY <1>10, CrashStep
<1>11. CASE LoadStep \/ LoadEnd
  BY <1>11, LoadSteps
<1>12. CASE UNCHANGED vars
  BY <1>12, StutterStep
<1> QED
  BY <1>1, <1>2, <1>3, <1>4, <1>5, <1>6, <1>7, <1>8, <1>9, <1>10, <1>11, <1>12 DEF Next

\* The inductive invariant holds in every reachable state.
LEMMA Invariant == Spec => []IInv
BY InitIInv, StepIInv, PTL DEF Spec

\* A sound pool's memory mirrors its table.
LEMMA KnownMirrored == IInv => Mirrors(pool, Known)
<1> SUFFICES ASSUME IInv PROVE Mirrors(pool, Known)
  OBVIOUS
<1>1. CASE call = "load"
  <2>1. Mirrors(pool, Entries(disk) \ todo) /\ pool.db = disk
    BY <1>1 DEF IInv, Loading
  <2>2. Known = Entries(disk) \ todo
    BY <1>1, <2>1 DEF Known
  <2> QED BY <2>1, <2>2
<1>2. CASE call # "load"
  <2>1. Mirrors(pool, Entries(pool.db))
    BY <1>2 DEF IInv, Sound
  <2>2. Known = Entries(pool.db)
    BY <1>2 DEF IInv, Known
  <2> QED BY <2>1, <2>2
<1> QED BY <1>1, <1>2

\* The pool's variables always have their types.
THEOREM TypeCorrect == Spec => []TypeOK
<1>1. IInv => TypeOK
  BY DEF IInv
<1> QED BY <1>1, Invariant, PTL

\* tx_memory_pool: m_spent_key_images and the fee order
\* m_txs_by_fee_and_receive_time always list exactly the transactions of the txpool
\* table, whatever the calls and the crashes.
THEOREM MemoryAlwaysMirrors == Spec => []MemoryMirrorsTable
<1>1. IInv => ImagesMirrorTable
  BY KnownMirrored DEF Mirrors, ImagesMirrorTable
<1>2. IInv => FeeOrderMirrorsTable
  BY KnownMirrored DEF Mirrors, FeeOrderMirrorsTable
<1>3. IInv => MemoryMirrorsTable
  BY <1>1, <1>2 DEF MemoryMirrorsTable
<1> QED BY <1>3, Invariant, PTL

\* tx_memory_pool::init never fails on a key image collision.
THEOREM RestartAlwaysLoads == Spec => []RestartLoadsPool
<1>1. IInv => RestartLoadsPool
  BY DEF IInv, RestartLoadsPool
<1> QED BY <1>1, Invariant, PTL

\* What m_input_cache remembers is what the chain says now, and last_failed_id
\* names a block at which the inputs fail.
THEOREM VerdictsAlwaysRight == Spec => []VerdictsAreRight
<1>1. IInv => InputCacheIsFresh
  <2> SUFFICES ASSUME IInv PROVE CacheRight(pool, top)
    BY DEF CacheRight, InputCacheIsFresh, View
  <2>1. CASE call = "load"
    BY <2>1 DEF IInv, Loading
  <2>2. CASE call # "load"
    BY <2>2 DEF IInv, Sound
  <2> QED BY <2>1, <2>2
<1>2. IInv => LastFailedReallyFailed
  <2> SUFFICES ASSUME IInv PROVE FailedRight(pool.db)
    BY DEF FailedRight, LastFailedReallyFailed
  <2>1. CASE call = "load"
    BY <2>1 DEF IInv, Loading, DiskRight
  <2>2. CASE call # "load"
    BY <2>2 DEF IInv, Sound
  <2> QED BY <2>1, <2>2
<1>3. IInv => VerdictsAreRight
  BY <1>1, <1>2 DEF VerdictsAreRight
<1> QED BY <1>3, Invariant, PTL

\* fill_block_template chooses transactions that can be mined together.
THEOREM TemplateAlwaysMinable == Spec => []TemplateIsMinable
<1>1. IInv => TemplateIsMinable
  BY DEF IInv
<1> QED BY <1>1, Invariant, PTL
===============================================================================
