------------------------- MODULE BlockDownloadProofs -------------------------
(***************************************************************************)
(* The marks of the block queue are exact, for any number of connections,  *)
(* any set of chains and any sizes of spans and stripes.                   *)
(***************************************************************************)
EXTENDS BlockDownload, TLAPS, SequenceTheorems, WellFoundedInduction

------------------------------------------------------------------------------
(* Least and greatest elements *)

\* A non-empty set of natural numbers has a least element, and Min returns it.
LEMMA MinNat ==
  ASSUME NEW S \in SUBSET Nat, S # {}
  PROVE  Min(S) \in S /\ \A x \in S : Min(S) <= x
<1>1. PICK m \in S : \A x \in S : <<x, m>> \notin OpToRel(<, Nat)
  BY Zenon, NatLessThanWellFounded, WFMin
<1>2. \A x \in S : ~(x < m)
  BY <1>1, Zenon DEF OpToRel
<1>3. \A x \in S : m <= x
  BY <1>2, SMT
<1>. QED
  BY <1>3, Zenon DEF Min

\* A non-empty set of natural numbers with an upper bound has a greatest
\* element, and Max returns it.
LEMMA MaxNat ==
  ASSUME NEW S \in SUBSET Nat, S # {}, NEW n \in Nat, \A x \in S : x <= n
  PROVE  Max(S) \in S /\ \A x \in S : x <= Max(S)
<1> DEFINE T == {n - x : x \in S}
<1>1. T \in SUBSET Nat /\ T # {}
  <2>1. \A x \in S : n - x \in Nat
    OBVIOUS
  <2>2. PICK x \in S : TRUE
    BY Zenon
  <2>3. n - x \in T
    BY <2>2
  <2>. QED
    BY <2>1, <2>3
<1>2. PICK m \in S : Min(T) = n - m
  BY Zenon, <1>1, MinNat
<1>3. \A x \in S : x <= m
  BY <1>1, <1>2, MinNat, SMT
<1>. QED
  BY <1>3, Zenon DEF Max

------------------------------------------------------------------------------
(* What every method of the queue preserves *)

RequestedInSpan(q) == q.requested_hashes \subseteq HashesOf(q, Starts(q))

HadAt(q, h, s) ==
  LET i == q.have_blocks[h] - s + 1
  IN  /\ i \in DOMAIN q.blocks[s].hashes
      /\ q.blocks[s].hashes[i] = h

HadInFilled(q) ==
  \A h \in DOMAIN q.have_blocks : \E s \in FilledStarts(q) : HadAt(q, h, s)

HadIsRequested(q) == DOMAIN q.have_blocks \subseteq q.requested_hashes

Marks(q) ==
  /\ IsQueue(q)
  /\ RequestedInSpan(q)
  /\ HadInFilled(q)
  /\ HadIsRequested(q)

\* A span without hashes is a filled one: the answer to a request whose span
\* had left the queue.
ScheduledHasHashes(q) ==
  \A s \in Starts(q) : Filled(q.blocks[s]) \/ q.blocks[s].hashes # << >>

QueueInv(q) == Marks(q) /\ ScheduledHasHashes(q)

\* Membership in the hashes of a set of spans, unfolded.
LEMMA InHashesOf ==
  ASSUME NEW q, NEW S, NEW h
  PROVE  h \in HashesOf(q, S) <=>
           \E s \in S : \E i \in DOMAIN q.blocks[s].hashes : q.blocks[s].hashes[i] = h
BY DEF HashesOf, Range

\* Erasing spans: what is left in the queue is marked as it was, and the marks
\* of the erased spans are gone.
LEMMA EraseMarks ==
  ASSUME NEW q, Marks(q), NEW S \in SUBSET Starts(q)
  PROVE  Marks(erase_blocks(q, S))
<1> DEFINE e == erase_blocks(q, S)
<1>1. /\ e = [blocks |-> e.blocks, requested_hashes |-> e.requested_hashes,
              have_blocks |-> e.have_blocks]
      /\ e.blocks = [s \in Starts(q) \ S |-> q.blocks[s]]
      /\ e.requested_hashes = q.requested_hashes \ HashesOf(q, S)
      /\ e.have_blocks = [h \in DOMAIN q.have_blocks \ HashesOf(q, S) |-> q.have_blocks[h]]
  BY DEF erase_blocks, Without, Restrict, Starts
<1>2. Starts(e) = Starts(q) \ S /\ \A s \in Starts(e) : e.blocks[s] = q.blocks[s]
  BY <1>1 DEF Starts
<1>3. IsQueue(e)
  BY <1>1, <1>2 DEF Marks, IsQueue, Starts
<1>4. RequestedInSpan(e)
  BY <1>1, <1>2, InHashesOf DEF Marks, RequestedInSpan
<1>5. HadInFilled(e)
  <2> SUFFICES ASSUME NEW h \in DOMAIN e.have_blocks
               PROVE  \E s \in FilledStarts(e) : HadAt(e, h, s)
    BY DEF HadInFilled
  <2>1. h \in DOMAIN q.have_blocks /\ h \notin HashesOf(q, S)
        /\ e.have_blocks[h] = q.have_blocks[h]
    BY <1>1
  <2>2. PICK s \in FilledStarts(q) : HadAt(q, h, s)
    BY <2>1 DEF Marks, HadInFilled
  <2>3. s \notin S
    BY <2>1, <2>2, InHashesOf DEF HadAt
  <2>4. s \in FilledStarts(e) /\ HadAt(e, h, s)
    BY <1>2, <2>1, <2>2, <2>3 DEF FilledStarts, HadAt
  <2>. QED
    BY <2>4
<1>6. HadIsRequested(e)
  BY <1>1, <1>2 DEF Marks, HadIsRequested
<1>. QED
  BY <1>3, <1>4, <1>5, <1>6 DEF Marks

\* erase_blocks leaves the other spans as they are.
LEMMA EraseFields ==
  ASSUME NEW q, NEW S
  PROVE  /\ Starts(erase_blocks(q, S)) = Starts(q) \ S
         /\ \A s \in Starts(q) \ S : erase_blocks(q, S).blocks[s] = q.blocks[s]
BY DEF erase_blocks, Without, Restrict, Starts

\* erase_blocks preserves the invariants of the queue.
LEMMA EraseInv ==
  ASSUME NEW q, QueueInv(q), NEW S \in SUBSET Starts(q)
  PROVE  QueueInv(erase_blocks(q, S))
<1>1. Marks(erase_blocks(q, S))
  BY EraseMarks DEF QueueInv
<1>2. ScheduledHasHashes(erase_blocks(q, S))
  BY EraseFields DEF QueueInv, ScheduledHasHashes
<1>. QED
  BY <1>1, <1>2 DEF QueueInv

\* A new span may be entered with marks for its own hashes, and, if it is filled,
\* with the heights at which it has them.
LEMMA EnterSpan ==
  ASSUME NEW e, Marks(e), NEW start \in Nat, start \notin Starts(e),
         NEW span \in Span,
         NEW R \in SUBSET Range(span.hashes),
         NEW H, H \in [DOMAIN H -> Nat], DOMAIN H \subseteq R,
         DOMAIN H = {} \/ Filled(span),
         \A h \in DOMAIN H : /\ H[h] - start + 1 \in DOMAIN span.hashes
                             /\ span.hashes[H[h] - start + 1] = h
  PROVE  Marks([blocks |-> Emplace(e.blocks, [s \in {start} |-> span]),
                requested_hashes |-> e.requested_hashes \cup R,
                have_blocks |-> Emplace(e.have_blocks, H)])
<1> DEFINE r == [blocks |-> Emplace(e.blocks, [s \in {start} |-> span]),
                 requested_hashes |-> e.requested_hashes \cup R,
                 have_blocks |-> Emplace(e.have_blocks, H)]
<1>1. /\ Starts(r) = Starts(e) \cup {start}
      /\ r.blocks = [s \in Starts(e) \cup {start} |->
                       IF s \in Starts(e) THEN e.blocks[s] ELSE span]
      /\ r.blocks[start] = span
      /\ \A s \in Starts(e) : r.blocks[s] = e.blocks[s]
  BY DEF Starts, Emplace
<1>2. /\ DOMAIN r.have_blocks = DOMAIN e.have_blocks \cup DOMAIN H
      /\ r.have_blocks = [h \in DOMAIN e.have_blocks \cup DOMAIN H |->
                            IF h \in DOMAIN e.have_blocks THEN e.have_blocks[h] ELSE H[h]]
  BY DEF Emplace
<1>3. Range(span.hashes) \subseteq Hashes
  BY DEF Span, Range
<1>4. IsQueue(r)
  <2>1. r.blocks \in [Starts(r) -> Span] /\ Starts(r) \subseteq Nat
    BY <1>1 DEF Marks, IsQueue, Starts
  <2>2. r.have_blocks \in [DOMAIN r.have_blocks -> Nat] /\ DOMAIN r.have_blocks \subseteq Hashes
    BY <1>2, <1>3 DEF Marks, IsQueue
  <2>3. r.requested_hashes \subseteq Hashes
    BY <1>3 DEF Marks, IsQueue
  <2>. QED
    BY <2>1, <2>2, <2>3 DEF IsQueue, Starts
<1>5. RequestedInSpan(r)
  <2>1. ASSUME NEW h \in e.requested_hashes PROVE h \in HashesOf(r, Starts(r))
    <3>1. PICK s \in Starts(e) : \E i \in DOMAIN e.blocks[s].hashes : e.blocks[s].hashes[i] = h
      BY <2>1, InHashesOf DEF Marks, RequestedInSpan
    <3>2. s \in Starts(r) /\ r.blocks[s] = e.blocks[s]
      BY Zenon, <1>1
    <3>. QED
      BY <3>1, <3>2, InHashesOf
  <2>2. ASSUME NEW h \in R PROVE h \in HashesOf(r, Starts(r))
    <3>1. \E i \in DOMAIN span.hashes : span.hashes[i] = h
      BY <2>2 DEF Range
    <3>2. start \in Starts(r) /\ r.blocks[start] = span
      BY Zenon, <1>1
    <3>. QED
      BY <3>1, <3>2, InHashesOf
  <2>. QED
    BY Zenon, <2>1, <2>2 DEF RequestedInSpan
<1>6. HadInFilled(r)
  <2> SUFFICES ASSUME NEW h \in DOMAIN r.have_blocks
               PROVE  \E s \in FilledStarts(r) : HadAt(r, h, s)
    BY Zenon DEF HadInFilled
  <2>1. CASE h \in DOMAIN e.have_blocks
    <3>1. PICK s \in FilledStarts(e) : HadAt(e, h, s)
      BY <2>1 DEF Marks, HadInFilled
    <3>2. s \in FilledStarts(r) /\ HadAt(r, h, s)
      BY Zenon, <1>1, <1>2, <2>1, <3>1 DEF FilledStarts, HadAt
    <3>. QED
      BY <3>2
  <2>2. CASE h \notin DOMAIN e.have_blocks
    <3>1. h \in DOMAIN H /\ r.have_blocks[h] = H[h]
      BY <1>2, <2>2
    <3>2. start \in FilledStarts(r) /\ HadAt(r, h, start)
      BY Zenon, <1>1, <3>1 DEF FilledStarts, HadAt
    <3>. QED
      BY <3>2
  <2>. QED
    BY Zenon, <2>1, <2>2
<1>7. HadIsRequested(r)
  BY <1>2 DEF Marks, HadIsRequested
<1>. QED
  BY <1>4, <1>5, <1>6, <1>7 DEF Marks

\* The same for a span that brings no heights.
LEMMA EnterScheduled ==
  ASSUME NEW e, Marks(e), NEW start \in Nat, start \notin Starts(e),
         NEW span \in Span,
         NEW R \in SUBSET Range(span.hashes)
  PROVE  Marks([blocks |-> Emplace(e.blocks, [s \in {start} |-> span]),
                requested_hashes |-> e.requested_hashes \cup R,
                have_blocks |-> e.have_blocks])
<1> DEFINE H == [h \in {} |-> 0]
<1>1. /\ H \in [DOMAIN H -> Nat]
      /\ DOMAIN H = {}
      /\ DOMAIN H \subseteq R
      /\ \A h \in DOMAIN H : /\ H[h] - start + 1 \in DOMAIN span.hashes
                              /\ span.hashes[H[h] - start + 1] = h
  OBVIOUS
<1>2. Emplace(e.have_blocks, H) = e.have_blocks
  BY DEF Emplace, Marks, IsQueue
<1> HIDE DEF H
<1>3. Marks([blocks |-> Emplace(e.blocks, [s \in {start} |-> span]),
             requested_hashes |-> e.requested_hashes \cup R,
             have_blocks |-> Emplace(e.have_blocks, H)])
  BY Zenon, <1>1, EnterSpan
<1>. QED
  BY <1>2, <1>3

\* Replacing the hashes of a span of the connection moves its marks along.
LEMMA SetHashesMarks ==
  ASSUME NEW p, Marks(p), NEW start \in Starts(p), NEW conn \in Conns,
         NEW hashes \in Seq(Hashes),
         p.blocks[start].connection_id = conn
  PROVE  /\ Marks(set_span_hashes(p, start, conn, hashes))
         /\ Starts(set_span_hashes(p, start, conn, hashes)) = Starts(p)
         /\ \A s \in Starts(p) : set_span_hashes(p, start, conn, hashes).blocks[s] =
              IF s = start THEN [p.blocks[s] EXCEPT !.hashes = hashes] ELSE p.blocks[s]
<1> DEFINE e == erase_blocks(p, {start})
           span == [p.blocks[start] EXCEPT !.hashes = hashes]
           r == set_span_hashes(p, start, conn, hashes)
<1>1. Marks(e) /\ Starts(e) = Starts(p) \ {start}
      /\ \A s \in Starts(e) : e.blocks[s] = p.blocks[s]
  BY EraseMarks, EraseFields
<1>2. start \in Nat /\ span \in Span /\ span.hashes = hashes
  BY Zenon DEF Marks, IsQueue, Starts, Span
<1>3. e = [blocks |-> e.blocks, requested_hashes |-> e.requested_hashes,
           have_blocks |-> e.have_blocks]
      /\ e.have_blocks = [x \in DOMAIN e.have_blocks |-> e.have_blocks[x]]
  BY Zenon, <1>1 DEF Marks, IsQueue
<1>4. r = [blocks |-> Emplace(e.blocks, [s \in {start} |-> span]),
           requested_hashes |-> e.requested_hashes \cup Range(hashes),
           have_blocks |-> e.have_blocks]
  <2>1. r = insert([e EXCEPT !.requested_hashes = @ \cup Range(hashes)], start, span)
    BY DEF set_span_hashes
  <2> HIDE DEF e, span, r
  <2>. QED
    BY Zenon, <1>3, <2>1 DEF insert
<1>5. Marks(r)
  <2>1. start \notin Starts(e) /\ Range(hashes) \in SUBSET Range(span.hashes)
    BY Zenon, <1>1, <1>2
  <2> HIDE DEF e, span, r
  <2>. QED
    BY Zenon, <1>1, <1>2, <1>4, <2>1, EnterScheduled
<1>6. Starts(r) = Starts(p)
      /\ \A s \in Starts(p) : r.blocks[s] = IF s = start THEN span ELSE p.blocks[s]
  <2> HIDE DEF e, span, r
  <2>. QED
    BY <1>1, <1>4 DEF Starts, Emplace
<1>. QED
  BY <1>5, <1>6

\* The queue keeps its marks exact when a span is reserved, whether it enters
\* the queue, is refused because of another connection's, or gives new hashes
\* to a span of the same connection.
LEMMA ReserveInv ==
  ASSUME NEW q, QueueInv(q), NEW conn \in Conns,
         NEW span \in [start : Nat, hashes : Seq(Hashes)], span.hashes # << >>
  PROVE  QueueInv(reserve_span(q, conn, span))
<1> DEFINE start == span.start
           new == [hashes |-> << >>, blocks |-> << >>,
                   connection_id |-> conn, nblocks |-> Len(span.hashes)]
           p == schedule_blocks(q, start, Len(span.hashes), conn)
           r == set_span_hashes(p, start, conn, span.hashes)
<1>1. start \in Nat /\ span.hashes \in Seq(Hashes) /\ Len(span.hashes) \in Nat \ {0}
  <2>1. span.hashes \in Seq(Hashes)
    OBVIOUS
  <2>. QED
    BY <2>1, EmptySeq, LenProperties
<1>2. new \in Span /\ new.connection_id = conn
  BY <1>1 DEF Span
<1>3. p = [blocks |-> Emplace(q.blocks, [s \in {start} |-> new]),
           requested_hashes |-> q.requested_hashes,
           have_blocks |-> q.have_blocks]
  BY DEF schedule_blocks, insert, QueueInv, Marks, IsQueue
<1>4. /\ Starts(p) = Starts(q) \cup {start}
      /\ \A s \in Starts(q) : p.blocks[s] = q.blocks[s]
      /\ start \notin Starts(q) => p.blocks[start] = new
  <2> HIDE DEF p, new, start
  <2>. QED
    BY <1>3 DEF Starts, Emplace
<1>5. Marks(p)
  <2>1. CASE start \in Starts(q)
    <3>1. Emplace(q.blocks, [s \in {start} |-> new]) = q.blocks
      <4>1. q.blocks = [s \in DOMAIN q.blocks |-> q.blocks[s]]
        BY DEF QueueInv, Marks, IsQueue
      <4> HIDE DEF new, start
      <4>. QED
        BY <4>1, <2>1 DEF Emplace, Starts
    <3>2. p = q
      BY <1>3, <3>1 DEF QueueInv, Marks, IsQueue
    <3>. QED
      BY <3>2 DEF QueueInv
  <2>2. CASE start \notin Starts(q)
    <3>1. {} \in SUBSET Range(new.hashes) /\ q.requested_hashes \cup {} = q.requested_hashes
      OBVIOUS
    <3>2. Marks(q)
      BY DEF QueueInv
    <3> HIDE DEF p, new, start
    <3>3. Marks([blocks |-> Emplace(q.blocks, [s \in {start} |-> new]),
                 requested_hashes |-> q.requested_hashes \cup {},
                 have_blocks |-> q.have_blocks])
      BY Zenon, <1>1, <1>2, <2>2, <3>1, <3>2, EnterScheduled
    <3>. QED
      BY <1>3, <3>1, <3>3
  <2>. QED
    BY <2>1, <2>2
<1>6. CASE p.blocks[start].connection_id = conn
  <2> HIDE DEF p, new, start
  <2>1. /\ Marks(r)
        /\ Starts(r) = Starts(p)
        /\ \A s \in Starts(p) : r.blocks[s] =
              IF s = start THEN [p.blocks[s] EXCEPT !.hashes = span.hashes] ELSE p.blocks[s]
    BY <1>1, <1>4, <1>5, <1>6, SetHashesMarks
  <2>2. p.blocks[start] \in Span
    BY <1>4, <1>5 DEF Marks, IsQueue, Starts
  <2>3. r.blocks[start].hashes = span.hashes
    BY Zenon, <1>4, <2>1, <2>2 DEF Span
  <2>4. ASSUME NEW s \in Starts(r) PROVE Filled(r.blocks[s]) \/ r.blocks[s].hashes # << >>
    <3>1. CASE s = start
      BY <2>3, <3>1
    <3>2. CASE s # start
      <4>1. s \in Starts(q) /\ r.blocks[s] = q.blocks[s]
        BY Zenon, <1>4, <2>1, <3>2
      <4>. QED
        BY <4>1 DEF QueueInv, ScheduledHasHashes
    <3>. QED
      BY <3>1, <3>2
  <2>5. ScheduledHasHashes(r)
    BY <2>4 DEF ScheduledHasHashes
  <2>. QED
    BY <2>1, <2>5 DEF QueueInv, reserve_span, r, p, start
<1>7. CASE p.blocks[start].connection_id # conn
  <2>1. r = p
    BY <1>7 DEF set_span_hashes
  <2> HIDE DEF p, new, start, r
  <2>2. start \in Starts(q)
    BY <1>2, <1>4, <1>7
  <2>3. \A s \in Starts(p) : s \in Starts(q) /\ p.blocks[s] = q.blocks[s]
    BY <1>4, <2>2
  <2>4. ScheduledHasHashes(p)
    BY <2>3 DEF ScheduledHasHashes, QueueInv
  <2>. QED
    BY <1>5, <2>1, <2>4 DEF QueueInv, reserve_span, r, p, start
<1>. QED
  BY <1>6, <1>7

\* The heights recorded for the hashes of a span point back into the span.
LEMMA HeightInSpan ==
  ASSUME NEW hashes \in Seq(Hashes), NEW start \in Nat
  PROVE  LET H == HeightIn(hashes, start) IN
         /\ DOMAIN H = Range(hashes)
         /\ \A h \in DOMAIN H : /\ H[h] \in Nat
                                /\ H[h] - start + 1 \in DOMAIN hashes
                                /\ hashes[H[h] - start + 1] = h
<1> DEFINE H == HeightIn(hashes, start)
<1>1. DOMAIN H = Range(hashes)
  BY DEF HeightIn
<1>2. ASSUME NEW h \in Range(hashes)
      PROVE  /\ H[h] \in Nat
             /\ H[h] - start + 1 \in DOMAIN hashes
             /\ hashes[H[h] - start + 1] = h
  <2> DEFINE I == {i \in DOMAIN hashes : hashes[i] = h}
  <2>1. I # {} /\ I \in SUBSET Nat /\ DOMAIN hashes = 1..Len(hashes) /\ Len(hashes) \in Nat
    BY <1>2, LenProperties DEF Range
  <2>2. Min(I) \in I
    BY Zenon, <2>1, MinNat
  <2>3. H[h] = start - 1 + Min(I)
    BY <1>2 DEF HeightIn
  <2> HIDE DEF H, I
  <2>4. Min(I) \in 1..Len(hashes) /\ hashes[Min(I)] = h
    BY <2>1, <2>2 DEF I
  <2>5. H[h] - start + 1 = Min(I) /\ H[h] \in Nat
    BY <2>3, <2>4
  <2>. QED
    BY <2>1, <2>4, <2>5
<1>. QED
  BY <1>1, <1>2

\* The queue keeps its marks exact when an answer comes in.
LEMMA AddInv ==
  ASSUME NEW q, QueueInv(q), NEW conn \in Conns, NEW start \in Nat,
         NEW bcel \in Seq(Hashes), bcel # << >>
  PROVE  QueueInv(add_blocks(q, start, bcel, conn))
<1> DEFINE new == [hashes |-> << >>, blocks |-> bcel,
                   connection_id |-> conn, nblocks |-> Len(bcel)]
           r == add_blocks(q, start, bcel, conn)
<1>1. new \in Span /\ new.blocks = bcel /\ new.hashes = << >>
  BY EmptySeq, LenProperties DEF Span
<1>2. Marks(q)
  BY DEF QueueInv
<1>3. CASE start \notin Starts(q)
  <2>1. r = [blocks |-> Emplace(q.blocks, [s \in {start} |-> new]),
             requested_hashes |-> q.requested_hashes \cup {},
             have_blocks |-> q.have_blocks]
    BY <1>2, <1>3 DEF add_blocks, insert, Marks, IsQueue
  <2>2. {} \in SUBSET Range(new.hashes)
    OBVIOUS
  <2> HIDE DEF r, new
  <2>3. Marks(r)
    BY Zenon, <1>1, <1>2, <1>3, <2>1, <2>2, EnterScheduled
  <2>4. /\ Starts(r) = Starts(q) \cup {start}
        /\ \A s \in Starts(r) : r.blocks[s] = IF s \in Starts(q) THEN q.blocks[s] ELSE new
    BY <2>1 DEF Starts, Emplace
  <2>5. ScheduledHasHashes(r)
    BY <1>1, <2>4 DEF ScheduledHasHashes, QueueInv, Filled
  <2>. QED
    BY <2>3, <2>5 DEF QueueInv, r
<1>4. CASE start \in Starts(q)
  <2> DEFINE hashes == q.blocks[start].hashes
             e == erase_blocks(q, {start})
             H == HeightIn(hashes, start)
             span == [hashes |-> hashes, blocks |-> bcel,
                      connection_id |-> conn, nblocks |-> Len(bcel)]
  <2>1. hashes \in Seq(Hashes)
    BY <1>2, <1>4 DEF Marks, IsQueue, Starts, Span
  <2>2. span \in Span /\ Filled(span) /\ span.hashes = hashes
    BY <1>1, <2>1 DEF Span, Filled
  <2>3. /\ Marks(e)
        /\ Starts(e) = Starts(q) \ {start}
        /\ \A s \in Starts(e) : e.blocks[s] = q.blocks[s]
    <3> HIDE DEF e
    <3>1. {start} \in SUBSET Starts(q)
      BY <1>4
    <3>. QED
      BY <1>2, <3>1, EraseMarks, EraseFields DEF e
  <2>4. r = [blocks |-> Emplace(e.blocks, [s \in {start} |-> span]),
             requested_hashes |-> e.requested_hashes \cup Range(hashes),
             have_blocks |-> Emplace(e.have_blocks, H)]
    <3> DEFINE marked == [blocks |-> Emplace(e.blocks, [s \in {start} |-> new]),
                          requested_hashes |-> e.requested_hashes \cup Range(hashes),
                          have_blocks |-> Emplace(e.have_blocks, H)]
               e2 == erase_blocks(marked, {start})
    <3>1. e = [blocks |-> e.blocks, requested_hashes |-> e.requested_hashes,
               have_blocks |-> e.have_blocks]
          /\ e.blocks = [s \in Starts(e) |-> e.blocks[s]]
      BY Zenon, <2>3 DEF Marks, IsQueue, Starts
    <3>2. r = set_span_hashes(marked, start, conn, hashes)
      <4> DEFINE added == insert(e, start, new)
      <4>1. r = set_span_hashes([blocks |-> added.blocks,
                                 requested_hashes |-> added.requested_hashes \cup Range(hashes),
                                 have_blocks |-> Emplace(added.have_blocks, H)],
                                start, conn, hashes)
        BY <1>4 DEF add_blocks
      <4>2. added =
              [blocks |-> Emplace(e.blocks, [s \in {start} |-> new]),
               requested_hashes |-> e.requested_hashes, have_blocks |-> e.have_blocks]
        <5> HIDE DEF e, new
        <5>. QED
          BY <3>1 DEF insert
      <4> HIDE DEF e, new, H, hashes, r, added
      <4>. QED
        BY <4>1, <4>2
    <3>3. /\ Starts(marked) = Starts(e) \cup {start}
          /\ \A s \in Starts(e) : marked.blocks[s] = e.blocks[s]
          /\ marked.blocks[start] = new
      <4>1. start \notin Starts(e)
        BY Zenon, <2>3
      <4> HIDE DEF e, new, H, hashes
      <4>. QED
        BY <4>1 DEF Starts, Emplace
    <3>4. HashesOf(marked, {start}) = {}
      <4>1. marked.blocks[start].hashes = << >>
        <5> HIDE DEF marked, new
        <5>. QED
          BY <3>3, <1>1
      <4>2. Range(<< >>) = {}
        BY DEF Range
      <4> HIDE DEF marked
      <4>. QED
        BY Zenon, <4>1, <4>2 DEF HashesOf
    <3>5. e2 = [blocks |-> e.blocks,
                requested_hashes |-> e.requested_hashes \cup Range(hashes),
                have_blocks |-> Emplace(e.have_blocks, H)]
      <4>1. Without(marked.blocks, {start}) = e.blocks
        <5>1. start \notin Starts(e)
          BY Zenon, <2>3
        <5> HIDE DEF e, marked
        <5>. QED
          BY Zenon, <3>1, <3>3, <5>1 DEF Without, Restrict, Starts
      <4>2. Without(marked.have_blocks, {}) = Emplace(e.have_blocks, H)
        BY DEF Without, Restrict, Emplace
      <4> HIDE DEF e, H, hashes
      <4>. QED
        BY Zenon, <3>4, <4>1, <4>2 DEF erase_blocks
    <3>6. [new EXCEPT !.hashes = hashes] = span
      OBVIOUS
    <3>7. r = insert([e2 EXCEPT !.requested_hashes = @ \cup Range(hashes)], start, span)
      <4> HIDE DEF e, new, H, hashes, r, span, marked
      <4>1. start \in Starts(marked) /\ marked.blocks[start].connection_id = conn
        BY <3>3 DEF new
      <4>. QED
        BY <3>2, <3>3, <3>6, <4>1 DEF set_span_hashes
    <3> HIDE DEF e, new, H, hashes, r, span, marked, e2
    <3>. QED
      BY Zenon, <3>5, <3>7 DEF insert
  <2>5. /\ DOMAIN H = Range(hashes)
        /\ H \in [DOMAIN H -> Nat]
        /\ \A h \in DOMAIN H : /\ H[h] - start + 1 \in DOMAIN span.hashes
                               /\ span.hashes[H[h] - start + 1] = h
    <3>1. H = [h \in DOMAIN H |-> H[h]]
      BY DEF HeightIn
    <3>. QED
      BY Zenon, <2>1, <2>2, <3>1, HeightInSpan
  <2>6. /\ start \notin Starts(e)
        /\ Range(hashes) \in SUBSET Range(span.hashes)
        /\ DOMAIN H \subseteq Range(hashes)
    BY Zenon, <2>2, <2>3, <2>5
  <2> HIDE DEF r, new, e, H, span, hashes
  <2>7. Marks(r)
    <3> DEFINE R == Range(hashes)
    <3>1. R \in SUBSET Range(span.hashes) /\ DOMAIN H \subseteq R
      BY <2>6
    <3>2. DOMAIN H = {} \/ Filled(span)
      BY <2>2
    <3> HIDE DEF R
    <3>3. Marks([blocks |-> Emplace(e.blocks, [s \in {start} |-> span]),
                 requested_hashes |-> e.requested_hashes \cup R,
                 have_blocks |-> Emplace(e.have_blocks, H)])
      <4>1. Marks(e) /\ start \notin Starts(e) /\ span \in Span
        BY <2>2, <2>3, <2>6
      <4>2. /\ H \in [DOMAIN H -> Nat]
            /\ \A h \in DOMAIN H : /\ H[h] - start + 1 \in DOMAIN span.hashes
                                   /\ span.hashes[H[h] - start + 1] = h
        BY <2>5
      <4>. QED
        BY Zenon, <3>1, <3>2, <4>1, <4>2, EnterSpan
    <3>. QED
      BY <2>4, <3>3 DEF R
  <2>8. /\ Starts(r) = Starts(q)
        /\ \A s \in Starts(r) : r.blocks[s] = IF s = start THEN span ELSE q.blocks[s]
    BY <1>4, <2>3, <2>4 DEF Starts, Emplace
  <2>9. ScheduledHasHashes(r)
    BY <2>2, <2>8 DEF ScheduledHasHashes, QueueInv
  <2>. QED
    BY <2>7, <2>9 DEF QueueInv, r
<1>. QED
  BY <1>3, <1>4

------------------------------------------------------------------------------
(* What reserve_span reserves *)

\* get_next_unpruned_block_height returns a height.
LEMMA NextUnprunedType ==
  ASSUME NEW height \in Nat, NEW remote \in Nat, NEW stripe \in Seeds
  PROVE  get_next_unpruned_block_height(height, remote, stripe) \in Int
<1>1. StripeSize \in Nat /\ StripeSize > 0 /\ Stripes \in Nat /\ Stripes > 0 /\ TipBlocks \in Nat
      /\ stripe \in Int
  BY PruningAssumption DEF Seeds
<1>2. height \div StripeSize \in Int
  BY <1>1
<1>3. (height \div StripeSize) \div Stripes \in Int
  BY <1>1, <1>2
<1>4. NextStripeStart(height, stripe) \in Int
  BY <1>1, <1>3 DEF NextStripeStart
<1>. QED
  BY <1>1, <1>4 DEF get_next_unpruned_block_height

\* The scan for a block that is not requested ends inside the hashes or just after them.
LEMMA SkipRequestedRange ==
  ASSUME NEW q, NEW hashes \in Seq(Hashes), NEW first \in Nat,
         NEW height \in Nat, height <= first + Len(hashes)
  PROVE  SkipRequested(q, hashes, first, height) \in height..(first + Len(hashes))
<1> DEFINE S == {h \in height..(first + Len(hashes)) :
                   h = first + Len(hashes) \/ hashes[h - first + 1] \notin q.requested_hashes}
<1>1. S \in SUBSET Nat /\ first + Len(hashes) \in S
  BY LenProperties
<1>2. Min(S) \in S
  BY Zenon, <1>1, MinNat
<1>. QED
  BY <1>2 DEF SkipRequested

\* A reserved span does not reach beyond the last block the peer has.
LEMMA SpanLengthRange ==
  ASSUME NEW start \in Nat, NEW last \in Nat, NEW max_blocks \in Nat,
         NEW sync_pruned, NEW local, NEW stripe, NEW remote
  PROVE  LET n == SpanLength(start, last, max_blocks, sync_pruned, local, stripe, remote)
         IN  n \in Nat /\ (n = 0 \/ start + n <= last + 1)
<1> DEFINE S == {n \in 0..max_blocks :
                   /\ start + n <= last + 1
                   /\ \A h \in start..(start + n - 1) :
                        Downloadable(h, start, sync_pruned, local, stripe, remote)} \cup {0}
<1>1. S \in SUBSET Nat /\ S # {} /\ \A n \in S : n <= max_blocks
  OBVIOUS
<1>2. Max(S) \in S
  BY Zenon, <1>1, MaxNat
<1>. QED
  BY <1>2 DEF SpanLength

\* A reservation is a non-empty run of the hashes it was made from.
LEMMA ReservedSpan ==
  ASSUME NEW q, NEW hashes \in Seq(Hashes), NEW last \in Nat,
         NEW max_blocks \in Nat, NEW sync_pruned, NEW local,
         NEW stripe \in Seeds, NEW remote \in Nat,
         NEW span,
         span = reserved_span(q, last, max_blocks, sync_pruned, local, stripe, remote, hashes),
         span # NoSpan
  PROVE  span \in [start : Nat, hashes : Seq(Hashes)] /\ span.hashes # << >>
<1> DEFINE first  == last - Len(hashes) + 1
           start  == SpanStart(q, last, sync_pruned, stripe, remote, hashes)
           length == SpanLength(start, last, max_blocks, sync_pruned, local, stripe, remote)
<1>1. /\ Len(hashes) \in Nat /\ Len(hashes) <= last /\ length # 0
      /\ span = [start |-> start,
                 hashes |-> SubSeq(hashes, start - first + 1, start - first + length)]
  <2> HIDE DEF start, length
  <2>. QED
    BY LenProperties DEF reserved_span, start, length
<1>2. first \in Nat /\ first >= 1 /\ first + Len(hashes) = last + 1
  BY <1>1
<1>3. start \in Nat /\ start >= first
  <2> DEFINE start1 == SkipRequested(q, hashes, first, first)
             next   == get_next_unpruned_block_height(start1, remote, stripe)
             start2 == IF ~sync_pruned /\ next > start1 /\ next < start1 + StripeSize
                         THEN next ELSE start1
  <2>1. start1 \in first..(last + 1)
    BY <1>1, <1>2, SkipRequestedRange
  <2> HIDE DEF start1, first
  <2>2. next \in Int
    <3>1. start1 \in Nat
      BY <1>2, <2>1
    <3>. QED
      BY <3>1, NextUnprunedType
  <2> HIDE DEF next
  <2>3. start2 \in Nat /\ start2 >= first
    BY <1>2, <2>1, <2>2
  <2>4. start = IF start2 > last THEN start2 ELSE SkipRequested(q, hashes, first, start2)
    BY DEF SpanStart, start1, next, first
  <2> HIDE DEF start2, start
  <2>5. CASE start2 > last
    BY <2>3, <2>4, <2>5
  <2>6. CASE ~(start2 > last)
    <3>1. SkipRequested(q, hashes, first, start2) \in start2..(first + Len(hashes))
      BY <1>1, <1>2, <2>3, <2>6, SkipRequestedRange
    <3>. QED
      BY <1>1, <1>2, <2>3, <2>4, <2>6, <3>1
  <2>. QED
    BY <2>5, <2>6
<1>4. length \in Nat /\ start + length <= last + 1
  <2> HIDE DEF start
  <2>. QED
    BY <1>1, <1>3, SpanLengthRange
<1> DEFINE m == start - first + 1
           n == start - first + length
<1>5. m \in 1..Len(hashes) /\ n \in m..Len(hashes)
  <2> HIDE DEF start, length
  <2>. QED
    BY <1>1, <1>2, <1>3, <1>4
<1>6. SubSeq(hashes, m, n) \in Seq(Hashes) /\ Len(SubSeq(hashes, m, n)) > 0
  <2> HIDE DEF m, n
  <2>. QED
    BY <1>1, <1>5, SubSeqProperties
<1> DEFINE run == SubSeq(hashes, m, n)
<1>7. run # << >>
  <2>1. Len(run) > 0 /\ Len(<< >>) = 0
    BY <1>6, EmptySeq
  <2> HIDE DEF run
  <2>. QED
    BY <2>1
<1>8. span = [start |-> start, hashes |-> run]
  BY <1>1
<1>. QED
  <2>1. run \in Seq(Hashes)
    BY <1>6
  <2> HIDE DEF start, run
  <2>. QED
    BY <1>3, <1>7, <1>8, <2>1

------------------------------------------------------------------------------
(* The handler's steps *)

\* The inductive invariant: the queue's marks are exact, and what a connection
\* has been asked for is at least one block.
IInv ==
  /\ QueueInv(queue)
  /\ asked \in [Conns -> [start : Nat, hashes : Seq(Hashes)]]
  /\ \A c \in Conns : asked[c] # NoSpan => asked[c].hashes # << >>

\* The empty answer of reserve_span is well formed.
LEMMA NoSpanType == NoSpan \in [start : Nat, hashes : Seq(Hashes)]
BY EmptySeq DEF NoSpan

\* The empty queue satisfies the inductive invariant.
LEMMA InitIInv == Init => IInv
<1> SUFFICES ASSUME Init PROVE IInv
  OBVIOUS
<1>1. queue.blocks = << >> /\ queue.requested_hashes = {} /\ queue.have_blocks = << >>
      /\ queue = [blocks |-> queue.blocks, requested_hashes |-> queue.requested_hashes,
                  have_blocks |-> queue.have_blocks]
  BY DEF Init, EmptyQueue
<1>2. DOMAIN queue.blocks = {} /\ DOMAIN queue.have_blocks = {}
  BY <1>1
<1>3. IsQueue(queue)
  BY <1>1, <1>2 DEF IsQueue
<1>4. RequestedInSpan(queue) /\ HadInFilled(queue) /\ HadIsRequested(queue)
      /\ ScheduledHasHashes(queue)
  BY <1>1, <1>2 DEF RequestedInSpan, HadInFilled, HadIsRequested, ScheduledHasHashes, Starts
<1>5. asked \in [Conns -> [start : Nat, hashes : Seq(Hashes)]]
      /\ \A c \in Conns : asked[c] = NoSpan
  BY NoSpanType DEF Init
<1>. QED
  BY <1>3, <1>4, <1>5 DEF IInv, QueueInv, Marks

\* Asking a connection for a span, or for none, keeps what is known of asked.
LEMMA AskedSpan ==
  ASSUME IInv, NEW c \in Conns, NEW span \in [start : Nat, hashes : Seq(Hashes)],
         span = NoSpan \/ span.hashes # << >>,
         asked' = [asked EXCEPT ![c] = span], QueueInv(queue)'
  PROVE  IInv'
BY DEF IInv

\* Every step preserves the inductive invariant.
LEMMA StepIInv == IInv /\ [Next]_vars => IInv'
<1> SUFFICES ASSUME IInv, [Next]_vars PROVE IInv'
  OBVIOUS
<1>0. QueueInv(queue) /\ IsQueue(queue)
  BY DEF IInv, QueueInv, Marks
<1>1. ASSUME NEW c \in Conns, NEW chain \in Chains, NEW max_blocks \in BlockSyncSizes,
             NEW stripe \in PeerStripes, NEW first \in 1..Len(chain),
             ReserveSpan(c, chain, first, max_blocks, stripe)
      PROVE  IInv'
  <2> DEFINE last        == Len(chain)
             hashes      == SubSeq(chain, first, last)
             sync_pruned == SyncPrunedBlocks /\ first >= BPForkHeight /\ LocalStripe # 0
             span        == reserved_span(queue, last, max_blocks, sync_pruned,
                                          LocalStripe, stripe, Len(chain) + 1, hashes)
  <2>1. chain \in Seq(Hashes) /\ last \in Nat /\ last + 1 \in Nat
    BY BlockQueueAssumption, LenProperties
  <2>2. max_blocks \in Nat /\ stripe \in Seeds
    BY BlockDownloadAssumption
  <2>3. hashes \in Seq(Hashes)
    BY <2>1, SubSeqProperties
  <2>4. span # NoSpan /\ queue' = reserve_span(queue, c, span)
        /\ asked' = [asked EXCEPT ![c] = span]
    BY <1>1 DEF ReserveSpan
  <2>5. span \in [start : Nat, hashes : Seq(Hashes)] /\ span.hashes # << >>
    <3> HIDE DEF last, hashes, sync_pruned
    <3>. QED
      BY <2>1, <2>2, <2>3, <2>4, ReservedSpan DEF last
  <2> HIDE DEF span
  <2>6. QueueInv(queue')
    BY <1>0, <2>4, <2>5, ReserveInv
  <2>. QED
    BY Zenon, <2>4, <2>5, <2>6, AskedSpan DEF QueueInv
<1>2. ASSUME NEW c \in Conns, RequestNextSpan(c) PROVE IInv'
  <2> DEFINE s == NextStart(queue)
             span == [start |-> s, hashes |-> queue.blocks[s].hashes]
  <2>1. s \in Starts(queue) /\ ~Filled(queue.blocks[s])
    <3>1. Starts(queue) \in SUBSET Nat /\ Starts(queue) # {}
      BY <1>0, <1>2 DEF RequestNextSpan, NextIsScheduled, HasNext, IsQueue, Starts
    <3>2. Min(Starts(queue)) \in Starts(queue)
      BY <3>1, MinNat
    <3>. QED
      BY <1>2, <3>2 DEF RequestNextSpan, NextIsScheduled, NextStart
  <2> HIDE DEF s
  <2>2. s \in Nat /\ queue.blocks[s] \in Span
    BY <1>0, <2>1 DEF IsQueue, Starts
  <2>3. queue.blocks[s].hashes \in Seq(Hashes) /\ queue.blocks[s].hashes # << >>
    BY <1>0, <2>1, <2>2 DEF Span, QueueInv, ScheduledHasHashes
  <2>4. asked' = [asked EXCEPT ![c] = span] /\ queue' = queue
    BY <1>2 DEF RequestNextSpan, s
  <2>5. span \in [start : Nat, hashes : Seq(Hashes)] /\ span.hashes # << >>
    BY <2>2, <2>3
  <2>6. QueueInv(queue')
    BY <1>0, <2>4
  <2> HIDE DEF span
  <2>. QED
    BY Zenon, <2>4, <2>5, <2>6, AskedSpan
<1>3. ASSUME NEW c \in Conns, HandleResponseGetObjects(c) PROVE IInv'
  <2>1. asked[c].start \in Nat /\ asked[c].hashes \in Seq(Hashes)
        /\ asked[c].hashes # << >>
    BY <1>3 DEF HandleResponseGetObjects, IInv
  <2>2. QueueInv(queue')
    BY <1>0, <1>3, <2>1, AddInv DEF HandleResponseGetObjects
  <2>. QED
    BY Zenon, <1>3, <2>2, NoSpanType, AskedSpan DEF HandleResponseGetObjects
<1>4. ASSUME NEW c \in Conns, KickIdlePeer(c) PROVE IInv'
  <2>1. QueueInv(queue')
    BY <1>0, <1>4 DEF KickIdlePeer
  <2>. QED
    BY Zenon, <1>4, <2>1, NoSpanType, AskedSpan DEF KickIdlePeer
<1>5. ASSUME NEW c \in Conns, NEW all \in BOOLEAN, DropConnection(c, all) PROVE IInv'
  <2> DEFINE S == {s \in Starts(queue) : /\ queue.blocks[s].connection_id = c
                                         /\ all \/ ~Filled(queue.blocks[s])}
  <2>1. S \in SUBSET Starts(queue) /\ queue' = erase_blocks(queue, S)
    BY <1>5 DEF DropConnection, flush_spans
  <2> HIDE DEF S
  <2>2. QueueInv(queue')
    BY <1>0, <2>1, EraseInv
  <2>. QED
    BY Zenon, <1>5, <2>2, NoSpanType, AskedSpan DEF DropConnection
<1>6. ASSUME NEW live \in SUBSET Conns, FlushStaleSpans(live) PROVE IInv'
  <2> DEFINE S == {s \in Starts(queue) : /\ ~Filled(queue.blocks[s])
                                         /\ queue.blocks[s].connection_id \notin live}
  <2>1. S \in SUBSET Starts(queue) /\ queue' = erase_blocks(queue, S)
    BY <1>6 DEF FlushStaleSpans, flush_stale_spans
  <2> HIDE DEF S
  <2>2. QueueInv(queue')
    BY <1>0, <2>1, EraseInv
  <2>. QED
    BY <1>6, <2>2 DEF FlushStaleSpans, IInv
<1>7. ASSUME RemoveNextSpan PROVE IInv'
  <2> DEFINE start == get_next_span(queue)
             conn  == queue.blocks[start].connection_id
             S == {s \in Starts(queue) : /\ queue.blocks[s].connection_id = conn
                                         /\ s <= start}
  <2>1. S \in SUBSET Starts(queue) /\ queue' = erase_blocks(queue, S)
    BY <1>7 DEF RemoveNextSpan, remove_spans
  <2> HIDE DEF S
  <2>2. QueueInv(queue')
    BY <1>0, <2>1, EraseInv
  <2>. QED
    BY <1>7, <2>2 DEF RemoveNextSpan, IInv
<1>8. CASE UNCHANGED vars
  BY <1>8 DEF vars, IInv
<1>. QED
  BY <1>1, <1>2, <1>3, <1>4, <1>5, <1>6, <1>7, <1>8 DEF Next

\* The inductive invariant implies the properties.
LEMMA IInvImplies == IInv => TypeOK /\ NoStaleRequest /\ HaveIsFilled
<1> SUFFICES ASSUME IInv PROVE TypeOK /\ NoStaleRequest /\ HaveIsFilled
  OBVIOUS
<1>1. Marks(queue)
  BY DEF IInv, QueueInv
<1>2. TypeOK
  BY <1>1 DEF TypeOK, Marks, IInv
<1>3. NoStaleRequest
  BY <1>1 DEF Marks, NoStaleRequest, RequestedInSpan
<1>4. HaveIsFilled
  BY <1>1 DEF Marks, HadInFilled, HadAt, HadIsRequested, HaveIsFilled
<1>. QED
  BY <1>2, <1>3, <1>4

\* The inductive invariant holds of every behaviour of the handler's calls.
LEMMA Invariance == Spec => []IInv
BY InitIInv, StepIInv, PTL DEF Spec

\* The queue and what the connections were asked for are always well formed.
THEOREM TypeCorrect == Spec => []TypeOK
BY Invariance, IInvImplies, PTL

\* No hash stays marked as requested once the span it belonged to has left the
\* queue, whichever of erase_block's callers removed it.
THEOREM RequestsAreLive == Spec => []NoStaleRequest
BY Invariance, IInvImplies, PTL

\* A hash that block_queue::have answers for is a hash of a filled span, at the
\* height have_height gives.
THEOREM HadHashesAreFilled == Spec => []HaveIsFilled
BY Invariance, IInvImplies, PTL
==============================================================================
