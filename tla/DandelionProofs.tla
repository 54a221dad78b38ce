---------------------------- MODULE DandelionProofs ----------------------------
(***************************************************************************)
(* What every operation of connection_map preserves, for any connections   *)
(* and any number of stems.  MapOK(m, C, n) says that m is a map of n      *)
(* stems over the connections C whose stems are apart and whose usage      *)
(* counts are right.                                                       *)
(***************************************************************************)
EXTENDS Dandelion, TLAPS, FiniteSetTheorems

Users(m, i) == {s \in DOMAIN m.in_mapping_ : m.in_mapping_[s] = i}

Shape(m, C, n) ==
  /\ m = [out_mapping_ |-> m.out_mapping_, in_mapping_ |-> m.in_mapping_,
          usage_count_ |-> m.usage_count_]
  /\ m.out_mapping_ = [i \in DOMAIN m.out_mapping_ |-> m.out_mapping_[i]]
  /\ m.in_mapping_ = [s \in DOMAIN m.in_mapping_ |-> m.in_mapping_[s]]
  /\ m.usage_count_ \in [1..n -> Int]
  /\ DOMAIN m.out_mapping_ \subseteq 1..n
  /\ \A i \in DOMAIN m.out_mapping_ : m.out_mapping_[i] \in C \cup {nil}
  /\ \A s \in DOMAIN m.in_mapping_ : m.in_mapping_[s] \in DOMAIN m.out_mapping_
  /\ IsFiniteSet(DOMAIN m.in_mapping_)

Apart(m) ==
  \A i, j \in Live(m) : m.out_mapping_[i] = m.out_mapping_[j] => i = j

UsageOK(m, n) == \A i \in 1..n : m.usage_count_[i] = Cardinality(Users(m, i))

MapOK(m, C, n) == Shape(m, C, n) /\ Apart(m) /\ UsageOK(m, n)

\* what get_stem leaves to Assign: source is not counted
UsageWithout(m, n, source) ==
  \A i \in 1..n : m.usage_count_[i] = Cardinality(Users(m, i) \ {source})

\* The users of a stem are finitely many.
LEMMA UsersFinite ==
  ASSUME NEW m, NEW C, NEW n \in Nat, Shape(m, C, n), NEW i
  PROVE  IsFiniteSet(Users(m, i)) /\ Cardinality(Users(m, i)) \in Nat
<1>1. Users(m, i) \in SUBSET DOMAIN m.in_mapping_ /\ IsFiniteSet(DOMAIN m.in_mapping_)
  BY DEF Users, Shape
<1>2. IsFiniteSet(Users(m, i))
  BY <1>1, FS_Subset
<1> QED BY <1>2, FS_CardinalityType

\* A new map has distinct connections in its stems and no sources.
LEMMA ConnectionMapOK ==
  ASSUME NEW C, IsFiniteSet(C), nil \notin C, NEW outs \in SUBSET C, NEW n \in Nat,
         NEW m \in connection_map(outs, n)
  PROVE  MapOK(m, C, n)
<1> DEFINE k == IF Cardinality(outs) < n THEN Cardinality(outs) ELSE n
<1>1. k \in Nat /\ k <= n
  <2>1. Cardinality(outs) \in Nat
    BY FS_Subset, FS_CardinalityType
  <2> QED BY <2>1
<1>2. PICK out \in Injection(1..k, outs) :
        m = [out_mapping_ |-> out, in_mapping_ |-> <<>>, usage_count_ |-> [i \in 1..n |-> 0]]
  BY Zenon DEF connection_map
<1> HIDE DEF k
<1>3. out \in [1..k -> outs] /\ IsInjective(out)
  BY DEF Injection
<1>4. DOMAIN m.in_mapping_ = {} /\ m.in_mapping_ = [s \in {} |-> m.in_mapping_[s]]
  BY <1>2
<1>5. IsFiniteSet({}) /\ Cardinality({}) = 0
  BY FS_EmptySet
<1>6. Shape(m, C, n)
  BY <1>1, <1>2, <1>3, <1>4, <1>5 DEF Shape
<1>7. Apart(m)
  BY <1>2, <1>3 DEF Apart, Live, IsInjective
<1>8. \A i : Users(m, i) = {}
  BY <1>4 DEF Users
<1>9. UsageOK(m, n)
  BY <1>2, <1>5, <1>8 DEF UsageOK
<1> QED BY <1>6, <1>7, <1>9 DEF MapOK

\* update takes the connections of new stems from those that serve none.
LEMMA UpdateOK ==
  ASSUME NEW C, NEW n \in Nat, nil \notin C, NEW m, MapOK(m, C, n),
         NEW current \in SUBSET C, NEW r \in update(m, current)
  PROVE  MapOK(r, C, n)
<1> DEFINE used  == DOMAIN m.out_mapping_
           kept  == [i \in used |-> IF m.out_mapping_[i] \in current THEN m.out_mapping_[i] ELSE nil]
           cand  == current \ Range(kept)
           free  == {i \in DOMAIN m.usage_count_ : i \notin used \/ kept[i] = nil}
           slots == {i \in free : Cardinality({j \in free : j <= i}) <= Cardinality(cand)}
<1>1. PICK new \in Injection(slots, cand) :
        r = [m EXCEPT !.out_mapping_ = [i \in used \cup slots |-> IF i \in slots THEN new[i] ELSE kept[i]]]
  BY Zenon DEF update
<1>2. new \in [slots -> cand] /\ IsInjective(new)
  BY DEF Injection
<1>3. slots \subseteq 1..n /\ used \subseteq 1..n /\ cand \subseteq C
  BY DEF MapOK, Shape
<1>4. \A i \in used : kept[i] = m.out_mapping_[i] \/ kept[i] = nil
  OBVIOUS
<1>5. \A c \in cand, i \in used : c # kept[i]
  BY DEF Range
<1> HIDE DEF slots, cand, kept
<1>6. /\ r.in_mapping_ = m.in_mapping_ /\ r.usage_count_ = m.usage_count_
      /\ r.out_mapping_ = [i \in used \cup slots |-> IF i \in slots THEN new[i] ELSE kept[i]]
      /\ r = [out_mapping_ |-> r.out_mapping_, in_mapping_ |-> r.in_mapping_,
              usage_count_ |-> r.usage_count_]
  BY <1>1 DEF MapOK, Shape
<1>7. Shape(r, C, n)
  BY <1>2, <1>3, <1>4, <1>6 DEF MapOK, Shape
<1>8. Apart(r)
  <2> SUFFICES ASSUME NEW i \in Live(r), NEW j \in Live(r), r.out_mapping_[i] = r.out_mapping_[j]
               PROVE  i = j
    BY DEF Apart
  <2>1. i \in used \cup slots /\ j \in used \cup slots /\ r.out_mapping_[i] # nil
    BY <1>6 DEF Live
  <2>2. CASE i \in slots /\ j \in slots
    BY <1>2, <1>6, <2>2 DEF IsInjective
  <2>3. CASE i \in slots /\ j \notin slots
    BY <1>2, <1>5, <1>6, <2>1, <2>3
  <2>4. CASE i \notin slots /\ j \in slots
    BY <1>2, <1>5, <1>6, <2>1, <2>4
  <2>5. CASE i \notin slots /\ j \notin slots
    <3>1. m.out_mapping_[i] = m.out_mapping_[j] /\ i \in Live(m) /\ j \in Live(m)
      BY <1>4, <1>6, <2>1, <2>5 DEF Live
    <3> QED BY <3>1 DEF MapOK, Apart
  <2> QED BY <2>2, <2>3, <2>4, <2>5
<1>9. UsageOK(r, n)
  BY <1>6 DEF MapOK, UsageOK, Users
<1> QED BY <1>7, <1>8, <1>9 DEF MapOK

\* Assign counts the source at the stem it gives it, and nowhere else.
LEMMA AssignOK ==
  ASSUME NEW C, NEW n \in Nat, NEW m, NEW source,
         Shape(m, C, n), Apart(m), UsageWithout(m, n, source),
         NEW r \in Assign(m, source)
  PROVE  MapOK(r.map, C, n)
<1> DEFINE others == DOMAIN m.in_mapping_ \ {source}
<1>1. IsFiniteSet(others)
  BY FS_RemoveElement DEF Shape
<1>2. CASE select_stem(m) = {}
  <2> DEFINE g == r.map
  <2>1. /\ g.in_mapping_ = [s \in others |-> m.in_mapping_[s]]
        /\ g.usage_count_ = m.usage_count_ /\ g.out_mapping_ = m.out_mapping_
        /\ g = [out_mapping_ |-> g.out_mapping_, in_mapping_ |-> g.in_mapping_,
                usage_count_ |-> g.usage_count_]
    BY <1>2 DEF Assign, Restrict, Shape
  <2> HIDE DEF g
  <2>2. Shape(g, C, n)
    BY <1>1, <2>1 DEF Shape
  <2>3. Apart(g)
    BY <2>1 DEF Apart, Live
  <2>4. \A i \in 1..n : Users(g, i) = Users(m, i) \ {source}
    BY <2>1 DEF Users
  <2>5. UsageOK(g, n)
    BY <2>1, <2>4 DEF UsageOK, UsageWithout
  <2> QED BY <2>2, <2>3, <2>5 DEF MapOK, g
<1>3. CASE select_stem(m) # {}
  <2> DEFINE g == r.map
  <2> DEFINE f(k) == [s \in others \cup {source} |-> IF s = source THEN k ELSE m.in_mapping_[s]]
  <2>0. PICK k \in select_stem(m) :
          r = [map |-> [m EXCEPT !.in_mapping_ = f(k), !.usage_count_[k] = m.usage_count_[k] + 1],
               stem |-> m.out_mapping_[k]]
    BY <1>3, Zenon DEF Assign
  <2>2. k \in DOMAIN m.out_mapping_ /\ k \in 1..n
    BY DEF select_stem, Live, Shape
  <2>1. /\ g.in_mapping_ = [s \in others \cup {source} |-> IF s = source THEN k ELSE m.in_mapping_[s]]
        /\ g.usage_count_ = [m.usage_count_ EXCEPT ![k] = @ + 1]
        /\ g.out_mapping_ = m.out_mapping_
        /\ g = [out_mapping_ |-> g.out_mapping_, in_mapping_ |-> g.in_mapping_,
                usage_count_ |-> g.usage_count_]
    <3> DEFINE h == [out_mapping_ |-> m.out_mapping_, in_mapping_ |-> m.in_mapping_,
                     usage_count_ |-> m.usage_count_]
    <3>1. m = h
      BY DEF Shape
    <3>2. g = [m EXCEPT !.in_mapping_ = f(k), !.usage_count_[k] = m.usage_count_[k] + 1]
      BY <2>0
    <3>3. g = [h EXCEPT !.in_mapping_ = f(k), !.usage_count_[k] = @ + 1]
      BY <3>1, <3>2, Zenon
    <3> HIDE DEF g
    <3> QED BY <3>3
  <2> HIDE DEF g
  <2>3. IsFiniteSet(others \cup {source})
    BY <1>1, FS_AddElement
  <2>4. Shape(g, C, n)
    BY <2>1, <2>2, <2>3 DEF Shape
  <2>5. Apart(g)
    BY <2>1 DEF Apart, Live
  <2>6. UsageOK(g, n)
    <3> SUFFICES ASSUME NEW i \in 1..n PROVE g.usage_count_[i] = Cardinality(Users(g, i))
      BY DEF UsageOK
    <3>1. m.usage_count_[i] = Cardinality(Users(m, i) \ {source})
      BY DEF UsageWithout
    <3>2. CASE i = k
      <4>1. Users(g, i) = (Users(m, i) \ {source}) \cup {source}
        BY <2>1, <3>2 DEF Users
      <4>2. IsFiniteSet(Users(m, i) \ {source})
        BY UsersFinite, FS_RemoveElement
      <4>3. Cardinality(Users(g, i)) = Cardinality(Users(m, i) \ {source}) + 1
        BY <4>1, <4>2, FS_AddElement
      <4> QED BY <2>1, <3>1, <3>2, <4>3 DEF Shape
    <3>3. CASE i # k
      <4>1. Users(g, i) = Users(m, i) \ {source}
        BY <2>1, <3>3 DEF Users
      <4> QED BY <2>1, <3>1, <3>3, <4>1 DEF Shape
    <3> QED BY <3>2, <3>3
  <2> QED BY <2>4, <2>5, <2>6 DEF MapOK, g
<1> QED BY <1>2, <1>3

\* get_stem keeps the map right, whether it finds a source, moves it or adds it.
LEMMA GetStemOK ==
  ASSUME NEW C, NEW n \in Nat, NEW m, MapOK(m, C, n), NEW source,
         NEW r \in get_stem(m, source)
  PROVE  MapOK(r.map, C, n)
<1>0. Shape(m, C, n) /\ Apart(m) /\ UsageOK(m, n)
  BY DEF MapOK
<1>1. CASE source \notin DOMAIN m.in_mapping_
  <2>1. \A i : Users(m, i) \ {source} = Users(m, i)
    BY <1>1 DEF Users
  <2>2. UsageWithout(m, n, source)
    BY <1>0, <2>1 DEF UsageOK, UsageWithout
  <2>3. r \in Assign(m, source)
    BY <1>1 DEF get_stem
  <2> QED BY <1>0, <2>2, <2>3, AssignOK
<1>2. CASE source \in DOMAIN m.in_mapping_ /\ m.in_mapping_[source] \notin Live(m)
  <2> DEFINE k == m.in_mapping_[source]
             g == [m EXCEPT !.usage_count_[k] = @ - 1]
  <2>1. k \in 1..n /\ source \in Users(m, k)
    BY <1>0, <1>2 DEF Shape, Users
  <2>2. /\ g.in_mapping_ = m.in_mapping_ /\ g.out_mapping_ = m.out_mapping_
        /\ g.usage_count_ = [m.usage_count_ EXCEPT ![k] = @ - 1]
        /\ g = [out_mapping_ |-> g.out_mapping_, in_mapping_ |-> g.in_mapping_,
                usage_count_ |-> g.usage_count_]
    <3> DEFINE h == [out_mapping_ |-> m.out_mapping_, in_mapping_ |-> m.in_mapping_,
                     usage_count_ |-> m.usage_count_]
    <3>1. m = h
      BY <1>0 DEF Shape
    <3>2. g = [h EXCEPT !.usage_count_[k] = @ - 1]
      BY <3>1, Zenon
    <3> HIDE DEF g, k
    <3> QED BY <3>2
  <2>3. r \in Assign(g, source)
    BY <1>2 DEF get_stem
  <2>4. \A i : i # k => Users(m, i) \ {source} = Users(m, i)
    BY DEF Users
  <2> HIDE DEF g, k
  <2>5. Shape(g, C, n)
    BY <1>0, <2>1, <2>2 DEF Shape
  <2>6. Apart(g)
    BY <1>0, <2>2 DEF Apart, Live
  <2>7. UsageWithout(g, n, source)
    <3> SUFFICES ASSUME NEW i \in 1..n PROVE g.usage_count_[i] = Cardinality(Users(g, i) \ {source})
      BY DEF UsageWithout
    <3>1. m.usage_count_[i] = Cardinality(Users(m, i)) /\ Users(g, i) = Users(m, i)
      BY <1>0, <2>2 DEF UsageOK, Users
    <3>2. CASE i = k
      <4>1. Cardinality(Users(m, i) \ {source}) = Cardinality(Users(m, i)) - 1
        BY <1>0, <2>1, <3>2, UsersFinite, FS_RemoveElement
      <4> QED BY <1>0, <2>2, <3>1, <3>2, <4>1 DEF Shape
    <3>3. CASE i # k
      BY <1>0, <2>2, <2>4, <3>1, <3>3 DEF Shape
    <3> QED BY <3>2, <3>3
  <2> QED BY <2>3, <2>5, <2>6, <2>7, AssignOK
<1>3. CASE source \in DOMAIN m.in_mapping_ /\ m.in_mapping_[source] \in Live(m)
  <2>1. r.map = m
    BY <1>3 DEF get_stem
  <2> QED BY <2>1
<1> QED BY <1>1, <1>2, <1>3

\* update moves no source; a stem keeps a current connection, and has one of the
\* current ones or none afterwards.
LEMMA UpdateKeeps ==
  ASSUME NEW C, NEW n \in Nat, nil \notin C, NEW m, MapOK(m, C, n),
         NEW current \in SUBSET C, NEW r \in update(m, current)
  PROVE  /\ r.in_mapping_ = m.in_mapping_
         /\ \A i \in DOMAIN m.out_mapping_ :
              /\ i \in DOMAIN r.out_mapping_
              /\ r.out_mapping_[i] \in current \cup {nil}
              /\ m.out_mapping_[i] \in current => r.out_mapping_[i] = m.out_mapping_[i]
<1> DEFINE used  == DOMAIN m.out_mapping_
           kept  == [i \in used |-> IF m.out_mapping_[i] \in current THEN m.out_mapping_[i] ELSE nil]
           cand  == current \ Range(kept)
           free  == {i \in DOMAIN m.usage_count_ : i \notin used \/ kept[i] = nil}
           slots == {i \in free : Cardinality({j \in free : j <= i}) <= Cardinality(cand)}
<1>1. PICK new \in Injection(slots, cand) :
        r = [m EXCEPT !.out_mapping_ = [i \in used \cup slots |-> IF i \in slots THEN new[i] ELSE kept[i]]]
  BY Zenon DEF update
<1>2. new \in [slots -> cand] /\ cand \subseteq current
  BY DEF Injection
<1>3. \A i \in used : kept[i] \in current \cup {nil}
  OBVIOUS
<1>4. \A i \in used : m.out_mapping_[i] \in current => kept[i] = m.out_mapping_[i] /\ i \notin slots
  OBVIOUS
<1> HIDE DEF slots, cand, kept
<1>5. /\ r.in_mapping_ = m.in_mapping_
      /\ r.out_mapping_ = [i \in used \cup slots |-> IF i \in slots THEN new[i] ELSE kept[i]]
  BY <1>1 DEF MapOK, Shape
<1> QED BY <1>2, <1>3, <1>4, <1>5

\* get_stem leaves the stems alone, and moves no source whose stem is live.
LEMMA GetStemKeeps ==
  ASSUME NEW C, NEW n \in Nat, NEW m, MapOK(m, C, n), NEW source,
         NEW r \in get_stem(m, source)
  PROVE  /\ r.map.out_mapping_ = m.out_mapping_
         /\ \A s \in DOMAIN m.in_mapping_ : m.in_mapping_[s] \in Live(m) =>
              s \in DOMAIN r.map.in_mapping_ /\ r.map.in_mapping_[s] = m.in_mapping_[s]
<1>1. ASSUME NEW g, g.in_mapping_ = m.in_mapping_, g.out_mapping_ = m.out_mapping_,
             g = [out_mapping_ |-> g.out_mapping_, in_mapping_ |-> g.in_mapping_,
                  usage_count_ |-> g.usage_count_],
             r \in Assign(g, source)
      PROVE  /\ r.map.out_mapping_ = m.out_mapping_
             /\ \A s \in DOMAIN m.in_mapping_ \ {source} :
                  s \in DOMAIN r.map.in_mapping_ /\ r.map.in_mapping_[s] = m.in_mapping_[s]
  <2>1. CASE select_stem(g) = {}
    BY <1>1, <2>1 DEF Assign, Restrict
  <2>2. CASE select_stem(g) # {}
    <3> DEFINE others == DOMAIN g.in_mapping_ \ {source}
               f(k) == [s \in others \cup {source} |-> IF s = source THEN k ELSE g.in_mapping_[s]]
               h == [out_mapping_ |-> g.out_mapping_, in_mapping_ |-> g.in_mapping_,
                     usage_count_ |-> g.usage_count_]
    <3>1. PICK k \in select_stem(g) :
            r = [map |-> [g EXCEPT !.in_mapping_ = f(k), !.usage_count_[k] = g.usage_count_[k] + 1],
                 stem |-> g.out_mapping_[k]]
      BY <1>1, <2>2, Zenon DEF Assign
    <3>2. g = h
      BY <1>1
    <3>3. r.map = [g EXCEPT !.in_mapping_ = f(k), !.usage_count_[k] = g.usage_count_[k] + 1]
      BY <3>1
    <3>4. r.map = [h EXCEPT !.in_mapping_ = f(k), !.usage_count_[k] = @ + 1]
      BY <3>2, <3>3, Zenon
    <3>5. r.map.out_mapping_ = g.out_mapping_ /\ r.map.in_mapping_ = f(k)
      BY <3>4
    <3> QED BY <1>1, <3>5
  <2> QED BY <2>1, <2>2
<1>2. CASE source \notin DOMAIN m.in_mapping_
  BY <1>1, <1>2 DEF get_stem, MapOK, Shape
<1>3. CASE source \in DOMAIN m.in_mapping_ /\ m.in_mapping_[source] \notin Live(m)
  <2> DEFINE k == m.in_mapping_[source]
             g == [m EXCEPT !.usage_count_[k] = @ - 1]
             h == [out_mapping_ |-> m.out_mapping_, in_mapping_ |-> m.in_mapping_,
                   usage_count_ |-> m.usage_count_]
  <2>1. m = h
    BY DEF MapOK, Shape
  <2>2. g = [h EXCEPT !.usage_count_[k] = @ - 1]
    BY <2>1, Zenon
  <2>3. r \in Assign(g, source)
    BY <1>3 DEF get_stem
  <2> HIDE DEF g, k
  <2>4. /\ g.in_mapping_ = m.in_mapping_ /\ g.out_mapping_ = m.out_mapping_
        /\ g = [out_mapping_ |-> g.out_mapping_, in_mapping_ |-> g.in_mapping_,
                usage_count_ |-> g.usage_count_]
    BY <2>2
  <2> QED BY <1>1, <1>3, <2>3, <2>4
<1>4. CASE source \in DOMAIN m.in_mapping_ /\ m.in_mapping_[source] \in Live(m)
  BY <1>4 DEF get_stem
<1> QED BY <1>2, <1>3, <1>4
================================================================================
