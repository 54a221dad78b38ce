------------------------------- MODULE Dandelion -------------------------------
(***************************************************************************)
(* net::dandelionpp::connection_map: which outgoing connection carries the *)
(* stem transactions of which source.  The choices the code draws at       *)
(* random make every operator return the set of its possible results.      *)
(***************************************************************************)
EXTENDS Integers, FiniteSets, Functions

CONSTANTS
  nil    \* boost::uuids::nil_uuid: no connection; as a source, this node

\* the stems in use: positions of out_mapping_ whose connection has not died
Live(m) == {i \in DOMAIN m.out_mapping_ : m.out_mapping_[i] # nil}

\* the connections that may be put in the stems, in any order, as many as fit
connection_map(outs, stems) ==
  LET n == IF Cardinality(outs) < stems THEN Cardinality(outs) ELSE stems
  IN {[out_mapping_ |-> out, in_mapping_ |-> <<>>, usage_count_ |-> [i \in 1..stems |-> 0]]
        : out \in Injection(1..n, outs)}

\* the live stems the fewest sources use
select_stem(m) ==
  {i \in Live(m) : \A j \in Live(m) : m.usage_count_[i] <= m.usage_count_[j]}

\* Dead connections leave their stems; the free stems, the lowest first, and
\* then the ones not used yet, get other current connections while there are any.
update(m, current) ==
  LET used  == DOMAIN m.out_mapping_
      kept  == [i \in used |-> IF m.out_mapping_[i] \in current THEN m.out_mapping_[i] ELSE nil]
      cand  == current \ Range(kept)
      free  == {i \in DOMAIN m.usage_count_ : i \notin used \/ kept[i] = nil}
      slots == {i \in free : Cardinality({j \in free : j <= i}) <= Cardinality(cand)}
  IN {[m EXCEPT !.out_mapping_ = [i \in used \cup slots |-> IF i \in slots THEN new[i] ELSE kept[i]]]
        : new \in Injection(slots, cand)}

\* the source gets one of the least used stems; with none left it is forgotten
Assign(m, source) ==
  LET others == DOMAIN m.in_mapping_ \ {source}
  IN IF select_stem(m) = {}
       THEN {[map |-> [m EXCEPT !.in_mapping_ = Restrict(@, others)], stem |-> nil]}
       ELSE {[map |-> [m EXCEPT !.in_mapping_ = [s \in others \cup {source} |->
                                                   IF s = source THEN i ELSE @[s]],
                                !.usage_count_[i] = @ + 1],
              stem |-> m.out_mapping_[i]] : i \in select_stem(m)}

\* mutant: the stem a source leaves keeps its count
Bug_get_stem_leak(m, source) ==
  IF source \notin DOMAIN m.in_mapping_ \/ m.in_mapping_[source] \notin Live(m)
    THEN Assign(m, source)
    ELSE {[map |-> m, stem |-> m.out_mapping_[m.in_mapping_[source]]]}

\* mutant: the least used stem is looked up again at every call
Bug_get_stem_fresh(m, source) ==
  IF source \notin DOMAIN m.in_mapping_
    THEN Assign(m, source)
    ELSE Assign([m EXCEPT !.usage_count_[m.in_mapping_[source]] = @ - 1], source)

get_stem(m, source) ==
  IF source \notin DOMAIN m.in_mapping_
    THEN Assign(m, source)
  ELSE IF m.in_mapping_[source] \notin Live(m)
    THEN Assign([m EXCEPT !.usage_count_[m.in_mapping_[source]] = @ - 1], source)
  ELSE {[map |-> m, stem |-> m.out_mapping_[m.in_mapping_[source]]]}
================================================================================
