---------------------------- MODULE MCQueryParser ----------------------------
(***************************************************************************)
(* Queries for TLC: the lists of each parameter up to a length, with the   *)
(* other parameters absent or among a few, since parameters of different   *)
(* kinds meet only where one of them ends the parser and in the search     *)
(* clauses, over which the filters are laid.                               *)
(***************************************************************************)
EXTENDS QueryParser, FiniteSets

CONSTANTS a, b, c, v, w, n0

ListsUpTo(S, n) == UNION {[1..m -> S] : m \in 0..n}

Path1(x) == [one |-> x, two |-> None, three |-> None]
Path2(x, y) == [Path1(x) EXCEPT !.two = y]
Path3(x, y, z) == [Path2(x, y) EXCEPT !.three = z]

Trees == {Path1(a), Path1(b), Path2(a, b), Path2(a, c), Path2(b, a),
          Path3(a, b, c), Path3(a, b, a), Path3(a, c, b)}

Plain ==
    [findType |-> "MANY", reserved |-> FALSE, attributes |-> Absent, sortBy |-> Absent,
     offset |-> Absent, limit |-> Absent, q |-> Absent, filters |-> <<>>, include |-> Absent]

PathLists == ListsUpTo(Trees \cup {Bad}, 3) \cup {Absent, Object}
SomeKeys == [field : {a, b, c}, dir : {"asc", "desc"}]
SomeTerms ==
    [field : {v, a}, value : {Empty}] \cup [field : {a, b, FirstName}, value : {w}]
Conds == [path : {Path1(a), Path2(a, Column), Path2(a, b), Path3(a, b, c), Path1(b), Path1(FirstName)},
          op : {"lte", "in", v}, val : {Empty, w}]
Filtered == {f \in ListsUpTo(Conds \cup {Bad}, 2) :
               \A k, l \in DOMAIN f : k < l => f[k] # Bad /\ f[l] # Bad /\ f[k].path # f[l].path}

MCQueries ==
    {[Plain EXCEPT !.findType = t, !.attributes = l] : t \in {"ONE", "MANY"}, l \in PathLists}
      \cup {[Plain EXCEPT !.findType = t, !.include = l] : t \in {"ONE", "MANY"}, l \in PathLists}
      \cup {[Plain EXCEPT !.sortBy = l] : l \in ListsUpTo(SomeKeys \cup {Bad}, 3)}
      \cup {[Plain EXCEPT !.q = l, !.filters = f] :
              l \in ListsUpTo(SomeTerms \cup {Bad}, 1) \cup {Absent}, f \in Filtered}
      \cup {[Plain EXCEPT !.q = l, !.filters = f] :
              l \in ListsUpTo(SomeTerms, 2), f \in {g \in Filtered : Len(g) <= 1}}
      \cup {[Plain EXCEPT !.reserved = r, !.attributes = l, !.include = m, !.q = q, !.filters = f,
                          !.offset = o, !.limit = o] :
              r \in BOOLEAN, l \in {Absent, Object, <<Path1(a)>>}, m \in {Absent, Object, <<Path1(a)>>},
              q \in {Absent, <<[field |-> c, value |-> w]>>},
              f \in {<<>>, <<[path |-> Path1(a), op |-> v, val |-> Empty]>>},
              o \in {Absent, <<>>, <<n0>>, <<NaN>>}}

=============================================================================
