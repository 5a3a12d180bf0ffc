-------------------------- MODULE QueryParserProofs --------------------------
(***************************************************************************)
(* Proofs about the query parser, for queries with lists of any length.    *)
(* Each loop has an invariant about the elements it has read; the          *)
(* operators that its turns apply have a lemma each.                       *)
(***************************************************************************)
EXTENDS QueryParser, TLAPS

(* What is taken from a list has the type of its elements. *)
LEMMA ElementTypes ==
  ASSUME TypeOK, pc \in Parameters, More
  PROVE  /\ i \in DOMAIN List
         /\ pc \in {"attributes", "include"} /\ List[i] # Bad => List[i] \in Paths
         /\ pc = "sortBy" /\ List[i] # Bad => List[i] \in Keys
         /\ pc = "q" /\ List[i] # Bad => List[i] \in Terms
         /\ pc = "filters" /\ List[i] # Bad => List[i] \in Filters
<1> USE DEF TypeOK, QueryTypes, Lists, More, Given, List, Parameters, Returned
<1>1. CASE pc \in {"attributes", "include"}
  <2>1. List \in Seq(Paths \cup {Bad})
    BY <1>1
  <2> QED
    BY <1>1, <2>1
<1>2. CASE pc = "sortBy"
  <2>1. List \in Seq(Keys \cup {Bad})
    BY <1>2
  <2> QED
    BY <1>2, <2>1
<1>3. CASE pc = "q"
  <2>1. List \in Seq(Terms \cup {Bad})
    BY <1>3
  <2> QED
    BY <1>3, <2>1
<1>4. CASE pc = "filters"
  <2>1. List \in Seq(Filters \cup {Bad})
    BY <1>4
  <2> QED
    BY <1>4, <2>1
<1> QED
  BY <1>1, <1>2, <1>3, <1>4

(* A parameter that is read to the end of its list was a list. *)
LEMMA AfterTypes ==
  ASSUME TypeOK, pc \notin Returned
  PROVE  After(pc) \in {"page", "done"} \cup Parameters
<1> QED
  BY DEF TypeOK, After, Parameters, Returned

(* The conditions of a filter and of a search have their type. *)
LEMMA ConditionTypes ==
  ASSUME NEW f \in Filters
  PROVE  Condition(f) \in Conditions
<1>1. f.path.two \in Names \cup {None} /\ f.path.three \in Names \cup {None}
  BY DEF Filters, Paths
<1>2. f.op \in Parts /\ f.val \in Parts
  BY DEF Filters
<1> QED
  BY <1>1, <1>2 DEF Condition, Conditions, Ops

LEMMA ClauseTypes ==
  ASSUME NEW t \in Terms, NEW s \in Clauses(t), SearchFields \subseteq Names
  PROVE  IsClause(s)
<1>1. t.field \in Names \cup Parts /\ t.value \in Parts
  BY DEF Terms
<1>2. PICK f \in SearchFields, op \in {"like", "nameLike"}, x \in Names \cup Parts :
        s = On(f, Like(op, x))
  BY <1>1 DEF Clauses
<1>3. Like(op, x) \in Conditions
  BY <1>2 DEF Like, Conditions
<1> QED
  BY <1>2, <1>3 DEF On, IsClause

LEMMA OverlayTypes ==
  ASSUME NEW f, NEW g, IsClause(f), IsClause(g)
  PROVE  IsClause(Overlay(f, g))
<1> QED
  BY DEF IsClause, Overlay

(* The initial states have their types. *)
LEMMA InitTypeOK == Init => TypeOK
<1> SUFFICES ASSUME Init PROVE TypeOK
  OBVIOUS
<1>1. query \in QueryTypes
  BY QueriesAssumption DEF Init
<1>2. IsClause(parsedFilters) /\ where = {}
  BY DEF Init, IsClause
<1> QED
  BY <1>1, <1>2 DEF Init, TypeOK

(* Every step keeps the types. *)
LEMMA NextTypeOK == TypeOK /\ [Next]_vars => TypeOK'
<1> SUFFICES ASSUME TypeOK, [Next]_vars PROVE TypeOK'
  OBVIOUS
<1>0. ASSUME GoOn, pc \notin Returned
      PROVE  (query' \in QueryTypes) /\ (i' \in Nat \ {0})
             /\ (pc' \in {"reserved", "page"} \cup Parameters \cup Returned)
  BY <1>0, AfterTypes DEF GoOn, TypeOK, Returned
<1>a. ASSUME Next1, pc \in Parameters
      PROVE  (query' \in QueryTypes) /\ (i' \in Nat \ {0})
             /\ (pc' \in {"reserved", "page"} \cup Parameters \cup Returned)
  BY <1>a DEF Next1, TypeOK
<1>1. CASE Reserved
  BY <1>0, <1>1 DEF Reserved, TypeOK, Returned, IsClause
<1>2. CASE Attribute
  <2>1. List[i] \in Paths
    BY <1>2, ElementTypes DEF Attribute, Parameters
  <2>2. AddColumn(select, List[i]) \subseteq Paths
    BY <2>1 DEF AddColumn, Leaf, Paths, TypeOK
  <2> QED
    BY <1>2, <1>a, <2>2 DEF Attribute, TypeOK, Parameters, IsClause
<1>3. CASE SortBy
  <2>1. List[i] \in Keys
    BY <1>3, ElementTypes DEF SortBy, Parameters
  <2>2. AddOrder(order, List[i]) \in Seq(Keys)
    BY <2>1 DEF AddOrder, TypeOK
  <2> QED
    BY <1>3, <1>a, <2>2 DEF SortBy, TypeOK, Parameters, IsClause
<1>4. CASE Page
  <2>1. \A l \in Seq(Numbers) \cup {Absent} : ParseInt(l) \in Numbers \cup {Absent, NaN}
    BY DEF ParseInt
  <2>2. query.offset \in Seq(Numbers) \cup {Absent} /\ query.limit \in Seq(Numbers) \cup {Absent}
    BY DEF TypeOK, QueryTypes
  <2> QED
    BY <1>0, <1>4, <2>1, <2>2 DEF Page, TypeOK, Returned, IsClause
<1>5. CASE Search
  <2>1. List[i] \in Terms
    BY <1>5, ElementTypes DEF Search, Parameters
  <2>2. \A s \in Clauses(List[i]) : IsClause(s)
    BY <2>1, ClauseTypes, SearchAssumption
  <2> QED
    BY <1>5, <1>a, <2>2 DEF Search, TypeOK, Parameters, IsClause
<1>6. CASE Filter
  <2>1. List[i] \in Filters
    BY <1>6, ElementTypes DEF Filter, Parameters
  <2>2. IsClause(On(List[i].path.one, Condition(List[i])))
    BY <2>1, ConditionTypes DEF IsClause, On, Filters, Paths
  <2>3. IsClause(parsedFilters')
    BY <1>6, <2>2, OverlayTypes DEF Filter, TypeOK
  <2> QED
    BY <1>6, <1>a, <2>3 DEF Filter, TypeOK, Parameters, IsClause
<1>7. CASE Where
  <2>1. \A c \in where' : IsClause(c)
    BY <1>7, OverlayTypes DEF Where, TypeOK
  <2> QED
    BY <1>0, <1>7, <2>1 DEF Where, TypeOK, Returned, IsClause
<1>8. CASE Include
  <2>1. List[i] \in Paths
    BY <1>8, ElementTypes DEF Include, Parameters
  <2>2. AddRelation(relations, List[i]) \subseteq [one : Names, two : Names \cup {None}]
    BY <2>1 DEF AddRelation, Paths, TypeOK
  <2> QED
    BY <1>8, <1>a, <2>2 DEF Include, TypeOK, Parameters, IsClause
<1>9. CASE Throw \/ ReturnUndefined
  BY <1>9 DEF Throw, ReturnUndefined, TypeOK, Returned, IsClause
<1>10. CASE Leave
  BY <1>0, <1>10 DEF Leave, TypeOK, Returned, Parameters, IsClause
<1>11. CASE UNCHANGED vars
  BY <1>11 DEF vars, TypeOK, IsClause
<1> QED
  BY <1>1, <1>2, <1>3, <1>4, <1>5, <1>6, <1>7, <1>8, <1>9, <1>10, <1>11 DEF Next

(* The variables keep their types. *)
THEOREM Typing == Spec => []TypeOK
<1> QED
  BY InitTypeOK, NextTypeOK, PTL DEF Spec

-----------------------------------------------------------------------------

(* One more path drops nothing that is asked for but a third level. *)
LEMMA AddColumnKeeps ==
  ASSUME NEW leaves \in SUBSET Paths, NEW p \in Paths
  PROVE  /\ AddColumn(leaves, p) \subseteq leaves \cup {Leaf(p)}
         /\ \E l \in AddColumn(leaves, p) : IsUnder(l, Leaf(p))
         /\ \A r \in Paths :
               (\E l \in leaves : IsUnder(l, Leaf(r))) =>
                  \/ \E l \in AddColumn(leaves, p) : IsUnder(l, Leaf(r))
                  \/ r.three # None /\ p.one = r.one /\ p.two = r.two
<1> USE NamesAssumption DEF Paths
<1>1. CASE p.two = None
  <2>1. leaves \subseteq AddColumn(leaves, p)
    BY <1>1 DEF AddColumn
  <2>2. \E l \in AddColumn(leaves, p) : IsUnder(l, Leaf(p))
    <3>1. CASE \A m \in leaves : m.one # p.one
      BY <1>1, <3>1 DEF AddColumn, Leaf, IsUnder
    <3>2. CASE \E m \in leaves : m.one = p.one
      BY <1>1, <2>1, <3>2 DEF Leaf, IsUnder
    <3> QED
      BY <3>1, <3>2
  <2> QED
    BY <1>1, <2>1, <2>2 DEF AddColumn
<1>2. CASE p.two # None
  <2>1. p \in AddColumn(leaves, p) /\ Leaf(p) = p /\ IsUnder(p, p)
    BY <1>2 DEF AddColumn, Leaf, IsUnder
  <2>2. AddColumn(leaves, p) \subseteq leaves \cup {p}
    BY <1>2 DEF AddColumn
  <2>3. ASSUME NEW r \in Paths, NEW l \in leaves, IsUnder(l, Leaf(r)),
               ~(r.three # None /\ p.one = r.one /\ p.two = r.two)
        PROVE  \E m \in AddColumn(leaves, p) : IsUnder(m, Leaf(r))
    <3>1. CASE l \in AddColumn(leaves, p)
      BY <2>3, <3>1
    <3>2. CASE l \notin AddColumn(leaves, p)
      <4>1. l.one = p.one /\ l.two \in {None, p.two}
        BY <1>2, <3>2 DEF AddColumn
      <4>2. IsUnder(p, Leaf(r))
        BY <1>2, <2>3, <4>1 DEF IsUnder, Leaf
      <4> QED
        BY <2>1, <4>2
    <3> QED
      BY <3>1, <3>2
  <2> QED
    BY <2>1, <2>2, <2>3
<1> QED
  BY <1>1, <1>2

RelationLeaves == [one : Names, two : Names \cup {None}]
Outermost(asked) == {r \in asked : r.two = None => \A s \in asked : s.one = r.one => s = r}

(* A further path makes of the relations to load those of all the paths. *)
LEMMA AddRelationAll ==
  ASSUME NEW asked \in SUBSET RelationLeaves, NEW p \in Paths
  PROVE  AddRelation(Outermost(asked), p) = Outermost(asked \cup {Relation(p)})
<1> DEFINE r == Relation(p)
           new == AddRelation(Outermost(asked), p)
<1>1. r = [one |-> p.one, two |-> p.two] /\ p.one \in Names /\ p.two \in Names \cup {None}
  BY DEF Relation, Paths
<1>2. CASE p.two = None
  <2>1. (\E m \in Outermost(asked) : m.one = p.one) <=> \E m \in asked : m.one = p.one
    <3>1. ASSUME NEW m \in asked, m.one = p.one
          PROVE  \E n \in Outermost(asked) : n.one = p.one
      <4>1. CASE m.two # None
        BY <3>1, <4>1 DEF Outermost
      <4>2. CASE \E n \in asked : n.one = p.one /\ n.two # None
        BY <4>2 DEF Outermost
      <4>3. CASE \A n \in asked : n.one = p.one => n.two = None
        <5>1. \A n \in asked : n.one = m.one => n = m
          BY <3>1, <4>3 DEF RelationLeaves
        <5> QED
          BY <3>1, <5>1 DEF Outermost
      <4> QED
        BY <4>1, <4>2, <4>3
    <3> QED
      BY <3>1 DEF Outermost
  <2>2. CASE \E m \in asked : m.one = p.one
    <3>1. new = Outermost(asked)
      BY <1>2, <2>1, <2>2 DEF AddRelation
    <3>2. Outermost(asked \cup {r}) = Outermost(asked)
      <4>1. ASSUME NEW s \in Outermost(asked) PROVE s \in Outermost(asked \cup {r})
        <5>1. CASE s.two # None
          BY <4>1, <5>1 DEF Outermost
        <5>2. CASE s.two = None
          <6>1. s \in RelationLeaves /\ \A t \in asked : t.one = s.one => t = s
            BY <4>1, <5>2 DEF Outermost
          <6>2. r.one = s.one => r = s
            BY <1>1, <1>2, <5>2, <6>1 DEF RelationLeaves
          <6> QED
            BY <6>1, <6>2 DEF Outermost
        <5> QED
          BY <5>1, <5>2
      <4>2. ASSUME NEW s \in Outermost(asked \cup {r}) PROVE s \in Outermost(asked)
        <5>1. PICK m \in asked : m.one = p.one
          BY <2>2
        <5>2. s = r => r \in asked
          BY <1>1, <1>2, <4>2, <5>1 DEF Outermost
        <5> QED
          BY <4>2, <5>2 DEF Outermost
      <4> QED
        BY <4>1, <4>2
    <3> QED
      BY <3>1, <3>2
  <2>3. CASE \A m \in asked : m.one # p.one
    <3>1. new = Outermost(asked) \cup {r}
      BY <1>1, <1>2, <2>1, <2>3 DEF AddRelation
    <3> QED
      BY <1>1, <2>3, <3>1 DEF Outermost
  <2> QED
    BY <2>2, <2>3
<1>3. CASE p.two # None
  <2>1. new = {l \in Outermost(asked) : l.one # p.one \/ l.two # None} \cup {r}
    BY <1>1, <1>3 DEF AddRelation
  <2>2. \A s \in asked \cup {r} :
          s \in Outermost(asked \cup {r}) <=>
             s = r \/ (s \in Outermost(asked) /\ (s.one # p.one \/ s.two # None))
    BY <1>1, <1>3 DEF Outermost
  <2> QED
    BY <2>1, <2>2 DEF Outermost
<1> QED
  BY <1>2, <1>3

-----------------------------------------------------------------------------

(* What is asked for are positions in a list. *)
LEMMA AskedTypes ==
  ASSUME TypeOK
  PROVE  /\ \A p \in Parameters : Asked(p) \subseteq Nat \ {0}
         /\ \A j \in Asked("filters") : query.filters[j] \in Filters \cup {Bad}
<1> USE DEF TypeOK, QueryTypes, Lists, Asked, Parameters
<1>1. query.attributes \in Seq(Paths \cup {Bad}) \cup {Absent, Object}
  OBVIOUS
<1>2. query.include \in Seq(Paths \cup {Bad}) \cup {Absent, Object}
  OBVIOUS
<1>3. query.sortBy \in Seq(Keys \cup {Bad}) \cup {Absent}
  OBVIOUS
<1>4. query.q \in Seq(Terms \cup {Bad}) \cup {Absent}
  OBVIOUS
<1>5. query.filters \in Seq(Filters \cup {Bad})
  OBVIOUS
<1> QED
  BY <1>1, <1>2, <1>3, <1>4, <1>5

(* One turn of a loop reads one element. *)
LEMMA ReadTurn ==
  ASSUME TypeOK, pc \in Parameters, More, Next1,
         pc \in {"sortBy", "q", "filters"} => Many
  PROVE  /\ i \in Asked(pc) /\ \A j \in Read(pc) : j < i
         /\ \A p \in Parameters : Read(p)' = IF p = pc THEN Read(p) \cup {i} ELSE Read(p)
<1>1. i \in Asked(pc) /\ Asked(pc) = DOMAIN List
  BY ElementTypes DEF Asked, More, Given, List, Parameters
<1>2. \A p \in Parameters : Asked(p)' = Asked(p)
  BY DEF Next1, Asked, Many
<1>3. \A p \in Parameters : p # pc => Read(p)' = Read(p)
  BY <1>2 DEF Read, Next1
<1>4. \A j \in Asked(pc) : j \in Nat /\ i \in Nat
  BY AskedTypes DEF TypeOK
<1>5. ASSUME NEW p \in Parameters, p = pc PROVE Read(p)' = Read(p) \cup {i}
  <2>1. ~(Place[p] < Place[pc]) /\ pc' = pc /\ i' = i + 1
    BY <1>5 DEF Place, Parameters, Next1
  <2>2. Read(p) = {j \in Asked(p) : j < i}
    BY <1>5, <2>1 DEF Read
  <2>3. Read(p)' = {j \in Asked(p) : j < i + 1}
    BY <1>2, <1>5, <2>1 DEF Read
  <2>4. \A j \in Asked(p) : j < i + 1 <=> j < i \/ j = i
    BY <1>4, <1>5
  <2> QED
    BY <1>1, <1>5, <2>2, <2>3, <2>4
<1>6. \A j \in Read(pc) : j < i
  BY DEF Read, Place, Parameters
<1> QED
  BY <1>1, <1>3, <1>5, <1>6

(* Going on to the next parameter reads nothing, since a list that is left *)
(* has been read and the next one is not begun.                            *)
LEMMA ReadGoOn ==
  ASSUME TypeOK, pc \notin Returned, GoOn,
         pc \in {"sortBy", "page", "q", "filters"} => Many,
         pc \in Parameters => Asked(pc) = {} \/ i > Len(List)
  PROVE  \A p \in Parameters : Read(p)' = Read(p)
<1>1. \A p \in Parameters : Asked(p)' = Asked(p) /\ Asked(p) \subseteq Nat \ {0}
  BY AskedTypes DEF GoOn, Asked, Many
<1>2. pc \in Parameters => Read(pc) = Asked(pc)
  <2>1. CASE Asked(pc) = {}
    BY <2>1 DEF Read
  <2>2. CASE pc \in Parameters /\ Asked(pc) # {}
    <3>1. List = query[pc] /\ i > Len(List) /\ Asked(pc) = DOMAIN List
      BY <2>2 DEF List, Asked
    <3>2. \A j \in DOMAIN List : j <= Len(List) /\ j \in Nat
      BY <2>2, <3>1 DEF List, TypeOK, QueryTypes, Lists, Parameters, Asked
    <3>3. Len(List) \in Nat /\ i \in Nat
      BY <2>2, <3>1 DEF List, TypeOK, QueryTypes, Lists, Parameters, Asked
    <3> QED
      BY <3>1, <3>2, <3>3 DEF Read
  <2> QED
    BY <2>1, <2>2
<1>3. \A p \in Parameters \ {"attributes", "include"} : ~Many => Asked(p) = {}
  BY DEF Asked
<1>4. ASSUME NEW p \in Parameters PROVE Read(p)' = Read(p)
  <2>1. CASE p = pc
    <3>1. Place[p] < Place[pc']
      BY <2>1 DEF GoOn, After, Place, Parameters
    <3> QED
      BY <1>1, <1>2, <2>1, <3>1 DEF Read
  <2>2. CASE p # pc /\ (Many \/ p \in {"attributes", "include"})
    <3>1. Place[p] < Place[pc] <=> Place[p] < Place[pc']
      BY <2>2 DEF GoOn, After, Place, Parameters, Returned, TypeOK
    <3>2. i' = 1
      BY DEF GoOn
    <3> QED
      BY <1>1, <2>2, <3>1, <3>2 DEF Read
  <2>3. CASE ~(Many \/ p \in {"attributes", "include"})
    BY <1>1, <1>3, <2>3 DEF Read
  <2> QED
    BY <2>1, <2>2, <2>3
<1> QED
  BY <1>4

-----------------------------------------------------------------------------

(* A turn of each loop keeps what the loop has to show. *)
LEMMA ColumnsTurn ==
  ASSUME TypeOK, Attribute, ColumnsAreKept(Read("attributes")),
         \A j \in Read("attributes") : query.attributes[j] # Bad
  PROVE  ColumnsAreKept(Read("attributes"))'
<1> DEFINE R == Read("attributes")
           attributes == query.attributes
           p == attributes[i]
<1>1. /\ p \in Paths /\ select' = AddColumn(select, p) /\ select \subseteq Paths
      /\ query' = query
  BY ElementTypes DEF Attribute, Parameters, List, Next1, TypeOK
<1>2. R' = R \cup {i} /\ \A j \in R : j < i
  BY ReadTurn DEF Attribute, Parameters
<1>3. \A j \in R : attributes[j] \in Paths
  BY DEF Read, Asked, TypeOK, QueryTypes, Lists
<1>4. \A l \in select' : \E j \in R' : l = Leaf(attributes[j])
  BY <1>1, <1>2, AddColumnKeeps DEF ColumnsAreKept
<1>5. \E l \in select' : IsUnder(l, Leaf(p))
  BY <1>1, AddColumnKeeps
<1>6. ASSUME NEW j \in R
      PROVE  (\E l \in select' : IsUnder(l, Leaf(attributes[j]))) \/ IsDropped(j, R')
  <2>1. CASE IsDropped(j, R)
    BY <1>2, <2>1 DEF IsDropped
  <2>2. ASSUME NEW l \in select, IsUnder(l, Leaf(attributes[j])), attributes[j] \in Paths
        PROVE  (\E m \in select' : IsUnder(m, Leaf(attributes[j]))) \/ IsDropped(j, R')
    <3>1. CASE \E m \in select' : IsUnder(m, Leaf(attributes[j]))
      BY <3>1
    <3>2. CASE /\ attributes[j].three # None
               /\ p.one = attributes[j].one /\ p.two = attributes[j].two
      BY <1>2, <3>2 DEF IsDropped
    <3> QED
      BY <1>1, <2>2, <3>1, <3>2, AddColumnKeeps
  <2> QED
    BY <1>3, <2>1, <2>2 DEF ColumnsAreKept
<1> QED
  BY <1>1, <1>2, <1>4, <1>5, <1>6 DEF ColumnsAreKept, IsDropped

LEMMA RelationsTurn ==
  ASSUME TypeOK, Include, RelationsAreAll(Read("include")),
         \A j \in Read("include") : query.include[j] # Bad
  PROVE  RelationsAreAll(Read("include"))'
<1> DEFINE R == Read("include")
           include == query.include
           p == include[i]
           asked == {Relation(include[j]) : j \in R}
<1>1. p \in Paths /\ relations' = AddRelation(relations, p) /\ query' = query
  BY ElementTypes DEF Include, Parameters, List, Next1
<1>2. R' = R \cup {i}
  BY ReadTurn DEF Include, Parameters
<1>3. relations = Outermost(asked)
  BY DEF RelationsAreAll, Outermost
<1>4. \A j \in R : include[j] \in Paths
  BY DEF Read, Asked, TypeOK, QueryTypes, Lists
<1>5. asked \subseteq RelationLeaves
  BY <1>4 DEF Relation, RelationLeaves, Paths
<1>6. relations' = Outermost(asked \cup {Relation(p)})
  BY <1>1, <1>3, <1>5, AddRelationAll
<1>7. asked \cup {Relation(p)} = {Relation(query'.include[j]) : j \in R'}
  BY <1>1, <1>2
<1>8. relations' = Outermost({Relation(query'.include[j]) : j \in R'})
  BY <1>6, <1>7
<1> QED
  BY <1>8 DEF RelationsAreAll, Outermost, Relation

LEMMA OrderTurn ==
  ASSUME TypeOK, SortBy, Many, OrderIsOf(Read("sortBy"))
  PROVE  OrderIsOf(Read("sortBy"))'
<1> DEFINE R == Read("sortBy")
           asked == query.sortBy
           s == asked[i]
           Mentions(k) == {j \in R : asked[j].field = order[k].field}
<1>1. s \in Keys /\ order' = AddOrder(order, s) /\ query' = query /\ order \in Seq(Keys)
  BY ElementTypes DEF SortBy, Parameters, List, Next1, TypeOK
<1>2. R' = R \cup {i} /\ i \in Nat /\ \A j \in R : j < i /\ j \in Nat
  BY ReadTurn, AskedTypes DEF SortBy, Parameters, TypeOK, Read
<1>3. /\ \A j \in R : \E k \in DOMAIN order : j \in Mentions(k)
      /\ \A k \in DOMAIN order :
            \E j \in Mentions(k) : asked[j] = order[k] /\ \A m \in Mentions(k) : m <= j
      /\ \A k, l \in DOMAIN order :
            k < l => \E j \in Mentions(k) : \A m \in Mentions(l) : j < m
  BY DEF OrderIsOf
<1>4. CASE \E k \in DOMAIN order : order[k].field = s.field
  <2>1. /\ DOMAIN order' = DOMAIN order
        /\ \A k \in DOMAIN order : /\ order'[k].field = order[k].field
                                   /\ order'[k] = IF order[k].field = s.field THEN s ELSE order[k]
    BY <1>1, <1>4 DEF AddOrder
  <2> DEFINE New(k) == {j \in R' : asked[j].field = order'[k].field}
  <2>2. \A k \in DOMAIN order :
          New(k) = IF order[k].field = s.field THEN Mentions(k) \cup {i} ELSE Mentions(k)
    BY <1>2, <2>1
  <2>3. \A j \in R' : \E k \in DOMAIN order' : j \in New(k)
    BY <1>2, <1>3, <1>4, <2>1, <2>2
  <2>4. ASSUME NEW k \in DOMAIN order'
        PROVE  \E j \in New(k) : asked[j] = order'[k] /\ \A m \in New(k) : m <= j
    <3>1. CASE order[k].field = s.field
      <4>1. New(k) = Mentions(k) \cup {i} /\ order'[k] = s
        BY <2>1, <2>2, <2>4, <3>1
      <4>2. \A m \in New(k) : m <= i
        BY <1>2, <4>1
      <4> QED
        BY <4>1, <4>2
    <3>2. CASE order[k].field # s.field
      <4>1. New(k) = Mentions(k) /\ order'[k] = order[k] /\ k \in DOMAIN order
        BY <2>1, <2>2, <2>4, <3>2
      <4> QED
        BY <1>3, <4>1
    <3> QED
      BY <3>1, <3>2
  <2>5. ASSUME NEW k \in DOMAIN order', NEW l \in DOMAIN order', k < l
        PROVE  \E j \in New(k) : \A m \in New(l) : j < m
    <3>1. PICK j \in Mentions(k) : \A m \in Mentions(l) : j < m
      BY <1>3, <2>1, <2>5
    <3>2. j \in New(k) /\ j < i
      BY <1>2, <2>1, <2>2, <2>5, <3>1
    <3>3. \A m \in New(l) : m \in Mentions(l) \/ m = i
      BY <2>1, <2>2, <2>5
    <3> QED
      BY <3>1, <3>2, <3>3
  <2> QED
    BY <1>1, <2>3, <2>4, <2>5 DEF OrderIsOf
<1>5. CASE \A k \in DOMAIN order : order[k].field # s.field
  <2> DEFINE n == Len(order) + 1
             New(k) == {j \in R' : asked[j].field = order'[k].field}
  <2>1. /\ DOMAIN order' = DOMAIN order \cup {n} /\ n \notin DOMAIN order
        /\ order'[n] = s /\ \A k \in DOMAIN order : order'[k] = order[k]
        /\ \A k \in DOMAIN order : k < n /\ k \in Nat /\ n \in Nat
    BY <1>1, <1>5 DEF AddOrder
  <2>2. New(n) = {i} /\ \A k \in DOMAIN order : New(k) = Mentions(k)
    <3>1. \A j \in R : asked[j].field # s.field
      BY <1>3, <1>5
    <3>2. New(n) = {i}
      BY <1>2, <2>1, <3>1
    <3>3. ASSUME NEW k \in DOMAIN order PROVE New(k) = Mentions(k)
      BY <1>2, <1>5, <2>1, <3>3
    <3> QED
      BY <3>2, <3>3
  <2>3. \A j \in R' : \E k \in DOMAIN order' : j \in New(k)
    BY <1>2, <1>3, <2>1, <2>2
  <2>4. ASSUME NEW k \in DOMAIN order'
        PROVE  \E j \in New(k) : asked[j] = order'[k] /\ \A m \in New(k) : m <= j
    <3>1. CASE k = n
      BY <1>2, <2>1, <2>2, <3>1
    <3>2. CASE k \in DOMAIN order
      <4>1. New(k) = Mentions(k) /\ order'[k] = order[k]
        BY <2>1, <2>2, <3>2
      <4> QED
        BY <1>3, <3>2, <4>1
    <3> QED
      BY <2>1, <2>4, <3>1, <3>2
  <2>5. ASSUME NEW k \in DOMAIN order', NEW l \in DOMAIN order', k < l
        PROVE  \E j \in New(k) : \A m \in New(l) : j < m
    <3>1. k \in DOMAIN order /\ New(k) = Mentions(k)
      BY <2>1, <2>2, <2>5
    <3>2. CASE l = n
      <4>1. PICK j \in Mentions(k) : asked[j] = order[k]
        BY <1>3, <3>1
      <4> QED
        BY <1>2, <2>2, <3>1, <3>2, <4>1
    <3>3. CASE l \in DOMAIN order
      <4>1. New(l) = Mentions(l)
        BY <2>2, <3>3
      <4> QED
        BY <1>3, <2>5, <3>1, <3>3, <4>1
    <3> QED
      BY <2>1, <2>5, <3>2, <3>3
  <2> QED
    BY <1>1, <2>3, <2>4, <2>5 DEF OrderIsOf
<1> QED
  BY <1>4, <1>5

LEMMA FiltersTurn ==
  ASSUME TypeOK, Filter, Many, FiltersAreParsed(Read("filters"))
  PROVE  FiltersAreParsed(Read("filters"))'
<1> DEFINE R == Read("filters")
           f == query.filters[i]
           n == FilterOn(i)
<1>1. /\ parsedFilters' = Overlay(parsedFilters, On(n, Condition(f)))
      /\ query' = query
  BY DEF Filter, List, Next1, FilterOn
<1>2. R' = R \cup {i} /\ i \in Nat /\ \A j \in R : j < i /\ j \in Nat
  BY ReadTurn, AskedTypes DEF Filter, Parameters, TypeOK, Read
<1>3. /\ DOMAIN parsedFilters' = DOMAIN parsedFilters \cup {n}
      /\ parsedFilters'[n] = Condition(f)
      /\ \A m \in DOMAIN parsedFilters : m # n => parsedFilters'[m] = parsedFilters[m]
  BY <1>1 DEF Overlay, On
<1>4. \A j \in R' : FilterOn(j)' = FilterOn(j)
  BY <1>1 DEF FilterOn
<1>5. ASSUME NEW j \in R', IsLast(j, R')
      PROVE  parsedFilters'[FilterOn(j)] = Condition(query.filters[j])
  <2>1. CASE j = i
    BY <1>3, <2>1
  <2>2. CASE j # i
    <3>1. j \in R /\ FilterOn(j) # n
      BY <1>2, <1>5, <2>2 DEF IsLast
    <3>2. IsLast(j, R)
      BY <1>2, <1>5 DEF IsLast
    <3> QED
      BY <1>3, <3>1, <3>2 DEF FiltersAreParsed, FiltersAreIn
  <2> QED
    BY <2>1, <2>2
<1>6. FiltersAreIn(parsedFilters', R')
  BY <1>2, <1>3, <1>5 DEF FiltersAreParsed, FiltersAreIn
<1>7. \A m \in DOMAIN parsedFilters' : \E j \in R' : FilterOn(j) = m
  BY <1>2, <1>3 DEF FiltersAreParsed
<1> QED
  BY <1>1, <1>6, <1>7 DEF FiltersAreParsed, FiltersAreIn, IsLast, FilterOn

LEMMA SearchTurn ==
  ASSUME TypeOK, Search, Many, SearchIsRead(Read("q"))
  PROVE  SearchIsRead(Read("q"))'
<1>1. Read("q")' = Read("q") \cup {i} /\ query' = query /\ where' = where \cup Clauses(query.q[i])
  BY ReadTurn DEF Search, Parameters, List, Next1
<1> QED
  BY <1>1 DEF SearchIsRead

(* Laying the filters over the clauses of the search makes them hold. *)
LEMMA WhereHolds ==
  ASSUME TypeOK, Where, Many,
         FiltersAreParsed(Read("filters")), SearchIsRead(Read("q"))
  PROVE  FiltersHold'
<1> DEFINE F == Asked("filters")
           Q == Asked("q")
<1>1. /\ query' = query /\ pc = "filters" /\ List = query.filters
      /\ Read("filters") = F /\ Read("q") = Q
  <2>1. query.filters \in Seq(Filters \cup {Bad}) /\ i > Len(query.filters) /\ i \in Nat
    BY DEF Where, List, TypeOK, QueryTypes
  <2>2. \A j \in F : j \in DOMAIN query.filters
    BY DEF Asked
  <2>3. \A j \in DOMAIN query.filters : j < i
    BY <2>1
  <2> QED
    BY <2>2, <2>3 DEF Where, Read, Place, List, GoOn
<1>2. FiltersAreIn(parsedFilters, F) /\ \A n \in DOMAIN parsedFilters : \E j \in F : FilterOn(j) = n
  BY <1>1 DEF FiltersAreParsed
<1>3. \A c : FiltersAreIn(Overlay(c, parsedFilters), F)
  BY <1>2 DEF FiltersAreIn, Overlay
<1>4. \A c \in where' : FiltersAreIn(c, F)
  BY <1>2, <1>3 DEF Where
<1>5. ASSUME query.q # Absent, NEW c \in where' PROVE SearchIsIn(c)
  <2>1. PICK s \in where : c = Overlay(s, parsedFilters)
    BY <1>5 DEF Where
  <2>2. PICK j \in Q : s \in Clauses(query.q[j])
    BY <1>1, <2>1 DEF SearchIsRead
  <2>3. ASSUME NEW n \in DOMAIN s \ {FilterOn(k) : k \in F}
        PROVE  n \in DOMAIN c /\ c[n] = s[n]
    BY <1>2, <2>1, <2>3 DEF Overlay
  <2> QED
    BY <2>2, <2>3 DEF SearchIsIn
<1>6. ASSUME where' = {} PROVE query.q # Absent /\ \A j \in Q : Clauses(query.q[j]) = {}
  <2>1. query.q # Absent /\ where = {}
    BY <1>6 DEF Where
  <2> QED
    BY <1>1, <2>1 DEF SearchIsRead
<1>7. F' = F /\ Q' = Q
  BY <1>1 DEF Asked, Many
<1>8. \A c \in where' : FiltersAreIn(c, F)' 
  BY <1>1, <1>4, <1>7 DEF FiltersAreIn, IsLast, FilterOn
<1>9. query'.q # Absent => \A c \in where' : SearchIsIn(c)'
  BY <1>1, <1>5, <1>7 DEF SearchIsIn, FilterOn
<1> QED
  BY <1>1, <1>6, <1>7, <1>8, <1>9 DEF FiltersHold

-----------------------------------------------------------------------------

NoBad == \A p \in Parameters : \A j \in Read(p) : query[p][j] # Bad
NamedWhere == {"reserved", "attributes", "sortBy", "page", "q", "filters"}

(* The parts of LoopsRead follow from what they are about. *)
LEMMA Frames ==
  ASSUME query' = query, \A p \in Parameters : Read(p)' = Read(p)
  PROVE  /\ NoBad => NoBad'
         /\ UNCHANGED select =>
               (ColumnsAreKept(Read("attributes")) => ColumnsAreKept(Read("attributes"))')
         /\ UNCHANGED relations =>
               (RelationsAreAll(Read("include")) => RelationsAreAll(Read("include"))')
         /\ UNCHANGED order => (OrderIsOf(Read("sortBy")) => OrderIsOf(Read("sortBy"))')
         /\ UNCHANGED parsedFilters =>
               (FiltersAreParsed(Read("filters")) => FiltersAreParsed(Read("filters"))')
         /\ UNCHANGED where => (SearchIsRead(Read("q")) => SearchIsRead(Read("q"))')
<1>1. /\ Read("attributes")' = Read("attributes") /\ Read("include")' = Read("include")
      /\ Read("sortBy")' = Read("sortBy") /\ Read("filters")' = Read("filters")
      /\ Read("q")' = Read("q")
  BY DEF Parameters
<1> QED
  BY <1>1 DEF NoBad, ColumnsAreKept, IsDropped, RelationsAreAll, OrderIsOf, FiltersAreParsed,
     FiltersAreIn, IsLast, FilterOn, SearchIsRead

LEMMA InitLoopsRead == Init => LoopsRead /\ FiltersHold
<1> SUFFICES ASSUME Init PROVE LoopsRead /\ FiltersHold
  OBVIOUS
<1>1. \A p \in Parameters : Read(p) = {}
  BY DEF Init, Read, Place, Parameters
<1>2. Read("attributes") = {} /\ Read("include") = {} /\ Read("sortBy") = {}
      /\ Read("filters") = {} /\ Read("q") = {}
  BY <1>1 DEF Parameters
<1> QED
  BY <1>1, <1>2 DEF Init, LoopsRead, ColumnsAreKept, RelationsAreAll, OrderIsOf, FiltersAreParsed,
     FiltersAreIn, SearchIsRead, FiltersHold

(* Every turn of a loop, and every way out of one, keeps what is read. *)
LEMMA NextLoopsRead == IInv /\ [Next]_vars => LoopsRead'
<1> SUFFICES ASSUME TypeOK, LoopsRead, [Next]_vars PROVE LoopsRead'
  BY DEF IInv
<1> DEFINE Manys == pc \in {"sortBy", "page", "q", "filters"} => Many
<1>0. ASSUME pc \notin {"undefined", "badRequest"}
      PROVE  /\ Manys /\ NoBad
             /\ ColumnsAreKept(Read("attributes")) /\ RelationsAreAll(Read("include"))
             /\ OrderIsOf(Read("sortBy")) /\ FiltersAreParsed(Read("filters"))
             /\ pc \in NamedWhere => SearchIsRead(Read("q"))
  BY <1>0 DEF LoopsRead, NoBad, NamedWhere
<1>a. ASSUME Next1, pc \in Parameters, More, List[i] # Bad, Manys, NoBad
      PROVE  Manys' /\ NoBad' /\ query' = query /\ pc' = pc
  <2>1. \A p \in Parameters : Read(p)' = IF p = pc THEN Read(p) \cup {i} ELSE Read(p)
    BY <1>a, ReadTurn DEF Parameters
  <2> QED
    BY <1>a, <2>1 DEF Next1, Many, NoBad, List
<1>b. ASSUME GoOn, pc \notin Returned, Manys, NoBad,
             pc \in Parameters => Asked(pc) = {} \/ i > Len(List)
      PROVE  /\ Manys' /\ NoBad' /\ query' = query /\ pc' = After(pc)
             /\ \A p \in Parameters : Read(p)' = Read(p)
  <2>1. \A p \in Parameters : Read(p)' = Read(p)
    BY <1>b, ReadGoOn
  <2>2. Manys'
    BY <1>b DEF GoOn, After, Many, TypeOK, Returned, Parameters
  <2> QED
    BY <1>b, <2>1, <2>2 DEF GoOn, NoBad
<1>c. ASSUME Next1, pc \in Parameters, More, Manys
      PROVE  \A p \in Parameters : p # pc => Read(p)' = Read(p)
  BY <1>c, ReadTurn
<1>1. CASE Reserved
  BY <1>0, <1>1, <1>b, Frames
     DEF Reserved, LoopsRead, NoBad, Returned, Parameters, After, NamedWhere
<1>2. CASE Attribute
  <2>1. Manys' /\ NoBad' /\ query' = query /\ pc' = "attributes"
    BY <1>0, <1>2, <1>a DEF Attribute, Parameters
  <2>2. /\ Read("include")' = Read("include") /\ Read("sortBy")' = Read("sortBy")
        /\ Read("filters")' = Read("filters") /\ Read("q")' = Read("q")
    BY <1>0, <1>2, <1>c DEF Attribute, Parameters
  <2>3. ColumnsAreKept(Read("attributes"))'
    BY <1>0, <1>2, ColumnsTurn DEF Attribute, NoBad, Parameters
  <2> QED
    BY <1>0, <1>2, <2>1, <2>2, <2>3 DEF Attribute, LoopsRead, NoBad, NamedWhere,
       RelationsAreAll, OrderIsOf, FiltersAreParsed, FiltersAreIn, IsLast, FilterOn, SearchIsRead
<1>3. CASE SortBy
  <2>1. Manys' /\ NoBad' /\ query' = query /\ pc' = "sortBy" /\ Many
    BY <1>0, <1>3, <1>a DEF SortBy, Parameters
  <2>2. /\ Read("include")' = Read("include") /\ Read("attributes")' = Read("attributes")
        /\ Read("filters")' = Read("filters") /\ Read("q")' = Read("q")
    BY <1>0, <1>3, <1>c DEF SortBy, Parameters
  <2>3. OrderIsOf(Read("sortBy"))'
    BY <1>0, <1>3, <2>1, OrderTurn DEF SortBy
  <2> QED
    BY <1>0, <1>3, <2>1, <2>2, <2>3 DEF SortBy, LoopsRead, NoBad, NamedWhere, ColumnsAreKept,
       IsDropped, RelationsAreAll, FiltersAreParsed, FiltersAreIn, IsLast, FilterOn, SearchIsRead
<1>4. CASE Page
  BY <1>0, <1>4, <1>b, Frames
     DEF Page, LoopsRead, NoBad, Returned, Parameters, After, NamedWhere
<1>5. CASE Search
  <2>1. Manys' /\ NoBad' /\ query' = query /\ pc' = "q" /\ Many
    BY <1>0, <1>5, <1>a DEF Search, Parameters
  <2>2. /\ Read("include")' = Read("include") /\ Read("attributes")' = Read("attributes")
        /\ Read("filters")' = Read("filters") /\ Read("sortBy")' = Read("sortBy")
    BY <1>0, <1>5, <1>c DEF Search, Parameters
  <2>3. SearchIsRead(Read("q"))'
    BY <1>0, <1>5, <2>1, SearchTurn DEF Search, NamedWhere
  <2> QED
    BY <1>0, <1>5, <2>1, <2>2, <2>3 DEF Search, LoopsRead, NoBad, ColumnsAreKept,
       IsDropped, RelationsAreAll, FiltersAreParsed, FiltersAreIn, IsLast, FilterOn, OrderIsOf
<1>6. CASE Filter
  <2>1. Manys' /\ NoBad' /\ query' = query /\ pc' = "filters" /\ Many
    BY <1>0, <1>6, <1>a DEF Filter, Parameters
  <2>2. /\ Read("include")' = Read("include") /\ Read("attributes")' = Read("attributes")
        /\ Read("q")' = Read("q") /\ Read("sortBy")' = Read("sortBy")
    BY <1>0, <1>6, <1>c DEF Filter, Parameters
  <2>3. FiltersAreParsed(Read("filters"))'
    BY <1>0, <1>6, <2>1, FiltersTurn DEF Filter
  <2> QED
    BY <1>0, <1>6, <2>1, <2>2, <2>3 DEF Filter, LoopsRead, NoBad, NamedWhere, ColumnsAreKept,
       IsDropped, RelationsAreAll, SearchIsRead, OrderIsOf
<1>7. CASE Where
  <2>1. i > Len(List) /\ pc = "filters"
    BY <1>7 DEF Where
  <2> QED
    BY <1>0, <1>7, <1>b, <2>1, Frames
       DEF Where, LoopsRead, NoBad, Returned, Parameters, After
<1>8. CASE Include
  <2>1. Manys' /\ NoBad' /\ query' = query /\ pc' = "include"
    BY <1>0, <1>8, <1>a DEF Include, Parameters
  <2>2. /\ Read("filters")' = Read("filters") /\ Read("attributes")' = Read("attributes")
        /\ Read("q")' = Read("q") /\ Read("sortBy")' = Read("sortBy")
    BY <1>0, <1>8, <1>c DEF Include, Parameters
  <2>3. RelationsAreAll(Read("include"))'
    BY <1>0, <1>8, RelationsTurn DEF Include, NoBad, Parameters
  <2> QED
    BY <1>0, <1>8, <2>1, <2>2, <2>3 DEF Include, LoopsRead, NoBad, NamedWhere, ColumnsAreKept,
       IsDropped, FiltersAreParsed, FiltersAreIn, IsLast, FilterOn, OrderIsOf
<1>9. CASE Throw \/ ReturnUndefined
  BY <1>9 DEF Throw, ReturnUndefined, LoopsRead
<1>10. CASE Leave
  <2>1. Asked(pc) = {} \/ i > Len(List)
    BY <1>10 DEF Leave, Asked, List
  <2> QED
    BY <1>0, <1>10, <1>b, <2>1, Frames
       DEF Leave, LoopsRead, NoBad, Returned, Parameters, After, NamedWhere
<1>11. CASE UNCHANGED vars
  <2>1. \A p \in Parameters : Read(p)' = Read(p)
    BY <1>11 DEF vars, Read, Asked, Many
  <2> QED
    BY <1>0, <1>11, <2>1, Frames DEF vars, LoopsRead, NoBad, NamedWhere, Many
<1> QED
  BY <1>1, <1>2, <1>3, <1>4, <1>5, <1>6, <1>7, <1>8, <1>9, <1>10, <1>11 DEF Next

(* What holds of the filters, once they are laid over the search, stays.   *)
LEMMA NextFiltersHold == IInv /\ [Next]_vars => FiltersHold'
<1> SUFFICES ASSUME TypeOK, LoopsRead, FiltersHold, [Next]_vars PROVE FiltersHold'
  BY DEF IInv
<1>1. ASSUME query' = query, where' = where, pc \in {"include", "done"} PROVE FiltersHold'
  BY <1>1 DEF FiltersHold, FiltersAreIn, SearchIsIn, IsLast, FilterOn, Asked, Many
<1>2. ASSUME query' = query, pc' \notin {"include", "done"} \/ ~Many PROVE FiltersHold'
  BY <1>2 DEF FiltersHold, Many
<1>3. CASE Where
  <2>1. Many /\ FiltersAreParsed(Read("filters")) /\ SearchIsRead(Read("q"))
    BY <1>3 DEF Where, LoopsRead
  <2> QED
    BY <1>3, <2>1, WhereHolds
<1>4. CASE Leave
  <2>1. query' = query /\ where' = where /\ pc' = After(pc)
    BY <1>4 DEF Leave, GoOn
  <2>2. pc = "include" \/ pc' \notin {"include", "done"} \/ ~Many
    BY <1>4, <2>1 DEF Leave, After, Parameters
  <2> QED
    BY <1>1, <1>2, <2>1, <2>2
<1>5. CASE Include
  BY <1>1, <1>5 DEF Include, Next1
<1>6. CASE Reserved \/ Page
  BY <1>2, <1>6 DEF Reserved, Page, GoOn, After
<1>7. CASE Attribute \/ SortBy \/ Search \/ Filter
  BY <1>2, <1>7 DEF Attribute, SortBy, Search, Filter, Next1
<1>8. CASE Throw \/ ReturnUndefined
  BY <1>2, <1>8 DEF Throw, ReturnUndefined
<1>9. CASE UNCHANGED vars
  <2>1. query' = query /\ where' = where /\ pc' = pc
    BY <1>9 DEF vars
  <2> QED
    BY <1>1, <1>2, <2>1
<1> QED
  BY <1>3, <1>4, <1>5, <1>6, <1>7, <1>8, <1>9 DEF Next

(* The conjunction that is inductive: what each loop has read is in the    *)
(* options, and the filters hold once they are laid over the search.       *)
THEOREM Inductive == Spec => []IInv
<1>1. Init => IInv
  BY InitTypeOK, InitLoopsRead DEF IInv
<1>2. IInv /\ [Next]_vars => IInv'
  BY NextTypeOK, NextLoopsRead, NextFiltersHold DEF IInv
<1> QED
  BY <1>1, <1>2, PTL DEF Spec

(* At the end everything that is asked for has been read. *)
LEMMA AllRead ==
  ASSUME pc = "done"
  PROVE  \A p \in Parameters : Read(p) = Asked(p)
<1> QED
  BY DEF Read, Place, Parameters

(* Columns are selected as they are asked for, in lists of any length. *)
THEOREM ColumnsAreSelected == Spec => []AskedColumnsAreKept
<1>1. IInv => AskedColumnsAreKept
  BY AllRead DEF IInv, LoopsRead, AskedColumnsAreKept, Parameters
<1> QED
  BY <1>1, Inductive, PTL

(* Relations are loaded alike in whatever order they are named. *)
THEOREM RelationsAreLoaded == Spec => []RelationsInAnyOrder
<1>1. IInv => RelationsInAnyOrder
  BY AllRead DEF IInv, LoopsRead, RelationsInAnyOrder, Parameters
<1> QED
  BY <1>1, Inductive, PTL

(* The order is that of the first mentions, in the directions of the last. *)
THEOREM OrderIsKept == Spec => []OrderIsAsAsked
<1>1. IInv => OrderIsAsAsked
  BY AllRead DEF IInv, LoopsRead, OrderIsAsAsked, Parameters
<1> QED
  BY <1>1, Inductive, PTL

(* Filters and a search restrain the rows, with the exception it names. *)
THEOREM FiltersRestrain == Spec => []FiltersHold
<1>1. IInv => FiltersHold
  BY DEF IInv
<1> QED
  BY <1>1, Inductive, PTL

=============================================================================
