----------------------------- MODULE QueryParser -----------------------------
(***************************************************************************)
(* The query of a request as options of the ORM: QueryParserPipe with      *)
(* makeFindOption() ("MANY") and makeFindOneOption() ("ONE").  The parser  *)
(* runs without an await; one action is one turn of one of its loops, so   *)
(* that its loops have invariants for lists of any length.                 *)
(*                                                                         *)
(* A parameter is absent (empty counts as absent), an object (what JSON    *)
(* makes of {..} or null), or a list.  The strings in it are the parts     *)
(* that split() makes of them: a path a.b.c three names, missing ones      *)
(* None, a filter's op:value:rest its parts.  An element on which the loop *)
(* throws is Bad: null, a number in include, an unparsable value of "in".  *)
(***************************************************************************)
EXTENDS Naturals, Sequences

CONSTANTS
    Names,         \* names of columns and relations
    None,          \* the level that a path does not have
    Column,        \* "column" as the second level of a filter
    FirstName, LastName,  \* the two columns that are searched together
    SearchFields,  \* the columns in which a search looks
    Parts,         \* what stands between the colons of a search or a filter
    Empty,         \* nothing between two colons, or no second part
    Absent, Object, Bad,
    Numbers, NaN,  \* what parseInt() can return
    Queries        \* the queries that requests carry

Paths == [one : Names, two : Names \cup {None}, three : Names \cup {None}]
Keys == [field : Names, dir : {"asc", "desc"}]
Terms == [field : Names \cup Parts, value : Parts]
Filters == [path : Paths, op : Parts, val : Parts]
Ops == {"ltei", "lte", "in"}

Lists(S) == Seq(S \cup {Bad}) \cup {Absent}

QueryTypes ==
    [findType : {"ONE", "MANY"},
     reserved : BOOLEAN,  \* a column named "filters" is asked for
     attributes : Lists(Paths) \cup {Object},
     sortBy : Lists(Keys),
     offset : Seq(Numbers) \cup {Absent},
     limit : Seq(Numbers) \cup {Absent},
     q : Lists(Terms),
     filters : Seq(Filters \cup {Bad}),
     include : Lists(Paths) \cup {Object}]

ASSUME QueriesAssumption == Queries \subseteq QueryTypes
ASSUME NamesAssumption == None \notin Names
ASSUME SearchAssumption == SearchFields \subseteq Names

VARIABLES
    query,
    pc,         \* the parameter being read, or how the parser returned
    i,          \* the element of it that is next
    select,     \* the leaves of findOption.select
    order,      \* findOption.order, whose keys are in the order of insertion
    skip, take,
    where,      \* the clauses of findOption.where, an empty one for {}
    parsedFilters,
    relations   \* the leaves of findOption.relations

vars == <<query, pc, i, select, order, skip, take, where, parsedFilters, relations>>

Returned == {"done", "undefined", "badRequest"}
Parameters == {"attributes", "sortBy", "q", "filters", "include"}

Init ==
    /\ query \in Queries
    /\ pc = "reserved"
    /\ i = 1
    /\ select = {}
    /\ order = <<>>
    /\ skip = Absent
    /\ take = Absent
    /\ where = {}
    /\ parsedFilters = [n \in {} |-> None]
    /\ relations = {}

-----------------------------------------------------------------------------

Many == query.findType = "MANY"
List == query[pc]
Given == List \notin {Absent, Object}
More == Given /\ i <= Len(List)
Next1 == i' = i + 1 /\ UNCHANGED <<query, pc>>

(* The parameter that is read after p. *)
After(p) ==
    CASE p = "reserved" -> "attributes"
      [] p = "attributes" -> IF Many THEN "sortBy" ELSE "include"
      [] p = "sortBy" -> "page"
      [] p = "page" -> "q"
      [] p = "q" -> "filters"
      [] p = "filters" -> "include"
      [] p = "include" -> "done"

GoOn == pc' = After(pc) /\ i' = 1 /\ UNCHANGED query

(* Only makeFindOption() knows of the reserved word. *)
Reserved ==
    /\ pc = "reserved"
    /\ IF Many /\ query.reserved
       THEN pc' = "badRequest" /\ UNCHANGED <<query, i>>
       ELSE GoOn
    /\ UNCHANGED <<select, order, skip, take, where, parsedFilters, relations>>

(* transformQuery() answers everything that is thrown with a bad request. *)
Throw ==
    /\ pc \in Parameters
    /\ More
    /\ List[i] = Bad
    /\ pc' = "badRequest"
    /\ UNCHANGED <<query, i, select, order, skip, take, where, parsedFilters, relations>>

(* An object where a list of columns or relations should be: no options. *)
ReturnUndefined ==
    /\ pc \in {"attributes", "include"}
    /\ List = Object
    /\ pc' = "undefined"
    /\ UNCHANGED <<query, i, select, order, skip, take, where, parsedFilters, relations>>

Leave ==
    /\ pc \in Parameters \ {"filters"}
    /\ \/ List = Absent
       \/ Given /\ i > Len(List)
    /\ GoOn
    /\ UNCHANGED <<select, order, skip, take, where, parsedFilters, relations>>

-----------------------------------------------------------------------------

(* The leaf for a path: its third level counts only under a second one. *)
Leaf(p) == IF p.two = None THEN [p EXCEPT !.three = None] ELSE p

(* Defect: the first level starts anew with each path. *)
DefectAddColumn(leaves, p) ==
    IF p.two = None
    THEN leaves \cup {l \in {Leaf(p)} : \A m \in leaves : m.one # p.one}
    ELSE {l \in leaves : l.one # p.one} \cup {p}

(* A path of one level is put under nothing that is there; a longer one    *)
(* takes the place of its first level and of all that is under its second, *)
(* because the second level is set to true before the third is looked at.  *)
AddColumn(leaves, p) ==
    IF p.two = None
    THEN leaves \cup {l \in {Leaf(p)} : \A m \in leaves : m.one # p.one}
    ELSE {l \in leaves : ~(l.one = p.one /\ l.two \in {None, p.two})} \cup {p}

Attribute ==
    /\ pc = "attributes"
    /\ More
    /\ List[i] # Bad
    /\ select' = AddColumn(select, List[i])
    /\ Next1
    /\ UNCHANGED <<order, skip, take, where, parsedFilters, relations>>

(* Defect: a column that is named again moves to the end. *)
DefectAddOrder(keys, s) == Append(SelectSeq(keys, LAMBDA k : k.field # s.field), s)

(* A column that is named again keeps its place and takes the direction. *)
AddOrder(keys, s) ==
    IF \E k \in DOMAIN keys : keys[k].field = s.field
    THEN [k \in DOMAIN keys |-> IF keys[k].field = s.field THEN s ELSE keys[k]]
    ELSE Append(keys, s)

SortBy ==
    /\ pc = "sortBy"
    /\ More
    /\ List[i] # Bad
    /\ order' = AddOrder(order, List[i])
    /\ Next1
    /\ UNCHANGED <<select, skip, take, where, parsedFilters, relations>>

(* Defect: a list is taken for the number. *)
DefectParseInt(l) == IF l = <<>> THEN NaN ELSE l

(* The first element of a list, a number alone being a list of one. *)
ParseInt(l) == IF l = Absent THEN Absent ELSE IF l = <<>> THEN NaN ELSE l[1]

Page ==
    /\ pc = "page"
    /\ skip' = ParseInt(query.offset)
    /\ take' = ParseInt(query.limit)
    /\ GoOn
    /\ UNCHANGED <<select, order, where, parsedFilters, relations>>

-----------------------------------------------------------------------------

Overlay(f, g) == [n \in DOMAIN f \cup DOMAIN g |-> IF n \in DOMAIN g THEN g[n] ELSE f[n]]
On(n, condition) == [m \in {n} |-> condition]

Like(op, text) == [op |-> op, arg |-> text, two |-> None, three |-> None]

(* The clauses for a term of a search: text alone is looked for in every   *)
(* column of the search, and in the two names taken together.              *)
Clauses(t) ==
    IF t.value # Empty
    THEN {On(f, Like("like", t.value)) : f \in SearchFields \cap {t.field}}
    ELSE {On(f, Like("like", t.field)) : f \in SearchFields}
           \cup {On(f, Like("nameLike", t.field)) :
                   f \in IF LastName \in SearchFields THEN SearchFields \cap {FirstName} ELSE {}}

Search ==
    /\ pc = "q"
    /\ More
    /\ List[i] # Bad
    /\ where' = where \cup Clauses(List[i])
    /\ Next1
    /\ UNCHANGED <<select, order, skip, take, parsedFilters, relations>>

(* A value without a second part is compared as it is, and so is the       *)
(* second part after an operation that is not known.                       *)
Condition(f) ==
    LET two == IF f.path.two = Column THEN None ELSE f.path.two
    IN [op |-> IF f.val # Empty /\ f.op \in Ops THEN f.op ELSE "equal",
        arg |-> IF f.val # Empty THEN f.val ELSE f.op,
        two |-> two,
        three |-> IF two = None THEN None ELSE f.path.three]

Filter ==
    /\ pc = "filters"
    /\ More
    /\ List[i] # Bad
    /\ parsedFilters' = Overlay(parsedFilters, On(List[i].path.one, Condition(List[i])))
    /\ Next1
    /\ UNCHANGED <<select, order, skip, take, where, relations>>

(* Defect: the clauses of the search are laid over the filters. *)
DefectWhere ==
    /\ pc = "filters"
    /\ i > Len(List)
    /\ where' = IF query.q = Absent THEN {parsedFilters}
                ELSE {Overlay(parsedFilters, c) : c \in where}
    /\ GoOn
    /\ UNCHANGED <<select, order, skip, take, parsedFilters, relations>>

(* The filters are laid over each clause of the search there is. *)
Where ==
    /\ pc = "filters"
    /\ i > Len(List)
    /\ where' = IF query.q = Absent THEN {parsedFilters}
                ELSE {Overlay(c, parsedFilters) : c \in where}
    /\ GoOn
    /\ UNCHANGED <<select, order, skip, take, parsedFilters, relations>>

(* Defect: a relation that is named alone loses those under it. *)
DefectAddRelation(leaves, p) ==
    IF p.two = None
    THEN {l \in leaves : l.one # p.one} \cup {[one |-> p.one, two |-> None]}
    ELSE {l \in leaves : l.one # p.one \/ l.two # None} \cup {[one |-> p.one, two |-> p.two]}

(* A relation is loaded with those under it; a third level is ignored. *)
AddRelation(leaves, p) ==
    IF p.two = None
    THEN leaves \cup {l \in {[one |-> p.one, two |-> None]} : \A m \in leaves : m.one # p.one}
    ELSE {l \in leaves : l.one # p.one \/ l.two # None} \cup {[one |-> p.one, two |-> p.two]}

Include ==
    /\ pc = "include"
    /\ More
    /\ List[i] # Bad
    /\ relations' = AddRelation(relations, List[i])
    /\ Next1
    /\ UNCHANGED <<select, order, skip, take, where, parsedFilters>>

Next ==
    \/ Reserved \/ Attribute \/ SortBy \/ Page \/ Search \/ Filter \/ Where \/ Include
    \/ Throw \/ ReturnUndefined \/ Leave

Spec == Init /\ [][Next]_vars

-----------------------------------------------------------------------------

Conditions ==
    [op : Ops \cup {"equal", "like", "nameLike"}, arg : Parts \cup Names,
     two : Names \cup {None}, three : Names \cup {None}]

IsClause(c) == DOMAIN c \subseteq Names /\ \A n \in DOMAIN c : c[n] \in Conditions

TypeOK ==
    /\ query \in QueryTypes
    /\ pc \in {"reserved", "page"} \cup Parameters \cup Returned
    /\ i \in Nat \ {0}
    /\ select \in SUBSET Paths
    /\ order \in Seq(Keys)
    /\ {skip, take} \subseteq Numbers \cup {Absent, NaN}
    /\ \A c \in where \cup {parsedFilters} : IsClause(c)
    /\ relations \in SUBSET [one : Names, two : Names \cup {None}]

(* The elements that are asked for, of which "ONE" knows two parameters. *)
Asked(p) ==
    IF query[p] \in {Absent, Object} \/ (~Many /\ p \notin {"attributes", "include"})
    THEN {} ELSE DOMAIN query[p]

(* "If columns to select are specified then return them only": no column   *)
(* is selected that is not asked for, and none that is asked for is        *)
(* dropped for one that is not under it, but for a third level, which a    *)
(* later path with the same first two levels drops.                        *)
IsUnder(l, p) ==
    /\ l.one = p.one
    /\ p.two \in {None, l.two}
    /\ p.three \in {None, l.three}

IsDropped(j, read) ==
    LET asked == query.attributes
    IN /\ asked[j].three # None
       /\ \E k \in read : k > j /\ asked[k].one = asked[j].one /\ asked[k].two = asked[j].two

ColumnsAreKept(read) ==
    /\ \A l \in select : \E j \in read : l = Leaf(query.attributes[j])
    /\ \A j \in read :
          (\E l \in select : IsUnder(l, Leaf(query.attributes[j]))) \/ IsDropped(j, read)

AskedColumnsAreKept == pc = "done" => ColumnsAreKept(Asked("attributes"))

(* The relations do not depend on the order in which they are named: each  *)
(* is loaded, alone only if nothing under it is asked for.                 *)
Relation(p) == [one |-> p.one, two |-> p.two]

RelationsAreAll(read) ==
    LET asked == {Relation(query.include[j]) : j \in read}
    IN relations = {r \in asked : r.two = None => \A s \in asked : s.one = r.one => s = r}

RelationsInAnyOrder == pc = "done" => RelationsAreAll(Asked("include"))

(* Rows are ordered by each column that is named, in the order in which    *)
(* they are first named, and in the direction that is named last.          *)
OrderIsOf(read) ==
    LET asked == query.sortBy
        Mentions(k) == {j \in read : asked[j].field = order[k].field}
    IN /\ \A j \in read : \E k \in DOMAIN order : j \in Mentions(k)
       /\ \A k \in DOMAIN order :
             \E j \in Mentions(k) : asked[j] = order[k] /\ \A m \in Mentions(k) : m <= j
       /\ \A k, l \in DOMAIN order :
             k < l => \E j \in Mentions(k) : \A m \in Mentions(l) : j < m

OrderIsAsAsked == pc = "done" => OrderIsOf(Asked("sortBy"))

(* Every filter restrains every row that can be found, the last one of a   *)
(* column or relation standing for all of it, and a search restrains them  *)
(* too, but on a column with a filter.  There is one exception: a search   *)
(* without a term that the parser can use takes the filters with it.       *)
FilterOn(j) == query.filters[j].path.one
IsLast(j, read) == \A k \in read : FilterOn(k) = FilterOn(j) => k <= j

FiltersAreIn(c, read) ==
    \A j \in read :
        /\ FilterOn(j) \in DOMAIN c
        /\ IsLast(j, read) => c[FilterOn(j)] = Condition(query.filters[j])

SearchIsIn(c) ==
    \E j \in Asked("q") : \E s \in Clauses(query.q[j]) :
        \A n \in DOMAIN s \ {FilterOn(k) : k \in Asked("filters")} :
            n \in DOMAIN c /\ c[n] = s[n]

FiltersHold ==
    pc \in {"include", "done"} /\ Many =>
        /\ \A c \in where : FiltersAreIn(c, Asked("filters"))
        /\ query.q # Absent => \A c \in where : SearchIsIn(c)
        /\ where = {} => query.q # Absent /\ \A j \in Asked("q") : Clauses(query.q[j]) = {}

-----------------------------------------------------------------------------

(* Behind them, what holds between two turns of the loops: of the elements *)
(* that are read, and of none before the first is.                         *)
Place ==
    [reserved |-> 1, attributes |-> 2, sortBy |-> 3, page |-> 4, q |-> 5, filters |-> 6,
     include |-> 7, done |-> 8]

Read(p) == {j \in Asked(p) : Place[p] < Place[pc] \/ (pc = p /\ j < i)}

FiltersAreParsed(read) ==
    /\ FiltersAreIn(parsedFilters, read)
    /\ \A n \in DOMAIN parsedFilters : \E j \in read : FilterOn(j) = n

SearchIsRead(read) ==
    /\ \A c \in where : \E j \in read : c \in Clauses(query.q[j])
    /\ \A j \in read : Clauses(query.q[j]) \subseteq where

LoopsRead ==
    pc \notin {"undefined", "badRequest"} =>
        /\ pc \in {"sortBy", "page", "q", "filters"} => Many
        /\ \A p \in Parameters : \A j \in Read(p) : query[p][j] # Bad
        /\ ColumnsAreKept(Read("attributes"))
        /\ RelationsAreAll(Read("include"))
        /\ OrderIsOf(Read("sortBy"))
        /\ FiltersAreParsed(Read("filters"))
        /\ pc \in {"reserved", "attributes", "sortBy", "page", "q", "filters"} =>
              SearchIsRead(Read("q"))

IInv == TypeOK /\ LoopsRead /\ FiltersHold

=============================================================================
