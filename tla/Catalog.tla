------------------------------- MODULE Catalog -------------------------------
(***************************************************************************)
(* The registries of src/src: the catalog of named objects and the         *)
(* session with its prepared statements.  They are used as the containers  *)
(* of Pools are, each beside what its caller was promised.                 *)
(***************************************************************************)
EXTENDS Pools

CONSTANTS
  ObjectNames,      \* names of objects: numbers, so that they are ordered
  ColumnLists,      \* the columns a table is created with
  IndexColumns,     \* the columns an index is asked for
  SequenceRules,    \* start and step of a sequence
  FirstValue, LastValue,    \* i64::MIN and i64::MAX
  MaxObjects,       \* bound: objects created
  MaxValues,        \* bound: values a sequence hands out
  StatementTexts,   \* sources of statements, characters in a sequence
  MaxPrepared,      \* bound: statements prepared
  MaxExecuted       \* bound: executions

ObjectKinds == {"table", "index", "sequence", "view"}
Clipped(v) == SmallestOf({LargestOf({v, FirstValue}), LastValue})

(***************************************************************************)
(* Catalog: the objects under their ids, and for each kind the ids under   *)
(* their names.  The model has the objects under their names.              *)
(***************************************************************************)
EmptyCatalog ==
  [next |-> 0, objects |-> [k \in ObjectKinds |-> NoKeys], byName |-> [k \in ObjectKinds |-> NoKeys]]

Find(c, kind, name) ==
  IF name \in DOMAIN c.byName[kind] THEN ValueAt(c.objects[kind], c.byName[kind][name]) ELSE <<>>

Registered(c, kind, name, def) ==
  [next |-> c.next + 1,
   objects |-> [c.objects EXCEPT ![kind] = Mapped(@, c.next, def)],
   byName |-> [c.byName EXCEPT ![kind] = Mapped(@, name, c.next)]]

Unregistered(c, kind, name) ==
  [c EXCEPT !.objects[kind] = Without(@, c.byName[kind][name]), !.byName[kind] = Without(@, name)]

\* One object more of a kind, under a name that no other one of it has.
Create(kind, name, def, meaning) ==
  /\ container = "catalog" /\ body.next < MaxObjects
  /\ IF name \in DOMAIN body.byName[kind] THEN Turns(body, model, name \in DOMAIN model[kind])
     ELSE Turns(Registered(body, kind, name, def), [model EXCEPT ![kind] = Mapped(@, name, meaning)],
                name \notin DOMAIN model[kind])

CreateTable(name, columns) == Create("table", name, [name |-> name, columns |-> columns], columns)
CreateView(name, text) == Create("view", name, [name |-> name, text |-> text], text)
CreateSequence(name, rule) ==
  Create("sequence", name, [name |-> name, next |-> rule[1], step |-> rule[2]], [rule |-> rule, given |-> 0])

DropTable(name) ==
  /\ container = "catalog"
  /\ LET known == name \in DOMAIN body.byName.table
         indexed == known /\ \E d \in DOMAIN body.objects.index : body.objects.index[d].table = body.byName.table[name]
         free == name \in DOMAIN model.table /\ \A n \in DOMAIN model.index : model.index[n].table # name
     IN  IF known /\ ~indexed
         THEN Turns(Unregistered(body, "table", name), [model EXCEPT !.table = Without(@, name)], free)
         ELSE Turns(body, model, ~free)

ColumnIndex(columns, c) == SmallestOf({i \in DOMAIN columns : columns[i] = c})

CreateIndex(name, table, columns) ==
  /\ container = "catalog"
  /\ LET def == Find(body, "table", table)
         fits == def # <<>> /\ ToSet(columns) \subseteq ToSet(def[1].columns)
     IN  IF fits
         THEN Create("index", name,
                     [name |-> name, table |-> body.byName.table[table],
                      columns |-> [i \in DOMAIN columns |-> ColumnIndex(def[1].columns, columns[i])]],
                     [table |-> table, columns |-> columns])
         ELSE Turns(body, model, table \in DOMAIN model.table => ~(ToSet(columns) \subseteq ToSet(model.table[table])))

DropIndex(name) ==
  /\ container = "catalog"
  /\ IF name \in DOMAIN body.byName.index
     THEN Turns(Unregistered(body, "index", name), [model EXCEPT !.index = Without(@, name)], name \in DOMAIN model.index)
     ELSE Turns(body, model, name \notin DOMAIN model.index)

SequenceAdvance(s) == [s EXCEPT !.next = Clipped(@ + s.step)]

NextSequenceValue(name) ==
  /\ container = "catalog" /\ name \in DOMAIN body.byName.sequence
  /\ model.sequence[name].given < MaxValues
  /\ LET id == body.byName.sequence[name]
     IN  Turns([body EXCEPT !.objects.sequence[id] = SequenceAdvance(@)], [model EXCEPT !.sequence[name].given = @ + 1], TRUE)

CatalogStep ==
  \E name \in ObjectNames :
    \/ \E columns \in ColumnLists : CreateTable(name, columns)
    \/ \E rule \in SequenceRules : CreateSequence(name, rule)
    \/ \E table \in ObjectNames, columns \in IndexColumns : CreateIndex(name, table, columns)
    \/ CreateView(name, name) \/ DropTable(name) \/ DropIndex(name) \/ NextSequenceValue(name)

\* indexes_on, in the order of the names.
IndexesOn(c, table) ==
  IF table \notin DOMAIN c.byName.table THEN <<>>
  ELSE SetToSortSeq({c.objects.index[d].name : d \in {d \in DOMAIN c.objects.index :
                                                         c.objects.index[d].table = c.byName.table[table]}}, <)

\* Every object is found under its name and no other is; an index means the
\* columns it was asked for, of the table that has the name now; ids are never
\* given twice; and a sequence has handed out start, start + step, ... up to
\* the end of the integers, where it stays.
CatalogMeans ==
  /\ \A kind \in ObjectKinds :
       /\ \A name \in ObjectNames :
            LET found == Find(body, kind, name)
            IN  IF name \in DOMAIN model[kind] THEN found # <<>> /\ found[1].name = name ELSE found = <<>>
       /\ Cardinality(DOMAIN body.objects[kind]) = Cardinality(DOMAIN model[kind])
       /\ \A other \in ObjectKinds \ {kind} : DOMAIN body.objects[kind] \cap DOMAIN body.objects[other] = {}
       /\ \A id \in DOMAIN body.objects[kind] : id < body.next
  /\ \A t \in DOMAIN model.table : Find(body, "table", t)[1].columns = model.table[t]
  /\ \A t \in ObjectNames : IndexesOn(body, t) = SetToSortSeq({n \in DOMAIN model.index : model.index[n].table = t}, <)
  /\ \A n \in DOMAIN model.index :
       LET def == Find(body, "index", n)[1]
           columns == body.objects.table[def.table].columns
       IN  /\ def.table \in DOMAIN body.objects.table
           /\ [i \in DOMAIN def.columns |-> columns[def.columns[i]]] = model.index[n].columns
  /\ \A n \in DOMAIN model.view : Find(body, "view", n)[1].text = model.view[n]
  /\ \A n \in DOMAIN model.sequence :
       LET s == model.sequence[n] IN Find(body, "sequence", n)[1].next = Clipped(s.rule[1] + s.given * s.rule[2])

(***************************************************************************)
(* Session.  The model has the parameters of each live statement, counted  *)
(* as the lexer of sql.rs cuts the text into strings, and the number of    *)
(* statements prepared and executed.                                       *)
(***************************************************************************)
Quote == "'"
Mark == "?"

\* rewrite_placeholders: [text, count, inside], NULL for each mark outside.
RewritePlaceholders(source) ==
  FoldLeft(LAMBDA r, c : IF c = Mark /\ ~r.inside THEN [r EXCEPT !.text = Append(@, "NULL"), !.count = @ + 1]
                         ELSE [r EXCEPT !.text = Append(@, c), !.inside = IF c = Quote THEN ~@ ELSE @],
           [text |-> <<>>, count |-> 0, inside |-> FALSE], source)

\* Where lex_string goes on after the string whose characters begin at i; 0
\* when the text ends first.  A doubled quote does not end it.
StringEnd[t \in Seq(STRING), i \in Nat] ==
  IF i > Len(t) THEN 0
  ELSE IF t[i] # Quote THEN StringEnd[t, i + 1]
  ELSE IF i < Len(t) /\ t[i + 1] = Quote THEN StringEnd[t, i + 2]
  ELSE i + 1

\* The places of the marks that are not in a string; <<>> for a text that ends
\* within one.
Marks[t \in Seq(STRING), i \in Nat] ==
  IF i > Len(t) THEN <<{}>>
  ELSE IF t[i] = Quote
       THEN IF StringEnd[t, i + 1] = 0 THEN <<>> ELSE Marks[t, StringEnd[t, i + 1]]
       ELSE LET rest == Marks[t, i + 1]
            IN  IF rest = <<>> THEN <<>> ELSE <<rest[1] \cup (IF t[i] = Mark THEN {i} ELSE {})>>

NewSession == [next |-> 0, prepared |-> NoKeys, executed |-> 0]

\* The parser may refuse the text; it does when a string is not closed.
Prepare(text) ==
  /\ container = "session" /\ body.next < MaxPrepared
  /\ LET r == RewritePlaceholders(text)
         lexed == Marks[r.text, 1]
     IN  \/ /\ lexed # <<>>
            /\ Turns([body EXCEPT !.next = @ + 1, !.prepared = Mapped(@, body.next, [text |-> text, params |-> r.count])],
                     [model EXCEPT !.params = Mapped(@, model.given, Cardinality(Marks[text, 1][1])), !.given = @ + 1],
                     lexed = <<{}>> /\ body.next = model.given)
         \/ Turns(body, model, TRUE)

Bind(handle, params) ==
  /\ container = "session" /\ body.executed < MaxExecuted
  /\ LET right == handle \in DOMAIN model.params /\ model.params[handle] = params
     IN  IF handle \in DOMAIN body.prepared /\ body.prepared[handle].params = params
         THEN Turns([body EXCEPT !.executed = @ + 1], [model EXCEPT !.executed = @ + 1], right)
         ELSE Turns(body, model, ~right)

Deallocate(handle) ==
  /\ container = "session"
  /\ Turns([body EXCEPT !.prepared = Without(@, handle)], [model EXCEPT !.params = Without(@, handle)],
           (handle \in DOMAIN body.prepared) = (handle \in DOMAIN model.params))

SessionStep ==
  \/ \E text \in StatementTexts : Prepare(text)
  \/ \E handle \in 0 .. MaxPrepared, params \in 0 .. 2 : Bind(handle, params)
  \/ \E handle \in 0 .. MaxPrepared : Deallocate(handle)

\* A handle binds as many parameters as its text has marks, as long as it is
\* live and never afterwards.
SessionMeans ==
  /\ DOMAIN body.prepared = DOMAIN model.params
  /\ \A h \in DOMAIN body.prepared : body.prepared[h].params = model.params[h]
  /\ body.executed = model.executed
=============================================================================
