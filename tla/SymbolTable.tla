----------------------------- MODULE SymbolTable -----------------------------
(***************************************************************************)
(* The compiler's table of symbols.  A symbol is stored once, under its    *)
(* full name, at an index that never changes: its id.  modules gives, for  *)
(* each module in the order they came, the names it offers; roots are the  *)
(* modules a name is looked up in, last first.  Lookups are cached, and    *)
(* every change of the table empties the cache.                            *)
(*                                                                         *)
(* A name is the tuple of its parts: <<n>>, <<m, n>> for m::n; the full    *)
(* name of the name n in module m is <<m>> \o n.  The table is the record  *)
(* t = [symbols, modules, roots, cache].  The epoch of the cache is left   *)
(* out: it changes exactly when the cache is emptied.                      *)
(***************************************************************************)
EXTENDS Naturals, SequencesExt, Functions, TLC

NoTable == [n \in {} |-> 0]
EmptyTable == [symbols |-> << >>, modules |-> << >>, roots |-> << >>, cache |-> NoTable]

Invalidate(t) == [t EXCEPT !.cache = NoTable]

\* IndexMap: the index of a full name, 0 where there is none.
IdOf(t, name) == SelectInSeq(t.symbols, LAMBDA s : s.name = name)
IdxOfModule(t, m) == SelectInSeq(t.modules, LAMBDA e : e.mod = m)
HasModule(t, m) == IdxOfModule(t, m) # 0
TableOf(t, m) == IF HasModule(t, m) THEN t.modules[IdxOfModule(t, m)].tab ELSE NoTable

SetTable(t, m, tab) ==
    IF HasModule(t, m) THEN [t EXCEPT !.modules[IdxOfModule(t, m)].tab = tab]
    ELSE [t EXCEPT !.modules = Append(@, [mod |-> m, tab |-> tab])]

\* insert_full: a name that is there keeps its id and gets the new symbol.
Insert(t, name, sym) ==
    LET entry == [name |-> name, sym |-> sym]
    IN  IF IdOf(t, name) # 0 THEN [t EXCEPT !.symbols[IdOf(t, name)] = entry]
        ELSE [t EXCEPT !.symbols = Append(@, entry)]

(***************************************************************************)
(* get_id, the cache apart, first answer that is one: the full name; the   *)
(* module a qualified name begins with; the roots, last first, by table    *)
(* and by full name; any module.                                           *)
(***************************************************************************)
Offered(tab, n) == IF n \in DOMAIN tab THEN tab[n] ELSE 0
InRoot(t, root, n) == LET id == Offered(TableOf(t, root), n)
                      IN  IF id # 0 THEN id ELSE IdOf(t, <<root>> \o n)

Resolve(t, name) ==
    LET roots == Reverse(t.roots)
        ids == <<IdOf(t, name)>>
               \o (IF Len(name) > 1 THEN <<Offered(TableOf(t, name[1]), Tail(name))>> ELSE << >>)
               \o [i \in DOMAIN roots |-> InRoot(t, roots[i], name)]
               \o [i \in DOMAIN t.modules |-> Offered(t.modules[i].tab, name)]
        first == SelectInSeq(ids, LAMBDA id : id # 0)
    IN  IF first = 0 THEN 0 ELSE ids[first]

GetId(t, name) == IF name \in DOMAIN t.cache THEN t.cache[name] ELSE Resolve(t, name)
Cached(t, name) == IF GetId(t, name) = 0 THEN t
                   ELSE [t EXCEPT !.cache = (name :> GetId(t, name)) @@ @]

(***************************************************************************)
(* Changes.                                                                *)
(***************************************************************************)
AddedTo(t, m, n) == SetTable(t, m, (n :> IdOf(t, <<m>> \o n)) @@ TableOf(t, m))

AddCached(t, n, sym) ==                 \* mutant: the cache survives
    LET root == Last(t.roots)
        t1 == Insert(t, <<root>> \o n, sym)
    IN  IF HasModule(t, root) THEN AddedTo(t1, root, n) ELSE t1

\* add: into the last root, whether or not it is a module.
Add(t, n, sym) ==
    LET root == Last(t.roots)
        t1 == Insert(Invalidate(t), <<root>> \o n, sym)
    IN  IF HasModule(t, root) THEN AddedTo(t1, root, n) ELSE t1

\* add_to_module: refused for an unknown module, with the symbol stored.
AddToModule(t, m, n, sym) ==
    LET t1 == Insert(Invalidate(t), <<m>> \o n, sym)
    IN  IF HasModule(t, m) THEN AddedTo(t1, m, n) ELSE t1

AddModuleOver(t, m) ==                  \* mutant: an old table stays
    LET t1 == [Invalidate(t) EXCEPT !.roots = Append(@, m)]
    IN  IF HasModule(t, m) THEN t1 ELSE SetTable(t1, m, NoTable)

\* add_module: a root that is there changes places with the last one.
AddModule(t, m) ==
    LET pos == SelectInSeq(t.roots, LAMBDA r : r = m)
        len == Len(t.roots)
        roots == IF pos = 0 THEN Append(t.roots, m)
                 ELSE [t.roots EXCEPT ![pos] = t.roots[len], ![len] = m]
    IN  SetTable([Invalidate(t) EXCEPT !.roots = roots], m, NoTable)

PushScope(t, m) == [Invalidate(t) EXCEPT !.roots = Append(@, m)]
PopScope(t) == IF t.roots = << >> THEN Invalidate(t) ELSE [Invalidate(t) EXCEPT !.roots = Front(@)]

\* pop_module: the last root leaves; of its names only the public ones stay.
Public(t, tab) == {n \in DOMAIN tab : t.symbols[tab[n]].sym.pub}
PopModuleWhole(t) == PopScope(t)        \* mutant: every name stays
PopModule(t) ==
    LET last == Last(t.roots)
        t1 == PopScope(t)
    IN  IF t.roots = << >> \/ ~ HasModule(t, last) THEN t1
        ELSE SetTable(t1, last, Restrict(TableOf(t, last), Public(t, TableOf(t, last))))
=============================================================================
