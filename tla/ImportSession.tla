---------------------------- MODULE ImportSession ----------------------------
(***************************************************************************)
(* A compiler that imports modules from files for as long as its process   *)
(* lives.  import_file reads a file, imports what the file imports, and    *)
(* compiles it: its symbols are declared in a module of the symbol table,  *)
(* then the functions are compiled, which looks names up.  A module that   *)
(* has names already is not imported a second time by others; a file that  *)
(* is being imported is skipped, which ends a cycle.  An error anywhere    *)
(* ends every import that is under way.  Between two calls files change,   *)
(* the host registers natives, and names are looked up.                    *)
(*                                                                         *)
(* A file holds [imports, defs]: the modules it imports, and definitions   *)
(* [name, pub, generic, uses].  The body of a generic function is compiled *)
(* where it is called, in a scope pushed for its module.                   *)
(***************************************************************************)
EXTENDS SymbolTable

CONSTANTS
    Paths,          \* the files; a module is named by its file
    Contents,       \* what a file can hold: records [imports, defs]
    InitialDisk,    \* the disks a session begins with: functions from Paths
    Missing, Unreadable, Garbled,   \* a file that is not there, or is no source
    Outside,        \* an import whose path leaves the directory
    Std,            \* the module the natives of the language are in
    StdNames,       \* their names
    Natives,        \* what the host registers later: [by, mod, name]
    MaxCalls        \* bound: how many imports, edits and registrations

ASSUME SessionAssumption == MaxCalls \in Nat /\ Outside \notin Paths

VARIABLES
    disk,
    tab,        \* sym_tab.symbols
    importing,  \* io.importing_paths
    stack,      \* the imports under way: [path, todo, phase], innermost last
    outcome,    \* of the last call: <<"Ok", path>>, <<"Err", path>>, <<"None">>
    calls,
    \* history:
    compiled,   \* what each module was last compiled from, Missing before
    broken,     \* modules whose compilation failed and that were not compiled since
    jammed      \* paths left in importing_paths by a failed read

vars == <<disk, tab, importing, stack, outcome, calls, compiled, broken, jammed>>

NativeSym == [pub |-> TRUE, generic |-> FALSE, uses |-> << >>]
Source(c) == c \notin {Missing, Unreadable, Garbled}
Open(frames) == {frames[i].path : i \in DOMAIN frames}

Init == /\ disk \in InitialDisk
        \* add_std: the module stays among the roots
        /\ tab = FoldLeft(LAMBDA acc, n : Add(acc, n, NativeSym), AddModule(EmptyTable, Std), StdNames)
        /\ importing = {} /\ stack = << >> /\ outcome = <<"None">> /\ calls = 0
        /\ compiled = [p \in Paths |-> Missing] /\ broken = {} /\ jammed = {}

Bystanders == UNCHANGED <<disk, calls>>

(***************************************************************************)
(* An error: import_file of every open frame takes its path out again.     *)
(***************************************************************************)
FreedKept(paths, frames) == paths       \* mutant
Freed(paths, frames) == paths \ Open(frames)

Fail(frames, root) ==
    /\ stack' = << >>
    /\ importing' = Freed(importing, frames)
    /\ outcome' = <<"Err", root>>

Underway(p) == p \in importing

Begin(p, frames) ==
    /\ stack' = Append(frames, [path |-> p, todo |-> disk[p].imports, phase |-> "imports"])
    /\ importing' = importing \cup {p}
    /\ UNCHANGED <<outcome, jammed>>

\* import_file of p with the given imports under way; root is the first.
Enter(p, frames, root) ==
    \/ /\ disk[p] # Missing /\ Underway(p)          \* a cycle: nothing, and Ok
       /\ stack' = frames
       /\ outcome' = IF frames = << >> THEN <<"Ok", root>> ELSE outcome
       /\ UNCHANGED <<importing, jammed>>
    \/ /\ disk[p] = Missing                             \* canonicalize
       /\ Fail(frames, root) /\ UNCHANGED jammed
    \/ /\ ~ Underway(p) /\ disk[p] = Unreadable    \* fs::read: p is not taken out
       /\ stack' = << >> /\ outcome' = <<"Err", root>>
       /\ importing' = Freed(importing, frames) \cup {p}
       /\ jammed' = jammed \cup {p}
    \/ /\ ~ Underway(p) /\ disk[p] = Garbled       \* parse_code_strict
       /\ Fail(frames, root) /\ UNCHANGED jammed
    \/ /\ ~ Underway(p) /\ Source(disk[p])
       /\ Begin(p, frames)

Import(p) ==
    /\ stack = << >> /\ calls < MaxCalls
    /\ Enter(p, << >>, p)
    /\ calls' = calls + 1
    /\ UNCHANGED <<disk, tab, compiled, broken>>

(***************************************************************************)
(* resolve_imports: the next import of the innermost file.                 *)
(***************************************************************************)
Top == Last(stack)
Root == Head(stack).path
Present(m) == DOMAIN TableOf(tab, m) # {}

Popped1(frames) == [frames EXCEPT ![Len(frames)].todo = Tail(@)]

ResolveNext ==
    /\ stack # << >> /\ Top.phase = "imports" /\ Top.todo # << >>
    /\ LET m == Head(Top.todo)
       IN  \/ /\ Present(m)
              /\ stack' = Popped1(stack)
              /\ UNCHANGED <<importing, outcome, jammed>>
           \/ /\ ~ Present(m) /\ m = Outside
              /\ Fail(stack, Root) /\ UNCHANGED jammed
           \/ /\ ~ Present(m) /\ m # Outside
              /\ Enter(m, Popped1(stack), Root)
    /\ UNCHANGED <<tab, compiled, broken>> /\ Bystanders

(***************************************************************************)
(* compile: the module and its symbols first.                              *)
(***************************************************************************)
Declared(t, m, defs) ==
    FoldLeft(LAMBDA acc, d : Add(acc, d.name, [pub |-> d.pub, generic |-> d.generic, uses |-> d.uses]),
             AddModule(t, m), defs)

Declare ==
    /\ stack # << >> /\ Top.phase = "imports" /\ Top.todo = << >>
    /\ tab' = Declared(tab, Top.path, disk[Top.path].defs)
    /\ stack' = [stack EXCEPT ![Len(stack)].phase = "bodies"]
    /\ UNCHANGED <<importing, outcome, compiled, broken, jammed>> /\ Bystanders

(***************************************************************************)
(* compile_fn of every function: each name used is looked up; a generic    *)
(* function that is called is compiled there and then.                     *)
(***************************************************************************)
LookUps(t, names) ==
    FoldLeft(LAMBDA acc, n : IF acc.ok THEN [t |-> Cached(acc.t, n), ok |-> GetId(acc.t, n) # 0] ELSE acc,
             [t |-> t, ok |-> TRUE], names)

Use(t, name) ==
    LET t1 == Cached(t, name)
        s == t.symbols[GetId(t, name)]
        inner == LookUps(PushScope(t1, s.name[1]), s.sym.uses)
    IN  IF GetId(t, name) = 0 THEN [t |-> t, ok |-> FALSE]
        ELSE IF ~ s.sym.generic THEN [t |-> t1, ok |-> TRUE]
        ELSE [t |-> PopScope(inner.t), ok |-> inner.ok]

\* Generic functions are left out; the uses of the others, in their order.
Used(defs) == FlattenSeq([i \in DOMAIN defs |-> IF defs[i].generic THEN << >> ELSE defs[i].uses])

Bodies(t, defs) == FoldLeft(LAMBDA acc, n : IF acc.ok THEN Use(acc.t, n) ELSE acc,
                            [t |-> t, ok |-> TRUE], Used(defs))

CompileFns ==
    /\ stack # << >> /\ Top.phase = "bodies"
    /\ LET r == Bodies(tab, disk[Top.path].defs)
       IN  \/ /\ r.ok
              /\ tab' = PopModule(r.t)
              /\ stack' = Front(stack)
              /\ importing' = Freed(importing, <<Top>>)
              /\ outcome' = IF Len(stack) = 1 THEN <<"Ok", Root>> ELSE outcome
              /\ compiled' = [compiled EXCEPT ![Top.path] = disk[Top.path]]
              /\ broken' = broken \ {Top.path}
           \/ /\ ~ r.ok                  \* the module stays among the roots
              /\ tab' = r.t
              /\ Fail(stack, Root)
              /\ broken' = broken \cup {Top.path}
              /\ UNCHANGED compiled
    /\ UNCHANGED jammed /\ Bystanders

(***************************************************************************)
(* Between calls.                                                          *)
(***************************************************************************)
Idle == stack = << >>
Others == UNCHANGED <<importing, stack, outcome, compiled, broken, jammed>>

Edit(p, c) == /\ Idle /\ calls < MaxCalls /\ c # disk[p]
              /\ disk' = [disk EXCEPT ![p] = c]
              /\ calls' = calls + 1
              /\ UNCHANGED tab /\ Others

LookUp(name) == /\ Idle /\ tab' = Cached(tab, name) /\ tab' # tab
                /\ Others /\ Bystanders

\* Natives: add_symbol puts one into the last root, add_native_module_ptr into
\* a module of its own, and the GPU back ends into one that stays a root.
Register(r) ==
    /\ Idle /\ calls < MaxCalls
    /\ calls' = calls + 1
    /\ tab' = CASE r.by = "symbol" -> Add(tab, r.name, NativeSym)
                [] r.by = "module" -> PopModule(Add(AddModule(tab, r.mod), r.name, NativeSym))
                [] r.by = "extern" -> AddToModule(AddModule(tab, r.mod), r.mod, r.name, NativeSym)
    /\ UNCHANGED disk /\ Others

Names == UNION {{d.name : d \in Range(c.defs)} : c \in Contents}

Next == \/ \E p \in Paths : Import(p) \/ \E c \in Contents \cup {Missing, Unreadable, Garbled} : Edit(p, c)
        \/ \E n \in Names : LookUp(n)
        \/ \E r \in Natives : Register(r)
        \/ ResolveNext \/ Declare \/ CompileFns

Spec == Init /\ [][Next]_vars
-----------------------------------------------------------------------------
\* A name that was looked up before means what it would mean if it were looked
\* up now: no change of the table leaves an old answer in the cache.
CacheAgrees == \A n \in DOMAIN tab.cache : tab.cache[n] = Resolve(tab, n)

\* An import that succeeds has compiled the module and all it imports,
\* directly or not, cycles included, unless one of them failed before: a
\* module whose compilation broke off has names and is taken for imported,
\* a path whose read failed counts as being imported for ever.
RECURSIVE Closure(_)
Closure(P) == LET Q == P \cup UNION {Range(compiled[p].imports) : p \in {q \in P : Source(compiled[q])}}
              IN  IF Q = P THEN P ELSE Closure(Q)
OkIsComplete ==
    Idle /\ outcome[1] = "Ok" /\ Closure({outcome[2]}) \cap (broken \cup jammed) = {} =>
        \A p \in Closure({outcome[2]}) : Source(compiled[p])

\* The table of a module that is compiled and closed offers exactly the public
\* names of the source it was compiled from, each with the symbol of its own; and
\* a short name never leads to a private symbol of another module, in the session
\* after it as in the imports before and around it.  A module whose compilation
\* failed is the exception: it stays open.
TablesOfSource ==
    /\ \A p \in Paths \ (broken \cup Open(stack)) :
        Source(compiled[p]) =>
            LET table == TableOf(tab, p)
                public == {d.name : d \in {e \in Range(compiled[p].defs) : e.pub}}
            IN  /\ public \subseteq DOMAIN table
                /\ \A n \in DOMAIN table : /\ n \in public
                                           /\ tab.symbols[table[n]].name = <<p>> \o n
    /\ \A n \in Names :
        LET id == GetId(tab, n)
            owner == tab.symbols[id].name[1]
        IN  id # 0 => \/ tab.symbols[id].sym.pub
                      \/ owner \in broken
                      \/ ~ Idle /\ owner = Top.path /\ Top.phase = "bodies"
=============================================================================
