----------------------------- MODULE Evaluation -----------------------------
(***************************************************************************)
(* The evaluation of a TOL program inside a block: the objects it makes,    *)
(* their reference counts, and the stack of local variables                 *)
(* (src/tol/btol/bgrammar: grastk.cpp, graimp.cpp, oprimp.cpp,              *)
(* spfuninst.cpp; src/tol/bbasic: atm.cpp, lst.cpp).                        *)
(*                                                                         *)
(* The program is any: wherever the interpreter is about to evaluate a      *)
(* term, the term is chosen.  Real objects stand for the types whose        *)
(* variables are copies (BCopyContens), sets for those whose variables      *)
(* refer to an object (BRenContens).  The C++ stack of EvaluateTree and the *)
(* functions it calls is "frames", the innermost first.                     *)
(***************************************************************************)
EXTENDS Integers, Sequences, FiniteSets, SequencesExt, Functions

CONSTANTS
  Names,                \* names of local variables
  NoName,               \* the name of an unnamed object
  UserFunctions,        \* records [kind |-> "user", gra, params]
  MaxObjects,           \* bound: objects that live at a time
  MaxTerms,             \* bound: compound terms, statements and arguments
  AliasedAssignments    \* may ":=" replace a set while its elements are in use?

Nil     == 0
Objects == 1..MaxObjects
Kinds   == {"Real", "Set"}
Grammars == Kinds \cup {"Anything"}

\* A function has a parameter at least; a variable has a name.
ASSUME EvaluationAssumption ==
  /\ UserFunctions \subseteq
       [kind : {"user"}, gra : Grammars, params : Seq([name : Names, gra : Grammars]) \ {<<>>}]
  /\ NoName \notin Names
  /\ MaxObjects \in Nat /\ MaxTerms \in Nat

\* The object's nRefs_, and what it counts a reference to: the elements of a set,
\* result_ of a variable or argument.  "alias": its contents are those of result_.
Free == [kind |-> "None", alias |-> FALSE, name |-> NoName, level |-> 0, nRefs |-> 0, refs |-> <<>>]

Sum   == [kind |-> "sum", gra |-> "Real", params |-> <<>>]
SetOf == [kind |-> "set", gra |-> "Set", params |-> <<>>]
Operators == {Sum, SetOf} \cup UserFunctions

VARIABLES
  heap,     \* object -> its members, or Free
  stack,    \* stack_, the oldest first: records [obj, name], the name it is found by
  level,    \* BGrammar::Level()
  frames,   \* calls in progress, the innermost first
  control,  \* what it does next: evaluate a term, or return an object
  terms,    \* what is left of MaxTerms
  leaked,   \* history: objects on lists that no one destroys
  orphans   \* history: unreferenced objects that no one destroys

vars == <<heap, stack, level, frames, control, terms, leaked, orphans>>

Evaluate(gra, force) == [do |-> "evaluate", gra |-> gra, force |-> force]
Return(o) == [do |-> "return", obj |-> o]

-----------------------------------------------------------------------------
\* Reference counts

Live(h) == {o \in Objects : h[o] # Free}

IncNRefs(h, o) == IF o = Nil THEN h ELSE [h EXCEPT ![o].nRefs = @ + 1]
DecNRefs(h, o) == IF o = Nil THEN h ELSE [h EXCEPT ![o].nRefs = @ - 1]
Occurrences(o, s) == Cardinality({i \in DOMAIN s : s[i] = o})
IncAll(h, objs) == [o \in Objects |-> [h[o] EXCEPT !.nRefs = @ + Occurrences(o, objs)]]

\* Who refers to what: <<p, i>>, the i-th reference of p.
References(h) == UNION {{p} \X DOMAIN h[p].refs : p \in Objects}

\* BList::Destroy, and what each destructor does with the objects it refers to: each
\* loses a reference, and an object that had one only is destroyed, before the
\* next one, with what it refers to.  "left" is what is left to do.
ReleaseNext(s) ==
  LET o == Head(s.left)
      h == DecNRefs(s.heap, o)
  IN  IF s.left = <<>> THEN s
      ELSE IF h[o].nRefs # 0 THEN [heap |-> h, left |-> Tail(s.left)]
      ELSE [heap |-> [h EXCEPT ![o] = Free], left |-> Reverse(h[o].refs) \o Tail(s.left)]

\* A step for each reference at most.
DestroyList(h, objs) ==
  LET steps == Len(objs) + Cardinality(References(h))
      after[n \in 0 .. steps] ==
        IF n = 0 THEN [heap |-> h, left |-> objs] ELSE ReleaseNext(after[n - 1])
  IN  after[steps].heap

\* BAtom::Destroy, with the destructor it calls.
Destroy(h, o) ==
  IF o = Nil \/ h[o].nRefs # 0 THEN h
  ELSE DestroyList([h EXCEPT ![o] = Free], Reverse(h[o].refs))

\* Fault: the result is not protected.
DestroyUnprotected(h, o, result) == Destroy(h, o)

\* SAFE_DESTROY: "result" survives, though what is destroyed may hold it.
SafeDestroy(h, o, result)        == DecNRefs(Destroy(IncNRefs(h, result), o), result)
SafeDestroyList(h, objs, result) == DecNRefs(DestroyList(IncNRefs(h, result), objs), result)

\* The object whose contents o shows: aliases are followed to the end.
Shown(h, o) == IF h[o].alias /\ h[o].refs # <<>> THEN h[o].refs[1] ELSE o
Contens(h, o) ==
  LET follow[n \in 0 .. MaxObjects] == IF n = 0 THEN o ELSE Shown(h, follow[n - 1])
  IN  follow[MaxObjects]

\* Objects to be reached from some objects by references.
WithReferences(h, objs) == objs \cup UNION {Range(h[o].refs) : o \in objs}
Reachable(h, from) ==
  LET reach[n \in 0 .. MaxObjects] == IF n = 0 THEN from ELSE WithReferences(h, reach[n - 1])
  IN  reach[MaxObjects]

-----------------------------------------------------------------------------
\* The stack manager; a memory m is a record [heap, stack].

Memory == [heap |-> heap, stack |-> stack]

\* BStackManager::Find: the last one pushed of that name.
Find(st, name) ==
  LET at == {i \in DOMAIN st : st[i].name = name}
  IN  IF at = {} THEN Nil ELSE st[CHOOSE i \in at : \A j \in at : j <= i].obj

Push(m, o, name) ==
  [heap |-> IncNRefs(m.heap, o), stack |-> Append(m.stack, [obj |-> o, name |-> name])]

\* An object that the pool says is not assigned is only taken off.
Pop(m, except) ==
  LET o == Last(m.stack).obj
      h == DecNRefs(m.heap, o)
  IN  [stack |-> Front(m.stack),
       heap  |-> IF m.heap[o] = Free THEN m.heap ELSE IF o = except THEN h ELSE Destroy(h, o)]

DestroyUntil(m, size, except) ==
  LET excess == Len(m.stack) - size
      popped[n \in 0 .. excess] == IF n = 0 THEN m ELSE Pop(popped[n - 1], except)
  IN  IF Len(m.stack) <= size THEN m ELSE popped[excess]

\* Fault: one variable too few is taken off.
EndScopeButOne(m, pos, result) ==
  LET n == DestroyUntil([m EXCEPT !.heap = IncNRefs(@, result)], pos + 1, result)
  IN  [n EXCEPT !.heap = DecNRefs(@, result)]

\* What blocks and functions do at their end: the result survives its variables.
EndScope(m, pos, result) ==
  LET n == DestroyUntil([m EXCEPT !.heap = IncNRefs(@, result)], pos, result)
  IN  [n EXCEPT !.heap = DecNRefs(@, result)]

\* The object that is made next, at the lowest address: addresses are used again.
NextObject(h) == CHOOSE o \in Objects : h[o] = Free /\ \A p \in 1..(o - 1) : h[p] # Free
Room(h, n) == Cardinality(Objects \ Live(h)) >= n

\* A new object that refers to refs, at a level, pushed if it has a name to be found by
\* (the constructors of BGraContensBase, with AddObject).
New(m, kind, alias, name, lvl, refs, foundBy) ==
  LET o == NextObject(m.heap)
      n == [m EXCEPT !.heap = IncAll([@ EXCEPT ![o] =
             [kind |-> kind, alias |-> alias, name |-> name, level |-> lvl, nRefs |-> 0, refs |-> refs]], refs)]
  IN  IF foundBy = NoName THEN n ELSE Push(n, o, foundBy)

\* Fault: the value copied is left behind.
NewRenamedCopy(m, name, r) ==
  New(m, m.heap[r].kind, m.heap[r].kind = "Set", name, level,
      IF m.heap[r].kind = "Set" \/ m.heap[r].nRefs > 0 THEN <<r>> ELSE <<>>, name)

\* newRenamed_: a variable is a copy of a real, which it keeps only if something else
\* does, and a reference to a set.
NewRenamed(m, name, r) ==
  IF m.heap[r].kind = "Set"
    THEN New(m, "Set", TRUE, name, level, <<r>>, name)
  ELSE IF m.heap[r].nRefs > 0
    THEN New(m, "Real", FALSE, name, level, <<r>>, name)
  ELSE LET n == New(m, "Real", FALSE, name, level, <<>>, name)
       IN  [n EXCEPT !.heap = Destroy(@, r)]

\* newFunArg_: an argument refers to the object given, keeps its name, and is found
\* by the name of the parameter.
NewFunArg(m, param, r) ==
  New(m, m.heap[r].kind, TRUE, m.heap[r].name, level + 1, <<r>>, param)

-----------------------------------------------------------------------------
\* Steps, in terms of the memory they leave and the frames below

Top == Head(frames)
Below == Tail(frames)
Evaluates == control.do = "evaluate"
Returns(at) == control.do = "return" /\ frames # <<>> /\ Top.at = at

Leaves(m) == heap' = m.heap /\ stack' = m.stack
Keep == UNCHANGED <<heap, stack>>
Spend == terms > 0 /\ terms' = terms - 1
NoLoss == UNCHANGED <<leaked, orphans>>
Unreferenced(o) == {p \in {o} : p # Nil /\ heap[p].nRefs = 0}

\* An object of another type than the grammar evaluated under is destroyed if the
\* caller insists on the type (EvaluateTree, forceType).
Fits(h, o, gra) == o # Nil => gra = "Anything" \/ h[o].kind = gra
Cast(h, o, gra, force) == IF Fits(h, o, gra) \/ ~force THEN o ELSE Nil
DestroyMisfit(h, o, gra, force) == IF Fits(h, o, gra) \/ ~force THEN h ELSE Destroy(h, o)

-----------------------------------------------------------------------------
\* Leaves: a number, or the name of a variable

Constant ==
  /\ Evaluates /\ control.gra \in {"Real", "Anything"} /\ Room(heap, 1)
  /\ Leaves(New(Memory, "Real", FALSE, NoName, level, <<>>, NoName))
  /\ control' = Return(NextObject(heap))
  /\ UNCHANGED <<level, frames, terms>> /\ NoLoss

\* FindOperand of a grammar: NIL if the variable is not of its type.
FindOperand(gra, name) ==
  LET o == Find(stack, name) IN IF Fits(heap, o, gra) THEN o ELSE Nil

Operand(name) ==
  /\ Evaluates
  /\ control' = Return(FindOperand(control.gra, name))
  /\ UNCHANGED <<level, frames, terms>> /\ Keep /\ NoLoss

-----------------------------------------------------------------------------
\* Blocks: { statement; ... }

BlockFrame(gra, force) ==
  [at |-> "block", gra |-> gra, force |-> force, pos |-> Len(stack), items |-> <<>>]

Block ==
  /\ Evaluates /\ Spend
  /\ frames' = <<BlockFrame(control.gra, control.force)>> \o frames
  /\ level' = level + 1
  /\ UNCHANGED control /\ Keep /\ NoLoss

\* localItems: each result is kept once until the sequence ends, when they are gone
\* through in the order of their hashes, which is any.
Orders(items) == {[i \in DOMAIN items |-> items[p[i]]] : p \in Bijection(DOMAIN items, DOMAIN items)}
AddItem(items, o) == IF o = Nil \/ Contains(items, o) THEN items ELSE Append(items, o)
\* Fault: each result is counted, also one that is there already.
PinnedEach(h, items, o) == IncNRefs(h, o)
Pinned(h, items, o) == IF Contains(items, o) THEN h ELSE IncNRefs(h, o)
UnpinNext(h, o, result) == IF o = result THEN DecNRefs(h, o) ELSE Destroy(DecNRefs(h, o), o)
Unpinned(h, items, result) ==
  LET after[n \in 0 .. Len(items)] == IF n = 0 THEN h ELSE UnpinNext(after[n - 1], items[n], result)
  IN  after[Len(items)]

NextStatement ==
  /\ Returns("block") /\ Spend
  /\ heap' = Pinned(heap, Top.items, control.obj)
  /\ frames' = <<[Top EXCEPT !.items = AddItem(@, control.obj)]>> \o Below
  /\ control' = Evaluate(Top.gra, Top.force)
  /\ UNCHANGED <<stack, level>> /\ NoLoss

BlockEnds ==
  /\ Returns("block")
  /\ LET o == control.obj
     IN  \E order \in Orders(AddItem(Top.items, o)) :
           LET h == Unpinned(Pinned(heap, Top.items, o), order, o)
               result == Cast(h, o, Top.gra, Top.force)
               m == [heap |-> DestroyMisfit(h, o, Top.gra, Top.force), stack |-> stack]
           IN  Leaves(EndScope(m, Top.pos, result)) /\ control' = Return(result)
  /\ frames' = Below
  /\ level' = level - 1
  /\ UNCHANGED terms /\ NoLoss

-----------------------------------------------------------------------------
\* Types: Kind term, and Kind name = term

\* A statement may be of any type, under which a block evaluates it; another term is of
\* the type asked for.
IsStatement == frames # <<>> /\ Top.at = "block"
MayBeTyped(kind) == IsStatement \/ control.gra \in {"Anything", kind}

TypedFrame(kind) ==
  [at |-> "typed", gra |-> IF IsStatement THEN kind ELSE control.gra, force |-> IsStatement \/ control.force]

Typed(kind) ==
  /\ Evaluates /\ MayBeTyped(kind) /\ Spend
  /\ frames' = <<TypedFrame(kind)>> \o frames
  /\ control' = Evaluate(kind, FALSE)
  /\ UNCHANGED level /\ Keep /\ NoLoss

\* "=" is evaluated under the type, and evaluates its right side.
Declare(kind, name) ==
  /\ Evaluates /\ MayBeTyped(kind) /\ Spend
  /\ frames' = <<[at |-> "declare", name |-> name], TypedFrame(kind)>> \o frames
  /\ control' = Evaluate(kind, TRUE)
  /\ UNCHANGED level /\ Keep /\ NoLoss

\* CreateObject: NIL if the level has a variable of the name.
CreateObject ==
  /\ Returns("declare") /\ Room(heap, 1)
  /\ LET right == control.obj
         local == Find(stack, Top.name)
         defined == local # Nil /\ local # right /\ heap[local].level = level
     IN  IF right = Nil \/ defined \/ local = right
           THEN /\ Keep
                /\ control' = Return(IF defined THEN Nil ELSE right)
                /\ orphans' = IF defined THEN orphans \cup Unreferenced(right) ELSE orphans
           ELSE /\ Leaves(NewRenamed(Memory, Top.name, right))
                /\ control' = Return(NextObject(heap))
                /\ UNCHANGED orphans
  /\ frames' = Below
  /\ UNCHANGED <<level, terms, leaked>>

\* A set, or an object of an inner level, is declared again here under its own name.
TypeEnds ==
  /\ Returns("typed") /\ Room(heap, 1)
  /\ LET o == control.obj
         again == o # Nil /\ (heap[o].level > level \/ heap[o].kind = "Set")
         m == IF again THEN NewRenamed(Memory, heap[o].name, o) ELSE Memory
         r == IF again THEN NextObject(heap) ELSE o
     IN  /\ Leaves([m EXCEPT !.heap = DestroyMisfit(@, r, Top.gra, Top.force)])
         /\ control' = Return(Cast(m.heap, r, Top.gra, Top.force))
  /\ frames' = Below
  /\ UNCHANGED <<level, terms>> /\ NoLoss

-----------------------------------------------------------------------------
\* Calls: the arguments are evaluated in order into a list

IsUser(op) == op.kind = "user"
ArgumentGrammar(op, n) ==
  IF IsUser(op) THEN op.params[n].gra ELSE IF op = Sum THEN "Real" ELSE "Anything"

Call(op) ==
  /\ Evaluates /\ control.gra \in {"Anything", op.gra} /\ Spend
  /\ frames' = <<[at |-> "arguments", op |-> op, args |-> <<>>]>> \o frames
  /\ control' = Evaluate(ArgumentGrammar(op, 1), TRUE)
  /\ UNCHANGED level /\ Keep /\ NoLoss

Args == Append(Top.args, control.obj)
ArgumentTaken == Returns("arguments") /\ control.obj # Nil
WithArgument == IncNRefs(heap, control.obj)
Complete == IsUser(Top.op) => Len(Args) = Len(Top.op.params)

NextArgument ==
  /\ ArgumentTaken /\ Spend
  /\ IsUser(Top.op) => ~Complete
  /\ heap' = WithArgument
  /\ frames' = <<[Top EXCEPT !.args = Args]>> \o Below
  /\ control' = Evaluate(ArgumentGrammar(Top.op, Len(Args) + 1), TRUE)
  /\ UNCHANGED <<stack, level>> /\ NoLoss

\* An argument fails, or there is one too many: the list is destroyed.
BadArguments ==
  /\ Returns("arguments")
  /\ \/ control.obj = Nil /\ heap' = DestroyList(heap, Top.args)
     \/ control.obj # Nil /\ IsUser(Top.op) /\ Complete
          /\ heap' = DestroyList(WithArgument, Args)
  /\ control' = Return(Nil)
  /\ frames' = Below
  /\ UNCHANGED <<stack, level, terms>> /\ NoLoss

\* With too few, it is left as it is.
TooFewArguments ==
  /\ ArgumentTaken /\ ~Complete
  /\ heap' = WithArgument
  /\ leaked' = leaked \o Args
  /\ control' = Return(Nil)
  /\ frames' = Below
  /\ UNCHANGED <<stack, level, terms, orphans>>

\* A number is computed at once (Do), and forgets its arguments.
DoReal ==
  /\ ArgumentTaken /\ Top.op = Sum /\ Room(WithArgument, 1)
  /\ LET m == New([Memory EXCEPT !.heap = WithArgument], "Real", FALSE, NoName, level, <<>>, NoName)
     IN  Leaves([m EXCEPT !.heap = DestroyList(@, Args)])
  /\ control' = Return(NextObject(WithArgument))
  /\ frames' = Below
  /\ UNCHANGED <<level, terms>> /\ NoLoss

\* A set keeps them: its elements.
DoSet ==
  /\ ArgumentTaken /\ Top.op = SetOf /\ Room(WithArgument, 1)
  /\ LET m == New([Memory EXCEPT !.heap = WithArgument], "Set", FALSE, NoName, level, Args, NoName)
     IN  Leaves([m EXCEPT !.heap = DestroyList(@, Args)])
  /\ control' = Return(NextObject(WithArgument))
  /\ frames' = Below
  /\ UNCHANGED <<level, terms>> /\ NoLoss

-----------------------------------------------------------------------------
\* User functions

\* The arguments' objects, each on the stack and on the list argInstances.
BindNext(b, param, r) ==
  LET o == NextObject(b.mem.heap)
      m == NewFunArg(b.mem, param, r)
  IN  [mem |-> [m EXCEPT !.heap = IncNRefs(@, o)], instances |-> <<o>> \o b.instances]
Bind(m, op, args) ==
  LET bound[n \in 0 .. Len(args)] ==
        IF n = 0 THEN [mem |-> m, instances |-> <<>>]
        ELSE BindNext(bound[n - 1], op.params[n].name, args[n])
  IN  bound[Len(args)]

EnterFunction ==
  /\ ArgumentTaken /\ IsUser(Top.op) /\ Complete /\ Room(WithArgument, Len(Args))
  /\ LET b == Bind([Memory EXCEPT !.heap = WithArgument], Top.op, Args)
     IN  /\ Leaves(b.mem)
         /\ frames' = <<[at |-> "body", op |-> Top.op, args |-> Args, instances |-> b.instances,
                         pos |-> Len(stack), level |-> level]>> \o Below
  /\ level' = level + 1
  /\ control' = Evaluate(Top.op.gra, TRUE)
  /\ UNCHANGED terms /\ NoLoss

\* The end of the local variables, arguments included: a result survives them, and
\* a function of any type that fails leaves everything where it is.
EndFunction(m, f, o) ==
  IF o = Nil /\ f.op.gra = "Anything" THEN m
  ELSE LET n == DestroyUntil([m EXCEPT !.heap = IncNRefs(@, o)], f.pos, o)
       IN  [n EXCEPT !.heap = DecNRefs(DestroyList(@, f.instances), o)]

\* A number is returned as a copy, with the name.
ResultCopied(m, o, lvl) ==
  LET n == New(m, "Real", FALSE, m.heap[o].name, lvl, <<>>, NoName)
  IN  [n EXCEPT !.heap = Destroy(@, o)]

FunctionReturns ==
  /\ Returns("body")
  /\ LET o == control.obj
         n == EndFunction(Memory, Top, o)
         m == [n EXCEPT !.heap = SafeDestroyList(@, Top.args, o)]
         copies == o # Nil /\ m.heap[o].kind = "Real"
     IN  /\ copies => Room(m.heap, 1)
         /\ Leaves(IF copies THEN ResultCopied(m, o, Top.level) ELSE m)
         /\ control' = Return(IF copies THEN NextObject(m.heap) ELSE o)
         /\ leaked' = IF o = Nil /\ Top.op.gra = "Anything" THEN leaked \o Top.instances ELSE leaked
  /\ level' = Top.level
  /\ frames' = Below
  /\ UNCHANGED <<terms, orphans>>

-----------------------------------------------------------------------------
\* set[index]: the set is at hand while the index is evaluated, with no reference to it

Element ==
  /\ Evaluates /\ Spend
  /\ frames' = <<[at |-> "set", gra |-> control.gra]>> \o frames
  /\ control' = Evaluate("Set", TRUE)
  /\ UNCHANGED level /\ Keep /\ NoLoss

EvaluateIndex ==
  /\ Returns("set")
  /\ IF control.obj = Nil
       THEN frames' = Below /\ UNCHANGED control
       ELSE /\ frames' = <<[at |-> "index", gra |-> Top.gra, set |-> control.obj,
                            count |-> Cardinality(Live(heap))]>> \o Below
            /\ control' = Evaluate("Real", TRUE)
  /\ UNCHANGED <<level, terms>> /\ Keep /\ NoLoss

\* An index out of range gives NIL, and so does an element of another type.
Found(set) == {Nil} \cup {e \in Range(heap[Contens(heap, set)].refs) : Fits(heap, e, Top.gra)}

\* The index is destroyed if there are more objects than before it was evaluated.
\* Indices are numbers: one that gives NIL, which the code evaluates once more as a
\* text, ends the call here, and there is no value for when the element is missing.
DeletesIndex == Cardinality(Live(heap)) > Top.count

GetElement ==
  /\ Returns("index")
  /\ \E e \in IF control.obj = Nil THEN {Nil} ELSE Found(Top.set) :
       /\ heap' = SafeDestroy(IF DeletesIndex THEN SafeDestroy(heap, control.obj, e) ELSE heap, Top.set, e)
       /\ control' = Return(e)
  /\ orphans' = IF DeletesIndex THEN orphans ELSE orphans \cup Unreferenced(control.obj)
  /\ frames' = Below
  /\ UNCHANGED <<stack, level, terms, leaked>>

-----------------------------------------------------------------------------
\* name := term

Assign(name) ==
  /\ Evaluates /\ Spend
  /\ LET o == FindOperand(control.gra, name)
     IN  IF o = Nil
           THEN control' = Return(Nil) /\ UNCHANGED frames
           ELSE /\ frames' = <<[at |-> "value", target |-> o]>> \o frames
                /\ control' = Evaluate(heap[o].kind, TRUE)
  /\ UNCHANGED level /\ Keep /\ NoLoss

\* BSet::operator=: the old elements are released before the new ones are copied.
CopySet(h, target, value) ==
  LET t == Contens(h, target)
      v == Contens(h, value)
      g == DestroyList([h EXCEPT ![t].refs = <<>>], Reverse(h[t].refs))
      new == g[v].refs
  IN  [IncAll(g, new) EXCEPT ![t].refs = new]

\* Objects that calls in progress hold without a reference.
InUse ==
  {o \in (IF Evaluates THEN {} ELSE {control.obj})
         \cup {f.set : f \in {g \in Range(frames) : g.at = "index"}}
         \cup {f.target : f \in {g \in Range(frames) : g.at = "value"}} : o # Nil}

\* Objects that they refer to: results of a block's statements, arguments, argInstances.
Lists(f) ==
  CASE f.at = "block"     -> f.items
    [] f.at = "arguments" -> f.args
    [] f.at = "body"      -> f.args \o f.instances
    [] OTHER              -> <<>>

OnLists == UNION {Range(Lists(frames[j])) : j \in DOMAIN frames}

\* Results that blocks in progress keep and that are no variables.
Kept ==
  UNION {Range(f.items) : f \in {g \in Range(frames) : g.at = "block"}}
    \ {stack[i].obj : i \in DOMAIN stack}

\* The value does not refer to the set assigned, and none of its elements is in use,
\* or also in something that a block keeps.
Apart(target, value) ==
  LET t        == Contens(heap, target)
      elements == Reachable(heap, Range(heap[t].refs))
  IN  /\ t \notin Reachable(heap, {value})
      /\ InUse \cap elements = {}
      /\ Reachable([heap EXCEPT ![t].refs = <<>>], Kept) \cap elements = {}

PutValue ==
  /\ Returns("value")
  /\ LET o == control.obj
         t == Top.target
         h == IF heap[t].kind = "Set" THEN CopySet(heap, t, o) ELSE heap
     IN  IF o = Nil \/ o = t
           THEN Keep
           ELSE /\ (heap[t].kind = "Set" /\ ~AliasedAssignments) => Apart(t, o)
                /\ heap' = SafeDestroy(h, o, t)
                /\ UNCHANGED stack
  /\ control' = Return(Top.target)
  /\ frames' = Below
  /\ UNCHANGED <<level, terms>> /\ NoLoss

-----------------------------------------------------------------------------
\* The interpreter evaluates a block of the user.

Init ==
  /\ heap = [o \in Objects |-> Free]
  /\ stack = <<>>
  /\ level = 1
  /\ frames = <<[at |-> "block", gra |-> "Anything", force |-> TRUE, pos |-> 0, items |-> <<>>]>>
  /\ control = Evaluate("Anything", TRUE)
  /\ terms = MaxTerms
  /\ leaked = <<>> /\ orphans = {}

Term ==
  \/ Constant \/ Block \/ Element
  \/ \E n \in Names : Operand(n) \/ Assign(n)
  \/ \E k \in Kinds : Typed(k) \/ \E n \in Names : Declare(k, n)
  \/ \E op \in Operators : Call(op)

Next ==
  \/ Term
  \/ NextStatement \/ BlockEnds
  \/ CreateObject \/ TypeEnds
  \/ NextArgument \/ BadArguments \/ TooFewArguments \/ DoReal \/ DoSet
  \/ EnterFunction \/ FunctionReturns
  \/ EvaluateIndex \/ GetElement \/ PutValue

Spec == Init /\ [][Next]_vars

-----------------------------------------------------------------------------

\* What counts as a reference: being on the stack, on the list of a call in progress
\* or of a leaked one, a result of a block's statements, or in another object.
OnStack == [i \in DOMAIN stack |-> stack[i].obj]

\* Where an object is on the lists of calls, and where other objects refer to it.
FrameUses(fs, o) ==
  UNION {{j} \X {i \in DOMAIN Lists(fs[j]) : Lists(fs[j])[i] = o} : j \in DOMAIN fs}
RefUses(h, o) == {r \in References(h) : h[r[1]].refs[r[2]] = o}

(* The count of references of every object is the number of places that refer to *)
(* it, and nothing refers to an object that was destroyed: whatever mixture of   *)
(* Inc/DecNRefs, DESTROY and SAFE_DESTROY the terms of a program run through     *)
(* (so Pop never meets an object that is not assigned, grastk.cpp:226-233).      *)
ReferencesAreCounted ==
  \A o \in Objects :
    heap[o].nRefs = Occurrences(o, OnStack) + Occurrences(o, leaked)
                      + Cardinality(FrameUses(frames, o)) + Cardinality(RefUses(heap, o))

(* What the interpreter has at hand without a reference is not destroyed under   *)
(* it: the result on its way, a set whose index is evaluated, a variable that is *)
(* assigned (spfuninst.cpp:873-1016, 1040-1090).  It holds of programs whose      *)
(* assignments to sets are Apart, AliasedAssignments being FALSE: others do free  *)
(* what is in use (set.cpp:237-255).                                             *)
InUseIsAlive == InUse \subseteq Live(heap)

(* No object outlives its last use, except what the code gives up: arguments of  *)
(* a call with too few of them, those of a function of any type that fails, the  *)
(* value of a variable that was already defined, and an index whose evaluation   *)
(* left no more objects than there were.  It, too, is said of programs whose      *)
(* assignments to sets are Apart: one that puts a set in itself keeps both.       *)
NothingIsLost ==
  Live(heap) \subseteq
    Reachable(heap, InUse \cup orphans \cup Range(OnStack) \cup Range(leaked) \cup OnLists)

(* Variables lie on the stack by level, none of a level that has ended, so the   *)
(* one found first is the innermost, and a block or function takes its own and   *)
(* no others with it (grastk.cpp:244-250).  The exception is what a function of  *)
(* any type left there when it failed, from its arguments up.                    *)
LevelsAscend ==
  LET lvl == [i \in DOMAIN stack |-> heap[stack[i].obj].level]
      kept == {i \in DOMAIN stack : \A j \in 1..i : stack[j].obj \notin Range(leaked)}
  IN  \A i \in kept : lvl[i] <= level /\ \A j \in kept : i < j => lvl[i] <= lvl[j]
=============================================================================
