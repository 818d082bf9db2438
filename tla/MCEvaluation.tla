---------------------------- MODULE MCEvaluation ----------------------------
(***************************************************************************)
(* Instance of Evaluation for TLC: two names, a function of a number and a  *)
(* function of any type of a set and anything, whose parameters have the    *)
(* names of the variables.  A program starts with nothing, or has run       *)
(*   Set s = SetOf(1, 2);  Real x = 3;                                      *)
(* which leaves the bound on terms for what comes after it.                 *)
(***************************************************************************)
EXTENDS Evaluation

MCNames == {"x", "s"}

MCUserFunctions ==
  {[kind |-> "user", gra |-> "Real", params |-> <<[name |-> "x", gra |-> "Real"]>>],
   [kind |-> "user", gra |-> "Anything",
    params |-> <<[name |-> "s", gra |-> "Set"], [name |-> "x", gra |-> "Anything"]>>]}

Object(kind, alias, name, nRefs, refs) ==
  [kind |-> kind, alias |-> alias, name |-> name, level |-> 1, nRefs |-> nRefs, refs |-> refs]

\* The number 3 was object 6, destroyed when x was made a copy of it.
Declared ==
  [o \in Objects |->
     CASE o \in {1, 2} -> Object("Real", FALSE, NoName, 1, <<>>)
       [] o = 3 -> Object("Set", FALSE, NoName, 1, <<1, 2>>)
       [] o = 4 -> Object("Set", TRUE, "s", 2, <<3>>)
       [] o = 5 -> Object("Set", TRUE, "s", 2, <<4>>)
       [] o = 7 -> Object("Real", FALSE, "x", 2, <<>>)
       [] OTHER -> Free]

AfterDeclarations ==
  /\ heap = Declared
  /\ stack = <<[obj |-> 4, name |-> "s"], [obj |-> 5, name |-> "s"], [obj |-> 7, name |-> "x"]>>
  /\ frames = <<[at |-> "block", gra |-> "Anything", force |-> TRUE, pos |-> 0, items |-> <<5, 7>>]>>
  /\ level = 1 /\ terms = MaxTerms /\ leaked = <<>> /\ orphans = {}
  /\ control = Evaluate("Anything", TRUE)

MCSpec == (Init \/ AfterDeclarations) /\ [][Next]_vars
=============================================================================
