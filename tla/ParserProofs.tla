---------------------------- MODULE ParserProofs ----------------------------
(***************************************************************************)
(* The parser keeps its type, builds every node as its constructor asserts,*)
(* reports at locations that exist if the file ends in a newline, and makes*)
(* trees that cover the tokens and bind by the levels of the operators,    *)
(* whatever the token stream.                                              *)
(***************************************************************************)
EXTENDS ParserProperties, SequenceTheorems, TLAPS

(* parseProgram calls parseVariableDefinition and parseStatement; all else *)
(* runs inside one of these.                                               *)
OuterPlaces == {"program", "statements", "program.definition", "program.statement"}
DefinitionPlaces == {"definition", "definition.variable", "definition.literal"}
StatementPlaces == {"statement", "statement.simple"}
InnerPlaces == Places \ OuterPlaces

(* Places where an activation owns one pointer, or knows a token.          *)
OwnsOne == {"definition.literal", "typedVariable.colon", "typedVariable.type",
            "expression.operator", "expression.operand"}

HasToken == {"definition", "definition.variable", "definition.literal",
             "assignment", "assignment.expression", "type.bracket",
             "prefix.group", "prefix.unary", "expression.operand"}

MayCall(caller, callee) ==
  /\ caller \in Places
  /\ callee \in InnerPlaces
  /\ callee \in DefinitionPlaces => caller = "program.definition"
  /\ callee \in StatementPlaces => caller = "program.statement"
  /\ callee \notin DefinitionPlaces \cup StatementPlaces => caller \in InnerPlaces

(* The stack is a chain of calls that starts at parseProgram.              *)
Chain(S) ==
  /\ Len(S) > 0 => S[Len(S)].at \in OuterPlaces
  /\ \A k \in 1..(Len(S) - 1) : MayCall(S[k + 1].at, S[k].at)

(* What an activation knows of the tokens ts and the heap ns.              *)
FrameFine(f, ts, ns) ==
  /\ \A i \in 1..Len(f.own) : f.own[i] \in 1..Len(ns)
  /\ f.at \in OwnsOne => Len(f.own) = 1
  /\ f.at \in HasToken => f.token \in 1..Len(ts)
  /\ f.at = "expression.operand" => ts[f.token] \in DOMAIN InfixPower
  /\ f.at = "prefix.unary" => ts[f.token] \in DOMAIN PrefixPower
  /\ f.at \in {"assignment", "assignment.expression"} =>
       \A i \in 1..Len(f.own) : ns[f.own[i]].kind = "Identifier"

FramesFine(S, ts, ns) == \A k \in 1..Len(S) : FrameFine(S[k], ts, ns)

StackFine(S, ts, ns) == S \in Seq(Frame) /\ Chain(S) /\ FramesFine(S, ts, ns)

(* What a node is made of: NodeAsserts with the heap as a parameter.       *)
Constant(p, ts, ns) ==
  CASE ns[p].kind = "BinaryExpression" -> ts[ns[p].token] \notin Logical
    [] ns[p].kind = "UnaryExpression"  -> ts[ns[p].token] = "MINUS"
    [] OTHER -> TRUE

NodeFine(n, ts, ns) ==
  /\ \A k \in 1..Len(n.kids) : n.kids[k] \in 0..Len(ns)
  /\ n.kind # "Program" => n.from \in 1..Len(ts)
  /\ n.kind = "Identifier" => ts[n.token] = "ID"
  /\ n.kind = "Literal" => ts[n.token] \in Literals
  /\ n.kind = "BinaryExpression" =>
       /\ Len(n.kids) = 2
       /\ ts[n.token] \in DOMAIN InfixPower
       /\ n.kids[1] # Null /\ n.kids[2] # Null
       /\ ts[n.token] \notin Logical =>
            Constant(n.kids[1], ts, ns) /\ Constant(n.kids[2], ts, ns)
  /\ n.kind = "UnaryExpression" =>
       /\ Len(n.kids) = 1
       /\ ts[n.token] \in DOMAIN PrefixPower
       /\ n.kids[1] # Null
       /\ ts[n.token] = "MINUS" => Constant(n.kids[1], ts, ns)
  /\ n.kind = "AssignmentStatement" =>
       \A k \in 1..(Len(n.kids) - 1) :
         n.kids[k] # Null /\ ns[n.kids[k]].kind = "Identifier"

HeapFine(ts, ns) == \A p \in 1..Len(ns) : NodeFine(ns[p], ts, ns)

(* While it runs, the root has not been built, and what has been built     *)
(* was built from tokens that were consumed.                               *)
Progress ==
  stack # <<>> =>
    /\ \A p \in 1..Len(nodes) : nodes[p].kind # "Program"
    /\ Len(nodes) > 0 => pos >= 1

(* Inside a line the last NEWLINE is still ahead.                          *)
LineAhead ==
  EndsInLayout /\ stack # <<>> /\ Top.at \in InnerPlaces => pos < Len(toks)

IInv ==
  /\ TypeOK
  /\ StackFine(stack, toks, nodes)
  /\ HeapFine(toks, nodes)
  /\ Progress
  /\ LineAhead
  /\ LocationsExist

----------------------------------------------------------------------------
(* Sequences of activations.                                               *)

(* Replacing the running activation changes only the head of the stack.    *)
LEMMA ReplaceTop ==
  ASSUME NEW S \in Seq(Frame), S # <<>>, NEW f \in Frame
  PROVE  /\ <<f>> \o Tail(S) \in Seq(Frame)
         /\ Len(<<f>> \o Tail(S)) = Len(S)
         /\ Head(<<f>> \o Tail(S)) = f
         /\ (<<f>> \o Tail(S))[1] = f
         /\ \A k \in 2..Len(S) : (<<f>> \o Tail(S))[k] = S[k]
         /\ <<f>> \o Tail(S) # <<>>
<1>1. /\ Tail(S) \in Seq(Frame) /\ Len(Tail(S)) = Len(S) - 1
      /\ \A k \in 1..Len(Tail(S)) : Tail(S)[k] = S[k + 1]
  BY HeadTailProperties
<1>2. /\ <<f>> \in Seq(Frame) /\ Len(<<f>>) = 1 /\ <<f>>[1] = f
      /\ Len(S) \in Nat /\ Len(S) > 0
  OBVIOUS
<1>3. /\ <<f>> \o Tail(S) \in Seq(Frame)
      /\ Len(<<f>> \o Tail(S)) = Len(<<f>>) + Len(Tail(S))
      /\ \A k \in 1..Len(<<f>>) + Len(Tail(S)) :
           (<<f>> \o Tail(S))[k] = IF k <= Len(<<f>>) THEN <<f>>[k] ELSE Tail(S)[k - Len(<<f>>)]
  BY <1>1, <1>2, ConcatProperties
<1> DEFINE T == <<f>> \o Tail(S)
<1>4. /\ T \in Seq(Frame) /\ Len(T) = Len(S) /\ T[1] = f
      /\ \A k \in 2..Len(S) : T[k] = S[k]
  BY <1>1, <1>2, <1>3
<1> HIDE DEF T
<1>5. T # <<>> /\ Head(T) = f
  BY <1>2, <1>4
<1> QED
  BY <1>4, <1>5 DEF T

(* A call puts the callee in front of the caller.                          *)
LEMMA PushCallee ==
  ASSUME NEW S \in Seq(Frame), S # <<>>, NEW f \in Frame, NEW c \in Frame
  PROVE  /\ <<c, f>> \o Tail(S) \in Seq(Frame)
         /\ Len(<<c, f>> \o Tail(S)) = Len(S) + 1
         /\ Head(<<c, f>> \o Tail(S)) = c
         /\ (<<c, f>> \o Tail(S))[1] = c
         /\ (<<c, f>> \o Tail(S))[2] = f
         /\ \A k \in 2..Len(S) : (<<c, f>> \o Tail(S))[k + 1] = S[k]
         /\ <<c, f>> \o Tail(S) # <<>>
<1>1. /\ Tail(S) \in Seq(Frame) /\ Len(Tail(S)) = Len(S) - 1
      /\ \A k \in 1..Len(Tail(S)) : Tail(S)[k] = S[k + 1]
  BY HeadTailProperties
<1>2. /\ <<c, f>> \in Seq(Frame) /\ Len(<<c, f>>) = 2
      /\ <<c, f>>[1] = c /\ <<c, f>>[2] = f
      /\ Len(S) \in Nat /\ Len(S) > 0
  OBVIOUS
<1>3. /\ <<c, f>> \o Tail(S) \in Seq(Frame)
      /\ Len(<<c, f>> \o Tail(S)) = Len(<<c, f>>) + Len(Tail(S))
      /\ \A k \in 1..Len(<<c, f>>) + Len(Tail(S)) :
           (<<c, f>> \o Tail(S))[k] =
             IF k <= Len(<<c, f>>) THEN <<c, f>>[k] ELSE Tail(S)[k - Len(<<c, f>>)]
  BY <1>1, <1>2, ConcatProperties
<1> DEFINE T == <<c, f>> \o Tail(S)
<1>4. /\ T \in Seq(Frame) /\ Len(T) = Len(S) + 1 /\ T[1] = c /\ T[2] = f
      /\ \A k \in 2..Len(S) : T[k + 1] = S[k]
  BY <1>1, <1>2, <1>3
<1> HIDE DEF T
<1>5. T # <<>> /\ Head(T) = c
  BY <1>2, <1>4
<1> QED
  BY <1>4, <1>5 DEF T

----------------------------------------------------------------------------
(* Chains of calls.                                                        *)

(* Two places of the same parse function, as far as a chain tells.         *)
SameFunction(a, b) ==
  /\ a \in Places /\ b \in Places
  /\ a \in OuterPlaces <=> b \in OuterPlaces
  /\ a \in DefinitionPlaces <=> b \in DefinitionPlaces
  /\ a \in StatementPlaces <=> b \in StatementPlaces

LEMMA PlacesAreStrings ==
  /\ InnerPlaces \subseteq Places /\ OuterPlaces \subseteq Places
  /\ DefinitionPlaces \subseteq InnerPlaces /\ StatementPlaces \subseteq InnerPlaces
BY DEF InnerPlaces, OuterPlaces, DefinitionPlaces, StatementPlaces, Places, Propagating

LEMMA MayCallSame ==
  ASSUME NEW x, NEW a, NEW b, SameFunction(a, b), MayCall(x, a)
  PROVE  MayCall(x, b)
BY DEF MayCall, SameFunction, InnerPlaces

(* Returning keeps the chain; into an inner place only an inner function   *)
(* returns that is neither a definition nor a statement.                   *)
LEMMA ChainReturn ==
  ASSUME NEW S \in Seq(Frame), S # <<>>, Chain(S)
  PROVE  /\ Chain(Tail(S))
         /\ Tail(S) # <<>> =>
              /\ Head(Tail(S)) = S[2]
              /\ MayCall(S[2].at, S[1].at)
         /\ S[1].at \in OuterPlaces => Tail(S) = <<>>
<1>1. /\ Tail(S) \in Seq(Frame) /\ Len(Tail(S)) = Len(S) - 1
      /\ \A k \in 1..Len(Tail(S)) : Tail(S)[k] = S[k + 1]
      /\ Len(S) \in Nat /\ Len(S) > 0
  BY HeadTailProperties
<1> DEFINE T == Tail(S)
<1> HIDE DEF T
<1>2. /\ T \in Seq(Frame) /\ Len(T) = Len(S) - 1 /\ Len(T) \in Nat
      /\ \A k \in 1..Len(T) : T[k] = S[k + 1]
  BY <1>1 DEF T
<1>3. Len(T) > 0 => T[Len(T)].at \in OuterPlaces
  BY <1>1, <1>2 DEF Chain
<1>4. ASSUME NEW k \in 1..(Len(T) - 1)
      PROVE  MayCall(T[k + 1].at, T[k].at)
  <2>1. T[k] = S[k + 1] /\ T[k + 1] = S[k + 1 + 1] /\ k + 1 \in 1..(Len(S) - 1)
    BY <1>1, <1>2, <1>4
  <2> QED
    BY <2>1 DEF Chain
<1>5. ASSUME T # <<>>
      PROVE  Head(T) = S[2] /\ MayCall(S[2].at, S[1].at)
  <2>1. Len(T) > 0 /\ Head(T) = T[1]
    BY <1>2, <1>5
  <2>2. 1 \in 1..(Len(S) - 1)
    BY <2>1, <1>1, <1>2
  <2>3. MayCall(S[1 + 1].at, S[1].at)
    BY <2>2 DEF Chain
  <2> QED
    BY <2>1, <2>3, <1>2
<1>6. S[1].at \in OuterPlaces => T = <<>>
  BY <1>5 DEF MayCall, InnerPlaces
<1> QED
  BY <1>3, <1>4, <1>5, <1>6 DEF Chain, T

LEMMA ChainGoOn ==
  ASSUME NEW S \in Seq(Frame), S # <<>>, Chain(S), NEW f \in Frame,
         SameFunction(S[1].at, f.at)
  PROVE  Chain(<<f>> \o Tail(S))
<1> DEFINE T == <<f>> \o Tail(S)
<1>1. /\ T \in Seq(Frame) /\ Len(T) = Len(S) /\ T[1] = f
      /\ \A k \in 2..Len(S) : T[k] = S[k]
      /\ Len(S) \in Nat /\ Len(S) > 0
  BY ReplaceTop
<1> HIDE DEF T
<1>2. T[Len(T)].at \in OuterPlaces
  <2>1. CASE Len(S) = 1
    BY <1>1, <2>1 DEF Chain, SameFunction
  <2>2. CASE Len(S) > 1
    BY <1>1, <2>2 DEF Chain
  <2> QED
    BY <2>1, <2>2, <1>1
<1>3. ASSUME NEW k \in 1..(Len(T) - 1)
      PROVE  MayCall(T[k + 1].at, T[k].at)
  <2>1. MayCall(S[k + 1].at, S[k].at) /\ T[k + 1] = S[k + 1]
    BY <1>1, <1>3 DEF Chain
  <2>2. CASE k = 1
    BY <1>1, <2>1, <2>2, MayCallSame
  <2>3. CASE k > 1
    BY <1>1, <1>3, <2>1, <2>3
  <2> QED
    BY <2>2, <2>3
<1> QED
  BY <1>2, <1>3 DEF Chain, T

LEMMA ChainCall ==
  ASSUME NEW S \in Seq(Frame), S # <<>>, Chain(S), NEW f \in Frame, NEW c \in Frame,
         SameFunction(S[1].at, f.at), MayCall(f.at, c.at)
  PROVE  Chain(<<c, f>> \o Tail(S))
<1> DEFINE T == <<c, f>> \o Tail(S)
           R == <<f>> \o Tail(S)
<1>1. /\ T \in Seq(Frame) /\ Len(T) = Len(S) + 1 /\ T[1] = c /\ T[2] = f
      /\ \A k \in 2..Len(S) : T[k + 1] = S[k]
      /\ Len(S) \in Nat /\ Len(S) > 0
  BY PushCallee
<1>2. /\ R \in Seq(Frame) /\ Len(R) = Len(S) /\ R[1] = f
      /\ \A k \in 2..Len(S) : R[k] = S[k]
  BY ReplaceTop
<1>3. Chain(R)
  BY ChainGoOn
<1> HIDE DEF T, R
<1>4. \A k \in 1..Len(S) : T[k + 1] = R[k]
  BY <1>1, <1>2
<1>5. T[Len(T)].at \in OuterPlaces
  BY <1>1, <1>2, <1>3, <1>4 DEF Chain
<1>6. ASSUME NEW k \in 1..(Len(T) - 1)
      PROVE  MayCall(T[k + 1].at, T[k].at)
  <2>1. CASE k = 1
    BY <1>1, <2>1
  <2>2. CASE k > 1
    <3>1. k - 1 \in 1..(Len(R) - 1)
      BY <1>1, <1>2, <1>6, <2>2
    <3>2. MayCall(R[(k - 1) + 1].at, R[k - 1].at)
      BY <3>1, <1>3 DEF Chain
    <3>3. T[(k - 1) + 1] = R[k - 1] /\ T[k + 1] = R[k] /\ (k - 1) + 1 = k
      BY <1>1, <1>2, <1>4, <1>6, <2>2
    <3> QED
      BY <3>2, <3>3
  <2> QED
    BY <2>1, <2>2
<1> QED
  BY <1>5, <1>6 DEF Chain, T

----------------------------------------------------------------------------
(* The heap only grows.                                                    *)

Grows(ns, ns2) ==
  /\ ns \in Seq(Node) /\ ns2 \in Seq(Node)
  /\ Len(ns) <= Len(ns2)
  /\ \A p \in 1..Len(ns) : ns2[p] = ns[p]

LEMMA GrowsSame ==
  ASSUME NEW ns \in Seq(Node)
  PROVE  Grows(ns, ns)
BY DEF Grows

LEMMA GrowsAppend ==
  ASSUME NEW ns \in Seq(Node), NEW n \in Node
  PROVE  /\ Grows(ns, Append(ns, n))
         /\ Len(Append(ns, n)) = Len(ns) + 1
         /\ Append(ns, n)[Len(ns) + 1] = n
<1>1. /\ Append(ns, n) \in Seq(Node) /\ Len(Append(ns, n)) = Len(ns) + 1
      /\ \A i \in 1..Len(ns) : Append(ns, n)[i] = ns[i]
      /\ Append(ns, n)[Len(ns) + 1] = n
  BY AppendProperties
<1> QED
  BY <1>1 DEF Grows

(* What an activation or a node knows stays true of a larger heap.         *)
LEMMA FrameGrows ==
  ASSUME NEW ts, NEW ns, NEW ns2, Grows(ns, ns2),
         NEW f \in Frame, FrameFine(f, ts, ns)
  PROVE  FrameFine(f, ts, ns2)
<1>1. ASSUME NEW i \in 1..Len(f.own)
      PROVE  f.own[i] \in 1..Len(ns) /\ f.own[i] \in 1..Len(ns2) /\ ns2[f.own[i]] = ns[f.own[i]]
  <2>1. f.own[i] \in 1..Len(ns)
    BY <1>1 DEF FrameFine
  <2>2. Len(ns) \in Nat /\ Len(ns2) \in Nat /\ Len(ns) <= Len(ns2)
    BY DEF Grows
  <2> QED
    BY <2>1, <2>2 DEF Grows
<1>2. f.at \in {"assignment", "assignment.expression"} =>
        \A i \in 1..Len(f.own) : ns2[f.own[i]].kind = "Identifier"
  BY <1>1 DEF FrameFine
<1> QED
  BY <1>1, <1>2 DEF FrameFine

LEMMA ConstantGrows ==
  ASSUME NEW ts, NEW ns, NEW ns2, Grows(ns, ns2), NEW p \in 1..Len(ns)
  PROVE  Constant(p, ts, ns2) <=> Constant(p, ts, ns)
BY DEF Grows, Constant

LEMMA NodeGrows ==
  ASSUME NEW ts, NEW ns, NEW ns2, Grows(ns, ns2),
         NEW n \in Node, NodeFine(n, ts, ns)
  PROVE  NodeFine(n, ts, ns2)
<1>1. Len(ns) \in Nat /\ Len(ns2) \in Nat /\ Len(ns) <= Len(ns2)
  BY DEF Grows
<1>2. \A k \in 1..Len(n.kids) : n.kids[k] \in 0..Len(ns)
  BY DEF NodeFine
<1>3. \A k \in 1..Len(n.kids) : n.kids[k] \in 0..Len(ns2)
  BY <1>1, <1>2
<1>4. \A k \in 1..Len(n.kids) : n.kids[k] # Null =>
        /\ ns2[n.kids[k]] = ns[n.kids[k]]
        /\ Constant(n.kids[k], ts, ns2) <=> Constant(n.kids[k], ts, ns)
  <2> SUFFICES ASSUME NEW k \in 1..Len(n.kids), n.kids[k] # Null
               PROVE  /\ ns2[n.kids[k]] = ns[n.kids[k]]
                      /\ Constant(n.kids[k], ts, ns2) <=> Constant(n.kids[k], ts, ns)
    OBVIOUS
  <2>1. n.kids[k] \in 1..Len(ns)
    BY <1>1, <1>2 DEF Null
  <2> QED
    BY <2>1, ConstantGrows DEF Grows
<1>5. n.kids \in Seq(Nat) /\ Len(n.kids) \in Nat
  BY DEF Node
<1>6. n.kind = "BinaryExpression" =>
        /\ Len(n.kids) = 2
        /\ ts[n.token] \in DOMAIN InfixPower
        /\ n.kids[1] # Null /\ n.kids[2] # Null
        /\ ts[n.token] \notin Logical =>
             Constant(n.kids[1], ts, ns2) /\ Constant(n.kids[2], ts, ns2)
  <2> SUFFICES ASSUME n.kind = "BinaryExpression"
               PROVE  /\ Len(n.kids) = 2
                      /\ ts[n.token] \in DOMAIN InfixPower
                      /\ n.kids[1] # Null /\ n.kids[2] # Null
                      /\ ts[n.token] \notin Logical =>
                           Constant(n.kids[1], ts, ns2) /\ Constant(n.kids[2], ts, ns2)
    OBVIOUS
  <2>1. /\ Len(n.kids) = 2
        /\ ts[n.token] \in DOMAIN InfixPower
        /\ n.kids[1] # Null /\ n.kids[2] # Null
        /\ ts[n.token] \notin Logical =>
             Constant(n.kids[1], ts, ns) /\ Constant(n.kids[2], ts, ns)
    BY DEF NodeFine
  <2>2. 1 \in 1..Len(n.kids) /\ 2 \in 1..Len(n.kids)
    BY <2>1
  <2> QED
    BY <2>1, <2>2, <1>4
<1>7. n.kind = "UnaryExpression" =>
        /\ Len(n.kids) = 1
        /\ ts[n.token] \in DOMAIN PrefixPower
        /\ n.kids[1] # Null
        /\ ts[n.token] = "MINUS" => Constant(n.kids[1], ts, ns2)
  <2> SUFFICES ASSUME n.kind = "UnaryExpression"
               PROVE  /\ Len(n.kids) = 1
                      /\ ts[n.token] \in DOMAIN PrefixPower
                      /\ n.kids[1] # Null
                      /\ ts[n.token] = "MINUS" => Constant(n.kids[1], ts, ns2)
    OBVIOUS
  <2>1. /\ Len(n.kids) = 1
        /\ ts[n.token] \in DOMAIN PrefixPower
        /\ n.kids[1] # Null
        /\ ts[n.token] = "MINUS" => Constant(n.kids[1], ts, ns)
    BY DEF NodeFine
  <2>2. 1 \in 1..Len(n.kids)
    BY <2>1
  <2> QED
    BY <2>1, <2>2, <1>4
<1>8. n.kind = "AssignmentStatement" =>
        \A k \in 1..(Len(n.kids) - 1) :
          n.kids[k] # Null /\ ns2[n.kids[k]].kind = "Identifier"
  <2> SUFFICES ASSUME n.kind = "AssignmentStatement", NEW k \in 1..(Len(n.kids) - 1)
               PROVE  n.kids[k] # Null /\ ns2[n.kids[k]].kind = "Identifier"
    OBVIOUS
  <2>1. n.kids[k] # Null /\ ns[n.kids[k]].kind = "Identifier"
    BY DEF NodeFine
  <2>2. k \in 1..Len(n.kids)
    BY <1>5
  <2> QED
    BY <2>1, <2>2, <1>4
<1> QED
  BY <1>3, <1>6, <1>7, <1>8 DEF NodeFine

LEMMA HeapAppend ==
  ASSUME NEW ts, NEW ns \in Seq(Node), NEW n \in Node,
         HeapFine(ts, ns), NodeFine(n, ts, ns)
  PROVE  HeapFine(ts, Append(ns, n))
<1> DEFINE ns2 == Append(ns, n)
<1>1. Grows(ns, ns2) /\ Len(ns2) = Len(ns) + 1 /\ ns2[Len(ns) + 1] = n
  BY GrowsAppend
<1> HIDE DEF ns2
<1>2. ASSUME NEW p \in 1..Len(ns2)
      PROVE  NodeFine(ns2[p], ts, ns2)
  <2>1. CASE p \in 1..Len(ns)
    <3>1. ns[p] \in Node /\ NodeFine(ns[p], ts, ns) /\ ns2[p] = ns[p]
      BY <1>1, <2>1 DEF HeapFine, Grows
    <3> QED
      BY <3>1, <1>1, NodeGrows
  <2>2. CASE p = Len(ns) + 1
    BY <2>2, <1>1, NodeGrows
  <2> QED
    BY <2>1, <2>2, <1>1
<1> QED
  BY <1>2 DEF HeapFine, ns2

----------------------------------------------------------------------------
(* The stack after a step, as one lemma per way to change it.              *)

LEMMA StackReturn ==
  ASSUME NEW ts, NEW ns, NEW ns2, Grows(ns, ns2),
         NEW S \in Seq(Frame), S # <<>>, StackFine(S, ts, ns)
  PROVE  StackFine(Tail(S), ts, ns2)
<1> DEFINE T == Tail(S)
<1>1. /\ T \in Seq(Frame) /\ Len(T) = Len(S) - 1 /\ Len(S) \in Nat
      /\ \A k \in 1..Len(T) : T[k] = S[k + 1]
  BY HeadTailProperties
<1>2. Chain(T)
  BY ChainReturn DEF StackFine
<1> HIDE DEF T
<1>3. ASSUME NEW k \in 1..Len(T)
      PROVE  FrameFine(T[k], ts, ns2)
  <2>1. T[k] = S[k + 1] /\ k + 1 \in 1..Len(S) /\ S[k + 1] \in Frame
    BY <1>1, <1>3
  <2>2. FrameFine(S[k + 1], ts, ns)
    BY <2>1 DEF StackFine, FramesFine
  <2> QED
    BY <2>1, <2>2, FrameGrows
<1> QED
  BY <1>1, <1>2, <1>3 DEF StackFine, FramesFine, T

LEMMA StackGoOn ==
  ASSUME NEW ts, NEW ns, NEW ns2, Grows(ns, ns2),
         NEW S \in Seq(Frame), S # <<>>, StackFine(S, ts, ns),
         NEW f \in Frame, SameFunction(Head(S).at, f.at), FrameFine(f, ts, ns2)
  PROVE  StackFine(<<f>> \o Tail(S), ts, ns2)
<1> DEFINE T == <<f>> \o Tail(S)
<1>1. /\ T \in Seq(Frame) /\ Len(T) = Len(S) /\ T[1] = f
      /\ \A k \in 2..Len(S) : T[k] = S[k]
      /\ Len(S) \in Nat /\ Len(S) > 0
  BY ReplaceTop
<1>2. Chain(T)
  <2>1. Head(S) = S[1]
    OBVIOUS
  <2> QED
    BY <2>1, ChainGoOn DEF StackFine
<1> HIDE DEF T
<1>3. ASSUME NEW k \in 1..Len(T)
      PROVE  FrameFine(T[k], ts, ns2)
  <2>1. CASE k = 1
    BY <1>1, <2>1
  <2>2. CASE k > 1
    <3>1. T[k] = S[k] /\ k \in 1..Len(S) /\ S[k] \in Frame
      BY <1>1, <1>3, <2>2
    <3>2. FrameFine(S[k], ts, ns)
      BY <3>1 DEF StackFine, FramesFine
    <3> QED
      BY <3>1, <3>2, FrameGrows
  <2> QED
    BY <2>1, <2>2
<1> QED
  BY <1>1, <1>2, <1>3 DEF StackFine, FramesFine, T

LEMMA StackCall ==
  ASSUME NEW ts, NEW ns, NEW S \in Seq(Frame), S # <<>>, StackFine(S, ts, ns),
         NEW f \in Frame, NEW c \in Frame,
         SameFunction(Head(S).at, f.at), MayCall(f.at, c.at),
         FrameFine(f, ts, ns), FrameFine(c, ts, ns)
  PROVE  StackFine(<<c, f>> \o Tail(S), ts, ns)
<1> DEFINE T == <<c, f>> \o Tail(S)
<1>1. /\ T \in Seq(Frame) /\ Len(T) = Len(S) + 1 /\ T[1] = c /\ T[2] = f
      /\ \A k \in 2..Len(S) : T[k + 1] = S[k]
      /\ Len(S) \in Nat /\ Len(S) > 0
  BY PushCallee
<1>2. Chain(T)
  <2>1. Head(S) = S[1]
    OBVIOUS
  <2> QED
    BY <2>1, ChainCall DEF StackFine
<1> HIDE DEF T
<1>3. ASSUME NEW k \in 1..Len(T)
      PROVE  FrameFine(T[k], ts, ns)
  <2>1. CASE k \in {1, 2}
    BY <1>1, <2>1
  <2>2. CASE k > 2
    <3>1. k - 1 \in 2..Len(S) /\ k - 1 \in 1..Len(S) /\ (k - 1) + 1 = k
      BY <1>1, <1>3, <2>2
    <3>2. T[k] = S[k - 1]
      BY <1>1, <3>1
    <3>3. FrameFine(S[k - 1], ts, ns)
      BY <3>1 DEF StackFine, FramesFine
    <3> QED
      BY <3>2, <3>3
  <2> QED
    BY <2>1, <2>2, <1>3
<1> QED
  BY <1>1, <1>2, <1>3 DEF StackFine, FramesFine, T

----------------------------------------------------------------------------
(* Where the token stream is after a step.                                 *)

LEMMA TopFacts ==
  ASSUME IInv, stack # <<>>
  PROVE  /\ Top \in Frame /\ Top = stack[1]
         /\ Top.at \in Places /\ Top.own \in Seq(Nat) /\ Top.token \in Nat
         /\ FrameFine(Top, toks, nodes)
         /\ stack \in Seq(Frame) /\ StackFine(stack, toks, nodes)
         /\ toks \in Seq(TokenTypes) /\ Len(toks) \in Nat /\ pos \in 0..Len(toks)
         /\ nodes \in Seq(Node) /\ Len(nodes) \in Nat
<1>1. stack \in Seq(Frame) /\ Len(stack) \in Nat /\ Len(stack) > 0
  BY DEF IInv, TypeOK
<1>2. Top = stack[1] /\ Top \in Frame
  BY <1>1 DEF Top
<1>3. Top.at \in Places /\ Top.own \in Seq(Nat) /\ Top.token \in Nat
  BY <1>2 DEF Frame
<1>4. FrameFine(Top, toks, nodes)
  BY <1>1, <1>2 DEF IInv, StackFine, FramesFine
<1> QED
  BY <1>1, <1>2, <1>3, <1>4 DEF IInv, TypeOK

Layout == {"NEWLINE", "DEDENT"}

(* Consuming a token that is no layout leaves the last NEWLINE ahead.      *)
LEMMA Consumes ==
  ASSUME IInv, stack # <<>>, Top.at \in InnerPlaces, pos' = pos + 1,
         Current \in TokenTypes \ Layout
  PROVE  /\ pos + 1 \in 1..Len(toks)
         /\ toks[pos + 1] = Current
         /\ EndsInLayout => pos + 1 < Len(toks)
<1>1. toks \in Seq(TokenTypes) /\ Len(toks) \in Nat /\ pos \in 0..Len(toks)
  BY TopFacts
<1>2. "empty optional" \notin TokenTypes
  BY DEF TokenTypes, SimpleStarts, Literals, Compound, InfixPower, Logical,
         Comparisons, Additive, Multiplicative
<1>3. pos + 1 \in 1..Len(toks) /\ toks[pos + 1] = Current
  BY <1>2 DEF Current, TypeAt
<1>4. ASSUME EndsInLayout
      PROVE  pos + 1 # Len(toks)
  <2>1. toks[Len(toks)] \in Layout
    BY <1>1, <1>3, <1>4 DEF EndsInLayout, Layout
  <2> QED
    BY <1>3, <2>1
<1> QED
  BY <1>1, <1>3, <1>4

LEMMA Stays ==
  ASSUME IInv, stack # <<>>, Top.at \in InnerPlaces
  PROVE  EndsInLayout => pos < Len(toks)
BY DEF IInv, LineAhead

(* Whoever is returned to is inside a line only if the running activation  *)
(* is, and is not the one of the line itself.                              *)
LEMMA ReturnsTo ==
  ASSUME IInv, stack # <<>>, Tail(stack) # <<>>
  PROVE  /\ Top.at \in InnerPlaces
         /\ Top.at \in DefinitionPlaces \cup StatementPlaces =>
              Head(Tail(stack)).at \notin InnerPlaces
<1>1. stack \in Seq(Frame) /\ Chain(stack) /\ Top = stack[1]
  BY TopFacts DEF StackFine
<1>2. /\ Head(Tail(stack)) = stack[2]
      /\ MayCall(stack[2].at, stack[1].at)
  BY <1>1, ChainReturn
<1>3. "program.definition" \notin InnerPlaces /\ "program.statement" \notin InnerPlaces
  BY DEF InnerPlaces, OuterPlaces
<1> QED
  BY <1>1, <1>2, <1>3 DEF MayCall

----------------------------------------------------------------------------
(* The invariant after a step, as one lemma per shape of a step.           *)

(* Nothing is reported.                                                    *)
Quiet == diags' = diags /\ undefined' = undefined /\ toks' = toks

LEMMA QuietKeeps ==
  ASSUME IInv, Quiet
  PROVE  LocationsExist' /\ (EndsInLayout' <=> EndsInLayout)
BY DEF Quiet, IInv, LocationsExist, EndsInLayout

(* A new activation in place of the running one, with one more node or     *)
(* none.                                                                   *)
LEMMA GoOnKeeps ==
  ASSUME IInv, stack # <<>>, Quiet, NEW f \in Frame,
         stack' = <<f>> \o Tail(stack), result' = result,
         Grows(nodes, nodes'), HeapFine(toks, nodes'),
         \A p \in 1..Len(nodes') : nodes'[p].kind # "Program",
         SameFunction(Top.at, f.at), FrameFine(f, toks, nodes'),
         pos' \in 0..Len(toks), Len(nodes') > 0 => pos' >= 1,
         EndsInLayout /\ f.at \in InnerPlaces => pos' < Len(toks)
  PROVE  IInv'
<1>1. StackFine(stack', toks', nodes')
  BY TopFacts, StackGoOn DEF Quiet, Top
<1>2. Head(stack') = f
  BY TopFacts, ReplaceTop
<1>3. stack' \in Seq(Frame) /\ nodes' \in Seq(Node) /\ result' \in 0..Len(nodes')
  BY <1>1, TopFacts DEF StackFine, Grows, IInv, TypeOK
<1>4. TypeOK'
  BY <1>3 DEF TypeOK, IInv, Quiet
<1>5. Progress'
  BY DEF Progress
<1>6. LineAhead'
  BY <1>2, QuietKeeps DEF LineAhead, Top, Quiet
<1> QED
  BY <1>1, <1>4, <1>5, <1>6, QuietKeeps DEF IInv, Quiet

LEMMA CallKeeps ==
  ASSUME IInv, stack # <<>>, Quiet, NEW f \in Frame, NEW c \in Frame,
         stack' = <<c, f>> \o Tail(stack), result' = result, nodes' = nodes,
         SameFunction(Top.at, f.at), MayCall(f.at, c.at),
         FrameFine(f, toks, nodes), FrameFine(c, toks, nodes),
         pos' \in {pos, pos + 1}, pos' <= Len(toks),
         EndsInLayout => pos' < Len(toks)
  PROVE  IInv'
<1>1. StackFine(stack', toks', nodes')
  BY TopFacts, StackCall DEF Quiet, Top
<1>2. stack' \in Seq(Frame)
  BY <1>1 DEF StackFine
<1>3. pos' \in 0..Len(toks) /\ pos' >= pos
  BY TopFacts
<1>4. TypeOK'
  BY <1>2, <1>3 DEF TypeOK, IInv, Quiet
<1>5. Progress'
  BY <1>3, TopFacts DEF Progress, IInv
<1>6. LineAhead'
  BY QuietKeeps DEF LineAhead, Quiet
<1> QED
  BY <1>1, <1>4, <1>5, <1>6, QuietKeeps DEF IInv, Quiet

(* A return, with one more node or none; what was consumed is no layout,   *)
(* unless the line ends.                                                   *)
LEMMA ReturnKeeps ==
  ASSUME IInv, stack # <<>>, stack' = Tail(stack), toks' = toks,
         Grows(nodes, nodes'), HeapFine(toks, nodes'), result' \in 0..Len(nodes'),
         stack' # <<>> => \A p \in 1..Len(nodes') : nodes'[p].kind # "Program",
         pos' \in 0..Len(toks), stack' # <<>> /\ Len(nodes') > 0 => pos' >= 1,
         \/ Top.at \in DefinitionPlaces \cup StatementPlaces
         \/ EndsInLayout /\ Top.at \in InnerPlaces => pos' < Len(toks),
         diags' \in Seq([id : DiagIDs, token : Nat]), undefined' \in BOOLEAN,
         LocationsExist'
  PROVE  IInv'
<1>1. StackFine(stack', toks', nodes')
  BY TopFacts, StackReturn
<1>2. stack' \in Seq(Frame) /\ nodes' \in Seq(Node)
  BY <1>1 DEF StackFine, Grows
<1>3. TypeOK'
  BY <1>2 DEF TypeOK, IInv
<1>4. Progress'
  BY DEF Progress
<1>5. LineAhead'
  <2>1. EndsInLayout' <=> EndsInLayout
    BY DEF EndsInLayout
  <2>2. stack' # <<>> /\ Head(stack').at \in InnerPlaces =>
          /\ Top.at \in InnerPlaces
          /\ Top.at \notin DefinitionPlaces \cup StatementPlaces
    BY ReturnsTo
  <2> QED
    BY <2>1, <2>2 DEF LineAhead, Top
<1> QED
  BY <1>1, <1>3, <1>4, <1>5 DEF IInv

LEMMA ReportKeeps ==
  ASSUME IInv, toks' = toks, NEW id \in DiagIDs, NEW t \in Nat, Report(id, t),
         undefined' \in BOOLEAN,
         EndsInLayout => t \in 1..Len(toks) /\ undefined' = undefined
  PROVE  diags' \in Seq([id : DiagIDs, token : Nat]) /\ LocationsExist'
<1> DEFINE d == [id |-> id, token |-> t]
<1>1. d \in [id : DiagIDs, token : Nat] /\ diags \in Seq([id : DiagIDs, token : Nat])
  BY DEF IInv, TypeOK
<1>2. /\ diags' \in Seq([id : DiagIDs, token : Nat])
      /\ Len(diags') = Len(diags) + 1
      /\ \A i \in 1..Len(diags) : diags'[i] = diags[i]
      /\ diags'[Len(diags) + 1] = d
  BY <1>1, AppendProperties DEF Report
<1>3. d.token = t
  OBVIOUS
<1> HIDE DEF d
<1>4. ASSUME EndsInLayout, NEW i \in 1..Len(diags')
      PROVE  diags'[i].token \in 1..Len(toks)
  <2>1. CASE i \in 1..Len(diags)
    BY <1>2, <1>4, <2>1 DEF IInv, LocationsExist
  <2>2. CASE i = Len(diags) + 1
    BY <1>2, <1>3, <1>4, <2>2
  <2> QED
    BY <1>1, <1>2, <1>4, <2>1, <2>2
<1>5. EndsInLayout' <=> EndsInLayout
  BY DEF EndsInLayout
<1>6. EndsInLayout => ~undefined'
  BY DEF IInv, LocationsExist
<1> QED
  BY <1>2, <1>4, <1>5, <1>6 DEF LocationsExist

LEMMA FailKeeps ==
  ASSUME IInv, stack # <<>>, toks' = toks,
         NEW id \in DiagIDs, NEW t \in 1..Len(toks), Fail(id, t)
  PROVE  IInv'
<1>1. Report(id, t) /\ Return(Null) /\ UNCHANGED <<pos, nodes, undefined>>
  BY DEF Fail
<1>2. t \in Nat /\ undefined' \in BOOLEAN
  BY <1>1, TopFacts DEF IInv, TypeOK
<1>3. diags' \in Seq([id : DiagIDs, token : Nat]) /\ LocationsExist'
  BY <1>1, <1>2, ReportKeeps
<1>4. Grows(nodes, nodes') /\ HeapFine(toks, nodes') /\ Null \in 0..Len(nodes')
  BY <1>1, TopFacts, GrowsSame DEF IInv, Null
<1>5. EndsInLayout /\ Top.at \in InnerPlaces => pos' < Len(toks)
  BY <1>1, Stays
<1>6. /\ \A p \in 1..Len(nodes') : nodes'[p].kind # "Program"
      /\ Len(nodes') > 0 => pos' >= 1
      /\ pos' \in 0..Len(toks)
  BY <1>1, TopFacts DEF IInv, Progress
<1> QED
  BY <1>1, <1>2, <1>3, <1>4, <1>5, <1>6, ReturnKeeps DEF Return

LEMMA FailExpectedKeeps ==
  ASSUME IInv, stack # <<>>, toks' = toks, Top.at \in InnerPlaces, FailExpected
  PROVE  IInv'
<1> DEFINE t == IF AtEnd THEN NoToken ELSE pos + 1
<1>1. Report("ExpectedToken", t) /\ Return(Null) /\ UNCHANGED <<pos, nodes>>
  BY DEF FailExpected
<1>2. undefined' \in BOOLEAN
  BY DEF FailExpected, IInv, TypeOK
<1>3. t \in Nat /\ (EndsInLayout => t \in 1..Len(toks) /\ ~AtEnd)
  BY TopFacts, Stays DEF NoToken, AtEnd
<1>4. EndsInLayout => undefined' = undefined
  <2>1. undefined \in BOOLEAN
    BY DEF IInv, TypeOK
  <2> QED
    BY <1>3, <2>1 DEF FailExpected
<1> HIDE DEF t
<1>5. diags' \in Seq([id : DiagIDs, token : Nat]) /\ LocationsExist'
  BY <1>1, <1>2, <1>3, <1>4, ReportKeeps DEF DiagIDs
<1>6. Grows(nodes, nodes') /\ HeapFine(toks, nodes') /\ Null \in 0..Len(nodes')
  BY <1>1, TopFacts, GrowsSame DEF IInv, Null
<1>7. EndsInLayout /\ Top.at \in InnerPlaces => pos' < Len(toks)
  BY <1>1, Stays
<1>8. /\ \A p \in 1..Len(nodes') : nodes'[p].kind # "Program"
      /\ Len(nodes') > 0 => pos' >= 1
      /\ pos' \in 0..Len(toks)
  BY <1>1, TopFacts DEF IInv, Progress
<1> QED
  BY <1>1, <1>2, <1>5, <1>6, <1>7, <1>8, ReturnKeeps DEF Return

(* A return that reports nothing and leaves the heap alone.                *)
LEMMA PlainReturnKeeps ==
  ASSUME IInv, stack # <<>>, Quiet, nodes' = nodes, stack' = Tail(stack),
         result' \in 0..Len(nodes),
         \/ pos' = pos
         \/ /\ Top.at \in DefinitionPlaces \cup StatementPlaces
            /\ pos' = pos + 1 /\ pos + 1 <= Len(toks)
  PROVE  IInv'
<1>1. /\ Grows(nodes, nodes') /\ HeapFine(toks, nodes')
      /\ pos' \in 0..Len(toks) /\ pos' >= pos
  BY TopFacts, GrowsSame DEF IInv
<1>2. \/ Top.at \in DefinitionPlaces \cup StatementPlaces
      \/ EndsInLayout /\ Top.at \in InnerPlaces => pos' < Len(toks)
  BY Stays
<1>3. diags' \in Seq([id : DiagIDs, token : Nat]) /\ undefined' \in BOOLEAN
  BY DEF IInv, TypeOK, Quiet
<1>4. /\ \A p \in 1..Len(nodes') : nodes'[p].kind # "Program"
      /\ Len(nodes') > 0 => pos' >= 1
  BY <1>1, TopFacts DEF IInv, Progress
<1> QED
  BY <1>1, <1>2, <1>3, <1>4, QuietKeeps, ReturnKeeps DEF Quiet

LEMMA FailSilentlyKeeps ==
  ASSUME IInv, stack # <<>>, toks' = toks, FailSilently
  PROVE  IInv'
<1>1. Quiet /\ nodes' = nodes /\ stack' = Tail(stack) /\ result' = Null /\ pos' = pos
  BY DEF FailSilently, Return, Quiet
<1>2. Null \in 0..Len(nodes)
  BY TopFacts DEF Null
<1> QED
  BY <1>1, <1>2, PlainReturnKeeps

(* A new node, and the heap after it.                                      *)
LEMMA NewNode ==
  ASSUME IInv, stack # <<>>, NEW n \in Node, NodeFine(n, toks, nodes),
         n.kind # "Program", nodes' = Append(nodes, n)
  PROVE  /\ Grows(nodes, nodes') /\ HeapFine(toks, nodes')
         /\ Len(nodes') = Len(nodes) + 1 /\ NewPtr \in 1..Len(nodes')
         /\ nodes'[NewPtr] = n
         /\ \A p \in 1..Len(nodes') : nodes'[p].kind # "Program"
<1>1. nodes \in Seq(Node) /\ Len(nodes) \in Nat
  BY TopFacts
<1>2. /\ Grows(nodes, nodes') /\ Len(nodes') = Len(nodes) + 1
      /\ nodes'[Len(nodes) + 1] = n
  BY <1>1, GrowsAppend
<1>3. HeapFine(toks, nodes')
  BY <1>1, HeapAppend DEF IInv
<1>4. ASSUME NEW p \in 1..Len(nodes')
      PROVE  nodes'[p].kind # "Program"
  <2>1. CASE p \in 1..Len(nodes)
    BY <1>2, <2>1 DEF IInv, Progress, Grows
  <2>2. CASE p = Len(nodes) + 1
    BY <1>2, <2>2
  <2> QED
    BY <1>1, <1>2, <1>4, <2>1, <2>2
<1> QED
  BY <1>1, <1>2, <1>3, <1>4 DEF NewPtr

LEMMA NewReturnKeeps ==
  ASSUME IInv, stack # <<>>, Quiet, NEW n \in Node, NodeFine(n, toks, nodes),
         n.kind # "Program", nodes' = Append(nodes, n), Return(NewPtr),
         pos' \in 1..Len(toks),
         \/ Top.at \in DefinitionPlaces
         \/ EndsInLayout => pos' < Len(toks)
  PROVE  IInv'
<1>1. /\ Grows(nodes, nodes') /\ HeapFine(toks, nodes')
      /\ NewPtr \in 1..Len(nodes')
      /\ \A p \in 1..Len(nodes') : nodes'[p].kind # "Program"
  BY NewNode
<1>2. diags' \in Seq([id : DiagIDs, token : Nat]) /\ undefined' \in BOOLEAN
  BY DEF IInv, TypeOK, Quiet
<1>3. result' \in 0..Len(nodes') /\ stack' = Tail(stack) /\ toks' = toks
  BY <1>1 DEF Return, Quiet
<1>4. pos' \in 0..Len(toks) /\ pos' >= 1
  OBVIOUS
<1> QED
  BY <1>1, <1>2, <1>3, <1>4, QuietKeeps, ReturnKeeps

----------------------------------------------------------------------------
(* The calls and moves of the parse functions.                             *)

LEMMA Calls ==
  /\ MayCall("program.definition", "definition")
  /\ MayCall("program.statement", "statement")
  /\ MayCall("definition.variable", "typedVariable")
  /\ MayCall("definition.literal", "literal")
  /\ MayCall("typedVariable.type", "type")
  /\ MayCall("type.bracket", "type")
  /\ MayCall("statement.simple", "assignment")
  /\ MayCall("assignment.expression", "expression")
  /\ MayCall("expression.prefix", "prefix")
  /\ MayCall("expression.operand", "expression")
  /\ MayCall("prefix.group", "expression")
  /\ MayCall("prefix.unary", "expression")
BY DEF MayCall, Places, Propagating, InnerPlaces, OuterPlaces, DefinitionPlaces,
       StatementPlaces

LEMMA Moves ==
  /\ \A a, b \in OuterPlaces : SameFunction(a, b)
  /\ \A a, b \in DefinitionPlaces : SameFunction(a, b)
  /\ \A a, b \in StatementPlaces : SameFunction(a, b)
  /\ \A a, b \in InnerPlaces \ (DefinitionPlaces \cup StatementPlaces) : SameFunction(a, b)
<1>1. DefinitionPlaces \cap StatementPlaces = {} /\ InnerPlaces \cap OuterPlaces = {}
  BY DEF DefinitionPlaces, StatementPlaces, InnerPlaces
<1>2. DefinitionPlaces \subseteq Places /\ StatementPlaces \subseteq Places
  BY PlacesAreStrings
<1>3. DefinitionPlaces \cap OuterPlaces = {} /\ StatementPlaces \cap OuterPlaces = {}
  BY <1>1, PlacesAreStrings
<1> QED
  BY <1>1, <1>2, <1>3, PlacesAreStrings DEF SameFunction

Deep == InnerPlaces \ (DefinitionPlaces \cup StatementPlaces)

LEMMA DeepPlaces ==
  Deep = {"typedVariable", "typedVariable.colon", "typedVariable.type", "type",
          "type.bracket", "literal", "assignment", "assignment.expression",
          "expression", "expression.prefix", "expression.operator",
          "expression.operand", "prefix", "prefix.group", "prefix.unary"}
BY DEF Deep, InnerPlaces, Places, Propagating, OuterPlaces, DefinitionPlaces,
       StatementPlaces

LEMMA EnterFine ==
  ASSUME NEW at \in Places, NEW min \in Nat, NEW token \in Nat, NEW ts, NEW ns,
         at \notin OwnsOne, at \notin {"expression.operand", "prefix.unary"},
         at \in HasToken => token \in 1..Len(ts)
  PROVE  /\ Enter(at, min, token) \in Frame
         /\ Enter(at, min, token).at = at
         /\ FrameFine(Enter(at, min, token), ts, ns)
<1>1. <<>> \in Seq(Nat) /\ Len(<<>>) = 0
  OBVIOUS
<1>2. Enter(at, min, token) \in Frame
  BY DEF Enter, Frame
<1>3. /\ Enter(at, min, token).at = at
      /\ Enter(at, min, token).own = <<>>
      /\ Enter(at, min, token).token = token
  BY DEF Enter
<1> QED
  BY <1>1, <1>2, <1>3 DEF FrameFine

(* An activation that goes on at another place, with what it knew.         *)
LEMMA MoveFine ==
  ASSUME NEW f \in Frame, NEW ts, NEW ns, FrameFine(f, ts, ns), NEW at \in Places,
         at \in OwnsOne => f.at \in OwnsOne,
         at \in HasToken => f.at \in HasToken,
         at = "expression.operand" => f.at = "expression.operand",
         at = "prefix.unary" => f.at = "prefix.unary",
         at \in {"assignment", "assignment.expression"} =>
           f.at \in {"assignment", "assignment.expression"}
  PROVE  /\ [f EXCEPT !.at = at] \in Frame
         /\ [f EXCEPT !.at = at].at = at
         /\ FrameFine([f EXCEPT !.at = at], ts, ns)
<1>1. /\ [f EXCEPT !.at = at] \in Frame
      /\ [f EXCEPT !.at = at].at = at
      /\ [f EXCEPT !.at = at].own = f.own
      /\ [f EXCEPT !.at = at].token = f.token
  BY DEF Frame
<1> QED
  BY <1>1 DEF FrameFine

(* An activation that has consumed a token: g is what f goes on as.        *)
LEMMA TokenFine ==
  ASSUME NEW f \in Frame, NEW ts, NEW ns, FrameFine(f, ts, ns),
         NEW g \in Frame, g.own = f.own, g.token \in 1..Len(ts),
         g.at \in OwnsOne => f.at \in OwnsOne,
         g.at = "expression.operand" => ts[g.token] \in DOMAIN InfixPower,
         g.at = "prefix.unary" => ts[g.token] \in DOMAIN PrefixPower,
         g.at \notin {"assignment", "assignment.expression"}
  PROVE  FrameFine(g, ts, ns)
<1>1. \A i \in 1..Len(g.own) : g.own[i] \in 1..Len(ns)
  BY DEF FrameFine
<1>2. g.at \in OwnsOne => Len(g.own) = 1
  BY DEF FrameFine
<1> QED
  BY <1>1, <1>2 DEF FrameFine

(* An activation that owns one pointer.                                    *)
LEMMA OwnFine ==
  ASSUME NEW g \in Frame, NEW ts, NEW ns, NEW p \in 1..Len(ns), Len(ns) \in Nat,
         g.own = <<p>>, g.at \in HasToken => g.token \in 1..Len(ts),
         g.at \notin {"expression.operand", "prefix.unary", "assignment",
                      "assignment.expression"}
  PROVE  FrameFine(g, ts, ns)
<1>1. Len(g.own) = 1 /\ g.own[1] \in 1..Len(ns)
  OBVIOUS
<1>2. \A i \in 1..Len(g.own) : g.own[i] \in 1..Len(ns)
  OBVIOUS
<1> QED
  BY <1>1, <1>2 DEF FrameFine

LEMMA TokenClasses ==
  /\ Literals \cup {"ID", "IDSTRING", "OPENBRACK", "CLOSEBRACK", "OPENPAREN",
                    "CLOSEPAREN", "ASSIGN", "COLON"} \subseteq TokenTypes \ Layout
  /\ DOMAIN InfixPower \subseteq TokenTypes \ Layout
  /\ DOMAIN PrefixPower \subseteq TokenTypes \ Layout
  /\ "empty optional" \notin TokenTypes
<1>1. DOMAIN InfixPower = Logical \cup Comparisons \cup Additive \cup Multiplicative
  BY DEF InfixPower
<1>2. DOMAIN PrefixPower = {"NOT", "MINUS"}
  BY DEF PrefixPower
<1> QED
  BY <1>1, <1>2 DEF TokenTypes, SimpleStarts, Literals, Compound, Layout, Logical,
     Comparisons, Additive, Multiplicative

LEMMA InRange ==
  ASSUME IInv, stack # <<>>
  PROVE  /\ Current # "empty optional" =>
              pos + 1 \in 1..Len(toks) /\ toks[pos + 1] = Current
         /\ Next1 # "empty optional" =>
              pos + 2 \in 1..Len(toks) /\ toks[pos + 2] = Next1
BY TopFacts DEF Current, Next1, TypeAt

----------------------------------------------------------------------------
(* parseProgram                                                            *)

LEMMA ProgramStep ==
  ASSUME IInv, Program
  PROVE  IInv'
<1>1. stack # <<>> /\ Top.at = "program"
  BY DEF Program, At
<1>2. Quiet /\ pos' = pos /\ nodes' = nodes
  BY DEF Program, Quiet
<1>3. CASE StartsDefinition
  <2> DEFINE f == [Top EXCEPT !.at = "program.definition"]
             c == Enter("definition", 0, pos + 1)
  <2>1. stack' = <<c, f>> \o Tail(stack) /\ result' = result
    BY <1>3 DEF Program, Call, CallFrom
  <2>2. pos + 1 \in 1..Len(toks)
    BY <1>1, <1>3, InRange DEF StartsDefinition, Match
  <2>3. f \in Frame /\ f.at = "program.definition" /\ FrameFine(f, toks, nodes)
    BY <1>1, TopFacts, MoveFine DEF OwnsOne, HasToken, Places, Propagating
  <2>4. c \in Frame /\ c.at = "definition" /\ FrameFine(c, toks, nodes)
    <3>1. pos + 1 \in Nat /\ 0 \in Nat
      BY <2>2
    <3>2. "definition" \in Places /\ "definition" \notin OwnsOne
      BY DEF OwnsOne, Places
    <3> QED
      BY <2>2, <3>1, <3>2, EnterFine
  <2>5. SameFunction(Top.at, f.at) /\ MayCall(f.at, c.at)
    BY <1>1, <2>3, <2>4, Moves, Calls DEF OuterPlaces
  <2> HIDE DEF f, c
  <2>6. pos' \in {pos, pos + 1} /\ pos' <= Len(toks) /\ pos' < Len(toks)
    BY <1>1, <1>2, <2>2, TopFacts
  <2> QED
    BY <1>1, <1>2, <2>1, <2>3, <2>4, <2>5, <2>6, CallKeeps
<1>4. CASE ~StartsDefinition
  <2> DEFINE f == [Top EXCEPT !.at = "statements"]
  <2>1. stack' = <<f>> \o Tail(stack) /\ result' = result
    BY <1>4 DEF Program, GoOn
  <2>2. f \in Frame /\ f.at = "statements" /\ FrameFine(f, toks, nodes)
    BY <1>1, TopFacts, MoveFine DEF OwnsOne, HasToken, Places
  <2>3. SameFunction(Top.at, f.at) /\ f.at \notin InnerPlaces
    BY <1>1, <2>2, Moves DEF OuterPlaces, InnerPlaces
  <2> HIDE DEF f
  <2>4. /\ Grows(nodes, nodes') /\ HeapFine(toks, nodes')
        /\ \A p \in 1..Len(nodes') : nodes'[p].kind # "Program"
        /\ pos' \in 0..Len(toks) /\ (Len(nodes') > 0 => pos' >= 1)
    BY <1>1, <1>2, TopFacts, GrowsSame DEF IInv, Progress
  <2>5. FrameFine(f, toks, nodes')
    BY <1>2, <2>2
  <2> QED
    BY <1>1, <1>2, <2>1, <2>2, <2>3, <2>4, <2>5, GoOnKeeps
<1> QED
  BY <1>3, <1>4

LEMMA StatementsStep ==
  ASSUME IInv, Statements
  PROVE  IInv'
<1>1. stack # <<>> /\ Top.at = "statements"
  BY DEF Statements, At
<1>2. Quiet /\ pos' = pos
  BY DEF Statements, Quiet
<1>3. CASE ~AtEnd
  <2> DEFINE f == [Top EXCEPT !.at = "program.statement"]
             c == Enter("statement", 0, 0)
  <2>1. stack' = <<c, f>> \o Tail(stack) /\ result' = result /\ nodes' = nodes
    BY <1>3 DEF Statements, Call, CallFrom
  <2>2. pos < Len(toks)
    BY <1>1, <1>3, TopFacts DEF AtEnd
  <2>3. f \in Frame /\ f.at = "program.statement" /\ FrameFine(f, toks, nodes)
    BY <1>1, TopFacts, MoveFine DEF OwnsOne, HasToken, Places, Propagating
  <2>4. c \in Frame /\ c.at = "statement" /\ FrameFine(c, toks, nodes)
    BY EnterFine DEF OwnsOne, HasToken, Places
  <2>5. SameFunction(Top.at, f.at) /\ MayCall(f.at, c.at)
    BY <1>1, <2>3, <2>4, Moves, Calls DEF OuterPlaces
  <2> HIDE DEF f, c
  <2>6. pos' \in {pos, pos + 1} /\ pos' <= Len(toks) /\ pos' < Len(toks)
    BY <1>1, <1>2, <2>2, TopFacts
  <2> QED
    BY <1>1, <1>2, <2>1, <2>3, <2>4, <2>5, <2>6, CallKeeps
<1>4. CASE AtEnd
  <2> DEFINE n == [kind |-> "Program", token |-> NoToken, kids |-> Top.own,
                   dim |-> 0, from |-> 1, to |-> Len(toks)]
  <2>1. nodes' = Append(nodes, n) /\ stack' = Tail(stack) /\ result' = NewPtr
    BY <1>4 DEF Statements, New, Return
  <2>2. stack' = <<>>
    <3>1. Top.at \in OuterPlaces /\ Top = stack[1] /\ Chain(stack) /\ stack \in Seq(Frame)
      BY <1>1, TopFacts DEF OuterPlaces, StackFine
    <3> QED
      BY <1>1, <2>1, <3>1, ChainReturn
  <2>3. /\ n \in Node /\ n.kind = "Program" /\ n.kids = Top.own
    BY <1>1, TopFacts DEF Node, NodeKinds, NoToken
  <2>4. \A k \in 1..Len(n.kids) : n.kids[k] \in 0..Len(nodes)
    BY <1>1, <2>3, TopFacts DEF FrameFine
  <2> HIDE DEF n
  <2>5. NodeFine(n, toks, nodes)
    BY <2>3, <2>4 DEF NodeFine
  <2>6. Grows(nodes, nodes') /\ Len(nodes') = Len(nodes) + 1 /\ HeapFine(toks, nodes')
    BY <1>1, <2>1, <2>3, <2>5, TopFacts, GrowsAppend, HeapAppend DEF IInv
  <2>7. /\ result' \in 0..Len(nodes') /\ toks' = toks /\ pos' \in 0..Len(toks)
        /\ diags' \in Seq([id : DiagIDs, token : Nat]) /\ undefined' \in BOOLEAN
    BY <1>1, <1>2, <2>1, <2>6, TopFacts DEF NewPtr, Quiet, IInv, TypeOK
  <2>8. EndsInLayout /\ Top.at \in InnerPlaces => pos' < Len(toks)
    BY <1>1 DEF InnerPlaces, OuterPlaces
  <2> QED
    BY <1>1, <1>2, <2>1, <2>2, <2>6, <2>7, <2>8, QuietKeeps, ReturnKeeps
<1> QED
  BY <1>3, <1>4

LEMMA ProgramChildStep ==
  ASSUME IInv, ProgramChild
  PROVE  IInv'
<1>1. stack # <<>> /\ Top.at \in {"program.definition", "program.statement"} /\ result # Null
  BY DEF ProgramChild, At
<1>2. Quiet /\ pos' = pos /\ nodes' = nodes
  BY DEF ProgramChild, Quiet
<1> DEFINE f == [Top EXCEPT !.own = Append(@, result),
                            !.at = IF @ = "program.definition" THEN "program" ELSE "statements"]
<1>3. stack' = <<f>> \o Tail(stack) /\ result' = result
  BY DEF ProgramChild, GoOn
<1>4. result \in 1..Len(nodes) /\ result \in Nat
  BY <1>1, TopFacts DEF IInv, TypeOK, Null
<1>5. /\ Append(Top.own, result) \in Seq(Nat)
      /\ Len(Append(Top.own, result)) = Len(Top.own) + 1
      /\ \A i \in 1..Len(Top.own) : Append(Top.own, result)[i] = Top.own[i]
      /\ Append(Top.own, result)[Len(Top.own) + 1] = result
  BY <1>1, <1>4, TopFacts, AppendProperties
<1>6. f \in Frame /\ f.at \in {"program", "statements"} /\ f.own = Append(Top.own, result)
  BY <1>1, <1>5, TopFacts DEF Frame, Places
<1> HIDE DEF f
<1>7. FrameFine(f, toks, nodes)
  <2>1. ASSUME NEW i \in 1..Len(f.own)
        PROVE  f.own[i] \in 1..Len(nodes)
    <3>1. CASE i \in 1..Len(Top.own)
      BY <1>1, <1>5, <1>6, <3>1, TopFacts DEF FrameFine
    <3>2. CASE i = Len(Top.own) + 1
      BY <1>4, <1>5, <1>6, <3>2
    <3>3. Len(Top.own) \in Nat
      BY <1>1, TopFacts
    <3> QED
      BY <1>5, <1>6, <2>1, <3>1, <3>2, <3>3
  <2> QED
    BY <1>6, <2>1 DEF FrameFine, OwnsOne, HasToken
<1>8. SameFunction(Top.at, f.at) /\ f.at \notin InnerPlaces
  BY <1>1, <1>6, Moves DEF OuterPlaces, InnerPlaces
<1>9. /\ Grows(nodes, nodes') /\ HeapFine(toks, nodes')
      /\ \A p \in 1..Len(nodes') : nodes'[p].kind # "Program"
      /\ pos' \in 0..Len(toks) /\ (Len(nodes') > 0 => pos' >= 1)
      /\ FrameFine(f, toks, nodes')
  BY <1>1, <1>2, <1>7, TopFacts, GrowsSame DEF IInv, Progress
<1> QED
  BY <1>1, <1>2, <1>3, <1>6, <1>8, <1>9, GoOnKeeps

(* Consuming a token inside a line.                                        *)
LEMMA Eats ==
  ASSUME IInv, stack # <<>>, Top.at \in InnerPlaces,
         NEW types, types \subseteq TokenTypes \ Layout, Expect(types)
  PROVE  /\ pos' = pos + 1 /\ pos' \in 1..Len(toks) /\ pos' \in Nat
         /\ toks[pos + 1] \in types /\ toks[pos + 1] = Current
         /\ pos' \in {pos, pos + 1} /\ pos' <= Len(toks)
         /\ EndsInLayout => pos' < Len(toks)
<1>1. pos' = pos + 1 /\ Current \in types /\ Current \in TokenTypes \ Layout
  BY DEF Expect, Match, Advance
<1>2. /\ pos + 1 \in 1..Len(toks)
      /\ toks[pos + 1] = Current
      /\ EndsInLayout => pos + 1 < Len(toks)
  BY <1>1, Consumes
<1>3. Len(toks) \in Nat
  BY TopFacts
<1> QED
  BY <1>1, <1>2, <1>3

(* Consuming nothing inside a line.                                        *)
LEMMA Waits ==
  ASSUME IInv, stack # <<>>, Top.at \in InnerPlaces, pos' = pos
  PROVE  /\ pos' \in {pos, pos + 1} /\ pos' <= Len(toks) /\ pos' \in 0..Len(toks)
         /\ EndsInLayout => pos' < Len(toks)
         /\ Len(nodes) > 0 => pos' \in 1..Len(toks)
<1>1. Len(toks) \in Nat /\ pos \in 0..Len(toks) /\ Len(nodes) > 0 => pos >= 1
  BY TopFacts DEF IInv, Progress
<1> QED
  BY <1>1, TopFacts, Stays DEF IInv, Progress

(* What the last callee returned, and the heap it points into.             *)
LEMMA ResultFacts ==
  ASSUME IInv, result # Null
  PROVE  /\ result \in 1..Len(nodes) /\ result \in Nat
         /\ nodes[result] \in Node /\ NodeFine(nodes[result], toks, nodes)
         /\ Len(nodes) > 0
<1>1. result \in 0..Len(nodes) /\ nodes \in Seq(Node) /\ Len(nodes) \in Nat
  BY DEF IInv, TypeOK
<1>2. result \in 1..Len(nodes) /\ result \in Nat /\ Len(nodes) > 0
  BY <1>1 DEF Null
<1> QED
  BY <1>1, <1>2 DEF IInv, HeapFine

(* A leaf of the tree: a node without children, of one token.              *)
LEMMA LeafFine ==
  ASSUME IInv, stack # <<>>, NEW kind \in NodeKinds, NEW t \in 1..Len(toks),
         NEW dim \in Nat, NEW token \in Nat, NEW to \in Nat,
         kind \notin {"Program", "BinaryExpression", "UnaryExpression"},
         kind = "Identifier" => toks[token] = "ID",
         kind = "Literal" => toks[token] \in Literals
  PROVE  LET n == [kind |-> kind, token |-> token, kids |-> <<>>, dim |-> dim,
                   from |-> t, to |-> to]
         IN  n \in Node /\ NodeFine(n, toks, nodes) /\ n.kind = kind
<1> DEFINE n == [kind |-> kind, token |-> token, kids |-> <<>>, dim |-> dim,
                 from |-> t, to |-> to]
<1>1. Len(toks) \in Nat /\ t \in Nat /\ <<>> \in Seq(Nat) /\ Len(<<>>) = 0
  BY TopFacts
<1>2. n \in Node
  BY <1>1 DEF Node
<1>3. n.kind = kind /\ n.token = token /\ n.kids = <<>> /\ n.from = t
  OBVIOUS
<1> HIDE DEF n
<1>4. NodeFine(n, toks, nodes)
  BY <1>1, <1>3 DEF NodeFine
<1> QED
  BY <1>2, <1>3, <1>4 DEF n

----------------------------------------------------------------------------
(* parseVariableDefinition                                                 *)

LEMMA DefinitionStep ==
  ASSUME IInv, Definition
  PROVE  IInv'
<1> DEFINE f == [Top EXCEPT !.at = "definition.variable"]
           c == Enter("typedVariable", 0, 0)
<1>1. stack # <<>> /\ Top.at = "definition"
  BY DEF Definition, At
<1>2. /\ Quiet /\ pos' = pos /\ nodes' = nodes /\ result' = result
      /\ stack' = <<c, f>> \o Tail(stack)
  BY DEF Definition, Quiet, Call, CallFrom
<1>3. f \in Frame /\ f.at = "definition.variable" /\ FrameFine(f, toks, nodes)
  BY <1>1, TopFacts, MoveFine DEF OwnsOne, HasToken, Places, Propagating
<1>4. c \in Frame /\ c.at = "typedVariable" /\ FrameFine(c, toks, nodes)
  BY EnterFine DEF OwnsOne, HasToken, Places
<1>5. SameFunction(Top.at, f.at) /\ MayCall(f.at, c.at)
  BY <1>1, <1>3, <1>4, Moves, Calls DEF DefinitionPlaces
<1>6. Top.at \in InnerPlaces
  BY <1>1, PlacesAreStrings DEF DefinitionPlaces
<1> HIDE DEF f, c
<1> QED
  BY <1>1, <1>2, <1>3, <1>4, <1>5, <1>6, Waits, CallKeeps

LEMMA DefinitionAssignStep ==
  ASSUME IInv, DefinitionAssign
  PROVE  IInv'
<1>1. stack # <<>> /\ Top.at = "definition.variable" /\ result # Null /\ toks' = toks
  BY DEF DefinitionAssign, At
<1>2. Top.at \in InnerPlaces
  BY <1>1, PlacesAreStrings DEF DefinitionPlaces
<1>3. CASE Match({"ASSIGN"})
  <2> DEFINE own == <<result>>
             f == [Top EXCEPT !.at = "definition.literal", !.own = own]
             c == Enter("literal", 0, 0)
  <2>1. /\ Quiet /\ nodes' = nodes /\ result' = result
        /\ stack' = <<c, f>> \o Tail(stack) /\ Expect({"ASSIGN"})
    BY <1>3 DEF DefinitionAssign, Quiet, CallFrom, Expect
  <2>2. /\ Top \in Frame /\ Top.token \in 1..Len(toks)
        /\ result \in 1..Len(nodes) /\ result \in Nat /\ Len(nodes) \in Nat
    BY <1>1, TopFacts, ResultFacts DEF HasToken, FrameFine
  <2>3. own \in Seq(Nat) /\ own = <<result>> /\ "definition.literal" \in Places
    BY <2>2 DEF Places, Propagating
  <2> HIDE DEF own
  <2>4. f \in Frame /\ f.at = "definition.literal" /\ FrameFine(f, toks, nodes)
    <3>1. /\ f \in Frame /\ f.at = "definition.literal" /\ f.own = own
          /\ f.token = Top.token
      BY <2>2, <2>3 DEF Frame
    <3> HIDE DEF f
    <3> QED
      BY <2>2, <2>3, <3>1, OwnFine
  <2>5. c \in Frame /\ c.at = "literal" /\ FrameFine(c, toks, nodes)
    BY EnterFine DEF OwnsOne, HasToken, Places
  <2>6. SameFunction(Top.at, f.at) /\ MayCall(f.at, c.at)
    BY <1>1, <2>4, <2>5, Moves, Calls DEF DefinitionPlaces
  <2>7. {"ASSIGN"} \subseteq TokenTypes \ Layout
    BY TokenClasses
  <2> HIDE DEF f, c
  <2> QED
    BY <1>1, <1>2, <2>1, <2>4, <2>5, <2>6, <2>7, Eats, CallKeeps
<1>4. CASE ~Match({"ASSIGN"})
  BY <1>1, <1>2, <1>4, FailExpectedKeeps DEF DefinitionAssign, Expect
<1> QED
  BY <1>3, <1>4

(* Appending a pointer to a sequence of pointers.                          *)
LEMMA OneMore ==
  ASSUME NEW old \in Seq(Nat), NEW p \in Nat
  PROVE  /\ Append(old, p) \in Seq(Nat) /\ Len(Append(old, p)) = Len(old) + 1
         /\ Len(old) \in Nat
         /\ \A k \in 1..Len(old) : Append(old, p)[k] = old[k]
         /\ Append(old, p)[Len(old) + 1] = p
         /\ \A k \in 1..Len(Append(old, p)) : k \in 1..Len(old) \/ k = Len(old) + 1
BY AppendProperties

LEMMA DefinitionEndStep ==
  ASSUME IInv, DefinitionEnd
  PROVE  IInv'
<1>1. /\ stack # <<>> /\ Top.at = "definition.literal" /\ result # Null
      /\ toks' = toks
  BY DEF DefinitionEnd, At
<1>2. Top.at \in DefinitionPlaces /\ Top.at \in InnerPlaces
  BY <1>1, PlacesAreStrings DEF DefinitionPlaces
<1>3. /\ Top.own[1] \in 1..Len(nodes) /\ Top.token \in 1..Len(toks)
      /\ Len(nodes) \in Nat /\ Len(toks) \in Nat /\ nodes \in Seq(Node)
      /\ pos \in Nat
  BY <1>1, TopFacts DEF FrameFine, OwnsOne, HasToken
<1>4. result \in 1..Len(nodes) /\ result \in Nat /\ pos \in 1..Len(toks)
  BY <1>1, ResultFacts, TopFacts DEF IInv, Progress
<1>5. CASE Match({"NEWLINE"})
  <2> DEFINE v == nodes[Top.own[1]]
             kids == Append(v.kids, result)
             n == [kind |-> "VariableDefinition", token |-> NoToken, kids |-> kids,
                   dim |-> 0, from |-> Top.token, to |-> pos]
  <2>1. /\ Quiet /\ nodes' = Append(nodes, n) /\ Return(NewPtr)
        /\ pos' = pos + 1 /\ Current = "NEWLINE"
    BY <1>5 DEF DefinitionEnd, Quiet, New, EndsLine, Expect, Advance, Match
  <2>2. v \in Node /\ NodeFine(v, toks, nodes)
    BY <1>3 DEF IInv, HeapFine
  <2> HIDE DEF v
  <2>3. v.kids \in Seq(Nat) /\ \A k \in 1..Len(v.kids) : v.kids[k] \in 0..Len(nodes)
    BY <2>2 DEF Node, NodeFine
  <2>4. /\ kids \in Seq(Nat)
        /\ \A k \in 1..Len(kids) : kids[k] \in 0..Len(nodes)
    BY <1>3, <1>4, <2>3, OneMore
  <2> HIDE DEF kids
  <2>5. /\ n \in Node /\ n.kind = "VariableDefinition" /\ n.kids = kids
        /\ n.from = Top.token
    BY <1>3, <2>4 DEF Node, NodeKinds, NoToken
  <2> HIDE DEF n
  <2>6. NodeFine(n, toks, nodes)
    BY <1>3, <2>4, <2>5 DEF NodeFine
  <2>7. pos' \in 1..Len(toks)
    BY <1>1, <2>1, InRange
  <2> QED
    BY <1>1, <1>2, <2>1, <2>5, <2>6, <2>7, NewReturnKeeps
<1>6. CASE ~Match({"NEWLINE"})
  <2>1. Fail("ExpectedNewLine", pos)
    BY <1>6 DEF DefinitionEnd, EndsLine, Expect
  <2> QED
    BY <1>1, <1>4, <2>1, FailKeeps DEF DiagIDs
<1> QED
  BY <1>5, <1>6

----------------------------------------------------------------------------
(* parseTypedVariable                                                      *)

LEMMA TypedVariableStep ==
  ASSUME IInv, TypedVariable
  PROVE  IInv'
<1>1. stack # <<>> /\ Top.at = "typedVariable" /\ toks' = toks
  BY DEF TypedVariable, At
<1>2. Top.at \in Deep /\ Top.at \in InnerPlaces /\ "typedVariable.colon" \in Deep
  BY <1>1, DeepPlaces DEF Deep
<1>3. CASE Match({"ID"})
  <2> DEFINE n == [kind |-> "Identifier", token |-> pos + 1, kids |-> <<>>,
                   dim |-> 0, from |-> pos + 1, to |-> pos + 1]
             own == <<NewPtr>>
             f == [Top EXCEPT !.at = "typedVariable.colon", !.own = own]
  <2>1. /\ Quiet /\ nodes' = Append(nodes, n) /\ Expect({"ID"})
        /\ stack' = <<f>> \o Tail(stack) /\ result' = result
    BY <1>3 DEF TypedVariable, Quiet, New, GoOn, Expect
  <2>2. {"ID"} \subseteq TokenTypes \ Layout
    BY TokenClasses
  <2>3. /\ pos' = pos + 1 /\ pos' \in 1..Len(toks) /\ pos' \in Nat
        /\ toks[pos + 1] \in {"ID"} /\ (EndsInLayout => pos' < Len(toks))
    BY <1>1, <1>2, <2>1, <2>2, Eats
  <2>4. n \in Node /\ NodeFine(n, toks, nodes) /\ n.kind = "Identifier"
    BY <1>1, <2>3, LeafFine DEF NodeKinds
  <2> HIDE DEF n
  <2>5. /\ Grows(nodes, nodes') /\ HeapFine(toks, nodes')
        /\ NewPtr \in 1..Len(nodes') /\ Len(nodes') \in Nat /\ NewPtr \in Nat
        /\ \A p \in 1..Len(nodes') : nodes'[p].kind # "Program"
    BY <1>1, <2>1, <2>4, NewNode DEF Grows
  <2>6. own \in Seq(Nat) /\ own = <<NewPtr>> /\ "typedVariable.colon" \in Places
    BY <2>5 DEF Places
  <2> HIDE DEF own
  <2>7. f \in Frame /\ f.at = "typedVariable.colon" /\ FrameFine(f, toks, nodes')
    <3>1. Top \in Frame
      BY <1>1, TopFacts
    <3>2. f \in Frame /\ f.at = "typedVariable.colon" /\ f.own = own
      BY <2>6, <3>1 DEF Frame
    <3> HIDE DEF f
    <3> QED
      BY <2>5, <2>6, <3>2, OwnFine DEF HasToken
  <2>8. SameFunction(Top.at, f.at)
    BY <1>2, <2>7, Moves DEF Deep
  <2> HIDE DEF f
  <2>9. pos' \in 0..Len(toks) /\ (Len(nodes') > 0 => pos' >= 1)
    BY <2>3
  <2> QED
    BY <1>1, <2>1, <2>3, <2>5, <2>7, <2>8, <2>9, GoOnKeeps
<1>4. CASE ~Match({"ID"})
  BY <1>1, <1>2, <1>4, FailExpectedKeeps DEF TypedVariable
<1> QED
  BY <1>3, <1>4

LEMMA TypedVariableColonStep ==
  ASSUME IInv, TypedVariableColon
  PROVE  IInv'
<1>1. stack # <<>> /\ Top.at = "typedVariable.colon" /\ toks' = toks
  BY DEF TypedVariableColon, At
<1>2. Top.at \in Deep /\ Top.at \in InnerPlaces /\ "typedVariable.type" \in Deep
  BY <1>1, DeepPlaces DEF Deep
<1>3. CASE Match({"COLON"})
  <2> DEFINE f == [Top EXCEPT !.at = "typedVariable.type"]
             c == Enter("type", 0, 0)
  <2>1. /\ Quiet /\ nodes' = nodes /\ result' = result
        /\ stack' = <<c, f>> \o Tail(stack) /\ Expect({"COLON"})
    BY <1>3 DEF TypedVariableColon, Quiet, Call, CallFrom, Expect
  <2>2. f \in Frame /\ f.at = "typedVariable.type" /\ FrameFine(f, toks, nodes)
    BY <1>1, TopFacts, MoveFine DEF OwnsOne, HasToken, Places, Propagating
  <2>3. c \in Frame /\ c.at = "type" /\ FrameFine(c, toks, nodes)
    BY EnterFine DEF OwnsOne, HasToken, Places
  <2>4. SameFunction(Top.at, f.at) /\ MayCall(f.at, c.at)
    BY <1>2, <2>2, <2>3, Moves, Calls DEF Deep
  <2>5. {"COLON"} \subseteq TokenTypes \ Layout
    BY TokenClasses
  <2> HIDE DEF f, c
  <2> QED
    BY <1>1, <1>2, <2>1, <2>2, <2>3, <2>4, <2>5, Eats, CallKeeps
<1>4. CASE ~Match({"COLON"})
  BY <1>1, <1>2, <1>4, FailExpectedKeeps DEF TypedVariableColon
<1> QED
  BY <1>3, <1>4

LEMMA NodeFacts ==
  ASSUME IInv, stack # <<>>, NEW p \in 1..Len(nodes)
  PROVE  /\ nodes[p] \in Node /\ NodeFine(nodes[p], toks, nodes)
         /\ nodes[p].kind # "Program"
<1>1. HeapFine(toks, nodes) /\ Progress /\ nodes \in Seq(Node)
  BY DEF IInv, TypeOK
<1> QED
  BY <1>1 DEF HeapFine, Progress

LEMMA TypedVariableEndStep ==
  ASSUME IInv, TypedVariableEnd
  PROVE  IInv'
<1>1. stack # <<>> /\ Top.at = "typedVariable.type" /\ result # Null
  BY DEF TypedVariableEnd, At
<1>2. Top.at \in InnerPlaces
  BY <1>1, DeepPlaces DEF Deep
<1> DEFINE kids == <<Top.own[1], result>>
           n == [kind |-> "TypedVariable", token |-> NoToken, kids |-> kids,
                 dim |-> 0, from |-> nodes[Top.own[1]].from, to |-> pos]
<1>3. Quiet /\ nodes' = Append(nodes, n) /\ Return(NewPtr) /\ pos' = pos
  BY DEF TypedVariableEnd, Quiet, New
<1>4. /\ Top.own[1] \in 1..Len(nodes) /\ result \in 1..Len(nodes)
      /\ Len(nodes) \in Nat /\ Len(nodes) > 0 /\ pos \in Nat
  BY <1>1, TopFacts, ResultFacts DEF FrameFine, OwnsOne
<1>5. /\ nodes[Top.own[1]] \in Node /\ NodeFine(nodes[Top.own[1]], toks, nodes)
      /\ nodes[Top.own[1]].kind # "Program"
  BY <1>1, <1>4, NodeFacts
<1>6. /\ nodes[Top.own[1]].from \in Nat
      /\ nodes[Top.own[1]].from \in 1..Len(toks)
  BY <1>5 DEF Node, NodeFine
<1>7. /\ kids \in Seq(Nat)
      /\ \A k \in 1..Len(kids) : kids[k] \in 0..Len(nodes)
  BY <1>4
<1> HIDE DEF kids
<1>8. /\ n \in Node /\ n.kind = "TypedVariable" /\ n.kids = kids
      /\ n.from = nodes[Top.own[1]].from
  BY <1>4, <1>6, <1>7 DEF Node, NodeKinds, NoToken
<1> HIDE DEF n
<1>9. NodeFine(n, toks, nodes)
  BY <1>6, <1>7, <1>8 DEF NodeFine
<1> QED
  BY <1>1, <1>2, <1>3, <1>4, <1>8, <1>9, Waits, NewReturnKeeps

----------------------------------------------------------------------------
(* parseType and parseLiteral                                              *)

LEMMA TypeStep ==
  ASSUME IInv, Type
  PROVE  IInv'
<1>1. stack # <<>> /\ Top.at = "type" /\ toks' = toks
  BY DEF Type, At
<1>2. Top.at \in Deep /\ Top.at \in InnerPlaces /\ "type.bracket" \in Deep
  BY <1>1, DeepPlaces DEF Deep
<1>3. CASE Match({"ID", "IDSTRING"}) /\ ~Match({"OPENBRACK"})
  <2> DEFINE n == [kind |-> "Type", token |-> pos + 1, kids |-> <<>>,
                   dim |-> 0, from |-> pos + 1, to |-> pos + 1]
  <2>1. /\ Quiet /\ nodes' = Append(nodes, n) /\ Expect({"ID", "IDSTRING"})
        /\ Return(NewPtr)
    BY <1>3 DEF Type, Quiet, New, Expect, Match
  <2>2. {"ID", "IDSTRING"} \subseteq TokenTypes \ Layout
    BY TokenClasses
  <2>3. /\ pos' = pos + 1 /\ pos' \in 1..Len(toks) /\ pos' \in Nat
        /\ EndsInLayout => pos' < Len(toks)
    BY <1>1, <1>2, <2>1, <2>2, Eats
  <2>4. n \in Node /\ NodeFine(n, toks, nodes) /\ n.kind = "Type"
    BY <1>1, <2>3, LeafFine DEF NodeKinds
  <2> HIDE DEF n
  <2> QED
    BY <1>1, <2>1, <2>3, <2>4, NewReturnKeeps
<1>4. CASE Match({"OPENBRACK"})
  <2> DEFINE t == pos + 1
             f == [Top EXCEPT !.at = "type.bracket", !.token = t]
             c == Enter("type", 0, 0)
  <2>1. /\ Quiet /\ nodes' = nodes /\ result' = result
        /\ stack' = <<c, f>> \o Tail(stack) /\ Expect({"OPENBRACK"})
    BY <1>4 DEF Type, Quiet, CallFrom, Expect, Match
  <2>2. {"OPENBRACK"} \subseteq TokenTypes \ Layout
    BY TokenClasses
  <2>3. /\ t \in 1..Len(toks) /\ t \in Nat
        /\ pos' \in {pos, pos + 1} /\ pos' <= Len(toks)
        /\ EndsInLayout => pos' < Len(toks)
    BY <1>1, <1>2, <2>1, <2>2, Eats
  <2> HIDE DEF t
  <2>4. f \in Frame /\ f.at = "type.bracket" /\ FrameFine(f, toks, nodes)
    <3>1. Top \in Frame /\ FrameFine(Top, toks, nodes) /\ "type.bracket" \in Places
      BY <1>1, TopFacts DEF Places, Propagating
    <3>2. f \in Frame /\ f.at = "type.bracket" /\ f.own = Top.own /\ f.token = t
      BY <2>3, <3>1 DEF Frame
    <3> HIDE DEF f
    <3> QED
      BY <2>3, <3>1, <3>2, TokenFine DEF OwnsOne
  <2>5. c \in Frame /\ c.at = "type" /\ FrameFine(c, toks, nodes)
    BY EnterFine DEF OwnsOne, HasToken, Places
  <2>6. SameFunction(Top.at, f.at) /\ MayCall(f.at, c.at)
    BY <1>2, <2>4, <2>5, Moves, Calls DEF Deep
  <2> HIDE DEF f, c
  <2> QED
    BY <1>1, <2>1, <2>3, <2>4, <2>5, <2>6, CallKeeps
<1>5. CASE ~Match({"ID", "IDSTRING", "OPENBRACK"})
  <2>1. FailExpected
    BY <1>5 DEF Type, Expect, Match
  <2> QED
    BY <1>1, <1>2, <2>1, FailExpectedKeeps
<1> QED
  BY <1>3, <1>4, <1>5 DEF Match

LEMMA TypeBracketStep ==
  ASSUME IInv, TypeBracket
  PROVE  IInv'
<1>1. stack # <<>> /\ Top.at = "type.bracket" /\ result # Null /\ toks' = toks
  BY DEF TypeBracket, At
<1>2. Top.at \in InnerPlaces
  BY <1>1, DeepPlaces DEF Deep
<1>3. CASE Match({"CLOSEBRACK"})
  <2> DEFINE r == nodes[result]
             token == r.token
             dim == r.dim + 1
             n == [kind |-> "Type", token |-> token, kids |-> <<>>,
                   dim |-> dim, from |-> Top.token, to |-> pos + 1]
  <2>1. /\ Quiet /\ nodes' = Append(nodes, n) /\ Expect({"CLOSEBRACK"})
        /\ Return(NewPtr)
    BY <1>3 DEF TypeBracket, Quiet, New, Expect
  <2>2. {"CLOSEBRACK"} \subseteq TokenTypes \ Layout
    BY TokenClasses
  <2>3. /\ pos' = pos + 1 /\ pos' \in 1..Len(toks) /\ pos' \in Nat
        /\ EndsInLayout => pos' < Len(toks)
    BY <1>1, <1>2, <2>1, <2>2, Eats
  <2>4. r \in Node
    BY <1>1, ResultFacts
  <2> HIDE DEF r
  <2>5. token \in Nat /\ dim \in Nat
    BY <2>4 DEF Node
  <2>6. Top.token \in 1..Len(toks)
    BY <1>1, TopFacts DEF FrameFine, HasToken
  <2> HIDE DEF token, dim
  <2>7. n \in Node /\ NodeFine(n, toks, nodes) /\ n.kind = "Type"
    BY <1>1, <2>3, <2>5, <2>6, LeafFine DEF NodeKinds
  <2> HIDE DEF n
  <2> QED
    BY <1>1, <2>1, <2>3, <2>7, NewReturnKeeps
<1>4. CASE ~Match({"CLOSEBRACK"})
  <2>1. FailExpected
    BY <1>4 DEF TypeBracket, Expect
  <2> QED
    BY <1>1, <1>2, <2>1, FailExpectedKeeps
<1> QED
  BY <1>3, <1>4

LEMMA LiteralStep ==
  ASSUME IInv, Literal
  PROVE  IInv'
<1>1. stack # <<>> /\ Top.at = "literal" /\ toks' = toks
  BY DEF Literal, At
<1>2. Top.at \in InnerPlaces
  BY <1>1, DeepPlaces DEF Deep
<1>3. CASE Match(Literals)
  <2> DEFINE n == [kind |-> "Literal", token |-> pos + 1, kids |-> <<>>,
                   dim |-> 0, from |-> pos + 1, to |-> pos + 1]
  <2>1. /\ Quiet /\ nodes' = Append(nodes, n) /\ Expect(Literals) /\ Return(NewPtr)
    BY <1>3 DEF Literal, Quiet, New, Expect
  <2>2. Literals \subseteq TokenTypes \ Layout
    BY TokenClasses
  <2>3. /\ pos' = pos + 1 /\ pos' \in 1..Len(toks) /\ pos' \in Nat
        /\ toks[pos + 1] \in Literals /\ (EndsInLayout => pos' < Len(toks))
    BY <1>1, <1>2, <2>1, <2>2, Eats
  <2>4. n \in Node /\ NodeFine(n, toks, nodes) /\ n.kind = "Literal"
    BY <1>1, <2>3, LeafFine DEF NodeKinds
  <2> HIDE DEF n
  <2> QED
    BY <1>1, <2>1, <2>3, <2>4, NewReturnKeeps
<1>4. CASE ~Match(Literals)
  <2>1. FailExpected
    BY <1>4 DEF Literal, Expect
  <2> QED
    BY <1>1, <1>2, <2>1, FailExpectedKeeps
<1> QED
  BY <1>3, <1>4

----------------------------------------------------------------------------
(* parseStatement and parseSimpleStatement                                 *)

LEMMA StatementStep ==
  ASSUME IInv, Statement
  PROVE  IInv'
<1>1. stack # <<>> /\ Top.at = "statement" /\ toks' = toks
  BY DEF Statement, At
<1>2. Top.at \in InnerPlaces
  BY <1>1, PlacesAreStrings DEF StatementPlaces
<1>3. CASE Match(SimpleStarts) /\ Next1 = "ASSIGN" /\ ~FailExpected /\ ~FailSilently
  <2> DEFINE f == [Top EXCEPT !.at = "statement.simple"]
             c == Enter("assignment", 0, pos + 1)
  <2>1. /\ Quiet /\ nodes' = nodes /\ pos' = pos /\ result' = result
        /\ stack' = <<c, f>> \o Tail(stack)
    BY <1>3 DEF Statement, Quiet, Call, CallFrom
  <2>2. Current # "empty optional"
    BY <1>3, TokenClasses DEF Match, TokenTypes
  <2>3. pos + 1 \in 1..Len(toks)
    BY <1>1, <2>2, InRange
  <2>4. f \in Frame /\ f.at = "statement.simple" /\ FrameFine(f, toks, nodes)
    BY <1>1, TopFacts, MoveFine DEF OwnsOne, HasToken, Places, Propagating
  <2>5. c \in Frame /\ c.at = "assignment" /\ FrameFine(c, toks, nodes)
    <3>1. pos + 1 \in Nat /\ 0 \in Nat
      BY <2>3
    <3>2. "assignment" \in Places /\ "assignment" \notin OwnsOne
      BY DEF OwnsOne, Places
    <3> QED
      BY <2>3, <3>1, <3>2, EnterFine
  <2>6. SameFunction(Top.at, f.at) /\ MayCall(f.at, c.at)
    BY <1>1, <2>4, <2>5, Moves, Calls DEF StatementPlaces
  <2> HIDE DEF f, c
  <2> QED
    BY <1>1, <1>2, <2>1, <2>4, <2>5, <2>6, Waits, CallKeeps
<1>4. CASE FailExpected
  BY <1>1, <1>2, <1>4, FailExpectedKeeps
<1>5. CASE FailSilently
  BY <1>1, <1>5, FailSilentlyKeeps
<1> QED
  BY <1>3, <1>4, <1>5 DEF Statement

LEMMA StatementEndStep ==
  ASSUME IInv, StatementEnd
  PROVE  IInv'
<1>1. stack # <<>> /\ Top.at = "statement.simple" /\ result # Null /\ toks' = toks
  BY DEF StatementEnd, At
<1>2. Top.at \in StatementPlaces
  BY <1>1 DEF StatementPlaces
<1>3. result \in 0..Len(nodes) /\ pos \in 1..Len(toks)
  BY <1>1, ResultFacts, TopFacts DEF IInv, Progress, TypeOK
<1>4. CASE Match({"NEWLINE"})
  <2>1. /\ Quiet /\ nodes' = nodes /\ stack' = Tail(stack) /\ result' = result
        /\ pos' = pos + 1 /\ Current = "NEWLINE"
    BY <1>4 DEF StatementEnd, Quiet, EndsLine, Expect, Advance, Match, Return
  <2>2. pos + 1 \in 1..Len(toks) /\ Len(toks) \in Nat
    BY <1>1, <2>1, InRange, TopFacts
  <2> QED
    BY <1>1, <1>2, <1>3, <2>1, <2>2, PlainReturnKeeps
<1>5. CASE ~Match({"NEWLINE"})
  <2>1. Fail("ExpectedNewLine", pos)
    BY <1>5 DEF StatementEnd, EndsLine, Expect
  <2> QED
    BY <1>1, <1>3, <2>1, FailKeeps DEF DiagIDs
<1> QED
  BY <1>4, <1>5

----------------------------------------------------------------------------
(* parseAssignmentStatement                                                *)

LEMMA AssignmentTargetStep ==
  ASSUME IInv, AssignmentTarget
  PROVE  IInv'
<1>1. stack # <<>> /\ Top.at = "assignment" /\ Current = "ID" /\ Next1 = "ASSIGN"
  BY DEF AssignmentTarget, At, StartsTarget, Match
<1>2. Top.at \in Deep /\ Top.at \in InnerPlaces
  BY <1>1, DeepPlaces DEF Deep
<1>3. /\ pos + 1 \in 1..Len(toks) /\ toks[pos + 1] = "ID"
      /\ pos + 2 \in 1..Len(toks) /\ toks[pos + 2] = "ASSIGN"
  BY <1>1, InRange
<1> DEFINE n == [kind |-> "Identifier", token |-> pos + 1, kids |-> <<>>,
                 dim |-> 0, from |-> pos + 1, to |-> pos + 1]
           f == [Top EXCEPT !.own = Append(@, NewPtr)]
<1>4. /\ Quiet /\ nodes' = Append(nodes, n) /\ pos' = pos + 2
      /\ stack' = <<f>> \o Tail(stack) /\ result' = result
  BY DEF AssignmentTarget, Quiet, New, GoOn
<1>5. n \in Node /\ NodeFine(n, toks, nodes) /\ n.kind = "Identifier"
  <2>1. pos + 1 \in Nat
    BY <1>3
  <2> QED
    BY <1>1, <1>3, <2>1, LeafFine DEF NodeKinds
<1> HIDE DEF n
<1>6. /\ Grows(nodes, nodes') /\ HeapFine(toks, nodes')
      /\ NewPtr \in 1..Len(nodes') /\ Len(nodes') \in Nat
      /\ nodes'[NewPtr].kind = "Identifier"
      /\ \A p \in 1..Len(nodes') : nodes'[p].kind # "Program"
  <2>1. n.kind # "Program" /\ Len(nodes) \in Nat
    BY <1>1, <1>5, TopFacts
  <2>2. /\ Grows(nodes, nodes') /\ HeapFine(toks, nodes')
        /\ Len(nodes') = Len(nodes) + 1 /\ NewPtr \in 1..Len(nodes')
        /\ nodes'[NewPtr] = n
        /\ \A p \in 1..Len(nodes') : nodes'[p].kind # "Program"
    BY <1>1, <1>4, <1>5, <2>1, NewNode
  <2> QED
    BY <1>5, <2>1, <2>2
<1>7. /\ Append(Top.own, NewPtr) \in Seq(Nat)
      /\ Len(Append(Top.own, NewPtr)) = Len(Top.own) + 1
      /\ \A i \in 1..Len(Top.own) : Append(Top.own, NewPtr)[i] = Top.own[i]
      /\ Append(Top.own, NewPtr)[Len(Top.own) + 1] = NewPtr
      /\ Len(Top.own) \in Nat
  <2>1. NewPtr \in Nat
    BY <1>6
  <2> QED
    BY <1>1, <2>1, TopFacts, OneMore
<1>8. /\ f \in Frame /\ f.at = "assignment" /\ f.own = Append(Top.own, NewPtr)
      /\ f.token = Top.token
  BY <1>1, <1>7, TopFacts DEF Frame
<1> HIDE DEF f
<1>9. FrameFine(f, toks, nodes')
  <2>1. FrameFine(Top, toks, nodes')
    BY <1>1, <1>6, TopFacts, FrameGrows
  <2>2. ASSUME NEW i \in 1..Len(f.own)
        PROVE  f.own[i] \in 1..Len(nodes') /\ nodes'[f.own[i]].kind = "Identifier"
    <3>1. CASE i \in 1..Len(Top.own)
      BY <1>1, <1>7, <1>8, <2>1, <3>1 DEF FrameFine
    <3>2. CASE i = Len(Top.own) + 1
      BY <1>6, <1>7, <1>8, <3>2
    <3> QED
      BY <1>7, <1>8, <2>2, <3>1, <3>2
  <2>3. f.token \in 1..Len(toks)
    BY <1>1, <1>8, <2>1 DEF FrameFine, HasToken
  <2> QED
    BY <1>8, <2>2, <2>3 DEF FrameFine, OwnsOne
<1>10. SameFunction(Top.at, f.at)
  BY <1>1, <1>2, <1>8, Moves DEF Deep
<1>11. /\ pos' \in 0..Len(toks) /\ (Len(nodes') > 0 => pos' >= 1)
       /\ EndsInLayout => pos' < Len(toks)
  <2>1. Len(toks) \in Nat /\ pos \in 0..Len(toks)
    BY <1>1, TopFacts
  <2>2. EndsInLayout => pos + 2 # Len(toks)
    BY <1>3, <2>1 DEF EndsInLayout
  <2> QED
    BY <1>3, <1>4, <2>1, <2>2
<1> QED
  BY <1>1, <1>4, <1>6, <1>8, <1>9, <1>10, <1>11, GoOnKeeps

LEMMA AssignmentExpressionStep ==
  ASSUME IInv, AssignmentExpression
  PROVE  IInv'
<1> DEFINE f == [Top EXCEPT !.at = "assignment.expression"]
           c == Enter("expression", 0, 0)
<1>1. stack # <<>> /\ Top.at = "assignment"
  BY DEF AssignmentExpression, At
<1>2. /\ Quiet /\ pos' = pos /\ nodes' = nodes /\ result' = result
      /\ stack' = <<c, f>> \o Tail(stack)
  BY DEF AssignmentExpression, Quiet, Call, CallFrom
<1>3. f \in Frame /\ f.at = "assignment.expression" /\ FrameFine(f, toks, nodes)
  BY <1>1, TopFacts, MoveFine DEF OwnsOne, HasToken, Places, Propagating
<1>4. c \in Frame /\ c.at = "expression" /\ FrameFine(c, toks, nodes)
  BY EnterFine DEF OwnsOne, HasToken, Places
<1>5. Top.at \in Deep /\ Top.at \in InnerPlaces /\ "assignment.expression" \in Deep
  BY <1>1, DeepPlaces DEF Deep
<1>6. SameFunction(Top.at, f.at) /\ MayCall(f.at, c.at)
  BY <1>3, <1>4, <1>5, Moves, Calls DEF Deep
<1> HIDE DEF f, c
<1> QED
  BY <1>1, <1>2, <1>3, <1>4, <1>5, <1>6, Waits, CallKeeps

LEMMA AssignmentEndStep ==
  ASSUME IInv, AssignmentEnd
  PROVE  IInv'
<1>1. stack # <<>> /\ Top.at = "assignment.expression" /\ result # Null
  BY DEF AssignmentEnd, At
<1>2. Top.at \in InnerPlaces
  BY <1>1, DeepPlaces DEF Deep
<1> DEFINE kids == Append(Top.own, result)
           n == [kind |-> "AssignmentStatement", token |-> NoToken, kids |-> kids,
                 dim |-> 0, from |-> Top.token, to |-> pos]
<1>3. Quiet /\ nodes' = Append(nodes, n) /\ Return(NewPtr) /\ pos' = pos
  BY DEF AssignmentEnd, Quiet, New
<1>4. /\ result \in 1..Len(nodes) /\ result \in Nat /\ Len(nodes) > 0
      /\ Len(nodes) \in Nat /\ Len(toks) \in Nat /\ pos \in Nat
      /\ Top.token \in 1..Len(toks)
      /\ Top.own \in Seq(Nat) /\ Len(Top.own) \in Nat
  BY <1>1, TopFacts, ResultFacts DEF FrameFine, HasToken
<1>5. \A k \in 1..Len(Top.own) :
        Top.own[k] \in 1..Len(nodes) /\ nodes[Top.own[k]].kind = "Identifier"
  BY <1>1, TopFacts DEF FrameFine
<1>6. /\ kids \in Seq(Nat) /\ Len(kids) = Len(Top.own) + 1
      /\ \A k \in 1..Len(Top.own) : kids[k] = Top.own[k]
      /\ kids[Len(Top.own) + 1] = result
  BY <1>4, OneMore
<1> HIDE DEF kids
<1>7. ASSUME NEW k \in 1..Len(kids)
      PROVE  kids[k] \in 0..Len(nodes)
  <2>1. CASE k \in 1..Len(Top.own)
    <3>1. kids[k] = Top.own[k] /\ Top.own[k] \in 1..Len(nodes)
      BY <1>5, <1>6, <2>1
    <3> QED
      BY <1>4, <3>1
  <2>2. CASE k = Len(Top.own) + 1
    BY <1>4, <1>6, <2>2
  <2>3. k \in 1..Len(Top.own) \/ k = Len(Top.own) + 1
    BY <1>4, <1>6, <1>7
  <2> QED
    BY <2>1, <2>2, <2>3
<1>8. ASSUME NEW k \in 1..(Len(kids) - 1)
      PROVE  kids[k] # Null /\ nodes[kids[k]].kind = "Identifier"
  <2>1. k \in 1..Len(Top.own)
    BY <1>4, <1>6, <1>8
  <2>2. kids[k] = Top.own[k] /\ Top.own[k] \in 1..Len(nodes)
        /\ nodes[Top.own[k]].kind = "Identifier"
    BY <1>5, <1>6, <2>1
  <2> QED
    BY <1>4, <2>2 DEF Null
<1>9. /\ n \in Node /\ n.kind = "AssignmentStatement" /\ n.kids = kids
      /\ n.from = Top.token
  BY <1>4, <1>6 DEF Node, NodeKinds, NoToken
<1> HIDE DEF n
<1>10. NodeFine(n, toks, nodes)
  BY <1>4, <1>7, <1>8, <1>9 DEF NodeFine
<1> QED
  BY <1>1, <1>2, <1>3, <1>4, <1>9, <1>10, Waits, NewReturnKeeps

----------------------------------------------------------------------------
(* parseExpression                                                         *)

LEMMA ExpressionStep ==
  ASSUME IInv, Expression
  PROVE  IInv'
<1> DEFINE f == [Top EXCEPT !.at = "expression.prefix"]
           c == Enter("prefix", 0, 0)
<1>1. stack # <<>> /\ Top.at = "expression"
  BY DEF Expression, At
<1>2. /\ Quiet /\ pos' = pos /\ nodes' = nodes /\ result' = result
      /\ stack' = <<c, f>> \o Tail(stack)
  BY DEF Expression, Quiet, Call, CallFrom
<1>3. f \in Frame /\ f.at = "expression.prefix" /\ FrameFine(f, toks, nodes)
  BY <1>1, TopFacts, MoveFine DEF OwnsOne, HasToken, Places, Propagating
<1>4. c \in Frame /\ c.at = "prefix" /\ FrameFine(c, toks, nodes)
  BY EnterFine DEF OwnsOne, HasToken, Places
<1>5. Top.at \in Deep /\ Top.at \in InnerPlaces /\ "expression.prefix" \in Deep
  BY <1>1, DeepPlaces DEF Deep
<1>6. SameFunction(Top.at, f.at) /\ MayCall(f.at, c.at)
  BY <1>3, <1>4, <1>5, Moves, Calls DEF Deep
<1> HIDE DEF f, c
<1> QED
  BY <1>1, <1>2, <1>3, <1>4, <1>5, <1>6, Waits, CallKeeps

LEMMA ExpressionPrefixStep ==
  ASSUME IInv, ExpressionPrefix
  PROVE  IInv'
<1>1. stack # <<>> /\ Top.at = "expression.prefix" /\ result # Null
  BY DEF ExpressionPrefix, At
<1>2. Top.at \in Deep /\ Top.at \in InnerPlaces /\ "expression.operator" \in Deep
  BY <1>1, DeepPlaces DEF Deep
<1> DEFINE own == <<result>>
           f == [Top EXCEPT !.at = "expression.operator", !.own = own]
<1>3. /\ Quiet /\ pos' = pos /\ nodes' = nodes /\ result' = result
      /\ stack' = <<f>> \o Tail(stack)
  BY DEF ExpressionPrefix, Quiet, GoOn
<1>4. /\ result \in 1..Len(nodes) /\ result \in Nat /\ Len(nodes) > 0
      /\ Len(nodes) \in Nat /\ nodes \in Seq(Node) /\ Top \in Frame
  BY <1>1, TopFacts, ResultFacts
<1>5. own \in Seq(Nat) /\ "expression.operator" \in Places
  BY <1>4 DEF Places
<1>6. own = <<result>>
  OBVIOUS
<1> HIDE DEF own
<1>7. f \in Frame /\ f.at = "expression.operator" /\ f.own = own
  BY <1>4, <1>5 DEF Frame
<1> HIDE DEF f
<1>8. FrameFine(f, toks, nodes)
  BY <1>4, <1>6, <1>7, OwnFine DEF HasToken
<1>9. SameFunction(Top.at, f.at)
  BY <1>2, <1>7, Moves DEF Deep
<1>10. /\ Grows(nodes, nodes') /\ HeapFine(toks, nodes') /\ FrameFine(f, toks, nodes')
       /\ \A p \in 1..Len(nodes') : nodes'[p].kind # "Program"
  BY <1>1, <1>3, <1>4, <1>8, GrowsSame DEF IInv, Progress
<1>11. /\ pos' \in 0..Len(toks) /\ (Len(nodes') > 0 => pos' >= 1)
       /\ EndsInLayout => pos' < Len(toks)
  BY <1>1, <1>2, <1>3, <1>4, TopFacts, Waits
<1> QED
  BY <1>1, <1>3, <1>7, <1>9, <1>10, <1>11, GoOnKeeps

LEMMA ExpressionOperatorStep ==
  ASSUME IInv, ExpressionOperator
  PROVE  IInv'
<1>1. stack # <<>> /\ Top.at = "expression.operator"
  BY DEF ExpressionOperator, At
<1>2. Top.at \in Deep /\ Top.at \in InnerPlaces /\ "expression.operand" \in Deep
  BY <1>1, DeepPlaces DEF Deep
<1>3. CASE Binds
  <2> DEFINE t == pos + 1
             right == InfixPower[Current].right
             f == [Top EXCEPT !.at = "expression.operand", !.token = t]
             c == Enter("expression", right, 0)
  <2>1. /\ Quiet /\ nodes' = nodes /\ result' = result
        /\ stack' = <<c, f>> \o Tail(stack) /\ Expect(DOMAIN InfixPower)
    BY <1>3 DEF ExpressionOperator, Quiet, CallFrom, Expect, Binds
  <2>2. DOMAIN InfixPower \subseteq TokenTypes \ Layout
    BY TokenClasses
  <2>3. /\ t \in 1..Len(toks) /\ t \in Nat /\ toks[t] \in DOMAIN InfixPower
        /\ pos' \in {pos, pos + 1} /\ pos' <= Len(toks)
        /\ EndsInLayout => pos' < Len(toks)
    BY <1>1, <1>2, <2>1, <2>2, Eats
  <2> HIDE DEF t
  <2>4. f \in Frame /\ f.at = "expression.operand" /\ FrameFine(f, toks, nodes)
    <3>1. Top \in Frame /\ FrameFine(Top, toks, nodes) /\ "expression.operand" \in Places
      BY <1>1, TopFacts DEF Places, Propagating
    <3>2. /\ f \in Frame /\ f.at = "expression.operand"
          /\ f.own = Top.own /\ f.token = t
      BY <2>3, <3>1 DEF Frame
    <3> HIDE DEF f
    <3> QED
      BY <1>1, <2>3, <3>1, <3>2, TokenFine DEF OwnsOne
  <2>5. right \in Nat
    <3>1. Current \in DOMAIN InfixPower
      BY <1>3 DEF Binds, Match
    <3>2. \A op \in DOMAIN InfixPower : InfixPower[op].right \in Nat
      BY DEF InfixPower, Logical, Comparisons, Additive, Multiplicative
    <3> QED
      BY <3>1, <3>2
  <2> HIDE DEF right
  <2>6. c \in Frame /\ c.at = "expression" /\ FrameFine(c, toks, nodes)
    BY <2>5, EnterFine DEF OwnsOne, HasToken, Places
  <2>7. SameFunction(Top.at, f.at) /\ MayCall(f.at, c.at)
    BY <1>2, <2>4, <2>6, Moves, Calls DEF Deep
  <2> HIDE DEF f, c
  <2> QED
    BY <1>1, <2>1, <2>3, <2>4, <2>6, <2>7, CallKeeps
<1>4. CASE ~Binds
  <2>1. /\ Quiet /\ nodes' = nodes /\ stack' = Tail(stack) /\ pos' = pos
        /\ result' = Top.own[1]
    BY <1>4 DEF ExpressionOperator, Quiet, Return
  <2>2. Top.own[1] \in 1..Len(nodes) /\ Len(nodes) \in Nat
    BY <1>1, TopFacts DEF FrameFine, OwnsOne
  <2>3. Top.own[1] \in 0..Len(nodes)
    BY <2>2
  <2> QED
    BY <1>1, <2>1, <2>3, PlainReturnKeeps
<1> QED
  BY <1>3, <1>4

(* isConstantExpression() is what a node is asserted to have checked.      *)
LEMMA SameConstant == \A p : IsConstant(p) <=> Constant(p, toks, nodes)
BY DEF IsConstant, Constant

LEMMA ExpressionOperandStep ==
  ASSUME IInv, ExpressionOperand
  PROVE  IInv'
<1>1. /\ stack # <<>> /\ Top.at = "expression.operand" /\ result # Null
      /\ toks' = toks
  BY DEF ExpressionOperand, At
<1>2. Top.at \in Deep /\ Top.at \in InnerPlaces /\ "expression.operator" \in Deep
  BY <1>1, DeepPlaces DEF Deep
<1> DEFINE lhs == Top.own[1]
           culprit == IF IsConstant(lhs) THEN result ELSE lhs
<1>3. /\ lhs \in 1..Len(nodes) /\ Len(Top.own) = 1
      /\ result \in 1..Len(nodes) /\ result \in Nat /\ Len(nodes) > 0
      /\ Len(nodes) \in Nat /\ nodes \in Seq(Node) /\ Top \in Frame
      /\ Top.token \in 1..Len(toks) /\ Top.token \in Nat /\ Len(toks) \in Nat
      /\ toks[Top.token] \in DOMAIN InfixPower
  BY <1>1, TopFacts, ResultFacts DEF FrameFine, OwnsOne, HasToken
<1>4. lhs \in Nat /\ culprit \in 1..Len(nodes)
  BY <1>3
<1> HIDE DEF lhs, culprit
<1>5. \A p \in 1..Len(nodes) :
        /\ nodes[p] \in Node /\ NodeFine(nodes[p], toks, nodes)
        /\ nodes[p].kind # "Program"
  BY <1>1, <1>3 DEF IInv, HeapFine, Progress
<1>6. \A p \in 1..Len(nodes) :
        nodes[p].from \in Nat /\ nodes[p].to \in Nat /\ nodes[p].from \in 1..Len(toks)
  BY <1>5 DEF Node, NodeFine
<1>7. CASE MayJoin(toks[Top.token], lhs, result)
  <2> DEFINE kids == <<lhs, result>>
             token == Top.token
             from == nodes[lhs].from
             to == nodes[result].to
             n == [kind |-> "BinaryExpression", token |-> token, kids |-> kids,
                   dim |-> 0, from |-> from, to |-> to]
             own == <<NewPtr>>
             f == [Top EXCEPT !.at = "expression.operator", !.own = own]
  <2>1. /\ Quiet /\ nodes' = Append(nodes, n) /\ pos' = pos
        /\ stack' = <<f>> \o Tail(stack) /\ result' = result
    BY <1>7 DEF ExpressionOperand, Quiet, New, GoOn, lhs
  <2>2. /\ kids \in Seq(Nat) /\ Len(kids) = 2 /\ kids[1] = lhs /\ kids[2] = result
    BY <1>3, <1>4
  <2>3. /\ token \in Nat /\ from \in Nat /\ to \in Nat /\ from \in 1..Len(toks)
        /\ toks[token] \in DOMAIN InfixPower
    BY <1>3, <1>6
  <2>4. toks[token] \notin Logical =>
          Constant(lhs, toks, nodes) /\ Constant(result, toks, nodes)
    BY <1>7, SameConstant DEF MayJoin
  <2> HIDE DEF kids, token, from, to
  <2>5. /\ n \in Node /\ n.kind = "BinaryExpression" /\ n.kids = kids
        /\ n.from = from /\ n.token = token
    BY <2>2, <2>3 DEF Node, NodeKinds
  <2> HIDE DEF n
  <2>6. NodeFine(n, toks, nodes)
    <3>1. ASSUME NEW k \in 1..Len(n.kids)
          PROVE  n.kids[k] \in 0..Len(nodes)
      <4>1. Len(n.kids) = 2 /\ n.kids[1] = lhs /\ n.kids[2] = result
        BY <2>2, <2>5
      <4>2. k = 1 \/ k = 2
        BY <4>1
      <4> QED
        BY <1>3, <4>1, <4>2
    <3>2. n.kids[1] # Null /\ n.kids[2] # Null
      BY <1>3, <2>2, <2>5 DEF Null
    <3>3. Len(n.kids) = 2 /\ n.kids[1] = lhs /\ n.kids[2] = result
      BY <2>2, <2>5
    <3> QED
      BY <2>3, <2>4, <2>5, <3>1, <3>2, <3>3 DEF NodeFine
  <2>7. /\ Grows(nodes, nodes') /\ HeapFine(toks, nodes')
        /\ NewPtr \in 1..Len(nodes') /\ Len(nodes') \in Nat
        /\ \A p \in 1..Len(nodes') : nodes'[p].kind # "Program"
    BY <1>1, <2>1, <2>5, <2>6, NewNode DEF Grows
  <2>8. own \in Seq(Nat) /\ own = <<NewPtr>> /\ "expression.operator" \in Places
    <3>1. NewPtr \in Nat
      BY <2>7
    <3> QED
      BY <3>1 DEF Places
  <2> HIDE DEF own
  <2>9. f \in Frame /\ f.at = "expression.operator" /\ f.own = own
    BY <1>3, <2>8 DEF Frame
  <2> HIDE DEF f
  <2>10. FrameFine(f, toks, nodes')
    BY <2>7, <2>8, <2>9, OwnFine DEF HasToken
  <2>11. SameFunction(Top.at, f.at)
    BY <1>2, <2>9, Moves DEF Deep
  <2>12. /\ pos' \in 0..Len(toks) /\ (Len(nodes') > 0 => pos' >= 1)
         /\ EndsInLayout => pos' < Len(toks)
    BY <1>1, <1>2, <1>3, <2>1, TopFacts, Waits
  <2> QED
    BY <1>1, <2>1, <2>7, <2>9, <2>10, <2>11, <2>12, GoOnKeeps
<1>8. CASE ~MayJoin(toks[Top.token], lhs, result)
  <2>1. Fail("ExpectedToken", nodes[culprit].from)
    BY <1>8 DEF ExpressionOperand, lhs, culprit
  <2>2. nodes[culprit].from \in 1..Len(toks)
    BY <1>4, <1>6
  <2> QED
    BY <1>1, <2>1, <2>2, FailKeeps DEF DiagIDs
<1> QED
  BY <1>7, <1>8

----------------------------------------------------------------------------
(* parsePrefix                                                             *)

LEMMA PrefixStep ==
  ASSUME IInv, Prefix
  PROVE  IInv'
<1>1. stack # <<>> /\ Top.at = "prefix" /\ toks' = toks
  BY DEF Prefix, At
<1>2. /\ Top.at \in Deep /\ Top.at \in InnerPlaces
      /\ "prefix.group" \in Deep /\ "prefix.unary" \in Deep
  BY <1>1, DeepPlaces DEF Deep
<1>3. ASSUME Expect(Literals \cup {"ID"}), Quiet, Return(NewPtr),
             New(IF Match({"ID"}) THEN "Identifier" ELSE "Literal",
                 pos + 1, <<>>, 0, pos + 1, pos + 1)
      PROVE  IInv'
  <2> DEFINE kind == IF Match({"ID"}) THEN "Identifier" ELSE "Literal"
             n == [kind |-> kind, token |-> pos + 1, kids |-> <<>>,
                   dim |-> 0, from |-> pos + 1, to |-> pos + 1]
  <2>1. Literals \cup {"ID"} \subseteq TokenTypes \ Layout
    BY TokenClasses
  <2>2. /\ pos' = pos + 1 /\ pos' \in 1..Len(toks) /\ pos' \in Nat
        /\ toks[pos + 1] \in Literals \cup {"ID"} /\ toks[pos + 1] = Current
        /\ EndsInLayout => pos' < Len(toks)
    BY <1>1, <1>2, <1>3, <2>1, Eats
  <2>3. /\ kind \in {"Identifier", "Literal"}
        /\ kind = "Identifier" => toks[pos + 1] = "ID"
        /\ kind = "Literal" => toks[pos + 1] \in Literals
    BY <2>2 DEF Match
  <2>4. nodes' = Append(nodes, n)
    BY <1>3 DEF New
  <2> HIDE DEF kind
  <2>5. n \in Node /\ NodeFine(n, toks, nodes) /\ n.kind = kind
    BY <1>1, <2>2, <2>3, LeafFine DEF NodeKinds
  <2> HIDE DEF n
  <2> QED
    BY <1>1, <1>3, <2>2, <2>3, <2>4, <2>5, NewReturnKeeps
<1>4. ASSUME NEW types, types \subseteq TokenTypes \ Layout, Expect(types),
             Quiet, nodes' = nodes,
             NEW at \in {"prefix.group", "prefix.unary"}, NEW min \in Nat,
             at = "prefix.unary" => types = DOMAIN PrefixPower,
             CallFrom([Top EXCEPT !.at = at, !.token = pos + 1],
                      Enter("expression", min, 0))
      PROVE  IInv'
  <2> DEFINE t == pos + 1
             f == [Top EXCEPT !.at = at, !.token = t]
             c == Enter("expression", min, 0)
  <2>1. stack' = <<c, f>> \o Tail(stack) /\ result' = result
    BY <1>4 DEF CallFrom
  <2>2. /\ t \in 1..Len(toks) /\ t \in Nat /\ toks[t] \in types
        /\ pos' \in {pos, pos + 1} /\ pos' <= Len(toks)
        /\ EndsInLayout => pos' < Len(toks)
    BY <1>1, <1>2, <1>4, Eats
  <2> HIDE DEF t
  <2>3. f \in Frame /\ f.at = at /\ FrameFine(f, toks, nodes)
    <3>1. Top \in Frame /\ FrameFine(Top, toks, nodes) /\ at \in Places
      BY <1>1, TopFacts DEF Places
    <3>2. f \in Frame /\ f.at = at /\ f.own = Top.own /\ f.token = t
      BY <2>2, <3>1 DEF Frame
    <3> HIDE DEF f
    <3> QED
      BY <1>4, <2>2, <3>1, <3>2, TokenFine DEF OwnsOne
  <2>4. c \in Frame /\ c.at = "expression" /\ FrameFine(c, toks, nodes)
    BY EnterFine DEF OwnsOne, HasToken, Places
  <2>5. SameFunction(Top.at, f.at) /\ MayCall(f.at, c.at)
    BY <1>2, <2>3, <2>4, Moves, Calls DEF Deep
  <2> HIDE DEF f, c
  <2> QED
    BY <1>1, <1>4, <2>1, <2>2, <2>3, <2>4, <2>5, CallKeeps
<1>5. CASE /\ Expect(Literals \cup {"ID"}) /\ Return(NewPtr)
           /\ New(IF Match({"ID"}) THEN "Identifier" ELSE "Literal",
                  pos + 1, <<>>, 0, pos + 1, pos + 1)
           /\ UNCHANGED <<diags, undefined>>
  BY <1>1, <1>3, <1>5 DEF Quiet
<1>6. CASE /\ Expect({"OPENPAREN"})
           /\ CallFrom([Top EXCEPT !.at = "prefix.group", !.token = pos + 1],
                       Enter("expression", 0, 0))
           /\ UNCHANGED <<diags, nodes, undefined>>
  <2>1. {"OPENPAREN"} \subseteq TokenTypes \ Layout
    BY TokenClasses
  <2> QED
    BY <1>1, <1>4, <1>6, <2>1 DEF Quiet
<1>7. CASE /\ Expect(DOMAIN PrefixPower)
           /\ CallFrom([Top EXCEPT !.at = "prefix.unary", !.token = pos + 1],
                       Enter("expression", PrefixPower[Current], 0))
           /\ UNCHANGED <<diags, nodes, undefined>>
  <2>1. DOMAIN PrefixPower \subseteq TokenTypes \ Layout
    BY TokenClasses
  <2>2. PrefixPower[Current] \in Nat
    BY <1>7 DEF PrefixPower, Expect, Match
  <2> QED
    BY <1>1, <1>4, <1>7, <2>1, <2>2 DEF Quiet
<1>8. CASE FailSilently
  BY <1>1, <1>8, FailSilentlyKeeps
<1> QED
  BY <1>5, <1>6, <1>7, <1>8 DEF Prefix

LEMMA PrefixGroupStep ==
  ASSUME IInv, PrefixGroup
  PROVE  IInv'
<1>1. stack # <<>> /\ Top.at = "prefix.group" /\ toks' = toks
  BY DEF PrefixGroup, At
<1>2. Top.at \in InnerPlaces
  BY <1>1, DeepPlaces DEF Deep
<1>3. /\ result \in 0..Len(nodes) /\ result \in Nat /\ Len(nodes) \in Nat
      /\ Top.token \in 1..Len(toks) /\ Top.token \in Nat /\ Len(toks) \in Nat
  BY <1>1, TopFacts DEF IInv, TypeOK, FrameFine, HasToken
<1>4. CASE Match({"CLOSEPAREN"})
  <2> DEFINE kids == <<result>>
             token == Top.token
             n == [kind |-> "GroupingExpression", token |-> token, kids |-> kids,
                   dim |-> 0, from |-> token, to |-> pos + 1]
  <2>1. /\ Quiet /\ nodes' = Append(nodes, n) /\ Expect({"CLOSEPAREN"})
        /\ Return(NewPtr)
    BY <1>4 DEF PrefixGroup, Quiet, New, Expect
  <2>2. {"CLOSEPAREN"} \subseteq TokenTypes \ Layout
    BY TokenClasses
  <2>3. /\ pos' = pos + 1 /\ pos' \in 1..Len(toks) /\ pos' \in Nat
        /\ EndsInLayout => pos' < Len(toks)
    BY <1>1, <1>2, <2>1, <2>2, Eats
  <2>4. kids \in Seq(Nat) /\ Len(kids) = 1 /\ kids[1] = result
    BY <1>3
  <2>5. token \in Nat /\ token \in 1..Len(toks)
    BY <1>3
  <2>6. pos + 1 \in Nat
    BY <2>3
  <2> HIDE DEF kids, token
  <2>7. n \in Node /\ n.kind = "GroupingExpression" /\ n.kids = kids /\ n.from = token
    BY <2>4, <2>5, <2>6 DEF Node, NodeKinds
  <2> HIDE DEF n
  <2>8. NodeFine(n, toks, nodes)
    <3>1. ASSUME NEW k \in 1..Len(n.kids)
          PROVE  n.kids[k] \in 0..Len(nodes)
      <4>1. Len(n.kids) = 1 /\ n.kids[1] = result
        BY <2>4, <2>7
      <4>2. k = 1
        BY <4>1
      <4> QED
        BY <1>3, <4>1, <4>2
    <3> QED
      BY <2>5, <2>7, <3>1 DEF NodeFine
  <2> QED
    BY <1>1, <2>1, <2>3, <2>7, <2>8, NewReturnKeeps
<1>5. CASE ~Match({"CLOSEPAREN"})
  <2>1. Fail("UnclosedParenthesis", Top.token)
    BY <1>5 DEF PrefixGroup, Expect
  <2> QED
    BY <1>1, <1>3, <2>1, FailKeeps DEF DiagIDs
<1> QED
  BY <1>4, <1>5

LEMMA PrefixUnaryStep ==
  ASSUME IInv, PrefixUnary
  PROVE  IInv'
<1>1. stack # <<>> /\ Top.at = "prefix.unary" /\ toks' = toks
  BY DEF PrefixUnary, At
<1>2. Top.at \in InnerPlaces
  BY <1>1, DeepPlaces DEF Deep
<1>3. /\ Top.token \in 1..Len(toks) /\ Top.token \in Nat /\ Len(toks) \in Nat
      /\ toks[Top.token] \in DOMAIN PrefixPower
  BY <1>1, TopFacts DEF FrameFine, HasToken
<1> DEFINE allowed == result # Null /\ (toks[Top.token] = "NOT" \/ IsConstant(result))
<1>4. CASE allowed
  <2>1. /\ result \in 1..Len(nodes) /\ result \in Nat /\ Len(nodes) > 0
        /\ nodes[result] \in Node /\ Len(nodes) \in Nat
    BY <1>1, <1>4, ResultFacts, TopFacts
  <2> DEFINE kids == <<result>>
             token == Top.token
             to == nodes[result].to
             n == [kind |-> "UnaryExpression", token |-> token, kids |-> kids,
                   dim |-> 0, from |-> token, to |-> to]
  <2>2. /\ Quiet /\ nodes' = Append(nodes, n) /\ pos' = pos /\ Return(NewPtr)
    BY <1>4 DEF PrefixUnary, Quiet, New
  <2>3. kids \in Seq(Nat) /\ Len(kids) = 1 /\ kids[1] = result
    BY <2>1
  <2>4. /\ token \in Nat /\ token \in 1..Len(toks)
        /\ toks[token] \in DOMAIN PrefixPower
    BY <1>3
  <2>5. to \in Nat
    <3> DEFINE r == nodes[result]
    <3>1. r \in Node
      BY <2>1
    <3> HIDE DEF r
    <3>2. r.to \in Nat
      BY <3>1 DEF Node
    <3> QED
      BY <3>2 DEF r
  <2>6. toks[token] = "MINUS" => Constant(result, toks, nodes)
    <3>1. "MINUS" # "NOT"
      OBVIOUS
    <3> QED
      BY <1>4, <3>1, SameConstant
  <2> HIDE DEF kids, token, to
  <2>7. /\ n \in Node /\ n.kind = "UnaryExpression" /\ n.kids = kids
        /\ n.from = token /\ n.token = token
    BY <2>3, <2>4, <2>5 DEF Node, NodeKinds
  <2> HIDE DEF n
  <2>8. NodeFine(n, toks, nodes)
    <3>1. ASSUME NEW k \in 1..Len(n.kids)
          PROVE  n.kids[k] \in 0..Len(nodes)
      <4>1. Len(n.kids) = 1 /\ n.kids[1] = result
        BY <2>3, <2>7
      <4>2. k = 1
        BY <4>1
      <4> QED
        BY <2>1, <4>1, <4>2
    <3>2. Len(n.kids) = 1 /\ n.kids[1] = result /\ n.kids[1] # Null
      BY <2>1, <2>3, <2>7 DEF Null
    <3> QED
      BY <2>4, <2>6, <2>7, <3>1, <3>2 DEF NodeFine
  <2> QED
    BY <1>1, <1>2, <2>1, <2>2, <2>7, <2>8, Waits, NewReturnKeeps
<1>5. CASE ~allowed
  <2>1. Fail("MissingUnaryOperand", Top.token)
    BY <1>5 DEF PrefixUnary
  <2> QED
    BY <1>1, <1>3, <2>1, FailKeeps DEF DiagIDs
<1> QED
  BY <1>4, <1>5

----------------------------------------------------------------------------
(* The steps that are no parse function's.                                 *)

LEMMA CalleeFailedStep ==
  ASSUME IInv, CalleeFailed
  PROVE  IInv'
BY FailSilentlyKeeps DEF CalleeFailed

LEMMA CrashStep ==
  ASSUME IInv, Crash
  PROVE  IInv'
<1>1. /\ stack' = <<>> /\ result' = Null
      /\ UNCHANGED <<toks, pos, diags, nodes, undefined>>
  BY DEF Crash
<1>2. <<>> \in Seq(Frame) /\ Len(<<>>) = 0
  OBVIOUS
<1>3. Null \in 0..Len(nodes)
  BY DEF IInv, TypeOK, Null
<1>4. TypeOK'
  BY <1>1, <1>2, <1>3 DEF IInv, TypeOK
<1>5. StackFine(stack', toks', nodes')
  BY <1>1, <1>2 DEF StackFine, Chain, FramesFine
<1>6. HeapFine(toks', nodes') /\ LocationsExist'
  BY <1>1 DEF IInv, LocationsExist, EndsInLayout
<1>7. Progress' /\ LineAhead'
  BY <1>1 DEF Progress, LineAhead
<1> QED
  BY <1>4, <1>5, <1>6, <1>7 DEF IInv

LEMMA StutterStep ==
  ASSUME IInv, UNCHANGED vars
  PROVE  IInv'
BY DEF IInv, vars, TypeOK, Progress, LineAhead, LocationsExist, EndsInLayout, Top

----------------------------------------------------------------------------
LEMMA Start == Init => IInv
<1> SUFFICES ASSUME Init
             PROVE  IInv
  OBVIOUS
<1> DEFINE f == Enter("program", 0, 0)
<1>1. /\ toks \in Seq(TokenTypes) /\ pos = 0 /\ diags = <<>> /\ nodes = <<>>
      /\ stack = <<f>> /\ result = 0 /\ undefined = FALSE
  BY ParserAssumption DEF Init, Null
<1>2. f \in Frame /\ f.at = "program" /\ FrameFine(f, toks, nodes)
  BY EnterFine DEF OwnsOne, HasToken, Places
<1> HIDE DEF f
<1>3. <<f>> \in Seq(Frame) /\ Len(<<f>>) = 1 /\ <<f>>[1] = f /\ Head(<<f>>) = f
  BY <1>2
<1>4. /\ Len(toks) \in Nat /\ Len(nodes) = 0 /\ nodes \in Seq(Node)
      /\ Len(diags) = 0 /\ diags \in Seq([id : DiagIDs, token : Nat])
  BY <1>1
<1>5. TypeOK
  <2>1. pos = 0 /\ result = 0 /\ Len(toks) \in Nat /\ Len(nodes) = 0
    BY <1>1, <1>4
  <2>2. pos \in 0..Len(toks) /\ result \in 0..Len(nodes)
    BY <2>1
  <2>3. undefined \in BOOLEAN
    BY <1>1, Zenon
  <2>4. stack \in Seq(Frame)
    BY <1>1, <1>3
  <2> QED
    BY <1>1, <1>4, <2>2, <2>3, <2>4 DEF TypeOK
<1>6. StackFine(stack, toks, nodes)
  BY <1>1, <1>2, <1>3 DEF StackFine, Chain, FramesFine, OuterPlaces
<1>7. HeapFine(toks, nodes) /\ Progress
  BY <1>4 DEF HeapFine, Progress
<1>8. LineAhead
  BY <1>1, <1>2, <1>3 DEF LineAhead, Top, InnerPlaces, OuterPlaces
<1>9. LocationsExist
  BY <1>1, <1>4 DEF LocationsExist
<1> QED
  BY <1>5, <1>6, <1>7, <1>8, <1>9 DEF IInv

(* The activations form a chain of calls whose pointers and tokens exist,  *)
(* every node was built as its constructor asserts, and inside a line the  *)
(* NEWLINE that ends it has not been consumed.                             *)
THEOREM ParserInvariant == Spec => []IInv
<1>1. Init => IInv
  BY Start
<1>2. IInv /\ [Next]_vars => IInv'
  <2> SUFFICES ASSUME IInv, [Next]_vars
               PROVE  IInv'
    OBVIOUS
  <2>1. CASE UNCHANGED vars
    BY <2>1, StutterStep
  <2>2. CASE Program \/ Statements \/ ProgramChild
    BY <2>2, ProgramStep, StatementsStep, ProgramChildStep
  <2>3. CASE Definition \/ DefinitionAssign \/ DefinitionEnd
    BY <2>3, DefinitionStep, DefinitionAssignStep, DefinitionEndStep
  <2>4. CASE TypedVariable \/ TypedVariableColon \/ TypedVariableEnd
    BY <2>4, TypedVariableStep, TypedVariableColonStep, TypedVariableEndStep
  <2>5. CASE Type \/ TypeBracket \/ Literal
    BY <2>5, TypeStep, TypeBracketStep, LiteralStep
  <2>6. CASE Statement \/ StatementEnd
    BY <2>6, StatementStep, StatementEndStep
  <2>7. CASE AssignmentTarget \/ AssignmentExpression \/ AssignmentEnd
    BY <2>7, AssignmentTargetStep, AssignmentExpressionStep, AssignmentEndStep
  <2>8. CASE Expression \/ ExpressionPrefix \/ ExpressionOperator \/ ExpressionOperand
    BY <2>8, ExpressionStep, ExpressionPrefixStep, ExpressionOperatorStep,
       ExpressionOperandStep
  <2>9. CASE Prefix \/ PrefixGroup \/ PrefixUnary
    BY <2>9, PrefixStep, PrefixGroupStep, PrefixUnaryStep
  <2>10. CASE CalleeFailed \/ Crash \/ Terminating
    BY <2>10, CalleeFailedStep, CrashStep, StutterStep DEF Terminating
  <2> QED
    BY <2>1, <2>2, <2>3, <2>4, <2>5, <2>6, <2>7, <2>8, <2>9, <2>10 DEF Next
<1> QED
  BY <1>1, <1>2, PTL DEF Spec

(* The parser keeps its types, whatever the token stream: no pointer leads *)
(* outside the heap.                                                       *)
THEOREM ParserTypeOK == Spec => []TypeOK
<1>1. IInv => TypeOK
  BY DEF IInv
<1> QED
  BY <1>1, ParserInvariant, PTL

(* Whatever the token stream, if it ends in a layout token then no parse   *)
(* function dereferences an empty optional, and every diagnostic has the   *)
(* location of a token.                                                    *)
THEOREM ParserLocationsExist == Spec => []LocationsExist
<1>1. IInv => LocationsExist
  BY DEF IInv
<1> QED
  BY <1>1, ParserInvariant, PTL

(* No constructor of a node is called with what it asserts not to be given.*)
THEOREM ParserConstructorAssertions == Spec => []ConstructorAssertions
<1>1. IInv => ConstructorAssertions
  <2> SUFFICES ASSUME IInv, NEW p \in 1..Len(nodes)
               PROVE  NodeAsserts(nodes[p])
    BY DEF ConstructorAssertions
  <2> DEFINE n == nodes[p]
  <2>1. NodeFine(n, toks, nodes)
    BY DEF IInv, HeapFine
  <2> HIDE DEF n
  <2>2. NodeAsserts(n)
    <3>1. CASE n.kind = "Identifier"
      BY <2>1, <3>1 DEF NodeFine, NodeAsserts
    <3>2. CASE n.kind = "Literal"
      BY <2>1, <3>2 DEF NodeFine, NodeAsserts
    <3>3. CASE n.kind = "BinaryExpression"
      BY <2>1, <3>3, SameConstant DEF NodeFine, NodeAsserts
    <3>4. CASE n.kind = "UnaryExpression"
      BY <2>1, <3>4, SameConstant DEF NodeFine, NodeAsserts
    <3>5. CASE n.kind = "AssignmentStatement"
      BY <2>1, <3>5 DEF NodeFine, NodeAsserts
    <3>6. CASE n.kind \notin {"Identifier", "Literal", "BinaryExpression",
                              "UnaryExpression", "AssignmentStatement"}
      BY <3>6 DEF NodeAsserts
    <3> QED
      BY <3>1, <3>2, <3>3, <3>4, <3>5, <3>6
  <2> QED
    BY <2>2 DEF n
<1> QED
  BY <1>1, ParserInvariant, PTL
----------------------------------------------------------------------------
(***************************************************************************)
(* The trees cover the tokens.  Each activation began behind a token; what *)
(* it owns, and what those it called were given to read, are the tokens    *)
(* from there to the cursor, one after the other.                          *)
(***************************************************************************)

(* The places that wait for a callee, the parse function an activation     *)
(* is of, and the one it has called.                                       *)
CallPlaces == Propagating \cup {"prefix.group", "prefix.unary"}

ExpressionFunctions == {"expression", "prefix"}

Function(place) ==
  CASE place \in OuterPlaces -> "program"
    [] place \in DefinitionPlaces -> "definition"
    [] place \in StatementPlaces -> "statement"
    [] place \in {"typedVariable", "typedVariable.colon", "typedVariable.type"} ->
         "typedVariable"
    [] place \in {"type", "type.bracket"} -> "type"
    [] place = "literal" -> "literal"
    [] place \in {"assignment", "assignment.expression"} -> "assignment"
    [] place \in {"expression", "expression.prefix", "expression.operator",
                  "expression.operand"} -> "expression"
    [] place \in {"prefix", "prefix.group", "prefix.unary"} -> "prefix"

Callee(place) ==
  CASE place = "program.definition" -> "definition"
    [] place = "program.statement" -> "statement"
    [] place = "definition.variable" -> "typedVariable"
    [] place = "definition.literal" -> "literal"
    [] place \in {"typedVariable.type", "type.bracket"} -> "type"
    [] place = "statement.simple" -> "assignment"
    [] place \in {"assignment.expression", "expression.operand", "prefix.group",
                  "prefix.unary"} -> "expression"
    [] place = "expression.prefix" -> "prefix"

(* A node of the tokens after b up to e, and of those up to one before e.  *)
Spans(n, b, e) == n.from = b + 1 /\ n.to = e
SpansBefore(n, b, e) == n.from = b + 1 /\ n.to + 1 = e

(* Nodes one after the other from b on, with one token behind each, the    *)
(* last of these at e.                                                     *)
InRow(own, b, e, ns) ==
  /\ own = <<>> => e = b
  /\ own # <<>> => ns[own[1]].from = b + 1 /\ ns[own[Len(own)]].to + 1 = e
  /\ \A k \in 1..(Len(own) - 1) : ns[own[k + 1]].from = ns[own[k]].to + 2

(* The children of the root.                                               *)
IsChild(n, ts) ==
  /\ n.kind \in {"VariableDefinition", "AssignmentStatement"}
  /\ n.kind = "AssignmentStatement" => Len(n.kids) > 1
  /\ ts[n.to + 1] = "NEWLINE"

Sorted(own, ns) ==
  \A k \in 1..Len(own) :
    k > 1 /\ ns[own[k]].kind = "VariableDefinition" =>
      ns[own[k - 1]].kind = "VariableDefinition"

Lines(own, e, ts, ns) ==
  /\ InRow(own, 0, e, ns)
  /\ \A k \in 1..Len(own) : IsChild(ns[own[k]], ts)
  /\ Sorted(own, ns)

OnlyDefinitions(own, ns) == \A k \in 1..Len(own) : ns[own[k]].kind = "VariableDefinition"

(* What parseStatement has seen before it calls parseAssignmentStatement.  *)
StartsAssignment(b, ts) ==
  /\ b + 2 \in 1..Len(ts) /\ ts[b + 2] = "ASSIGN"
  /\ ts[b + 1] \in SimpleStarts

(* What an activation that began behind token b has made of the tokens up  *)
(* to e: where it is itself, if it runs, or where it has called another.   *)
Pieces(f, b, e, ts, ns) ==
  /\ f.at \in OuterPlaces => b = 0 /\ Lines(f.own, e, ts, ns)
  /\ f.at \in {"program", "program.definition"} => OnlyDefinitions(f.own, ns)
  /\ f.at \in {"definition", "definition.variable"} => e = b /\ f.token = b + 1
  /\ f.at = "definition.literal" =>
       /\ f.token = b + 1
       /\ ns[f.own[1]].kind = "TypedVariable" /\ Len(ns[f.own[1]].kids) = 2
       /\ SpansBefore(ns[f.own[1]], b, e)
  /\ f.at \in {"typedVariable", "type", "literal", "statement", "statement.simple",
               "expression", "expression.prefix", "prefix"} => e = b
  /\ f.at \in {"typedVariable.colon", "expression.operator"} => Spans(ns[f.own[1]], b, e)
  /\ f.at \in {"typedVariable.type", "expression.operand"} => SpansBefore(ns[f.own[1]], b, e)
  /\ f.at = "expression.operand" => f.token = e
  /\ f.at \in {"type.bracket", "prefix.group", "prefix.unary"} =>
       e = b + 1 /\ f.token = b + 1
  /\ f.at \in {"assignment", "assignment.expression"} =>
       f.token = b + 1 /\ InRow(f.own, b, e, ns)
  /\ f.at \in {"statement.simple", "assignment", "assignment.expression"} =>
       StartsAssignment(b, ts)

(* What a parse function that began behind token b has returned at p.      *)
Returned(fn, b, p, n, ts) ==
  /\ fn \in {"typedVariable", "type", "literal", "assignment", "expression", "prefix"} =>
       Spans(n, b, p)
  /\ fn \in {"definition", "statement"} =>
       SpansBefore(n, b, p) /\ IsChild(n, ts)
  /\ fn = "definition" => n.kind = "VariableDefinition"
  /\ fn = "statement" => n.kind = "AssignmentStatement"
  /\ fn = "type" => n.kind = "Type"
  /\ fn = "typedVariable" => n.kind = "TypedVariable" /\ Len(n.kids) = 2
  /\ fn = "assignment" =>
       n.kind = "AssignmentStatement" /\ (Len(n.kids) > 1 \/ p \in {b, b + 1})

(* The running activation at p, with r returned to it if it has called.    *)
Running(f, b, p, r, ts, ns) ==
  /\ f.at \notin CallPlaces => Pieces(f, b, p, ts, ns)
  /\ f.at \in CallPlaces =>
       \E e \in Nat :
         /\ Pieces(f, b, e, ts, ns)
         /\ r # Null => Returned(Callee(f.at), e, p, ns[r], ts)

(* Within an expression, and before it if there is no target, no ASSIGN    *)
(* has been consumed.                                                      *)
Guarded(f) ==
  \/ Function(f.at) \in ExpressionFunctions
  \/ f.at = "assignment.expression" /\ f.own = <<>>

NoAssign(b, p, ts) == \A i \in (b + 1)..p : ts[i] # "ASSIGN"

Since(f, b, p, ts) == b <= p /\ (Guarded(f) => NoAssign(b, p, ts))

(* The activations of S, begun behind the tokens st, cover the tokens up   *)
(* to p.                                                                   *)
Cover(S, st, p, r, ts, ns) ==
  /\ st \in Seq(Nat) /\ Len(st) = Len(S)
  /\ Running(S[1], st[1], p, r, ts, ns)
  /\ \A k \in 2..Len(S) :
       /\ S[k].at \in CallPlaces /\ Callee(S[k].at) = Function(S[k - 1].at)
       /\ Pieces(S[k], st[k], st[k - 1], ts, ns)
  /\ \A k \in 1..Len(S) : Since(S[k], st[k], p, ts)

(* The children of a node exist, but for the one in empty parentheses; and *)
(* Complete with the heap as a parameter.                                  *)
Linked(n, ns) ==
  /\ \A k \in 1..Len(n.kids) :
       n.kids[k] \in 1..Len(ns) \/ (n.kind = "GroupingExpression" /\ n.kids[k] = Null)
  /\ n.kind = "GroupingExpression" => Len(n.kids) = 1

TilesIn(n, first, gap, last, ns) ==
  /\ n.kids # <<>>
  /\ ns[n.kids[1]].from = n.from + first
  /\ \A k \in 1..(Len(n.kids) - 1) : ns[n.kids[k + 1]].from = ns[n.kids[k]].to + 1 + gap
  /\ ns[n.kids[Len(n.kids)]].to + last = n.to

CompleteIn(n, ts, ns) ==
  CASE n.kind \in {"Identifier", "Literal"} -> n.from = n.token /\ n.to = n.token
    [] n.kind = "Type" -> n.from = n.token - n.dim /\ n.to = n.token + n.dim
    [] n.kind = "BinaryExpression" ->
         TilesIn(n, 0, 1, 0, ns) /\ n.token = ns[n.kids[1]].to + 1
    [] n.kind = "UnaryExpression" -> TilesIn(n, 1, 0, 0, ns) /\ n.token = n.from
    [] n.kind = "GroupingExpression" ->
         (n.kids[1] # Null => TilesIn(n, 1, 0, 1, ns)) /\ n.token = n.from
    [] n.kind \in {"TypedVariable", "VariableDefinition", "AssignmentStatement"} ->
         TilesIn(n, 0, 1, 0, ns)
    [] n.kind = "Program" ->
         /\ ts # <<>> => TilesIn(n, 0, 1, 1, ns)
         /\ \A k \in 1..Len(n.kids) : ts[ns[n.kids[k]].to + 1] = "NEWLINE"

HeapTiles(ts, ns) == \A p \in 1..Len(ns) : Linked(ns[p], ns) /\ CompleteIn(ns[p], ts, ns)

(* The root, when it is returned.                                          *)
Root ==
  stack = <<>> /\ result # Null =>
    LET n == nodes[result]
    IN  /\ n.kind = "Program" /\ n.from = 1 /\ n.to = Len(toks)
        /\ \A k \in 1..Len(n.kids) : IsChild(nodes[n.kids[k]], toks)
        /\ Sorted(n.kids, nodes)

CoveredBy(st) == Cover(stack, st, pos, result, toks, nodes)

Covered == stack # <<>> => \E st \in Seq(Nat) : CoveredBy(st)

CInv == Covered /\ HeapTiles(toks, nodes) /\ Root

----------------------------------------------------------------------------
(* The table of the calls.                                                 *)

LEMMA FunctionsOfPlaces ==
  /\ \A at \in OuterPlaces : Function(at) = "program"
  /\ \A at \in DefinitionPlaces : Function(at) = "definition"
  /\ \A at \in StatementPlaces : Function(at) = "statement"
  /\ \A at \in {"typedVariable", "typedVariable.colon", "typedVariable.type"} :
       Function(at) = "typedVariable"
  /\ \A at \in {"type", "type.bracket"} : Function(at) = "type"
  /\ Function("literal") = "literal"
  /\ \A at \in {"assignment", "assignment.expression"} : Function(at) = "assignment"
  /\ \A at \in {"expression", "expression.prefix", "expression.operator",
                 "expression.operand"} : Function(at) = "expression"
  /\ \A at \in {"prefix", "prefix.group", "prefix.unary"} : Function(at) = "prefix"
BY DEF Function, OuterPlaces, DefinitionPlaces, StatementPlaces

LEMMA Callees ==
  /\ Callee("program.definition") = "definition"
  /\ Callee("program.statement") = "statement"
  /\ Callee("definition.variable") = "typedVariable"
  /\ Callee("definition.literal") = "literal"
  /\ Callee("typedVariable.type") = "type"
  /\ Callee("type.bracket") = "type"
  /\ Callee("statement.simple") = "assignment"
  /\ \A at \in {"assignment.expression", "expression.operand", "prefix.group",
                 "prefix.unary"} : Callee(at) = "expression"
  /\ Callee("expression.prefix") = "prefix"
BY DEF Callee

LEMMA CallPlaceNames ==
  CallPlaces = {"program.definition", "program.statement", "definition.variable",
                "definition.literal", "typedVariable.type", "type.bracket",
                "statement.simple", "assignment.expression", "expression.prefix",
                "expression.operand", "prefix.group", "prefix.unary"}
BY DEF CallPlaces, Propagating

(* Only parseProgram calls definitions and statements, only a statement an *)
(* assignment; none of them is within an expression.                       *)
LEMMA OuterCallers ==
  ASSUME NEW at \in CallPlaces
  PROVE  /\ Callee(at) # "program"
         /\ Callee(at) \in {"definition", "statement"} => Function(at) = "program"
         /\ Callee(at) = "assignment" => at = "statement.simple"
BY CallPlaceNames, Callees, FunctionsOfPlaces DEF OuterPlaces

----------------------------------------------------------------------------
(* What has been made of the tokens stays true of a larger heap.           *)

LEMMA RowGrows ==
  ASSUME NEW ns, NEW ns2, NEW own \in Seq(Nat), NEW b, NEW e,
         \A i \in 1..Len(own) : ns2[own[i]] = ns[own[i]], InRow(own, b, e, ns)
  PROVE  InRow(own, b, e, ns2)
<1>1. Len(own) \in Nat /\ (own # <<>> => 1 \in 1..Len(own) /\ Len(own) \in 1..Len(own))
  OBVIOUS
<1>2. \A k \in 1..(Len(own) - 1) : k \in 1..Len(own) /\ k + 1 \in 1..Len(own)
  BY <1>1
<1> QED
  BY <1>1, <1>2 DEF InRow

LEMMA LinesGrow ==
  ASSUME NEW ts, NEW ns, NEW ns2, NEW own \in Seq(Nat), NEW e,
         \A i \in 1..Len(own) : ns2[own[i]] = ns[own[i]], Lines(own, e, ts, ns)
  PROVE  Lines(own, e, ts, ns2)
<1>1. InRow(own, 0, e, ns2)
  BY RowGrows DEF Lines
<1>2. \A k \in 1..Len(own) : IsChild(ns2[own[k]], ts)
  BY DEF Lines
<1>3. Sorted(own, ns2)
  <2> SUFFICES ASSUME NEW k \in 1..Len(own), k > 1,
                      ns2[own[k]].kind = "VariableDefinition"
               PROVE  ns2[own[k - 1]].kind = "VariableDefinition"
    BY DEF Sorted
  <2>1. k - 1 \in 1..Len(own)
    OBVIOUS
  <2> QED
    BY <2>1 DEF Lines, Sorted
<1> QED
  BY <1>1, <1>2, <1>3 DEF Lines

LEMMA PiecesGrow ==
  ASSUME NEW ts, NEW ns, NEW ns2, Grows(ns, ns2), NEW f \in Frame,
         FrameFine(f, ts, ns), NEW b, NEW e, Pieces(f, b, e, ts, ns)
  PROVE  Pieces(f, b, e, ts, ns2)
<1>1. f.own \in Seq(Nat)
  BY DEF Frame
<1>2. \A i \in 1..Len(f.own) : ns2[f.own[i]] = ns[f.own[i]]
  BY DEF FrameFine, Grows
<1>3. f.at \in OwnsOne => ns2[f.own[1]] = ns[f.own[1]]
  <2>1. f.at \in OwnsOne => Len(f.own) = 1
    BY DEF FrameFine
  <2>2. f.at \in OwnsOne => 1 \in 1..Len(f.own)
    BY ONLY <2>1
  <2> QED
    BY <1>2, <2>2
<1>4. f.at \in OuterPlaces => b = 0 /\ Lines(f.own, e, ts, ns2)
  BY <1>1, <1>2, LinesGrow DEF Pieces
<1>5. f.at \in {"program", "program.definition"} => OnlyDefinitions(f.own, ns2)
  BY <1>2 DEF Pieces, OnlyDefinitions
<1>6. f.at \in {"assignment", "assignment.expression"} =>
        f.token = b + 1 /\ InRow(f.own, b, e, ns2)
  BY <1>1, <1>2, RowGrows DEF Pieces
<1>7. f.at = "definition.literal" =>
        /\ f.token = b + 1
        /\ ns2[f.own[1]].kind = "TypedVariable" /\ Len(ns2[f.own[1]].kids) = 2
        /\ SpansBefore(ns2[f.own[1]], b, e)
  BY <1>3 DEF Pieces, OwnsOne
<1>8. f.at \in {"typedVariable.colon", "expression.operator"} => Spans(ns2[f.own[1]], b, e)
  BY <1>3 DEF Pieces, OwnsOne
<1>9. f.at \in {"typedVariable.type", "expression.operand"} =>
        SpansBefore(ns2[f.own[1]], b, e)
  BY <1>3 DEF Pieces, OwnsOne
<1> QED
  BY <1>4, <1>5, <1>6, <1>7, <1>8, <1>9 DEF Pieces

(* Tokens that are consumed by what is within an expression.               *)
LEMMA SinceLater ==
  ASSUME NEW f, NEW b \in Nat, NEW p \in Nat, NEW q \in Nat, NEW ts,
         Since(f, b, p, ts), p <= q,
         Guarded(f) => \A i \in (p + 1)..q : ts[i] # "ASSIGN"
  PROVE  Since(f, b, q, ts)
<1>1. \A i \in (b + 1)..q : i \in (b + 1)..p \/ i \in (p + 1)..q
  OBVIOUS
<1> QED
  BY <1>1 DEF Since, NoAssign

----------------------------------------------------------------------------
(* The nodes stay complete in a larger heap.                               *)

LEMMA TilesGrow ==
  ASSUME NEW ns, NEW ns2, Grows(ns, ns2), NEW n \in Node, NEW first, NEW gap, NEW last,
         \A k \in 1..Len(n.kids) : n.kids[k] \in 1..Len(ns),
         TilesIn(n, first, gap, last, ns)
  PROVE  TilesIn(n, first, gap, last, ns2)
<1>1. n.kids \in Seq(Nat) /\ n.kids # <<>>
  BY DEF Node, TilesIn
<1>2. Len(n.kids) \in Nat /\ 1 \in 1..Len(n.kids) /\ Len(n.kids) \in 1..Len(n.kids)
  BY <1>1
<1>3. \A k \in 1..Len(n.kids) : ns2[n.kids[k]] = ns[n.kids[k]]
  BY DEF Grows
<1>4. \A k \in 1..(Len(n.kids) - 1) : k \in 1..Len(n.kids) /\ k + 1 \in 1..Len(n.kids)
  BY <1>2
<1> QED
  BY <1>2, <1>3, <1>4 DEF TilesIn

LEMMA CompleteGrows ==
  ASSUME NEW ts, NEW ns, NEW ns2, Grows(ns, ns2), NEW n \in Node,
         Linked(n, ns), CompleteIn(n, ts, ns)
  PROVE  Linked(n, ns2) /\ CompleteIn(n, ts, ns2)
<1>1. Len(ns) \in Nat /\ Len(ns2) \in Nat /\ Len(ns) <= Len(ns2)
  BY DEF Grows
<1>2. Linked(n, ns2)
  BY <1>1 DEF Linked
<1>3. n.kind # "GroupingExpression" => \A k \in 1..Len(n.kids) : n.kids[k] \in 1..Len(ns)
  BY DEF Linked
<1>4. n.kind = "GroupingExpression" /\ n.kids[1] # Null =>
        \A k \in 1..Len(n.kids) : n.kids[k] \in 1..Len(ns)
  BY DEF Linked
<1>5. \A k \in 1..Len(n.kids) : n.kids[k] \in 1..Len(ns) => ns2[n.kids[k]] = ns[n.kids[k]]
  BY DEF Grows
<1>6. CASE n.kind \in {"Identifier", "Literal", "Type"}
  BY <1>2, <1>6 DEF CompleteIn
<1>7. CASE n.kind = "BinaryExpression"
  <2>1. TilesIn(n, 0, 1, 0, ns) /\ n.token = ns[n.kids[1]].to + 1
    BY <1>7 DEF CompleteIn
  <2>2. TilesIn(n, 0, 1, 0, ns2)
    BY <1>3, <1>7, <2>1, TilesGrow
  <2>3. 1 \in 1..Len(n.kids)
    BY <2>1 DEF TilesIn, Node
  <2>4. n.token = ns2[n.kids[1]].to + 1
    BY <1>3, <1>5, <1>7, <2>1, <2>3
  <2> QED
    BY <1>2, <1>7, <2>2, <2>4 DEF CompleteIn
<1>8. CASE n.kind = "UnaryExpression"
  BY <1>2, <1>3, <1>8, TilesGrow DEF CompleteIn
<1>9. CASE n.kind = "GroupingExpression"
  BY <1>2, <1>4, <1>9, TilesGrow DEF CompleteIn
<1>10. CASE n.kind \in {"TypedVariable", "VariableDefinition", "AssignmentStatement"}
  BY <1>2, <1>3, <1>10, TilesGrow DEF CompleteIn
<1>11. CASE n.kind = "Program"
  <2>1. /\ ts # <<>> => TilesIn(n, 0, 1, 1, ns2)
        /\ \A k \in 1..Len(n.kids) : ts[ns2[n.kids[k]].to + 1] = "NEWLINE"
    BY <1>3, <1>5, <1>11, TilesGrow DEF CompleteIn
  <2> QED
    BY <1>2, <1>11, <2>1 DEF CompleteIn
<1>12. n.kind \in NodeKinds
  BY DEF Node
<1> QED
  BY <1>6, <1>7, <1>8, <1>9, <1>10, <1>11, <1>12 DEF NodeKinds

LEMMA NewTiles ==
  ASSUME IInv, HeapTiles(toks, nodes), NEW n \in Node, nodes' = Append(nodes, n),
         Linked(n, nodes), CompleteIn(n, toks, nodes)
  PROVE  /\ HeapTiles(toks, nodes') /\ Grows(nodes, nodes')
         /\ nodes'[NewPtr] = n /\ NewPtr # Null
<1>1. nodes \in Seq(Node) /\ Len(nodes) \in Nat
  BY DEF IInv, TypeOK
<1>2. /\ Grows(nodes, nodes') /\ Len(nodes') = Len(nodes) + 1
      /\ nodes'[Len(nodes) + 1] = n
  BY <1>1, GrowsAppend
<1>3. ASSUME NEW p \in 1..Len(nodes')
      PROVE  Linked(nodes'[p], nodes') /\ CompleteIn(nodes'[p], toks, nodes')
  <2>1. CASE p \in 1..Len(nodes)
    <3>1. /\ nodes'[p] = nodes[p] /\ nodes[p] \in Node
          /\ Linked(nodes[p], nodes) /\ CompleteIn(nodes[p], toks, nodes)
      BY <1>1, <1>2, <2>1 DEF Grows, HeapTiles
    <3> QED
      BY <1>2, <3>1, CompleteGrows
  <2>2. CASE p = Len(nodes) + 1
    BY <1>2, <2>2, CompleteGrows
  <2> QED
    BY <1>1, <1>2, <1>3, <2>1, <2>2
<1> QED
  BY <1>1, <1>2, <1>3 DEF HeapTiles, NewPtr, Null

----------------------------------------------------------------------------
(* What is covered after a step, as one lemma per shape of a step.         *)

(* The tokens from p to q are consumed inside no expression that waits, or *)
(* none of them is an ASSIGN.                                              *)
Passes(S, p, q, ts) ==
  \A k \in 2..Len(S) : Guarded(S[k]) => \A i \in (p + 1)..q : ts[i] # "ASSIGN"

LEMMA CoverFacts ==
  ASSUME IInv, stack # <<>>, NEW st, CoveredBy(st)
  PROVE  /\ st \in Seq(Nat) /\ Len(st) = Len(stack) /\ st[1] \in Nat
         /\ st # <<>> /\ Len(stack) \in Nat /\ Len(stack) > 0
         /\ Running(Top, st[1], pos, result, toks, nodes)
         /\ Since(Top, st[1], pos, toks)
         /\ \A k \in 2..Len(stack) :
              /\ stack[k].at \in CallPlaces
              /\ Callee(stack[k].at) = Function(stack[k - 1].at)
              /\ Pieces(stack[k], st[k], st[k - 1], toks, nodes)
              /\ Since(stack[k], st[k], pos, toks)
              /\ stack[k] \in Frame /\ FrameFine(stack[k], toks, nodes)
              /\ st[k] \in Nat /\ st[k - 1] \in Nat
         /\ Top = stack[1] /\ stack \in Seq(Frame) /\ pos \in Nat
<1>1. /\ stack \in Seq(Frame) /\ Top = stack[1] /\ StackFine(stack, toks, nodes)
      /\ Len(stack) \in Nat /\ Len(stack) > 0 /\ pos \in Nat
  BY TopFacts
<1>2. st \in Seq(Nat) /\ Len(st) = Len(stack) /\ st[1] \in Nat /\ st # <<>>
  BY <1>1 DEF CoveredBy, Cover
<1>3. 1 \in 1..Len(stack)
  BY <1>1
<1>4. ASSUME NEW k \in 2..Len(stack)
      PROVE  /\ k \in 1..Len(stack) /\ stack[k] \in Frame
             /\ FrameFine(stack[k], toks, nodes)
             /\ st[k] \in Nat /\ st[k - 1] \in Nat
  <2>1. k \in 1..Len(stack) /\ k - 1 \in 1..Len(stack)
    BY <1>1, <1>4
  <2> QED
    BY <1>1, <1>2, <2>1 DEF StackFine, FramesFine
<1> QED
  BY <1>1, <1>2, <1>3, <1>4 DEF CoveredBy, Cover

LEMMA GoOnCovers ==
  ASSUME IInv, stack # <<>>, NEW st, CoveredBy(st),
         NEW f \in Frame, stack' = <<f>> \o Tail(stack), toks' = toks,
         Grows(nodes, nodes'), HeapTiles(toks, nodes'),
         pos' \in Nat, pos <= pos', Passes(stack, pos, pos', toks),
         f.at \notin CallPlaces, Function(f.at) = Function(Top.at),
         Pieces(f, st[1], pos', toks, nodes'), Since(f, st[1], pos', toks)
  PROVE  CInv'
<1> DEFINE S == <<f>> \o Tail(stack)
<1>1. /\ S \in Seq(Frame) /\ S # <<>> /\ Len(S) = Len(stack) /\ S[1] = f
      /\ \A k \in 2..Len(stack) : S[k] = stack[k]
  BY TopFacts, ReplaceTop
<1> HIDE DEF S
<1>2. Running(S[1], st[1], pos', result', toks, nodes')
  BY <1>1 DEF Running
<1>3. ASSUME NEW k \in 2..Len(S)
      PROVE  /\ S[k].at \in CallPlaces /\ Callee(S[k].at) = Function(S[k - 1].at)
             /\ Pieces(S[k], st[k], st[k - 1], toks, nodes')
             /\ Since(S[k], st[k], pos', toks)
  <2>1. k \in 2..Len(stack) /\ S[k] = stack[k]
    BY <1>1, <1>3
  <2>2. /\ stack[k].at \in CallPlaces
        /\ Callee(stack[k].at) = Function(stack[k - 1].at)
        /\ Pieces(stack[k], st[k], st[k - 1], toks, nodes)
        /\ Since(stack[k], st[k], pos, toks)
        /\ stack[k] \in Frame /\ FrameFine(stack[k], toks, nodes)
        /\ st[k] \in Nat /\ pos \in Nat
    BY <2>1, CoverFacts
  <2>3. Function(S[k - 1].at) = Function(stack[k - 1].at)
    <3>1. CASE k = 2
      BY <1>1, <3>1, CoverFacts
    <3>2. CASE k > 2
      <4>1. k - 1 \in 2..Len(stack)
        BY <2>1, <3>2
      <4> QED
        BY <1>1, <4>1
    <3> QED
      BY <2>1, <3>1, <3>2
  <2>4. Pieces(stack[k], st[k], st[k - 1], toks, nodes')
    BY <2>2, PiecesGrow
  <2>5. Since(stack[k], st[k], pos', toks)
    BY <2>1, <2>2, SinceLater DEF Passes
  <2> QED
    BY <2>1, <2>2, <2>3, <2>4, <2>5
<1>4. \A k \in 1..Len(S) : k = 1 \/ k \in 2..Len(S)
  OBVIOUS
<1>5. \A k \in 1..Len(S) : Since(S[k], st[k], pos', toks)
  BY <1>1, <1>3, <1>4
<1>6. Cover(S, st, pos', result', toks, nodes') /\ st \in Seq(Nat)
  BY <1>1, <1>2, <1>3, <1>5, CoverFacts DEF Cover
<1> QED
  BY <1>1, <1>6 DEF CInv, Covered, CoveredBy, Root, S

LEMMA CallCovers ==
  ASSUME IInv, stack # <<>>, NEW st, CoveredBy(st), HeapTiles(toks, nodes),
         NEW f \in Frame, NEW c \in Frame, stack' = <<c, f>> \o Tail(stack),
         toks' = toks, nodes' = nodes,
         pos' \in Nat, pos <= pos', Passes(stack, pos, pos', toks),
         f.at \in CallPlaces, Function(f.at) = Function(Top.at),
         c.at \notin CallPlaces, Function(c.at) = Callee(f.at),
         Pieces(f, st[1], pos', toks, nodes), Since(f, st[1], pos', toks),
         Pieces(c, pos', pos', toks, nodes)
  PROVE  CInv'
<1> DEFINE S == <<c, f>> \o Tail(stack)
           s2 == <<pos'>> \o st
<1>1. /\ S \in Seq(Frame) /\ S # <<>> /\ Len(S) = Len(stack) + 1 /\ S[1] = c /\ S[2] = f
      /\ \A k \in 2..Len(stack) : S[k + 1] = stack[k]
  BY TopFacts, PushCallee
<1>2. /\ s2 \in Seq(Nat) /\ Len(s2) = Len(st) + 1 /\ s2[1] = pos'
      /\ \A k \in 1..Len(st) : s2[k + 1] = st[k]
  <2>1. st \in Seq(Nat) /\ <<pos'>> \in Seq(Nat) /\ Len(<<pos'>>) = 1 /\ <<pos'>>[1] = pos'
        /\ Len(st) \in Nat
    BY CoverFacts
  <2>2. /\ <<pos'>> \o st \in Seq(Nat)
        /\ Len(<<pos'>> \o st) = Len(<<pos'>>) + Len(st)
        /\ \A k \in 1..Len(<<pos'>>) + Len(st) :
             (<<pos'>> \o st)[k] = IF k <= Len(<<pos'>>) THEN <<pos'>>[k] ELSE st[k - Len(<<pos'>>)]
    BY <2>1, ConcatProperties
  <2> QED
    BY <2>1, <2>2
<1> HIDE DEF S, s2
<1>a. Len(stack) \in Nat /\ Len(stack) > 0 /\ Len(st) = Len(stack) /\ pos \in Nat
  BY CoverFacts
<1>3. Running(S[1], s2[1], pos', result', toks, nodes)
  BY <1>1, <1>2 DEF Running
<1>4. s2[2] = st[1]
  <2>1. 1 \in 1..Len(st) /\ 1 + 1 = 2
    BY <1>a
  <2> QED
    BY <1>2, <2>1
<1>5. ASSUME NEW k \in 2..Len(S)
      PROVE  /\ S[k].at \in CallPlaces /\ Callee(S[k].at) = Function(S[k - 1].at)
             /\ Pieces(S[k], s2[k], s2[k - 1], toks, nodes)
             /\ Since(S[k], s2[k], pos', toks)
  <2>1. CASE k = 2
    BY <1>1, <1>2, <1>4, <2>1
  <2>2. CASE k > 2
    <3> DEFINE j == k - 1
    <3>1. j \in 2..Len(stack) /\ j \in 1..Len(st) /\ j + 1 = k /\ k - 1 = j
          /\ j - 1 \in 1..Len(st) /\ (j - 1) + 1 = j
      BY <1>1, <1>5, <1>a, <2>2
    <3> HIDE DEF j
    <3>2. S[k] = stack[j] /\ s2[k] = st[j] /\ s2[k - 1] = st[j - 1]
      BY <1>1, <1>2, <3>1
    <3>3. /\ stack[j].at \in CallPlaces
          /\ Callee(stack[j].at) = Function(stack[j - 1].at)
          /\ Pieces(stack[j], st[j], st[j - 1], toks, nodes)
          /\ Since(stack[j], st[j], pos, toks) /\ st[j] \in Nat
      BY <3>1, CoverFacts
    <3>4. Function(S[j].at) = Function(stack[j - 1].at)
      <4>1. CASE j = 2
        BY <1>1, <4>1, CoverFacts
      <4>2. CASE j > 2
        <5>1. j - 1 \in 2..Len(stack)
          BY <3>1, <4>2
        <5> QED
          BY <1>1, <3>1, <5>1
      <4> QED
        BY <3>1, <4>1, <4>2
    <3>5. Since(stack[j], st[j], pos', toks)
      BY <1>a, <3>1, <3>3, SinceLater DEF Passes
    <3> QED
      BY <3>1, <3>2, <3>3, <3>4, <3>5
  <2> QED
    BY <1>5, <2>1, <2>2
<1>6. Since(S[1], s2[1], pos', toks)
  BY <1>1, <1>2 DEF Since, NoAssign
<1>7. \A k \in 1..Len(S) : k = 1 \/ k \in 2..Len(S)
  OBVIOUS
<1>8. \A k \in 1..Len(S) : Since(S[k], s2[k], pos', toks)
  BY <1>5, <1>6, <1>7
<1>9. Cover(S, s2, pos', result', toks, nodes)
  BY <1>1, <1>2, <1>3, <1>5, <1>8, <1>a DEF Cover
<1> QED
  BY <1>1, <1>2, <1>9 DEF CInv, Covered, CoveredBy, Root, S

LEMMA ReturnCovers ==
  ASSUME IInv, stack # <<>>, NEW st, CoveredBy(st), stack' = Tail(stack), toks' = toks,
         Grows(nodes, nodes'), HeapTiles(toks, nodes'),
         pos' \in Nat, pos <= pos', Passes(stack, pos, pos', toks),
         result' # Null =>
           /\ Top.at \in InnerPlaces
           /\ Returned(Function(Top.at), st[1], pos', nodes'[result'], toks)
  PROVE  CInv'
<1> DEFINE S == Tail(stack)
           s2 == Tail(st)
<1>a. /\ Len(stack) \in Nat /\ Len(stack) > 0 /\ Len(st) = Len(stack) /\ pos \in Nat
      /\ st \in Seq(Nat) /\ st # <<>> /\ stack \in Seq(Frame) /\ Top = stack[1]
  BY CoverFacts
<1>1. /\ S \in Seq(Frame) /\ Len(S) = Len(stack) - 1 /\ Len(S) \in Nat
      /\ \A k \in 1..Len(S) : S[k] = stack[k + 1]
  BY <1>a, HeadTailProperties
<1>2. /\ s2 \in Seq(Nat) /\ Len(s2) = Len(stack) - 1
      /\ \A k \in 1..Len(s2) : s2[k] = st[k + 1]
  BY <1>a, HeadTailProperties
<1> HIDE DEF S, s2
<1>3. ASSUME S # <<>>
      PROVE  Cover(S, s2, pos', result', toks, nodes')
  <2>1. Len(S) > 0
    BY <1>1, <1>3
  <2>2. ASSUME NEW k \in 1..Len(S)
        PROVE  /\ S[k].at \in CallPlaces
               /\ Callee(S[k].at) = Function(stack[k].at)
               /\ Pieces(S[k], s2[k], st[k], toks, nodes') /\ st[k] \in Nat
               /\ Since(S[k], s2[k], pos', toks)
    <3> DEFINE j == k + 1
    <3>1. j \in 2..Len(stack) /\ j - 1 = k /\ S[k] = stack[j] /\ s2[k] = st[j]
      BY <1>1, <1>2, <2>2
    <3> HIDE DEF j
    <3>2. /\ stack[j].at \in CallPlaces
          /\ Callee(stack[j].at) = Function(stack[j - 1].at)
          /\ Pieces(stack[j], st[j], st[j - 1], toks, nodes)
          /\ Since(stack[j], st[j], pos, toks) /\ st[j] \in Nat /\ st[j - 1] \in Nat
          /\ stack[j] \in Frame /\ FrameFine(stack[j], toks, nodes)
      BY <3>1, CoverFacts
    <3>3. Pieces(stack[j], st[j], st[j - 1], toks, nodes')
      BY <3>2, PiecesGrow
    <3>4. Since(stack[j], st[j], pos', toks)
      BY <1>a, <3>1, <3>2, SinceLater DEF Passes
    <3> QED
      BY <3>1, <3>2, <3>3, <3>4
  <2>3. Running(S[1], s2[1], pos', result', toks, nodes')
    <3>1. 1 \in 1..Len(S)
      BY <1>1, <2>1
    <3>2. /\ S[1].at \in CallPlaces /\ Callee(S[1].at) = Function(Top.at)
          /\ Pieces(S[1], s2[1], st[1], toks, nodes') /\ st[1] \in Nat
      BY <1>a, <2>2, <3>1
    <3> QED
      BY <3>2 DEF Running
  <2>4. ASSUME NEW k \in 2..Len(S)
        PROVE  /\ S[k].at \in CallPlaces /\ Callee(S[k].at) = Function(S[k - 1].at)
               /\ Pieces(S[k], s2[k], s2[k - 1], toks, nodes')
    <3>1. k \in 1..Len(S) /\ k - 1 \in 1..Len(S) /\ (k - 1) + 1 = k /\ k - 1 \in 1..Len(s2)
      BY <1>1, <1>2, <2>4
    <3>2. S[k - 1] = stack[k] /\ s2[k - 1] = st[k]
      BY <1>1, <1>2, <3>1
    <3> QED
      BY <2>2, <3>1, <3>2
  <2> QED
    BY <1>1, <1>2, <2>2, <2>3, <2>4 DEF Cover
<1>4. ASSUME S = <<>>
      PROVE  result' = Null
  <2>1. Len(stack) = 1
    BY <1>1, <1>4, <1>a
  <2>2. Top.at \in OuterPlaces
    BY <1>a, <2>1, TopFacts DEF StackFine, Chain
  <2> QED
    BY <2>2 DEF InnerPlaces
<1> QED
  BY <1>2, <1>3, <1>4 DEF CInv, Covered, CoveredBy, Root, S

LEMMA NothingPasses ==
  ASSUME IInv, stack # <<>>, pos' = pos
  PROVE  pos' \in Nat /\ pos <= pos' /\ Passes(stack, pos, pos', toks)
<1>1. pos \in Nat
  BY TopFacts
<1> QED
  BY <1>1 DEF Passes

LEMMA NullCovers ==
  ASSUME IInv, stack # <<>>, CInv, toks' = toks, pos' = pos, nodes' = nodes, Return(Null)
  PROVE  CInv'
<1>1. PICK st : CoveredBy(st)
  BY DEF CInv, Covered
<1>2. Grows(nodes, nodes') /\ HeapTiles(toks, nodes')
  BY TopFacts, GrowsSame DEF CInv
<1> QED
  BY <1>1, <1>2, NothingPasses, ReturnCovers DEF Return

LEMMA FailuresCover ==
  ASSUME IInv, stack # <<>>, CInv, toks' = toks
  PROVE  /\ FailExpected => CInv'
         /\ FailSilently => CInv'
         /\ \A id, t : Fail(id, t) => CInv'
BY NullCovers DEF FailExpected, FailSilently, Fail

(* A token that is no ASSIGN may be consumed anywhere, an ASSIGN where no  *)
(* expression waits.                                                       *)
LEMMA OnePasses ==
  ASSUME IInv, stack # <<>>, pos' = pos + 1, toks[pos + 1] # "ASSIGN"
  PROVE  /\ pos' \in Nat /\ pos <= pos' /\ Passes(stack, pos, pos', toks)
         /\ \A i \in (pos + 1)..pos' : toks[i] # "ASSIGN"
<1>1. pos \in Nat
  BY TopFacts
<1>2. \A i \in (pos + 1)..pos' : i = pos + 1
  BY <1>1
<1> QED
  BY <1>1, <1>2 DEF Passes

LEMMA NobodyWaits ==
  ASSUME IInv, stack # <<>>, NEW st, CoveredBy(st),
         Function(Top.at) \in {"definition", "statement", "assignment"}, NEW q
  PROVE  Passes(stack, pos, q, toks)
<1>1. ASSUME NEW k \in 2..Len(stack)
      PROVE  stack[k].at \in CallPlaces /\ Callee(stack[k].at) = Function(stack[k - 1].at)
  BY <1>1, CoverFacts
<1>2. Len(stack) \in Nat /\ Top = stack[1]
  BY CoverFacts
<1>3. ASSUME NEW k \in 2..Len(stack), Function(stack[k - 1].at) = "program"
      PROVE  FALSE
  BY <1>1, <1>3, OuterCallers
<1>4. ASSUME NEW k \in 2..Len(stack),
             Function(stack[k - 1].at) \in {"definition", "statement"}
      PROVE  Function(stack[k].at) = "program" /\ k = Len(stack)
  <2>1. Function(stack[k].at) = "program"
    BY <1>1, <1>4, OuterCallers
  <2>2. k < Len(stack) => k + 1 \in 2..Len(stack) /\ (k + 1) - 1 = k
    BY <1>2, <1>4
  <2> QED
    BY <1>2, <1>3, <1>4, <2>1, <2>2
<1>5. ASSUME NEW k \in 2..Len(stack), Function(stack[k - 1].at) = "assignment"
      PROVE  Function(stack[k].at) = "statement"
  BY <1>1, <1>5, OuterCallers, FunctionsOfPlaces DEF StatementPlaces
<1>6. ASSUME NEW k \in 2..Len(stack)
      PROVE  Function(stack[k].at) \in {"program", "statement"}
  <2>1. CASE k = 2
    BY <1>2, <1>4, <1>5, <1>6, <2>1
  <2>2. CASE k > 2
    <3>1. 2 \in 2..Len(stack) /\ 2 - 1 = 1 /\ 3 \in 2..Len(stack) /\ 3 - 1 = 2
      BY <1>2, <1>6, <2>2
    <3>2. Function(stack[2].at) = "statement"
      BY <1>2, <1>4, <1>5, <3>1
    <3>3. Function(stack[3].at) = "program" /\ Len(stack) = 3
      BY <1>4, <3>1, <3>2
    <3> QED
      BY <1>6, <2>2, <3>3
  <2> QED
    BY <1>6, <2>1, <2>2
<1>7. ASSUME NEW k \in 2..Len(stack)
      PROVE  ~Guarded(stack[k])
  BY <1>6, <1>7, FunctionsOfPlaces DEF Guarded, ExpressionFunctions
<1> QED
  BY <1>7 DEF Passes

LEMMA Entered ==
  ASSUME NEW at \in Places, NEW min \in Nat, NEW token \in Nat
  PROVE  /\ Enter(at, min, token) \in Frame /\ Enter(at, min, token).at = at
         /\ Enter(at, min, token).own = <<>> /\ Enter(at, min, token).token = token
<1>1. <<>> \in Seq(Nat)
  OBVIOUS
<1> QED
  BY <1>1 DEF Enter, Frame

LEMMA Moved ==
  ASSUME NEW f \in Frame, NEW at \in Places
  PROVE  /\ [f EXCEPT !.at = at] \in Frame /\ [f EXCEPT !.at = at].at = at
         /\ [f EXCEPT !.at = at].own = f.own /\ [f EXCEPT !.at = at].token = f.token
BY DEF Frame

(* What the running activation knows, and what was returned to it.         *)
LEMMA TopPieces ==
  ASSUME IInv, stack # <<>>, NEW st, CoveredBy(st)
  PROVE  /\ Top.at \notin CallPlaces => Pieces(Top, st[1], pos, toks, nodes)
         /\ Top.at \in CallPlaces /\ result # Null =>
              \E e \in Nat : /\ Pieces(Top, st[1], e, toks, nodes)
                             /\ Returned(Callee(Top.at), e, pos, nodes[result], toks)
BY CoverFacts DEF Running

LEMMA StepSince ==
  ASSUME IInv, stack # <<>>, NEW st, CoveredBy(st), NEW f,
         Function(f.at) = Function(Top.at), f.at # "assignment.expression",
         pos' \in {pos, pos + 1}, pos' = pos + 1 => toks[pos + 1] # "ASSIGN"
  PROVE  Since(f, st[1], pos', toks)
<1>1. pos \in Nat /\ st[1] \in Nat /\ Since(Top, st[1], pos, toks)
  BY CoverFacts
<1>2. Guarded(f) => Guarded(Top)
  BY DEF Guarded
<1>3. \A i \in (st[1] + 1)..pos' : i \in (st[1] + 1)..pos \/ (i = pos + 1 /\ pos' = pos + 1)
  BY <1>1
<1>4. Guarded(f) => NoAssign(st[1], pos', toks)
  BY <1>1, <1>2, <1>3 DEF Since, NoAssign
<1> QED
  BY <1>1, <1>4 DEF Since

----------------------------------------------------------------------------
(* parseProgram                                                            *)

LEMMA ProgramCovers ==
  ASSUME IInv, CInv, Program
  PROVE  CInv'
<1>1. stack # <<>> /\ Top.at = "program"
  BY DEF Program, At
<1>2. PICK st : CoveredBy(st)
  BY <1>1 DEF CInv, Covered
<1>3. toks' = toks /\ pos' = pos /\ nodes' = nodes /\ HeapTiles(toks, nodes)
  BY DEF Program, CInv
<1>4. Pieces(Top, st[1], pos, toks, nodes) /\ st[1] = 0
  BY <1>1, <1>2, TopPieces, CallPlaceNames DEF Pieces, OuterPlaces
<1>5. Top \in Frame /\ pos \in Nat
  BY <1>1, TopFacts
<1>6. CASE StartsDefinition
  <2> DEFINE f == [Top EXCEPT !.at = "program.definition"]
             c == Enter("definition", 0, pos + 1)
  <2>1. stack' = <<c, f>> \o Tail(stack)
    BY <1>6 DEF Program, Call, CallFrom
  <2>2. f \in Frame /\ f.at = "program.definition" /\ f.own = Top.own
    BY <1>5, Moved DEF Places, Propagating
  <2>3. pos + 1 \in Nat /\ "definition" \in Places
    BY <1>5 DEF Places
  <2>4. c \in Frame /\ c.at = "definition" /\ c.token = pos + 1
    BY <2>3, Entered
  <2> HIDE DEF f, c
  <2>5. Pieces(f, st[1], pos, toks, nodes)
    BY <1>1, <1>4, <2>2 DEF Pieces, OuterPlaces
  <2>6. Pieces(c, pos, pos, toks, nodes)
    BY <2>4 DEF Pieces, OuterPlaces
  <2>7. /\ f.at \in CallPlaces /\ Function(f.at) = Function(Top.at)
        /\ c.at \notin CallPlaces /\ Function(c.at) = Callee(f.at)
    BY <1>1, <2>2, <2>4, CallPlaceNames, FunctionsOfPlaces, Callees
       DEF OuterPlaces, DefinitionPlaces
  <2>8. Since(f, st[1], pos', toks)
    BY <1>1, <1>2, <1>3, <1>5, <2>2, <2>7, StepSince
  <2> QED
    BY <1>1, <1>2, <1>3, <2>1, <2>2, <2>4, <2>5, <2>6, <2>7, <2>8, CallCovers, NothingPasses
<1>7. CASE ~StartsDefinition
  <2> DEFINE f == [Top EXCEPT !.at = "statements"]
  <2>1. stack' = <<f>> \o Tail(stack)
    BY <1>7 DEF Program, GoOn
  <2>2. f \in Frame /\ f.at = "statements" /\ f.own = Top.own
    BY <1>5, Moved DEF Places
  <2> HIDE DEF f
  <2>3. Pieces(f, st[1], pos', toks, nodes')
    BY <1>1, <1>3, <1>4, <2>2 DEF Pieces, OuterPlaces
  <2>4. f.at \notin CallPlaces /\ Function(f.at) = Function(Top.at)
    BY <1>1, <2>2, CallPlaceNames, FunctionsOfPlaces DEF OuterPlaces
  <2>5. Since(f, st[1], pos', toks)
    BY <1>1, <1>2, <1>3, <1>5, <2>2, <2>4, StepSince
  <2>6. Grows(nodes, nodes')
    BY <1>1, <1>3, TopFacts, GrowsSame
  <2> QED
    BY <1>1, <1>2, <1>3, <2>1, <2>2, <2>3, <2>4, <2>5, <2>6, GoOnCovers, NothingPasses
<1> QED
  BY <1>6, <1>7

(* Nodes in a row tile what they are in, whatever closes it.               *)
LEMMA RowTiles ==
  ASSUME NEW ns, NEW n, n.kids \in Seq(Nat), n.kids # <<>>, n.from \in Nat,
         \A k \in 1..Len(n.kids) : ns[n.kids[k]].to \in Nat,
         NEW b, NEW e, InRow(n.kids, b, e, ns), n.from = b + 1,
         NEW last, ns[n.kids[Len(n.kids)]].to + last = n.to
  PROVE  TilesIn(n, 0, 1, last, ns)
<1>1. ns[n.kids[1]].from = n.from + 0
  BY DEF InRow
<1>2. ASSUME NEW k \in 1..(Len(n.kids) - 1)
      PROVE  ns[n.kids[k + 1]].from = ns[n.kids[k]].to + 1 + 1
  <2>1. k \in 1..Len(n.kids)
    BY <1>2
  <2>2. ns[n.kids[k]].to \in Nat
    BY <2>1
  <2>3. ns[n.kids[k + 1]].from = ns[n.kids[k]].to + 2
    BY <1>2 DEF InRow
  <2> QED
    BY <2>2, <2>3
<1> QED
  BY <1>1, <1>2 DEF TilesIn

LEMMA Bounds ==
  ASSUME NEW ns \in Seq(Node), NEW own, \A k \in 1..Len(own) : own[k] \in 1..Len(ns)
  PROVE  \A k \in 1..Len(own) : ns[own[k]].from \in Nat /\ ns[own[k]].to \in Nat
<1> SUFFICES ASSUME NEW k \in 1..Len(own)
             PROVE  ns[own[k]].from \in Nat /\ ns[own[k]].to \in Nat
  OBVIOUS
<1>1. ns[own[k]] \in Node
  OBVIOUS
<1> QED
  BY <1>1 DEF Node

LEMMA NodeParts ==
  ASSUME NEW ns \in Seq(Node), NEW p \in 1..Len(ns)
  PROVE  /\ ns[p] \in Node /\ ns[p].from \in Nat /\ ns[p].to \in Nat
         /\ ns[p].token \in Nat /\ ns[p].dim \in Nat /\ ns[p].kids \in Seq(Nat)
<1>1. ns[p] \in Node
  OBVIOUS
<1> QED
  BY <1>1 DEF Node

LEMMA StatementsCover ==
  ASSUME IInv, CInv, Statements
  PROVE  CInv'
<1>1. stack # <<>> /\ Top.at = "statements"
  BY DEF Statements, At
<1>2. PICK st : CoveredBy(st)
  BY <1>1 DEF CInv, Covered
<1>3. toks' = toks /\ pos' = pos /\ HeapTiles(toks, nodes)
  BY DEF Statements, CInv
<1>4. /\ Pieces(Top, st[1], pos, toks, nodes) /\ st[1] = 0
      /\ Lines(Top.own, pos, toks, nodes)
  BY <1>1, <1>2, TopPieces, CallPlaceNames DEF Pieces, OuterPlaces
<1>5. /\ Top \in Frame /\ pos \in Nat /\ Top.own \in Seq(Nat) /\ nodes \in Seq(Node)
      /\ pos \in 0..Len(toks) /\ Len(toks) \in Nat /\ toks \in Seq(TokenTypes)
  BY <1>1, TopFacts
<1>6. CASE ~AtEnd
  <2> DEFINE f == [Top EXCEPT !.at = "program.statement"]
             c == Enter("statement", 0, 0)
  <2>1. stack' = <<c, f>> \o Tail(stack) /\ nodes' = nodes
    BY <1>6 DEF Statements, Call, CallFrom
  <2>2. f \in Frame /\ f.at = "program.statement" /\ f.own = Top.own
    BY <1>5, Moved DEF Places, Propagating
  <2>3. c \in Frame /\ c.at = "statement"
    <3>1. "statement" \in Places /\ 0 \in Nat
      BY DEF Places
    <3> QED
      BY <3>1, Entered
  <2> HIDE DEF f, c
  <2>4. Pieces(f, st[1], pos, toks, nodes)
    BY <1>1, <1>4, <2>2 DEF Pieces, OuterPlaces
  <2>5. Pieces(c, pos, pos, toks, nodes)
    BY <2>3 DEF Pieces, OuterPlaces
  <2>6. /\ f.at \in CallPlaces /\ Function(f.at) = Function(Top.at)
        /\ c.at \notin CallPlaces /\ Function(c.at) = Callee(f.at)
    <3>1. f.at \in CallPlaces /\ c.at \notin CallPlaces
      BY <2>2, <2>3, CallPlaceNames
    <3>2. Function(f.at) = "program" /\ Function(Top.at) = "program"
      BY <1>1, <2>2, FunctionsOfPlaces DEF OuterPlaces
    <3>3. c.at \in StatementPlaces
      BY <2>3 DEF StatementPlaces
    <3>4. Function(c.at) = "statement"
      BY <3>3, FunctionsOfPlaces
    <3>5. Callee(f.at) = "statement"
      BY <2>2, Callees
    <3> QED
      BY <3>1, <3>2, <3>4, <3>5
  <2>7. Since(f, st[1], pos', toks)
    <3>1. /\ pos' \in {pos, pos + 1} /\ (pos' = pos + 1 => toks[pos + 1] # "ASSIGN")
          /\ f.at # "assignment.expression"
      BY <1>3, <1>5, <2>2
    <3> QED
      BY ONLY IInv, <1>1, <1>2, <2>6, <3>1, StepSince
  <2> QED
    BY <1>1, <1>2, <1>3, <2>1, <2>2, <2>3, <2>4, <2>5, <2>6, <2>7, CallCovers, NothingPasses
<1>7. CASE AtEnd
  <2> DEFINE n == [kind |-> "Program", token |-> NoToken, kids |-> Top.own,
                   dim |-> 0, from |-> 1, to |-> Len(toks)]
  <2>1. nodes' = Append(nodes, n) /\ stack' = Tail(stack) /\ result' = NewPtr
    BY <1>7 DEF Statements, New, Return
  <2>2. stack' = <<>>
    <3>1. Top.at \in OuterPlaces /\ Top = stack[1] /\ Chain(stack) /\ stack \in Seq(Frame)
      BY <1>1, TopFacts DEF OuterPlaces, StackFine
    <3> QED
      BY <1>1, <2>1, <3>1, ChainReturn
  <2>3. /\ n \in Node /\ n.kind = "Program" /\ n.kids = Top.own
        /\ n.from = 1 /\ n.to = Len(toks)
    BY <1>5 DEF Node, NodeKinds, NoToken
  <2> HIDE DEF n
  <2>4. pos = Len(toks)
    BY <1>5, <1>7 DEF AtEnd
  <2>5. \A k \in 1..Len(n.kids) : n.kids[k] \in 1..Len(nodes)
    BY <1>1, <2>3, TopFacts DEF FrameFine
  <2>6. Linked(n, nodes)
    BY <2>3, <2>5 DEF Linked
  <2>7. toks # <<>> => TilesIn(n, 0, 1, 1, nodes)
    <3> SUFFICES ASSUME toks # <<>>
                 PROVE  TilesIn(n, 0, 1, 1, nodes)
      OBVIOUS
    <3>1. Len(toks) # 0
      BY <1>5
    <3>2. InRow(n.kids, 0, Len(toks), nodes)
      BY <1>4, <2>3, <2>4 DEF Lines
    <3>3. n.kids # <<>>
      BY <3>1, <3>2 DEF InRow
    <3>4. n.kids \in Seq(Nat) /\ n.from \in Nat /\ n.from = 0 + 1
      BY <1>5, <2>3
    <3>5. \A k \in 1..Len(n.kids) : nodes[n.kids[k]].to \in Nat
      BY <1>5, <2>5, Bounds
    <3>6. nodes[n.kids[Len(n.kids)]].to + 1 = n.to
      BY <2>3, <3>2, <3>3 DEF InRow
    <3> QED
      BY <3>2, <3>3, <3>4, <3>5, <3>6, RowTiles
  <2>8. CompleteIn(n, toks, nodes)
    <3>1. \A k \in 1..Len(n.kids) : toks[nodes[n.kids[k]].to + 1] = "NEWLINE"
      BY <1>4, <2>3 DEF Lines, IsChild
    <3> QED
      BY <2>3, <2>7, <3>1 DEF CompleteIn
  <2>9. /\ HeapTiles(toks, nodes') /\ Grows(nodes, nodes')
        /\ nodes'[NewPtr] = n
    BY <1>3, <2>1, <2>3, <2>6, <2>8, NewTiles
  <2>10. \A i \in 1..Len(Top.own) : nodes'[Top.own[i]] = nodes[Top.own[i]]
    BY <2>3, <2>5, <2>9 DEF Grows
  <2>11. Lines(n.kids, pos, toks, nodes')
    BY <1>4, <1>5, <2>3, <2>10, LinesGrow
  <2>12. Root'
    BY <1>3, <2>1, <2>3, <2>9, <2>11 DEF Root, Lines
  <2> QED
    BY <1>3, <2>2, <2>9, <2>12 DEF CInv, Covered
<1> QED
  BY <1>6, <1>7

(* One more node at the end of a row.                                      *)
LEMMA RowAppends ==
  ASSUME NEW ns, NEW own \in Seq(Nat), NEW p \in Nat, NEW b, NEW e, NEW q,
         \A k \in 1..Len(own) : ns[own[k]].to \in Nat,
         InRow(own, b, e, ns), SpansBefore(ns[p], e, q)
  PROVE  InRow(Append(own, p), b, q, ns)
<1> DEFINE more == Append(own, p)
<1>1. /\ more \in Seq(Nat) /\ Len(more) = Len(own) + 1 /\ Len(own) \in Nat
      /\ \A k \in 1..Len(own) : more[k] = own[k]
      /\ more[Len(own) + 1] = p
  BY OneMore
<1> HIDE DEF more
<1>2. ns[more[1]].from = b + 1
  <2>1. CASE own = <<>>
    BY <1>1, <2>1 DEF InRow, SpansBefore
  <2>2. CASE own # <<>>
    <3>1. 1 \in 1..Len(own)
      BY <2>2
    <3> QED
      BY <1>1, <2>2, <3>1 DEF InRow
  <2> QED
    BY <2>1, <2>2
<1>3. ns[more[Len(more)]].to + 1 = q
  BY <1>1 DEF SpansBefore
<1>4. ASSUME NEW k \in 1..(Len(more) - 1)
      PROVE  ns[more[k + 1]].from = ns[more[k]].to + 2
  <2>1. CASE k < Len(own)
    <3>1. k \in 1..(Len(own) - 1) /\ k \in 1..Len(own) /\ k + 1 \in 1..Len(own)
      BY <1>1, <1>4, <2>1
    <3> QED
      BY <1>1, <3>1 DEF InRow
  <2>2. CASE k = Len(own)
    <3>1. own # <<>> /\ k \in 1..Len(own)
      BY <1>1, <1>4, <2>2
    <3>2. ns[own[k]].to + 1 = e /\ ns[p].from = e + 1 /\ ns[own[k]].to \in Nat
      BY <2>2, <3>1 DEF InRow, SpansBefore
    <3>3. more[k + 1] = p /\ more[k] = own[k]
      BY <1>1, <2>2, <3>1
    <3> QED
      BY <3>2, <3>3
  <2> QED
    BY <1>1, <1>4, <2>1, <2>2
<1>5. more # <<>>
  BY <1>1
<1> QED
  BY <1>2, <1>3, <1>4, <1>5 DEF InRow, more

LEMMA ProgramChildCovers ==
  ASSUME IInv, CInv, ProgramChild
  PROVE  CInv'
<1>1. /\ stack # <<>> /\ Top.at \in {"program.definition", "program.statement"}
      /\ result # Null
  BY DEF ProgramChild, At
<1>2. PICK st : CoveredBy(st)
  BY <1>1 DEF CInv, Covered
<1>3. toks' = toks /\ pos' = pos /\ nodes' = nodes /\ HeapTiles(toks, nodes)
  BY DEF ProgramChild, CInv
<1>4. PICK e \in Nat : /\ Pieces(Top, st[1], e, toks, nodes)
                       /\ Returned(Callee(Top.at), e, pos, nodes[result], toks)
  BY <1>1, <1>2, TopPieces, CallPlaceNames
<1>5. /\ Top \in Frame /\ pos \in Nat /\ Top.own \in Seq(Nat) /\ nodes \in Seq(Node)
      /\ result \in Nat /\ FrameFine(Top, toks, nodes)
  BY <1>1, TopFacts, ResultFacts
<1> DEFINE own == Append(Top.own, result)
           f == [Top EXCEPT !.own = own,
                            !.at = IF @ = "program.definition" THEN "program" ELSE "statements"]
<1>6. stack' = <<f>> \o Tail(stack)
  BY DEF ProgramChild, GoOn
<1>7. /\ own \in Seq(Nat) /\ Len(own) = Len(Top.own) + 1 /\ Len(Top.own) \in Nat
      /\ \A k \in 1..Len(Top.own) : own[k] = Top.own[k]
      /\ own[Len(Top.own) + 1] = result
  BY <1>5, OneMore
<1>8. st[1] = 0 /\ Lines(Top.own, e, toks, nodes)
  BY <1>1, <1>4 DEF Pieces, OuterPlaces
<1>9. InRow(own, 0, pos, nodes)
  <2>1. SpansBefore(nodes[result], e, pos)
    BY <1>1, <1>4, Callees DEF Returned
  <2>2. \A k \in 1..Len(Top.own) : nodes[Top.own[k]].to \in Nat
    BY <1>5, Bounds DEF FrameFine
  <2> QED
    BY <1>5, <1>8, <2>1, <2>2, RowAppends DEF Lines
<1> HIDE DEF own
<1>10. /\ f \in Frame /\ f.own = own
       /\ f.at = IF Top.at = "program.definition" THEN "program" ELSE "statements"
  BY <1>5, <1>7 DEF Frame, Places
<1> HIDE DEF f
<1>11. ASSUME NEW k \in 1..Len(own)
       PROVE  \/ k \in 1..Len(Top.own) /\ own[k] = Top.own[k]
              \/ k = Len(Top.own) + 1 /\ own[k] = result
  BY <1>7, <1>11
<1>12. /\ IsChild(nodes[result], toks)
       /\ Top.at = "program.definition" => nodes[result].kind = "VariableDefinition"
       /\ Top.at = "program.statement" => nodes[result].kind = "AssignmentStatement"
  BY <1>1, <1>4, Callees DEF Returned
<1>13. Top.at = "program.definition" => OnlyDefinitions(own, nodes)
  BY <1>4, <1>11, <1>12 DEF Pieces, OnlyDefinitions
<1>14. Sorted(own, nodes)
  <2> SUFFICES ASSUME NEW k \in 1..Len(own), k > 1,
                      nodes[own[k]].kind = "VariableDefinition"
               PROVE  nodes[own[k - 1]].kind = "VariableDefinition"
    BY DEF Sorted
  <2>1. k - 1 \in 1..Len(own)
    BY <1>7
  <2>2. CASE k \in 1..Len(Top.own)
    <3>1. k - 1 \in 1..Len(Top.own)
      BY <1>7, <2>2
    <3> QED
      BY <1>7, <1>8, <2>2, <3>1 DEF Lines, Sorted
  <2>3. CASE k = Len(Top.own) + 1
    <3>1. Top.at = "program.definition"
      BY <1>1, <1>7, <1>12, <2>3
    <3> QED
      BY <1>13, <2>1, <3>1 DEF OnlyDefinitions
  <2> QED
    BY <1>11, <2>2, <2>3
<1>15. Lines(own, pos, toks, nodes)
  BY <1>8, <1>9, <1>11, <1>12, <1>14 DEF Lines
<1>16. Pieces(f, st[1], pos', toks, nodes')
  BY <1>1, <1>3, <1>8, <1>10, <1>13, <1>15 DEF Pieces, OuterPlaces
<1>17. f.at \notin CallPlaces /\ Function(f.at) = Function(Top.at)
  BY <1>1, <1>10, CallPlaceNames, FunctionsOfPlaces DEF OuterPlaces
<1>18. Since(f, st[1], pos', toks)
  BY <1>1, <1>2, <1>3, <1>5, <1>10, <1>17, StepSince
<1>19. Grows(nodes, nodes')
  BY <1>3, <1>5, GrowsSame
<1> QED
  BY <1>1, <1>2, <1>3, <1>6, <1>10, <1>16, <1>17, <1>18, <1>19, GoOnCovers, NothingPasses

----------------------------------------------------------------------------
(* parseVariableDefinition                                                 *)

LEMMA DefinitionCovers ==
  ASSUME IInv, CInv, Definition
  PROVE  CInv'
<1> DEFINE f == [Top EXCEPT !.at = "definition.variable"]
           c == Enter("typedVariable", 0, 0)
<1>1. stack # <<>> /\ Top.at = "definition"
  BY DEF Definition, At
<1>2. PICK st : CoveredBy(st)
  BY <1>1 DEF CInv, Covered
<1>3. /\ toks' = toks /\ pos' = pos /\ nodes' = nodes /\ HeapTiles(toks, nodes)
      /\ stack' = <<c, f>> \o Tail(stack)
  BY DEF Definition, CInv, Call, CallFrom
<1>4. Pieces(Top, st[1], pos, toks, nodes)
  BY <1>1, <1>2, TopPieces, CallPlaceNames
<1>5. Top \in Frame /\ pos \in Nat
  BY <1>1, TopFacts
<1>6. f \in Frame /\ f.at = "definition.variable" /\ f.own = Top.own /\ f.token = Top.token
  BY <1>5, Moved DEF Places, Propagating
<1>7. c \in Frame /\ c.at = "typedVariable"
  <2>1. "typedVariable" \in Places /\ 0 \in Nat
    BY DEF Places
  <2> QED
    BY <2>1, Entered
<1> HIDE DEF f, c
<1>8. Pieces(f, st[1], pos, toks, nodes)
  BY <1>1, <1>4, <1>6 DEF Pieces, OuterPlaces
<1>9. Pieces(c, pos, pos, toks, nodes)
  BY <1>7 DEF Pieces, OuterPlaces
<1>10. /\ f.at \in CallPlaces /\ Function(f.at) = Function(Top.at)
       /\ c.at \notin CallPlaces /\ Function(c.at) = Callee(f.at)
  BY <1>1, <1>6, <1>7, CallPlaceNames, FunctionsOfPlaces, Callees DEF DefinitionPlaces
<1>11. Since(f, st[1], pos', toks)
  BY <1>1, <1>2, <1>3, <1>5, <1>6, <1>10, StepSince
<1> QED
  BY <1>1, <1>2, <1>3, <1>6, <1>7, <1>8, <1>9, <1>10, <1>11, CallCovers, NothingPasses

(* A token that is consumed where it matches.                              *)
LEMMA Matches ==
  ASSUME IInv, stack # <<>>, NEW types, Expect(types), types \subseteq TokenTypes
  PROVE  pos' = pos + 1 /\ pos \in Nat /\ toks[pos + 1] \in types /\ pos + 1 \in 1..Len(toks)
<1>1. Current \in types /\ pos' = pos + 1
  BY DEF Expect, Match, Advance
<1>2. Current # "empty optional"
  BY <1>1, TokenClasses
<1>3. pos \in Nat
  BY TopFacts
<1>4. pos + 1 \in 1..Len(toks) /\ toks[pos + 1] = Current
  BY <1>2, InRange
<1> QED
  BY <1>1, <1>3, <1>4

LEMMA DefinitionAssignCovers ==
  ASSUME IInv, CInv, DefinitionAssign
  PROVE  CInv'
<1>1. /\ stack # <<>> /\ Top.at = "definition.variable" /\ result # Null /\ toks' = toks
      /\ HeapTiles(toks, nodes)
  BY DEF DefinitionAssign, At, CInv
<1>2. PICK st : CoveredBy(st)
  BY <1>1 DEF CInv, Covered
<1>3. CASE Match({"ASSIGN"})
  <2> DEFINE own == <<result>>
             f == [Top EXCEPT !.at = "definition.literal", !.own = own]
             c == Enter("literal", 0, 0)
  <2>1. /\ nodes' = nodes /\ stack' = <<c, f>> \o Tail(stack) /\ Expect({"ASSIGN"})
    BY <1>3 DEF DefinitionAssign, CallFrom, Expect
  <2>2. Top \in Frame /\ result \in Nat
    BY <1>1, TopFacts, ResultFacts
  <2>3. own \in Seq(Nat) /\ own[1] = result /\ "definition.literal" \in Places
    BY <2>2 DEF Places, Propagating
  <2> HIDE DEF own
  <2>4. /\ f \in Frame /\ f.at = "definition.literal" /\ f.own = own
        /\ f.token = Top.token
    BY <2>2, <2>3 DEF Frame
  <2>5. c \in Frame /\ c.at = "literal"
    <3>1. "literal" \in Places /\ 0 \in Nat
      BY DEF Places
    <3> QED
      BY <3>1, Entered
  <2> HIDE DEF f, c
  <2>6. pos' = pos + 1 /\ pos \in Nat /\ pos' \in Nat /\ pos <= pos'
    <3>1. {"ASSIGN"} \subseteq TokenTypes
      BY TokenClasses
    <3>2. pos' = pos + 1 /\ pos \in Nat
      BY <1>1, <2>1, <3>1, Matches
    <3> QED
      BY <3>2
  <2>7. PICK e \in Nat : /\ Pieces(Top, st[1], e, toks, nodes)
                         /\ Returned(Callee(Top.at), e, pos, nodes[result], toks)
    BY <1>1, <1>2, TopPieces, CallPlaceNames
  <2>8. /\ e = st[1] /\ Top.token = st[1] + 1
        /\ nodes[result].kind = "TypedVariable" /\ Len(nodes[result].kids) = 2
        /\ Spans(nodes[result], e, pos)
    BY <1>1, <2>7, Callees DEF Pieces, Returned, OuterPlaces
  <2>9. SpansBefore(nodes[result], st[1], pos')
    BY <2>6, <2>8 DEF Spans, SpansBefore
  <2>10. Pieces(f, st[1], pos', toks, nodes)
    BY <2>3, <2>4, <2>8, <2>9 DEF Pieces, OuterPlaces
  <2>11. Pieces(c, pos', pos', toks, nodes)
    BY <2>5 DEF Pieces, OuterPlaces
  <2>12. /\ f.at \in CallPlaces /\ Function(f.at) = Function(Top.at)
         /\ Function(Top.at) = "definition"
         /\ c.at \notin CallPlaces /\ Function(c.at) = Callee(f.at)
    BY <1>1, <2>4, <2>5, CallPlaceNames, FunctionsOfPlaces, Callees DEF DefinitionPlaces
  <2>13. Passes(stack, pos, pos', toks)
    BY <1>1, <1>2, <2>12, NobodyWaits
  <2>14. Since(f, st[1], pos', toks)
    <3>1. st[1] <= pos /\ st[1] \in Nat
      BY <1>1, <1>2, CoverFacts DEF Since
    <3>2. ~Guarded(f)
      BY <2>4, <2>12 DEF Guarded, ExpressionFunctions
    <3> QED
      BY <2>6, <3>1, <3>2 DEF Since
  <2> QED
    BY <1>1, <1>2, <2>1, <2>4, <2>5, <2>6, <2>10, <2>11, <2>12, <2>13, <2>14, CallCovers
<1>4. CASE ~Match({"ASSIGN"})
  BY <1>1, <1>4, FailuresCover DEF DefinitionAssign, Expect
<1> QED
  BY <1>3, <1>4

(* A node that is returned, with what was read since the activation began. *)
LEMMA NewReturnCovers ==
  ASSUME IInv, stack # <<>>, CInv, NEW st, CoveredBy(st), toks' = toks,
         NEW n \in Node, nodes' = Append(nodes, n), Return(NewPtr),
         Linked(n, nodes), CompleteIn(n, toks, nodes),
         pos' \in {pos, pos + 1}, pos' = pos + 1 => toks[pos + 1] # "ASSIGN",
         Top.at \in InnerPlaces, Returned(Function(Top.at), st[1], pos', n, toks)
  PROVE  CInv'
<1>1. /\ HeapTiles(toks, nodes') /\ Grows(nodes, nodes')
      /\ nodes'[NewPtr] = n /\ NewPtr # Null
  BY NewTiles DEF CInv
<1>2. pos' \in Nat /\ pos <= pos' /\ Passes(stack, pos, pos', toks)
  BY NothingPasses, OnePasses
<1> QED
  BY <1>1, <1>2, ReturnCovers DEF Return

LEMMA DefinitionEndCovers ==
  ASSUME IInv, CInv, DefinitionEnd
  PROVE  CInv'
<1>1. /\ stack # <<>> /\ Top.at = "definition.literal" /\ result # Null
      /\ toks' = toks /\ HeapTiles(toks, nodes)
  BY DEF DefinitionEnd, At, CInv
<1>2. PICK st : CoveredBy(st)
  BY <1>1 DEF CInv, Covered
<1>3. CASE Match({"NEWLINE"})
  <2> DEFINE v == nodes[Top.own[1]]
             kids == Append(v.kids, result)
             n == [kind |-> "VariableDefinition", token |-> NoToken, kids |-> kids,
                   dim |-> 0, from |-> Top.token, to |-> pos]
  <2>1. nodes' = Append(nodes, n) /\ Return(NewPtr) /\ Expect({"NEWLINE"})
    BY <1>3 DEF DefinitionEnd, New, EndsLine, Expect
  <2>2. pos' = pos + 1 /\ pos \in Nat /\ toks[pos + 1] = "NEWLINE"
    <3>1. {"NEWLINE"} \subseteq TokenTypes
      BY DEF TokenTypes
    <3> QED
      BY <1>1, <2>1, <3>1, Matches
  <2>3. /\ Top.own[1] \in 1..Len(nodes) /\ result \in 1..Len(nodes) /\ result \in Nat
        /\ nodes \in Seq(Node) /\ Top.token \in Nat
    BY <1>1, TopFacts, ResultFacts DEF FrameFine, OwnsOne
  <2>4. PICK e \in Nat : /\ Pieces(Top, st[1], e, toks, nodes)
                         /\ Returned(Callee(Top.at), e, pos, nodes[result], toks)
    BY <1>1, <1>2, TopPieces, CallPlaceNames
  <2>5. /\ Top.token = st[1] + 1 /\ v.kind = "TypedVariable" /\ Len(v.kids) = 2
        /\ SpansBefore(v, st[1], e) /\ Spans(nodes[result], e, pos)
    BY <1>1, <2>4, Callees DEF Pieces, Returned, OuterPlaces
  <2>6. v \in Node /\ Linked(v, nodes) /\ CompleteIn(v, toks, nodes)
    BY <1>1, <2>3 DEF HeapTiles
  <2> HIDE DEF v
  <2>7. TilesIn(v, 0, 1, 0, nodes) /\ v.kids \in Seq(Nat) /\ v.from \in Nat /\ v.to \in Nat
        /\ \A k \in 1..Len(v.kids) : v.kids[k] \in 1..Len(nodes)
    BY <2>5, <2>6 DEF CompleteIn, Linked, Node
  <2>8. /\ kids \in Seq(Nat) /\ Len(kids) = 3 /\ kids[1] = v.kids[1]
        /\ kids[2] = v.kids[2] /\ kids[3] = result
    <3>1. /\ kids \in Seq(Nat) /\ Len(kids) = Len(v.kids) + 1
          /\ \A k \in 1..Len(v.kids) : kids[k] = v.kids[k]
          /\ kids[Len(v.kids) + 1] = result
      BY <2>3, <2>7, OneMore
    <3> HIDE DEF kids
    <3> QED
      BY <2>5, <3>1
  <2> HIDE DEF kids
  <2>9. /\ n \in Node /\ n.kind = "VariableDefinition" /\ n.kids = kids
        /\ n.from = Top.token /\ n.to = pos
    BY <2>2, <2>3, <2>8 DEF Node, NodeKinds, NoToken
  <2> HIDE DEF n
  <2>10. Linked(n, nodes)
    <3>1. \A k \in 1..Len(kids) : k \in {1, 2, 3}
      BY <2>8
    <3>2. v.kids[1] \in 1..Len(nodes) /\ v.kids[2] \in 1..Len(nodes)
      BY <2>5, <2>7
    <3> QED
      BY <2>3, <2>8, <2>9, <3>1, <3>2 DEF Linked
  <2>11. TilesIn(n, 0, 1, 0, nodes)
    <3>1. v.kids[1] \in 1..Len(nodes) /\ v.kids[2] \in 1..Len(nodes)
      BY <2>5, <2>7
    <3>2. nodes[v.kids[1]].to \in Nat /\ nodes[v.kids[2]].to \in Nat
      BY <2>3, <3>1, NodeParts
    <3>3. /\ nodes[v.kids[1]].from = v.from + 0
          /\ nodes[v.kids[2]].from = nodes[v.kids[1]].to + 1 + 1
          /\ nodes[v.kids[2]].to + 0 = v.to
      <4>1. 1 \in 1..(Len(v.kids) - 1) /\ 1 + 1 = 2 /\ Len(v.kids) = 2
        BY <2>5
      <4> QED
        BY <2>7, <4>1 DEF TilesIn
    <3>4. /\ v.from = st[1] + 1 /\ v.to + 1 = e /\ nodes[result].from = e + 1
          /\ nodes[result].to = pos
      BY <2>5 DEF Spans, SpansBefore
    <3>5. \A k \in 1..(Len(kids) - 1) : k \in {1, 2}
      BY <2>8
    <3>6. nodes[kids[2]].from = nodes[kids[1]].to + 1 + 1
      BY <2>8, <3>3
    <3>7. nodes[kids[3]].from = nodes[kids[2]].to + 1 + 1
      <4>1. kids[2] = v.kids[2] /\ kids[3] = result
        BY <2>8
      <4>2. nodes[result].from = nodes[v.kids[2]].to + 1 + 1
        BY ONLY <3>2, <3>3, <3>4
      <4> QED
        BY <4>1, <4>2
    <3>8. nodes[kids[1]].from = n.from + 0 /\ nodes[kids[3]].to + 0 = n.to /\ kids # <<>>
      BY <2>2, <2>5, <2>7, <2>8, <2>9, <3>2, <3>3, <3>4
    <3>9. \A k \in 1..(Len(kids) - 1) : nodes[kids[k + 1]].from = nodes[kids[k]].to + 1 + 1
      BY <3>5, <3>6, <3>7
    <3> QED
      BY <2>8, <2>9, <3>8, <3>9 DEF TilesIn
  <2>12. CompleteIn(n, toks, nodes)
    BY <2>9, <2>11 DEF CompleteIn
  <2>13. Returned(Function(Top.at), st[1], pos', n, toks)
    <3>1. Function(Top.at) = "definition"
      BY <1>1, FunctionsOfPlaces DEF DefinitionPlaces
    <3>2. SpansBefore(n, st[1], pos') /\ IsChild(n, toks)
      BY <2>2, <2>5, <2>9 DEF SpansBefore, IsChild
    <3> QED
      BY <2>9, <3>1, <3>2 DEF Returned
  <2>14. Top.at \in InnerPlaces
    BY <1>1, PlacesAreStrings DEF DefinitionPlaces
  <2> QED
    BY <1>1, <1>2, <2>1, <2>2, <2>9, <2>10, <2>12, <2>13, <2>14, NewReturnCovers
<1>4. CASE ~Match({"NEWLINE"})
  BY <1>1, <1>4, FailuresCover DEF DefinitionEnd, EndsLine, Expect
<1> QED
  BY <1>3, <1>4

----------------------------------------------------------------------------
(* parseTypedVariable                                                      *)

LEMMA LeafTiles ==
  ASSUME NEW kind \in {"Identifier", "Literal", "Type"}, NEW q \in Nat, NEW ts, NEW ns
  PROVE  LET n == [kind |-> kind, token |-> q, kids |-> <<>>, dim |-> 0,
                   from |-> q, to |-> q]
         IN  /\ n \in Node /\ Linked(n, ns) /\ CompleteIn(n, ts, ns)
             /\ n.kind = kind /\ n.from = q /\ n.to = q
<1> DEFINE n == [kind |-> kind, token |-> q, kids |-> <<>>, dim |-> 0,
                 from |-> q, to |-> q]
<1>1. <<>> \in Seq(Nat) /\ Len(<<>>) = 0
  OBVIOUS
<1>2. n \in Node
  BY <1>1 DEF Node, NodeKinds
<1>3. /\ n.kind = kind /\ n.token = q /\ n.kids = <<>> /\ n.dim = 0
      /\ n.from = q /\ n.to = q
  OBVIOUS
<1> HIDE DEF n
<1>4. Linked(n, ns)
  BY <1>1, <1>3 DEF Linked
<1>5. CompleteIn(n, ts, ns)
  <2>1. CASE kind = "Type"
    <3>1. n.from = n.token - n.dim /\ n.to = n.token + n.dim
      BY <1>3
    <3> QED
      BY <1>3, <2>1, <3>1 DEF CompleteIn
  <2>2. CASE kind \in {"Identifier", "Literal"}
    BY <1>3, <2>2 DEF CompleteIn
  <2> QED
    BY <2>1, <2>2
<1> QED
  BY <1>2, <1>3, <1>4, <1>5 DEF n

LEMMA TypedVariableCovers ==
  ASSUME IInv, CInv, TypedVariable
  PROVE  CInv'
<1>1. stack # <<>> /\ Top.at = "typedVariable" /\ toks' = toks /\ HeapTiles(toks, nodes)
  BY DEF TypedVariable, At, CInv
<1>2. PICK st : CoveredBy(st)
  BY <1>1 DEF CInv, Covered
<1>3. CASE Match({"ID"})
  <2> DEFINE n == [kind |-> "Identifier", token |-> pos + 1, kids |-> <<>>,
                   dim |-> 0, from |-> pos + 1, to |-> pos + 1]
             own == <<NewPtr>>
             f == [Top EXCEPT !.at = "typedVariable.colon", !.own = own]
  <2>1. /\ nodes' = Append(nodes, n) /\ Expect({"ID"})
        /\ stack' = <<f>> \o Tail(stack)
    BY <1>3 DEF TypedVariable, New, GoOn, Expect
  <2>2. /\ pos' = pos + 1 /\ pos \in Nat /\ toks[pos + 1] # "ASSIGN"
    <3>1. {"ID"} \subseteq TokenTypes
      BY TokenClasses
    <3> QED
      BY <1>1, <2>1, <3>1, Matches
  <2>3. /\ n \in Node /\ Linked(n, nodes) /\ CompleteIn(n, toks, nodes)
        /\ n.from = pos + 1 /\ n.to = pos + 1
    <3>1. pos + 1 \in Nat
      BY <2>2
    <3> QED
      BY <3>1, LeafTiles
  <2> HIDE DEF n
  <2>4. /\ HeapTiles(toks, nodes') /\ Grows(nodes, nodes') /\ nodes'[NewPtr] = n
    BY <1>1, <2>1, <2>3, NewTiles
  <2>5. Top \in Frame /\ NewPtr \in Nat
    BY <1>1, TopFacts DEF NewPtr
  <2>6. own \in Seq(Nat) /\ own[1] = NewPtr /\ "typedVariable.colon" \in Places
    BY <2>5 DEF Places
  <2> HIDE DEF own
  <2>7. f \in Frame /\ f.at = "typedVariable.colon" /\ f.own = own
    BY <2>5, <2>6 DEF Frame
  <2> HIDE DEF f
  <2>8. st[1] = pos
    BY <1>1, <1>2, TopPieces, CallPlaceNames DEF Pieces
  <2>9. Spans(n, st[1], pos')
    BY <2>2, <2>3, <2>8 DEF Spans
  <2>10. Pieces(f, st[1], pos', toks, nodes')
    BY <2>4, <2>6, <2>7, <2>9 DEF Pieces, OuterPlaces
  <2>11. f.at \notin CallPlaces /\ Function(f.at) = Function(Top.at)
    BY <1>1, <2>7, CallPlaceNames, FunctionsOfPlaces
  <2>12. Since(f, st[1], pos', toks)
    BY <1>1, <1>2, <2>2, <2>7, <2>11, StepSince
  <2> QED
    BY <1>1, <1>2, <2>1, <2>2, <2>4, <2>7, <2>10, <2>11, <2>12, GoOnCovers, OnePasses
<1>4. CASE ~Match({"ID"})
  BY <1>1, <1>4, FailuresCover DEF TypedVariable
<1> QED
  BY <1>3, <1>4

LEMMA TypedVariableColonCovers ==
  ASSUME IInv, CInv, TypedVariableColon
  PROVE  CInv'
<1>1. /\ stack # <<>> /\ Top.at = "typedVariable.colon" /\ toks' = toks
      /\ HeapTiles(toks, nodes)
  BY DEF TypedVariableColon, At, CInv
<1>2. PICK st : CoveredBy(st)
  BY <1>1 DEF CInv, Covered
<1>3. CASE Match({"COLON"})
  <2> DEFINE f == [Top EXCEPT !.at = "typedVariable.type"]
             c == Enter("type", 0, 0)
  <2>1. /\ nodes' = nodes /\ stack' = <<c, f>> \o Tail(stack) /\ Expect({"COLON"})
    BY <1>3 DEF TypedVariableColon, Call, CallFrom, Expect
  <2>2. /\ pos' = pos + 1 /\ pos \in Nat /\ pos' \in Nat /\ toks[pos + 1] # "ASSIGN"
    <3>1. {"COLON"} \subseteq TokenTypes
      BY TokenClasses
    <3>2. pos' = pos + 1 /\ pos \in Nat /\ toks[pos + 1] # "ASSIGN"
      BY <1>1, <2>1, <3>1, Matches
    <3> QED
      BY <3>2
  <2>3. f \in Frame /\ f.at = "typedVariable.type" /\ f.own = Top.own
    <3>1. Top \in Frame /\ "typedVariable.type" \in Places
      BY <1>1, TopFacts DEF Places, Propagating
    <3> QED
      BY <3>1, Moved
  <2>4. c \in Frame /\ c.at = "type"
    <3>1. "type" \in Places /\ 0 \in Nat
      BY DEF Places
    <3> QED
      BY <3>1, Entered
  <2> HIDE DEF f, c
  <2>5. Spans(nodes[Top.own[1]], st[1], pos)
    BY <1>1, <1>2, TopPieces, CallPlaceNames DEF Pieces
  <2>6. SpansBefore(nodes[Top.own[1]], st[1], pos')
    BY <2>2, <2>5 DEF Spans, SpansBefore
  <2>7. Pieces(f, st[1], pos', toks, nodes)
    BY <2>3, <2>6 DEF Pieces, OuterPlaces
  <2>8. Pieces(c, pos', pos', toks, nodes)
    BY <2>4 DEF Pieces, OuterPlaces
  <2>9. /\ f.at \in CallPlaces /\ Function(f.at) = Function(Top.at)
        /\ c.at \notin CallPlaces /\ Function(c.at) = Callee(f.at)
    BY <1>1, <2>3, <2>4, CallPlaceNames, FunctionsOfPlaces, Callees
  <2>10. Since(f, st[1], pos', toks)
    BY <1>1, <1>2, <2>2, <2>3, <2>9, StepSince
  <2> QED
    BY <1>1, <1>2, <2>1, <2>2, <2>3, <2>4, <2>7, <2>8, <2>9, <2>10, CallCovers, OnePasses
<1>4. CASE ~Match({"COLON"})
  BY <1>1, <1>4, FailuresCover DEF TypedVariableColon
<1> QED
  BY <1>3, <1>4

(* Two nodes with one token between them tile what they are in.            *)
LEMMA TwoTiles ==
  ASSUME NEW ns, NEW n, NEW l, NEW r, n.kids = <<l, r>>,
         ns[l].from = n.from, ns[l].from \in Nat, ns[l].to \in Nat,
         ns[r].from = ns[l].to + 2, ns[r].to = n.to, ns[r].to \in Nat
  PROVE  TilesIn(n, 0, 1, 0, ns)
<1>1. Len(n.kids) = 2 /\ n.kids[1] = l /\ n.kids[2] = r /\ n.kids # <<>>
  OBVIOUS
<1>2. \A k \in 1..(Len(n.kids) - 1) : k = 1
  BY <1>1
<1>3. ns[n.kids[1]].from = n.from + 0 /\ ns[n.kids[2]].to + 0 = n.to
  BY <1>1
<1>4. ns[n.kids[2]].from = ns[n.kids[1]].to + 1 + 1
  BY <1>1
<1> QED
  BY <1>1, <1>2, <1>3, <1>4 DEF TilesIn

LEMMA TypedVariableEndCovers ==
  ASSUME IInv, CInv, TypedVariableEnd
  PROVE  CInv'
<1>1. /\ stack # <<>> /\ Top.at = "typedVariable.type" /\ result # Null
      /\ toks' = toks /\ pos' = pos /\ HeapTiles(toks, nodes)
  BY DEF TypedVariableEnd, At, CInv
<1>2. PICK st : CoveredBy(st)
  BY <1>1 DEF CInv, Covered
<1> DEFINE l == Top.own[1]
           kids == <<l, result>>
           n == [kind |-> "TypedVariable", token |-> NoToken, kids |-> kids,
                 dim |-> 0, from |-> nodes[l].from, to |-> pos]
<1>3. nodes' = Append(nodes, n) /\ Return(NewPtr)
  BY DEF TypedVariableEnd, New
<1>4. /\ l \in 1..Len(nodes) /\ result \in 1..Len(nodes) /\ result \in Nat
      /\ nodes \in Seq(Node) /\ Len(nodes) \in Nat /\ pos \in Nat
  BY <1>1, TopFacts, ResultFacts DEF FrameFine, OwnsOne
<1>5. PICK e \in Nat : /\ Pieces(Top, st[1], e, toks, nodes)
                       /\ Returned(Callee(Top.at), e, pos, nodes[result], toks)
  BY <1>1, <1>2, TopPieces, CallPlaceNames
<1>6. /\ nodes[l].from = st[1] + 1 /\ nodes[l].to + 1 = e
      /\ nodes[result].from = e + 1 /\ nodes[result].to = pos
  BY <1>1, <1>5, Callees DEF Pieces, Returned, Spans, SpansBefore
<1> HIDE DEF l
<1>7. nodes[l].from \in Nat /\ nodes[l].to \in Nat
  BY <1>4, NodeParts
<1>8. kids \in Seq(Nat) /\ Len(kids) = 2 /\ \A k \in 1..Len(kids) : kids[k] \in 1..Len(nodes)
  BY <1>4
<1>9. kids = <<l, result>>
  OBVIOUS
<1> HIDE DEF kids
<1>10. /\ n \in Node /\ n.kind = "TypedVariable" /\ n.kids = kids
       /\ n.from = nodes[l].from /\ n.to = pos
  BY <1>4, <1>7, <1>8 DEF Node, NodeKinds, NoToken
<1> HIDE DEF n
<1>11. Linked(n, nodes)
  BY <1>8, <1>10 DEF Linked
<1>12. CompleteIn(n, toks, nodes)
  <2>1. nodes[result].from = nodes[l].to + 2 /\ nodes[result].to \in Nat
    BY <1>4, <1>6, <1>7
  <2>2. TilesIn(n, 0, 1, 0, nodes)
    BY <1>6, <1>7, <1>9, <1>10, <2>1, TwoTiles
  <2> QED
    BY <1>10, <2>2 DEF CompleteIn
<1>13. Returned(Function(Top.at), st[1], pos', n, toks)
  <2>1. Function(Top.at) = "typedVariable"
    BY <1>1, FunctionsOfPlaces
  <2> QED
    BY <1>1, <1>6, <1>8, <1>10, <2>1 DEF Returned, Spans
<1>14. Top.at \in InnerPlaces
  BY <1>1, DeepPlaces DEF Deep
<1>15. pos' \in {pos, pos + 1} /\ (pos' = pos + 1 => toks[pos + 1] # "ASSIGN")
  BY <1>1, <1>4
<1> QED
  BY <1>1, <1>2, <1>3, <1>10, <1>11, <1>12, <1>13, <1>14, <1>15, NewReturnCovers

----------------------------------------------------------------------------
(* parseType and parseLiteral                                              *)

(* A leaf that is returned by the function that has read its token.        *)
LEMMA LeafCovers ==
  ASSUME IInv, stack # <<>>, CInv, toks' = toks, NEW st, CoveredBy(st),
         NEW types, Expect(types), types \subseteq TokenTypes, "ASSIGN" \notin types,
         NEW kind \in {"Identifier", "Literal", "Type"},
         New(kind, pos + 1, <<>>, 0, pos + 1, pos + 1), Return(NewPtr),
         Top.at \in {"type", "literal", "prefix"},
         Top.at = "type" => kind = "Type"
  PROVE  CInv'
<1> DEFINE n == [kind |-> kind, token |-> pos + 1, kids |-> <<>>,
                 dim |-> 0, from |-> pos + 1, to |-> pos + 1]
<1>1. nodes' = Append(nodes, n)
  BY DEF New
<1>2. /\ pos' = pos + 1 /\ pos \in Nat /\ toks[pos + 1] # "ASSIGN"
  BY Matches
<1>3. /\ n \in Node /\ Linked(n, nodes) /\ CompleteIn(n, toks, nodes)
      /\ n.kind = kind /\ n.from = pos + 1 /\ n.to = pos + 1
  <2>1. pos + 1 \in Nat
    BY <1>2
  <2> QED
    BY <2>1, LeafTiles
<1> HIDE DEF n
<1>4. st[1] = pos
  BY TopPieces, CallPlaceNames DEF Pieces
<1>5. Returned(Function(Top.at), st[1], pos', n, toks)
  <2>1. /\ Function(Top.at) \in {"type", "literal", "prefix"}
        /\ Function(Top.at) = "type" => kind = "Type"
    BY FunctionsOfPlaces
  <2>2. Spans(n, st[1], pos')
    BY <1>2, <1>3, <1>4 DEF Spans
  <2> QED
    BY <1>3, <2>1, <2>2 DEF Returned
<1>6. Top.at \in InnerPlaces
  BY DeepPlaces DEF Deep
<1>7. pos' \in {pos, pos + 1}
  BY <1>2
<1> QED
  BY <1>1, <1>2, <1>3, <1>5, <1>6, <1>7, NewReturnCovers

LEMMA TypeCovers ==
  ASSUME IInv, CInv, Type
  PROVE  CInv'
<1>1. stack # <<>> /\ Top.at = "type" /\ toks' = toks /\ HeapTiles(toks, nodes)
  BY DEF Type, At, CInv
<1>2. PICK st : CoveredBy(st)
  BY <1>1 DEF CInv, Covered
<1>3. CASE Match({"ID", "IDSTRING"}) /\ ~Match({"OPENBRACK"})
  <2>1. /\ Expect({"ID", "IDSTRING"}) /\ Return(NewPtr)
        /\ New("Type", pos + 1, <<>>, 0, pos + 1, pos + 1)
    BY <1>3 DEF Type, Expect, Match
  <2>2. {"ID", "IDSTRING"} \subseteq TokenTypes
    BY TokenClasses
  <2> QED
    BY <1>1, <1>2, <2>1, <2>2, LeafCovers
<1>4. CASE Match({"OPENBRACK"})
  <2> DEFINE t == pos + 1
             f == [Top EXCEPT !.at = "type.bracket", !.token = t]
             c == Enter("type", 0, 0)
  <2>1. /\ nodes' = nodes /\ stack' = <<c, f>> \o Tail(stack) /\ Expect({"OPENBRACK"})
    BY <1>4 DEF Type, CallFrom, Expect, Match
  <2>2. /\ pos' = pos + 1 /\ pos \in Nat /\ toks[pos + 1] # "ASSIGN" /\ pos' = t /\ t \in Nat
    <3>1. {"OPENBRACK"} \subseteq TokenTypes
      BY TokenClasses
    <3>2. pos' = pos + 1 /\ pos \in Nat /\ toks[pos + 1] # "ASSIGN"
      BY <1>1, <2>1, <3>1, Matches
    <3> QED
      BY <3>2
  <2> HIDE DEF t
  <2>3. f \in Frame /\ f.at = "type.bracket" /\ f.token = t
    <3>1. Top \in Frame /\ "type.bracket" \in Places
      BY <1>1, TopFacts DEF Places, Propagating
    <3> QED
      BY <2>2, <3>1 DEF Frame
  <2>4. c \in Frame /\ c.at = "type"
    <3>1. "type" \in Places /\ 0 \in Nat
      BY DEF Places
    <3> QED
      BY <3>1, Entered
  <2> HIDE DEF f, c
  <2>5. st[1] = pos
    BY <1>1, <1>2, TopPieces, CallPlaceNames DEF Pieces
  <2>6. Pieces(f, st[1], pos', toks, nodes)
    BY <2>2, <2>3, <2>5 DEF Pieces, OuterPlaces
  <2>7. Pieces(c, pos', pos', toks, nodes)
    BY <2>4 DEF Pieces, OuterPlaces
  <2>8. /\ f.at \in CallPlaces /\ Function(f.at) = Function(Top.at)
        /\ c.at \notin CallPlaces /\ Function(c.at) = Callee(f.at)
    BY <1>1, <2>3, <2>4, CallPlaceNames, FunctionsOfPlaces, Callees
  <2>9. Since(f, st[1], pos', toks)
    BY <1>1, <1>2, <2>2, <2>3, <2>8, StepSince
  <2> QED
    BY <1>1, <1>2, <2>1, <2>2, <2>3, <2>4, <2>6, <2>7, <2>8, <2>9, CallCovers, OnePasses
<1>5. CASE ~Match({"ID", "IDSTRING", "OPENBRACK"})
  <2>1. FailExpected
    BY <1>5 DEF Type, Expect, Match
  <2> QED
    BY <1>1, <2>1, FailuresCover
<1> QED
  BY <1>3, <1>4, <1>5 DEF Match

LEMMA TypeBracketCovers ==
  ASSUME IInv, CInv, TypeBracket
  PROVE  CInv'
<1>1. /\ stack # <<>> /\ Top.at = "type.bracket" /\ result # Null /\ toks' = toks
      /\ HeapTiles(toks, nodes)
  BY DEF TypeBracket, At, CInv
<1>2. PICK st : CoveredBy(st)
  BY <1>1 DEF CInv, Covered
<1>3. CASE Match({"CLOSEBRACK"})
  <2> DEFINE r == nodes[result]
             token == r.token
             dim == r.dim + 1
             n == [kind |-> "Type", token |-> token, kids |-> <<>>,
                   dim |-> dim, from |-> Top.token, to |-> pos + 1]
  <2>1. nodes' = Append(nodes, n) /\ Expect({"CLOSEBRACK"}) /\ Return(NewPtr)
    BY <1>3 DEF TypeBracket, New, Expect
  <2>2. /\ pos' = pos + 1 /\ pos \in Nat /\ toks[pos + 1] # "ASSIGN"
    <3>1. {"CLOSEBRACK"} \subseteq TokenTypes
      BY TokenClasses
    <3> QED
      BY <1>1, <2>1, <3>1, Matches
  <2>3. PICK e \in Nat : /\ Pieces(Top, st[1], e, toks, nodes)
                         /\ Returned(Callee(Top.at), e, pos, nodes[result], toks)
    BY <1>1, <1>2, TopPieces, CallPlaceNames
  <2>4. /\ e = st[1] + 1 /\ Top.token = st[1] + 1
        /\ r.from = e + 1 /\ r.to = pos /\ r.kind = "Type"
    BY <1>1, <2>3, Callees DEF Pieces, Returned, Spans
  <2>5. /\ r \in Node /\ r.from \in Nat /\ r.to \in Nat /\ r.token \in Nat /\ r.dim \in Nat
    BY <1>1, ResultFacts, TopFacts, NodeParts
  <2>6. r.from = r.token - r.dim /\ r.to = r.token + r.dim
    <3>1. CompleteIn(r, toks, nodes)
      BY <1>1, ResultFacts DEF HeapTiles
    <3> QED
      BY <2>4, <3>1 DEF CompleteIn
  <2> HIDE DEF r
  <2>7. token \in Nat /\ dim \in Nat /\ Top.token \in Nat /\ pos + 1 \in Nat
    BY <1>1, <2>2, <2>5, TopFacts
  <2>8. Top.token = token - dim /\ pos + 1 = token + dim
    <3>1. r.from - 1 = Top.token
      BY <2>4, <2>5, <2>7
    <3> QED
      BY <2>4, <2>5, <2>6, <2>7, <3>1
  <2> HIDE DEF token, dim
  <2>9. /\ n \in Node /\ n.kind = "Type" /\ n.kids = <<>> /\ n.token = token
        /\ n.dim = dim /\ n.from = Top.token /\ n.to = pos + 1
    <3>1. <<>> \in Seq(Nat)
      OBVIOUS
    <3> QED
      BY <2>7, <3>1 DEF Node, NodeKinds
  <2> HIDE DEF n
  <2>10. Linked(n, nodes) /\ CompleteIn(n, toks, nodes)
    <3>1. Len(<<>>) = 0
      OBVIOUS
    <3> QED
      BY <2>8, <2>9, <3>1 DEF Linked, CompleteIn
  <2>11. Returned(Function(Top.at), st[1], pos', n, toks)
    <3>1. Function(Top.at) = "type"
      BY <1>1, FunctionsOfPlaces
    <3> QED
      BY <2>2, <2>4, <2>9, <3>1 DEF Returned, Spans
  <2>12. Top.at \in InnerPlaces /\ pos' \in {pos, pos + 1}
    BY <1>1, <2>2, DeepPlaces DEF Deep
  <2> QED
    BY <1>1, <1>2, <2>1, <2>2, <2>9, <2>10, <2>11, <2>12, NewReturnCovers
<1>4. CASE ~Match({"CLOSEBRACK"})
  <2>1. FailExpected
    BY <1>4 DEF TypeBracket, Expect
  <2> QED
    BY <1>1, <2>1, FailuresCover
<1> QED
  BY <1>3, <1>4

LEMMA LiteralCovers ==
  ASSUME IInv, CInv, Literal
  PROVE  CInv'
<1>1. stack # <<>> /\ Top.at = "literal" /\ toks' = toks
  BY DEF Literal, At
<1>2. PICK st : CoveredBy(st)
  BY <1>1 DEF CInv, Covered
<1>3. CASE Match(Literals)
  <2>1. /\ Expect(Literals) /\ Return(NewPtr)
        /\ New("Literal", pos + 1, <<>>, 0, pos + 1, pos + 1)
    BY <1>3 DEF Literal, Expect
  <2>2. Literals \subseteq TokenTypes /\ "ASSIGN" \notin Literals
    BY TokenClasses DEF Literals
  <2> QED
    BY <1>1, <1>2, <2>1, <2>2, LeafCovers
<1>4. CASE ~Match(Literals)
  <2>1. FailExpected
    BY <1>4 DEF Literal, Expect
  <2> QED
    BY <1>1, <2>1, FailuresCover
<1> QED
  BY <1>3, <1>4

----------------------------------------------------------------------------
(* parseStatement and parseSimpleStatement                                 *)

LEMMA StatementCovers ==
  ASSUME IInv, CInv, Statement
  PROVE  CInv'
<1>1. stack # <<>> /\ Top.at = "statement" /\ toks' = toks /\ HeapTiles(toks, nodes)
  BY DEF Statement, At, CInv
<1>2. PICK st : CoveredBy(st)
  BY <1>1 DEF CInv, Covered
<1>3. CASE Match(SimpleStarts) /\ Next1 = "ASSIGN" /\ ~FailExpected /\ ~FailSilently
  <2> DEFINE f == [Top EXCEPT !.at = "statement.simple"]
             c == Enter("assignment", 0, pos + 1)
  <2>1. nodes' = nodes /\ pos' = pos /\ stack' = <<c, f>> \o Tail(stack)
    BY <1>3 DEF Statement, Call, CallFrom
  <2>2. /\ pos + 2 \in 1..Len(toks) /\ toks[pos + 2] = "ASSIGN"
        /\ toks[pos + 1] \in SimpleStarts
    <3>1. Current # "empty optional" /\ Next1 # "empty optional" /\ Current \in SimpleStarts
      BY <1>3, TokenClasses DEF Match, TokenTypes
    <3> QED
      BY <1>1, <1>3, <3>1, InRange
  <2>3. Top \in Frame /\ pos \in Nat /\ pos + 1 \in Nat
    BY <1>1, TopFacts
  <2>4. f \in Frame /\ f.at = "statement.simple"
    BY <2>3, Moved DEF Places, Propagating
  <2>5. c \in Frame /\ c.at = "assignment" /\ c.own = <<>> /\ c.token = pos + 1
    <3>1. "assignment" \in Places /\ 0 \in Nat
      BY DEF Places
    <3> QED
      BY <2>3, <3>1, Entered
  <2> HIDE DEF f, c
  <2>6. st[1] = pos
    BY <1>1, <1>2, TopPieces, CallPlaceNames DEF Pieces
  <2>7. StartsAssignment(pos, toks)
    BY <2>2 DEF StartsAssignment
  <2>8. Pieces(f, st[1], pos, toks, nodes)
    BY <2>4, <2>6, <2>7 DEF Pieces, OuterPlaces
  <2>9. Pieces(c, pos, pos, toks, nodes)
    <3>1. InRow(c.own, pos, pos, nodes)
      BY <2>5 DEF InRow
    <3> QED
      BY <2>5, <2>7, <3>1 DEF Pieces, OuterPlaces
  <2>10. /\ f.at \in CallPlaces /\ Function(f.at) = Function(Top.at)
         /\ c.at \notin CallPlaces /\ Function(c.at) = Callee(f.at)
    BY <1>1, <2>4, <2>5, CallPlaceNames, FunctionsOfPlaces, Callees DEF StatementPlaces
  <2>11. Since(f, st[1], pos', toks)
    <3>1. /\ pos' \in {pos, pos + 1} /\ (pos' = pos + 1 => toks[pos + 1] # "ASSIGN")
          /\ f.at # "assignment.expression"
      BY <2>1, <2>3, <2>4
    <3> QED
      BY ONLY IInv, <1>1, <1>2, <2>10, <3>1, StepSince
  <2> QED
    BY <1>1, <1>2, <2>1, <2>4, <2>5, <2>8, <2>9, <2>10, <2>11, CallCovers, NothingPasses
<1>4. CASE FailExpected \/ FailSilently
  BY <1>1, <1>4, FailuresCover
<1> QED
  BY <1>3, <1>4 DEF Statement

(* The NEWLINE that ends a simple statement cannot be the ASSIGN that made *)
(* it an assignment, nor stand before it: there is a target.               *)
LEMMA StatementEndCovers ==
  ASSUME IInv, CInv, StatementEnd
  PROVE  CInv'
<1>1. /\ stack # <<>> /\ Top.at = "statement.simple" /\ result # Null /\ toks' = toks
      /\ HeapTiles(toks, nodes)
  BY DEF StatementEnd, At, CInv
<1>2. PICK st : CoveredBy(st)
  BY <1>1 DEF CInv, Covered
<1>3. CASE Match({"NEWLINE"})
  <2>1. /\ nodes' = nodes /\ stack' = Tail(stack) /\ result' = result
        /\ Expect({"NEWLINE"})
    BY <1>3 DEF StatementEnd, EndsLine, Expect, Return
  <2>2. pos' = pos + 1 /\ pos \in Nat /\ toks[pos + 1] = "NEWLINE"
    <3>1. {"NEWLINE"} \subseteq TokenTypes
      BY DEF TokenTypes
    <3> QED
      BY <1>1, <2>1, <3>1, Matches
  <2>3. PICK e \in Nat : /\ Pieces(Top, st[1], e, toks, nodes)
                         /\ Returned(Callee(Top.at), e, pos, nodes[result], toks)
    BY <1>1, <1>2, TopPieces, CallPlaceNames
  <2> DEFINE n == nodes[result]
  <2>4. /\ e = st[1] /\ StartsAssignment(st[1], toks)
        /\ n.from = st[1] + 1 /\ n.to = pos /\ n.kind = "AssignmentStatement"
        /\ Len(n.kids) > 1 \/ pos \in {st[1], st[1] + 1}
    BY <1>1, <2>3, Callees DEF Pieces, Returned, Spans
  <2> HIDE DEF n
  <2>5. Len(n.kids) > 1
    <3>1. "NEWLINE" \notin SimpleStarts
      BY DEF SimpleStarts, Literals
    <3>2. st[1] \in Nat
      BY <1>1, <1>2, CoverFacts
    <3>3. pos # st[1]
      BY <2>2, <2>4, <3>1 DEF StartsAssignment
    <3>4. pos = st[1] + 1 => pos + 1 = st[1] + 2
      BY <3>2
    <3>5. pos # st[1] + 1
      BY <2>2, <2>4, <3>4 DEF StartsAssignment
    <3> QED
      BY <2>4, <3>3, <3>5
  <2>6. Returned(Function(Top.at), st[1], pos', n, toks)
    <3>1. Function(Top.at) = "statement"
      BY <1>1, FunctionsOfPlaces DEF StatementPlaces
    <3>2. SpansBefore(n, st[1], pos')
      BY <2>2, <2>4 DEF SpansBefore
    <3>3. IsChild(n, toks)
      BY <2>2, <2>4, <2>5 DEF IsChild
    <3> QED
      BY <2>4, <3>1, <3>2, <3>3 DEF Returned
  <2>7. Top.at \in InnerPlaces
    BY <1>1, PlacesAreStrings DEF StatementPlaces
  <2>8. Grows(nodes, nodes')
    BY <1>1, <2>1, TopFacts, GrowsSame
  <2>9. pos' \in Nat /\ pos <= pos' /\ Passes(stack, pos, pos', toks)
    BY <1>1, <2>2, OnePasses
  <2> QED
    BY <1>1, <1>2, <2>1, <2>6, <2>7, <2>8, <2>9, ReturnCovers DEF n
<1>4. CASE ~Match({"NEWLINE"})
  BY <1>1, <1>4, FailuresCover DEF StatementEnd, EndsLine, Expect
<1> QED
  BY <1>3, <1>4

----------------------------------------------------------------------------
(* parseAssignmentStatement                                                *)

LEMMA AssignmentTargetCovers ==
  ASSUME IInv, CInv, AssignmentTarget
  PROVE  CInv'
<1>1. /\ stack # <<>> /\ Top.at = "assignment" /\ Current = "ID" /\ Next1 = "ASSIGN"
      /\ toks' = toks /\ HeapTiles(toks, nodes)
  BY DEF AssignmentTarget, At, StartsTarget, Match, CInv
<1>2. PICK st : CoveredBy(st)
  BY <1>1 DEF CInv, Covered
<1>3. /\ Top \in Frame /\ Top.own \in Seq(Nat) /\ pos \in Nat /\ nodes \in Seq(Node)
      /\ FrameFine(Top, toks, nodes) /\ Len(nodes) \in Nat
  BY <1>1, TopFacts
<1> DEFINE n == [kind |-> "Identifier", token |-> pos + 1, kids |-> <<>>,
                 dim |-> 0, from |-> pos + 1, to |-> pos + 1]
           own == Append(Top.own, NewPtr)
           f == [Top EXCEPT !.own = own]
<1>4. nodes' = Append(nodes, n) /\ pos' = pos + 2 /\ stack' = <<f>> \o Tail(stack)
  BY DEF AssignmentTarget, New, GoOn
<1>5. /\ n \in Node /\ Linked(n, nodes) /\ CompleteIn(n, toks, nodes)
      /\ n.from = pos + 1 /\ n.to = pos + 1
  <2>1. pos + 1 \in Nat
    BY <1>3
  <2> QED
    BY <2>1, LeafTiles
<1> HIDE DEF n
<1>6. /\ HeapTiles(toks, nodes') /\ Grows(nodes, nodes') /\ nodes'[NewPtr] = n
      /\ NewPtr \in Nat
  BY <1>1, <1>3, <1>4, <1>5, NewTiles DEF NewPtr
<1>7. own \in Seq(Nat)
  BY <1>3, <1>6, OneMore
<1>8. /\ Pieces(Top, st[1], pos, toks, nodes') /\ Top.token = st[1] + 1
      /\ InRow(Top.own, st[1], pos, nodes') /\ StartsAssignment(st[1], toks)
  <2>1. Pieces(Top, st[1], pos, toks, nodes)
    BY <1>1, <1>2, TopPieces, CallPlaceNames
  <2>2. Pieces(Top, st[1], pos, toks, nodes')
    BY <1>3, <1>6, <2>1, PiecesGrow
  <2> QED
    BY <1>1, <2>2 DEF Pieces
<1>9. InRow(own, st[1], pos', nodes')
  <2>1. SpansBefore(nodes'[NewPtr], pos, pos')
    BY <1>3, <1>4, <1>5, <1>6 DEF SpansBefore
  <2>2. \A k \in 1..Len(Top.own) : nodes'[Top.own[k]].to \in Nat
    <3>1. FrameFine(Top, toks, nodes') /\ nodes' \in Seq(Node)
      BY <1>3, <1>6, FrameGrows DEF Grows
    <3> QED
      BY <3>1, Bounds DEF FrameFine
  <2> QED
    BY <1>3, <1>6, <1>8, <2>1, <2>2, RowAppends
<1> HIDE DEF own
<1>10. f \in Frame /\ f.at = "assignment" /\ f.own = own /\ f.token = Top.token
  BY <1>1, <1>3, <1>7 DEF Frame
<1> HIDE DEF f
<1>11. Pieces(f, st[1], pos', toks, nodes')
  BY <1>8, <1>9, <1>10 DEF Pieces, OuterPlaces
<1>12. /\ f.at \notin CallPlaces /\ Function(f.at) = Function(Top.at)
       /\ Function(f.at) = "assignment"
  BY <1>1, <1>10, CallPlaceNames, FunctionsOfPlaces
<1>13. Since(f, st[1], pos', toks)
  <2>1. st[1] <= pos /\ st[1] \in Nat
    BY <1>1, <1>2, CoverFacts DEF Since
  <2>2. ~Guarded(f)
    BY <1>10, <1>12 DEF Guarded, ExpressionFunctions
  <2> QED
    BY <1>3, <1>4, <2>1, <2>2 DEF Since
<1>14. pos' \in Nat /\ pos <= pos'
  BY <1>3, <1>4
<1>15. Passes(stack, pos, pos', toks)
  BY <1>1, <1>2, <1>12, NobodyWaits
<1> QED
  BY <1>1, <1>2, <1>4, <1>6, <1>10, <1>11, <1>12, <1>13, <1>14, <1>15, GoOnCovers

LEMMA AssignmentExpressionCovers ==
  ASSUME IInv, CInv, AssignmentExpression
  PROVE  CInv'
<1> DEFINE f == [Top EXCEPT !.at = "assignment.expression"]
           c == Enter("expression", 0, 0)
<1>1. stack # <<>> /\ Top.at = "assignment"
  BY DEF AssignmentExpression, At
<1>2. PICK st : CoveredBy(st)
  BY <1>1 DEF CInv, Covered
<1>3. /\ toks' = toks /\ pos' = pos /\ nodes' = nodes /\ HeapTiles(toks, nodes)
      /\ stack' = <<c, f>> \o Tail(stack)
  BY DEF AssignmentExpression, Call, CallFrom, CInv
<1>4. Top \in Frame /\ pos \in Nat
  BY <1>1, TopFacts
<1>5. /\ f \in Frame /\ f.at = "assignment.expression" /\ f.own = Top.own
      /\ f.token = Top.token
  BY <1>4, Moved DEF Places, Propagating
<1>6. c \in Frame /\ c.at = "expression"
  <2>1. "expression" \in Places /\ 0 \in Nat
    BY DEF Places
  <2> QED
    BY <2>1, Entered
<1> HIDE DEF f, c
<1>7. Pieces(Top, st[1], pos, toks, nodes)
  BY <1>1, <1>2, TopPieces, CallPlaceNames
<1>8. Pieces(f, st[1], pos, toks, nodes)
  BY <1>1, <1>5, <1>7 DEF Pieces, OuterPlaces
<1>9. Pieces(c, pos, pos, toks, nodes)
  BY <1>6 DEF Pieces, OuterPlaces
<1>10. /\ f.at \in CallPlaces /\ Function(f.at) = Function(Top.at)
       /\ Function(f.at) = "assignment"
       /\ c.at \notin CallPlaces /\ Function(c.at) = Callee(f.at)
  BY <1>1, <1>5, <1>6, CallPlaceNames, FunctionsOfPlaces, Callees
<1>11. Since(f, st[1], pos', toks)
  <2>1. st[1] <= pos /\ st[1] \in Nat
    BY <1>1, <1>2, CoverFacts DEF Since
  <2>2. Guarded(f) => st[1] = pos
    BY <1>1, <1>5, <1>7, <1>10 DEF Guarded, ExpressionFunctions, Pieces, InRow
  <2>3. st[1] = pos => NoAssign(st[1], pos, toks)
    BY <1>4 DEF NoAssign
  <2> QED
    BY <1>3, <2>1, <2>2, <2>3 DEF Since
<1> QED
  BY <1>1, <1>2, <1>3, <1>5, <1>6, <1>8, <1>9, <1>10, <1>11, CallCovers, NothingPasses

LEMMA AssignmentEndCovers ==
  ASSUME IInv, CInv, AssignmentEnd
  PROVE  CInv'
<1>1. /\ stack # <<>> /\ Top.at = "assignment.expression" /\ result # Null
      /\ toks' = toks /\ pos' = pos /\ HeapTiles(toks, nodes)
  BY DEF AssignmentEnd, At, CInv
<1>2. PICK st : CoveredBy(st)
  BY <1>1 DEF CInv, Covered
<1> DEFINE kids == Append(Top.own, result)
           n == [kind |-> "AssignmentStatement", token |-> NoToken, kids |-> kids,
                 dim |-> 0, from |-> Top.token, to |-> pos]
<1>3. nodes' = Append(nodes, n) /\ Return(NewPtr)
  BY DEF AssignmentEnd, New
<1>4. /\ result \in 1..Len(nodes) /\ result \in Nat /\ nodes \in Seq(Node) /\ pos \in Nat
      /\ Top.token \in Nat /\ Top.own \in Seq(Nat) /\ FrameFine(Top, toks, nodes)
  BY <1>1, TopFacts, ResultFacts
<1>5. PICK e \in Nat : /\ Pieces(Top, st[1], e, toks, nodes)
                       /\ Returned(Callee(Top.at), e, pos, nodes[result], toks)
  BY <1>1, <1>2, TopPieces, CallPlaceNames
<1>6. /\ Top.token = st[1] + 1 /\ InRow(Top.own, st[1], e, nodes)
      /\ StartsAssignment(st[1], toks)
      /\ nodes[result].from = e + 1 /\ nodes[result].to = pos
  BY <1>1, <1>5, Callees DEF Pieces, Returned, Spans
<1>7. /\ kids \in Seq(Nat) /\ Len(kids) = Len(Top.own) + 1 /\ Len(Top.own) \in Nat
      /\ \A k \in 1..Len(Top.own) : kids[k] = Top.own[k]
      /\ kids[Len(Top.own) + 1] = result
      /\ \A k \in 1..Len(kids) : k \in 1..Len(Top.own) \/ k = Len(Top.own) + 1
  BY <1>4, OneMore
<1>8. InRow(kids, st[1], pos + 1, nodes)
  <2>1. SpansBefore(nodes[result], e, pos + 1)
    BY <1>6 DEF SpansBefore
  <2>2. \A k \in 1..Len(Top.own) : nodes[Top.own[k]].to \in Nat
    BY <1>4, Bounds DEF FrameFine
  <2> QED
    BY <1>4, <1>6, <2>1, <2>2, RowAppends
<1> HIDE DEF kids
<1>9. /\ n \in Node /\ n.kind = "AssignmentStatement" /\ n.kids = kids
      /\ n.from = Top.token /\ n.to = pos
  BY <1>4, <1>7 DEF Node, NodeKinds, NoToken
<1> HIDE DEF n
<1>10. \A k \in 1..Len(kids) : kids[k] \in 1..Len(nodes)
  BY <1>4, <1>7 DEF FrameFine
<1>11. Linked(n, nodes)
  BY <1>9, <1>10 DEF Linked
<1>12. CompleteIn(n, toks, nodes)
  <2>1. \A k \in 1..Len(kids) : nodes[kids[k]].to \in Nat
    BY <1>4, <1>10, Bounds
  <2>2. kids # <<>> /\ nodes[kids[Len(kids)]].to + 0 = pos
    BY <1>4, <1>6, <1>7
  <2>3. TilesIn(n, 0, 1, 0, nodes)
    BY <1>4, <1>6, <1>7, <1>8, <1>9, <2>1, <2>2, RowTiles
  <2> QED
    BY <1>9, <2>3 DEF CompleteIn
<1>13. Len(kids) > 1 \/ pos \in {st[1], st[1] + 1}
  <2>1. CASE Top.own # <<>>
    BY <1>4, <1>7, <2>1
  <2>2. CASE Top.own = <<>>
    <3>1. Guarded(Top)
      BY <1>1, <2>2 DEF Guarded
    <3>2. st[1] <= pos /\ st[1] \in Nat /\ NoAssign(st[1], pos, toks)
      BY <1>1, <1>2, <3>1, CoverFacts DEF Since
    <3>3. st[1] + 2 \in (st[1] + 1)..pos => FALSE
      BY <1>6, <3>2 DEF NoAssign, StartsAssignment
    <3> QED
      BY <1>4, <3>2, <3>3
  <2> QED
    BY <2>1, <2>2
<1>14. Returned(Function(Top.at), st[1], pos', n, toks)
  <2>1. Function(Top.at) = "assignment"
    BY <1>1, FunctionsOfPlaces
  <2> QED
    BY <1>1, <1>6, <1>9, <1>13, <2>1 DEF Returned, Spans
<1>15. Top.at \in InnerPlaces
  BY <1>1, DeepPlaces DEF Deep
<1>16. pos' \in {pos, pos + 1} /\ (pos' = pos + 1 => toks[pos + 1] # "ASSIGN")
  BY <1>1, <1>4
<1> QED
  BY <1>1, <1>2, <1>3, <1>9, <1>11, <1>12, <1>14, <1>15, <1>16, NewReturnCovers

----------------------------------------------------------------------------
(* parseExpression                                                         *)

LEMMA ExpressionCovers ==
  ASSUME IInv, CInv, Expression
  PROVE  CInv'
<1> DEFINE f == [Top EXCEPT !.at = "expression.prefix"]
           c == Enter("prefix", 0, 0)
<1>1. stack # <<>> /\ Top.at = "expression"
  BY DEF Expression, At
<1>2. PICK st : CoveredBy(st)
  BY <1>1 DEF CInv, Covered
<1>3. /\ toks' = toks /\ pos' = pos /\ nodes' = nodes /\ HeapTiles(toks, nodes)
      /\ stack' = <<c, f>> \o Tail(stack)
  BY DEF Expression, Call, CallFrom, CInv
<1>4. Top \in Frame /\ pos \in Nat
  BY <1>1, TopFacts
<1>5. f \in Frame /\ f.at = "expression.prefix"
  BY <1>4, Moved DEF Places, Propagating
<1>6. c \in Frame /\ c.at = "prefix"
  <2>1. "prefix" \in Places /\ 0 \in Nat
    BY DEF Places
  <2> QED
    BY <2>1, Entered
<1> HIDE DEF f, c
<1>7. st[1] = pos
  BY <1>1, <1>2, TopPieces, CallPlaceNames DEF Pieces
<1>8. Pieces(f, st[1], pos', toks, nodes) /\ Pieces(c, pos', pos', toks, nodes)
  BY <1>3, <1>5, <1>6, <1>7 DEF Pieces, OuterPlaces
<1>9. /\ f.at \in CallPlaces /\ Function(f.at) = Function(Top.at)
      /\ c.at \notin CallPlaces /\ Function(c.at) = Callee(f.at)
  BY <1>1, <1>5, <1>6, CallPlaceNames, FunctionsOfPlaces, Callees
<1>10. Since(f, st[1], pos', toks)
  <2>1. /\ pos' \in {pos, pos + 1} /\ (pos' = pos + 1 => toks[pos + 1] # "ASSIGN")
        /\ f.at # "assignment.expression"
    BY <1>3, <1>4, <1>5
  <2> QED
    BY ONLY IInv, <1>1, <1>2, <1>9, <2>1, StepSince
<1> QED
  BY <1>1, <1>2, <1>3, <1>5, <1>6, <1>8, <1>9, <1>10, CallCovers, NothingPasses

LEMMA ExpressionPrefixCovers ==
  ASSUME IInv, CInv, ExpressionPrefix
  PROVE  CInv'
<1> DEFINE own == <<result>>
           f == [Top EXCEPT !.at = "expression.operator", !.own = own]
<1>1. /\ stack # <<>> /\ Top.at = "expression.prefix" /\ result # Null
      /\ toks' = toks /\ pos' = pos /\ nodes' = nodes /\ HeapTiles(toks, nodes)
      /\ stack' = <<f>> \o Tail(stack)
  BY DEF ExpressionPrefix, At, GoOn, CInv
<1>2. PICK st : CoveredBy(st)
  BY <1>1 DEF CInv, Covered
<1>3. Top \in Frame /\ pos \in Nat /\ result \in Nat
  BY <1>1, TopFacts, ResultFacts
<1>4. PICK e \in Nat : /\ Pieces(Top, st[1], e, toks, nodes)
                       /\ Returned(Callee(Top.at), e, pos, nodes[result], toks)
  BY <1>1, <1>2, TopPieces, CallPlaceNames
<1>5. Spans(nodes[result], st[1], pos)
  BY <1>1, <1>4, Callees DEF Pieces, Returned
<1>6. own \in Seq(Nat) /\ own[1] = result
  BY <1>3
<1> HIDE DEF own
<1>7. f \in Frame /\ f.at = "expression.operator" /\ f.own = own
  <2>1. "expression.operator" \in Places
    BY DEF Places
  <2> QED
    BY <1>3, <1>6, <2>1 DEF Frame
<1> HIDE DEF f
<1>8. Pieces(f, st[1], pos', toks, nodes')
  BY <1>1, <1>5, <1>6, <1>7 DEF Pieces, OuterPlaces
<1>9. f.at \notin CallPlaces /\ Function(f.at) = Function(Top.at)
  BY <1>1, <1>7, CallPlaceNames, FunctionsOfPlaces
<1>10. Since(f, st[1], pos', toks)
  <2>1. /\ pos' \in {pos, pos + 1} /\ (pos' = pos + 1 => toks[pos + 1] # "ASSIGN")
        /\ f.at # "assignment.expression"
    BY <1>1, <1>3, <1>7
  <2> QED
    BY ONLY IInv, <1>1, <1>2, <1>9, <2>1, StepSince
<1>11. Grows(nodes, nodes') /\ HeapTiles(toks, nodes')
  BY <1>1, TopFacts, GrowsSame
<1> QED
  BY <1>1, <1>2, <1>7, <1>8, <1>9, <1>10, <1>11, GoOnCovers, NothingPasses

(* The table of the operators has no ASSIGN in it.                         *)
LEMMA OperatorTokens ==
  /\ DOMAIN InfixPower \subseteq TokenTypes /\ "ASSIGN" \notin DOMAIN InfixPower
  /\ DOMAIN PrefixPower \subseteq TokenTypes /\ "ASSIGN" \notin DOMAIN PrefixPower
  /\ \A op \in DOMAIN InfixPower : InfixPower[op].right \in Nat
  /\ \A op \in DOMAIN PrefixPower : PrefixPower[op] \in Nat
<1>1. "ASSIGN" \notin DOMAIN InfixPower
  BY DEF InfixPower, Logical, Comparisons, Additive, Multiplicative
<1>2. "ASSIGN" \notin DOMAIN PrefixPower /\ \A op \in DOMAIN PrefixPower : PrefixPower[op] \in Nat
  BY DEF PrefixPower
<1>3. \A op \in DOMAIN InfixPower : InfixPower[op].right \in Nat
  BY DEF InfixPower, Logical, Comparisons, Additive, Multiplicative
<1> QED
  BY <1>1, <1>2, <1>3, TokenClasses

LEMMA ExpressionOperatorCovers ==
  ASSUME IInv, CInv, ExpressionOperator
  PROVE  CInv'
<1>1. /\ stack # <<>> /\ Top.at = "expression.operator" /\ toks' = toks
      /\ nodes' = nodes /\ HeapTiles(toks, nodes)
  BY DEF ExpressionOperator, At, CInv
<1>2. PICK st : CoveredBy(st)
  BY <1>1 DEF CInv, Covered
<1>3. Spans(nodes[Top.own[1]], st[1], pos)
  BY <1>1, <1>2, TopPieces, CallPlaceNames DEF Pieces
<1>4. Top \in Frame /\ pos \in Nat
  BY <1>1, TopFacts
<1>5. CASE Binds
  <2> DEFINE t == pos + 1
             right == InfixPower[Current].right
             f == [Top EXCEPT !.at = "expression.operand", !.token = t]
             c == Enter("expression", right, 0)
  <2>1. stack' = <<c, f>> \o Tail(stack) /\ Expect(DOMAIN InfixPower)
    BY <1>5 DEF ExpressionOperator, CallFrom, Binds, Expect
  <2>2. /\ pos' = pos + 1 /\ toks[pos + 1] # "ASSIGN" /\ pos' = t /\ t \in Nat
    <3>1. pos' = pos + 1 /\ toks[pos + 1] \in DOMAIN InfixPower
      BY <1>1, <2>1, OperatorTokens, Matches
    <3> QED
      BY <1>4, <3>1, OperatorTokens
  <2>3. right \in Nat
    BY <1>5, OperatorTokens DEF Binds, Match
  <2> HIDE DEF t, right
  <2>4. f \in Frame /\ f.at = "expression.operand" /\ f.token = t /\ f.own = Top.own
    <3>1. "expression.operand" \in Places
      BY DEF Places, Propagating
    <3> QED
      BY <1>4, <2>2, <3>1 DEF Frame
  <2>5. c \in Frame /\ c.at = "expression"
    <3>1. "expression" \in Places /\ 0 \in Nat
      BY DEF Places
    <3> QED
      BY <2>3, <3>1, Entered
  <2> HIDE DEF f, c
  <2>6. Pieces(f, st[1], pos', toks, nodes)
    <3>1. SpansBefore(nodes[f.own[1]], st[1], pos')
      BY <1>3, <2>2, <2>4 DEF Spans, SpansBefore
    <3> QED
      BY <2>2, <2>4, <3>1 DEF Pieces, OuterPlaces
  <2>7. Pieces(c, pos', pos', toks, nodes)
    BY <2>5 DEF Pieces, OuterPlaces
  <2>8. /\ f.at \in CallPlaces /\ Function(f.at) = Function(Top.at)
        /\ c.at \notin CallPlaces /\ Function(c.at) = Callee(f.at)
    BY <1>1, <2>4, <2>5, CallPlaceNames, FunctionsOfPlaces, Callees
  <2>9. Since(f, st[1], pos', toks)
    <3>1. /\ pos' \in {pos, pos + 1} /\ (pos' = pos + 1 => toks[pos + 1] # "ASSIGN")
          /\ f.at # "assignment.expression"
      BY <2>2, <2>4
    <3> QED
      BY ONLY IInv, <1>1, <1>2, <2>8, <3>1, StepSince
  <2>10. pos' \in Nat /\ pos <= pos' /\ Passes(stack, pos, pos', toks)
    BY <1>1, <2>2, OnePasses
  <2> QED
    BY <1>1, <1>2, <2>1, <2>4, <2>5, <2>6, <2>7, <2>8, <2>9, <2>10, CallCovers
<1>6. CASE ~Binds
  <2>1. stack' = Tail(stack) /\ result' = Top.own[1] /\ pos' = pos
    BY <1>6 DEF ExpressionOperator, Return
  <2>2. Returned(Function(Top.at), st[1], pos', nodes'[result'], toks)
    <3>1. Function(Top.at) = "expression"
      BY <1>1, FunctionsOfPlaces
    <3> QED
      BY <1>1, <1>3, <2>1, <3>1 DEF Returned
  <2>3. Top.at \in InnerPlaces
    BY <1>1, DeepPlaces DEF Deep
  <2>4. Grows(nodes, nodes') /\ HeapTiles(toks, nodes')
    BY <1>1, TopFacts, GrowsSame
  <2>5. pos' \in Nat /\ pos <= pos' /\ Passes(stack, pos, pos', toks)
    BY <1>1, <2>1, NothingPasses
  <2> QED
    BY <1>1, <1>2, <2>1, <2>2, <2>3, <2>4, <2>5, ReturnCovers
<1> QED
  BY <1>5, <1>6

LEMMA ExpressionOperandCovers ==
  ASSUME IInv, CInv, ExpressionOperand
  PROVE  CInv'
<1>1. /\ stack # <<>> /\ Top.at = "expression.operand" /\ result # Null
      /\ toks' = toks /\ HeapTiles(toks, nodes)
  BY DEF ExpressionOperand, At, CInv
<1>2. PICK st : CoveredBy(st)
  BY <1>1 DEF CInv, Covered
<1> DEFINE l == Top.own[1]
           culprit == IF IsConstant(l) THEN result ELSE l
<1>3. /\ l \in 1..Len(nodes) /\ result \in 1..Len(nodes) /\ result \in Nat
      /\ nodes \in Seq(Node) /\ Len(nodes) \in Nat /\ pos \in Nat
      /\ Top \in Frame /\ Top.token \in Nat
  BY <1>1, TopFacts, ResultFacts DEF FrameFine, OwnsOne
<1>4. PICK e \in Nat : /\ Pieces(Top, st[1], e, toks, nodes)
                       /\ Returned(Callee(Top.at), e, pos, nodes[result], toks)
  BY <1>1, <1>2, TopPieces, CallPlaceNames
<1>5. /\ nodes[l].from = st[1] + 1 /\ nodes[l].to + 1 = e /\ Top.token = e
      /\ nodes[result].from = e + 1 /\ nodes[result].to = pos
  BY <1>1, <1>4, Callees DEF Pieces, Returned, Spans, SpansBefore
<1> HIDE DEF l, culprit
<1>6. nodes[l].from \in Nat /\ nodes[l].to \in Nat
  BY <1>3, NodeParts
<1>7. CASE MayJoin(toks[Top.token], l, result)
  <2> DEFINE kids == <<l, result>>
             from == nodes[l].from
             to == nodes[result].to
             n == [kind |-> "BinaryExpression", token |-> Top.token, kids |-> kids,
                   dim |-> 0, from |-> from, to |-> to]
             own == <<NewPtr>>
             f == [Top EXCEPT !.at = "expression.operator", !.own = own]
  <2>1. /\ nodes' = Append(nodes, n) /\ pos' = pos /\ stack' = <<f>> \o Tail(stack)
    BY <1>7 DEF ExpressionOperand, New, GoOn, l
  <2>2. /\ kids \in Seq(Nat) /\ Len(kids) = 2 /\ \A k \in 1..Len(kids) : kids[k] \in 1..Len(nodes)
        /\ kids = <<l, result>>
    BY <1>3
  <2>3. from = st[1] + 1 /\ to = pos /\ from \in Nat /\ from = nodes[l].from
    BY <1>5, <1>6
  <2> HIDE DEF kids, from, to
  <2>4. /\ n \in Node /\ n.kind = "BinaryExpression" /\ n.kids = kids
        /\ n.from = from /\ n.to = to /\ n.token = Top.token
    BY <1>3, <2>2, <2>3 DEF Node, NodeKinds
  <2> HIDE DEF n
  <2>5. Linked(n, nodes)
    BY <2>2, <2>4 DEF Linked
  <2>6. CompleteIn(n, toks, nodes)
    <3>1. nodes[result].from = nodes[l].to + 2 /\ nodes[result].to \in Nat
      BY <1>3, <1>5, <1>6
    <3>2. TilesIn(n, 0, 1, 0, nodes)
      BY <1>5, <1>6, <2>2, <2>3, <2>4, <3>1, TwoTiles
    <3>3. n.token = nodes[n.kids[1]].to + 1
      BY <1>5, <2>2, <2>4
    <3> QED
      BY <2>4, <3>2, <3>3 DEF CompleteIn
  <2>7. /\ HeapTiles(toks, nodes') /\ Grows(nodes, nodes') /\ nodes'[NewPtr] = n
        /\ NewPtr \in Nat
    BY <1>1, <1>3, <2>1, <2>4, <2>5, <2>6, NewTiles DEF NewPtr
  <2>8. own \in Seq(Nat) /\ own[1] = NewPtr
    BY <2>7
  <2> HIDE DEF own
  <2>9. f \in Frame /\ f.at = "expression.operator" /\ f.own = own
    <3>1. "expression.operator" \in Places
      BY DEF Places
    <3> QED
      BY <1>3, <2>8, <3>1 DEF Frame
  <2> HIDE DEF f
  <2>10. Pieces(f, st[1], pos', toks, nodes')
    <3>1. Spans(nodes'[f.own[1]], st[1], pos')
      BY <2>1, <2>3, <2>4, <2>7, <2>8, <2>9 DEF Spans
    <3> QED
      BY <2>9, <3>1 DEF Pieces, OuterPlaces
  <2>11. f.at \notin CallPlaces /\ Function(f.at) = Function(Top.at)
    BY <1>1, <2>9, CallPlaceNames, FunctionsOfPlaces
  <2>12. Since(f, st[1], pos', toks)
    <3>1. /\ pos' \in {pos, pos + 1} /\ (pos' = pos + 1 => toks[pos + 1] # "ASSIGN")
          /\ f.at # "assignment.expression"
      BY <1>3, <2>1, <2>9
    <3> QED
      BY ONLY IInv, <1>1, <1>2, <2>11, <3>1, StepSince
  <2>13. pos' \in Nat /\ pos <= pos' /\ Passes(stack, pos, pos', toks)
    BY <1>1, <2>1, NothingPasses
  <2> QED
    BY <1>1, <1>2, <2>1, <2>7, <2>9, <2>10, <2>11, <2>12, <2>13, GoOnCovers
<1>8. CASE ~MayJoin(toks[Top.token], l, result)
  <2>1. Fail("ExpectedToken", nodes[culprit].from)
    BY <1>8 DEF ExpressionOperand, l, culprit
  <2> QED
    BY <1>1, <2>1, FailuresCover
<1> QED
  BY <1>7, <1>8

----------------------------------------------------------------------------
(* parsePrefix                                                             *)

LEMMA PrefixCovers ==
  ASSUME IInv, CInv, Prefix
  PROVE  CInv'
<1>1. stack # <<>> /\ Top.at = "prefix" /\ toks' = toks /\ HeapTiles(toks, nodes)
  BY DEF Prefix, At, CInv
<1>2. PICK st : CoveredBy(st)
  BY <1>1 DEF CInv, Covered
<1>3. st[1] = pos
  BY <1>1, <1>2, TopPieces, CallPlaceNames DEF Pieces
<1>4. Top \in Frame /\ pos \in Nat
  BY <1>1, TopFacts
<1>5. CASE /\ Expect(Literals \cup {"ID"}) /\ Return(NewPtr)
           /\ New(IF Match({"ID"}) THEN "Identifier" ELSE "Literal",
                  pos + 1, <<>>, 0, pos + 1, pos + 1)
  <2> DEFINE kind == IF Match({"ID"}) THEN "Identifier" ELSE "Literal"
             types == Literals \cup {"ID"}
  <2>1. Expect(types) /\ Return(NewPtr) /\ New(kind, pos + 1, <<>>, 0, pos + 1, pos + 1)
    BY <1>5
  <2>2. types \subseteq TokenTypes /\ "ASSIGN" \notin types
    BY TokenClasses DEF Literals
  <2>3. kind \in {"Identifier", "Literal", "Type"}
    OBVIOUS
  <2> HIDE DEF kind, types
  <2>4. Top.at \in {"type", "literal", "prefix"} /\ Top.at # "type"
    BY <1>1
  <2> QED
    BY ONLY IInv, CInv, <1>1, <1>2, <2>1, <2>2, <2>3, <2>4, LeafCovers
<1>6. ASSUME NEW types, types \subseteq TokenTypes, "ASSIGN" \notin types, Expect(types),
             nodes' = nodes,
             NEW at \in {"prefix.group", "prefix.unary"}, NEW min \in Nat,
             CallFrom([Top EXCEPT !.at = at, !.token = pos + 1],
                      Enter("expression", min, 0))
      PROVE  CInv'
  <2> DEFINE t == pos + 1
             f == [Top EXCEPT !.at = at, !.token = t]
             c == Enter("expression", min, 0)
  <2>1. stack' = <<c, f>> \o Tail(stack)
    BY <1>6 DEF CallFrom
  <2>2. /\ pos' = pos + 1 /\ toks[pos + 1] # "ASSIGN" /\ pos' = t /\ t \in Nat
    <3>1. pos' = pos + 1 /\ toks[pos + 1] \in types
      BY <1>1, <1>6, Matches
    <3> QED
      BY <1>4, <1>6, <3>1
  <2> HIDE DEF t
  <2>3. f \in Frame /\ f.at = at /\ f.token = t
    <3>1. at \in Places
      BY DEF Places
    <3> QED
      BY <1>4, <2>2, <3>1 DEF Frame
  <2>4. c \in Frame /\ c.at = "expression"
    <3>1. "expression" \in Places /\ 0 \in Nat
      BY DEF Places
    <3> QED
      BY <3>1, Entered
  <2> HIDE DEF f, c
  <2>5. Pieces(f, st[1], pos', toks, nodes)
    BY <1>3, <2>2, <2>3 DEF Pieces, OuterPlaces
  <2>6. Pieces(c, pos', pos', toks, nodes)
    BY <2>4 DEF Pieces, OuterPlaces
  <2>7. /\ f.at \in CallPlaces /\ Function(f.at) = Function(Top.at)
        /\ c.at \notin CallPlaces /\ Function(c.at) = Callee(f.at)
    BY <1>1, <2>3, <2>4, CallPlaceNames, FunctionsOfPlaces, Callees
  <2>8. Since(f, st[1], pos', toks)
    <3>1. /\ pos' \in {pos, pos + 1} /\ (pos' = pos + 1 => toks[pos + 1] # "ASSIGN")
          /\ f.at # "assignment.expression"
      BY <2>2, <2>3
    <3> QED
      BY ONLY IInv, <1>1, <1>2, <2>7, <3>1, StepSince
  <2>9. pos' \in Nat /\ pos <= pos' /\ Passes(stack, pos, pos', toks)
    BY <1>1, <2>2, OnePasses
  <2> QED
    BY <1>1, <1>2, <1>6, <2>1, <2>3, <2>4, <2>5, <2>6, <2>7, <2>8, <2>9, CallCovers
<1>7. CASE /\ Expect({"OPENPAREN"})
           /\ CallFrom([Top EXCEPT !.at = "prefix.group", !.token = pos + 1],
                       Enter("expression", 0, 0))
           /\ nodes' = nodes
  <2>1. {"OPENPAREN"} \subseteq TokenTypes /\ "ASSIGN" \notin {"OPENPAREN"}
    BY TokenClasses
  <2> QED
    BY <1>6, <1>7, <2>1
<1>8. CASE /\ Expect(DOMAIN PrefixPower)
           /\ CallFrom([Top EXCEPT !.at = "prefix.unary", !.token = pos + 1],
                       Enter("expression", PrefixPower[Current], 0))
           /\ nodes' = nodes
  <2>1. PrefixPower[Current] \in Nat
    BY <1>8, OperatorTokens DEF Expect, Match
  <2> QED
    BY <1>6, <1>8, <2>1, OperatorTokens
<1>9. CASE FailSilently
  BY <1>1, <1>9, FailuresCover
<1> QED
  BY <1>5, <1>7, <1>8, <1>9 DEF Prefix

(* A node with one child, whose own tokens are those around it.            *)
LEMMA OneTile ==
  ASSUME NEW ns, NEW n, NEW r, n.kids = <<r>>, NEW last \in Nat,
         ns[r].from = n.from + 1, ns[r].to + last = n.to
  PROVE  TilesIn(n, 1, 0, last, ns)
<1>1. Len(n.kids) = 1 /\ n.kids[1] = r /\ n.kids # <<>>
  OBVIOUS
<1>2. \A k \in 1..(Len(n.kids) - 1) : FALSE
  BY <1>1
<1> QED
  BY <1>1, <1>2 DEF TilesIn

LEMMA OneLink ==
  ASSUME NEW ns, NEW n, NEW r, n.kids = <<r>>,
         r \in 1..Len(ns) \/ (n.kind = "GroupingExpression" /\ r = Null)
  PROVE  Linked(n, ns)
<1>1. Len(n.kids) = 1 /\ n.kids[1] = r
  OBVIOUS
<1>2. \A k \in 1..Len(n.kids) : k = 1
  BY <1>1
<1> QED
  BY <1>1, <1>2 DEF Linked

LEMMA PrefixGroupCovers ==
  ASSUME IInv, CInv, PrefixGroup
  PROVE  CInv'
<1>1. stack # <<>> /\ Top.at = "prefix.group" /\ toks' = toks /\ HeapTiles(toks, nodes)
  BY DEF PrefixGroup, At, CInv
<1>2. PICK st : CoveredBy(st)
  BY <1>1 DEF CInv, Covered
<1>3. /\ result \in 0..Len(nodes) /\ result \in Nat /\ Len(nodes) \in Nat
      /\ Top.token \in Nat /\ nodes \in Seq(Node)
  BY <1>1, TopFacts DEF IInv, TypeOK, FrameFine, HasToken
<1>4. CASE Match({"CLOSEPAREN"})
  <2> DEFINE kids == <<result>>
             n == [kind |-> "GroupingExpression", token |-> Top.token, kids |-> kids,
                   dim |-> 0, from |-> Top.token, to |-> pos + 1]
  <2>1. nodes' = Append(nodes, n) /\ Expect({"CLOSEPAREN"}) /\ Return(NewPtr)
    BY <1>4 DEF PrefixGroup, New, Expect
  <2>2. pos' = pos + 1 /\ pos \in Nat /\ toks[pos + 1] # "ASSIGN" /\ pos + 1 \in Nat
    <3>1. {"CLOSEPAREN"} \subseteq TokenTypes
      BY TokenClasses
    <3>2. pos' = pos + 1 /\ pos \in Nat /\ toks[pos + 1] # "ASSIGN"
      BY <1>1, <2>1, <3>1, Matches
    <3> QED
      BY <3>2
  <2>3. Top.token = st[1] + 1
    <3>1. \E e \in Nat : Pieces(Top, st[1], e, toks, nodes)
      BY <1>1, <1>2, CoverFacts, CallPlaceNames DEF Running
    <3> QED
      BY <1>1, <3>1 DEF Pieces
  <2>4. kids \in Seq(Nat) /\ kids = <<result>> /\ kids[1] = result
    BY <1>3
  <2> HIDE DEF kids
  <2>5. /\ n \in Node /\ n.kind = "GroupingExpression" /\ n.kids = kids
        /\ n.token = Top.token /\ n.from = Top.token /\ n.to = pos + 1
    BY <1>3, <2>2, <2>4 DEF Node, NodeKinds
  <2> HIDE DEF n
  <2>6. Linked(n, nodes)
    <3>1. result \in 1..Len(nodes) \/ result = Null
      BY <1>3 DEF Null
    <3> QED
      BY <2>4, <2>5, <3>1, OneLink
  <2>7. CompleteIn(n, toks, nodes)
    <3>1. ASSUME result # Null
          PROVE  TilesIn(n, 1, 0, 1, nodes)
      <4>1. PICK e \in Nat : /\ Pieces(Top, st[1], e, toks, nodes)
                             /\ Returned(Callee(Top.at), e, pos, nodes[result], toks)
        BY <1>1, <1>2, <3>1, TopPieces, CallPlaceNames
      <4>2. nodes[result].from = Top.token + 1 /\ nodes[result].to = pos
        BY <1>1, <2>3, <4>1, Callees DEF Pieces, Returned, Spans
      <4> QED
        BY <2>4, <2>5, <4>2, OneTile
    <3> QED
      BY <2>4, <2>5, <3>1 DEF CompleteIn
  <2>8. Returned(Function(Top.at), st[1], pos', n, toks)
    <3>1. Function(Top.at) = "prefix"
      BY <1>1, FunctionsOfPlaces
    <3> QED
      BY <2>2, <2>3, <2>5, <3>1 DEF Returned, Spans
  <2>9. Top.at \in InnerPlaces /\ pos' \in {pos, pos + 1}
    BY <1>1, <2>2, DeepPlaces DEF Deep
  <2> QED
    BY <1>1, <1>2, <2>1, <2>2, <2>5, <2>6, <2>7, <2>8, <2>9, NewReturnCovers
<1>5. CASE ~Match({"CLOSEPAREN"})
  <2>1. Fail("UnclosedParenthesis", Top.token)
    BY <1>5 DEF PrefixGroup, Expect
  <2> QED
    BY <1>1, <2>1, FailuresCover
<1> QED
  BY <1>4, <1>5

LEMMA PrefixUnaryCovers ==
  ASSUME IInv, CInv, PrefixUnary
  PROVE  CInv'
<1>1. stack # <<>> /\ Top.at = "prefix.unary" /\ toks' = toks /\ HeapTiles(toks, nodes)
  BY DEF PrefixUnary, At, CInv
<1>2. PICK st : CoveredBy(st)
  BY <1>1 DEF CInv, Covered
<1>3. Top.token \in Nat /\ nodes \in Seq(Node) /\ Len(nodes) \in Nat /\ pos \in Nat
  BY <1>1, TopFacts
<1> DEFINE allowed == result # Null /\ (toks[Top.token] = "NOT" \/ IsConstant(result))
<1>4. CASE allowed
  <2> DEFINE kids == <<result>>
             to == nodes[result].to
             n == [kind |-> "UnaryExpression", token |-> Top.token, kids |-> kids,
                   dim |-> 0, from |-> Top.token, to |-> to]
  <2>1. nodes' = Append(nodes, n) /\ pos' = pos /\ Return(NewPtr)
    BY <1>4 DEF PrefixUnary, New
  <2>2. result # Null /\ result \in 1..Len(nodes) /\ result \in Nat
    BY <1>4, ResultFacts
  <2>3. kids \in Seq(Nat) /\ kids = <<result>>
    BY <2>2
  <2>4. PICK e \in Nat : /\ Pieces(Top, st[1], e, toks, nodes)
                         /\ Returned(Callee(Top.at), e, pos, nodes[result], toks)
    BY <1>1, <1>2, <2>2, TopPieces, CallPlaceNames
  <2>5. Top.token = st[1] + 1 /\ nodes[result].from = Top.token + 1 /\ nodes[result].to = pos
    BY <1>1, <2>4, Callees DEF Pieces, Returned, Spans
  <2>6. to = pos
    BY <2>5
  <2> HIDE DEF kids, to
  <2>7. /\ n \in Node /\ n.kind = "UnaryExpression" /\ n.kids = kids
        /\ n.token = Top.token /\ n.from = Top.token /\ n.to = pos
    BY <1>3, <2>3, <2>6 DEF Node, NodeKinds
  <2> HIDE DEF n
  <2>8. Linked(n, nodes)
    BY <2>2, <2>3, <2>7, OneLink
  <2>9. CompleteIn(n, toks, nodes)
    <3>1. nodes[result].from = n.from + 1 /\ nodes[result].to + 0 = n.to
      BY <1>3, <2>5, <2>7
    <3>2. TilesIn(n, 1, 0, 0, nodes)
      BY ONLY <2>3, <2>7, <3>1, OneTile
    <3> QED
      BY <2>7, <3>2 DEF CompleteIn
  <2>10. Returned(Function(Top.at), st[1], pos', n, toks)
    <3>1. Function(Top.at) = "prefix"
      BY <1>1, FunctionsOfPlaces
    <3> QED
      BY <2>1, <2>5, <2>7, <3>1 DEF Returned, Spans
  <2>11. Top.at \in InnerPlaces
    BY <1>1, DeepPlaces DEF Deep
  <2>12. pos' \in {pos, pos + 1} /\ (pos' = pos + 1 => toks[pos + 1] # "ASSIGN")
    BY <1>3, <2>1
  <2> QED
    BY <1>1, <1>2, <2>1, <2>7, <2>8, <2>9, <2>10, <2>11, <2>12, NewReturnCovers
<1>5. CASE ~allowed
  <2>1. Fail("MissingUnaryOperand", Top.token)
    BY <1>5 DEF PrefixUnary
  <2> QED
    BY <1>1, <2>1, FailuresCover
<1> QED
  BY <1>4, <1>5

----------------------------------------------------------------------------
(* The steps that are no parse function's, and all of them.                *)

LEMMA NobodyRuns ==
  ASSUME toks' = toks, nodes' = nodes, stack' = <<>>, result' = Null, CInv
  PROVE  CInv'
BY DEF CInv, Covered, Root

LEMMA StutterCovers ==
  ASSUME CInv, UNCHANGED vars
  PROVE  CInv'
<1>1. /\ toks' = toks /\ nodes' = nodes /\ stack' = stack /\ pos' = pos
      /\ result' = result
  BY DEF vars
<1> QED
  BY <1>1 DEF CInv, Covered, CoveredBy, Root

LEMMA StartCovers == Init => CInv
<1> SUFFICES ASSUME Init
             PROVE  CInv
  OBVIOUS
<1> DEFINE f == Enter("program", 0, 0)
           st == <<0>>
<1>1. pos = 0 /\ nodes = <<>> /\ stack = <<f>> /\ result = Null
  BY DEF Init
<1>2. f.at = "program" /\ f.own = <<>>
  BY DEF Enter
<1> HIDE DEF f
<1>3. st \in Seq(Nat) /\ Len(st) = 1 /\ st[1] = 0
  OBVIOUS
<1> HIDE DEF st
<1>4. Len(stack) = 1 /\ stack[1] = f /\ Len(nodes) = 0 /\ stack # <<>>
  BY <1>1
<1>5. Pieces(f, 0, 0, toks, nodes)
  BY <1>2 DEF Pieces, Lines, InRow, Sorted, OnlyDefinitions, OuterPlaces
<1>6. Running(f, 0, pos, result, toks, nodes)
  BY <1>1, <1>2, <1>5, CallPlaceNames DEF Running
<1>7. Since(f, 0, pos, toks)
  BY <1>1 DEF Since, NoAssign
<1>8. CoveredBy(st)
  <2>1. \A k \in 1..Len(stack) : k = 1
    BY <1>4
  <2>2. \A k \in 2..Len(stack) : FALSE
    BY <1>4
  <2> QED
    BY <1>3, <1>4, <1>6, <1>7, <2>1, <2>2 DEF CoveredBy, Cover
<1>9. HeapTiles(toks, nodes)
  BY <1>4 DEF HeapTiles
<1> QED
  BY <1>3, <1>4, <1>8, <1>9 DEF CInv, Covered, Root

(* The activations cover the tokens up to the cursor.                      *)
THEOREM ParserCover == Spec => []CInv
<1>1. Init => CInv
  BY StartCovers
<1>2. IInv /\ CInv /\ [Next]_vars => CInv'
  <2> SUFFICES ASSUME IInv, CInv, [Next]_vars
               PROVE  CInv'
    OBVIOUS
  <2>1. CASE UNCHANGED vars
    BY <2>1, StutterCovers
  <2>2. CASE Program \/ Statements \/ ProgramChild
    BY <2>2, ProgramCovers, StatementsCover, ProgramChildCovers
  <2>3. CASE Definition \/ DefinitionAssign \/ DefinitionEnd
    BY <2>3, DefinitionCovers, DefinitionAssignCovers, DefinitionEndCovers
  <2>4. CASE TypedVariable \/ TypedVariableColon \/ TypedVariableEnd
    BY <2>4, TypedVariableCovers, TypedVariableColonCovers, TypedVariableEndCovers
  <2>5. CASE Type \/ TypeBracket \/ Literal
    BY <2>5, TypeCovers, TypeBracketCovers, LiteralCovers
  <2>6. CASE Statement \/ StatementEnd
    BY <2>6, StatementCovers, StatementEndCovers
  <2>7. CASE AssignmentTarget \/ AssignmentExpression \/ AssignmentEnd
    BY <2>7, AssignmentTargetCovers, AssignmentExpressionCovers, AssignmentEndCovers
  <2>8. CASE Expression \/ ExpressionPrefix \/ ExpressionOperator \/ ExpressionOperand
    BY <2>8, ExpressionCovers, ExpressionPrefixCovers, ExpressionOperatorCovers,
       ExpressionOperandCovers
  <2>9. CASE Prefix \/ PrefixGroup \/ PrefixUnary
    BY <2>9, PrefixCovers, PrefixGroupCovers, PrefixUnaryCovers
  <2>10. CASE CalleeFailed
    BY <2>10, FailuresCover DEF CalleeFailed
  <2>11. CASE Crash
    BY <2>11, NobodyRuns DEF Crash
  <2>12. CASE Terminating
    BY <2>12, StutterCovers DEF Terminating
  <2> QED
    BY <2>1, <2>2, <2>3, <2>4, <2>5, <2>6, <2>7, <2>8, <2>9, <2>10, <2>11, <2>12 DEF Next
<1> QED
  BY <1>1, <1>2, ParserInvariant, PTL DEF Spec

(* No token is lost or read twice, whatever the token stream: every node   *)
(* stands for a run of tokens that its own and its children's tile, and the*)
(* root of an accepted program for the whole stream, line by line, the     *)
(* definitions before the statements, each statement with a target.        *)
THEOREM ParserTreesCoverTokens == Spec => []TreesCoverTokens
<1>1. CInv => TreesCoverTokens
  <2> SUFFICES ASSUME CInv
               PROVE  TreesCoverTokens
    OBVIOUS
  <2>1. \A p \in 1..Len(nodes) : Complete(nodes[p])
    <3>1. \A n : CompleteIn(n, toks, nodes) <=> Complete(n)
      BY DEF CompleteIn, Complete, TilesIn, Tiles
    <3> QED
      BY <3>1 DEF CInv, HeapTiles
  <2>2. ASSUME Accepted
        PROVE  LET children == nodes[result].kids
                   kind(k) == nodes[children[k]].kind
               IN  /\ nodes[result].kind = "Program"
                   /\ nodes[result].from = 1 /\ nodes[result].to = Len(toks)
                   /\ \A k \in 1..Len(children) :
                        /\ kind(k) \in {"VariableDefinition", "AssignmentStatement"}
                        /\ k > 1 /\ kind(k) = "VariableDefinition" =>
                             kind(k - 1) = "VariableDefinition"
                        /\ kind(k) = "AssignmentStatement" =>
                             Len(nodes[children[k]].kids) > 1
    <3>1. stack = <<>> /\ result # Null
      BY <2>2 DEF Accepted, Done
    <3> QED
      BY <3>1 DEF CInv, Root, IsChild, Sorted
  <2> QED
    BY <2>1, <2>2 DEF TreesCoverTokens
<1> QED
  BY <1>1, ParserCover, PTL

----------------------------------------------------------------------------
(***************************************************************************)
(* Precedence.  A call of parseExpression carries the power its caller asks*)
(* for; what it has consumed binds at least as tightly, and it stops before*)
(* what does not.                                                          *)
(***************************************************************************)

(* The activations that wait for an operand, and the power they ask for.   *)
AsksFor == {"expression.operand", "prefix.unary"}

ExpressionPlaces == {"expression", "expression.prefix", "expression.operator",
                     "expression.operand"}
PrefixPlaces == {"prefix", "prefix.group", "prefix.unary"}

Operations == {"BinaryExpression", "UnaryExpression"}

Left(op) == InfixPower[op].left

Power(f, ts) ==
  IF f.at = "prefix.unary" THEN PrefixPower[ts[f.token]] ELSE InfixPower[ts[f.token]].right

(* What node n asks of its operand, and of what follows it.                *)
NodePower(n, ts) ==
  IF n.kind = "UnaryExpression" THEN PrefixPower[ts[n.token]]
  ELSE InfixPower[ts[n.token]].right

TopBinds(p, power, ts, ns) ==
  p # Null /\ ns[p].kind = "BinaryExpression" => Left(ts[ns[p].token]) >= power

Loose(type, power) == type \in DOMAIN InfixPower => Left(type) < power

TypeIn(ts, i) == IF i \in 1..Len(ts) THEN ts[i] ELSE "empty optional"

NodeBinds(n, ts, ns) ==
  n.kind \in Operations =>
    /\ TopBinds(n.kids[Len(n.kids)], NodePower(n, ts), ts, ns)
    /\ Loose(TypeIn(ts, n.to + 1), NodePower(n, ts))

HeapBinds(ts, ns) == \A p \in 1..Len(ns) : NodeBinds(ns[p], ts, ns)

(* What an activation of parseExpression has consumed binds at least as    *)
(* its caller asks, and this is what the caller asks for.                  *)
FrameBinds(f, ts, ns) ==
  /\ f.at \in {"expression.operator", "expression.operand"} =>
       TopBinds(f.own[1], f.min, ts, ns)
  /\ f.at = "expression.operand" => Left(ts[f.token]) >= f.min

StackBinds(S, ts, ns) ==
  /\ \A k \in 1..Len(S) : FrameBinds(S[k], ts, ns)
  /\ \A k \in 2..Len(S) : S[k].at \in AsksFor => S[k - 1].min = Power(S[k], ts)

(* What has just been returned.                                            *)
Answers ==
  stack # <<>> /\ result # Null =>
    /\ Top.at \in AsksFor =>
         /\ TopBinds(result, Power(Top, toks), toks, nodes)
         /\ Loose(Current, Power(Top, toks))
    /\ Top.at = "expression.prefix" => nodes[result].kind # "BinaryExpression"

BInv == HeapBinds(toks, nodes) /\ StackBinds(stack, toks, nodes) /\ Answers

----------------------------------------------------------------------------
(* The powers of the code are the levels of the language.                  *)
LEMMA Powers ==
  ASSUME NEW op \in DOMAIN InfixPower
  PROVE  /\ \A n : n.kind = "BinaryExpression" /\ toks[n.token] \in DOMAIN InfixPower =>
              (Takes(n, op) <=> Left(op) >= InfixPower[toks[n.token]].right)
         /\ \A n : n.kind = "UnaryExpression" /\ toks[n.token] \in DOMAIN PrefixPower =>
              (Takes(n, op) <=> Left(op) >= PrefixPower[toks[n.token]])
<1> DEFINE Row(o, level, left, right) ==
             BinaryLevel(o) = level /\ InfixPower[o].left = left /\ InfixPower[o].right = right
<1>1. ASSUME NEW o \in DOMAIN InfixPower
      PROVE  \/ Row(o, 1, 20, 21) \/ Row(o, 2, 30, 31) \/ Row(o, 4, 50, 50)
             \/ Row(o, 5, 60, 61) \/ Row(o, 6, 70, 71)
  <2>1. o \in Logical \cup Comparisons \cup Additive \cup Multiplicative
    BY DEF InfixPower
  <2>2. CASE o = "OR"
    BY <2>2 DEF InfixPower, BinaryLevel, Logical, Comparisons, Additive, Multiplicative
  <2>3. CASE o = "AND"
    BY <2>3 DEF InfixPower, BinaryLevel, Logical, Comparisons, Additive, Multiplicative
  <2>4. CASE o \in Comparisons
    BY <2>4 DEF InfixPower, BinaryLevel, Logical, Comparisons, Additive, Multiplicative
  <2>5. CASE o \in Additive
    BY <2>5 DEF InfixPower, BinaryLevel, Logical, Comparisons, Additive, Multiplicative
  <2>6. CASE o \in Multiplicative
    BY <2>6 DEF InfixPower, BinaryLevel, Logical, Comparisons, Additive, Multiplicative
  <2> QED
    BY <2>1, <2>2, <2>3, <2>4, <2>5, <2>6 DEF Logical
<1>2. ASSUME NEW u \in DOMAIN PrefixPower
      PROVE  \/ UnaryLevel(u) = 3 /\ PrefixPower[u] = 40
             \/ UnaryLevel(u) = 7 /\ PrefixPower[u] = 80
  BY DEF PrefixPower, UnaryLevel
<1> HIDE DEF Row
<1>3. ASSUME NEW o \in DOMAIN InfixPower
      PROVE  (BinaryLevel(op) > BinaryLevel(o) \/ (BinaryLevel(op) = 4 /\ BinaryLevel(o) = 4))
               <=> Left(op) >= InfixPower[o].right
  <2>1. /\ \/ Row(o, 1, 20, 21) \/ Row(o, 2, 30, 31) \/ Row(o, 4, 50, 50)
           \/ Row(o, 5, 60, 61) \/ Row(o, 6, 70, 71)
        /\ \/ Row(op, 1, 20, 21) \/ Row(op, 2, 30, 31) \/ Row(op, 4, 50, 50)
           \/ Row(op, 5, 60, 61) \/ Row(op, 6, 70, 71)
    BY <1>1, <1>3
  <2> QED
    BY ONLY <2>1 DEF Row, Left
<1>4. ASSUME NEW u \in DOMAIN PrefixPower
      PROVE  (BinaryLevel(op) > UnaryLevel(u) \/ (BinaryLevel(op) = 4 /\ UnaryLevel(u) = 4))
               <=> Left(op) >= PrefixPower[u]
  <2>1. \/ Row(op, 1, 20, 21) \/ Row(op, 2, 30, 31) \/ Row(op, 4, 50, 50)
        \/ Row(op, 5, 60, 61) \/ Row(op, 6, 70, 71)
    BY <1>1
  <2>2. \/ UnaryLevel(u) = 3 /\ PrefixPower[u] = 40
        \/ UnaryLevel(u) = 7 /\ PrefixPower[u] = 80
    BY <1>2, <1>4
  <2> QED
    BY ONLY <2>1, <2>2 DEF Row, Left
<1> QED
  BY <1>3, <1>4 DEF Takes

LEMMA PowersAreNumbers ==
  /\ \A op \in DOMAIN InfixPower : InfixPower[op].left \in Nat /\ InfixPower[op].right \in Nat
  /\ \A op \in DOMAIN PrefixPower : PrefixPower[op] \in Nat
<1>1. \A op \in DOMAIN PrefixPower : PrefixPower[op] \in Nat
  BY DEF PrefixPower
<1>2. \A op \in DOMAIN InfixPower : InfixPower[op].left \in Nat /\ InfixPower[op].right \in Nat
  BY DEF InfixPower, Logical, Comparisons, Additive, Multiplicative
<1> QED
  BY <1>1, <1>2

LEMMA BInvBinds ==
  ASSUME IInv, BInv
  PROVE  OperatorsBind
<1> SUFFICES ASSUME NEW p \in 1..Len(nodes), nodes[p].kind \in Operations
             PROVE  LET n == nodes[p]
                        operand == nodes[n.kids[Len(n.kids)]]
                        next == TypeAt(n.to + 1)
                    IN  /\ operand.kind = "BinaryExpression" => Takes(n, toks[operand.token])
                        /\ next \in DOMAIN InfixPower => ~Takes(n, next)
  BY DEF OperatorsBind, Operations
<1> DEFINE n == nodes[p]
           q == n.kids[Len(n.kids)]
           operand == nodes[q]
           next == TypeAt(n.to + 1)
<1>1. NodeBinds(n, toks, nodes) /\ NodeFine(n, toks, nodes)
  BY DEF BInv, HeapBinds, IInv, HeapFine
<1>2. /\ n.kind = "BinaryExpression" \/ n.kind = "UnaryExpression"
      /\ n.kind = "BinaryExpression" =>
           /\ toks[n.token] \in DOMAIN InfixPower
           /\ NodePower(n, toks) = InfixPower[toks[n.token]].right
           /\ Len(n.kids) = 2 /\ n.kids[2] # Null
      /\ n.kind = "UnaryExpression" =>
           /\ toks[n.token] \in DOMAIN PrefixPower
           /\ NodePower(n, toks) = PrefixPower[toks[n.token]]
           /\ Len(n.kids) = 1 /\ n.kids[1] # Null
  BY <1>1 DEF Operations, NodePower, NodeFine
<1>3. q # Null /\ q \in 1..Len(nodes)
  <2>1. Len(n.kids) \in 1..Len(n.kids)
    BY <1>2
  <2>2. q \in 0..Len(nodes)
    BY <1>1, <2>1 DEF NodeFine
  <2>3. q # Null
    BY <1>2
  <2> QED
    BY <2>2, <2>3 DEF Null
<1>4. operand.kind = "BinaryExpression" =>
        /\ toks[operand.token] \in DOMAIN InfixPower
        /\ Left(toks[operand.token]) >= NodePower(n, toks)
  <2>1. NodeFine(operand, toks, nodes)
    BY <1>3 DEF IInv, HeapFine
  <2>2. TopBinds(q, NodePower(n, toks), toks, nodes)
    BY <1>1, <1>2 DEF NodeBinds, Operations
  <2> QED
    BY <1>3, <2>1, <2>2 DEF TopBinds, NodeFine
<1>5. next \in DOMAIN InfixPower => Left(next) < NodePower(n, toks)
  BY <1>1, <1>2 DEF NodeBinds, Operations, Loose, TypeIn, TypeAt
<1>6. NodePower(n, toks) \in Nat /\ \A op \in DOMAIN InfixPower : Left(op) \in Nat
  BY <1>2, PowersAreNumbers DEF Left
<1> HIDE DEF n, q, operand, next
<1>7. ASSUME NEW op \in DOMAIN InfixPower
      PROVE  Takes(n, op) <=> Left(op) >= NodePower(n, toks)
  <2>1. CASE n.kind = "BinaryExpression"
    BY <1>2, <2>1, Powers
  <2>2. CASE n.kind = "UnaryExpression"
    BY <1>2, <2>2, Powers
  <2> QED
    BY <1>2, <2>1, <2>2
<1>8. operand.kind = "BinaryExpression" => Takes(n, toks[operand.token])
  BY <1>4, <1>7
<1>9. next \in DOMAIN InfixPower => ~Takes(n, next)
  BY <1>5, <1>6, <1>7
<1> QED
  BY <1>8, <1>9 DEF n, q, operand, next

----------------------------------------------------------------------------
(* What is known stays known in a larger heap.                             *)

LEMMA TopBindsGrows ==
  ASSUME NEW ts, NEW ns, NEW ns2, Grows(ns, ns2), NEW p \in 0..Len(ns), NEW power,
         TopBinds(p, power, ts, ns)
  PROVE  TopBinds(p, power, ts, ns2)
<1>1. p # Null => p \in 1..Len(ns)
  BY DEF Null, Grows
<1> QED
  BY <1>1 DEF TopBinds, Grows

LEMMA NodeBindsGrows ==
  ASSUME NEW ts, NEW ns, NEW ns2, Grows(ns, ns2), NEW n, NodeFine(n, ts, ns),
         NodeBinds(n, ts, ns)
  PROVE  NodeBinds(n, ts, ns2)
<1> SUFFICES ASSUME n.kind \in Operations
             PROVE  NodeBinds(n, ts, ns2)
  BY DEF NodeBinds
<1>1. Len(n.kids) \in 1..Len(n.kids)
  BY DEF NodeFine, Operations
<1>2. n.kids[Len(n.kids)] \in 0..Len(ns)
  BY <1>1 DEF NodeFine
<1>3. TopBinds(n.kids[Len(n.kids)], NodePower(n, ts), ts, ns2)
  BY <1>2, TopBindsGrows DEF NodeBinds
<1> QED
  BY <1>3 DEF NodeBinds

LEMMA FrameBindsGrows ==
  ASSUME NEW ts, NEW ns, NEW ns2, Grows(ns, ns2), NEW f, FrameFine(f, ts, ns),
         FrameBinds(f, ts, ns)
  PROVE  FrameBinds(f, ts, ns2)
<1>1. f.at \in {"expression.operator", "expression.operand"} => f.own[1] \in 0..Len(ns)
  <2> SUFFICES ASSUME f.at \in {"expression.operator", "expression.operand"}
               PROVE  f.own[1] \in 0..Len(ns)
    OBVIOUS
  <2>1. Len(f.own) = 1
    BY DEF FrameFine, OwnsOne
  <2>2. 1 \in 1..Len(f.own)
    BY <2>1
  <2>3. f.own[1] \in 1..Len(ns)
    BY <2>2 DEF FrameFine
  <2> QED
    BY <2>3
<1> QED
  BY <1>1, TopBindsGrows DEF FrameBinds

(* A node at the end of the heap.                                          *)
LEMMA HeapBindsAppend ==
  ASSUME IInv, IInv', BInv, NEW n, nodes' = Append(nodes, n), toks' = toks,
         NodeBinds(n, toks, nodes')
  PROVE  /\ HeapBinds(toks, nodes') /\ Grows(nodes, nodes') /\ nodes'[NewPtr] = n
         /\ n \in Node /\ NewPtr \in 1..Len(nodes')
<1>1. nodes \in Seq(Node) /\ Len(nodes) \in Nat /\ nodes' \in Seq(Node)
  BY DEF IInv, TypeOK
<1>2. Len(nodes') = Len(nodes) + 1 /\ nodes'[Len(nodes) + 1] = n
  BY <1>1
<1>3. n \in Node
  <2>1. Len(nodes) + 1 \in 1..Len(nodes')
    BY <1>1, <1>2
  <2> QED
    BY <1>1, <1>2, <2>1
<1>4. Grows(nodes, nodes')
  BY <1>1, <1>3, GrowsAppend
<1>5. ASSUME NEW p \in 1..Len(nodes')
      PROVE  NodeBinds(nodes'[p], toks, nodes')
  <2>1. CASE p \in 1..Len(nodes)
    <3>1. /\ nodes'[p] = nodes[p] /\ NodeFine(nodes[p], toks, nodes)
          /\ NodeBinds(nodes[p], toks, nodes)
      BY <1>4, <2>1 DEF Grows, IInv, HeapFine, BInv, HeapBinds
    <3> QED
      BY <1>4, <3>1, NodeBindsGrows
  <2>2. CASE p = Len(nodes) + 1
    BY <1>2, <2>2
  <2> QED
    BY <1>1, <1>2, <1>5, <2>1, <2>2
<1> QED
  BY <1>1, <1>2, <1>3, <1>4, <1>5 DEF HeapBinds, NewPtr

----------------------------------------------------------------------------
(* One lemma per shape of a step.                                          *)

LEMMA GoOnBinds ==
  ASSUME IInv, stack # <<>>, BInv, toks' = toks, Grows(nodes, nodes'),
         HeapBinds(toks, nodes'), NEW f \in Frame, stack' = <<f>> \o Tail(stack),
         f.min = Top.min, f.at \notin AsksFor, f.at # "expression.prefix",
         FrameBinds(f, toks, nodes')
  PROVE  BInv'
<1> DEFINE S == <<f>> \o Tail(stack)
<1>1. /\ S \in Seq(Frame) /\ S # <<>> /\ Len(S) = Len(stack) /\ S[1] = f
      /\ \A k \in 2..Len(stack) : S[k] = stack[k]
  BY TopFacts, ReplaceTop
<1>2. Head(S) = f
  BY <1>1
<1> HIDE DEF S
<1>3. Top = stack[1] /\ Len(stack) \in Nat /\ StackFine(stack, toks, nodes)
  BY TopFacts
<1>4. ASSUME NEW k \in 1..Len(S)
      PROVE  FrameBinds(S[k], toks, nodes')
  <2>1. CASE k = 1
    BY <1>1, <2>1
  <2>2. CASE k # 1
    <3>1. k \in 2..Len(stack) /\ k \in 1..Len(stack)
      BY <1>1, <1>4, <2>2
    <3>2. FrameBinds(stack[k], toks, nodes) /\ FrameFine(stack[k], toks, nodes)
      BY <1>3, <3>1 DEF BInv, StackBinds, StackFine, FramesFine
    <3> QED
      BY <1>1, <3>1, <3>2, FrameBindsGrows
  <2> QED
    BY <2>1, <2>2
<1>5. ASSUME NEW k \in 2..Len(S), S[k].at \in AsksFor
      PROVE  S[k - 1].min = Power(S[k], toks)
  <2>1. k \in 2..Len(stack) /\ S[k] = stack[k]
    BY <1>1, <1>5
  <2>2. stack[k - 1].min = Power(stack[k], toks)
    BY <1>5, <2>1 DEF BInv, StackBinds
  <2>3. S[k - 1].min = stack[k - 1].min
    <3>1. CASE k = 2
      BY <1>1, <1>3, <3>1
    <3>2. CASE k # 2
      <4>1. k - 1 \in 2..Len(stack)
        BY <2>1, <3>2
      <4> QED
        BY <1>1, <4>1
    <3> QED
      BY <3>1, <3>2
  <2> QED
    BY <2>1, <2>2, <2>3
<1>6. StackBinds(S, toks, nodes')
  BY <1>4, <1>5 DEF StackBinds
<1>7. stack' = S
  BY DEF S
<1>8. Top' = f /\ Top'.at \notin AsksFor /\ Top'.at # "expression.prefix"
  BY <1>2, <1>7 DEF Top
<1>9. Answers'
  BY ONLY <1>8 DEF Answers, AsksFor
<1> QED
  BY <1>6, <1>7, <1>9 DEF BInv

LEMMA CallBinds ==
  ASSUME IInv, stack # <<>>, BInv, toks' = toks, nodes' = nodes,
         NEW f \in Frame, NEW c \in Frame, stack' = <<c, f>> \o Tail(stack),
         f.min = Top.min, f.at \in AsksFor => c.min = Power(f, toks),
         c.at \notin AsksFor, c.at \notin {"expression.prefix", "expression.operator"},
         FrameBinds(f, toks, nodes)
  PROVE  BInv'
<1> DEFINE S == <<c, f>> \o Tail(stack)
<1>1. /\ S \in Seq(Frame) /\ S # <<>> /\ Len(S) = Len(stack) + 1 /\ S[1] = c /\ S[2] = f
      /\ \A k \in 2..Len(stack) : S[k + 1] = stack[k]
  BY TopFacts, PushCallee
<1>2. Head(S) = c
  BY <1>1
<1> HIDE DEF S
<1>3. Top = stack[1] /\ Len(stack) \in Nat
  BY TopFacts
<1>4. ASSUME NEW k \in 3..Len(S)
      PROVE  S[k] = stack[k - 1] /\ k - 1 \in 2..Len(stack) /\ k - 1 \in 1..Len(stack)
  <2> DEFINE j == k - 1
  <2>1. j \in 2..Len(stack) /\ j + 1 = k /\ j \in 1..Len(stack)
    BY <1>1, <1>3, <1>4
  <2> QED
    BY <1>1, <2>1
<1>5. FrameBinds(c, toks, nodes)
  BY DEF FrameBinds, AsksFor
<1>6. ASSUME NEW k \in 1..Len(S)
      PROVE  FrameBinds(S[k], toks, nodes)
  <2>1. CASE k \in {1, 2}
    BY <1>1, <1>5, <2>1
  <2>2. CASE k \in 3..Len(S)
    BY <1>4, <2>2 DEF BInv, StackBinds
  <2> QED
    BY <1>6, <2>1, <2>2
<1>7. ASSUME NEW k \in 2..Len(S), S[k].at \in AsksFor
      PROVE  S[k - 1].min = Power(S[k], toks)
  <2>1. CASE k = 2
    BY <1>1, <1>7, <2>1
  <2>2. CASE k \in 3..Len(S)
    <3> DEFINE j == k - 1
    <3>1. S[k] = stack[j] /\ j \in 2..Len(stack)
      BY <1>4, <2>2
    <3>2. stack[j - 1].min = Power(stack[j], toks)
      BY <1>7, <3>1 DEF BInv, StackBinds
    <3>3. S[j].min = stack[j - 1].min
      <4>1. CASE j = 2
        BY <1>1, <1>3, <4>1
      <4>2. CASE j # 2
        <5>1. j \in 3..Len(S)
          BY <1>1, <3>1, <4>2
        <5> QED
          BY <1>4, <5>1
      <4> QED
        BY <4>1, <4>2
    <3> QED
      BY <3>1, <3>2, <3>3
  <2> QED
    BY <1>7, <2>1, <2>2
<1>8. StackBinds(S, toks, nodes)
  BY <1>6, <1>7 DEF StackBinds
<1>9. stack' = S
  BY DEF S
<1>10. Top' = c /\ Top'.at \notin AsksFor /\ Top'.at # "expression.prefix"
  BY <1>2, <1>9 DEF Top
<1>11. Answers'
  BY ONLY <1>10 DEF Answers, AsksFor
<1> QED
  BY <1>8, <1>9, <1>11 DEF BInv

(* What is returned to parseExpression and parsePrefix comes from these.   *)
LEMMA OfExpression ==
  ASSUME NEW at \in Places
  PROVE  /\ Function(at) = "expression" => at \in ExpressionPlaces
         /\ Function(at) = "prefix" => at \in PrefixPlaces
<1>1. at \in {"program", "statements", "program.definition", "program.statement",
              "definition", "definition.variable", "definition.literal",
              "statement", "statement.simple",
              "typedVariable", "typedVariable.colon", "typedVariable.type",
              "type", "type.bracket", "literal", "assignment", "assignment.expression"}
        \cup ExpressionPlaces \cup PrefixPlaces
  BY DEF Places, Propagating, ExpressionPlaces, PrefixPlaces
<1> QED
  BY <1>1, FunctionsOfPlaces
     DEF OuterPlaces, DefinitionPlaces, StatementPlaces, ExpressionPlaces, PrefixPlaces

LEMMA ReturnBinds ==
  ASSUME IInv, CInv, stack # <<>>, BInv, toks' = toks, Grows(nodes, nodes'),
         HeapBinds(toks, nodes'), stack' = Tail(stack),
         result' # Null =>
           /\ Top.at \in ExpressionPlaces =>
                /\ TopBinds(result', Top.min, toks, nodes')
                /\ Loose(Current', Top.min)
           /\ Top.at \in PrefixPlaces => nodes'[result'].kind # "BinaryExpression"
  PROVE  BInv'
<1> DEFINE S == Tail(stack)
<1>1. /\ Len(stack) \in Nat /\ Len(stack) > 0 /\ stack \in Seq(Frame) /\ Top = stack[1]
      /\ StackFine(stack, toks, nodes)
  BY TopFacts
<1>2. /\ S \in Seq(Frame) /\ Len(S) = Len(stack) - 1 /\ Len(S) \in Nat
      /\ \A k \in 1..Len(S) : S[k] = stack[k + 1]
  BY <1>1, HeadTailProperties
<1> HIDE DEF S
<1>3. ASSUME NEW k \in 1..Len(S)
      PROVE  S[k] = stack[k + 1] /\ k + 1 \in 2..Len(stack) /\ k + 1 \in 1..Len(stack)
  BY <1>1, <1>2, <1>3
<1>4. ASSUME NEW k \in 1..Len(S)
      PROVE  FrameBinds(S[k], toks, nodes')
  <2>1. FrameBinds(stack[k + 1], toks, nodes) /\ FrameFine(stack[k + 1], toks, nodes)
    BY <1>1, <1>3 DEF BInv, StackBinds, StackFine, FramesFine
  <2> QED
    BY <1>3, <2>1, FrameBindsGrows
<1>5. ASSUME NEW k \in 2..Len(S), S[k].at \in AsksFor
      PROVE  S[k - 1].min = Power(S[k], toks)
  <2>1. k \in 1..Len(S) /\ k - 1 \in 1..Len(S) /\ (k - 1) + 1 = k /\ (k + 1) - 1 = k
    BY <1>2, <1>5
  <2>2. stack[(k + 1) - 1].min = Power(stack[k + 1], toks)
    BY <1>3, <1>5, <2>1 DEF BInv, StackBinds
  <2> QED
    BY <1>2, <1>3, <2>1, <2>2
<1>6. StackBinds(S, toks, nodes')
  BY <1>4, <1>5 DEF StackBinds
<1>7. ASSUME S # <<>>, result' # Null
      PROVE  /\ S[1].at \in AsksFor =>
                  /\ TopBinds(result', Power(S[1], toks), toks, nodes')
                  /\ Loose(Current', Power(S[1], toks))
             /\ S[1].at = "expression.prefix" => nodes'[result'].kind # "BinaryExpression"
  <2>1. 1 \in 1..Len(S) /\ 2 \in 2..Len(stack) /\ S[1] = stack[2]
    BY <1>1, <1>2, <1>7
  <2>2. PICK st : CoveredBy(st)
    BY DEF CInv, Covered
  <2>3. Callee(stack[2].at) = Function(Top.at) /\ Top.at \in Places
    <3>1. Callee(stack[2].at) = Function(stack[2 - 1].at)
      BY <2>1, <2>2, CoverFacts
    <3>2. Top \in Frame
      BY TopFacts
    <3> QED
      BY <1>1, <3>1, <3>2 DEF Frame
  <2>4. ASSUME S[1].at \in AsksFor
        PROVE  /\ TopBinds(result', Power(S[1], toks), toks, nodes')
               /\ Loose(Current', Power(S[1], toks))
    <3>1. Top.at \in ExpressionPlaces
      BY <2>1, <2>3, <2>4, Callees, OfExpression DEF AsksFor
    <3>2. stack[2 - 1].min = Power(stack[2], toks)
      BY <2>1, <2>4 DEF BInv, StackBinds
    <3> QED
      BY <1>1, <1>7, <2>1, <3>1, <3>2
  <2>5. ASSUME S[1].at = "expression.prefix"
        PROVE  nodes'[result'].kind # "BinaryExpression"
    <3>1. Top.at \in PrefixPlaces
      BY <2>1, <2>3, <2>5, Callees, OfExpression
    <3> QED
      BY <1>7, <3>1
  <2> QED
    BY <2>4, <2>5
<1>8. stack' = S
  BY DEF S
<1>9. S # <<>> => Head(S) = S[1]
  OBVIOUS
<1>10. stack' # <<>> => Top' = S[1]
  BY <1>8, <1>9 DEF Top
<1>11. Answers'
  BY ONLY <1>7, <1>8, <1>10, toks' = toks DEF Answers, AsksFor, Power
<1> QED
  BY <1>6, <1>8, <1>11 DEF BInv

(* The heap of a step that makes no operation.                             *)
LEMMA PlainNode ==
  ASSUME IInv, IInv', BInv, toks' = toks, NEW kind, NEW token, NEW kids, NEW dim, NEW from, NEW to,
         New(kind, token, kids, dim, from, to), kind \notin Operations
  PROVE  HeapBinds(toks, nodes') /\ Grows(nodes, nodes')
<1> DEFINE n == [kind |-> kind, token |-> token, kids |-> kids, dim |-> dim,
                 from |-> from, to |-> to]
<1>1. nodes' = Append(nodes, n) /\ n.kind \notin Operations
  BY DEF New
<1> HIDE DEF n
<1>2. NodeBinds(n, toks, nodes')
  BY <1>1 DEF NodeBinds
<1> QED
  BY <1>1, <1>2, HeapBindsAppend

LEMMA SameHeap ==
  ASSUME IInv, BInv, nodes' = nodes
  PROVE  HeapBinds(toks, nodes') /\ Grows(nodes, nodes')
<1>1. nodes \in Seq(Node)
  BY DEF IInv, TypeOK
<1> QED
  BY <1>1, GrowsSame DEF BInv

LEMMA NullBinds ==
  ASSUME IInv, CInv, BInv, stack # <<>>, toks' = toks, nodes' = nodes, Return(Null)
  PROVE  BInv'
BY SameHeap, ReturnBinds DEF Return

LEMMA FailureBinds ==
  ASSUME IInv, CInv, BInv, stack # <<>>, toks' = toks
  PROVE  /\ FailExpected => BInv'
         /\ FailSilently => BInv'
         /\ \A id, t : Fail(id, t) => BInv'
BY NullBinds DEF FailExpected, FailSilently, Fail

(* A node returned by a function that parses no expression.                *)
LEMMA PlainReturnBinds ==
  ASSUME IInv, IInv', CInv, BInv, stack # <<>>, toks' = toks,
         Top.at \notin ExpressionPlaces \cup PrefixPlaces,
         NEW kind, NEW token, NEW kids, NEW dim, NEW from, NEW to, NEW p,
         New(kind, token, kids, dim, from, to), kind \notin Operations, Return(p)
  PROVE  BInv'
BY PlainNode, ReturnBinds DEF Return

(* Calls and moves of functions that ask for nothing.                      *)
LEMMA PlainCallBinds ==
  ASSUME IInv, BInv, stack # <<>>, toks' = toks, nodes' = nodes,
         NEW back \in Places, NEW own \in Seq(Nat), NEW here \in Nat,
         back \notin AsksFor, NEW at \in Places, NEW token \in Nat,
         at \notin AsksFor, at \notin {"expression.prefix", "expression.operator"},
         back # "expression.operator",
         stack' = <<Enter(at, 0, token),
                    [Top EXCEPT !.at = back, !.own = own, !.token = here]>> \o Tail(stack)
  PROVE  BInv'
<1> DEFINE f == [Top EXCEPT !.at = back, !.own = own, !.token = here]
           c == Enter(at, 0, token)
<1>0. Top \in Frame
  BY TopFacts
<1>1. f \in Frame /\ f.at = back /\ f.min = Top.min
  BY <1>0 DEF Frame
<1>2. c \in Frame /\ c.at = at
  BY Entered
<1>3. stack' = <<c, f>> \o Tail(stack)
  OBVIOUS
<1> HIDE DEF f, c
<1>4. FrameBinds(f, toks, nodes)
  BY <1>1 DEF FrameBinds, AsksFor
<1> QED
  BY <1>1, <1>2, <1>3, <1>4, CallBinds

LEMMA PlainGoOnBinds ==
  ASSUME IInv, BInv, stack # <<>>, toks' = toks, HeapBinds(toks, nodes'), Grows(nodes, nodes'),
         NEW at \in Places, NEW own \in Seq(Nat),
         at \notin AsksFor, at \notin {"expression.prefix", "expression.operator"},
         stack' = <<[Top EXCEPT !.at = at, !.own = own, !.token = Top.token]>> \o Tail(stack)
  PROVE  BInv'
<1> DEFINE f == [Top EXCEPT !.at = at, !.own = own, !.token = Top.token]
<1>0. Top \in Frame /\ Top.token \in Nat
  BY TopFacts
<1>1. f \in Frame /\ f.at = at /\ f.min = Top.min
  BY <1>0 DEF Frame
<1>2. stack' = <<f>> \o Tail(stack)
  OBVIOUS
<1> HIDE DEF f
<1>3. FrameBinds(f, toks, nodes')
  BY <1>1 DEF FrameBinds, AsksFor
<1> QED
  BY <1>1, <1>2, <1>3, GoOnBinds

LEMMA SameFrame ==
  ASSUME NEW f \in Frame, NEW at, NEW own, NEW token
  PROVE  /\ [f EXCEPT !.at = at] = [f EXCEPT !.at = at, !.own = f.own, !.token = f.token]
         /\ [f EXCEPT !.at = at, !.own = own]
              = [f EXCEPT !.at = at, !.own = own, !.token = f.token]
         /\ [f EXCEPT !.at = at, !.token = token]
              = [f EXCEPT !.at = at, !.own = f.own, !.token = token]
         /\ [f EXCEPT !.own = own]
              = [f EXCEPT !.at = f.at, !.own = own, !.token = f.token]
BY DEF Frame

----------------------------------------------------------------------------
(* The functions that parse no expression.                                 *)

LEMMA PlainCall ==
  ASSUME IInv, BInv, stack # <<>>, toks' = toks, nodes' = nodes,
         NEW back \in Places \ (AsksFor \cup {"expression.operator"}),
         NEW at \in Places \ (AsksFor \cup {"expression.prefix", "expression.operator"}),
         NEW token \in Nat, Call(Enter(at, 0, token), back)
  PROVE  BInv'
<1>1. Top \in Frame /\ Top.own \in Seq(Nat) /\ Top.token \in Nat
  BY TopFacts
<1>2. stack' = <<Enter(at, 0, token), [Top EXCEPT !.at = back]>> \o Tail(stack)
  BY DEF Call, CallFrom
<1>3. [Top EXCEPT !.at = back] = [Top EXCEPT !.at = back, !.own = Top.own, !.token = Top.token]
  BY ONLY <1>1, SameFrame
<1> QED
  BY <1>1, <1>2, <1>3, PlainCallBinds

LEMMA PlainPlaces ==
  /\ {"program.definition", "program.statement", "definition.variable", "definition.literal",
      "typedVariable.type", "type.bracket", "statement.simple", "assignment.expression",
      "expression.prefix", "prefix.group"} \subseteq Places \ (AsksFor \cup {"expression.operator"})
  /\ {"definition", "statement", "typedVariable", "type", "literal", "assignment",
      "expression", "prefix", "program", "statements", "typedVariable.colon"}
       \subseteq Places \ (AsksFor \cup {"expression.prefix", "expression.operator"})
BY DEF Places, Propagating, AsksFor

LEMMA OuterCallsBind ==
  ASSUME IInv, CInv, BInv
  PROVE  /\ Definition => BInv'
         /\ AssignmentExpression => BInv'
         /\ TypedVariableColon => BInv'
         /\ Statement => BInv'
         /\ Expression => BInv'
<1>1. pos + 1 \in Nat
  BY DEF IInv, TypeOK
<1>2. Definition => BInv'
  BY PlainCall, PlainPlaces DEF Definition, At
<1>3. AssignmentExpression => BInv'
  BY PlainCall, PlainPlaces DEF AssignmentExpression, At
<1>4. TypedVariableColon => BInv'
  BY PlainCall, PlainPlaces, FailureBinds DEF TypedVariableColon, At
<1>5. Statement => BInv'
  BY <1>1, PlainCall, PlainPlaces, FailureBinds DEF Statement, At
<1>6. Expression => BInv'
  BY PlainCall, PlainPlaces DEF Expression, At
<1> QED
  BY <1>2, <1>3, <1>4, <1>5, <1>6

LEMMA OuterReturnsBind ==
  ASSUME IInv, IInv', CInv, BInv
  PROVE  /\ DefinitionEnd => BInv'
         /\ TypedVariableEnd => BInv'
         /\ TypeBracket => BInv'
         /\ Literal => BInv'
         /\ AssignmentEnd => BInv'
         /\ StatementEnd => BInv'
         /\ CalleeFailed => BInv'
<1>1. /\ {"definition.literal", "typedVariable.type", "type.bracket", "literal",
          "assignment.expression", "statement.simple"}
           \cap (ExpressionPlaces \cup PrefixPlaces) = {}
      /\ {"VariableDefinition", "TypedVariable", "Type", "Literal", "AssignmentStatement"}
           \cap Operations = {}
  BY DEF ExpressionPlaces, PrefixPlaces, Operations
<1>2. DefinitionEnd => BInv'
  BY <1>1, PlainReturnBinds, FailureBinds DEF DefinitionEnd, At
<1>3. TypedVariableEnd => BInv'
  BY <1>1, PlainReturnBinds DEF TypedVariableEnd, At
<1>4. TypeBracket => BInv'
  BY <1>1, PlainReturnBinds, FailureBinds DEF TypeBracket, At
<1>5. Literal => BInv'
  BY <1>1, PlainReturnBinds, FailureBinds DEF Literal, At
<1>6. AssignmentEnd => BInv'
  BY <1>1, PlainReturnBinds DEF AssignmentEnd, At
<1>7. ASSUME StatementEnd
      PROVE  BInv'
  <2>1. stack # <<>> /\ Top.at = "statement.simple" /\ toks' = toks
    BY <1>7 DEF StatementEnd, At
  <2>2. CASE Return(result) /\ nodes' = nodes
    BY <1>1, <2>1, <2>2, SameHeap, ReturnBinds DEF Return
  <2>3. CASE Fail("ExpectedNewLine", pos)
    BY <2>1, <2>3, FailureBinds
  <2> QED
    BY <1>7, <2>2, <2>3 DEF StatementEnd
<1>8. CalleeFailed => BInv'
  BY FailureBinds DEF CalleeFailed
<1> QED
  BY <1>2, <1>3, <1>4, <1>5, <1>6, <1>7, <1>8

LEMMA ProgramBinds ==
  ASSUME IInv, CInv, BInv, Program
  PROVE  BInv'
<1>1. stack # <<>> /\ Top.at = "program" /\ toks' = toks /\ nodes' = nodes /\ pos + 1 \in Nat
  BY DEF Program, At, IInv, TypeOK
<1>2. CASE Call(Enter("definition", 0, pos + 1), "program.definition")
  BY <1>1, <1>2, PlainCall, PlainPlaces
<1>3. CASE GoOn([Top EXCEPT !.at = "statements"])
  <2>1. Top \in Frame /\ Top.own \in Seq(Nat)
    BY <1>1, TopFacts
  <2>2. stack' = <<[Top EXCEPT !.at = "statements"]>> \o Tail(stack)
    BY <1>3 DEF GoOn
  <2>3. [Top EXCEPT !.at = "statements"]
          = [Top EXCEPT !.at = "statements", !.own = Top.own, !.token = Top.token]
    BY ONLY <2>1, SameFrame
  <2> QED
    BY <1>1, <2>1, <2>2, <2>3, SameHeap, PlainGoOnBinds, PlainPlaces
<1> QED
  BY <1>2, <1>3 DEF Program

LEMMA StatementsBind ==
  ASSUME IInv, IInv', CInv, BInv, Statements
  PROVE  BInv'
<1>1. stack # <<>> /\ Top.at = "statements" /\ toks' = toks
  BY DEF Statements, At
<1>2. CASE Call(Enter("statement", 0, 0), "program.statement") /\ nodes' = nodes
  BY <1>1, <1>2, PlainCall, PlainPlaces
<1>3. CASE New("Program", NoToken, Top.own, 0, 1, Len(toks)) /\ Return(NewPtr)
  <2>1. Top.at \notin ExpressionPlaces \cup PrefixPlaces /\ "Program" \notin Operations
    BY <1>1 DEF ExpressionPlaces, PrefixPlaces, Operations
  <2> QED
    BY <1>1, <1>3, <2>1, PlainReturnBinds
<1> QED
  BY <1>2, <1>3 DEF Statements

LEMMA ProgramChildBinds ==
  ASSUME IInv, CInv, BInv, ProgramChild
  PROVE  BInv'
<1> DEFINE own == Append(Top.own, result)
           at == IF Top.at = "program.definition" THEN "program" ELSE "statements"
<1>1. stack # <<>> /\ toks' = toks /\ nodes' = nodes /\ result \in Nat
  BY DEF ProgramChild, At, IInv, TypeOK
<1>2. Top \in Frame /\ Top.own \in Seq(Nat)
  BY <1>1, TopFacts
<1>3. own \in Seq(Nat) /\ at \in {"program", "statements"}
  BY <1>1, <1>2
<1>4. stack' = <<[Top EXCEPT !.own = own, !.at = at]>> \o Tail(stack)
  BY <1>2 DEF ProgramChild, GoOn, Frame
<1> HIDE DEF own, at
<1>5. [Top EXCEPT !.own = own, !.at = at]
        = [Top EXCEPT !.at = at, !.own = own, !.token = Top.token]
  BY <1>2 DEF Frame
<1> QED
  BY <1>1, <1>3, <1>4, <1>5, SameHeap, PlainGoOnBinds, PlainPlaces

LEMMA DefinitionAssignBinds ==
  ASSUME IInv, CInv, BInv, DefinitionAssign
  PROVE  BInv'
<1> DEFINE own == <<result>>
<1>1. stack # <<>> /\ toks' = toks /\ result \in Nat
  BY DEF DefinitionAssign, At, IInv, TypeOK
<1>2. CASE /\ nodes' = nodes
           /\ CallFrom([Top EXCEPT !.at = "definition.literal", !.own = own],
                       Enter("literal", 0, 0))
  <2>1. Top \in Frame /\ Top.token \in Nat /\ own \in Seq(Nat)
    BY <1>1, TopFacts
  <2> HIDE DEF own
  <2>2. stack' = <<Enter("literal", 0, 0),
                   [Top EXCEPT !.at = "definition.literal", !.own = own]>> \o Tail(stack)
    BY <1>2 DEF CallFrom
  <2>3. [Top EXCEPT !.at = "definition.literal", !.own = own]
          = [Top EXCEPT !.at = "definition.literal", !.own = own, !.token = Top.token]
    BY ONLY <2>1, SameFrame
  <2> QED
    BY <1>1, <1>2, <2>1, <2>2, <2>3, PlainCallBinds, PlainPlaces
<1>3. CASE FailExpected
  BY <1>1, <1>3, FailureBinds
<1> QED
  BY <1>2, <1>3 DEF DefinitionAssign

LEMMA TypedVariableBinds ==
  ASSUME IInv, IInv', CInv, BInv, TypedVariable
  PROVE  BInv'
<1> DEFINE own == <<NewPtr>>
<1>1. stack # <<>> /\ toks' = toks /\ Len(nodes) \in Nat
  BY DEF TypedVariable, At, IInv, TypeOK
<1>2. CASE /\ New("Identifier", pos + 1, <<>>, 0, pos + 1, pos + 1)
           /\ GoOn([Top EXCEPT !.at = "typedVariable.colon", !.own = own])
  <2>1. Top \in Frame /\ own \in Seq(Nat)
    BY <1>1, TopFacts DEF NewPtr
  <2> HIDE DEF own
  <2>2. stack' = <<[Top EXCEPT !.at = "typedVariable.colon", !.own = own]>> \o Tail(stack)
    BY <1>2 DEF GoOn
  <2>3. [Top EXCEPT !.at = "typedVariable.colon", !.own = own]
          = [Top EXCEPT !.at = "typedVariable.colon", !.own = own, !.token = Top.token]
    BY ONLY <2>1, SameFrame
  <2>4. HeapBinds(toks, nodes') /\ Grows(nodes, nodes')
    BY <1>1, <1>2, PlainNode DEF Operations
  <2> QED
    BY <1>1, <2>1, <2>2, <2>3, <2>4, PlainGoOnBinds, PlainPlaces
<1>3. CASE FailExpected
  BY <1>1, <1>3, FailureBinds
<1> QED
  BY <1>2, <1>3 DEF TypedVariable

LEMMA TypeBinds ==
  ASSUME IInv, IInv', CInv, BInv, Type
  PROVE  BInv'
<1> DEFINE t == pos + 1
<1>1. stack # <<>> /\ Top.at = "type" /\ toks' = toks /\ t \in Nat
  BY DEF Type, At, IInv, TypeOK
<1>2. CASE New("Type", t, <<>>, 0, t, t) /\ Return(NewPtr)
  <2>1. Top.at \notin ExpressionPlaces \cup PrefixPlaces /\ "Type" \notin Operations
    BY <1>1 DEF ExpressionPlaces, PrefixPlaces, Operations
  <2> QED
    BY <1>1, <1>2, <2>1, PlainReturnBinds
<1>3. CASE /\ nodes' = nodes
           /\ CallFrom([Top EXCEPT !.at = "type.bracket", !.token = t], Enter("type", 0, 0))
  <2>1. Top \in Frame /\ Top.own \in Seq(Nat)
    BY <1>1, TopFacts
  <2> HIDE DEF t
  <2>2. stack' = <<Enter("type", 0, 0), [Top EXCEPT !.at = "type.bracket", !.token = t]>>
                   \o Tail(stack)
    BY <1>3 DEF CallFrom
  <2>3. [Top EXCEPT !.at = "type.bracket", !.token = t]
          = [Top EXCEPT !.at = "type.bracket", !.own = Top.own, !.token = t]
    BY ONLY <2>1, SameFrame
  <2> QED
    BY <1>1, <1>3, <2>1, <2>2, <2>3, PlainCallBinds, PlainPlaces
<1>4. CASE FailExpected
  BY <1>1, <1>4, FailureBinds
<1> QED
  BY <1>2, <1>3, <1>4 DEF Type

LEMMA AssignmentTargetBinds ==
  ASSUME IInv, IInv', CInv, BInv, AssignmentTarget
  PROVE  BInv'
<1> DEFINE own == Append(Top.own, NewPtr)
<1>1. stack # <<>> /\ Top.at = "assignment" /\ toks' = toks /\ NewPtr \in Nat
  BY DEF AssignmentTarget, At, IInv, TypeOK, NewPtr
<1>2. Top \in Frame /\ Top.own \in Seq(Nat) /\ Top.token \in Nat
  BY <1>1, TopFacts
<1>3. own \in Seq(Nat)
  BY <1>1, <1>2
<1>4. stack' = <<[Top EXCEPT !.own = own]>> \o Tail(stack)
  BY <1>2 DEF AssignmentTarget, GoOn, Frame
<1> HIDE DEF own
<1>5. [Top EXCEPT !.own = own] = [Top EXCEPT !.at = "assignment", !.own = own, !.token = Top.token]
  BY <1>1, <1>2, SameFrame
<1>6. HeapBinds(toks, nodes') /\ Grows(nodes, nodes')
  BY <1>1, PlainNode DEF Operations, AssignmentTarget
<1> QED
  BY <1>1, <1>3, <1>4, <1>5, <1>6, PlainGoOnBinds, PlainPlaces

----------------------------------------------------------------------------
(* parseExpression and parsePrefix                                         *)

LEMMA ExpressionPrefixBinds ==
  ASSUME IInv, CInv, BInv, ExpressionPrefix
  PROVE  BInv'
<1> DEFINE own == <<result>>
           f == [Top EXCEPT !.at = "expression.operator", !.own = own]
<1>1. /\ stack # <<>> /\ Top.at = "expression.prefix" /\ result # Null
      /\ toks' = toks /\ nodes' = nodes /\ stack' = <<f>> \o Tail(stack) /\ result \in Nat
  BY DEF ExpressionPrefix, At, GoOn, IInv, TypeOK
<1>2. Top \in Frame /\ own \in Seq(Nat) /\ own[1] = result
  BY <1>1, TopFacts
<1> HIDE DEF own
<1>3. f \in Frame /\ f.at = "expression.operator" /\ f.own = own /\ f.min = Top.min
  <2>1. "expression.operator" \in Places
    BY DEF Places
  <2> QED
    BY <1>2, <2>1 DEF Frame
<1> HIDE DEF f
<1>4. nodes[result].kind # "BinaryExpression"
  BY <1>1 DEF BInv, Answers
<1>5. FrameBinds(f, toks, nodes')
  BY <1>1, <1>2, <1>3, <1>4 DEF FrameBinds, TopBinds
<1>6. f.at \notin AsksFor /\ f.at # "expression.prefix"
  BY <1>3 DEF AsksFor
<1> QED
  BY <1>1, <1>3, <1>5, <1>6, SameHeap, GoOnBinds

LEMMA ExpressionOperatorBinds ==
  ASSUME IInv, CInv, BInv, ExpressionOperator
  PROVE  BInv'
<1>1. /\ stack # <<>> /\ Top.at = "expression.operator" /\ toks' = toks /\ nodes' = nodes
  BY DEF ExpressionOperator, At
<1>2. Top \in Frame /\ pos \in Nat /\ Top.own \in Seq(Nat) /\ Top.min \in Nat
  BY <1>1, TopFacts DEF Frame
<1>3. TopBinds(Top.own[1], Top.min, toks, nodes)
  <2>1. 1 \in 1..Len(stack) /\ Top = stack[1]
    BY <1>1, TopFacts
  <2> QED
    BY <1>1, <2>1 DEF BInv, StackBinds, FrameBinds
<1>4. CASE Binds
  <2> DEFINE t == pos + 1
             right == InfixPower[Current].right
             f == [Top EXCEPT !.at = "expression.operand", !.token = t]
             c == Enter("expression", right, 0)
  <2>1. stack' = <<c, f>> \o Tail(stack)
    BY <1>4 DEF ExpressionOperator, CallFrom
  <2>2. /\ Current = toks[t] /\ Current \in DOMAIN InfixPower
        /\ Left(toks[t]) >= Top.min
    <3>1. Current \in DOMAIN InfixPower /\ InfixPower[Current].left >= Top.min
      BY <1>4 DEF Binds, Match
    <3>2. Current # "empty optional"
      BY <3>1, TokenClasses
    <3>3. Current = toks[t]
      BY <1>1, <3>2, InRange
    <3> QED
      BY <3>1, <3>3 DEF Left
  <2>3. right \in Nat /\ right = InfixPower[toks[t]].right /\ t \in Nat
    BY <1>2, <2>2, OperatorTokens
  <2> HIDE DEF t, right
  <2>4. /\ f \in Frame /\ f.at = "expression.operand" /\ f.token = t /\ f.own = Top.own
        /\ f.min = Top.min
    <3>1. "expression.operand" \in Places
      BY DEF Places, Propagating
    <3> QED
      BY <1>2, <2>3, <3>1 DEF Frame
  <2>5. c \in Frame /\ c.at = "expression" /\ c.min = right
    <3>1. "expression" \in Places /\ 0 \in Nat
      BY DEF Places
    <3>2. c \in Frame /\ c.at = "expression"
      BY <2>3, <3>1, Entered
    <3> QED
      BY <3>2 DEF Enter
  <2> HIDE DEF f, c
  <2>6. FrameBinds(f, toks, nodes)
    BY <1>3, <2>2, <2>4 DEF FrameBinds
  <2>7. c.min = Power(f, toks)
    BY <2>3, <2>4, <2>5 DEF Power
  <2>8. c.at \notin AsksFor /\ c.at \notin {"expression.prefix", "expression.operator"}
    BY <2>5 DEF AsksFor
  <2> QED
    BY <1>1, <2>1, <2>4, <2>5, <2>6, <2>7, <2>8, CallBinds
<1>5. CASE ~Binds
  <2>1. stack' = Tail(stack) /\ result' = Top.own[1] /\ pos' = pos
    BY <1>5 DEF ExpressionOperator, Return
  <2>2. Current' = Current
    BY <1>1, <2>1 DEF Current, TypeAt
  <2>3. Loose(Current, Top.min)
    <3> SUFFICES ASSUME Current \in DOMAIN InfixPower
                 PROVE  Left(Current) < Top.min
      BY DEF Loose
    <3>1. ~(InfixPower[Current].left >= Top.min)
      BY <1>5 DEF Binds, Match
    <3>2. InfixPower[Current].left \in Nat
      BY PowersAreNumbers
    <3> QED
      BY <1>2, <3>1, <3>2 DEF Left
  <2>4. Top.at \notin PrefixPlaces
    BY <1>1 DEF PrefixPlaces
  <2>5. HeapBinds(toks, nodes') /\ Grows(nodes, nodes')
    BY <1>1, SameHeap
  <2> QED
    BY <1>1, <1>3, <2>1, <2>2, <2>3, <2>4, <2>5, ReturnBinds
<1> QED
  BY <1>4, <1>5

(* What an operation has been given as its operand binds as it asks.       *)
LEMMA OperandBinds ==
  ASSUME IInv, CInv, BInv, IInv', stack # <<>>, Top.at \in AsksFor, result # Null, toks' = toks,
         NEW n, nodes' = Append(nodes, n), n.kids[Len(n.kids)] = result,
         n.to = nodes[result].to, NodePower(n, toks) = Power(Top, toks)
  PROVE  NodeBinds(n, toks, nodes')
<1>1. /\ TopBinds(result, Power(Top, toks), toks, nodes)
      /\ Loose(Current, Power(Top, toks))
  BY DEF BInv, Answers
<1>2. PICK st : CoveredBy(st)
  BY DEF CInv, Covered
<1>3. nodes[result].to = pos
  <2>1. Top.at \in CallPlaces /\ Callee(Top.at) = "expression"
    BY CallPlaceNames, Callees DEF AsksFor
  <2>2. PICK e \in Nat : Returned(Callee(Top.at), e, pos, nodes[result], toks)
    BY <1>2, <2>1, TopPieces
  <2> QED
    BY <2>1, <2>2 DEF Returned, Spans
<1>4. TypeIn(toks, n.to + 1) = Current
  BY <1>3 DEF TypeIn, Current, TypeAt
<1>5. nodes \in Seq(Node) /\ Len(nodes) \in Nat /\ nodes' \in Seq(Node) /\ result \in 0..Len(nodes)
  BY DEF IInv, TypeOK
<1>6. n \in Node
  <2>1. Len(nodes') = Len(nodes) + 1 /\ nodes'[Len(nodes) + 1] = n
    BY <1>5
  <2>2. Len(nodes) + 1 \in 1..Len(nodes')
    BY <1>5, <2>1
  <2> QED
    BY <1>5, <2>1, <2>2
<1>7. Grows(nodes, nodes')
  BY <1>5, <1>6, GrowsAppend
<1>8. TopBinds(result, Power(Top, toks), toks, nodes')
  BY ONLY <1>1, <1>5, <1>7, TopBindsGrows
<1> QED
  BY <1>1, <1>4, <1>8 DEF NodeBinds

LEMMA ExpressionOperandBinds ==
  ASSUME IInv, IInv', CInv, BInv, ExpressionOperand
  PROVE  BInv'
<1> DEFINE l == Top.own[1]
           culprit == IF IsConstant(l) THEN result ELSE l
<1>1. stack # <<>> /\ Top.at = "expression.operand" /\ result # Null /\ toks' = toks
  BY DEF ExpressionOperand, At
<1>2. Top \in Frame /\ NewPtr \in Nat
  BY <1>1, TopFacts DEF NewPtr
<1>3. Left(toks[Top.token]) >= Top.min
  <2>1. 1 \in 1..Len(stack) /\ Top = stack[1]
    BY <1>1, TopFacts
  <2> QED
    BY <1>1, <2>1 DEF BInv, StackBinds, FrameBinds
<1>4. CASE MayJoin(toks[Top.token], l, result)
  <2> DEFINE kids == <<l, result>>
             from == nodes[l].from
             to == nodes[result].to
             n == [kind |-> "BinaryExpression", token |-> Top.token, kids |-> kids,
                   dim |-> 0, from |-> from, to |-> to]
             own == <<NewPtr>>
             f == [Top EXCEPT !.at = "expression.operator", !.own = own]
  <2>1. nodes' = Append(nodes, n) /\ stack' = <<f>> \o Tail(stack)
    BY <1>4 DEF ExpressionOperand, New, GoOn
  <2>2. kids[Len(kids)] = result /\ own \in Seq(Nat) /\ own[1] = NewPtr
    BY <1>2
  <2> HIDE DEF kids, from, own
  <2>3. n.kind = "BinaryExpression" /\ n.kids = kids /\ n.to = to /\ n.token = Top.token
    OBVIOUS
  <2> HIDE DEF n
  <2>4. NodePower(n, toks) = Power(Top, toks) /\ Top.at \in AsksFor
    BY <1>1, <2>3 DEF NodePower, Power, AsksFor
  <2>5. NodeBinds(n, toks, nodes')
    BY <1>1, <2>1, <2>2, <2>3, <2>4, OperandBinds
  <2>6. HeapBinds(toks, nodes') /\ Grows(nodes, nodes') /\ nodes'[NewPtr] = n
    BY <1>1, <2>1, <2>5, HeapBindsAppend
  <2>7. /\ f \in Frame /\ f.at = "expression.operator" /\ f.own = own /\ f.min = Top.min
    <3>1. "expression.operator" \in Places
      BY DEF Places
    <3> QED
      BY <1>2, <2>2, <3>1 DEF Frame
  <2> HIDE DEF f
  <2>8. FrameBinds(f, toks, nodes')
    BY <1>3, <2>2, <2>3, <2>6, <2>7 DEF FrameBinds, TopBinds
  <2>9. f.at \notin AsksFor /\ f.at # "expression.prefix"
    BY <2>7 DEF AsksFor
  <2> QED
    BY <1>1, <2>1, <2>6, <2>7, <2>8, <2>9, GoOnBinds
<1>5. CASE ~MayJoin(toks[Top.token], l, result)
  <2>1. Fail("ExpectedToken", nodes[culprit].from)
    BY <1>5 DEF ExpressionOperand
  <2> QED
    BY <1>1, <2>1, FailureBinds
<1> QED
  BY <1>4, <1>5

LEMMA PrefixReturnBinds ==
  ASSUME IInv, IInv', CInv, BInv, stack # <<>>, Top.at \in PrefixPlaces, toks' = toks,
         NEW n, nodes' = Append(nodes, n), n.kind # "BinaryExpression",
         NodeBinds(n, toks, nodes'), Return(NewPtr)
  PROVE  BInv'
<1>1. HeapBinds(toks, nodes') /\ Grows(nodes, nodes') /\ nodes'[NewPtr] = n
  BY HeapBindsAppend
<1>2. Top.at \notin ExpressionPlaces
  BY DEF PrefixPlaces, ExpressionPlaces
<1>3. stack' = Tail(stack) /\ result' = NewPtr
  BY DEF Return
<1>4. nodes'[result'].kind # "BinaryExpression"
  BY <1>1, <1>3
<1> QED
  BY <1>1, <1>2, <1>3, <1>4, ReturnBinds

LEMMA PrefixBinds ==
  ASSUME IInv, IInv', CInv, BInv, Prefix
  PROVE  BInv'
<1> DEFINE t == pos + 1
<1>1. stack # <<>> /\ Top.at = "prefix" /\ toks' = toks /\ t \in Nat
  BY DEF Prefix, At, IInv, TypeOK
<1>2. Top \in Frame /\ Top.own \in Seq(Nat)
  BY <1>1, TopFacts
<1>3. ASSUME NEW kind \in {"Identifier", "Literal"}, New(kind, t, <<>>, 0, t, t), Return(NewPtr)
      PROVE  BInv'
  <2> DEFINE n == [kind |-> kind, token |-> t, kids |-> <<>>, dim |-> 0,
                   from |-> t, to |-> t]
  <2>1. nodes' = Append(nodes, n) /\ n.kind = kind
    BY <1>3 DEF New
  <2> HIDE DEF n
  <2>2. n.kind # "BinaryExpression" /\ n.kind \notin Operations /\ Top.at \in PrefixPlaces
    BY <1>1, <1>3, <2>1 DEF Operations, PrefixPlaces
  <2>3. NodeBinds(n, toks, nodes')
    BY <2>2 DEF NodeBinds
  <2> QED
    BY <1>1, <1>3, <2>1, <2>2, <2>3, PrefixReturnBinds
<1>4. CASE /\ nodes' = nodes
           /\ CallFrom([Top EXCEPT !.at = "prefix.group", !.token = t], Enter("expression", 0, 0))
  <2> HIDE DEF t
  <2>1. stack' = <<Enter("expression", 0, 0), [Top EXCEPT !.at = "prefix.group", !.token = t]>>
                   \o Tail(stack)
    BY <1>4 DEF CallFrom
  <2>2. [Top EXCEPT !.at = "prefix.group", !.token = t]
          = [Top EXCEPT !.at = "prefix.group", !.own = Top.own, !.token = t]
    BY ONLY <1>2, SameFrame
  <2> QED
    BY <1>1, <1>2, <1>4, <2>1, <2>2, PlainCallBinds, PlainPlaces
<1>5. CASE /\ Match(DOMAIN PrefixPower) /\ nodes' = nodes
           /\ CallFrom([Top EXCEPT !.at = "prefix.unary", !.token = t],
                       Enter("expression", PrefixPower[Current], 0))
  <2> DEFINE power == PrefixPower[Current]
             f == [Top EXCEPT !.at = "prefix.unary", !.token = t]
             c == Enter("expression", power, 0)
  <2>1. stack' = <<c, f>> \o Tail(stack)
    BY <1>5 DEF CallFrom
  <2>2. Current = toks[t] /\ Current \in DOMAIN PrefixPower
    <3>1. Current \in DOMAIN PrefixPower
      BY <1>5 DEF Match
    <3>2. Current # "empty optional"
      BY <3>1, TokenClasses
    <3> QED
      BY <1>1, <3>1, <3>2, InRange
  <2>3. power \in Nat /\ power = PrefixPower[toks[t]]
    BY <2>2, OperatorTokens
  <2> HIDE DEF t, power
  <2>4. /\ f \in Frame /\ f.at = "prefix.unary" /\ f.token = t /\ f.min = Top.min
    <3>1. "prefix.unary" \in Places
      BY DEF Places
    <3> QED
      BY <1>1, <1>2, <3>1 DEF Frame
  <2>5. c \in Frame /\ c.at = "expression" /\ c.min = power
    <3>1. "expression" \in Places /\ 0 \in Nat
      BY DEF Places
    <3>2. c \in Frame /\ c.at = "expression"
      BY <2>3, <3>1, Entered
    <3> QED
      BY <3>2 DEF Enter
  <2> HIDE DEF f, c
  <2>6. FrameBinds(f, toks, nodes)
    BY <2>4 DEF FrameBinds
  <2>7. c.min = Power(f, toks)
    BY <2>3, <2>4, <2>5 DEF Power
  <2>8. c.at \notin AsksFor /\ c.at \notin {"expression.prefix", "expression.operator"}
    BY <2>5 DEF AsksFor
  <2> QED
    BY <1>1, <1>5, <2>1, <2>4, <2>5, <2>6, <2>7, <2>8, CallBinds
<1>6. CASE FailSilently
  BY <1>1, <1>6, FailureBinds
<1> QED
  BY <1>3, <1>4, <1>5, <1>6 DEF Prefix, Expect

LEMMA PrefixGroupBinds ==
  ASSUME IInv, IInv', CInv, BInv, PrefixGroup
  PROVE  BInv'
<1>1. stack # <<>> /\ Top.at = "prefix.group" /\ toks' = toks
  BY DEF PrefixGroup, At
<1>2. CASE /\ New("GroupingExpression", Top.token, <<result>>, 0, Top.token, pos + 1)
           /\ Return(NewPtr)
  <2> DEFINE n == [kind |-> "GroupingExpression", token |-> Top.token, kids |-> <<result>>,
                   dim |-> 0, from |-> Top.token, to |-> pos + 1]
  <2>1. nodes' = Append(nodes, n) /\ n.kind = "GroupingExpression"
    BY <1>2 DEF New
  <2> HIDE DEF n
  <2>2. n.kind # "BinaryExpression" /\ n.kind \notin Operations /\ Top.at \in PrefixPlaces
    BY <1>1, <2>1 DEF Operations, PrefixPlaces
  <2>3. NodeBinds(n, toks, nodes')
    BY <2>2 DEF NodeBinds
  <2> QED
    BY <1>1, <1>2, <2>1, <2>2, <2>3, PrefixReturnBinds
<1>3. CASE Fail("UnclosedParenthesis", Top.token)
  BY <1>1, <1>3, FailureBinds
<1> QED
  BY <1>2, <1>3 DEF PrefixGroup

LEMMA PrefixUnaryBinds ==
  ASSUME IInv, IInv', CInv, BInv, PrefixUnary
  PROVE  BInv'
<1>1. stack # <<>> /\ Top.at = "prefix.unary" /\ toks' = toks
  BY DEF PrefixUnary, At
<1>2. CASE /\ result # Null /\ Return(NewPtr)
           /\ New("UnaryExpression", Top.token, <<result>>, 0, Top.token, nodes[result].to)
  <2> DEFINE kids == <<result>>
             n == [kind |-> "UnaryExpression", token |-> Top.token, kids |-> kids,
                   dim |-> 0, from |-> Top.token, to |-> nodes[result].to]
  <2>1. /\ nodes' = Append(nodes, n) /\ n.kind = "UnaryExpression" /\ n.kids = kids
        /\ n.to = nodes[result].to /\ n.token = Top.token /\ kids[Len(kids)] = result
    BY <1>2 DEF New
  <2> HIDE DEF n, kids
  <2>2. NodePower(n, toks) = Power(Top, toks) /\ Top.at \in AsksFor
    BY <1>1, <2>1 DEF NodePower, Power, AsksFor
  <2>3. NodeBinds(n, toks, nodes')
    BY <1>1, <1>2, <2>1, <2>2, OperandBinds
  <2>4. n.kind # "BinaryExpression" /\ Top.at \in PrefixPlaces
    BY <1>1, <2>1 DEF PrefixPlaces
  <2> QED
    BY <1>1, <1>2, <2>1, <2>3, <2>4, PrefixReturnBinds
<1>3. CASE Fail("MissingUnaryOperand", Top.token)
  BY <1>1, <1>3, FailureBinds
<1> QED
  BY <1>2, <1>3 DEF PrefixUnary

----------------------------------------------------------------------------
LEMMA BindsStart == Init => BInv
<1> SUFFICES ASSUME Init
             PROVE  BInv
  OBVIOUS
<1> DEFINE f == Enter("program", 0, 0)
<1>1. nodes = <<>> /\ stack = <<f>> /\ result = Null
  BY DEF Init
<1>2. f.at = "program"
  BY DEF Enter
<1> HIDE DEF f
<1>3. Len(stack) = 1 /\ stack[1] = f /\ Len(nodes) = 0
  BY <1>1
<1>4. HeapBinds(toks, nodes)
  BY <1>3 DEF HeapBinds
<1>5. \A k \in 1..Len(stack) : FrameBinds(stack[k], toks, nodes)
  <2>1. \A k \in 1..Len(stack) : stack[k] = f
    BY <1>3
  <2> QED
    BY <1>2, <2>1 DEF FrameBinds
<1>6. \A k \in 2..Len(stack) : FALSE
  BY <1>3
<1>7. StackBinds(stack, toks, nodes)
  BY <1>5, <1>6 DEF StackBinds
<1> QED
  BY <1>1, <1>4, <1>7 DEF BInv, Answers

LEMMA BindsSame ==
  ASSUME BInv, UNCHANGED vars
  PROVE  BInv'
<1>1. toks' = toks /\ nodes' = nodes /\ stack' = stack /\ pos' = pos /\ result' = result
  BY DEF vars
<1>2. Answers'
  <2>1. Top' = Top /\ Current' = Current
    BY <1>1 DEF Top, Current, TypeAt
  <2>2. Answers
    BY DEF BInv
  <2> QED
    BY ONLY <1>1, <2>1, <2>2 DEF Answers
<1> QED
  BY <1>1, <1>2 DEF BInv

LEMMA CrashBinds ==
  ASSUME BInv, Crash
  PROVE  BInv'
<1>1. toks' = toks /\ nodes' = nodes /\ stack' = <<>>
  BY DEF Crash
<1>2. Len(stack') = 0
  BY <1>1
<1>3. StackBinds(stack', toks, nodes)
  BY <1>2 DEF StackBinds
<1> QED
  BY <1>1, <1>3 DEF BInv, Answers

(* An activation of parseExpression has consumed only what binds as its    *)
(* caller asks, and stops before what does not.                            *)
THEOREM ParserPrecedence == Spec => []BInv
<1>1. Init => BInv
  BY BindsStart
<1>2. IInv /\ IInv' /\ CInv /\ BInv /\ [Next]_vars => BInv'
  <2> SUFFICES ASSUME IInv, IInv', CInv, BInv, [Next]_vars
               PROVE  BInv'
    OBVIOUS
  <2>1. CASE UNCHANGED vars
    BY <2>1, BindsSame
  <2>2. CASE Program \/ Statements \/ ProgramChild
    BY <2>2, ProgramBinds, StatementsBind, ProgramChildBinds
  <2>3. CASE Definition \/ DefinitionAssign \/ DefinitionEnd
    BY <2>3, OuterCallsBind, DefinitionAssignBinds, OuterReturnsBind
  <2>4. CASE TypedVariable \/ TypedVariableColon \/ TypedVariableEnd
    BY <2>4, TypedVariableBinds, OuterCallsBind, OuterReturnsBind
  <2>5. CASE Type \/ TypeBracket \/ Literal
    BY <2>5, TypeBinds, OuterReturnsBind
  <2>6. CASE Statement \/ StatementEnd
    BY <2>6, OuterCallsBind, OuterReturnsBind
  <2>7. CASE AssignmentTarget \/ AssignmentExpression \/ AssignmentEnd
    BY <2>7, AssignmentTargetBinds, OuterCallsBind, OuterReturnsBind
  <2>8. CASE Expression \/ ExpressionPrefix \/ ExpressionOperator \/ ExpressionOperand
    BY <2>8, OuterCallsBind, ExpressionPrefixBinds, ExpressionOperatorBinds,
       ExpressionOperandBinds
  <2>9. CASE Prefix \/ PrefixGroup \/ PrefixUnary
    BY <2>9, PrefixBinds, PrefixGroupBinds, PrefixUnaryBinds
  <2>10. CASE CalleeFailed
    BY <2>10, OuterReturnsBind
  <2>11. CASE Crash
    BY <2>11, CrashBinds
  <2>12. CASE Terminating
    BY <2>12, BindsSame DEF Terminating
  <2> QED
    BY <2>1, <2>2, <2>3, <2>4, <2>5, <2>6, <2>7, <2>8, <2>9, <2>10, <2>11, <2>12 DEF Next
<1> QED
  BY <1>1, <1>2, ParserInvariant, ParserCover, PTL DEF Spec

(* Precedence and associativity, whatever the token stream: in every tree, *)
(* the operand of an operation is no operation of a lower level, and the   *)
(* operator that follows an operation is none it should have taken.        *)
THEOREM ParserOperatorsBind == Spec => []OperatorsBind
<1>1. IInv /\ BInv => OperatorsBind
  BY BInvBinds
<1> QED
  BY <1>1, ParserInvariant, ParserPrecedence, PTL
============================================================================
