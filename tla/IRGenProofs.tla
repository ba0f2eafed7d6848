---------------------------- MODULE IRGenProofs ----------------------------
(***************************************************************************)
(* The IR generator keeps its types, never uses a value that it has not    *)
(* made, gives every variable and every text a global of its own, meets no *)
(* name without an allocation, fails on exactly the programs that have no  *)
(* translation, stores typed values in bounds, and emits code that means   *)
(* what the program means, whatever program the analysis accepts.          *)
(***************************************************************************)
EXTENDS IRGenProperties, TreeProofs, SequenceTheorems

Node == Expressions \cup {Null}

Places == {"visit", "binary.lhs", "binary.rhs", "assignment"}

Operations == Operators \cup {"load", "store", "ret"}

(* The values of a module with n globals and m instructions, and what the  *)
(* instructions and activations of such a module are made of.              *)
ValuesOf(n, m) ==
  [kind : {"constant"}, literal : Literals] \cup [kind : {"global"}, at : 1..n]
    \cup [kind : {"instruction"}, at : 1..m] \cup {Null}

InstructionsOf(n, m) ==
  [op : Operations, type : LLVMTypes, args : Seq(ValuesOf(n, m))]

FramesOf(n, m) ==
  [at : Places, node : Node, lhs : ValuesOf(n, m) \cup {EmptyAny}]

(* A value that may be an operand after the instructions c.                *)
Usable(v, n, c) ==
  /\ v \in ValuesOf(n, Len(c))
  /\ v.kind = "instruction" => c[v.at].type # "void"

Defined(c) ==
  \A i \in 1..Len(c) : \A k \in 1..Len(c[i].args) :
    LET v == c[i].args[k]
    IN  v.kind = "instruction" => v.at < i /\ c[v.at].type # "void"

CodeFine(c, n) == c \in Seq(InstructionsOf(n, Len(c))) /\ Defined(c)

Extended(c, d) == Len(c) <= Len(d) /\ \A i \in 1..Len(c) : d[i] = c[i]

ModuleFine ==
  /\ globals \in Seq([type : LLVMTypes \ {"void"}, init : Literals])
  /\ \A text \in DOMAIN strings : strings[text] \in 1..Len(globals)
  /\ allocation \in [{x \in DOMAIN table : table[x].kind = "Variable"} ->
                       [kind : {"global"}, at : 1..Len(globals)] \cup {Null}]
  /\ CodeFine(code, Len(globals))

(* The activations: an assignment's is at the bottom and nowhere else, and *)
(* one that waits for a right operand has the left one.                    *)
FrameFine(f, n, c) ==
  /\ f.at \in {"binary.lhs", "binary.rhs"} => f.node \in Binaries(Expressions)
  /\ f.at = "binary.rhs" => Usable(f.lhs, n, c)

StackFine ==
  /\ stack \in Seq(FramesOf(Len(globals), Len(code)))
  /\ \A k \in 1..Len(stack) : FrameFine(stack[k], Len(globals), code)
  /\ \A k \in 1..Len(stack) : stack[k].at = "assignment" <=> k = Len(stack)

(* A value has been returned wherever one is stored.                       *)
ResultFine ==
  /\ result = EmptyAny \/ Usable(result, Len(globals), code)
  /\ stack = <<>> /\ target # 0 => result # EmptyAny

TypeInv ==
  /\ program \in Programs
  /\ phase \in {"generate", "generated", "crashed"}
  /\ child \in 1..(Len(program) + 1)
  /\ target \in Nat
  /\ undefined \in BOOLEAN
  /\ ModuleFine
  /\ StackFine
  /\ ResultFine

----------------------------------------------------------------------------
(* Sequences.                                                              *)

LEMMA SeqMonotone ==
  ASSUME NEW S, NEW T, S \subseteq T, NEW s \in Seq(S)
  PROVE  s \in Seq(T)
<1>1. s \in [1..Len(s) -> S] /\ Len(s) \in Nat
  OBVIOUS
<1>2. s \in [1..Len(s) -> T]
  BY <1>1
<1> QED
  BY <1>1, <1>2, SeqDef

LEMMA ReplaceTop ==
  ASSUME NEW T, NEW s \in Seq(T), s # <<>>, NEW f \in T
  PROVE  /\ <<f>> \o Tail(s) \in Seq(T)
         /\ Len(<<f>> \o Tail(s)) = Len(s)
         /\ (<<f>> \o Tail(s))[1] = f
         /\ \A k \in 2..Len(s) : (<<f>> \o Tail(s))[k] = s[k]
         /\ Len(s) \in Nat /\ Len(s) > 0
<1>1. /\ Tail(s) \in Seq(T) /\ Len(Tail(s)) = Len(s) - 1
      /\ \A k \in 1..Len(Tail(s)) : Tail(s)[k] = s[k + 1]
      /\ Len(s) \in Nat /\ Len(s) > 0
  BY HeadTailProperties
<1>2. <<f>> \in Seq(T) /\ Len(<<f>>) = 1 /\ <<f>>[1] = f
  OBVIOUS
<1> DEFINE r == <<f>> \o Tail(s)
<1>3. /\ r \in Seq(T) /\ Len(r) = Len(<<f>>) + Len(Tail(s))
      /\ \A k \in 1..Len(<<f>>) + Len(Tail(s)) :
           r[k] = IF k <= Len(<<f>>) THEN <<f>>[k] ELSE Tail(s)[k - Len(<<f>>)]
  BY <1>1, <1>2, ConcatProperties
<1> HIDE DEF r
<1>4. Len(r) = Len(s) /\ r[1] = f /\ \A k \in 2..Len(s) : r[k] = s[k]
  BY <1>1, <1>2, <1>3
<1> QED
  BY <1>1, <1>3, <1>4 DEF r

LEMMA PushCallee ==
  ASSUME NEW T, NEW s \in Seq(T), s # <<>>, NEW c \in T, NEW f \in T
  PROVE  /\ <<c, f>> \o Tail(s) \in Seq(T)
         /\ Len(<<c, f>> \o Tail(s)) = Len(s) + 1
         /\ (<<c, f>> \o Tail(s))[1] = c
         /\ (<<c, f>> \o Tail(s))[2] = f
         /\ \A k \in 3..Len(s) + 1 : (<<c, f>> \o Tail(s))[k] = s[k - 1]
         /\ Len(s) \in Nat /\ Len(s) > 0
<1>1. /\ Tail(s) \in Seq(T) /\ Len(Tail(s)) = Len(s) - 1
      /\ \A k \in 1..Len(Tail(s)) : Tail(s)[k] = s[k + 1]
      /\ Len(s) \in Nat /\ Len(s) > 0
  BY HeadTailProperties
<1>2. /\ <<c, f>> \in Seq(T) /\ Len(<<c, f>>) = 2
      /\ <<c, f>>[1] = c /\ <<c, f>>[2] = f
  OBVIOUS
<1> DEFINE r == <<c, f>> \o Tail(s)
<1>3. /\ r \in Seq(T) /\ Len(r) = Len(<<c, f>>) + Len(Tail(s))
      /\ \A k \in 1..Len(<<c, f>>) + Len(Tail(s)) :
           r[k] = IF k <= Len(<<c, f>>) THEN <<c, f>>[k] ELSE Tail(s)[k - Len(<<c, f>>)]
  BY <1>1, <1>2, ConcatProperties
<1> HIDE DEF r
<1>4. Len(r) = Len(s) + 1 /\ r[1] = c /\ r[2] = f
  BY <1>1, <1>2, <1>3
<1>5. ASSUME NEW k \in 3..Len(s) + 1
      PROVE  r[k] = s[k - 1]
  <2>1. k \in 1..Len(<<c, f>>) + Len(Tail(s)) /\ ~(k <= Len(<<c, f>>))
    BY <1>1, <1>2, <1>5
  <2>2. r[k] = Tail(s)[k - 2]
    BY <1>2, <1>3, <2>1
  <2>3. k - 2 \in 1..Len(Tail(s)) /\ (k - 2) + 1 = k - 1
    BY <1>1, <1>5
  <2> QED
    BY <1>1, <2>2, <2>3
<1> QED
  BY <1>1, <1>3, <1>4, <1>5 DEF r

LEMMA PopTop ==
  ASSUME NEW T, NEW s \in Seq(T), s # <<>>
  PROVE  /\ Tail(s) \in Seq(T)
         /\ Len(Tail(s)) = Len(s) - 1
         /\ Len(s) \in Nat /\ Len(s) > 0
         /\ \A k \in 1..Len(Tail(s)) : Tail(s)[k] = s[k + 1]
BY HeadTailProperties

LEMMA AppendOne ==
  ASSUME NEW T, NEW s \in Seq(T), NEW x \in T
  PROVE  /\ Append(s, x) \in Seq(T)
         /\ Len(Append(s, x)) = Len(s) + 1 /\ Len(s) \in Nat
         /\ Append(s, x)[Len(s) + 1] = x
         /\ \A k \in 1..Len(s) : Append(s, x)[k] = s[k]
         /\ Extended(s, Append(s, x))
BY AppendProperties DEF Extended

----------------------------------------------------------------------------
(* Values and code.                                                        *)

LEMMA ValuesLater ==
  ASSUME NEW n \in Nat, NEW m \in Nat, NEW p \in Nat, NEW q \in Nat, n <= m, p <= q
  PROVE  /\ ValuesOf(n, p) \subseteq ValuesOf(m, q)
         /\ InstructionsOf(n, p) \subseteq InstructionsOf(m, q)
         /\ FramesOf(n, p) \subseteq FramesOf(m, q)
<1>1. 1..n \subseteq 1..m /\ 1..p \subseteq 1..q
  OBVIOUS
<1>2. ValuesOf(n, p) \subseteq ValuesOf(m, q)
  BY <1>1 DEF ValuesOf
<1>3. Seq(ValuesOf(n, p)) \subseteq Seq(ValuesOf(m, q))
  BY <1>2, SeqMonotone
<1> QED
  BY <1>2, <1>3 DEF InstructionsOf, FramesOf

LEMMA UsableLater ==
  ASSUME NEW n \in Nat, NEW m \in Nat, n <= m, NEW c, NEW d,
         Len(c) \in Nat, Len(d) \in Nat, Extended(c, d), NEW v, Usable(v, n, c)
  PROVE  Usable(v, m, d)
<1>1. v \in ValuesOf(m, Len(d))
  BY ValuesLater DEF Usable, Extended
<1>2. v.kind = "instruction" => v.at \in 1..Len(c)
  BY DEF Usable, ValuesOf, Null
<1> QED
  BY <1>1, <1>2 DEF Usable, Extended

LEMMA EmitFine ==
  ASSUME NEW n \in Nat, NEW c, CodeFine(c, n), NEW op \in Operations, NEW type \in LLVMTypes,
         NEW args \in Seq(ValuesOf(n, Len(c))),
         \A k \in 1..Len(args) : Usable(args[k], n, c)
  PROVE  /\ CodeFine(Emit(c, op, type, args), n)
         /\ Len(Emit(c, op, type, args)) = Len(c) + 1 /\ Len(c) \in Nat
         /\ Extended(c, Emit(c, op, type, args))
         /\ Emit(c, op, type, args)[Len(c) + 1].type = type
<1> DEFINE d == Emit(c, op, type, args)
           i == [op |-> op, type |-> type, args |-> args]
<1>1. c \in Seq(InstructionsOf(n, Len(c))) /\ Len(c) \in Nat
  BY DEF CodeFine
<1>2. /\ InstructionsOf(n, Len(c)) \subseteq InstructionsOf(n, Len(c) + 1)
      /\ ValuesOf(n, Len(c)) \subseteq ValuesOf(n, Len(c) + 1)
  BY <1>1, ValuesLater
<1>3. i \in InstructionsOf(n, Len(c) + 1)
  BY <1>2, SeqMonotone DEF InstructionsOf
<1>4. c \in Seq(InstructionsOf(n, Len(c) + 1))
  BY <1>1, <1>2, SeqMonotone
<1>5. /\ d \in Seq(InstructionsOf(n, Len(c) + 1)) /\ Len(d) = Len(c) + 1
      /\ d[Len(c) + 1] = i /\ \A k \in 1..Len(c) : d[k] = c[k]
      /\ Extended(c, d)
  BY <1>3, <1>4, AppendOne DEF Emit
<1> HIDE DEF d
<1>6. Defined(d)
  <2>1. ASSUME NEW j \in 1..Len(d), NEW k \in 1..Len(d[j].args),
               d[j].args[k].kind = "instruction"
        PROVE  d[j].args[k].at < j /\ d[d[j].args[k].at].type # "void"
    <3>1. CASE j \in 1..Len(c)
      <4>1. d[j] = c[j]
        BY <1>5, <3>1
      <4>2. c[j].args[k].at < j /\ c[c[j].args[k].at].type # "void"
        BY <2>1, <3>1, <4>1 DEF CodeFine, Defined
      <4>3. c[j].args[k] \in ValuesOf(n, Len(c))
        <5>1. c[j] \in InstructionsOf(n, Len(c)) /\ k \in 1..Len(c[j].args)
          BY <1>1, <2>1, <3>1, <4>1
        <5>2. c[j].args \in Seq(ValuesOf(n, Len(c)))
          BY <5>1 DEF InstructionsOf
        <5> QED
          BY <5>1, <5>2, ElementOfSeq
      <4>4. c[j].args[k].at \in 1..Len(c)
        BY <2>1, <4>1, <4>3 DEF ValuesOf, Null
      <4> QED
        BY <1>5, <4>1, <4>2, <4>4
    <3>2. CASE j = Len(c) + 1
      <4>1. d[j].args = args
        BY <1>5, <3>2
      <4>2. Usable(args[k], n, c) /\ args[k].kind = "instruction"
        BY <2>1, <4>1
      <4>3. args[k].at \in 1..Len(c) /\ c[args[k].at].type # "void"
        BY <4>2 DEF Usable, ValuesOf, Null
      <4> QED
        BY <1>1, <1>5, <3>2, <4>1, <4>3
    <3> QED
      BY <1>1, <1>5, <2>1, <3>1, <3>2
  <2> QED
    BY <2>1 DEF Defined
<1> QED
  BY <1>1, <1>5, <1>6 DEF CodeFine, d

(* A usable value is not an empty std::any.                                *)
LEMMA UsableIsSome ==
  ASSUME NEW v, NEW n, NEW c, Usable(v, n, c)
  PROVE  v # EmptyAny
<1>1. v.kind \in {"constant", "global", "instruction", "nullptr"}
  BY DEF Usable, ValuesOf, Null
<1>2. EmptyAny.kind = "empty any"
  BY DEF EmptyAny
<1> QED
  BY <1>1, <1>2

(* The value of an address: createLoadOrConstant.                          *)
LEMMA LoadFine ==
  ASSUME ModuleFine, NEW v, Usable(v, Len(globals), code)
  PROVE  /\ CodeFine(WithLoad(v), Len(globals))
         /\ Extended(code, WithLoad(v)) /\ Len(code) \in Nat /\ Len(WithLoad(v)) \in Nat
         /\ Usable(Loaded(v), Len(globals), WithLoad(v))
         /\ Loaded(v) # EmptyAny
<1> DEFINE n == Len(globals)
<1>1. CodeFine(code, n) /\ n \in Nat /\ Len(code) \in Nat
  BY DEF ModuleFine, CodeFine
<1>2. CASE v.kind = "global"
  <2> DEFINE type == globals[v.at].type
  <2>1. v.at \in 1..n
    BY <1>2 DEF Usable, ValuesOf, Null
  <2>2. type \in LLVMTypes /\ type # "void"
    <3>1. globals[v.at] \in [type : LLVMTypes \ {"void"}, init : Literals]
      BY <2>1, ElementOfSeq DEF ModuleFine
    <3> QED
      BY <3>1
  <2> DEFINE args == <<v>>
  <2>3. /\ args \in Seq(ValuesOf(n, Len(code)))
        /\ \A k \in 1..Len(args) : Usable(args[k], n, code)
    BY DEF Usable
  <2> HIDE DEF type, args
  <2> DEFINE d == Emit(code, "load", type, args)
  <2>4. /\ CodeFine(d, n) /\ Len(d) = Len(code) + 1 /\ Extended(code, d)
        /\ d[Len(code) + 1].type = type
    <3>1. "load" \in Operations
      BY DEF Operations
    <3> HIDE DEF n
    <3> QED
      BY <1>1, <2>2, <2>3, <3>1, EmitFine
  <2>5. WithLoad(v) = d /\ Loaded(v) = Instruction(Len(code) + 1)
    BY <1>2 DEF WithLoad, Loaded, type, args
  <2> HIDE DEF d
  <2>6. Usable(Instruction(Len(code) + 1), n, d)
    BY <1>1, <2>2, <2>4 DEF Usable, ValuesOf, Instruction
  <2>7. Loaded(v) # EmptyAny
    BY <2>5, <2>6, UsableIsSome
  <2> QED
    BY <1>1, <2>4, <2>5, <2>6, <2>7
<1>3. CASE v.kind # "global"
  <2>1. WithLoad(v) = code /\ Loaded(v) = v
    BY <1>3 DEF WithLoad, Loaded
  <2>2. v # EmptyAny
    BY UsableIsSome
  <2> QED
    BY <1>1, <2>1, <2>2 DEF Extended
<1> QED
  BY <1>2, <1>3

LEMMA TypeOfUsable ==
  ASSUME ModuleFine, NEW v, Usable(v, Len(globals), code)
  PROVE  TypeOf(v) \in LLVMTypes \ {"void"}
<1>1. CASE v.kind = "instruction"
  <2>1. v.at \in 1..Len(code) /\ code[v.at].type # "void"
    BY <1>1 DEF Usable, ValuesOf, Null
  <2>2. code[v.at] \in InstructionsOf(Len(globals), Len(code))
    BY <2>1 DEF ModuleFine, CodeFine
  <2> QED
    BY <1>1, <2>1, <2>2 DEF TypeOf, InstructionsOf
<1>2. CASE v.kind = "constant"
  <2>1. LLVMType(v.literal) \in {"i32", "i1", "ptr"}
    BY DEF LLVMType
  <2> QED
    BY <1>2, <2>1 DEF TypeOf, LLVMTypes
<1>3. CASE v.kind \notin {"constant", "instruction"}
  BY <1>3 DEF TypeOf, LLVMTypes
<1> QED
  BY <1>1, <1>2, <1>3

(* A binary operator's instructions, after its operands are usable.        *)
LEMMA OperationFine ==
  ASSUME ModuleFine, NEW lhs, Usable(lhs, Len(globals), code),
         NEW rhs, Usable(rhs, Len(globals), code), NEW op \in Operators,
         NEW d, d = Emit(WithLoad(rhs), op, OperationType(op, TypeOf(lhs)),
                         Arguments(lhs, Loaded(rhs)))
  PROVE  /\ CodeFine(d, Len(globals)) /\ Extended(code, d)
         /\ Len(d) \in Nat /\ Len(code) \in Nat
         /\ Usable(Instruction(Len(WithLoad(rhs)) + 1), Len(globals), d)
<1> DEFINE n == Len(globals)
           w == WithLoad(rhs)
           r == Loaded(rhs)
           type == OperationType(op, TypeOf(lhs))
           args == Arguments(lhs, r)
<1>1. n \in Nat
  BY DEF ModuleFine
<1>2. /\ CodeFine(w, n) /\ Extended(code, w) /\ Len(code) \in Nat /\ Len(w) \in Nat
      /\ Usable(r, n, w)
  BY LoadFine
<1>3. type \in LLVMTypes /\ type # "void"
  BY TypeOfUsable DEF OperationType, LLVMTypes
<1> HIDE DEF n, w, r, type
<1>4. Usable(lhs, n, w)
  BY <1>1, <1>2, UsableLater DEF n
<1>5. args \in Seq(ValuesOf(n, Len(w))) /\ \A k \in 1..Len(args) : Usable(args[k], n, w)
  <2>1. lhs \in ValuesOf(n, Len(w)) /\ r \in ValuesOf(n, Len(w))
    BY <1>2, <1>4 DEF Usable
  <2>2. args = <<lhs, r>> /\ Len(args) = 2 /\ args[1] = lhs /\ args[2] = r
    BY DEF Arguments
  <2> QED
    BY <1>2, <1>4, <2>1, <2>2
<1> HIDE DEF args
<1>6. d = Emit(w, op, type, args)
  BY DEF w, type, args, r
<1>7. /\ CodeFine(d, n) /\ Len(d) = Len(w) + 1 /\ Extended(w, d)
      /\ d[Len(w) + 1].type = type
  BY <1>1, <1>2, <1>3, <1>5, <1>6, EmitFine DEF Operations
<1>8. Extended(code, d)
  BY <1>2, <1>7 DEF Extended
<1>9. Usable(Instruction(Len(w) + 1), n, d)
  BY <1>2, <1>3, <1>7 DEF Usable, ValuesOf, Instruction
<1> QED
  BY <1>2, <1>7, <1>8, <1>9 DEF n, w

----------------------------------------------------------------------------
(* The activations.                                                        *)

(* No value is forgotten: the globals and the instructions only grow.      *)
Grows ==
  /\ Len(globals) <= Len(globals') /\ Len(globals) \in Nat /\ Len(globals') \in Nat
  /\ Extended(code, code') /\ Len(code) \in Nat /\ Len(code') \in Nat

LEMMA StackLater ==
  ASSUME StackFine, Grows
  PROVE  /\ stack \in Seq(FramesOf(Len(globals'), Len(code')))
         /\ \A k \in 1..Len(stack) : FrameFine(stack[k], Len(globals'), code')
<1>1. FramesOf(Len(globals), Len(code)) \subseteq FramesOf(Len(globals'), Len(code'))
  BY ValuesLater DEF Grows, Extended
<1>2. stack \in Seq(FramesOf(Len(globals'), Len(code')))
  BY <1>1, SeqMonotone DEF StackFine
<1>3. ASSUME NEW k \in 1..Len(stack)
      PROVE  FrameFine(stack[k], Len(globals'), code')
  <2>1. FrameFine(stack[k], Len(globals), code)
    BY <1>3 DEF StackFine
  <2> QED
    BY <2>1, UsableLater DEF FrameFine, Grows
<1> QED
  BY <1>2, <1>3

LEMMA TopFacts ==
  ASSUME StackFine, stack # <<>>
  PROVE  /\ Top = stack[1] /\ Top \in FramesOf(Len(globals), Len(code))
         /\ FrameFine(Top, Len(globals), code)
         /\ Top.at = "assignment" <=> Len(stack) = 1
         /\ Len(stack) \in Nat /\ Len(stack) > 0
<1>1. stack \in Seq(FramesOf(Len(globals), Len(code))) /\ Len(stack) \in Nat /\ Len(stack) > 0
  BY DEF StackFine
<1>2. Top = stack[1] /\ 1 \in 1..Len(stack)
  BY <1>1 DEF Top
<1>3. Top \in FramesOf(Len(globals), Len(code))
  BY <1>1, <1>2, ElementOfSeq
<1> QED
  BY <1>1, <1>2, <1>3 DEF StackFine

LEMMA VisitFrame ==
  ASSUME NEW e \in Node, NEW n, NEW c
  PROVE  /\ Visit(e) \in FramesOf(n, Len(c)) /\ FrameFine(Visit(e), n, c)
         /\ Visit(e).at = "visit" /\ Visit(e).node = e
BY DEF Visit, Frame, FramesOf, FrameFine, Places

(* What a step leaves on the stack is well formed: a caller waiting for its*)
(* callee, another expression, or what was below.                          *)
LEMMA CallFine ==
  ASSUME StackFine, Grows, stack # <<>>, Top.at # "assignment",
         NEW f \in FramesOf(Len(globals'), Len(code')),
         FrameFine(f, Len(globals'), code'), f.at # "assignment", NEW e \in Node,
         Call(f, e)
  PROVE  StackFine' /\ stack' # <<>>
<1> DEFINE F == FramesOf(Len(globals'), Len(code'))
           v == Visit(e)
<1>1. /\ stack \in Seq(F)
      /\ \A k \in 1..Len(stack) : FrameFine(stack[k], Len(globals'), code')
  BY StackLater
<1>2. v \in F /\ FrameFine(v, Len(globals'), code') /\ v.at = "visit"
  BY VisitFrame
<1>3. stack' = <<v, f>> \o Tail(stack)
  BY DEF Call
<1> HIDE DEF F, v
<1>4. /\ stack' \in Seq(F) /\ Len(stack') = Len(stack) + 1
      /\ stack'[1] = v /\ stack'[2] = f
      /\ \A k \in 3..Len(stack) + 1 : stack'[k] = stack[k - 1]
      /\ Len(stack) \in Nat
  BY <1>1, <1>2, <1>3, PushCallee DEF F
<1>5. Len(stack) # 1 /\ Len(stack) > 0
  BY TopFacts
<1>6. Len(stack') # 2
  <2>1. ASSUME NEW n \in Nat, n > 0, n # 1 PROVE n + 1 # 2
    BY <2>1
  <2> QED
    BY <1>4, <1>5, <2>1
<1>7. ASSUME NEW k \in 1..Len(stack')
      PROVE  /\ FrameFine(stack'[k], Len(globals'), code')
             /\ stack'[k].at = "assignment" <=> k = Len(stack')
  <2>1. CASE k = 1
    BY <1>2, <1>4, <1>5, <2>1
  <2>2. CASE k = 2
    <3>1. stack'[k] = f
      BY <1>4, <2>2
    <3>2. k # Len(stack')
      BY <1>6, <2>2
    <3> QED
      BY <3>1, <3>2
  <2>3. CASE k > 2
    <3>1. k \in 3..Len(stack) + 1 /\ k - 1 \in 1..Len(stack)
      BY <1>4, <1>7, <2>3
    <3>2. stack'[k] = stack[k - 1]
      BY <1>4, <3>1
    <3>3. /\ FrameFine(stack[k - 1], Len(globals'), code')
          /\ stack[k - 1].at = "assignment" <=> k - 1 = Len(stack)
      BY <1>1, <3>1 DEF StackFine
    <3> QED
      BY <1>4, <3>1, <3>2, <3>3
  <2> QED
    BY <1>4, <1>7, <2>1, <2>2, <2>3
<1>8. stack' # <<>>
  BY <1>4, <1>5
<1> QED
  BY <1>4, <1>7, <1>8 DEF StackFine, F

LEMMA VisitFine ==
  ASSUME StackFine, Grows, stack # <<>>, Top.at # "assignment", NEW e \in Node,
         stack' = <<Visit(e)>> \o Tail(stack)
  PROVE  StackFine' /\ stack' # <<>>
<1> DEFINE F == FramesOf(Len(globals'), Len(code'))
           v == Visit(e)
<1>1. /\ stack \in Seq(F)
      /\ \A k \in 1..Len(stack) : FrameFine(stack[k], Len(globals'), code')
  BY StackLater
<1>2. v \in F /\ FrameFine(v, Len(globals'), code') /\ v.at = "visit"
  BY VisitFrame
<1>3. stack' = <<v>> \o Tail(stack)
  OBVIOUS
<1> HIDE DEF F, v
<1>4. /\ stack' \in Seq(F) /\ Len(stack') = Len(stack)
      /\ stack'[1] = v /\ \A k \in 2..Len(stack) : stack'[k] = stack[k]
      /\ Len(stack) \in Nat
  BY <1>1, <1>2, <1>3, ReplaceTop DEF F
<1>5. Len(stack) # 1 /\ Len(stack) > 0
  BY TopFacts
<1>6. ASSUME NEW k \in 1..Len(stack')
      PROVE  /\ FrameFine(stack'[k], Len(globals'), code')
             /\ stack'[k].at = "assignment" <=> k = Len(stack')
  <2>1. CASE k = 1
    BY <1>2, <1>4, <1>5, <2>1
  <2>2. CASE k > 1
    <3>1. stack'[k] = stack[k] /\ k \in 1..Len(stack)
      BY <1>4, <1>6, <2>2
    <3>2. /\ FrameFine(stack[k], Len(globals'), code')
          /\ stack[k].at = "assignment" <=> k = Len(stack)
      BY <1>1, <3>1 DEF StackFine
    <3> QED
      BY <1>4, <3>1, <3>2
  <2>3. k = 1 \/ k > 1
    BY <1>4, <1>6
  <2> QED
    BY <2>1, <2>2, <2>3
<1>7. stack' # <<>>
  BY <1>4, <1>5
<1> QED
  BY <1>4, <1>6, <1>7 DEF StackFine, F

LEMMA ReturnFine ==
  ASSUME StackFine, Grows, stack # <<>>, stack' = Tail(stack)
  PROVE  StackFine' /\ (stack' = <<>> => Top.at = "assignment")
<1> DEFINE F == FramesOf(Len(globals'), Len(code'))
<1>1. /\ stack \in Seq(F)
      /\ \A k \in 1..Len(stack) : FrameFine(stack[k], Len(globals'), code')
  BY StackLater
<1> HIDE DEF F
<1>2. /\ stack' \in Seq(F) /\ Len(stack') = Len(stack) - 1
      /\ \A k \in 1..Len(stack') : stack'[k] = stack[k + 1]
      /\ Len(stack) \in Nat /\ Len(stack) > 0
  BY <1>1, PopTop
<1>3. ASSUME NEW k \in 1..Len(stack')
      PROVE  /\ FrameFine(stack'[k], Len(globals'), code')
             /\ stack'[k].at = "assignment" <=> k = Len(stack')
  <2>1. stack'[k] = stack[k + 1] /\ k + 1 \in 1..Len(stack)
    BY <1>2, <1>3
  <2>2. /\ FrameFine(stack[k + 1], Len(globals'), code')
        /\ stack[k + 1].at = "assignment" <=> k + 1 = Len(stack)
    BY <1>1, <2>1 DEF StackFine
  <2>3. k + 1 = Len(stack) <=> k = Len(stack')
    BY <1>2, <1>3
  <2> QED
    BY <2>1, <2>2, <2>3
<1>4. stack' = <<>> => Top.at = "assignment"
  <2>1. stack' = <<>> => Len(stack) = 1
    BY <1>2
  <2> QED
    BY <2>1, TopFacts
<1> QED
  BY <1>2, <1>3, <1>4 DEF StackFine, F

----------------------------------------------------------------------------
(* The module.                                                             *)

GlobalsOf == [type : LLVMTypes \ {"void"}, init : Literals]

LEMMA LLVMTypeFine ==
  ASSUME NEW lit
  PROVE  LLVMType(lit) \in {"i32", "i1", "ptr"}
BY DEF LLVMType

LEMMA InternFine ==
  ASSUME ModuleFine, NEW lit \in Literals
  PROVE  /\ Interned(lit) \in Seq(GlobalsOf)
         /\ Len(globals) <= Len(Interned(lit)) /\ Len(globals) \in Nat
         /\ Len(Interned(lit)) \in Nat
         /\ \A n \in 1..Len(globals) : Interned(lit)[n] = globals[n]
         /\ \A text \in DOMAIN InternedStrings(lit) :
              InternedStrings(lit)[text] \in 1..Len(Interned(lit))
         /\ ValueOf(lit) = EmptyAny \/ Usable(ValueOf(lit), Len(Interned(lit)), code)
<1>1. /\ globals \in Seq(GlobalsOf) /\ Len(globals) \in Nat
      /\ \A text \in DOMAIN strings : strings[text] \in 1..Len(globals)
  BY DEF ModuleFine, GlobalsOf
<1>2. CASE NewString(lit)
  <2> DEFINE chars == [type |-> "chars", init |-> lit]
  <2>1. chars \in GlobalsOf
    BY DEF GlobalsOf, LLVMTypes
  <2>2. Interned(lit) = Append(globals, chars)
    BY <1>2 DEF Interned
  <2> HIDE DEF chars
  <2>3. /\ Interned(lit) \in Seq(GlobalsOf) /\ Len(Interned(lit)) = Len(globals) + 1
        /\ \A n \in 1..Len(globals) : Interned(lit)[n] = globals[n]
    BY <1>1, <2>1, <2>2, AppendOne
  <2>4. /\ DOMAIN InternedStrings(lit) = DOMAIN strings \cup {lit.value}
        /\ \A text \in DOMAIN strings \cup {lit.value} :
             InternedStrings(lit)[text] =
               IF text = lit.value THEN Len(globals) + 1 ELSE strings[text]
    BY <1>2 DEF InternedStrings
  <2>5. \A text \in DOMAIN InternedStrings(lit) :
          InternedStrings(lit)[text] \in 1..Len(Interned(lit))
    BY <1>1, <2>3, <2>4
  <2>6. ValueOf(lit) = Global(Len(globals) + 1)
    BY <1>2, <2>4 DEF ValueOf, NewString
  <2>7. Usable(ValueOf(lit), Len(Interned(lit)), code)
    BY <1>1, <2>3, <2>6 DEF Usable, ValuesOf, Global
  <2> QED
    BY <1>1, <2>3, <2>5, <2>7
<1>3. CASE ~NewString(lit)
  <2>1. Interned(lit) = globals /\ InternedStrings(lit) = strings
    BY <1>3 DEF Interned, InternedStrings
  <2>2. CASE lit.type = "str"
    <3>1. lit.value \in DOMAIN strings
      BY <1>3, <2>2 DEF NewString
    <3>2. ValueOf(lit) = Global(strings[lit.value])
      BY <2>1, <2>2 DEF ValueOf
    <3>3. Usable(ValueOf(lit), Len(globals), code)
      BY <1>1, <3>1, <3>2 DEF Usable, ValuesOf, Global
    <3> QED
      BY <1>1, <2>1, <3>3
  <2>3. CASE lit.type # "str"
    <3>1. ValueOf(lit) = EmptyAny \/ ValueOf(lit) = Constant(lit)
      BY <2>3 DEF ValueOf
    <3>2. Usable(Constant(lit), Len(globals), code)
      BY DEF Usable, ValuesOf, Constant
    <3> QED
      BY <1>1, <2>1, <3>1, <3>2
  <2> QED
    BY <2>2, <2>3
<1> QED
  BY <1>2, <1>3

(* The module keeps its form when globals are added, or instructions.      *)
LEMMA GlobalsAdded ==
  ASSUME ModuleFine, table' = table, code' = code,
         globals' \in Seq(GlobalsOf), Len(globals) <= Len(globals'),
         \A text \in DOMAIN strings' : strings'[text] \in 1..Len(globals'),
         allocation' \in [{x \in DOMAIN table : table[x].kind = "Variable"} ->
                            [kind : {"global"}, at : 1..Len(globals')] \cup {Null}]
  PROVE  ModuleFine' /\ Grows
<1>1. Len(globals) \in Nat /\ Len(globals') \in Nat /\ Len(code) \in Nat
  BY DEF ModuleFine, CodeFine
<1>2. CodeFine(code, Len(globals'))
  <2>1. InstructionsOf(Len(globals), Len(code)) \subseteq InstructionsOf(Len(globals'), Len(code))
    BY <1>1, ValuesLater
  <2> QED
    BY <2>1, SeqMonotone DEF ModuleFine, CodeFine
<1>3. Grows
  BY <1>1 DEF Grows, Extended
<1> QED
  BY <1>2, <1>3 DEF ModuleFine, GlobalsOf

LEMMA CodeAdded ==
  ASSUME ModuleFine, CodeFine(code', Len(globals)), Extended(code, code'),
         UNCHANGED <<table, globals, strings, allocation>>
  PROVE  ModuleFine' /\ Grows
<1>1. Len(globals) \in Nat /\ Len(code) \in Nat /\ Len(code') \in Nat
  BY DEF ModuleFine, CodeFine
<1>2. Grows
  BY <1>1 DEF Grows
<1> QED
  BY <1>2 DEF ModuleFine

LEMMA AllocationsLater ==
  ASSUME ModuleFine, NEW n \in Nat, Len(globals) <= n
  PROVE  allocation \in [{x \in DOMAIN table : table[x].kind = "Variable"} ->
                           [kind : {"global"}, at : 1..n] \cup {Null}]
<1>1. 1..Len(globals) \subseteq 1..n
  BY DEF ModuleFine
<1> QED
  BY <1>1 DEF ModuleFine

----------------------------------------------------------------------------
(* The steps.                                                              *)

LEMMA ChildFacts ==
  ASSUME TypeInv, NEW kind, Visits(kind)
  PROVE  /\ phase = "generate" /\ child \in 1..Len(program) /\ Child.kind = kind
         /\ kind = "VariableDefinition" => Child \in Definitions
         /\ kind = "AssignmentStatement" => Child \in Assignments(Expressions)
         /\ child + 1 \in 1..(Len(program) + 1)
<1>1. /\ program \in Seq(Definitions \cup Assignments(Expressions))
      /\ Len(program) \in Nat
  BY ASTAssumption DEF TypeInv
<1>2. phase = "generate" /\ child \in 1..Len(program) /\ Child.kind = kind
  BY DEF Visits
<1>3. Child \in Definitions \cup Assignments(Expressions)
  BY <1>1, <1>2, ElementOfSeq DEF Child
<1>4. /\ kind = "VariableDefinition" => Child \in Definitions
      /\ kind = "AssignmentStatement" => Child \in Assignments(Expressions)
  BY <1>2, <1>3 DEF Definitions, Assignments
<1> QED
  BY <1>1, <1>2, <1>4

LEMMA NodeShapes ==
  ASSUME NEW e \in Node
  PROVE  /\ e.kind = "Literal" => e \in Literals
         /\ e.kind = "BinaryExpression" => e \in Binaries(Expressions)
         /\ e.kind = "GroupingExpression" => e.expr \in Node
<1>1. CASE e \in Expressions
  <2>1. \/ e \in Literals \/ e \in Identifiers
        \/ e \in Binaries(Expressions) \/ e \in Unaries(Expressions)
        \/ e \in Groupings(Expressions)
    BY <1>1, ASTAssumption
  <2> QED
    BY <2>1 DEF Literals, Identifiers, Binaries, Unaries, Groupings, Node
<1>2. CASE e = Null
  BY <1>2 DEF Null
<1> QED
  BY <1>1, <1>2 DEF Node

LEMMA BinaryShape ==
  ASSUME NEW e \in Binaries(Expressions)
  PROVE  e.lhs \in Node /\ e.rhs \in Node /\ e.op \in Operators
BY DEF Binaries, Node

LEMMA StackSame ==
  ASSUME StackFine, Grows, stack' = stack
  PROVE  StackFine'
BY StackLater DEF StackFine

LEMMA ResultSame ==
  ASSUME ResultFine, Grows, result' = result,
         stack' = <<>> /\ target' # 0 => stack = <<>> /\ target # 0
  PROVE  ResultFine'
<1>1. result = EmptyAny \/ Usable(result, Len(globals'), code')
  BY UsableLater DEF ResultFine, Grows
<1> QED
  BY <1>1 DEF ResultFine

LEMMA ModuleSame ==
  ASSUME ModuleFine, UNCHANGED <<table, globals, strings, allocation, code>>
  PROVE  ModuleFine' /\ Grows
BY DEF ModuleFine, CodeFine, Grows, Extended

(* The expression actions happen within an assignment.                     *)
LEMMA WorkingFacts ==
  ASSUME TypeInv, Working
  PROVE  /\ stack # <<>> /\ ModuleFine /\ StackFine /\ ResultFine
         /\ Top.node \in Node /\ FrameFine(Top, Len(globals), code)
<1>1. stack # <<>> /\ ModuleFine /\ StackFine /\ ResultFine
  BY DEF TypeInv, Working
<1>2. Top \in FramesOf(Len(globals), Len(code)) /\ FrameFine(Top, Len(globals), code)
  BY <1>1, TopFacts
<1> QED
  BY <1>1, <1>2 DEF FramesOf

LEMMA DefinitionTypes ==
  ASSUME TypeInv, VariableDefinition
  PROVE  TypeInv' /\ Grows
<1> DEFINE lit == Child.value
           global == [type |-> LLVMType(lit), init |-> lit]
           n == Len(Interned(lit)) + 1
<1>1. Child \in Definitions /\ child + 1 \in 1..(Len(program) + 1)
  BY ChildFacts DEF VariableDefinition
<1>2. lit \in Literals
  BY <1>1 DEF Definitions
<1>3. global \in GlobalsOf
  BY <1>2, LLVMTypeFine DEF GlobalsOf, LLVMTypes
<1>4. ModuleFine /\ StackFine /\ ResultFine
  BY DEF TypeInv
<1>5. /\ Interned(lit) \in Seq(GlobalsOf) /\ Len(globals) <= Len(Interned(lit))
      /\ Len(globals) \in Nat /\ Len(Interned(lit)) \in Nat
      /\ \A text \in DOMAIN InternedStrings(lit) :
           InternedStrings(lit)[text] \in 1..Len(Interned(lit))
  BY <1>2, <1>4, InternFine
<1>6. globals' = Append(Interned(lit), global) /\ strings' = InternedStrings(lit)
      /\ Allocate(Child.name, n) /\ UNCHANGED <<program, table, code, stack, result, target>>
  BY DEF VariableDefinition, input
<1> HIDE DEF lit, global
<1>7. globals' \in Seq(GlobalsOf) /\ Len(globals') = n
  BY <1>3, <1>5, <1>6, AppendOne
<1>8. \A text \in DOMAIN strings' : strings'[text] \in 1..Len(globals')
  BY <1>5, <1>6, <1>7
<1>9. n \in Nat /\ Len(globals) <= n
  BY <1>5
<1>10. allocation' \in [{x \in DOMAIN table : table[x].kind = "Variable"} ->
                          [kind : {"global"}, at : 1..n] \cup {Null}]
  <2>1. allocation \in [{x \in DOMAIN table : table[x].kind = "Variable"} ->
                          [kind : {"global"}, at : 1..n] \cup {Null}]
    BY <1>4, <1>9, AllocationsLater
  <2>2. Global(n) \in [kind : {"global"}, at : 1..n]
    BY <1>9 DEF Global
  <2> HIDE DEF n
  <2> QED
    BY <1>6, <2>1, <2>2 DEF Allocate
<1>11. ModuleFine' /\ Grows
  BY <1>4, <1>6, <1>7, <1>8, <1>9, <1>10, GlobalsAdded
<1>12. StackFine' /\ ResultFine'
  BY <1>4, <1>6, <1>11, StackSame, ResultSame
<1> QED
  BY <1>1, <1>11, <1>12 DEF TypeInv, VariableDefinition, input

LEMMA LeafTypes ==
  ASSUME TypeInv, VisitLiteral \/ VisitName
  PROVE  TypeInv' /\ Grows
<1>1. /\ stack # <<>> /\ ModuleFine /\ StackFine /\ ResultFine /\ Top.node \in Node
      /\ Top.at = "visit" /\ stack' = Tail(stack)
      /\ UNCHANGED <<program, table, phase, child, target, undefined, allocation, code>>
  BY WorkingFacts DEF VisitLiteral, VisitName, Enters, Working, Return, input
<1>2. /\ ModuleFine' /\ Grows
      /\ result' = EmptyAny \/ Usable(result', Len(globals'), code')
  <2>1. CASE VisitLiteral
    <3> DEFINE lit == Top.node
    <3>1. lit \in Literals
      BY <1>1, <2>1, NodeShapes DEF VisitLiteral, Enters
    <3>2. globals' = Interned(lit) /\ strings' = InternedStrings(lit) /\ result' = ValueOf(lit)
      BY <2>1 DEF VisitLiteral, Return
    <3> HIDE DEF lit
    <3>3. /\ globals' \in Seq(GlobalsOf) /\ Len(globals) <= Len(globals')
          /\ Len(globals') \in Nat
          /\ \A text \in DOMAIN strings' : strings'[text] \in 1..Len(globals')
          /\ result' = EmptyAny \/ Usable(result', Len(globals'), code)
      BY <1>1, <3>1, <3>2, InternFine
    <3>4. allocation' \in [{x \in DOMAIN table : table[x].kind = "Variable"} ->
                             [kind : {"global"}, at : 1..Len(globals')] \cup {Null}]
      BY <1>1, <3>3, AllocationsLater
    <3> QED
      BY <1>1, <3>3, <3>4, GlobalsAdded
  <2>2. CASE VisitName
    <3>1. UNCHANGED <<globals, strings>> /\ result' = allocation[Top.node.name]
      BY <2>2 DEF VisitName, Return
    <3>2. ModuleFine' /\ Grows
      BY <1>1, <3>1, ModuleSame
    <3>3. Top.node.name \in {x \in DOMAIN table : table[x].kind = "Variable"}
      BY <2>2 DEF VisitName, IsVariable
    <3>4. result' \in [kind : {"global"}, at : 1..Len(globals)] \cup {Null}
      BY <1>1, <3>1, <3>3 DEF ModuleFine
    <3>5. Usable(result', Len(globals), code)
      BY <3>4 DEF Usable, ValuesOf, Null
    <3> QED
      BY <1>1, <3>1, <3>2, <3>5
  <2> QED
    BY <2>1, <2>2
<1>3. StackFine' /\ stack' # <<>>
  BY <1>1, <1>2, ReturnFine
<1>4. ResultFine'
  BY <1>2, <1>3 DEF ResultFine
<1> QED
  BY <1>1, <1>2, <1>3, <1>4 DEF TypeInv

LEMMA OperandTypes ==
  ASSUME TypeInv, VisitGrouping \/ VisitBinary \/ VisitRHS
  PROVE  TypeInv' /\ Grows
<1>1. /\ Working /\ stack # <<>> /\ ModuleFine /\ StackFine /\ ResultFine
      /\ Top.node \in Node /\ FrameFine(Top, Len(globals), code)
      /\ UNCHANGED <<program, table, phase, child, target, result, globals, strings, allocation>>
  BY WorkingFacts DEF VisitGrouping, VisitBinary, VisitRHS, Enters, Resumes, Working, input
<1>2. Len(globals) \in Nat
  BY <1>1 DEF ModuleFine
<1>3. CASE VisitGrouping
  <2>1. Top.node.expr \in Node /\ Top.at # "assignment"
    BY <1>1, <1>3, NodeShapes DEF VisitGrouping, Enters
  <2>2. stack' = <<Visit(Top.node.expr)>> \o Tail(stack) /\ code' = code
    BY <1>3 DEF VisitGrouping
  <2>3. ModuleFine' /\ Grows
    BY <1>1, <2>2, ModuleSame
  <2>4. StackFine' /\ stack' # <<>>
    BY <1>1, <2>1, <2>2, <2>3, VisitFine
  <2>5. ResultFine'
    BY <1>1, <2>3, <2>4, ResultSame
  <2> QED
    BY <1>1, <1>3, <2>3, <2>4, <2>5 DEF TypeInv, VisitGrouping
<1>4. CASE VisitBinary
  <2> DEFINE f == Frame("binary.lhs", Top.node, EmptyAny)
  <2>1. Top.node \in Binaries(Expressions) /\ Top.at # "assignment"
    BY <1>1, <1>4, NodeShapes DEF VisitBinary, Enters
  <2>2. Top.node.lhs \in Node
    BY <2>1, BinaryShape
  <2>3. Call(f, Top.node.lhs) /\ code' = code
    BY <1>4 DEF VisitBinary
  <2>4. ModuleFine' /\ Grows
    BY <1>1, <2>3, ModuleSame
  <2>5. /\ f \in FramesOf(Len(globals'), Len(code'))
        /\ FrameFine(f, Len(globals'), code') /\ f.at # "assignment"
    BY <1>1, <2>1 DEF Frame, FramesOf, FrameFine, Places
  <2> HIDE DEF f
  <2>6. StackFine' /\ stack' # <<>>
    BY <1>1, <2>1, <2>2, <2>3, <2>4, <2>5, CallFine
  <2>7. ResultFine'
    BY <1>1, <2>4, <2>6, ResultSame
  <2> QED
    BY <1>1, <1>4, <2>4, <2>6, <2>7 DEF TypeInv, VisitBinary
<1>5. CASE VisitRHS
  <2> DEFINE v == Loaded(result)
             f == Frame("binary.rhs", Top.node, v)
  <2>1. Top.at = "binary.lhs" /\ Top.node \in Binaries(Expressions)
    BY <1>1, <1>5 DEF VisitRHS, Resumes, FrameFine
  <2>2. Top.node.rhs \in Node
    BY <2>1, BinaryShape
  <2>3. Usable(result, Len(globals), code)
    BY <1>1, <1>5 DEF VisitRHS, Resumes, ResultFine
  <2>4. /\ CodeFine(WithLoad(result), Len(globals)) /\ Extended(code, WithLoad(result))
        /\ Usable(v, Len(globals), WithLoad(result))
    BY <1>1, <2>3, LoadFine
  <2>5. Call(f, Top.node.rhs) /\ code' = WithLoad(result)
        /\ undefined' = (undefined \/ result = Null)
    BY <1>5 DEF VisitRHS
  <2> HIDE DEF v
  <2>6. ModuleFine' /\ Grows
    BY <1>1, <2>4, <2>5, CodeAdded
  <2>7. Usable(v, Len(globals'), code')
    BY <1>1, <2>4, <2>5
  <2>8. /\ f \in FramesOf(Len(globals'), Len(code'))
        /\ FrameFine(f, Len(globals'), code') /\ f.at # "assignment"
    BY <1>1, <2>1, <2>7 DEF Frame, FramesOf, FrameFine, Places, Usable
  <2> HIDE DEF f
  <2>9. StackFine' /\ stack' # <<>>
    BY <1>1, <2>1, <2>2, <2>5, <2>6, <2>8, CallFine
  <2>10. ResultFine'
    BY <1>1, <2>6, <2>9, ResultSame
  <2>11. undefined' \in BOOLEAN
    BY <2>5, ZenonT(20) DEF TypeInv
  <2> QED
    BY <1>1, <2>6, <2>9, <2>10, <2>11 DEF TypeInv
<1> QED
  BY <1>3, <1>4, <1>5

LEMMA OperatorTypes ==
  ASSUME TypeInv, EndBinary
  PROVE  TypeInv' /\ Grows
<1>1. /\ Working /\ stack # <<>> /\ ModuleFine /\ StackFine /\ ResultFine
      /\ FrameFine(Top, Len(globals), code) /\ Top.at = "binary.rhs" /\ result # EmptyAny
      /\ stack' = Tail(stack)
      /\ UNCHANGED <<program, table, phase, child, target, globals, strings, allocation>>
  BY WorkingFacts DEF EndBinary, Resumes, Working, Return, input
<1>2. /\ Usable(result, Len(globals), code) /\ Usable(Top.lhs, Len(globals), code)
      /\ Top.node \in Binaries(Expressions)
  BY <1>1 DEF ResultFine, FrameFine
<1>3. PICK op \in Cases(Top.node.op) :
        /\ code' = Emit(WithLoad(result), op, OperationType(op, TypeOf(Top.lhs)),
                        Arguments(Top.lhs, Loaded(result)))
        /\ undefined' =
             (\/ undefined \/ Top.node.op = "IS" \/ result = Null
              \/ ~OperandsFit(op, TypeOf(Top.lhs), LoadedType(result)))
  BY DEF EndBinary
<1>4. op \in Operators
  BY <1>2, BinaryShape DEF Cases
<1>5. /\ CodeFine(code', Len(globals)) /\ Extended(code, code')
      /\ Usable(Instruction(Len(WithLoad(result)) + 1), Len(globals), code')
  BY <1>1, <1>2, <1>3, <1>4, OperationFine
<1>6. ModuleFine' /\ Grows
  BY <1>1, <1>5, CodeAdded
<1>7. StackFine' /\ stack' # <<>>
  BY <1>1, <1>6, ReturnFine
<1>8. ResultFine'
  <2>1. result' = Instruction(Len(WithLoad(result)) + 1)
    BY DEF EndBinary, Return
  <2>2. Usable(result', Len(globals'), code')
    BY <1>1, <1>5, <2>1
  <2> QED
    BY <1>7, <2>2 DEF ResultFine
<1>9. undefined' \in BOOLEAN
  BY <1>3, ZenonT(20)
<1> QED
  BY <1>1, <1>6, <1>7, <1>8, <1>9 DEF TypeInv

LEMMA AssignmentTypes ==
  ASSUME TypeInv, VisitExpression \/ LoadExpression
  PROVE  TypeInv' /\ Grows
<1>1. /\ ModuleFine /\ StackFine /\ ResultFine
      /\ UNCHANGED <<program, table, phase, child, globals, strings, allocation>>
  BY DEF TypeInv, VisitExpression, LoadExpression, input
<1>2. CASE VisitExpression
  <2> DEFINE v == Visit(Child.expr)
             f == Frame("assignment", Child.expr, EmptyAny)
             F == FramesOf(Len(globals'), Len(code'))
  <2>1. Child.expr \in Node
    BY <1>2, ChildFacts DEF VisitExpression, Assignments, Node
  <2>2. UNCHANGED <<code, result, undefined>> /\ target' = 1 /\ stack' = <<v, f>>
    BY <1>2 DEF VisitExpression
  <2>3. ModuleFine' /\ Grows
    BY <1>1, <2>2, ModuleSame
  <2>4. v \in F /\ FrameFine(v, Len(globals'), code') /\ v.at = "visit"
    BY <2>1, VisitFrame
  <2>5. f \in F /\ FrameFine(f, Len(globals'), code') /\ f.at = "assignment"
    BY <2>1 DEF Frame, FramesOf, FrameFine, Places
  <2> HIDE DEF v, f, F
  <2>6. /\ stack' \in Seq(F) /\ Len(stack') = 2 /\ stack'[1] = v /\ stack'[2] = f
        /\ stack' # <<>>
    BY <2>2, <2>4, <2>5
  <2>7. \A k \in 1..Len(stack') :
          /\ FrameFine(stack'[k], Len(globals'), code')
          /\ stack'[k].at = "assignment" <=> k = Len(stack')
    BY <2>4, <2>5, <2>6
  <2>8. StackFine'
    BY <2>6, <2>7 DEF StackFine, F
  <2>9. ResultFine'
    BY <1>1, <2>2, <2>3, <2>6, ResultSame
  <2> QED
    BY <1>1, <2>2, <2>3, <2>8, <2>9 DEF TypeInv
<1>3. CASE LoadExpression
  <2>1. stack # <<>> /\ result # EmptyAny /\ UNCHANGED target
    BY <1>3 DEF LoadExpression, Resumes, Working
  <2>2. Usable(result, Len(globals), code)
    BY <1>1, <2>1 DEF ResultFine
  <2>3. /\ code' = WithLoad(result) /\ result' = Loaded(result) /\ stack' = Tail(stack)
        /\ undefined' = (undefined \/ result = Null)
    BY <1>3 DEF LoadExpression, Return
  <2>4. /\ CodeFine(code', Len(globals)) /\ Extended(code, code')
        /\ Usable(result', Len(globals), code') /\ result' # EmptyAny
    BY <1>1, <2>2, <2>3, LoadFine
  <2>5. ModuleFine' /\ Grows
    BY <1>1, <2>4, CodeAdded
  <2>6. StackFine'
    BY <1>1, <2>1, <2>3, <2>5, ReturnFine
  <2>7. ResultFine'
    BY <1>1, <2>4 DEF ResultFine
  <2>8. undefined' \in BOOLEAN
    BY <2>3, ZenonT(20)
  <2> QED
    BY <1>1, <2>1, <2>5, <2>6, <2>7, <2>8 DEF TypeInv
<1> QED
  BY <1>2, <1>3

LEMMA TargetTypes ==
  ASSUME TypeInv, StoreTarget \/ EndAssignment
  PROVE  TypeInv' /\ Grows
<1>1. /\ ModuleFine /\ StackFine /\ ResultFine
      /\ UNCHANGED <<program, table, phase, stack, result, globals, strings, allocation>>
  BY DEF TypeInv, StoreTarget, EndAssignment, input
<1>2. CASE StoreTarget
  <2> DEFINE to == allocation[Child.targets[target]]
             args == <<result, to>>
  <2>1. stack = <<>> /\ target \in Nat /\ target # 0 /\ IsVariable(Child.targets[target])
    BY <1>2 DEF StoreTarget, AtTarget, TypeInv
  <2>2. to \in [kind : {"global"}, at : 1..Len(globals)] \cup {Null}
    BY <1>1, <2>1 DEF ModuleFine, IsVariable
  <2>3. Usable(to, Len(globals), code)
    BY <2>2 DEF Usable, ValuesOf, Null
  <2>4. Usable(result, Len(globals), code)
    BY <1>1, <2>1 DEF ResultFine
  <2> HIDE DEF to
  <2>5. /\ args \in Seq(ValuesOf(Len(globals), Len(code)))
        /\ \A k \in 1..Len(args) : Usable(args[k], Len(globals), code)
    <3>1. result \in ValuesOf(Len(globals), Len(code)) /\ to \in ValuesOf(Len(globals), Len(code))
      BY <2>3, <2>4 DEF Usable
    <3>2. Len(args) = 2 /\ args[1] = result /\ args[2] = to
      OBVIOUS
    <3> QED
      BY <2>3, <2>4, <3>1, <3>2
  <2> HIDE DEF args
  <2>6. /\ code' = Emit(code, "store", "void", args) /\ target' = target + 1 /\ child' = child
        /\ undefined' = (undefined \/ to = Null)
    BY <1>2 DEF StoreTarget, to, args
  <2>7. "store" \in Operations /\ "void" \in LLVMTypes
    BY DEF Operations, LLVMTypes
  <2>8. CodeFine(code', Len(globals)) /\ Extended(code, code')
    <3>1. CodeFine(code, Len(globals)) /\ Len(globals) \in Nat
      BY <1>1 DEF ModuleFine
    <3> QED
      BY <2>5, <2>6, <2>7, <3>1, EmitFine
  <2>9. ModuleFine' /\ Grows
    BY <1>1, <2>8, CodeAdded
  <2>10. StackFine' /\ ResultFine'
    BY <1>1, <2>1, <2>9, StackSame, ResultSame
  <2>11. undefined' \in BOOLEAN
    BY <2>6, ZenonT(20)
  <2> QED
    BY <1>1, <2>1, <2>6, <2>9, <2>10, <2>11 DEF TypeInv
<1>3. CASE EndAssignment
  <2>1. target' = 0 /\ child' = child + 1 /\ UNCHANGED <<code, undefined>>
    BY <1>3 DEF EndAssignment
  <2>2. child' \in 1..(Len(program) + 1)
    BY <1>3, <2>1, ChildFacts DEF EndAssignment
  <2>3. ModuleFine' /\ Grows
    BY <1>1, <2>1, ModuleSame
  <2>4. StackFine' /\ ResultFine'
    BY <1>1, <2>1, <2>3, StackSame, ResultSame
  <2> QED
    BY <1>1, <2>1, <2>2, <2>3, <2>4 DEF TypeInv
<1> QED
  BY <1>2, <1>3

LEMMA EndTypes ==
  ASSUME TypeInv, BadAnyCast \/ EndOfProgram \/ Crash \/ UNCHANGED vars
  PROVE  TypeInv' /\ Grows
<1>1. /\ ModuleFine /\ StackFine /\ ResultFine
      /\ UNCHANGED <<program, table, child, target, stack, result, undefined,
                     globals, strings, allocation>>
      /\ phase' \in {"generate", "generated", "crashed"}
  BY DEF TypeInv, BadAnyCast, EndOfProgram, Crash, vars, input
<1>2. CASE code' = code
  <2>1. ModuleFine' /\ Grows
    BY <1>1, <1>2, ModuleSame
  <2>2. StackFine' /\ ResultFine'
    BY <1>1, <2>1, StackSame, ResultSame
  <2> QED
    BY <1>1, <2>1, <2>2 DEF TypeInv
<1>3. CASE EndOfProgram
  <2> DEFINE args == <<>>
  <2>1. /\ args \in Seq(ValuesOf(Len(globals), Len(code)))
        /\ \A k \in 1..Len(args) : Usable(args[k], Len(globals), code)
    OBVIOUS
  <2>2. code' = Emit(code, "ret", "void", args)
    BY <1>3 DEF EndOfProgram
  <2> HIDE DEF args
  <2>3. "ret" \in Operations /\ "void" \in LLVMTypes
    BY DEF Operations, LLVMTypes
  <2>4. CodeFine(code', Len(globals)) /\ Extended(code, code')
    <3>1. CodeFine(code, Len(globals)) /\ Len(globals) \in Nat
      BY <1>1 DEF ModuleFine
    <3> QED
      BY <2>1, <2>2, <2>3, <3>1, EmitFine
  <2>5. ModuleFine' /\ Grows
    BY <1>1, <2>4, CodeAdded
  <2>6. StackFine' /\ ResultFine'
    BY <1>1, <2>5, StackSame, ResultSame
  <2> QED
    BY <1>1, <2>5, <2>6 DEF TypeInv
<1>4. code' = code \/ EndOfProgram
  BY DEF BadAnyCast, Crash, vars
<1> QED
  BY <1>2, <1>3, <1>4

LEMMA InitTypes ==
  ASSUME Init
  PROVE  TypeInv
<1>1. /\ program \in Programs /\ phase = "generate" /\ child = 1 /\ target = 0
      /\ stack = <<>> /\ result = EmptyAny /\ undefined = FALSE
      /\ allocation = NoAllocations(table) /\ strings = <<>> /\ globals = <<>> /\ code = <<>>
  BY DEF Init
<1>2. Len(program) \in Nat
  BY <1>1, ASTAssumption
<1>3. ModuleFine
  <2>1. globals \in Seq([type : LLVMTypes \ {"void"}, init : Literals])
    BY <1>1
  <2>2. \A text \in DOMAIN strings : strings[text] \in 1..Len(globals)
    BY <1>1
  <2>3. allocation \in [{x \in DOMAIN table : table[x].kind = "Variable"} ->
                          [kind : {"global"}, at : 1..Len(globals)] \cup {Null}]
    BY <1>1 DEF NoAllocations
  <2>4. CodeFine(code, Len(globals))
    BY <1>1 DEF CodeFine, Defined
  <2> QED
    BY <2>1, <2>2, <2>3, <2>4 DEF ModuleFine
<1>4. StackFine /\ ResultFine
  BY <1>1 DEF StackFine, ResultFine
<1>5. child \in 1..(Len(program) + 1) /\ target \in Nat
  BY <1>1, <1>2
<1>6. phase \in {"generate", "generated", "crashed"} /\ undefined \in BOOLEAN
  BY <1>1, ZenonT(20)
<1> QED
  BY <1>1, <1>3, <1>4, <1>5, <1>6 DEF TypeInv

LEMMA NextTypes ==
  ASSUME TypeInv, [Next]_vars
  PROVE  TypeInv' /\ Grows
<1>1. CASE VariableDefinition
  BY <1>1, DefinitionTypes
<1>2. CASE VisitLiteral \/ VisitName
  BY <1>2, LeafTypes
<1>3. CASE VisitGrouping \/ VisitBinary \/ VisitRHS
  BY <1>3, OperandTypes
<1>4. CASE EndBinary
  BY <1>4, OperatorTypes
<1>5. CASE VisitExpression \/ LoadExpression
  BY <1>5, AssignmentTypes
<1>6. CASE StoreTarget \/ EndAssignment
  BY <1>6, TargetTypes
<1>7. CASE BadAnyCast \/ EndOfProgram \/ Crash \/ UNCHANGED vars
  BY <1>7, EndTypes
<1> QED
  BY <1>1, <1>2, <1>3, <1>4, <1>5, <1>6, <1>7 DEF Next, Terminating

LEMMA TypeInvImplies ==
  ASSUME TypeInv
  PROVE  TypeOK /\ OperandsAreDefined
<1> DEFINE n == Len(globals)
           m == Len(code)
<1>1. Pointers = [kind : {"global"}, at : 1..n] \cup [kind : {"instruction"}, at : 1..m] \cup {Null}
  BY DEF Pointers
<1>2. LLVMValues = ValuesOf(n, m)
  BY <1>1 DEF LLVMValues, ValuesOf
<1>3. Frames = FramesOf(n, m)
  BY <1>2 DEF Frames, FramesOf, Node, Places
<1>4. [op : Operators \cup {"load", "store", "ret"}, type : LLVMTypes, args : Seq(LLVMValues)]
        = InstructionsOf(n, m)
  BY <1>2 DEF InstructionsOf, Operations
<1>5. stack \in Seq(Frames)
  BY <1>3 DEF TypeInv, StackFine
<1>6. result \in LLVMValues \cup {EmptyAny}
  BY <1>2 DEF TypeInv, ResultFine, Usable
<1>7. code \in Seq(InstructionsOf(n, m)) /\ Defined(code)
  BY DEF TypeInv, ModuleFine, CodeFine
<1>8. globals \in Seq([type : LLVMTypes, init : Literals])
  <2>1. GlobalsOf \subseteq [type : LLVMTypes, init : Literals]
    BY DEF GlobalsOf
  <2>2. globals \in Seq(GlobalsOf)
    BY DEF TypeInv, ModuleFine, GlobalsOf
  <2> QED
    BY <2>1, <2>2, SeqMonotone
<1>9. allocation \in [{x \in DOMAIN table : table[x].kind = "Variable"} -> Pointers]
  BY <1>1 DEF TypeInv, ModuleFine
<1>10. OperandsAreDefined
  BY <1>7 DEF OperandsAreDefined, Defined
<1>11. \A text \in DOMAIN strings : strings[text] \in 1..n
  BY DEF TypeInv, ModuleFine
<1> HIDE DEF n, m
<1> QED
  BY <1>4, <1>5, <1>6, <1>7, <1>8, <1>9, <1>10, <1>11 DEF TypeOK, TypeInv, n

LEMMA IRGenTypeInv == Spec => []TypeInv
<1>1. Init => TypeInv
  BY InitTypes
<1>2. TypeInv /\ [Next]_vars => TypeInv'
  BY NextTypes
<1> QED
  BY <1>1, <1>2, PTL DEF Spec

(* Every variable of the generator keeps its C++ type, and no pointer leads*)
(* out of the module that it generates.                                    *)
THEOREM IRGenTypeInvariant == Spec => []TypeOK
<1>1. TypeInv => TypeOK
  BY TypeInvImplies
<1> QED
  BY <1>1, IRGenTypeInv, PTL

(* No instruction uses a value before it is computed, or the result of one *)
(* that has none, in whatever order the visits emit them.                  *)
THEOREM IRGenOperandsAreDefined == Spec => []OperandsAreDefined
<1>1. TypeInv => OperandsAreDefined
  BY TypeInvImplies
<1> QED
  BY <1>1, IRGenTypeInv, PTL

----------------------------------------------------------------------------
(* Names.                                                                  *)

InputFine == table = TableOf(program) /\ WellTyped(program) /\ ~Untypable(program)

LEMMA DeclaredFacts ==
  ASSUME NEW p, NEW name \in Declared(p)
  PROVE  /\ DefinitionOf(p, name) \in DefinitionsOf(p)
         /\ p[DefinitionOf(p, name)].name = name
         /\ name \notin Types
<1>1. \E c \in Declarations(p) : p[c].name = name
  BY DEF Declared
<1>2. DefinitionOf(p, name) \in Declarations(p) /\ p[DefinitionOf(p, name)].name = name
  BY <1>1 DEF DefinitionOf
<1> QED
  BY <1>2 DEF Declarations, Declares

LEMMA DefinitionsAreDeclared ==
  ASSUME NEW p, WellTyped(p), NEW c \in DefinitionsOf(p)
  PROVE  p[c].name \in Declared(p) /\ DefinitionOf(p, p[c].name) = c
<1>1. /\ c \in Declarations(p)
      /\ \A d \in DefinitionsOf(p) : d # c => p[d].name # p[c].name
  BY DEF WellTyped, DefinitionFine
<1>2. p[c].name \in Declared(p)
  BY <1>1 DEF Declared
<1> QED
  BY <1>1, <1>2, DeclaredFacts

LEMMA Variables ==
  ASSUME InputFine
  PROVE  /\ {x \in DOMAIN table : table[x].kind = "Variable"} = Declared(program)
         /\ \A name \in Declared(program) : IsVariable(name)
<1>1. /\ DOMAIN table = Types \cup Declared(program)
      /\ \A x \in DOMAIN table : table[x].kind = "Variable" <=> x \notin Types
  BY DEF InputFine, TableOf
<1>2. \A name \in Declared(program) : name \notin Types
  BY DeclaredFacts
<1> QED
  BY <1>1, <1>2 DEF IsVariable

(* All definitions of a program come before its first assignment.          *)
LEMMA DefinedBefore ==
  ASSUME TypeInv, Visits("AssignmentStatement"), NEW name \in Declared(program)
  PROVE  DefinitionOf(program, name) < child
<1> DEFINE d == DefinitionOf(program, name)
<1>1. d \in 1..Len(program) /\ program[d].kind = "VariableDefinition"
  BY DeclaredFacts DEF DefinitionsOf, OfKind
<1>2. /\ program \in Seq(Definitions \cup Assignments(Expressions)) /\ Len(program) \in Nat
      /\ \A b, c \in 1..Len(program) :
           b < c /\ program[c].kind = "VariableDefinition" =>
             program[b].kind = "VariableDefinition"
  BY ASTAssumption DEF TypeInv
<1>3. child \in 1..Len(program) /\ program[child].kind = "AssignmentStatement"
  BY DEF Visits, Child
<1> HIDE DEF d
<1>4. d # child /\ ~(child < d)
  BY <1>1, <1>2, <1>3
<1>5. d < child
  BY <1>1, <1>2, <1>3, <1>4
<1> QED
  BY <1>5 DEF d

----------------------------------------------------------------------------
(* Globals.                                                                *)

(* The texts and the globals with their characters belong together.        *)
StringsFine(g, s) ==
  /\ \A n \in 1..Len(g) :
       g[n].type = "chars" => g[n].init.value \in DOMAIN s /\ s[g[n].init.value] = n
  /\ \A text \in DOMAIN s :
       /\ s[text] \in 1..Len(g)
       /\ g[s[text]].type = "chars" /\ g[s[text]].init.value = text

VariableFine(p, g, a, c, name) ==
  IF DefinitionOf(p, name) >= c THEN a[name] = Null
  ELSE /\ a[name] \in [kind : {"global"}, at : 1..Len(g)]
       /\ g[a[name].at].type # "chars" /\ g[a[name].at].init = FirstValue(p, name)

Distinct(a) == \A m, n \in DOMAIN a : a[m] = a[n] => m = n \/ a[m] = Null

VariablesFine(p, g, a, c) ==
  (\A name \in DOMAIN a : VariableFine(p, g, a, c, name)) /\ Distinct(a)

(* The activations work on the expression of the assignment.               *)
NodesWithin ==
  stack # <<>> =>
    /\ child \in 1..Len(program) /\ Child.kind = "AssignmentStatement"
    /\ \A k \in 1..Len(stack) : stack[k].node \in Within[Child.expr]

NamesInv ==
  /\ InputFine
  /\ StringsFine(globals, strings)
  /\ VariablesFine(program, globals, allocation, child)
  /\ NodesWithin

LEMMA InternKeepsStrings ==
  ASSUME ModuleFine, NEW lit \in Literals, StringsFine(globals, strings)
  PROVE  StringsFine(Interned(lit), InternedStrings(lit))
<1>1. CASE ~NewString(lit)
  BY <1>1 DEF Interned, InternedStrings
<1>2. CASE NewString(lit)
  <2> DEFINE chars == [type |-> "chars", init |-> lit]
             g == Interned(lit)
             s == InternedStrings(lit)
  <2>1. globals \in Seq(GlobalsOf) /\ Len(globals) \in Nat
    BY DEF ModuleFine, GlobalsOf
  <2>2. chars \in GlobalsOf /\ chars.type = "chars" /\ chars.init = lit
    BY DEF GlobalsOf, LLVMTypes
  <2>3. g = Append(globals, chars)
    BY <1>2 DEF Interned
  <2>4. /\ DOMAIN s = DOMAIN strings \cup {lit.value}
        /\ \A text \in DOMAIN s :
             s[text] = IF text = lit.value THEN Len(globals) + 1 ELSE strings[text]
        /\ lit.value \notin DOMAIN strings
    BY <1>2 DEF InternedStrings, NewString
  <2> HIDE DEF chars, g, s
  <2>5. /\ Len(g) = Len(globals) + 1 /\ g[Len(globals) + 1] = chars
        /\ \A n \in 1..Len(globals) : g[n] = globals[n]
    BY <2>1, <2>2, <2>3, AppendOne
  <2>6. ASSUME NEW n \in 1..Len(g), g[n].type = "chars"
        PROVE  g[n].init.value \in DOMAIN s /\ s[g[n].init.value] = n
    <3>1. CASE n = Len(globals) + 1
      BY <2>2, <2>4, <2>5, <3>1
    <3>2. CASE n \in 1..Len(globals)
      <4>1. /\ g[n] = globals[n]
            /\ globals[n].init.value \in DOMAIN strings /\ strings[globals[n].init.value] = n
        BY <2>5, <2>6, <3>2 DEF StringsFine
      <4> QED
        BY <2>4, <4>1
    <3> QED
      BY <2>1, <2>5, <2>6, <3>1, <3>2
  <2>7. ASSUME NEW text \in DOMAIN s
        PROVE  /\ s[text] \in 1..Len(g)
               /\ g[s[text]].type = "chars" /\ g[s[text]].init.value = text
    <3>1. CASE text = lit.value
      <4>1. s[text] = Len(globals) + 1
        BY <2>4, <2>7, <3>1
      <4>2. s[text] \in 1..Len(g)
        BY <2>1, <2>5, <4>1
      <4> QED
        BY <2>2, <2>5, <3>1, <4>1, <4>2
    <3>2. CASE text # lit.value
      <4>1. text \in DOMAIN strings /\ s[text] = strings[text]
        BY <2>4, <2>7, <3>2
      <4>2. /\ strings[text] \in 1..Len(globals)
            /\ globals[strings[text]].type = "chars"
            /\ globals[strings[text]].init.value = text
        BY <4>1 DEF StringsFine
      <4>3. s[text] \in 1..Len(g)
        BY <2>1, <2>5, <4>1, <4>2
      <4> QED
        BY <2>5, <4>1, <4>2, <4>3
    <3> QED
      BY <3>1, <3>2
  <2>8. StringsFine(g, s)
    BY <2>6, <2>7 DEF StringsFine
  <2> QED
    BY <2>8 DEF g, s
<1> QED
  BY <1>1, <1>2

LEMMA VariableKeepsStrings ==
  ASSUME NEW g \in Seq(GlobalsOf), NEW s, StringsFine(g, s), NEW x \in GlobalsOf,
         x.type # "chars"
  PROVE  StringsFine(Append(g, x), s)
<1> DEFINE h == Append(g, x)
<1>1. /\ Len(h) = Len(g) + 1 /\ h[Len(g) + 1] = x /\ Len(g) \in Nat
      /\ \A n \in 1..Len(g) : h[n] = g[n]
  BY AppendOne
<1> HIDE DEF h
<1>2. ASSUME NEW n \in 1..Len(h), h[n].type = "chars"
      PROVE  h[n].init.value \in DOMAIN s /\ s[h[n].init.value] = n
  <2>1. n \in 1..Len(g)
    BY <1>1, <1>2
  <2> QED
    BY <1>1, <1>2, <2>1 DEF StringsFine
<1>3. ASSUME NEW text \in DOMAIN s
      PROVE  /\ s[text] \in 1..Len(h)
             /\ h[s[text]].type = "chars" /\ h[s[text]].init.value = text
  <2>1. /\ s[text] \in 1..Len(g)
        /\ g[s[text]].type = "chars" /\ g[s[text]].init.value = text
    BY DEF StringsFine
  <2> QED
    BY <1>1, <2>1
<1> QED
  BY <1>2, <1>3 DEF StringsFine, h

(* Variables keep what they have while others are added.                   *)
LEMMA VariablesLater ==
  ASSUME NEW p, NEW g, NEW h, Len(g) \in Nat, Len(h) \in Nat, Len(g) <= Len(h),
         \A n \in 1..Len(g) : h[n] = g[n],
         NEW a, NEW c, NEW name, VariableFine(p, g, a, c, name)
  PROVE  VariableFine(p, h, a, c, name)
<1>1. CASE DefinitionOf(p, name) >= c
  BY <1>1 DEF VariableFine
<1>2. CASE ~(DefinitionOf(p, name) >= c)
  <2>1. /\ a[name] \in [kind : {"global"}, at : 1..Len(g)]
        /\ g[a[name].at].type # "chars" /\ g[a[name].at].init = FirstValue(p, name)
    BY <1>2 DEF VariableFine
  <2>2. a[name].at \in 1..Len(g) /\ a[name].kind = "global" /\ 1..Len(g) \subseteq 1..Len(h)
    BY <2>1
  <2>3. a[name] \in [kind : {"global"}, at : 1..Len(h)]
    BY <2>1, <2>2
  <2> QED
    BY <1>2, <2>1, <2>2, <2>3 DEF VariableFine
<1> QED
  BY <1>1, <1>2

----------------------------------------------------------------------------
(* The steps keep what is known of names.                                  *)

LEMMA NodesAsType ==
  ASSUME NEW S, NEW T, S \subseteq T, NEW s \in Seq(S), NEW W,
         \A k \in 1..Len(s) : s[k].node \in W
  PROVE  s \in Seq({x \in T : x.node \in W})
<1>1. s \in [1..Len(s) -> S] /\ Len(s) \in Nat
  OBVIOUS
<1>2. s \in [1..Len(s) -> {x \in T : x.node \in W}]
  BY <1>1
<1> QED
  BY <1>1, <1>2, SeqDef

LEMMA StackNodes ==
  ASSUME StackFine, stack # <<>>, NEW W, \A k \in 1..Len(stack) : stack[k].node \in W,
         NEW c, c.node \in W, NEW f, f.node \in W,
         stack' \in {Tail(stack), <<c>> \o Tail(stack), <<c, f>> \o Tail(stack)}
  PROVE  \A k \in 1..Len(stack') : stack'[k].node \in W
<1> DEFINE F == FramesOf(Len(globals), Len(code))
           T == {x \in F \cup {c, f} : x.node \in W}
<1>1. stack \in Seq(T)
  BY NodesAsType DEF StackFine
<1>2. c \in T /\ f \in T
  OBVIOUS
<1>3. \A x \in T : x.node \in W
  OBVIOUS
<1> HIDE DEF T
<1>4. stack' \in Seq(T)
  <2>1. Tail(stack) \in Seq(T)
    BY <1>1, PopTop
  <2>2. <<c>> \o Tail(stack) \in Seq(T)
    BY <1>1, <1>2, ReplaceTop
  <2>3. <<c, f>> \o Tail(stack) \in Seq(T)
    BY <1>1, <1>2, PushCallee
  <2> QED
    BY <2>1, <2>2, <2>3
<1> QED
  BY <1>3, <1>4, ElementOfSeq

(* A step within an expression.                                            *)
LEMMA ExpressionNodes ==
  ASSUME NamesInv, StackFine, stack # <<>>, UNCHANGED <<program, child>>,
         NEW c, NEW f, {c.node, f.node} \subseteq Operands(Top.node) \cup {Top.node},
         stack' \in {Tail(stack), <<c>> \o Tail(stack), <<c, f>> \o Tail(stack)},
         TypeInv
  PROVE  NodesWithin'
<1> DEFINE W == Within[Child.expr]
<1>1. /\ child \in 1..Len(program) /\ Child.kind = "AssignmentStatement"
      /\ \A k \in 1..Len(stack) : stack[k].node \in W
  BY DEF NamesInv, NodesWithin
<1>2. Child.expr \in Expressions
  BY <1>1, ASTAssumption, ElementOfSeq DEF TypeInv, Child, Assignments, Definitions
<1>3. Top.node \in W
  BY <1>1, TopFacts
<1>4. Operands(Top.node) \subseteq W
  <2>1. Operands(Null) = {}
    BY DEF Operands, Null
  <2> QED
    BY <1>2, <1>3, <2>1, WithinIsClosed
<1>5. c.node \in W /\ f.node \in W
  BY <1>3, <1>4
<1>6. Child' = Child
  BY DEF Child
<1> HIDE DEF W
<1>7. \A k \in 1..Len(stack') : stack'[k].node \in W
  BY <1>1, <1>5, StackNodes
<1> QED
  BY <1>1, <1>6, <1>7 DEF NodesWithin, W

LEMMA DefinitionNames ==
  ASSUME TypeInv, NamesInv, VariableDefinition
  PROVE  NamesInv'
<1> DEFINE lit == Child.value
           x == [type |-> LLVMType(lit), init |-> lit]
           g == Interned(lit)
           h == Append(g, x)
           n == Len(g) + 1
           a == allocation
<1>1. /\ child \in 1..Len(program) /\ child \in Nat /\ Child.kind = "VariableDefinition"
      /\ Child \in Definitions /\ ModuleFine /\ StackFine
  <2>1. Len(program) \in Nat
    BY ASTAssumption DEF TypeInv
  <2> QED
    BY <2>1, ChildFacts DEF VariableDefinition, TypeInv
<1>2. child \in DefinitionsOf(program) /\ program[child] = Child
  BY <1>1 DEF DefinitionsOf, OfKind, Child
<1>3. Child.name \in Declared(program) /\ DefinitionOf(program, Child.name) = child
  BY <1>2, DefinitionsAreDeclared DEF NamesInv, InputFine
<1>4. /\ globals' = h /\ strings' = InternedStrings(lit) /\ child' = child + 1
      /\ Allocate(Child.name, n) /\ UNCHANGED <<program, table, stack>>
  BY DEF VariableDefinition, input
<1>5. lit \in Literals /\ x \in GlobalsOf /\ x.type # "chars" /\ x.init = lit
  <2>1. lit \in Literals
    BY <1>1 DEF Definitions
  <2> QED
    BY <2>1, LLVMTypeFine DEF GlobalsOf, LLVMTypes
<1>6. /\ g \in Seq(GlobalsOf) /\ Len(globals) <= Len(g) /\ Len(globals) \in Nat /\ Len(g) \in Nat
      /\ \A i \in 1..Len(globals) : g[i] = globals[i]
  BY <1>1, <1>5, InternFine
<1>7. StringsFine(g, InternedStrings(lit))
  BY <1>1, <1>5, InternKeepsStrings DEF NamesInv
<1>8. FirstValue(program, Child.name) = lit
  BY <1>2, <1>3 DEF FirstValue
<1> HIDE DEF lit, x, g
<1>9. StringsFine(h, InternedStrings(lit))
  BY <1>5, <1>6, <1>7, VariableKeepsStrings
<1>10. /\ Len(h) = n /\ h[n] = x /\ n \in Nat /\ Len(globals) < n /\ Len(globals) <= Len(h)
       /\ \A i \in 1..Len(globals) : h[i] = globals[i]
  BY <1>5, <1>6, AppendOne
<1> HIDE DEF h, n
<1>11. /\ DOMAIN allocation' = DOMAIN a /\ DOMAIN a = Declared(program)
       /\ \A m \in DOMAIN a : allocation'[m] = IF m = Child.name THEN Global(n) ELSE a[m]
  <2>1. DOMAIN a = Declared(program)
    BY <1>1, Variables DEF NamesInv, ModuleFine
  <2> QED
    BY <1>4, <2>1 DEF Allocate
<1>12. \A m \in DOMAIN a : VariableFine(program, globals, a, child, m)
  BY DEF NamesInv, VariablesFine
<1>13. ASSUME NEW m \in DOMAIN a
       PROVE  VariableFine(program, h, allocation', child + 1, m)
  <2>1. CASE m = Child.name
    <3>1. ~(DefinitionOf(program, m) >= child + 1)
      BY <1>1, <1>3, <2>1
    <3>2. allocation'[m] = Global(n)
      BY <1>11, <2>1
    <3>3. allocation'[m] \in [kind : {"global"}, at : 1..Len(h)] /\ allocation'[m].at = n
      <4>1. n \in 1..Len(h)
        BY <1>6, <1>10
      <4> QED
        BY <3>2, <4>1 DEF Global
    <3> QED
      BY <1>5, <1>8, <1>10, <2>1, <3>1, <3>3 DEF VariableFine
  <2>2. CASE m # Child.name
    <3>1. /\ DefinitionOf(program, m) \in 1..Len(program)
          /\ program[DefinitionOf(program, m)].name = m
      BY <1>11, <1>13, DeclaredFacts DEF DefinitionsOf, OfKind
    <3>2. DefinitionOf(program, m) # child /\ DefinitionOf(program, m) \in Nat
      <4>1. Len(program) \in Nat
        BY ASTAssumption DEF TypeInv
      <4> QED
        BY <1>2, <2>2, <3>1, <4>1
    <3>3. DefinitionOf(program, m) >= child + 1 <=> DefinitionOf(program, m) >= child
      BY <1>1, <3>2
    <3>4. VariableFine(program, h, a, child, m)
      BY <1>6, <1>10, <1>12, <1>13, VariablesLater
    <3>5. allocation'[m] = a[m]
      BY <1>11, <2>2
    <3> QED
      BY <3>3, <3>4, <3>5 DEF VariableFine
  <2> QED
    BY <2>1, <2>2
<1>14. \A m \in DOMAIN a : a[m] # Global(n)
  <2>1. ASSUME NEW m \in DOMAIN a, a[m] = Global(n) PROVE FALSE
    <3>1. a[m].kind = "global" /\ a[m].at = n
      BY <2>1 DEF Global
    <3>2. a[m] # Null
      BY <3>1 DEF Null
    <3>3. a[m].at \in 1..Len(globals)
      BY <1>12, <2>1, <3>2 DEF VariableFine
    <3> QED
      BY <1>6, <1>10, <3>1, <3>3
  <2> QED
    BY <2>1
<1>15. Distinct(allocation')
  <2>1. Distinct(a)
    BY DEF NamesInv, VariablesFine
  <2> QED
    BY <1>11, <1>14, <2>1 DEF Distinct
<1>16. VariablesFine(program, h, allocation', child + 1)
  BY <1>11, <1>13, <1>15 DEF VariablesFine
<1>17. stack = <<>>
  BY <1>1 DEF NamesInv, NodesWithin
<1> QED
  BY <1>4, <1>9, <1>16, <1>17 DEF NamesInv, InputFine, NodesWithin, h

LEMMA LiteralNames ==
  ASSUME TypeInv, NamesInv, VisitLiteral
  PROVE  NamesInv'
<1> DEFINE lit == Top.node
           a == allocation
<1>1. /\ stack # <<>> /\ ModuleFine /\ StackFine /\ lit \in Literals
  BY WorkingFacts, NodeShapes DEF VisitLiteral, Enters, Working
<1>2. /\ globals' = Interned(lit) /\ strings' = InternedStrings(lit)
      /\ stack' = Tail(stack) /\ UNCHANGED <<program, table, child, allocation>>
  BY DEF VisitLiteral, Return, input
<1>3. StringsFine(globals', strings')
  BY <1>1, <1>2, InternKeepsStrings DEF NamesInv
<1>4. /\ Len(globals) <= Len(globals') /\ Len(globals) \in Nat /\ Len(globals') \in Nat
      /\ \A n \in 1..Len(globals) : globals'[n] = globals[n]
  BY <1>1, <1>2, InternFine
<1>5. \A m \in DOMAIN a : VariableFine(program, globals', a, child, m)
  BY <1>4, VariablesLater DEF NamesInv, VariablesFine
<1>6. VariablesFine(program, globals', a, child)
  BY <1>5 DEF NamesInv, VariablesFine
<1>7. NodesWithin'
  BY <1>1, <1>2, ExpressionNodes
<1> QED
  BY <1>2, <1>3, <1>6, <1>7 DEF NamesInv, InputFine

(* A step that leaves the module's globals and the variables alone.        *)
LEMMA OtherNames ==
  ASSUME NamesInv, UNCHANGED <<program, table, child, globals, strings, allocation>>,
         NodesWithin'
  PROVE  NamesInv'
BY DEF NamesInv, InputFine

LEMMA ExpressionNames ==
  ASSUME TypeInv, NamesInv,
         VisitName \/ VisitGrouping \/ VisitBinary \/ VisitRHS \/ EndBinary \/ LoadExpression
  PROVE  NamesInv'
<1>1. /\ stack # <<>> /\ StackFine /\ FrameFine(Top, Len(globals), code)
      /\ UNCHANGED <<program, table, child, globals, strings, allocation>>
  BY WorkingFacts DEF VisitName, VisitGrouping, VisitBinary, VisitRHS, EndBinary,
                      LoadExpression, Enters, Resumes, Working, input
<1>2. CASE VisitName \/ EndBinary \/ LoadExpression
  <2>1. stack' = Tail(stack)
    BY <1>2 DEF VisitName, EndBinary, LoadExpression, Return
  <2> QED
    BY <1>1, <2>1, ExpressionNodes, OtherNames
<1>3. CASE VisitGrouping
  <2>1. /\ stack' = <<Visit(Top.node.expr)>> \o Tail(stack)
        /\ Top.node.kind = "GroupingExpression"
    BY <1>3 DEF VisitGrouping, Enters
  <2>2. Visit(Top.node.expr).node \in Operands(Top.node)
    BY <2>1 DEF Visit, Frame, Operands
  <2> QED
    BY <1>1, <2>1, <2>2, ExpressionNodes, OtherNames
<1>4. CASE VisitBinary
  <2> DEFINE c == Visit(Top.node.lhs)
             f == Frame("binary.lhs", Top.node, EmptyAny)
  <2>1. stack' = <<c, f>> \o Tail(stack)
    BY <1>4 DEF VisitBinary, Call
  <2>2. Top.node.kind = "BinaryExpression"
    BY <1>1, <1>4 DEF VisitBinary, Enters, Resumes, FrameFine, Binaries
  <2>3. c.node = Top.node.lhs /\ f.node = Top.node
    BY DEF Visit, Frame
  <2> HIDE DEF c, f
  <2>4. {c.node, f.node} \subseteq Operands(Top.node) \cup {Top.node}
    BY <2>2, <2>3 DEF Operands
  <2> QED
    BY <1>1, <2>1, <2>4, ExpressionNodes, OtherNames
<1>5. CASE VisitRHS
  <2> DEFINE c == Visit(Top.node.rhs)
             f == Frame("binary.rhs", Top.node, Loaded(result))
  <2>1. stack' = <<c, f>> \o Tail(stack)
    BY <1>5 DEF VisitRHS, Call
  <2>2. Top.node.kind = "BinaryExpression"
    BY <1>1, <1>5 DEF VisitRHS, Enters, Resumes, FrameFine, Binaries
  <2>3. c.node = Top.node.rhs /\ f.node = Top.node
    BY DEF Visit, Frame
  <2> HIDE DEF c, f
  <2>4. {c.node, f.node} \subseteq Operands(Top.node) \cup {Top.node}
    BY <2>2, <2>3 DEF Operands
  <2> QED
    BY <1>1, <2>1, <2>4, ExpressionNodes, OtherNames
<1> QED
  BY <1>2, <1>3, <1>4, <1>5

LEMMA AssignmentNames ==
  ASSUME TypeInv, NamesInv, VisitExpression \/ StoreTarget \/ EndAssignment
  PROVE  NamesInv'
<1>1. UNCHANGED <<program, table, globals, strings, allocation>>
  BY DEF VisitExpression, StoreTarget, EndAssignment, input
<1>2. CASE VisitExpression
  <2> DEFINE v == Visit(Child.expr)
             f == Frame("assignment", Child.expr, EmptyAny)
  <2>1. /\ child \in 1..Len(program) /\ Child.kind = "AssignmentStatement"
        /\ child' = child /\ Child.expr \in Expressions
    BY <1>2, ChildFacts DEF VisitExpression, Assignments
  <2>2. Child.expr \in Within[Child.expr]
    BY <2>1, WithinIsClosed
  <2>3. stack' = <<v, f>> /\ v.node = Child.expr /\ f.node = Child.expr
    BY <1>2 DEF VisitExpression, Visit, Frame
  <2> HIDE DEF v, f
  <2>4. \A k \in 1..Len(stack') : stack'[k].node = Child.expr
    BY <2>3
  <2>5. Child' = Child
    BY <1>1, <2>1 DEF Child
  <2>6. NodesWithin'
    BY <1>1, <2>1, <2>2, <2>4, <2>5 DEF NodesWithin
  <2> QED
    BY <1>1, <2>1, <2>6, OtherNames
<1>3. CASE StoreTarget
  <2>1. stack' = <<>> /\ child' = child
    BY <1>3 DEF StoreTarget, AtTarget
  <2> QED
    BY <1>1, <2>1, OtherNames DEF NodesWithin
<1>4. CASE EndAssignment
  <2>1. /\ stack' = <<>> /\ child' = child + 1
        /\ child \in 1..Len(program) /\ Child.kind = "AssignmentStatement"
    BY <1>4 DEF EndAssignment, Visits
  <2>2. child \in Nat /\ Len(program) \in Nat
    BY <2>1, ASTAssumption DEF TypeInv
  <2>3. ModuleFine
    BY DEF TypeInv
  <2>4. ASSUME NEW m \in DOMAIN allocation
        PROVE  VariableFine(program, globals, allocation, child + 1, m)
    <3>1. m \in Declared(program)
      BY <2>3, <2>4, Variables DEF NamesInv, ModuleFine
    <3>2. /\ DefinitionOf(program, m) \in 1..Len(program)
          /\ program[DefinitionOf(program, m)].kind = "VariableDefinition"
      BY <3>1, DeclaredFacts DEF DefinitionsOf, OfKind
    <3>3. DefinitionOf(program, m) # child /\ DefinitionOf(program, m) \in Nat
      BY <2>1, <2>2, <3>2 DEF Child
    <3>4. DefinitionOf(program, m) >= child + 1 <=> DefinitionOf(program, m) >= child
      BY <2>2, <3>3
    <3>5. VariableFine(program, globals, allocation, child, m)
      BY <2>4 DEF NamesInv, VariablesFine
    <3> QED
      BY <3>4, <3>5 DEF VariableFine
  <2>5. VariablesFine(program, globals, allocation, child + 1)
    BY <2>4 DEF NamesInv, VariablesFine
  <2> QED
    BY <1>1, <2>1, <2>5 DEF NamesInv, InputFine, NodesWithin
<1> QED
  BY <1>2, <1>3, <1>4

LEMMA InitNames ==
  ASSUME Init
  PROVE  NamesInv
<1>1. /\ table = TableOf(program) /\ WellTyped(program) /\ ~Untypable(program)
      /\ child = 1 /\ stack = <<>> /\ strings = <<>> /\ globals = <<>>
      /\ allocation = NoAllocations(table) /\ program \in Programs
  BY DEF Init
<1>2. InputFine
  BY <1>1 DEF InputFine
<1>3. StringsFine(globals, strings)
  BY <1>1 DEF StringsFine
<1>4. ASSUME NEW m \in DOMAIN allocation
      PROVE  VariableFine(program, globals, allocation, child, m) /\ allocation[m] = Null
  <2>1. allocation[m] = Null
    BY <1>1 DEF NoAllocations
  <2>2. m \in Declared(program)
    BY <1>1, <1>2, Variables DEF NoAllocations
  <2>3. DefinitionOf(program, m) \in 1..Len(program)
    BY <2>2, DeclaredFacts DEF DefinitionsOf, OfKind
  <2>4. DefinitionOf(program, m) >= child
    <3>1. Len(program) \in Nat
      BY <1>1, ASTAssumption
    <3> QED
      BY <1>1, <2>3, <3>1
  <2> QED
    BY <2>1, <2>4 DEF VariableFine
<1>5. VariablesFine(program, globals, allocation, child)
  BY <1>4 DEF VariablesFine, Distinct
<1>6. NodesWithin
  BY <1>1 DEF NodesWithin
<1> QED
  BY <1>2, <1>3, <1>5, <1>6 DEF NamesInv

LEMMA NextNames ==
  ASSUME TypeInv, NamesInv, [Next]_vars
  PROVE  NamesInv'
<1>1. CASE VariableDefinition
  BY <1>1, DefinitionNames
<1>2. CASE VisitLiteral
  BY <1>2, LiteralNames
<1>3. CASE VisitName \/ VisitGrouping \/ VisitBinary \/ VisitRHS \/ EndBinary \/ LoadExpression
  BY <1>3, ExpressionNames
<1>4. CASE VisitExpression \/ StoreTarget \/ EndAssignment
  BY <1>4, AssignmentNames
<1>5. CASE BadAnyCast \/ EndOfProgram \/ Crash \/ UNCHANGED vars
  <2>1. UNCHANGED <<program, table, child, stack, globals, strings, allocation>>
    BY <1>5 DEF BadAnyCast, EndOfProgram, Crash, vars, input
  <2>2. NodesWithin'
    BY <2>1 DEF NamesInv, NodesWithin, Child
  <2> QED
    BY <2>1, <2>2, OtherNames
<1> QED
  BY <1>1, <1>2, <1>3, <1>4, <1>5 DEF Next, Terminating

LEMMA IRGenNamesInv == Spec => [](TypeInv /\ NamesInv)
<1>1. Init => NamesInv
  BY InitNames
<1>2. TypeInv /\ NamesInv /\ [Next]_vars => NamesInv'
  BY NextNames
<1> QED
  BY <1>1, <1>2, IRGenTypeInv, PTL DEF Spec

LEMMA NamesImply ==
  ASSUME TypeInv, NamesInv
  PROVE  NamesHaveAllocations /\ OneGlobalEach
<1>1. /\ DOMAIN allocation = Declared(program) /\ \A m \in Declared(program) : IsVariable(m)
      /\ ModuleFine
  BY Variables DEF NamesInv, TypeInv, ModuleFine
<1>2. ASSUME NEW m \in Declared(program), Visits("AssignmentStatement")
      PROVE  IsVariable(m) /\ allocation[m].kind = "global"
  <2>1. DefinitionOf(program, m) < child
    BY <1>2, DefinedBefore
  <2>2. VariableFine(program, globals, allocation, child, m)
    BY <1>1 DEF NamesInv, VariablesFine
  <2>3. ~(DefinitionOf(program, m) >= child)
    <3>1. DefinitionOf(program, m) \in 1..Len(program) /\ child \in 1..Len(program)
      BY <1>2, DeclaredFacts DEF DefinitionsOf, OfKind, Visits
    <3>2. Len(program) \in Nat
      BY ASTAssumption DEF TypeInv
    <3> QED
      BY <2>1, <3>1, <3>2
  <2> QED
    BY <1>1, <2>2, <2>3 DEF VariableFine
<1>3. ASSUME Visits("AssignmentStatement")
      PROVE  AssignmentFine(program, Child)
  <2>1. child \in AssignmentsOf(program)
    BY <1>3 DEF AssignmentsOf, OfKind, Visits, Child
  <2> QED
    BY <2>1 DEF NamesInv, InputFine, WellTyped, Child
<1>4. Visits("VariableDefinition") => IsVariable(Child.name)
  <2>1. SUFFICES ASSUME Visits("VariableDefinition") PROVE IsVariable(Child.name)
    OBVIOUS
  <2>2. child \in DefinitionsOf(program)
    BY <2>1 DEF DefinitionsOf, OfKind, Visits, Child
  <2>3. Child.name \in Declared(program)
    BY <2>2, DefinitionsAreDeclared DEF NamesInv, InputFine, Child
  <2> QED
    BY <1>1, <2>3
<1>5. Enters("Identifier") => IsVariable(Top.node.name) /\ allocation[Top.node.name].kind = "global"
  <2>1. SUFFICES ASSUME Enters("Identifier")
                 PROVE  IsVariable(Top.node.name) /\ allocation[Top.node.name].kind = "global"
    OBVIOUS
  <2>2. phase = "generate" /\ stack # <<>> /\ Top.node.kind = "Identifier"
    BY <2>1 DEF Enters, Working
  <2>3. Visits("AssignmentStatement") /\ \A k \in 1..Len(stack) : stack[k].node \in Within[Child.expr]
    BY <2>2 DEF NamesInv, NodesWithin, Visits
  <2>4. Top.node \in Within[Child.expr]
    BY <2>2, <2>3, TopFacts DEF TypeInv
  <2>5. Top.node.name \in NamesIn(Child.expr)
    BY <2>2, <2>4 DEF NamesIn
  <2>6. Top.node.name \in Declared(program)
    BY <1>3, <2>3, <2>5 DEF AssignmentFine
  <2> QED
    BY <1>2, <2>3, <2>6
<1>6. AtTarget => LET name == Child.targets[target]
                  IN  IsVariable(name) /\ allocation[name].kind = "global"
  <2>1. SUFFICES ASSUME AtTarget
                 PROVE  /\ IsVariable(Child.targets[target])
                        /\ allocation[Child.targets[target]].kind = "global"
    OBVIOUS
  <2>2. Visits("AssignmentStatement") /\ target \in 1..Len(Child.targets)
    BY <2>1 DEF AtTarget
  <2>3. Child.targets[target] \in Declared(program)
    BY <1>3, <2>2 DEF AssignmentFine
  <2> QED
    BY <1>2, <2>2, <2>3
<1>7. OneGlobalEach
  <2>1. StringsFine(globals, strings) /\ VariablesFine(program, globals, allocation, child)
    BY DEF NamesInv
  <2> QED
    BY <2>1 DEF OneGlobalEach, StringsFine, VariablesFine, VariableFine, Distinct
<1> QED
  BY <1>4, <1>5, <1>6, <1>7 DEF NamesHaveAllocations

(* The assertions of the generator hold of every program that the semantic *)
(* analysis accepts, and no null allocation is cast, stored to or loaded.  *)
THEOREM IRGenNamesHaveAllocations == Spec => []NamesHaveAllocations
<1>1. TypeInv /\ NamesInv => NamesHaveAllocations
  BY NamesImply
<1> QED
  BY <1>1, IRGenNamesInv, PTL

(* A text is interned once, and no two variables share a global, or one    *)
(* with a string.                                                          *)
THEOREM IRGenOneGlobalEach == Spec => []OneGlobalEach
<1>1. TypeInv /\ NamesInv => OneGlobalEach
  BY NamesImply
<1> QED
  BY <1>1, IRGenNamesInv, PTL

----------------------------------------------------------------------------
(* The machine types.                                                      *)

LEMMA MachineTypeUnfolds ==
  ASSUME NEW p, NEW e \in Expressions
  PROVE  /\ e.kind = "Literal" => MachineType(p)[e] =
              IF e.type = "str" THEN "chars" ELSE MachineTypeOfLiteral(e)
         /\ e.kind = "Identifier" =>
              MachineType(p)[e] = MachineTypeOfLiteral(FirstValue(p, e.name))
         /\ e.kind = "GroupingExpression" => MachineType(p)[e] =
              IF e.expr = Null THEN "i1" ELSE MachineType(p)[e.expr]
         /\ e.kind = "BinaryExpression" => MachineType(p)[e] =
              IF e.op \in Comparing THEN "i1" ELSE MachineType(p)[e.lhs]
         /\ e.kind = "UnaryExpression" => MachineType(p)[e] = "i1"
         /\ MachineType(p)[e] \in {"i32", "i1", "ptr", "chars"}
<1> DEFINE V == {"i32", "i1", "ptr", "chars"}
           Body(f, d) ==
             CASE d.kind = "Literal" ->
                    IF d.type = "str" THEN "chars" ELSE MachineTypeOfLiteral(d)
               [] d.kind = "Identifier" -> MachineTypeOfLiteral(FirstValue(p, d.name))
               [] d.kind = "GroupingExpression" /\ d.expr # Null -> f[d.expr]
               [] d.kind = "BinaryExpression" /\ d.op \notin Comparing -> f[d.lhs]
               [] OTHER -> "i1"
           step == [f \in [Expressions -> V] |-> [d \in Expressions |-> Body(f, d)]]
<1>1. \A f \in [Expressions -> V], d \in Expressions : Body(f, d) \in V
  <2>1. \A lit : MachineTypeOfLiteral(lit) \in V
    BY DEF MachineTypeOfLiteral
  <2> QED
    BY <2>1, ExpressionShapes
<1>2. \A f, g \in [Expressions -> V] : \A d \in Expressions :
        (\A o \in Inner(d) : f[o] = g[o]) => Body(f, d) = Body(g, d)
  BY ExpressionShapes, InnerFacts
<1> HIDE DEF Body
<1>3. step \in [[Expressions -> V] -> [Expressions -> V]]
  BY <1>1
<1>4. Local(V, step)
  BY <1>2 DEF Local
<1>5. \E f \in [Expressions -> V] : step[f] = f
  <2>1. V # {}
    OBVIOUS
  <2> HIDE DEF step, V
  <2> QED
    BY <1>3, <1>4, <2>1, TreeRecursion
<1>6. PICK f \in [Expressions -> V] : f = [d \in Expressions |-> Body(f, d)]
  BY <1>5
<1>7. MachineType(p) = [d \in Expressions |-> Body(MachineType(p), d)]
  BY <1>6 DEF MachineType, Body
<1>8. \A d \in Expressions : MachineType(p)[d] \in V
  <2> DEFINE S == {d \in Expressions : MachineType(p)[d] \in V}
  <2>1. ASSUME NEW d \in Expressions, Inner(d) \subseteq S
        PROVE  d \in S
    <3>1. \A lit : MachineTypeOfLiteral(lit) \in V
      BY DEF MachineTypeOfLiteral
    <3>2. MachineType(p)[d] = Body(MachineType(p), d)
      BY <1>7
    <3>3. Body(MachineType(p), d) \in V
      BY <2>1, <3>1, ExpressionShapes, InnerFacts DEF Body
    <3> QED
      BY <3>2, <3>3
  <2> HIDE DEF S
  <2>2. Expressions \subseteq S
    BY <2>1, TreeInduction
  <2> QED
    BY <2>2 DEF S
<1>9. MachineType(p)[e] = Body(MachineType(p), e)
  BY <1>7
<1>10. CASE e.kind = "Literal"
  BY <1>8, <1>9, <1>10 DEF Body
<1>11. CASE e.kind = "Identifier"
  BY <1>8, <1>9, <1>11 DEF Body
<1>12. CASE e.kind = "GroupingExpression"
  BY <1>8, <1>9, <1>12 DEF Body
<1>13. CASE e.kind = "BinaryExpression"
  BY <1>8, <1>9, <1>13 DEF Body
<1>14. CASE e.kind = "UnaryExpression"
  BY <1>8, <1>9, <1>14 DEF Body
<1> QED
  BY <1>10, <1>11, <1>12, <1>13, <1>14, ExpressionShapes

----------------------------------------------------------------------------
(* Failures and types.  What the activations have yet to look at, what an  *)
(* activation has called another for, and the type of a value as it is and *)
(* once it is loaded.                                                      *)

Todo(f) ==
  CASE f.at = "visit" -> Within[f.node]
    [] f.at = "binary.lhs" -> {f.node} \cup Within[f.node.rhs]
    [] f.at = "binary.rhs" -> {f.node}
    [] OTHER -> {}

ToVisit(S) == UNION {Todo(S[k]) : k \in 1..Len(S)}

Returning(S) == S = <<>> \/ S[1].at # "visit"

Called(f) ==
  CASE f.at = "binary.lhs" -> f.node.lhs
    [] f.at = "binary.rhs" -> f.node.rhs
    [] OTHER -> f.node

TypeIn(v, c) ==
  CASE v.kind = "constant" -> LLVMType(v.literal)
    [] v.kind = "instruction" -> c[v.at].type
    [] OTHER -> "ptr"

LoadedIn(v, g, c) == IF v.kind = "global" THEN g[v.at].type ELSE TypeIn(v, c)

(* Every activation is for an expression of the value, in f, that its      *)
(* caller asked for.                                                       *)
Chain(f, S) ==
  \A k \in 1..Len(S) : k # Len(S) => f[S[k].node] = f[Called(S[k + 1])]

(* The types are those that were asked for, also that of the left operand  *)
(* that an activation has.                                                 *)
Serves(p, S) == Chain(MachineType(p), S)

OperandsTyped(p, S, c) ==
  \A k \in 1..Len(S) : S[k].at = "binary.rhs" =>
    TypeIn(S[k].lhs, c) = MachineType(p)[S[k].node.lhs]

ResultTyped(p, S, r, g, c) ==
  S # <<>> /\ S[1].at # "visit" /\ r # EmptyAny =>
    r # Null /\ LoadedIn(r, g, c) = MachineType(p)[Called(S[1])]

(* The visits come to what has no translation, or have passed all that they*)
(* are done with.                                                          *)
Covered(p, S, r, e) ==
  IF Returning(S) /\ r = EmptyAny THEN \E n \in Within[e] : Unsupported(p, n)
  ELSE \A n \in Within[e] : n \in ToVisit(S) \/ ~Unsupported(p, n)

ChildPasses(p, c) ==
  /\ p[c].kind = "VariableDefinition" => p[c].value.type # "<None>"
  /\ p[c].kind = "AssignmentStatement" => \A n \in Within[p[c].expr] : ~Unsupported(p, n)

(* All activations but the last have called another, and the assignment's  *)
(* has called the one for its expression.                                  *)
Above(S, e) ==
  \A k \in 1..Len(S) :
    /\ S[k].at = "assignment" => S[k].node = e
    /\ S[k].at = "visit" => k = 1

WorkInv ==
  /\ target > 0 => child \in 1..Len(program) /\ Child.kind = "AssignmentStatement"
  /\ stack # <<>> => target = 1 /\ Above(stack, Child.expr)

GlobalsInv ==
  \A n \in 1..Len(globals) :
    globals[n].type # "chars" => globals[n].type = LLVMType(globals[n].init)

EndInv ==
  /\ phase = "crashed" \/ undefined => Untranslatable(program)
  /\ phase = "generated" => child > Len(program)

PassedInv ==
  ~undefined => \A c \in 1..Len(program) : c < child => ChildPasses(program, c)

CoveredInv == ~undefined /\ target > 0 => Covered(program, stack, result, Child.expr)

TypedInv ==
  ~undefined /\ target > 0 =>
    /\ Serves(program, stack)
    /\ OperandsTyped(program, stack, code)
    /\ ResultTyped(program, stack, result, globals, code)
    /\ stack = <<>> => TypeIn(result, code) = MachineType(program)[Child.expr]

GenInv == WorkInv /\ GlobalsInv /\ EndInv /\ PassedInv /\ CoveredInv /\ TypedInv

----------------------------------------------------------------------------
(* The stack of an activation that returns, is replaced or calls another.  *)

LEMMA PoppedFrames ==
  ASSUME NEW F, NEW S \in Seq(F), S # <<>>, NEW T, T = Tail(S)
  PROVE  /\ T \in Seq(F) /\ Len(T) = Len(S) - 1 /\ Len(S) \in Nat /\ Len(S) > 0
         /\ \A k \in 1..Len(T) : k + 1 \in 1..Len(S) /\ T[k] = S[k + 1]
         /\ \A k \in 1..Len(S) : k = 1 \/ (k - 1 \in 1..Len(T) /\ T[k - 1] = S[k])
         /\ T = <<>> <=> Len(S) = 1
<1>1. /\ T \in Seq(F) /\ Len(T) = Len(S) - 1 /\ Len(S) \in Nat /\ Len(S) > 0
      /\ \A k \in 1..Len(T) : T[k] = S[k + 1]
  BY PopTop
<1>2. T = <<>> <=> Len(T) = 0
  BY <1>1, EmptySeq
<1>3. \A k \in 1..Len(T) : k + 1 \in 1..Len(S)
  BY <1>1
<1>4. ASSUME NEW k \in 1..Len(S), k # 1
      PROVE  k - 1 \in 1..Len(T) /\ T[k - 1] = S[k]
  <2>1. k - 1 \in 1..Len(T) /\ (k - 1) + 1 = k
    BY <1>1, <1>4
  <2> QED
    BY <1>1, <2>1
<1> QED
  BY <1>1, <1>2, <1>3, <1>4

LEMMA ReplacedFrames ==
  ASSUME NEW F, NEW S \in Seq(F), S # <<>>, NEW f \in F, NEW T, T = <<f>> \o Tail(S)
  PROVE  /\ T \in Seq(F) /\ Len(T) = Len(S) /\ T[1] = f /\ T # <<>>
         /\ Len(S) \in Nat /\ Len(S) > 0
         /\ 1 \in 1..Len(T)
         /\ \A k \in 1..Len(S) : k = 1 \/ T[k] = S[k]
         /\ \A k \in 1..Len(S) : k # Len(S) => k + 1 \in 1..Len(S) /\ T[k + 1] = S[k + 1]
<1>1. /\ T \in Seq(F) /\ Len(T) = Len(S) /\ T[1] = f
      /\ \A k \in 2..Len(S) : T[k] = S[k]
      /\ Len(S) \in Nat /\ Len(S) > 0
  BY ReplaceTop
<1>2. T # <<>> /\ 1 \in 1..Len(T)
  BY <1>1
<1>3. \A k \in 1..Len(S) : k = 1 \/ T[k] = S[k]
  BY <1>1
<1>4. \A k \in 1..Len(S) : k # Len(S) => k + 1 \in 2..Len(S) /\ k + 1 \in 1..Len(S)
  <2>1. \A n \in Nat : \A i \in 1..n : i # n => i + 1 \in 2..n /\ i + 1 \in 1..n
    OBVIOUS
  <2> QED
    BY <1>1, <2>1
<1> QED
  BY <1>1, <1>2, <1>3, <1>4

LEMMA PushedFrames ==
  ASSUME NEW F, NEW S \in Seq(F), S # <<>>, NEW c \in F, NEW f \in F,
         NEW T, T = <<c, f>> \o Tail(S)
  PROVE  /\ T \in Seq(F) /\ Len(T) = Len(S) + 1 /\ T[1] = c /\ T[2] = f /\ T # <<>>
         /\ Len(S) \in Nat /\ Len(S) > 0
         /\ 1 \in 1..Len(T) /\ 2 \in 1..Len(T) /\ 1 \in 1..Len(S)
         /\ \A k \in 1..Len(S) : k = 1 \/ (k + 1 \in 1..Len(T) /\ T[k + 1] = S[k])
         /\ \A k \in 1..Len(T) :
              k = 1 \/ k = 2 \/ (k - 1 \in 1..Len(S) /\ k - 1 # 1 /\ T[k] = S[k - 1])
         /\ \A k \in 1..Len(S) : k # Len(S) =>
              k + 1 \in 1..Len(S) /\ k + 1 # 1 /\ T[(k + 1) + 1] = S[k + 1]
<1>1. /\ T \in Seq(F) /\ Len(T) = Len(S) + 1 /\ T[1] = c /\ T[2] = f
      /\ \A k \in 3..Len(S) + 1 : T[k] = S[k - 1]
      /\ Len(S) \in Nat /\ Len(S) > 0
  BY PushCallee
<1>2. \A k \in 2..Len(S) : T[k + 1] = S[k] /\ k + 1 \in 1..Len(T)
  <2> SUFFICES ASSUME NEW k \in 2..Len(S) PROVE T[k + 1] = S[k] /\ k + 1 \in 1..Len(T)
    OBVIOUS
  <2>1. k + 1 \in 3..Len(S) + 1 /\ (k + 1) - 1 = k /\ k + 1 \in 1..Len(T)
    BY <1>1
  <2> QED
    BY <1>1, <2>1
<1>3. T # <<>> /\ 1 \in 1..Len(T) /\ 2 \in 1..Len(T) /\ 1 \in 1..Len(S)
  BY <1>1
<1>4. \A k \in 1..Len(S) : k = 1 \/ k \in 2..Len(S)
  BY <1>1
<1>5. \A k \in 1..Len(T) :
        k = 1 \/ k = 2 \/ (k - 1 \in 1..Len(S) /\ k - 1 # 1 /\ k \in 3..Len(S) + 1)
  BY <1>1
<1>6. \A k \in 1..Len(S) : k # Len(S) => k + 1 \in 1..Len(S) /\ k + 1 # 1 /\ k + 1 \in 2..Len(S)
  BY <1>1
<1> QED
  BY <1>1, <1>2, <1>3, <1>4, <1>5, <1>6

LEMMA PoppedVisits ==
  ASSUME NEW F, NEW S \in Seq(F), S # <<>>, NEW T, T = Tail(S)
  PROVE  ToVisit(S) \subseteq Todo(S[1]) \cup ToVisit(T)
<1> SUFFICES ASSUME NEW n \in ToVisit(S), n \notin Todo(S[1]) PROVE n \in ToVisit(T)
  OBVIOUS
<1>1. PICK k \in 1..Len(S) : n \in Todo(S[k])
  BY DEF ToVisit
<1>2. k - 1 \in 1..Len(T) /\ T[k - 1] = S[k]
  BY PoppedFrames, <1>1
<1> QED
  BY <1>1, <1>2 DEF ToVisit

LEMMA ReplacedVisits ==
  ASSUME NEW F, NEW S \in Seq(F), S # <<>>, NEW f \in F, NEW T, T = <<f>> \o Tail(S)
  PROVE  ToVisit(S) \subseteq Todo(S[1]) \cup ToVisit(T) /\ Todo(f) \subseteq ToVisit(T)
<1>1. Todo(f) \subseteq ToVisit(T)
  BY ReplacedFrames DEF ToVisit
<1> SUFFICES ASSUME NEW n \in ToVisit(S), n \notin Todo(S[1]) PROVE n \in ToVisit(T)
  BY <1>1
<1>2. PICK k \in 1..Len(S) : n \in Todo(S[k])
  BY DEF ToVisit
<1>3. k \in 1..Len(T) /\ T[k] = S[k]
  BY ReplacedFrames, <1>2
<1> QED
  BY <1>2, <1>3 DEF ToVisit

LEMMA PushedVisits ==
  ASSUME NEW F, NEW S \in Seq(F), S # <<>>, NEW c \in F, NEW f \in F,
         NEW T, T = <<c, f>> \o Tail(S)
  PROVE  /\ ToVisit(S) \subseteq Todo(S[1]) \cup ToVisit(T)
         /\ Todo(c) \subseteq ToVisit(T) /\ Todo(f) \subseteq ToVisit(T)
<1>1. Todo(c) \subseteq ToVisit(T) /\ Todo(f) \subseteq ToVisit(T)
  <2>1. T[1] = c /\ T[2] = f /\ 1 \in 1..Len(T) /\ 2 \in 1..Len(T)
    BY PushedFrames
  <2> QED
    BY <2>1 DEF ToVisit
<1> SUFFICES ASSUME NEW n \in ToVisit(S), n \notin Todo(S[1]) PROVE n \in ToVisit(T)
  BY <1>1
<1>2. PICK k \in 1..Len(S) : n \in Todo(S[k])
  BY DEF ToVisit
<1>3. k + 1 \in 1..Len(T) /\ T[k + 1] = S[k]
  BY PushedFrames, <1>2
<1> QED
  BY <1>2, <1>3 DEF ToVisit

LEMMA PoppedChain ==
  ASSUME NEW F, NEW S \in Seq(F), S # <<>>, NEW T, T = Tail(S), NEW f, Chain(f, S)
  PROVE  /\ Chain(f, T)
         /\ T # <<>> => f[S[1].node] = f[Called(T[1])]
<1>1. ASSUME NEW k \in 1..Len(T), k # Len(T)
      PROVE  f[T[k].node] = f[Called(T[k + 1])]
  <2>1. /\ k + 1 \in 1..Len(S) /\ k + 1 # Len(S) /\ T[k] = S[k + 1]
        /\ k + 1 \in 1..Len(T)
    BY <1>1, PoppedFrames
  <2>2. T[k + 1] = S[(k + 1) + 1]
    BY <2>1, PoppedFrames
  <2> QED
    BY <2>1, <2>2 DEF Chain
<1>2. ASSUME T # <<>>
      PROVE  f[S[1].node] = f[Called(T[1])]
  <2>1. 1 \in 1..Len(S) /\ 1 # Len(S) /\ 1 \in 1..Len(T)
    BY <1>2, PoppedFrames
  <2>2. T[1] = S[1 + 1]
    BY <2>1, PoppedFrames
  <2> QED
    BY <2>1, <2>2 DEF Chain
<1> QED
  BY <1>1, <1>2 DEF Chain

LEMMA ReplacedChain ==
  ASSUME NEW F, NEW S \in Seq(F), S # <<>>, NEW x \in F, NEW T, T = <<x>> \o Tail(S),
         NEW f, Chain(f, S), f[x.node] = f[S[1].node]
  PROVE  Chain(f, T)
<1> SUFFICES ASSUME NEW k \in 1..Len(S), k # Len(S)
             PROVE  f[T[k].node] = f[Called(T[k + 1])]
  <2>1. Len(T) = Len(S)
    BY ReplacedFrames
  <2> QED
    BY <2>1 DEF Chain
<1>1. f[S[k].node] = f[Called(S[k + 1])]
  BY DEF Chain
<1>2. T[k + 1] = S[k + 1] /\ T[1] = x /\ (k = 1 \/ T[k] = S[k])
  BY ReplacedFrames
<1> QED
  BY <1>1, <1>2

LEMMA PushedChain ==
  ASSUME NEW F, NEW S \in Seq(F), S # <<>>, NEW c \in F, NEW x \in F,
         NEW T, T = <<c, x>> \o Tail(S),
         NEW f, Chain(f, S), f[x.node] = f[S[1].node], f[c.node] = f[Called(x)]
  PROVE  Chain(f, T)
<1> SUFFICES ASSUME NEW k \in 1..Len(T), k # Len(T)
             PROVE  f[T[k].node] = f[Called(T[k + 1])]
  BY DEF Chain
<1>1. /\ T[1] = c /\ T[2] = x /\ Len(T) = Len(S) + 1 /\ Len(S) \in Nat /\ 1 \in 1..Len(S)
      /\ \A i \in 1..Len(S) : i # Len(S) => T[(i + 1) + 1] = S[i + 1]
      /\ k = 1 \/ k = 2 \/ (k - 1 \in 1..Len(S) /\ T[k] = S[k - 1])
  BY PushedFrames
<1>2. CASE k = 1
  BY <1>1, <1>2
<1>3. CASE k = 2
  <2>1. 1 # Len(S) /\ T[(1 + 1) + 1] = S[1 + 1] /\ T[k] = x
    BY <1>1, <1>3
  <2>2. f[S[1].node] = f[Called(S[1 + 1])]
    BY <1>1, <2>1 DEF Chain
  <2>3. T[k + 1] = S[1 + 1]
    BY <1>3, <2>1
  <2> QED
    BY <2>1, <2>2, <2>3
<1>4. CASE k # 1 /\ k # 2
  <2>1. PICK i \in 1..Len(S) : i = k - 1 /\ i + 1 = k /\ i # Len(S) /\ T[k] = S[i]
    BY <1>1, <1>4
  <2>2. T[k + 1] = S[i + 1]
    BY <1>1, <2>1
  <2>3. f[S[i].node] = f[Called(S[i + 1])]
    BY <2>1 DEF Chain
  <2> QED
    BY <2>1, <2>2, <2>3
<1> QED
  BY <1>2, <1>3, <1>4

LEMMA PoppedServes ==
  ASSUME NEW F, NEW S \in Seq(F), S # <<>>, NEW T, T = Tail(S), NEW p, Serves(p, S)
  PROVE  /\ Serves(p, T)
         /\ T # <<>> => MachineType(p)[S[1].node] = MachineType(p)[Called(T[1])]
BY PoppedChain DEF Serves

LEMMA ReplacedServes ==
  ASSUME NEW F, NEW S \in Seq(F), S # <<>>, NEW f \in F, NEW T, T = <<f>> \o Tail(S),
         NEW p, Serves(p, S), MachineType(p)[f.node] = MachineType(p)[S[1].node]
  PROVE  Serves(p, T)
BY ReplacedChain DEF Serves

LEMMA PushedServes ==
  ASSUME NEW F, NEW S \in Seq(F), S # <<>>, NEW c \in F, NEW f \in F,
         NEW T, T = <<c, f>> \o Tail(S),
         NEW p, Serves(p, S), MachineType(p)[f.node] = MachineType(p)[S[1].node],
         MachineType(p)[c.node] = MachineType(p)[Called(f)]
  PROVE  Serves(p, T)
BY PushedChain DEF Serves

LEMMA PoppedOperands ==
  ASSUME NEW F, NEW S \in Seq(F), S # <<>>, NEW T, T = Tail(S),
         NEW p, NEW c, OperandsTyped(p, S, c)
  PROVE  OperandsTyped(p, T, c)
BY PoppedFrames DEF OperandsTyped

LEMMA ReplacedOperands ==
  ASSUME NEW F, NEW S \in Seq(F), S # <<>>, NEW f \in F, NEW T, T = <<f>> \o Tail(S),
         NEW p, NEW c, OperandsTyped(p, S, c), f.at # "binary.rhs"
  PROVE  OperandsTyped(p, T, c)
BY ReplacedFrames DEF OperandsTyped

LEMMA PushedOperands ==
  ASSUME NEW F, NEW S \in Seq(F), S # <<>>, NEW v \in F, NEW f \in F,
         NEW T, T = <<v, f>> \o Tail(S),
         NEW p, NEW c, OperandsTyped(p, S, c), v.at # "binary.rhs",
         f.at = "binary.rhs" => TypeIn(f.lhs, c) = MachineType(p)[f.node.lhs]
  PROVE  OperandsTyped(p, T, c)
<1>1. /\ T[1] = v /\ T[2] = f
      /\ \A k \in 1..Len(T) : k = 1 \/ k = 2 \/ (k - 1 \in 1..Len(S) /\ T[k] = S[k - 1])
  BY PushedFrames
<1> QED
  BY <1>1 DEF OperandsTyped

LEMMA PoppedAbove ==
  ASSUME NEW F, NEW S \in Seq(F), S # <<>>, NEW T, T = Tail(S), NEW e, Above(S, e)
  PROVE  Above(T, e) /\ Returning(T)
<1>1. ASSUME NEW k \in 1..Len(T)
      PROVE  (T[k].at = "assignment" => T[k].node = e) /\ T[k].at # "visit"
  <2>1. k + 1 \in 1..Len(S) /\ T[k] = S[k + 1] /\ k + 1 # 1
    BY PoppedFrames
  <2> QED
    BY <2>1 DEF Above
<1>2. T # <<>> => 1 \in 1..Len(T)
  BY PoppedFrames
<1> QED
  BY <1>1, <1>2 DEF Above, Returning

LEMMA ReplacedAbove ==
  ASSUME NEW F, NEW S \in Seq(F), S # <<>>, NEW f \in F, NEW T, T = <<f>> \o Tail(S),
         NEW e, Above(S, e), f.at # "assignment"
  PROVE  Above(T, e)
BY ReplacedFrames DEF Above

LEMMA PushedAbove ==
  ASSUME NEW F, NEW S \in Seq(F), S # <<>>, NEW v \in F, NEW f \in F,
         NEW T, T = <<v, f>> \o Tail(S),
         NEW e, Above(S, e), v.at # "assignment", f.at \notin {"assignment", "visit"}
  PROVE  Above(T, e)
<1> SUFFICES ASSUME NEW k \in 1..Len(T)
             PROVE  (T[k].at = "assignment" => T[k].node = e) /\ (T[k].at = "visit" => k = 1)
  BY DEF Above
<1>1. /\ T[1] = v /\ T[2] = f
      /\ k = 1 \/ k = 2 \/ (k - 1 \in 1..Len(S) /\ k - 1 # 1 /\ T[k] = S[k - 1])
  BY PushedFrames
<1> QED
  BY <1>1 DEF Above

----------------------------------------------------------------------------
(* The types of values.                                                    *)

LEMMA TypesMean ==
  ASSUME NEW v
  PROVE  TypeOf(v) = TypeIn(v, code) /\ LoadedType(v) = LoadedIn(v, globals, code)
BY DEF TypeOf, TypeIn, LoadedType, LoadedIn

(* A value keeps its type while the module grows.                          *)
LEMMA TypeLater ==
  ASSUME NEW n, NEW c, NEW d, Extended(c, d), NEW v, Usable(v, n, c)
  PROVE  TypeIn(v, d) = TypeIn(v, c)
<1>1. CASE v.kind = "instruction"
  <2>1. v.at \in 1..Len(c)
    BY <1>1 DEF Usable, ValuesOf, Null
  <2> QED
    BY <1>1, <2>1 DEF TypeIn, Extended
<1>2. CASE v.kind # "instruction"
  BY <1>2 DEF TypeIn
<1> QED
  BY <1>1, <1>2

LEMMA LoadedLater ==
  ASSUME NEW g, NEW h, \A i \in 1..Len(g) : h[i] = g[i],
         NEW c, NEW d, Extended(c, d), NEW v, Usable(v, Len(g), c)
  PROVE  LoadedIn(v, h, d) = LoadedIn(v, g, c)
<1>1. CASE v.kind = "global"
  <2>1. v.at \in 1..Len(g)
    BY <1>1 DEF Usable, ValuesOf, Null
  <2> QED
    BY <1>1, <2>1 DEF LoadedIn
<1>2. CASE v.kind # "global"
  BY <1>2, TypeLater DEF LoadedIn
<1> QED
  BY <1>1, <1>2

LEMMA LoadTyped ==
  ASSUME ModuleFine, NEW v, Usable(v, Len(globals), code)
  PROVE  TypeIn(Loaded(v), WithLoad(v)) = LoadedIn(v, globals, code)
<1>1. CASE v.kind = "global"
  <2> DEFINE i == [op |-> "load", type |-> globals[v.at].type, args |-> <<v>>]
             n == Len(code) + 1
  <2>1. WithLoad(v) = Append(code, i) /\ Loaded(v) = Instruction(n)
    BY <1>1 DEF WithLoad, Loaded, Emit
  <2>2. i.type = globals[v.at].type
    OBVIOUS
  <2> HIDE DEF i
  <2>3. code \in Seq(InstructionsOf(Len(globals), Len(code)))
    BY DEF ModuleFine, CodeFine
  <2>4. Append(code, i)[n] = i
    BY <2>3, AppendProperties
  <2> HIDE DEF n
  <2>5. TypeIn(Instruction(n), Append(code, i)) = Append(code, i)[n].type
    BY DEF TypeIn, Instruction
  <2> QED
    BY <1>1, <2>1, <2>2, <2>4, <2>5 DEF LoadedIn
<1>2. CASE v.kind # "global"
  BY <1>2 DEF Loaded, WithLoad, LoadedIn
<1> QED
  BY <1>1, <1>2

(* LLVM and the reference agree on the operands of an instruction.         *)
LEMMA FitMeansCombine ==
  ASSUME NEW op, NEW l \in {"i32", "i1", "ptr", "chars"}, NEW r
  PROVE  OperandsFit(op, l, r) <=> Combine(op, l, r)
BY DEF OperandsFit, Combine

----------------------------------------------------------------------------
(* What all steps have in common.                                          *)

Step ==
  /\ TypeInv /\ NamesInv /\ GenInv
  /\ TypeInv' /\ NamesInv' /\ Grows
  /\ program' = program
  /\ undefined => undefined'
  /\ \A n \in 1..Len(globals) : globals'[n] = globals[n]

LEMMA UndefinedStays ==
  ASSUME Next, undefined
  PROVE  undefined'
BY DEF Next, VariableDefinition, VisitLiteral, VisitName, VisitGrouping, VisitBinary, VisitRHS,
       EndBinary, VisitExpression, LoadExpression, StoreTarget, EndAssignment, BadAnyCast,
       EndOfProgram, Crash, Terminating, vars

LEMMA ProgramStays ==
  ASSUME Next
  PROVE  program' = program
BY DEF Next, VariableDefinition, VisitLiteral, VisitName, VisitGrouping, VisitBinary, VisitRHS,
       EndBinary, VisitExpression, LoadExpression, StoreTarget, EndAssignment, BadAnyCast,
       EndOfProgram, Crash, Terminating, vars, input

(* The globals that a step adds have the type of their first value.        *)
LEMMA InternedGlobals ==
  ASSUME ModuleFine, GlobalsInv, NEW lit \in Literals
  PROVE  \A n \in 1..Len(Interned(lit)) : Interned(lit)[n].type # "chars" =>
           Interned(lit)[n].type = LLVMType(Interned(lit)[n].init)
<1>1. CASE ~NewString(lit)
  BY <1>1 DEF Interned, GlobalsInv
<1>2. CASE NewString(lit)
  <2> DEFINE x == [type |-> "chars", init |-> lit]
  <2>1. globals \in Seq(GlobalsOf) /\ x \in GlobalsOf /\ x.type = "chars"
    BY DEF ModuleFine, GlobalsOf, LLVMTypes
  <2> HIDE DEF x
  <2>2. /\ Len(Append(globals, x)) = Len(globals) + 1 /\ Len(globals) \in Nat
        /\ Append(globals, x)[Len(globals) + 1] = x
        /\ \A k \in 1..Len(globals) : Append(globals, x)[k] = globals[k]
    BY <2>1, AppendOne
  <2>3. Interned(lit) = Append(globals, x)
    BY <1>2 DEF Interned, x
  <2>4. \A n \in 1..Len(globals) + 1 : n \in 1..Len(globals) \/ n = Len(globals) + 1
    BY <2>2
  <2> QED
    BY <2>1, <2>2, <2>3, <2>4 DEF GlobalsInv
<1> QED
  BY <1>1, <1>2

LEMMA NextGlobals ==
  ASSUME TypeInv, GlobalsInv, Next
  PROVE  GlobalsInv' /\ \A n \in 1..Len(globals) : globals'[n] = globals[n]
<1>1. CASE VariableDefinition
  <2> DEFINE lit == Child.value
             x == [type |-> LLVMType(lit), init |-> lit]
             g == Interned(lit)
  <2>1. ModuleFine /\ lit \in Literals /\ globals' = Append(g, x)
    BY <1>1, ChildFacts DEF VariableDefinition, TypeInv, Definitions
  <2>2. x \in GlobalsOf /\ x.type = LLVMType(x.init)
    BY <2>1, LLVMTypeFine DEF GlobalsOf, LLVMTypes
  <2>3. /\ g \in Seq(GlobalsOf) /\ Len(globals) <= Len(g) /\ Len(globals) \in Nat /\ Len(g) \in Nat
        /\ \A n \in 1..Len(globals) : g[n] = globals[n]
    BY <2>1, InternFine
  <2>4. \A n \in 1..Len(g) : g[n].type # "chars" => g[n].type = LLVMType(g[n].init)
    BY <2>1, InternedGlobals
  <2> HIDE DEF x, g
  <2>5. /\ Len(globals') = Len(g) + 1 /\ globals'[Len(g) + 1] = x
        /\ \A n \in 1..Len(g) : globals'[n] = g[n]
    BY <2>1, <2>2, <2>3, AppendOne
  <2>6. \A n \in 1..Len(g) + 1 : n \in 1..Len(g) \/ n = Len(g) + 1
    BY <2>3
  <2>7. \A n \in 1..Len(globals) : n \in 1..Len(g)
    BY <2>3
  <2>8. GlobalsInv'
    BY <2>2, <2>4, <2>5, <2>6 DEF GlobalsInv
  <2> QED
    BY <2>3, <2>5, <2>7, <2>8
<1>2. CASE VisitLiteral
  <2>1. ModuleFine /\ Top.node \in Literals /\ globals' = Interned(Top.node)
    BY <1>2, WorkingFacts, NodeShapes DEF VisitLiteral, Enters
  <2>2. \A n \in 1..Len(globals') : globals'[n].type # "chars" =>
          globals'[n].type = LLVMType(globals'[n].init)
    BY <2>1, InternedGlobals
  <2>3. \A n \in 1..Len(globals) : globals'[n] = globals[n]
    BY <2>1, InternFine
  <2> QED
    BY <2>2, <2>3 DEF GlobalsInv
<1>3. CASE ~(VariableDefinition \/ VisitLiteral)
  <2>1. globals' = globals
    BY <1>3 DEF Next, VisitName, VisitGrouping, VisitBinary, VisitRHS,
       EndBinary, VisitExpression, LoadExpression, StoreTarget, EndAssignment, BadAnyCast,
       EndOfProgram, Crash, Terminating, vars
  <2> QED
    BY <2>1 DEF GlobalsInv
<1> QED
  BY <1>1, <1>2, <1>3

LEMMA NextStep ==
  ASSUME TypeInv, NamesInv, GenInv, Next
  PROVE  Step /\ GlobalsInv'
BY NextTypes, NextNames, NextGlobals, UndefinedStays, ProgramStays DEF Step, GenInv

(* The assignment that is being translated.                                *)
LEMMA AssignmentFacts ==
  ASSUME Step, child \in 1..Len(program), Child.kind = "AssignmentStatement"
  PROVE  /\ child \in AssignmentsOf(program) /\ Child = program[child]
         /\ Child.expr \in Expressions /\ Len(Child.targets) \in Nat
         /\ AssignmentFine(program, Child)
         /\ Child.expr \in Within[Child.expr]
         /\ \A n \in Within[Child.expr] :
              n \in Expressions /\ n # Null /\ n.kind # "UnaryExpression"
<1>1. /\ child \in AssignmentsOf(program) /\ Child = program[child] /\ program \in Programs
      /\ WellTyped(program) /\ ~Untypable(program)
  BY DEF AssignmentsOf, OfKind, Child, Step, TypeInv, NamesInv, InputFine
<1>2. Child.expr \in Expressions /\ Len(Child.targets) \in Nat
  BY <1>1, ProgramFacts
<1>3. AssignmentFine(program, Child)
  BY <1>1 DEF WellTyped
<1>4. \A n \in Within[Child.expr] : n.kind \notin {"UnaryExpression", "nullptr"}
  BY <1>1 DEF Untypable
<1>5. Null.kind = "nullptr"
  BY DEF Null
<1> QED
  BY <1>1, <1>2, <1>3, <1>4, <1>5, WithinIsClosed

----------------------------------------------------------------------------
(* The steps within an expression.                                         *)

FramesNow == FramesOf(Len(globals), Len(code))

LEMMA WorkingGen ==
  ASSUME Step, stack # <<>>
  PROVE  /\ target = 1 /\ child \in AssignmentsOf(program) /\ Child = program[child]
         /\ Child.kind = "AssignmentStatement" /\ child \in 1..Len(program)
         /\ Child.expr \in Expressions /\ AssignmentFine(program, Child)
         /\ stack \in Seq(FramesNow') /\ Top = stack[1] /\ 1 \in 1..Len(stack)
         /\ FrameFine(Top, Len(globals), code)
         /\ Top.node \in Within[Child.expr] /\ Top.node \in Expressions
         /\ Top.node.kind # "UnaryExpression"
         /\ \A o \in Operands(Top.node) :
              o \in Within[Child.expr] /\ o \in Expressions /\ o # Null
         /\ Above(stack, Child.expr)
         /\ Top.at = "assignment" <=> Len(stack) = 1
         /\ Returning(stack) <=> Top.at # "visit"
<1> DEFINE e == Child.expr
<1>1. /\ target = 1 /\ Above(stack, e)
      /\ child \in 1..Len(program) /\ Child.kind = "AssignmentStatement"
  BY DEF Step, GenInv, WorkInv
<1>2. /\ child \in AssignmentsOf(program) /\ Child = program[child] /\ e \in Expressions
      /\ AssignmentFine(program, Child)
      /\ \A n \in Within[e] : n \in Expressions /\ n # Null /\ n.kind # "UnaryExpression"
  BY <1>1, AssignmentFacts
<1>3. StackFine /\ Grows /\ NodesWithin
  BY DEF Step, TypeInv, NamesInv
<1>4. stack \in Seq(FramesNow')
  BY <1>3, StackLater DEF FramesNow
<1>5. /\ Top = stack[1] /\ 1 \in 1..Len(stack) /\ FrameFine(Top, Len(globals), code)
      /\ Top.at = "assignment" <=> Len(stack) = 1
  BY <1>3, TopFacts
<1>6. Top.node \in Within[e]
  BY <1>3, <1>5 DEF NodesWithin
<1>7. \A o \in Operands(Top.node) : o \in Within[e]
  BY <1>2, <1>6, WithinIsClosed
<1>8. Returning(stack) <=> Top.at # "visit"
  BY <1>5 DEF Returning
<1> QED
  BY <1>1, <1>2, <1>4, <1>5, <1>6, <1>7, <1>8

LEMMA WorkingCovers ==
  ASSUME Step, stack # <<>>, ~undefined
  PROVE  /\ Covered(program, stack, result, Child.expr)
         /\ Serves(program, stack)
         /\ OperandsTyped(program, stack, code)
         /\ ResultTyped(program, stack, result, globals, code)
BY WorkingGen DEF Step, GenInv, CoveredInv, TypedInv

LEMMA OperandsLater ==
  ASSUME Step, NEW p, OperandsTyped(p, stack, code)
  PROVE  OperandsTyped(p, stack, code')
<1> SUFFICES ASSUME NEW k \in 1..Len(stack), stack[k].at = "binary.rhs"
             PROVE  TypeIn(stack[k].lhs, code') = MachineType(p)[stack[k].node.lhs]
  BY DEF OperandsTyped
<1>1. FrameFine(stack[k], Len(globals), code) /\ Extended(code, code')
  BY DEF Step, TypeInv, StackFine, Grows
<1>2. Usable(stack[k].lhs, Len(globals), code)
  BY <1>1 DEF FrameFine
<1>3. TypeIn(stack[k].lhs, code') = TypeIn(stack[k].lhs, code)
  BY <1>1, <1>2, TypeLater
<1> QED
  BY <1>3 DEF OperandsTyped

LEMMA SameChild ==
  ASSUME Step, child' = child
  PROVE  Child' = Child
BY DEF Step, Child

LEMMA ExpressionGen ==
  ASSUME Step, GlobalsInv', stack # <<>>, UNCHANGED <<phase, child, target>>,
         undefined' => undefined \/ Untranslatable(program),
         Above(stack', Child.expr), CoveredInv', TypedInv'
  PROVE  GenInv'
<1>1. Child' = Child /\ program' = program
  BY SameChild DEF Step
<1>2. WorkInv'
  BY <1>1, WorkingGen DEF WorkInv
<1>3. EndInv'
  BY <1>1 DEF Step, GenInv, EndInv
<1>4. PassedInv'
  BY <1>1 DEF Step, GenInv, PassedInv
<1> QED
  BY <1>2, <1>3, <1>4 DEF GenInv

(* The nodes that are no longer to be visited are supported.               *)
LEMMA CoverFurther ==
  ASSUME Step, stack # <<>>, child' = child, Top.at = "visit" \/ result # EmptyAny,
         ToVisit(stack) \subseteq Todo(Top) \cup ToVisit(stack'),
         ~(Returning(stack') /\ result' = EmptyAny),
         ~undefined' => \A n \in Todo(Top) :
                          n \in ToVisit(stack') \/ ~Unsupported(program, n)
  PROVE  CoveredInv'
<1>1. Child' = Child /\ program' = program
  BY SameChild DEF Step
<1> SUFFICES ASSUME ~undefined', NEW n \in Within[Child.expr]
             PROVE  n \in ToVisit(stack') \/ ~Unsupported(program, n)
  BY <1>1 DEF CoveredInv, Covered
<1>2. ~undefined
  BY DEF Step
<1>3. n \in ToVisit(stack) \/ ~Unsupported(program, n)
  BY <1>2, WorkingGen, WorkingCovers DEF Covered
<1> QED
  BY <1>3

LEMMA CallGen ==
  ASSUME Step, GlobalsInv', stack # <<>>, UNCHANGED <<phase, child, target>>,
         NEW f \in FramesNow', f.node = Top.node, f.at \in {"binary.lhs", "binary.rhs"},
         NEW d \in Operands(Top.node), d = Called(f), Call(f, d),
         Todo(Top) \subseteq Todo(f) \cup Within[d],
         Top.at = "visit" \/ result # EmptyAny,
         undefined' => undefined \/ Untranslatable(program),
         f.at = "binary.rhs" /\ ~undefined' =>
           TypeIn(f.lhs, code') = MachineType(program)[f.node.lhs]
  PROVE  GenInv'
<1> DEFINE c == Visit(d)
           e == Child.expr
           p == program
           F == FramesNow'
<1>1. d \in Within[e] /\ d \in Expressions /\ d # Null
  BY WorkingGen
<1>2. c \in F /\ c.at = "visit" /\ c.node = d /\ Todo(c) = Within[d]
  <2>1. c \in FramesOf(Len(globals'), Len(code')) /\ c.at = "visit" /\ c.node = d
    BY <1>1, VisitFrame DEF Node
  <2> QED
    BY <2>1 DEF FramesNow, Todo
<1>3. stack' = <<c, f>> \o Tail(stack)
  BY DEF Call
<1> HIDE DEF c
<1>4. stack \in Seq(F) /\ stack[1] = Top /\ Above(stack, e)
  BY WorkingGen
<1> HIDE DEF F
<1>5. f \in F
  BY DEF F
<1>6. stack'[1] = c /\ stack' # <<>>
  BY <1>2, <1>3, <1>4, <1>5, PushedFrames
<1>7. /\ ToVisit(stack) \subseteq Todo(Top) \cup ToVisit(stack')
      /\ Todo(c) \subseteq ToVisit(stack') /\ Todo(f) \subseteq ToVisit(stack')
  BY <1>2, <1>3, <1>4, <1>5, PushedVisits
<1>8. Above(stack', e)
  BY ZenonT(60), <1>2, <1>3, <1>4, <1>5, PushedAbove
<1>9. ~Returning(stack')
  BY <1>2, <1>6 DEF Returning
<1>10. Child' = Child /\ program' = program
  BY SameChild DEF Step
<1>11. CoveredInv'
  BY <1>2, <1>7, <1>9, CoverFurther
<1>12. TypedInv'
  <2> SUFFICES ASSUME ~undefined'
               PROVE  /\ Serves(p, stack') /\ OperandsTyped(p, stack', code')
                      /\ ResultTyped(p, stack', result', globals', code')
    BY <1>6, <1>10 DEF TypedInv
  <2>1. Serves(p, stack) /\ OperandsTyped(p, stack, code)
    BY WorkingCovers DEF Step
  <2>2. OperandsTyped(p, stack, code')
    BY <2>1, OperandsLater
  <2>3. Serves(p, stack')
    BY ZenonT(60), <1>2, <1>3, <1>4, <1>5, <2>1, PushedServes
  <2>4. OperandsTyped(p, stack', code')
    <3>1. f.at = "binary.rhs" => TypeIn(f.lhs, code') = MachineType(p)[f.node.lhs]
      OBVIOUS
    <3>2. c.at # "binary.rhs"
      BY <1>2
    <3> QED
      BY ZenonT(60), <1>2, <1>3, <1>4, <1>5, <2>2, <3>1, <3>2, PushedOperands
  <2>5. stack'[1].at = "visit"
    BY <1>2, <1>6
  <2>6. ResultTyped(p, stack', result', globals', code')
    BY <2>5 DEF ResultTyped
  <2> QED
    BY <2>3, <2>4, <2>6
<1> QED
  BY <1>8, <1>11, <1>12, ExpressionGen

(* An activation that is not an assignment's returns its node's value.     *)
LEMMA ReturnGen ==
  ASSUME Step, GlobalsInv', stack # <<>>, UNCHANGED <<phase, child, target>>,
         stack' = Tail(stack), Top.at # "assignment", Todo(Top) = {Top.node},
         Top.at = "visit" \/ result # EmptyAny,
         undefined' => undefined \/ Untranslatable(program),
         ~undefined' /\ result' = EmptyAny => Unsupported(program, Top.node),
         ~undefined' /\ result' # EmptyAny =>
           /\ ~Unsupported(program, Top.node) /\ result' # Null
           /\ LoadedIn(result', globals', code') = MachineType(program)[Top.node]
  PROVE  GenInv'
<1> DEFINE e == Child.expr
           p == program
           F == FramesNow'
<1>1. /\ stack \in Seq(F) /\ stack[1] = Top /\ Above(stack, e) /\ Len(stack) # 1
      /\ Top.node \in Within[e]
  BY WorkingGen
<1> HIDE DEF F
<1>2. stack' # <<>>
  BY <1>1, PoppedFrames
<1>3. ToVisit(stack) \subseteq Todo(Top) \cup ToVisit(stack')
  BY <1>1, PoppedVisits
<1>4. Above(stack', e) /\ Returning(stack')
  BY <1>1, PoppedAbove
<1>5. Child' = Child /\ program' = program
  BY SameChild DEF Step
<1>6. CoveredInv'
  <2>1. CASE result' = EmptyAny
    BY <1>1, <1>4, <1>5, <2>1 DEF CoveredInv, Covered
  <2>2. CASE result' # EmptyAny
    BY <1>3, <2>2, CoverFurther
  <2> QED
    BY <2>1, <2>2
<1>7. TypedInv'
  <2> SUFFICES ASSUME ~undefined'
               PROVE  /\ Serves(p, stack') /\ OperandsTyped(p, stack', code')
                      /\ ResultTyped(p, stack', result', globals', code')
    BY <1>2, <1>5 DEF TypedInv
  <2>1. Serves(p, stack) /\ OperandsTyped(p, stack, code)
    BY WorkingCovers DEF Step
  <2>2. OperandsTyped(p, stack, code')
    BY <2>1, OperandsLater
  <2>3. /\ Serves(p, stack')
        /\ MachineType(p)[Top.node] = MachineType(p)[Called(stack'[1])]
    BY <1>1, <1>2, <2>1, PoppedServes
  <2>4. OperandsTyped(p, stack', code')
    BY <1>1, <2>2, PoppedOperands
  <2>5. ResultTyped(p, stack', result', globals', code')
    BY <2>3 DEF ResultTyped
  <2> QED
    BY <2>3, <2>4, <2>5
<1> QED
  BY <1>4, <1>6, <1>7, ExpressionGen

LEMMA GroupingGen ==
  ASSUME Step, GlobalsInv', VisitGrouping
  PROVE  GenInv'
<1> DEFINE n == Top.node
           c == Visit(n.expr)
           e == Child.expr
           p == program
           F == FramesNow'
<1>1. /\ stack # <<>> /\ UNCHANGED <<phase, child, target, result, undefined>>
      /\ n.kind = "GroupingExpression" /\ Top.at = "visit"
      /\ stack' = <<c>> \o Tail(stack)
  BY DEF VisitGrouping, Enters, Working
<1>2. /\ stack \in Seq(F) /\ stack[1] = Top /\ Above(stack, e) /\ n \in Expressions
      /\ n.expr \in Expressions /\ n.expr # Null
  <2>1. n.expr \in Operands(n)
    BY <1>1 DEF Operands
  <2> QED
    BY <1>1, <2>1, WorkingGen
<1>3. c \in F /\ c.at = "visit" /\ c.node = n.expr /\ Todo(c) = Within[n.expr]
  <2>1. /\ c \in FramesOf(Len(globals'), Len(code')) /\ c.at = "visit"
        /\ c.node = n.expr
    BY <1>2, VisitFrame DEF Node
  <2> QED
    BY <2>1 DEF FramesNow, Todo
<1> HIDE DEF c, F
<1>4. stack'[1] = c /\ stack' # <<>>
  BY <1>1, <1>2, <1>3, ReplacedFrames
<1>5. ToVisit(stack) \subseteq Todo(Top) \cup ToVisit(stack') /\ Todo(c) \subseteq ToVisit(stack')
  BY <1>1, <1>2, <1>3, ReplacedVisits
<1>6. Above(stack', e)
  BY <1>1, <1>2, <1>3, ReplacedAbove
<1>7. ~Returning(stack')
  BY <1>3, <1>4 DEF Returning
<1>8. CoveredInv'
  <2>1. Todo(Top) = Within[n]
    BY <1>1 DEF Todo
  <2>2. Within[n] = {n} \cup Within[n.expr]
    BY <1>1, <1>2, WithinByKind
  <2>3. ~Unsupported(p, n)
    BY <1>1 DEF Unsupported
  <2>4. \A m \in Todo(Top) : m \in ToVisit(stack') \/ ~Unsupported(p, m)
    BY <1>3, <1>5, <2>1, <2>2, <2>3
  <2> QED
    BY <1>1, <1>5, <1>7, <2>4, CoverFurther
<1>9. Child' = Child /\ program' = program
  BY <1>1, SameChild DEF Step
<1>10. TypedInv'
  <2> SUFFICES ASSUME ~undefined'
               PROVE  /\ Serves(p, stack') /\ OperandsTyped(p, stack', code')
                      /\ ResultTyped(p, stack', result', globals', code')
    BY <1>4, <1>9 DEF TypedInv
  <2>1. Serves(p, stack) /\ OperandsTyped(p, stack, code)
    BY <1>1, WorkingCovers
  <2>2. OperandsTyped(p, stack, code')
    BY <2>1, OperandsLater
  <2>3. MachineType(p)[n] = MachineType(p)[n.expr]
    BY <1>1, <1>2, MachineTypeUnfolds
  <2>4. Serves(p, stack')
    BY ZenonT(60), <1>1, <1>2, <1>3, <2>1, <2>3, ReplacedServes
  <2>5. OperandsTyped(p, stack', code')
    BY <1>1, <1>2, <1>3, <2>2, ReplacedOperands
  <2> QED
    BY <1>3, <1>4, <2>4, <2>5 DEF ResultTyped
<1> QED
  BY <1>1, <1>6, <1>8, <1>10, ExpressionGen

(* A callee that an activation waits for has returned a value of the type  *)
(* asked for, and loading it gives an operand of that type.                *)
LEMMA ResultFacts ==
  ASSUME Step, stack # <<>>, Top.at # "visit", result # EmptyAny
  PROVE  /\ Usable(result, Len(globals), code)
         /\ ~undefined =>
              /\ result # Null
              /\ LoadedType(result) = MachineType(program)[Called(Top)]
              /\ TypeIn(Loaded(result), WithLoad(result)) = MachineType(program)[Called(Top)]
<1>1. Usable(result, Len(globals), code) /\ ModuleFine
  BY DEF Step, TypeInv, ResultFine
<1>2. ~undefined => /\ result # Null
                    /\ LoadedIn(result, globals, code) = MachineType(program)[Called(Top)]
  <2>1. Top = stack[1]
    BY WorkingGen
  <2> QED
    BY <2>1, WorkingCovers DEF ResultTyped
<1> QED
  BY <1>1, <1>2, LoadTyped, TypesMean

LEMMA OperandGen ==
  ASSUME Step, GlobalsInv', VisitBinary \/ VisitRHS
  PROVE  GenInv'
<1> DEFINE n == Top.node
           p == program
<1>1. stack # <<>> /\ UNCHANGED <<phase, child, target, result, globals>>
  BY DEF VisitBinary, VisitRHS, Enters, Resumes, Working
<1>2. n \in Expressions /\ n # Null /\ FrameFine(Top, Len(globals), code)
  BY <1>1, WorkingGen, ExpressionShapes
<1>3. CASE VisitBinary
  <2> DEFINE f == Frame("binary.lhs", n, EmptyAny)
  <2>1. /\ n.kind = "BinaryExpression" /\ Top.at = "visit" /\ Call(f, n.lhs)
        /\ undefined' = undefined
    BY <1>3 DEF VisitBinary, Enters
  <2>2. f \in FramesNow' /\ f.at = "binary.lhs" /\ f.node = n
    BY <1>2 DEF FramesNow, FramesOf, Frame, Node, Places
  <2> HIDE DEF f
  <2>3. n.lhs \in Operands(n) /\ n.lhs = Called(f)
    BY <2>1, <2>2 DEF Operands, Called
  <2>4. Todo(Top) \subseteq Todo(f) \cup Within[n.lhs]
    BY <1>2, <2>1, <2>2, WithinByKind DEF Todo
  <2> QED
    BY <1>1, <2>1, <2>2, <2>3, <2>4, CallGen
<1>4. CASE VisitRHS
  <2> DEFINE v == Loaded(result)
             f == Frame("binary.rhs", n, v)
  <2>1. /\ Top.at = "binary.lhs" /\ result # EmptyAny /\ Call(f, n.rhs)
        /\ code' = WithLoad(result) /\ undefined' = (undefined \/ result = Null)
    BY <1>4 DEF VisitRHS, Resumes
  <2>2. n.kind = "BinaryExpression"
    BY <1>2, <2>1 DEF FrameFine, Binaries
  <2>3. Usable(result, Len(globals), code) /\ ModuleFine
    BY <1>1, <2>1, ResultFacts DEF Step, TypeInv
  <2>4. Usable(v, Len(globals'), code')
    BY <1>1, <2>1, <2>3, LoadFine
  <2>5. Called(Top) = n.lhs
    BY <2>1 DEF Called
  <2>6. ~undefined => result # Null /\ TypeIn(v, code') = MachineType(p)[n.lhs]
    BY <1>1, <2>1, <2>5, ResultFacts
  <2> HIDE DEF v
  <2>7. f \in FramesNow' /\ f.at = "binary.rhs" /\ f.node = n /\ f.lhs = v
    BY <1>2, <2>4 DEF FramesNow, FramesOf, Frame, Node, Places, Usable
  <2> HIDE DEF f
  <2>8. n.rhs \in Operands(n) /\ n.rhs = Called(f)
    BY <2>2, <2>7 DEF Operands, Called
  <2>9. Todo(Top) \subseteq Todo(f) \cup Within[n.rhs]
    BY <2>1, <2>7 DEF Todo
  <2>10. undefined' => undefined
    BY <2>1, <2>6
  <2>11. ~undefined' => TypeIn(f.lhs, code') = MachineType(p)[f.node.lhs]
    BY <2>1, <2>6, <2>7
  <2> QED
    BY <1>1, <2>1, <2>7, <2>8, <2>9, <2>10, <2>11, CallGen
<1> QED
  BY <1>3, <1>4

LEMMA LiteralGen ==
  ASSUME Step, GlobalsInv', VisitLiteral
  PROVE  GenInv'
<1> DEFINE lit == Top.node
           p == program
<1>1. /\ stack # <<>> /\ UNCHANGED <<phase, child, target, undefined>>
      /\ lit.kind = "Literal" /\ Top.at = "visit" /\ stack' = Tail(stack)
      /\ result' = ValueOf(lit)
      /\ globals' = Interned(lit) /\ strings' = InternedStrings(lit)
  BY DEF VisitLiteral, Enters, Working, Return
<1>2. lit \in Expressions /\ lit \in Literals /\ lit.type \in LiteralTypes
  BY <1>1, WorkingGen, NodeShapes, ExpressionShapes DEF Node
<1>3. Todo(Top) = {lit}
  BY <1>1, <1>2, WithinByKind DEF Todo
<1>4. Unsupported(p, lit) <=> lit.type = "<None>"
  BY <1>1 DEF Unsupported
<1>5. result' = EmptyAny <=> lit.type = "<None>"
  BY <1>1 DEF ValueOf, Global, Constant, EmptyAny
<1>6. MachineType(p)[lit] = IF lit.type = "str" THEN "chars" ELSE MachineTypeOfLiteral(lit)
  BY <1>1, <1>2, MachineTypeUnfolds
<1>7. ASSUME lit.type # "<None>"
      PROVE  result' # Null /\ LoadedIn(result', globals', code') = MachineType(p)[lit]
  <2>1. CASE lit.type = "str"
    <3>1. lit.value \in DOMAIN strings' /\ StringsFine(globals', strings')
      <4>1. StringsFine(globals', strings')
        BY DEF Step, NamesInv
      <4> QED
        BY <1>1, <2>1, <4>1 DEF InternedStrings, NewString
    <3>2. globals'[strings'[lit.value]].type = "chars"
      BY <3>1 DEF StringsFine
    <3>3. result' = Global(strings'[lit.value])
      BY <1>1, <2>1 DEF ValueOf
    <3>4. result'.kind = "global" /\ result'.at = strings'[lit.value]
      BY <3>3 DEF Global
    <3>5. result' # Null
      BY <3>4 DEF Null
    <3> QED
      BY <1>6, <2>1, <3>2, <3>4, <3>5 DEF LoadedIn
  <2>2. CASE lit.type # "str"
    <3>1. result' = Constant(lit)
      BY <1>1, <1>7, <2>2 DEF ValueOf
    <3>2. result'.kind = "constant" /\ result'.literal = lit
      BY <3>1 DEF Constant
    <3>3. result' # Null
      BY <3>2 DEF Null
    <3>4. LoadedIn(result', globals', code') = LLVMType(lit)
      BY <3>2 DEF LoadedIn, TypeIn
    <3> QED
      BY <1>6, <2>2, <3>3, <3>4 DEF LLVMType, MachineTypeOfLiteral
  <2> QED
    BY <2>1, <2>2
<1> QED
  BY <1>1, <1>3, <1>4, <1>5, <1>7, ReturnGen

(* A declared variable's global has the type of its first value.           *)
LEMMA VariableType ==
  ASSUME NamesInv, GlobalsInv, NEW name \in DOMAIN allocation,
         allocation[name].kind = "global"
  PROVE  /\ allocation[name] # Null
         /\ globals[allocation[name].at].type
              = MachineTypeOfLiteral(FirstValue(program, name))
<1>1. allocation[name] # Null
  BY DEF Null
<1>2. VariableFine(program, globals, allocation, child, name)
  BY DEF NamesInv, VariablesFine
<1>3. /\ allocation[name].at \in 1..Len(globals)
      /\ globals[allocation[name].at].type # "chars"
      /\ globals[allocation[name].at].init = FirstValue(program, name)
  BY <1>1, <1>2 DEF VariableFine
<1>4. globals[allocation[name].at].type = LLVMType(FirstValue(program, name))
  BY <1>3 DEF GlobalsInv
<1>5. \A lit : LLVMType(lit) = MachineTypeOfLiteral(lit)
  BY DEF LLVMType, MachineTypeOfLiteral
<1> QED
  BY <1>1, <1>4, <1>5

LEMMA NameGen ==
  ASSUME Step, GlobalsInv', VisitName
  PROVE  GenInv'
<1> DEFINE n == Top.node
           p == program
           v == allocation[n.name]
<1>1. /\ stack # <<>> /\ UNCHANGED <<phase, child, target, undefined, globals, code>>
      /\ n.kind = "Identifier" /\ Top.at = "visit" /\ stack' = Tail(stack)
      /\ result' = v
  BY DEF VisitName, Enters, Working, Return
<1>2. n \in Expressions
  BY <1>1, WorkingGen
<1>3. Todo(Top) = {n}
  BY <1>1, <1>2, WithinByKind DEF Todo
<1>4. ~Unsupported(p, n)
  BY <1>1 DEF Unsupported
<1>5. IsVariable(n.name) /\ v.kind = "global"
  <2>1. Enters("Identifier")
    BY DEF VisitName
  <2>2. NamesHaveAllocations
    BY NamesImply DEF Step
  <2> QED
    BY <2>1, <2>2 DEF NamesHaveAllocations
<1>6. n.name \in DOMAIN allocation
  BY <1>5 DEF Step, TypeInv, ModuleFine, IsVariable
<1>7. v # Null /\ globals[v.at].type = MachineTypeOfLiteral(FirstValue(p, n.name))
  <2>1. NamesInv /\ GlobalsInv
    BY DEF Step, GenInv
  <2> QED
    BY <1>5, <1>6, <2>1, VariableType
<1>8. v # EmptyAny
  <2>1. EmptyAny.kind = "empty any"
    BY DEF EmptyAny
  <2> QED
    BY <1>5, <2>1
<1>9. MachineType(p)[n] = MachineTypeOfLiteral(FirstValue(p, n.name))
  BY <1>1, <1>2, MachineTypeUnfolds
<1>10. LoadedIn(v, globals, code) = MachineType(p)[n]
  BY <1>5, <1>7, <1>9 DEF LoadedIn
<1> HIDE DEF v
<1>11. LoadedIn(result', globals', code') = MachineType(p)[n]
  BY <1>1, <1>10
<1> QED
  BY <1>1, <1>3, <1>4, <1>7, <1>8, <1>11, ReturnGen

(* The instruction of a binary operator, once its operands have the types  *)
(* that the expression says.                                               *)
LEMMA OperatorMeans ==
  ASSUME Step, EndBinary, ~undefined
  PROVE  /\ undefined' <=> Unsupported(program, Top.node)
         /\ ~undefined' => TypeIn(result', code') = MachineType(program)[Top.node]
<1> DEFINE n == Top.node
           p == program
           lhs == Top.lhs
           w == WithLoad(result)
<1>1. PICK op \in Cases(n.op) :
        /\ code' = Emit(w, op, OperationType(op, TypeOf(lhs)), Arguments(lhs, Loaded(result)))
        /\ undefined' = (\/ undefined \/ n.op = "IS" \/ result = Null
                         \/ ~OperandsFit(op, TypeOf(lhs), LoadedType(result)))
  BY DEF EndBinary
<1>2. /\ stack # <<>> /\ Top.at = "binary.rhs" /\ result # EmptyAny
      /\ result' = Instruction(Len(w) + 1)
  BY DEF EndBinary, Resumes, Working, Return
<1>3. /\ n \in Binaries(Expressions) /\ n \in Expressions /\ n.kind = "BinaryExpression"
      /\ n.lhs \in Expressions /\ n.rhs \in Expressions
      /\ Top = stack[1] /\ 1 \in 1..Len(stack)
  BY <1>2, WorkingGen, ExpressionShapes DEF FrameFine, Binaries
<1>4. TypeOf(lhs) = MachineType(p)[n.lhs]
  <2>1. TypeIn(lhs, code) = MachineType(p)[n.lhs]
    BY <1>2, <1>3, WorkingCovers DEF OperandsTyped
  <2> QED
    BY <2>1, TypesMean
<1>5. /\ result # Null /\ LoadedType(result) = MachineType(p)[n.rhs]
      /\ Usable(result, Len(globals), code)
  BY <1>2, ResultFacts DEF Called
<1>6. OperandsFit(op, TypeOf(lhs), LoadedType(result))
        <=> Combine(op, MachineType(p)[n.lhs], MachineType(p)[n.rhs])
  BY <1>3, <1>4, <1>5, MachineTypeUnfolds, FitMeansCombine
<1>7. n.op # "IS" => op = n.op
  BY <1>1 DEF Cases
<1>8. undefined' <=> Unsupported(p, n)
  <2>1. Unsupported(p, n) <=>
          n.op = "IS" \/ ~Combine(n.op, MachineType(p)[n.lhs], MachineType(p)[n.rhs])
    BY <1>3 DEF Unsupported
  <2> QED
    BY <1>1, <1>5, <1>6, <1>7, <2>1
<1>9. ASSUME ~undefined'
      PROVE  TypeIn(result', code') = MachineType(p)[n]
  <2>1. op = n.op
    BY <1>1, <1>7, <1>9
  <2> DEFINE type == OperationType(op, TypeOf(lhs))
             i == [op |-> op, type |-> type, args |-> Arguments(lhs, Loaded(result))]
             m == Len(w) + 1
  <2>2. code' = Append(w, i) /\ i.type = type
    BY <1>1 DEF Emit
  <2>3. type = MachineType(p)[n]
    BY <1>3, <1>4, <2>1, MachineTypeUnfolds DEF OperationType
  <2> HIDE DEF i, type
  <2>4. w \in Seq(InstructionsOf(Len(globals), Len(w)))
    <3>1. ModuleFine
      BY DEF Step, TypeInv
    <3> QED
      BY <1>5, <3>1, LoadFine DEF CodeFine
  <2>5. Append(w, i)[m] = i
    BY <2>4, AppendProperties
  <2> HIDE DEF m
  <2>6. \A c : TypeIn(Instruction(m), c) = c[m].type
    BY DEF TypeIn, Instruction
  <2>7. result' = Instruction(m)
    BY <1>2 DEF m
  <2> QED
    BY <2>2, <2>3, <2>5, <2>6, <2>7
<1> QED
  BY <1>8, <1>9

LEMMA OperatorGen ==
  ASSUME Step, GlobalsInv', EndBinary
  PROVE  GenInv'
<1> DEFINE n == Top.node
           p == program
<1>1. /\ stack # <<>> /\ UNCHANGED <<phase, child, target>>
      /\ Top.at = "binary.rhs" /\ result # EmptyAny
      /\ stack' = Tail(stack)
      /\ result' = Instruction(Len(WithLoad(result)) + 1)
  BY DEF EndBinary, Resumes, Working, Return
<1>2. Todo(Top) = {n}
  BY <1>1 DEF Todo
<1>3. /\ result' # EmptyAny /\ result' # Null /\ result'.kind = "instruction"
  <2>1. \A m : /\ Instruction(m) # EmptyAny /\ Instruction(m) # Null
               /\ Instruction(m).kind = "instruction"
    BY DEF Instruction, EmptyAny, Null
  <2> QED
    BY <1>1, <2>1
<1>4. n \in Within[Child.expr] /\ child \in AssignmentsOf(p) /\ Child = p[child]
  BY <1>1, WorkingGen
<1>5. undefined' => undefined \/ Untranslatable(p)
  <2> SUFFICES ASSUME undefined', ~undefined PROVE Untranslatable(p)
    OBVIOUS
  <2>1. Unsupported(p, n)
    BY OperatorMeans
  <2> QED
    BY <1>4, <2>1 DEF Untranslatable
<1>6. ~undefined' => /\ ~Unsupported(p, n)
                     /\ LoadedIn(result', globals', code') = MachineType(p)[n]
  <2> SUFFICES ASSUME ~undefined'
               PROVE  /\ ~Unsupported(p, n)
                      /\ LoadedIn(result', globals', code') = MachineType(p)[n]
    OBVIOUS
  <2>1. ~undefined
    BY DEF Step
  <2>2. ~Unsupported(p, n) /\ TypeIn(result', code') = MachineType(p)[n]
    BY <2>1, OperatorMeans
  <2> QED
    BY <1>3, <2>2 DEF LoadedIn
<1> QED
  BY <1>1, <1>2, <1>3, <1>5, <1>6, ReturnGen

----------------------------------------------------------------------------
(* The steps of an assignment, of a definition and of the end.             *)

LEMMA NoStack ==
  ASSUME NEW p, NEW e, NEW r, NEW g, NEW c
  PROVE  /\ ToVisit(<<>>) = {} /\ Returning(<<>>) /\ Above(<<>>, e)
         /\ Serves(p, <<>>) /\ OperandsTyped(p, <<>>, c) /\ ResultTyped(p, <<>>, r, g, c)
BY DEF ToVisit, Returning, Above, Serves, Chain, OperandsTyped, ResultTyped

LEMMA ExpressionGenStart ==
  ASSUME Step, GlobalsInv', VisitExpression
  PROVE  GenInv'
<1> DEFINE e == Child.expr
           c == Visit(e)
           f == Frame("assignment", e, EmptyAny)
           p == program
<1>1. /\ phase' = phase /\ child' = child /\ undefined' = undefined /\ target' = 1
      /\ child \in 1..Len(p) /\ Child.kind = "AssignmentStatement"
      /\ stack' = <<c, f>>
  BY DEF VisitExpression, Visits
<1>2. /\ Child' = Child /\ p' = p /\ e \in Expressions
  BY <1>1, SameChild, AssignmentFacts DEF Step
<1>3. /\ c.at = "visit" /\ c.node = e /\ Todo(c) = Within[e]
      /\ f.at = "assignment" /\ f.node = e /\ Called(f) = e
  BY DEF Visit, Frame, Todo, Called
<1> HIDE DEF c, f
<1>4. /\ Len(stack') = 2 /\ stack'[1] = c /\ stack'[2] = f /\ stack' # <<>>
  BY <1>1
<1>5. WorkInv'
  BY <1>1, <1>2, <1>3, <1>4 DEF WorkInv, Above
<1>6. CoveredInv'
  <2>1. ~Returning(stack')
    BY <1>3, <1>4 DEF Returning
  <2>2. Within[e] \subseteq ToVisit(stack')
    BY <1>3, <1>4 DEF ToVisit
  <2> QED
    BY <1>2, <2>1, <2>2 DEF CoveredInv, Covered
<1>7. TypedInv'
  <2>1. Serves(p, stack')
    BY <1>3, <1>4 DEF Serves, Chain
  <2>2. OperandsTyped(p, stack', code')
    BY <1>3, <1>4 DEF OperandsTyped
  <2>3. ResultTyped(p, stack', result', globals', code')
    BY <1>3, <1>4 DEF ResultTyped
  <2> QED
    BY <1>2, <1>4, <2>1, <2>2, <2>3 DEF TypedInv
<1>8. EndInv' /\ PassedInv'
  BY <1>1, <1>2 DEF Step, GenInv, EndInv, PassedInv
<1> QED
  BY <1>5, <1>6, <1>7, <1>8 DEF GenInv

LEMMA LoadGen ==
  ASSUME Step, GlobalsInv', LoadExpression
  PROVE  GenInv'
<1> DEFINE p == program
           e == Child.expr
           F == FramesNow'
<1>1. /\ stack # <<>> /\ UNCHANGED <<phase, child, target, globals>>
      /\ Top.at = "assignment" /\ result # EmptyAny
      /\ stack' = Tail(stack) /\ result' = Loaded(result)
      /\ code' = WithLoad(result) /\ undefined' = (undefined \/ result = Null)
  BY DEF LoadExpression, Resumes, Working, Return
<1>2. /\ stack \in Seq(F) /\ stack[1] = Top /\ Above(stack, e) /\ Len(stack) = 1
      /\ 1 \in 1..Len(stack)
  BY <1>1, WorkingGen
<1> HIDE DEF F
<1>3. stack' = <<>> /\ ToVisit(stack) \subseteq Todo(Top) \cup ToVisit(stack')
  <2>1. stack' = <<>> <=> Len(stack) = 1
    BY <1>1, <1>2, PoppedFrames
  <2>2. ToVisit(stack) \subseteq Todo(stack[1]) \cup ToVisit(stack')
    BY <1>1, <1>2, PoppedVisits
  <2> QED
    BY <1>2, <2>1, <2>2
<1>4. Todo(Top) = {} /\ Called(Top) = e
  BY <1>1, <1>2 DEF Todo, Called, Above
<1>5. /\ Usable(result, Len(globals), code) /\ ModuleFine
      /\ ~undefined => result # Null /\ TypeIn(result', code') = MachineType(p)[e]
  BY <1>1, <1>4, ResultFacts DEF Step, TypeInv
<1>6. result' # EmptyAny
  BY <1>1, <1>5, LoadFine
<1>7. Child' = Child /\ p' = p
  BY <1>1, SameChild DEF Step
<1>8. Above(stack', Child.expr)
  BY <1>3, NoStack
<1>9. CoveredInv'
  BY <1>1, <1>3, <1>4, <1>6, CoverFurther
<1>10. TypedInv'
  <2>1. ~undefined' => TypeIn(result', code') = MachineType(p)[e]
    BY <1>5 DEF Step
  <2>2. /\ Serves(p, stack') /\ OperandsTyped(p, stack', code')
        /\ ResultTyped(p, stack', result', globals', code')
    BY <1>3, NoStack
  <2> QED
    BY <1>7, <2>1, <2>2 DEF TypedInv
<1>11. undefined' => undefined
  BY <1>1, <1>5
<1> QED
  BY <1>1, <1>8, <1>9, <1>10, <1>11, ExpressionGen

LEMMA StoreGen ==
  ASSUME Step, GlobalsInv', StoreTarget
  PROVE  GenInv'
<1> DEFINE p == program
           e == Child.expr
           name == Child.targets[target]
<1>1. /\ UNCHANGED <<phase, child, stack, result, globals>> /\ stack = <<>>
      /\ undefined' = (undefined \/ allocation[name] = Null)
      /\ target' = target + 1 /\ target \in 1..Len(Child.targets)
      /\ child \in 1..Len(p) /\ Child.kind = "AssignmentStatement"
  BY DEF StoreTarget, AtTarget, Visits
<1>2. Child' = Child /\ p' = p /\ Len(Child.targets) \in Nat
  BY <1>1, SameChild, AssignmentFacts DEF Step
<1>3. target \in Nat /\ target > 0 /\ target' > 0
  BY <1>1, <1>2
<1>4. undefined' => undefined
  <2>1. AtTarget
    BY DEF StoreTarget
  <2>2. NamesHaveAllocations
    BY NamesImply DEF Step
  <2>3. allocation[name].kind = "global"
    BY <2>1, <2>2 DEF NamesHaveAllocations
  <2>4. Null.kind = "nullptr"
    BY DEF Null
  <2>5. allocation[name] # Null
    BY <2>3, <2>4
  <2> QED
    BY <1>1, <2>5
<1>5. WorkInv'
  BY <1>1, <1>2 DEF WorkInv
<1>6. EndInv' /\ PassedInv'
  BY <1>1, <1>2, <1>4 DEF Step, GenInv, EndInv, PassedInv
<1>7. CoveredInv'
  <2> SUFFICES ASSUME ~undefined' PROVE Covered(p, stack, result, e)
    BY <1>1, <1>2 DEF CoveredInv
  <2> QED
    BY <1>3 DEF Step, GenInv, CoveredInv
<1>8. TypedInv'
  <2> SUFFICES ASSUME ~undefined' PROVE TypeIn(result, code') = MachineType(p)[e]
    BY <1>1, <1>2, NoStack DEF TypedInv
  <2>1. TypeIn(result, code) = MachineType(p)[e]
    BY <1>1, <1>3 DEF Step, GenInv, TypedInv
  <2>2. Usable(result, Len(globals), code) /\ Extended(code, code')
    BY <1>1, <1>3 DEF Step, TypeInv, ResultFine, Grows
  <2> QED
    BY <2>1, <2>2, TypeLater
<1> QED
  BY <1>5, <1>6, <1>7, <1>8 DEF GenInv

(* The next child, when this one's translation is complete.                *)
LEMMA NextChildGen ==
  ASSUME Step, GlobalsInv', child' = child + 1, child \in 1..Len(program),
         phase' = phase, undefined' = undefined, target' = 0, stack' = <<>>,
         ~undefined => ChildPasses(program, child)
  PROVE  GenInv'
<1>1. program' = program /\ child \in Nat
  <2>1. Len(program) \in Nat
    BY ASTAssumption DEF Step, TypeInv
  <2> QED
    BY <2>1 DEF Step
<1>2. PassedInv'
  <2> SUFFICES ASSUME ~undefined, NEW c \in 1..Len(program), c < child + 1
               PROVE  ChildPasses(program, c)
    BY <1>1 DEF PassedInv
  <2>1. c \in Nat
    OBVIOUS
  <2>2. c < child \/ c = child
    BY <1>1, <2>1
  <2> QED
    BY <2>2 DEF Step, GenInv, PassedInv
<1>3. EndInv'
  <2>1. phase = "generated" => FALSE
    <3>1. phase = "generated" => child > Len(program)
      BY DEF Step, GenInv, EndInv
    <3>2. Len(program) \in Nat
      BY ASTAssumption DEF Step, TypeInv
    <3> QED
      BY <1>1, <3>1, <3>2
  <2> QED
    BY <1>1, <2>1 DEF Step, GenInv, EndInv
<1>4. WorkInv' /\ CoveredInv' /\ TypedInv'
  BY DEF WorkInv, CoveredInv, TypedInv
<1> QED
  BY <1>2, <1>3, <1>4 DEF GenInv

LEMMA EndAssignmentGen ==
  ASSUME Step, GlobalsInv', EndAssignment
  PROVE  GenInv'
<1> DEFINE p == program
           e == Child.expr
<1>1. /\ child' = child + 1 /\ phase' = phase /\ undefined' = undefined /\ target' = 0
      /\ stack = <<>> /\ stack' = stack /\ target > Len(Child.targets)
      /\ child \in 1..Len(p) /\ Child.kind = "AssignmentStatement"
  BY DEF EndAssignment, Visits
<1>2. target > 0 /\ target # 0 /\ Child = p[child]
  <2>1. target \in Nat /\ Len(Child.targets) \in Nat /\ Child = p[child]
    BY <1>1, AssignmentFacts DEF Step, TypeInv
  <2> QED
    BY <1>1, <2>1
<1>3. ~undefined => ChildPasses(p, child)
  <2> SUFFICES ASSUME ~undefined PROVE \A n \in Within[e] : ~Unsupported(p, n)
    BY <1>1, <1>2 DEF ChildPasses
  <2>1. result # EmptyAny
    BY <1>1, <1>2 DEF Step, TypeInv, ResultFine
  <2>2. Covered(p, stack, result, e)
    BY <1>2 DEF Step, GenInv, CoveredInv
  <2>3. ToVisit(stack) = {}
    BY <1>1, NoStack
  <2> QED
    BY <2>1, <2>2, <2>3 DEF Covered
<1> QED
  BY <1>1, <1>3, NextChildGen

LEMMA DefinitionGen ==
  ASSUME Step, GlobalsInv', VariableDefinition
  PROVE  GenInv'
<1>1. /\ child' = child + 1 /\ phase' = phase /\ undefined' = undefined /\ target' = target
      /\ stack' = stack /\ Child.value.type # "<None>"
      /\ child \in 1..Len(program) /\ Child.kind = "VariableDefinition"
  BY DEF VariableDefinition, Visits
<1>2. target = 0 /\ stack = <<>>
  <2>1. target \in Nat /\ ~(target > 0) /\ (stack # <<>> => target = 1)
    BY <1>1 DEF Step, TypeInv, GenInv, WorkInv
  <2> QED
    BY <2>1
<1>3. ChildPasses(program, child)
  BY <1>1 DEF ChildPasses, Child
<1> QED
  BY <1>1, <1>2, <1>3, NextChildGen

LEMMA EndGen ==
  ASSUME Step, GlobalsInv', BadAnyCast \/ EndOfProgram \/ Crash
  PROVE  GenInv'
<1>1. /\ UNCHANGED <<child, target, stack, result, undefined, globals, program>>
      /\ phase = "generate"
  BY DEF BadAnyCast, EndOfProgram, Crash, Visits, Working, Step
<1>2. Child' = Child
  BY <1>1, SameChild
<1>3. WorkInv' /\ PassedInv' /\ CoveredInv'
  BY <1>1, <1>2 DEF Step, GenInv, WorkInv, PassedInv, CoveredInv
<1>4. CASE BadAnyCast
  <2>1. code' = code /\ phase' = "crashed"
    BY <1>4 DEF BadAnyCast
  <2>2. TypedInv'
    BY <1>1, <1>2, <2>1 DEF Step, GenInv, TypedInv
  <2>3. Untranslatable(program)
    <3>1. CASE Visits("VariableDefinition") /\ Child.value.type = "<None>"
      BY <3>1 DEF Untranslatable, DefinitionsOf, OfKind, Visits, Child
    <3>2. CASE Working /\ Top.at # "visit" /\ result = EmptyAny
      <4>1. /\ stack # <<>> /\ child \in AssignmentsOf(program) /\ Child = program[child]
            /\ Returning(stack)
        BY <3>2, WorkingGen DEF Working
      <4>2. CASE undefined
        BY <4>2 DEF Step, GenInv, EndInv
      <4>3. CASE ~undefined
        BY <3>2, <4>1, <4>3, WorkingCovers DEF Covered, Untranslatable
      <4> QED
        BY <4>2, <4>3
    <3> QED
      BY <1>4, <3>1, <3>2 DEF BadAnyCast
  <2>4. EndInv'
    BY <1>1, <2>1, <2>3 DEF EndInv
  <2> QED
    BY <1>3, <2>2, <2>4 DEF GenInv
<1>5. CASE EndOfProgram
  <2>1. phase' = "generated" /\ child > Len(program)
    BY <1>5 DEF EndOfProgram
  <2>2. EndInv'
    BY <1>1, <2>1 DEF Step, GenInv, EndInv
  <2>3. ~(target > 0)
    <3>1. target > 0 => child \in 1..Len(program)
      BY DEF Step, GenInv, WorkInv
    <3>2. Len(program) \in Nat
      BY ASTAssumption DEF Step, TypeInv
    <3> QED
      BY <2>1, <3>1, <3>2
  <2>4. TypedInv'
    BY <1>1, <2>3 DEF TypedInv
  <2> QED
    BY <1>3, <2>2, <2>4 DEF GenInv
<1>6. CASE Crash
  <2>1. code' = code /\ phase' = "crashed" /\ undefined
    BY <1>6 DEF Crash
  <2>2. TypedInv'
    BY <1>1, <1>2, <2>1 DEF Step, GenInv, TypedInv
  <2>3. EndInv'
    BY <1>1, <2>1 DEF Step, GenInv, EndInv
  <2> QED
    BY <1>3, <2>2, <2>3 DEF GenInv
<1> QED
  BY <1>4, <1>5, <1>6

LEMMA InitGen ==
  ASSUME Init
  PROVE  GenInv
<1>1. /\ phase = "generate" /\ child = 1 /\ target = 0 /\ stack = <<>> /\ undefined = FALSE
      /\ globals = <<>> /\ program \in Programs
  BY DEF Init
<1>2. PassedInv
  <2>1. \A c \in 1..Len(program) : ~(c < 1)
    BY <1>1, ASTAssumption
  <2> QED
    BY <1>1, <2>1 DEF PassedInv
<1>3. GlobalsInv
  BY <1>1 DEF GlobalsInv
<1>4. WorkInv /\ EndInv /\ CoveredInv /\ TypedInv
  BY <1>1 DEF WorkInv, EndInv, CoveredInv, TypedInv
<1> QED
  BY <1>2, <1>3, <1>4 DEF GenInv

LEMMA NextGen ==
  ASSUME TypeInv, NamesInv, GenInv, [Next]_vars
  PROVE  GenInv'
<1>1. CASE Next /\ ~Terminating
  <2>1. Step /\ GlobalsInv'
    BY <1>1, NextStep
  <2>2. \/ VariableDefinition \/ VisitLiteral \/ VisitName \/ VisitGrouping
        \/ VisitBinary \/ VisitRHS \/ EndBinary
        \/ VisitExpression \/ LoadExpression \/ StoreTarget \/ EndAssignment
        \/ BadAnyCast \/ EndOfProgram \/ Crash
    BY <1>1 DEF Next
  <2> QED
    BY <2>1, <2>2, DefinitionGen, LiteralGen, NameGen, GroupingGen, OperandGen, OperatorGen,
       ExpressionGenStart, LoadGen, StoreGen, EndAssignmentGen, EndGen
<1>2. CASE Terminating \/ UNCHANGED vars
  <2>1. UNCHANGED <<program, phase, child, target, stack, result, undefined, globals, code>>
    BY <1>2 DEF Terminating, vars, input
  <2>2. Child' = Child
    BY <2>1 DEF Child
  <2> QED
    BY <2>1, <2>2 DEF GenInv, WorkInv, GlobalsInv, EndInv, PassedInv, CoveredInv, TypedInv
<1> QED
  BY <1>1, <1>2

LEMMA IRGenInvariant == Spec => [](TypeInv /\ NamesInv /\ GenInv)
<1>1. Init => GenInv
  BY InitGen
<1>2. TypeInv /\ NamesInv /\ GenInv /\ [Next]_vars => GenInv'
  BY NextGen
<1> QED
  BY <1>1, <1>2, IRGenNamesInv, PTL DEF Spec

----------------------------------------------------------------------------
(* What the invariant of the failures and types says.                      *)

(* An expression whose names are declared and whose static type is known   *)
(* has the machine type of its static type.                                *)
TypesAgree(t, m) ==
  /\ t = "int" => m = "i32"
  /\ t = "bool" => m = "i1"
  /\ t = "str" => m \in {"ptr", "chars"}

LEMMA FirstValueTyped ==
  ASSUME NEW p \in Programs, WellTyped(p), NEW name \in Declared(p)
  PROVE  TypesAgree(TypeDeclared(p, name), MachineTypeOfLiteral(FirstValue(p, name)))
<1> DEFINE c == DefinitionOf(p, name)
           t == TypeDeclared(p, name)
           v == FirstValue(p, name)
<1>1. c \in DefinitionsOf(p) /\ p[c].name = name
  BY DeclaredFacts
<1>2. DefinitionFine(p, c)
  BY <1>1 DEF WellTyped
<1>3. c \in Declarations(p) /\ MayHold(p[c].type, p[c].value.type)
  BY <1>2 DEF DefinitionFine
<1>4. t = p[c].type
  BY <1>1, <1>3, DeclarationFacts
<1>5. v = p[c].value
  BY DEF FirstValue
<1>6. t = v.type \/ t = "object"
  BY <1>3, <1>4, <1>5 DEF MayHold
<1> HIDE DEF c, t, v
<1>7. TypesAgree(t, MachineTypeOfLiteral(v))
  BY <1>6 DEF TypesAgree, MachineTypeOfLiteral
<1> QED
  BY <1>7 DEF t, v

LEMMA StaticToMachine ==
  ASSUME NEW p \in Programs, WellTyped(p)
  PROVE  \A e \in Expressions : NamesIn(e) \subseteq Declared(p) =>
           TypesAgree(StaticType(p)[e], MachineType(p)[e])
<1> DEFINE S == {d \in Expressions : NamesIn(d) \subseteq Declared(p) =>
                   TypesAgree(StaticType(p)[d], MachineType(p)[d])}
<1>1. ASSUME NEW e \in Expressions, Inner(e) \subseteq S, NamesIn(e) \subseteq Declared(p)
      PROVE  TypesAgree(StaticType(p)[e], MachineType(p)[e])
  <2>1. ASSUME NEW o \in Inner(e), Within[o] \subseteq Within[e]
        PROVE  TypesAgree(StaticType(p)[o], MachineType(p)[o])
    <3>1. NamesIn(o) \subseteq Declared(p)
      BY <1>1, <2>1 DEF NamesIn
    <3> QED
      BY <1>1, <2>1, <3>1
  <2> HIDE DEF S
  <2>2. CASE e.kind = "Literal"
    <3>1. StaticType(p)[e] = e.type
      BY <2>2, StaticTypeUnfolds
    <3>2. MachineType(p)[e] = IF e.type = "str" THEN "chars" ELSE MachineTypeOfLiteral(e)
      BY <2>2, MachineTypeUnfolds
    <3> QED
      BY <3>1, <3>2 DEF TypesAgree, MachineTypeOfLiteral
  <2>3. CASE e.kind = "Identifier"
    <3>1. e \in Within[e]
      BY <2>3, WithinByKind
    <3>2. e.name \in Declared(p)
      BY <1>1, <2>3, <3>1 DEF NamesIn
    <3>3. /\ StaticType(p)[e] = TypeDeclared(p, e.name)
          /\ MachineType(p)[e] = MachineTypeOfLiteral(FirstValue(p, e.name))
      BY <2>3, StaticTypeUnfolds, MachineTypeUnfolds
    <3> QED
      BY <3>2, <3>3, FirstValueTyped
  <2>4. CASE e.kind = "GroupingExpression" /\ e.expr = Null
    <3>1. StaticType(p)[e] = Unknown
      BY <2>4, StaticTypeUnfolds
    <3> QED
      BY <3>1 DEF TypesAgree, Unknown
  <2>5. CASE e.kind = "GroupingExpression" /\ e.expr # Null
    <3>1. e.expr \in Inner(e) /\ Within[e.expr] \subseteq Within[e]
      BY <2>5, WithinByKind DEF Inner, Operands
    <3>2. /\ StaticType(p)[e] = StaticType(p)[e.expr]
          /\ MachineType(p)[e] = MachineType(p)[e.expr]
      BY <2>5, StaticTypeUnfolds, MachineTypeUnfolds
    <3> QED
      BY <2>1, <3>1, <3>2
  <2>6. CASE e.kind = "BinaryExpression"
    <3>1. e.lhs \in Inner(e) /\ Within[e.lhs] \subseteq Within[e]
      BY <2>6, WithinByKind, ExpressionShapes DEF Inner, Operands
    <3>2. TypesAgree(StaticType(p)[e.lhs], MachineType(p)[e.lhs])
      BY <2>1, <3>1
    <3>3. MachineType(p)[e] = IF e.op \in Comparing THEN "i1" ELSE MachineType(p)[e.lhs]
      BY <2>6, MachineTypeUnfolds
    <3>4. \/ StaticType(p)[e] = Unknown
          \/ StaticType(p)[e] = "bool" /\ StaticType(p)[e.lhs] = "bool"
      BY <2>6, StaticTypeUnfolds
    <3> QED
      BY <3>2, <3>3, <3>4 DEF TypesAgree, Unknown
  <2>7. CASE e.kind = "UnaryExpression"
    <3>1. StaticType(p)[e] = Unknown
      BY <2>7, StaticTypeUnfolds
    <3> QED
      BY <3>1 DEF TypesAgree, Unknown
  <2> QED
    BY <2>2, <2>3, <2>4, <2>5, <2>6, <2>7, ExpressionShapes
<1>2. \A e \in Expressions : Inner(e) \subseteq S => e \in S
  BY <1>1
<1> HIDE DEF S
<1>3. Expressions \subseteq S
  BY <1>2, TreeInduction
<1> QED
  BY <1>3 DEF S

LEMMA GenImplies ==
  ASSUME TypeInv, NamesInv, GenInv
  PROVE  GenerationFailuresAreExplained /\ TypedStoresFit
<1> DEFINE p == program
<1>1. p \in Programs /\ WellTyped(p) /\ undefined \in BOOLEAN
  BY DEF TypeInv, NamesInv, InputFine
<1>2. ASSUME phase = "generated", ~undefined
      PROVE  ~Untranslatable(p)
  <2>1. child \in 1..(Len(p) + 1) /\ child > Len(p) /\ Len(p) \in Nat
    BY <1>1, <1>2, ProgramFacts DEF TypeInv, GenInv, EndInv
  <2>2. \A c \in 1..Len(p) : c < child
    BY <2>1
  <2>3. \A c \in 1..Len(p) : ChildPasses(p, c)
    BY <1>2, <2>2 DEF GenInv, PassedInv
  <2>4. ASSUME NEW c \in DefinitionsOf(p)
        PROVE  p[c].value.type # "<None>"
    BY <1>1, <2>3, ProgramFacts DEF ChildPasses
  <2>5. ASSUME NEW c \in AssignmentsOf(p)
        PROVE  \A n \in Within[p[c].expr] : ~Unsupported(p, n)
    BY <1>1, <2>3, ProgramFacts DEF ChildPasses
  <2> QED
    BY <2>4, <2>5 DEF Untranslatable
<1>3. GenerationFailuresAreExplained
  BY <1>2 DEF GenerationFailuresAreExplained, Done, GenInv, EndInv
<1>4. ASSUME AtTarget, ~undefined
      PROVE  LET name == Child.targets[target]
             IN  \/ Fits(result, name)
                 \/ StaticType(p)[Child.expr] = Unknown
                 \/ TypeDeclared(p, name) = "object"
                 \/ TypeOf(result) = "chars"
  <2> DEFINE name == Child.targets[target]
             e == Child.expr
             s == StaticType(p)[e]
             u == TypeDeclared(p, name)
             m == MachineType(p)[e]
             g == MachineTypeOfLiteral(FirstValue(p, name))
  <2>1. /\ child \in AssignmentsOf(p) /\ p[child] = Child /\ stack = <<>>
        /\ target \in 1..Len(Child.targets)
    BY <1>4 DEF AtTarget, Visits, AssignmentsOf, OfKind, Child
  <2>2. Len(Child.targets) \in Nat /\ e \in Expressions
    BY <1>1, <2>1, ProgramFacts
  <2>3. AssignmentFine(p, Child)
    BY <1>1, <2>1 DEF WellTyped
  <2>4. name \in Declared(p) /\ NamesIn(e) \subseteq Declared(p)
    BY <2>1, <2>3 DEF AssignmentFine
  <2>5. s # Unknown => MayHold(u, s)
    BY <2>1, <2>3 DEF AssignmentFine
  <2>6. TypesAgree(s, m)
    BY <1>1, <2>2, <2>4, StaticToMachine
  <2>7. TypesAgree(u, g) /\ u \in Types \ {"<None>", "<Empty>"}
    BY <1>1, <2>4, FirstValueTyped, DeclarationFacts
  <2>8. TypeOf(result) = m
    <3>1. target > 0
      BY <2>1, <2>2
    <3>2. TypeIn(result, code) = m
      BY <1>4, <2>1, <3>1 DEF GenInv, TypedInv
    <3> QED
      BY <3>2, TypesMean
  <2>9. globals[allocation[name].at].type = g
    <3>1. allocation[name].kind = "global"
      BY <1>4, NamesImply DEF NamesHaveAllocations
    <3>2. name \in DOMAIN allocation
      <4>1. InputFine /\ ModuleFine
        BY DEF NamesInv, TypeInv
      <4>2. DOMAIN allocation = Declared(p)
        BY <4>1, Variables DEF ModuleFine
      <4> QED
        BY <2>4, <4>2
    <3>3. \A x \in DOMAIN allocation : allocation[x].kind = "global" =>
            globals[allocation[x].at].type = MachineTypeOfLiteral(FirstValue(p, x))
      <4>1. NamesInv /\ GlobalsInv
        BY DEF GenInv
      <4> QED
        BY <4>1, VariableType
    <3> HIDE DEF name
    <3> QED
      BY ONLY <3>1, <3>2, <3>3
  <2> HIDE DEF s, m, g, u
  <2>10. s = Unknown \/ u = "object" \/ m = "chars" \/ m = g
    <3>1. u \in {"object", "int", "str", "bool"}
      BY <2>7 DEF Types
    <3>2. s = Unknown \/ u = "object" \/ u = s
      BY <2>5 DEF MayHold
    <3> QED
      BY <2>6, <2>7, <3>1, <3>2 DEF TypesAgree, MachineTypeOfLiteral, g
  <2> QED
    BY <2>8, <2>9, <2>10 DEF Fits, s, u
<1>5. TypedStoresFit
  BY <1>4 DEF TypedStoresFit
<1> QED
  BY <1>3, <1>5

(* A program that has a translation gives the generator nothing to crash   *)
(* of, and LLVM nothing that it could not make sense of.                   *)
LEMMA NothingUndefined ==
  ASSUME TypeInv, NamesInv, GenInv, ~undefined, phase = "generate", ~Untranslatable(program)
  PROVE  /\ stack # <<>> /\ Top.at # "visit" => result # EmptyAny /\ result # Null
         /\ Resumes("binary.rhs") =>
              /\ Top.node.op # "IS"
              /\ OperandsFit(Top.node.op, TypeOf(Top.lhs), LoadedType(result))
         /\ Visits("VariableDefinition") => Child.value.type # "<None>"
         /\ AtTarget => allocation[Child.targets[target]] # Null
<1> DEFINE p == program
           n == Top.node
<1>1. ASSUME stack # <<>>
      PROVE  /\ \A m \in Within[Child.expr] : ~Unsupported(p, m)
             /\ OperandsTyped(p, stack, code) /\ ResultTyped(p, stack, result, globals, code)
             /\ Covered(p, stack, result, Child.expr)
             /\ Top = stack[1] /\ 1 \in 1..Len(stack) /\ n \in Within[Child.expr]
             /\ FrameFine(Top, Len(globals), code)
  <2>1. target > 0 /\ child \in 1..Len(p) /\ Child.kind = "AssignmentStatement"
    BY <1>1 DEF GenInv, WorkInv
  <2>2. child \in AssignmentsOf(p) /\ Child = p[child]
    BY <2>1 DEF AssignmentsOf, OfKind, Child
  <2>3. /\ Covered(p, stack, result, Child.expr)
        /\ OperandsTyped(p, stack, code) /\ ResultTyped(p, stack, result, globals, code)
    BY <2>1 DEF GenInv, CoveredInv, TypedInv
  <2>4. /\ Top = stack[1] /\ 1 \in 1..Len(stack)
        /\ FrameFine(Top, Len(globals), code)
    BY <1>1, TopFacts DEF TypeInv
  <2>5. n \in Within[Child.expr]
    BY <1>1, <2>4 DEF NamesInv, NodesWithin
  <2> QED
    BY <2>2, <2>3, <2>4, <2>5 DEF Untranslatable
<1>2. ASSUME stack # <<>>, Top.at # "visit"
      PROVE  /\ result # EmptyAny /\ result # Null
             /\ LoadedIn(result, globals, code) = MachineType(p)[Called(Top)]
  <2>1. Returning(stack)
    BY <1>1, <1>2 DEF Returning
  <2>2. result # EmptyAny
    BY <1>1, <1>2, <2>1 DEF Covered
  <2> QED
    BY <1>1, <1>2, <2>2 DEF ResultTyped
<1>3. ASSUME Resumes("binary.rhs")
      PROVE  /\ n.op # "IS"
             /\ OperandsFit(n.op, TypeOf(Top.lhs), LoadedType(result))
  <2>1. stack # <<>> /\ Top.at = "binary.rhs" /\ Top.at # "visit"
    BY <1>3 DEF Resumes, Working
  <2>2. /\ n \in Binaries(Expressions) /\ n.kind = "BinaryExpression"
        /\ n.lhs \in Expressions
    BY <1>1, <2>1 DEF FrameFine, Binaries
  <2>3. n.op # "IS" /\ Combine(n.op, MachineType(p)[n.lhs], MachineType(p)[n.rhs])
    BY <1>1, <2>1, <2>2 DEF Unsupported
  <2>4. TypeOf(Top.lhs) = MachineType(p)[n.lhs]
    <3>1. TypeIn(Top.lhs, code) = MachineType(p)[n.lhs]
      BY <1>1, <2>1 DEF OperandsTyped
    <3> QED
      BY <3>1, TypesMean
  <2>5. LoadedType(result) = MachineType(p)[n.rhs]
    <3>1. LoadedIn(result, globals, code) = MachineType(p)[n.rhs]
      BY <1>2, <2>1 DEF Called
    <3> QED
      BY <3>1, TypesMean
  <2>6. MachineType(p)[n.lhs] \in {"i32", "i1", "ptr", "chars"}
    BY <2>2, MachineTypeUnfolds
  <2> QED
    BY <2>3, <2>4, <2>5, <2>6, FitMeansCombine
<1>4. Visits("VariableDefinition") => Child.value.type # "<None>"
  BY DEF Visits, Child, Untranslatable, DefinitionsOf, OfKind
<1>5. ASSUME AtTarget
      PROVE  allocation[Child.targets[target]] # Null
  <2>1. NamesHaveAllocations
    BY NamesImply
  <2>2. allocation[Child.targets[target]].kind = "global"
    BY <1>5, <2>1 DEF NamesHaveAllocations
  <2>3. Null.kind = "nullptr"
    BY DEF Null
  <2> QED
    BY <2>2, <2>3
<1> QED
  BY <1>2, <1>3, <1>4, <1>5

(* The generator crashes or has undefined results on exactly the programs  *)
(* that have no translation by their tree alone: with a None, an `is', or  *)
(* an operation on two machine types or on characters.  It reaches the end *)
(* of every other program.                                                 *)
THEOREM IRGenGenerationFailuresAreExplained == Spec => []GenerationFailuresAreExplained
<1>1. TypeInv /\ NamesInv /\ GenInv => GenerationFailuresAreExplained
  BY GenImplies
<1> QED
  BY <1>1, IRGenInvariant, PTL

(* What the type checker accepts keeps the generator's stores in bounds: a *)
(* store of a value of known static type into a variable that is no object *)
(* writes as much as the variable's global has, the characters of a string *)
(* literal excepted.                                                       *)
THEOREM IRGenTypedStoresFit == Spec => []TypedStoresFit
<1>1. TypeInv /\ NamesInv /\ GenInv => TypedStoresFit
  BY GenImplies
<1> QED
  BY <1>1, IRGenInvariant, PTL

----------------------------------------------------------------------------
(* The code means the program.                                             *)

(* The literal or result that a value is where it is an operand, and one    *)
(* instruction of `main'.                                                  *)
Operand(g, s, v) ==
  CASE v.kind = "constant" -> v.literal
    [] v.kind = "instruction" -> s.results[v.at]
    [] v.kind = "global" -> g[v.at].init

StartOf(g) ==
  [memory |-> [n \in 1..Len(g) |->
                 IF g[n].type = "chars" THEN Characters(g[n].init) ELSE g[n].init],
   results |-> <<>>]

Executed(g, s, i) ==
  LET results(v) == Append(s.results, v)
  IN  CASE i.op = "load" -> [s EXCEPT !.results = results(s.memory[i.args[1].at])]
        [] i.op = "store" ->
             [memory |-> [s.memory EXCEPT ![i.args[2].at] = Operand(g, s, i.args[1])],
              results |-> results(Null)]
        [] i.op = "ret" -> [s EXCEPT !.results = results(Null)]
        [] OTHER ->
             [s EXCEPT !.results = results(
                Operation(i.op, Operand(g, s, i.args[1]), Operand(g, s, i.args[2])))]

(* The states that a run of the instructions c over the globals g goes     *)
(* through, and the one it ends in.                                        *)
RunOf(g, c) ==
  LET after[n \in 0..Len(c)] ==
        IF n = 0 THEN StartOf(g) ELSE Executed(g, after[n - 1], c[n])
  IN  after

Final(g, c) == RunOf(g, c)[Len(c)]

(* The values of the variables D after the first c children of p, and after*)
(* the first t - 1 targets of the next child.                              *)
AfterOf(p, D) ==
  LET after[c \in 0..Len(p)] ==
        IF c = 0 THEN [n \in D |-> Null]
        ELSE LET node == p[c]
                 env == after[c - 1]
             IN  IF node.kind = "VariableDefinition"
                 THEN AssignTo(env, <<node.name>>, node.value)
                 ELSE AssignTo(env, node.targets, Evaluate(env)[node.expr])
  IN  after

NowOf(p, D, c, t) ==
  LET env == AfterOf(p, D)[c - 1]
  IN  IF t < 2 THEN env
      ELSE AssignTo(env, SubSeq(p[c].targets, 1, t - 1), Evaluate(env)[p[c].expr])

(* A value that is an operand without being loaded, and instructions that  *)
(* have such operands and load from and store to globals only.             *)
Plain(v) == v.kind \in {"constant", "instruction"}

Address(v, n) == v.kind = "global" /\ v.at \in 1..n

PlainInstruction(i, n) ==
  /\ i.op \in Operations
  /\ i.op = "load" => Address(i.args[1], n)
  /\ i.op = "store" => Len(i.args) = 2 /\ Plain(i.args[1]) /\ Address(i.args[2], n)
  /\ i.op \in Operators => Plain(i.args[1]) /\ Plain(i.args[2])

PlainCode(c, n) == \A i \in 1..Len(c) : PlainInstruction(c[i], n)

(* What a value stands for in a state of the run, once it is loaded.       *)
Denotes(s, v) == IF v.kind = "constant" THEN v.literal ELSE s.results[v.at]

Holds(s, v) == IF v.kind = "global" THEN s.memory[v.at] ELSE Denotes(s, v)

(* Whether the stores write as much as there is room for.                  *)
RoomIn(g, c) ==
  \A i \in 1..Len(c) : c[i].op = "store" =>
    TypeIn(c[i].args[1], c) = g[c[i].args[2].at].type

(* The characters of a string are not the value of the literal.            *)
FrameMeans(f, x, s, g, c) ==
  x.at = "binary.rhs" =>
    /\ Plain(x.lhs)
    /\ RoomIn(g, c) /\ TypeIn(x.lhs, c) # "chars" => Denotes(s, x.lhs) = f[x.node.lhs]

OperandsMean(f, S, s, g, c) == \A k \in 1..Len(S) : FrameMeans(f, S[k], s, g, c)

ResultMeans(f, S, r, s, g, c) ==
  /\ S # <<>> /\ S[1].at # "visit" /\ r # EmptyAny
  /\ RoomIn(g, c) /\ LoadedIn(r, g, c) # "chars"
  => Holds(s, r) = f[Called(S[1])]

ValueMeans(f, e, r, s, g, c) ==
  Plain(r) /\ (RoomIn(g, c) /\ TypeIn(r, c) # "chars" => Denotes(s, r) = f[e])

MemoryMeans(a, s, env) ==
  \A name \in DOMAIN a : a[name] # Null => s.memory[a[name].at] = env[name]

ValuesNow == Evaluate(AfterOf(program, DOMAIN allocation)[child - 1])

WorkMeans ==
  LET f == ValuesNow
      s == Final(globals, code)
  IN  /\ Chain(f, stack)
      /\ OperandsMean(f, stack, s, globals, code)
      /\ ResultMeans(f, stack, result, s, globals, code)
      /\ stack = <<>> => ValueMeans(f, Child.expr, result, s, globals, code)

MeanInv ==
  /\ target > 1 => target - 1 \in 1..Len(Child.targets)
  /\ ~undefined =>
       /\ PlainCode(code, Len(globals))
       /\ RoomIn(globals, code) =>
            MemoryMeans(allocation, Final(globals, code),
                        NowOf(program, DOMAIN allocation, child, target))
       /\ target > 0 => WorkMeans

----------------------------------------------------------------------------
(* A list: a sequence whose elements are of no set in particular.          *)

IsList(s, n) == s \in Seq({s[i] : i \in 1..n}) /\ Len(s) = n

LEMMA EmptyList == IsList(<<>>, 0)
BY DEF IsList

LEMMA SeqFunction ==
  ASSUME NEW S, NEW s \in Seq(S)
  PROVE  s \in [1..Len(s) -> S] /\ Len(s) \in Nat
OBVIOUS

Longer(s, v, r) == r = Append(s, v)

LEMMA LongerList ==
  ASSUME NEW n \in Nat, NEW s, IsList(s, n), NEW v, NEW r, Longer(s, v, r)
  PROVE  /\ IsList(r, n + 1)
         /\ \A i \in 1..n : r[i] = s[i]
         /\ r[n + 1] = v
<1> DEFINE A == {s[i] : i \in 1..n}
           V == A \cup {v}
<1>1. s \in Seq(V) /\ v \in V /\ Len(s) = n
  <2>1. s \in Seq(A) /\ A \subseteq V /\ Len(s) = n
    BY DEF IsList
  <2> HIDE DEF A
  <2>2. v \in V
    OBVIOUS
  <2> HIDE DEF V
  <2> QED
    BY <2>1, <2>2, SeqMonotone
<1> HIDE DEF A, V
<1>2. /\ r \in Seq(V) /\ Len(r) = n + 1 /\ r[n + 1] = v
      /\ \A i \in 1..n : r[i] = s[i]
  <2>1. r = Append(s, v)
    BY DEF Longer
  <2> QED
    BY <1>1, <2>1, AppendOne
<1>3. r \in Seq({r[i] : i \in 1..n + 1})
  <2>1. r \in [1..n + 1 -> V] /\ n + 1 \in Nat
    <3>1. r \in [1..Len(r) -> V] /\ Len(r) = n + 1
      BY <1>2, SeqFunction
    <3> QED
      BY <3>1
  <2> DEFINE R == {r[i] : i \in 1..n + 1}
  <2>2. \A i \in 1..n + 1 : r[i] \in R
    OBVIOUS
  <2> HIDE DEF R
  <2>3. r \in [1..n + 1 -> R]
    BY <1>2, <2>1, <2>2
  <2>4. r \in Seq(R)
    BY <2>1, <2>3, SeqDef
  <2> QED
    BY <2>4 DEF R
<1> QED
  BY <1>2, <1>3 DEF IsList

----------------------------------------------------------------------------
(* The recursive definitions of the two meanings, unfolded.                *)

LEMMA RunUnfolds ==
  ASSUME NEW g, NEW c, Len(c) \in Nat
  PROVE  /\ RunOf(g, c)[0] = StartOf(g)
         /\ \A n \in 1..Len(c) : RunOf(g, c)[n] = Executed(g, RunOf(g, c)[n - 1], c[n])
<1> DEFINE N == Len(c)
           Body(f, n) == IF n = 0 THEN StartOf(g) ELSE Executed(g, f[n - 1], c[n])
           S == {m \in Nat : \E f : f = [n \in 0..m |-> Body(f, n)]}
<1>1. 0 \in S
  <2> DEFINE f == [n \in 0..0 |-> StartOf(g)]
  <2>1. f = [n \in 0..0 |-> Body(f, n)]
    OBVIOUS
  <2> QED
    BY <2>1
<1>2. ASSUME NEW m \in Nat, m \in S
      PROVE  m + 1 \in S
  <2>1. PICK f : f = [n \in 0..m |-> Body(f, n)]
    BY <1>2
  <2> DEFINE h == [n \in 0..m + 1 |-> Body(f, n)]
  <2>2. \A n \in 0..m : h[n] = f[n]
    BY <2>1
  <2>3. ASSUME NEW n \in 0..m + 1
        PROVE  Body(f, n) = Body(h, n)
    <3>1. CASE n = 0
      BY <3>1
    <3>2. CASE n # 0
      <4>1. n - 1 \in 0..m
        BY <3>2
      <4>2. h[n - 1] = f[n - 1]
        BY <2>2, <4>1
      <4> QED
        BY <3>2, <4>2
    <3> QED
      BY <3>1, <3>2
  <2>4. h = [n \in 0..m + 1 |-> Body(h, n)]
    <3> HIDE DEF Body
    <3> QED
      BY <2>3
  <2>5. \E k : k = [n \in 0..m + 1 |-> Body(k, n)]
    <3> HIDE DEF Body, h
    <3> QED
      BY <2>4
  <2> HIDE DEF Body
  <2> QED
    BY <2>5
<1> HIDE DEF S
<1>3. N \in S
  BY <1>1, <1>2, NatInductionOnSet
<1>4. PICK f : f = [n \in 0..N |-> Body(f, n)]
  BY <1>3 DEF S
<1>5. RunOf(g, c) = [n \in 0..N |-> Body(RunOf(g, c), n)]
  BY <1>4 DEF RunOf
<1> HIDE DEF Body
<1>6. \A n \in 0..N : RunOf(g, c)[n] = Body(RunOf(g, c), n)
  BY <1>5
<1>7. 0 \in 0..N /\ \A n \in 1..N : n \in 0..N /\ n # 0
  OBVIOUS
<1> QED
  BY <1>6, <1>7 DEF Body

(* Once unfolded, and stated so that it unfolds no further.                *)
Follows(m, n) == n = m + 1

LEMMA RunStart ==
  ASSUME NEW g, NEW c, Len(c) \in Nat
  PROVE  RunOf(g, c)[0] = StartOf(g)
BY RunUnfolds

LEMMA RunStep ==
  ASSUME NEW g, NEW c, Len(c) \in Nat, NEW n \in 1..Len(c), NEW m \in Nat, Follows(m, n)
  PROVE  RunOf(g, c)[n] = Executed(g, RunOf(g, c)[m], c[n])
<1>1. RunOf(g, c)[n] = Executed(g, RunOf(g, c)[n - 1], c[n])
  BY RunUnfolds, Zenon
<1>2. n - 1 = m
  BY DEF Follows
<1> QED
  BY <1>1, <1>2

AfterChild(p, f, c) ==
  LET node == p[c]
      env == f[c - 1]
  IN  IF node.kind = "VariableDefinition"
      THEN AssignTo(env, <<node.name>>, node.value)
      ELSE AssignTo(env, node.targets, Evaluate(env)[node.expr])

LEMMA AfterUnfolds ==
  ASSUME NEW p, NEW D, Len(p) \in Nat
  PROVE  /\ AfterOf(p, D)[0] = [n \in D |-> Null]
         /\ \A c \in 1..Len(p) : AfterOf(p, D)[c] = AfterChild(p, AfterOf(p, D), c)
<1> DEFINE N == Len(p)
           Body(f, c) == IF c = 0 THEN [n \in D |-> Null] ELSE AfterChild(p, f, c)
           S == {m \in Nat : \E f : f = [c \in 0..m |-> Body(f, c)]}
<1>1. 0 \in S
  <2> DEFINE f == [c \in 0..0 |-> [n \in D |-> Null]]
  <2>1. f = [c \in 0..0 |-> Body(f, c)]
    OBVIOUS
  <2> QED
    BY <2>1
<1>2. ASSUME NEW m \in Nat, m \in S
      PROVE  m + 1 \in S
  <2>1. PICK f : f = [c \in 0..m |-> Body(f, c)]
    BY <1>2
  <2> DEFINE h == [c \in 0..m + 1 |-> Body(f, c)]
  <2>2. \A c \in 0..m : h[c] = f[c]
    <3> HIDE DEF Body
    <3> QED
      BY <2>1
  <2>3. ASSUME NEW c \in 0..m + 1
        PROVE  Body(f, c) = Body(h, c)
    <3>1. CASE c = 0
      BY <3>1
    <3>2. CASE c # 0
      <4>1. c - 1 \in 0..m
        BY <3>2
      <4>2. h[c - 1] = f[c - 1]
        BY <2>2, <4>1
      <4> HIDE DEF h
      <4>3. AfterChild(p, f, c) = AfterChild(p, h, c)
        BY <4>2 DEF AfterChild
      <4> QED
        BY <3>2, <4>3
    <3> QED
      BY <3>1, <3>2
  <2>4. h = [c \in 0..m + 1 |-> Body(h, c)]
    <3> HIDE DEF Body
    <3> QED
      BY <2>3
  <2>5. \E k : k = [c \in 0..m + 1 |-> Body(k, c)]
    <3> HIDE DEF Body, h
    <3> QED
      BY <2>4
  <2> HIDE DEF Body
  <2> QED
    BY <2>5
<1> HIDE DEF S
<1>3. N \in S
  BY <1>1, <1>2, NatInductionOnSet
<1>4. PICK f : f = [c \in 0..N |-> Body(f, c)]
  BY <1>3 DEF S
<1>5. AfterOf(p, D) = [c \in 0..N |-> Body(AfterOf(p, D), c)]
  BY <1>4 DEF AfterOf, AfterChild
<1> HIDE DEF Body
<1>6. \A c \in 0..N : AfterOf(p, D)[c] = Body(AfterOf(p, D), c)
  BY <1>5
<1>7. 0 \in 0..N /\ \A c \in 1..N : c \in 0..N /\ c # 0
  OBVIOUS
<1> QED
  BY <1>6, <1>7 DEF Body

LEMMA AfterStart ==
  ASSUME NEW p, NEW D, Len(p) \in Nat
  PROVE  AfterOf(p, D)[0] = [n \in D |-> Null]
BY AfterUnfolds

LEMMA AfterStep ==
  ASSUME NEW p, NEW D, Len(p) \in Nat, NEW c \in 1..Len(p), NEW b \in Nat, Follows(b, c),
         NEW env, env = AfterOf(p, D)[b]
  PROVE  /\ p[c].kind = "VariableDefinition" =>
              AfterOf(p, D)[c] = AssignTo(env, <<p[c].name>>, p[c].value)
         /\ p[c].kind # "VariableDefinition" =>
              AfterOf(p, D)[c] = AssignTo(env, p[c].targets, Evaluate(env)[p[c].expr])
<1> DEFINE f == AfterOf(p, D)
           x == p[c]
<1>1. f[c] = AfterChild(p, f, c)
  <2>1. \A d \in 1..Len(p) : AfterOf(p, D)[d] = AfterChild(p, AfterOf(p, D), d)
    BY AfterUnfolds, Zenon
  <2> QED
    BY <2>1, Zenon
<1>2. AfterChild(p, f, c) = IF x.kind = "VariableDefinition"
                            THEN AssignTo(f[c - 1], <<x.name>>, x.value)
                            ELSE AssignTo(f[c - 1], x.targets, Evaluate(f[c - 1])[x.expr])
  BY DEF AfterChild
<1>3. f[c - 1] = env
  BY DEF Follows
<1> HIDE DEF f, x
<1>4. f[c] = IF x.kind = "VariableDefinition"
             THEN AssignTo(env, <<x.name>>, x.value)
             ELSE AssignTo(env, x.targets, Evaluate(env)[x.expr])
  BY <1>1, <1>2, <1>3
<1> QED
  BY <1>4 DEF f, x

LEMMA AfterDomain ==
  ASSUME NEW p, NEW D, Len(p) \in Nat, NEW c \in 0..Len(p)
  PROVE  DOMAIN AfterOf(p, D)[c] = D
<1> DEFINE S == {n \in Nat : n <= Len(p) => DOMAIN AfterOf(p, D)[n] = D}
<1>1. 0 \in S
  <2>1. AfterOf(p, D)[0] = [n \in D |-> Null]
    BY AfterStart
  <2> QED
    BY <2>1
<1>2. ASSUME NEW n \in Nat, n \in S
      PROVE  n + 1 \in S
  <2> SUFFICES ASSUME n + 1 <= Len(p) PROVE DOMAIN AfterOf(p, D)[n + 1] = D
    OBVIOUS
  <2>1. PICK m \in 1..Len(p) : m = n + 1 /\ Follows(n, m) /\ n <= Len(p)
    BY DEF Follows
  <2> DEFINE env == AfterOf(p, D)[n]
             r == AfterOf(p, D)[m]
  <2>2. DOMAIN env = D
    BY <1>2, <2>1
  <2>3. \/ r = AssignTo(env, <<p[m].name>>, p[m].value)
        \/ r = AssignTo(env, p[m].targets, Evaluate(env)[p[m].expr])
    BY <2>1, AfterStep
  <2> HIDE DEF env, r
  <2>4. \A ts, v : DOMAIN AssignTo(env, ts, v) = D
    BY <2>2 DEF AssignTo
  <2>5. DOMAIN r = D
    BY <2>3, <2>4
  <2> QED
    BY <2>1, <2>5 DEF r
<1> HIDE DEF S
<1>3. Nat \subseteq S
  BY <1>1, <1>2, NatInductionOnSet
<1> QED
  BY <1>3 DEF S

(* The value of an expression, from the values of its operands.  Values are*)
(* of no set, so TreeRecursion does not apply; the sizes do.               *)
ValueOfNode(env, f, e) ==
  CASE e.kind = "Identifier" -> env[e.name]
    [] e.kind = "GroupingExpression" /\ e.expr # Null -> f[e.expr]
    [] e.kind = "BinaryExpression" -> Operation(e.op, f[e.lhs], f[e.rhs])
    [] OTHER -> e

LEMMA ValueIsLocal ==
  ASSUME NEW env, NEW f, NEW h, NEW e \in Expressions, \A o \in Inner(e) : f[o] = h[o]
  PROVE  ValueOfNode(env, f, e) = ValueOfNode(env, h, e)
<1>1. CASE e.kind = "Identifier"
  BY <1>1 DEF ValueOfNode
<1>2. CASE e.kind = "GroupingExpression"
  <2>1. CASE e.expr # Null
    <3>1. f[e.expr] = h[e.expr]
      BY <1>2, <2>1, InnerFacts
    <3> QED
      BY <1>2, <2>1, <3>1 DEF ValueOfNode
  <2>2. CASE e.expr = Null
    BY <1>2, <2>2 DEF ValueOfNode
  <2> QED
    BY <2>1, <2>2
<1>3. CASE e.kind = "BinaryExpression"
  <2>1. f[e.lhs] = h[e.lhs] /\ f[e.rhs] = h[e.rhs]
    BY <1>3, InnerFacts
  <2> QED
    BY <1>3, <2>1 DEF ValueOfNode
<1>4. CASE e.kind \notin {"Identifier", "GroupingExpression", "BinaryExpression"}
  BY <1>4 DEF ValueOfNode
<1> QED
  BY <1>1, <1>2, <1>3, <1>4

Smaller(n) == {e \in Expressions : Size[e] < n}

ValuesUpTo(env, n, f) == f = [e \in Smaller(n) |-> ValueOfNode(env, f, e)]

LEMMA ValuesAgree ==
  ASSUME NEW env, NEW n \in Nat, NEW m \in Nat, m <= n,
         NEW f, ValuesUpTo(env, n, f), NEW h, ValuesUpTo(env, m, h)
  PROVE  \A e \in Smaller(m) : f[e] = h[e]
<1> DEFINE S == {e \in Expressions : Size[e] < m => f[e] = h[e]}
<1>1. ASSUME NEW e \in Expressions, Inner(e) \subseteq S
      PROVE  e \in S
  <2> SUFFICES ASSUME Size[e] < m PROVE f[e] = h[e]
    OBVIOUS
  <2>1. Size[e] \in Nat /\ \A o \in Inner(e) : Size[o] \in Nat /\ Size[o] < Size[e]
    BY ExpressionsAreTrees, InnerFacts
  <2>2. \A o \in Inner(e) : f[o] = h[o]
    BY <1>1, <2>1
  <2>3. ValueOfNode(env, f, e) = ValueOfNode(env, h, e)
    BY <2>2, ValueIsLocal
  <2>4. e \in Smaller(n) /\ e \in Smaller(m)
    BY <2>1 DEF Smaller
  <2>5. f[e] = ValueOfNode(env, f, e) /\ h[e] = ValueOfNode(env, h, e)
    BY <2>4 DEF ValuesUpTo
  <2> QED
    BY <2>3, <2>5
<1> HIDE DEF S
<1>2. Expressions \subseteq S
  BY <1>1, TreeInduction
<1> QED
  BY <1>2 DEF S, Smaller

LEMMA ValuesExist ==
  ASSUME NEW env
  PROVE  \A n \in Nat : \E f : ValuesUpTo(env, n, f)
<1> DEFINE S == {n \in Nat : \E f : ValuesUpTo(env, n, f)}
<1>1. 0 \in S
  <2> DEFINE f == [e \in Smaller(0) |-> Null]
  <2>1. Smaller(0) = {}
    BY ExpressionsAreTrees DEF Smaller
  <2>2. f = [e \in Smaller(0) |-> ValueOfNode(env, f, e)]
    BY <2>1
  <2>3. ValuesUpTo(env, 0, f)
    <3> HIDE DEF f
    <3> QED
      BY <2>2 DEF ValuesUpTo
  <2> QED
    BY <2>3
<1>2. ASSUME NEW n \in Nat, n \in S
      PROVE  n + 1 \in S
  <2>1. PICK f : ValuesUpTo(env, n, f)
    BY <1>2
  <2> DEFINE h == [e \in Smaller(n + 1) |-> ValueOfNode(env, f, e)]
  <2>2. \A e \in Smaller(n) : h[e] = f[e]
    <3>1. \A e \in Smaller(n) : f[e] = ValueOfNode(env, f, e)
      BY <2>1 DEF ValuesUpTo
    <3>2. Smaller(n) \subseteq Smaller(n + 1)
      BY ExpressionsAreTrees DEF Smaller
    <3> QED
      BY <3>1, <3>2
  <2> HIDE DEF h
  <2>3. ASSUME NEW e \in Smaller(n + 1)
        PROVE  ValueOfNode(env, f, e) = ValueOfNode(env, h, e)
    <3>1. e \in Expressions /\ \A o \in Inner(e) : o \in Smaller(n)
      BY ExpressionsAreTrees, InnerFacts DEF Smaller
    <3>2. \A o \in Inner(e) : f[o] = h[o]
      BY <2>2, <3>1
    <3> QED
      BY <3>1, <3>2, ValueIsLocal
  <2>4. ValuesUpTo(env, n + 1, h)
    BY <2>3 DEF ValuesUpTo, h
  <2> QED
    BY <2>4
<1> HIDE DEF S
<1>3. Nat \subseteq S
  BY <1>1, <1>2, NatInductionOnSet
<1> QED
  BY <1>3 DEF S

LEMMA EvaluateUnfolds ==
  ASSUME NEW env, NEW e \in Expressions
  PROVE  Evaluate(env)[e] = ValueOfNode(env, Evaluate(env), e)
<1> DEFINE fix(n) == CHOOSE f : ValuesUpTo(env, n, f)
           F == [d \in Expressions |-> fix(Size[d] + 1)[d]]
<1>1. \A n \in Nat : ValuesUpTo(env, n, fix(n))
  BY ValuesExist
<1> HIDE DEF fix
<1>2. ASSUME NEW d \in Expressions
      PROVE  F[d] = ValueOfNode(env, F, d)
  <2>1. PICK n \in Nat : n = Size[d] + 1 /\ Size[d] < n
    BY ExpressionsAreTrees
  <2>2. ValuesUpTo(env, n, fix(n))
    BY <1>1
  <2>3. ASSUME NEW o \in Inner(d)
        PROVE  fix(n)[o] = F[o]
    <3>1. o \in Expressions /\ Size[o] \in Nat /\ Size[o] < Size[d]
      BY ExpressionsAreTrees, InnerFacts
    <3>2. PICK m \in Nat : m = Size[o] + 1 /\ m <= n /\ Size[o] < m
      BY <2>1, <3>1, ExpressionsAreTrees
    <3>3. ValuesUpTo(env, m, fix(m))
      BY <1>1
    <3>4. o \in Smaller(m)
      BY <3>1, <3>2 DEF Smaller
    <3>5. \A x \in Smaller(m) : fix(n)[x] = fix(m)[x]
      BY <2>2, <3>2, <3>3, ValuesAgree
    <3>6. F[o] = fix(m)[o]
      BY <3>1, <3>2
    <3> QED
      BY <3>4, <3>5, <3>6
  <2>4. d \in Smaller(n)
    BY <2>1 DEF Smaller
  <2>5. fix(n)[d] = ValueOfNode(env, fix(n), d)
    BY <2>2, <2>4 DEF ValuesUpTo
  <2>6. F[d] = fix(n)[d]
    BY <2>1
  <2> HIDE DEF F
  <2>7. ValueOfNode(env, fix(n), d) = ValueOfNode(env, F, d)
    BY <2>3, ValueIsLocal
  <2> QED
    BY <2>5, <2>6, <2>7
<1>3. F = [d \in Expressions |-> ValueOfNode(env, F, d)]
  <2>1. F = [d \in Expressions |-> F[d]]
    OBVIOUS
  <2> HIDE DEF F
  <2> QED
    BY <1>2, <2>1
<1> HIDE DEF F
<1>4. PICK f : f = [d \in Expressions |-> ValueOfNode(env, f, d)]
  BY <1>3
<1>5. Evaluate(env) = [d \in Expressions |-> ValueOfNode(env, Evaluate(env), d)]
  BY <1>4 DEF Evaluate, ValueOfNode
<1> QED
  BY <1>5

LEMMA EvaluateByKind ==
  ASSUME NEW env, NEW e \in Expressions
  PROVE  /\ e.kind = "Literal" => Evaluate(env)[e] = e
         /\ e.kind = "Identifier" => Evaluate(env)[e] = env[e.name]
         /\ e.kind = "GroupingExpression" /\ e.expr # Null =>
              Evaluate(env)[e] = Evaluate(env)[e.expr]
         /\ e.kind = "BinaryExpression" =>
              Evaluate(env)[e] = Operation(e.op, Evaluate(env)[e.lhs], Evaluate(env)[e.rhs])
BY EvaluateUnfolds DEF ValueOfNode

----------------------------------------------------------------------------
(* A run.                                                                  *)

(* A state of a run over m globals after n instructions.                   *)
IsState(s, m, n) ==
  /\ s = [memory |-> s.memory, results |-> s.results]
  /\ s.memory = [a \in 1..m |-> s.memory[a]]
  /\ IsList(s.results, n)

LEMMA StartIsState ==
  ASSUME NEW g
  PROVE  IsState(StartOf(g), Len(g), 0)
BY EmptyList DEF IsState, StartOf

State(memory, results) == [memory |-> memory, results |-> results]

LEMMA StateParts ==
  ASSUME NEW x, NEW y
  PROVE  State(x, y).memory = x /\ State(x, y).results = y
BY DEF State

LEMMA ResultsOf ==
  ASSUME NEW s, NEW m, NEW n, IsState(s, m, n), NEW v
  PROVE  [s EXCEPT !.results = v] = State(s.memory, v)
<1>1. s = [memory |-> s.memory, results |-> s.results]
  BY DEF IsState
<1> QED
  BY <1>1 DEF State

LEMMA OperatorsAreOther ==
  ASSUME NEW op \in Operators
  PROVE  op # "load" /\ op # "store" /\ op # "ret"
BY DEF Operators, Logical, Comparing, Arithmetic

LEMMA ExecutedLoad ==
  ASSUME NEW g, NEW m, NEW n, NEW s, IsState(s, m, n), NEW i, i.op = "load"
  PROVE  Executed(g, s, i) = State(s.memory, Append(s.results, s.memory[i.args[1].at]))
<1> DEFINE r == Append(s.results, s.memory[i.args[1].at])
<1>1. Executed(g, s, i) = [s EXCEPT !.results = r]
  BY DEF Executed
<1> HIDE DEF r
<1>2. Executed(g, s, i) = State(s.memory, r)
  BY <1>1, ResultsOf
<1> QED
  BY <1>2 DEF r

LEMMA ExecutedStore ==
  ASSUME NEW g, NEW s, NEW i, i.op = "store"
  PROVE  Executed(g, s, i) =
           State([s.memory EXCEPT ![i.args[2].at] = Operand(g, s, i.args[1])],
                 Append(s.results, Null))
BY DEF Executed, State

LEMMA ExecutedRet ==
  ASSUME NEW g, NEW m, NEW n, NEW s, IsState(s, m, n), NEW i, i.op = "ret"
  PROVE  Executed(g, s, i) = State(s.memory, Append(s.results, Null))
<1> DEFINE r == Append(s.results, Null)
<1>1. Executed(g, s, i) = [s EXCEPT !.results = r]
  BY DEF Executed
<1> HIDE DEF r
<1>2. Executed(g, s, i) = State(s.memory, r)
  BY <1>1, ResultsOf
<1> QED
  BY <1>2 DEF r

LEMMA ExecutedOperation ==
  ASSUME NEW g, NEW m, NEW n, NEW s, IsState(s, m, n), NEW i, i.op \in Operators
  PROVE  Executed(g, s, i) =
           State(s.memory,
                 Append(s.results,
                   Operation(i.op, Operand(g, s, i.args[1]), Operand(g, s, i.args[2]))))
<1> DEFINE x == Operation(i.op, Operand(g, s, i.args[1]), Operand(g, s, i.args[2]))
           r == Append(s.results, x)
<1>1. i.op # "load" /\ i.op # "store" /\ i.op # "ret"
  BY OperatorsAreOther
<1>2. Executed(g, s, i) = [s EXCEPT !.results = r]
  BY <1>1 DEF Executed
<1> HIDE DEF r, x
<1>3. Executed(g, s, i) = State(s.memory, r)
  BY <1>2, ResultsOf
<1> QED
  BY <1>3 DEF r, x

LEMMA StateIsState ==
  ASSUME NEW m, NEW n \in Nat, NEW r, IsList(r, n), NEW v,
         NEW x, x = [a \in 1..m |-> x[a]]
  PROVE  IsState(State(x, Append(r, v)), m, n + 1)
<1> DEFINE t == State(x, Append(r, v))
<1>1. t.memory = x /\ t.results = Append(r, v)
  BY StateParts
<1>2. t = [memory |-> t.memory, results |-> t.results]
  BY DEF State
<1>3. IsList(Append(r, v), n + 1)
  BY LongerList DEF Longer
<1> HIDE DEF t
<1> QED
  BY <1>1, <1>2, <1>3 DEF IsState, t

LEMMA ExecutedIsState ==
  ASSUME NEW g, NEW m, NEW n \in Nat, NEW s, IsState(s, m, n), NEW i, i.op \in Operations
  PROVE  IsState(Executed(g, s, i), m, n + 1)
<1>1. s.memory = [a \in 1..m |-> s.memory[a]] /\ IsList(s.results, n)
  BY DEF IsState
<1>2. \A v : IsState(State(s.memory, Append(s.results, v)), m, n + 1)
  BY <1>1, StateIsState
<1>3. \A a, b, v :
        IsState(State([s.memory EXCEPT ![a] = b], Append(s.results, v)), m, n + 1)
  <2> TAKE a, b, v
  <2> DEFINE x == [s.memory EXCEPT ![a] = b]
  <2>1. x = [e \in 1..m |-> x[e]]
    BY <1>1
  <2> HIDE DEF x
  <2>2. IsState(State(x, Append(s.results, v)), m, n + 1)
    BY <1>1, <2>1, StateIsState
  <2> QED
    BY <2>2 DEF x
<1>4. CASE i.op = "store"
  <2>1. Executed(g, s, i) =
          State([s.memory EXCEPT ![i.args[2].at] = Operand(g, s, i.args[1])],
                Append(s.results, Null))
    BY <1>4, ExecutedStore
  <2> QED
    BY <1>3, <2>1
<1>5. CASE i.op = "load"
  BY <1>2, <1>5, ExecutedLoad
<1>6. CASE i.op = "ret"
  BY <1>2, <1>6, ExecutedRet
<1>7. CASE i.op \in Operators
  BY <1>2, <1>7, ExecutedOperation
<1> QED
  BY <1>4, <1>5, <1>6, <1>7 DEF Operations

LEMMA RunStates ==
  ASSUME NEW g, NEW c, Len(c) \in Nat, PlainCode(c, Len(g))
  PROVE  \A n \in 0..Len(c) : IsState(RunOf(g, c)[n], Len(g), n)
<1> DEFINE S == {n \in Nat : n <= Len(c) => IsState(RunOf(g, c)[n], Len(g), n)}
<1>1. 0 \in S
  <2>1. RunOf(g, c)[0] = StartOf(g)
    BY RunStart
  <2>2. IsState(StartOf(g), Len(g), 0)
    BY StartIsState
  <2> QED
    BY <2>1, <2>2
<1>2. ASSUME NEW n \in Nat, n \in S
      PROVE  n + 1 \in S
  <2> SUFFICES ASSUME n + 1 <= Len(c) PROVE IsState(RunOf(g, c)[n + 1], Len(g), n + 1)
    OBVIOUS
  <2>1. PICK m \in 1..Len(c) : m = n + 1 /\ Follows(n, m) /\ n <= Len(c)
    BY DEF Follows
  <2>3. RunOf(g, c)[m] = Executed(g, RunOf(g, c)[n], c[m])
    BY <2>1, RunStep
  <2>4. IsState(RunOf(g, c)[n], Len(g), n) /\ c[m].op \in Operations
    BY <1>2, <2>1 DEF PlainCode, PlainInstruction
  <2>5. IsState(Executed(g, RunOf(g, c)[n], c[m]), Len(g), n + 1)
    BY <2>4, ExecutedIsState
  <2> QED
    BY <2>1, <2>3, <2>5
<1> HIDE DEF S
<1>3. Nat \subseteq S
  BY <1>1, <1>2, NatInductionOnSet
<1> QED
  BY <1>3 DEF S

(* A run of more instructions over more globals does the same at first: the*)
(* same results, the same memory where there was memory, and the initial   *)
(* values elsewhere.                                                       *)
SameRun(s, t, m, start) ==
  /\ t.results = s.results
  /\ \A a \in 1..m : t.memory[a] = s.memory[a]
  /\ \A a \in DOMAIN t.memory : a \notin 1..m => t.memory[a] = start.memory[a]

LEMMA PlainOperand ==
  ASSUME NEW g, NEW h, NEW s, NEW t, s.results = t.results, NEW v, Plain(v)
  PROVE  Operand(g, s, v) = Operand(h, t, v) /\ Operand(g, s, v) = Denotes(s, v)
BY DEF Plain, Operand, Denotes

LEMMA ExecutedSame ==
  ASSUME NEW g, NEW h, NEW m, NEW k, NEW n,
         1..m \subseteq 1..k,
         NEW s, IsState(s, m, n), NEW t, IsState(t, k, n), NEW start, SameRun(s, t, m, start),
         NEW i, PlainInstruction(i, m),
         NEW x, x = Executed(g, s, i), NEW y, y = Executed(h, t, i)
  PROVE  SameRun(x, y, m, start)
<1>1. /\ t.results = s.results
      /\ \A a \in 1..m : t.memory[a] = s.memory[a]
      /\ \A a \in DOMAIN t.memory : a \notin 1..m => t.memory[a] = start.memory[a]
      /\ DOMAIN s.memory = 1..m /\ DOMAIN t.memory = 1..k
  BY DEF SameRun, IsState
<1>2. \A v, w : State(v, w).memory = v /\ State(v, w).results = w
  BY StateParts
<1>3. CASE i.op = "load"
  <2> DEFINE a == i.args[1].at
  <2>1. a \in 1..m
    BY <1>3 DEF PlainInstruction, Address
  <2>2. x = State(s.memory, Append(s.results, s.memory[a]))
    BY <1>3, ExecutedLoad
  <2>3. y = State(t.memory, Append(t.results, t.memory[a]))
    BY <1>3, ExecutedLoad
  <2>4. s.memory[a] = t.memory[a]
    BY <1>1, <2>1
  <2> HIDE DEF a
  <2>5. x.memory = s.memory /\ y.memory = t.memory /\ y.results = x.results
    BY <1>1, <1>2, <2>2, <2>3, <2>4
  <2> QED
    BY <1>1, <2>5 DEF SameRun
<1>4. CASE i.op = "store"
  <2> DEFINE b == i.args[2].at
             v == Operand(g, s, i.args[1])
             w == Operand(h, t, i.args[1])
  <2>1. b \in 1..m /\ Plain(i.args[1])
    BY <1>4 DEF PlainInstruction, Address
  <2>2. x = State([s.memory EXCEPT ![b] = v], Append(s.results, Null))
    BY <1>4, ExecutedStore
  <2>3. y = State([t.memory EXCEPT ![b] = w], Append(t.results, Null))
    BY <1>4, ExecutedStore
  <2>4. v = w
    BY <1>1, <2>1, PlainOperand
  <2> HIDE DEF b, v, w
  <2>5. /\ x.memory = [s.memory EXCEPT ![b] = v] /\ y.memory = [t.memory EXCEPT ![b] = v]
        /\ y.results = x.results
    BY <1>1, <1>2, <2>2, <2>3, <2>4
  <2>6. \A a \in 1..m : y.memory[a] = x.memory[a]
    BY <1>1, <2>5
  <2>7. \A a \in DOMAIN y.memory : a \notin 1..m => y.memory[a] = start.memory[a]
    BY <1>1, <2>1, <2>5
  <2> QED
    BY <2>5, <2>6, <2>7 DEF SameRun
<1>5. CASE i.op = "ret"
  <2>1. x = State(s.memory, Append(s.results, Null))
    BY <1>5, ExecutedRet
  <2>2. y = State(t.memory, Append(t.results, Null))
    BY <1>5, ExecutedRet
  <2>3. x.memory = s.memory /\ y.memory = t.memory /\ y.results = x.results
    BY <1>1, <1>2, <2>1, <2>2
  <2> QED
    BY <1>1, <2>3 DEF SameRun
<1>6. CASE i.op \in Operators
  <2> DEFINE v == Operation(i.op, Operand(g, s, i.args[1]), Operand(g, s, i.args[2]))
             w == Operation(i.op, Operand(h, t, i.args[1]), Operand(h, t, i.args[2]))
  <2>1. Plain(i.args[1]) /\ Plain(i.args[2])
    BY <1>6 DEF PlainInstruction
  <2>2. x = State(s.memory, Append(s.results, v))
    BY <1>6, ExecutedOperation
  <2>3. y = State(t.memory, Append(t.results, w))
    BY <1>6, ExecutedOperation
  <2>4. v = w
    <3>1. Operand(g, s, i.args[1]) = Operand(h, t, i.args[1])
      BY <1>1, <2>1, PlainOperand
    <3>2. Operand(g, s, i.args[2]) = Operand(h, t, i.args[2])
      BY <1>1, <2>1, PlainOperand
    <3> QED
      BY <3>1, <3>2
  <2> HIDE DEF v, w
  <2>5. x.memory = s.memory /\ y.memory = t.memory /\ y.results = x.results
    BY <1>1, <1>2, <2>2, <2>3, <2>4
  <2> QED
    BY <1>1, <2>5 DEF SameRun
<1>7. i.op \in Operations
  BY DEF PlainInstruction
<1> QED
  BY <1>3, <1>4, <1>5, <1>6, <1>7 DEF Operations

LEMMA RunLater ==
  ASSUME NEW g, NEW h, NEW c, NEW d,
         Len(c) \in Nat, Len(d) \in Nat, Len(g) \in Nat, Len(h) \in Nat, Len(g) <= Len(h),
         \A i \in 1..Len(g) : h[i] = g[i],
         Extended(c, d), PlainCode(c, Len(g)), PlainCode(d, Len(h))
  PROVE  \A n \in 0..Len(c) : SameRun(RunOf(g, c)[n], RunOf(h, d)[n], Len(g), StartOf(h))
<1> DEFINE m == Len(g)
           k == Len(h)
           f == RunOf(g, c)
           r == RunOf(h, d)
           S == {n \in Nat : n <= Len(c) => SameRun(f[n], r[n], m, StartOf(h))}
<1>1. 1..m \subseteq 1..k
  OBVIOUS
<1>2. /\ \A n \in 0..Len(c) : IsState(f[n], m, n)
      /\ \A n \in 0..Len(d) : IsState(r[n], k, n)
  BY RunStates
<1>3. 0 \in S
  <2>1. f[0] = StartOf(g)
    BY RunStart
  <2>2. r[0] = StartOf(h)
    BY RunStart
  <2>3. SameRun(StartOf(g), StartOf(h), m, StartOf(h))
    BY <1>1 DEF SameRun, StartOf
  <2> QED
    BY <2>1, <2>2, <2>3
<1>4. ASSUME NEW n \in Nat, n \in S
      PROVE  n + 1 \in S
  <2> SUFFICES ASSUME n + 1 <= Len(c) PROVE SameRun(f[n + 1], r[n + 1], m, StartOf(h))
    OBVIOUS
  <2>1. PICK j \in 1..Len(c) : j = n + 1 /\ Follows(n, j) /\ n <= Len(c) /\ n \in 0..Len(c)
    BY DEF Follows
  <2>2. j \in 1..Len(d) /\ d[j] = c[j] /\ n \in 0..Len(d)
    BY <2>1 DEF Extended
  <2>3. f[j] = Executed(g, f[n], c[j])
    BY <2>1, RunStep
  <2>4. r[j] = Executed(h, r[n], d[j])
    BY <2>1, <2>2, RunStep
  <2>5. f[j] = Executed(g, f[n], c[j]) /\ r[j] = Executed(h, r[n], c[j])
    BY <2>2, <2>3, <2>4
  <2>6. IsState(f[n], m, n) /\ IsState(r[n], k, n) /\ SameRun(f[n], r[n], m, StartOf(h))
    BY <1>2, <1>4, <2>1, <2>2
  <2>7. PlainInstruction(c[j], m)
    BY <2>1 DEF PlainCode
  <2> HIDE DEF f, r, m, k
  <2>8. SameRun(Executed(g, f[n], c[j]), Executed(h, r[n], c[j]), m, StartOf(h))
    BY <1>1, <2>6, <2>7, ExecutedSame
  <2> QED
    BY <2>1, <2>5, <2>8
<1> HIDE DEF S
<1>5. Nat \subseteq S
  BY <1>3, <1>4, NatInductionOnSet
<1> QED
  BY <1>5 DEF S

LEMMA SameStates ==
  ASSUME NEW m, NEW n, NEW s, IsState(s, m, n), NEW t, IsState(t, m, n),
         NEW start, SameRun(s, t, m, start)
  PROVE  s = t
<1>1. /\ s = [memory |-> s.memory, results |-> s.results]
      /\ t = [memory |-> t.memory, results |-> t.results]
      /\ s.memory = [a \in 1..m |-> s.memory[a]]
      /\ t.memory = [a \in 1..m |-> t.memory[a]]
  BY DEF IsState
<1>2. t.results = s.results /\ \A a \in 1..m : t.memory[a] = s.memory[a]
  BY DEF SameRun
<1>3. s.memory = t.memory
  BY <1>1, <1>2
<1> QED
  BY <1>1, <1>2, <1>3

LEMMA ExtendedItself ==
  ASSUME NEW c, Len(c) \in Nat
  PROVE  Extended(c, c)
BY DEF Extended

LEMMA PlainLater ==
  ASSUME NEW c, NEW m \in Nat, NEW k \in Nat, m <= k, PlainCode(c, m)
  PROVE  PlainCode(c, k)
<1>1. \A v : Address(v, m) => Address(v, k)
  BY DEF Address
<1> QED
  BY <1>1 DEF PlainCode, PlainInstruction

(* More globals, and one more instruction.                                 *)
LEMMA FinalWithGlobals ==
  ASSUME NEW g, NEW h, NEW c,
         Len(c) \in Nat, Len(g) \in Nat, Len(h) \in Nat, Len(g) <= Len(h),
         \A i \in 1..Len(g) : h[i] = g[i], PlainCode(c, Len(g))
  PROVE  /\ SameRun(Final(g, c), Final(h, c), Len(g), StartOf(h))
         /\ IsState(Final(g, c), Len(g), Len(c)) /\ IsState(Final(h, c), Len(h), Len(c))
<1>1. Extended(c, c) /\ PlainCode(c, Len(h))
  BY ExtendedItself, PlainLater
<1>2. Len(c) \in 0..Len(c)
  OBVIOUS
<1>3. \A n \in 0..Len(c) : SameRun(RunOf(g, c)[n], RunOf(h, c)[n], Len(g), StartOf(h))
  BY <1>1, RunLater
<1>4. IsState(RunOf(g, c)[Len(c)], Len(g), Len(c))
  BY <1>2, RunStates
<1>5. IsState(RunOf(h, c)[Len(c)], Len(h), Len(c))
  BY <1>1, <1>2, RunStates
<1> QED
  BY <1>2, <1>3, <1>4, <1>5 DEF Final

LEMMA RunState ==
  ASSUME NEW g, NEW c, Len(c) \in Nat, PlainCode(c, Len(g)), NEW n \in 0..Len(c)
  PROVE  IsState(RunOf(g, c)[n], Len(g), n)
BY RunStates

LEMMA FinalIsState ==
  ASSUME NEW g, NEW c, Len(c) \in Nat, PlainCode(c, Len(g))
  PROVE  IsState(Final(g, c), Len(g), Len(c))
<1>1. Len(c) \in 0..Len(c)
  OBVIOUS
<1> QED
  BY <1>1, RunState DEF Final

LEMMA RunOfPrefix ==
  ASSUME NEW g, NEW c, NEW d, Len(c) \in Nat, Len(d) \in Nat, Len(g) \in Nat,
         Extended(c, d), PlainCode(c, Len(g)), PlainCode(d, Len(g))
  PROVE  RunOf(g, d)[Len(c)] = Final(g, c)
<1> DEFINE n == Len(c)
<1>1. n \in 0..Len(c) /\ n \in 0..Len(d)
  BY DEF Extended
<1>2. IsState(RunOf(g, c)[n], Len(g), n)
  BY <1>1, RunState
<1>3. IsState(RunOf(g, d)[n], Len(g), n)
  BY <1>1, RunState
<1>4. Len(g) <= Len(g) /\ \A k \in 1..Len(g) : g[k] = g[k]
  OBVIOUS
<1>5. \A k \in 0..Len(c) : SameRun(RunOf(g, c)[k], RunOf(g, d)[k], Len(g), StartOf(g))
  BY <1>4, RunLater
<1>6. RunOf(g, c)[n] = RunOf(g, d)[n]
  BY <1>1, <1>2, <1>3, <1>5, SameStates
<1> QED
  BY <1>6 DEF Final

LEMMA RunLast ==
  ASSUME NEW g, NEW d, NEW m, m \in Nat, Len(d) \in Nat, Follows(m, Len(d))
  PROVE  RunOf(g, d)[Len(d)] = Executed(g, RunOf(g, d)[m], d[Len(d)])
<1>1. Len(d) \in 1..Len(d)
  BY DEF Follows
<1>2. \A n \in 1..Len(d) : Follows(m, n) =>
        RunOf(g, d)[n] = Executed(g, RunOf(g, d)[m], d[n])
  BY RunStep, Zenon
<1> QED
  BY <1>1, <1>2

Listed(c) == IsList(c, Len(c)) /\ Len(c) \in Nat

LEMMA SeqIsListed ==
  ASSUME NEW T, NEW c \in Seq(T)
  PROVE  Listed(c)
<1> DEFINE A == {c[i] : i \in 1..Len(c)}
<1>1. c \in [1..Len(c) -> T] /\ Len(c) \in Nat
  BY SeqFunction
<1>2. c \in [1..Len(c) -> A]
  BY <1>1
<1>3. c \in Seq(A)
  BY <1>1, <1>2, SeqDef
<1> QED
  BY <1>1, <1>3 DEF Listed, IsList

(* The code d is the code c and the instruction i.                         *)
Adds(c, i, d) ==
  /\ Len(c) \in Nat /\ Len(d) \in Nat /\ Follows(Len(c), Len(d))
  /\ d[Len(d)] = i /\ Extended(c, d)

LEMMA AppendAdds ==
  ASSUME NEW c, Listed(c), NEW i, NEW d, Longer(c, i, d)
  PROVE  Adds(c, i, d) /\ Listed(d)
<1> DEFINE n == Len(c)
<1>1. IsList(c, n) /\ n \in Nat
  BY DEF Listed
<1> HIDE DEF n
<1>2. /\ IsList(d, n + 1) /\ \A k \in 1..n : d[k] = c[k]
      /\ d[n + 1] = i
  BY <1>1, LongerList
<1>3. Len(d) = n + 1
  BY <1>2 DEF IsList
<1> QED
  BY <1>1, <1>2, <1>3 DEF Adds, Listed, Follows, Extended, n

LEMMA FinalWithInstruction ==
  ASSUME NEW g, Len(g) \in Nat, NEW c, PlainCode(c, Len(g)),
         NEW i, PlainInstruction(i, Len(g)), NEW d, Adds(c, i, d)
  PROVE  /\ PlainCode(d, Len(g))
         /\ Final(g, d) = Executed(g, Final(g, c), i)
         /\ IsState(Final(g, c), Len(g), Len(c))
<1>1. /\ Len(c) \in Nat /\ Len(d) \in Nat /\ Extended(c, d)
      /\ Follows(Len(c), Len(d)) /\ d[Len(d)] = i
  BY DEF Adds
<1>2. PlainCode(d, Len(g))
  <2> SUFFICES ASSUME NEW k \in 1..Len(d) PROVE PlainInstruction(d[k], Len(g))
    BY DEF PlainCode
  <2>1. (k \in 1..Len(c) /\ d[k] = c[k]) \/ k = Len(d)
    BY <1>1 DEF Extended, Follows
  <2> QED
    BY <1>1, <2>1 DEF PlainCode
<1>3. RunOf(g, d)[Len(c)] = Final(g, c)
  BY <1>1, <1>2, RunOfPrefix
<1>4. RunOf(g, d)[Len(d)] = Executed(g, RunOf(g, d)[Len(c)], d[Len(d)])
  BY <1>1, RunLast
<1>5. IsState(Final(g, c), Len(g), Len(c))
  BY <1>1, FinalIsState
<1> QED
  BY <1>1, <1>2, <1>3, <1>4, <1>5 DEF Final

(* The results so far stay, and there is one more.                         *)
Continues(s, t, n) == \A k \in 1..n : t.results[k] = s.results[k]

LEMMA ResultAdded ==
  ASSUME NEW s, NEW m, NEW n \in Nat, IsState(s, m, n), NEW x, NEW v,
         NEW t, t = State(x, Append(s.results, v))
  PROVE  t.memory = x /\ Continues(s, t, n) /\ t.results[n + 1] = v
<1> DEFINE q == s.results
           r == t.results
<1>1. t.memory = x /\ Longer(q, v, r)
  BY StateParts DEF Longer
<1>2. IsList(q, n)
  BY DEF IsState
<1> HIDE DEF q, r
<1>3. /\ \A k \in 1..n : r[k] = q[k]
      /\ r[n + 1] = v
  BY <1>1, <1>2, LongerList
<1> QED
  BY <1>1, <1>3 DEF Continues, q, r

LEMMA FinalWithLoad ==
  ASSUME NEW g, Len(g) \in Nat, NEW c, PlainCode(c, Len(g)),
         NEW i, PlainInstruction(i, Len(g)), i.op = "load", NEW d, Adds(c, i, d),
         NEW s, s = Final(g, c), NEW t, t = Final(g, d)
  PROVE  /\ t.memory = s.memory /\ Continues(s, t, Len(c))
         /\ t.results[Len(c) + 1] = s.memory[i.args[1].at]
<1>1. t = Executed(g, s, i) /\ IsState(s, Len(g), Len(c)) /\ Len(c) \in Nat
  BY FinalWithInstruction DEF Adds
<1>2. t = State(s.memory, Append(s.results, s.memory[i.args[1].at]))
  BY <1>1, ExecutedLoad
<1> QED
  BY <1>1, <1>2, ResultAdded

LEMMA FinalWithStore ==
  ASSUME NEW g, Len(g) \in Nat, NEW c, PlainCode(c, Len(g)),
         NEW i, PlainInstruction(i, Len(g)), i.op = "store", NEW d, Adds(c, i, d),
         NEW s, s = Final(g, c), NEW t, t = Final(g, d)
  PROVE  /\ Continues(s, t, Len(c))
         /\ \A a \in 1..Len(g) :
              t.memory[a] = IF a = i.args[2].at THEN Denotes(s, i.args[1]) ELSE s.memory[a]
<1> DEFINE v == Denotes(s, i.args[1])
           x == [s.memory EXCEPT ![i.args[2].at] = v]
<1>1. t = Executed(g, s, i) /\ IsState(s, Len(g), Len(c)) /\ Len(c) \in Nat
  BY FinalWithInstruction DEF Adds
<1>2. Operand(g, s, i.args[1]) = v
  BY PlainOperand DEF PlainInstruction
<1>3. t = State(x, Append(s.results, Null))
  BY <1>1, <1>2, ExecutedStore
<1>4. DOMAIN s.memory = 1..Len(g)
  BY <1>1 DEF IsState
<1>5. \A a \in 1..Len(g) : x[a] = IF a = i.args[2].at THEN v ELSE s.memory[a]
  BY <1>4
<1> HIDE DEF x, v
<1>6. t.memory = x /\ Continues(s, t, Len(c))
  BY <1>1, <1>3, ResultAdded
<1> QED
  BY <1>5, <1>6 DEF v

LEMMA FinalWithOperation ==
  ASSUME NEW g, Len(g) \in Nat, NEW c, PlainCode(c, Len(g)),
         NEW i, PlainInstruction(i, Len(g)), i.op \in Operators, NEW d, Adds(c, i, d),
         NEW s, s = Final(g, c), NEW t, t = Final(g, d)
  PROVE  /\ t.memory = s.memory /\ Continues(s, t, Len(c))
         /\ t.results[Len(c) + 1] =
              Operation(i.op, Denotes(s, i.args[1]), Denotes(s, i.args[2]))
<1> DEFINE x == Operation(i.op, Operand(g, s, i.args[1]), Operand(g, s, i.args[2]))
<1>1. t = Executed(g, s, i) /\ IsState(s, Len(g), Len(c)) /\ Len(c) \in Nat
  BY FinalWithInstruction DEF Adds
<1>2. /\ Operand(g, s, i.args[1]) = Denotes(s, i.args[1])
      /\ Operand(g, s, i.args[2]) = Denotes(s, i.args[2])
  BY PlainOperand DEF PlainInstruction
<1>3. t = State(s.memory, Append(s.results, x))
  BY <1>1, ExecutedOperation
<1>4. x = Operation(i.op, Denotes(s, i.args[1]), Denotes(s, i.args[2]))
  BY <1>2
<1> HIDE DEF x
<1> QED
  BY <1>1, <1>3, <1>4, ResultAdded

LEMMA FinalWithRet ==
  ASSUME NEW g, Len(g) \in Nat, NEW c, PlainCode(c, Len(g)),
         NEW i, PlainInstruction(i, Len(g)), i.op = "ret", NEW d, Adds(c, i, d),
         NEW s, s = Final(g, c), NEW t, t = Final(g, d)
  PROVE  t.memory = s.memory /\ Continues(s, t, Len(c))
<1>1. t = Executed(g, s, i) /\ IsState(s, Len(g), Len(c)) /\ Len(c) \in Nat
  BY FinalWithInstruction DEF Adds
<1>2. t = State(s.memory, Append(s.results, Null))
  BY <1>1, ExecutedRet
<1> QED
  BY <1>1, <1>2, ResultAdded

(* What a value stands for does not change while the code grows.           *)
LEMMA DenotesLater ==
  ASSUME NEW n, NEW c, NEW v, Usable(v, n, c), NEW s, NEW t, Continues(s, t, Len(c))
  PROVE  Plain(v) => Denotes(t, v) = Denotes(s, v)
<1>1. v.kind = "instruction" => v.at \in 1..Len(c)
  BY DEF Usable, ValuesOf, Null
<1> QED
  BY <1>1 DEF Plain, Denotes, Continues

LEMMA LoadIsPlain ==
  ASSUME NEW i, i.op = "load", NEW n, Address(i.args[1], n)
  PROVE  PlainInstruction(i, n)
<1>1. i.op \notin Operators /\ i.op \in Operations /\ i.op # "store"
  BY OperatorsAreOther DEF Operations
<1> QED
  BY <1>1 DEF PlainInstruction

LEMMA StoreIsPlain ==
  ASSUME NEW i, i.op = "store", NEW n, Len(i.args) = 2, Plain(i.args[1]), Address(i.args[2], n)
  PROVE  PlainInstruction(i, n)
<1>1. i.op \notin Operators /\ i.op \in Operations /\ i.op # "load"
  BY OperatorsAreOther DEF Operations
<1> QED
  BY <1>1 DEF PlainInstruction

LEMMA OperationIsPlain ==
  ASSUME NEW i, i.op \in Operators, NEW n, Plain(i.args[1]), Plain(i.args[2])
  PROVE  PlainInstruction(i, n)
<1>1. i.op \in Operations /\ i.op # "load" /\ i.op # "store"
  BY OperatorsAreOther DEF Operations
<1> QED
  BY <1>1 DEF PlainInstruction

LEMMA RetIsPlain ==
  ASSUME NEW i, i.op = "ret", NEW n
  PROVE  PlainInstruction(i, n)
<1>1. i.op \notin Operators /\ i.op \in Operations /\ i.op # "load" /\ i.op # "store"
  BY OperatorsAreOther DEF Operations
<1> QED
  BY <1>1 DEF PlainInstruction

LEMMA CodeIsListed ==
  ASSUME NEW c, NEW n, CodeFine(c, n)
  PROVE  Listed(c)
BY SeqIsListed DEF CodeFine

LEMMA SameContinues ==
  ASSUME NEW s, NEW n
  PROVE  Continues(s, s, n)
BY DEF Continues

LEMMA ContinuesFurther ==
  ASSUME NEW s, NEW t, NEW u, NEW m, NEW n, 1..m \subseteq 1..n,
         Continues(s, t, m), Continues(t, u, n)
  PROVE  Continues(s, u, m)
BY DEF Continues

(* Loading a value gives what it held.                                     *)
LEMMA Loading ==
  ASSUME ModuleFine, PlainCode(code, Len(globals)), NEW v, Usable(v, Len(globals), code),
         v # Null, NEW s, s = Final(globals, code),
         NEW d, d = WithLoad(v), NEW t, t = Final(globals, d)
  PROVE  /\ PlainCode(d, Len(globals)) /\ t.memory = s.memory
         /\ Continues(s, t, Len(code))
         /\ Plain(Loaded(v)) /\ Denotes(t, Loaded(v)) = Holds(s, v)
<1>1. Listed(code) /\ Len(globals) \in Nat
  BY CodeIsListed DEF ModuleFine
<1>2. CASE v.kind = "global"
  <2> DEFINE i == [op |-> "load", type |-> globals[v.at].type, args |-> <<v>>]
             n == Len(code) + 1
  <2>1. d = Append(code, i) /\ Loaded(v) = Instruction(n)
    BY <1>2 DEF WithLoad, Loaded, Emit
  <2>2. i.op = "load" /\ i.args[1] = v
    OBVIOUS
  <2> HIDE DEF i
  <2>3. v.at \in 1..Len(globals)
    BY <1>2 DEF Usable, ValuesOf, Null
  <2>4. PlainInstruction(i, Len(globals))
    BY <1>2, <2>2, <2>3, LoadIsPlain DEF Address
  <2>5. Longer(code, i, d)
    BY <2>1 DEF Longer
  <2>6. Adds(code, i, d)
    BY <1>1, <2>5, AppendAdds
  <2>7. PlainCode(d, Len(globals))
    BY <1>1, <2>4, <2>6, FinalWithInstruction
  <2>8. /\ t.memory = s.memory /\ Continues(s, t, Len(code))
        /\ t.results[n] = s.memory[i.args[1].at]
    BY <1>1, <2>2, <2>4, <2>6, FinalWithLoad
  <2> HIDE DEF n
  <2>9. Plain(Instruction(n)) /\ Denotes(t, Instruction(n)) = t.results[n]
    BY DEF Plain, Denotes, Instruction
  <2>10. Holds(s, v) = s.memory[v.at]
    BY <1>2 DEF Holds
  <2>11. Denotes(t, Instruction(n)) = Holds(s, v)
    BY <2>2, <2>8, <2>9, <2>10
  <2>12. Plain(Loaded(v)) /\ Denotes(t, Loaded(v)) = Holds(s, v)
    BY <2>1, <2>9, <2>11
  <2> QED
    BY <2>7, <2>8, <2>12
<1>3. CASE v.kind # "global"
  <2>1. d = code /\ Loaded(v) = v /\ t = s
    BY <1>3 DEF WithLoad, Loaded
  <2>2. v.kind \in {"constant", "instruction"}
    BY <1>3 DEF Usable, ValuesOf
  <2> QED
    BY <1>3, <2>1, <2>2, SameContinues DEF Plain, Holds
<1> QED
  BY <1>2, <1>3

(* A binary operator's instructions give the operation on what the left    *)
(* operand stood for and the right one held.                               *)
LEMMA Operating ==
  ASSUME ModuleFine, PlainCode(code, Len(globals)),
         NEW l, Usable(l, Len(globals), code), Plain(l),
         NEW r, Usable(r, Len(globals), code), r # Null,
         NEW op \in Operators, NEW type, NEW s, s = Final(globals, code),
         NEW d, d = Emit(WithLoad(r), op, type, Arguments(l, Loaded(r))),
         NEW t, t = Final(globals, d), NEW v, v = Instruction(Len(WithLoad(r)) + 1)
  PROVE  /\ PlainCode(d, Len(globals)) /\ t.memory = s.memory
         /\ Continues(s, t, Len(code))
         /\ Plain(v) /\ Denotes(t, v) = Operation(op, Denotes(s, l), Holds(s, r))
<1> DEFINE w == WithLoad(r)
           u == Final(globals, w)
           i == [op |-> op, type |-> type, args |-> Arguments(l, Loaded(r))]
<1>1. Len(globals) \in Nat
  BY DEF ModuleFine
<1>2. /\ PlainCode(w, Len(globals)) /\ u.memory = s.memory /\ Continues(s, u, Len(code))
      /\ Plain(Loaded(r)) /\ Denotes(u, Loaded(r)) = Holds(s, r)
  BY Loading
<1>3. /\ CodeFine(w, Len(globals)) /\ Extended(code, w)
      /\ Len(code) \in Nat /\ Len(w) \in Nat
  BY LoadFine
<1>4. i.op = op /\ i.args[1] = l /\ i.args[2] = Loaded(r)
  BY DEF Arguments
<1>5. Longer(w, i, d)
  BY DEF Emit, Longer
<1>6. v = Instruction(Len(w) + 1)
  OBVIOUS
<1> HIDE DEF i, u, w
<1>7. PlainInstruction(i, Len(globals))
  BY <1>2, <1>4, OperationIsPlain
<1>8. Adds(w, i, d)
  BY <1>3, <1>5, CodeIsListed, AppendAdds
<1>9. PlainCode(d, Len(globals))
  BY <1>1, <1>2, <1>7, <1>8, FinalWithInstruction
<1>10. u = Final(globals, w)
  BY DEF u
<1>11. /\ t.memory = u.memory /\ Continues(u, t, Len(w))
       /\ t.results[Len(w) + 1] = Operation(i.op, Denotes(u, i.args[1]), Denotes(u, i.args[2]))
  BY <1>1, <1>2, <1>4, <1>7, <1>8, <1>10, FinalWithOperation
<1>12. Continues(s, t, Len(code))
  <2>1. 1..Len(code) \subseteq 1..Len(w)
    BY <1>3 DEF Extended
  <2> QED
    BY <1>2, <1>11, <2>1, ContinuesFurther
<1>13. Denotes(u, l) = Denotes(s, l)
  BY <1>2, DenotesLater
<1> DEFINE n == Len(w) + 1
<1>14. v = Instruction(n) /\ t.results[n] = Operation(op, Denotes(s, l), Holds(s, r))
  BY <1>2, <1>4, <1>6, <1>11, <1>13
<1> HIDE DEF n
<1>15. Plain(v) /\ Denotes(t, v) = t.results[n]
  BY <1>14 DEF Plain, Denotes, Instruction
<1> QED
  BY <1>2, <1>9, <1>11, <1>12, <1>14, <1>15

(* A store changes the variable that it is for.                            *)
LEMMA Storing ==
  ASSUME ModuleFine, PlainCode(code, Len(globals)), NEW v, Plain(v),
         NEW a, Address(a, Len(globals)), NEW s, s = Final(globals, code),
         NEW d, d = Emit(code, "store", "void", <<v, a>>), NEW t, t = Final(globals, d)
  PROVE  /\ PlainCode(d, Len(globals)) /\ Continues(s, t, Len(code))
         /\ \A k \in 1..Len(globals) :
              t.memory[k] = IF k = a.at THEN Denotes(s, v) ELSE s.memory[k]
<1> DEFINE i == [op |-> "store", type |-> "void", args |-> <<v, a>>]
<1>1. Len(globals) \in Nat /\ Listed(code)
  BY CodeIsListed DEF ModuleFine
<1>2. i.op = "store" /\ Len(i.args) = 2 /\ i.args[1] = v /\ i.args[2] = a
  OBVIOUS
<1>3. Longer(code, i, d)
  BY DEF Emit, Longer
<1> HIDE DEF i
<1>4. PlainInstruction(i, Len(globals))
  BY <1>2, StoreIsPlain
<1>5. Adds(code, i, d)
  BY <1>1, <1>3, AppendAdds
<1>6. PlainCode(d, Len(globals))
  BY <1>1, <1>4, <1>5, FinalWithInstruction
<1>7. /\ Continues(s, t, Len(code))
      /\ \A k \in 1..Len(globals) :
           t.memory[k] = IF k = i.args[2].at THEN Denotes(s, i.args[1]) ELSE s.memory[k]
  BY <1>1, <1>2, <1>4, <1>5, FinalWithStore
<1> QED
  BY <1>2, <1>6, <1>7

----------------------------------------------------------------------------
(* The activations.                                                        *)

LEMMA PoppedMeans ==
  ASSUME NEW F, NEW S \in Seq(F), S # <<>>, NEW T, T = Tail(S),
         NEW f, NEW s, NEW g, NEW c, OperandsMean(f, S, s, g, c)
  PROVE  OperandsMean(f, T, s, g, c)
BY PoppedFrames DEF OperandsMean

LEMMA ReplacedMeans ==
  ASSUME NEW F, NEW S \in Seq(F), S # <<>>, NEW x \in F, NEW T, T = <<x>> \o Tail(S),
         NEW f, NEW s, NEW g, NEW c, OperandsMean(f, S, s, g, c), FrameMeans(f, x, s, g, c)
  PROVE  OperandsMean(f, T, s, g, c)
BY ReplacedFrames DEF OperandsMean

LEMMA PushedMeans ==
  ASSUME NEW F, NEW S \in Seq(F), S # <<>>, NEW v \in F, NEW x \in F,
         NEW T, T = <<v, x>> \o Tail(S),
         NEW f, NEW s, NEW g, NEW c, OperandsMean(f, S, s, g, c),
         FrameMeans(f, v, s, g, c), FrameMeans(f, x, s, g, c)
  PROVE  OperandsMean(f, T, s, g, c)
<1>1. /\ T[1] = v /\ T[2] = x
      /\ \A k \in 1..Len(T) : k = 1 \/ k = 2 \/ (k - 1 \in 1..Len(S) /\ T[k] = S[k - 1])
  BY PushedFrames
<1> QED
  BY <1>1 DEF OperandsMean

LEMMA NothingMeans ==
  ASSUME NEW f, NEW r, NEW s, NEW g, NEW c
  PROVE  /\ Chain(f, <<>>) /\ OperandsMean(f, <<>>, s, g, c)
         /\ ResultMeans(f, <<>>, r, s, g, c)
BY DEF Chain, OperandsMean, ResultMeans

(* There was room for the stores so far if there is for all.               *)
LEMMA RoomBefore ==
  ASSUME Step, PlainCode(code, Len(globals)), RoomIn(globals', code')
  PROVE  RoomIn(globals, code)
<1> SUFFICES ASSUME NEW i \in 1..Len(code), code[i].op = "store"
             PROVE  TypeIn(code[i].args[1], code) = globals[code[i].args[2].at].type
  BY DEF RoomIn
<1> DEFINE x == code[i]
           v == x.args[1]
           a == x.args[2]
<1>1. /\ Len(x.args) = 2 /\ Plain(v) /\ Address(a, Len(globals))
  BY DEF PlainCode, PlainInstruction
<1>2. /\ code \in Seq(InstructionsOf(Len(globals), Len(code))) /\ Extended(code, code')
      /\ \A n \in 1..Len(globals) : globals'[n] = globals[n]
  BY DEF Step, TypeInv, ModuleFine, CodeFine, Grows
<1>3. v \in ValuesOf(Len(globals), Len(code))
  <2>1. x \in InstructionsOf(Len(globals), Len(code))
    BY <1>2, ElementOfSeq
  <2>2. x.args \in Seq(ValuesOf(Len(globals), Len(code))) /\ 1 \in 1..Len(x.args)
    BY <1>1, <2>1 DEF InstructionsOf
  <2> QED
    BY <2>2, ElementOfSeq
<1>4. code'[i] = x /\ i \in 1..Len(code')
  <2>1. Len(code) \in Nat /\ Len(code') \in Nat
    BY DEF Step, TypeInv, ModuleFine, CodeFine
  <2> QED
    BY <1>2, <2>1 DEF Extended
<1>5. TypeIn(v, code') = globals'[a.at].type
  BY <1>4 DEF RoomIn
<1>6. globals'[a.at] = globals[a.at]
  BY <1>1, <1>2 DEF Address
<1>7. TypeIn(v, code') = TypeIn(v, code)
  <2>1. v.kind = "instruction" => v.at \in 1..Len(code)
    BY <1>3 DEF ValuesOf, Null
  <2> HIDE DEF v, x
  <2> QED
    BY <1>2, <2>1 DEF TypeIn, Extended
<1> QED
  BY <1>5, <1>6, <1>7

(* The operands on the stack go on meaning what they meant.                *)
LEMMA OperandsMeanLater ==
  ASSUME Step, PlainCode(code, Len(globals)),
         NEW f, NEW s, NEW t, Continues(s, t, Len(code)),
         OperandsMean(f, stack, s, globals, code)
  PROVE  OperandsMean(f, stack, t, globals', code')
<1> SUFFICES ASSUME NEW k \in 1..Len(stack), stack[k].at = "binary.rhs"
             PROVE  /\ Plain(stack[k].lhs)
                    /\ RoomIn(globals', code') /\ TypeIn(stack[k].lhs, code') # "chars" =>
                         Denotes(t, stack[k].lhs) = f[stack[k].node.lhs]
  BY DEF OperandsMean, FrameMeans
<1>1. FrameFine(stack[k], Len(globals), code) /\ Extended(code, code')
  BY DEF Step, TypeInv, StackFine, Grows
<1>2. Usable(stack[k].lhs, Len(globals), code)
  BY <1>1 DEF FrameFine
<1>3. TypeIn(stack[k].lhs, code') = TypeIn(stack[k].lhs, code)
  BY <1>1, <1>2, TypeLater
<1>4. FrameMeans(f, stack[k], s, globals, code)
  BY DEF OperandsMean
<1>5. Plain(stack[k].lhs)
  BY <1>4 DEF FrameMeans
<1>6. Denotes(t, stack[k].lhs) = Denotes(s, stack[k].lhs)
  BY <1>2, <1>5, DenotesLater
<1>7. RoomIn(globals', code') => RoomIn(globals, code)
  BY RoomBefore
<1> QED
  BY <1>3, <1>4, <1>5, <1>6, <1>7 DEF FrameMeans

----------------------------------------------------------------------------
(* The steps within an expression.                                         *)

MemorySame(s, t, n) == \A a \in 1..n : t.memory[a] = s.memory[a]

VariablesNow == NowOf(program, DOMAIN allocation, child, target)

LEMMA MeansNow ==
  ASSUME Step, MeanInv, ~undefined'
  PROVE  /\ ~undefined /\ PlainCode(code, Len(globals))
         /\ RoomIn(globals', code') =>
              RoomIn(globals, code) /\ MemoryMeans(allocation, Final(globals, code), VariablesNow)
         /\ target > 0 => WorkMeans
<1>1. ~undefined
  BY DEF Step
<1>2. PlainCode(code, Len(globals))
  BY <1>1 DEF MeanInv
<1>3. RoomIn(globals', code') => RoomIn(globals, code)
  BY <1>2, RoomBefore
<1> QED
  BY <1>1, <1>2, <1>3 DEF MeanInv, VariablesNow

LEMMA WorkMeansNow ==
  ASSUME Step, MeanInv, ~undefined', stack # <<>>,
         NEW f, f = ValuesNow, NEW s, s = Final(globals, code)
  PROVE  /\ Chain(f, stack) /\ OperandsMean(f, stack, s, globals, code)
         /\ ResultMeans(f, stack, result, s, globals, code)
<1>1. target > 0
  BY WorkingGen
<1> QED
  BY <1>1, MeansNow DEF WorkMeans

LEMMA MemoryMeansLater ==
  ASSUME ModuleFine, NEW s, NEW t, MemorySame(s, t, Len(globals)), NEW env,
         MemoryMeans(allocation, s, env)
  PROVE  MemoryMeans(allocation, t, env)
<1> SUFFICES ASSUME NEW name \in DOMAIN allocation, allocation[name] # Null
             PROVE  t.memory[allocation[name].at] = env[name]
  BY DEF MemoryMeans
<1>1. allocation[name].at \in 1..Len(globals)
  BY DEF ModuleFine
<1>2. s.memory[allocation[name].at] = env[name]
  BY DEF MemoryMeans
<1> QED
  BY <1>1, <1>2 DEF MemorySame

LEMMA ExpressionMean ==
  ASSUME Step, MeanInv, stack # <<>>, UNCHANGED <<child, target, allocation>>,
         NEW s, s = Final(globals, code), NEW t, t = Final(globals', code'),
         ~undefined' => PlainCode(code', Len(globals')) /\ MemorySame(s, t, Len(globals)),
         NEW f, f = ValuesNow,
         ~undefined' =>
           /\ Chain(f, stack') /\ OperandsMean(f, stack', t, globals', code')
           /\ ResultMeans(f, stack', result', t, globals', code')
           /\ stack' = <<>> => ValueMeans(f, Child.expr, result', t, globals', code')
  PROVE  MeanInv'
<1>1. Child' = Child /\ program' = program
  BY SameChild DEF Step
<1>2. target' > 1 => target' - 1 \in 1..Len(Child'.targets)
  BY <1>1 DEF MeanInv
<1>3. ASSUME ~undefined', RoomIn(globals', code')
      PROVE  MemoryMeans(allocation, t, VariablesNow)
  <2>1. MemoryMeans(allocation, s, VariablesNow)
    BY <1>3, MeansNow
  <2>2. ModuleFine
    BY DEF Step, TypeInv
  <2> QED
    BY <1>3, <2>1, <2>2, MemoryMeansLater
<1>4. ValuesNow' = f
  BY <1>1 DEF ValuesNow
<1>5. VariablesNow' = VariablesNow
  BY <1>1 DEF VariablesNow
<1>6. ~undefined' => WorkMeans'
  BY <1>1, <1>4 DEF WorkMeans
<1>7. ~undefined' /\ RoomIn(globals', code') => MemoryMeans(allocation', t, VariablesNow')
  BY <1>3, <1>5
<1> QED
  BY <1>2, <1>6, <1>7 DEF MeanInv, VariablesNow

(* An activation calls another, that is for one of its operands.           *)
LEMMA CallMean ==
  ASSUME Step, MeanInv, stack # <<>>, UNCHANGED <<child, target, allocation>>,
         NEW s, s = Final(globals, code), NEW t, t = Final(globals', code'),
         NEW f, f = ValuesNow,
         NEW x \in FramesNow', x.node = Top.node,
         NEW e \in Expressions, e = Called(x), Call(x, e),
         ~undefined' => /\ PlainCode(code', Len(globals')) /\ MemorySame(s, t, Len(globals))
                        /\ Continues(s, t, Len(code)),
         ~undefined' => FrameMeans(f, x, t, globals', code')
  PROVE  MeanInv'
<1> DEFINE c == Visit(e)
           F == FramesNow'
<1>1. c \in F /\ c.at = "visit" /\ c.node = e
  BY VisitFrame DEF Node, FramesNow
<1>2. stack' = <<c, x>> \o Tail(stack)
  BY DEF Call
<1> HIDE DEF c
<1>3. stack \in Seq(F) /\ stack[1] = Top
  BY WorkingGen
<1>4. x \in F
  OBVIOUS
<1> HIDE DEF F
<1>5. stack'[1] = c /\ stack' # <<>>
  BY <1>1, <1>2, <1>3, <1>4, PushedFrames
<1>6. ASSUME ~undefined'
      PROVE  /\ Chain(f, stack') /\ OperandsMean(f, stack', t, globals', code')
             /\ ResultMeans(f, stack', result', t, globals', code')
  <2>1. Chain(f, stack) /\ OperandsMean(f, stack, s, globals, code)
    BY <1>6, WorkMeansNow
  <2>2. OperandsMean(f, stack, t, globals', code')
    BY <1>6, <2>1, MeansNow, OperandsMeanLater
  <2>3. f[x.node] = f[stack[1].node] /\ f[c.node] = f[Called(x)]
    BY <1>1, <1>3
  <2>4. Chain(f, stack')
    BY ZenonT(60), <1>1, <1>2, <1>3, <1>4, <2>1, <2>3, PushedChain
  <2>5. FrameMeans(f, c, t, globals', code') /\ FrameMeans(f, x, t, globals', code')
    BY <1>1, <1>6 DEF FrameMeans
  <2>6. OperandsMean(f, stack', t, globals', code')
    BY ZenonT(60), <1>1, <1>2, <1>3, <1>4, <2>2, <2>5, PushedMeans
  <2>7. ResultMeans(f, stack', result', t, globals', code')
    BY <1>1, <1>5 DEF ResultMeans
  <2> QED
    BY <2>4, <2>6, <2>7
<1> QED
  BY <1>5, <1>6, ExpressionMean

(* An activation returns the value of its node.                            *)
LEMMA ReturnMean ==
  ASSUME Step, MeanInv, stack # <<>>, UNCHANGED <<child, target, allocation>>,
         NEW s, s = Final(globals, code), NEW t, t = Final(globals', code'),
         NEW f, f = ValuesNow,
         stack' = Tail(stack), Top.at # "assignment",
         ~undefined' => /\ PlainCode(code', Len(globals')) /\ MemorySame(s, t, Len(globals))
                        /\ Continues(s, t, Len(code)),
         ~undefined' /\ RoomIn(globals', code') /\ result' # EmptyAny =>
           (LoadedIn(result', globals', code') # "chars" => Holds(t, result') = f[Top.node])
  PROVE  MeanInv'
<1> DEFINE F == FramesNow'
<1>1. stack \in Seq(F) /\ stack[1] = Top /\ Len(stack) # 1
  BY WorkingGen
<1> HIDE DEF F
<1>2. stack' # <<>>
  BY <1>1, PoppedFrames
<1>3. ASSUME ~undefined'
      PROVE  /\ Chain(f, stack') /\ OperandsMean(f, stack', t, globals', code')
             /\ ResultMeans(f, stack', result', t, globals', code')
  <2>1. Chain(f, stack) /\ OperandsMean(f, stack, s, globals, code)
    BY <1>3, WorkMeansNow
  <2>2. OperandsMean(f, stack, t, globals', code')
    BY <1>3, <2>1, MeansNow, OperandsMeanLater
  <2>3. /\ Chain(f, stack')
        /\ f[Top.node] = f[Called(stack'[1])]
    BY <1>1, <1>2, <2>1, PoppedChain
  <2>4. OperandsMean(f, stack', t, globals', code')
    BY <1>1, <2>2, PoppedMeans
  <2>5. ResultMeans(f, stack', result', t, globals', code')
    BY <1>3, <2>3 DEF ResultMeans
  <2> QED
    BY <2>3, <2>4, <2>5
<1> QED
  BY <1>2, <1>3, ExpressionMean

(* A string's value is an address of characters, another literal's is it.  *)
LEMMA LiteralMean ==
  ASSUME Step, MeanInv, VisitLiteral
  PROVE  MeanInv'
<1> DEFINE lit == Top.node
           s == Final(globals, code)
           t == Final(globals', code')
           f == ValuesNow
<1>1. /\ stack # <<>> /\ UNCHANGED <<child, target, undefined, allocation, code>>
      /\ lit.kind = "Literal" /\ Top.at = "visit" /\ stack' = Tail(stack)
      /\ result' = ValueOf(lit)
      /\ strings' = InternedStrings(lit)
  BY DEF VisitLiteral, Enters, Working, Return
<1>2. lit \in Expressions
  BY <1>1, WorkingGen
<1>3. ASSUME ~undefined'
      PROVE  /\ PlainCode(code', Len(globals')) /\ MemorySame(s, t, Len(globals))
             /\ Continues(s, t, Len(code))
  <2>1. PlainCode(code, Len(globals))
    BY <1>3, MeansNow
  <2>2. /\ Len(code) \in Nat /\ Len(globals) \in Nat /\ Len(globals') \in Nat
        /\ Len(globals) <= Len(globals') /\ \A i \in 1..Len(globals) : globals'[i] = globals[i]
    BY DEF Step, TypeInv, ModuleFine, CodeFine, Grows
  <2>3. PlainCode(code, Len(globals'))
    BY <2>1, <2>2, PlainLater
  <2>4. SameRun(s, Final(globals', code), Len(globals), StartOf(globals'))
    BY <2>1, <2>2, FinalWithGlobals
  <2>5. Final(globals', code) = t
    BY <1>1
  <2> HIDE DEF s, t
  <2>6. MemorySame(s, t, Len(globals)) /\ Continues(s, t, Len(code))
    BY <2>4, <2>5 DEF SameRun, MemorySame, Continues
  <2> QED
    BY <1>1, <2>3, <2>6
<1>4. ASSUME result' # EmptyAny, LoadedIn(result', globals', code') # "chars"
      PROVE  Holds(t, result') = f[lit]
  <2>1. CASE lit.type = "str"
    <3>1. lit.value \in DOMAIN strings' /\ StringsFine(globals', strings')
      <4>1. StringsFine(globals', strings')
        BY DEF Step, NamesInv
      <4> QED
        BY <1>1, <2>1, <4>1 DEF InternedStrings, NewString
    <3>2. globals'[strings'[lit.value]].type = "chars"
      BY <3>1 DEF StringsFine
    <3>3. result' = Global(strings'[lit.value])
      BY <1>1, <2>1 DEF ValueOf
    <3>4. result'.kind = "global" /\ result'.at = strings'[lit.value]
      BY <3>3 DEF Global
    <3> QED
      BY <1>4, <3>2, <3>4 DEF LoadedIn
  <2>2. CASE lit.type # "str"
    <3>1. result' = Constant(lit)
      BY <1>1, <1>4, <2>2 DEF ValueOf
    <3>2. result'.kind = "constant" /\ result'.literal = lit
      BY <3>1 DEF Constant
    <3>3. Holds(t, result') = lit
      BY <3>2 DEF Holds, Denotes
    <3>4. f[lit] = lit
      BY <1>1, <1>2, EvaluateByKind DEF ValuesNow
    <3> QED
      BY <3>3, <3>4
  <2> QED
    BY <2>1, <2>2
<1>5. Top.at # "assignment"
  BY <1>1
<1> HIDE DEF s, t, f
<1>6. s = Final(globals, code) /\ t = Final(globals', code') /\ f = ValuesNow
  BY DEF s, t, f
<1> QED
  BY <1>1, <1>3, <1>4, <1>5, <1>6, ReturnMean

(* A name's value is the address of its variable.                          *)
LEMMA NameMean ==
  ASSUME Step, MeanInv, VisitName
  PROVE  MeanInv'
<1> DEFINE n == Top.node
           v == allocation[n.name]
           s == Final(globals, code)
           t == Final(globals', code')
           f == ValuesNow
<1>1. /\ stack # <<>> /\ UNCHANGED <<child, target, undefined, allocation, globals, code>>
      /\ n.kind = "Identifier" /\ Top.at = "visit" /\ stack' = Tail(stack)
      /\ result' = v
  BY DEF VisitName, Enters, Working, Return
<1>2. n \in Expressions /\ target = 1
  BY <1>1, WorkingGen
<1>3. t = s
  BY <1>1
<1>4. ~undefined' => /\ PlainCode(code', Len(globals')) /\ MemorySame(s, t, Len(globals))
                     /\ Continues(s, t, Len(code))
  <2>1. ~undefined' => PlainCode(code', Len(globals'))
    BY <1>1, MeansNow
  <2> HIDE DEF s, t
  <2> QED
    BY <1>3, <2>1 DEF MemorySame, Continues
<1>5. n.name \in DOMAIN allocation /\ v.kind = "global" /\ v # Null
  <2>1. Enters("Identifier")
    BY DEF VisitName
  <2>2. NamesHaveAllocations
    BY NamesImply DEF Step
  <2>3. IsVariable(n.name) /\ v.kind = "global"
    BY <2>1, <2>2 DEF NamesHaveAllocations
  <2> QED
    BY <2>3 DEF Step, TypeInv, ModuleFine, IsVariable, Null
<1>6. ASSUME ~undefined', RoomIn(globals', code')
      PROVE  Holds(t, result') = f[n]
  <2>1. MemoryMeans(allocation, s, VariablesNow)
    BY <1>6, MeansNow
  <2>2. s.memory[v.at] = VariablesNow[n.name]
    BY <1>5, <2>1 DEF MemoryMeans
  <2>3. VariablesNow = AfterOf(program, DOMAIN allocation)[child - 1]
    BY <1>2 DEF VariablesNow, NowOf
  <2>4. f[n] = VariablesNow[n.name]
    BY <1>1, <1>2, <2>3, EvaluateByKind DEF ValuesNow
  <2> HIDE DEF s, t, f
  <2>5. Holds(t, v) = s.memory[v.at]
    BY <1>3, <1>5 DEF Holds
  <2> QED
    BY <1>1, <2>2, <2>4, <2>5
<1>7. Top.at # "assignment"
  BY <1>1
<1> HIDE DEF s, t, f
<1>8. s = Final(globals, code) /\ t = Final(globals', code') /\ f = ValuesNow
  BY DEF s, t, f
<1> QED
  BY <1>1, <1>4, <1>6, <1>7, <1>8, ReturnMean

LEMMA GroupingMean ==
  ASSUME Step, MeanInv, VisitGrouping
  PROVE  MeanInv'
<1> DEFINE n == Top.node
           c == Visit(n.expr)
           F == FramesNow'
           s == Final(globals, code)
           t == Final(globals', code')
           f == ValuesNow
<1>1. /\ stack # <<>> /\ UNCHANGED <<child, target, result, undefined, allocation, globals, code>>
      /\ n.kind = "GroupingExpression" /\ Top.at = "visit"
      /\ stack' = <<c>> \o Tail(stack)
  BY DEF VisitGrouping, Enters, Working
<1>2. /\ stack \in Seq(F) /\ stack[1] = Top /\ n \in Expressions
      /\ n.expr \in Expressions /\ n.expr # Null
  <2>1. n.expr \in Operands(n)
    BY <1>1 DEF Operands
  <2> QED
    BY <1>1, <2>1, WorkingGen
<1>3. c \in F /\ c.at = "visit" /\ c.node = n.expr
  BY <1>2, VisitFrame DEF Node, FramesNow
<1>4. t = s /\ f[n.expr] = f[n]
  BY <1>1, <1>2, EvaluateByKind DEF ValuesNow
<1> HIDE DEF c, F, f, s, t
<1>5. stack'[1] = c /\ stack' # <<>>
  BY <1>1, <1>2, <1>3, ReplacedFrames
<1>6. s = Final(globals, code) /\ t = Final(globals', code') /\ f = ValuesNow
  BY DEF s, t, f
<1>7. ~undefined' => PlainCode(code', Len(globals')) /\ MemorySame(s, t, Len(globals))
  BY <1>1, <1>4, MeansNow DEF MemorySame
<1>8. ASSUME ~undefined'
      PROVE  /\ Chain(f, stack') /\ OperandsMean(f, stack', t, globals', code')
             /\ ResultMeans(f, stack', result', t, globals', code')
  <2>1. Chain(f, stack) /\ OperandsMean(f, stack, s, globals, code)
    BY <1>1, <1>6, <1>8, WorkMeansNow
  <2>2. OperandsMean(f, stack, t, globals', code')
    BY <1>1, <1>4, <2>1
  <2>3. f[c.node] = f[stack[1].node]
    BY <1>2, <1>3, <1>4
  <2>4. Chain(f, stack')
    BY ZenonT(60), <1>1, <1>2, <1>3, <2>1, <2>3, ReplacedChain
  <2>5. FrameMeans(f, c, t, globals', code')
    BY <1>3 DEF FrameMeans
  <2>6. OperandsMean(f, stack', t, globals', code')
    BY ZenonT(60), <1>1, <1>2, <1>3, <2>2, <2>5, ReplacedMeans
  <2>7. ResultMeans(f, stack', result', t, globals', code')
    BY <1>3, <1>5 DEF ResultMeans
  <2> QED
    BY <2>4, <2>6, <2>7
<1> QED
  BY <1>1, <1>5, <1>6, <1>7, <1>8, ExpressionMean

LEMMA LeftMean ==
  ASSUME Step, MeanInv, VisitBinary
  PROVE  MeanInv'
<1> DEFINE n == Top.node
           x == Frame("binary.lhs", n, EmptyAny)
           s == Final(globals, code)
           t == Final(globals', code')
           f == ValuesNow
<1>1. /\ stack # <<>> /\ UNCHANGED <<child, target, result, undefined, allocation, globals, code>>
      /\ n.kind = "BinaryExpression" /\ Call(x, n.lhs)
  BY DEF VisitBinary, Enters, Working
<1>2. n \in Expressions /\ n.lhs \in Expressions
  <2>1. n.lhs \in Operands(n)
    BY <1>1 DEF Operands
  <2> QED
    BY <1>1, <2>1, WorkingGen
<1>3. x \in FramesNow' /\ x.at = "binary.lhs" /\ x.node = n
  BY <1>2 DEF FramesNow, FramesOf, Frame, Node, Places
<1>4. n.lhs = Called(x)
  BY <1>3 DEF Called
<1>5. t = s
  BY <1>1
<1> HIDE DEF x, f, s, t
<1>6. s = Final(globals, code) /\ t = Final(globals', code') /\ f = ValuesNow
  BY DEF s, t, f
<1>7. ~undefined' => /\ PlainCode(code', Len(globals')) /\ MemorySame(s, t, Len(globals))
                     /\ Continues(s, t, Len(code))
  BY <1>1, <1>5, MeansNow DEF MemorySame, Continues
<1>8. FrameMeans(f, x, t, globals', code')
  BY <1>3 DEF FrameMeans
<1> QED
  BY <1>1, <1>2, <1>3, <1>4, <1>6, <1>7, <1>8, CallMean

(* What a callee has returned, once it is loaded.                          *)
LEMMA LoadedMean ==
  ASSUME Step, MeanInv, stack # <<>>, Top.at # "visit", result # EmptyAny, result # Null,
         globals' = globals, code' = WithLoad(result), ~undefined',
         NEW s, s = Final(globals, code), NEW t, t = Final(globals', code'),
         NEW f, f = ValuesNow
  PROVE  /\ PlainCode(code', Len(globals')) /\ MemorySame(s, t, Len(globals))
         /\ Continues(s, t, Len(code))
         /\ Plain(Loaded(result))
         /\ RoomIn(globals', code') /\ TypeIn(Loaded(result), code') # "chars" =>
              Denotes(t, Loaded(result)) = f[Called(Top)]
<1>1. Usable(result, Len(globals), code) /\ ModuleFine /\ Top = stack[1]
  BY ResultFacts, WorkingGen DEF Step, TypeInv
<1>2. PlainCode(code, Len(globals))
  BY MeansNow
<1>3. t = Final(globals, code')
  OBVIOUS
<1>4. /\ PlainCode(code', Len(globals)) /\ t.memory = s.memory
      /\ Continues(s, t, Len(code))
      /\ Plain(Loaded(result)) /\ Denotes(t, Loaded(result)) = Holds(s, result)
  BY <1>1, <1>2, <1>3, Loading
<1>5. TypeIn(Loaded(result), code') = LoadedIn(result, globals, code)
  BY <1>1, LoadTyped
<1>6. RoomIn(globals', code') /\ LoadedIn(result, globals, code) # "chars" =>
        Holds(s, result) = f[Called(Top)]
  BY <1>1, WorkMeansNow, MeansNow DEF ResultMeans
<1> QED
  BY <1>4, <1>5, <1>6 DEF MemorySame

LEMMA RightMean ==
  ASSUME Step, MeanInv, VisitRHS
  PROVE  MeanInv'
<1> DEFINE n == Top.node
           v == Loaded(result)
           x == Frame("binary.rhs", n, v)
           s == Final(globals, code)
           t == Final(globals', code')
           f == ValuesNow
<1>1. /\ stack # <<>> /\ UNCHANGED <<child, target, result, allocation, globals>>
      /\ Top.at = "binary.lhs" /\ result # EmptyAny /\ Call(x, n.rhs)
      /\ code' = WithLoad(result) /\ undefined' = (undefined \/ result = Null)
  BY DEF VisitRHS, Resumes, Working
<1>2. /\ n \in Binaries(Expressions) /\ n.kind = "BinaryExpression" /\ n.rhs \in Expressions
      /\ n \in Expressions
  <2>1. FrameFine(Top, Len(globals), code)
    BY <1>1, WorkingGen
  <2>2. n \in Binaries(Expressions) /\ n.kind = "BinaryExpression"
    BY <1>1, <2>1 DEF FrameFine, Binaries
  <2>3. n.rhs \in Operands(n)
    BY <2>2 DEF Operands
  <2> QED
    BY <1>1, <2>2, <2>3, WorkingGen
<1>3. Usable(v, Len(globals'), code')
  <2>1. Usable(result, Len(globals), code) /\ ModuleFine
    BY <1>1, ResultFacts DEF Step, TypeInv
  <2> QED
    BY <1>1, <2>1, LoadFine
<1>4. ~undefined' => result # Null
  BY <1>1
<1> HIDE DEF v
<1>5. x \in FramesNow' /\ x.at = "binary.rhs" /\ x.node = n /\ x.lhs = v
  BY <1>2, <1>3 DEF FramesNow, FramesOf, Frame, Node, Places, Usable
<1>6. n.rhs = Called(x) /\ Called(Top) = n.lhs
  BY <1>1, <1>5 DEF Called
<1> HIDE DEF x, f, s, t
<1>7. s = Final(globals, code) /\ t = Final(globals', code') /\ f = ValuesNow
  BY DEF s, t, f
<1>8. ASSUME ~undefined'
      PROVE  /\ PlainCode(code', Len(globals')) /\ MemorySame(s, t, Len(globals))
             /\ Continues(s, t, Len(code))
             /\ Plain(v)
             /\ RoomIn(globals', code') /\ TypeIn(v, code') # "chars" =>
                  Denotes(t, v) = f[n.lhs]
  <2>1. Top.at # "visit"
    BY <1>1
  <2> QED
    BY <1>1, <1>4, <1>6, <1>7, <1>8, <2>1, LoadedMean DEF v
<1>9. ~undefined' => FrameMeans(f, x, t, globals', code')
  BY <1>5, <1>8 DEF FrameMeans
<1> QED
  BY <1>1, <1>2, <1>5, <1>6, <1>7, <1>8, <1>9, CallMean

LEMMA OperatorMean ==
  ASSUME Step, MeanInv, EndBinary
  PROVE  MeanInv'
<1> DEFINE n == Top.node
           l == Top.lhs
           v == Instruction(Len(WithLoad(result)) + 1)
           s == Final(globals, code)
           t == Final(globals', code')
           f == ValuesNow
<1>1. PICK op \in Cases(n.op) :
        /\ code' = Emit(WithLoad(result), op, OperationType(op, TypeOf(l)),
                        Arguments(l, Loaded(result)))
        /\ undefined' = (\/ undefined \/ n.op = "IS" \/ result = Null
                         \/ ~OperandsFit(op, TypeOf(l), LoadedType(result)))
  BY DEF EndBinary
<1>2. /\ stack # <<>> /\ UNCHANGED <<child, target, allocation, globals>>
      /\ Top.at = "binary.rhs" /\ result # EmptyAny
      /\ stack' = Tail(stack) /\ result' = v
  BY DEF EndBinary, Resumes, Working, Return
<1>3. /\ Top = stack[1] /\ 1 \in 1..Len(stack) /\ FrameFine(Top, Len(globals), code)
      /\ n \in Expressions /\ ModuleFine
  BY <1>2, WorkingGen DEF Step, TypeInv
<1>4. /\ n \in Binaries(Expressions) /\ n.kind = "BinaryExpression"
      /\ Usable(l, Len(globals), code) /\ Usable(result, Len(globals), code)
  BY <1>2, <1>3, ResultFacts DEF FrameFine, Binaries
<1>5. op \in Operators /\ (n.op # "IS" => op = n.op)
  <2>1. n.op \in Operators
    BY <1>4, BinaryShape
  <2> QED
    BY <1>1, <2>1 DEF Cases
<1>6. /\ TypeOf(l) = TypeIn(l, code) /\ LoadedType(result) = LoadedIn(result, globals, code)
      /\ Called(Top) = n.rhs /\ Top.at # "visit" /\ Top.at # "assignment"
  BY <1>2, TypesMean DEF Called
<1>7. ASSUME ~undefined'
      PROVE  /\ result # Null /\ op = n.op
             /\ TypeIn(l, code) # "chars" /\ LoadedIn(result, globals, code) # "chars"
  <2>1. result # Null /\ op = n.op /\ OperandsFit(op, TypeOf(l), LoadedType(result))
    BY <1>1, <1>5, <1>7
  <2>2. TypeOf(l) # "chars" /\ LoadedType(result) # "chars"
    BY <2>1 DEF OperandsFit
  <2> QED
    BY <1>6, <2>1, <2>2
<1> HIDE DEF s, t, f, v
<1>8. s = Final(globals, code) /\ t = Final(globals', code') /\ f = ValuesNow
  BY DEF s, t, f
<1>9. ASSUME ~undefined'
      PROVE  /\ Plain(l)
             /\ RoomIn(globals', code') => Denotes(s, l) = f[n.lhs] /\ Holds(s, result) = f[n.rhs]
  <2>1. RoomIn(globals', code') => RoomIn(globals, code)
    BY <1>9, MeansNow
  <2>2. /\ OperandsMean(f, stack, s, globals, code)
        /\ ResultMeans(f, stack, result, s, globals, code)
    BY <1>2, <1>8, <1>9, WorkMeansNow
  <2>3. FrameMeans(f, Top, s, globals, code)
    BY <1>3, <2>2 DEF OperandsMean
  <2>4. Plain(l) /\ (RoomIn(globals', code') => Denotes(s, l) = f[n.lhs])
    BY <1>2, <1>7, <1>9, <2>1, <2>3 DEF FrameMeans
  <2>5. RoomIn(globals', code') => Holds(s, result) = f[n.rhs]
    BY <1>2, <1>3, <1>6, <1>7, <1>9, <2>1, <2>2 DEF ResultMeans
  <2> QED
    BY <2>4, <2>5
<1>10. ASSUME ~undefined'
       PROVE  /\ PlainCode(code', Len(globals')) /\ MemorySame(s, t, Len(globals))
              /\ Continues(s, t, Len(code))
              /\ Denotes(t, v) = Operation(op, Denotes(s, l), Holds(s, result))
  <2>1. PlainCode(code, Len(globals))
    BY <1>10, MeansNow
  <2>2. result # Null /\ Plain(l)
    BY <1>7, <1>9, <1>10
  <2>3. t = Final(globals, code') /\ v = Instruction(Len(WithLoad(result)) + 1)
    BY <1>2, <1>8 DEF v
  <2> DEFINE type == OperationType(op, TypeOf(l))
  <2>4. code' = Emit(WithLoad(result), op, type, Arguments(l, Loaded(result)))
    BY <1>1
  <2> HIDE DEF type
  <2>5. /\ PlainCode(code', Len(globals)) /\ t.memory = s.memory
        /\ Continues(s, t, Len(code))
        /\ Denotes(t, v) = Operation(op, Denotes(s, l), Holds(s, result))
    BY <1>3, <1>4, <1>5, <1>8, <2>1, <2>2, <2>3, <2>4, Operating
  <2> QED
    BY <1>2, <2>5 DEF MemorySame
<1>11. ASSUME ~undefined', RoomIn(globals', code')
       PROVE  Holds(t, result') = f[n]
  <2>1. Holds(t, v) = Denotes(t, v)
    BY DEF Holds, Instruction, v
  <2>2. f[n] = Operation(n.op, f[n.lhs], f[n.rhs])
    BY <1>3, <1>4, EvaluateByKind DEF ValuesNow, f
  <2>3. Denotes(t, v) = Operation(n.op, f[n.lhs], f[n.rhs])
    BY <1>7, <1>9, <1>10, <1>11
  <2> QED
    BY <1>2, <2>1, <2>2, <2>3
<1> QED
  BY <1>2, <1>6, <1>8, <1>10, <1>11, ReturnMean

(* The assignment has the value of its expression.                         *)
LEMMA LoadMean ==
  ASSUME Step, MeanInv, LoadExpression
  PROVE  MeanInv'
<1> DEFINE e == Child.expr
           F == FramesNow'
           s == Final(globals, code)
           t == Final(globals', code')
           f == ValuesNow
<1>1. /\ stack # <<>> /\ UNCHANGED <<child, target, allocation, globals>>
      /\ Top.at = "assignment" /\ result # EmptyAny
      /\ stack' = Tail(stack) /\ result' = Loaded(result)
      /\ code' = WithLoad(result) /\ undefined' = (undefined \/ result = Null)
  BY DEF LoadExpression, Resumes, Working, Return
<1>2. /\ stack \in Seq(F) /\ stack[1] = Top /\ Above(stack, e) /\ Len(stack) = 1
      /\ 1 \in 1..Len(stack)
  BY <1>1, WorkingGen
<1> HIDE DEF F
<1>3. stack' = <<>>
  BY <1>1, <1>2, PoppedFrames
<1>4. Called(Top) = e /\ Top.at # "visit"
  BY <1>1, <1>2 DEF Called, Above
<1> HIDE DEF s, t, f
<1>5. s = Final(globals, code) /\ t = Final(globals', code') /\ f = ValuesNow
  BY DEF s, t, f
<1>6. ASSUME ~undefined'
      PROVE  /\ PlainCode(code', Len(globals')) /\ MemorySame(s, t, Len(globals))
             /\ Plain(result')
             /\ RoomIn(globals', code') /\ TypeIn(result', code') # "chars" =>
                  Denotes(t, result') = f[e]
  BY <1>1, <1>4, <1>5, <1>6, LoadedMean
<1>7. ~undefined' => ValueMeans(f, e, result', t, globals', code')
  BY <1>6 DEF ValueMeans
<1>8. /\ Chain(f, stack') /\ OperandsMean(f, stack', t, globals', code')
      /\ ResultMeans(f, stack', result', t, globals', code')
  BY <1>3, NothingMeans
<1> QED
  BY <1>1, <1>5, <1>6, <1>7, <1>8, ExpressionMean

----------------------------------------------------------------------------
(* The steps of an assignment, of a definition and of the end.             *)

LEMMA ExpressionStartMean ==
  ASSUME Step, MeanInv, VisitExpression
  PROVE  MeanInv'
<1> DEFINE e == Child.expr
           c == Visit(e)
           x == Frame("assignment", e, EmptyAny)
           s == Final(globals, code)
           f == ValuesNow
<1>1. /\ UNCHANGED <<child, undefined, result, allocation, globals, code>>
      /\ target = 0 /\ target' = 1 /\ stack' = <<c, x>>
  BY DEF VisitExpression
<1>2. Child' = Child /\ program' = program
  BY <1>1, SameChild DEF Step
<1>3. c.at = "visit" /\ c.node = e /\ x.at = "assignment" /\ Called(x) = e
  BY DEF Visit, Frame, Called
<1> HIDE DEF c, x, s, f
<1>4. /\ Len(stack') = 2 /\ stack'[1] = c /\ stack'[2] = x /\ stack' # <<>>
  BY <1>1
<1>5. Chain(f, stack')
  BY <1>3, <1>4 DEF Chain
<1>6. OperandsMean(f, stack', s, globals, code)
  BY <1>3, <1>4 DEF OperandsMean, FrameMeans
<1>7. ResultMeans(f, stack', result, s, globals, code)
  BY <1>3, <1>4 DEF ResultMeans
<1>8. f = ValuesNow' /\ s = Final(globals', code')
  BY <1>1, <1>2 DEF f, s, ValuesNow
<1>9. WorkMeans'
  BY <1>1, <1>4, <1>5, <1>6, <1>7, <1>8 DEF WorkMeans
<1>10. NowOf(program', DOMAIN allocation', child', target') =
         NowOf(program, DOMAIN allocation, child, target)
  BY <1>1, <1>2 DEF NowOf
<1> QED
  BY <1>1, <1>9, <1>10 DEF MeanInv

LEMMA AssignedUpTo ==
  ASSUME NEW T, NEW q \in Seq(T), NEW k \in 0..Len(q), NEW env, NEW m \in DOMAIN env, NEW v
  PROVE  AssignTo(env, SubSeq(q, 1, k), v)[m] =
           IF \E i \in 1..k : q[i] = m THEN v ELSE env[m]
<1> DEFINE r == SubSeq(q, 1, k)
<1>1. Len(r) = k /\ \A i \in 1..k : r[i] = q[i]
  OBVIOUS
<1> HIDE DEF r
<1>2. AssignTo(env, r, v)[m] = IF \E i \in 1..Len(r) : r[i] = m THEN v ELSE env[m]
  BY DEF AssignTo
<1>3. (\E i \in 1..Len(r) : r[i] = m) <=> (\E i \in 1..k : q[i] = m)
  BY <1>1
<1> QED
  BY <1>2, <1>3 DEF r

(* A target gets the value of the expression, after those before it.       *)
Assigning(p, D, c, T, q, k, l, env, v, m) ==
  /\ q \in Seq(T) /\ q = p[c].targets /\ k \in 1..Len(q) /\ l = k + 1
  /\ env = AfterOf(p, D)[c - 1] /\ v = Evaluate(env)[p[c].expr] /\ m \in DOMAIN env

LEMMA NowWithTarget ==
  ASSUME NEW p, NEW D, NEW c, NEW T, NEW q, NEW k, NEW l, NEW env, NEW v, NEW m,
         Assigning(p, D, c, T, q, k, l, env, v, m)
  PROVE  /\ q[k] = m => NowOf(p, D, c, l)[m] = v
         /\ q[k] # m => NowOf(p, D, c, l)[m] = NowOf(p, D, c, k)[m]
<1> DEFINE Upto(j) == \E i \in 1..j : q[i] = m
<1>1. q \in Seq(T) /\ k \in 1..Len(q) /\ k \in 0..Len(q) /\ k - 1 \in 0..Len(q)
      /\ Len(q) \in Nat
  BY DEF Assigning
<1>2. NowOf(p, D, c, l) = AssignTo(env, SubSeq(q, 1, k), v)
  <2>1. ~(l < 2) /\ l - 1 = k
    BY <1>1 DEF Assigning
  <2> QED
    BY <2>1 DEF NowOf, Assigning
<1>3. NowOf(p, D, c, k) = IF k < 2 THEN env ELSE AssignTo(env, SubSeq(q, 1, k - 1), v)
  BY DEF NowOf, Assigning
<1>4. AssignTo(env, SubSeq(q, 1, k), v)[m] = IF Upto(k) THEN v ELSE env[m]
  BY <1>1, AssignedUpTo DEF Assigning
<1>5. AssignTo(env, SubSeq(q, 1, k - 1), v)[m] = IF Upto(k - 1) THEN v ELSE env[m]
  BY <1>1, AssignedUpTo DEF Assigning
<1>6. NowOf(p, D, c, k)[m] = IF Upto(k - 1) THEN v ELSE env[m]
  <2>1. k < 2 => ~Upto(k - 1)
    BY <1>1
  <2> HIDE DEF Upto
  <2> QED
    BY <1>3, <1>5, <2>1
<1>7. Upto(k) <=> q[k] = m \/ Upto(k - 1)
  BY <1>1
<1> HIDE DEF Upto
<1> QED
  BY <1>2, <1>4, <1>6, <1>7

LEMMA AfterAssignment ==
  ASSUME NEW p, NEW D, Len(p) \in Nat, NEW c \in 1..Len(p), p[c].kind # "VariableDefinition",
         NEW env, env = AfterOf(p, D)[c - 1]
  PROVE  AfterOf(p, D)[c] = AssignTo(env, p[c].targets, Evaluate(env)[p[c].expr])
<1> DEFINE f == AfterOf(p, D)
           x == p[c]
<1>1. f[c] = AfterChild(p, f, c)
  <2>1. \A d \in 1..Len(p) : AfterOf(p, D)[d] = AfterChild(p, AfterOf(p, D), d)
    BY AfterUnfolds, Zenon
  <2> QED
    BY <2>1, Zenon
<1>2. f[c - 1] = env
  OBVIOUS
<1> HIDE DEF f
<1>3. AfterChild(p, f, c) = AssignTo(f[c - 1], x.targets, Evaluate(f[c - 1])[x.expr])
  BY DEF AfterChild
<1> HIDE DEF x
<1>4. f[c] = AssignTo(env, x.targets, Evaluate(env)[x.expr])
  BY <1>1, <1>2, <1>3
<1> QED
  BY <1>4 DEF f, x

LEMMA AfterDefinition ==
  ASSUME NEW p, NEW D, Len(p) \in Nat, NEW c \in 1..Len(p), p[c].kind = "VariableDefinition",
         NEW env, env = AfterOf(p, D)[c - 1]
  PROVE  AfterOf(p, D)[c] = AssignTo(env, <<p[c].name>>, p[c].value)
<1> DEFINE b == c - 1
<1>1. b \in Nat /\ Follows(b, c)
  BY DEF Follows
<1>2. env = AfterOf(p, D)[b]
  OBVIOUS
<1> HIDE DEF b
<1> QED
  BY <1>1, <1>2, AfterStep

(* After its last target an assignment is complete.                        *)
LEMMA NowIsAfter ==
  ASSUME NEW p, NEW D, Len(p) \in Nat, NEW c \in 1..Len(p), p[c].kind # "VariableDefinition",
         NEW T, p[c].targets \in Seq(T), NEW k \in Nat, k = Len(p[c].targets) + 1,
         NEW m \in D
  PROVE  AfterOf(p, D)[c][m] = NowOf(p, D, c, k)[m]
<1> DEFINE env == AfterOf(p, D)[c - 1]
           q == p[c].targets
           v == Evaluate(env)[p[c].expr]
<1>1. c - 1 \in 0..Len(p) /\ c - 1 \in Nat /\ Follows(c - 1, c)
  BY DEF Follows
<1>2. DOMAIN env = D
  BY <1>1, AfterDomain
<1>3. AfterOf(p, D)[c] = AssignTo(env, q, v)
  BY AfterAssignment
<1>4. NowOf(p, D, c, k) = IF k < 2 THEN env ELSE AssignTo(env, SubSeq(q, 1, k - 1), v)
  BY DEF NowOf
<1>5. q \in Seq(T) /\ k = Len(q) + 1 /\ Len(q) \in Nat
  OBVIOUS
<1> HIDE DEF q, v, env
<1>6. SubSeq(q, 1, k - 1) = q
  <2>1. k - 1 = Len(q)
    BY <1>5
  <2> QED
    BY <1>5, <2>1, SubSeqFull
<1>7. k < 2 => AssignTo(env, q, v)[m] = env[m]
  <2>1. k < 2 => Len(q) = 0
    BY <1>5
  <2> QED
    BY <1>2, <2>1 DEF AssignTo
<1> QED
  BY <1>3, <1>4, <1>6, <1>7

LEMMA TargetsAreListed ==
  ASSUME Step, child \in 1..Len(program), Child.kind = "AssignmentStatement"
  PROVE  /\ Child.targets \in Seq(Names) /\ Child = program[child]
         /\ Len(program) \in Nat /\ child - 1 \in 0..Len(program)
         /\ DOMAIN AfterOf(program, DOMAIN allocation)[child - 1] = DOMAIN allocation
<1>1. /\ program \in Seq(Definitions \cup Assignments(Expressions)) /\ Len(program) \in Nat
  BY ASTAssumption DEF Step, TypeInv
<1>2. Child \in Definitions \cup Assignments(Expressions)
  BY <1>1, ElementOfSeq DEF Child
<1>3. Child \in Assignments(Expressions)
  BY <1>2 DEF Definitions
<1>4. Child.targets \in Seq(Names)
  BY <1>3 DEF Assignments
<1>5. child - 1 \in 0..Len(program)
  BY <1>1
<1> QED
  BY <1>1, <1>4, <1>5, AfterDomain DEF Child

LEMMA StoreMean ==
  ASSUME Step, MeanInv, StoreTarget
  PROVE  MeanInv'
<1> DEFINE name == Child.targets[target]
           a == allocation[name]
           D == DOMAIN allocation
           env == AfterOf(program, D)[child - 1]
           s == Final(globals, code)
           t == Final(globals', code')
           f == ValuesNow
           e == Child.expr
<1>1. /\ UNCHANGED <<child, stack, result, allocation, globals>> /\ stack = <<>>
      /\ code' = Emit(code, "store", "void", <<result, a>>)
      /\ target' = target + 1 /\ target \in 1..Len(Child.targets)
      /\ child \in 1..Len(program) /\ Child.kind = "AssignmentStatement"
  BY DEF StoreTarget, AtTarget, Visits
<1>2. /\ Child' = Child /\ program' = program
      /\ Child.targets \in Seq(Names) /\ Child = program[child]
      /\ DOMAIN env = D /\ Len(Child.targets) \in Nat
  BY <1>1, SameChild, TargetsAreListed DEF Step
<1>3. target \in Nat /\ target > 0 /\ target # 0 /\ target' > 0 /\ target' - 1 = target
  BY <1>1, <1>2
<1>4. name \in D /\ a.kind = "global"
  <2>1. AtTarget
    BY DEF StoreTarget
  <2>2. NamesHaveAllocations
    BY NamesImply DEF Step
  <2>3. IsVariable(name) /\ a.kind = "global"
    BY <2>1, <2>2 DEF NamesHaveAllocations
  <2> QED
    BY <2>3 DEF Step, TypeInv, ModuleFine, IsVariable
<1>5. ModuleFine /\ Usable(result, Len(globals), code) /\ Extended(code, code')
  BY <1>1, <1>3 DEF Step, TypeInv, ResultFine, Grows
<1>6. a \in [kind : {"global"}, at : 1..Len(globals)] /\ Address(a, Len(globals)) /\ a # Null
  <2>1. a \in [kind : {"global"}, at : 1..Len(globals)] \cup {Null}
    BY <1>4, <1>5 DEF ModuleFine
  <2> QED
    BY <1>4, <2>1 DEF Null, Address
<1>7. globals[a.at].type # "chars"
  <2>1. VariableFine(program, globals, allocation, child, name)
    BY <1>4 DEF Step, NamesInv, VariablesFine
  <2> QED
    BY <1>6, <2>1 DEF VariableFine
<1>8. ASSUME ~undefined'
      PROVE  /\ PlainCode(code, Len(globals))
             /\ ValueMeans(f, e, result, s, globals, code)
             /\ Plain(result)
             /\ RoomIn(globals', code') =>
                  RoomIn(globals, code) /\ MemoryMeans(allocation, s, VariablesNow)
  <2>1. WorkMeans
    BY <1>3, <1>8, MeansNow
  <2>2. ValueMeans(f, e, result, s, globals, code)
    BY <1>1, <2>1 DEF WorkMeans
  <2> QED
    BY <1>8, <2>2, MeansNow DEF ValueMeans
<1> HIDE DEF a, s, t, f, e, env, D
<1>9. s = Final(globals, code) /\ t = Final(globals', code') /\ f = ValuesNow
  BY DEF s, t, f
<1>10. ASSUME ~undefined'
       PROVE  /\ PlainCode(code', Len(globals')) /\ Continues(s, t, Len(code))
              /\ \A k \in 1..Len(globals) :
                   t.memory[k] = IF k = a.at THEN Denotes(s, result) ELSE s.memory[k]
  <2>1. t = Final(globals, code')
    BY <1>1, <1>9
  <2> QED
    BY <1>1, <1>5, <1>6, <1>8, <1>9, <1>10, <2>1, Storing
<1>11. TypeIn(result, code') = TypeIn(result, code)
  BY <1>5, TypeLater
<1>12. RoomIn(globals', code') => TypeIn(result, code') = globals[a.at].type
  <2> DEFINE i == [op |-> "store", type |-> "void", args |-> <<result, a>>]
             n == Len(code')
  <2>1. i.op = "store" /\ i.args[1] = result /\ i.args[2] = a
    OBVIOUS
  <2>2. Longer(code, i, code')
    BY <1>1 DEF Emit, Longer
  <2> HIDE DEF i
  <2>3. Adds(code, i, code')
    BY <1>5, <2>2, CodeIsListed, AppendAdds DEF ModuleFine
  <2>4. code'[n] = i /\ n \in 1..Len(code')
    BY <2>3 DEF Adds, Follows
  <2> HIDE DEF n
  <2> QED
    BY <1>1, <2>1, <2>4 DEF RoomIn
<1>13. ASSUME ~undefined', RoomIn(globals', code')
       PROVE  MemoryMeans(allocation, t, NowOf(program, D, child, target + 1))
  <2>1. Denotes(s, result) = f[e]
    BY <1>7, <1>8, <1>11, <1>12, <1>13 DEF ValueMeans
  <2>2. MemoryMeans(allocation, s, NowOf(program, D, child, target))
    BY <1>8, <1>13 DEF VariablesNow, D
  <2> SUFFICES ASSUME NEW m \in DOMAIN allocation, allocation[m] # Null
               PROVE  t.memory[allocation[m].at] = NowOf(program, D, child, target + 1)[m]
    BY DEF MemoryMeans
  <2>3. allocation[m] \in [kind : {"global"}, at : 1..Len(globals)]
    BY <1>5 DEF ModuleFine
  <2>4. s.memory[allocation[m].at] = NowOf(program, D, child, target)[m]
    BY <2>2 DEF MemoryMeans
  <2>5. allocation[m].at = a.at <=> m = name
    <3>1. allocation[m].at = a.at => allocation[m] = a
      BY <1>6, <2>3
    <3>2. Distinct(allocation)
      BY DEF Step, NamesInv, VariablesFine
    <3>3. allocation[m] = a => m = name
      BY <1>4, <3>2 DEF Distinct, a, D
    <3> QED
      BY <3>1, <3>3 DEF a
  <2>6. t.memory[allocation[m].at] =
          IF m = name THEN f[e] ELSE NowOf(program, D, child, target)[m]
    BY <1>10, <1>13, <2>1, <2>3, <2>4, <2>5
  <2>7. f = Evaluate(env)
    BY DEF f, ValuesNow, env, D
  <2>8. m \in DOMAIN env
    BY <1>2 DEF D
  <2>9. env = AfterOf(program, D)[child - 1]
    BY DEF env
  <2>10. /\ name = m => NowOf(program, D, child, target + 1)[m] = f[e]
         /\ name # m =>
              NowOf(program, D, child, target + 1)[m] = NowOf(program, D, child, target)[m]
    <3> DEFINE q == program[child].targets
               l == target + 1
    <3>1. q \in Seq(Names) /\ target \in 1..Len(q) /\ name = q[target]
      BY <1>1, <1>2
    <3>2. f[e] = Evaluate(env)[program[child].expr]
      BY <1>2, <2>7 DEF e
    <3>3. q = program[child].targets /\ l = target + 1
      OBVIOUS
    <3> HIDE DEF q, name, l
    <3>4. Assigning(program, D, child, Names, q, target, l, env, f[e], m)
      BY <2>8, <2>9, <3>1, <3>2, <3>3 DEF Assigning
    <3>5. /\ q[target] = m => NowOf(program, D, child, l)[m] = f[e]
          /\ q[target] # m => NowOf(program, D, child, l)[m] = NowOf(program, D, child, target)[m]
      BY <3>4, NowWithTarget
    <3> QED
      BY <3>1, <3>3, <3>5
  <2> QED
    BY <2>6, <2>10
<1>14. ASSUME ~undefined'
       PROVE  ValueMeans(f, e, result, t, globals', code')
  <2>1. Denotes(t, result) = Denotes(s, result)
    BY <1>5, <1>8, <1>10, <1>14, DenotesLater
  <2> QED
    BY <1>8, <1>11, <1>14, <2>1 DEF ValueMeans
<1>15. ValuesNow' = f
  BY <1>1, <1>2 DEF ValuesNow, f
<1>16. ASSUME ~undefined'
       PROVE  WorkMeans'
  <2>1. /\ Chain(f, stack') /\ OperandsMean(f, stack', t, globals', code')
        /\ ResultMeans(f, stack', result', t, globals', code')
    BY <1>1, NothingMeans
  <2>2. ValueMeans(f, Child'.expr, result', t, globals', code')
    BY <1>1, <1>2, <1>14, <1>16 DEF e
  <2> QED
    BY <1>9, <1>15, <2>1, <2>2 DEF WorkMeans
<1>17. NowOf(program', DOMAIN allocation', child', target') = NowOf(program, D, child, target + 1)
  BY <1>1, <1>2 DEF D
<1>18. ~undefined' /\ RoomIn(globals', code') =>
         MemoryMeans(allocation', Final(globals', code'),
                     NowOf(program', DOMAIN allocation', child', target'))
  BY <1>1, <1>9, <1>13, <1>17
<1> QED
  BY <1>1, <1>2, <1>3, <1>10, <1>16, <1>18 DEF MeanInv

LEMMA EndAssignmentMean ==
  ASSUME Step, MeanInv, EndAssignment
  PROVE  MeanInv'
<1> DEFINE D == DOMAIN allocation
           s == Final(globals, code)
<1>1. /\ UNCHANGED <<stack, result, undefined, allocation, globals, code>>
      /\ child' = child + 1 /\ target' = 0 /\ target > Len(Child.targets)
      /\ child \in 1..Len(program) /\ Child.kind = "AssignmentStatement"
  BY DEF EndAssignment, Visits
<1>2. /\ program' = program /\ Child.targets \in Seq(Names) /\ Child = program[child]
      /\ Len(program) \in Nat /\ Len(Child.targets) \in Nat /\ target \in Nat
  BY <1>1, TargetsAreListed, AssignmentFacts DEF Step, TypeInv
<1>3. target = Len(Child.targets) + 1
  <2>1. target > 1 => target - 1 \in 1..Len(Child.targets)
    BY DEF MeanInv
  <2> QED
    BY <1>1, <1>2, <2>1
<1> HIDE DEF s, D
<1>4. NowOf(program', DOMAIN allocation', child', target') = AfterOf(program, D)[child]
  BY <1>1, <1>2 DEF NowOf, D
<1>5. \A m \in D : AfterOf(program, D)[child][m] = NowOf(program, D, child, target)[m]
  <2>1. /\ program[child].kind # "VariableDefinition"
        /\ program[child].targets \in Seq(Names) /\ target = Len(program[child].targets) + 1
    BY <1>1, <1>2, <1>3
  <2> QED
    BY <1>1, <1>2, <2>1, NowIsAfter
<1>6. ASSUME ~undefined', RoomIn(globals', code')
      PROVE  MemoryMeans(allocation, s, AfterOf(program, D)[child])
  <2>1. MemoryMeans(allocation, s, NowOf(program, D, child, target))
    BY <1>6, MeansNow DEF VariablesNow, s, D
  <2> QED
    BY <1>5, <2>1 DEF MemoryMeans, D
<1>7. ~undefined' => PlainCode(code', Len(globals'))
  BY <1>1, MeansNow
<1>8. s = Final(globals', code')
  BY <1>1 DEF s
<1> QED
  BY <1>1, <1>4, <1>6, <1>7, <1>8 DEF MeanInv

LEMMA AssignedOne ==
  ASSUME NEW env, NEW name, NEW v, NEW r, r = AssignTo(env, <<name>>, v), NEW m \in DOMAIN env
  PROVE  /\ m = name => r[m] = v
         /\ m # name => r[m] = env[m]
<1>1. Len(<<name>>) = 1 /\ <<name>>[1] = name /\ \A i \in 1..1 : i = 1
  OBVIOUS
<1>2. (\E i \in 1..Len(<<name>>) : <<name>>[i] = m) <=> m = name
  BY <1>1
<1> QED
  BY <1>2 DEF AssignTo

(* A new global has its first value when the code starts.                  *)
LEMMA StartOfNew ==
  ASSUME NEW s, NEW t, NEW m, NEW h, SameRun(s, t, m, StartOf(h)),
         NEW n, IsState(t, Len(h), n), NEW k \in 1..Len(h), k \notin 1..m, h[k].type # "chars"
  PROVE  t.memory[k] = h[k].init
<1>1. DOMAIN t.memory = 1..Len(h)
  BY DEF IsState
<1>2. t.memory[k] = StartOf(h).memory[k]
  BY <1>1 DEF SameRun
<1> QED
  BY <1>2 DEF StartOf

LEMMA DefinitionMean ==
  ASSUME Step, MeanInv, VariableDefinition
  PROVE  MeanInv'
<1> DEFINE lit == Child.value
           name == Child.name
           D == DOMAIN allocation
           env == AfterOf(program, D)[child - 1]
           after == AfterOf(program, D)[child]
           s == Final(globals, code)
           t == Final(globals', code')
           n == Len(Interned(lit)) + 1
<1>1. /\ UNCHANGED <<stack, target, result, undefined, code>> /\ child' = child + 1
      /\ Allocate(name, n) /\ child \in 1..Len(program) /\ Child.kind = "VariableDefinition"
      /\ ModuleFine /\ program' = program
  BY DEF VariableDefinition, Visits, Step, TypeInv
<1>2. target = 0
  <2>1. target \in Nat /\ ~(target > 0)
    BY <1>1 DEF Step, TypeInv, GenInv, WorkInv
  <2> QED
    BY <2>1
<1>3. /\ Len(program) \in Nat /\ child - 1 \in 0..Len(program) /\ Child = program[child]
      /\ Child \in Definitions /\ lit \in Literals
  <2>1. Len(program) \in Nat
    BY ASTAssumption DEF Step, TypeInv
  <2>2. Child \in Definitions
    BY ChildFacts DEF VariableDefinition, Step
  <2> QED
    BY <1>1, <2>1, <2>2 DEF Child, Definitions
<1>4. /\ DOMAIN allocation' = D
      /\ \A m \in D : allocation'[m] = IF m = name THEN Global(n) ELSE allocation[m]
  BY <1>1 DEF Allocate
<1>5. DefinitionOf(program, name) = child /\ FirstValue(program, name) = lit
  <2>1. child \in DefinitionsOf(program) /\ program[child] = Child
    BY <1>1, <1>3 DEF DefinitionsOf, OfKind
  <2>2. DefinitionOf(program, name) = child
    BY <2>1, DefinitionsAreDeclared DEF Step, NamesInv, InputFine
  <2> QED
    BY <2>1, <2>2 DEF FirstValue
<1>6. Len(globals) \in Nat /\ n \notin 1..Len(globals) /\ Len(globals) <= Len(globals')
      /\ Len(globals') \in Nat /\ \A i \in 1..Len(globals) : globals'[i] = globals[i]
  <2>1. Len(globals) <= Len(Interned(lit)) /\ Len(globals) \in Nat /\ Len(Interned(lit)) \in Nat
    BY <1>1, <1>3, InternFine
  <2> QED
    BY <2>1 DEF Step, Grows
<1>7. ASSUME name \in D
      PROVE  n \in 1..Len(globals') /\ globals'[n].type # "chars" /\ globals'[n].init = lit
  <2>1. VariableFine(program', globals', allocation', child', name)
    BY <1>4, <1>7 DEF Step, NamesInv, VariablesFine
  <2>2. ~(DefinitionOf(program', name) >= child')
    BY <1>1, <1>3, <1>5
  <2>3. allocation'[name] = Global(n)
    BY <1>4, <1>7
  <2>4. Global(n).at = n
    BY DEF Global
  <2> HIDE DEF n, name, lit
  <2> QED
    BY <1>1, <1>5, <2>1, <2>2, <2>3, <2>4 DEF VariableFine
<1>8. NowOf(program, D, child, target) = env
  BY <1>2 DEF NowOf
<1>9. NowOf(program', DOMAIN allocation', child', target') = after
  BY <1>1, <1>2, <1>3, <1>4 DEF NowOf
<1>10. after = AssignTo(env, <<name>>, lit) /\ DOMAIN env = D
  <2>1. program[child].kind = "VariableDefinition"
    BY <1>1, <1>3
  <2>2. AfterOf(program, D)[child] = AssignTo(env, <<program[child].name>>, program[child].value)
    BY <1>1, <1>3, <2>1, AfterDefinition
  <2>3. DOMAIN env = D
    BY <1>3, AfterDomain
  <2> QED
    BY <1>3, <2>2, <2>3
<1> HIDE DEF lit, name, D, env, after, s, t, n
<1>11. s = Final(globals, code) /\ t = Final(globals', code)
  BY <1>1 DEF s, t
<1>12. ASSUME ~undefined'
       PROVE  /\ PlainCode(code, Len(globals')) /\ SameRun(s, t, Len(globals), StartOf(globals'))
              /\ IsState(t, Len(globals'), Len(code))
              /\ RoomIn(globals', code') => MemoryMeans(allocation, s, env)
  <2>1. PlainCode(code, Len(globals)) /\ Len(code) \in Nat
    BY <1>1, <1>12, MeansNow DEF ModuleFine, CodeFine
  <2>2. PlainCode(code, Len(globals'))
    BY <1>6, <2>1, PlainLater
  <2>3. RoomIn(globals', code') => MemoryMeans(allocation, s, env)
    BY <1>8, <1>11, <1>12, MeansNow DEF VariablesNow, D
  <2> QED
    BY <1>6, <1>11, <2>1, <2>2, <2>3, FinalWithGlobals
<1>13. ASSUME ~undefined', RoomIn(globals', code')
       PROVE  MemoryMeans(allocation', t, after)
  <2> SUFFICES ASSUME NEW m \in DOMAIN allocation', allocation'[m] # Null
               PROVE  t.memory[allocation'[m].at] = after[m]
    BY DEF MemoryMeans
  <2>1. m \in D /\ m \in DOMAIN env
    BY <1>4, <1>10
  <2>2. CASE m = name
    <3>1. allocation'[m].at = n
      BY <1>4, <2>1, <2>2 DEF Global
    <3>2. t.memory[n] = lit
      BY <1>6, <1>7, <1>12, <1>13, <2>1, <2>2, StartOfNew
    <3>3. after[m] = lit
      BY <1>10, <2>1, <2>2, AssignedOne
    <3> QED
      BY <3>1, <3>2, <3>3
  <2>3. CASE m # name
    <3>1. allocation'[m] = allocation[m] /\ m \in DOMAIN allocation /\ allocation[m] # Null
      BY <1>4, <2>1, <2>3 DEF D
    <3>2. allocation[m].at \in 1..Len(globals)
      BY <1>1, <3>1 DEF ModuleFine
    <3>3. t.memory[allocation[m].at] = s.memory[allocation[m].at]
      BY <1>12, <1>13, <3>2 DEF SameRun
    <3>4. s.memory[allocation[m].at] = env[m]
      BY <1>12, <1>13, <3>1 DEF MemoryMeans
    <3>5. after[m] = env[m]
      BY <1>10, <2>1, <2>3, AssignedOne
    <3> QED
      BY <3>1, <3>3, <3>4, <3>5
  <2> QED
    BY <2>2, <2>3
<1>14. t = Final(globals', code')
  BY DEF t
<1> QED
  BY <1>1, <1>2, <1>9, <1>12, <1>13, <1>14 DEF MeanInv

LEMMA EndMean ==
  ASSUME Step, MeanInv, BadAnyCast \/ EndOfProgram \/ Crash
  PROVE  MeanInv'
<1> DEFINE s == Final(globals, code)
           t == Final(globals', code')
<1>1. UNCHANGED <<child, target, stack, result, undefined, allocation, globals, program>>
  BY DEF BadAnyCast, EndOfProgram, Crash, Step
<1>2. Child' = Child
  BY <1>1, SameChild
<1>3. CASE BadAnyCast \/ Crash
  <2>1. code' = code
    BY <1>3 DEF BadAnyCast, Crash
  <2>2. WorkMeans' = WorkMeans
    BY <1>1, <1>2, <2>1 DEF WorkMeans, ValuesNow
  <2> QED
    BY <1>1, <1>2, <2>1, <2>2 DEF MeanInv
<1>4. CASE EndOfProgram
  <2> DEFINE i == [op |-> "ret", type |-> "void", args |-> <<>>]
  <2>1. code' = Emit(code, "ret", "void", <<>>) /\ child > Len(program) /\ ModuleFine
    BY <1>4 DEF EndOfProgram, Step, TypeInv
  <2>2. ~(target > 0) /\ ~(target > 1)
    <3>1. target > 0 => child \in 1..Len(program)
      BY DEF Step, GenInv, WorkInv
    <3>2. Len(program) \in Nat /\ target \in Nat
      BY ASTAssumption DEF Step, TypeInv
    <3> QED
      BY <2>1, <3>1, <3>2
  <2>3. Longer(code, i, code') /\ i.op = "ret"
    BY <2>1 DEF Emit, Longer
  <2> HIDE DEF i, s, t
  <2>4. Adds(code, i, code')
    BY <2>1, <2>3, CodeIsListed, AppendAdds DEF ModuleFine
  <2>5. PlainInstruction(i, Len(globals)) /\ Len(globals) \in Nat
    BY <2>1, <2>3, RetIsPlain DEF ModuleFine
  <2>6. s = Final(globals, code) /\ t = Final(globals', code') /\ t = Final(globals, code')
    BY <1>1 DEF s, t
  <2>7. ASSUME ~undefined'
        PROVE  /\ PlainCode(code', Len(globals')) /\ t.memory = s.memory
               /\ RoomIn(globals', code') => MemoryMeans(allocation, s, VariablesNow)
    <3>1. /\ PlainCode(code, Len(globals))
          /\ RoomIn(globals', code') => MemoryMeans(allocation, s, VariablesNow)
      BY <2>6, <2>7, MeansNow
    <3>2. PlainCode(code', Len(globals))
      BY <2>4, <2>5, <3>1, FinalWithInstruction
    <3>3. t.memory = s.memory
      BY <2>3, <2>4, <2>5, <2>6, <3>1, FinalWithRet
    <3> QED
      BY <1>1, <3>1, <3>2, <3>3
  <2>8. ~undefined' /\ RoomIn(globals', code') => MemoryMeans(allocation, t, VariablesNow)
    <3>1. t.memory = s.memory => MemorySame(s, t, Len(globals))
      BY DEF MemorySame
    <3> QED
      BY <2>1, <2>7, <3>1, MemoryMeansLater
  <2>9. /\ allocation' = allocation
        /\ NowOf(program', DOMAIN allocation', child', target') = VariablesNow
    BY <1>1 DEF VariablesNow
  <2>10. ~(target' > 0) /\ ~(target' > 1)
    BY <1>1, <2>2
  <2> QED
    BY <2>6, <2>7, <2>8, <2>9, <2>10 DEF MeanInv
<1> QED
  BY <1>3, <1>4

LEMMA InitMean ==
  ASSUME Init
  PROVE  MeanInv
<1>1. /\ target = 0 /\ code = <<>> /\ allocation = NoAllocations(table)
  BY DEF Init
<1>2. \A name \in DOMAIN allocation : allocation[name] = Null
  BY <1>1 DEF NoAllocations
<1>3. PlainCode(code, Len(globals))
  BY <1>1 DEF PlainCode
<1> QED
  BY <1>1, <1>2, <1>3 DEF MeanInv, MemoryMeans

LEMMA NextMean ==
  ASSUME TypeInv, NamesInv, GenInv, MeanInv, [Next]_vars
  PROVE  MeanInv'
<1>1. CASE Next /\ ~Terminating
  <2>1. Step
    BY <1>1, NextStep
  <2>2. \/ VariableDefinition \/ VisitLiteral \/ VisitName \/ VisitGrouping
        \/ VisitBinary \/ VisitRHS \/ EndBinary
        \/ VisitExpression \/ LoadExpression \/ StoreTarget \/ EndAssignment
        \/ BadAnyCast \/ EndOfProgram \/ Crash
    BY <1>1 DEF Next
  <2> QED
    BY <2>1, <2>2, DefinitionMean, LiteralMean, NameMean, GroupingMean, LeftMean, RightMean,
       OperatorMean, ExpressionStartMean, LoadMean, StoreMean, EndAssignmentMean, EndMean
<1>2. CASE Terminating \/ UNCHANGED vars
  <2>1. /\ UNCHANGED <<program, child, target, stack, result, undefined, allocation, globals>>
        /\ code' = code
    BY <1>2 DEF Terminating, vars, input
  <2>2. Child' = Child
    BY <2>1 DEF Child
  <2>3. WorkMeans' = WorkMeans
    BY <2>1, <2>2 DEF WorkMeans, ValuesNow
  <2> QED
    BY <2>1, <2>2, <2>3 DEF MeanInv
<1> QED
  BY <1>1, <1>2

(* The meanings that the property speaks of are these.                     *)
LEMMA MeanImplies ==
  ASSUME MeanInv
  PROVE  CodeMeansProgram
<1>1. CodeAfter = RunOf(globals, code)
  BY DEF CodeAfter, RunOf, StartOf, Executed, Operand
<1>2. ProgramAfter = AfterOf(program, DOMAIN allocation)
  BY DEF ProgramAfter, AfterOf
<1>3. ProgramNow = NowOf(program, DOMAIN allocation, child, target)
  BY <1>2 DEF ProgramNow, NowOf, Child
<1>4. StoresHaveRoom => RoomIn(globals, code)
  BY DEF StoresHaveRoom, RoomIn, TypeIn, TypeOf
<1> QED
  BY <1>1, <1>3, <1>4 DEF MeanInv, CodeMeansProgram, MemoryMeans, Final

(* The code emitted so far, when it runs, leaves every variable with the   *)
(* value that the program so far gives it: every operand is loaded before  *)
(* it is used, the operations have their operands in the program's order,  *)
(* and a store goes to the variable it names and to no other, wherever the *)
(* visitor is in the tree.  Excepted are a run of the generator in which   *)
(* LLVM could not make sense of an operation, and code that stores a value *)
(* of another size than its variable's.                                    *)
THEOREM IRGenCodeMeansProgram == Spec => []CodeMeansProgram
<1>1. Init => MeanInv
  BY InitMean
<1>2. TypeInv /\ NamesInv /\ GenInv /\ MeanInv /\ [Next]_vars => MeanInv'
  BY NextMean
<1>3. MeanInv => CodeMeansProgram
  BY MeanImplies
<1> QED
  BY <1>1, <1>2, <1>3, IRGenInvariant, PTL DEF Spec
============================================================================
