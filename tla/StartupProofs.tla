---------------------------- MODULE StartupProofs ----------------------------
(***************************************************************************)
(* Proofs about Startup, for every configuration, command line and signal *)
(* tree that satisfies StartupAssumption.                                  *)
(*                                                                         *)
(* TypeOK alone is not inductive: recursive_subscribe reads the innermost *)
(* frame stack[Len(stack)], which exists only because the walk never runs *)
(* on an empty stack.  TypeInv adds that the stack is not empty while    *)
(* on_start's walk is under way.                                           *)
(***************************************************************************)
EXTENDS Startup, SequenceTheorems, TLAPS

(* What the proofs need of the signal tree.  (Z3 is given these, not the *)
(* whole assumption, whose string key and record-typed defaults it cannot *)
(* encode together.)                                                      *)
LEMMA TreeAssumption ==
    /\ Root \in Nodes
    /\ NodeKind \in [Nodes -> {"model", "datapoint", "other"}]
    /\ NodeKind[Root] = "model"
    /\ Dict \in [Nodes -> Seq([name : STRING, node : Nodes])]
BY StartupAssumption, Zenon


Models == {n \in Nodes : NodeKind[n] = "model"}
(* A call of recursive_subscribe on a model, at a 1-based position of   *)
(* its __dict__.                                                          *)
Frames == [node : Models, i : Nat \ {0}]

(* Appending to a sequence gives a non-empty one of the same elements. *)
LEMMA AppendNonEmpty ==
    ASSUME NEW S, NEW sq \in Seq(S), NEW x \in S
    PROVE  Append(sq, x) \in Seq(S) /\ Append(sq, x) # <<>>
<1>1. Len(Append(sq, x)) # 0
  OBVIOUS
<1>2. Len(<<>>) = 0
  OBVIOUS
<1>3. QED
  BY <1>1

(* Popping or advancing the innermost frame keeps a stack of frames. *)
LEMMA StackStep ==
    ASSUME NEW s \in Seq(Frames), s # <<>>
    PROVE  /\ s[Len(s)] \in Frames
           /\ SubSeq(s, 1, Len(s) - 1) \in Seq(Frames)
           /\ Append(SubSeq(s, 1, Len(s) - 1),
                     [node |-> s[Len(s)].node, i |-> s[Len(s)].i + 1])
                 \in Seq(Frames) \ {<<>>}
<1>1. s[Len(s)] \in Frames
  OBVIOUS
<1>2. SubSeq(s, 1, Len(s) - 1) \in Seq(Frames)
  OBVIOUS
<1>3. [node |-> s[Len(s)].node, i |-> s[Len(s)].i + 1] \in Frames
  BY <1>1 DEF Frames
<1>4. QED
  BY <1>1, <1>2, <1>3, AppendNonEmpty

-----------------------------------------------------------------------------
(* While on_start's walk is under way the stack holds the active calls,  *)
(* one per model entered, and is never empty.                             *)
TypeInv ==
    /\ TypeOK
    /\ stack \in Seq(Frames)
    /\ stage = "walking" => stack # <<>>

(* The stack's frames are of TypeOK's kind. *)
LEMMA FramesTypeOK ==
    ASSUME NEW sq \in Seq(Frames)
    PROVE  sq \in Seq([node : {n \in Nodes : NodeKind[n] = "model"}, i : Nat])
<1>1. Frames \subseteq [node : {n \in Nodes : NodeKind[n] = "model"}, i : Nat]
  BY DEF Frames, Models
<1>2. QED
  BY <1>1, SeqMonotonic

(* The steps of recursive_subscribe keep the walk's frames well formed. *)
LEMMA WalkStepTypeInv ==
    ASSUME TypeInv, WalkStep
    PROVE  TypeInv'
<1> USE DEF TypeInv, TypeOK
<1> DEFINE top  == stack[Len(stack)]
           rest == SubSeq(stack, 1, Len(stack) - 1)
           next == Append(rest, [node |-> top.node, i |-> top.i + 1])
<1>0. /\ stack \in Seq(Frames) /\ stack # <<>>
      /\ UNCHANGED <<file, argv, config, awsStarted>>
  BY DEF WalkStep
<1>1. /\ top \in Frames /\ rest \in Seq(Frames)
      /\ next \in Seq(Frames) /\ next # <<>>
  BY <1>0, StackStep
<1>2. Dict[top.node] \in Seq([name : STRING, node : Nodes])
  BY <1>1, TreeAssumption DEF Frames, Models
<1>3. CASE top.i > Len(Dict[top.node])
  <2>1. /\ stack' = rest
        /\ stage' = IF rest = <<>> THEN "running" ELSE stage
        /\ UNCHANGED registry
    BY <1>3 DEF WalkStep
  <2>2. QED
    BY <1>0, <1>1, <2>1, FramesTypeOK DEF Stages
<1>4. CASE ~(top.i > Len(Dict[top.node]))
  <2> DEFINE e == Dict[top.node][top.i]
  <2>1. top.i \in 1..Len(Dict[top.node])
    BY <1>1, <1>4 DEF Frames
  <2>2. e \in [name : STRING, node : Nodes]
    BY <1>2, <2>1, ElementOfSeq
  <2>3. /\ UNCHANGED stage
        /\ stack' = IF e.name # "parent" /\ NodeKind[e.node] = "model"
                    THEN Append(next, [node |-> e.node, i |-> 1])
                    ELSE next
        /\ registry' \in {registry, registry \cup {NodePath[e.node]}}
    BY <1>4, Zenon DEF WalkStep
  <2>4. stack' \in Seq(Frames) /\ stack' # <<>>
    <3>1. [node |-> e.node, i |-> 1] \in Frames
          => Append(next, [node |-> e.node, i |-> 1]) \in Seq(Frames) \ {<<>>}
      BY <1>1, AppendNonEmpty
    <3>2. e.name # "parent" /\ NodeKind[e.node] = "model"
          => [node |-> e.node, i |-> 1] \in Frames
      BY <2>2 DEF Frames, Models
    <3>3. QED
      BY <1>1, <2>3, <3>1, <3>2
  <2>5. registry' \subseteq {NodePath[n] : n \in Nodes}
    BY <2>2, <2>3
  <2>6. QED
    BY <1>0, <2>3, <2>4, <2>5, FramesTypeOK
<1>5. QED
  BY <1>3, <1>4

LEMMA NextTypeInv ==
    ASSUME TypeInv, [Next]_vars
    PROVE  TypeInv'
<1> USE DEF TypeInv, TypeOK
<1>1. CASE CreateApp
  <2>1. DOMAIN Namespace(file.content, argv) = ConfigKeys
    BY DEF Namespace
  <2>2. QED
    BY <1>1, <2>1 DEF CreateApp, Stages
<1>2. CASE StartConnection
  BY <1>2 DEF StartConnection, Stages
<1>3. CASE OnStart
  <2>1. <<[node |-> Root, i |-> 1]>> \in Seq(Frames) \ {<<>>}
    BY TreeAssumption DEF Frames, Models
  <2>2. QED
    BY <1>3, <2>1, FramesTypeOK DEF OnStart, Stages
<1>4. CASE WalkStep
  BY <1>4, WalkStepTypeInv
<1>5. CASE UNCHANGED vars
  BY <1>5 DEF vars
<1>6. QED
  BY <1>1, <1>2, <1>3, <1>4, <1>5 DEF Next

(* Every state main() reaches is well typed: in particular the frame that *)
(* recursive_subscribe's loop reads exists and names a model object of   *)
(* the signal tree, and only paths of the tree's objects enter           *)
(* self.signals.                                                           *)
THEOREM TypeCorrect == Spec => []TypeOK
<1>1. Init => TypeInv
  BY EmptySeq, FramesTypeOK DEF Init, TypeInv, TypeOK, Stages
<1>2. TypeInv /\ [Next]_vars => TypeInv'
  BY NextTypeInv
<1>3. TypeInv => TypeOK
  BY DEF TypeInv
<1>4. QED
  BY <1>1, <1>2, <1>3, PTL DEF Spec
=============================================================================
