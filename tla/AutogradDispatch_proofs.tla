---------------------- MODULE AutogradDispatch_proofs ----------------------
(***************************************************************************)
(* Proofs about the Autograd kernels of the operators: for every set of    *)
(* threads, number of calls, arguments and devices.                        *)
(***************************************************************************)
EXTENDS AutogradDispatch, TLAPS

-----------------------------------------------------------------------------
(* The inductive invariant.                                                *)

Ops == {"forward", "backward"}

CallType ==
    [op : Ops, from : Nat, args : ArgsType, mode : BOOLEAN,
     outcome : {"pending", "returned", "raised"}, node : Nat,
     native : {Nothing} \cup [op : Ops, args : ArgsType]]

NodeType == [op : Ops, saved : ArgsType, freed : BOOLEAN]

TypeInv ==
    /\ calls \in Seq(CallType)
    /\ nodes \in Seq(NodeType)
    /\ active \in [Threads -> Nat] /\ \A t \in Threads : active[t] <= Len(calls)
    /\ stack = [t \in Threads |-> stack[t]]
    /\ excluded \in [Threads -> BOOLEAN]
    /\ gradMode \in [Threads -> BOOLEAN]

(* Whether the graph is to have a node for a call. *)
Recorded(c) == c.mode /\ c.args.requires # {}

SameBuildAndInputs(args, saved) ==
    /\ args.ns = saved.ns /\ args.device = saved.device /\ args.inputs = saved.inputs
    /\ args.step = saved.step /\ args.check_cuda_metadata = saved.check_cuda_metadata

(* What a call leaves behind, given the nodes: it ran the kernel of its    *)
(* own arguments, its node saves them, and what the engine calls for a     *)
(* node has what that node saved.                                          *)
History(c, recorded) ==
    /\ c.op = "forward" => "g" \notin c.args.requires
    /\ c.native # Nothing => c.native = Native(c)
    /\ c.outcome = "returned" => (c.node # NoNode <=> Recorded(c))
    /\ c.node # NoNode =>
           /\ c.node \in 1 .. Len(recorded)
           /\ recorded[c.node].op = c.op /\ recorded[c.node].saved = c.args
    /\ c.from # NoNode =>
           /\ c.from \in 1 .. Len(recorded)
           /\ c.op = "backward"
           /\ recorded[c.from].op = "backward" => c.outcome = "raised"
           /\ SameBuildAndInputs(c.args, recorded[c.from].saved)

(* The frame under which a call runs below autograd. *)
Guards(f, c) ==
    /\ f.at = "guarded" /\ f.op = c.op /\ f.args = c.args
    /\ f.excluded = FALSE /\ f.gradMode = c.mode
    /\ f.records <=> Recorded(c)

(* The frames of a call in progress, and what the thread has then. *)
Running(c, frames, isExcluded, mode) ==
    /\ c.outcome = "pending" /\ c.node = NoNode
    /\ \/ frames = <<Target(c.op, c.args, FALSE)>> /\ ~isExcluded /\ mode = c.mode
       \/ frames = <<frames[1], Target(c.op, c.args, TRUE)>> /\ Guards(frames[1], c)
       \/ frames = <<frames[1]>> /\ Guards(frames[1], c)

ThreadInv(t) ==
    \/ stack[t] = << >> /\ ~excluded[t] /\ (active[t] # 0 => gradMode[t] = calls[active[t]].mode)
    \/ active[t] # 0 /\ Running(calls[active[t]], stack[t], excluded[t], gradMode[t])

DispatchInv ==
    /\ TypeInv
    /\ \A i \in 1 .. Len(calls) : History(calls[i], nodes)
    /\ \A t, u \in Threads : active[t] = active[u] /\ active[t] # 0 => t = u
    /\ \A t \in Threads : ThreadInv(t)

-----------------------------------------------------------------------------
(* Sequences.                                                              *)

LEMMA Appended ==
    ASSUME NEW S, NEW s \in Seq(S), NEW e \in S
    PROVE  /\ Append(s, e) \in Seq(S)
           /\ Len(s) \in Nat /\ Len(Append(s, e)) = Len(s) + 1
           /\ Append(s, e)[Len(s) + 1] = e
           /\ \A i \in 1 .. Len(s) : Append(s, e)[i] = s[i]
OBVIOUS

LEMMA Replaced ==
    ASSUME NEW S, NEW s \in Seq(S), NEW k \in 1 .. Len(s), NEW e \in S
    PROVE  /\ [s EXCEPT ![k] = e] \in Seq(S)
           /\ Len([s EXCEPT ![k] = e]) = Len(s)
           /\ [s EXCEPT ![k] = e][k] = e
           /\ \A i \in 1 .. Len(s) : i # k => [s EXCEPT ![k] = e][i] = s[i]
OBVIOUS

LEMMA Member ==
    ASSUME NEW S, NEW s \in Seq(S), NEW i \in 1 .. Len(s)
    PROVE  s[i] \in S
OBVIOUS

-----------------------------------------------------------------------------
(* What a step of one thread leaves to the others.                         *)

(* Nodes are only added, and freed. *)
NodesKept ==
    /\ Len(nodes) <= Len(nodes')
    /\ \A n \in 1 .. Len(nodes) : nodes'[n].op = nodes[n].op /\ nodes'[n].saved = nodes[n].saved

LEMMA HistoryKept ==
    ASSUME nodes \in Seq(NodeType), nodes' \in Seq(NodeType), NodesKept,
           NEW c, History(c, nodes)
    PROVE  History(c, nodes')
<1>1. Len(nodes) \in Nat /\ Len(nodes') \in Nat
  OBVIOUS
<1>2. \A n : n \in 1 .. Len(nodes) =>
          n \in 1 .. Len(nodes') /\ nodes'[n].op = nodes[n].op /\ nodes'[n].saved = nodes[n].saved
  BY <1>1 DEF NodesKept
<1> HIDE DEF NodesKept
<1> QED
  BY <1>2 DEF History

LEMMA OneThread ==
    ASSUME DispatchInv, TypeInv', NodesKept, NEW t \in Threads,
           \A u \in Threads \ {t} :
               /\ active'[u] = active[u] /\ stack'[u] = stack[u]
               /\ excluded'[u] = excluded[u] /\ gradMode'[u] = gradMode[u],
           active'[t] = active[t] \/ active'[t] = Len(calls) + 1,
           Len(calls') \in {Len(calls), Len(calls) + 1},
           \A i \in 1 .. Len(calls) : i # active'[t] => calls'[i] = calls[i],
           active'[t] \in 1 .. Len(calls') => History(calls'[active'[t]], nodes'),
           Len(calls') = Len(calls) + 1 => History(calls'[Len(calls) + 1], nodes'),
           ThreadInv(t)'
    PROVE  DispatchInv'
<1>1. /\ Len(calls) \in Nat
      /\ \A u \in Threads : active[u] \in Nat /\ active[u] <= Len(calls)
  BY DEF DispatchInv, TypeInv
<1>2. \A u, v \in Threads : active'[u] = active'[v] /\ active'[u] # 0 => u = v
  BY <1>1 DEF DispatchInv
<1>3. ASSUME NEW i \in 1 .. Len(calls') PROVE History(calls'[i], nodes')
  <2>1. CASE i \in 1 .. Len(calls) /\ i # active'[t]
    BY <2>1, HistoryKept DEF DispatchInv, TypeInv
  <2>2. CASE i = active'[t] \/ i = Len(calls) + 1
    BY <1>1, <2>2
  <2> QED
    BY <1>1, <2>1, <2>2
<1>4. ASSUME NEW u \in Threads PROVE ThreadInv(u)'
  <2>1. CASE u = t
    BY <2>1
  <2>2. CASE u # t
    <3>1. /\ active'[u] = active[u] /\ stack'[u] = stack[u]
          /\ excluded'[u] = excluded[u] /\ gradMode'[u] = gradMode[u]
      BY <2>2
    <3>2. active[u] # 0 => calls'[active[u]] = calls[active[u]]
      <4>1. active[u] # 0 => active[u] \in 1 .. Len(calls)
        BY <1>1
      <4>2. active[u] # 0 => active[u] # active'[t]
        BY <1>2, <2>2, <3>1
      <4> QED
        BY <4>1, <4>2
    <3> QED
      BY <3>1, <3>2 DEF ThreadInv, DispatchInv
  <2> QED
    BY <2>1, <2>2
<1> QED
  BY <1>2, <1>3, <1>4 DEF DispatchInv

(* A thread starts a call, of a user or of a node. *)
LEMMA Starts ==
    ASSUME DispatchInv, NodesKept, nodes' \in Seq(NodeType),
           NEW t \in Threads, stack[t] = << >>, NEW c \in CallType, Start(t, c),
           c.outcome = "pending", c.node = NoNode, c.native = Nothing,
           History(c, nodes')
    PROVE  DispatchInv'
<1>1. /\ calls' = Append(calls, c) /\ calls \in Seq(CallType)
      /\ active' = [active EXCEPT ![t] = Len(calls) + 1]
      /\ stack' = [stack EXCEPT ![t] = <<Target(c.op, c.args, excluded[t])>>]
      /\ gradMode' = [gradMode EXCEPT ![t] = c.mode]
      /\ UNCHANGED excluded
      /\ c.mode \in BOOLEAN
  BY DEF Start, DispatchInv, TypeInv, CallType
<1>2. ~excluded[t]
  <2>1. ASSUME active[t] # 0, Running(calls[active[t]], stack[t], excluded[t], gradMode[t])
        PROVE  FALSE
    <3>1. \E a, b : stack[t] = <<a>> \/ stack[t] = <<a, b>>
      BY <2>1, Zenon DEF Running
    <3> QED
      BY <3>1
  <2> QED
    BY <2>1, Zenon DEF DispatchInv, ThreadInv
<1>3. /\ calls' \in Seq(CallType) /\ Len(calls) \in Nat /\ Len(calls') = Len(calls) + 1
      /\ calls'[Len(calls) + 1] = c
      /\ \A i \in 1 .. Len(calls) : calls'[i] = calls[i]
  BY <1>1, Appended
<1>4. /\ active'[t] = Len(calls) + 1
      /\ stack'[t] = <<Target(c.op, c.args, FALSE)>>
      /\ gradMode'[t] = c.mode /\ ~excluded'[t]
      /\ \A u \in Threads \ {t} :
             /\ active'[u] = active[u] /\ stack'[u] = stack[u]
             /\ excluded'[u] = excluded[u] /\ gradMode'[u] = gradMode[u]
  BY <1>1, <1>2 DEF DispatchInv, TypeInv, Target
<1>5. TypeInv'
  <2>1. active' \in [Threads -> Nat] /\ \A u \in Threads : active'[u] <= Len(calls')
    BY <1>1, <1>3, <1>4 DEF DispatchInv, TypeInv
  <2>2. stack' = [u \in Threads |-> stack'[u]]
    BY <1>1 DEF DispatchInv, TypeInv
  <2>3. gradMode' \in [Threads -> BOOLEAN]
    BY <1>1, Zenon DEF DispatchInv, TypeInv
  <2>4. excluded' \in [Threads -> BOOLEAN]
    BY <1>1 DEF DispatchInv, TypeInv
  <2> QED
    BY <1>3, <2>1, <2>2, <2>3, <2>4 DEF TypeInv
<1>6. ThreadInv(t)'
  <2>1. active'[t] # 0 /\ calls'[active'[t]] = c
    BY <1>3, <1>4
  <2>2. Running(c, stack'[t], excluded'[t], gradMode'[t])
    BY <1>4, Zenon DEF Running
  <2> QED
    BY <2>1, <2>2, Zenon DEF ThreadInv
<1> QED
  BY <1>3, <1>4, <1>5, <1>6, OneThread

LEMMA UserCalls ==
    ASSUME DispatchInv, NEW t \in Threads, UserCall(t)
    PROVE  DispatchInv'
<1>1. PICK args \in UserArgs, op \in Ops, mode \in BOOLEAN :
        /\ op = "forward" => "g" \notin args.requires \cup args.contiguous
        /\ Start(t, Call(op, NoNode, [args EXCEPT !.inputs = Len(calls) + 1], mode))
  BY DEF UserCall, Ops
<1>2. Len(calls) \in Nat
  BY DEF DispatchInv, TypeInv
<1>3. PICK own : own = [args EXCEPT !.inputs = Len(calls) + 1]
  OBVIOUS
<1>4. own \in ArgsType /\ own.requires = args.requires
  BY <1>2, <1>3, DispatchAssumption DEF ArgsType
<1> DEFINE c == Call(op, NoNode, own, mode)
<1>5. c \in CallType
  BY <1>4 DEF Call, CallType, NoNode
<1>6. /\ c.op = op /\ c.args = own /\ c.outcome = "pending" /\ c.node = NoNode
      /\ c.native = Nothing /\ c.from = NoNode
  BY DEF Call
<1>7. Start(t, c) /\ stack[t] = << >> /\ UNCHANGED nodes
  BY <1>1, <1>3 DEF UserCall, Idle
<1> HIDE DEF c
<1>8. History(c, nodes')
  BY <1>1, <1>4, <1>6 DEF History
<1>9. NodesKept /\ nodes' \in Seq(NodeType)
  BY <1>7 DEF NodesKept, DispatchInv, TypeInv
<1> QED
  BY <1>5, <1>6, <1>7, <1>8, <1>9, Starts

(* A node that is freed keeps what a reader of this module looks at. *)
LEMMA NodeFreed ==
    ASSUME TypeInv, NEW n \in DOMAIN nodes, NEW freed \in BOOLEAN,
           nodes' = [nodes EXCEPT ![n].freed = freed]
    PROVE  NodesKept /\ nodes' \in Seq(NodeType)
<1>1. nodes \in Seq(NodeType) /\ n \in 1 .. Len(nodes)
  BY DEF TypeInv
<1>2. nodes[n] \in NodeType
  BY <1>1, Member
<1>3. PICK node : node = [nodes[n] EXCEPT !.freed = freed]
  OBVIOUS
<1>4. node \in NodeType /\ node.op = nodes[n].op /\ node.saved = nodes[n].saved
  BY <1>2, <1>3 DEF NodeType
<1>5. nodes' = [nodes EXCEPT ![n] = node]
  BY <1>3
<1> QED
  BY <1>1, <1>4, <1>5, Replaced DEF NodesKept

LEMMA NodeApplied ==
    ASSUME DispatchInv, NEW t \in Threads, ApplyForwardNode(t)
    PROVE  DispatchInv'
<1>1. PICK n \in DOMAIN nodes, createGraph \in BOOLEAN, retain \in BOOLEAN,
           gradient \in {{}, {"g"}}, layout \in {{}, {"g"}} :
        /\ nodes[n].op = "forward"
        /\ ~nodes[n].freed
        /\ createGraph => retain
        /\ Start(t, Call("backward", n,
                         [nodes[n].saved EXCEPT !.requires = @ \cup gradient,
                                                !.contiguous = @ \cup layout],
                         createGraph))
        /\ nodes' = [nodes EXCEPT ![n].freed = ~retain]
  BY DEF ApplyForwardNode
<1>2. nodes[n] \in NodeType /\ n \in 1 .. Len(nodes) /\ n \in Nat /\ n # 0
  BY Member DEF DispatchInv, TypeInv
<1> DEFINE saved == nodes[n].saved
<1>3. saved \in ArgsType
  BY <1>2 DEF NodeType
<1>4. PICK args : args = [saved EXCEPT !.requires = @ \cup gradient, !.contiguous = @ \cup layout]
  OBVIOUS
<1>5. args \in ArgsType /\ SameBuildAndInputs(args, saved)
  BY <1>3, <1>4 DEF ArgsType, Differentiable, SameBuildAndInputs
<1> DEFINE c == Call("backward", n, args, createGraph)
<1>6. c \in CallType
  BY <1>2, <1>5 DEF Call, CallType, NoNode, Ops
<1>7. /\ c.op = "backward" /\ c.args = args /\ c.outcome = "pending" /\ c.node = NoNode
      /\ c.native = Nothing /\ c.from = n
  BY DEF Call
<1>8. Start(t, c) /\ stack[t] = << >>
  BY <1>1, <1>4 DEF ApplyForwardNode, Idle
<1> HIDE DEF c
<1>9. NodesKept /\ nodes' \in Seq(NodeType)
  <2>1. (~retain) \in BOOLEAN
    BY Zenon
  <2> QED
    BY <1>1, <2>1, NodeFreed DEF DispatchInv
<1>10. n \in 1 .. Len(nodes') /\ nodes'[n].op = "forward" /\ nodes'[n].saved = saved
  <2>1. Len(nodes) \in Nat /\ Len(nodes') \in Nat
    BY <1>9 DEF DispatchInv, TypeInv
  <2>2. nodes'[n].op = nodes[n].op /\ nodes'[n].saved = nodes[n].saved
    BY <1>2, <1>9 DEF NodesKept
  <2>3. Len(nodes) <= Len(nodes')
    BY <1>9 DEF NodesKept
  <2>4. n \in 1 .. Len(nodes')
    BY <1>2, <2>1, <2>3
  <2> QED
    BY <1>1, <2>2, <2>4
<1>11. History(c, nodes')
  BY <1>5, <1>7, <1>10 DEF History
<1> QED
  BY <1>6, <1>7, <1>8, <1>9, <1>11, Starts

LEMMA NodeRaises ==
    ASSUME DispatchInv, NEW t \in Threads, ApplyRaises(t)
    PROVE  DispatchInv'
<1>1. PICK n \in DOMAIN nodes, createGraph \in BOOLEAN :
        calls' = Append(calls, [Call("backward", n, nodes[n].saved, createGraph)
                                    EXCEPT !.outcome = "raised"])
  BY DEF ApplyRaises
<1>2. nodes[n] \in NodeType /\ n \in 1 .. Len(nodes) /\ n \in Nat
  BY Member DEF DispatchInv, TypeInv
<1>3. PICK c : c = [Call("backward", n, nodes[n].saved, createGraph) EXCEPT !.outcome = "raised"]
  OBVIOUS
<1>4. c \in CallType
  BY <1>2, <1>3 DEF Call, CallType, NodeType, NoNode, Ops
<1>5. /\ c.op = "backward" /\ c.args = nodes[n].saved /\ c.outcome = "raised"
      /\ c.node = NoNode /\ c.native = Nothing /\ c.from = n
  BY <1>3 DEF Call
<1>6. UNCHANGED <<nodes, active, stack, excluded, gradMode>>
  BY DEF ApplyRaises, tls
<1>7. /\ calls \in Seq(CallType) /\ calls' \in Seq(CallType)
      /\ Len(calls) \in Nat /\ Len(calls') = Len(calls) + 1 /\ calls'[Len(calls) + 1] = c
      /\ \A i \in 1 .. Len(calls) : calls'[i] = calls[i]
  BY <1>1, <1>3, <1>4, Appended DEF DispatchInv, TypeInv
<1>8. TypeInv' /\ NodesKept
  BY <1>6, <1>7 DEF DispatchInv, TypeInv, NodesKept
<1>9. History(c, nodes')
  BY <1>2, <1>5, <1>6 DEF History, SameBuildAndInputs
<1>10. active[t] \in Nat /\ active[t] <= Len(calls)
  BY DEF DispatchInv, TypeInv
<1>11. active[t] \in 1 .. Len(calls') => History(calls'[active[t]], nodes')
  BY <1>6, <1>7, <1>10 DEF DispatchInv
<1>12. ThreadInv(t)'
  <2>1. active[t] # 0 => calls'[active[t]] = calls[active[t]]
    BY <1>7, <1>10
  <2> QED
    BY <1>6, <2>1 DEF DispatchInv, ThreadInv
<1> QED
  BY <1>6, <1>7, <1>8, <1>9, <1>11, <1>12, OneThread

-----------------------------------------------------------------------------
(* The frames of a call in progress.                                       *)

LEMMA Frames ==
    ASSUME NEW a, NEW b
    PROVE  /\ Len(<<a>>) = 1 /\ <<a>>[1] = a /\ SubSeq(<<a>>, 1, Len(<<a>>) - 1) = << >>
           /\ Len(<<a, b>>) = 2 /\ <<a, b>>[1] = a /\ <<a, b>>[2] = b
           /\ SubSeq(<<a, b>>, 1, Len(<<a, b>>) - 1) = <<a>>
           /\ Append(Append(<< >>, a), b) = <<a, b>>
           /\ <<a>> # << >> /\ <<a, b>> # << >>
<1>1. SubSeq(<<a>>, 1, 0) = << >>
  OBVIOUS
<1>2. SubSeq(<<a, b>>, 1, 1) = <<a>>
  <2>1. <<a, b>> \in Seq({a, b})
    OBVIOUS
  <2>2. PICK s : s = <<a, b>>
    OBVIOUS
  <2>3. PICK sub : sub = SubSeq(s, 1, 1)
    OBVIOUS
  <2>4. sub \in Seq({a, b}) /\ Len(sub) = 1 /\ sub[1] = a
    BY <2>1, <2>2, <2>3
  <2>5. sub = <<a>>
    BY <2>4
  <2> QED
    BY <2>2, <2>3, <2>5
<1>3. Append(Append(<< >>, a), b) = <<a, b>>
  <2>1. Append(<< >>, a) = <<a>>
    OBVIOUS
  <2>2. Append(<<a>>, b) = <<a, b>>
    <3>1. PICK s : s = <<a>>
      OBVIOUS
    <3>2. PICK more : more = Append(s, b)
      OBVIOUS
    <3>3. s \in Seq({a, b}) /\ Len(s) = 1 /\ s[1] = a
      BY <3>1
    <3> HIDE <3>1
    <3>4. more \in Seq({a, b}) /\ Len(more) = 2 /\ more[1] = a /\ more[2] = b
      BY <3>2, <3>3
    <3>5. more = <<a, b>>
      BY <3>4
    <3> QED
      BY <3>1, <3>2, <3>5
  <2> QED
    BY <2>1, <2>2
<1> QED
  BY <1>1, <1>2, <1>3

LEMMA InProgress ==
    ASSUME DispatchInv, NEW t \in Threads, stack[t] # << >>
    PROVE  /\ active[t] \in 1 .. Len(calls)
           /\ calls[active[t]] \in CallType
           /\ Running(calls[active[t]], stack[t], excluded[t], gradMode[t])
           /\ History(calls[active[t]], nodes)
<1>1. active[t] # 0 /\ Running(calls[active[t]], stack[t], excluded[t], gradMode[t])
  BY DEF DispatchInv, ThreadInv
<1>2. active[t] \in 1 .. Len(calls)
  BY <1>1 DEF DispatchInv, TypeInv
<1> QED
  BY <1>1, <1>2, Member DEF DispatchInv, TypeInv

(* Which frames there are follows from what is to run next. *)
LEMMA FramesAt ==
    ASSUME DispatchInv, NEW t \in Threads, NEW c, c = calls[active[t]]
    PROVE  /\ In(t, "autograd") =>
                  /\ stack[t] = <<Target(c.op, c.args, FALSE)>>
                  /\ ~excluded[t] /\ gradMode[t] = c.mode
           /\ In(t, "guarded") => stack[t] = <<stack[t][1]>> /\ Guards(stack[t][1], c)
           /\ In(t, "composite") =>
                  /\ stack[t] = <<stack[t][1], Target(c.op, c.args, TRUE)>>
                  /\ Guards(stack[t][1], c)
<1>1. SUFFICES ASSUME stack[t] # << >>
      PROVE  /\ In(t, "autograd") =>
                  /\ stack[t] = <<Target(c.op, c.args, FALSE)>>
                  /\ ~excluded[t] /\ gradMode[t] = c.mode
             /\ In(t, "guarded") => stack[t] = <<stack[t][1]>> /\ Guards(stack[t][1], c)
             /\ In(t, "composite") =>
                    /\ stack[t] = <<stack[t][1], Target(c.op, c.args, TRUE)>>
                    /\ Guards(stack[t][1], c)
  BY DEF In
<1>2. Running(c, stack[t], excluded[t], gradMode[t])
  BY <1>1, InProgress
<1>3. CASE stack[t] = <<Target(c.op, c.args, FALSE)>> /\ ~excluded[t] /\ gradMode[t] = c.mode
  <2>1. Top(t).at = "autograd"
    BY <1>3, Frames DEF Top, Target, Frame
  <2> QED
    BY <1>3, <2>1 DEF In
<1>4. CASE stack[t] = <<stack[t][1], Target(c.op, c.args, TRUE)>> /\ Guards(stack[t][1], c)
  <2>1. Top(t).at = "composite"
    <3>1. PICK a, b : a = stack[t][1] /\ b = Target(c.op, c.args, TRUE)
      OBVIOUS
    <3>2. stack[t] = <<a, b>> /\ b.at = "composite"
      BY <1>4, <3>1 DEF Target, Frame
    <3> QED
      BY <3>2, Frames DEF Top
  <2> QED
    BY <1>4, <2>1 DEF In
<1>5. CASE stack[t] = <<stack[t][1]>> /\ Guards(stack[t][1], c)
  <2>1. Top(t).at = "guarded"
    BY <1>5, Frames DEF Top, Guards
  <2> QED
    BY <1>5, <2>1 DEF In
<1> QED
  BY <1>2, <1>3, <1>4, <1>5, Zenon DEF Running

(* The guards remember what the caller had. *)
LEMMA Guarding ==
    ASSUME NEW c \in CallType, NEW f, f = Target(c.op, c.args, FALSE),
           NEW records, records <=> Recorded(c)
    PROVE  Guards([f EXCEPT !.at = "guarded", !.excluded = FALSE, !.gradMode = c.mode,
                            !.records = records], c)
<1>1. PICK mode : mode = c.mode
  OBVIOUS
<1>2. PICK g : g = [f EXCEPT !.at = "guarded", !.excluded = FALSE, !.gradMode = mode,
                             !.records = records]
  OBVIOUS
<1>3. g.at = "guarded" /\ g.op = c.op /\ g.args = c.args /\ g.excluded = FALSE
      /\ g.gradMode = mode /\ g.records = records
  BY <1>2 DEF Target, Frame
<1> QED
  BY <1>1, <1>2, <1>3 DEF Guards

(* A thread goes on with its call: what is left to show of the step. *)
LEMMA Goes ==
    ASSUME DispatchInv, NodesKept, nodes' \in Seq(NodeType), NEW t \in Threads, stack[t] # << >>,
           UNCHANGED active,
           NEW d \in CallType, calls' = [calls EXCEPT ![active[t]] = d],
           NEW frames, stack' = [stack EXCEPT ![t] = frames],
           NEW x \in BOOLEAN, excluded' = [excluded EXCEPT ![t] = x],
           NEW mode \in BOOLEAN, gradMode' = [gradMode EXCEPT ![t] = mode],
           History(d, nodes'),
           \/ frames = << >> /\ ~x /\ mode = d.mode
           \/ Running(d, frames, x, mode)
    PROVE  DispatchInv'
<1> DEFINE k == active[t]
<1>1. k \in 1 .. Len(calls) /\ Len(calls) \in Nat
  BY InProgress DEF DispatchInv, TypeInv
<1>2. /\ calls' \in Seq(CallType) /\ Len(calls') = Len(calls) /\ calls'[k] = d
      /\ \A i \in 1 .. Len(calls) : i # k => calls'[i] = calls[i]
  BY <1>1, Replaced DEF DispatchInv, TypeInv
<1>3. /\ stack'[t] = frames /\ excluded'[t] = x /\ gradMode'[t] = mode
      /\ \A u \in Threads \ {t} :
             /\ active'[u] = active[u] /\ stack'[u] = stack[u]
             /\ excluded'[u] = excluded[u] /\ gradMode'[u] = gradMode[u]
  BY DEF DispatchInv, TypeInv
<1>4. TypeInv'
  <2>1. excluded' \in [Threads -> BOOLEAN] /\ gradMode' \in [Threads -> BOOLEAN]
    BY Zenon DEF DispatchInv, TypeInv
  <2>2. stack' = [u \in Threads |-> stack'[u]]
    BY DEF DispatchInv, TypeInv
  <2>3. active' \in [Threads -> Nat] /\ \A u \in Threads : active'[u] <= Len(calls')
    BY <1>2 DEF DispatchInv, TypeInv
  <2> QED
    BY <1>2, <2>1, <2>2, <2>3 DEF TypeInv
<1>5. ThreadInv(t)'
  <2>1. calls'[active'[t]] = d /\ active'[t] # 0
    BY <1>1, <1>2
  <2> QED
    BY <1>3, <2>1, Zenon DEF ThreadInv
<1>6. /\ active'[t] = active[t] /\ Len(calls') \in {Len(calls), Len(calls) + 1}
      /\ \A i \in 1 .. Len(calls) : i # active'[t] => calls'[i] = calls[i]
      /\ History(calls'[active'[t]], nodes')
      /\ Len(calls') # Len(calls) + 1
  <2>1. active'[t] = k /\ Len(calls') \in {Len(calls), Len(calls) + 1} /\ Len(calls') # Len(calls) + 1
    <3>1. PICK n \in Nat : n = Len(calls) /\ n = Len(calls')
      BY <1>1, <1>2
    <3>2. n \in {n, n + 1} /\ n # n + 1
      OBVIOUS
    <3>3. active'[t] = k
      OBVIOUS
    <3> QED
      BY <3>1, <3>2, <3>3
  <2>2. History(calls'[k], nodes')
    BY <1>2
  <2> HIDE DEF k
  <2> QED
    BY <1>2, <2>1, <2>2
<1> QED
  BY <1>3, <1>4, <1>5, <1>6, OneThread

LEMMA Enters ==
    ASSUME DispatchInv, NEW t \in Threads, EnterAutograd(t)
    PROVE  DispatchInv'
<1> DEFINE c == calls[active[t]]
           f == Target(c.op, c.args, FALSE)
           g == [f EXCEPT !.at = "guarded", !.excluded = FALSE, !.gradMode = c.mode,
                          !.records = NeedsGrad(t, f)]
           b == Target(c.op, c.args, TRUE)
<1>1. In(t, "autograd") /\ stack[t] # << >> /\ UNCHANGED <<calls, nodes, active>>
  BY DEF EnterAutograd, In
<1>2. stack[t] = <<f>> /\ ~excluded[t] /\ gradMode[t] = c.mode
  BY <1>1, FramesAt
<1>3. /\ c \in CallType /\ active[t] \in 1 .. Len(calls) /\ Running(c, stack[t], excluded[t], gradMode[t])
      /\ History(c, nodes)
  BY <1>1, InProgress
<1>4. Top(t) = f /\ Below(t) = << >>
  BY <1>2, Frames DEF Top, Below
<1>5. excluded[t] = FALSE
  BY <1>2 DEF DispatchInv, TypeInv
<1>6. f.op = c.op /\ f.args = c.args
  BY DEF Target, Frame
<1>7. NeedsGrad(t, f) <=> Recorded(c)
  <2>1. c.args.requires \subseteq Differentiable
    BY <1>3 DEF CallType, ArgsType
  <2>2. c.args.requires \cap (IF c.op = "forward" THEN {"v", "l", "w"} ELSE Differentiable) # {}
            <=> c.args.requires # {}
    BY <1>3, <2>1 DEF Differentiable, History
  <2> QED
    BY <1>2, <1>6, <2>2 DEF NeedsGrad, Recorded
<1>8. /\ stack' = [stack EXCEPT ![t] = Append(Append(<< >>, g), b)]
      /\ excluded' = [excluded EXCEPT ![t] = TRUE]
      /\ gradMode' = [gradMode EXCEPT ![t] = gradMode[t] /\ ~NeedsGrad(t, f)]
  BY <1>2, <1>4, <1>5, <1>6 DEF EnterAutograd, ExcludedBelow, Target
<1>9. Guards(g, c)
  BY <1>3, <1>7, Guarding
<1> HIDE DEF g, b, f
<1>10. PICK frames : frames = <<g, b>>
  OBVIOUS
<1>11. frames[1] = g /\ stack' = [stack EXCEPT ![t] = frames]
  <2>1. <<g, b>>[1] = g /\ Append(Append(<< >>, g), b) = <<g, b>>
    BY Frames
  <2> QED
    BY <1>8, <1>10, <2>1
<1>12. PICK mode \in BOOLEAN : mode = (gradMode[t] /\ ~NeedsGrad(t, f))
  BY Zenon
<1>13. Running(c, frames, TRUE, mode)
  BY <1>3, <1>9, <1>10, <1>11 DEF Running, b
<1>14. calls' = [calls EXCEPT ![active[t]] = c]
  BY <1>1, <1>3 DEF DispatchInv, TypeInv
<1>15. NodesKept /\ nodes' \in Seq(NodeType) /\ History(c, nodes')
  BY <1>1, <1>3 DEF DispatchInv, TypeInv, NodesKept
<1>16. gradMode' = [gradMode EXCEPT ![t] = mode]
  BY <1>8, <1>12, Zenon
<1>17. PICK x \in BOOLEAN : x = TRUE
  OBVIOUS
<1>18. excluded' = [excluded EXCEPT ![t] = x] /\ Running(c, frames, x, mode)
  BY <1>8, <1>13, <1>17
<1>19. UNCHANGED active
  BY <1>1
<1> HIDE DEF c
<1> QED
  BY <1>1, <1>3, <1>11, <1>14, <1>15, <1>16, <1>18, <1>19, Goes DEF c

LEMMA Leaves ==
    ASSUME DispatchInv, NEW t \in Threads, LeaveAutograd(t)
    PROVE  DispatchInv'
<1> DEFINE c == calls[active[t]]
<1>1. In(t, "guarded") /\ stack[t] # << >> /\ UNCHANGED active
  BY DEF LeaveAutograd, In
<1>2. PICK f : f = stack[t][1]
  OBVIOUS
<1>3. stack[t] = <<f>> /\ Guards(f, c)
  BY <1>1, <1>2, FramesAt
<1>4. /\ c \in CallType /\ active[t] \in 1 .. Len(calls) /\ c.outcome = "pending"
      /\ c.node = NoNode /\ History(c, nodes)
  BY <1>1, InProgress DEF Running
<1>5. Top(t) = f /\ Below(t) = << >>
  BY <1>3, Frames DEF Top, Below
<1>6. PICK id : id = IF f.records THEN Len(nodes) + 1 ELSE c.node
  OBVIOUS
<1>7. PICK d : d = [c EXCEPT !.node = id, !.outcome = "returned"]
  OBVIOUS
<1>8. /\ calls' = [calls EXCEPT ![active[t]] = d]
      /\ nodes' = IF f.records THEN Append(nodes, NewNode(f)) ELSE nodes
      /\ stack' = [stack EXCEPT ![t] = << >>]
      /\ excluded' = [excluded EXCEPT ![t] = FALSE]
      /\ gradMode' = [gradMode EXCEPT ![t] = c.mode]
  <2>1. calls' = [calls EXCEPT ![active[t]] = d]
    <3>1. calls' = [calls EXCEPT ![active[t]] =
              [c EXCEPT !.node = IF f.records THEN Len(nodes) + 1 ELSE c.node,
                        !.outcome = "returned"]]
      BY <1>5 DEF LeaveAutograd
    <3> HIDE DEF c
    <3>2. calls' = [calls EXCEPT ![active[t]] = [c EXCEPT !.node = id, !.outcome = "returned"]]
      BY <1>6, <3>1, Zenon
    <3> QED
      BY <1>7, <3>2
  <2>2. nodes' = IF f.records THEN Append(nodes, NewNode(f)) ELSE nodes
    BY <1>5 DEF LeaveAutograd
  <2>3. stack' = [stack EXCEPT ![t] = << >>]
    BY <1>5 DEF LeaveAutograd
  <2>4. excluded' = [excluded EXCEPT ![t] = f.excluded] /\ gradMode' = [gradMode EXCEPT ![t] = f.gradMode]
    BY <1>5 DEF LeaveAutograd
  <2>5. f.excluded = FALSE /\ f.gradMode = c.mode
    BY <1>3 DEF Guards
  <2> HIDE DEF c
  <2> QED
    BY <2>1, <2>2, <2>3, <2>4, <2>5
<1>9. nodes \in Seq(NodeType) /\ Len(nodes) \in Nat
  BY DEF DispatchInv, TypeInv
<1>10. NewNode(f) \in NodeType /\ NewNode(f).op = c.op /\ NewNode(f).saved = c.args
  <2>1. c.args \in ArgsType /\ c.op \in Ops
    BY <1>4 DEF CallType
  <2>2. [f.args EXCEPT !.ns = SavedNamespace(f), !.check_cuda_metadata = SavedFlag(f)] = f.args
    BY <1>3, <2>1 DEF Guards, ArgsType, SavedNamespace, SavedFlag
  <2> QED
    BY <1>3, <2>1, <2>2 DEF Guards, NewNode, NodeType
<1>11. NodesKept /\ nodes' \in Seq(NodeType)
  <2>1. CASE f.records
    BY <1>8, <1>9, <1>10, <2>1, Appended DEF NodesKept
  <2>2. CASE ~f.records
    BY <1>8, <1>9, <2>2 DEF NodesKept
  <2> QED
    BY <2>1, <2>2
<1>12. id \in Nat
  BY <1>4, <1>6, <1>9 DEF NoNode
<1>13. /\ d \in CallType /\ d.op = c.op /\ d.args = c.args /\ d.mode = c.mode
       /\ d.from = c.from /\ d.native = c.native /\ d.node = id /\ d.outcome = "returned"
  BY <1>4, <1>7, <1>12 DEF CallType
<1>14. f.records <=> Recorded(d)
  BY <1>3, <1>13 DEF Guards, Recorded
<1>15. id # NoNode =>
           /\ f.records /\ id \in 1 .. Len(nodes')
           /\ nodes'[id].op = c.op /\ nodes'[id].saved = c.args
  <2> SUFFICES ASSUME id # NoNode
               PROVE  /\ f.records /\ id \in 1 .. Len(nodes')
                      /\ nodes'[id].op = c.op /\ nodes'[id].saved = c.args
    OBVIOUS
  <2>1. f.records
    BY <1>4, <1>6
  <2>2. nodes' = Append(nodes, NewNode(f)) /\ id = Len(nodes) + 1
    BY <1>6, <1>8, <2>1
  <2>3. id \in 1 .. Len(nodes') /\ nodes'[id] = NewNode(f)
    BY <1>9, <1>10, <2>2, Appended
  <2> QED
    BY <1>10, <2>1, <2>3
<1>16. f.records => id # NoNode
  BY <1>6, <1>9 DEF NoNode
<1>17. History(c, nodes')
  BY <1>4, <1>9, <1>11, HistoryKept
<1>18. History(d, nodes')
  <2>1. ASSUME c.from # NoNode
        PROVE  nodes'[c.from].op # "backward"
    BY <1>4, <1>17, <2>1 DEF History
  <2>2. c.native # Nothing => c.native = Native(d)
    BY <1>13, <1>17 DEF History, Native, Normalized
  <2> QED
    BY <1>13, <1>14, <1>15, <1>16, <1>17, <2>1, <2>2 DEF History
<1>19. PICK x \in BOOLEAN : x = FALSE
  OBVIOUS
<1>20. excluded' = [excluded EXCEPT ![t] = x] /\ ~x
  BY <1>8, <1>19
<1>21. PICK mode \in BOOLEAN : mode = c.mode
  BY <1>4 DEF CallType
<1>22. gradMode' = [gradMode EXCEPT ![t] = mode] /\ mode = d.mode
  BY <1>8, <1>13, <1>21
<1>23. UNCHANGED active
  BY <1>1
<1>24. PICK frames : frames = << >>
  OBVIOUS
<1>25. stack' = [stack EXCEPT ![t] = frames]
  BY <1>8, <1>24
<1> HIDE DEF c
<1> QED
  BY <1>1, <1>8, <1>11, <1>13, <1>18, <1>20, <1>22, <1>23, <1>24, <1>25, Goes

LEMMA CallsNative ==
    ASSUME DispatchInv, NEW t \in Threads, CallNative(t)
    PROVE  DispatchInv'
<1> DEFINE c == calls[active[t]]
           b == Target(c.op, c.args, TRUE)
<1>1. In(t, "composite") /\ stack[t] # << >> /\ UNCHANGED <<nodes, active, excluded, gradMode>>
  BY DEF CallNative, In
<1>2. PICK f : f = stack[t][1]
  OBVIOUS
<1>3. stack[t] = <<f, b>> /\ Guards(f, c)
  BY <1>1, <1>2, FramesAt
<1>4. /\ c \in CallType /\ active[t] \in 1 .. Len(calls) /\ c.outcome = "pending"
      /\ c.node = NoNode /\ History(c, nodes)
  BY <1>1, InProgress DEF Running
<1>5. Top(t) = b /\ Below(t) = <<f>> /\ <<f>> # << >>
  <2>1. PICK frame : frame = b
    OBVIOUS
  <2>2. stack[t] = <<f, frame>>
    BY <1>3, <2>1
  <2>3. /\ <<f, frame>>[2] = frame /\ Len(<<f, frame>>) = 2
        /\ SubSeq(<<f, frame>>, 1, Len(<<f, frame>>) - 1) = <<f>> /\ <<f>> # << >>
    BY Frames
  <2> QED
    BY <2>1, <2>2, <2>3 DEF Top, Below
<1>6. b.op = c.op /\ b.args = c.args
  BY DEF Target, Frame
<1>7. Native(b) = Native(c)
  BY <1>6 DEF Native, Normalized
<1>8. PICK d : d = [c EXCEPT !.native = Native(c)]
  OBVIOUS
<1>9. calls' = [calls EXCEPT ![active[t]] = d]
  <2>1. calls' = [calls EXCEPT ![active[t]] =
                     [c EXCEPT !.native = Native(b), !.outcome = c.outcome]]
    BY <1>4, <1>5 DEF CallNative, CallType, DispatchInv, TypeInv
  <2>2. PICK n : n = Native(c)
    OBVIOUS
  <2> HIDE DEF c, b
  <2>3. d = [c EXCEPT !.native = n]
    BY <1>8, <2>2
  <2>4. d = [c EXCEPT !.native = n, !.outcome = c.outcome]
    BY <1>4, <2>3 DEF CallType
  <2> QED
    BY <1>7, <2>1, <2>2, <2>4
<1>10. Native(c) \in [op : Ops, args : ArgsType]
  <2>1. c.op \in Ops /\ c.args \in ArgsType
    BY <1>4 DEF CallType
  <2>2. Normalized(c) \in ArgsType
    BY <2>1 DEF Normalized, ArgsType
  <2> QED
    BY <2>1, <2>2 DEF Native
<1>11. /\ d \in CallType /\ d.op = c.op /\ d.args = c.args /\ d.mode = c.mode
       /\ d.from = c.from /\ d.native = Native(c) /\ d.node = NoNode /\ d.outcome = "pending"
  <2>1. PICK n : n = Native(c)
    OBVIOUS
  <2> HIDE DEF c
  <2> QED
    BY <1>4, <1>8, <1>10, <2>1 DEF CallType
<1>12. NodesKept /\ nodes' \in Seq(NodeType)
  BY <1>1 DEF NodesKept, DispatchInv, TypeInv
<1>13. History(d, nodes')
  <2>1. Native(c) = Native(d)
    BY <1>11 DEF Native, Normalized
  <2> HIDE DEF c
  <2> QED
    BY <1>1, <1>4, <1>11, <2>1 DEF History, Recorded
<1>14. PICK frames : frames = <<f>>
  OBVIOUS
<1>15. stack' = [stack EXCEPT ![t] = frames] /\ frames[1] = f
  BY <1>5, <1>14 DEF CallNative
<1>16. PICK x \in BOOLEAN, mode \in BOOLEAN : x = excluded[t] /\ mode = gradMode[t]
  BY DEF DispatchInv, TypeInv
<1>17. excluded' = [excluded EXCEPT ![t] = x] /\ gradMode' = [gradMode EXCEPT ![t] = mode]
  BY <1>1, <1>16 DEF DispatchInv, TypeInv
<1>18. Guards(f, d)
  BY <1>3, <1>11 DEF Guards, Recorded
<1>19. Running(d, frames, x, mode)
  BY <1>11, <1>14, <1>15, <1>18 DEF Running
<1>20. UNCHANGED active /\ stack[t] # << >> /\ d \in CallType
  BY <1>1, <1>11
<1> HIDE DEF c
<1> QED
  BY <1>9, <1>12, <1>13, <1>15, <1>17, <1>19, <1>20, Goes

LEMMA Raises ==
    ASSUME DispatchInv, NEW t \in Threads, Raise(t)
    PROVE  DispatchInv'
<1> DEFINE c == calls[active[t]]
           b == Target(c.op, c.args, TRUE)
<1>1. In(t, "composite") /\ stack[t] # << >> /\ UNCHANGED <<nodes, active>>
  BY DEF Raise, In
<1>2. PICK f : f = stack[t][1]
  OBVIOUS
<1>3. Guards(f, c)
  BY <1>1, <1>2, FramesAt
<1>4. /\ c \in CallType /\ active[t] \in 1 .. Len(calls) /\ c.node = NoNode /\ History(c, nodes)
  BY <1>1, InProgress DEF Running
<1>5. RestoredOnRaise(t).excluded = FALSE /\ RestoredOnRaise(t).gradMode = c.mode
  BY <1>2, <1>3 DEF RestoredOnRaise, Guards
<1>6. PICK d : d = [c EXCEPT !.outcome = "raised"]
  OBVIOUS
<1>7. calls' = [calls EXCEPT ![active[t]] = d] /\ stack' = [stack EXCEPT ![t] = << >>]
  BY <1>4, <1>6 DEF Raise, DispatchInv, TypeInv
<1>8. /\ d \in CallType /\ d.op = c.op /\ d.args = c.args /\ d.mode = c.mode
      /\ d.from = c.from /\ d.native = c.native /\ d.node = NoNode /\ d.outcome = "raised"
  BY <1>4, <1>6 DEF CallType
<1>9. NodesKept /\ nodes' \in Seq(NodeType)
  BY <1>1 DEF NodesKept, DispatchInv, TypeInv
<1>10. History(d, nodes')
  <2>1. Native(c) = Native(d)
    BY <1>8 DEF Native, Normalized
  <2> HIDE DEF c
  <2> QED
    BY <1>1, <1>4, <1>8, <2>1 DEF History
<1>11. PICK x \in BOOLEAN, mode \in BOOLEAN : x = FALSE /\ mode = c.mode
  BY <1>4 DEF CallType
<1>12. excluded' = [excluded EXCEPT ![t] = x] /\ gradMode' = [gradMode EXCEPT ![t] = mode]
  BY <1>5, <1>11 DEF Raise
<1>13. PICK frames : frames = << >>
  OBVIOUS
<1>14. stack' = [stack EXCEPT ![t] = frames] /\ ~x /\ mode = d.mode
  BY <1>7, <1>8, <1>11, <1>13
<1>15. UNCHANGED active
  BY <1>1
<1> HIDE DEF c
<1> QED
  BY <1>1, <1>7, <1>8, <1>9, <1>10, <1>12, <1>13, <1>14, <1>15, Goes

-----------------------------------------------------------------------------
(* The theorems.                                                           *)

(* Users, engine and exceptions in whatever order, on whatever threads:    *)
(* the frames of a thread and its guards are those of the call it runs,    *)
(* and every call and node has the history that DispatchInv states.        *)
THEOREM Inductive == Spec => []DispatchInv
<1>1. Init => DispatchInv
  <2> SUFFICES ASSUME Init PROVE DispatchInv
    OBVIOUS
  <2>1. TypeInv
    BY DEF Init, TypeInv
  <2>2. \A t \in Threads : ThreadInv(t)
    BY DEF Init, ThreadInv
  <2>3. \A t \in Threads : active[t] = 0
    BY DEF Init
  <2>4. Len(calls) = 0
    BY DEF Init
  <2> QED
    BY <2>1, <2>2, <2>3, <2>4 DEF DispatchInv
<1>2. DispatchInv /\ UNCHANGED vars => DispatchInv'
  BY DEF DispatchInv, TypeInv, ThreadInv, vars, tls
<1>3. DispatchInv /\ [Next]_vars => DispatchInv'
  BY <1>2, UserCalls, Enters, Leaves, CallsNative, Raises, NodeApplied, NodeRaises DEF Next
<1> QED
  BY <1>1, <1>3, PTL DEF Spec

(* autograd_forward, autograd_backward: an operator runs under its guards  *)
(* and leaves none behind, returned or raised.                             *)
THEOREM Balanced == Spec => []GuardsBalanced
<1>1. ASSUME DispatchInv, NEW t \in Threads
      PROVE  /\ \A i, j \in DOMAIN stack[t] :
                    i < j => ~(stack[t][i].op = stack[t][j].op /\ stack[t][j].at # "composite")
             /\ stack[t] = <<>> /\ active[t] # 0 =>
                    ~excluded[t] /\ gradMode[t] = calls[active[t]].mode
  <2>1. CASE stack[t] = << >>
    <3>1. ~(\E c, x, m : Running(c, stack[t], x, m))
      <4>1. ASSUME NEW c, NEW x, NEW m, Running(c, stack[t], x, m) PROVE FALSE
        <5>1. \E a, b : stack[t] = <<a>> \/ stack[t] = <<a, b>>
          BY <4>1, Zenon DEF Running
        <5> QED
          BY <2>1, <5>1
      <4> QED
        BY <4>1
    <3>2. ~excluded[t] /\ (active[t] # 0 => gradMode[t] = calls[active[t]].mode)
      BY <1>1, <3>1 DEF DispatchInv, ThreadInv
    <3> QED
      BY <2>1, <3>2
  <2>2. CASE stack[t] # << >>
    <3> DEFINE c == calls[active[t]]
    <3>1. Running(c, stack[t], excluded[t], gradMode[t])
      BY <1>1, <2>2, InProgress
    <3>2. \E a, b : stack[t] = <<a>> \/ (stack[t] = <<a, b>> /\ b.at = "composite")
      <4>1. Target(c.op, c.args, TRUE).at = "composite"
        BY DEF Target, Frame
      <4> QED
        BY <3>1, <4>1, Zenon DEF Running
    <3> QED
      BY <2>2, <3>2
  <2> QED
    BY <2>1, <2>2
<1>2. DispatchInv => GuardsBalanced
  BY <1>1 DEF GuardsBalanced
<1> QED
  BY <1>2, Inductive, PTL

(* ForwardAutograd::backward: the backward kernel gets what the forward    *)
(* call had, densely.                                                      *)
THEOREM Matching == Spec => []BackwardMatchesForward
<1>1. ASSUME DispatchInv, NEW i \in DOMAIN calls, NEW j \in DOMAIN calls,
             calls[i].op = "forward" /\ calls[i].node # NoNode,
             calls[j].from = calls[i].node /\ calls[j].native # Nothing
      PROVE  LET f == calls[i].args
                 b == calls[j].native.args
             IN  /\ calls[j].native.op = "backward"
                 /\ b.ns = f.ns /\ b.device = f.device /\ b.inputs = f.inputs
                 /\ b.step = f.step /\ b.check_cuda_metadata = f.check_cuda_metadata
                 /\ "g" \in b.contiguous
                 /\ b.device = "cuda" => "inputs" \in b.contiguous
  <2>1. /\ i \in 1 .. Len(calls) /\ j \in 1 .. Len(calls)
        /\ calls[i] \in CallType /\ calls[j] \in CallType
    BY <1>1, Member DEF DispatchInv, TypeInv
  <2> DEFINE f == calls[i].args
             c == calls[j]
  <2>2. nodes[c.from].saved = f
    BY <1>1, <2>1 DEF DispatchInv, History
  <2>3. c.op = "backward" /\ SameBuildAndInputs(c.args, f) /\ c.native = Native(c)
    BY <1>1, <2>1, <2>2 DEF DispatchInv, History
  <2>4. c.args \in ArgsType
    BY <2>1 DEF CallType
  <2>5. c.native.op = "backward" /\ c.native.args = Normalized(c)
    <3> HIDE DEF c
    <3> QED
      BY <2>3 DEF Native
  <2> HIDE DEF c
  <2>6. /\ SameBuildAndInputs(Normalized(c), f)
        /\ "g" \in Normalized(c).contiguous
        /\ Normalized(c).device = "cuda" => "inputs" \in Normalized(c).contiguous
    BY <2>3, <2>4 DEF Normalized, SameBuildAndInputs, ArgsType
  <2> QED
    BY <2>5, <2>6 DEF SameBuildAndInputs, c
<1>2. DispatchInv => BackwardMatchesForward
  BY <1>1 DEF BackwardMatchesForward
<1> QED
  BY <1>2, Inductive, PTL

(* A result is in the graph exactly if it should be, and what cannot be    *)
(* differentiated raises instead.                                          *)
THEOREM Attached == Spec => []NeverSilentlyDetached
<1>1. ASSUME DispatchInv, NEW i \in DOMAIN calls
      PROVE  /\ calls[i].outcome = "returned" =>
                    (calls[i].node # NoNode <=> calls[i].mode /\ calls[i].args.requires # {})
             /\ calls[i].from # NoNode /\ nodes[calls[i].from].op = "backward" =>
                    calls[i].outcome = "raised"
  <2>1. History(calls[i], nodes)
    BY <1>1 DEF DispatchInv, TypeInv
  <2> QED
    BY <2>1 DEF History, Recorded
<1>2. DispatchInv => NeverSilentlyDetached
  BY <1>1 DEF NeverSilentlyDetached
<1> QED
  BY <1>2, Inductive, PTL

=============================================================================
