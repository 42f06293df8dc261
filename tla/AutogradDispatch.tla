-------------------------- MODULE AutogradDispatch --------------------------
(***************************************************************************)
(* The operators forward and backward between their callers and the native *)
(* kernels: the boxed kernels registered for the Autograd key, the nodes   *)
(* they record, the redispatch below autograd, and the implementation that *)
(* normalizes layouts and picks the device (dispatcher.h, vision.cpp,      *)
(* torch_binding.cpp).                                                     *)
(*                                                                         *)
(* Callers are threads with their own grad mode and dispatch keys; a user  *)
(* calls forward, the autograd engine calls the nodes that were recorded,  *)
(* on any thread and in any order.                                         *)
(***************************************************************************)
EXTENDS Naturals, Sequences

CONSTANTS
    Threads,
    MaxCalls,     \* bound on the calls made by users and engine together
    UserArgs,     \* arguments a user passes, see ArgsType
    IntMax,       \* std::numeric_limits<int>::max()
    Built         \* devices the canonical extension was built for

Differentiable == {"v", "l", "w", "g"}

ArgsType ==
    [ns : {"torch_ms_deform_attn", "kernel_hub"},
     device : {"cpu", "cuda", "mps"},
     inputs : Nat,                       \* which tensors: the call that brought them
     contiguous : SUBSET {"inputs", "g"},
     requires : SUBSET Differentiable,   \* requires_grad
     step : Nat,
     check_cuda_metadata : BOOLEAN]

ASSUME DispatchAssumption ==
    /\ MaxCalls \in Nat /\ IntMax \in Nat /\ "cpu" \in Built
    /\ UserArgs \subseteq ArgsType

NoNode == 0
Nothing == [op |-> "none"]

VARIABLES
    calls,      \* the calls so far, with what became of them
    nodes,      \* the autograd nodes recorded so far
    active,     \* [thread -> its call in progress, or its last one; 0: none yet]
    stack,      \* [thread -> dispatcher frames, innermost last]
    excluded,   \* [thread -> autograd keys are excluded]
    gradMode    \* [thread -> at::GradMode]

tls == <<stack, excluded, gradMode>>
vars == <<calls, nodes, active, tls>>

-----------------------------------------------------------------------------
(* The dispatcher.                                                         *)

(* A frame remembers what its guards are to restore; "records" if it runs  *)
(* under Function::apply, which turns grad mode off and makes a node.      *)
Frame(at, op, args) ==
    [at |-> at, op |-> op, args |-> args,
     excluded |-> FALSE, gradMode |-> FALSE, records |-> FALSE]

(* op.call: the Autograd kernel, unless its keys are excluded.             *)
Target(op, args, belowAutograd) ==
    Frame(IF belowAutograd THEN "composite" ELSE "autograd", op, args)

Top(t) == stack[t][Len(stack[t])]
Below(t) == SubSeq(stack[t], 1, Len(stack[t]) - 1)
In(t, at) == stack[t] # <<>> /\ Top(t).at = at

Call(op, from, args, mode) ==
    [op |-> op, from |-> from, args |-> args, mode |-> mode,
     outcome |-> "pending", node |-> NoNode, native |-> Nothing]

(* Thread t calls an operator, in the grad mode it is in then. *)
Start(t, call) ==
    /\ calls' = Append(calls, call)
    /\ active' = [active EXCEPT ![t] = Len(calls) + 1]
    /\ stack' = [stack EXCEPT ![t] = <<Target(call.op, call.args, excluded[t])>>]
    /\ gradMode' = [gradMode EXCEPT ![t] = call.mode]
    /\ UNCHANGED excluded

Idle(t) == stack[t] = <<>> /\ Len(calls) < MaxCalls

Init ==
    /\ calls = <<>>
    /\ nodes = <<>>
    /\ active = [t \in Threads |-> 0]
    /\ stack = [t \in Threads |-> <<>>]
    /\ excluded = [t \in Threads |-> FALSE]
    /\ gradMode = [t \in Threads |-> TRUE]

(* A user calls one of the operators, with tensors of their own. *)
UserCall(t) ==
    /\ Idle(t)
    /\ \E args \in UserArgs, op \in {"forward", "backward"}, mode \in BOOLEAN :
          /\ op = "forward" => "g" \notin args.requires \cup args.contiguous
          /\ Start(t, Call(op, NoNode, [args EXCEPT !.inputs = Len(calls) + 1], mode))
    /\ UNCHANGED nodes

-----------------------------------------------------------------------------
(* The kernels of the Autograd key.                                        *)

(* Mutant: an output gradient that is itself differentiated is forgotten. *)
NeedsGradWithoutG(t, f) == gradMode[t] /\ f.args.requires \ {"g"} # {}

NeedsGrad(t, f) ==
    gradMode[t] /\ f.args.requires \cap (IF f.op = "forward" THEN {"v", "l", "w"} ELSE Differentiable) # {}

(* Mutant: the guard is only set when a node is recorded. *)
ExcludedBelowWhenRecording(t, f) == NeedsGrad(t, f)

(* at::AutoDispatchBelowAutograd, on both paths. *)
ExcludedBelow(t, f) == TRUE

(* autograd_forward and autograd_backward, up to their inner call. *)
EnterAutograd(t) ==
    /\ In(t, "autograd")
    /\ LET f == Top(t)
           guarded == [f EXCEPT !.at = "guarded", !.excluded = excluded[t],
                                !.gradMode = gradMode[t], !.records = NeedsGrad(t, f)]
           below == excluded[t] \/ ExcludedBelow(t, f)
       IN  /\ stack' = [stack EXCEPT ![t] =
                           Append(Append(Below(t), guarded), Target(f.op, f.args, below))]
           /\ excluded' = [excluded EXCEPT ![t] = below]
           /\ gradMode' = [gradMode EXCEPT ![t] = gradMode[t] /\ ~NeedsGrad(t, f)]
    /\ UNCHANGED <<calls, nodes, active>>

(* Mutant: the operator's name is spelled out. *)
SavedNamespaceFixed(f) == "torch_ms_deform_attn"

(* The namespace of op.schema().name(). *)
SavedNamespace(f) == f.args.ns

(* Mutant: the flag is not saved. *)
SavedFlagDefault(f) == FALSE

SavedFlag(f) == f.args.check_cuda_metadata

(* What ForwardAutograd saves; BackwardAutograd saves nothing. *)
NewNode(f) ==
    [op |-> f.op,
     saved |-> [f.args EXCEPT !.ns = SavedNamespace(f), !.check_cuda_metadata = SavedFlag(f)],
     freed |-> FALSE]

(* Their ends: the guards are left, the node is attached to the results.   *)
LeaveAutograd(t) ==
    /\ In(t, "guarded")
    /\ LET f == Top(t)
           call == calls[active[t]]
       IN  /\ nodes' = IF f.records THEN Append(nodes, NewNode(f)) ELSE nodes
           /\ calls' = [calls EXCEPT ![active[t]] =
                           [call EXCEPT !.node = IF f.records THEN Len(nodes) + 1 ELSE @,
                                        !.outcome = IF Below(t) = <<>> THEN "returned" ELSE @]]
           /\ excluded' = [excluded EXCEPT ![t] = f.excluded]
           /\ gradMode' = [gradMode EXCEPT ![t] = f.gradMode]
    /\ stack' = [stack EXCEPT ![t] = Below(t)]
    /\ UNCHANGED active

-----------------------------------------------------------------------------
(* The implementation below autograd.                                      *)

(* Mutant: the output gradient is passed on as it is. *)
NormalizedInputs(f) ==
    [f.args EXCEPT !.contiguous = @ \cup (IF f.args.device = "cuda" THEN {"inputs"} ELSE {})]

(* dispatcher_inputs, and contiguous() of the output gradient. *)
Normalized(f) ==
    [f.args EXCEPT !.contiguous =
        @ \cup (IF f.args.device = "cuda" THEN {"inputs"} ELSE {})
          \cup (IF f.op = "backward" THEN {"g"} ELSE {})]

StepFits(args) == args.step > 0 /\ args.step <= IntMax       \* dispatcher_step

(* The kernel for the value's device; the Kernel Hub build has only CUDA's. *)
HasKernel(args) ==
    IF args.ns = "kernel_hub" THEN args.device = "cuda" ELSE args.device \in Built

(* The native function that the operator's name, build and device select.  *)
Native(f) == [op |-> f.op, args |-> Normalized(f)]

CallNative(t) ==
    /\ In(t, "composite")
    /\ StepFits(Top(t).args)
    /\ HasKernel(Top(t).args)
    /\ LET call == calls[active[t]]
       IN  calls' = [calls EXCEPT ![active[t]] =
                        [call EXCEPT !.native = Native(Top(t)),
                                     !.outcome = IF Below(t) = <<>> THEN "returned" ELSE @]]
    /\ stack' = [stack EXCEPT ![t] = Below(t)]
    /\ UNCHANGED <<nodes, active, excluded, gradMode>>

(* Mutant: an exception passes the guards by. *)
RestoredOnRaiseNot(t) == [excluded |-> excluded[t], gradMode |-> gradMode[t]]

(* The guards are destroyed as the exception passes, the outermost last.   *)
RestoredOnRaise(t) ==
    LET outermost == stack[t][1]
    IN  IF outermost.at = "guarded"
        THEN [excluded |-> outermost.excluded, gradMode |-> outermost.gradMode]
        ELSE [excluded |-> excluded[t], gradMode |-> gradMode[t]]

(* A bad step, a device without a kernel, or the native checks. *)
Raise(t) ==
    /\ In(t, "composite")
    /\ calls' = [calls EXCEPT ![active[t]].outcome = "raised"]
    /\ excluded' = [excluded EXCEPT ![t] = RestoredOnRaise(t).excluded]
    /\ gradMode' = [gradMode EXCEPT ![t] = RestoredOnRaise(t).gradMode]
    /\ stack' = [stack EXCEPT ![t] = <<>>]
    /\ UNCHANGED <<nodes, active>>

-----------------------------------------------------------------------------
(* The engine applies a node, with grad mode on if a graph of the gradient *)
(* is wanted, which then may itself be differentiated, and frees what the  *)
(* node saved unless it is retained.                                       *)

(* ForwardAutograd::backward: the backward operator on what was saved.     *)
ApplyForwardNode(t) ==
    /\ Idle(t)
    /\ \E n \in DOMAIN nodes, createGraph, retain \in BOOLEAN,
          gradient \in {{}, {"g"}}, layout \in {{}, {"g"}} :
          /\ nodes[n].op = "forward"
          /\ ~nodes[n].freed
          /\ createGraph => retain
          /\ Start(t, Call("backward", n,
                           [nodes[n].saved EXCEPT !.requires = @ \cup gradient,
                                                  !.contiguous = @ \cup layout],
                           createGraph))
          /\ nodes' = [nodes EXCEPT ![n].freed = ~retain]

(* BackwardAutograd::backward, or saved variables that are gone: raises.   *)
ApplyRaises(t) ==
    /\ Idle(t)
    /\ \E n \in DOMAIN nodes, createGraph \in BOOLEAN :
          /\ nodes[n].op = "backward" \/ nodes[n].freed
          /\ calls' = Append(calls, [Call("backward", n, nodes[n].saved, createGraph)
                                        EXCEPT !.outcome = "raised"])
    /\ UNCHANGED <<nodes, active, tls>>

Next ==
    \E t \in Threads :
        \/ UserCall(t) \/ EnterAutograd(t) \/ LeaveAutograd(t)
        \/ CallNative(t) \/ Raise(t)
        \/ ApplyForwardNode(t) \/ ApplyRaises(t)

Spec == Init /\ [][Next]_vars

-----------------------------------------------------------------------------
(* Properties.                                                             *)

(* The guards hold while an operator runs: its Autograd kernel is not       *)
(* entered from within itself, what it calls by the same name goes below   *)
(* autograd, whether a node is recorded or not.  And they end with it:     *)
(* whether it returned or raised, a call leaves its thread's dispatch keys *)
(* and grad mode as it found them, so that no later call of that thread    *)
(* misses its graph (autograd_forward, autograd_backward, apply).          *)
GuardsBalanced ==
    \A t \in Threads :
        /\ \A i, j \in DOMAIN stack[t] :
              i < j => ~(stack[t][i].op = stack[t][j].op /\ stack[t][j].at # "composite")
        /\ stack[t] = <<>> /\ active[t] # 0 => ~excluded[t] /\ gradMode[t] = calls[active[t]].mode

(* However forward and backward passes interleave, over threads too, the   *)
(* backward kernel runs in the build, on the device, with the tensors,     *)
(* step and metadata check of the forward call that recorded the node, and *)
(* on dense tensors where it indexes them so, also if the engine handed an *)
(* expanded gradient or the views saved were strided.                      *)
BackwardMatchesForward ==
    \A i, j \in DOMAIN calls :
        /\ calls[i].op = "forward" /\ calls[i].node # NoNode
        /\ calls[j].from = calls[i].node /\ calls[j].native # Nothing
        => LET f == calls[i].args
               b == calls[j].native.args
           IN  /\ calls[j].native.op = "backward"
               /\ b.ns = f.ns /\ b.device = f.device /\ b.inputs = f.inputs
               /\ b.step = f.step /\ b.check_cuda_metadata = f.check_cuda_metadata
               /\ "g" \in b.contiguous
               /\ b.device = "cuda" => "inputs" \in b.contiguous

(* A result depends on its differentiable inputs in the graph if grad mode *)
(* was on: no gradient is silently cut off, at the second order either,    *)
(* where differentiating it raises.                                        *)
NeverSilentlyDetached ==
    \A i \in DOMAIN calls :
        /\ calls[i].outcome = "returned" =>
              (calls[i].node # NoNode <=> calls[i].mode /\ calls[i].args.requires # {})
        /\ calls[i].from # NoNode /\ nodes[calls[i].from].op = "backward" =>
              calls[i].outcome = "raised"

=============================================================================
