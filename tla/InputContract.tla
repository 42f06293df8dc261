---------------------------- MODULE InputContract ----------------------------
(***************************************************************************)
(* What a call of the operators is checked for and converted to, from      *)
(* ms_deform_attn of functional.py through the fake registrations of       *)
(* _ops.py and the step check of dispatcher.h to the checks of the three   *)
(* native entry points; and of the explicit backward call of the Kernel    *)
(* Hub package.  The same contract is written down four times, in Python   *)
(* for tracing and in C++ for each device; a compiled call meets two of    *)
(* them, with different shapes and dtypes in forward and backward.         *)
(*                                                                         *)
(* A tensor is its shape, dtype and device.  The contents of               *)
(* spatial_shapes and level_start_index are one boolean of the call, "fit":*)
(* Sampling models that test and its arithmetic.  Sizes stay within the    *)
(* index limits of CUDA and MPS, which CudaIndexing models.                *)
(***************************************************************************)
EXTENDS Integers, Sequences

CONSTANTS
    Calls,             \* the calls a program may make, records as below
    StepMax,           \* the largest int32
    Built,             \* the device types of the build, besides the CPU
    AutocastDevices    \* the device types whose autocast PyTorch supports

ASSUME ContractAssumption ==
    /\ StepMax \in Nat \ {0}
    /\ Built \subseteq {"cuda", "mps"}
    /\ {"cpu", "cuda"} \subseteq AutocastDevices

(***************************************************************************)
(* A call has an entry point ("ms_deform_attn", the Hub package's          *)
(* "ms_deform_attn_backward", or an operator, "forward" or "backward"),    *)
(* the five tensors, a gradient (used by "backward" only), step, fit,      *)
(* whether autocast is enabled for the device of value, and whether it is  *)
(* compiled, so that the fake registration runs first.                     *)
(***************************************************************************)
Entries == {"ms_deform_attn", "ms_deform_attn_backward", "forward", "backward"}

(* There is one CPU; "xpu" and "int32" stand for every other device type   *)
(* and dtype.                                                              *)
DeviceType == {<<"cpu", 0>>} \cup {"cuda", "mps", "xpu"} \X Nat
DtypeType == {"float16", "bfloat16", "float32", "float64", "int32", "int64"}
TensorType == [shape : Seq(Nat), dtype : DtypeType, device : DeviceType]

CallType ==
    [entry : Entries, step : Int, fit : BOOLEAN, autocast : BOOLEAN, compiled : BOOLEAN,
     value : TensorType, shapes : TensorType, starts : TensorType,
     locations : TensorType, weights : TensorType, grad : TensorType]

(* torch.autocast("mps") raises where PyTorch does not support it.         *)
ASSUME CallsAssumption ==
    \A c \in Calls :
        /\ c \in CallType
        /\ c.autocast /\ c.value.device[1] \in {"cpu", "cuda", "mps"} =>
               c.value.device[1] \in AutocastDevices

VARIABLES
    call,      \* the program's call
    op,        \* the operator call made of it
    backprop,  \* whether op is the backward pass that autograd derived
    stage,     \* what is done next
    fake,      \* the tensors the fake registration answered
    result     \* the tensors the native operator answered

contractVars == <<call, op, backprop, stage, fake, result>>

LowPrecision == {"float16", "bfloat16"}

Rank(t) == Len(t.shape)

New(shape, like) == [like EXCEPT !.shape = shape]

Float(t) == [t EXCEPT !.dtype = "float32"]

-----------------------------------------------------------------------------
(* _validate_fake_inputs and the two fake registrations. *)

(* Mutant: zip over weights.shape stops early without the check of its rank. *)
FakeRanksButWeights(c) ==
    /\ Rank(c.value) = 4
    /\ Rank(c.shapes) = 2
    /\ Rank(c.starts) = 1
    /\ Rank(c.locations) = 6

(* Ranks are checked before any size is read. *)
FakeRanks(c) ==
    /\ Rank(c.value) = 4
    /\ Rank(c.shapes) = 2
    /\ Rank(c.starts) = 1
    /\ Rank(c.locations) = 6
    /\ Rank(c.weights) = 5

FakeTypes(c) ==
    /\ c.value.dtype \in {"float32", "float64"}
    /\ c.value.device[1] = "mps" => c.value.dtype = "float32"
    /\ \A t \in {c.locations, c.weights} : t.dtype = c.value.dtype
    /\ \A t \in {c.shapes, c.starts} : t.dtype = "int64"
    /\ \A t \in {c.shapes, c.starts, c.locations, c.weights} :
           t.device = c.value.device

FakeShapes(c) ==
    /\ c.shapes.shape[2] = 2
    /\ c.starts.shape[1] = c.shapes.shape[1]
    /\ c.locations.shape[1] = c.value.shape[1]
    /\ c.locations.shape[3] = c.value.shape[3]
    /\ c.locations.shape[4] = c.shapes.shape[1]
    /\ c.locations.shape[6] = 2
    /\ \A k \in 1 .. 5 :
           k <= Rank(c.weights) => c.weights.shape[k] = c.locations.shape[k]

(* Mutant: the check of empty inputs applied to the CPU as well. *)
FakeEmptyEverywhere(c) ==
    /\ \A k \in 1 .. 4 : c.value.shape[k] > 0
    /\ c.shapes.shape[1] > 0
    /\ c.locations.shape[2] > 0
    /\ c.locations.shape[5] > 0

FakeNonempty(c) ==
    c.value.device[1] \in {"cuda", "mps"} =>
        /\ \A k \in 1 .. 4 : c.value.shape[k] > 0
        /\ c.shapes.shape[1] > 0
        /\ c.locations.shape[2] > 0
        /\ c.locations.shape[5] > 0

FakeAccepts(c) ==
    /\ FakeRanks(c) /\ FakeTypes(c) /\ FakeShapes(c) /\ FakeNonempty(c)
    /\ c.step > 0
    /\ c.entry = "backward" =>
           /\ Rank(c.grad) = 3
           /\ c.grad.dtype = c.value.dtype
           /\ c.grad.device = c.value.device
           /\ c.grad.shape = <<c.value.shape[1], c.locations.shape[2],
                               c.value.shape[3] * c.value.shape[4]>>

FakeResult(c) ==
    IF c.entry = "backward"
    THEN <<c.value, c.locations, c.weights>>
    ELSE <<New(<<c.value.shape[1], c.locations.shape[2],
                 c.value.shape[3] * c.value.shape[4]>>, c.value)>>

-----------------------------------------------------------------------------
(* The checks of the native entry points. *)

CpuInputs(c) ==
    /\ \A t \in {c.value, c.shapes, c.starts, c.locations, c.weights} :
           t.device[1] = "cpu"
    /\ c.value.dtype \in {"float32", "float64"}
    /\ c.locations.dtype = c.value.dtype /\ c.weights.dtype = c.value.dtype
    /\ c.shapes.dtype = "int64" /\ c.starts.dtype = "int64"
    /\ Rank(c.value) = 4
    /\ Rank(c.shapes) = 2 /\ c.shapes.shape[2] = 2
    /\ Rank(c.starts) = 1 /\ c.starts.shape[1] = c.shapes.shape[1]
    /\ Rank(c.locations) = 6
    /\ c.locations.shape[1] = c.value.shape[1]
    /\ c.locations.shape[3] = c.value.shape[3]
    /\ c.locations.shape[4] = c.shapes.shape[1]
    /\ c.locations.shape[6] = 2
    /\ c.weights.shape = SubSeq(c.locations.shape, 1, 5)
    /\ c.step > 0
    /\ c.fit

CpuGrad(c) ==
    /\ c.grad.device[1] = "cpu" /\ c.grad.dtype = c.value.dtype
    /\ Rank(c.grad) = 3
    /\ c.grad.shape[1] = c.value.shape[1]
    /\ c.grad.shape[2] = c.locations.shape[2]
    /\ c.grad.shape[3] = c.value.shape[3] * c.value.shape[4]

CudaInputs(c) ==
    /\ \A t \in {c.shapes, c.starts, c.locations, c.weights} :
           t.device = c.value.device
    /\ c.value.dtype \in {"float32", "float64"}
    /\ c.locations.dtype = c.value.dtype /\ c.weights.dtype = c.value.dtype
    /\ c.shapes.dtype = "int64" /\ c.starts.dtype = "int64"
    /\ Rank(c.value) = 4 /\ \A k \in 1 .. 4 : c.value.shape[k] > 0
    /\ Rank(c.shapes) = 2 /\ c.shapes.shape[2] = 2 /\ c.shapes.shape[1] > 0
    /\ Rank(c.starts) = 1 /\ c.starts.shape[1] = c.shapes.shape[1]
    /\ Rank(c.locations) = 6
    /\ c.locations.shape[1] = c.value.shape[1]
    /\ c.locations.shape[2] > 0
    /\ c.locations.shape[3] = c.value.shape[3]
    /\ c.locations.shape[4] = c.shapes.shape[1]
    /\ c.locations.shape[5] > 0
    /\ c.locations.shape[6] = 2
    /\ c.weights.shape = SubSeq(c.locations.shape, 1, 5)
    /\ c.step > 0

(* Mutant: the gradient's queries compared with the heads. *)
CudaGradOfHeads(c) ==
    /\ c.grad.device = c.value.device /\ c.grad.dtype = c.value.dtype
    /\ Rank(c.grad) = 3
    /\ c.grad.shape[1] = c.value.shape[1]
    /\ c.grad.shape[2] = c.locations.shape[3]
    /\ c.grad.shape[3] = c.value.shape[3] * c.value.shape[4]

CudaGrad(c) ==
    /\ c.grad.device = c.value.device /\ c.grad.dtype = c.value.dtype
    /\ Rank(c.grad) = 3
    /\ c.grad.shape[1] = c.value.shape[1]
    /\ c.grad.shape[2] = c.locations.shape[2]
    /\ c.grad.shape[3] = c.value.shape[3] * c.value.shape[4]

(* product raises for a size of zero; the three products name every size. *)
MpsInputs(c) ==
    /\ \A t \in {c.shapes, c.starts, c.locations, c.weights} :
           t.device = c.value.device
    /\ c.value.dtype = "float32"
    /\ c.locations.dtype = c.value.dtype /\ c.weights.dtype = c.value.dtype
    /\ c.shapes.dtype = "int64" /\ c.starts.dtype = "int64"
    /\ Rank(c.value) = 4
    /\ Rank(c.shapes) = 2 /\ c.shapes.shape[2] = 2
    /\ Rank(c.starts) = 1 /\ c.starts.shape[1] = c.shapes.shape[1]
    /\ Rank(c.locations) = 6
    /\ c.locations.shape[1] = c.value.shape[1]
    /\ c.locations.shape[3] = c.value.shape[3]
    /\ c.locations.shape[4] = c.shapes.shape[1]
    /\ c.locations.shape[6] = 2
    /\ c.weights.shape = SubSeq(c.locations.shape, 1, 5)
    /\ c.step > 0
    /\ \A size \in {c.value.shape[k] : k \in 1 .. 4} : size > 0
    /\ \A size \in {c.locations.shape[k] : k \in {2, 4, 5}} : size > 0
    /\ c.fit

MpsGrad(c) ==
    /\ c.grad.device = c.value.device /\ c.grad.dtype = c.value.dtype
    /\ Rank(c.grad) = 3
    /\ c.grad.shape[1] = c.value.shape[1]
    /\ c.grad.shape[2] = c.locations.shape[2]
    /\ c.grad.shape[3] = c.value.shape[3] * c.value.shape[4]

(* The selection of vision.cpp: a device of neither kind falls to the CPU. *)
NativeAccepts(c) ==
    /\ c.step \in 1 .. StepMax
    /\ IF c.value.device[1] = "mps"
       THEN "mps" \in Built /\ MpsInputs(c) /\ (c.entry = "backward" => MpsGrad(c))
       ELSE IF c.value.device[1] = "cuda"
       THEN "cuda" \in Built /\ CudaInputs(c) /\ (c.entry = "backward" => CudaGrad(c))
       ELSE CpuInputs(c) /\ (c.entry = "backward" => CpuGrad(c))

(* Mutant: the CUDA output keeps heads and channels apart. *)
OutputOfHeads(c) ==
    IF c.value.device[1] = "cuda"
    THEN <<c.value.shape[1], c.locations.shape[2], c.value.shape[3], c.value.shape[4]>>
    ELSE <<c.value.shape[1], c.locations.shape[2], c.value.shape[3] * c.value.shape[4]>>

(* The CUDA output is made with heads and channels apart and viewed as one. *)
Output(c) == <<c.value.shape[1], c.locations.shape[2], c.value.shape[3] * c.value.shape[4]>>

NativeResult(c) ==
    IF c.entry = "backward"
    THEN <<New(c.value.shape, c.value), New(c.locations.shape, c.locations),
           New(c.weights.shape, c.weights)>>
    ELSE <<New(Output(c), c.value)>>

-----------------------------------------------------------------------------
(* ms_deform_attn. *)

UnderAutocast(c) == c.autocast /\ c.value.device[1] \in AutocastDevices

(* Mutant: only value converted under autocast. *)
AutocastFloatOfValue(c) ==
    IF c.value.dtype \in LowPrecision THEN [c EXCEPT !.value = Float(@)] ELSE c

(* Each low-precision tensor is converted, whatever the dtype of the others. *)
AutocastFloat(c) ==
    [field \in DOMAIN c |->
        IF /\ field \in {"value", "locations", "weights"}
           /\ c[field].dtype \in LowPrecision
        THEN Float(c[field])
        ELSE c[field]]

(* The dtype returned outside autocast: that of value as it was passed. *)
WidensInput(c) ==
    /\ ~UnderAutocast(c)
    /\ c.value.device[1] \in {"cpu", "cuda", "mps"}
    /\ c.value.dtype \in LowPrecision

(* Mutant: the answer narrowed under autocast as well. *)
NarrowsAlways(c) == c.value.dtype \in LowPrecision

NarrowsAnswer(c) == WidensInput(c)

ContractInit ==
    /\ call \in Calls
    /\ op = call
    /\ backprop = FALSE
    /\ stage = IF call.entry = "ms_deform_attn" THEN "convert"
               ELSE IF call.entry = "ms_deform_attn_backward" THEN "convert gradient"
               ELSE "operator"
    /\ fake = <<>>
    /\ result = <<>>

Enter(c) ==
    /\ op' = [c EXCEPT !.entry = "forward"]
    /\ stage' = "operator"
    /\ UNCHANGED <<call, backprop, fake, result>>

ConvertUnderAutocast ==
    /\ stage = "convert"
    /\ UnderAutocast(call)
    /\ Enter(AutocastFloat(call))

(* Mutant: inputs widened whatever the dtypes of the others.               *)
MatchesAlways(c) == TRUE

(* Outside autocast the floating tensors of a call have one dtype.         *)
Matches(c) == c.locations.dtype = c.value.dtype /\ c.weights.dtype = c.value.dtype

ConvertExplicitly ==
    /\ stage = "convert"
    /\ WidensInput(call)
    /\ Matches(call)
    /\ Enter([call EXCEPT !.value = Float(@), !.locations = Float(@), !.weights = Float(@)])

RefuseMixed ==
    /\ stage = "convert"
    /\ WidensInput(call)
    /\ ~Matches(call)
    /\ stage' = "raised"
    /\ UNCHANGED <<call, op, backprop, fake, result>>

PassOn ==
    /\ stage = "convert"
    /\ ~UnderAutocast(call) /\ ~WidensInput(call)
    /\ Enter(call)

-----------------------------------------------------------------------------
(* ms_deform_attn_backward of the Kernel Hub package, for devices of CUDA. *)

(* Mutant: the answers in the precision of the computation. *)
HubWidens(c, gradients) == gradients

HubNarrows(c, gradients) ==
    IF c.value.dtype \in LowPrecision
    THEN [k \in DOMAIN gradients |-> [gradients[k] EXCEPT !.dtype = c.value.dtype]]
    ELSE gradients

HubConvertible(c) ==
    /\ c.locations.dtype = c.value.dtype /\ c.weights.dtype = c.value.dtype
    /\ c.grad.dtype \in {c.value.dtype, "float32"}

HubConvert ==
    /\ stage = "convert gradient"
    /\ call.value.dtype \in LowPrecision
    /\ HubConvertible(call)
    /\ op' = [call EXCEPT !.entry = "backward", !.value = Float(@), !.locations = Float(@),
                          !.weights = Float(@), !.grad = Float(@)]
    /\ stage' = "operator"
    /\ UNCHANGED <<call, backprop, fake, result>>

HubRefuse ==
    /\ stage = "convert gradient"
    /\ call.value.dtype \in LowPrecision
    /\ ~HubConvertible(call)
    /\ stage' = "raised"
    /\ UNCHANGED <<call, op, backprop, fake, result>>

HubPassOn ==
    /\ stage = "convert gradient"
    /\ call.value.dtype \notin LowPrecision
    /\ op' = [call EXCEPT !.entry = "backward"]
    /\ stage' = "operator"
    /\ UNCHANGED <<call, backprop, fake, result>>

-----------------------------------------------------------------------------
(* The operators. *)

(* Tracing a compiled call: the fake registration answers or raises. *)
Trace ==
    /\ stage = "operator" /\ op.compiled /\ fake = <<>>
    /\ IF FakeAccepts(op)
       THEN fake' = FakeResult(op) /\ UNCHANGED stage
       ELSE stage' = "raised" /\ UNCHANGED fake
    /\ UNCHANGED <<call, op, backprop, result>>

Execute ==
    /\ stage = "operator"
    /\ op.compiled => fake # <<>>
    /\ IF NativeAccepts(op)
       THEN result' = NativeResult(op) /\ stage' = "return"
       ELSE stage' = "raised" /\ UNCHANGED result
    /\ UNCHANGED <<call, op, backprop, fake>>

(* .to(value.dtype) of an explicit low-precision call, or nothing. *)
ReturnOutput ==
    /\ stage = "return" /\ op.entry = "forward"
    /\ result' = IF call.entry = "ms_deform_attn" /\ NarrowsAnswer(call)
                 THEN <<[result[1] EXCEPT !.dtype = call.value.dtype]>>
                 ELSE result
    /\ stage' = "returned"
    /\ UNCHANGED <<call, op, backprop, fake>>

(***************************************************************************)
(* Autograd hands the operator a gradient of the shape and device of its   *)
(* answer, in the dtype that the operator computed in: the backward of     *)
(* .to converts it.                                                        *)
(***************************************************************************)
Differentiate ==
    /\ stage = "returned" /\ op.entry = "forward"
    /\ op' = [op EXCEPT !.entry = "backward",
                        !.grad = [result[1] EXCEPT !.dtype = op.value.dtype]]
    /\ backprop' = TRUE
    /\ fake' = <<>> /\ result' = <<>>
    /\ stage' = "operator"
    /\ UNCHANGED call

(* Gradients pass back through the conversions of .float(), one per input. *)
ReturnGradients ==
    /\ stage = "return" /\ op.entry = "backward"
    /\ result' = IF backprop
                 THEN <<[result[1] EXCEPT !.dtype = call.value.dtype],
                        [result[2] EXCEPT !.dtype = call.locations.dtype],
                        [result[3] EXCEPT !.dtype = call.weights.dtype]>>
                 ELSE IF call.entry = "ms_deform_attn_backward"
                 THEN HubNarrows(call, result)
                 ELSE result
    /\ stage' = "returned"
    /\ UNCHANGED <<call, op, backprop, fake>>

ContractNext ==
    \/ ConvertUnderAutocast
    \/ ConvertExplicitly
    \/ RefuseMixed
    \/ PassOn
    \/ HubConvert
    \/ HubRefuse
    \/ HubPassOn
    \/ Trace
    \/ Execute
    \/ ReturnOutput
    \/ Differentiate
    \/ ReturnGradients

ContractSpec == ContractInit /\ [][ContractNext]_contractVars

-----------------------------------------------------------------------------

(***************************************************************************)
(* TracesWhatRuns: an operator call that a native entry point carries out  *)
(* is one that the fake registration accepts, with the same answer, so     *)
(* that compiling a program that runs can never make it fail (_ops.py      *)
(* repeats in Python what three native files check).                       *)
(***************************************************************************)
TracesWhatRuns ==
    stage = "return" => FakeAccepts(op) /\ FakeResult(op) = result

(***************************************************************************)
(* RefusalsForeseen: the backward pass that autograd derives from a call   *)
(* that ran is never refused, whatever device, dtypes and sizes it ran     *)
(* with: the check of grad agrees with the output that forward made and    *)
(* with the conversions around it.  And a compiled call that was traced is *)
(* refused at run time only for what metadata cannot show or a build may   *)
(* lack: contents that do not fit value, a step beyond an int32, no        *)
(* kernels for the device (_ops.py against the three check_inputs).        *)
(***************************************************************************)
RefusalsForeseen ==
    stage = "raised" =>
        /\ ~backprop
        /\ fake # <<>> =>
               \/ ~op.fit
               \/ op.step > StepMax
               \/ op.value.device[1] \notin Built \cup {"cpu"}

(***************************************************************************)
(* ComputesAsDocumented: ms_deform_attn computes low-precision inputs in   *)
(* float32 and double in double; explicit low precision is answered in the *)
(* input's dtype, and under autocast in float32 (functional.py, the        *)
(* docstring).  Mixed precision runs under autocast and is refused outside.*)
(* The Hub's explicit backward promotes to float32 and answers in the      *)
(* input's dtype, whatever the precision of the gradient it was given      *)
(* (kernel-hub/README.md, "Contracts").                                    *)
(***************************************************************************)
ComputesAsDocumented ==
    /\ call.entry = "ms_deform_attn_backward" /\ stage = "returned" =>
        /\ op.value.dtype = IF call.value.dtype = "float64" THEN "float64" ELSE "float32"
        /\ \A k \in 1 .. 3 : result[k].dtype = call.value.dtype
        /\ \A t \in {call.locations, call.weights} : t.dtype = call.value.dtype
    /\ call.entry = "ms_deform_attn" =>
        /\ stage = "returned" /\ ~backprop =>
               /\ op.value.dtype = IF call.value.dtype = "float64" THEN "float64" ELSE "float32"
               /\ result[1].dtype = IF call.autocast /\ call.value.dtype \in LowPrecision
                                    THEN op.value.dtype ELSE call.value.dtype
               /\ ~UnderAutocast(call) =>
                      \A t \in {call.locations, call.weights} : t.dtype = call.value.dtype
        /\ stage = "raised" /\ UnderAutocast(call) /\ NativeAccepts(
               [call EXCEPT !.entry = "forward",
                            !.value = Float(@), !.locations = Float(@), !.weights = Float(@)]) =>
               \E t \in {call.value, call.locations, call.weights} :
                   t.dtype \notin LowPrecision \cup {"float32"}

=============================================================================
