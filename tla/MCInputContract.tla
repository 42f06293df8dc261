--------------------------- MODULE MCInputContract ---------------------------
(* InputContract on calls that deviate from a well-formed one in one way or in two. *)
EXTENDS InputContract

Cpu == <<"cpu", 0>>
Devices == {Cpu, <<"cuda", 0>>, <<"cuda", 1>>, <<"mps", 0>>, <<"xpu", 0>>}
Floats == {"float16", "bfloat16", "float32", "float64"}

Tensor(shape, dtype, device) == [shape |-> shape, dtype |-> dtype, device |-> device]

(* A well-formed float32 call; z names a size that is zero, or none.  No level fits an empty value. *)
Formed(entry, device, z) ==
    LET size == [k \in 1 .. 7 |-> IF k = z THEN 0 ELSE <<1, 4, 2, 3, 1, 4, 2>>[k]]
        \* N, S, M, D, L, Q, P
    IN  [entry |-> entry, step |-> 1, fit |-> z # 2, autocast |-> FALSE, compiled |-> FALSE,
         value |-> Tensor(<<size[1], size[2], size[3], size[4]>>, "float32", device),
         shapes |-> Tensor(<<size[5], 2>>, "int64", device),
         starts |-> Tensor(<<size[5]>>, "int64", device),
         locations |-> Tensor(<<size[1], size[6], size[3], size[5], size[7], 2>>, "float32", device),
         weights |-> Tensor(<<size[1], size[6], size[3], size[5], size[7]>>, "float32", device),
         grad |-> Tensor(<<size[1], size[6], size[3] * size[4]>>, "float32", device)]

Direct == {"ms_deform_attn", "forward", "backward"}
Tensors == {"value", "shapes", "starts", "locations", "weights", "grad"}

Wellformed == {Formed(e, d, z) : e \in Direct, d \in Devices, z \in 0 .. 7}

(* One tensor of another shape: a size more, a dimension more or one less. *)
Deviations(shape) ==
    {[shape EXCEPT ![k] = @ + 1] : k \in DOMAIN shape}
        \cup {SubSeq(shape, 1, Len(shape) - 1), Append(shape, 1)}

Reshaped ==
    UNION {{[Formed(e, d, 0) EXCEPT ![f].shape = s] : s \in Deviations(Formed(e, d, 0)[f].shape)} :
               e \in Direct, d \in Devices, f \in Tensors}

(* Every combination of dtypes of the floating tensors, and of integer dtypes. *)
Retyped ==
    {[Formed(e, d, 0) EXCEPT !.value.dtype = v, !.locations.dtype = l,
                             !.weights.dtype = w, !.grad.dtype = g, !.autocast = a] :
        e \in Direct, d \in Devices, v \in Floats, l \in Floats, w \in Floats,
        g \in {"float32", "float64"}, a \in BOOLEAN}
    \cup {[Formed(e, d, 0) EXCEPT ![f].dtype = "int32"] :
        e \in Direct, d \in Devices, f \in {"shapes", "starts"}}

(* One tensor on another device, other steps, and contents that do not fit. *)
Displaced ==
    {[Formed(e, d, 0) EXCEPT ![f].device = g] :
        e \in Direct, d \in Devices, f \in Tensors, g \in Devices}
    \cup {[Formed(e, d, 0) EXCEPT !.step = s, !.fit = b] :
        e \in Direct, d \in Devices, s \in {0, 1, StepMax, StepMax + 1}, b \in BOOLEAN}

(* The Hub package has kernels for CUDA only. *)
HubCalls ==
    {[Formed("ms_deform_attn_backward", <<"cuda", 0>>, z) EXCEPT !.step = s] : z \in 0 .. 7, s \in 0 .. 1}
    \cup {[Formed("ms_deform_attn_backward", <<"cuda", 0>>, 0) EXCEPT
              !.value.dtype = v, !.locations.dtype = l, !.weights.dtype = w, !.grad.dtype = g] :
              v \in Floats, l \in Floats, w \in Floats, g \in Floats}

MCCalls ==
    {[c EXCEPT !.compiled = b] :
        c \in Wellformed \cup Reshaped \cup Retyped \cup Displaced \cup HubCalls, b \in BOOLEAN}

MCBuilt == {"cuda", "mps"}
MCAutocastDevices == {"cpu", "cuda", "mps"}

=============================================================================
