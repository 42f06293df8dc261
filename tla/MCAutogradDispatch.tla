------------------------ MODULE MCAutogradDispatch ------------------------
(* Two threads, calls that differ in build, device, layout, step and flag; *)
(* one step too large, one device that was not built.                      *)
EXTENDS AutogradDispatch, TLC

CONSTANTS t1, t2

Interchangeable == Permutations({t1, t2})

Args(ns, device, contiguous, requires, step, check) ==
    [ns |-> ns, device |-> device, inputs |-> 0, contiguous |-> contiguous,
     requires |-> requires, step |-> step, check_cuda_metadata |-> check]

Assorted ==
    {Args("torch_ms_deform_attn", "cpu", {"inputs"}, {}, 1, FALSE),
     Args("torch_ms_deform_attn", "cpu", {"inputs"}, {"v"}, 2, TRUE),
     Args("torch_ms_deform_attn", "cuda", {}, {"w"}, 1, FALSE),
     Args("kernel_hub", "cuda", {"inputs"}, {"v", "l"}, 2, TRUE),
     Args("kernel_hub", "cuda", {"g"}, {"g"}, 1, TRUE),
     Args("torch_ms_deform_attn", "cpu", {"inputs"}, {"l"}, 4, FALSE),
     Args("torch_ms_deform_attn", "mps", {"inputs"}, {"v"}, 2, FALSE)}

=============================================================================
