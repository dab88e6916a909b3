--------------------------- MODULE MCApplication ---------------------------
EXTENDS Application

\* pipeline.window_stride of the configuration, smaller than a window.
CONSTANT Stride

ASSUME StrideAssumption == Stride \in 1..(WindowLength - 1)

(* Consecutive windows start the configured stride apart.                   *)
StrideHonoured == WindowsAStrideApart(Stride)
=============================================================================
