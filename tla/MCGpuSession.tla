---------------------------- MODULE MCGpuSession ----------------------------
(* GpuSession on three controllers: one that may leave a stale file, one     *)
(* whose run may raise over its worker, and two that may race to reclaim.    *)
EXTENDS GpuSession
=============================================================================
