----------------------------- MODULE MCJitQueue -----------------------------
(* The queue never tells two resources apart, so one stands for all; the    *)
(* user drops the same file, or another one.                                *)
EXTENDS JitQueue
MCResource == {"song"}
MCForeign == {"song", "dropped"}
=============================================================================
