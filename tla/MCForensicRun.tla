---------------------------- MODULE MCForensicRun ----------------------------
(* ForensicRun as TLC checks it; the constants are set in ForensicRun.cfg.  *)
EXTENDS ForensicRun
==============================================================================
