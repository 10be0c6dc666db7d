---------------------------- MODULE MCMediaQueue ----------------------------
(***************************************************************************)
(* Two lanes under one worker id, as after a restart with a fixed          *)
(* MEDIA_WORKER_ID, and one market of two tokens, or of one.               *)
(***************************************************************************)
EXTENDS MediaQueue, TLC

CONSTANTS t1, t2, l1, l2, w, c1, c2

MCMarket == {{t1, t2}}
MCOneToken == {{t1}}
MCWorkerId == [l \in Lane |-> w]

\* The lanes run one program under one id, and no image is special.
Lanes == Permutations({l1, l2})
=============================================================================
